--------------------------- MODULE MemoryStreamProofs ---------------------------
(* Proofs about the in-process stream bridge of a run, for every queue size   *)
(* and any number of subscribers, logs, events and waiting writers.           *)
EXTENDS MemoryStream, SequenceTheorems, TLAPS

(* The offset behind the last event of a log.                                 *)
Tip(g) == streams[g].start + Len(streams[g].events)

(* The id before an offset.                                                   *)
Before(g, n) == IF n = 0 THEN NoId ELSE [gen |-> g, seq |-> n - 1]

InLine(g, kind) == \E i \in 1 .. Len(waiting[g]) : waiting[g][i].kind = kind

(* A log holds consecutive events, and has evicted the one before them.       *)
Holds(s, g) ==
    /\ \A i \in 1 .. Len(s.events) : s.events[i] = [gen |-> g, seq |-> s.start + i - 1]
    /\ s.start + Len(s.events) <= MaxSeq
    /\ ~s.retired => s.evicted = Before(g, s.start)
    /\ s.ended => s.closed = s.start + Len(s.events)

(* The registered log is the only one that was made and is not retired.  A    *)
(* retired log that END reaches, or will reach, holds nothing.                *)
Stands(g) ==
    /\ g > made => streams[g] = NewStream /\ waiting[g] = <<>>
    /\ g <= made /\ ~streams[g].retired => g = current
    /\ streams[g].retired => g # current /\ g <= made
    /\ streams[g].ended => producing = "ended"
    /\ streams[g].retired /\ (streams[g].ended \/ InLine(g, "end")) => streams[g].events = <<>>

(* At most one publish is in line, and it carries the next id of its log.     *)
LineFits(g) ==
    /\ \A i \in 1 .. Len(waiting[g]) : waiting[g][i].kind = "publish" =>
         /\ producing = "busy" /\ waiting[g][i].id = [gen |-> g, seq |-> Tip(g)]
         /\ \A h \in Gens : \A j \in 1 .. Len(waiting[h]) :
              waiting[h][j].kind = "publish" => h = g /\ j = i
    /\ InLine(g, "end") => producing = "ended"

(* The counter is one ahead of the registered log while a publish is in line. *)
Registered ==
    /\ current \in {0, made}
    /\ current # 0 => counter = Tip(current) + (IF InLine(current, "publish") THEN 1 ELSE 0)

Heard(c, from, to, g) == \A n \in from .. to : [gen |-> g, seq |-> n] \in seen[c]

(* What a subscriber has passed it has received, also what lies before the    *)
(* cursor with which it may come back to the newest log.                      *)
SubFits(c) ==
    /\ sub[c].pc \in {"attached", "reading", "end"} => sub[c].gen \in 1 .. made
    /\ sub[c].pc = "reading" => sub[c].next <= Tip(sub[c].gen)
    /\ sub[c].pc \in {"reading", "end"} => Heard(c, sub[c].from, sub[c].next - 1, sub[c].gen)
    /\ sub[c].pc = "end" =>
         streams[sub[c].gen].ended /\ sub[c].next >= streams[sub[c].gen].closed
    /\ sub[c].cursor.gen <= made
    /\ sub[c].cursor.gen # 0 /\ sub[c].cursor.gen = made =>
         sub[c].cursor.seq < Tip(made) /\ Heard(c, sub[c].from, sub[c].cursor.seq, made)

StreamInvariant ==
    /\ TypeOK /\ Registered
    /\ \A g \in Gens : Holds(streams[g], g) /\ Stands(g) /\ LineFits(g)
    /\ \A c \in Clients : SubFits(c)
-----------------------------------------------------------------------------
(* What is in a record of each type.                                          *)
LEMMA StreamFields ==
    ASSUME StreamAssumption, NEW s \in Stream
    PROVE  /\ s.events \in Seq(Ids) /\ s.start \in 0 .. MaxSeq /\ s.ended \in BOOLEAN
           /\ s.evicted \in Ids \cup {NoId} /\ s.retired \in BOOLEAN /\ s.closed \in 0 .. MaxSeq
           /\ Len(s.events) \in Nat /\ DOMAIN s.events = 1 .. Len(s.events)
           /\ s.start + Len(s.events) \in Nat
<1>1. /\ s.events \in Seq(Ids) /\ s.start \in 0 .. MaxSeq /\ s.ended \in BOOLEAN
      /\ s.evicted \in Ids \cup {NoId} /\ s.retired \in BOOLEAN /\ s.closed \in 0 .. MaxSeq
  BY DEF Stream
<1>2. Len(s.events) \in Nat /\ DOMAIN s.events = 1 .. Len(s.events)
  BY <1>1, LenProperties
<1> QED BY <1>1, <1>2 DEF StreamAssumption

LEMMA IdFields ==
    /\ \A x \in Ids : x.gen \in Gens /\ x.seq \in 0 .. MaxSeq - 1 /\ x = [gen |-> x.gen, seq |-> x.seq]
    /\ NoId.gen = 0 /\ NoId.seq = 0 /\ Foreign.gen = 0 /\ Foreign.seq = -1
    /\ \A g \in Gens, n \in 0 .. MaxSeq - 1 : [gen |-> g, seq |-> n] \in Ids
BY DEF Ids, NoId, Foreign

LEMMA OpFields ==
    /\ \A x \in Op : x.kind \in {"publish", "end", "cleanup"}
    /\ \A x \in Op : x.kind = "publish" => x.id \in Ids
    /\ \A x \in Ids : [kind |-> "publish", id |-> x] \in Op
    /\ [kind |-> "end", id |-> NoId] \in Op /\ [kind |-> "cleanup", id |-> NoId] \in Op
BY DEF Op

LEMMA SubscriptionFields ==
    ASSUME NEW u \in Subscription
    PROVE  /\ u.pc \in {"idle", "attached", "reading", "gap", "end"}
           /\ u.gen \in 0 .. MaxGens /\ u.next \in 0 .. MaxSeq /\ u.from \in 0 .. MaxSeq
           /\ u.cursor \in Ids \cup {NoId, Foreign}
BY DEF Subscription

(* What the invariant says of one log and one subscriber.                     *)
LEMMA Facts ==
    ASSUME StreamAssumption, StreamInvariant
    PROVE  /\ \A g \in Gens : /\ streams[g] \in Stream /\ waiting[g] \in Seq(Op)
                              /\ Len(waiting[g]) \in Nat /\ Tip(g) \in Nat /\ Tip(g) <= MaxSeq
                              /\ Holds(streams[g], g) /\ Stands(g) /\ LineFits(g)
           /\ \A c \in Clients : sub[c] \in Subscription /\ SubFits(c)
           /\ made \in 0 .. MaxGens /\ current \in {0, made} /\ counter \in 0 .. MaxSeq
           /\ MaxSeq \in Nat /\ MaxGens \in Nat \ {0} /\ MaxSize \in Nat \ {0}
<1>1. ASSUME NEW g \in Gens
      PROVE  /\ streams[g] \in Stream /\ waiting[g] \in Seq(Op)
             /\ Len(waiting[g]) \in Nat /\ Tip(g) \in Nat /\ Tip(g) <= MaxSeq
             /\ Holds(streams[g], g) /\ Stands(g) /\ LineFits(g)
  <2>1. streams[g] \in Stream /\ waiting[g] \in Seq(Op)
    BY DEF StreamInvariant, TypeOK
  <2>2. Len(waiting[g]) \in Nat
    BY <2>1, LenProperties
  <2>3. Holds(streams[g], g) /\ Stands(g) /\ LineFits(g)
    BY DEF StreamInvariant
  <2>4. Tip(g) \in Nat /\ Tip(g) <= MaxSeq
    BY <2>1, <2>3, StreamFields DEF Tip, Holds
  <2> QED BY <2>1, <2>2, <2>3, <2>4
<1>2. \A c \in Clients : sub[c] \in Subscription /\ SubFits(c)
  BY DEF StreamInvariant, TypeOK
<1>3. made \in 0 .. MaxGens /\ current \in {0, made} /\ counter \in 0 .. MaxSeq
  BY DEF StreamInvariant, TypeOK, Registered
<1>4. MaxSeq \in Nat /\ MaxGens \in Nat \ {0} /\ MaxSize \in Nat \ {0}
  BY DEF StreamAssumption
<1> QED BY <1>1, <1>2, <1>3, <1>4
-----------------------------------------------------------------------------
(* What is left of a sequence without its first elements.                     *)
LEMMA Suffix ==
    ASSUME NEW S, NEW all \in Seq(S), NEW over \in Nat, over < Len(all)
    PROVE  /\ SubSeq(all, over + 1, Len(all)) \in Seq(S)
           /\ Len(SubSeq(all, over + 1, Len(all))) = Len(all) - over
           /\ \A i \in 1 .. Len(all) - over : SubSeq(all, over + 1, Len(all))[i] = all[over + i]
<1> DEFINE m == over + 1
           n == Len(all)
<1>1. n \in Nat /\ m \in Int /\ n \in Int /\ m <= n /\ n - m + 1 = n - over
  BY LenProperties
<1>2. \A i \in m .. n : all[i] \in S
  BY <1>1, ElementOfSeq
<1>3. \A i \in Int : m + i - 1 = over + i
  OBVIOUS
<1> HIDE DEF m, n
<1>4. /\ SubSeq(all, m, n) \in Seq(S)
      /\ Len(SubSeq(all, m, n)) = IF m <= n THEN n - m + 1 ELSE 0
      /\ \A i \in 1 .. n - m + 1 : SubSeq(all, m, n)[i] = all[m + i - 1]
  BY <1>1, <1>2, SubSeqProperties
<1>5. \A i \in 1 .. n - over : SubSeq(all, m, n)[i] = all[over + i]
  BY <1>1, <1>3, <1>4
<1>6. Len(SubSeq(all, m, n)) = n - over
  BY <1>1, <1>4
<1> QED BY <1>4, <1>5, <1>6 DEF m, n

(* The three blocks under the Condition keep a log's events consecutive.      *)
LEMMA AppendHolds ==
    ASSUME StreamAssumption, NEW g \in Gens, NEW s \in Stream, Holds(s, g), ~s.ended,
           Len(s.events) <= MaxSize, NEW id \in Ids, id = [gen |-> g, seq |-> s.start + Len(s.events)]
    PROVE  LET t == AppendEvent(s, id)
           IN  /\ t \in Stream /\ Holds(t, g) /\ Len(t.events) <= MaxSize
               /\ t.start + Len(t.events) = s.start + Len(s.events) + 1
               /\ t.ended = s.ended /\ t.retired = s.retired /\ t.closed = s.closed
<1> DEFINE len  == Len(s.events)
           all  == Append(s.events, id)
           over == IF Len(all) > MaxSize THEN Len(all) - MaxSize ELSE 0
           kept == SubSeq(all, over + 1, Len(all))
           gone == IF over > 0 THEN all[over] ELSE s.evicted
           t    == AppendEvent(s, id)
           first == s.start + over
<1>1. /\ s.events \in Seq(Ids) /\ s.start \in 0 .. MaxSeq /\ s.ended \in BOOLEAN
      /\ s.evicted \in Ids \cup {NoId} /\ s.retired \in BOOLEAN /\ s.closed \in 0 .. MaxSeq
      /\ len \in Nat
  BY StreamFields
<1>2. /\ all \in Seq(Ids) /\ Len(all) = len + 1
      /\ \A i \in 1 .. len : all[i] = s.events[i]
      /\ all[len + 1] = id
  BY <1>1, AppendProperties
<1>3. MaxSize \in Nat \ {0} /\ MaxSeq \in Nat
  BY DEF StreamAssumption
<1>4. over \in {0, 1} /\ (over = 1 => len = MaxSize) /\ (over = 0 => len + 1 <= MaxSize)
  BY <1>1, <1>2, <1>3
<1>5. /\ t.events = kept /\ t.start = first /\ t.evicted = gone
      /\ t.ended = s.ended /\ t.retired = s.retired /\ t.closed = s.closed
  BY DEF AppendEvent, Stream
<1>6. t = [s EXCEPT !.events = kept, !.evicted = gone, !.start = first]
  BY DEF AppendEvent
<1>7. len \in Nat /\ s.start \in Nat /\ over \in {0, 1} /\ len + 1 - over <= MaxSize
  BY <1>1, <1>3, <1>4
<1> HIDE DEF t, kept, gone, over, all, first
<1>8. /\ \A i \in 1 .. len : s.events[i] = [gen |-> g, seq |-> s.start + i - 1]
      /\ ~s.retired => s.evicted = Before(g, s.start)
  BY DEF Holds
<1>9. id.seq = s.start + len /\ id.seq \in 0 .. MaxSeq - 1
  BY IdFields
<1>10. \A i \in 1 .. len + 1 : all[i] = [gen |-> g, seq |-> s.start + i - 1]
  <2> SUFFICES ASSUME NEW i \in 1 .. len + 1
               PROVE  all[i] = [gen |-> g, seq |-> s.start + i - 1]
    OBVIOUS
  <2>1. CASE i \in 1 .. len
    BY <1>2, <1>8, <2>1
  <2>2. CASE i = len + 1
    <3>1. s.start + len = s.start + i - 1
      BY <1>7, <2>2
    <3>2. all[i] = [gen |-> g, seq |-> s.start + len]
      BY <1>2, <2>2
    <3> QED BY <3>1, <3>2
  <2> QED BY <1>7, <2>1, <2>2
<1> HIDE DEF len
<1>11. \A i \in 1 .. len + 1 : all[i] \in Ids
  <2>1. \A i \in 1 .. Len(all) : all[i] \in Ids
    BY <1>2, ElementOfSeq
  <2> QED BY <2>1, <1>2
<1>12. /\ kept \in Seq(Ids) /\ Len(kept) = len + 1 - over
       /\ \A i \in 1 .. len + 1 - over : kept[i] = all[over + i]
  <2>1. over \in Nat /\ over < Len(all)
    BY <1>2, <1>3, <1>4, <1>7
  <2>2. /\ kept \in Seq(Ids) /\ Len(kept) = Len(all) - over
        /\ \A i \in 1 .. Len(all) - over : kept[i] = all[over + i]
    BY <2>1, <1>2, Suffix DEF kept
  <2>3. Len(all) = len + 1
    BY <1>2
  <2>4. \A i \in 1 .. len + 1 - over : kept[i] = all[over + i]
    BY <2>2, <2>3, <1>7
  <2>5. kept \in Seq(Ids)
    BY <2>2
  <2>6. Len(kept) = len + 1 - over
    BY <2>2, <2>3, <1>7
  <2> QED BY <2>4, <2>5, <2>6
<1>13. Len(kept) = len + 1 - over
  BY <1>12
<1>14. \A i \in 1 .. Len(kept) : kept[i] = [gen |-> g, seq |-> s.start + over + i - 1]
  <2> SUFFICES ASSUME NEW i \in 1 .. Len(kept)
               PROVE  kept[i] = [gen |-> g, seq |-> s.start + over + i - 1]
    OBVIOUS
  <2>1. over + i \in 1 .. len + 1
    BY <1>7, <1>12
  <2>2. kept[i] = all[over + i]
    BY <1>12
  <2>3. all[over + i] = [gen |-> g, seq |-> s.start + (over + i) - 1]
    BY <2>1, <1>10
  <2>4. s.start + (over + i) - 1 = s.start + over + i - 1
    BY <1>7
  <2> QED BY <2>2, <2>3, <2>4
<1>15. /\ gone \in Ids \cup {NoId}
       /\ ~s.retired => gone = Before(g, first)
  <2>1. CASE over = 0
    <3>1. gone = s.evicted
      BY <2>1 DEF gone
    <3>2. first = s.start
      BY <2>1, <1>7 DEF first
    <3> QED BY <3>1, <3>2, <1>1, <1>8
  <2>2. CASE over = 1
    <3>1. gone = all[1]
      BY <2>2 DEF gone
    <3>2. 1 \in 1 .. len + 1
      BY <1>7
    <3>3. all[1] = [gen |-> g, seq |-> s.start + 1 - 1] /\ all[1] \in Ids
      BY <3>2, <1>10, <1>11
    <3>4. first # 0 /\ first - 1 = s.start + 1 - 1
      BY <2>2, <1>7 DEF first
    <3>5. Before(g, first) = [gen |-> g, seq |-> first - 1]
      BY <3>4, Zenon DEF Before
    <3> QED BY <3>1, <3>3, <3>4, <3>5
  <2> QED BY <1>7, <2>1, <2>2
<1>16. first + Len(kept) = s.start + len + 1 /\ Len(kept) <= MaxSize
  BY <1>7, <1>13 DEF first
<1>17. s.start + len + 1 <= MaxSeq /\ first \in 0 .. MaxSeq
  <2>1. s.start + len <= MaxSeq - 1
    BY <1>3, <1>9
  <2> QED BY <2>1, <1>3, <1>7, <1>13 DEF first
<1>18. t \in Stream
  BY <1>6, <1>12, <1>15, <1>17, Zenon DEF Stream
<1>19. Holds(t, g)
  <2>1. t.start + Len(t.events) <= MaxSeq
    BY <1>5, <1>16, <1>17
  <2>2. \A i \in 1 .. Len(t.events) : t.events[i] = [gen |-> g, seq |-> t.start + i - 1]
    BY <1>5, <1>14 DEF first
  <2>3. ~t.retired => t.evicted = Before(g, t.start)
    BY <1>5, <1>15
  <2>4. ~t.ended
    BY <1>5
  <2> QED BY <2>1, <2>2, <2>3, <2>4 DEF Holds
<1>20. Len(t.events) <= MaxSize /\ t.start + Len(t.events) = s.start + len + 1
  BY <1>5, <1>16
<1> QED BY <1>5, <1>18, <1>19, <1>20 DEF t, len

LEMMA EndHolds ==
    ASSUME StreamAssumption, NEW g \in Gens, NEW s \in Stream, Holds(s, g)
    PROVE  LET t == EndStream(s)
           IN  /\ t \in Stream /\ Holds(t, g) /\ t.events = s.events /\ t.start = s.start
               /\ t.ended /\ t.retired = s.retired /\ (s.ended => t.closed = s.closed)
<1> DEFINE t == EndStream(s)
           tip == IF s.ended THEN s.closed ELSE s.start + Len(s.events)
<1>1. /\ s.events \in Seq(Ids) /\ s.start \in 0 .. MaxSeq /\ s.ended \in BOOLEAN
      /\ s.evicted \in Ids \cup {NoId} /\ s.retired \in BOOLEAN /\ s.closed \in 0 .. MaxSeq
      /\ s.start + Len(s.events) \in Nat
  BY StreamFields
<1>2. /\ t.events = s.events /\ t.start = s.start /\ t.evicted = s.evicted
      /\ t.ended /\ t.retired = s.retired /\ t.closed = tip
  BY DEF EndStream, Stream
<1>3. tip \in 0 .. MaxSeq /\ tip = s.start + Len(s.events)
  BY <1>1 DEF Holds, StreamAssumption
<1>4. t = [s EXCEPT !.ended = TRUE, !.closed = tip]
  BY DEF EndStream
<1> HIDE DEF t, tip
<1>5. t \in Stream
  BY <1>3, <1>4, Zenon DEF Stream
<1>6. Holds(t, g)
  BY <1>2, <1>3 DEF Holds
<1>7. s.ended => t.closed = s.closed
  BY <1>2 DEF tip
<1> QED BY <1>2, <1>5, <1>6, <1>7 DEF t

LEMMA RetireHolds ==
    ASSUME StreamAssumption, NEW g \in Gens, NEW s \in Stream, Holds(s, g)
    PROVE  LET t == Retire(s)
           IN  /\ t \in Stream /\ Holds(t, g) /\ t.events = <<>> /\ Len(t.events) = 0
               /\ t.start + Len(t.events) = s.start + Len(s.events)
               /\ t.ended = s.ended /\ t.retired /\ t.closed = s.closed
<1> DEFINE t == Retire(s)
           tip == s.start + Len(s.events)
<1>1. /\ s.events \in Seq(Ids) /\ s.start \in 0 .. MaxSeq /\ s.ended \in BOOLEAN
      /\ s.evicted \in Ids \cup {NoId} /\ s.retired \in BOOLEAN /\ s.closed \in 0 .. MaxSeq
      /\ tip \in Nat
  BY StreamFields
<1>2. tip \in 0 .. MaxSeq
  BY <1>1 DEF Holds, StreamAssumption
<1>3. /\ t.events = <<>> /\ t.start = tip /\ t.evicted = s.evicted
      /\ t.ended = s.ended /\ t.retired /\ t.closed = s.closed
  BY DEF Retire, Stream
<1>4. t = [s EXCEPT !.retired = TRUE, !.start = tip, !.events = <<>>]
  BY DEF Retire
<1>5. <<>> \in Seq(Ids) /\ Len(<<>>) = 0
  BY EmptySeq
<1>6. tip <= MaxSeq /\ (s.ended => s.closed = tip)
  BY DEF Holds
<1> HIDE DEF t, tip
<1>7. t \in Stream
  BY <1>2, <1>4, <1>5, Zenon DEF Stream
<1>8. Holds(t, g)
  BY <1>1, <1>3, <1>5, <1>6 DEF Holds
<1>9. t.start + Len(t.events) = tip /\ Len(t.events) = 0
  BY <1>1, <1>3, <1>5
<1> QED BY <1>3, <1>7, <1>8, <1>9 DEF t, tip

-----------------------------------------------------------------------------
LEMMA NewHolds ==
    ASSUME StreamAssumption, NEW g \in Gens
    PROVE  /\ NewStream \in Stream /\ Holds(NewStream, g)
           /\ NewStream.start + Len(NewStream.events) = 0 /\ Len(NewStream.events) <= MaxSize
           /\ ~NewStream.ended /\ ~NewStream.retired
<1>1. <<>> \in Seq(Ids) /\ Len(<<>>) = 0 /\ 0 \in 0 .. MaxSeq
  BY EmptySeq DEF StreamAssumption
<1>2. NewStream \in Stream
  BY <1>1 DEF NewStream, Stream
<1>3. /\ NewStream.start = 0 /\ NewStream.events = <<>> /\ NewStream.evicted = NoId
      /\ ~NewStream.ended /\ ~NewStream.retired
  BY DEF NewStream
<1>4. Before(g, 0) = NoId
  BY DEF Before
<1>5. Holds(NewStream, g)
  BY <1>1, <1>3, <1>4 DEF Holds
<1> QED BY <1>1, <1>2, <1>3, <1>5 DEF StreamAssumption

(* Taking or making the registered log.                                       *)
LEMMA RegisterStep ==
    ASSUME StreamAssumption, StreamInvariant, NEW g \in Gens, GetOrCreate(g), Register(g)
    PROVE  /\ current' = g /\ made' = g /\ g \in 1 .. MaxGens /\ made <= made'
           /\ ~streams[g].retired
           /\ current = 0 => g = made + 1 /\ Tip(g) = 0 /\ waiting[g] = <<>> /\ streams[g] = NewStream
           /\ current # 0 => g = current /\ g = made
<1>1. made \in Nat /\ current \in {0, made} /\ Stands(g) /\ g \in 1 .. MaxGens
  BY Facts DEF Gens
<1>2. CASE current = 0
  <2>1. g = made + 1 /\ made' = g /\ current' = g
    BY <1>1, <1>2 DEF GetOrCreate, Register
  <2>2. streams[g] = NewStream /\ waiting[g] = <<>>
    BY <1>1, <2>1 DEF Stands
  <2>3. Tip(g) = 0 /\ ~streams[g].retired
    BY <2>2, NewHolds DEF Tip
  <2> QED BY <1>1, <1>2, <2>1, <2>2, <2>3
<1>3. CASE current # 0
  <2>1. g = current /\ g = made
    BY <1>1, <1>3 DEF GetOrCreate
  <2>2. made' = g /\ current' = g
    BY <1>1, <2>1 DEF Register
  <2>3. ~streams[g].retired
    BY <1>1, <2>1, Facts DEF Stands
  <2> QED BY <1>1, <1>3, <2>1, <2>2, <2>3
<1> QED BY <1>2, <1>3

(* Joining a line.                                                            *)
LEMMA EnqueueStep ==
    ASSUME StreamAssumption, StreamInvariant, NEW g \in Gens, NEW op \in Op, Enqueue(g, op)
    PROVE  /\ waiting' \in [Gens -> Seq(Op)]
           /\ Len(waiting'[g]) = Len(waiting[g]) + 1
           /\ waiting'[g][Len(waiting[g]) + 1] = op
           /\ \A i \in 1 .. Len(waiting[g]) : waiting'[g][i] = waiting[g][i]
           /\ \A h \in Gens \ {g} : waiting'[h] = waiting[h]
           /\ \A h \in Gens, kind \in {"publish", "end", "cleanup"} :
                InLine(h, kind)' <=> InLine(h, kind) \/ (h = g /\ op.kind = kind)
<1>1. waiting \in [Gens -> Seq(Op)] /\ waiting[g] \in Seq(Op) /\ Len(waiting[g]) \in Nat
  BY Facts DEF StreamInvariant, TypeOK
<1>2. /\ waiting'[g] = Append(waiting[g], op)
      /\ \A h \in Gens \ {g} : waiting'[h] = waiting[h]
  BY <1>1 DEF Enqueue
<1>3. /\ Append(waiting[g], op) \in Seq(Op) /\ Len(waiting'[g]) = Len(waiting[g]) + 1
      /\ waiting'[g][Len(waiting[g]) + 1] = op
      /\ \A i \in 1 .. Len(waiting[g]) : waiting'[g][i] = waiting[g][i]
  BY <1>1, <1>2, AppendProperties
<1>4. waiting' \in [Gens -> Seq(Op)]
  BY <1>1, <1>3 DEF Enqueue
<1>5. ASSUME NEW h \in Gens, NEW kind \in {"publish", "end", "cleanup"}
      PROVE  InLine(h, kind)' <=> InLine(h, kind) \/ (h = g /\ op.kind = kind)
  <2>1. CASE h # g
    BY <1>2, <2>1 DEF InLine
  <2>2. CASE h = g
    <3>1. ASSUME InLine(g, kind)' PROVE InLine(g, kind) \/ op.kind = kind
      <4>1. PICK i \in 1 .. Len(waiting'[g]) : waiting'[g][i].kind = kind
        BY <3>1 DEF InLine
      <4>2. CASE i \in 1 .. Len(waiting[g])
        BY <4>1, <4>2, <1>3 DEF InLine
      <4>3. CASE i = Len(waiting[g]) + 1
        BY <4>1, <4>3, <1>3
      <4> QED BY <4>2, <4>3, <1>1, <1>3
    <3>2. ASSUME InLine(g, kind) PROVE InLine(g, kind)'
      <4>1. PICK i \in 1 .. Len(waiting[g]) : waiting[g][i].kind = kind
        BY <3>2 DEF InLine
      <4>2. i \in 1 .. Len(waiting'[g]) /\ waiting'[g][i].kind = kind
        BY <4>1, <1>1, <1>3
      <4> QED BY <4>2 DEF InLine
    <3>3. ASSUME op.kind = kind PROVE InLine(g, kind)'
      <4>1. Len(waiting[g]) + 1 \in 1 .. Len(waiting'[g])
        BY <1>1, <1>3
      <4> QED BY <4>1, <3>3, <1>3 DEF InLine
    <3> QED BY <2>2, <3>1, <3>2, <3>3
  <2> QED BY <2>1, <2>2
<1> QED BY <1>2, <1>3, <1>4, <1>5

(* Leaving a line.                                                            *)
LEMMA DequeueStep ==
    ASSUME StreamAssumption, StreamInvariant, NEW g \in Gens, waiting[g] # <<>>,
           waiting' = [waiting EXCEPT ![g] = Tail(@)]
    PROVE  /\ waiting' \in [Gens -> Seq(Op)]
           /\ 1 \in 1 .. Len(waiting[g]) /\ Head(waiting[g]) = waiting[g][1] /\ waiting[g][1] \in Op
           /\ Len(waiting'[g]) = Len(waiting[g]) - 1
           /\ \A i \in 1 .. Len(waiting'[g]) :
                i + 1 \in 1 .. Len(waiting[g]) /\ waiting'[g][i] = waiting[g][i + 1]
           /\ \A h \in Gens \ {g} : waiting'[h] = waiting[h]
           /\ \A h \in Gens, kind \in {"publish", "end", "cleanup"} :
                InLine(h, kind)' => InLine(h, kind)
<1>1. waiting \in [Gens -> Seq(Op)] /\ waiting[g] \in Seq(Op) /\ Len(waiting[g]) \in Nat
  BY Facts DEF StreamInvariant, TypeOK
<1>2. /\ waiting'[g] = Tail(waiting[g])
      /\ \A h \in Gens \ {g} : waiting'[h] = waiting[h]
  BY <1>1
<1>3. /\ Tail(waiting[g]) \in Seq(Op) /\ Len(waiting'[g]) = Len(waiting[g]) - 1
      /\ \A i \in 1 .. Len(waiting'[g]) : waiting'[g][i] = waiting[g][i + 1]
  BY <1>1, <1>2, HeadTailProperties
<1>4. waiting' \in [Gens -> Seq(Op)]
  BY <1>1, <1>3
<1>5. 1 \in 1 .. Len(waiting[g])
  BY <1>1, EmptySeq
<1>6. Head(waiting[g]) = waiting[g][1] /\ waiting[g][1] \in Op
  BY <1>1, <1>5, ElementOfSeq
<1>7. \A i \in 1 .. Len(waiting'[g]) : i + 1 \in 1 .. Len(waiting[g])
  BY <1>1, <1>3, <1>5
<1>8. ASSUME NEW h \in Gens, NEW kind \in {"publish", "end", "cleanup"}, InLine(h, kind)'
      PROVE  InLine(h, kind)
  <2>1. CASE h # g
    BY <1>2, <1>8, <2>1 DEF InLine
  <2>2. CASE h = g
    BY <1>3, <1>7, <1>8, <2>2 DEF InLine
  <2> QED BY <2>1, <2>2
<1> QED BY <1>2, <1>3, <1>4, <1>5, <1>6, <1>7, <1>8

-----------------------------------------------------------------------------
(* A subscriber that does not move is not disturbed when logs grow.           *)
LEMMA SubStays ==
    ASSUME StreamAssumption, StreamInvariant, NEW c \in Clients,
           sub'[c] = sub[c], seen[c] \subseteq seen'[c], made' \in Nat, made <= made',
           \A g \in Gens : /\ Tip(g)' \in Nat /\ Tip(g) <= Tip(g)'
                           /\ streams[g].ended =>
                                streams'[g].ended /\ streams'[g].closed = streams[g].closed
    PROVE  SubFits(c)'
<1>0. PICK u \in Subscription : u = sub[c] /\ u = sub'[c]
  BY Facts
<1>1. /\ SubFits(c) /\ made \in 0 .. MaxGens /\ MaxGens \in Nat
      /\ \A g \in Gens : Tip(g) \in Nat
  BY Facts
<1>2. u.gen \in 0 .. MaxGens /\ u.next \in 0 .. MaxSeq /\ u.from \in 0 .. MaxSeq /\ u.cursor \in Ids \cup {NoId, Foreign}
  BY <1>1, SubscriptionFields
<1>3. u.cursor.gen \in 0 .. MaxGens /\ u.cursor.seq \in Int
  BY SMTT(30), <1>1, <1>2, IdFields, Facts DEF Gens
<1>4. \A from, to, g : Heard(c, from, to, g) => Heard(c, from, to, g)'
  BY DEF Heard
<1>5. u.pc \in {"attached", "reading", "end"} => u.gen \in 1 .. made' /\ u.gen \in Gens
  BY <1>0, <1>1 DEF SubFits, Gens
<1>6. u.pc = "reading" => u.next <= Tip(u.gen)'
  <2> SUFFICES ASSUME u.pc = "reading" PROVE u.next <= Tip(u.gen)'
    OBVIOUS
  <2>1. u.gen \in Gens /\ u.next <= Tip(u.gen)
    BY <1>0, <1>1, <1>5 DEF SubFits
  <2>2. Tip(u.gen) <= Tip(u.gen)' /\ Tip(u.gen) \in Nat /\ Tip(u.gen)' \in Nat
    BY <1>1, <2>1
  <2> QED BY <1>2, <2>1, <2>2
<1>7. u.pc \in {"reading", "end"} => Heard(c, u.from, u.next - 1, u.gen)'
  BY <1>0, <1>1, <1>4 DEF SubFits
<1>8. u.pc = "end" => streams'[u.gen].ended /\ u.next >= streams'[u.gen].closed
  <2> SUFFICES ASSUME u.pc = "end" PROVE streams'[u.gen].ended /\ u.next >= streams'[u.gen].closed
    OBVIOUS
  <2>1. u.gen \in Gens /\ streams[u.gen].ended /\ u.next >= streams[u.gen].closed
    BY <1>0, <1>1, <1>5 DEF SubFits
  <2>2. streams'[u.gen].ended /\ streams'[u.gen].closed = streams[u.gen].closed
    BY <2>1
  <2> QED BY <2>1, <2>2
<1>9. u.cursor.gen <= made'
  BY <1>0, <1>1, <1>3 DEF SubFits
<1>10. u.cursor.gen # 0 /\ u.cursor.gen = made' =>
         u.cursor.seq < Tip(made)' /\ Heard(c, u.from, u.cursor.seq, made)'
  <2> SUFFICES ASSUME u.cursor.gen # 0, u.cursor.gen = made'
               PROVE  u.cursor.seq < Tip(made)' /\ Heard(c, u.from, u.cursor.seq, made)'
    OBVIOUS
  <2>1. u.cursor.gen <= made
    BY <1>0, <1>1 DEF SubFits
  <2>2. PICK m \in Gens : m = made /\ m = made'
    BY <1>1, <1>3, <2>1 DEF Gens
  <2>3. u.cursor.seq < Tip(m) /\ Heard(c, u.from, u.cursor.seq, m)
    BY <1>0, <1>1, <2>2 DEF SubFits
  <2>4. Tip(m) <= Tip(m)' /\ Tip(m) \in Nat /\ Tip(m)' \in Nat
    BY <1>1
  <2>5. Tip(made)' = Tip(m)'
    BY <2>2 DEF Tip
  <2>6. Heard(c, u.from, u.cursor.seq, m)'
    BY <1>4, <2>3
  <2>7. Heard(c, u.from, u.cursor.seq, made)'
    BY Zenon, <2>2, <2>6 DEF Heard
  <2> QED BY <1>3, <2>3, <2>4, <2>5, <2>7
<1> QED BY <1>0, <1>5, <1>6, <1>7, <1>8, <1>9, <1>10 DEF SubFits


(* Taking or making the registered log leaves the others as they stand.       *)
LEMMA RegisterStands ==
    ASSUME StreamAssumption, StreamInvariant, NEW g \in Gens, GetOrCreate(g), Register(g),
           streams' = streams, NEW h \in Gens,
           h # g => waiting'[h] = waiting[h],
           InLine(h, "end")' => InLine(h, "end") \/ h = g,
           streams[h].ended => producing' = "ended"
    PROVE  Stands(h)'
<1>1. /\ current' = g /\ made' = g /\ g \in 1 .. MaxGens /\ made <= made' /\ ~streams[g].retired
      /\ current = 0 => g = made + 1
      /\ current # 0 => g = current /\ g = made
  BY RegisterStep
<1>2. Stands(h) /\ made \in Nat /\ h \in 1 .. MaxGens /\ MaxGens \in Nat
  BY Facts DEF Gens
<1>3. ASSUME h > made' PROVE streams'[h] = NewStream /\ waiting'[h] = <<>>
  <2>1. h > made /\ h # g
    BY <1>1, <1>2, <1>3
  <2> QED BY <1>2, <2>1 DEF Stands
<1>4. ASSUME h <= made', ~streams[h].retired PROVE h = current'
  <2>1. CASE current # 0
    <3>1. h <= made
      BY <2>1, <1>1, <1>4
    <3> QED BY <2>1, <3>1, <1>1, <1>2, <1>4 DEF Stands
  <2>2. CASE current = 0
    <3>1. CASE h <= made
      <4>1. h = current
        BY <3>1, <1>2, <1>4 DEF Stands
      <4> QED BY <4>1, <2>2, <1>2
    <3>2. CASE h = made + 1
      BY <3>2, <2>2, <1>1
    <3> QED BY <3>1, <3>2, <2>2, <1>1, <1>2, <1>4
  <2> QED BY <2>1, <2>2
<1>5. ASSUME streams[h].retired PROVE h # g /\ h <= made'
  <2>1. h # g
    BY <1>1, <1>5
  <2>2. h <= made
    BY <1>2, <1>5 DEF Stands
  <2> QED BY <1>1, <1>2, <2>1, <2>2
<1>6. ASSUME streams[h].retired, streams[h].ended \/ InLine(h, "end")'
      PROVE  streams[h].events = <<>>
  BY <1>2, <1>5, <1>6 DEF Stands
<1>7. streams'[h] = streams[h]
  OBVIOUS
<1> QED BY <1>1, <1>3, <1>4, <1>5, <1>6, <1>7 DEF Stands

(* While no publish is under way, none is in line.                            *)
LEMMA NoPublish ==
    ASSUME StreamAssumption, StreamInvariant, producing # "busy"
    PROVE  /\ \A h \in Gens : \A i \in 1 .. Len(waiting[h]) : waiting[h][i].kind # "publish"
           /\ \A h \in Gens : ~InLine(h, "publish")
BY Facts DEF LineFits, InLine

LEMMA PublishStep ==
    ASSUME StreamAssumption, StreamInvariant, Publish
    PROVE  StreamInvariant'
<1>1. PICK g \in Gens :
        LET seq == IF current = 0 THEN 0 ELSE counter
        IN  /\ GetOrCreate(g) /\ Register(g)
            /\ seq < MaxSeq
            /\ counter' = seq + 1
            /\ Enqueue(g, [kind |-> "publish", id |-> [gen |-> g, seq |-> seq]])
  BY DEF Publish
<1> DEFINE seq == IF current = 0 THEN 0 ELSE counter
           id  == [gen |-> g, seq |-> seq]
           op  == [kind |-> "publish", id |-> id]
<1>2. /\ current' = g /\ made' = g /\ g \in 1 .. MaxGens /\ made <= made' /\ ~streams[g].retired
      /\ current = 0 => g = made + 1 /\ Tip(g) = 0
      /\ current # 0 => g = current /\ g = made
  BY <1>1, RegisterStep
<1>3. producing = "open" /\ producing' = "busy" /\ streams' = streams /\ sub' = sub /\ seen' = seen
  BY DEF Publish
<1>4. \A h \in Gens : /\ \A i \in 1 .. Len(waiting[h]) : waiting[h][i].kind # "publish"
                      /\ ~InLine(h, "publish") /\ ~InLine(h, "end") /\ ~streams[h].ended
  BY <1>3, NoPublish, Facts DEF LineFits, Stands
<1>5. seq = Tip(g) /\ seq \in 0 .. MaxSeq - 1
  <2>1. CASE current = 0
    BY <1>1, <1>2, <2>1, Facts
  <2>2. CASE current # 0
    <3>1. counter = Tip(current)
      <4>1. ~InLine(current, "publish") /\ Tip(current) \in Nat
        BY <2>2, <1>2, <1>4, Facts
      <4>2. counter = Tip(current) + (IF InLine(current, "publish") THEN 1 ELSE 0)
        BY <2>2 DEF StreamInvariant, Registered
      <4> QED BY <4>1, <4>2
    <3> QED BY <3>1, <2>2, <1>1, <1>2, Facts
  <2> QED BY <2>1, <2>2
<1>6. id \in Ids /\ op \in Op /\ op.kind = "publish" /\ op.id = id
  BY <1>5, IdFields, OpFields
<1> HIDE DEF seq, id, op
<1>7. Enqueue(g, op) /\ counter' = seq + 1
  BY <1>1 DEF seq, id, op
<1>8. /\ waiting' \in [Gens -> Seq(Op)]
      /\ Len(waiting'[g]) = Len(waiting[g]) + 1
      /\ waiting'[g][Len(waiting[g]) + 1] = op
      /\ \A i \in 1 .. Len(waiting[g]) : waiting'[g][i] = waiting[g][i]
      /\ \A h \in Gens \ {g} : waiting'[h] = waiting[h]
      /\ \A h \in Gens, kind \in {"publish", "end", "cleanup"} :
           InLine(h, kind)' <=> InLine(h, kind) \/ (h = g /\ op.kind = kind)
  BY <1>6, <1>7, EnqueueStep
<1>9. TypeOK'
  <2>1. counter' \in 0 .. MaxSeq
    BY <1>5, <1>7, Facts
  <2>2. current' \in 0 .. MaxGens /\ made' \in 0 .. MaxGens
    BY <1>2, Facts
  <2> QED BY <2>1, <2>2, <1>3, <1>8 DEF StreamInvariant, TypeOK
<1>10. ASSUME NEW h \in Gens PROVE Tip(h)' = Tip(h) /\ streams'[h] = streams[h]
  BY <1>3 DEF Tip
<1>11. Registered'
  <2>1. InLine(g, "publish")'
    BY <1>6, <1>8
  <2>2. counter' = Tip(g)' + 1
    BY <1>5, <1>7, <1>10
  <2>3. InLine(current, "publish")' /\ Tip(current)' = Tip(g)'
    BY <1>2, <2>1 DEF InLine, Tip
  <2>4. counter' = Tip(current)' + (IF InLine(current, "publish")' THEN 1 ELSE 0)
    BY <2>2, <2>3
  <2> QED BY <2>4, <1>2 DEF Registered
<1>12. ASSUME NEW h \in Gens PROVE Holds(streams[h], h)' /\ Stands(h)' /\ LineFits(h)'
  <2>1. Holds(streams[h], h)'
    <3>1. Holds(streams[h], h)
      BY Facts
    <3> QED BY <3>1, <1>10, Zenon
  <2>2. Stands(h)'
    <3>1. InLine(h, "end")' => InLine(h, "end") \/ h = g
      BY <1>8
    <3>2. h # g => waiting'[h] = waiting[h]
      BY <1>8
    <3> QED BY <3>1, <3>2, <1>1, <1>3, <1>4, RegisterStands
  <2>3. LineFits(h)'
    <3>1. ASSUME NEW k \in Gens, NEW i \in 1 .. Len(waiting'[k]), waiting'[k][i].kind = "publish"
          PROVE  k = g /\ i = Len(waiting[g]) + 1 /\ waiting'[k][i] = op
      <4>1. k = g
        BY <3>1, <1>4, <1>8
      <4>2. i \notin 1 .. Len(waiting[g])
        BY <3>1, <4>1, <1>4, <1>8
      <4> QED BY SMTT(30), <4>1, <4>2, <1>8, Facts
    <3>2. ASSUME NEW i \in 1 .. Len(waiting'[h]), waiting'[h][i].kind = "publish"
          PROVE  /\ producing' = "busy" /\ waiting'[h][i].id = [gen |-> h, seq |-> Tip(h)']
                 /\ \A k \in Gens : \A j \in 1 .. Len(waiting'[k]) :
                      waiting'[k][j].kind = "publish" => k = h /\ j = i
      <4>1. h = g /\ i = Len(waiting[g]) + 1 /\ waiting'[h][i] = op
        BY <3>1, <3>2
      <4>2. waiting'[h][i].id = [gen |-> h, seq |-> Tip(h)']
        BY <4>1, <1>5, <1>6, <1>10 DEF id
      <4> QED BY <3>1, <4>1, <4>2, <1>3
    <3>3. ~InLine(h, "end")'
      BY <1>4, <1>6, <1>8
    <3> QED BY <3>2, <3>3 DEF LineFits
  <2> QED BY <2>1, <2>2, <2>3
<1>13. ASSUME NEW c \in Clients PROVE SubFits(c)'
  <2>1. made' \in Nat
    BY <1>2
  <2>2. \A k \in Gens : /\ Tip(k)' \in Nat /\ Tip(k) <= Tip(k)'
                        /\ streams[k].ended => streams'[k].ended /\ streams'[k].closed = streams[k].closed
    BY <1>10, Facts
  <2> QED BY <2>1, <2>2, <1>2, <1>3, SubStays
<1> QED BY <1>9, <1>11, <1>12, <1>13 DEF StreamInvariant


(* The producer's END joins the line of the registered log.                   *)
LEMMA PublishEndStep ==
    ASSUME StreamAssumption, StreamInvariant, PublishEnd
    PROVE  StreamInvariant'
<1> DEFINE op == [kind |-> "end", id |-> NoId]
<1>1. PICK g \in Gens :
        /\ GetOrCreate(g) /\ Register(g)
        /\ counter' = IF current = 0 THEN 0 ELSE counter
        /\ Enqueue(g, op)
  BY DEF PublishEnd
<1>2. /\ current' = g /\ made' = g /\ g \in 1 .. MaxGens /\ made <= made' /\ ~streams[g].retired
      /\ current = 0 => g = made + 1 /\ Tip(g) = 0
      /\ current # 0 => g = current /\ g = made
  BY <1>1, RegisterStep
<1>3. producing = "open" /\ producing' = "ended" /\ streams' = streams /\ sub' = sub /\ seen' = seen
  BY DEF PublishEnd
<1>4. \A h \in Gens : /\ \A i \in 1 .. Len(waiting[h]) : waiting[h][i].kind # "publish"
                      /\ ~InLine(h, "publish")
  BY <1>3, NoPublish
<1>5. op \in Op /\ op.kind = "end"
  BY OpFields
<1> HIDE DEF op
<1>6. /\ waiting' \in [Gens -> Seq(Op)]
      /\ \A h \in Gens \ {g} : waiting'[h] = waiting[h]
      /\ \A h \in Gens, kind \in {"publish", "end", "cleanup"} :
           InLine(h, kind)' <=> InLine(h, kind) \/ (h = g /\ op.kind = kind)
  BY <1>1, <1>5, EnqueueStep
<1>7. \A h \in Gens : ~InLine(h, "publish")'
  BY <1>4, <1>5, <1>6
<1>8. ASSUME NEW h \in Gens PROVE Tip(h)' = Tip(h) /\ streams'[h] = streams[h]
  BY <1>3 DEF Tip
<1>9. counter' = Tip(g) /\ counter' \in 0 .. MaxSeq
  <2>1. CASE current = 0
    BY <1>1, <1>2, <2>1, Facts
  <2>2. CASE current # 0
    <3>1. ~InLine(current, "publish") /\ Tip(current) \in Nat
      BY <2>2, <1>2, <1>4, Facts
    <3>2. counter = Tip(current) + (IF InLine(current, "publish") THEN 1 ELSE 0)
      BY <2>2 DEF StreamInvariant, Registered
    <3>3. counter = Tip(current)
      BY <3>1, <3>2
    <3> QED BY <3>3, <2>2, <1>1, <1>2, Facts
  <2> QED BY <2>1, <2>2
<1>10. TypeOK'
  <2>1. current' \in 0 .. MaxGens /\ made' \in 0 .. MaxGens
    BY <1>2, Facts
  <2> QED BY <2>1, <1>9, <1>3, <1>6 DEF StreamInvariant, TypeOK
<1>11. Registered'
  <2>1. ~InLine(current, "publish")' /\ Tip(current)' = Tip(g)'
    BY <1>2, <1>7 DEF InLine, Tip
  <2>2. Tip(current)' \in Nat /\ counter' = Tip(current)'
    BY <2>1, <1>8, <1>9, Facts
  <2>3. counter' = Tip(current)' + (IF InLine(current, "publish")' THEN 1 ELSE 0)
    BY <2>1, <2>2
  <2> QED BY <2>3, <1>2 DEF Registered
<1>12. ASSUME NEW h \in Gens PROVE Holds(streams[h], h)' /\ Stands(h)' /\ LineFits(h)'
  <2>1. Holds(streams[h], h)'
    <3>1. Holds(streams[h], h)
      BY Facts
    <3> QED BY <3>1, <1>8, Zenon
  <2>2. Stands(h)'
    <3>1. InLine(h, "end")' => InLine(h, "end") \/ h = g
      BY <1>6
    <3>2. h # g => waiting'[h] = waiting[h]
      BY <1>6
    <3> QED BY <3>1, <3>2, <1>1, <1>3, RegisterStands
  <2>3. LineFits(h)'
    BY <1>3, <1>7 DEF LineFits, InLine
  <2> QED BY <2>1, <2>2, <2>3
<1>13. ASSUME NEW c \in Clients PROVE SubFits(c)'
  <2>1. made' \in Nat
    BY <1>2
  <2>2. \A k \in Gens : /\ Tip(k)' \in Nat /\ Tip(k) <= Tip(k)'
                        /\ streams[k].ended => streams'[k].ended /\ streams'[k].closed = streams[k].closed
    BY <1>8, Facts
  <2> QED BY <2>1, <2>2, <1>2, <1>3, SubStays
<1> QED BY <1>10, <1>11, <1>12, <1>13 DEF StreamInvariant

(* A cleanup joins the line of the log that is registered.                    *)
LEMMA CleanupStep ==
    ASSUME StreamAssumption, StreamInvariant, Cleanup
    PROVE  StreamInvariant'
<1> DEFINE op == [kind |-> "cleanup", id |-> NoId]
<1>1. /\ current \in Gens /\ Enqueue(current, op)
      /\ UNCHANGED <<streams, current, counter, made, producing, sub, seen>>
  BY Facts DEF Cleanup, Gens
<1>2. PICK g \in Gens : g = current
  BY <1>1
<1>3. op \in Op /\ op.kind = "cleanup"
  BY OpFields
<1> HIDE DEF op
<1>4. /\ waiting' \in [Gens -> Seq(Op)]
      /\ Len(waiting'[g]) = Len(waiting[g]) + 1
      /\ waiting'[g][Len(waiting[g]) + 1] = op
      /\ \A i \in 1 .. Len(waiting[g]) : waiting'[g][i] = waiting[g][i]
      /\ \A h \in Gens \ {g} : waiting'[h] = waiting[h]
      /\ \A h \in Gens, kind \in {"publish", "end", "cleanup"} :
           InLine(h, kind)' <=> InLine(h, kind) \/ (h = g /\ op.kind = kind)
  BY <1>1, <1>2, <1>3, EnqueueStep
<1>5. \A h \in Gens : (InLine(h, "publish")' <=> InLine(h, "publish")) /\ (InLine(h, "end")' <=> InLine(h, "end"))
  BY <1>3, <1>4
<1>6. ASSUME NEW h \in Gens PROVE Tip(h)' = Tip(h) /\ streams'[h] = streams[h]
  BY <1>1 DEF Tip
<1>7. TypeOK'
  BY <1>1, <1>4 DEF StreamInvariant, TypeOK
<1>8. Registered'
  <2>1. InLine(current, "publish")' <=> InLine(current, "publish")
    <3>1. InLine(g, "publish")' <=> InLine(g, "publish")
      BY <1>5
    <3> QED BY <3>1, <1>1, <1>2 DEF InLine
  <2>2. Tip(current)' = Tip(current)
    BY <1>1 DEF Tip
  <2> QED BY <2>1, <2>2, <1>1 DEF StreamInvariant, Registered
<1>9. ASSUME NEW h \in Gens PROVE Holds(streams[h], h)' /\ Stands(h)' /\ LineFits(h)'
  <2>1. Holds(streams[h], h)'
    <3>1. Holds(streams[h], h)
      BY Facts
    <3> QED BY <3>1, <1>6, Zenon
  <2>2. Stands(h)'
    <3>1. g <= made
      BY <1>2, Facts DEF Gens
    <3>2. h > made => h # g
      BY <3>1, Facts DEF Gens
    <3>3. Stands(h)
      BY Facts
    <3> QED BY <3>2, <3>3, <1>1, <1>4, <1>5 DEF Stands
  <2>3. ASSUME NEW k \in Gens, NEW i \in 1 .. Len(waiting'[k]), waiting'[k][i].kind = "publish"
        PROVE  i \in 1 .. Len(waiting[k]) /\ waiting[k][i] = waiting'[k][i]
    <3>1. CASE k # g
      BY <3>1, <1>4
    <3>2. CASE k = g
      <4>1. i # Len(waiting[g]) + 1
        BY <2>3, <3>2, <1>3, <1>4
      <4>2. i \in 1 .. Len(waiting[g])
        BY SMTT(30), <4>1, <3>2, <1>4, Facts
      <4> QED BY <4>2, <3>2, <1>4
    <3> QED BY <3>1, <3>2
  <2>4. LineFits(h)'
    <3>1. ASSUME NEW i \in 1 .. Len(waiting'[h]), waiting'[h][i].kind = "publish"
          PROVE  /\ producing' = "busy" /\ waiting'[h][i].id = [gen |-> h, seq |-> Tip(h)']
                 /\ \A k \in Gens : \A j \in 1 .. Len(waiting'[k]) :
                      waiting'[k][j].kind = "publish" => k = h /\ j = i
      <4>1. i \in 1 .. Len(waiting[h]) /\ waiting[h][i] = waiting'[h][i]
        BY <2>3, <3>1
      <4>2. /\ producing = "busy" /\ waiting[h][i].id = [gen |-> h, seq |-> Tip(h)]
            /\ \A k \in Gens : \A j \in 1 .. Len(waiting[k]) :
                 waiting[k][j].kind = "publish" => k = h /\ j = i
        BY SMTT(30), <3>1, <4>1, Facts DEF LineFits
      <4> QED BY ZenonT(40), <2>3, <4>1, <4>2, <1>1, <1>6
    <3>2. InLine(h, "end")' => producing' = "ended"
      BY <1>1, <1>5, Facts DEF LineFits
    <3> QED BY <3>1, <3>2 DEF LineFits
  <2> QED BY <2>1, <2>2, <2>4
<1>10. ASSUME NEW c \in Clients PROVE SubFits(c)'
  <2>1. made' \in Nat /\ made <= made'
    BY <1>1, Facts
  <2>2. \A k \in Gens : /\ Tip(k)' \in Nat /\ Tip(k) <= Tip(k)'
                        /\ streams[k].ended => streams'[k].ended /\ streams'[k].closed = streams[k].closed
    BY <1>6, Facts
  <2> QED BY <2>1, <2>2, <1>1, SubStays
<1> QED BY <1>7, <1>8, <1>9, <1>10 DEF StreamInvariant

(* A subscriber captures the registered log.                                  *)
LEMMA SubscribeStep ==
    ASSUME StreamAssumption, StreamInvariant, NEW c \in Clients,
           NEW cursor \in {NoId, Foreign, sub[c].cursor}, Subscribe(c, cursor)
    PROVE  StreamInvariant'
<1>1. PICK g \in Gens :
        /\ GetOrCreate(g) /\ Register(g)
        /\ counter' = IF current = 0 THEN 0 ELSE counter
        /\ sub' = [sub EXCEPT ![c].pc = "attached", ![c].gen = g, ![c].cursor = cursor]
  BY Zenon DEF Subscribe
<1>2. /\ current' = g /\ made' = g /\ g \in 1 .. MaxGens /\ made <= made' /\ ~streams[g].retired
      /\ current = 0 => g = made + 1 /\ Tip(g) = 0 /\ waiting[g] = <<>>
      /\ current # 0 => g = current /\ g = made
  BY <1>1, RegisterStep
<1>3. UNCHANGED <<streams, waiting, producing, seen>>
  BY DEF Subscribe
<1>4. ASSUME NEW h \in Gens
      PROVE  /\ Tip(h)' = Tip(h) /\ streams'[h] = streams[h] /\ waiting'[h] = waiting[h]
             /\ \A kind \in {"publish", "end"} : InLine(h, kind)' <=> InLine(h, kind)
  BY <1>3 DEF Tip, InLine
<1>5. sub' \in [Clients -> Subscription]
  <2>1. sub \in [Clients -> Subscription] /\ sub[c] \in Subscription
    BY DEF StreamInvariant, TypeOK
  <2>2. cursor \in Ids \cup {NoId, Foreign} /\ g \in 0 .. MaxGens /\ "attached" \in {"idle", "attached", "reading", "gap", "end"}
    BY <1>2, <2>1, SubscriptionFields
  <2>3. [sub[c] EXCEPT !.pc = "attached", !.gen = g, !.cursor = cursor] \in Subscription
    BY <2>1, <2>2, Zenon DEF Subscription
  <2> QED BY <1>1, <2>1, <2>3
<1>6. counter' = Tip(g) + (IF InLine(g, "publish") THEN 1 ELSE 0) /\ counter' \in 0 .. MaxSeq
  <2>1. CASE current = 0
    <3>1. ~InLine(g, "publish")
      BY <2>1, <1>2, EmptySeq DEF InLine
    <3> QED BY <3>1, <1>1, <1>2, <2>1, Facts
  <2>2. CASE current # 0
    <3>1. counter = Tip(g) + (IF InLine(g, "publish") THEN 1 ELSE 0)
      BY <2>2, <1>2 DEF StreamInvariant, Registered
    <3> QED BY <3>1, <2>2, <1>1, Facts
  <2> QED BY <2>1, <2>2
<1>7. TypeOK'
  <2>1. current' \in 0 .. MaxGens /\ made' \in 0 .. MaxGens
    BY <1>2, Facts
  <2> QED BY <2>1, <1>3, <1>5, <1>6 DEF StreamInvariant, TypeOK
<1>8. Registered'
  <2>1. (InLine(current, "publish")' <=> InLine(g, "publish")) /\ Tip(current)' = Tip(g)
    BY <1>2, <1>3 DEF InLine, Tip
  <2>2. counter' = Tip(current)' + (IF InLine(current, "publish")' THEN 1 ELSE 0)
    BY <2>1, <1>6
  <2> QED BY <2>2, <1>2 DEF Registered
<1>9. ASSUME NEW h \in Gens PROVE Holds(streams[h], h)' /\ Stands(h)' /\ LineFits(h)'
  <2>1. Holds(streams[h], h)'
    <3>1. Holds(streams[h], h)
      BY Facts
    <3> QED BY <3>1, <1>4, Zenon
  <2>2. Stands(h)'
    <3>1. InLine(h, "end")' => InLine(h, "end") \/ h = g
      BY <1>4
    <3>2. streams[h].ended => producing' = "ended"
      BY <1>3, Facts DEF Stands
    <3> QED BY <3>1, <3>2, <1>1, <1>3, RegisterStands
  <2>3. LineFits(h)'
    <3>1. LineFits(h)
      BY Facts
    <3> QED BY <3>1, <1>3, <1>4 DEF LineFits
  <2> QED BY <2>1, <2>2, <2>3
<1>10. ASSUME NEW d \in Clients PROVE SubFits(d)'
  <2>1. made' \in Nat
    BY <1>2
  <2>2. CASE d # c
    <3>1. \A k \in Gens : /\ Tip(k)' \in Nat /\ Tip(k) <= Tip(k)'
                          /\ streams[k].ended => streams'[k].ended /\ streams'[k].closed = streams[k].closed
      BY <1>4, Facts
    <3>2. sub'[d] = sub[d]
      BY <1>1, <2>2 DEF StreamInvariant, TypeOK
    <3> QED BY <2>1, <3>1, <3>2, <1>2, <1>3, SubStays
  <2>3. CASE d = c
    <3>1. /\ sub'[c].pc = "attached" /\ sub'[c].gen = g /\ sub'[c].cursor = cursor
          /\ sub'[c].from = sub[c].from
      <4>1. sub \in [Clients -> Subscription] /\ sub[c] \in Subscription
        BY DEF StreamInvariant, TypeOK
      <4> QED BY <1>1, <4>1 DEF Subscription
    <3>2. sub[c].cursor.gen \in 0 .. MaxGens /\ SubFits(c)
      <4>1. sub[c].cursor \in Ids \cup {NoId, Foreign}
        BY Facts, SubscriptionFields
      <4> QED BY <4>1, IdFields, Facts DEF Gens
    <3>3. cursor.gen <= made'
      BY SMTT(30), <3>2, <1>2, IdFields, Facts DEF SubFits
    <3>4. ASSUME cursor.gen # 0, cursor.gen = made'
          PROVE  cursor.seq < Tip(made)' /\ Heard(c, sub[c].from, cursor.seq, made)'
      <4>1. cursor = sub[c].cursor
        BY <3>4, IdFields
      <4>2. cursor.gen <= made
        BY <3>2, <4>1 DEF SubFits
      <4>3. made = g
        BY <3>4, <4>2, <1>2, Facts
      <4>4. cursor.seq < Tip(g) /\ Heard(c, sub[c].from, cursor.seq, g)
        BY <3>2, <3>4, <4>1, <4>3, <1>2 DEF SubFits
      <4> QED BY <4>4, <3>1, <1>2, <1>3 DEF Tip, Heard
    <3> QED BY <2>3, <3>1, <3>3, <3>4, <1>2 DEF SubFits
  <2> QED BY <2>2, <2>3
<1> QED BY <1>7, <1>8, <1>9, <1>10 DEF StreamInvariant

-----------------------------------------------------------------------------
(* A block under the Condition of log g: the first writer leaves the line and *)
(* the log becomes s, which is at least as long and ended if g was.           *)
WriteTo(g, s) ==
    /\ waiting[g] # <<>>
    /\ waiting' = [waiting EXCEPT ![g] = Tail(@)]
    /\ streams' = [streams EXCEPT ![g] = s]
    /\ s \in Stream /\ Len(s.events) <= MaxSize /\ Holds(s, g)
    /\ Tip(g) <= s.start + Len(s.events)
    /\ streams[g].ended => s.ended /\ s.closed = streams[g].closed
    /\ UNCHANGED <<made, sub, seen>>

LEMMA WriteFacts ==
    ASSUME StreamAssumption, StreamInvariant, NEW g \in Gens, NEW s, WriteTo(g, s)
    PROVE  /\ streams' \in [Gens -> Stream] /\ waiting' \in [Gens -> Seq(Op)]
           /\ streams'[g] = s /\ Tip(g)' = s.start + Len(s.events) /\ Tip(g) <= Tip(g)'
           /\ \A h \in Gens \ {g} : streams'[h] = streams[h] /\ Tip(h)' = Tip(h) /\ waiting'[h] = waiting[h]
           /\ \A h \in Gens : Holds(streams[h], h)' /\ Len(streams'[h].events) <= MaxSize
           /\ g <= made
           /\ \A c \in Clients : SubFits(c)'
<1>1. streams \in [Gens -> Stream] /\ \A h \in Gens : Len(streams[h].events) <= MaxSize
  BY DEF StreamInvariant, TypeOK
<1>2. /\ streams' \in [Gens -> Stream] /\ streams'[g] = s
      /\ \A h \in Gens \ {g} : streams'[h] = streams[h]
  BY <1>1 DEF WriteTo
<1>3. waiting' \in [Gens -> Seq(Op)] /\ \A h \in Gens \ {g} : waiting'[h] = waiting[h]
  BY DequeueStep DEF WriteTo
<1>4. Tip(g)' = s.start + Len(s.events) /\ Tip(g) <= Tip(g)'
  BY <1>2 DEF WriteTo, Tip
<1>5. \A h \in Gens \ {g} : Tip(h)' = Tip(h)
  BY <1>2 DEF Tip
<1>6. \A h \in Gens : Holds(streams'[h], h) /\ Len(streams'[h].events) <= MaxSize
  BY <1>1, <1>2, Facts DEF WriteTo
<1>7. g <= made
  <2>1. ~(g > made)
    BY Facts DEF WriteTo, Stands
  <2> QED BY <2>1, Facts DEF Gens
<1>8. \A k \in Gens : /\ Tip(k)' \in Nat /\ Tip(k) <= Tip(k)'
                      /\ streams[k].ended => streams'[k].ended /\ streams'[k].closed = streams[k].closed
  <2> SUFFICES ASSUME NEW k \in Gens
               PROVE  /\ Tip(k)' \in Nat /\ Tip(k) <= Tip(k)'
                      /\ streams[k].ended => streams'[k].ended /\ streams'[k].closed = streams[k].closed
    OBVIOUS
  <2>1. CASE k # g
    BY <2>1, <1>2, <1>5, Facts
  <2>2. CASE k = g
    <3>1. s.start + Len(s.events) \in Nat
      BY StreamFields DEF WriteTo
    <3> QED BY <2>2, <3>1, <1>2, <1>4 DEF WriteTo
  <2> QED BY <2>1, <2>2
<1>9. ASSUME NEW c \in Clients PROVE SubFits(c)'
  BY SMTT(30), <1>8, Facts, SubStays DEF WriteTo
<1> QED BY <1>2, <1>3, <1>4, <1>5, <1>6, <1>7, <1>9

(* The publish at the head of a line is the only one, and no log has ended.   *)
LEMMA WritePublish ==
    ASSUME StreamAssumption, StreamInvariant, NEW g \in Gens,
           Write(g), Head(waiting[g]).kind = "publish"
    PROVE  StreamInvariant'
<1> DEFINE op == waiting[g][1]
           s  == AppendEvent(streams[g], op.id)
<1>1. /\ waiting[g] # <<>> /\ waiting' = [waiting EXCEPT ![g] = Tail(@)]
      /\ UNCHANGED <<made, sub, seen, current, counter>> /\ producing' = "open"
  BY DEF Write
<1>2. /\ waiting' \in [Gens -> Seq(Op)]
      /\ 1 \in 1 .. Len(waiting[g]) /\ Head(waiting[g]) = op /\ op \in Op
      /\ \A i \in 1 .. Len(waiting'[g]) :
           i + 1 \in 1 .. Len(waiting[g]) /\ waiting'[g][i] = waiting[g][i + 1]
      /\ \A h \in Gens \ {g} : waiting'[h] = waiting[h]
      /\ \A h \in Gens, kind \in {"publish", "end", "cleanup"} : InLine(h, kind)' => InLine(h, kind)
  BY <1>1, DequeueStep
<1>3. op.kind = "publish" /\ streams' = [streams EXCEPT ![g] = s]
  BY <1>2 DEF Write
<1>4. /\ producing = "busy" /\ op.id = [gen |-> g, seq |-> Tip(g)]
      /\ \A h \in Gens : \A j \in 1 .. Len(waiting[h]) : waiting[h][j].kind = "publish" => h = g /\ j = 1
  BY SMTT(30), <1>2, <1>3, Facts DEF LineFits
<1>5. \A h \in Gens : ~streams[h].ended /\ ~InLine(h, "end")
  BY <1>4, Facts DEF Stands, LineFits
<1>6. op.id \in Ids
  BY <1>2, <1>3, OpFields
<1>7. /\ s \in Stream /\ Holds(s, g) /\ Len(s.events) <= MaxSize
      /\ s.start + Len(s.events) = Tip(g) + 1
      /\ s.ended = streams[g].ended /\ s.retired = streams[g].retired /\ s.closed = streams[g].closed
  <2>1. streams[g] \in Stream /\ Holds(streams[g], g) /\ Len(streams[g].events) <= MaxSize
    BY Facts DEF StreamInvariant, TypeOK
  <2> QED BY <2>1, <1>4, <1>5, <1>6, AppendHolds DEF Tip
<1> HIDE DEF s, op
<1>8. WriteTo(g, s)
  BY <1>1, <1>3, <1>5, <1>7, Facts DEF WriteTo
<1>9. /\ streams' \in [Gens -> Stream]
      /\ streams'[g] = s /\ Tip(g)' = Tip(g) + 1
      /\ \A h \in Gens \ {g} : streams'[h] = streams[h] /\ Tip(h)' = Tip(h)
      /\ \A h \in Gens : Holds(streams[h], h)' /\ Len(streams'[h].events) <= MaxSize
      /\ g <= made /\ \A c \in Clients : SubFits(c)'
  BY <1>7, <1>8, WriteFacts
<1>10. \A h \in Gens : \A i \in 1 .. Len(waiting'[h]) : waiting'[h][i].kind # "publish"
  <2> SUFFICES ASSUME NEW h \in Gens, NEW i \in 1 .. Len(waiting'[h]), waiting'[h][i].kind = "publish"
               PROVE  FALSE
    OBVIOUS
  <2>1. CASE h # g
    BY <2>1, <1>2, <1>4
  <2>2. CASE h = g
    <3>1. i + 1 \in 1 .. Len(waiting[g]) /\ waiting[g][i + 1].kind = "publish"
      BY <2>2, <1>2
    <3>2. i + 1 = 1
      BY <3>1, <1>4
    <3>3. i \in Nat \ {0}
      BY <3>1, <1>2, <2>2, LenProperties
    <3> QED BY <3>2, <3>3
  <2> QED BY <2>1, <2>2
<1>11. TypeOK'
  BY <1>1, <1>2, <1>9 DEF StreamInvariant, TypeOK
<1>12. Registered'
  <2>1. CASE current = 0
    BY <2>1, <1>1 DEF StreamInvariant, Registered
  <2>2. CASE current # 0
    <3>1. PICK h \in Gens : h = current
      BY <2>2, Facts DEF Gens
    <3>2. counter = Tip(h) + (IF InLine(h, "publish") THEN 1 ELSE 0)
      BY <2>2, <3>1 DEF StreamInvariant, Registered
    <3>3. InLine(h, "publish") <=> h = g
      BY <1>2, <1>3, <1>4 DEF InLine, op
    <3>4. counter = Tip(h)'
      BY <3>2, <3>3, <1>9, Facts
    <3>5. ~InLine(h, "publish")'
      BY <1>10 DEF InLine
    <3>6. Tip(current)' = Tip(h)' /\ ~InLine(current, "publish")' /\ Tip(h)' \in Nat
      <4>1. Tip(h)' \in Nat
        BY <1>9, Facts
      <4> QED BY <4>1, <3>1, <3>5, <1>1 DEF Tip, InLine
    <3>7. counter' = Tip(current)' + (IF InLine(current, "publish")' THEN 1 ELSE 0)
      BY <3>4, <3>6, <1>1
    <3> QED BY <3>7, <1>1 DEF StreamInvariant, Registered
  <2> QED BY <2>1, <2>2
<1>13. ASSUME NEW h \in Gens PROVE Stands(h)' /\ LineFits(h)'
  <2>1. LineFits(h)'
    BY <1>2, <1>5, <1>10 DEF LineFits
  <2>2. streams'[h].retired = streams[h].retired /\ ~streams'[h].ended
    BY <1>5, <1>7, <1>9
  <2>3. Stands(h) /\ made \in Nat
    BY Facts
  <2>4. h > made' => streams'[h] = NewStream /\ waiting'[h] = <<>>
    BY <2>3, <1>1, <1>2, <1>9 DEF Stands, Gens
  <2>5. ~InLine(h, "end")'
    BY <1>2, <1>5
  <2>6. /\ h <= made' /\ ~streams'[h].retired => h = current'
        /\ streams'[h].retired => h # current' /\ h <= made'
    BY <2>2, <2>3, <1>1 DEF Stands
  <2> QED BY <2>1, <2>2, <2>4, <2>5, <2>6 DEF Stands
<1> QED BY <1>9, <1>11, <1>12, <1>13 DEF StreamInvariant


(* A line moves up when no log changes its length.                            *)
LEMMA LineMovesUp ==
    ASSUME StreamAssumption, StreamInvariant, NEW g \in Gens, waiting[g] # <<>>,
           waiting' = [waiting EXCEPT ![g] = Tail(@)], producing' = producing,
           NEW h \in Gens, Tip(h)' = Tip(h)
    PROVE  LineFits(h)'
<1> DEFINE Was(k, i) == IF k = g THEN i + 1 ELSE i
<1>1. /\ \A i \in 1 .. Len(waiting'[g]) :
           i + 1 \in 1 .. Len(waiting[g]) /\ waiting'[g][i] = waiting[g][i + 1]
      /\ \A k \in Gens \ {g} : waiting'[k] = waiting[k]
      /\ \A k \in Gens, kind \in {"publish", "end", "cleanup"} : InLine(k, kind)' => InLine(k, kind)
  BY DequeueStep
<1>2. ASSUME NEW k \in Gens, NEW i \in 1 .. Len(waiting'[k])
      PROVE  Was(k, i) \in 1 .. Len(waiting[k]) /\ waiting'[k][i] = waiting[k][Was(k, i)]
  BY <1>1
<1> HIDE DEF Was
<1>3. ASSUME NEW i \in 1 .. Len(waiting'[h]), waiting'[h][i].kind = "publish"
      PROVE  /\ producing' = "busy" /\ waiting'[h][i].id = [gen |-> h, seq |-> Tip(h)']
             /\ \A k \in Gens : \A j \in 1 .. Len(waiting'[k]) :
                  waiting'[k][j].kind = "publish" => k = h /\ j = i
  <2>1. /\ producing = "busy" /\ waiting'[h][i].id = [gen |-> h, seq |-> Tip(h)]
        /\ \A k \in Gens : \A j \in 1 .. Len(waiting[k]) :
             waiting[k][j].kind = "publish" => k = h /\ j = Was(h, i)
    <3>1. PICK w \in 1 .. Len(waiting[h]) : w = Was(h, i) /\ waiting[h][w] = waiting'[h][i]
      BY <1>2
    <3>2. LineFits(h)
      BY Facts
    <3> QED BY <3>1, <3>2, <1>3 DEF LineFits
  <2>2. ASSUME NEW k \in Gens, NEW j \in 1 .. Len(waiting'[k]), waiting'[k][j].kind = "publish"
        PROVE  k = h /\ j = i
    <3>1. k = h /\ Was(k, j) = Was(h, i)
      <4>1. PICK w \in 1 .. Len(waiting[k]) : w = Was(k, j) /\ waiting[k][w] = waiting'[k][j]
        BY <1>2
      <4> QED BY <4>1, <2>1, <2>2
    <3>2. i \in Int /\ j \in Int
      OBVIOUS
    <3> QED BY <3>1, <3>2 DEF Was
  <2> QED BY <2>1, <2>2
<1>4. InLine(h, "end")' => producing' = "ended"
  BY <1>1, Facts DEF LineFits
<1> QED BY <1>3, <1>4 DEF LineFits

(* END reaches its log.                                                       *)
LEMMA WriteEnd ==
    ASSUME StreamAssumption, StreamInvariant, NEW g \in Gens,
           Write(g), Head(waiting[g]).kind = "end"
    PROVE  StreamInvariant'
<1> DEFINE s == EndStream(streams[g])
<1>1. /\ waiting[g] # <<>> /\ waiting' = [waiting EXCEPT ![g] = Tail(@)]
      /\ streams' = [streams EXCEPT ![g] = s]
      /\ UNCHANGED <<made, sub, seen, current, counter, producing>>
  BY DEF Write
<1>2. /\ waiting' \in [Gens -> Seq(Op)]
      /\ 1 \in 1 .. Len(waiting[g]) /\ Head(waiting[g]) = waiting[g][1]
      /\ \A h \in Gens \ {g} : waiting'[h] = waiting[h]
      /\ \A i \in 1 .. Len(waiting'[g]) :
           i + 1 \in 1 .. Len(waiting[g]) /\ waiting'[g][i] = waiting[g][i + 1]
      /\ \A h \in Gens, kind \in {"publish", "end", "cleanup"} : InLine(h, kind)' => InLine(h, kind)
  BY <1>1, DequeueStep
<1>3. InLine(g, "end") /\ producing = "ended"
  <2>1. InLine(g, "end")
    BY <1>2 DEF InLine
  <2> QED BY <2>1, Facts DEF LineFits
<1>4. /\ s \in Stream /\ Holds(s, g) /\ s.events = streams[g].events /\ s.start = streams[g].start
      /\ s.ended /\ s.retired = streams[g].retired /\ (streams[g].ended => s.closed = streams[g].closed)
  BY Facts, EndHolds
<1>5. Tip(g) = s.start + Len(s.events) /\ Tip(g) \in Nat /\ Len(s.events) <= MaxSize
  BY <1>4, Facts DEF Tip, StreamInvariant, TypeOK
<1> HIDE DEF s
<1>6. WriteTo(g, s)
  BY <1>1, <1>4, <1>5 DEF WriteTo
<1>7. /\ streams' \in [Gens -> Stream]
      /\ streams'[g] = s /\ Tip(g)' = Tip(g)
      /\ \A h \in Gens \ {g} : streams'[h] = streams[h] /\ Tip(h)' = Tip(h)
      /\ \A h \in Gens : Holds(streams[h], h)' /\ Len(streams'[h].events) <= MaxSize
      /\ g <= made /\ \A c \in Clients : SubFits(c)'
  BY <1>5, <1>6, WriteFacts
<1>8. TypeOK'
  BY <1>1, <1>2, <1>7 DEF StreamInvariant, TypeOK
<1>9. \A h \in Gens : InLine(h, "publish")' <=> InLine(h, "publish")
  BY <1>3, <1>2, NoPublish
<1>10. Registered'
  <2>1. CASE current = 0
    BY <2>1, <1>1 DEF StreamInvariant, Registered
  <2>2. CASE current # 0
    <3>1. PICK h \in Gens : h = current
      BY <2>2, Facts DEF Gens
    <3>2. Tip(current)' = Tip(current) /\ (InLine(current, "publish")' <=> InLine(current, "publish"))
      <4>1. Tip(h)' = Tip(h) /\ (InLine(h, "publish")' <=> InLine(h, "publish"))
        BY <1>7, <1>9
      <4> QED BY <4>1, <3>1, <1>1 DEF Tip, InLine
    <3> QED BY <3>2, <1>1 DEF StreamInvariant, Registered
  <2> QED BY <2>1, <2>2
<1>11. ASSUME NEW h \in Gens PROVE Stands(h)' /\ LineFits(h)'
  <2>1. LineFits(h)'
    <3>1. Tip(h)' = Tip(h)
      BY <1>7
    <3> QED BY <3>1, <1>1, LineMovesUp
  <2>2. streams'[h].retired = streams[h].retired /\ streams'[h].events = streams[h].events
    BY <1>4, <1>7
  <2>3. Stands(h) /\ Stands(g) /\ made \in Nat
    BY Facts
  <2>4. h > made' => streams'[h] = NewStream /\ waiting'[h] = <<>>
    BY <2>3, <1>1, <1>2, <1>7 DEF Stands, Gens
  <2>5. streams'[h].retired /\ (streams'[h].ended \/ InLine(h, "end")') => streams'[h].events = <<>>
    <3>1. CASE h = g
      BY <3>1, <2>2, <2>3, <1>3 DEF Stands
    <3>2. CASE h # g
      BY <3>2, <2>3, <1>2, <1>7 DEF Stands
    <3> QED BY <3>1, <3>2
  <2>6. /\ h <= made' /\ ~streams'[h].retired => h = current'
        /\ streams'[h].retired => h # current' /\ h <= made'
        /\ streams'[h].ended => producing' = "ended"
    BY <2>2, <2>3, <1>1, <1>3 DEF Stands
  <2> QED BY <2>1, <2>4, <2>5, <2>6 DEF Stands
<1> QED BY <1>7, <1>8, <1>10, <1>11 DEF StreamInvariant

(* A cleanup retires its log, which is registered no more afterwards.         *)
LEMMA WriteCleanup ==
    ASSUME StreamAssumption, StreamInvariant, NEW g \in Gens,
           Write(g), Head(waiting[g]).kind = "cleanup"
    PROVE  StreamInvariant'
<1> DEFINE s == Retire(streams[g])
<1>1. /\ waiting[g] # <<>> /\ waiting' = [waiting EXCEPT ![g] = Tail(@)]
      /\ streams' = [streams EXCEPT ![g] = s] /\ Unregister(g)
      /\ UNCHANGED <<made, sub, seen, producing>>
  BY DEF Write
<1>2. /\ waiting' \in [Gens -> Seq(Op)]
      /\ 1 \in 1 .. Len(waiting[g]) /\ Head(waiting[g]) = waiting[g][1]
      /\ \A h \in Gens \ {g} : waiting'[h] = waiting[h]
      /\ \A h \in Gens, kind \in {"publish", "end", "cleanup"} : InLine(h, kind)' => InLine(h, kind)
  BY <1>1, DequeueStep
<1>3. /\ s \in Stream /\ Holds(s, g) /\ s.events = <<>> /\ Len(s.events) = 0
      /\ s.start + Len(s.events) = Tip(g)
      /\ s.ended = streams[g].ended /\ s.retired /\ s.closed = streams[g].closed
  BY Facts, RetireHolds DEF Tip
<1>4. Tip(g) \in Nat /\ Len(s.events) <= MaxSize
  BY <1>3, Facts
<1> HIDE DEF s
<1>5. WriteTo(g, s)
  BY <1>1, <1>3, <1>4 DEF WriteTo
<1>6. /\ streams' \in [Gens -> Stream]
      /\ streams'[g] = s /\ Tip(g)' = Tip(g)
      /\ \A h \in Gens \ {g} : streams'[h] = streams[h] /\ Tip(h)' = Tip(h)
      /\ \A h \in Gens : Holds(streams[h], h)' /\ Len(streams'[h].events) <= MaxSize
      /\ g <= made /\ \A c \in Clients : SubFits(c)'
  BY <1>3, <1>5, WriteFacts
<1>7. /\ current = g => current' = 0 /\ counter' = 0
      /\ current # g => current' = current /\ counter' = counter
  BY <1>1 DEF Unregister
<1>8. TypeOK'
  <2>1. current' \in 0 .. MaxGens /\ counter' \in 0 .. MaxSeq
    BY <1>7, Facts
  <2> QED BY <2>1, <1>1, <1>2, <1>6 DEF StreamInvariant, TypeOK
<1>9. Registered'
  <2>1. CASE current \in {0, g}
    BY <2>1, <1>7 DEF Registered
  <2>2. CASE current \notin {0, g}
    <3>1. PICK h \in Gens \ {g} : h = current
      BY <2>2, Facts DEF Gens
    <3>2. Tip(current)' = Tip(current) /\ (InLine(current, "publish")' <=> InLine(current, "publish"))
      BY <2>2, <3>1, <1>2, <1>6, <1>7 DEF Tip, InLine
    <3> QED BY <3>2, <2>2, <1>1, <1>7 DEF StreamInvariant, Registered
  <2> QED BY <2>1, <2>2
<1>10. ASSUME NEW h \in Gens PROVE Stands(h)' /\ LineFits(h)'
  <2>1. LineFits(h)'
    <3>1. Tip(h)' = Tip(h)
      BY <1>6
    <3> QED BY <3>1, <1>1, LineMovesUp
  <2>2. Stands(h) /\ made \in Nat
    BY Facts
  <2>3. CASE h = g
    <3>1. ~(h > made')
      BY <2>2, <2>3, <1>1, <1>6 DEF Gens
    <3>2. h # current' /\ h <= made'
      BY <2>3, <1>1, <1>6, <1>7 DEF Gens
    <3>3. streams'[h].retired /\ streams'[h].events = <<>> /\ streams'[h].ended = streams[h].ended
      BY <2>3, <1>3, <1>6
    <3>4. streams'[h].ended => producing' = "ended"
      BY <3>3, <2>2, <1>1 DEF Stands
    <3> QED BY <3>1, <3>2, <3>3, <3>4, <2>1 DEF Stands
  <2>4. CASE h # g
    <3>1. streams'[h] = streams[h] /\ waiting'[h] = waiting[h] /\ (InLine(h, "end")' => InLine(h, "end"))
      BY <2>4, <1>2, <1>6
    <3>2. h # 0
      BY DEF Gens
    <3>3. /\ h > made' => streams'[h] = NewStream /\ waiting'[h] = <<>>
          /\ streams'[h].ended => producing' = "ended"
          /\ streams'[h].retired /\ (streams'[h].ended \/ InLine(h, "end")') => streams'[h].events = <<>>
      BY <3>1, <2>2, <1>1 DEF Stands
    <3>4. h <= made' /\ ~streams'[h].retired => h = current'
      BY <3>1, <2>2, <2>4, <1>1, <1>7 DEF Stands
    <3>5. streams'[h].retired => h # current' /\ h <= made'
      BY <3>1, <3>2, <2>2, <1>1, <1>7 DEF Stands
    <3> QED BY <2>1, <3>3, <3>4, <3>5 DEF Stands
  <2> QED BY <2>1, <2>3, <2>4
<1> QED BY <1>6, <1>8, <1>9, <1>10 DEF StreamInvariant

LEMMA WriteStep ==
    ASSUME StreamAssumption, StreamInvariant, NEW g \in Gens, Write(g)
    PROVE  StreamInvariant'
<1>1. waiting[g] # <<>>
  BY DEF Write
<1>2. Head(waiting[g]) \in Op
  BY <1>1, Facts, HeadTailProperties
<1>3. Head(waiting[g]).kind \in {"publish", "end", "cleanup"}
  BY <1>2, OpFields
<1> QED BY <1>3, WritePublish, WriteEnd, WriteCleanup

-----------------------------------------------------------------------------
(* A step of one subscriber touches its subscription and what it has seen.    *)
OnlySub(c, u) ==
    /\ sub' = [sub EXCEPT ![c] = u] /\ u \in Subscription
    /\ UNCHANGED <<streams, current, counter, made, waiting, producing>>
    /\ seen' \in [Clients -> SUBSET Ids]
    /\ seen[c] \subseteq seen'[c] /\ \A d \in Clients \ {c} : seen'[d] = seen[d]

LEMMA OnlySubStep ==
    ASSUME StreamAssumption, StreamInvariant, NEW c \in Clients, NEW u, OnlySub(c, u), SubFits(c)'
    PROVE  StreamInvariant'
<1>1. UNCHANGED <<streams, current, counter, made, waiting, producing>>
  BY DEF OnlySub
<1>2. TypeOK'
  BY DEF OnlySub, StreamInvariant, TypeOK
<1>3. Registered'
  BY <1>1 DEF StreamInvariant, Registered, Tip, InLine
<1>4. ASSUME NEW g \in Gens PROVE Holds(streams[g], g)' /\ Stands(g)' /\ LineFits(g)'
  <2>1. Holds(streams[g], g) /\ Stands(g) /\ LineFits(g)
    BY Facts
  <2>2. Holds(streams[g], g)'
    BY <2>1, <1>1, Zenon
  <2>3. Stands(g)'
    BY <2>1, <1>1 DEF Stands, InLine
  <2>4. LineFits(g)'
    BY <2>1, <1>1 DEF LineFits, InLine, Tip
  <2> QED BY <2>2, <2>3, <2>4
<1>5. ASSUME NEW d \in Clients PROVE SubFits(d)'
  <2>1. CASE d = c
    BY <2>1
  <2>2. CASE d # c
    <3>1. sub'[d] = sub[d] /\ seen'[d] = seen[d]
      BY <2>2 DEF OnlySub, StreamInvariant, TypeOK
    <3>2. \A k \in Gens : /\ Tip(k)' \in Nat /\ Tip(k) <= Tip(k)'
                          /\ streams[k].ended => streams'[k].ended /\ streams'[k].closed = streams[k].closed
      BY <1>1, Facts DEF Tip
    <3> QED BY <3>1, <3>2, <1>1, Facts, SubStays
  <2> QED BY <2>1, <2>2
<1> QED BY <1>2, <1>3, <1>4, <1>5 DEF StreamInvariant

(* A subscriber without a log keeps its cursor and what it has heard.         *)
LEMMA StoppedFits ==
    ASSUME StreamAssumption, StreamInvariant, NEW c \in Clients, NEW pc \in {"idle", "gap"},
           sub' = [sub EXCEPT ![c] = Stopped(@, pc)],
           UNCHANGED <<streams, current, counter, made, waiting, producing, seen>>
    PROVE  StreamInvariant'
<1>1. PICK u \in Subscription : u = sub[c]
  BY Facts
<1> DEFINE v == Stopped(u, pc)
<1>2. v \in Subscription
  <2>1. 0 \in 0 .. MaxGens /\ 0 \in 0 .. MaxSeq /\ pc \in {"idle", "attached", "reading", "gap", "end"}
    BY Facts
  <2> QED BY <2>1, Zenon DEF Subscription, Stopped
<1>3. v.pc = pc /\ v.gen = 0 /\ v.cursor = u.cursor /\ v.from = u.from
  BY DEF Stopped, Subscription
<1> HIDE DEF v
<1>4. sub' = [sub EXCEPT ![c] = v] /\ sub'[c] = v
  <2>1. sub \in [Clients -> Subscription]
    BY DEF StreamInvariant, TypeOK
  <2> QED BY <2>1, <1>1 DEF v
<1>5. OnlySub(c, v)
  BY <1>2, <1>4 DEF OnlySub, StreamInvariant, TypeOK
<1>6. SubFits(c)'
  <2>1. SubFits(c)
    BY Facts
  <2>2. v.cursor.gen <= made'
    BY <2>1, <1>1, <1>3 DEF SubFits
  <2>3. v.cursor.gen # 0 /\ v.cursor.gen = made' =>
          v.cursor.seq < Tip(made)' /\ Heard(c, v.from, v.cursor.seq, made)'
    <3>1. Tip(made)' = Tip(made) /\ made' = made
      BY DEF Tip
    <3>2. \A from, to : Heard(c, from, to, made) => Heard(c, from, to, made)'
      BY DEF Heard
    <3> QED BY <2>1, <3>1, <3>2, <1>1, <1>3 DEF SubFits
  <2> QED BY <2>2, <2>3, <1>3, <1>4 DEF SubFits
<1> QED BY <1>5, <1>6, OnlySubStep

LEMMA DisconnectStep ==
    ASSUME StreamAssumption, StreamInvariant, NEW c \in Clients, Disconnect(c)
    PROVE  StreamInvariant'
BY StoppedFits DEF Disconnect

(* A subscriber starts behind what it has heard of this log, or afresh.       *)
LEMMA ResolveStep ==
    ASSUME StreamAssumption, StreamInvariant, NEW c \in Clients, Resolve(c)
    PROVE  StreamInvariant'
<1>1. PICK u \in Subscription : u = sub[c] /\ u.pc = "attached"
  BY Facts DEF Resolve
<1>2. PICK g \in Gens : g = u.gen /\ g <= made
  BY <1>1, Facts DEF SubFits, Gens
<1>3. PICK s \in Stream : s = streams[g] /\ Holds(s, g)
  BY Facts
<1> DEFINE start == StartOffset(s, u.cursor)
           from  == IF u.cursor.gen = g THEN u.from ELSE start
           v     == [u EXCEPT !.pc = "reading", !.next = start, !.from = from]
<1>4. /\ sub' = [sub EXCEPT ![c] = IF Lost(s, u.cursor) THEN Stopped(u, "gap") ELSE v]
      /\ UNCHANGED <<streams, current, counter, made, waiting, producing, seen>>
  BY <1>1, <1>2, <1>3, Zenon DEF Resolve
<1>5. CASE Lost(s, u.cursor)
  BY <1>1, <1>4, <1>5, StoppedFits
<1>6. CASE ~Lost(s, u.cursor)
  <2>1. /\ u.gen \in 0 .. MaxGens /\ u.next \in 0 .. MaxSeq /\ u.from \in 0 .. MaxSeq
        /\ u.cursor \in Ids \cup {NoId, Foreign} /\ SubFits(c)
    BY <1>1, SubscriptionFields, Facts
  <2>2. /\ s.start \in 0 .. MaxSeq /\ Len(s.events) \in Nat /\ Tip(g) = s.start + Len(s.events)
        /\ Tip(g) \in 0 .. MaxSeq /\ MaxSeq \in Nat /\ g \in 1 .. MaxGens /\ MaxGens \in Nat
    BY <1>3, StreamFields, Facts DEF Tip, Gens
  <2>3. ~s.retired /\ g = made
    <3>1. ~s.retired
      BY <1>6 DEF Lost
    <3>2. g = current
      BY <3>1, <1>2, <1>3, Facts DEF Stands
    <3> QED BY <3>1, <3>2, <2>2, Facts
  <2>4. u.cursor.seq \in Int /\ u.cursor.gen \in Int
    BY SMTT(30), <2>1, IdFields, Facts DEF Gens
  <2>5. ASSUME u.cursor.gen = g
        PROVE  start = u.cursor.seq + 1 /\ start \in 0 .. MaxSeq /\ start <= Tip(g)
               /\ Heard(c, u.from, start - 1, g)
    <3>1. u.cursor \in Ids /\ u.cursor = [gen |-> g, seq |-> u.cursor.seq] /\ u.cursor.seq \in 0 .. MaxSeq - 1
      BY <2>1, <2>2, <2>5, IdFields
    <3>2. u.cursor.seq < Tip(g) /\ Heard(c, u.from, u.cursor.seq, g)
      BY <2>1, <2>2, <2>3, <2>5, <1>1 DEF SubFits
    <3>3. u.cursor # NoId /\ u.cursor # Foreign
      BY <2>2, <2>5, IdFields
    <3>4. start = u.cursor.seq + 1
      <4>1. CASE u.cursor = s.evicted
        <5>1. start = s.start
          BY <4>1 DEF StartOffset
        <5>2. s.evicted = Before(g, s.start)
          BY <2>3, <1>3 DEF Holds
        <5>3. s.start # 0 /\ s.evicted = [gen |-> g, seq |-> s.start - 1]
          BY <5>2, <4>1, <3>3 DEF Before
        <5>4. u.cursor.seq = s.start - 1
          BY <5>3, <4>1
        <5> QED BY <5>1, <5>4, <2>2
      <4>2. CASE u.cursor # s.evicted
        <5>1. u.cursor.seq >= s.start
          BY <4>2, <3>3, <2>2, <2>4, <1>6 DEF Lost
        <5>2. u.cursor.seq - s.start \in 0 .. Len(s.events) - 1
          BY SMTT(30), <5>1, <3>1, <3>2, <2>2
        <5>3. s.events[u.cursor.seq - s.start + 1] = [gen |-> g, seq |-> s.start + (u.cursor.seq - s.start + 1) - 1]
          <6>1. u.cursor.seq - s.start + 1 \in 1 .. Len(s.events)
            BY SMTT(30), <5>2, <2>2, <2>4
          <6> QED BY <6>1, <1>3 DEF Holds
        <5>4. s.start + (u.cursor.seq - s.start + 1) - 1 = u.cursor.seq
          BY <2>2, <2>4
        <5>5. Retained(s, u.cursor)
          BY <5>2, <5>3, <5>4, <3>1 DEF Retained
        <5> QED BY <5>5, <4>2, <3>3 DEF StartOffset
      <4> QED BY <4>1, <4>2
    <3>5. start - 1 = u.cursor.seq
      BY <3>4, <2>4
    <3> QED BY <3>1, <3>2, <3>4, <3>5, <2>2
  <2>6. ASSUME u.cursor.gen # g PROVE start = s.start
    <3>1. ASSUME u.cursor \in Ids PROVE ~Retained(s, u.cursor)
      <4> SUFFICES ASSUME Retained(s, u.cursor) PROVE FALSE
        OBVIOUS
      <4>1. u.cursor.seq - s.start + 1 \in 1 .. Len(s.events)
        BY SMTT(30), <2>2, <2>4 DEF Retained
      <4>2. s.events[u.cursor.seq - s.start + 1].gen = g
        <5>1. PICK i \in 1 .. Len(s.events) : i = u.cursor.seq - s.start + 1
          BY <4>1
        <5>2. s.events[i] = [gen |-> g, seq |-> s.start + i - 1]
          BY <1>3 DEF Holds
        <5> QED BY <5>1, <5>2
      <4> QED BY <4>2, <2>6 DEF Retained
    <3> QED BY <3>1, <2>1 DEF StartOffset
  <2> HIDE DEF start
  <2>7. start \in 0 .. MaxSeq /\ start <= Tip(g) /\ from \in 0 .. MaxSeq /\ Heard(c, from, start - 1, g)
    <3>1. CASE u.cursor.gen = g
      BY <3>1, <2>1, <2>5
    <3>2. CASE u.cursor.gen # g
      <4>1. start = s.start /\ from = start
        BY <3>2, <2>6
      <4>2. from .. start - 1 = {}
        BY <4>1, <2>2
      <4> QED BY <4>1, <4>2, <2>2 DEF Heard
    <3> QED BY <3>1, <3>2
  <2>8. u.cursor.gen = made => from = u.from
    BY <2>3
  <2> HIDE DEF from
  <2>9. v \in Subscription
    <3>1. "reading" \in {"idle", "attached", "reading", "gap", "end"}
      OBVIOUS
    <3> QED BY <3>1, <2>7, Zenon DEF Subscription
  <2>10. v.pc = "reading" /\ v.gen = g /\ v.next = start /\ v.cursor = u.cursor /\ v.from = from
    BY <1>2 DEF Subscription
  <2> HIDE DEF v
  <2>11. sub' = [sub EXCEPT ![c] = v] /\ sub'[c] = v
    <3>1. sub \in [Clients -> Subscription]
      BY DEF StreamInvariant, TypeOK
    <3> QED BY <3>1, <1>4, <1>6
  <2>12. OnlySub(c, v)
    BY <2>9, <2>11, <1>4 DEF OnlySub, StreamInvariant, TypeOK
  <2>13. SubFits(c)'
    <3>1. made' = made /\ Tip(g)' = Tip(g) /\ Tip(made)' = Tip(made) /\ seen' = seen
      BY <1>4 DEF Tip
    <3>2. v.next <= Tip(g)' /\ Heard(c, v.from, v.next - 1, v.gen)'
      BY <2>7, <2>10, <3>1 DEF Heard
    <3>3. v.cursor.gen <= made' /\ v.gen \in 1 .. made'
      BY <2>1, <2>2, <2>3, <2>10, <3>1, <1>1 DEF SubFits
    <3>4. ASSUME v.cursor.gen # 0, v.cursor.gen = made'
          PROVE  v.cursor.seq < Tip(made)' /\ Heard(c, v.from, v.cursor.seq, made)'
      <4>1. u.cursor.gen # 0 /\ u.cursor.gen = made /\ v.from = u.from
        BY <3>4, <2>8, <2>10, <3>1
      <4>2. u.cursor.seq < Tip(made) /\ Heard(c, u.from, u.cursor.seq, made)
        BY <4>1, <2>1, <1>1 DEF SubFits
      <4> QED BY <4>1, <4>2, <2>10, <3>1 DEF Heard
    <3>5. v.next <= Tip(v.gen)'
      BY <3>2, <2>10
    <3> QED BY <3>2, <3>3, <3>4, <3>5, <2>10, <2>11 DEF SubFits
  <2> QED BY <2>12, <2>13, OnlySubStep
<1> QED BY <1>5, <1>6


(* One turn of the reading loop: END, a gap, the next event, or END after the *)
(* last one.                                                                  *)
LEMMA ReadStep ==
    ASSUME StreamAssumption, StreamInvariant, NEW c \in Clients, Read(c)
    PROVE  StreamInvariant'
<1>1. PICK u \in Subscription : u = sub[c] /\ u.pc = "reading"
  BY Facts DEF Read
<1>2. PICK g \in Gens : g = u.gen /\ g <= made
  BY <1>1, Facts DEF SubFits, Gens
<1>3. PICK s \in Stream : s = streams[g] /\ Holds(s, g)
  BY Facts
<1>4. UNCHANGED <<streams, current, counter, made, waiting, producing>>
  BY DEF Read
<1>5. /\ s.start \in 0 .. MaxSeq /\ Len(s.events) \in Nat /\ Tip(g) = s.start + Len(s.events)
      /\ Tip(g) \in 0 .. MaxSeq /\ MaxSeq \in Nat /\ g \in 1 .. MaxGens /\ MaxGens \in Nat
      /\ DOMAIN s.events = 1 .. Len(s.events)
  BY <1>3, StreamFields, Facts DEF Tip, Gens
<1>6. u.next \in 0 .. MaxSeq /\ u.from \in 0 .. MaxSeq /\ u.cursor \in Ids \cup {NoId, Foreign} /\ SubFits(c)
  BY <1>1, SubscriptionFields, Facts
<1>7. u.next <= Tip(g) /\ Heard(c, u.from, u.next - 1, g)
  BY <1>1, <1>2, <1>6 DEF SubFits
<1>8. made' = made /\ Tip(g)' = Tip(g) /\ Tip(made)' = Tip(made) /\ streams'[g] = s
  BY <1>3, <1>4 DEF Tip
<1> DEFINE e == s.events[u.next - s.start + 1]
           atEnd  == [u EXCEPT !.pc = "end"]
           behind == u.next < s.start
           moved  == [u EXCEPT !.next = u.next + 1, !.cursor = e]
<1>9. sub \in [Clients -> Subscription] /\ seen \in [Clients -> SUBSET Ids]
  BY SMTT(30) DEF StreamInvariant, TypeOK
<1>10. \/ s.retired /\ s.ended /\ ~behind /\ sub' = [sub EXCEPT ![c].pc = "end"] /\ UNCHANGED seen
       \/ sub' = [sub EXCEPT ![c] = Stopped(@, "gap")] /\ UNCHANGED seen
       \/ /\ ~s.retired /\ u.next - s.start + 1 \in DOMAIN s.events
          /\ sub' = [sub EXCEPT ![c].next = @ + 1, ![c].cursor = e]
          /\ seen' = [seen EXCEPT ![c] = @ \cup {e}]
       \/ /\ ~s.retired /\ ~behind /\ u.next - s.start + 1 \notin DOMAIN s.events /\ s.ended
          /\ sub' = [sub EXCEPT ![c].pc = "end"] /\ UNCHANGED seen
  BY Zenon, <1>1, <1>2, <1>3 DEF Read, ReadFrom
<1> HIDE DEF behind, e
<1>11. ASSUME sub' = [sub EXCEPT ![c].pc = "end"], seen' = seen, s.ended, u.next >= s.closed
       PROVE  StreamInvariant'
  <2>1. atEnd \in Subscription
    <3>1. "end" \in {"idle", "attached", "reading", "gap", "end"}
      OBVIOUS
    <3> QED BY <3>1, Zenon DEF Subscription
  <2>2. /\ atEnd.pc = "end" /\ atEnd.gen = g /\ atEnd.next = u.next /\ atEnd.cursor = u.cursor
        /\ atEnd.from = u.from
    BY <1>2 DEF Subscription
  <2>3. sub' = [sub EXCEPT ![c] = atEnd]
    BY <1>1, <1>11
  <2> HIDE DEF atEnd
  <2>4. sub'[c] = atEnd
    BY <2>3, <1>9
  <2>5. OnlySub(c, atEnd)
    BY <2>1, <2>3, <1>4, <1>9, <1>11 DEF OnlySub
  <2>6. SubFits(c)'
    <3>1. \A from, to, h : Heard(c, from, to, h) => Heard(c, from, to, h)'
      BY <1>11 DEF Heard
    <3>2. Heard(c, u.from, u.next - 1, g)' /\ g \in 1 .. made'
      BY <3>1, <1>2, <1>5, <1>7, <1>8, Facts
    <3>3. u.cursor.gen <= made'
      BY <1>1, <1>6, <1>8 DEF SubFits
    <3>4. ASSUME u.cursor.gen # 0, u.cursor.gen = made'
          PROVE  u.cursor.seq < Tip(made)' /\ Heard(c, u.from, u.cursor.seq, made)'
      <4>1. u.cursor.seq < Tip(made) /\ Heard(c, u.from, u.cursor.seq, made)
        BY <3>4, <1>1, <1>6, <1>8 DEF SubFits
      <4> QED BY <4>1, <1>8, <1>11 DEF Heard
    <3>5. streams'[g].ended /\ u.next >= streams'[g].closed
      BY <1>8, <1>11
    <3> QED BY <3>2, <3>3, <3>4, <3>5, <2>2, <2>4 DEF SubFits
  <2> QED BY <2>5, <2>6, OnlySubStep
<1>12. CASE s.retired /\ s.ended /\ ~behind /\ sub' = [sub EXCEPT ![c].pc = "end"] /\ UNCHANGED seen
  <2>1. s.events = <<>>
    BY <1>3, <1>12, Facts DEF Stands
  <2>2. s.closed = s.start
    BY <2>1, <1>3, <1>5, <1>12, EmptySeq DEF Holds
  <2>3. u.next >= s.closed
    BY <2>2, <1>5, <1>6, <1>12 DEF behind
  <2> QED BY <2>3, <1>11, <1>12
<1>13. CASE /\ ~s.retired /\ ~behind /\ u.next - s.start + 1 \notin DOMAIN s.events /\ s.ended
            /\ sub' = [sub EXCEPT ![c].pc = "end"] /\ UNCHANGED seen
  <2>1. u.next >= s.start + Len(s.events)
    BY <1>5, <1>6, <1>13 DEF behind
  <2>2. s.closed = s.start + Len(s.events)
    BY <1>3, <1>13 DEF Holds
  <2> QED BY <2>1, <2>2, <1>11, <1>13
<1>14. CASE sub' = [sub EXCEPT ![c] = Stopped(@, "gap")] /\ UNCHANGED seen
  BY <1>4, <1>14, StoppedFits
<1>15. CASE /\ ~s.retired /\ u.next - s.start + 1 \in DOMAIN s.events
            /\ sub' = [sub EXCEPT ![c].next = @ + 1, ![c].cursor = e]
            /\ seen' = [seen EXCEPT ![c] = @ \cup {e}]
  <2>1. g = made
    <3>1. g = current
      BY <1>2, <1>3, <1>15, Facts DEF Stands
    <3> QED BY <3>1, <1>5, Facts
  <2>2. PICK i \in 1 .. Len(s.events) : i = u.next - s.start + 1
    BY <1>5, <1>15
  <2>3. e = [gen |-> g, seq |-> u.next] /\ e \in Ids /\ u.next + 1 <= Tip(g)
    <3>1. s.events[i] = [gen |-> g, seq |-> s.start + i - 1]
      BY <1>3 DEF Holds
    <3>2. s.start + i - 1 = u.next /\ u.next + 1 <= Tip(g)
      BY SMTT(30), <2>2, <1>5, <1>6
    <3>3. e = [gen |-> g, seq |-> u.next]
      BY <3>1, <3>2, <2>2 DEF e
    <3>4. u.next \in 0 .. MaxSeq - 1
      BY <3>2, <1>5, <1>6
    <3> QED BY <3>2, <3>3, <3>4, IdFields
  <2>4. moved \in Subscription
    <3>1. u.next + 1 \in 0 .. MaxSeq /\ e \in Ids \cup {NoId, Foreign}
      BY <2>3, <1>5, <1>6
    <3> QED BY <3>1, Zenon DEF Subscription
  <2>5. /\ moved.pc = "reading" /\ moved.gen = g /\ moved.next = u.next + 1 /\ moved.cursor = e
        /\ moved.from = u.from
    BY <1>1, <1>2 DEF Subscription
  <2>6. sub' = [sub EXCEPT ![c] = moved]
    BY <1>1, <1>15
  <2> HIDE DEF moved
  <2>7. sub'[c] = moved
    BY <2>6, <1>9
  <2>8. seen'[c] = seen[c] \cup {e}
    BY <1>9, <1>15
  <2>9. OnlySub(c, moved)
    <3>1. seen' \in [Clients -> SUBSET Ids] /\ \A d \in Clients \ {c} : seen'[d] = seen[d]
      BY <2>3, <1>9, <1>15
    <3> QED BY <3>1, <2>4, <2>6, <2>8, <1>4 DEF OnlySub
  <2>10. Heard(c, u.from, u.next, g)'
    <3> SUFFICES ASSUME NEW n \in u.from .. u.next PROVE [gen |-> g, seq |-> n] \in seen'[c]
      BY DEF Heard
    <3>1. CASE n = u.next
      BY <3>1, <2>3, <2>8
    <3>2. CASE n # u.next
      <4>1. n \in u.from .. u.next - 1
        BY <3>2, <1>6
      <4> QED BY <4>1, <2>8, <1>7 DEF Heard
    <3> QED BY <3>1, <3>2
  <2>11. SubFits(c)'
    <3>1. moved.next <= Tip(g)' /\ moved.next - 1 = u.next /\ g \in 1 .. made'
      BY <2>1, <2>3, <2>5, <1>5, <1>6, <1>8
    <3>2. moved.cursor.gen = g /\ moved.cursor.seq = u.next
      BY <2>3, <2>5
    <3>3. u.next < Tip(made)' /\ Heard(c, u.from, u.next, made)'
      <4>1. u.next < Tip(g)
        BY <2>3, <1>5, <1>6
      <4> QED BY <4>1, <2>1, <2>10, <1>8 DEF Heard
    <3>4. moved.next <= Tip(moved.gen)' /\ Heard(c, moved.from, moved.next - 1, moved.gen)'
      BY <3>1, <2>5, <2>10
    <3> QED BY <3>1, <3>2, <3>3, <3>4, <2>1, <2>5, <2>7, <1>5, <1>8 DEF SubFits
  <2> QED BY <2>9, <2>11, OnlySubStep
<1> QED BY <1>10, <1>12, <1>13, <1>14, <1>15
-----------------------------------------------------------------------------
LEMMA InitStream ==
    ASSUME StreamAssumption, Init
    PROVE  StreamInvariant
<1>1. /\ 0 \in 0 .. MaxGens /\ 0 \in 0 .. MaxSeq /\ MaxGens \in Nat \ {0} /\ MaxSeq \in Nat
      /\ <<>> \in Seq(Op) /\ Len(<<>>) = 0
  BY EmptySeq DEF StreamAssumption
<1>2. \A g \in Gens : streams[g] = NewStream /\ waiting[g] = <<>> /\ Tip(g) = 0
  BY NewHolds DEF Init, Tip
<1>3. Idle \in Subscription
  BY <1>1 DEF Idle, Subscription
<1>4. TypeOK
  <2>1. streams \in [Gens -> Stream] /\ \A g \in Gens : Len(streams[g].events) <= MaxSize
    BY <1>2, NewHolds DEF Init
  <2> QED BY <2>1, <1>1, <1>3 DEF Init, TypeOK
<1>5. Registered
  BY DEF Init, Registered
<1>6. ASSUME NEW g \in Gens PROVE Holds(streams[g], g) /\ Stands(g) /\ LineFits(g)
  <2>1. Holds(streams[g], g) /\ ~streams[g].retired /\ ~streams[g].ended
    BY <1>2, NewHolds
  <2>2. 1 .. Len(waiting[g]) = {}
    BY <1>1, <1>2
  <2>3. LineFits(g) /\ ~InLine(g, "end")
    BY <2>2 DEF LineFits, InLine
  <2>4. ~(g <= made)
    BY DEF Init, Gens
  <2>5. Stands(g)
    BY <2>1, <2>3, <2>4, <1>2 DEF Stands
  <2> QED BY <2>1, <2>3, <2>5
<1>7. ASSUME NEW c \in Clients PROVE SubFits(c)
  <2>1. sub[c] = Idle /\ made = 0
    BY DEF Init
  <2>2. Idle.pc = "idle" /\ Idle.cursor.gen = 0
    BY DEF Idle, NoId
  <2> QED BY <2>1, <2>2 DEF SubFits
<1> QED BY <1>4, <1>5, <1>6, <1>7 DEF StreamInvariant

LEMMA NextStream ==
    ASSUME StreamAssumption, StreamInvariant, [Next]_vars
    PROVE  StreamInvariant'
<1>1. CASE UNCHANGED vars
  <2> USE <1>1 DEF vars
  <2>1. TypeOK'
    BY DEF StreamInvariant, TypeOK
  <2>2. Registered'
    BY DEF StreamInvariant, Registered, Tip, InLine
  <2>3. ASSUME NEW g \in Gens PROVE Holds(streams[g], g)' /\ Stands(g)' /\ LineFits(g)'
    <3>1. Holds(streams[g], g) /\ Stands(g) /\ LineFits(g)
      BY Facts
    <3>2. Holds(streams[g], g)'
      BY <3>1, Zenon
    <3>3. Stands(g)'
      BY <3>1 DEF Stands, InLine
    <3>4. LineFits(g)'
      BY <3>1 DEF LineFits, InLine, Tip
    <3> QED BY <3>2, <3>3, <3>4
  <2>4. ASSUME NEW c \in Clients PROVE SubFits(c)'
    BY Facts DEF SubFits, Tip, Heard
  <2> QED BY <2>1, <2>2, <2>3, <2>4 DEF StreamInvariant
<1>2. CASE Publish \/ PublishEnd \/ Cleanup
  BY <1>2, PublishStep, PublishEndStep, CleanupStep
<1>3. ASSUME NEW g \in Gens, Write(g) PROVE StreamInvariant'
  BY <1>3, WriteStep
<1>4. ASSUME NEW c \in Clients,
             \/ \E cursor \in {NoId, Foreign, sub[c].cursor} : Subscribe(c, cursor)
             \/ Resolve(c) \/ Read(c) \/ Disconnect(c)
      PROVE  StreamInvariant'
  BY <1>4, SubscribeStep, ResolveStep, ReadStep, DisconnectStep
<1> QED BY <1>1, <1>2, <1>3, <1>4 DEF Next
-----------------------------------------------------------------------------
(* StreamInvariant holds in every state of the bridge (MemoryStreamBridge).   *)
THEOREM StreamIsInvariant == StreamAssumption => (Spec => []StreamInvariant)
<1> SUFFICES ASSUME StreamAssumption PROVE Spec => []StreamInvariant
  OBVIOUS
<1>1. Init => StreamInvariant
  BY InitStream
<1>2. StreamInvariant /\ [Next]_vars => StreamInvariant'
  BY NextStream
<1> QED BY <1>1, <1>2, PTL DEF Spec

(* Eviction, reconnection, cleanup and late writers never make a silent hole: *)
(* every subscriber has received all it has passed, for any queue size and    *)
(* any number of clients (memory.py: _resolve_start_offset, subscribe).       *)
THEOREM NoHole == StreamAssumption => (Spec => []NoSilentHole)
<1> SUFFICES ASSUME StreamAssumption PROVE Spec => []NoSilentHole
  OBVIOUS
<1>1. StreamInvariant => NoSilentHole
  BY DEF StreamInvariant, SubFits, Heard, NoSilentHole
<1> QED BY <1>1, StreamIsInvariant, PTL

(* END reaches a subscriber after everything published before it, also when   *)
(* cleanup has released the log meanwhile (memory.py: subscribe).             *)
THEOREM EndComesLast == StreamAssumption => (Spec => []EndAfterTail)
<1> SUFFICES ASSUME StreamAssumption PROVE Spec => []EndAfterTail
  OBVIOUS
<1>1. StreamInvariant => EndAfterTail
  BY DEF StreamInvariant, SubFits, EndAfterTail
<1> QED BY <1>1, StreamIsInvariant, PTL
=============================================================================
