----------------------------- MODULE MemoryStream -----------------------------
(* The in-process stream bridge of one run (MemoryStreamBridge): a bounded    *)
(* event log that a producer appends to and subscribers read by absolute      *)
(* offset.  Cleanup retires a log; the next call makes another one, so the    *)
(* logs of the run are numbered generations.  Writers wait for a log's        *)
(* Condition in the order in which they called; a reader may get it at any    *)
(* moment between two of them.                                                *)
(* An event id is {ts}-{seq}.  The generation stands for ts: a log is cleaned *)
(* up seconds after its last event, so two logs share no millisecond.         *)
EXTENDS Integers, Sequences, FiniteSets

CONSTANTS
    Clients,    \* subscribers
    MaxSize,    \* queue_maxsize
    MaxSeq,     \* bound: events published into one log
    MaxGens,    \* bound: logs made for the run
    MaxWaiting  \* bound: writers waiting for one log's Condition

StreamAssumption ==
    /\ MaxSize \in Nat \ {0} /\ MaxSeq \in Nat
    /\ MaxGens \in Nat \ {0} /\ MaxWaiting \in Nat \ {0}

Gens == 1 .. MaxGens
Ids  == [gen : Gens, seq : 0 .. MaxSeq - 1]

NoId    == [gen |-> 0, seq |-> 0]      \* no Last-Event-ID
Foreign == [gen |-> 0, seq |-> -1]     \* a Last-Event-ID that does not parse

VARIABLES
    streams,    \* the logs by generation
    current,    \* _streams: the registered generation, 0 for none
    counter,    \* _counters: ids handed out for the registered log
    made,       \* generations made so far
    waiting,    \* writers in line for each log's Condition
    producing,  \* "open", "busy" (a publish has not returned) or "ended"
    sub,        \* the subscriptions
    seen        \* the events each client has received

vars == <<streams, current, counter, made, waiting, producing, sub, seen>>

Stream ==
    [events  : Seq(Ids),
     start   : 0 .. MaxSeq,
     ended   : BOOLEAN,
     evicted : Ids \cup {NoId},
     retired : BOOLEAN,
     closed  : 0 .. MaxSeq]     \* events published before END (not in the code)

NewStream ==
    [events |-> <<>>, start |-> 0, ended |-> FALSE, evicted |-> NoId, retired |-> FALSE,
     closed |-> 0]

Op == [kind : {"publish"}, id : Ids] \cup [kind : {"end", "cleanup"}, id : {NoId}]

Subscription ==
    [pc     : {"idle", "attached", "reading", "gap", "end"},
     gen    : 0 .. MaxGens,
     next   : 0 .. MaxSeq,
     cursor : Ids \cup {NoId, Foreign},
     from   : 0 .. MaxSeq]      \* the first offset it is owed (not in the code)

Idle == [pc |-> "idle", gen |-> 0, next |-> 0, cursor |-> NoId, from |-> 0]

Init ==
    /\ streams = [g \in Gens |-> NewStream]
    /\ current = 0 /\ counter = 0 /\ made = 0
    /\ waiting = [g \in Gens |-> <<>>]
    /\ producing = "open"
    /\ sub = [c \in Clients |-> Idle]
    /\ seen = [c \in Clients |-> {}]
-----------------------------------------------------------------------------
(* _get_or_create_stream: the registered log, or a new one.                  *)
GetOrCreate(g) == g = IF current = 0 THEN made + 1 ELSE current

Register(g) ==
    /\ g \in Gens
    /\ current' = g
    /\ made' = IF g > made THEN g ELSE made

Enqueue(g, op) ==
    /\ Len(waiting[g]) < MaxWaiting
    /\ waiting' = [waiting EXCEPT ![g] = Append(@, op)]

(* publish: find the log, take the next id and wait for the Condition; all   *)
(* of it before the first await.                                            *)
Publish ==
    /\ producing = "open"
    /\ \E g \in Gens :
        LET seq == IF current = 0 THEN 0 ELSE counter
        IN  /\ GetOrCreate(g) /\ Register(g)
            /\ seq < MaxSeq
            /\ counter' = seq + 1
            /\ Enqueue(g, [kind |-> "publish", id |-> [gen |-> g, seq |-> seq]])
    /\ producing' = "busy"
    /\ UNCHANGED <<streams, sub, seen>>

(* publish_end: the producer's last call.                                    *)
PublishEnd ==
    /\ producing = "open"
    /\ \E g \in Gens :
        /\ GetOrCreate(g) /\ Register(g)
        /\ counter' = IF current = 0 THEN 0 ELSE counter
        /\ Enqueue(g, [kind |-> "end", id |-> NoId])
    /\ producing' = "ended"
    /\ UNCHANGED <<streams, sub, seen>>

(* cleanup, after its delay: capture the registered log and wait for it.     *)
Cleanup ==
    /\ current # 0
    /\ Enqueue(current, [kind |-> "cleanup", id |-> NoId])
    /\ UNCHANGED <<streams, current, counter, made, producing, sub, seen>>

(* The body of publish: append, and evict from the front past the bound.     *)
AppendEvent(s, id) ==
    LET all  == Append(s.events, id)
        over == IF Len(all) > MaxSize THEN Len(all) - MaxSize ELSE 0
    IN  [s EXCEPT !.events  = SubSeq(all, over + 1, Len(all)),
                  !.evicted = IF over > 0 THEN all[over] ELSE @,
                  !.start   = @ + over]

EndStream(s) ==
    [s EXCEPT !.ended = TRUE, !.closed = IF s.ended THEN @ ELSE s.start + Len(s.events)]

Retire(s) == [s EXCEPT !.retired = TRUE, !.start = @ + Len(s.events), !.events = <<>>]

(* cleanup removes the registration only while it is still its own log's.    *)
Unregister(g) ==
    /\ current' = IF current = g THEN 0 ELSE current
    /\ counter' = IF current = g THEN 0 ELSE counter

(* The first writer in line gets the Condition.                              *)
Write(g) ==
    /\ waiting[g] # <<>>
    /\ waiting' = [waiting EXCEPT ![g] = Tail(@)]
    /\ LET op == Head(waiting[g])
       IN  CASE op.kind = "publish" ->
                    /\ streams' = [streams EXCEPT ![g] = AppendEvent(@, op.id)]
                    /\ producing' = "open"
                    /\ UNCHANGED <<current, counter>>
             [] op.kind = "end" ->
                    /\ streams' = [streams EXCEPT ![g] = EndStream(@)]
                    /\ UNCHANGED <<current, counter, producing>>
             [] op.kind = "cleanup" ->
                    /\ streams' = [streams EXCEPT ![g] = Retire(@)]
                    /\ Unregister(g)
                    /\ UNCHANGED producing
    /\ UNCHANGED <<made, sub, seen>>
-----------------------------------------------------------------------------
(* subscribe, up to its first await: capture the log.  A client sends no     *)
(* Last-Event-ID, the id of the last event it received, or garbage.          *)
Subscribe(c, cursor) ==
    /\ sub[c].pc \notin {"attached", "reading"}
    /\ cursor \in {NoId, Foreign, sub[c].cursor}
    /\ \E g \in Gens :
        /\ GetOrCreate(g) /\ Register(g)
        /\ counter' = IF current = 0 THEN 0 ELSE counter
        /\ sub' = [sub EXCEPT ![c].pc = "attached", ![c].gen = g, ![c].cursor = cursor]
    /\ UNCHANGED <<streams, waiting, producing, seen>>

(* A generator that stops before END keeps nothing but the client's cursor.  *)
Stopped(u, pc) == [u EXCEPT !.pc = pc, !.gen = 0, !.next = 0]

LostUnlessRetired(s, cursor) == s.retired

(* _resolve_start_offset: a gap, or the offset to start from.                *)
Lost(s, cursor) ==
    \/ s.retired
    \/ /\ cursor \notin {NoId, Foreign, s.evicted}
       /\ cursor.seq < s.start

Retained(s, cursor) ==
    /\ cursor.seq - s.start \in 0 .. Len(s.events) - 1
    /\ s.events[cursor.seq - s.start + 1] = cursor

StartOffset(s, cursor) ==
    IF cursor \notin {NoId, Foreign, s.evicted} /\ Retained(s, cursor)
    THEN cursor.seq + 1 ELSE s.start

(* A client is owed everything after the cursor it got from this log, and    *)
(* otherwise everything the log holds when it starts.                        *)
Resolve(c) ==
    /\ sub[c].pc = "attached"
    /\ LET s == streams[sub[c].gen]
           cursor == sub[c].cursor
           start  == StartOffset(s, cursor)
       IN  sub' = [sub EXCEPT ![c] =
               IF Lost(s, cursor) THEN Stopped(@, "gap")
               ELSE [@ EXCEPT !.pc = "reading", !.next = start,
                              !.from = IF cursor.gen = sub[c].gen THEN sub[c].from ELSE start]]
    /\ UNCHANGED <<streams, current, counter, made, waiting, producing, seen>>

(* One turn of the subscriber's loop, with the Condition held.  An idle turn *)
(* yields a heartbeat and changes nothing.                                   *)
ReadFrom(c, s) ==
    LET index == sub[c].next - s.start + 1
        behind == sub[c].next < s.start
    IN  \/ /\ s.retired /\ s.ended /\ ~behind
           /\ sub' = [sub EXCEPT ![c].pc = "end"]
           /\ UNCHANGED seen
        \/ /\ behind \/ (s.retired /\ ~s.ended)
           /\ sub' = [sub EXCEPT ![c] = Stopped(@, "gap")]
           /\ UNCHANGED seen
        \/ /\ ~s.retired /\ index \in DOMAIN s.events
           /\ sub' = [sub EXCEPT ![c].next = @ + 1, ![c].cursor = s.events[index]]
           /\ seen' = [seen EXCEPT ![c] = @ \cup {s.events[index]}]
        \/ /\ ~s.retired /\ ~behind /\ index \notin DOMAIN s.events
           /\ s.ended
           /\ sub' = [sub EXCEPT ![c].pc = "end"]
           /\ UNCHANGED seen

ReadRetiredAsEnd(c) ==
    /\ sub[c].pc = "reading"
    /\ LET s == streams[sub[c].gen]
       IN  IF s.retired /\ s.ended
           THEN sub' = [sub EXCEPT ![c].pc = "end"] /\ UNCHANGED seen
           ELSE ReadFrom(c, s)
    /\ UNCHANGED <<streams, current, counter, made, waiting, producing>>

ReadUnlessRetired(c) ==
    /\ sub[c].pc = "reading"
    /\ ~streams[sub[c].gen].retired
    /\ ReadFrom(c, streams[sub[c].gen])
    /\ UNCHANGED <<streams, current, counter, made, waiting, producing>>

Read(c) ==
    /\ sub[c].pc = "reading"
    /\ ReadFrom(c, streams[sub[c].gen])
    /\ UNCHANGED <<streams, current, counter, made, waiting, producing>>

(* The client goes away.                                                     *)
Disconnect(c) ==
    /\ sub[c].pc \in {"attached", "reading"}
    /\ sub' = [sub EXCEPT ![c] = Stopped(@, "idle")]
    /\ UNCHANGED <<streams, current, counter, made, waiting, producing, seen>>

Next ==
    \/ Publish \/ PublishEnd \/ Cleanup
    \/ \E g \in Gens : Write(g)
    \/ \E c \in Clients :
         \/ \E cursor \in {NoId, Foreign, sub[c].cursor} : Subscribe(c, cursor)
         \/ Resolve(c) \/ Read(c) \/ Disconnect(c)

Spec == Init /\ [][Next]_vars

(* The event loop runs every writer in line and every reader that is ready.  *)
FairSpec ==
    /\ Spec
    /\ \A g \in Gens : WF_vars(Write(g))
    /\ \A c \in Clients : WF_vars(Resolve(c)) /\ WF_vars(Read(c))
-----------------------------------------------------------------------------
TypeOK ==
    /\ streams \in [Gens -> Stream]
    /\ \A g \in Gens : Len(streams[g].events) <= MaxSize
    /\ current \in 0 .. MaxGens /\ made \in 0 .. MaxGens /\ counter \in 0 .. MaxSeq
    /\ waiting \in [Gens -> Seq(Op)]
    /\ producing \in {"open", "busy", "ended"}
    /\ sub \in [Clients -> Subscription]
    /\ seen \in [Clients -> SUBSET Ids]

(* Eviction, reconnection and cleanup never make a silent hole: what a       *)
(* subscriber has passed since the offset it was owed, it has received       *)
(* (memory.py: replay from Last-Event-ID, _resolve_start_offset, subscribe).  *)
NoSilentHole ==
    \A c \in Clients : sub[c].pc \in {"reading", "end"} =>
        \A n \in sub[c].from .. sub[c].next - 1 :
            [gen |-> sub[c].gen, seq |-> n] \in seen[c]

(* END reaches a subscriber only after everything published before END, also *)
(* when cleanup has released the log meanwhile (subscribe, retired branch).  *)
EndAfterTail ==
    \A c \in Clients : sub[c].pc = "end" =>
        /\ streams[sub[c].gen].ended
        /\ sub[c].next >= streams[sub[c].gen].closed

(* A subscriber of a log that has ended, was cleaned up or is registered no  *)
(* more, so that the producer's next event goes elsewhere, does not wait for *)
(* ever (subscribe: END or a gap, then return; cleanup: "retire that         *)
(* generation ... and wake readers").                                        *)
ReadersFinish ==
    \A c \in Clients :
        /\ sub[c].pc = "reading"
        /\ streams[sub[c].gen].ended \/ streams[sub[c].gen].retired \/ sub[c].gen # current
        ~> sub[c].pc # "reading"
=============================================================================
