---------------------------- MODULE DeliveryProofs ----------------------------
(***************************************************************************)
(* Parts of a gateway that owe somebody an answer, as instances over the    *)
(* variables of MCDelivery, and the theorems about each of them, for every  *)
(* value of the constants.  Each part is the component's module; its        *)
(* definitions are reached as Part!Def.                                     *)
(***************************************************************************)
EXTENDS Integers, Sequences, FiniteSets, FiniteSetTheorems, SequenceTheorems, TLAPS

CONSTANTS
    Keys, QueueDepth, MaxFeeds, MaxTimers,                                \* MemoryQueue
    Inputs, MaxInputs, MaxContinues,                                      \* RunInputs
    SyncCallers, AsyncCallers, Permits,                                   \* LlmLimiter
    Consumers, MaxLen, MaxEvents                                          \* RedisStream

VARIABLES
    feeds, items, timer, callbacks, taken, consumer, drain,               \* MemoryQueue
    input, closed, order, message, graph, heard, runs, caller, todo,      \* RunInputs
    inFlight, waiters, sleepers, pc,                                      \* LlmLimiter
    log, lastId, events, tracked, active, row, prod, recovery, cons, got  \* RedisStream

Queue == INSTANCE MemoryQueue WITH MaxDepth <- QueueDepth, MaxWaiting <- MaxTimers, batch <- taken
Input == INSTANCE RunInputs WITH row <- input, item <- message
Limiter == INSTANCE LlmLimiter WITH Limit <- Permits
Redis == INSTANCE RedisStream

-----------------------------------------------------------------------------
(* The memory update queue: an accepted update is queued or with the consumer*)
(* until it is settled.                                                     *)

(* Only a consumer holds what was taken out.                                 *)
QueueInvariant == Queue!TypeOK /\ Queue!NoUpdateDropped /\ (consumer = "none" => taken = {})

(* What is in the queue, and what a step on it may change, leaves the order  *)
(* and the number of feeds alone.                                            *)
LEMMA QueueFeeds ==
    ASSUME Queue!TypeOK
    PROVE  /\ Len(feeds) \in Nat /\ DOMAIN feeds = 1 .. Len(feeds)
           /\ \A i \in DOMAIN feeds : feeds[i] \in Queue!Feed /\ i \in Nat
BY DEF Queue!TypeOK

(* A context that takes another's place covers what that one did.            *)
LEMMA QueueReplaced ==
    ASSUME Queue!TypeOK, NEW its \in SUBSET Queue!Context, NEW new,
           \A c \in its : \E d \in new : /\ d.feed = c.feed /\ d.key = c.key /\ d.bypass = c.bypass
                                         /\ d.signals = c.signals
    PROVE  Queue!Covered(its) \subseteq Queue!Covered(new)
BY DEF Queue!Covered, Queue!Covers

(* A context brought forward is otherwise the same.                          *)
LEMMA QueueBrought ==
    ASSUME NEW c \in Queue!Context
    PROVE  LET d == [c EXCEPT !.due = TRUE]
           IN  d \in Queue!Context /\ d.feed = c.feed /\ d.key = c.key /\ d.bypass = c.bypass
           /\ d.signals = c.signals
BY DEF Queue!Context

(* Settling updates changes their state only, and only from pending.         *)
LEMMA QueueSettle ==
    ASSUME Queue!TypeOK, NEW is, NEW state \in {"done", "cancelled"}, Queue!Settle(is, state)
    PROVE  /\ feeds' \in Seq(Queue!Feed) /\ Len(feeds') = Len(feeds) /\ Queue!Pending' = Queue!Pending \ is
           /\ DOMAIN feeds' = DOMAIN feeds
           /\ \A c, i : i \in DOMAIN feeds /\ Queue!Covers(c, i) => Queue!Covers(c, i)'
<1>1. /\ Len(feeds) \in Nat /\ DOMAIN feeds = 1 .. Len(feeds)
      /\ \A i \in DOMAIN feeds : feeds[i] \in Queue!Feed /\ i \in Nat
  BY QueueFeeds
<1>2. \A i \in DOMAIN feeds : /\ i \in is \cap Queue!Pending => feeds'[i] = [feeds[i] EXCEPT !.state = state]
                              /\ i \notin is \cap Queue!Pending => feeds'[i] = feeds[i]
  BY DEF Queue!Settle
<1>3. \A i \in DOMAIN feeds : /\ feeds'[i] \in Queue!Feed
                              /\ feeds'[i].key = feeds[i].key /\ feeds'[i].kind = feeds[i].kind
                              /\ i \in is \cap Queue!Pending => feeds'[i].state = state
                              /\ i \notin is \cap Queue!Pending => feeds'[i].state = feeds[i].state
  BY <1>1, <1>2 DEF Queue!Feed
<1>4. DOMAIN feeds' = DOMAIN feeds
  BY DEF Queue!Settle
<1>5. feeds' \in Seq(Queue!Feed) /\ Len(feeds') = Len(feeds)
  <2>1. feeds' = [i \in 1 .. Len(feeds) |-> feeds'[i]]
    BY <1>1 DEF Queue!Settle
  <2> QED BY <1>1, <1>3, <2>1
<1>6. Queue!Pending' = Queue!Pending \ is
  BY <1>3, <1>4 DEF Queue!Pending
<1>7. \A c, i : i \in DOMAIN feeds /\ Queue!Covers(c, i) => Queue!Covers(c, i)'
  BY <1>3, <1>4 DEF Queue!Covers
<1> QED BY <1>4, <1>5, <1>6, <1>7

(* A feed that is appended is pending, and covered by its own context.       *)
LEMMA QueueEnqueue ==
    ASSUME Queue!QueueAssumption, QueueInvariant, NEW k \in Keys, NEW kind \in Queue!Kinds,
           Queue!Enqueue(k, kind), UNCHANGED taken
    PROVE  /\ feeds' \in Seq(Queue!Feed) /\ Len(feeds') <= MaxFeeds /\ items' \subseteq Queue!Context
           /\ Queue!NoUpdateDropped'
<1> DEFINE n   == Len(feeds) + 1
           old == Queue!Existing(k, kind)
           new == [feed    |-> n, key |-> k, bypass |-> kind = "emergency",
                   signals |-> Queue!Signals(old) \cup (IF kind = "signal" THEN {n} ELSE {}),
                   due     |-> kind = "emergency" \/ \E c \in old : c.due]
           feed == [key |-> k, kind |-> kind, state |-> "pending"]
<1>1. /\ Len(feeds) \in Nat /\ DOMAIN feeds = 1 .. Len(feeds)
      /\ \A i \in DOMAIN feeds : feeds[i] \in Queue!Feed /\ i \in Nat
  BY QueueFeeds DEF QueueInvariant
<1>2. n <= MaxFeeds /\ n \in 1 .. MaxFeeds /\ feeds' = Append(feeds, feed) /\ items' = (items \ old) \cup {new}
  <2>1. n <= MaxFeeds /\ feeds' = Append(feeds, feed)
    BY DEF Queue!Enqueue
  <2>3. items' = (items \ old) \cup {new}
    BY DEF Queue!Enqueue
  <2>2. n \in Nat /\ n > 0
    BY <1>1
  <2> HIDE DEF n
  <2> QED BY <2>1, <2>2, <2>3 DEF Queue!QueueAssumption
<1>3. feed \in Queue!Feed
  BY DEF Queue!Feed, Queue!Kinds
<1>4. /\ feeds' \in Seq(Queue!Feed) /\ Len(feeds') = n /\ DOMAIN feeds' = DOMAIN feeds \cup {n}
         /\ feeds'[n] = feed
      /\ \A i \in DOMAIN feeds : feeds'[i] = feeds[i]
  BY <1>1, <1>2, <1>3 DEF QueueInvariant, Queue!TypeOK
<1>5. old \subseteq items /\ items \subseteq Queue!Context /\ \A c \in old : c.key = k /\ ~c.bypass
      /\ kind # "emergency"
  BY DEF Queue!Existing, QueueInvariant, Queue!TypeOK
<1>6. \A c \in old : c.signals \subseteq Queue!Signals(old)
  <2> HIDE DEF old
  <2> QED BY DEF Queue!Signals
<1>7. Queue!Signals(old) \subseteq 1 .. MaxFeeds
  <2>1. \A c \in old : c.signals \subseteq 1 .. MaxFeeds
    BY <1>5 DEF Queue!Context
  <2> HIDE DEF old
  <2> QED BY <2>1 DEF Queue!Signals
<1>8. /\ new.feed = n /\ new.key = k
         /\ new.signals = Queue!Signals(old) \cup (IF kind = "signal" THEN {n} ELSE {})
      /\ (kind = "emergency" => new.bypass) /\ (kind # "emergency" => ~new.bypass)
  <2> HIDE DEF old, n
  <2> QED OBVIOUS
<1>9. new \in Queue!Context
  <2> HIDE DEF old, n
  <2> QED BY <1>2, <1>7 DEF Queue!Context
<1> HIDE DEF new, old
<1>17. PICK x : /\ x \in Queue!Context /\ items' = (items \ old) \cup {x} /\ x.feed = n /\ x.key = k
                /\ (kind = "emergency" => x.bypass) /\ (kind # "emergency" => ~x.bypass)
                /\ (kind = "signal" => n \in x.signals)
                /\ \A c \in old : c.signals \subseteq x.signals
  BY <1>2, <1>6, <1>8, <1>9
<1>18. PICK m : m = n
  OBVIOUS
<1>10. Queue!Pending' \subseteq Queue!Pending \cup {n}
  BY <1>4 DEF Queue!Pending
<1>11. n \in Queue!Covered(items)'
  <2>1. feeds'[m].key = k /\ feeds'[m].kind = kind /\ m \in DOMAIN feeds' /\ m \in Nat
    BY <1>1, <1>4, <1>18
  <2>2. Queue!Covers(x, m)'
    BY <1>17, <1>18, <2>1 DEF Queue!Covers
  <2> QED BY <1>17, <1>18, <2>1, <2>2 DEF Queue!Covered
<1>12. ASSUME NEW i \in Queue!Pending PROVE i \in Queue!Covered(items)' \cup Queue!Covered(taken)'
  <2>1. i \in DOMAIN feeds /\ i \in Nat /\ i <= n /\ feeds'[i] = feeds[i] /\ i \in DOMAIN feeds'
    BY <1>1, <1>4 DEF Queue!Pending
  <2>2. PICK c \in items \cup taken : Queue!Covers(c, i)
    BY <2>1 DEF QueueInvariant, Queue!NoUpdateDropped, Queue!Covered
  <2>3. CASE c \in old
    <3>1. Queue!Covers(x, i)'
      BY <1>5, <1>17, <2>1, <2>2, <2>3 DEF Queue!Covers
    <3> QED BY <1>17, <2>1, <3>1 DEF Queue!Covered
  <2>4. CASE c \notin old
    <3>1. Queue!Covers(c, i)'
      BY <2>1, <2>2 DEF Queue!Covers
    <3> QED BY <1>17, <2>1, <2>2, <2>4, <3>1 DEF Queue!Covered
  <2> QED BY <2>3, <2>4
<1>13. items' \subseteq Queue!Context
  BY <1>5, <1>17
<1>14. Len(feeds') <= MaxFeeds
  BY <1>2, <1>4
<1>19. Queue!NoUpdateDropped'
  BY <1>10, <1>11, <1>12 DEF Queue!NoUpdateDropped
<1> QED BY <1>4, <1>13, <1>14, <1>19

(* What is brought forward, or moved to the consumer, is still covered.      *)
LEMMA QueueKept ==
    ASSUME QueueInvariant, UNCHANGED feeds, items' \subseteq Queue!Context, taken' \subseteq Queue!Context,
           \A c \in items \cup taken : \E d \in items' \cup taken' :
               d.feed = c.feed /\ d.key = c.key /\ d.bypass = c.bypass /\ d.signals = c.signals
    PROVE  Queue!NoUpdateDropped'
<1> SUFFICES ASSUME NEW i \in Queue!Pending' PROVE i \in Queue!Covered(items)' \cup Queue!Covered(taken)'
  BY DEF Queue!NoUpdateDropped
<1>1. i \in Queue!Pending /\ i \in DOMAIN feeds /\ i \in DOMAIN feeds'
  BY DEF Queue!Pending
<1>2. PICK c \in items \cup taken : Queue!Covers(c, i)
  BY <1>1 DEF QueueInvariant, Queue!NoUpdateDropped, Queue!Covered
<1>3. PICK d \in items' \cup taken' : d.feed = c.feed /\ d.key = c.key /\ d.bypass = c.bypass
           /\ d.signals = c.signals
  OBVIOUS
<1>4. Queue!Covers(d, i)'
  BY <1>2, <1>3 DEF Queue!Covers
<1> QED BY <1>1, <1>3, <1>4 DEF Queue!Covered

(* Settling what is covered by the contexts that leave drops nothing.        *)
LEMMA QueueSettled ==
    ASSUME QueueInvariant, NEW is, NEW state \in {"done", "cancelled"}, Queue!Settle(is, state),
           \A i \in DOMAIN feeds, c \in items \cup taken :
               Queue!Covers(c, i) => i \in is \/ \E d \in items' \cup taken' : Queue!Covers(d, i)
    PROVE  Queue!NoUpdateDropped'
<1>1. Queue!Pending' = Queue!Pending \ is /\ DOMAIN feeds' = DOMAIN feeds
  BY QueueSettle DEF QueueInvariant
<1>2. \A c, i : i \in DOMAIN feeds /\ Queue!Covers(c, i) => Queue!Covers(c, i)'
  BY QueueSettle DEF QueueInvariant
<1> SUFFICES ASSUME NEW i \in Queue!Pending' PROVE i \in Queue!Covered(items)' \cup Queue!Covered(taken)'
  BY DEF Queue!NoUpdateDropped
<1>3. i \in DOMAIN feeds /\ i \in Queue!Pending /\ i \notin is /\ i \in DOMAIN feeds'
  BY <1>1 DEF Queue!Pending
<1>4. PICK c \in items \cup taken : Queue!Covers(c, i)
  BY <1>3 DEF QueueInvariant, Queue!NoUpdateDropped, Queue!Covered
<1>5. PICK d \in items' \cup taken' : Queue!Covers(d, i)
  BY <1>3, <1>4
<1>6. Queue!Covers(d, i)'
  BY <1>2, <1>3, <1>5
<1> QED BY <1>3, <1>5, <1>6 DEF Queue!Covered

(* The timer is armed, kept or disarmed.                                     *)
LEMMA QueueTimer ==
    ASSUME Queue!TypeOK, NEW its, NEW busy, Queue!Rearm(its, busy)
    PROVE  timer' \in {"none", "later", "due", "fired"}
BY DEF Queue!Rearm, Queue!Wakeup, Queue!TypeOK

(* What the consumer takes leaves the queue and nothing is lost between.     *)
LEMMA QueueSelect ==
    ASSUME QueueInvariant, NEW by \in {"timer", "flush"}, NEW due_only, Queue!Select(by, due_only),
           UNCHANGED feeds
    PROVE  /\ items' \subseteq Queue!Context /\ taken' \subseteq Queue!Context
           /\ timer' \in {"none", "later", "due", "fired"} /\ consumer' \in {"none", "timer", "flush"}
           /\ Queue!NoUpdateDropped' /\ (consumer' = "none" => taken' = {})
<1>1. items \subseteq Queue!Context /\ taken \subseteq Queue!Context /\ consumer \in {"none", "timer", "flush"}
  BY DEF QueueInvariant, Queue!TypeOK
<1>2. (consumer = "none" => taken = {})
  BY DEF QueueInvariant
<1>3. \/ UNCHANGED <<items, taken, consumer>>
      \/ consumer = "none" /\ consumer' = by /\ \E took \in SUBSET items : taken' = took
         /\ items' = items \ took
  BY DEF Queue!Select
<1>4. timer' \in {"none", "later", "due", "fired"}
  BY DEF Queue!Select
<1>5. items' \subseteq Queue!Context /\ taken' \subseteq Queue!Context
      /\ items \cup taken \subseteq items' \cup taken'
  BY <1>1, <1>2, <1>3
<1>6. Queue!NoUpdateDropped'
  <2>1. \A c \in items \cup taken : \E d \in items' \cup taken' :
            d.feed = c.feed /\ d.key = c.key /\ d.bypass = c.bypass /\ d.signals = c.signals
    BY <1>5
  <2> QED BY <1>5, <2>1, QueueKept
<1>7. consumer' \in {"none", "timer", "flush"} /\ (consumer' = "none" => taken' = {})
  BY <1>1, <1>2, <1>3
<1> QED BY <1>4, <1>5, <1>6, <1>7

(* A typed record of the drain keeps its type when one field is set.         *)
LEMMA QueueDrains ==
    ASSUME Queue!TypeOK
    PROVE  /\ drain.caller \in {"out", "join", "pending", "idle", "wait", "still", "empty", "idle_true", "true", "false"}
           /\ drain.before \in SUBSET (1 .. MaxFeeds)
           /\ \A f \in {"none", "mark", "take", "work", "done"} : [drain EXCEPT !.flusher = f] \in Queue!Drain
           /\ \A c \in {"join", "pending", "idle", "wait", "still", "empty", "idle_true", "true", "false"} :
                  [drain EXCEPT !.caller = c] \in Queue!Drain
           /\ \A c \in {"join", "pending"}, b \in SUBSET (1 .. MaxFeeds) :
                  [drain EXCEPT !.caller = c, !.before = b] \in Queue!Drain
<1>1. drain \in Queue!Drain
  BY DEF Queue!TypeOK
<1>2. /\ drain.caller \in {"out", "join", "pending", "idle", "wait", "still", "empty", "idle_true", "true", "false"}
      /\ drain.before \in SUBSET (1 .. MaxFeeds)
  BY <1>1 DEF Queue!Drain
<1>3. \A f \in {"none", "mark", "take", "work", "done"} : [drain EXCEPT !.flusher = f] \in Queue!Drain
  BY <1>1, Zenon DEF Queue!Drain
<1>4. \A c \in {"join", "pending", "idle", "wait", "still", "empty", "idle_true", "true", "false"} :
          [drain EXCEPT !.caller = c] \in Queue!Drain
  BY <1>1 DEF Queue!Drain
<1>5. \A c \in {"join", "pending"}, b \in SUBSET (1 .. MaxFeeds) :
          [drain EXCEPT !.caller = c, !.before = b] \in Queue!Drain
  BY <1>1 DEF Queue!Drain
<1> QED BY <1>2, <1>3, <1>4, <1>5

(* What is pending is a set of feeds.                                        *)
LEMMA QueuePending ==
    ASSUME Queue!QueueAssumption, Queue!TypeOK
    PROVE  Queue!Pending \in SUBSET (1 .. MaxFeeds)
<1>1. Len(feeds) \in Nat /\ Len(feeds) <= MaxFeeds /\ DOMAIN feeds = 1 .. Len(feeds)
  BY QueueFeeds DEF Queue!TypeOK
<1> QED BY <1>1 DEF Queue!Pending, Queue!QueueAssumption

(* Only the drain moves.                                                     *)
LEMMA QueueDrained ==
    ASSUME QueueInvariant, drain' \in Queue!Drain, UNCHANGED <<feeds, items, timer, callbacks, taken, consumer>>
    PROVE  QueueInvariant'
BY DEF QueueInvariant, Queue!TypeOK, Queue!NoUpdateDropped, Queue!Pending, Queue!Covered, Queue!Covers

(* The queue starts empty.                                                   *)
LEMMA QueueInits ==
    ASSUME Queue!QueueAssumption, Queue!Init
    PROVE  QueueInvariant
<1>1. drain \in Queue!Drain
  BY DEF Queue!Init, Queue!Drain
<1>2. feeds \in Seq(Queue!Feed) /\ Len(feeds) <= MaxFeeds /\ DOMAIN feeds = {}
  BY DEF Queue!Init, Queue!QueueAssumption
<1>3. callbacks \in 0 .. MaxTimers
  BY DEF Queue!Init, Queue!QueueAssumption
<1>4. Queue!NoUpdateDropped
  BY <1>2 DEF Queue!NoUpdateDropped, Queue!Pending
<1> QED BY <1>1, <1>2, <1>3, <1>4 DEF Queue!Init, QueueInvariant, Queue!TypeOK

(* Each operation keeps the invariant.                                       *)
LEMMA QueueStep ==
    ASSUME Queue!QueueAssumption, QueueInvariant, Queue!Next
    PROVE  QueueInvariant'
<1>1. /\ feeds \in Seq(Queue!Feed) /\ Len(feeds) <= MaxFeeds
      /\ items \subseteq Queue!Context /\ taken \subseteq Queue!Context
      /\ timer \in {"none", "later", "due", "fired"} /\ callbacks \in 0 .. MaxTimers
      /\ consumer \in {"none", "timer", "flush"} /\ drain \in Queue!Drain
  BY DEF QueueInvariant, Queue!TypeOK
<1>2. Queue!TypeOK /\ (consumer = "none" => taken = {})
  BY DEF QueueInvariant
<1>3. ASSUME NEW k \in Keys, NEW kind \in Queue!Kinds, Queue!Add(k, kind) PROVE QueueInvariant'
  <2>1. feeds' \in Seq(Queue!Feed) /\ Len(feeds') <= MaxFeeds /\ items' \subseteq Queue!Context
        /\ Queue!NoUpdateDropped'
    BY <1>3, QueueEnqueue DEF Queue!Add
  <2>2. timer' \in {"none", "later", "due", "fired"}
    BY <1>1, <1>3 DEF Queue!Add, Queue!Rearm, Queue!Wakeup
  <2> QED BY <1>1, <1>2, <1>3, <2>1, <2>2 DEF Queue!Add, QueueInvariant, Queue!TypeOK
<1>4. ASSUME NEW k \in Keys, Queue!AddNowait(k) PROVE QueueInvariant'
  <2>1. feeds' \in Seq(Queue!Feed) /\ Len(feeds') <= MaxFeeds /\ items' \subseteq Queue!Context
        /\ Queue!NoUpdateDropped'
    BY <1>4, QueueEnqueue DEF Queue!AddNowait, Queue!Kinds
  <2> QED BY <1>1, <1>2, <1>4, <2>1 DEF Queue!AddNowait, QueueInvariant, Queue!TypeOK
<1>5. ASSUME NEW ks \in SUBSET Keys, Queue!CancelByAgent(ks) PROVE QueueInvariant'
  <2> DEFINE gone == {c \in items : c.key \in ks}
             is   == Queue!Covered(gone) \ Queue!Covered(taken)
  <2>1. items' = items \ gone /\ Queue!Settle(is, "cancelled")
        /\ UNCHANGED <<callbacks, taken, consumer, drain>>
    BY <1>5 DEF Queue!CancelByAgent
  <2>2. timer' \in {"none", "later", "due", "fired"}
    BY <1>1, <1>5 DEF Queue!CancelByAgent
  <2>3. \A i \in DOMAIN feeds, c \in items \cup taken :
            Queue!Covers(c, i) => i \in is \/ \E d \in items' \cup taken' : Queue!Covers(d, i)
    <3> SUFFICES ASSUME NEW i \in DOMAIN feeds, NEW c \in items \cup taken, Queue!Covers(c, i),
                        ~\E d \in items' \cup taken' : Queue!Covers(d, i)
                 PROVE  i \in is
      OBVIOUS
    <3>1. c \in gone
      BY <2>1
    <3> HIDE DEF gone
    <3>2. i \in Queue!Covered(gone) /\ i \notin Queue!Covered(taken)
      BY <2>1, <3>1 DEF Queue!Covered
    <3> QED BY <3>2
  <2> HIDE DEF is, gone
  <2>4. feeds' \in Seq(Queue!Feed) /\ Len(feeds') = Len(feeds)
    BY <1>2, <2>1, QueueSettle
  <2>5. Queue!NoUpdateDropped'
    BY <2>1, <2>3, QueueSettled
  <2> QED BY <1>1, <1>2, <2>1, <2>2, <2>4, <2>5 DEF QueueInvariant, Queue!TypeOK
<1>6. ASSUME NEW c \in items, Queue!Elapse(c) PROVE QueueInvariant'
  <2> DEFINE d == [c EXCEPT !.due = TRUE]
  <2>1. d \in Queue!Context /\ d.feed = c.feed /\ d.key = c.key /\ d.bypass = c.bypass /\ d.signals = c.signals
    BY <1>1, QueueBrought
  <2> HIDE DEF d
  <2>2. items' = (items \ {c}) \cup {d} /\ UNCHANGED <<feeds, timer, callbacks, taken, consumer, drain>>
    BY <1>6 DEF Queue!Elapse, d
  <2>3. items' \subseteq Queue!Context /\ taken' \subseteq Queue!Context
    BY <1>1, <2>1, <2>2
  <2>4. \A x \in items \cup taken : \E y \in items' \cup taken' :
            y.feed = x.feed /\ y.key = x.key /\ y.bypass = x.bypass /\ y.signals = x.signals
    BY <2>1, <2>2
  <2>5. Queue!NoUpdateDropped'
    BY <2>2, <2>3, <2>4, QueueKept
  <2> QED BY <1>1, <1>2, <2>2, <2>3, <2>5 DEF QueueInvariant, Queue!TypeOK
<1>7. /\ Queue!DueNow(items) \subseteq Queue!Context
      /\ \A x \in items : \E y \in Queue!DueNow(items) :
             y.feed = x.feed /\ y.key = x.key /\ y.bypass = x.bypass /\ y.signals = x.signals
  <2>1. \A x \in items : [x EXCEPT !.due = TRUE] \in Queue!DueNow(items)
    BY DEF Queue!DueNow
  <2>2. \A x \in items :
            LET y == [x EXCEPT !.due = TRUE]
            IN  y \in Queue!Context /\ y.feed = x.feed /\ y.key = x.key /\ y.bypass = x.bypass
            /\ y.signals = x.signals
    BY <1>1, QueueBrought
  <2> QED BY <2>1, <2>2 DEF Queue!DueNow
<1>8. ASSUME items' = Queue!DueNow(items), UNCHANGED <<feeds, taken>>
      PROVE items' \subseteq Queue!Context /\ Queue!NoUpdateDropped'
  <2>1. items' \subseteq Queue!Context /\ taken' \subseteq Queue!Context
    BY <1>1, <1>7, <1>8
  <2>2. \A x \in items \cup taken : \E y \in items' \cup taken' :
            y.feed = x.feed /\ y.key = x.key /\ y.bypass = x.bypass /\ y.signals = x.signals
    BY <1>7, <1>8
  <2> QED BY <1>8, <2>1, <2>2, QueueKept
<1>9. CASE Queue!FlushNowait
  BY <1>1, <1>2, <1>8, <1>9 DEF Queue!FlushNowait, QueueInvariant, Queue!TypeOK
<1>10. CASE Queue!TimerFires
  <2>1. callbacks' \in 0 .. MaxTimers
    BY <1>1, <1>10 DEF Queue!TimerFires, Queue!QueueAssumption
  <2>2. Queue!NoUpdateDropped'
    BY <1>10
    DEF Queue!TimerFires, QueueInvariant, Queue!NoUpdateDropped, Queue!Pending, Queue!Covered, Queue!Covers
  <2> QED BY <1>1, <1>2, <1>10, <2>1, <2>2 DEF Queue!TimerFires, QueueInvariant, Queue!TypeOK
<1>11. CASE Queue!Callback
  <2>1. callbacks' \in 0 .. MaxTimers
    BY <1>1, <1>11 DEF Queue!Callback, Queue!QueueAssumption
  <2>2. /\ items' \subseteq Queue!Context /\ taken' \subseteq Queue!Context
        /\ timer' \in {"none", "later", "due", "fired"} /\ consumer' \in {"none", "timer", "flush"}
        /\ Queue!NoUpdateDropped' /\ (consumer' = "none" => taken' = {})
    BY <1>11, QueueSelect DEF Queue!Callback
  <2> QED BY <1>1, <1>11, <2>1, <2>2 DEF Queue!Callback, QueueInvariant, Queue!TypeOK
<1>12. CASE Queue!Process
  <2>1. PICK c \in taken : /\ taken' = taken \ {c} /\ Queue!Settle(Queue!Covered({c}), "done")
                           /\ UNCHANGED <<items, timer, callbacks, consumer, drain>>
    BY <1>12 DEF Queue!Process
  <2> DEFINE is == Queue!Covered({c})
  <2>2. Queue!Settle(is, "done")
    BY <2>1
  <2>3. \A i \in DOMAIN feeds, x \in items \cup taken :
            Queue!Covers(x, i) => i \in is \/ \E d \in items' \cup taken' : Queue!Covers(d, i)
    <3> SUFFICES ASSUME NEW i \in DOMAIN feeds, NEW x \in items \cup taken, Queue!Covers(x, i),
                        ~\E d \in items' \cup taken' : Queue!Covers(d, i)
                 PROVE  i \in is
      OBVIOUS
    <3>1. x = c
      BY <2>1
    <3> QED BY <3>1 DEF Queue!Covered
  <2> HIDE DEF is
  <2>4. feeds' \in Seq(Queue!Feed) /\ Len(feeds') = Len(feeds)
    BY <1>2, <2>2, QueueSettle
  <2>5. Queue!NoUpdateDropped'
    BY <2>2, <2>3, QueueSettled
  <2> QED BY <1>1, <1>2, <2>1, <2>4, <2>5 DEF QueueInvariant, Queue!TypeOK
<1>13. ASSUME NEW f \in {"none", "mark", "take", "work", "done"}
       PROVE [drain EXCEPT !.flusher = f] \in Queue!Drain
  BY <1>2, QueueDrains
<1>14. CASE Queue!Finish
  <2>1. drain' \in Queue!Drain
    BY <1>1, <1>13, <1>14 DEF Queue!Finish, Queue!Finished
  <2>2. timer' \in {"none", "later", "due", "fired"}
    BY <1>2, <1>14, QueueTimer DEF Queue!Finish
  <2>3. Queue!NoUpdateDropped'
    BY <1>14 DEF Queue!Finish, Queue!Finished, QueueInvariant, Queue!NoUpdateDropped, Queue!Pending,
                 Queue!Covered, Queue!Covers
  <2> QED BY <1>1, <1>14, <2>1, <2>2, <2>3 DEF Queue!Finish, Queue!Finished, QueueInvariant, Queue!TypeOK
<1>15. CASE Queue!FlushMark
  <2>1. drain' \in Queue!Drain
    BY <1>13, <1>15 DEF Queue!FlushMark
  <2> QED BY <1>1, <1>2, <1>8, <1>15, <2>1 DEF Queue!FlushMark, QueueInvariant, Queue!TypeOK
<1>16. CASE Queue!FlushTake
  <2>1. drain' \in Queue!Drain
    BY <1>13, <1>16 DEF Queue!FlushTake
  <2>2. /\ items' \subseteq Queue!Context /\ taken' \subseteq Queue!Context
        /\ timer' \in {"none", "later", "due", "fired"} /\ consumer' \in {"none", "timer", "flush"}
        /\ Queue!NoUpdateDropped' /\ (consumer' = "none" => taken' = {})
    BY <1>16, QueueSelect DEF Queue!FlushTake
  <2> QED BY <1>1, <1>16, <2>1, <2>2 DEF Queue!FlushTake, QueueInvariant, Queue!TypeOK
<1>17. ASSUME NEW from, NEW to \in {"pending", "idle", "wait", "still", "empty", "idle_true", "true", "false"},
              Queue!Caller(from, to)
       PROVE  QueueInvariant'
  <2>1. drain' \in Queue!Drain
    BY <1>2, <1>17, QueueDrains DEF Queue!Caller
  <2> QED BY <1>17, <2>1, QueueDrained DEF Queue!Caller
<1>18. CASE Queue!DrainStart
  <2>1. Queue!Pending \in SUBSET (1 .. MaxFeeds)
    BY <1>2, QueuePending
  <2>2. drain' \in Queue!Drain
    BY <1>2, <1>18, <2>1, QueueDrains DEF Queue!DrainStart
  <2> QED BY <1>18, <2>2, QueueDrained DEF Queue!DrainStart
<1>19. CASE Queue!DrainFlush
  <2>1. drain' \in Queue!Drain
    BY <1>13, <1>19 DEF Queue!DrainFlush
  <2> QED BY <1>19, <2>1, QueueDrained DEF Queue!DrainFlush
<1>20. CASE Queue!DrainJoined
  BY <1>17, <1>20 DEF Queue!DrainJoined
<1>21. CASE Queue!DrainIdle
  BY <1>17, <1>21 DEF Queue!DrainIdle
<1>22. CASE Queue!DrainTimeout
  BY <1>17, <1>22 DEF Queue!DrainTimeout
<1>23. CASE Queue!DrainFlushed
  BY <1>17, <1>23 DEF Queue!DrainFlushed
<1>24. CASE Queue!DrainAnswer
  BY <1>17, <1>24 DEF Queue!DrainAnswer
<1> QED BY <1>3, <1>4, <1>5, <1>6, <1>9, <1>10, <1>11, <1>12, <1>14, <1>15, <1>16, <1>18, <1>19, <1>20, <1>21,
           <1>22, <1>23, <1>24 DEF Queue!Next

(* The queue keeps its invariant.                                            *)
THEOREM QueueIsInvariant == Queue!QueueAssumption => (Queue!Spec => []QueueInvariant)
<1> SUFFICES ASSUME Queue!QueueAssumption PROVE Queue!Spec => []QueueInvariant
  OBVIOUS
<1>1. Queue!Init => QueueInvariant
  BY QueueInits
<1>2. QueueInvariant /\ [Queue!Next]_(Queue!vars) => QueueInvariant'
  <2>1. CASE Queue!Next
    BY <2>1, QueueStep
  <2>2. CASE UNCHANGED Queue!vars
    BY <2>2
    DEF Queue!vars, QueueInvariant, Queue!TypeOK, Queue!NoUpdateDropped, Queue!Pending, Queue!Covered,
        Queue!Covers
  <2> QED BY <2>1, <2>2
<1> QED BY <1>1, <1>2, PTL DEF Queue!Spec

(* No accepted update is dropped.                                            *)
THEOREM QueueKeeps == Queue!QueueAssumption => (Queue!Spec => []Queue!NoUpdateDropped)
<1>1. QueueInvariant => Queue!NoUpdateDropped
  BY DEF QueueInvariant
<1> QED BY <1>1, QueueIsInvariant, PTL

-----------------------------------------------------------------------------
(* The inputs of a run: a steer that a successful run accepted got its turn,*)
(* and an input that was taken back is out.                                 *)

(* The graph runs, and may call the model; the inputs are open meanwhile.    *)
Streaming == {"start", "before", "claim", "call", "finish", "close", "ended"}
Reading   == {"before", "claim", "call", "finish", "close"}

Standing == {"applying", "dispatching", "applied"}

HeardAll == \A i \in Inputs : message[i].mode = "steer" /\ message[i].status \notin {"absent", "cancelled"}
  => i \in heard

(* What was delivered stands until the receipts are written, and was heard   *)
(* unless the call is still to come.                                         *)
GraphFits ==
    /\ graph.saved \subseteq graph.delivered
    /\ graph.pc = "done" => graph.delivered = {}
    /\ graph.pc # "commit" => \A i \in graph.delivered : message[i].status \in Standing
    /\ graph.pc \in Streaming \ {"call"} => graph.delivered \subseteq heard
    /\ graph.pc = "pause" => graph.failed

(* While the run is going nobody dispatches its inputs, and a graph that     *)
(* ended well has closed them with every steer heard.                        *)
GoingFits ==
    Input!Going =>
        /\ graph.pc \in Streaming =>
              \A i \in Inputs : /\ message[i].status \notin {"dispatching", "not_applied"}
                                /\ message[i].status = "applied" => i \in graph.delivered
        /\ graph.pc \in Reading => ~closed
        /\ graph.pc = "ended" /\ graph.stop = "none" => closed /\ HeardAll
        /\ graph.pc \in {"final", "commit"} /\ ~graph.failed => closed /\ HeardAll

CallersFit ==
    /\ \A c \in Input!Callers :
          /\ caller[c].pc # "idle" => ~Input!Going
          /\ \A i, j \in caller[c].of : i = j
          /\ caller[c].pc \in {"create", "record"} =>
                \A i \in Inputs : i \in caller[c].of => message[i].status \in {"dispatching", "applied"}
    /\ caller["queue"].pc # "idle" => graph.pc = "done"

(* The types of what the proof looks at.                                     *)
FieldsFit ==
    /\ input \in Input!Row /\ closed \in BOOLEAN /\ message \in [Inputs -> Input!Item] /\ graph \in Input!Graph
    /\ DOMAIN caller = Input!Callers /\ caller = [c \in Input!Callers |-> caller[c]]
    /\ \A c \in Input!Callers : caller[c] = [pc |-> caller[c].pc, of |-> caller[c].of]

InputInvariant == FieldsFit /\ GraphFits /\ GoingFits /\ CallersFit /\ Input!SteerHasTurn

LEMMA InputFields ==
    ASSUME InputInvariant
    PROVE  /\ input \in Input!Row /\ closed \in BOOLEAN /\ message \in [Inputs -> Input!Item]
              /\ graph \in Input!Graph
           /\ DOMAIN caller = Input!Callers /\ caller = [c \in Input!Callers |-> caller[c]]
           /\ \A c \in Input!Callers : caller[c] = [pc |-> caller[c].pc, of |-> caller[c].of]
           /\ graph.ids \subseteq Inputs /\ graph.delivered \subseteq Inputs /\ graph.saved \subseteq Inputs
           /\ graph.acked \subseteq Inputs /\ graph.failed \in BOOLEAN
           /\ FieldsFit /\ GraphFits /\ GoingFits /\ CallersFit /\ Input!SteerHasTurn
BY DEF InputInvariant, FieldsFit, Input!Graph

(* A step of users or of the rest of the system: a run that is not going     *)
(* does not go again.                                                        *)
LEMMA InputRowMoves ==
    ASSUME InputInvariant, UNCHANGED <<closed, message, graph, heard, caller>>, input' \in Input!Row,
           input' = input \/ input'.status \in {"cancelling", "stopped"} \/ input'.status = input.status
    PROVE  InputInvariant'
<1>1. FieldsFit'
  BY InputFields DEF FieldsFit
<1>2. GraphFits'
  BY InputFields DEF GraphFits
<1>3. Input!Going' => Input!Going
  BY DEF Input!Going
<1>4. HeardAll' = HeardAll
  BY DEF HeardAll
<1>5. GoingFits'
  BY <1>3, <1>4, InputFields DEF GoingFits
<1>6. CallersFit'
  BY <1>3, InputFields DEF CallersFit
<1>7. Input!SteerHasTurn'
  BY InputFields DEF Input!SteerHasTurn
<1> QED BY <1>1, <1>2, <1>5, <1>6, <1>7 DEF InputInvariant

(* A step that moves only the run created for an input, or what is iterated. *)
LEMMA InputStutters ==
    ASSUME InputInvariant, UNCHANGED <<input, closed, message, graph, heard, caller>>
    PROVE  InputInvariant'
BY InputFields, InputRowMoves

LEMMA InputRows ==
    ASSUME InputInvariant, Input!RequestCancel \/ Input!LoseLease \/ Input!TakeOver
    PROVE  InputInvariant'
<1>1. input \in Input!Row /\ UNCHANGED <<closed, message, graph, heard, caller>>
  BY InputFields DEF Input!RequestCancel, Input!LoseLease, Input!TakeOver
<1>2. \/ input' = [input EXCEPT !.status = "cancelling"]
      \/ input' = [input EXCEPT !.owned = FALSE]
      \/ input' = [input EXCEPT !.status = "stopped"]
  BY DEF Input!RequestCancel, Input!LoseLease, Input!TakeOver
<1>3. input' \in Input!Row /\ (input'.status \in {"cancelling", "stopped"} \/ input'.status = input.status)
  BY <1>1, <1>2 DEF Input!Row
<1> QED BY <1>1, <1>3, InputRowMoves

LEMMA InputSubmit ==
    ASSUME InputInvariant, NEW i \in Inputs, NEW mode \in {"queue", "steer"}, Input!Submit(i, mode)
    PROVE  InputInvariant'
<1>1. /\ message[i].status = "absent" /\ ~closed /\ Input!Going
      /\ message' = [message EXCEPT ![i].mode = mode, ![i].status = "pending"]
      /\ UNCHANGED <<input, closed, graph, heard, caller>>
  BY DEF Input!Submit
<1>2. message' \in [Inputs -> Input!Item] /\ message'[i].status = "pending" /\ \A j \in Inputs : j # i
        => message'[j] = message[j]
  BY <1>1, InputFields DEF Input!Item
<1>3. FieldsFit'
  BY <1>1, <1>2, InputFields DEF FieldsFit
<1>4. GraphFits'
  <2>1. graph.pc # "commit" => i \notin graph.delivered
    BY <1>1, InputFields DEF GraphFits, Standing
  <2> QED BY <1>1, <1>2, <2>1, InputFields DEF GraphFits, Standing
<1>5. GoingFits'
  BY <1>1, <1>2, InputFields DEF GoingFits, Input!Going
<1>6. CallersFit'
  BY <1>1, <1>2, InputFields DEF CallersFit, Input!Going
<1>7. Input!SteerHasTurn'
  BY <1>1 DEF Input!SteerHasTurn, Input!Going
<1> QED BY <1>3, <1>4, <1>5, <1>6, <1>7 DEF InputInvariant

LEMMA InputRemove ==
    ASSUME InputInvariant, NEW i \in Inputs, Input!Remove(i)
    PROVE  InputInvariant'
<1>1. /\ message[i].status \in {"pending", "not_applied"}
      /\ message' = [message EXCEPT ![i].status = "cancelled"]
      /\ UNCHANGED <<input, closed, graph, heard, caller>>
  BY DEF Input!Remove
<1>2. /\ message' \in [Inputs -> Input!Item] /\ message'[i].status = "cancelled"
         /\ message'[i].mode = message[i].mode
      /\ \A j \in Inputs : j # i => message'[j] = message[j]
  BY <1>1, InputFields DEF Input!Item
<1>3. FieldsFit'
  BY <1>1, <1>2, InputFields DEF FieldsFit
<1>4. GraphFits'
  <2>1. graph.pc # "commit" => i \notin graph.delivered
    BY <1>1, InputFields DEF GraphFits, Standing
  <2> QED BY <1>1, <1>2, <2>1, InputFields DEF GraphFits, Standing
<1>5. HeardAll => HeardAll'
  BY <1>1, <1>2 DEF HeardAll
<1>6. GoingFits'
  BY <1>1, <1>2, <1>5, InputFields DEF GoingFits, Input!Going
<1>7. CallersFit'
  BY <1>1, <1>2, InputFields DEF CallersFit, Input!Going
<1>8. Input!SteerHasTurn'
  BY <1>1, <1>2, InputFields DEF Input!SteerHasTurn
<1> QED BY <1>3, <1>4, <1>6, <1>7, <1>8 DEF InputInvariant

(* What a step does to the entries, unless it accepts or withdraws one: no   *)
(* steer comes to stand that did not.                                        *)
Keeps(i) ==
    /\ message'[i].mode = message[i].mode
    /\ message[i].mode = "steer" =>
          message'[i].status \in {"absent", "cancelled"} \/ message[i].status \notin {"absent", "cancelled"}

LEMMA InputHeard ==
    ASSUME HeardAll, heard \subseteq heard', \A i \in Inputs : Keeps(i)
    PROVE  HeardAll'
BY DEF HeardAll, Keeps

(* A step of the graph that does not deliver: it may acknowledge.            *)
LEMMA InputGraphMoves ==
    ASSUME InputInvariant, UNCHANGED <<input, closed, caller>>, NEW g \in Input!Graph, graph' = g,
           message' \in [Inputs -> Input!Item], heard \subseteq heard',
           \A i \in Inputs : /\ message'[i].mode = message[i].mode
                             /\ \/ message'[i].status = message[i].status
                                \/ /\ i \in graph.delivered /\ message[i].status = "applying"
                                   /\ message'[i].status = "applied",
           graph.pc # "done", g.pc # "done", graph.pc = "commit" => g.pc = "commit",
           g.delivered = graph.delivered, g.saved \subseteq g.delivered,
           g.pc \in Streaming => graph.pc \in Streaming,
           g.pc \in Streaming \ {"call"} => g.delivered \subseteq heard',
           g.pc = "pause" => g.failed,
           Input!Going /\ g.pc \in Reading => ~closed,
           Input!Going /\ g.pc = "ended" /\ g.stop = "none" => closed /\ HeardAll,
           Input!Going /\ g.pc \in {"final", "commit"} /\ ~g.failed => closed /\ HeardAll
    PROVE  InputInvariant'
<1>1. FieldsFit'
  BY InputFields DEF FieldsFit
<1>2. \A i \in Inputs : Keeps(i)
  BY DEF Keeps
<1>3. HeardAll => HeardAll'
  BY <1>2, InputHeard
<1>4. GraphFits'
  BY InputFields DEF GraphFits, Standing
<1>5. GoingFits'
  <2> SUFFICES ASSUME Input!Going PROVE GoingFits'
    BY DEF GoingFits, Input!Going
  <2>1. g.pc \in Streaming =>
            \A i \in Inputs : /\ message'[i].status \notin {"dispatching", "not_applied"}
                              /\ message'[i].status = "applied" => i \in g.delivered
    BY InputFields DEF GoingFits
  <2> QED BY <1>3, <2>1 DEF GoingFits
<1>6. CallersFit'
  BY InputFields DEF CallersFit, Input!Going
<1>7. Input!SteerHasTurn'
  BY InputFields DEF Input!SteerHasTurn
<1> QED BY <1>1, <1>4, <1>5, <1>6, <1>7 DEF InputInvariant

(* A record of the graph with the fields that the proof looks at.            *)
LEMMA InputConfirm ==
    ASSUME InputInvariant, NEW g \in Input!Graph, Input!Confirm(g)
    PROVE  /\ graph' \in Input!Graph /\ graph'.pc = g.pc /\ graph'.delivered = g.delivered
              /\ graph'.saved = g.saved
           /\ graph'.stop = g.stop /\ graph'.failed = g.failed
           /\ message' \in [Inputs -> Input!Item]
           /\ \A i \in Inputs : /\ message'[i].mode = message[i].mode
                                /\ \/ message'[i].status = message[i].status
                                   \/ /\ i \in graph.delivered /\ message[i].status = "applying"
                                      /\ message'[i].status = "applied"
<1>1. graph' = [g EXCEPT !.acked = IF Input!Unconfirmed THEN @ \cup graph.saved ELSE @]
  BY DEF Input!Confirm
<1>2. /\ graph' \in Input!Graph /\ graph'.pc = g.pc /\ graph'.delivered = g.delivered /\ graph'.saved = g.saved
      /\ graph'.stop = g.stop /\ graph'.failed = g.failed
  BY <1>1, InputFields DEF Input!Graph
<1>3. message' = message \/ message' = Input!Mark({"applying"}, graph.saved, "applied")
  BY DEF Input!Confirm
<1>4. graph.saved \subseteq graph.delivered
  BY InputFields DEF GraphFits
<1>5. message' \in [Inputs -> Input!Item]
  BY <1>3, InputFields DEF Input!Mark, Input!Item
<1>6. ASSUME NEW i \in Inputs
      PROVE  /\ message'[i].mode = message[i].mode
             /\ \/ message'[i].status = message[i].status
                \/ /\ i \in graph.delivered /\ message[i].status = "applying"
                   /\ message'[i].status = "applied"
  BY <1>3, <1>4, InputFields DEF Input!Mark, Input!Item
<1> QED BY <1>2, <1>5, <1>6

LEMMA InputEnded ==
    ASSUME InputInvariant, NEW failed \in BOOLEAN, NEW g, g = Input!Ended(graph, failed), MaxContinues \in Nat
    PROVE  /\ g \in Input!Graph /\ g.pc = "final" /\ g.delivered = graph.delivered /\ g.saved = graph.saved
           /\ g.failed = failed
<1>1. 0 \in 0 .. MaxContinues /\ graph \in Input!Graph
  BY InputFields
<1>2. g = [graph EXCEPT !.pc = "final", !.failed = failed, !.ids = {}, !.stop = "none", !.rounds = 0]
  BY DEF Input!Ended
<1>3. g \in Input!Graph
  BY <1>1, <1>2 DEF Input!Graph
<1>4. g.pc = "final" /\ g.delivered = graph.delivered /\ g.saved = graph.saved /\ g.failed = failed
  BY <1>1, <1>2 DEF Input!Graph
<1> QED BY <1>3, <1>4

LEMMA InputGraphFails ==
    ASSUME Input!InputAssumption, InputInvariant, Input!GraphFails
    PROVE  InputInvariant'
<1>1. graph.pc \in Streaming /\ graph' = Input!Ended(graph, TRUE)
      /\ UNCHANGED <<input, closed, message, heard, caller>>
  BY DEF Input!GraphFails, Streaming
<1>2. PICK g : g = graph'
  OBVIOUS
<1>3. /\ g \in Input!Graph /\ g.pc = "final" /\ g.delivered = graph.delivered /\ g.saved = graph.saved
      /\ g.failed = TRUE
  BY <1>1, <1>2, InputEnded DEF Input!InputAssumption
<1> QED BY <1>1, <1>2, <1>3, InputFields, InputGraphMoves DEF Streaming, Reading, GraphFits

LEMMA InputDeliverRead ==
    ASSUME InputInvariant, Input!DeliverRead
    PROVE  InputInvariant'
<1>1. /\ graph.pc = "before" /\ UNCHANGED <<input, closed, message, heard, caller>>
      /\ graph' = [graph EXCEPT !.ids = Input!Waiting, !.pc = IF Input!Waiting = {} THEN "call" ELSE "claim"]
  BY DEF Input!DeliverRead, Input!At
<1>2. PICK g : g = graph'
  OBVIOUS
<1>3. Input!Waiting \subseteq Inputs
  BY DEF Input!Waiting
<1>4. /\ g \in Input!Graph /\ g.pc \in {"call", "claim"} /\ g.delivered = graph.delivered
         /\ g.saved = graph.saved
  BY <1>1, <1>2, <1>3, InputFields DEF Input!Graph
<1>5. graph.saved \subseteq graph.delivered /\ graph.delivered \subseteq heard /\ (Input!Going => ~closed)
  BY <1>1, InputFields DEF GraphFits, GoingFits, Streaming, Reading
<1> QED BY <1>1, <1>2, <1>4, <1>5, InputFields, InputGraphMoves DEF Streaming, Reading

LEMMA InputSave ==
    ASSUME InputInvariant, Input!Save
    PROVE  InputInvariant'
<1>1. /\ graph.pc \in {"call", "before", "claim", "finish", "close"}
         /\ UNCHANGED <<input, closed, message, heard, caller>>
      /\ graph' = [graph EXCEPT !.saved = graph.delivered]
  BY DEF Input!Save
<1>2. PICK g : g = graph'
  OBVIOUS
<1>3. /\ g \in Input!Graph /\ g.pc = graph.pc /\ g.delivered = graph.delivered /\ g.saved = graph.delivered
  BY <1>1, <1>2, InputFields DEF Input!Graph
<1>4. (graph.pc # "call" => graph.delivered \subseteq heard) /\ (Input!Going => ~closed)
  BY <1>1, InputFields DEF GraphFits, GoingFits, Streaming, Reading
<1> QED BY <1>1, <1>2, <1>3, <1>4, InputFields, InputGraphMoves DEF Streaming, Reading

LEMMA InputCall ==
    ASSUME InputInvariant, Input!Call
    PROVE  InputInvariant'
<1>1. PICK next \in {"before", "finish"}, stop \in {"none", "hard", "soft"} :
          Input!Confirm([graph EXCEPT !.pc = next, !.stop = IF stop = "none" THEN @ ELSE stop])
  BY DEF Input!Call
<1>2. graph.pc = "call" /\ heard' = heard \cup graph.delivered /\ UNCHANGED <<input, closed, caller>>
  BY DEF Input!Call, Input!At
<1>3. PICK f : f = [graph EXCEPT !.pc = next, !.stop = IF stop = "none" THEN @ ELSE stop]
  OBVIOUS
<1>4. f \in Input!Graph /\ f.pc = next /\ f.delivered = graph.delivered /\ f.saved = graph.saved
  BY <1>3, InputFields DEF Input!Graph
<1>5. Input!Confirm(f)
  BY <1>1, <1>3
<1>6. PICK g : g = graph'
  OBVIOUS
<1>7. /\ g \in Input!Graph /\ g.pc = next /\ g.delivered = graph.delivered /\ g.saved = graph.saved
      /\ message' \in [Inputs -> Input!Item]
      /\ \A i \in Inputs : /\ message'[i].mode = message[i].mode
                           /\ \/ message'[i].status = message[i].status
                              \/ /\ i \in graph.delivered /\ message[i].status = "applying"
                                 /\ message'[i].status = "applied"
  BY <1>4, <1>5, <1>6, InputConfirm
<1>8. graph.saved \subseteq graph.delivered /\ (Input!Going => ~closed)
  BY <1>2, InputFields DEF GraphFits, GoingFits, Streaming, Reading
<1> QED BY <1>2, <1>6, <1>7, <1>8, InputGraphMoves DEF Streaming, Reading

LEMMA InputFinish ==
    ASSUME InputInvariant, Input!Finish
    PROVE  InputInvariant'
<1>1. graph.pc = "finish" /\ UNCHANGED <<input, closed, heard, caller>>
  BY DEF Input!Finish, Input!At
<1>2. PICK at \in {"ended", "before", "close"} :
          /\ Input!Confirm([graph EXCEPT !.pc = at])
          /\ at = "ended" => graph.stop = "hard"
  BY DEF Input!Finish
<1>3. PICK f : f = [graph EXCEPT !.pc = at]
  OBVIOUS
<1>4. f \in Input!Graph /\ f.pc = at /\ f.delivered = graph.delivered /\ f.saved = graph.saved
      /\ f.stop = graph.stop
  BY <1>3, InputFields DEF Input!Graph
<1>9. Input!Confirm([graph EXCEPT !.pc = at])
  BY <1>2
<1>5. Input!Confirm(f)
  BY <1>3, <1>9, Zenon
<1>6. PICK g : g = graph'
  OBVIOUS
<1>7. /\ g \in Input!Graph /\ g.pc = at /\ g.delivered = graph.delivered /\ g.saved = graph.saved
         /\ g.stop = graph.stop
      /\ message' \in [Inputs -> Input!Item]
      /\ \A i \in Inputs : /\ message'[i].mode = message[i].mode
                           /\ \/ message'[i].status = message[i].status
                              \/ /\ i \in graph.delivered /\ message[i].status = "applying"
                                 /\ message'[i].status = "applied"
  BY <1>4, <1>5, <1>6, InputConfirm
<1>8. graph.saved \subseteq graph.delivered /\ graph.delivered \subseteq heard /\ (Input!Going => ~closed)
  BY <1>1, InputFields DEF GraphFits, GoingFits, Streaming, Reading
<1>10. g.pc = "ended" => g.stop # "none"
  BY <1>2, <1>7
<1> QED BY <1>1, <1>6, <1>7, <1>8, <1>10, InputGraphMoves DEF Streaming, Reading

(* After a stream.                                                           *)
LEMMA InputAfterStream ==
    ASSUME InputInvariant, NEW f \in Input!Graph, Input!AfterStream(f)
    PROVE  /\ graph' \in Input!Graph /\ graph'.pc = f.pc /\ graph'.delivered = f.delivered
              /\ graph'.saved = f.saved
           /\ graph'.stop = f.stop /\ graph'.failed = f.failed
           /\ message' \in [Inputs -> Input!Item]
           /\ \A i \in Inputs : /\ message'[i].mode = message[i].mode
                                /\ \/ message'[i].status = message[i].status
                                   \/ /\ i \in graph.delivered /\ message[i].status = "applying"
                                      /\ message'[i].status = "applied"
<1>1. CASE Input!Confirm(f)
  BY <1>1, InputConfirm
<1>2. CASE graph' = f /\ UNCHANGED message
  BY <1>2, InputFields
<1> QED BY <1>1, <1>2 DEF Input!AfterStream

LEMMA InputContinue ==
    ASSUME Input!InputAssumption, InputInvariant, Input!Continue
    PROVE  InputInvariant'
<1>1. /\ graph.pc = "ended" /\ graph.rounds < MaxContinues /\ UNCHANGED <<input, closed, heard, caller>>
      /\ Input!AfterStream([graph EXCEPT !.pc = "start", !.rounds = @ + 1])
  BY DEF Input!Continue, Input!At
<1>2. PICK f : f = [graph EXCEPT !.pc = "start", !.rounds = @ + 1]
  OBVIOUS
<1>3. graph.rounds + 1 \in 0 .. MaxContinues
  BY <1>1, InputFields DEF Input!Graph, Input!InputAssumption
<1>4. f \in Input!Graph /\ f.pc = "start" /\ f.delivered = graph.delivered /\ f.saved = graph.saved
  BY <1>2, <1>3, InputFields DEF Input!Graph
<1>5. Input!AfterStream(f)
  BY <1>1, <1>2
<1>6. PICK g : g = graph'
  OBVIOUS
<1>7. /\ g \in Input!Graph /\ g.pc = "start" /\ g.delivered = graph.delivered /\ g.saved = graph.saved
      /\ message' \in [Inputs -> Input!Item]
      /\ \A i \in Inputs : /\ message'[i].mode = message[i].mode
                           /\ \/ message'[i].status = message[i].status
                              \/ /\ i \in graph.delivered /\ message[i].status = "applying"
                                 /\ message'[i].status = "applied"
  BY <1>4, <1>5, <1>6, InputAfterStream
<1>8. graph.saved \subseteq graph.delivered /\ graph.delivered \subseteq heard
  BY <1>1, InputFields DEF GraphFits, Streaming
<1> QED BY <1>1, <1>6, <1>7, <1>8, InputGraphMoves DEF Streaming, Reading

LEMMA InputStage ==
    ASSUME Input!InputAssumption, InputInvariant, Input!Stage
    PROVE  InputInvariant'
<1>1. graph.pc = "ended" /\ UNCHANGED <<input, closed, heard, caller>>
  BY DEF Input!Stage, Input!At
<1>2. PICK failed \in BOOLEAN : Input!AfterStream(Input!Ended(graph, failed \/ graph.stop # "none"))
  BY DEF Input!Stage
<1>3. PICK fail \in BOOLEAN : fail = (failed \/ graph.stop # "none")
  OBVIOUS
<1>4. PICK f : f = Input!Ended(graph, fail)
  OBVIOUS
<1>5. f \in Input!Graph /\ f.pc = "final" /\ f.delivered = graph.delivered /\ f.saved = graph.saved
      /\ f.failed = fail
  BY <1>4, InputEnded DEF Input!InputAssumption
<1>6. Input!AfterStream(f)
  BY <1>2, <1>3, <1>4
<1>7. PICK g : g = graph'
  OBVIOUS
<1>8. /\ g \in Input!Graph /\ g.pc = "final" /\ g.delivered = graph.delivered /\ g.saved = graph.saved
         /\ g.failed = fail
      /\ message' \in [Inputs -> Input!Item]
      /\ \A i \in Inputs : /\ message'[i].mode = message[i].mode
                           /\ \/ message'[i].status = message[i].status
                              \/ /\ i \in graph.delivered /\ message[i].status = "applying"
                                 /\ message'[i].status = "applied"
  BY <1>5, <1>6, <1>7, InputAfterStream
<1>9. graph.saved \subseteq graph.delivered
  BY InputFields DEF GraphFits
<1>10. Input!Going /\ ~fail => closed /\ HeardAll
  BY <1>1, <1>3, InputFields DEF GoingFits
<1> QED BY <1>1, <1>7, <1>8, <1>9, <1>10, InputGraphMoves DEF Streaming, Reading

LEMMA InputReceipts ==
    ASSUME InputInvariant, Input!Receipts
    PROVE  InputInvariant'
<1>1. graph.pc = "final" /\ UNCHANGED <<input, closed, heard, caller>>
  BY DEF Input!Receipts, Input!At
<1>2. PICK at \in {"commit", "pause"} :
          /\ at = "pause" => graph.failed
          /\ \/ graph' = [graph EXCEPT !.pc = at] /\ UNCHANGED message
             \/ Input!Confirm([graph EXCEPT !.pc = at])
  BY InputFields DEF Input!Receipts, Input!Goto
<1>3. PICK f : f = [graph EXCEPT !.pc = at]
  OBVIOUS
<1>4. f \in Input!Graph /\ f.pc = at /\ f.delivered = graph.delivered /\ f.saved = graph.saved
      /\ f.failed = graph.failed
  BY <1>3, InputFields DEF Input!Graph
<1>5. (graph' = f /\ UNCHANGED message) \/ Input!Confirm(f)
  BY <1>2, <1>3
<1>6. PICK g : g = graph'
  OBVIOUS
<1>7. /\ g \in Input!Graph /\ g.pc = at /\ g.delivered = graph.delivered /\ g.saved = graph.saved
      /\ g.failed = graph.failed /\ message' \in [Inputs -> Input!Item]
      /\ \A i \in Inputs : /\ message'[i].mode = message[i].mode
                           /\ \/ message'[i].status = message[i].status
                              \/ /\ i \in graph.delivered /\ message[i].status = "applying"
                                 /\ message'[i].status = "applied"
  BY <1>4, <1>5, <1>6, InputConfirm, InputFields
<1>8. graph.saved \subseteq graph.delivered
  BY InputFields DEF GraphFits
<1>9. Input!Going /\ ~graph.failed => closed /\ HeardAll
  BY <1>1, InputFields DEF GoingFits
<1> QED BY <1>1, <1>2, <1>6, <1>7, <1>8, <1>9, InputGraphMoves DEF Streaming, Reading

LEMMA InputReopen ==
    ASSUME InputInvariant, Input!Reopen
    PROVE  InputInvariant'
<1>1. /\ graph.pc = "start" /\ closed' = IF Input!Going THEN FALSE ELSE closed
      /\ graph' = [graph EXCEPT !.pc = "before"] /\ UNCHANGED <<input, message, heard, caller>>
  BY DEF Input!Reopen, Input!At, Input!Goto
<1>2. PICK g : g = graph'
  OBVIOUS
<1>3. /\ g \in Input!Graph /\ g.pc = "before" /\ g.delivered = graph.delivered /\ g.saved = graph.saved
  BY <1>1, <1>2, InputFields DEF Input!Graph
<1>4. FieldsFit'
  BY <1>1, <1>2, <1>3, InputFields DEF FieldsFit
<1>5. GraphFits'
  BY <1>1, <1>2, <1>3, InputFields DEF GraphFits, Streaming
<1>6. GoingFits'
  BY <1>1, <1>2, <1>3, InputFields DEF GoingFits, Input!Going, Streaming, Reading
<1>7. CallersFit'
  BY <1>1, <1>2, <1>3, InputFields DEF CallersFit, Input!Going
<1>8. Input!SteerHasTurn'
  BY <1>1, InputFields DEF Input!SteerHasTurn
<1> QED BY <1>4, <1>5, <1>6, <1>7, <1>8 DEF InputInvariant

LEMMA InputDeliverClaim ==
    ASSUME InputInvariant, Input!DeliverClaim
    PROVE  InputInvariant'
<1>1. /\ graph.pc = "claim" /\ Input!Going /\ UNCHANGED <<input, closed, heard, caller>>
      /\ message' = Input!Mark({"pending"}, graph.ids, "applying")
      /\ graph' = [graph EXCEPT !.pc = "call", !.delivered = @ \cup Input!Claimed(graph.ids), !.ids = {}]
  BY DEF Input!DeliverClaim, Input!At
<1>2. PICK g : g = graph'
  OBVIOUS
<1>3. Input!Claimed(graph.ids) \subseteq Inputs /\ \A i \in Input!Claimed(graph.ids) : i \in graph.ids
      /\ message[i].status \in {"pending", "applying"}
  BY InputFields DEF Input!Claimed
<1>4. /\ g \in Input!Graph /\ g.pc = "call" /\ g.delivered = graph.delivered \cup Input!Claimed(graph.ids)
         /\ g.saved = graph.saved
  BY <1>1, <1>2, <1>3, InputFields DEF Input!Graph
<1>5. message' \in [Inputs -> Input!Item]
  BY <1>1, InputFields DEF Input!Mark, Input!Item
<1>6. \A i \in Inputs : /\ message'[i].mode = message[i].mode
                        /\ \/ /\ message'[i].status = message[i].status
                              /\ i \in graph.ids => message[i].status # "pending"
                           \/ /\ i \in graph.ids /\ message[i].status = "pending"
                              /\ message'[i].status = "applying"
  BY <1>1, InputFields DEF Input!Mark, Input!Item
<1>7. FieldsFit'
  BY <1>1, <1>2, <1>4, <1>5, InputFields DEF FieldsFit
<1>8. GraphFits'
  <2>1. \A i \in graph.delivered : message[i].status \in Standing /\ i \in Inputs
    BY <1>1, InputFields DEF GraphFits
  <2>2. \A i \in g.delivered : message'[i].status \in Standing
    BY <1>3, <1>4, <1>6, <2>1 DEF Standing
  <2> QED BY <1>1, <1>2, <1>4, <2>2, InputFields DEF GraphFits
<1>9. GoingFits'
  BY <1>1, <1>2, <1>4, <1>6, InputFields DEF GoingFits, Input!Going, Streaming, Reading
<1>10. CallersFit'
  BY <1>1, <1>2, <1>6, InputFields DEF CallersFit, Input!Going
<1>11. Input!SteerHasTurn'
  BY <1>1 DEF Input!SteerHasTurn, Input!Going
<1> QED BY <1>7, <1>8, <1>9, <1>10, <1>11 DEF InputInvariant

LEMMA InputClose ==
    ASSUME InputInvariant, Input!Close
    PROVE  InputInvariant'
<1>1. /\ graph.pc = "close" /\ closed' = (closed \/ Input!Waiting = {})
         /\ UNCHANGED <<input, message, heard, caller>>
      /\ graph' = IF closed' THEN [graph EXCEPT !.pc = "ended", !.saved = graph.delivered]
                             ELSE [graph EXCEPT !.pc = "finish"]
  BY DEF Input!Close, Input!CloseFinds, Input!At
<1>2. PICK g : g = graph'
  OBVIOUS
<1>3. /\ g \in Input!Graph /\ g.delivered = graph.delivered /\ g.saved \in {graph.saved, graph.delivered}
      /\ \/ closed' /\ g.pc = "ended"
         \/ ~closed' /\ g.pc = "finish"
  BY <1>1, <1>2, InputFields DEF Input!Graph
<1>4. closed' \in BOOLEAN
  BY <1>1, InputFields
<1>5. FieldsFit'
  BY <1>1, <1>2, <1>3, <1>4, InputFields DEF FieldsFit
<1>6. GraphFits'
  BY <1>1, <1>2, <1>3, InputFields DEF GraphFits, Streaming
<1>7. Input!Going /\ closed' => HeardAll
  <2> SUFFICES ASSUME Input!Going, Input!Waiting = {}, NEW i \in Inputs, message[i].mode = "steer",
                      message[i].status \notin {"absent", "cancelled"}
               PROVE  i \in heard
    BY <1>1, InputFields DEF GoingFits, Reading, HeardAll
  <2>1. message[i].status \notin {"dispatching", "not_applied"}
        /\ (message[i].status = "applied" => i \in graph.delivered)
    BY <1>1, InputFields DEF GoingFits, Streaming
  <2>2. message[i].status \in {"pending", "applying"} => i \in graph.delivered
    BY DEF Input!Waiting
  <2>3. graph.delivered \subseteq heard
    BY <1>1, InputFields DEF GraphFits, Streaming
  <2>4. message[i].status \in {"absent", "pending", "applying", "applied", "not_applied", "dispatching", "cancelled"}
    BY InputFields DEF Input!Item
  <2> QED BY <2>1, <2>2, <2>3, <2>4
<1>8. GoingFits'
  <2> SUFFICES ASSUME Input!Going PROVE GoingFits'
    BY <1>1 DEF GoingFits, Input!Going
  <2>1. HeardAll' = HeardAll
    BY <1>1 DEF HeardAll
  <2>2. \A i \in Inputs : /\ message[i].status \notin {"dispatching", "not_applied"}
                          /\ message[i].status = "applied" => i \in graph.delivered
    BY <1>1, InputFields DEF GoingFits, Streaming
  <2> QED BY <1>1, <1>2, <1>3, <1>7, <2>1, <2>2 DEF GoingFits, Streaming, Reading
<1>9. CallersFit'
  BY <1>1, <1>2, <1>3, InputFields DEF CallersFit, Input!Going
<1>10. Input!SteerHasTurn'
  BY <1>1, InputFields DEF Input!SteerHasTurn
<1> QED BY <1>5, <1>6, <1>8, <1>9, <1>10 DEF InputInvariant

(* The inputs are paused.                                                    *)
LEMMA InputPaused ==
    ASSUME InputInvariant, message' = Input!Mark({"pending", "applying"}, Inputs, "not_applied")
    PROVE  /\ message' \in [Inputs -> Input!Item]
           /\ \A i \in Inputs : /\ Keeps(i)
                                /\ message'[i].status = message[i].status
                                     \/ message[i].status \in {"pending", "applying"}
<1>1. message' \in [Inputs -> Input!Item]
  BY InputFields DEF Input!Mark, Input!Item
<1>2. \A i \in Inputs : /\ message'[i].mode = message[i].mode
                        /\ \/ message'[i].status = message[i].status
                           \/ message[i].status \in {"pending", "applying"}
                              /\ message'[i].status = "not_applied"
  BY InputFields DEF Input!Mark, Input!Item
<1> QED BY <1>1, <1>2 DEF Keeps

LEMMA InputPause ==
    ASSUME InputInvariant, Input!Pause
    PROVE  InputInvariant'
<1>1. /\ graph.pc = "pause" /\ closed' = TRUE /\ graph' = [graph EXCEPT !.pc = "commit"]
      /\ message' = Input!Mark({"pending", "applying"}, Inputs, "not_applied")
         /\ UNCHANGED <<input, heard, caller>>
  BY DEF Input!Pause, Input!Paused, Input!At, Input!Goto
<1>2. PICK g : g = graph'
  OBVIOUS
<1>3. /\ g \in Input!Graph /\ g.pc = "commit" /\ g.delivered = graph.delivered /\ g.saved = graph.saved
      /\ g.failed = graph.failed
  BY <1>1, <1>2, InputFields DEF Input!Graph
<1>4. /\ message' \in [Inputs -> Input!Item]
      /\ \A i \in Inputs : /\ Keeps(i)
                           /\ message'[i].status = message[i].status
                                \/ message[i].status \in {"pending", "applying"}
  BY <1>1, InputPaused
<1>5. FieldsFit'
  BY <1>1, <1>2, <1>3, <1>4, InputFields DEF FieldsFit
<1>6. GraphFits'
  BY <1>1, <1>2, <1>3, InputFields DEF GraphFits, Streaming
<1>7. graph.failed
  BY <1>1, InputFields DEF GraphFits
<1>8. GoingFits'
  BY <1>1, <1>2, <1>3, <1>7 DEF GoingFits, Streaming, Reading
<1>9. CallersFit'
  BY <1>1, <1>2, <1>3, <1>4, InputFields DEF CallersFit, Input!Going
<1>10. Input!SteerHasTurn'
  BY <1>1, <1>4, InputFields DEF Input!SteerHasTurn, Keeps
<1> QED BY <1>5, <1>6, <1>8, <1>9, <1>10 DEF InputInvariant

LEMMA InputCommit ==
    ASSUME Input!InputAssumption, InputInvariant, Input!Commit
    PROVE  InputInvariant'
<1>1. graph.pc = "commit" /\ graph' = Input!Fresh("done") /\ UNCHANGED <<closed, message, heard, caller>>
  BY DEF Input!Commit, Input!At
<1>2. \/ UNCHANGED input
      \/ input' = [input EXCEPT !.status = "stopped"]
      \/ ~graph.failed /\ Input!Going /\ input' = [input EXCEPT !.status = "success"]
  BY DEF Input!Commit
<1>3. input' \in Input!Row /\ (input' = input \/ input'.status \in {"stopped", "success"})
  BY <1>2, InputFields DEF Input!Row
<1>4. input'.status = "success" => input.status = "success" \/ HeardAll
  BY <1>1, <1>2, InputFields DEF GoingFits, Input!Row
<1>5. PICK g : g = graph'
  OBVIOUS
<1>6. 0 \in 0 .. MaxContinues
  BY DEF Input!InputAssumption
<1>7. g \in Input!Graph /\ g.pc = "done" /\ g.delivered = {} /\ g.saved = {}
  BY <1>1, <1>5, <1>6 DEF Input!Fresh, Input!Graph
<1>8. FieldsFit'
  BY <1>1, <1>3, <1>5, <1>7, InputFields DEF FieldsFit
<1>9. GraphFits'
  BY <1>1, <1>5, <1>7 DEF GraphFits, Streaming
<1>10. GoingFits'
  BY <1>5, <1>7 DEF GoingFits, Streaming, Reading
<1>11. Input!Going' => Input!Going
  BY <1>3 DEF Input!Going
<1>12. CallersFit'
  BY <1>1, <1>5, <1>7, <1>11, InputFields DEF CallersFit
<1>13. Input!SteerHasTurn'
  BY <1>1, <1>4, InputFields DEF Input!SteerHasTurn, HeardAll
<1> QED BY <1>8, <1>9, <1>10, <1>12, <1>13 DEF InputInvariant

(* A dispatcher moves; the run is not going any more.                        *)
LEMMA InputCalls ==
    ASSUME InputInvariant, UNCHANGED <<input, graph, heard>>, ~Input!Going, closed' \in BOOLEAN,
           message' \in [Inputs -> Input!Item],
           \A i \in Inputs : Keeps(i),
           \A i \in Inputs : message[i].status \in {"dispatching", "applied"}
                                => message'[i].status \in {"dispatching", "applied"},
           \/ graph.pc = "done"
           \/ \A i \in Inputs : message[i].status \in Standing => message'[i].status \in Standing,
           NEW c \in Input!Callers, NEW x, caller' = [caller EXCEPT ![c] = x], x = [pc |-> x.pc, of |-> x.of],
           \A i, j \in x.of : i = j,
           x.pc \in {"create", "record"} =>
               \A i \in Inputs : i \in x.of => message'[i].status \in {"dispatching", "applied"},
           c = "queue" /\ x.pc # "idle" => graph.pc = "done"
    PROVE  InputInvariant'
<1>1. /\ DOMAIN caller' = Input!Callers /\ caller' = [d \in Input!Callers |-> caller'[d]] /\ caller'[c] = x
      /\ \A d \in Input!Callers : d # c => caller'[d] = caller[d]
  BY InputFields
<1>2. FieldsFit'
  BY <1>1, InputFields DEF FieldsFit
<1>3. GraphFits'
  BY InputFields DEF GraphFits
<1>4. ~Input!Going'
  BY DEF Input!Going
<1>5. GoingFits'
  BY <1>4 DEF GoingFits
<1>6. CallersFit'
  <2>1. ASSUME NEW d \in Input!Callers
        PROVE  /\ \A i, j \in caller'[d].of : i = j
               /\ caller'[d].pc \in {"create", "record"} =>
                      \A i \in Inputs : i \in caller'[d].of => message'[i].status \in {"dispatching", "applied"}
    BY <1>1, InputFields DEF CallersFit
  <2>2. caller'["queue"].pc # "idle" => graph.pc = "done"
    BY <1>1, InputFields DEF CallersFit
  <2> QED BY <1>4, <2>1, <2>2 DEF CallersFit
<1>7. Input!SteerHasTurn'
  BY InputFields DEF Input!SteerHasTurn, Keeps
<1> QED BY <1>2, <1>3, <1>5, <1>6, <1>7 DEF InputInvariant

(* It moves and the inputs stay as they are.                                 *)
LEMMA InputWaits ==
    ASSUME InputInvariant, UNCHANGED <<input, closed, message, graph, heard>>, ~Input!Going,
           NEW c \in Input!Callers, NEW x, caller' = [caller EXCEPT ![c] = x], x = [pc |-> x.pc, of |-> x.of],
           \A i, j \in x.of : i = j,
           x.pc \in {"create", "record"} => caller[c].pc \in {"create", "record"} /\ x.of = caller[c].of,
           c = "queue" /\ x.pc # "idle" => graph.pc = "done"
    PROVE  InputInvariant'
<1>1. \A i \in Inputs : Keeps(i)
  BY DEF Keeps
<1>2. x.pc \in {"create", "record"} =>
          \A i \in Inputs : i \in x.of => message'[i].status \in {"dispatching", "applied"}
  BY InputFields DEF CallersFit
<1> QED BY <1>1, <1>2, InputFields, InputCalls

Stands(i) == message[i].status # "cancelled" /\ (message[i].mode = "steer" => message[i].status # "absent")

(* One entry changes.                                                        *)
LEMMA InputEntry ==
    ASSUME InputInvariant, NEW i, NEW status \in {"dispatching", "applied"}, i \in Inputs => Stands(i),
           \/ message' = [message EXCEPT ![i].status = status]
           \/ message' = [message EXCEPT ![i].status = status, ![i].run = TRUE]
    PROVE  /\ message' \in [Inputs -> Input!Item]
           /\ \A j \in Inputs : /\ Keeps(j)
                                /\ j # i => message'[j] = message[j]
                                /\ j = i => message'[j].status = status
                                /\ message[j].status \in {"dispatching", "applied"}
                                      => message'[j].status \in {"dispatching", "applied"}
                                /\ message[j].status \in Standing => message'[j].status \in Standing
<1>1. message' \in [Inputs -> Input!Item]
  BY InputFields DEF Input!Item
<1>2. ASSUME NEW j \in Inputs
      PROVE  /\ message'[j].mode = message[j].mode
             /\ j # i => message'[j] = message[j]
             /\ j = i => message'[j].status = status
  BY InputFields DEF Input!Item
<1>3. ASSUME NEW j \in Inputs PROVE Keeps(j)
  BY <1>2 DEF Keeps, Stands
<1> QED BY <1>1, <1>2, <1>3 DEF Standing

(* The list goes on.                                                         *)
LEMMA InputTakesNext ==
    ASSUME Input!TakeNext
    PROVE  \E x : /\ caller' = [caller EXCEPT !["queue"] = x] /\ x = [pc |-> x.pc, of |-> x.of]
                  /\ x.pc \in {"over", "claim"} /\ \A i, j \in x.of : i = j
<1>1. PICK x : x = IF todo' = <<>> THEN Input!Over ELSE [pc |-> "claim", of |-> {Head(todo')}]
  OBVIOUS
<1>2. x = [pc |-> x.pc, of |-> x.of] /\ x.pc \in {"over", "claim"} /\ \A i, j \in x.of : i = j
  BY <1>1 DEF Input!Over
<1> QED BY <1>1, <1>2 DEF Input!TakeNext

LEMMA InputGivesUp ==
    ASSUME NEW c \in Input!Callers, Input!GiveUp(c)
    PROVE  \E x : /\ caller' = [caller EXCEPT ![c] = x] /\ x = [pc |-> x.pc, of |-> x.of]
                  /\ x.pc \in {"over", "idle"} /\ x.of = {} /\ (c # "queue" => x.pc = "idle")
<1>1. PICK x : x = IF c = "queue" THEN Input!Over ELSE Input!Idle
  OBVIOUS
<1>2. x = [pc |-> x.pc, of |-> x.of] /\ x.pc \in {"over", "idle"} /\ x.of = {} /\ (c # "queue" => x.pc = "idle")
  BY <1>1 DEF Input!Over, Input!Idle
<1> QED BY <1>1, <1>2 DEF Input!GiveUp

(* A caller under way.                                                       *)
LEMMA InputCaller ==
    ASSUME InputInvariant, NEW c \in Input!Callers, caller[c].pc # "idle"
    PROVE  /\ ~Input!Going /\ (c = "queue" => graph.pc = "done")
           /\ caller[c] = [pc |-> caller[c].pc, of |-> caller[c].of] /\ \A i, j \in caller[c].of : i = j
BY InputFields DEF CallersFit

LEMMA InputDrain ==
    ASSUME InputInvariant, Input!Drain
    PROVE  InputInvariant'
<1>1. /\ graph.pc = "done" /\ input.status = "success" /\ Input!TakeNext
      /\ UNCHANGED <<input, closed, message, graph, heard>>
  BY DEF Input!Drain, Input!At
<1>2. "queue" \in Input!Callers /\ ~Input!Going
  BY <1>1 DEF Input!Callers, Input!Going
<1>3. PICK x : /\ caller' = [caller EXCEPT !["queue"] = x] /\ x = [pc |-> x.pc, of |-> x.of]
               /\ x.pc \in {"over", "claim"} /\ \A i, j \in x.of : i = j
  BY <1>1, InputTakesNext
<1> QED BY <1>1, <1>2, <1>3, InputWaits

(* A refused or lost call ends the dispatch.                                 *)
LEMMA InputQuits ==
    ASSUME InputInvariant, NEW c \in Input!Callers, caller[c].pc # "idle", Input!GiveUp(c),
           UNCHANGED <<input, closed, message, graph, heard>>
    PROVE  InputInvariant'
<1>1. ~Input!Going /\ (c = "queue" => graph.pc = "done")
  BY InputCaller
<1>2. PICK x : /\ caller' = [caller EXCEPT ![c] = x] /\ x = [pc |-> x.pc, of |-> x.of]
               /\ x.pc \in {"over", "idle"} /\ x.of = {} /\ (c # "queue" => x.pc = "idle")
  BY InputGivesUp
<1> QED BY <1>1, <1>2, InputWaits

LEMMA InputClaimQueued ==
    ASSUME InputInvariant, Input!ClaimQueued
    PROVE  InputInvariant'
<1>0. "queue" \in Input!Callers
  BY DEF Input!Callers
<1>1. PICK i \in caller["queue"].of :
          /\ caller["queue"].pc = "claim"
          /\ \/ /\ Input!MayClaim("queue", i)
                /\ message' = [message EXCEPT ![i].status = "dispatching"]
                /\ caller' = [caller EXCEPT !["queue"].pc = "create"]
             \/ UNCHANGED message /\ caller' = [caller EXCEPT !["queue"].pc = "wait"]
             \/ Input!GiveUp("queue") /\ UNCHANGED message
          /\ UNCHANGED <<input, closed, graph, heard>>
  BY DEF Input!ClaimQueued
<1>2. /\ ~Input!Going /\ graph.pc = "done"
         /\ caller["queue"] = [pc |-> caller["queue"].pc, of |-> caller["queue"].of]
      /\ \A j, k \in caller["queue"].of : j = k
  BY <1>0, <1>1, InputCaller
<1>3. CASE /\ Input!MayClaim("queue", i) /\ message' = [message EXCEPT ![i].status = "dispatching"]
           /\ caller' = [caller EXCEPT !["queue"].pc = "create"]
  <2>1. PICK x : x = [pc |-> "create", of |-> caller["queue"].of]
    OBVIOUS
  <2>2. x = [pc |-> x.pc, of |-> x.of] /\ x.pc = "create" /\ x.of = caller["queue"].of
    BY <2>1
  <2>3. caller' = [caller EXCEPT !["queue"] = x]
    <3>1. PICK old : old = caller["queue"] /\ old = [pc |-> old.pc, of |-> old.of]
      BY <1>2
    <3>2. [old EXCEPT !.pc = "create"] = x
      BY <2>1, <3>1
    <3>3. caller' = [caller EXCEPT !["queue"] = [old EXCEPT !.pc = "create"]]
      BY <1>3, <3>1
    <3> QED BY <3>2, <3>3
  <2>4. i \in Inputs => Stands(i)
    BY <1>3 DEF Input!MayClaim, Stands
  <2>5. /\ message' \in [Inputs -> Input!Item]
        /\ \A j \in Inputs : /\ Keeps(j)
                             /\ j = i => message'[j].status = "dispatching"
                             /\ message[j].status \in {"dispatching", "applied"}
                                   => message'[j].status \in {"dispatching", "applied"}
    BY <1>3, <2>4, InputEntry
  <2>6. \A j \in Inputs : j \in x.of => message'[j].status \in {"dispatching", "applied"}
    BY <1>1, <1>2, <2>2, <2>5
  <2> QED BY <1>0, <1>1, <1>2, <2>2, <2>3, <2>5, <2>6, InputFields, InputCalls
<1>4. CASE UNCHANGED message /\ caller' = [caller EXCEPT !["queue"].pc = "wait"]
  <2>1. PICK x : x = [pc |-> "wait", of |-> caller["queue"].of]
    OBVIOUS
  <2>2. x = [pc |-> x.pc, of |-> x.of] /\ x.pc = "wait" /\ x.of = caller["queue"].of
    BY <2>1
  <2>3. caller' = [caller EXCEPT !["queue"] = x]
    <3>1. PICK old : old = caller["queue"] /\ old = [pc |-> old.pc, of |-> old.of]
      BY <1>2
    <3>2. [old EXCEPT !.pc = "wait"] = x
      BY <2>1, <3>1
    <3>3. caller' = [caller EXCEPT !["queue"] = [old EXCEPT !.pc = "wait"]]
      BY <1>4, <3>1
    <3> QED BY <3>2, <3>3
  <2> QED BY <1>0, <1>1, <1>2, <1>4, <2>2, <2>3, InputWaits
<1>5. CASE Input!GiveUp("queue") /\ UNCHANGED message
  BY <1>0, <1>1, <1>5, InputQuits
<1> QED BY <1>1, <1>3, <1>4, <1>5

LEMMA InputRetry ==
    ASSUME InputInvariant, NEW i \in Inputs, Input!Retry(i)
    PROVE  InputInvariant'
<1>1. /\ message[i].status # "absent" /\ Input!MayClaim("user", i)
         /\ message' = [message EXCEPT ![i].status = "dispatching"]
      /\ caller' = [caller EXCEPT !["user"] = [pc |-> "create", of |-> {i}]]
      /\ UNCHANGED <<input, closed, graph, heard>>
  BY DEF Input!Retry
<1>2. ~Input!Going /\ Stands(i) /\ "user" \in Input!Callers
  BY <1>1 DEF Input!MayClaim, Input!Active, Input!Going, Stands, Input!Callers
<1>3. /\ message' \in [Inputs -> Input!Item]
      /\ \A j \in Inputs : /\ Keeps(j)
                           /\ j = i => message'[j].status = "dispatching"
                           /\ message[j].status \in {"dispatching", "applied"}
                                 => message'[j].status \in {"dispatching", "applied"}
                           /\ message[j].status \in Standing => message'[j].status \in Standing
  BY <1>1, <1>2, InputEntry
<1>4. PICK x : x = [pc |-> "create", of |-> {i}]
  OBVIOUS
<1>5. /\ x = [pc |-> x.pc, of |-> x.of] /\ x.pc = "create" /\ \A j, k \in x.of : j = k
      /\ caller' = [caller EXCEPT !["user"] = x]
      /\ \A j \in Inputs : j \in x.of => message'[j].status \in {"dispatching", "applied"}
  BY <1>1, <1>3, <1>4
<1> QED BY <1>1, <1>2, <1>3, <1>5, InputFields, InputCalls

LEMMA InputCreate ==
    ASSUME InputInvariant, NEW c \in Input!Callers, Input!Create(c)
    PROVE  InputInvariant'
<1>1. /\ caller[c].pc = "create" /\ UNCHANGED <<input, closed, message, graph, heard>>
      /\ Input!GiveUp(c) \/ caller' = [caller EXCEPT ![c].pc = "record"]
  BY DEF Input!Create
<1>2. /\ ~Input!Going /\ (c = "queue" => graph.pc = "done")
         /\ caller[c] = [pc |-> caller[c].pc, of |-> caller[c].of]
      /\ \A i, j \in caller[c].of : i = j
  BY <1>1, InputCaller
<1>3. CASE Input!GiveUp(c)
  BY <1>1, <1>3, InputQuits
<1>4. CASE caller' = [caller EXCEPT ![c].pc = "record"]
  <2>1. PICK x : x = [pc |-> "record", of |-> caller[c].of]
    OBVIOUS
  <2>2. x = [pc |-> x.pc, of |-> x.of] /\ x.pc = "record" /\ x.of = caller[c].of
    BY <2>1
  <2>3. caller' = [caller EXCEPT ![c] = x]
    <3>1. PICK old : old = caller[c] /\ old = [pc |-> old.pc, of |-> old.of]
      BY <1>2
    <3>2. [old EXCEPT !.pc = "record"] = x
      BY <2>1, <3>1
    <3>3. caller' = [caller EXCEPT ![c] = [old EXCEPT !.pc = "record"]]
      BY <1>4, <3>1
    <3> QED BY <3>2, <3>3
  <2>4. \A i, j \in x.of : i = j
    BY <1>2, <2>2
  <2>5. caller[c].pc \in {"create", "record"}
    BY <1>1
  <2> QED BY <1>1, <1>2, <2>2, <2>3, <2>4, <2>5, InputWaits
<1> QED BY <1>1, <1>3, <1>4

LEMMA InputDispatched ==
    ASSUME InputInvariant, NEW c \in Input!Callers, Input!Dispatched(c)
    PROVE  InputInvariant'
<1>1. PICK i \in caller[c].of :
          /\ caller[c].pc = "record" /\ UNCHANGED <<input, closed, graph, heard>>
          /\ message' = [message EXCEPT ![i].status = "applied", ![i].run = TRUE]
          /\ caller' = [caller EXCEPT ![c] = IF c = "queue" THEN [pc |-> "wait", of |-> {i}] ELSE Input!Idle]
  BY DEF Input!Dispatched
<1>2. ~Input!Going /\ (c = "queue" => graph.pc = "done")
  BY <1>1, InputCaller
<1>3. i \in Inputs => message[i].status \in {"dispatching", "applied"}
  BY <1>1, InputFields DEF CallersFit
<1>4. /\ message' \in [Inputs -> Input!Item]
      /\ \A j \in Inputs : /\ Keeps(j)
                           /\ message[j].status \in {"dispatching", "applied"}
                                 => message'[j].status \in {"dispatching", "applied"}
                           /\ message[j].status \in Standing => message'[j].status \in Standing
  BY <1>1, <1>3, InputEntry DEF Stands
<1>5. PICK x : x = IF c = "queue" THEN [pc |-> "wait", of |-> {i}] ELSE Input!Idle
  OBVIOUS
<1>6. x = [pc |-> x.pc, of |-> x.of] /\ x.pc \in {"wait", "idle"} /\ (\A j, k \in x.of : j = k)
  BY <1>5 DEF Input!Idle
<1>7. caller' = [caller EXCEPT ![c] = x]
  BY <1>1, <1>5
<1> QED BY <1>1, <1>2, <1>4, <1>6, <1>7, InputFields, InputCalls

LEMMA InputWaitOver ==
    ASSUME InputInvariant, Input!WaitOver
    PROVE  InputInvariant'
<1>0. "queue" \in Input!Callers
  BY DEF Input!Callers
<1>1. /\ caller["queue"].pc = "wait" /\ UNCHANGED <<input, graph, heard>>
      /\ \/ Input!TakeNext /\ UNCHANGED <<closed, message>>
         \/ Input!Paused /\ Input!GiveUp("queue")
  BY DEF Input!WaitOver
<1>2. ~Input!Going /\ graph.pc = "done"
  BY <1>0, <1>1, InputCaller
<1>3. CASE Input!TakeNext /\ UNCHANGED <<closed, message>>
  <2>1. PICK x : /\ caller' = [caller EXCEPT !["queue"] = x] /\ x = [pc |-> x.pc, of |-> x.of]
                 /\ x.pc \in {"over", "claim"} /\ \A i, j \in x.of : i = j
    BY <1>3, InputTakesNext
  <2> QED BY <1>0, <1>1, <1>2, <1>3, <2>1, InputWaits
<1>4. CASE Input!Paused /\ Input!GiveUp("queue")
  <2>1. PICK x : /\ caller' = [caller EXCEPT !["queue"] = x] /\ x = [pc |-> x.pc, of |-> x.of]
                 /\ x.pc \in {"over", "idle"} /\ x.of = {}
    BY <1>0, <1>4, InputGivesUp
  <2>2. closed' = TRUE /\ message' = Input!Mark({"pending", "applying"}, Inputs, "not_applied")
    BY <1>4 DEF Input!Paused
  <2>3. /\ message' \in [Inputs -> Input!Item]
        /\ \A i \in Inputs : /\ Keeps(i)
                             /\ message'[i].status = message[i].status
                                  \/ message[i].status \in {"pending", "applying"}
    BY <2>2, InputPaused
  <2> QED BY <1>0, <1>1, <1>2, <2>1, <2>2, <2>3, InputCalls
<1> QED BY <1>1, <1>3, <1>4

LEMMA InputInits ==
    ASSUME Input!InputAssumption, Input!Init
    PROVE  InputInvariant
<1>1. /\ input = [status |-> "running", owned |-> TRUE] /\ closed = TRUE /\ graph = Input!Fresh("start")
         /\ heard = {}
      /\ message = [i \in Inputs |-> [mode |-> "steer", status |-> "absent", run |-> FALSE]]
      /\ caller = [c \in Input!Callers |-> Input!Idle]
  BY DEF Input!Init
<1>2. 0 \in 0 .. MaxContinues
  BY DEF Input!InputAssumption
<1>3. graph \in Input!Graph /\ graph.pc = "start" /\ graph.delivered = {} /\ graph.saved = {}
  BY <1>1, <1>2 DEF Input!Fresh, Input!Graph
<1>4. input \in Input!Row /\ closed \in BOOLEAN /\ message \in [Inputs -> Input!Item]
  BY <1>1 DEF Input!Row, Input!Item
<1>5. \A c \in Input!Callers : caller[c] = [pc |-> caller[c].pc, of |-> caller[c].of] /\ caller[c].pc = "idle"
      /\ caller[c].of = {}
  BY <1>1 DEF Input!Idle
<1>6. FieldsFit
  BY <1>1, <1>3, <1>4, <1>5 DEF FieldsFit
<1>7. GraphFits /\ Input!SteerHasTurn
  BY <1>1, <1>3 DEF GraphFits, Input!SteerHasTurn
<1>8. GoingFits
  BY <1>1, <1>3 DEF GoingFits, Reading
<1>9. CallersFit
  BY <1>5 DEF CallersFit, Input!Callers
<1> QED BY <1>6, <1>7, <1>8, <1>9 DEF InputInvariant

LEMMA InputStep ==
    ASSUME Input!InputAssumption, InputInvariant, [Input!Next]_(Input!vars)
    PROVE  InputInvariant'
<1>1. CASE UNCHANGED Input!vars
  BY <1>1, InputStutters DEF Input!vars
<1>2. ASSUME NEW i \in Inputs, NEW mode \in {"queue", "steer"}, Input!Submit(i, mode) PROVE InputInvariant'
  BY <1>2, InputSubmit
<1>3. ASSUME NEW i \in Inputs, Input!Remove(i) \/ Input!Retry(i) \/ Input!RunEnds(i) PROVE InputInvariant'
  BY <1>3, InputRemove, InputRetry, InputStutters DEF Input!RunEnds
<1>4. ASSUME NEW c \in Input!Callers, Input!Create(c) \/ Input!Dispatched(c) PROVE InputInvariant'
  BY <1>4, InputCreate, InputDispatched
<1> QED BY <1>1, <1>2, <1>3, <1>4, InputRows, InputGraphFails, InputReopen, InputDeliverRead, InputDeliverClaim,
           InputSave, InputCall, InputFinish, InputClose, InputContinue, InputStage, InputReceipts, InputPause,
           InputCommit, InputDrain, InputClaimQueued, InputWaitOver
    DEF Input!Next

(* Every input has its entry in runs.                                        *)
RunsKeyed == DOMAIN runs = Inputs

LEMMA InputRuns == Input!Spec => []RunsKeyed
<1>1. Input!Init => RunsKeyed
  BY DEF Input!Init, RunsKeyed
<1>2. ASSUME RunsKeyed, [Input!Next]_(Input!vars) PROVE RunsKeyed'
  <2>1. UNCHANGED runs \/ \E i, to : runs' = [runs EXCEPT ![i] = to]
    BY <1>2 DEF Input!Next, Input!vars, Input!Submit, Input!Remove, Input!Retry, Input!RunEnds, Input!Create,
                Input!Dispatched, Input!RequestCancel, Input!LoseLease, Input!TakeOver,
                Input!GraphFails, Input!Reopen, Input!DeliverRead, Input!DeliverClaim, Input!Save, Input!Call,
                Input!Finish, Input!Close, Input!Continue, Input!Stage, Input!Receipts,
                Input!Pause, Input!Commit, Input!Drain, Input!ClaimQueued, Input!WaitOver
  <2> QED BY <1>2, <2>1 DEF RunsKeyed
<1> QED BY <1>1, <1>2, PTL DEF Input!Spec

(* The states the graph and its end move entries out of.                     *)
Unsettled == {{"pending"}, {"applying"}, {"pending", "applying"}}

(* What was taken back stays out (RemovedStaysOut).                          *)
LEMMA InputRemoved ==
    ASSUME InputInvariant, RunsKeyed, [Input!Next]_(Input!vars)
    PROVE  [Input!RemovedStaysOut]_(Input!vars)
<1> SUFFICES ASSUME Input!Next, NEW i \in Inputs, message[i].status = "cancelled"
             PROVE  message'[i].status = "cancelled" /\ (runs'[i] = "none" <=> runs[i] = "none")
                    /\ (i \in heard' => i \in heard)
  BY DEF Input!RemovedStaysOut
<1>1. message'[i].status = "cancelled"
  <2>1. CASE UNCHANGED message
    BY <2>1
  <2>2. CASE \E from \in Unsettled : \E ids, to : message' = Input!Mark(from, ids, to)
    BY <2>2, InputFields DEF Input!Mark, Unsettled
  <2>3. CASE \E j \in Inputs, mode \in {"queue", "steer"} : Input!Submit(j, mode)
    BY <2>3, InputFields DEF Input!Submit
  <2>4. CASE \E j \in Inputs : Input!Remove(j) \/ Input!Retry(j)
    BY <2>4, InputFields DEF Input!Remove, Input!Retry, Input!MayClaim
  <2>5. CASE Input!ClaimQueued
    BY <2>5, InputFields DEF Input!ClaimQueued, Input!MayClaim
  <2>6. ASSUME NEW c \in Input!Callers, Input!Dispatched(c) PROVE message'[i].status = "cancelled"
    <3>1. PICK j \in caller[c].of : /\ caller[c].pc = "record"
                                    /\ message' = [message EXCEPT ![j].status = "applied", ![j].run = TRUE]
      BY <2>6 DEF Input!Dispatched
    <3>2. j # i
      BY <3>1, InputFields DEF CallersFit
    <3> QED BY <3>1, <3>2, InputFields
  <2>7. CASE Input!DeliverClaim \/ Input!Call \/ Input!Finish \/ Input!Continue \/ Input!Stage \/ Input!Receipts
               \/ Input!Pause \/ Input!WaitOver
    <3>1. UNCHANGED message \/ \E from \in Unsettled : \E ids, to : message' = Input!Mark(from, ids, to)
      BY <2>7 DEF Input!DeliverClaim, Input!Call, Input!Finish, Input!Continue, Input!Stage, Input!Receipts,
                  Input!Pause, Input!WaitOver, Input!Confirm,
                    Input!AfterStream, Input!Paused, Unsettled
    <3> QED BY <2>1, <2>2, <3>1
  <2>8. CASE \/ Input!RequestCancel \/ Input!LoseLease \/ Input!TakeOver \/ Input!GraphFails \/ Input!Reopen
                  \/ Input!DeliverRead \/ Input!Save \/ Input!Close \/ Input!Commit
             \/ Input!Drain \/ (\E j \in Inputs : Input!RunEnds(j)) \/ \E c \in Input!Callers : Input!Create(c)
    BY <2>1, <2>8 DEF Input!RequestCancel, Input!LoseLease, Input!TakeOver, Input!GraphFails, Input!Reopen,
                      Input!DeliverRead, Input!Save, Input!Close, Input!Commit, Input!Drain,
                      Input!RunEnds, Input!Create
  <2> QED BY <2>3, <2>4, <2>5, <2>6, <2>7, <2>8 DEF Input!Next
<1>2. runs'[i] = "none" <=> runs[i] = "none"
  <2>1. CASE UNCHANGED runs
    BY <2>1
  <2>2. ASSUME NEW j \in Inputs, Input!RunEnds(j) PROVE runs'[i] = "none" <=> runs[i] = "none"
    BY <2>2, InputFields DEF Input!RunEnds
  <2>3. ASSUME NEW c \in Input!Callers, Input!Create(c) PROVE runs'[i] = "none" <=> runs[i] = "none"
    <3>1. PICK j \in caller[c].of : /\ caller[c].pc = "create"
                                    /\ runs' = runs \/ runs' = [runs EXCEPT ![j] = "active"]
      BY <2>3 DEF Input!Create
    <3>2. j # i
      BY <3>1, InputFields DEF CallersFit
    <3> QED BY <3>1, <3>2 DEF RunsKeyed
  <2>4. CASE \/ \E j \in Inputs, mode \in {"queue", "steer"} : Input!Submit(j, mode)
             \/ \E j \in Inputs : Input!Remove(j) \/ Input!Retry(j)
             \/ \E c \in Input!Callers : Input!Dispatched(c)
             \/ Input!RequestCancel \/ Input!LoseLease \/ Input!TakeOver
             \/ Input!GraphFails \/ Input!Reopen \/ Input!DeliverRead \/ Input!DeliverClaim \/ Input!Save
                  \/ Input!Call \/ Input!Finish \/ Input!Close
             \/ Input!Continue \/ Input!Stage \/ Input!Receipts \/ Input!Pause \/ Input!Commit \/ Input!Drain
                  \/ Input!ClaimQueued \/ Input!WaitOver
    BY <2>1, <2>4 DEF Input!Submit, Input!Remove, Input!Retry, Input!Dispatched, Input!RequestCancel,
                      Input!LoseLease, Input!TakeOver, Input!GraphFails, Input!Reopen,
                      Input!DeliverRead, Input!DeliverClaim, Input!Save, Input!Call, Input!Finish, Input!Close,
                      Input!Continue, Input!Stage, Input!Receipts, Input!Pause, Input!Commit,
                      Input!Drain, Input!ClaimQueued, Input!WaitOver
  <2> QED BY <2>2, <2>3, <2>4 DEF Input!Next
<1>3. i \in heard' => i \in heard
  <2>1. CASE UNCHANGED heard
    BY <2>1
  <2>2. CASE Input!Call
    <3>1. graph.pc = "call" /\ heard' = heard \cup graph.delivered
      BY <2>2 DEF Input!Call, Input!At
    <3>2. i \notin graph.delivered
      BY <3>1, InputFields DEF GraphFits, Standing
    <3> QED BY <3>1, <3>2
  <2>3. CASE \/ \E j \in Inputs, mode \in {"queue", "steer"} : Input!Submit(j, mode)
             \/ \E j \in Inputs : Input!Remove(j) \/ Input!Retry(j) \/ Input!RunEnds(j)
             \/ \E c \in Input!Callers : Input!Create(c) \/ Input!Dispatched(c)
             \/ Input!RequestCancel \/ Input!LoseLease \/ Input!TakeOver
             \/ Input!GraphFails \/ Input!Reopen \/ Input!DeliverRead \/ Input!DeliverClaim \/ Input!Save
                  \/ Input!Finish \/ Input!Close
             \/ Input!Continue \/ Input!Stage \/ Input!Receipts \/ Input!Pause \/ Input!Commit \/ Input!Drain
                  \/ Input!ClaimQueued \/ Input!WaitOver
    BY <2>1, <2>3 DEF Input!Submit, Input!Remove, Input!Retry, Input!RunEnds, Input!Create, Input!Dispatched,
                      Input!RequestCancel, Input!LoseLease, Input!TakeOver, Input!GraphFails,
                      Input!Reopen, Input!DeliverRead, Input!DeliverClaim, Input!Save, Input!Finish,
                      Input!Close, Input!Continue, Input!Stage, Input!Receipts, Input!Pause, Input!Commit,
                      Input!Drain, Input!ClaimQueued, Input!WaitOver
  <2> QED BY <2>2, <2>3 DEF Input!Next
<1> QED BY <1>1, <1>2, <1>3

(* The invariant holds in every behaviour of a run's inputs (RunInputs).     *)
THEOREM InputIsInvariant == Input!InputAssumption => (Input!Spec => []InputInvariant)
<1> SUFFICES ASSUME Input!InputAssumption PROVE Input!Spec => []InputInvariant
  OBVIOUS
<1>1. Input!Init => InputInvariant
  BY InputInits
<1>2. InputInvariant /\ [Input!Next]_(Input!vars) => InputInvariant'
  BY InputStep
<1> QED BY <1>1, <1>2, PTL DEF Input!Spec

(* Accepted inputs of a run are neither dropped nor brought back             *)
(* (RunInputControl.finish_graph; RunInputs.claim_steer, cancel).            *)
THEOREM InputKeeps == Input!InputAssumption => (Input!Spec => Input!InputsKept)
<1> SUFFICES ASSUME Input!InputAssumption PROVE Input!Spec => Input!InputsKept
  OBVIOUS
<1>1. Input!Spec => []InputInvariant
  BY InputIsInvariant
<1>2. InputInvariant => Input!SteerHasTurn
  BY InputFields
<1>3. InputInvariant /\ RunsKeyed /\ [Input!Next]_(Input!vars) => [Input!RemovedStaysOut]_(Input!vars)
  BY InputRemoved
<1>4. Input!Spec => []RunsKeyed
  BY InputRuns
<1> QED BY <1>1, <1>2, <1>3, <1>4, PTL DEF Input!Spec, Input!InputsKept

-----------------------------------------------------------------------------
(* The limiter of in-flight LLM calls: permits neither leak nor multiply, and*)
(* nobody waits beside a free one.                                          *)

Places == {"idle", "running", "asleep", "notified", "queued", "granted", "dead"}

Woken == {c \in SyncCallers : pc[c] = "notified"}

(* A thread stands in the condition's list once, and only while it sleeps.   *)
SleepersSleep ==
    /\ \A i \in DOMAIN sleepers : pc[sleepers[i]] = "asleep"
    /\ \A i, j \in DOMAIN sleepers : sleepers[i] = sleepers[j] => i = j

LimiterInvariant == Limiter!TypeOK /\ Limiter!PermitsAccounted /\ Limiter!NoLostPermit /\ SleepersSleep
-----------------------------------------------------------------------------
(* Its finite sets are those of this module.                                 *)
LEMMA LimiterFinite ==
    ASSUME NEW S
    PROVE  Limiter!Cardinality(S) = Cardinality(S) /\ (Limiter!IsFiniteSet(S) <=> IsFiniteSet(S))
BY DEF Cardinality, Limiter!Cardinality, IsFiniteSet, Limiter!IsFiniteSet

(* Both sets that are counted are finite.                                    *)
LEMMA CountedAreFinite ==
    ASSUME Limiter!LimiterAssumption
    PROVE  /\ IsFiniteSet(Limiter!Callers) /\ IsFiniteSet(Limiter!Holders) /\ IsFiniteSet(Woken)
           /\ Cardinality(Limiter!Holders) \in Nat /\ Cardinality(Woken) \in Nat
<1>1. IsFiniteSet(SyncCallers) /\ IsFiniteSet(AsyncCallers)
    BY LimiterFinite DEF Limiter!LimiterAssumption
<1>2. IsFiniteSet(Limiter!Callers)
    BY <1>1, FS_Union DEF Limiter!Callers
<1>3. Limiter!Holders \in SUBSET Limiter!Callers /\ Woken \in SUBSET SyncCallers
    BY DEF Limiter!Holders, Woken
<1>4. IsFiniteSet(Limiter!Holders) /\ IsFiniteSet(Woken)
    BY <1>1, <1>2, <1>3, FS_Subset
<1> QED
    BY <1>2, <1>4, FS_CardinalityType

(* One caller that moves enters or leaves each of the two sets.              *)
LEMMA PermitMove ==
    ASSUME Limiter!LimiterAssumption, pc \in [Limiter!Callers -> Places],
           NEW c \in Limiter!Callers, NEW v \in Places, pc' = [pc EXCEPT ![c] = v]
    PROVE  /\ pc' \in [Limiter!Callers -> Places]
           /\ v \in {"running", "granted"} => Limiter!Holders' = Limiter!Holders \cup {c}
           /\ v \notin {"running", "granted"} => Limiter!Holders' = Limiter!Holders \ {c}
           /\ v = "notified" /\ c \in SyncCallers => Woken' = Woken \cup {c}
           /\ v # "notified" => Woken' = Woken \ {c}
BY DEF Limiter!Holders, Woken, Limiter!Callers, Places

(* Before it moves, such a caller is told by its pc.                         *)
LEMMA PlaceTells ==
    ASSUME NEW c \in Limiter!Callers
    PROVE  /\ c \in Limiter!Holders <=> pc[c] \in {"running", "granted"}
           /\ c \in Woken => pc[c] = "notified"
           /\ pc[c] = "notified" /\ c \in SyncCallers => c \in Woken
BY DEF Limiter!Holders, Woken

(* Every action but those that touch sleepers keeps their list right when it *)
(* moves nobody who is asleep.                                               *)
LEMMA SleepersStay ==
    ASSUME Limiter!TypeOK, SleepersSleep, NEW c \in Limiter!Callers, NEW v \in Places,
           pc[c] # "asleep", pc' = [pc EXCEPT ![c] = v], sleepers' = sleepers
    PROVE  SleepersSleep' /\ sleepers' \in Seq(SyncCallers)
<1>1. \A i \in DOMAIN sleepers : sleepers[i] \in Limiter!Callers
    BY DEF Limiter!TypeOK, Limiter!Callers
<1> QED
    BY <1>1 DEF SleepersSleep, Limiter!TypeOK

(* A shorter queue, in which the tasks that are live were live before, has   *)
(* no live task that was not there.                                          *)
LEMMA LiveShrinks ==
    ASSUME Limiter!TypeOK, NEW c \in Limiter!Callers, NEW v \in Places \ {"queued"},
           pc' = [pc EXCEPT ![c] = v],
           \A i \in DOMAIN waiters' : \E j \in DOMAIN waiters : waiters'[i] = waiters[j]
    PROVE  Limiter!Live' # {} => Limiter!Live # {}
<1> SUFFICES ASSUME NEW i \in DOMAIN waiters', pc'[waiters'[i]] = "queued"
             PROVE  Limiter!Live # {}
    BY DEF Limiter!Live
<1>1. PICK j \in DOMAIN waiters : waiters'[i] = waiters[j]
    OBVIOUS
<1>2. waiters[j] \in Limiter!Callers
    BY DEF Limiter!TypeOK, Limiter!Callers
<1>3. pc[waiters[j]] = "queued"
    BY <1>1, <1>2 DEF Limiter!TypeOK, Places
<1> QED
    BY <1>3 DEF Limiter!Live
-----------------------------------------------------------------------------
(* A caller takes a free permit.                                             *)
LEMMA PermitTaken ==
    ASSUME Limiter!LimiterAssumption, LimiterInvariant, NEW c \in Limiter!Callers,
           pc[c] \in {"idle", "notified"}, inFlight < Permits,
           inFlight' = inFlight + 1, pc' = [pc EXCEPT ![c] = "running"],
           UNCHANGED <<waiters, sleepers>>
    PROVE  LimiterInvariant'
<1> USE DEF LimiterInvariant
<1>0. pc \in [Limiter!Callers -> Places] /\ "running" \in Places /\ inFlight \in Nat /\ Permits \in Nat
    BY DEF Limiter!TypeOK, Places, Limiter!LimiterAssumption
<1>1. /\ IsFiniteSet(Limiter!Holders) /\ IsFiniteSet(Woken)
      /\ Cardinality(Limiter!Holders) \in Nat /\ Cardinality(Woken) \in Nat
    BY CountedAreFinite
<1>2. pc' \in [Limiter!Callers -> Places] /\ Limiter!Holders' = Limiter!Holders \cup {c} /\ Woken' = Woken \ {c}
    BY <1>0, PermitMove
<1>3. c \notin Limiter!Holders
    BY PlaceTells
<1>4. Cardinality(Limiter!Holders') = Cardinality(Limiter!Holders) + 1
    BY <1>1, <1>2, <1>3, FS_AddElement
<1>5. Cardinality(Woken) - 1 <= Cardinality(Woken')
    <2>1. Cardinality(Woken') = IF c \in Woken THEN Cardinality(Woken) - 1 ELSE Cardinality(Woken)
        BY <1>1, <1>2, FS_RemoveElement
    <2> QED
        BY <1>1, <2>1
<1>6. Limiter!TypeOK'
    BY <1>0, <1>2 DEF Limiter!TypeOK, Places
<1>7. Limiter!PermitsAccounted'
    BY <1>4, LimiterFinite DEF Limiter!PermitsAccounted
<1>8. SleepersSleep'
    BY <1>0, SleepersStay
<1>9. Limiter!Live = {}
    BY <1>0 DEF Limiter!NoLostPermit
<1>10. Limiter!Live' = {}
    <2>1. \A i \in DOMAIN waiters' : \E j \in DOMAIN waiters : waiters'[i] = waiters[j]
        OBVIOUS
    <2> QED
        BY <2>1, <1>9, <1>0, LiveShrinks DEF Places
<1>11. Cardinality(Woken') \in Nat
    BY <1>1, <1>2, FS_RemoveElement, FS_CardinalityType
<1>12. Limiter!NoLostPermit'
    BY <1>0, <1>1, <1>5, <1>10, <1>11, LimiterFinite DEF Limiter!NoLostPermit, Woken
<1> QED
    BY <1>6, <1>7, <1>8, <1>12

(* There is none: it sleeps or queues up.                                    *)
LEMMA PermitAwaited ==
    ASSUME Limiter!LimiterAssumption, LimiterInvariant, NEW c \in Limiter!Callers,
           pc[c] \in {"idle", "notified"}, ~(inFlight < Permits), Limiter!Park(c), UNCHANGED inFlight
    PROVE  LimiterInvariant'
<1> USE DEF LimiterInvariant
<1>0. pc \in [Limiter!Callers -> Places] /\ {"asleep", "queued"} \subseteq Places /\ inFlight = Permits
      /\ Permits \in Nat
    BY DEF Limiter!TypeOK, Places, Limiter!LimiterAssumption
<1>1. c \notin Limiter!Holders
    BY PlaceTells
<1>2. PICK v \in {"asleep", "queued"} : pc' = [pc EXCEPT ![c] = v]
    BY DEF Limiter!Park
<1>3. pc' \in [Limiter!Callers -> Places] /\ Limiter!Holders' = Limiter!Holders
    <2>1. v \in Places /\ v \notin {"running", "granted"}
        BY <1>0
    <2>2. pc' \in [Limiter!Callers -> Places] /\ Limiter!Holders' = Limiter!Holders \ {c}
        BY <1>0, <1>2, <2>1, PermitMove
    <2> QED
        BY <1>1, <2>2
<1>4. Limiter!PermitsAccounted'
    BY <1>3 DEF Limiter!PermitsAccounted
<1>5. Cardinality(Woken') \in Nat
    <2>1. Woken' = Woken \ {c}
        BY <1>0, <1>2, PermitMove
    <2> QED
        BY <2>1, CountedAreFinite, FS_RemoveElement, FS_CardinalityType
<1>6. Limiter!NoLostPermit'
    BY <1>0, <1>5, LimiterFinite DEF Limiter!NoLostPermit, Woken
<1>7. CASE c \in SyncCallers
    <2>1. sleepers \in Seq(SyncCallers) /\ sleepers' = Append(sleepers, c)
          /\ pc' = [pc EXCEPT ![c] = "asleep"] /\ waiters' = waiters
        BY <1>7 DEF Limiter!Park, Limiter!TypeOK
    <2>2. Limiter!TypeOK'
        BY <1>0, <1>3, <2>1, <1>7, AppendProperties DEF Limiter!TypeOK, Places
    <2>3. /\ sleepers' \in Seq(SyncCallers) /\ Len(sleepers') = Len(sleepers) + 1 /\ Len(sleepers) \in Nat
          /\ \A i \in 1 .. Len(sleepers) : sleepers'[i] = sleepers[i]
          /\ sleepers'[Len(sleepers) + 1] = c
        BY <1>7, <2>1, AppendProperties, LenProperties
    <2>4. DOMAIN sleepers = 1 .. Len(sleepers) /\ DOMAIN sleepers' = 1 .. (Len(sleepers) + 1)
        BY <2>1, <2>3, LenProperties
    <2>5. \A i \in 1 .. Len(sleepers) : sleepers[i] # c /\ sleepers[i] \in Limiter!Callers
        BY <2>1, <2>4 DEF SleepersSleep, Limiter!Callers
    <2>6. \A i \in DOMAIN sleepers' : pc'[sleepers'[i]] = "asleep"
        BY <1>0, <2>1, <2>3, <2>4, <2>5 DEF SleepersSleep
    <2>7. \A i, j \in DOMAIN sleepers' : sleepers'[i] = sleepers'[j] => i = j
        BY <2>3, <2>4, <2>5 DEF SleepersSleep
    <2> QED
        BY <1>4, <1>6, <2>2, <2>6, <2>7 DEF SleepersSleep
<1>8. CASE c \notin SyncCallers
    <2>1. c \in AsyncCallers /\ waiters' = Append(waiters, c) /\ sleepers' = sleepers
          /\ waiters \in Seq(AsyncCallers)
        BY <1>8 DEF Limiter!Park, Limiter!Callers, Limiter!TypeOK
    <2>2. Limiter!TypeOK'
        BY <1>0, <1>3, <2>1, AppendProperties DEF Limiter!TypeOK, Places
    <2>3. SleepersSleep'
        BY <1>0, <1>2, <2>1, SleepersStay
    <2> QED
        BY <1>4, <1>6, <2>2, <2>3
<1> QED
    BY <1>7, <1>8
-----------------------------------------------------------------------------
(* What is left of a queue of n places behind the i-th.                      *)
LEMMA RestOfQueue ==
    ASSUME NEW n \in Nat, NEW i \in 1 .. n
    PROVE  /\ (IF i + 1 <= n THEN n - i ELSE 0) = n - i
           /\ \A k \in 1 .. n - i : i + k \in 1 .. n
OBVIOUS

(* A holder's permit goes to the first live task of the queue.               *)
LEMMA PermitHanded ==
    ASSUME Limiter!LimiterAssumption, LimiterInvariant, NEW c \in Limiter!Callers, c \in Limiter!Holders,
           NEW i \in Limiter!Live, Limiter!HandOver([pc EXCEPT ![c] = "idle"], i)
    PROVE  LimiterInvariant'
<1> USE DEF LimiterInvariant
<1> DEFINE to == waiters[i]
           held == [pc EXCEPT ![c] = "idle"]
<1>0. pc \in [Limiter!Callers -> Places] /\ "idle" \in Places /\ "granted" \in Places
      /\ waiters \in Seq(AsyncCallers)
    BY DEF Limiter!TypeOK, Places
<1>1. i \in DOMAIN waiters /\ pc[to] = "queued" /\ to \in AsyncCallers /\ to \in Limiter!Callers
    BY <1>0 DEF Limiter!Live, Limiter!Callers
<1>2. to # c /\ to \notin Limiter!Holders /\ pc[c] \in {"running", "granted"}
    BY <1>1, PlaceTells
<1>3. pc' = [held EXCEPT ![to] = "granted"] /\ waiters' = SubSeq(waiters, i + 1, Len(waiters))
      /\ inFlight' = inFlight /\ sleepers' = sleepers
    BY DEF Limiter!HandOver
<1>4. \A d \in Limiter!Callers : pc'[d] = IF d = to THEN "granted" ELSE IF d = c THEN "idle" ELSE pc[d]
    BY <1>0, <1>1, <1>3
<1>5. pc' \in [Limiter!Callers -> Places]
    BY <1>0, <1>1, <1>3
<1> HIDE DEF to, held
<1>6. Limiter!Holders' = (Limiter!Holders \ {c}) \cup {to}
    BY <1>1, <1>2, <1>4 DEF Limiter!Holders
<1>7. Woken' = Woken
    BY <1>1, <1>2, <1>4 DEF Woken, Limiter!Callers
<1>8. Cardinality(Limiter!Holders') = Cardinality(Limiter!Holders)
    <2>1. IsFiniteSet(Limiter!Holders) /\ Cardinality(Limiter!Holders) \in Nat
        BY CountedAreFinite
    <2>2. IsFiniteSet(Limiter!Holders \ {c})
          /\ Cardinality(Limiter!Holders \ {c}) = Cardinality(Limiter!Holders) - 1
        BY <2>1, FS_RemoveElement
    <2>3. to \notin Limiter!Holders \ {c}
        BY <1>2
    <2>4. Cardinality((Limiter!Holders \ {c}) \cup {to}) = Cardinality(Limiter!Holders \ {c}) + 1
        BY <2>2, <2>3, FS_AddElement
    <2> QED
        BY <2>1, <2>2, <2>4, <1>6
<1>9. waiters' \in Seq(AsyncCallers)
      /\ \A k \in DOMAIN waiters' : \E j \in DOMAIN waiters : waiters'[k] = waiters[j]
    <2>1. DOMAIN waiters = 1 .. Len(waiters) /\ Len(waiters) \in Nat /\ i \in 1 .. Len(waiters)
        BY <1>0, <1>1, LenProperties
    <2>2. \A k \in (i + 1) .. Len(waiters) : waiters[k] \in AsyncCallers
        BY <1>0, <2>1
    <2>3. /\ waiters' \in Seq(AsyncCallers)
          /\ Len(waiters') = IF i + 1 <= Len(waiters) THEN Len(waiters) - i ELSE 0
          /\ \A k \in 1 .. Len(waiters) - i : waiters'[k] = waiters[i + k]
        BY <1>3, <2>1, <2>2, SubSeqProperties
    <2>4. DOMAIN waiters' = 1 .. Len(waiters')
        BY <2>3, LenProperties
    <2>5. ASSUME NEW k \in DOMAIN waiters' PROVE \E j \in DOMAIN waiters : waiters'[k] = waiters[j]
        <3>1. Len(waiters') = Len(waiters) - i
            BY <2>1, <2>3, RestOfQueue
        <3>2. k \in 1 .. Len(waiters) - i
            BY <2>4, <3>1
        <3>3. i + k \in DOMAIN waiters
            BY <2>1, <3>2, RestOfQueue
        <3> QED
            BY <2>3, <3>2, <3>3
    <2> QED
        BY <2>3, <2>5
<1>10. Limiter!TypeOK'
    BY <1>3, <1>5, <1>9 DEF Limiter!TypeOK, Places
<1>11. SleepersSleep'
    <2>1. \A k \in DOMAIN sleepers : sleepers[k] \in Limiter!Callers /\ sleepers[k] # c /\ sleepers[k] # to
        BY <1>1, <1>2 DEF Limiter!TypeOK, Limiter!Callers, SleepersSleep
    <2> QED
        BY <1>3, <1>4, <2>1 DEF SleepersSleep
<1>12. Limiter!PermitsAccounted'
    BY <1>3, <1>8, LimiterFinite DEF Limiter!PermitsAccounted
<1>13. Limiter!Live # {}
    OBVIOUS
<1>14. Limiter!NoLostPermit'
    BY <1>3, <1>7, <1>13 DEF Limiter!NoLostPermit, Woken
<1> QED
    BY <1>10, <1>11, <1>12, <1>14

(* No task waits: the permit goes back to the pool, and a thread is told.    *)
LEMMA PermitFreed ==
    ASSUME Limiter!LimiterAssumption, LimiterInvariant, NEW c \in Limiter!Callers, c \in Limiter!Holders,
           waiters' = <<>>, Limiter!Free([pc EXCEPT ![c] = "idle"])
    PROVE  LimiterInvariant'
<1> USE DEF LimiterInvariant
<1> DEFINE held == [pc EXCEPT ![c] = "idle"]
<1>0. pc \in [Limiter!Callers -> Places] /\ {"idle", "notified"} \subseteq Places
      /\ sleepers \in Seq(SyncCallers)
      /\ inFlight \in Nat /\ inFlight <= Permits /\ Permits \in Nat
    BY DEF Limiter!TypeOK, Places, Limiter!LimiterAssumption
<1>1. pc[c] \in {"running", "granted"}
    BY PlaceTells
<1>2. /\ IsFiniteSet(Limiter!Holders) /\ IsFiniteSet(Woken)
      /\ Cardinality(Limiter!Holders) \in Nat /\ Cardinality(Woken) \in Nat
    BY CountedAreFinite
<1>3. Cardinality(Limiter!Holders \ {c}) = Cardinality(Limiter!Holders) - 1
      /\ Cardinality(Limiter!Holders \ {c}) \in Nat
    BY <1>2, FS_RemoveElement, FS_CardinalityType
<1>4. inFlight' = inFlight - 1 /\ inFlight' \in 0 .. Permits
    BY <1>0, <1>2, <1>3, LimiterFinite DEF Limiter!Free, Limiter!PermitsAccounted
<1>5. waiters' \in Seq(AsyncCallers) /\ Limiter!Live' = {}
    BY DEF Limiter!Live
<1>6. CASE sleepers = <<>>
    <2>1. pc' = held /\ sleepers' = <<>>
        BY <1>6 DEF Limiter!Free
    <2>2. pc' \in [Limiter!Callers -> Places] /\ Limiter!Holders' = Limiter!Holders \ {c}
        BY ZenonT(40), <1>0, <2>1, PermitMove
    <2>3. Limiter!TypeOK'
        BY <1>4, <1>5, <2>1, <2>2 DEF Limiter!TypeOK, Places
    <2>4. Limiter!PermitsAccounted'
        BY <1>3, <1>4, <2>2, LimiterFinite DEF Limiter!PermitsAccounted
    <2>5. Limiter!NoLostPermit' /\ SleepersSleep'
        BY <1>5, <2>1 DEF Limiter!NoLostPermit, SleepersSleep
    <2> QED
        BY <2>3, <2>4, <2>5
<1>7. CASE sleepers # <<>>
    <2> DEFINE s == sleepers[1]
    <2>1. /\ DOMAIN sleepers = 1 .. Len(sleepers) /\ Len(sleepers) \in Nat \ {0}
          /\ Head(sleepers) = s /\ s \in SyncCallers
        BY <1>0, <1>7, LenProperties, EmptySeq
    <2>2. /\ Tail(sleepers) \in Seq(SyncCallers) /\ Len(Tail(sleepers)) = Len(sleepers) - 1
          /\ \A k \in 1 .. Len(Tail(sleepers)) : Tail(sleepers)[k] = sleepers[k + 1]
        BY <1>0, <1>7, HeadTailProperties
    <2>3. pc[s] = "asleep" /\ s \in Limiter!Callers /\ s # c
        BY <1>1, <2>1 DEF SleepersSleep, Limiter!Callers
    <2>4. sleepers' = Tail(sleepers) /\ pc' = [held EXCEPT ![s] = "notified"]
        BY <1>7, <2>1 DEF Limiter!Free
    <2>5. \A d \in Limiter!Callers : pc'[d] = IF d = s THEN "notified" ELSE IF d = c THEN "idle" ELSE pc[d]
        BY <1>0, <2>3, <2>4
    <2>6. pc' \in [Limiter!Callers -> Places]
        BY <1>0, <2>3, <2>4
    <2> HIDE DEF held, s
    <2>7. Limiter!Holders' = Limiter!Holders \ {c}
        BY <2>3, <2>5 DEF Limiter!Holders
    <2>8. Woken' = Woken \cup {s} /\ s \notin Woken
        BY <1>1, <2>1, <2>3, <2>5 DEF Woken, Limiter!Callers
    <2>9. Cardinality(Woken') = Cardinality(Woken) + 1
        BY <1>2, <2>8, FS_AddElement
    <2>10. Limiter!TypeOK'
        BY <1>4, <1>5, <2>2, <2>4, <2>6 DEF Limiter!TypeOK, Places
    <2>11. Limiter!PermitsAccounted'
        BY <1>3, <1>4, <2>7, LimiterFinite DEF Limiter!PermitsAccounted
    <2>12. Limiter!NoLostPermit'
        BY <1>0, <1>2, <1>4, <1>5, <1>7, <2>9, LimiterFinite DEF Limiter!NoLostPermit, Woken
    <2>13. DOMAIN sleepers' = 1 .. (Len(sleepers) - 1)
        BY <2>2, <2>4, LenProperties
    <2>14. \A k \in DOMAIN sleepers' : /\ sleepers'[k] = sleepers[k + 1] /\ k + 1 \in DOMAIN sleepers
                                       /\ sleepers'[k] # s /\ sleepers'[k] # c
                                          /\ sleepers'[k] \in Limiter!Callers
        <3>1. \A k \in DOMAIN sleepers' : sleepers'[k] = sleepers[k + 1] /\ k + 1 \in DOMAIN sleepers
              /\ k + 1 # 1
            BY <2>1, <2>2, <2>4, <2>13
        <3>2. \A k \in DOMAIN sleepers : sleepers[k] \in Limiter!Callers /\ sleepers[k] # c
            BY <1>0, <1>1 DEF SleepersSleep, Limiter!Callers
        <3>3. \A k \in DOMAIN sleepers : k # 1 => sleepers[k] # s
            BY <2>1 DEF SleepersSleep, s
        <3> QED
            BY <3>1, <3>2, <3>3
    <2>15. SleepersSleep'
        <3>1. \A k \in DOMAIN sleepers' : pc'[sleepers'[k]] = "asleep"
            BY <2>5, <2>14 DEF SleepersSleep
        <3>2. \A k, l \in DOMAIN sleepers' : sleepers'[k] = sleepers'[l] => k = l
            BY <2>1, <2>13, <2>14 DEF SleepersSleep
        <3> QED
            BY <3>1, <3>2 DEF SleepersSleep
    <2> QED
        BY <2>10, <2>11, <2>12, <2>15
<1> QED
    BY <1>6, <1>7

(* A holder gives its permit up.                                             *)
LEMMA PermitGivenUp ==
    ASSUME Limiter!LimiterAssumption, LimiterInvariant, NEW c \in Limiter!Callers, c \in Limiter!Holders,
           Limiter!GiveUp(c)
    PROVE  LimiterInvariant'
<1>1. CASE \E i \in Limiter!Live : Limiter!HandOver([pc EXCEPT ![c] = "idle"], i)
    BY <1>1, PermitHanded
<1>2. CASE waiters' = <<>> /\ Limiter!Free([pc EXCEPT ![c] = "idle"])
    BY <1>2, PermitFreed
<1> QED
    BY <1>1, <1>2 DEF Limiter!GiveUp

(* A caller that neither takes nor holds a permit changes its place, and the *)
(* queue gets no new task.                                                   *)
LEMMA PermitsUnmoved ==
    ASSUME Limiter!LimiterAssumption, LimiterInvariant, NEW c \in Limiter!Callers,
           NEW v \in Places \ {"queued", "notified"},
           pc[c] \notin {"asleep", "notified"}, c \in Limiter!Holders <=> v \in {"running", "granted"},
           pc' = [pc EXCEPT ![c] = v], UNCHANGED <<inFlight, sleepers>>,
           waiters' \in Seq(AsyncCallers),
           \A i \in DOMAIN waiters' : \E j \in DOMAIN waiters : waiters'[i] = waiters[j]
    PROVE  LimiterInvariant'
<1> USE DEF LimiterInvariant
<1>1. pc \in [Limiter!Callers -> Places]
    BY DEF Limiter!TypeOK, Places
<1>2. pc' \in [Limiter!Callers -> Places] /\ Limiter!Holders' = Limiter!Holders
    <2>1. CASE v \in {"running", "granted"}
        <3>1. pc' \in [Limiter!Callers -> Places] /\ Limiter!Holders' = Limiter!Holders \cup {c}
            BY <1>1, <2>1, PermitMove
        <3> QED
            BY <2>1, <3>1
    <2>2. CASE v \notin {"running", "granted"}
        <3>1. pc' \in [Limiter!Callers -> Places] /\ Limiter!Holders' = Limiter!Holders \ {c}
            BY <1>1, <2>2, PermitMove
        <3> QED
            BY <2>2, <3>1
    <2> QED
        BY <2>1, <2>2
<1>3. Woken' = Woken
    <2>1. Woken' = Woken \ {c}
        BY <1>1, PermitMove
    <2>2. c \notin Woken
        BY PlaceTells
    <2> QED
        BY <2>1, <2>2
<1>4. Limiter!TypeOK'
    BY <1>2 DEF Limiter!TypeOK, Places
<1>5. Limiter!PermitsAccounted'
    BY <1>2 DEF Limiter!PermitsAccounted
<1>6. SleepersSleep'
    BY SleepersStay
<1>7. Limiter!Live' # {} => Limiter!Live # {}
    BY LiveShrinks
<1>8. Limiter!NoLostPermit'
    BY <1>3, <1>7 DEF Limiter!NoLostPermit, Woken
<1> QED
    BY <1>4, <1>5, <1>6, <1>8

(* The queue without the entry of a cancelled task.                          *)
LEMMA UnregisterShrinks ==
    ASSUME Limiter!TypeOK, NEW c, Limiter!Unregister(c)
    PROVE  /\ waiters' \in Seq(AsyncCallers)
           /\ \A k \in DOMAIN waiters' : \E j \in DOMAIN waiters : waiters'[k] = waiters[j]
<1>1. PICK i \in DOMAIN waiters : waiters' = SubSeq(waiters, 1, i - 1) \o SubSeq(waiters, i + 1, Len(waiters))
    BY DEF Limiter!Unregister, Limiter!RemoveAt
<1> DEFINE a == SubSeq(waiters, 1, i - 1)
           b == SubSeq(waiters, i + 1, Len(waiters))
<1>2. waiters \in Seq(AsyncCallers) /\ DOMAIN waiters = 1 .. Len(waiters) /\ Len(waiters) \in Nat
    BY LenProperties DEF Limiter!TypeOK
<1>3. \A k \in DOMAIN waiters : waiters[k] \in AsyncCallers
    BY <1>2
<1>4. i \in 1 .. Len(waiters) /\ i - 1 \in Nat /\ i - 1 <= Len(waiters)
    BY <1>2
<1>5. a \in Seq(AsyncCallers) /\ Len(a) = i - 1 /\ \A k \in 1 .. i - 1 : a[k] = waiters[k]
    <2>1. \A k \in 1 .. i - 1 : waiters[k] \in AsyncCallers
        BY <1>2, <1>3, <1>4
    <2> QED
        BY <1>4, <2>1, SubSeqProperties
<1>6. b \in Seq(AsyncCallers) /\ Len(b) = Len(waiters) - i
      /\ \A k \in 1 .. Len(waiters) - i : b[k] = waiters[i + k]
    <2>1. \A k \in i + 1 .. Len(waiters) : waiters[k] \in AsyncCallers
        BY <1>2, <1>3, <1>4
    <2> QED
        BY <1>2, <1>4, <2>1, SubSeqProperties
<1>7. waiters' = a \o b
    BY <1>1
<1> HIDE DEF a, b
<1>8. /\ waiters' \in Seq(AsyncCallers) /\ Len(waiters') = Len(a) + Len(b)
      /\ \A k \in 1 .. Len(a) + Len(b) : waiters'[k] = IF k <= Len(a) THEN a[k] ELSE b[k - Len(a)]
    BY <1>5, <1>6, <1>7, ConcatProperties
<1>9. ASSUME NEW k \in DOMAIN waiters' PROVE \E j \in DOMAIN waiters : waiters'[k] = waiters[j]
    <2>1. k \in 1 .. Len(a) + Len(b)
        BY <1>8, LenProperties
    <2>2. CASE k <= Len(a)
        <3>1. k \in 1 .. i - 1 /\ k \in DOMAIN waiters
            BY <1>2, <1>4, <1>5, <2>1, <2>2
        <3> QED
            BY <1>5, <1>8, <2>1, <2>2, <3>1
    <2>3. CASE ~(k <= Len(a))
        <3>1. k - Len(a) \in 1 .. Len(waiters) - i /\ k + 1 \in DOMAIN waiters /\ i + (k - Len(a)) = k + 1
            BY SMTT(30), <1>2, <1>4, <1>5, <1>6, <2>1, <2>3
        <3> QED
            BY <1>6, <1>8, <2>1, <2>3, <3>1
    <2> QED
        BY <2>2, <2>3
<1> QED
    BY <1>8, <1>9
-----------------------------------------------------------------------------
LEMMA LimiterInit ==
    ASSUME Limiter!LimiterAssumption, Limiter!Init
    PROVE  LimiterInvariant
<1>1. Limiter!Holders = {} /\ Limiter!Live = {}
    BY DEF Limiter!Init, Limiter!Holders, Limiter!Live
<1>2. Limiter!TypeOK
    BY DEF Limiter!Init, Limiter!TypeOK, Limiter!LimiterAssumption
<1>3. Limiter!PermitsAccounted
    BY <1>1, FS_EmptySet, LimiterFinite DEF Limiter!PermitsAccounted, Limiter!Init
<1>4. Limiter!NoLostPermit /\ SleepersSleep
    BY <1>1 DEF Limiter!NoLostPermit, SleepersSleep, Limiter!Init
<1> QED
    BY <1>2, <1>3, <1>4 DEF LimiterInvariant

LEMMA LimiterNext ==
    ASSUME Limiter!LimiterAssumption, LimiterInvariant, [Limiter!Next]_(Limiter!vars)
    PROVE  LimiterInvariant'
<1>1. CASE UNCHANGED Limiter!vars
    BY <1>1 DEF LimiterInvariant, Limiter!TypeOK, Limiter!PermitsAccounted, Limiter!NoLostPermit,
                SleepersSleep, Limiter!Holders, Limiter!Live, Limiter!vars
<1>2. ASSUME NEW c \in Limiter!Callers, Limiter!Acquire(c) PROVE LimiterInvariant'
    <2>1. CASE inFlight < Permits
        BY <1>2, <2>1, PermitTaken DEF Limiter!Acquire
    <2>2. CASE ~(inFlight < Permits)
        BY <1>2, <2>2, PermitAwaited DEF Limiter!Acquire
    <2> QED
        BY <2>1, <2>2
<1>3. ASSUME NEW c \in Limiter!Callers, Limiter!Release(c) PROVE LimiterInvariant'
    BY <1>3, PlaceTells, PermitGivenUp DEF Limiter!Release
<1>4. ASSUME NEW c \in Limiter!Callers, Limiter!Wake(c) PROVE LimiterInvariant'
    <2>1. waiters' = waiters /\ waiters \in Seq(AsyncCallers)
        BY <1>4 DEF Limiter!Wake, LimiterInvariant, Limiter!TypeOK
    <2>2. "running" \in Places \ {"queued", "notified"} /\ pc[c] \notin {"asleep", "notified"}
          /\ c \in Limiter!Holders
        BY <1>4, PlaceTells DEF Limiter!Wake, Places
    <2> QED
        BY <1>4, <2>1, <2>2, PermitsUnmoved DEF Limiter!Wake
<1>5. ASSUME NEW c \in Limiter!Callers, Limiter!Cancel(c) PROVE LimiterInvariant'
    <2>1. CASE pc[c] = "granted" /\ Limiter!GiveUp(c)
        BY <2>1, PlaceTells, PermitGivenUp
    <2>2. CASE pc[c] = "queued" /\ Limiter!Unregister(c) /\ pc' = [pc EXCEPT ![c] = "idle"]
               /\ UNCHANGED <<inFlight, sleepers>>
        <3>1. "idle" \in Places \ {"queued", "notified"} /\ pc[c] \notin {"asleep", "notified"}
              /\ c \notin Limiter!Holders
            BY <2>2, PlaceTells DEF Places
        <3>2. Limiter!TypeOK
            BY DEF LimiterInvariant
        <3> QED
            BY <2>2, <3>1, <3>2, UnregisterShrinks, PermitsUnmoved
    <2> QED
        BY <1>5, <2>1, <2>2 DEF Limiter!Cancel
<1>6. ASSUME NEW c \in Limiter!Callers, Limiter!LoopCloses(c) PROVE LimiterInvariant'
    <2>1. waiters' = waiters /\ waiters \in Seq(AsyncCallers)
        BY <1>6 DEF Limiter!LoopCloses, LimiterInvariant, Limiter!TypeOK
    <2>2. "dead" \in Places \ {"queued", "notified"} /\ pc[c] \notin {"asleep", "notified"}
          /\ c \notin Limiter!Holders
        BY <1>6, PlaceTells DEF Limiter!LoopCloses, Places
    <2> QED
        BY <1>6, <2>1, <2>2, PermitsUnmoved DEF Limiter!LoopCloses
<1> QED
    BY <1>1, <1>2, <1>3, <1>4, <1>5, <1>6 DEF Limiter!Next

(* The limiter keeps its counter within the cap, and its list of sleeping    *)
(* threads holds each sleeping thread once (_ProcessWideLimiter).            *)
THEOREM LimiterIsInvariant == Limiter!LimiterAssumption => (Limiter!Spec => []LimiterInvariant)
<1> SUFFICES ASSUME Limiter!LimiterAssumption PROVE Limiter!Spec => []LimiterInvariant
    OBVIOUS
<1>1. Limiter!Init => LimiterInvariant
    BY LimiterInit
<1>2. LimiterInvariant /\ [Limiter!Next]_(Limiter!vars) => LimiterInvariant'
    BY LimiterNext
<1> QED
    BY <1>1, <1>2, PTL DEF Limiter!Spec

(* No permit leaks or multiplies, whatever the number of callers and         *)
(* whichever of them is cancelled when (acquire_async, release).             *)
THEOREM PermitsKept == Limiter!LimiterAssumption => (Limiter!Spec => []Limiter!PermitsAccounted)
<1> SUFFICES ASSUME Limiter!LimiterAssumption PROVE Limiter!Spec => []Limiter!PermitsAccounted
    OBVIOUS
<1>1. LimiterInvariant => Limiter!PermitsAccounted
    BY DEF LimiterInvariant
<1> QED
    BY <1>1, LimiterIsInvariant, PTL

(* Nobody waits beside a free permit that no woken thread is about to take   *)
(* (release, _handoff_granted_permit_locked).                                *)
THEOREM PermitsFound == Limiter!LimiterAssumption => (Limiter!Spec => []Limiter!NoLostPermit)
<1> SUFFICES ASSUME Limiter!LimiterAssumption PROVE Limiter!Spec => []Limiter!NoLostPermit
    OBVIOUS
<1>1. LimiterInvariant => Limiter!NoLostPermit
    BY DEF LimiterInvariant
<1> QED
    BY <1>1, LimiterIsInvariant, PTL

-----------------------------------------------------------------------------
(* The Redis stream bridge: a subscriber skips no event that it is owed, and*)
(* END never cuts off a tail.                                               *)

(* A retained entry, and a consumer, with ids that are not bounded.          *)
Kept == [id : Nat, end : BOOLEAN]

Reader ==
    [pc       : {"new", "missing", "recheck", "purge", "reading", "waiting", "beat", "confirm",
                 "end", "gap"},
     waits    : BOOLEAN, cursor : Nat, detect : BOOLEAN, observed : BOOLEAN, expired : BOOLEAN,
     pending  : Seq(Kept), from : Nat, beats : 0 .. 2, before : SUBSET Consumers]

RedisTypes ==
    /\ tracked \in BOOLEAN /\ active \in BOOLEAN /\ prod \in Redis!Producer
    /\ cons \in [Consumers -> Reader] /\ got \in [Consumers -> SUBSET Nat]

(* The retained entries are consecutive, up to the last id handed out, and   *)
(* END is the one that is no event.                                          *)
LogFits ==
    /\ lastId \in Nat /\ log \in Seq(Kept) /\ Len(log) <= lastId
    /\ \A i \in 1 .. Len(log) : /\ log[i].id = lastId - Len(log) + i
                                /\ log[i].end <=> log[i].id \notin events
    /\ \A e \in events : e \in 1 .. lastId

Producing == {"running", "tail"}
Starting  == {"new", "claimed"}

(* A producer under way has not ended the stream, and finds it unless it is  *)
(* new; a stream that was cleaned up stays away.                             *)
ProducerFits ==
    /\ prod.pc \in Starting => ~prod.leased /\ lastId = 0 /\ ~Redis!Exists /\ row = "active"
    /\ prod.lease = "held" \/ tracked => prod.leased
    /\ prod.leased => prod.pc \notin Starting
    /\ prod.pc \in Producing /\ prod.leased => prod.lease \in {"held", "lost"}
    /\ Redis!TailIsEnd \/ (lastId > 0 /\ ~Redis!Exists) => prod.pc \notin Producing
    /\ recovery # "idle" => prod.pc \in {"fenced", "finished", "gone"}
    /\ recovery = "purge" => ~Redis!Exists

(* What a subscriber u that has received g holds: every event from the first *)
(* it was owed up to where it stands.  What it holds back begins there.      *)
SubscriberFits(u, g) ==
    /\ u.cursor <= lastId /\ u.from <= lastId + 1
    /\ u.pc # "gap" => \A e \in events : u.from # 0 /\ e \in u.from .. u.cursor => e \in g
    /\ u.pc \notin {"end", "gap"} =>
          /\ u.cursor # 0 => u.from # 0
          /\ u.cursor = 0 /\ u.from # 0 => u.pending # <<>>
          /\ u.pc # "new" => (u.detect <=> u.cursor # 0) /\ (u.observed => u.cursor # 0)
    /\ u.pc \in {"missing", "recheck", "purge"} => ~u.observed
    /\ u.pc = "end" => u.from # 0
    /\ u.pending # <<>> =>
          /\ u.pc = "reading" /\ u.cursor = 0 /\ u.from # 0 /\ u.from + Len(u.pending) <= lastId + 1
          /\ \A i \in 1 .. Len(u.pending) : /\ u.pending[i].id = u.from + i - 1
                                            /\ u.pending[i].end <=> u.pending[i].id \notin events
          /\ u.pending[Len(u.pending)].end => prod.pc \notin Producing \cup Starting

(* It has every event from the first one it is owed on, if it saw a stream.  *)
HasAll(u, g)  == \A e \in events : e >= Redis!Owed(u) => e \in g
Settled(u, g) == u.waits \/ (u.observed \/ Redis!Exists => HasAll(u, g))

(* A check under way finds nothing unread.                                   *)
Calm(u, g) ==
    /\ u.pc = "beat" => Settled(u, g)
    /\ u.pc = "missing" => ~Redis!Exists

Counting == prod.pc = "finished" \/ recovery = "clean"

(* What a consumer knows of a producer that held a lease.                    *)
WatchFits(u, g) ==
    /\ u.pc \in {"recheck", "purge"} \/ u.expired => prod.leased /\ ~active
    /\ u.pc = "purge" => ~Redis!Exists
    /\ u.pc = "confirm" => u.expired
    /\ prod.pc \in Starting => u.pc \in {"new", "reading", "waiting", "beat"}
    /\ u.pc \in {"beat", "confirm"} /\ u.expired => u.before = {} /\ Settled(u, g)
    /\ /\ prod.leased /\ Counting /\ u.pc \notin {"new", "end", "gap"}
       /\ u.beats = 2 \/ (u.beats = 1 /\ u.pc = "beat")
       => Settled(u, g)
    /\ prod.leased /\ ~Redis!Exists /\ lastId > 0 /\ u.pc \notin {"new", "gap"} => Settled(u, g)
    /\ prod.leased /\ u.pc = "end" /\ ~u.waits => HasAll(u, g)

ConsumersFit ==
    \A c \in Consumers : /\ WatchFits(cons[c], got[c])
                         /\ ~cons[c].waits => SubscriberFits(cons[c], got[c])

(* A check that began before the producer was seen expired, or before its    *)
(* tracking key went, is over or finds nothing unread.                       *)
ExpiryIsSeen ==
    \A c \in Consumers : cons[c].expired /\ cons[c].pc # "end" =>
        \A d \in Consumers \ {c} : d \in cons[c].before \/ Calm(cons[d], got[d])

UntrackedIsCalm == prod.leased /\ ~tracked => \A c \in Consumers : Calm(cons[c], got[c])

(* A stream that some subscriber saw end gets no more events.                *)
Frozen == prod.pc \notin Producing \/ prod.lease # "held" \/ ~active \/ ~tracked

EndIsFrozen ==
    prod.leased /\ (\E c \in Consumers : cons[c].pc = "end" /\ ~cons[c].waits) => Frozen

RedisInvariant ==
    /\ RedisTypes /\ LogFits /\ ProducerFits /\ ConsumersFit
    /\ ExpiryIsSeen /\ UntrackedIsCalm /\ EndIsFrozen

-----------------------------------------------------------------------------
(* The log.                                                                  *)

(* The fields of a consumer have their types.                                *)
LEMMA RedisReader ==
    ASSUME NEW u \in Reader
    PROVE  /\ u.waits \in BOOLEAN /\ u.cursor \in Nat /\ u.detect \in BOOLEAN /\ u.observed \in BOOLEAN
           /\ u.expired \in BOOLEAN /\ u.pending \in Seq(Kept) /\ u.from \in Nat /\ u.beats \in 0 .. 2
           /\ u.before \subseteq Consumers
           /\ u.pc \in {"new", "missing", "recheck", "purge", "reading", "waiting", "beat", "confirm", "end",
                          "gap"}
BY DEF Reader

(* The ends of the log.                                                      *)
LEMMA RedisEnds ==
    ASSUME LogFits
    PROVE  /\ Len(log) \in Nat /\ (Redis!Exists <=> Len(log) > 0)
           /\ Redis!Exists =>
                /\ Head(log) = log[1] /\ Head(log).id = lastId - Len(log) + 1
                /\ Redis!Last(log) = log[Len(log)] /\ Redis!Last(log).id = lastId
                /\ Head(log).id \in 1 .. lastId
<1>1. Len(log) \in Nat /\ (Redis!Exists <=> Len(log) > 0)
  BY EmptySeq DEF LogFits, Redis!Exists
<1>2. ASSUME Redis!Exists
      PROVE  /\ Head(log) = log[1] /\ Head(log).id = lastId - Len(log) + 1
             /\ Redis!Last(log) = log[Len(log)] /\ Redis!Last(log).id = lastId
  BY <1>1, <1>2 DEF LogFits, Redis!Exists, Redis!Last
<1>3. ASSUME Redis!Exists PROVE Head(log).id \in 1 .. lastId
  BY <1>1, <1>2, <1>3 DEF LogFits
<1> QED BY <1>1, <1>2, <1>3

(* What XREAD returns: everything after the cursor.                          *)
LEMMA RedisAfter ==
    ASSUME LogFits, NEW cursor \in Nat
    PROVE  /\ Redis!After(cursor) \in Seq(Kept)
           /\ Redis!After(cursor) = <<>> <=> ~Redis!Exists \/ cursor >= lastId
           /\ Redis!After(cursor) # <<>> => Redis!Last(Redis!After(cursor)) = Redis!Last(log)
           /\ \A j \in 1 .. Len(log) : log[j].id > cursor
                => \E i \in 1 .. Len(Redis!After(cursor)) : Redis!After(cursor)[i] = log[j]
           /\ cursor = 0 => Redis!After(cursor) = log
<1> DEFINE later == {i \in DOMAIN log : log[i].id > cursor}
<1>1. Len(log) \in Nat /\ DOMAIN log = 1 .. Len(log) /\ log \in Seq(Kept) /\ (Redis!Exists <=> Len(log) > 0)
      /\ lastId \in Nat /\ Len(log) <= lastId
  BY RedisEnds DEF LogFits
<1>2. \A i \in 1 .. Len(log) : log[i].id = lastId - Len(log) + i
  BY DEF LogFits
<1>3. later = {} <=> ~Redis!Exists \/ cursor >= lastId
  <2>1. CASE Redis!Exists /\ cursor < lastId
    <3>1. Len(log) \in 1 .. Len(log) /\ log[Len(log)].id = lastId
      BY <1>1, <1>2, <2>1
    <3> QED BY <1>1, <2>1, <3>1
  <2>2. CASE ~(Redis!Exists /\ cursor < lastId)
    <3>1. \A i \in 1 .. Len(log) : ~(log[i].id > cursor)
      BY <1>1, <1>2, <2>2
    <3> QED BY <1>1, <2>2, <3>1
  <2> QED BY <1>1, <2>1, <2>2
<1>4. CASE later = {}
  <2>1. Redis!After(cursor) = <<>>
    BY <1>4 DEF Redis!After
  <2>2. cursor = 0 => log = <<>>
    BY <1>1, <1>3, <1>4 DEF Redis!Exists
  <2> QED BY <1>1, <1>3, <1>4, <2>1, <2>2, EmptySeq
<1>5. CASE later # {}
  <2> DEFINE m == IF cursor <= lastId - Len(log) THEN 1 ELSE cursor - (lastId - Len(log)) + 1
  <2>1. Redis!Exists /\ cursor < lastId
    BY <1>1, <1>3, <1>5
  <2>2. m \in 1 .. Len(log) /\ (\A i \in 1 .. Len(log) : log[i].id > cursor <=> i >= m)
    BY <1>1, <1>2, <2>1
  <2>3. m \in later /\ \A i \in later : m <= i
    BY <1>1, <2>2
  <2>4. Redis!Min(later) = m
    BY <1>1, <2>2, <2>3 DEF Redis!Min
  <2>5. Redis!After(cursor) = SubSeq(log, m, Len(log))
    BY <1>5, <2>4 DEF Redis!After
  <2> HIDE DEF m
  <2>6. /\ Redis!After(cursor) \in Seq(Kept) /\ Len(Redis!After(cursor)) = Len(log) - m + 1
        /\ \A i \in 1 .. Len(log) - m + 1 : Redis!After(cursor)[i] = log[m + i - 1]
    BY <1>1, <2>2, <2>5, SubSeqProperties
  <2>7. Redis!After(cursor) # <<>> /\ Redis!Last(Redis!After(cursor)) = Redis!Last(log)
    <3>1. Len(Redis!After(cursor)) \in 1 .. Len(log) - m + 1 /\ m + Len(Redis!After(cursor)) - 1 = Len(log)
      BY <1>1, <2>2, <2>6
    <3>2. Redis!After(cursor)[Len(Redis!After(cursor))] = log[Len(log)]
      BY <2>6, <3>1
    <3>3. Redis!After(cursor) # <<>>
      BY <1>1, <2>2, <2>6, EmptySeq
    <3> QED BY <3>2, <3>3 DEF Redis!Last
  <2>8. ASSUME NEW j \in 1 .. Len(log), log[j].id > cursor
        PROVE  \E i \in 1 .. Len(Redis!After(cursor)) : Redis!After(cursor)[i] = log[j]
    <3>1. j >= m /\ j - m + 1 \in 1 .. Len(Redis!After(cursor)) /\ m + (j - m + 1) - 1 = j
      BY <1>1, <2>2, <2>6, <2>8
    <3> QED BY <1>1, <2>2, <2>6, <3>1
  <2>9. ASSUME cursor = 0 PROVE Redis!After(cursor) = log
    <3>1. m = 1
      BY <1>1, <2>9 DEF m
    <3> QED BY <1>1, <2>5, <3>1, SubSeqFull
  <2> QED BY <1>1, <2>1, <2>6, <2>7, <2>8, <2>9
<1> QED BY <1>4, <1>5

(* An append keeps the log what it is.                                       *)
LEMMA RedisXadd ==
    ASSUME Redis!RedisAssumption, LogFits, NEW end \in BOOLEAN, Redis!Xadd(end)
    PROVE  /\ LogFits' /\ Redis!Exists' /\ lastId' = lastId + 1 /\ (Redis!TailIsEnd' <=> end)
           /\ events' = (IF end THEN events ELSE events \cup {lastId + 1})
           /\ Redis!Exists => Head(log)'.id >= Head(log).id
           /\ ~Redis!Exists => Head(log)'.id = lastId + 1
<1> DEFINE e == [id |-> lastId + 1, end |-> end]
           a == Append(log, e)
           n == IF end THEN MaxLen + 1 ELSE MaxLen
<1>1. Len(log) \in Nat /\ log \in Seq(Kept) /\ (Redis!Exists <=> Len(log) > 0) /\ lastId \in Nat
      /\ Len(log) <= lastId
      /\ \A i \in 1 .. Len(log) : log[i].id = lastId - Len(log) + i /\ (log[i].end <=> log[i].id \notin events)
  BY RedisEnds DEF LogFits
<1>2. lastId' = lastId + 1 /\ log' = Redis!Retain(a, n)
      /\ events' = IF end THEN events ELSE events \cup {lastId + 1}
  BY DEF Redis!Xadd
<1>3. \A d \in events : d \in 1 .. lastId
  BY DEF LogFits
<1>4. e \in Kept /\ e.id = lastId + 1 /\ e.end = end /\ n \in Nat \ {0}
  BY <1>1 DEF Kept, Redis!RedisAssumption
<1>5. /\ a \in Seq(Kept) /\ Len(a) = Len(log) + 1 /\ a[Len(log) + 1] = e
      /\ \A i \in 1 .. Len(log) : a[i] = log[i]
  BY <1>1, <1>4
<1>6. \A i \in 1 .. Len(a) : /\ a[i].id = lastId + 1 - Len(a) + i
                             /\ a[i].end <=> a[i].id \notin events'
  <2> TAKE i \in 1 .. Len(a)
  <2>1. CASE i = Len(log) + 1
    BY <1>1, <1>2, <1>3, <1>4, <1>5, <2>1
  <2>2. CASE i \in 1 .. Len(log)
    <3>1. a[i].id = lastId - Len(log) + i /\ (a[i].end <=> a[i].id \notin events)
      BY <1>1, <1>5, <2>2
    <3>2. a[i].id # lastId + 1
      BY <1>1, <2>2, <3>1
    <3> QED BY <1>1, <1>2, <1>5, <3>1, <3>2
  <2> QED BY <1>1, <1>5, <2>1, <2>2
<1> HIDE DEF e, a, n
<1> DEFINE m == IF Len(a) > n THEN Len(a) - n + 1 ELSE 1
<1>7. m \in 1 .. Len(a)
  BY <1>1, <1>4, <1>5
<1>8. log' = SubSeq(a, m, Len(a))
  BY <1>2, <1>4, <1>5, SubSeqFull DEF Redis!Retain
<1> HIDE DEF m
<1>9. /\ log' \in Seq(Kept) /\ Len(log') = Len(a) - m + 1
      /\ \A i \in 1 .. Len(log') : log'[i] = a[m + i - 1]
  BY <1>1, <1>5, <1>7, <1>8, SubSeqProperties
<1>10. \A i \in 1 .. Len(log') : m + i - 1 \in 1 .. Len(a)
  BY <1>1, <1>5, <1>7, <1>9
<1>11. \A i \in 1 .. Len(log') : log'[i].id = lastId' - Len(log') + i
       /\ (log'[i].end <=> log'[i].id \notin events')
  <2> SUFFICES ASSUME NEW i \in 1 .. Len(log')
               PROVE  log'[i].id = lastId' - Len(log') + i /\ (log'[i].end <=> log'[i].id \notin events')
    OBVIOUS
  <2>1. log'[i] = a[m + i - 1] /\ m + i - 1 \in 1 .. Len(a)
    BY <1>9, <1>10
  <2>2. a[m + i - 1].id = lastId + 1 - Len(a) + (m + i - 1)
    BY <1>6, <2>1
  <2>3. a[m + i - 1].end <=> a[m + i - 1].id \notin events'
    BY <1>6, <2>1
  <2>4. lastId + 1 - Len(a) + (m + i - 1) = lastId' - Len(log') + i
    BY <1>1, <1>2, <1>5, <1>7, <1>9
  <2> QED BY <2>1, <2>2, <2>3, <2>4
<1>12. \A d \in events' : d \in 1 .. lastId'
  BY <1>1, <1>2, <1>3
<1>13. LogFits'
  BY <1>1, <1>2, <1>5, <1>7, <1>9, <1>11, <1>12 DEF LogFits
<1>14. Redis!Exists' /\ Head(log)'.id = lastId' - Len(log') + 1 /\ Redis!Last(log)' = log'[Len(log')]
  <2>1. Len(log') > 0
    BY <1>1, <1>5, <1>7, <1>9
  <2> QED BY <1>9, <1>11, <2>1, EmptySeq DEF Redis!Exists, Redis!Last
<1>15. Redis!Last(log)'.end = end
  <2>1. Len(log') \in 1 .. Len(log') /\ m + Len(log') - 1 = Len(log) + 1
    BY <1>1, <1>5, <1>7, <1>9
  <2> QED BY <1>4, <1>5, <1>9, <1>14, <2>1
<1>16. Redis!Exists => Head(log)'.id >= Head(log).id
  BY <1>1, <1>2, <1>5, <1>7, <1>9, <1>14, RedisEnds
<1>17. ~Redis!Exists => Head(log)'.id = lastId + 1
  BY <1>1, <1>2, <1>5, <1>7, <1>9, <1>14
<1> QED BY <1>2, <1>13, <1>14, <1>15, <1>16, <1>17 DEF Redis!TailIsEnd
-----------------------------------------------------------------------------
(* The subscriber.                                                           *)

(* The last entry retained is END unless it is an event.                     *)
LEMMA RedisTail ==
    ASSUME LogFits, Redis!Exists
    PROVE  /\ Redis!TailIsEnd <=> lastId \notin events
           /\ \A e \in events : e >= Head(log).id =>
                 \E j \in 1 .. Len(log) : log[j].id = e /\ ~log[j].end
<1>1. Len(log) \in Nat \ {0} /\ lastId \in Nat /\ Redis!Last(log) = log[Len(log)]
      /\ Head(log).id = lastId - Len(log) + 1
      /\ Redis!Last(log).id = lastId
  BY RedisEnds DEF LogFits
<1>2. Redis!TailIsEnd <=> lastId \notin events
  <2>1. Len(log) \in 1 .. Len(log)
    BY <1>1
  <2>2. log[Len(log)].end <=> log[Len(log)].id \notin events
    BY <2>1 DEF LogFits
  <2> QED BY <1>1, <2>2 DEF Redis!TailIsEnd
<1>3. ASSUME NEW e \in events, e >= Head(log).id
      PROVE  \E j \in 1 .. Len(log) : log[j].id = e /\ ~log[j].end
  <2>1. e \in 1 .. lastId
    BY DEF LogFits
  <2> DEFINE j == e - lastId + Len(log)
  <2>2. j \in 1 .. Len(log) /\ lastId - Len(log) + j = e
    BY <1>1, <1>3, <2>1
  <2>3. log[j].id = lastId - Len(log) + j /\ (log[j].end <=> log[j].id \notin events)
    BY <2>2 DEF LogFits
  <2> QED BY <2>2, <2>3
<1> QED BY <1>2, <1>3

(* A subscriber that stands at the end of the log has everything.            *)
LEMMA RedisCaughtUp ==
    ASSUME LogFits, NEW u \in Reader, NEW g, SubscriberFits(u, g), u.pc \notin {"end", "gap"},
           Redis!Exists, u.cursor >= lastId
    PROVE  u.from # 0 /\ u.cursor = lastId /\ u.cursor # 0 /\ HasAll(u, g)
<1>1. u.cursor \in Nat /\ u.from \in Nat /\ lastId \in Nat /\ lastId > 0
  BY RedisReader, RedisEnds DEF LogFits
<1>2. u.cursor = lastId /\ u.cursor # 0 /\ u.from # 0
  BY <1>1 DEF SubscriberFits
<1>3. Redis!Owed(u) = u.from
  BY <1>2 DEF Redis!Owed
<1>4. ASSUME NEW e \in events, e >= u.from PROVE e \in g
  <2>1. e \in 1 .. lastId
    BY DEF LogFits
  <2>2. e \in u.from .. u.cursor
    BY <1>1, <1>2, <1>4, <2>1
  <2> QED BY <1>2, <2>2 DEF SubscriberFits
<1> QED BY <1>2, <1>3, <1>4 DEF HasAll

(* Where an owed entry is: what a subscriber is owed is positive, and it has *)
(* nothing behind it.                                                        *)
LEMMA RedisOwed ==
    ASSUME LogFits, NEW u \in Reader
    PROVE  /\ Redis!Owed(u) \in Nat \ {0}
           /\ u.from <= lastId + 1 => Redis!Owed(u) <= lastId + 1
           /\ Redis!Exists \/ u.from # 0 \/ Redis!Owed(u) = lastId + 1
<1>1. u.from \in Nat /\ lastId \in Nat
  BY RedisReader DEF LogFits
<1>2. Redis!Exists => Head(log).id \in 1 .. lastId
  BY RedisEnds
<1>3. CASE u.from # 0
  BY <1>1, <1>3 DEF Redis!Owed
<1>4. CASE u.from = 0 /\ Redis!Exists
  <2>1. Redis!Owed(u) = Head(log).id
    BY <1>4 DEF Redis!Owed
  <2> QED BY <1>1, <1>2, <1>4, <2>1
<1>5. CASE u.from = 0 /\ ~Redis!Exists
  <2>1. Redis!Owed(u) = lastId + 1
    BY <1>5 DEF Redis!Owed
  <2> QED BY <1>1, <2>1
<1> QED BY <1>3, <1>4, <1>5

(* The last entry of a concatenation.                                        *)
LEMMA RedisLast ==
    ASSUME NEW s \in Seq(Kept), NEW t \in Seq(Kept)
    PROVE  /\ s \o t \in Seq(Kept)
           /\ \A i \in 1 .. Len(s) : \E k \in 1 .. Len(s \o t) : (s \o t)[k] = s[i]
           /\ \A i \in 1 .. Len(t) : \E k \in 1 .. Len(s \o t) : (s \o t)[k] = t[i]
           /\ t # <<>> => Redis!Last(s \o t) = Redis!Last(t)
           /\ t = <<>> => s \o t = s
           /\ s \o t # <<>> => Redis!Last(s \o t) \in Kept /\ (s # <<>> \/ t # <<>>)
<1>1. /\ s \o t \in Seq(Kept) /\ Len(s \o t) = Len(s) + Len(t) /\ Len(s) \in Nat /\ Len(t) \in Nat
      /\ \A i \in 1 .. Len(s) + Len(t) : (s \o t)[i] = IF i <= Len(s) THEN s[i] ELSE t[i - Len(s)]
  BY ConcatProperties
<1>2. ASSUME NEW i \in 1 .. Len(s) PROVE \E k \in 1 .. Len(s \o t) : (s \o t)[k] = s[i]
  <2>1. i \in 1 .. Len(s) + Len(t) /\ i <= Len(s)
    BY <1>1
  <2> QED BY <1>1, <2>1
<1>3. ASSUME NEW i \in 1 .. Len(t) PROVE \E k \in 1 .. Len(s \o t) : (s \o t)[k] = t[i]
  <2>1. Len(s) + i \in 1 .. Len(s) + Len(t) /\ ~(Len(s) + i <= Len(s)) /\ Len(s) + i - Len(s) = i
    BY <1>1
  <2>2. (s \o t)[Len(s) + i] = t[i]
    <3>1. (s \o t)[Len(s) + i] = t[Len(s) + i - Len(s)]
      BY <1>1, <2>1
    <3> QED BY <2>1, <3>1
  <2> QED BY <1>1, <2>1, <2>2
<1>4. ASSUME t # <<>> PROVE Redis!Last(s \o t) = Redis!Last(t)
  <2>1. Len(t) > 0
    BY <1>1, <1>4, EmptySeq
  <2>2. Len(s) + Len(t) \in 1 .. Len(s) + Len(t) /\ ~(Len(s) + Len(t) <= Len(s))
        /\ Len(s) + Len(t) - Len(s) = Len(t)
    BY <1>1, <2>1
  <2> QED BY <1>1, <2>2 DEF Redis!Last
<1>5. t = <<>> => s \o t = s
  BY ConcatEmptySeq
<1>6. ASSUME s \o t # <<>> PROVE Redis!Last(s \o t) \in Kept /\ (s # <<>> \/ t # <<>>)
  <2>1. Len(s \o t) \in 1 .. Len(s \o t)
    BY <1>1, <1>6, EmptySeq
  <2>2. s # <<>> \/ t # <<>>
    BY <1>1, <2>1, EmptySeq
  <2> QED BY <1>1, <2>1, <2>2, ElementOfSeq DEF Redis!Last
<1> QED BY <1>1, <1>2, <1>3, <1>4, <1>5, <1>6

(* What a snapshot is compared with is an id.                                *)
LEMMA RedisBase ==
    ASSUME NEW u \in Reader
    PROVE  /\ Redis!Base(u) \in Nat
           /\ u.pending # <<>> => /\ Len(u.pending) \in Nat \ {0} /\ Redis!Last(u.pending) \in Kept
                                  /\ Redis!Last(u.pending) = u.pending[Len(u.pending)]
<1>1. u.cursor \in Nat /\ u.pending \in Seq(Kept)
  BY RedisReader
<1>2. ASSUME u.pending # <<>>
      PROVE  /\ Len(u.pending) \in Nat \ {0} /\ Redis!Last(u.pending) \in Kept
             /\ Redis!Last(u.pending) = u.pending[Len(u.pending)]
  BY <1>1, <1>2, EmptySeq, ElementOfSeq DEF Redis!Last
<1>3. ASSUME u.pending # <<>> PROVE Redis!Last(u.pending).id \in Nat
  BY <1>2, <1>3 DEF Kept
<1> QED BY <1>1, <1>2, <1>3 DEF Redis!Base

(* An owed event is among the entries of a sequence that shows it.           *)
LEMMA RedisShown ==
    ASSUME NEW s \in Seq(Kept), NEW i \in 1 .. Len(s), ~s[i].end
    PROVE  s[i].id \in Redis!EventIds(s)
<1>1. i \in DOMAIN s
  BY LenProperties
<1>2. s[i] \in Redis!ToSet(s)
  BY <1>1 DEF Redis!ToSet
<1> QED BY <1>2 DEF Redis!EventIds

(* A snapshot that does not fall behind ends where the log ends, and has     *)
(* every event that the subscriber is owed and has not got.                  *)
LEMMA RedisSnapshot ==
    ASSUME LogFits, NEW u \in Reader, NEW g, SubscriberFits(u, g), u.pc = "reading", ~Redis!FellBehind(u),
           u.pending \o Redis!After(Redis!Base(u)) # <<>>
    PROVE  /\ Redis!Exists
           /\ Redis!Last(u.pending \o Redis!After(Redis!Base(u))).id = lastId
           /\ Redis!Last(u.pending \o Redis!After(Redis!Base(u))).end <=> Redis!TailIsEnd
           /\ \A e \in events : e >= Redis!Owed(u)
                => e \in g \cup Redis!EventIds(u.pending \o Redis!After(Redis!Base(u)))
<1> DEFINE s == u.pending
           t == Redis!After(Redis!Base(u))
<1>1. u.cursor \in Nat /\ u.from \in Nat /\ s \in Seq(Kept) /\ lastId \in Nat /\ Redis!Base(u) \in Nat
      /\ u.detect \in BOOLEAN
  BY RedisReader, RedisBase DEF LogFits
<1>2. /\ t \in Seq(Kept)
      /\ t = <<>> <=> ~Redis!Exists \/ Redis!Base(u) >= lastId
      /\ t # <<>> => Redis!Last(t) = Redis!Last(log)
      /\ \A j \in 1 .. Len(log) : log[j].id > Redis!Base(u) => \E i \in 1 .. Len(t) : t[i] = log[j]
      /\ Redis!Base(u) = 0 => t = log
  BY <1>1, RedisAfter
<1>3. s # <<>> => /\ Len(s) \in Nat \ {0} /\ Redis!Last(s) = s[Len(s)] /\ Redis!Last(s) \in Kept
                  /\ u.cursor = 0 /\ u.from # 0 /\ u.from + Len(s) <= lastId + 1
                  /\ \A i \in 1 .. Len(s) : s[i].id = u.from + i - 1 /\ (s[i].end <=> s[i].id \notin events)
                  /\ Redis!Base(u) = Redis!Last(s).id
  BY <1>1, RedisBase DEF SubscriberFits, Redis!Base
<1>4. ASSUME s # <<>> PROVE Redis!Base(u) = u.from + Len(s) - 1 /\ Redis!Base(u) <= lastId
  <2>1. Len(s) \in 1 .. Len(s)
    BY <1>3, <1>4
  <2>2. s[Len(s)].id = u.from + Len(s) - 1
    BY <1>3, <1>4, <2>1
  <2> QED BY <1>1, <1>3, <1>4, <2>2
<1> HIDE DEF s, t
<1>5. /\ s \o t \in Seq(Kept)
      /\ \A i \in 1 .. Len(s) : \E k \in 1 .. Len(s \o t) : (s \o t)[k] = s[i]
      /\ \A i \in 1 .. Len(t) : \E k \in 1 .. Len(s \o t) : (s \o t)[k] = t[i]
      /\ t # <<>> => Redis!Last(s \o t) = Redis!Last(t)
      /\ t = <<>> => s \o t = s
      /\ s \o t # <<>> => s # <<>> \/ t # <<>>
  BY <1>1, <1>2, RedisLast
<1>6. s \o t # <<>> /\ (s # <<>> \/ t # <<>>)
  BY <1>5 DEF s, t
<1>7. Redis!Exists
  <2>1. CASE s # <<>>
    BY <2>1 DEF Redis!FellBehind, s
  <2>2. CASE t # <<>>
    BY <1>2, <2>2
  <2> QED BY <1>6, <2>1, <2>2
<1>8. /\ Len(log) \in Nat \ {0} /\ Head(log).id = lastId - Len(log) + 1 /\ Redis!Last(log).id = lastId
      /\ Head(log).id \in 1 .. lastId
  BY <1>7, RedisEnds
<1>9. Redis!Last(s \o t).id = lastId /\ (Redis!Last(s \o t).end <=> Redis!TailIsEnd)
  <2>1. CASE t # <<>>
    BY <1>2, <1>5, <1>7, <1>8, <2>1 DEF Redis!TailIsEnd
  <2>2. CASE t = <<>>
    <3>1. s # <<>> /\ Redis!Last(s \o t) = Redis!Last(s)
      BY <1>5, <1>6, <2>2
    <3>2. Redis!Base(u) = lastId
      BY <1>1, <1>2, <1>4, <1>7, <2>2, <3>1
    <3>3. Len(s) \in 1 .. Len(s) /\ Redis!Last(s) = s[Len(s)]
      BY <1>3, <3>1
    <3>4. Redis!Last(s).end <=> Redis!Last(s).id \notin events
      BY <1>3, <3>1, <3>3
    <3>5. Redis!Last(s).id = lastId
      BY <1>3, <3>1, <3>2
    <3> QED BY <1>7, <3>1, <3>4, <3>5, RedisTail
  <2> QED BY <2>1, <2>2
<1>10. ASSUME NEW e \in events, e >= Head(log).id, e > Redis!Base(u) PROVE e \in Redis!EventIds(s \o t)
  <2>1. PICK j \in 1 .. Len(log) : log[j].id = e /\ ~log[j].end
    BY <1>7, <1>10, RedisTail
  <2>2. PICK i \in 1 .. Len(t) : t[i] = log[j]
    BY <1>2, <1>10, <2>1
  <2>3. PICK k \in 1 .. Len(s \o t) : (s \o t)[k] = t[i]
    BY <1>5
  <2> QED BY <1>5, <2>1, <2>2, <2>3, RedisShown
<1>11. ASSUME NEW e \in events, e >= Redis!Owed(u) PROVE e \in g \cup Redis!EventIds(s \o t)
  <2>1. e \in 1 .. lastId
    BY DEF LogFits
  <2>2. CASE s # <<>>
    <3>1. Redis!Owed(u) = u.from
      BY <1>3, <2>2 DEF Redis!Owed
    <3>2. CASE e <= Redis!Base(u)
      <4> DEFINE i == e - u.from + 1
      <4>1. i \in 1 .. Len(s) /\ u.from + i - 1 = e
        BY <1>1, <1>3, <1>4, <1>11, <2>1, <2>2, <3>1, <3>2
      <4>2. s[i].id = e /\ ~s[i].end
        BY <1>3, <2>2, <4>1
      <4>3. PICK k \in 1 .. Len(s \o t) : (s \o t)[k] = s[i]
        BY <1>5, <4>1
      <4> QED BY <1>5, <4>2, <4>3, RedisShown
    <3>3. CASE e > Redis!Base(u)
      <4>1. Redis!Base(u) >= Head(log).id
        BY <1>1, <1>7, <1>8, <2>2 DEF Redis!FellBehind, s
      <4> QED BY <1>1, <1>8, <1>10, <2>1, <3>3, <4>1
    <3> QED BY <1>1, <2>1, <3>2, <3>3
  <2>3. CASE s = <<>> /\ u.cursor # 0
    <3>1. u.detect /\ u.from # 0 /\ Redis!Base(u) = u.cursor /\ Redis!Owed(u) = u.from
      BY <2>3 DEF SubscriberFits, Redis!Base, Redis!Owed, s
    <3>2. u.cursor >= Head(log).id
      BY <1>1, <1>7, <1>8, <3>1 DEF Redis!FellBehind
    <3>3. CASE e <= u.cursor
      <4>1. e \in u.from .. u.cursor
        BY <1>1, <1>11, <2>1, <3>1, <3>3
      <4> QED BY <3>1, <4>1 DEF SubscriberFits
    <3>4. CASE e > u.cursor
      BY <1>1, <1>8, <1>10, <2>1, <3>1, <3>2, <3>4
    <3> QED BY <1>1, <2>1, <3>3, <3>4
  <2>4. CASE s = <<>> /\ u.cursor = 0
    <3>1. u.from = 0 /\ Redis!Base(u) = 0 /\ Redis!Owed(u) = Head(log).id
      BY <1>7, <2>4 DEF SubscriberFits, Redis!Base, Redis!Owed, s
    <3> QED BY <1>10, <1>11, <2>1, <3>1
  <2> QED BY <2>2, <2>3, <2>4
<1> QED BY <1>7, <1>9, <1>11 DEF s, t

(* An end that is made up gives a settled subscriber everything it is owed.  *)
LEMMA RedisEnded ==
    ASSUME LogFits, NEW u \in Reader, u.pc \notin {"end", "gap"}
    PROVE  LET v == Redis!Ended(u)
           IN  /\ v \in Reader /\ v.pc = "end" /\ v.waits = u.waits /\ v.expired = u.expired
               /\ \A g : /\ ~u.waits /\ Settled(u, g) => HasAll(v, g)
                         /\ SubscriberFits(u, g) /\ u.pending = <<>> => SubscriberFits(v, g)
                         /\ /\ prod.pc \notin Starting /\ (u.expired => prod.leased /\ ~active)
                            /\ prod.leased => Settled(u, g)
                            => WatchFits(v, g)
<1> DEFINE f == IF u.observed \/ Redis!Exists THEN Redis!Owed(u) ELSE lastId + 1
           v == Redis!Ended(u)
<1>1. u.cursor \in Nat /\ u.from \in Nat /\ lastId \in Nat /\ Redis!Owed(u) \in Nat \ {0}
      /\ u.observed \in BOOLEAN
      /\ (u.from <= lastId + 1 => Redis!Owed(u) <= lastId + 1)
  BY RedisReader, RedisOwed DEF LogFits
<1>2. f \in Nat \ {0} /\ (u.from <= lastId + 1 => f <= lastId + 1)
  BY <1>1
<1>3. v = [u EXCEPT !.pc = "end", !.before = {}, !.from = f]
  BY DEF Redis!Ended
<1> HIDE DEF v
<1>4. /\ v \in Reader /\ v.pc = "end" /\ v.waits = u.waits /\ v.expired = u.expired /\ v.from = f
      /\ v.cursor = u.cursor /\ v.pending = u.pending
  BY <1>2, <1>3 DEF Reader
<1>5. Redis!Owed(v) = f
  BY <1>2, <1>4 DEF Redis!Owed
<1>6. ASSUME NEW g, ~u.waits, Settled(u, g) PROVE HasAll(v, g)
  <2>1. CASE u.observed \/ Redis!Exists
    BY <1>5, <1>6, <2>1 DEF Settled, HasAll
  <2>2. CASE ~(u.observed \/ Redis!Exists)
    <3>1. \A e \in events : e \in 1 .. lastId
      BY DEF LogFits
    <3>2. \A e \in events : ~(e >= f)
      BY <1>1, <2>2, <3>1
    <3> QED BY <1>5, <3>2 DEF HasAll
  <2> QED BY <2>1, <2>2
<1>7. ASSUME NEW g, SubscriberFits(u, g), u.pending = <<>> PROVE SubscriberFits(v, g)
  <2>1. v.cursor <= lastId /\ v.from <= lastId + 1
    BY <1>2, <1>4, <1>7 DEF SubscriberFits
  <2>2. ASSUME NEW e \in events, e \in v.from .. v.cursor PROVE e \in g
    <3>1. CASE u.from # 0 /\ f = u.from
      BY <1>4, <1>7, <2>2, <3>1 DEF SubscriberFits
    <3>2. CASE u.from = 0
      <4>1. u.cursor = 0
        BY <1>7, <3>2 DEF SubscriberFits
      <4> QED BY <1>1, <1>2, <1>4, <2>2, <4>1
    <3>3. CASE f = lastId + 1
      BY <1>1, <1>4, <1>7, <2>2, <3>3 DEF SubscriberFits
    <3> QED BY <3>1, <3>2, <3>3 DEF Redis!Owed
  <2> QED BY <1>2, <1>4, <1>7, <2>1, <2>2 DEF SubscriberFits
<1>8. ASSUME NEW g, prod.pc \notin Starting, u.expired => prod.leased /\ ~active, prod.leased => Settled(u, g)
      PROVE  WatchFits(v, g)
  <2>1. prod.leased => v.waits \/ HasAll(v, g)
    BY <1>4, <1>6, <1>8
  <2> QED BY <1>4, <1>8, <2>1 DEF WatchFits, Settled
<1> QED BY <1>4, <1>6, <1>7, <1>8 DEF v
-----------------------------------------------------------------------------
(* The consumers' steps.                                                     *)

(* What is said of a consumer depends on what no consumer changes.           *)
LEMMA RedisSame ==
    ASSUME Redis!Others, NEW u, NEW g
    PROVE  /\ Redis!Owed(u)' = Redis!Owed(u)
           /\ HasAll(u, g)' <=> HasAll(u, g)
           /\ Settled(u, g)' <=> Settled(u, g)
           /\ Calm(u, g)' <=> Calm(u, g)
           /\ WatchFits(u, g)' <=> WatchFits(u, g)
           /\ SubscriberFits(u, g)' <=> SubscriberFits(u, g)
<1>1. UNCHANGED <<log, lastId, events, active, row, prod, recovery>> /\ (Redis!Exists' <=> Redis!Exists)
  BY DEF Redis!Others, Redis!Exists
<1>2. Redis!Owed(u)' = Redis!Owed(u)
  BY <1>1 DEF Redis!Owed
<1>3. HasAll(u, g)' <=> HasAll(u, g)
  BY <1>1, <1>2 DEF HasAll
<1>4. Settled(u, g)' <=> Settled(u, g)
  BY <1>1, <1>3 DEF Settled
<1>5. Calm(u, g)' <=> Calm(u, g)
  BY <1>1, <1>4 DEF Calm
<1>6. WatchFits(u, g)' <=> WatchFits(u, g)
  BY <1>1, <1>3, <1>4 DEF WatchFits, Counting
<1>7. SubscriberFits(u, g)' <=> SubscriberFits(u, g)
  BY <1>1 DEF SubscriberFits
<1> QED BY <1>2, <1>3, <1>4, <1>5, <1>6, <1>7

(* The other consumers only forget a check that is over.                     *)
LEMMA RedisOthers ==
    ASSUME NEW u \in Reader, NEW S \in SUBSET Consumers, NEW g
    PROVE  LET v == [u EXCEPT !.before = S]
           IN  /\ v \in Reader /\ v.pc = u.pc /\ v.waits = u.waits /\ v.expired = u.expired /\ v.before = S
               /\ Calm(v, g) <=> Calm(u, g)
               /\ WatchFits(u, g) /\ S \subseteq u.before => WatchFits(v, g)
               /\ SubscriberFits(u, g) => SubscriberFits(v, g)
<1> DEFINE v == [u EXCEPT !.before = S]
<1>1. /\ v \in Reader /\ v.pc = u.pc /\ v.waits = u.waits /\ v.expired = u.expired /\ v.before = S
      /\ v.cursor = u.cursor /\ v.detect = u.detect /\ v.observed = u.observed /\ v.pending = u.pending
      /\ v.from = u.from /\ v.beats = u.beats
  BY DEF Reader
<1> HIDE DEF v
<1>2. (HasAll(v, g) <=> HasAll(u, g)) /\ (Settled(v, g) <=> Settled(u, g)) /\ (Calm(v, g) <=> Calm(u, g))
  BY <1>1 DEF HasAll, Settled, Calm, Redis!Owed
<1>3. WatchFits(u, g) /\ S \subseteq u.before => WatchFits(v, g)
  BY <1>1, <1>2 DEF WatchFits
<1>4. SubscriberFits(u, g) => SubscriberFits(v, g)
  BY <1>1 DEF SubscriberFits
<1> QED BY <1>1, <1>2, <1>3, <1>4 DEF v

(* A consumer's step, when it comes to what the invariant says of it.        *)
LEMMA RedisStep ==
    ASSUME RedisInvariant, NEW c \in Consumers, NEW new \in Reader, NEW g \in SUBSET Nat,
           Redis!Others, Redis!Step(c, new), got' = [got EXCEPT ![c] = g], new.waits = cons[c].waits,
           tracked' = tracked \/ (tracked' = FALSE /\ \A d \in Consumers \ {c} : Calm(cons[d], got[d])),
           WatchFits(new, g), ~new.waits => SubscriberFits(new, g),
           prod.leased => Calm(new, g),
           new.expired /\ new.pc # "end"
             => \A d \in Consumers \ {c} : d \in new.before \/ Calm(cons[d], got[d]),
           prod.leased /\ new.pc = "end" /\ ~new.waits => Frozen \/ ~tracked'
    PROVE  RedisInvariant'
<1>1. /\ RedisTypes /\ LogFits /\ ProducerFits /\ ConsumersFit
      /\ ExpiryIsSeen /\ UntrackedIsCalm /\ EndIsFrozen
  BY DEF RedisInvariant
<1>2. UNCHANGED <<log, lastId, events, active, row, prod, recovery>>
  BY DEF Redis!Others
<1>3. cons \in [Consumers -> Reader] /\ got \in [Consumers -> SUBSET Nat] /\ tracked \in BOOLEAN
  BY <1>1 DEF RedisTypes
<1>4. cons'[c] = new /\ got'[c] = g
  BY <1>3 DEF Redis!Step
<1>5. ASSUME NEW d \in Consumers \ {c}
      PROVE  /\ got'[d] = got[d] /\ cons'[d] \in Reader
             /\ cons'[d].pc = cons[d].pc /\ cons'[d].waits = cons[d].waits /\ cons'[d].expired = cons[d].expired
             /\ cons'[d].before \subseteq cons[d].before
             /\ \A e \in Consumers : e \in cons[d].before =>
                   e \in cons'[d].before \/ (e = c /\ new.pc \notin Redis!Checking)
             /\ Calm(cons'[d], got[d]) <=> Calm(cons[d], got[d])
             /\ WatchFits(cons'[d], got[d])
             /\ ~cons[d].waits => SubscriberFits(cons'[d], got[d])
  <2>1. /\ cons[d] \in Reader /\ got'[d] = got[d] /\ WatchFits(cons[d], got[d])
        /\ ~cons[d].waits => SubscriberFits(cons[d], got[d])
    BY <1>1, <1>3 DEF ConsumersFit
  <2>2. CASE new.pc \in Redis!Checking
    <3>1. cons'[d] = cons[d]
      BY <2>2 DEF Redis!Step
    <3> QED BY <2>1, <3>1
  <2>3. CASE new.pc \notin Redis!Checking
    <3>1. cons'[d] = [cons[d] EXCEPT !.before = @ \ {c}]
      BY <2>3 DEF Redis!Step
    <3>2. PICK u \in Reader : u = cons[d]
      BY <2>1
    <3>3. PICK S \in SUBSET Consumers : S = u.before \ {c}
      BY <3>2, RedisReader
    <3>4. cons'[d] = [u EXCEPT !.before = S]
      BY <3>1, <3>2, <3>3
    <3> QED BY <2>1, <2>3, <3>2, <3>3, <3>4, RedisOthers
  <2> QED BY <2>2, <2>3
<1>6. RedisTypes'
  <2>1. DOMAIN cons' = Consumers /\ cons' = [d \in Consumers |-> cons'[d]]
    BY DEF Redis!Step
  <2>2. \A d \in Consumers : cons'[d] \in Reader
    BY <1>4, <1>5
  <2>3. cons' \in [Consumers -> Reader]
    BY <2>1, <2>2
  <2>4. got' \in [Consumers -> SUBSET Nat]
    BY <1>3
  <2> QED BY <1>1, <1>2, <2>3, <2>4 DEF RedisTypes
<1>7. LogFits'
  BY <1>1, <1>2 DEF LogFits
<1>8. ProducerFits'
  BY <1>1, <1>2 DEF ProducerFits, Redis!TailIsEnd, Redis!Exists
<1>9. ConsumersFit'
  <2>1. ASSUME NEW d \in Consumers
        PROVE  WatchFits(cons'[d], got'[d]) /\ (~cons'[d].waits => SubscriberFits(cons'[d], got'[d]))
    BY <1>4, <1>5
  <2>2. ASSUME NEW d \in Consumers
        PROVE  /\ WatchFits(cons[d], got[d])'
               /\ ~cons'[d].waits => SubscriberFits(cons[d], got[d])'
    BY <2>1, RedisSame
  <2> QED BY <2>2 DEF ConsumersFit
<1>10. ASSUME NEW d \in Consumers
       PROVE  Calm(cons[d], got[d])' <=> Calm(cons'[d], got'[d])
  BY RedisSame
<1>11. ASSUME new.pc \notin Redis!Checking PROVE Calm(new, g)
  BY <1>11 DEF Calm, Redis!Checking
<1>12. ASSUME NEW d \in Consumers, cons[d].expired PROVE prod.leased
  BY <1>1, <1>12 DEF ConsumersFit, WatchFits
<1>13. ASSUME new.expired PROVE prod.leased
  BY <1>13 DEF WatchFits
<1>14. ASSUME NEW a \in Consumers, cons'[a].expired, cons'[a].pc # "end", NEW d \in Consumers \ {a}
       PROVE  d \in cons'[a].before \/ Calm(cons[d], got[d])'
  <2>1. CASE a = c
    <3>1. d \in new.before \/ Calm(cons[d], got[d])
      BY <1>4, <1>14, <2>1
    <3> QED BY <1>4, <1>5, <1>10, <2>1, <3>1
  <2>2. CASE a # c
    <3>1. cons[a].expired /\ cons[a].pc # "end" /\ prod.leased
      BY <1>5, <1>12, <1>14, <2>2
    <3>2. d \in cons[a].before \/ Calm(cons[d], got[d])
      BY <1>1, <3>1 DEF ExpiryIsSeen
    <3>3. CASE d = c
      BY <1>4, <1>10, <3>1, <3>3
    <3>4. CASE d # c
      BY <1>5, <1>10, <2>2, <3>2, <3>4
    <3> QED BY <3>3, <3>4
  <2> QED BY <2>1, <2>2
<1>15. ExpiryIsSeen'
  BY <1>14 DEF ExpiryIsSeen
<1>16. UntrackedIsCalm'
  <2>1. ASSUME prod.leased, ~tracked', NEW d \in Consumers PROVE Calm(cons[d], got[d])'
    <3>1. CASE d = c
      BY <1>4, <1>10, <2>1, <3>1
    <3>2. CASE d # c
      <4>1. Calm(cons[d], got[d])
        BY <1>1, <2>1, <3>2 DEF UntrackedIsCalm
      <4> QED BY <1>5, <1>10, <3>2, <4>1
    <3> QED BY <3>1, <3>2
  <2> QED BY <1>2, <2>1 DEF UntrackedIsCalm
<1>17. EndIsFrozen'
  <2>1. ASSUME prod.leased, NEW d \in Consumers, cons'[d].pc = "end", ~cons'[d].waits PROVE Frozen'
    <3>1. Frozen \/ ~tracked'
      <4>1. CASE d = c
        BY <1>4, <2>1, <4>1
      <4>2. CASE d # c
        <5>1. cons[d].pc = "end" /\ ~cons[d].waits
          BY <1>5, <2>1, <4>2
        <5> QED BY <1>1, <2>1, <5>1 DEF EndIsFrozen
      <4> QED BY <4>1, <4>2
    <3> QED BY <1>2, <3>1 DEF Frozen
  <2> QED BY <1>2, <2>1 DEF EndIsFrozen
<1> QED BY <1>6, <1>7, <1>8, <1>9, <1>15, <1>16, <1>17 DEF RedisInvariant

(* What the invariant says of one consumer.                                  *)
LEMMA RedisKnown ==
    ASSUME RedisInvariant, NEW c \in Consumers
    PROVE  /\ cons[c] \in Reader /\ got[c] \in SUBSET Nat /\ [got EXCEPT ![c] = got[c]] = got
           /\ LogFits /\ ProducerFits /\ tracked \in BOOLEAN /\ active \in BOOLEAN
           /\ WatchFits(cons[c], got[c])
           /\ ~cons[c].waits => SubscriberFits(cons[c], got[c])
           /\ cons[c].expired => prod.leased
           /\ cons[c].expired /\ cons[c].pc # "end" =>
                 \A d \in Consumers \ {c} : d \in cons[c].before \/ Calm(cons[d], got[d])
           /\ prod.leased /\ ~tracked => \A d \in Consumers : Calm(cons[d], got[d])
<1>1. /\ RedisTypes /\ LogFits /\ ProducerFits /\ ConsumersFit /\ ExpiryIsSeen /\ UntrackedIsCalm
  BY DEF RedisInvariant
<1>2. cons \in [Consumers -> Reader] /\ got \in [Consumers -> SUBSET Nat] /\ tracked \in BOOLEAN
      /\ active \in BOOLEAN
  BY <1>1 DEF RedisTypes
<1>3. WatchFits(cons[c], got[c]) /\ (~cons[c].waits => SubscriberFits(cons[c], got[c]))
  BY <1>1 DEF ConsumersFit
<1>4. cons[c].expired => prod.leased
  BY <1>3 DEF WatchFits
<1>5. cons[c].expired /\ cons[c].pc # "end" =>
         \A d \in Consumers \ {c} : d \in cons[c].before \/ Calm(cons[d], got[d])
  BY <1>1 DEF ExpiryIsSeen
<1>6. prod.leased /\ ~tracked => \A d \in Consumers : Calm(cons[d], got[d])
  BY <1>1 DEF UntrackedIsCalm
<1> QED BY <1>1, <1>2, <1>3, <1>4, <1>5, <1>6

(* A consumer that only moves on, and knows what it knew.                    *)
LEMMA RedisMove ==
    ASSUME RedisInvariant, NEW c \in Consumers, NEW new \in Reader,
           Redis!Others, UNCHANGED <<tracked, got>>, Redis!Step(c, new), new.waits = cons[c].waits,
           cons[c].pc # "end",
           new.expired /\ new.pc # "end" => cons[c].expired /\ new.before = cons[c].before,
           WatchFits(new, got[c]), ~new.waits => SubscriberFits(new, got[c]),
           prod.leased => Calm(new, got[c]),
           prod.leased /\ new.pc = "end" /\ ~new.waits => Frozen
    PROVE  RedisInvariant'
<1>1. /\ got[c] \in SUBSET Nat /\ [got EXCEPT ![c] = got[c]] = got
      /\ cons[c].expired /\ cons[c].pc # "end" =>
            \A d \in Consumers \ {c} : d \in cons[c].before \/ Calm(cons[d], got[d])
  BY RedisKnown
<1>2. PICK g \in SUBSET Nat : g = got[c]
  BY <1>1
<1>3. got' = [got EXCEPT ![c] = g] /\ tracked' = tracked
  BY <1>1, <1>2
<1>4. new.expired /\ new.pc # "end" => \A d \in Consumers \ {c} : d \in new.before \/ Calm(cons[d], got[d])
  BY <1>1
<1> QED BY <1>2, <1>3, <1>4, RedisStep

(* A consumer that opens the stream finds it missing, or reads it.           *)
LEMMA RedisJoin ==
    ASSUME RedisInvariant, NEW c \in Consumers, Redis!Join(c)
    PROVE  RedisInvariant'
<1>1. PICK u \in Reader : u = cons[c]
  BY RedisKnown
<1>2. PICK g : g = got[c]
  OBVIOUS
<1>3. LogFits /\ ProducerFits /\ WatchFits(u, g) /\ (~u.waits => SubscriberFits(u, g))
  BY <1>1, <1>2, RedisKnown
<1>4. u.pc = "new" /\ Redis!Others /\ UNCHANGED <<tracked, got>>
  BY <1>1 DEF Redis!Join
<1>5. PICK p \in {"missing", "reading"} : p = IF row # "active" /\ ~Redis!Exists THEN "missing" ELSE "reading"
  OBVIOUS
<1>6. PICK d \in BOOLEAN : d = (u.cursor # 0)
  OBVIOUS
<1> DEFINE new == [u EXCEPT !.pc = p, !.detect = d, !.observed = FALSE, !.beats = 0]
<1>7. Redis!Step(c, new)
  BY <1>1, <1>5, <1>6 DEF Redis!Join
<1>8. /\ new \in Reader
      /\ new.pc = p /\ new.detect = d /\ ~new.observed /\ new.beats = 0
      /\ new.waits = u.waits /\ new.cursor = u.cursor /\ new.expired = u.expired /\ new.pending = u.pending
      /\ new.from = u.from /\ new.before = u.before
  <2>1. p \in {"new", "missing", "recheck", "purge", "reading", "waiting", "beat", "confirm", "end", "gap"}
    OBVIOUS
  <2>2. 0 \in 0 .. 2 /\ FALSE \in BOOLEAN
    OBVIOUS
  <2>3. new \in Reader
    BY <2>1, <2>2 DEF Reader
  <2>4. new.pc = p /\ new.detect = d /\ ~new.observed /\ new.beats = 0
    BY DEF Reader
  <2>5. new.waits = u.waits /\ new.cursor = u.cursor /\ new.expired = u.expired /\ new.pending = u.pending
    BY DEF Reader
  <2>6. new.from = u.from /\ new.before = u.before
    BY DEF Reader
  <2> QED BY <2>3, <2>4, <2>5, <2>6
<1> HIDE DEF new
<1>9. ~Redis!Exists => Settled(new, g)
  BY <1>8 DEF Settled
<1>10. WatchFits(new, g)
  <2>1. prod.pc \in Starting => p = "reading"
    BY <1>3, <1>5 DEF ProducerFits
  <2> QED BY <1>3, <1>4, <1>5, <1>8, <1>9, <2>1 DEF WatchFits
<1>11. ~new.waits => SubscriberFits(new, g)
  BY <1>3, <1>4, <1>5, <1>6, <1>8 DEF SubscriberFits
<1>12. Calm(new, g)
  BY <1>5, <1>8 DEF Calm
<1> QED BY <1>1, <1>2, <1>4, <1>5, <1>7, <1>8, <1>10, <1>11, <1>12, RedisMove

(* _terminal_record_stream_missing: the second read, of the lease.           *)
LEMMA RedisMissingState ==
    ASSUME RedisInvariant, NEW c \in Consumers, Redis!MissingState(c)
    PROVE  RedisInvariant'
<1>1. PICK u \in Reader : u = cons[c]
  BY RedisKnown
<1>2. PICK g : g = got[c]
  OBVIOUS
<1>3. /\ LogFits /\ ProducerFits /\ WatchFits(u, g) /\ (~u.waits => SubscriberFits(u, g))
      /\ prod.leased /\ ~tracked => Calm(u, g)
      /\ active \in BOOLEAN /\ tracked \in BOOLEAN
  BY <1>1, <1>2, RedisKnown
<1>4. u.pc = "missing" /\ Redis!Others /\ UNCHANGED <<tracked, got>>
  BY <1>1 DEF Redis!MissingState
<1>5. prod.pc \notin Starting
  BY <1>3, <1>4 DEF WatchFits
<1>6. CASE Redis!LeaseState = "untracked"
  <2>1. Redis!Step(c, Redis!Ended(u)) /\ ~tracked
    BY <1>1, <1>6 DEF Redis!MissingState, Redis!LeaseState
  <2>2. PICK v : v = Redis!Ended(u)
    OBVIOUS
  <2>3. /\ prod.leased => ~Redis!Exists
        /\ ~u.waits => u.pending = <<>> /\ ~u.observed
    BY <1>3, <1>4, <2>1 DEF Calm, SubscriberFits
  <2>4. prod.leased => Settled(u, g)
    BY <2>3 DEF Settled
  <2>5. u.expired => prod.leased /\ ~active
    BY <1>3 DEF WatchFits
  <2>6. v \in Reader /\ v.pc = "end" /\ v.waits = u.waits /\ WatchFits(v, g)
        /\ (~u.waits => SubscriberFits(v, g))
    BY <1>3, <1>4, <1>5, <2>2, <2>3, <2>4, <2>5, RedisEnded
  <2>7. Calm(v, g)
    BY <2>6 DEF Calm
  <2> QED BY <1>1, <1>2, <1>4, <2>1, <2>2, <2>6, <2>7, RedisMove DEF Frozen
<1>7. CASE Redis!LeaseState # "untracked"
  <2>1. PICK p \in {"recheck", "reading"} : p = IF Redis!LeaseState = "expired" THEN "recheck" ELSE "reading"
    OBVIOUS
  <2> DEFINE new == [u EXCEPT !.pc = p]
  <2>2. Redis!Step(c, new)
    BY <1>1, <1>7, <2>1 DEF Redis!MissingState
  <2>3. /\ new \in Reader /\ new.pc = p /\ new.detect = u.detect /\ new.observed = u.observed
        /\ new.beats = u.beats /\ new.waits = u.waits /\ new.cursor = u.cursor /\ new.expired = u.expired
        /\ new.pending = u.pending /\ new.from = u.from /\ new.before = u.before
    BY DEF Reader
  <2> HIDE DEF new
  <2>4. HasAll(new, g) <=> HasAll(u, g)
    BY <2>3 DEF HasAll, Redis!Owed
  <2>5. p = "recheck" => prod.leased /\ ~active
    BY <1>3, <1>7, <2>1 DEF Redis!LeaseState, ProducerFits
  <2>6. WatchFits(new, g)
    BY <1>3, <1>4, <1>5, <2>1, <2>3, <2>4, <2>5 DEF WatchFits, Settled
  <2>7. ~new.waits => SubscriberFits(new, g)
    BY <1>3, <1>4, <2>1, <2>3 DEF SubscriberFits
  <2>8. Calm(new, g)
    BY <2>1, <2>3 DEF Calm
  <2> QED BY <1>1, <1>2, <1>4, <2>1, <2>2, <2>3, <2>6, <2>7, <2>8, RedisMove
<1> QED BY <1>6, <1>7

(* The third read, of the stream.                                            *)
LEMMA RedisRecheck ==
    ASSUME RedisInvariant, NEW c \in Consumers, Redis!Recheck(c)
    PROVE  RedisInvariant'
<1>1. PICK u \in Reader : u = cons[c]
  BY RedisKnown
<1>2. PICK g : g = got[c]
  OBVIOUS
<1>3. LogFits /\ ProducerFits /\ WatchFits(u, g) /\ (~u.waits => SubscriberFits(u, g))
  BY <1>1, <1>2, RedisKnown
<1>4. u.pc = "recheck" /\ Redis!Others /\ UNCHANGED <<tracked, got>>
  BY <1>1 DEF Redis!Recheck
<1>5. PICK p \in {"reading", "purge"} : p = IF Redis!Exists THEN "reading" ELSE "purge"
  OBVIOUS
<1> DEFINE new == [u EXCEPT !.pc = p]
<1>6. Redis!Step(c, new)
  BY <1>1, <1>5 DEF Redis!Recheck
<1>7. /\ new \in Reader /\ new.pc = p /\ new.detect = u.detect /\ new.observed = u.observed
      /\ new.beats = u.beats /\ new.waits = u.waits /\ new.cursor = u.cursor /\ new.expired = u.expired
      /\ new.pending = u.pending /\ new.from = u.from /\ new.before = u.before
  BY DEF Reader
<1> HIDE DEF new
<1>8. HasAll(new, g) <=> HasAll(u, g)
  BY <1>7 DEF HasAll, Redis!Owed
<1>9. WatchFits(new, g)
  BY <1>3, <1>4, <1>5, <1>7, <1>8 DEF WatchFits, Settled
<1>10. ~new.waits => SubscriberFits(new, g)
  BY <1>3, <1>4, <1>5, <1>7 DEF SubscriberFits
<1>11. Calm(new, g)
  BY <1>5, <1>7 DEF Calm
<1> QED BY <1>1, <1>2, <1>4, <1>5, <1>6, <1>7, <1>9, <1>10, <1>11, RedisMove

(* While there is no stream every check under way is settled.                *)
LEMMA RedisNothing ==
    ASSUME RedisInvariant, prod.leased, ~Redis!Exists
    PROVE  \A d \in Consumers : Calm(cons[d], got[d])
<1>1. ASSUME NEW d \in Consumers, cons[d].pc = "beat" PROVE Settled(cons[d], got[d])
  <2>1. LogFits /\ WatchFits(cons[d], got[d]) /\ cons[d] \in Reader
    BY RedisKnown
  <2>2. CASE lastId > 0
    BY <1>1, <2>1, <2>2 DEF WatchFits
  <2>3. CASE ~(lastId > 0)
    <3>1. \A e \in events : FALSE
      BY <2>1, <2>3 DEF LogFits
    <3> QED BY <3>1 DEF Settled, HasAll
  <2> QED BY <2>2, <2>3
<1> QED BY <1>1 DEF Calm

(* The last one, which takes the tracking key of a producer that is gone.    *)
LEMMA RedisMissingPurge ==
    ASSUME RedisInvariant, NEW c \in Consumers, Redis!MissingPurge(c)
    PROVE  RedisInvariant'
<1>1. PICK u \in Reader : u = cons[c]
  BY RedisKnown
<1>2. PICK g \in SUBSET Nat : g = got[c]
  BY RedisKnown
<1>3. /\ LogFits /\ ProducerFits /\ WatchFits(u, g) /\ (~u.waits => SubscriberFits(u, g))
      /\ tracked \in BOOLEAN /\ [got EXCEPT ![c] = g] = got
  BY <1>1, <1>2, RedisKnown
<1>4. u.pc = "purge" /\ Redis!Others /\ UNCHANGED got
  BY <1>1 DEF Redis!MissingPurge
<1>5. prod.leased /\ ~active /\ ~Redis!Exists /\ prod.pc \notin Starting
  BY <1>3, <1>4 DEF WatchFits
<1>6. PICK v : v = Redis!Ended(u)
  OBVIOUS
<1>7. Redis!Step(c, v) /\ tracked' = FALSE
  BY <1>1, <1>5, <1>6 DEF Redis!MissingPurge, Redis!PurgeOk
<1>8. Settled(u, g) /\ (~u.waits => u.pending = <<>>)
  BY <1>3, <1>4, <1>5 DEF SubscriberFits, Settled
<1>9. v \in Reader /\ v.pc = "end" /\ v.waits = u.waits /\ WatchFits(v, g) /\ (~u.waits => SubscriberFits(v, g))
  BY <1>3, <1>4, <1>5, <1>6, <1>8, RedisEnded
<1>10. Calm(v, g)
  BY <1>9 DEF Calm
<1>11. \A d \in Consumers : Calm(cons[d], got[d])
  BY <1>5, RedisNothing
<1> QED BY <1>1, <1>2, <1>3, <1>4, <1>7, <1>9, <1>10, <1>11, RedisStep

(* The blocking read returns entries.                                        *)
LEMMA RedisWake ==
    ASSUME RedisInvariant, NEW c \in Consumers, Redis!Wake(c)
    PROVE  RedisInvariant'
<1>1. PICK u \in Reader : u = cons[c]
  BY RedisKnown
<1>2. PICK g : g = got[c]
  OBVIOUS
<1>3. LogFits /\ ProducerFits /\ WatchFits(u, g) /\ (~u.waits => SubscriberFits(u, g))
  BY <1>1, <1>2, RedisKnown
<1>4. u.pc = "waiting" /\ Redis!Others /\ UNCHANGED <<tracked, got>> /\ Redis!After(u.cursor) # <<>>
  BY <1>1 DEF Redis!Wake
<1>5. /\ u.cursor \in Nat /\ Redis!After(u.cursor) \in Seq(Kept) /\ Redis!Exists
         /\ (u.cursor = 0 => Redis!After(u.cursor) = log)
      /\ Redis!Owed(u) \in Nat \ {0} /\ u.from \in Nat /\ lastId \in Nat /\ u.observed \in BOOLEAN
      /\ u.detect \in BOOLEAN
  BY <1>3, <1>4, RedisReader, RedisAfter, RedisOwed DEF LogFits
<1>6. PICK q \in Seq(Kept) : q = IF u.detect \/ u.observed THEN <<>> ELSE Redis!After(u.cursor)
  BY <1>5, EmptySeq
<1>7. PICK f \in Nat \ {0} : f = Redis!Owed(u)
  BY <1>5
<1> DEFINE new == [u EXCEPT !.pc = "reading", !.from = f, !.pending = q]
<1>8. Redis!Step(c, new)
  BY <1>1, <1>6, <1>7 DEF Redis!Wake
<1>9. /\ new \in Reader /\ new.pc = "reading" /\ new.detect = u.detect /\ new.observed = u.observed
      /\ new.beats = u.beats /\ new.waits = u.waits /\ new.cursor = u.cursor /\ new.expired = u.expired
      /\ new.pending = q /\ new.from = f /\ new.before = u.before
  BY DEF Reader
<1> HIDE DEF new
<1>10. HasAll(new, g) <=> HasAll(u, g)
  BY <1>7, <1>9 DEF HasAll, Redis!Owed
<1>11. WatchFits(new, g)
  BY <1>3, <1>4, <1>5, <1>9, <1>10 DEF WatchFits, Settled
<1>12. ASSUME ~u.waits PROVE SubscriberFits(new, g)
  <2>1. SubscriberFits(u, g) /\ u.pending = <<>>
    BY <1>3, <1>4, <1>12 DEF SubscriberFits
  <2>2. CASE u.cursor # 0
    <3>1. q = <<>> /\ f = u.from
      BY <1>4, <1>5, <1>6, <1>7, <2>1, <2>2 DEF SubscriberFits, Redis!Owed
    <3> QED BY <1>4, <1>5, <1>9, <2>1, <2>2, <3>1 DEF SubscriberFits
  <2>3. CASE u.cursor = 0
    <3>1. u.from = 0 /\ ~u.detect /\ ~u.observed
      BY <1>4, <1>5, <2>1, <2>3 DEF SubscriberFits
    <3>2. q = log /\ f = Head(log).id
      BY <1>5, <1>6, <1>7, <2>3, <3>1 DEF Redis!Owed
    <3>3. /\ Len(log) \in Nat \ {0} /\ f = lastId - Len(log) + 1 /\ Redis!Last(log) = log[Len(log)]
          /\ \A i \in 1 .. Len(log) : /\ log[i].id = lastId - Len(log) + i
                                      /\ log[i].end <=> log[i].id \notin events
      BY <1>3, <1>5, <3>2, RedisEnds DEF LogFits
    <3>4. q # <<>> /\ f + Len(q) <= lastId + 1 /\ f <= lastId + 1
      BY <1>5, <3>2, <3>3 DEF Redis!Exists
    <3>5. \A i \in 1 .. Len(q) : q[i].id = f + i - 1 /\ (q[i].end <=> q[i].id \notin events)
      <4> SUFFICES ASSUME NEW i \in 1 .. Len(log)
                   PROVE  log[i].id = f + i - 1 /\ (log[i].end <=> log[i].id \notin events)
        BY <3>2
      <4>1. log[i].id = lastId - Len(log) + i /\ (log[i].end <=> log[i].id \notin events)
        BY <3>3
      <4>2. lastId - Len(log) + i = f + i - 1
        BY <1>5, <3>3
      <4> QED BY <4>1, <4>2
    <3>6. q[Len(q)].end => prod.pc \notin Producing \cup Starting
      BY <1>3, <1>5, <3>2, <3>3 DEF ProducerFits, Redis!TailIsEnd
    <3>7. \A e \in events : e \in f .. 0 => e \in g
      BY <1>5
    <3> QED BY <1>5, <1>9, <2>1, <2>3, <3>1, <3>4, <3>5, <3>6, <3>7 DEF SubscriberFits
  <2> QED BY <2>2, <2>3
<1>13. Calm(new, g)
  BY <1>9 DEF Calm
<1> QED BY <1>1, <1>2, <1>4, <1>8, <1>9, <1>11, <1>12, <1>13, RedisMove

(* A heartbeat: the read that timed out found nothing.                       *)
LEMMA RedisHeartbeat ==
    ASSUME RedisInvariant, NEW c \in Consumers, Redis!Heartbeat(c)
    PROVE  RedisInvariant'
<1>1. PICK u \in Reader : u = cons[c]
  BY RedisKnown
<1>2. PICK g : g = got[c]
  OBVIOUS
<1>3. LogFits /\ ProducerFits /\ WatchFits(u, g) /\ (~u.waits => SubscriberFits(u, g))
  BY <1>1, <1>2, RedisKnown
<1>4. /\ u.pc = "waiting" /\ Redis!Others /\ UNCHANGED <<tracked, got>> /\ Redis!After(u.cursor) = <<>>
      /\ u.before = {}
  BY <1>1 DEF Redis!Heartbeat
<1> DEFINE new == [u EXCEPT !.pc = "beat"]
<1>5. Redis!Step(c, new)
  BY <1>1 DEF Redis!Heartbeat
<1>6. /\ new \in Reader /\ new.pc = "beat" /\ new.detect = u.detect /\ new.observed = u.observed
      /\ new.beats = u.beats /\ new.waits = u.waits /\ new.cursor = u.cursor /\ new.expired = u.expired
      /\ new.pending = u.pending /\ new.from = u.from /\ new.before = u.before
  BY DEF Reader
<1> HIDE DEF new
<1>7. HasAll(new, g) <=> HasAll(u, g)
  BY <1>6 DEF HasAll, Redis!Owed
<1>8. ASSUME prod.leased PROVE Settled(u, g)
  <2>1. CASE u.waits
    BY <2>1 DEF Settled
  <2>2. CASE ~u.waits /\ Redis!Exists
    <3>1. u.cursor >= lastId
      BY <1>3, <1>4, <2>2, RedisReader, RedisAfter
    <3>2. HasAll(u, g)
      BY <1>3, <1>4, <2>2, <3>1, RedisCaughtUp
    <3> QED BY <3>2 DEF Settled
  <2>3. CASE ~Redis!Exists /\ lastId > 0
    BY <1>3, <1>4, <1>8, <2>3 DEF WatchFits
  <2>4. CASE ~(lastId > 0)
    <3>1. \A e \in events : FALSE
      BY <1>3, <2>4 DEF LogFits
    <3> QED BY <3>1 DEF Settled, HasAll
  <2> QED BY <2>1, <2>2, <2>3, <2>4
<1>9. prod.leased => Settled(new, g)
  BY <1>6, <1>7, <1>8 DEF Settled
<1>10. WatchFits(new, g)
  BY <1>3, <1>4, <1>6, <1>9 DEF WatchFits
<1>11. ~new.waits => SubscriberFits(new, g)
  BY <1>3, <1>4, <1>6 DEF SubscriberFits
<1>12. prod.leased => Calm(new, g)
  BY <1>6, <1>9 DEF Calm
<1> QED BY <1>1, <1>2, <1>4, <1>5, <1>6, <1>10, <1>11, <1>12, RedisMove

(* The check that follows a heartbeat.                                       *)
LEMMA RedisCheck ==
    ASSUME RedisInvariant, NEW c \in Consumers, Redis!Check(c)
    PROVE  RedisInvariant'
<1>1. PICK u \in Reader : u = cons[c]
  BY RedisKnown
<1>2. PICK g \in SUBSET Nat : g = got[c]
  BY RedisKnown
<1>3. /\ LogFits /\ ProducerFits /\ WatchFits(u, g) /\ (~u.waits => SubscriberFits(u, g))
      /\ tracked \in BOOLEAN /\ active \in BOOLEAN /\ [got EXCEPT ![c] = g] = got
      /\ prod.leased /\ ~tracked => Calm(u, g)
      /\ u.expired => \A d \in Consumers \ {c} : d \in u.before \/ Calm(cons[d], got[d]) \/ u.pc = "end"
  BY <1>1, <1>2, RedisKnown
<1>4. u.pc = "beat" /\ Redis!Others /\ UNCHANGED <<tracked, got>>
  BY <1>1 DEF Redis!Check
<1>5. PICK first \in BOOLEAN : first = (Redis!Reason = "expired" /\ ~u.expired)
  OBVIOUS
<1>6. PICK x \in BOOLEAN : x = (Redis!Reason = "expired")
  OBVIOUS
<1>7. PICK S \in SUBSET Consumers :
         S = IF first THEN {d \in Consumers \ {c} : cons[d].pc \in Redis!Checking} ELSE {}
  OBVIOUS
<1>8. PICK b \in 0 .. 2 : b = IF u.beats < 2 THEN u.beats + 1 ELSE u.beats
  <2>1. u.beats \in 0 .. 2
    BY RedisReader
  <2> QED BY <2>1
<1> DEFINE w == [u EXCEPT !.expired = x, !.before = S, !.beats = b]
<1>9. Redis!Step(c, CASE Redis!Reason = "recovered" -> Redis!Ended(w)
                [] Redis!Reason = "expired" /\ ~first -> [w EXCEPT !.pc = "confirm"]
                [] OTHER -> [w EXCEPT !.pc = "reading"])
  BY <1>1, <1>5, <1>6, <1>7, <1>8 DEF Redis!Check
<1>10. /\ w \in Reader
       /\ w.pc = u.pc /\ w.detect = u.detect /\ w.observed = u.observed
       /\ w.beats = b /\ w.waits = u.waits /\ w.cursor = u.cursor /\ w.expired = x
       /\ w.pending = u.pending /\ w.from = u.from /\ w.before = S
  BY DEF Reader
<1> HIDE DEF w
<1>11. (HasAll(w, g) <=> HasAll(u, g)) /\ (Settled(w, g) <=> Settled(u, g))
  BY <1>10 DEF HasAll, Redis!Owed, Settled
<1>12. ~u.waits => SubscriberFits(w, g) /\ w.pending = <<>>
  BY <1>3, <1>4, <1>10 DEF SubscriberFits
<1>13. prod.pc \in Starting => row = "active"
  BY <1>3 DEF ProducerFits
<1>14. CASE Redis!Reason = "recovered"
  <2>1. row = "orphan" /\ ~tracked /\ ~x
    BY <1>3, <1>6, <1>14 DEF Redis!Reason, Redis!LeaseState
  <2>2. PICK v : v = Redis!Ended(w)
    OBVIOUS
  <2>3. Redis!Step(c, v)
    BY <1>9, <1>14, <2>2
  <2>4. prod.pc \notin Starting
    BY <1>13, <2>1
  <2>5. prod.leased => Settled(w, g)
    BY <1>3, <1>4, <1>11, <2>1 DEF Calm
  <2>6. /\ v \in Reader /\ v.pc = "end" /\ v.waits = u.waits /\ WatchFits(v, g)
        /\ ~u.waits => SubscriberFits(v, g)
    BY <1>3, <1>4, <1>10, <1>12, <2>1, <2>2, <2>4, <2>5, RedisEnded
  <2>7. Calm(v, g)
    BY <2>6 DEF Calm
  <2> QED BY <1>1, <1>2, <1>4, <2>1, <2>3, <2>6, <2>7, RedisMove DEF Frozen
<1>15. CASE Redis!Reason # "recovered"
  <2>1. PICK p \in {"confirm", "reading"} : p = IF x /\ ~first THEN "confirm" ELSE "reading"
    OBVIOUS
  <2> DEFINE new == [w EXCEPT !.pc = p]
  <2>2. Redis!Step(c, new)
    BY <1>6, <1>9, <1>15, <2>1
  <2>3. /\ new \in Reader /\ new.pc = p /\ new.detect = w.detect /\ new.observed = w.observed
        /\ new.beats = w.beats /\ new.waits = w.waits /\ new.cursor = w.cursor /\ new.expired = w.expired
        /\ new.pending = w.pending /\ new.from = w.from /\ new.before = w.before
    BY <1>10 DEF Reader
  <2> HIDE DEF new
  <2>4. (HasAll(new, g) <=> HasAll(w, g)) /\ (Settled(new, g) <=> Settled(w, g))
    BY <2>3 DEF HasAll, Redis!Owed, Settled
  <2>5. x => prod.leased /\ ~active /\ row # "active"
    BY <1>3, <1>6 DEF Redis!Reason, Redis!LeaseState, ProducerFits
  <2>6. p = "confirm" => x /\ u.expired /\ S = {} /\ u.before = {} /\ Settled(u, g)
    BY <1>3, <1>4, <1>5, <1>6, <1>7, <2>1 DEF WatchFits
  <2>7. b = 2 => u.beats = 2 \/ u.beats = 1
    <3>1. u.beats \in 0 .. 2
      BY RedisReader
    <3> QED BY <1>8, <3>1
  <2>8. WatchFits(new, g)
    BY <1>3, <1>4, <1>10, <1>11, <1>13, <2>1, <2>3, <2>4, <2>5, <2>6, <2>7 DEF WatchFits
  <2>9. ~new.waits => SubscriberFits(new, g)
    BY <1>3, <1>4, <1>10, <2>1, <2>3 DEF SubscriberFits
  <2>10. Calm(new, g)
    BY <2>1, <2>3 DEF Calm
  <2>11. ASSUME x, NEW d \in Consumers \ {c} PROVE d \in S \/ Calm(cons[d], got[d])
    <3>1. CASE first
      <4>1. d \in S \/ cons[d].pc \notin {"beat", "missing"}
        BY <1>7, <3>1 DEF Redis!Checking
      <4> QED BY <4>1 DEF Calm
    <3>2. CASE ~first
      <4>1. u.expired /\ u.before = {}
        BY <1>5, <1>6, <2>1, <2>6, <2>11, <3>2
      <4> QED BY <1>3, <1>4, <4>1
    <3> QED BY <3>1, <3>2
  <2>12. new.expired => \A d \in Consumers \ {c} : d \in new.before \/ Calm(cons[d], got[d])
    BY <1>10, <2>3, <2>11
  <2>13. tracked' = tracked /\ got' = [got EXCEPT ![c] = g]
    BY <1>3, <1>4
  <2>14. new.pc # "end" /\ new.waits = cons[c].waits
    BY <1>1, <1>10, <2>1, <2>3
  <2> QED BY <1>4, <2>2, <2>3, <2>8, <2>9, <2>10, <2>12, <2>13, <2>14, RedisStep
<1> QED BY <1>14, <1>15

(* The tracking key is taken before END is made up.                          *)
LEMMA RedisConfirm ==
    ASSUME RedisInvariant, NEW c \in Consumers, Redis!Confirm(c)
    PROVE  RedisInvariant'
<1>1. PICK u \in Reader : u = cons[c]
  BY RedisKnown
<1>2. PICK g \in SUBSET Nat : g = got[c]
  BY RedisKnown
<1>3. /\ LogFits /\ ProducerFits /\ WatchFits(u, g) /\ (~u.waits => SubscriberFits(u, g))
      /\ tracked \in BOOLEAN /\ [got EXCEPT ![c] = g] = got
      /\ u.expired /\ u.pc # "end" => \A d \in Consumers \ {c} : d \in u.before \/ Calm(cons[d], got[d])
  BY <1>1, <1>2, RedisKnown
<1>4. u.pc = "confirm" /\ Redis!Others /\ UNCHANGED got
  BY <1>1 DEF Redis!Confirm
<1>5. u.expired /\ u.before = {} /\ Settled(u, g) /\ prod.leased /\ ~active /\ prod.pc \notin Starting
  BY <1>3, <1>4 DEF WatchFits
<1> DEFINE w == [u EXCEPT !.expired = FALSE]
<1>6. /\ w \in Reader
      /\ w.pc = u.pc /\ w.detect = u.detect /\ w.observed = u.observed
      /\ w.beats = u.beats /\ w.waits = u.waits /\ w.cursor = u.cursor /\ ~w.expired
      /\ w.pending = u.pending /\ w.from = u.from /\ w.before = u.before
  BY DEF Reader
<1>7. PICK v : v = Redis!Ended(w)
  OBVIOUS
<1>8. Redis!Step(c, v) /\ tracked' = FALSE
  BY <1>1, <1>5, <1>7 DEF Redis!Confirm, Redis!PurgeOk
<1> HIDE DEF w
<1>9. Settled(w, g)
  BY <1>5, <1>6 DEF HasAll, Redis!Owed, Settled
<1>10. ~u.waits => SubscriberFits(w, g) /\ w.pending = <<>>
  BY <1>3, <1>4, <1>6 DEF SubscriberFits
<1>11. v \in Reader /\ v.pc = "end" /\ v.waits = u.waits /\ WatchFits(v, g)
       /\ (~u.waits => SubscriberFits(v, g))
  BY <1>3, <1>4, <1>5, <1>6, <1>7, <1>9, <1>10, RedisEnded
<1>12. Calm(v, g)
  BY <1>11 DEF Calm
<1>13. \A d \in Consumers \ {c} : Calm(cons[d], got[d])
  BY <1>3, <1>4, <1>5
<1> QED BY <1>1, <1>2, <1>3, <1>4, <1>8, <1>11, <1>12, <1>13, RedisStep

(* An event-stream client comes back.                                        *)
LEMMA RedisReconnect ==
    ASSUME RedisInvariant, NEW c \in Consumers, Redis!Reconnect(c)
    PROVE  RedisInvariant'
<1>1. PICK u \in Reader : u = cons[c]
  BY RedisKnown
<1>2. PICK g : g = got[c]
  OBVIOUS
<1>3. LogFits /\ ProducerFits /\ WatchFits(u, g) /\ (~u.waits => SubscriberFits(u, g))
  BY <1>1, <1>2, RedisKnown
<1>4. u.pc \in {"reading", "waiting", "beat"} /\ ~u.waits /\ Redis!Others /\ UNCHANGED <<tracked, got>>
  BY <1>1 DEF Redis!Reconnect
<1>5. u.cursor \in Nat /\ u.from \in Nat /\ lastId \in Nat /\ <<>> \in Seq(Kept)
  BY <1>3, RedisReader, EmptySeq DEF LogFits
<1>6. PICK f \in Nat : f = IF u.cursor = 0 THEN 0 ELSE u.from
  BY <1>5
<1> DEFINE new == [u EXCEPT !.pc = "new", !.pending = <<>>, !.expired = FALSE, !.before = {}, !.from = f]
<1>7. Redis!Step(c, new)
  BY <1>1, <1>6 DEF Redis!Reconnect
<1>8. /\ new \in Reader
      /\ new.pc = "new" /\ new.detect = u.detect /\ new.observed = u.observed
      /\ new.beats = u.beats /\ new.waits = u.waits /\ new.cursor = u.cursor /\ ~new.expired
      /\ new.pending = <<>> /\ new.from = f /\ new.before = {}
  BY <1>5 DEF Reader
<1> HIDE DEF new
<1>9. WatchFits(new, g)
  BY <1>3, <1>8 DEF WatchFits
<1>10. SubscriberFits(new, g)
  BY <1>3, <1>4, <1>5, <1>6, <1>8 DEF SubscriberFits
<1>11. Calm(new, g)
  BY <1>8 DEF Calm
<1> QED BY <1>1, <1>2, <1>4, <1>7, <1>8, <1>9, <1>10, <1>11, RedisMove

(* A subscriber that fell behind sees a gap; a waiter starts over.           *)
LEMMA RedisGap ==
    ASSUME RedisInvariant, NEW c \in Consumers, cons[c].pc = "reading", Redis!FellBehind(cons[c]),
           Redis!Step(c, Redis!AfterGap(c)), Redis!Others, UNCHANGED <<tracked, got>>
    PROVE  RedisInvariant'
<1>1. PICK u \in Reader : u = cons[c]
  BY RedisKnown
<1>2. PICK g : g = got[c]
  OBVIOUS
<1>3. LogFits /\ ProducerFits /\ WatchFits(u, g) /\ (~u.waits => SubscriberFits(u, g))
  BY <1>1, <1>2, RedisKnown
<1>4. <<>> \in Seq(Kept)
  BY EmptySeq
<1>5. CASE ~u.waits
  <2> DEFINE new == [u EXCEPT !.pc = "gap", !.pending = <<>>]
  <2>1. Redis!Step(c, new)
    BY <1>1, <1>5 DEF Redis!AfterGap
  <2>2. /\ new \in Reader
        /\ new.pc = "gap" /\ new.waits = u.waits /\ new.cursor = u.cursor /\ new.expired = u.expired
        /\ new.pending = <<>> /\ new.from = u.from /\ new.before = u.before
    BY <1>4 DEF Reader
  <2> HIDE DEF new
  <2>3. ASSUME prod.pc \in Starting PROVE FALSE
    <3>1. ~Redis!Exists /\ lastId = 0
      BY <1>3, <2>3 DEF ProducerFits
    <3>2. u.observed \/ u.pending # <<>>
      BY <1>1, <3>1 DEF Redis!FellBehind
    <3>3. u.cursor \in Nat /\ u.from \in Nat /\ (u.pending # <<>> => Len(u.pending) \in Nat \ {0})
      BY RedisReader, RedisBase
    <3> QED BY <1>1, <1>3, <1>5, <3>1, <3>2, <3>3 DEF SubscriberFits
  <2>4. SubscriberFits(new, g)
    BY <1>3, <1>5, <2>2 DEF SubscriberFits
  <2>5. Calm(new, g)
    BY <2>2 DEF Calm
  <2>6. WatchFits(new, g)
    BY <1>3, <2>2, <2>3 DEF WatchFits
  <2> QED BY <1>1, <1>2, <2>1, <2>2, <2>4, <2>5, <2>6, RedisMove
<1>6. CASE u.waits
  <2>1. PICK p \in {"reading", "new"} : p = IF Redis!Exists THEN "reading" ELSE "new"
    OBVIOUS
  <2>2. PICK k \in Nat : k = IF Redis!Exists THEN Redis!Last(log).id ELSE 0
    BY <1>3, RedisEnds DEF LogFits
  <2>3. PICK d \in BOOLEAN : d = Redis!Exists
    BY DEF Redis!Exists
  <2> DEFINE new == [u EXCEPT !.pc = p, !.pending = <<>>, !.cursor = k, !.detect = d, !.observed = FALSE]
  <2>4. Redis!Step(c, new)
    BY <1>1, <1>6, <2>1, <2>2, <2>3 DEF Redis!AfterGap
  <2>5. /\ new \in Reader
        /\ new.pc = p /\ new.waits = u.waits /\ new.expired = u.expired /\ new.before = u.before
    BY <1>4, <2>1 DEF Reader
  <2> HIDE DEF new
  <2>6. Calm(new, g)
    BY <2>1, <2>5 DEF Calm
  <2>7. Settled(new, g)
    BY <1>6, <2>5 DEF Settled
  <2>8. WatchFits(new, g)
    BY <1>3, <1>6, <2>1, <2>5, <2>7 DEF WatchFits
  <2> QED BY <1>1, <1>2, <1>6, <2>1, <2>4, <2>5, <2>6, <2>8, RedisMove
<1> QED BY <1>5, <1>6

(* A turn of subscribe.                                                      *)
LEMMA RedisRead ==
    ASSUME RedisInvariant, NEW c \in Consumers, Redis!Read(c)
    PROVE  RedisInvariant'
<1>1. PICK u \in Reader : u = cons[c]
  BY RedisKnown
<1>2. PICK g \in SUBSET Nat : g = got[c]
  BY RedisKnown
<1>3. /\ LogFits /\ ProducerFits /\ WatchFits(u, g) /\ (~u.waits => SubscriberFits(u, g))
      /\ tracked \in BOOLEAN /\ [got EXCEPT ![c] = g] = got
      /\ u.expired /\ u.pc # "end" => \A d \in Consumers \ {c} : d \in u.before \/ Calm(cons[d], got[d])
  BY <1>1, <1>2, RedisKnown
<1> DEFINE entries == u.pending \o Redis!After(Redis!Base(u))
           o == u.observed \/ Redis!Exists
           f == IF Redis!Exists THEN Redis!Owed(u) ELSE u.from
           looked == [u EXCEPT !.observed = o, !.from = f, !.pending = <<>>]
<1>4. u.pc = "reading" /\ Redis!Others /\ tracked' = tracked
  BY <1>1 DEF Redis!Read
<1>5. /\ u.cursor \in Nat /\ u.from \in Nat /\ lastId \in Nat /\ u.observed \in BOOLEAN /\ o \in BOOLEAN
      /\ f \in Nat /\ Redis!Owed(u) \in Nat \ {0} /\ <<>> \in Seq(Kept) /\ u.pending \in Seq(Kept)
      /\ Redis!Base(u) \in Nat /\ u.detect \in BOOLEAN
      /\ u.from <= lastId + 1 => Redis!Owed(u) <= lastId + 1
  BY <1>3, RedisReader, RedisOwed, RedisBase, EmptySeq DEF LogFits
<1>6. /\ looked \in Reader
      /\ looked.pc = u.pc /\ looked.detect = u.detect /\ looked.observed = o /\ looked.expired = u.expired
      /\ looked.beats = u.beats /\ looked.waits = u.waits /\ looked.cursor = u.cursor
      /\ looked.pending = <<>> /\ looked.from = f /\ looked.before = u.before
  BY <1>5 DEF Reader
<1>7. CASE Redis!FellBehind(u)
  <2>1. Redis!Step(c, Redis!AfterGap(c)) /\ UNCHANGED got
    BY <1>1, <1>7 DEF Redis!Read
  <2> QED BY <1>1, <1>4, <1>7, <2>1, RedisGap
<1>8. Redis!After(Redis!Base(u)) \in Seq(Kept)
      /\ (Redis!After(Redis!Base(u)) = <<>> <=> ~Redis!Exists \/ Redis!Base(u) >= lastId)
  BY <1>3, <1>5, RedisAfter
<1>9. entries \in Seq(Kept) /\ (entries # <<>> => Redis!Last(entries) \in Kept)
      /\ (entries = <<>> => u.pending = <<>> /\ Redis!After(Redis!Base(u)) = <<>>)
  BY <1>5, <1>8, RedisLast, ConcatEqualIffEmpty
<1>10. CASE ~Redis!FellBehind(u) /\ entries # <<>>
  <2>1. PICK k \in Nat : k = Redis!Last(entries).id
    BY <1>9, <1>10 DEF Kept
  <2>2. PICK p \in {"end", "reading"} : p = IF Redis!Last(entries).end THEN "end" ELSE "reading"
    OBVIOUS
  <2>3. PICK h : h = g \cup Redis!EventIds(entries)
    OBVIOUS
  <2> DEFINE new == [looked EXCEPT !.cursor = k, !.detect = TRUE, !.expired = FALSE, !.pc = p]
  <2>4. Redis!Step(c, new) /\ got' = [got EXCEPT ![c] = h]
    BY <1>1, <1>2, <1>10, <2>1, <2>2, <2>3 DEF Redis!Read
  <2> HIDE DEF looked, entries
  <2>5. h \in SUBSET Nat
    <3>1. \A x \in Redis!ToSet(entries) : x \in Kept
      BY <1>9, LenProperties, ElementOfSeq DEF Redis!ToSet
    <3>2. Redis!EventIds(entries) \subseteq Nat
      BY <3>1 DEF Redis!EventIds, Kept
    <3> QED BY <2>3, <3>2
  <2> HIDE DEF o, f
  <2>6. /\ new \in Reader
        /\ new.pc = p /\ new.detect /\ new.observed = o /\ ~new.expired
        /\ new.beats = u.beats /\ new.waits = u.waits /\ new.cursor = k
        /\ new.pending = <<>> /\ new.from = f /\ new.before = u.before
    BY <1>6, <2>2 DEF Reader
  <2>7. ASSUME ~u.waits
        PROVE  /\ SubscriberFits(new, h) /\ HasAll(new, h)
               /\ p = "end" => prod.pc \notin Producing
    <3> HIDE DEF entries, new
    <3>1. /\ Redis!Exists /\ k = lastId
          /\ Redis!Last(entries).end <=> Redis!TailIsEnd
          /\ \A e \in events : e >= Redis!Owed(u) => e \in h
      BY <1>3, <1>4, <1>10, <2>1, <2>3, <2>7, RedisSnapshot DEF entries
    <3>2. f = Redis!Owed(u) /\ Redis!Owed(new) = f
      BY <1>5, <2>6, <3>1 DEF Redis!Owed, f
    <3>3. HasAll(new, h)
      BY <3>1, <3>2 DEF HasAll
    <3>4. \A e \in events : e \in f .. k => e \in h
      BY <1>5, <2>1, <3>1, <3>2
    <3>5. f <= lastId + 1 /\ f # 0 /\ k # 0
      BY <1>3, <1>5, <2>7, <3>1, <3>2, RedisEnds DEF SubscriberFits
    <3>6. SubscriberFits(new, h)
      BY <1>5, <2>2, <2>6, <3>1, <3>4, <3>5 DEF SubscriberFits
    <3>7. p = "end" => prod.pc \notin Producing
      BY <1>3, <2>2, <3>1 DEF ProducerFits
    <3> QED BY <3>3, <3>6, <3>7
  <2>8. Settled(new, h)
    BY <2>6, <2>7 DEF Settled
  <2> HIDE DEF new
  <2>9. prod.pc \in Starting => p = "reading"
    <3>1. ASSUME prod.pc \in Starting PROVE ~Redis!Exists /\ lastId = 0
      BY <1>3, <3>1 DEF ProducerFits
    <3>2. ASSUME ~Redis!Exists PROVE FALSE
      BY <1>5, <1>8, <1>10, <3>2, RedisLast DEF Redis!FellBehind, entries
    <3> QED BY <3>1, <3>2
  <2>10. WatchFits(new, h)
    BY <2>2, <2>6, <2>7, <2>8, <2>9 DEF WatchFits
  <2>11. Calm(new, h)
    BY <2>2, <2>6 DEF Calm
  <2>12. ~new.waits => SubscriberFits(new, h)
    BY <2>6, <2>7
  <2>13. new.pc = "end" /\ ~new.waits => Frozen
    BY <2>6, <2>7 DEF Frozen
  <2>14. new.waits = cons[c].waits /\ tracked' = tracked
    BY <1>1, <1>4, <2>6
  <2> QED BY <1>4, <2>4, <2>5, <2>6, <2>10, <2>11, <2>12, <2>13, <2>14, RedisStep
<1>11. CASE ~Redis!FellBehind(u) /\ entries = <<>>
  <2>1. u.pending = <<>> /\ Redis!Base(u) = u.cursor /\ (~Redis!Exists \/ u.cursor >= lastId)
    BY <1>8, <1>9, <1>11 DEF Redis!Base
  <2>2. PICK p \in {"end", "waiting"} : p = IF Redis!TailIsEnd
             /\ Redis!Last(log).id = u.cursor THEN "end" ELSE "waiting"
    OBVIOUS
  <2> DEFINE new == [looked EXCEPT !.pc = p]
  <2>3. Redis!Step(c, new) /\ got' = got
    BY <1>1, <1>11, <2>2 DEF Redis!Read
  <2> HIDE DEF looked, o, f
  <2>4. /\ new \in Reader
        /\ new.pc = p /\ new.detect = u.detect /\ new.observed = o /\ new.expired = u.expired
        /\ new.beats = u.beats /\ new.waits = u.waits /\ new.cursor = u.cursor
        /\ new.pending = <<>> /\ new.from = f /\ new.before = u.before
    BY <1>6, <2>2 DEF Reader
  <2>5. ASSUME ~u.waits, Redis!Exists
        PROVE  f = u.from /\ u.from # 0 /\ u.cursor # 0 /\ HasAll(u, g)
    BY <1>3, <1>4, <2>1, <2>5, RedisCaughtUp DEF Redis!Owed, f
  <2>6. ~Redis!Exists => f = u.from /\ ~o
    BY <1>11, <2>1 DEF Redis!FellBehind, o, f
  <2> HIDE DEF new
  <2>7. ~u.waits => f = u.from
    BY <2>5, <2>6
  <2>8. Settled(new, g)
    <3>1. CASE u.waits
      BY <2>4, <3>1 DEF Settled
    <3>2. CASE ~u.waits /\ Redis!Exists
      <4>1. HasAll(new, g) <=> HasAll(u, g)
        BY <2>4, <2>7, <3>2 DEF HasAll, Redis!Owed
      <4> QED BY <2>5, <3>2, <4>1 DEF Settled
    <3>3. CASE ~Redis!Exists
      BY <2>4, <2>6, <3>3 DEF Settled
    <3> QED BY <3>1, <3>2, <3>3
  <2>9. p = "end" => Redis!Exists
    BY <2>2 DEF Redis!TailIsEnd
  <2>10. prod.pc \in Starting => p = "waiting"
    BY <1>3, <2>2, <2>9 DEF ProducerFits
  <2>11. p = "end" /\ ~u.waits => HasAll(new, g)
    BY <2>4, <2>8, <2>9 DEF Settled
  <2>12. WatchFits(new, g)
    BY <1>3, <2>2, <2>4, <2>8, <2>10, <2>11 DEF WatchFits
  <2>13. ~new.waits => SubscriberFits(new, g)
    <3>1. ASSUME ~u.waits PROVE o => u.cursor # 0
      BY <2>5, <2>6, <3>1
    <3>2. ASSUME ~u.waits, p = "end" PROVE u.from # 0
      BY <2>5, <2>9, <3>2
    <3> QED BY <1>3, <1>4, <2>1, <2>2, <2>4, <2>7, <3>1, <3>2 DEF SubscriberFits
  <2>14. Calm(new, g)
    BY <2>2, <2>4 DEF Calm
  <2>15. new.pc = "end" => Frozen
    BY <1>3, <2>2, <2>4 DEF Frozen, ProducerFits
  <2> QED BY <1>1, <1>2, <1>4, <2>3, <2>4, <2>12, <2>13, <2>14, <2>15, RedisMove
<1> QED BY <1>7, <1>10, <1>11
-----------------------------------------------------------------------------
(* The producer's steps, and those of the recovery.                          *)

(* A consumer whose count of heartbeats is all that changes.                 *)
LEMMA RedisBeats ==
    ASSUME NEW u \in Reader, NEW b \in 0 .. 2, NEW g
    PROVE  LET v == [u EXCEPT !.beats = b]
           IN  /\ v \in Reader /\ v.pc = u.pc /\ v.waits = u.waits /\ v.expired = u.expired
               /\ v.before = u.before /\ v.beats = b
               /\ HasAll(v, g) <=> HasAll(u, g)
               /\ Settled(v, g) <=> Settled(u, g)
               /\ Calm(v, g) <=> Calm(u, g)
               /\ SubscriberFits(v, g) <=> SubscriberFits(u, g)
<1> DEFINE v == [u EXCEPT !.beats = b]
<1>1. /\ v \in Reader /\ v.beats = b
      /\ v.pc = u.pc /\ v.waits = u.waits /\ v.expired = u.expired /\ v.before = u.before
      /\ v.cursor = u.cursor /\ v.detect = u.detect /\ v.observed = u.observed /\ v.pending = u.pending
      /\ v.from = u.from
  BY DEF Reader
<1> HIDE DEF v
<1>2. (HasAll(v, g) <=> HasAll(u, g)) /\ (Settled(v, g) <=> Settled(u, g)) /\ (Calm(v, g) <=> Calm(u, g))
  BY <1>1 DEF HasAll, Settled, Calm, Redis!Owed
<1>3. SubscriberFits(v, g) <=> SubscriberFits(u, g)
  BY <1>1 DEF SubscriberFits
<1> QED BY <1>1, <1>2, <1>3 DEF v

(* What a consumer has stays all it is owed while no event is appended.      *)
LEMMA RedisStays ==
    ASSUME LogFits, LogFits', events' = events, lastId' >= lastId, Redis!Exists' <=> Redis!Exists,
           ~Redis!Exists => lastId' = lastId, Redis!Exists => Head(log)'.id >= Head(log).id,
           NEW u \in Reader, NEW g
    PROVE  /\ HasAll(u, g) => HasAll(u, g)'
           /\ Settled(u, g) => Settled(u, g)'
           /\ Calm(u, g) => Calm(u, g)'
<1>1. u.from \in Nat /\ lastId \in Nat /\ lastId' \in Nat /\ (Redis!Exists => Head(log).id \in Nat)
      /\ (Redis!Exists' => Head(log)'.id \in Nat)
  <2>1. Redis!Exists => Head(log).id \in Nat
    BY RedisEnds
  <2>2. Redis!Exists' => Head(log)'.id \in Nat
    <3>1. ASSUME Redis!Exists' PROVE Head(log)'.id \in Nat
      <4>1. Len(log') \in Nat \ {0} /\ log' # <<>> /\ log' \in Seq(Kept)
        BY <3>1, EmptySeq DEF LogFits, Redis!Exists
      <4>2. 1 \in 1 .. Len(log') /\ Head(log') = log'[1]
        BY <4>1
      <4>3. log'[1] \in Kept
        BY <4>1, <4>2, ElementOfSeq
      <4> QED BY <4>2, <4>3 DEF Kept
    <3> QED BY <3>1
  <2> QED BY <2>1, <2>2, RedisReader DEF LogFits
<1>2. Redis!Owed(u) \in Nat /\ Redis!Owed(u)' \in Nat /\ Redis!Owed(u)' >= Redis!Owed(u)
  <2>1. CASE u.from # 0
    BY <1>1, <2>1 DEF Redis!Owed
  <2>2. CASE u.from = 0 /\ Redis!Exists
    <3>1. Redis!Owed(u) = Head(log).id /\ Redis!Owed(u)' = Head(log)'.id
      BY <2>2 DEF Redis!Owed
    <3> QED BY <1>1, <2>2, <3>1
  <2>3. CASE u.from = 0 /\ ~Redis!Exists
    <3>1. Redis!Owed(u) = lastId + 1 /\ Redis!Owed(u)' = lastId' + 1
      BY <2>3 DEF Redis!Owed
    <3> QED BY <1>1, <2>3, <3>1
  <2> QED BY <2>1, <2>2, <2>3
<1>3. \A e \in events : e \in Nat
  BY DEF LogFits
<1>4. HasAll(u, g) => HasAll(u, g)'
  BY <1>2, <1>3 DEF HasAll
<1>5. Settled(u, g) => Settled(u, g)'
  BY <1>4 DEF Settled
<1>6. Calm(u, g) => Calm(u, g)'
  BY <1>5 DEF Calm
<1> QED BY <1>4, <1>5, <1>6

(* A step that appends no event.                                             *)
LEMMA RedisQuiet ==
    ASSUME RedisInvariant, LogFits', ProducerFits', prod' \in Redis!Producer,
           tracked' \in BOOLEAN, active' \in BOOLEAN,
           events' = events, lastId' >= lastId, Redis!Exists' <=> Redis!Exists,
           ~Redis!Exists => lastId' = lastId, Redis!Exists => Head(log)'.id >= Head(log).id, got' = got,
           cons' = Redis!Unhurried \/ (cons' = cons /\ (prod.leased /\ Counting' => Counting)),
           prod'.leased = prod.leased, prod.leased /\ active' => active,
           prod'.pc \in Starting => prod.pc \in Starting,
           prod'.pc \in Producing => prod.pc \in Producing \cup Starting,
           prod.leased /\ Frozen => Frozen',
           prod.leased /\ ~tracked' => ~tracked \/ \A d \in Consumers : Calm(cons[d], got[d])
    PROVE  RedisInvariant'
<1>1. /\ RedisTypes /\ LogFits /\ ProducerFits /\ ConsumersFit
      /\ ExpiryIsSeen /\ UntrackedIsCalm /\ EndIsFrozen
  BY DEF RedisInvariant
<1>2. /\ cons \in [Consumers -> Reader] /\ got \in [Consumers -> SUBSET Nat] /\ lastId \in Nat
      /\ lastId' \in Nat /\ prod.leased \in BOOLEAN
  BY <1>1 DEF RedisTypes, LogFits, Redis!Producer
<1>3. ASSUME NEW c \in Consumers
      PROVE  \E b \in 0 .. 2 : /\ cons'[c] = [cons[c] EXCEPT !.beats = b]
                               /\ b = 0 \/ (b = cons[c].beats /\ (prod.leased /\ Counting' => Counting))
  <2>1. cons[c] \in Reader /\ cons[c].beats \in 0 .. 2 /\ 0 \in 0 .. 2
    BY <1>2, RedisReader
  <2>2. [cons[c] EXCEPT !.beats = cons[c].beats] = cons[c]
    BY <2>1 DEF Reader
  <2>3. CASE cons' = Redis!Unhurried
    <3>1. cons'[c] = [cons[c] EXCEPT !.beats = 0]
      BY <2>3 DEF Redis!Unhurried
    <3> QED BY <2>1, <3>1
  <2>4. CASE cons' = cons /\ (prod.leased /\ Counting' => Counting)
    BY <2>1, <2>2, <2>4
  <2> QED BY <2>3, <2>4
<1>4. ASSUME NEW c \in Consumers
      PROVE  /\ cons'[c] \in Reader /\ cons'[c].pc = cons[c].pc /\ cons'[c].waits = cons[c].waits
             /\ cons'[c].expired = cons[c].expired /\ cons'[c].before = cons[c].before
             /\ Calm(cons[c], got[c]) => Calm(cons[c], got[c])'
             /\ WatchFits(cons[c], got[c])'
             /\ ~cons[c].waits => SubscriberFits(cons[c], got[c])'
  <2>1. PICK u \in Reader : u = cons[c]
    BY <1>2
  <2>2. PICK g : g = got[c]
    OBVIOUS
  <2>3. WatchFits(u, g) /\ (~u.waits => SubscriberFits(u, g))
    BY <1>1, <2>1, <2>2 DEF ConsumersFit
  <2>4. PICK b \in 0 .. 2 : /\ cons'[c] = [u EXCEPT !.beats = b]
                            /\ b = 0 \/ (b = u.beats /\ (prod.leased /\ Counting' => Counting))
    BY <1>3, <2>1
  <2>5. PICK v : v = [u EXCEPT !.beats = b]
    OBVIOUS
  <2>6. /\ v \in Reader /\ v.pc = u.pc /\ v.waits = u.waits /\ v.expired = u.expired
        /\ v.before = u.before /\ v.beats = b
        /\ HasAll(v, g) <=> HasAll(u, g)
        /\ Settled(v, g) <=> Settled(u, g)
        /\ Calm(v, g) <=> Calm(u, g)
        /\ SubscriberFits(v, g) <=> SubscriberFits(u, g)
    BY <2>5, RedisBeats
  <2>7. /\ HasAll(v, g) => HasAll(v, g)'
        /\ Settled(v, g) => Settled(v, g)'
        /\ Calm(v, g) => Calm(v, g)'
    BY <1>1, <2>6, RedisStays
  <2>8. WatchFits(v, g)'
    <3>1. v.pc \in {"recheck", "purge"} \/ v.expired => prod'.leased /\ ~active'
      BY <2>3, <2>6 DEF WatchFits
    <3>2. (v.pc = "purge" => ~Redis!Exists') /\ (v.pc = "confirm" => v.expired)
      BY <2>3, <2>6 DEF WatchFits
    <3>3. prod'.pc \in Starting => v.pc \in {"new", "reading", "waiting", "beat"}
      BY <2>3, <2>6 DEF WatchFits
    <3>4. v.pc \in {"beat", "confirm"} /\ v.expired => v.before = {} /\ Settled(v, g)'
      BY <2>3, <2>6, <2>7 DEF WatchFits
    <3>5. /\ prod'.leased /\ Counting' /\ v.pc \notin {"new", "end", "gap"}
          /\ v.beats = 2 \/ (v.beats = 1 /\ v.pc = "beat")
          => Settled(v, g)'
      BY <2>3, <2>4, <2>6, <2>7 DEF WatchFits
    <3>6. prod'.leased /\ ~Redis!Exists' /\ lastId' > 0 /\ v.pc \notin {"new", "gap"} => Settled(v, g)'
      BY <2>3, <2>6, <2>7 DEF WatchFits
    <3>7. prod'.leased /\ v.pc = "end" /\ ~v.waits => HasAll(v, g)'
      BY <2>3, <2>6, <2>7 DEF WatchFits
    <3> QED BY <3>1, <3>2, <3>3, <3>4, <3>5, <3>6, <3>7 DEF WatchFits
  <2>9. ASSUME ~u.waits PROVE SubscriberFits(v, g)'
    <3>1. SubscriberFits(v, g)
      BY <2>3, <2>6, <2>9
    <3>2. v.cursor \in Nat /\ v.from \in Nat /\ (v.pending # <<>> => Len(v.pending) \in Nat)
      BY <2>6, RedisReader, RedisBase
    <3>3. prod.pc \notin Producing \cup Starting => prod'.pc \notin Producing \cup Starting
      OBVIOUS
    <3> QED BY <1>2, <3>1, <3>2, <3>3 DEF SubscriberFits
  <2> QED BY <2>1, <2>2, <2>4, <2>5, <2>6, <2>7, <2>8, <2>9
<1>5. RedisTypes'
  <2>1. cons' = [c \in Consumers |-> cons'[c]]
    BY <1>2 DEF Redis!Unhurried
  <2>2. cons' \in [Consumers -> Reader]
    BY <1>4, <2>1
  <2> QED BY <1>2, <2>2 DEF RedisTypes
<1>6. ConsumersFit'
  BY <1>4 DEF ConsumersFit
<1>7. ExpiryIsSeen'
  BY <1>1, <1>4 DEF ExpiryIsSeen
<1>8. UntrackedIsCalm'
  BY <1>1, <1>4 DEF UntrackedIsCalm
<1>9. EndIsFrozen'
  BY <1>1, <1>4 DEF EndIsFrozen
<1> QED BY <1>5, <1>6, <1>7, <1>8, <1>9 DEF RedisInvariant

(* An append: no consumer has given up on the producer.                      *)
LEMMA RedisAppend ==
    ASSUME Redis!RedisAssumption, RedisInvariant, NEW end \in BOOLEAN, Redis!Xadd(end), prod.pc \in Producing,
           Redis!AppendAllowed,
           UNCHANGED <<tracked, active, row, recovery, cons, got>>,
           prod' \in Redis!Producer, prod'.lease = prod.lease, prod'.leased = prod.leased,
           prod'.pc = IF end THEN "ended" ELSE prod.pc
    PROVE  RedisInvariant'
<1>1. /\ RedisTypes /\ LogFits /\ ProducerFits /\ ConsumersFit
  BY DEF RedisInvariant
<1>2. /\ cons \in [Consumers -> Reader] /\ got \in [Consumers -> SUBSET Nat] /\ lastId \in Nat
      /\ prod \in Redis!Producer
  BY <1>1 DEF RedisTypes, LogFits
<1>3. /\ LogFits' /\ Redis!Exists' /\ lastId' = lastId + 1 /\ (Redis!TailIsEnd' <=> end)
      /\ events' = (IF end THEN events ELSE events \cup {lastId + 1})
  BY <1>1, RedisXadd
<1>4. prod.leased => active /\ tracked /\ prod.lease = "held"
  BY <1>1, <1>2 DEF Redis!AppendAllowed, ProducerFits, Redis!Producer
<1>5. ~Frozen \/ ~prod.leased
  BY <1>4 DEF Frozen
<1>6. recovery = "idle" /\ ~Counting' /\ prod.pc \notin Starting /\ prod'.pc \notin Starting
  BY <1>1 DEF ProducerFits, Producing, Starting, Counting
<1>7. RedisTypes'
  BY <1>1 DEF RedisTypes
<1>8. ProducerFits'
  BY <1>1, <1>3, <1>6 DEF ProducerFits, Producing
<1>9. ASSUME NEW c \in Consumers
      PROVE  /\ cons[c] \in Reader /\ ~cons[c].expired /\ cons[c].pc \notin {"recheck", "purge", "confirm"}
             /\ prod.leased /\ ~cons[c].waits => cons[c].pc # "end"
             /\ ~cons[c].waits => SubscriberFits(cons[c], got[c])
  <2>1. cons[c] \in Reader /\ WatchFits(cons[c], got[c]) /\ (~cons[c].waits => SubscriberFits(cons[c], got[c]))
    BY <1>1, <1>2 DEF ConsumersFit
  <2>2. ~cons[c].expired /\ cons[c].pc \notin {"recheck", "purge", "confirm"}
    BY <1>4, <2>1 DEF WatchFits
  <2>3. prod.leased /\ ~cons[c].waits => cons[c].pc # "end"
    BY <1>5 DEF RedisInvariant, EndIsFrozen
  <2> QED BY <2>1, <2>2, <2>3
<1>10. ASSUME NEW c \in Consumers PROVE WatchFits(cons[c], got[c])'
  BY <1>3, <1>6, <1>9 DEF WatchFits
<1>11. ASSUME NEW c \in Consumers, ~cons[c].waits PROVE SubscriberFits(cons[c], got[c])'
  <2>1. PICK u \in Reader : u = cons[c]
    BY <1>2
  <2>2. PICK g : g = got[c]
    OBVIOUS
  <2>3. SubscriberFits(u, g)
    BY <1>9, <1>11, <2>1, <2>2
  <2>4. u.cursor \in Nat /\ u.from \in Nat /\ (u.pending # <<>> => Len(u.pending) \in Nat \ {0})
    BY RedisReader, RedisBase
  <2>5. u.cursor <= lastId' /\ u.from <= lastId' + 1
    BY <1>2, <1>3, <2>3, <2>4 DEF SubscriberFits
  <2>6. u.pc # "gap" => \A e \in events' : u.from # 0 /\ e \in u.from .. u.cursor => e \in g
    BY <1>2, <1>3, <2>3, <2>4 DEF SubscriberFits
  <2>7. ASSUME u.pending # <<>>
        PROVE  /\ u.from + Len(u.pending) <= lastId' + 1
               /\ \A i \in 1 .. Len(u.pending) : /\ u.pending[i].id = u.from + i - 1
                                                 /\ u.pending[i].end <=> u.pending[i].id \notin events'
               /\ ~u.pending[Len(u.pending)].end
    <3>1. /\ u.from + Len(u.pending) <= lastId + 1
          /\ \A i \in 1 .. Len(u.pending) : /\ u.pending[i].id = u.from + i - 1
                                            /\ u.pending[i].end <=> u.pending[i].id \notin events
          /\ ~u.pending[Len(u.pending)].end
      BY <2>3, <2>7 DEF SubscriberFits
    <3>2. ASSUME NEW i \in 1 .. Len(u.pending) PROVE u.pending[i].id # lastId + 1
      BY <1>2, <2>4, <2>7, <3>1
    <3>3. \A i \in 1 .. Len(u.pending) : u.pending[i].end <=> u.pending[i].id \notin events'
      BY <1>3, <3>1, <3>2
    <3> QED BY <1>2, <1>3, <2>4, <2>7, <3>1, <3>3
  <2>8. SubscriberFits(u, g)'
    BY <2>3, <2>5, <2>6, <2>7 DEF SubscriberFits
  <2> QED BY <2>1, <2>2, <2>8
<1>12. ConsumersFit'
  BY <1>10, <1>11 DEF ConsumersFit
<1>13. ExpiryIsSeen'
  BY <1>9 DEF ExpiryIsSeen
<1>14. UntrackedIsCalm'
  BY <1>4 DEF UntrackedIsCalm
<1>15. EndIsFrozen'
  BY <1>9 DEF EndIsFrozen
<1> QED BY <1>3, <1>7, <1>8, <1>12, <1>13, <1>14, <1>15 DEF RedisInvariant

(* A delayed cleanup: every subscriber has checked twice since the end.      *)
LEMMA RedisWipe ==
    ASSUME RedisInvariant, log' = <<>>, tracked' = FALSE, active' = FALSE, Counting, Redis!CleanupIsDue,
           UNCHANGED <<lastId, events, row, cons, got>>,
           prod' \in Redis!Producer, prod'.leased = prod.leased, prod.pc \notin Producing \cup Starting,
           prod'.pc \notin Producing \cup Starting, recovery' # "purge" \/ recovery' = recovery,
           recovery' # "idle" => prod'.pc \in {"fenced", "finished", "gone"}, prod'.lease = "held"
             => prod.leased
    PROVE  RedisInvariant'
<1>1. /\ RedisTypes /\ LogFits /\ ProducerFits /\ ConsumersFit
  BY DEF RedisInvariant
<1>2. cons \in [Consumers -> Reader] /\ got \in [Consumers -> SUBSET Nat] /\ lastId \in Nat
  BY <1>1 DEF RedisTypes, LogFits
<1>3. ~Redis!Exists' /\ log' \in Seq(Kept) /\ Len(log') = 0
  BY EmptySeq DEF Redis!Exists
<1>4. LogFits'
  BY <1>1, <1>2, <1>3 DEF LogFits
<1>5. RedisTypes'
  BY <1>1 DEF RedisTypes
<1>6. ProducerFits'
  BY <1>3 DEF ProducerFits, Redis!TailIsEnd
<1>7. ASSUME NEW u \in Reader, NEW g, HasAll(u, g) PROVE HasAll(u, g)'
  <2>1. \A e \in events : e \in 1 .. lastId
    BY <1>1 DEF LogFits
  <2>2. CASE u.from # 0
    BY <1>7, <2>2 DEF HasAll, Redis!Owed
  <2>3. CASE u.from = 0
    <3>1. Redis!Owed(u)' = lastId + 1
      BY <1>3, <2>3 DEF Redis!Owed
    <3>2. \A e \in events : ~(e >= lastId + 1)
      BY <1>2, <2>1
    <3> QED BY <3>1, <3>2 DEF HasAll
  <2> QED BY <2>2, <2>3
<1>8. ASSUME NEW c \in Consumers
      PROVE  /\ prod.leased /\ cons[c].pc \notin {"new", "gap"} => Settled(cons[c], got[c])'
             /\ cons[c] \in Reader /\ WatchFits(cons[c], got[c])
             /\ ~cons[c].waits => SubscriberFits(cons[c], got[c])
  <2>1. PICK u \in Reader : u = cons[c]
    BY <1>2
  <2>2. PICK g : g = got[c]
    OBVIOUS
  <2>3. WatchFits(u, g) /\ (~u.waits => SubscriberFits(u, g))
    BY <1>1, <2>1, <2>2 DEF ConsumersFit
  <2>4. u.pc \in {"new", "end", "gap"} \/ u.beats = 2
    BY <2>1 DEF Redis!CleanupIsDue
  <2>5. ASSUME prod.leased, u.pc \notin {"new", "gap"} PROVE Settled(u, g)
    <3>1. CASE u.pc = "end"
      BY <2>3, <2>5, <3>1 DEF WatchFits, Settled
    <3>2. CASE u.pc # "end"
      BY <2>3, <2>4, <2>5, <3>2 DEF WatchFits
    <3> QED BY <3>1, <3>2
  <2>6. Settled(u, g) => Settled(u, g)'
    BY <1>3, <1>7 DEF Settled
  <2> QED BY <2>1, <2>2, <2>3, <2>5, <2>6
<1>9. ASSUME NEW c \in Consumers PROVE WatchFits(cons[c], got[c])'
  <2>1. ASSUME prod.leased, cons[c].pc = "end", ~cons[c].waits PROVE HasAll(cons[c], got[c])'
    BY <1>7, <1>8, <2>1 DEF WatchFits
  <2> QED BY <1>3, <1>8, <2>1 DEF WatchFits
<1>10. ASSUME NEW c \in Consumers, ~cons[c].waits PROVE SubscriberFits(cons[c], got[c])'
  BY <1>8, <1>10 DEF SubscriberFits
<1>11. prod.leased => \A c \in Consumers : Calm(cons[c], got[c])'
  BY <1>3, <1>8 DEF Calm
<1>12. ConsumersFit'
  BY <1>9, <1>10 DEF ConsumersFit
<1>13. ExpiryIsSeen'
  <2>1. \A c \in Consumers : cons[c].expired => prod.leased
    BY <1>8 DEF WatchFits
  <2> QED BY <1>11, <2>1 DEF ExpiryIsSeen
<1>14. UntrackedIsCalm'
  BY <1>11 DEF UntrackedIsCalm
<1>15. EndIsFrozen'
  BY DEF EndIsFrozen, Frozen
<1> QED BY <1>4, <1>5, <1>6, <1>12, <1>13, <1>14, <1>15 DEF RedisInvariant

(* A producer that starts its lease: nothing was published yet.              *)
LEMMA RedisTrack ==
    ASSUME RedisInvariant, Redis!Track
    PROVE  RedisInvariant'
<1>1. /\ RedisTypes /\ LogFits /\ ProducerFits /\ ConsumersFit
  BY DEF RedisInvariant
<1>2. /\ prod.pc = "claimed" /\ tracked' = TRUE /\ prod' = [pc |-> "running", lease |-> "held", leased |-> TRUE]
      /\ UNCHANGED <<log, lastId, events, active, row, recovery, cons, got>>
  BY DEF Redis!Track
<1>3. lastId = 0 /\ ~Redis!Exists /\ ~prod.leased /\ prod.pc \in Starting
  BY <1>1, <1>2 DEF ProducerFits, Starting
<1>4. \A e \in events : FALSE
  BY <1>1, <1>3 DEF LogFits
<1>5. LogFits'
  BY <1>1, <1>2 DEF LogFits
<1>6. prod' \in Redis!Producer /\ prod'.pc = "running" /\ prod'.lease = "held" /\ prod'.leased
  BY <1>2 DEF Redis!Producer
<1>7. RedisTypes'
  BY <1>1, <1>2, <1>6 DEF RedisTypes
<1>8. ~Redis!Exists' /\ ~Redis!TailIsEnd'
  BY <1>2, <1>3 DEF Redis!Exists, Redis!TailIsEnd
<1>9. ProducerFits'
  BY <1>1, <1>2, <1>3, <1>6, <1>8 DEF ProducerFits, Starting, Producing
<1>10. ASSUME NEW c \in Consumers
       PROVE  /\ cons[c].pc \in {"new", "reading", "waiting", "beat"} /\ ~cons[c].expired
              /\ ~cons[c].waits => SubscriberFits(cons[c], got[c])
  BY <1>1, <1>3 DEF ConsumersFit, WatchFits
<1>11. \A u, g : Settled(u, g)'
  BY <1>2, <1>4 DEF Settled, HasAll
<1>12. ASSUME NEW c \in Consumers
       PROVE  WatchFits(cons[c], got[c])' /\ (~cons[c].waits => SubscriberFits(cons[c], got[c])')
  <2>1. WatchFits(cons[c], got[c])'
    BY <1>2, <1>6, <1>10, <1>11 DEF WatchFits, Starting
  <2>2. ASSUME ~cons[c].waits PROVE SubscriberFits(cons[c], got[c])'
    <3>1. PICK u : u = cons[c]
      OBVIOUS
    <3>2. PICK g : g = got[c]
      OBVIOUS
    <3>3. SubscriberFits(u, g)
      BY <1>10, <2>2, <3>1, <3>2
    <3>4. u.pending # <<>> => ~u.pending[Len(u.pending)].end
      BY <1>3, <3>3 DEF SubscriberFits
    <3>5. SubscriberFits(u, g)'
      BY <1>2, <3>3, <3>4 DEF SubscriberFits
    <3> QED BY <1>2, <3>1, <3>2, <3>5
  <2> QED BY <2>1, <2>2
<1>13. ConsumersFit'
  BY <1>2, <1>12 DEF ConsumersFit
<1>14. ExpiryIsSeen' /\ EndIsFrozen'
  BY <1>2, <1>10 DEF ExpiryIsSeen, EndIsFrozen
<1>15. UntrackedIsCalm'
  BY <1>2 DEF UntrackedIsCalm
<1> QED BY <1>5, <1>7, <1>9, <1>13, <1>14, <1>15 DEF RedisInvariant

(* The producer: where it stays and what it may change.                      *)
LEMMA RedisProducer ==
    ASSUME RedisInvariant
    PROVE  /\ LogFits /\ ProducerFits /\ prod \in Redis!Producer /\ lastId \in Nat
           /\ Redis!Exists => Head(log).id >= Head(log).id
           /\ tracked \in BOOLEAN /\ active \in BOOLEAN
           /\ prod.lease \in {"none", "held", "lost", "stopped"} /\ prod.leased \in BOOLEAN
           /\ Redis!LeaseAfterAppend \in {"none", "held", "lost", "stopped"}
           /\ Redis!LeaseAfterAppend = "held" <=> prod.lease = "held" /\ Redis!AppendAllowed
           /\ Redis!LeaseAfterAppend # "held"
                => Redis!LeaseAfterAppend = prod.lease \/ Redis!LeaseAfterAppend = "lost"
           /\ Redis!AppendAllowed => Redis!LeaseAfterAppend = prod.lease
<1>1. LogFits /\ ProducerFits /\ prod \in Redis!Producer /\ tracked \in BOOLEAN /\ active \in BOOLEAN
  BY DEF RedisInvariant, RedisTypes
<1>2. lastId \in Nat /\ (Redis!Exists => Head(log).id >= Head(log).id)
  BY <1>1, RedisEnds DEF LogFits
<1>3. prod.lease \in {"none", "held", "lost", "stopped"} /\ prod.leased \in BOOLEAN
  BY <1>1 DEF Redis!Producer
<1> QED BY <1>1, <1>2, <1>3 DEF Redis!LeaseAfterAppend

(* A step of the producer that leaves the log alone.                         *)
LEMMA RedisRuns ==
    ASSUME RedisInvariant,
           Redis!Claim \/ Redis!Untracked \/ Redis!Commit \/ Redis!Fence \/ Redis!FinishLease
             \/ Redis!RenewalLost \/ Redis!Crash \/ Redis!ExpireActive
    PROVE  RedisInvariant'
<1>1. /\ LogFits /\ ProducerFits /\ prod \in Redis!Producer /\ lastId \in Nat /\ tracked \in BOOLEAN
      /\ active \in BOOLEAN /\ (Redis!Exists => Head(log).id >= Head(log).id)
  BY RedisProducer
<1>2. /\ UNCHANGED <<log, lastId, events, tracked, recovery, got>>
      /\ cons' = cons \/ (Redis!FinishLease /\ cons' = Redis!Unhurried)
  BY DEF Redis!Claim, Redis!Untracked, Redis!Commit, Redis!Fence, Redis!FinishLease, Redis!RenewalLost,
         Redis!Crash, Redis!ExpireActive
<1>3. LogFits' /\ (Redis!Exists' <=> Redis!Exists) /\ (Redis!TailIsEnd' <=> Redis!TailIsEnd)
  BY <1>1, <1>2 DEF LogFits, Redis!Exists, Redis!TailIsEnd
<1>4. CASE Redis!Claim
  <2>1. prod' \in Redis!Producer /\ prod'.pc = "claimed" /\ prod'.leased = prod.leased
        /\ prod'.lease = prod.lease
        /\ prod.pc = "new" /\ active' = TRUE /\ row' = row
    BY <1>1, <1>4 DEF Redis!Claim, Redis!Producer
  <2>2. ~prod.leased
    BY <1>1, <2>1 DEF ProducerFits, Starting
  <2>3. ProducerFits'
    BY <1>1, <1>2, <1>3, <2>1, <2>2 DEF ProducerFits, Starting, Producing
  <2> QED BY <1>1, <1>2, <1>3, <1>4, <2>1, <2>2, <2>3, RedisQuiet DEF Redis!Claim, Counting, Starting, Producing
<1>5. CASE Redis!Untracked
  <2>1. prod' \in Redis!Producer /\ prod'.pc = "running" /\ prod'.leased = prod.leased
        /\ prod'.lease = prod.lease
        /\ prod.pc \in Starting /\ active' \in BOOLEAN /\ ~active' /\ row' = row /\ cons' = cons
    BY <1>1, <1>5 DEF Redis!Untracked, Redis!Producer, Starting
  <2>2. ~prod.leased /\ lastId = 0 /\ ~Redis!Exists
    BY <1>1, <2>1 DEF ProducerFits
  <2>3. ProducerFits'
    BY <1>1, <1>2, <1>3, <2>1, <2>2 DEF ProducerFits, Starting, Producing, Redis!TailIsEnd
  <2> QED BY <1>1, <1>2, <1>3, <1>5, <2>1, <2>2, <2>3, RedisQuiet DEF Counting, Starting, Producing
<1>6. CASE Redis!Commit \/ Redis!Fence
  <2>1. /\ prod' \in Redis!Producer /\ prod'.pc \in {"tail", "fenced"} /\ prod'.leased = prod.leased
        /\ prod'.lease = prod.lease /\ prod.pc = "running" /\ active' = active /\ cons' = cons
    BY <1>1, <1>6 DEF Redis!Commit, Redis!Fence, Redis!Producer
  <2>2. ProducerFits'
    BY <1>1, <1>2, <1>3, <2>1 DEF ProducerFits, Starting, Producing
  <2>3. Frozen => Frozen'
    BY <1>2, <2>1 DEF Frozen, Producing
  <2> QED BY <1>1, <1>2, <1>3, <2>1, <2>2, <2>3, RedisQuiet DEF Counting, Starting, Producing
<1>7. CASE Redis!FinishLease
  <2>1. /\ prod' \in Redis!Producer /\ prod'.pc = "finished" /\ prod'.leased = prod.leased
        /\ prod'.lease # "held" /\ prod.pc \in {"ended", "fenced"}
        /\ active' \in BOOLEAN /\ (active' => active) /\ cons' = Redis!Unhurried
    <3>1. PICK l \in {"none", "stopped"} : l = IF prod.lease = "none" THEN prod.lease ELSE "stopped"
      OBVIOUS
    <3>2. prod' = [prod EXCEPT !.pc = "finished", !.lease = l]
      BY <1>7, <3>1 DEF Redis!FinishLease
    <3> QED BY <1>1, <1>7, <3>2 DEF Redis!FinishLease, Redis!Producer
  <2>2. ProducerFits'
    BY <1>1, <1>2, <1>3, <2>1 DEF ProducerFits, Starting, Producing
  <2>3. Frozen'
    BY <2>1 DEF Frozen, Producing
  <2> QED BY <1>1, <1>2, <1>3, <2>1, <2>2, <2>3, RedisQuiet DEF Starting, Producing
<1>8. CASE Redis!RenewalLost
  <2>1. /\ prod' \in Redis!Producer /\ prod'.pc = prod.pc /\ prod'.leased = prod.leased
        /\ prod'.lease = "lost" /\ active' = active /\ row' = row /\ cons' = cons
    BY <1>1, <1>8 DEF Redis!RenewalLost, Redis!Producer
  <2>2. ProducerFits'
    BY <1>1, <1>2, <1>3, <2>1 DEF ProducerFits
  <2>3. Frozen'
    BY <2>1 DEF Frozen
  <2> QED BY <1>1, <1>2, <1>3, <2>1, <2>2, <2>3, RedisQuiet DEF Counting
<1>9. CASE Redis!Crash
  <2>1. /\ prod' \in Redis!Producer /\ prod'.pc = "gone" /\ prod'.leased = prod.leased
        /\ prod'.lease = "none" /\ active' = active /\ row' = row /\ cons' = cons
    BY <1>1, <1>9 DEF Redis!Crash, Redis!Producer
  <2>2. ProducerFits'
    BY <1>1, <1>2, <1>3, <2>1 DEF ProducerFits, Starting, Producing
  <2>3. Frozen'
    BY <2>1 DEF Frozen, Producing
  <2> QED BY <1>1, <1>2, <1>3, <2>1, <2>2, <2>3, RedisQuiet DEF Counting, Starting, Producing
<1>10. CASE Redis!ExpireActive
  <2>1. /\ prod' = prod /\ prod' \in Redis!Producer /\ active' \in BOOLEAN /\ ~active' /\ row' = row
        /\ cons' = cons
    BY <1>1, <1>10 DEF Redis!ExpireActive
  <2>2. ProducerFits'
    BY <1>1, <1>2, <1>3, <2>1 DEF ProducerFits
  <2>3. Frozen'
    BY <2>1 DEF Frozen
  <2> QED BY <1>1, <1>2, <1>3, <2>1, <2>2, <2>3, RedisQuiet DEF Counting
<1> QED BY <1>4, <1>5, <1>6, <1>7, <1>8, <1>9, <1>10

(* The steps that publish.                                                   *)
LEMMA RedisPublishes ==
    ASSUME Redis!RedisAssumption, RedisInvariant, Redis!PublishEvent \/ Redis!PublishEnd
    PROVE  RedisInvariant'
<1>1. /\ LogFits /\ ProducerFits /\ prod \in Redis!Producer /\ lastId \in Nat /\ tracked \in BOOLEAN
      /\ active \in BOOLEAN /\ (Redis!Exists => Head(log).id >= Head(log).id)
      /\ prod.lease \in {"none", "held", "lost", "stopped"} /\ prod.leased \in BOOLEAN
      /\ Redis!LeaseAfterAppend \in {"none", "held", "lost", "stopped"}
      /\ Redis!LeaseAfterAppend = "held" <=> prod.lease = "held" /\ Redis!AppendAllowed
      /\ Redis!LeaseAfterAppend # "held"
           => Redis!LeaseAfterAppend = prod.lease \/ Redis!LeaseAfterAppend = "lost"
      /\ Redis!AppendAllowed => Redis!LeaseAfterAppend = prod.lease
  BY RedisProducer
<1>2. UNCHANGED <<tracked, active, row, recovery, cons, got>> /\ prod.pc \in Producing
  BY DEF Redis!PublishEvent, Redis!PublishEnd, Producing
<1>3. PICK l \in {"none", "held", "lost", "stopped"} : l = Redis!LeaseAfterAppend
  BY <1>1
<1>4. PICK p \in {"running", "tail", "ended"} : p = IF Redis!PublishEnd THEN "ended" ELSE prod.pc
  BY <1>2 DEF Producing
<1>5. prod' \in Redis!Producer /\ prod'.pc = p /\ prod'.lease = l /\ prod'.leased = prod.leased
  <2>1. prod' = [prod EXCEPT !.lease = l] \/ prod' = [prod EXCEPT !.pc = "ended", !.lease = l]
    BY <1>3 DEF Redis!PublishEvent, Redis!PublishEnd
  <2>2. CASE Redis!PublishEnd
    <3>1. prod' = [prod EXCEPT !.pc = "ended", !.lease = l]
      BY <1>3, <2>2 DEF Redis!PublishEnd
    <3> QED BY <1>1, <1>4, <2>2, <3>1 DEF Redis!Producer
  <2>3. CASE ~Redis!PublishEnd
    <3>1. prod' = [prod EXCEPT !.lease = l]
      BY <1>3, <2>3 DEF Redis!PublishEvent
    <3> QED BY <1>1, <1>4, <2>3, <3>1 DEF Redis!Producer
  <2> QED BY <2>2, <2>3
<1>6. CASE Redis!AppendAllowed /\ Redis!Xadd(FALSE) /\ ~Redis!PublishEnd
  BY <1>1, <1>2, <1>3, <1>4, <1>5, <1>6, RedisAppend
<1>7. CASE Redis!AppendAllowed /\ Redis!Xadd(TRUE) /\ Redis!PublishEnd
  BY <1>1, <1>2, <1>3, <1>4, <1>5, <1>7, RedisAppend
<1>8. CASE Redis!Silent
  <2>1. UNCHANGED <<log, lastId, events>>
    BY <1>8 DEF Redis!Silent
  <2>2. LogFits' /\ (Redis!Exists' <=> Redis!Exists) /\ (Redis!TailIsEnd' <=> Redis!TailIsEnd)
    BY <1>1, <2>1 DEF LogFits, Redis!Exists, Redis!TailIsEnd
  <2>3. ProducerFits'
    BY <1>1, <1>2, <1>3, <1>4, <1>5, <2>1, <2>2 DEF ProducerFits, Starting, Producing
  <2>4. Frozen => Frozen'
    BY <1>1, <1>2, <1>3, <1>4, <1>5 DEF Frozen, Producing
  <2>5. Counting' => Counting
    BY <1>2, <1>4, <1>5 DEF Counting
  <2>6. prod'.pc \notin Starting /\ prod.pc \in Producing
    BY <1>2, <1>4, <1>5 DEF Starting
  <2> QED BY <1>1, <1>2, <1>5, <2>1, <2>2, <2>3, <2>4, <2>5, <2>6, RedisQuiet
<1>9. (Redis!AppendAllowed /\ Redis!Xadd(FALSE) /\ ~Redis!PublishEnd)
        \/ (Redis!AppendAllowed /\ Redis!Xadd(TRUE) /\ Redis!PublishEnd) \/ Redis!Silent
  BY DEF Redis!PublishEvent, Redis!PublishEnd
<1> QED BY <1>6, <1>7, <1>8, <1>9

(* The steps of the recovery, but for its cleanup.                           *)
LEMMA RedisRecovers ==
    ASSUME Redis!RedisAssumption, RedisInvariant, Redis!Reclaim \/ Redis!Probe \/ Redis!RecoveryPurge
             \/ Redis!RecoveryEnd
    PROVE  RedisInvariant'
<1>1. /\ LogFits /\ ProducerFits /\ prod \in Redis!Producer /\ lastId \in Nat /\ tracked \in BOOLEAN
      /\ active \in BOOLEAN /\ (Redis!Exists => Head(log).id >= Head(log).id)
  BY RedisProducer
<1>2. UNCHANGED <<events, active, prod, got>> /\ prod.pc \in {"fenced", "finished", "gone"}
  BY <1>1
  DEF Redis!Reclaim, Redis!Probe, Redis!RecoveryPurge, Redis!RecoveryEnd, ProducerFits, Redis!Silent, Redis!Xadd
<1>3. prod.pc \notin Producing \cup Starting /\ ~(prod.pc \in Starting)
  BY <1>2 DEF Producing, Starting
<1>4. CASE Redis!Reclaim \/ Redis!Probe
  <2>1. /\ UNCHANGED <<log, lastId, tracked, cons>>
        /\ recovery' = "purge" => ~Redis!Exists
        /\ recovery' # "clean"
    BY <1>4 DEF Redis!Reclaim, Redis!Probe
  <2>2. LogFits' /\ (Redis!Exists' <=> Redis!Exists) /\ (Redis!TailIsEnd' <=> Redis!TailIsEnd)
    BY <1>1, <1>2, <2>1 DEF LogFits, Redis!Exists, Redis!TailIsEnd
  <2>3. ProducerFits'
    BY <1>1, <1>2, <1>3, <2>1, <2>2 DEF ProducerFits
  <2>4. (Frozen => Frozen') /\ (Counting' => Counting)
    BY <1>2, <2>1 DEF Frozen, Counting
  <2> QED BY <1>1, <1>2, <2>1, <2>2, <2>3, <2>4, RedisQuiet
<1>5. CASE Redis!RecoveryPurge
  <2>1. /\ UNCHANGED <<log, lastId, cons, row>> /\ ~Redis!Exists
        /\ recovery' \in {"done", "retry"} /\ tracked' \in BOOLEAN /\ (tracked' => tracked)
    BY <1>1, <1>5 DEF Redis!RecoveryPurge, Redis!PurgeOk, ProducerFits
  <2>2. LogFits' /\ (Redis!Exists' <=> Redis!Exists) /\ (Redis!TailIsEnd' <=> Redis!TailIsEnd)
    BY <1>1, <1>2, <2>1 DEF LogFits, Redis!Exists, Redis!TailIsEnd
  <2>3. ProducerFits'
    BY <1>1, <1>2, <1>3, <2>1, <2>2 DEF ProducerFits
  <2>4. Frozen' /\ (Counting' => Counting)
    BY <1>2, <1>3, <2>1 DEF Frozen, Counting
  <2>5. prod.leased => \A d \in Consumers : Calm(cons[d], got[d])
    BY <2>1, RedisNothing
  <2> QED BY <1>1, <1>2, <2>1, <2>2, <2>3, <2>4, <2>5, RedisQuiet
<1>6. CASE Redis!RecoveryEnd /\ active
  <2>1. /\ UNCHANGED <<log, lastId, cons, row, tracked>>
        /\ recovery' \in {"done", "retry"}
    BY <1>6 DEF Redis!RecoveryEnd, Redis!Silent
  <2>2. LogFits' /\ (Redis!Exists' <=> Redis!Exists) /\ (Redis!TailIsEnd' <=> Redis!TailIsEnd)
    BY <1>1, <1>2, <2>1 DEF LogFits, Redis!Exists, Redis!TailIsEnd
  <2>3. ProducerFits'
    BY <1>1, <1>2, <1>3, <2>1, <2>2 DEF ProducerFits
  <2>4. (Frozen => Frozen') /\ (Counting' => Counting)
    BY <1>2, <2>1 DEF Frozen, Counting
  <2> QED BY <1>1, <1>2, <2>1, <2>2, <2>3, <2>4, RedisQuiet
<1>7. CASE Redis!RecoveryEnd /\ ~active
  <2>1. cons' = Redis!Unhurried /\ recovery' = "clean" /\ UNCHANGED <<row, tracked>>
        /\ (Redis!Silent \/ (Redis!Exists /\ Redis!Xadd(TRUE)))
    BY <1>7 DEF Redis!RecoveryEnd
  <2>2. /\ LogFits' /\ (Redis!Exists' <=> Redis!Exists) /\ lastId' >= lastId
           /\ (~Redis!Exists => lastId' = lastId)
        /\ Redis!Exists => Head(log)'.id >= Head(log).id
    <3>1. CASE Redis!Silent
      BY <1>1, <3>1 DEF Redis!Silent, LogFits, Redis!Exists
    <3>2. CASE Redis!Exists /\ Redis!Xadd(TRUE)
      <4>1. LogFits' /\ Redis!Exists' /\ lastId' = lastId + 1 /\ (Redis!Exists => Head(log)'.id >= Head(log).id)
        BY <1>1, <3>2, RedisXadd
      <4> QED BY <1>1, <3>2, <4>1
    <3> QED BY <2>1, <3>1, <3>2
  <2>3. ProducerFits'
    BY <1>1, <1>2, <1>3, <2>1 DEF ProducerFits
  <2>4. Frozen => Frozen'
    BY <1>2, <2>1 DEF Frozen
  <2> QED BY <1>1, <1>2, <2>1, <2>2, <2>3, <2>4, RedisQuiet
<1> QED BY <1>4, <1>5, <1>6, <1>7

(* The two delayed cleanups.                                                 *)
LEMMA RedisCleans ==
    ASSUME RedisInvariant, Redis!Cleanup \/ Redis!RecoveryCleanup
    PROVE  RedisInvariant'
<1>1. /\ LogFits /\ ProducerFits /\ prod \in Redis!Producer /\ lastId \in Nat /\ tracked \in BOOLEAN
      /\ active \in BOOLEAN /\ (Redis!Exists => Head(log).id >= Head(log).id)
  BY RedisProducer
<1>2. CASE Redis!Cleanup
  <2>1. /\ prod' = [prod EXCEPT !.pc = "gone"] /\ prod.pc = "finished" /\ Redis!CleanupIsDue
        /\ log' = <<>> /\ tracked' = FALSE /\ active' = FALSE
        /\ UNCHANGED <<lastId, events, row, recovery, cons, got>>
    BY <1>2 DEF Redis!Cleanup
  <2>2. prod' \in Redis!Producer /\ prod'.pc = "gone" /\ prod'.leased = prod.leased /\ prod'.lease = prod.lease
    BY <1>1, <2>1 DEF Redis!Producer
  <2>3. prod'.lease = "held" => prod.leased
    BY <1>1, <2>2 DEF ProducerFits
  <2> QED BY <2>1, <2>2, <2>3, RedisWipe DEF Counting, Producing, Starting
<1>3. CASE Redis!RecoveryCleanup
  <2>1. /\ prod' = prod /\ recovery = "clean" /\ recovery' = "done" /\ Redis!CleanupIsDue
        /\ UNCHANGED <<lastId, events, active, row, cons, got>>
        /\ prod.pc \in {"fenced", "finished", "gone"}
    BY <1>1, <1>3 DEF Redis!RecoveryCleanup, ProducerFits
  <2>2. CASE active
    <3>1. log' = log /\ tracked' \in BOOLEAN /\ (tracked' <=> tracked)
      BY <1>1, <1>3, <2>2 DEF Redis!RecoveryCleanup
    <3>2. LogFits' /\ (Redis!Exists' <=> Redis!Exists) /\ (Redis!TailIsEnd' <=> Redis!TailIsEnd)
      BY <1>1, <2>1, <3>1 DEF LogFits, Redis!Exists, Redis!TailIsEnd
    <3>3. ProducerFits'
      BY <1>1, <2>1, <3>1, <3>2 DEF ProducerFits
    <3>4. (Frozen => Frozen') /\ (Counting' => Counting)
      BY <2>1, <3>1 DEF Frozen, Counting
    <3> QED BY <1>1, <2>1, <3>1, <3>2, <3>3, <3>4, RedisQuiet DEF Producing, Starting
  <2>3. CASE ~active
    <3>1. log' = <<>> /\ tracked' = FALSE /\ active' = FALSE
      BY <1>1, <1>3, <2>1, <2>3 DEF Redis!RecoveryCleanup
    <3>2. prod'.lease = "held" => prod.leased
      BY <1>1, <2>1 DEF ProducerFits
    <3> QED BY <1>1, <2>1, <3>1, <3>2, RedisWipe DEF Counting, Producing, Starting
  <2> QED BY <2>2, <2>3
<1> QED BY <1>2, <1>3

(* A state that does not change.                                             *)
LEMMA RedisStutters ==
    ASSUME RedisInvariant, UNCHANGED Redis!vars
    PROVE  RedisInvariant'
<1>1. /\ LogFits /\ ProducerFits /\ prod \in Redis!Producer /\ lastId \in Nat /\ tracked \in BOOLEAN
      /\ active \in BOOLEAN /\ (Redis!Exists => Head(log).id >= Head(log).id)
  BY RedisProducer
<1>2. UNCHANGED <<log, lastId, events, tracked, active, row, prod, recovery, cons, got>>
  BY DEF Redis!vars
<1>3. LogFits' /\ (Redis!Exists' <=> Redis!Exists) /\ (Redis!TailIsEnd' <=> Redis!TailIsEnd)
  BY <1>1, <1>2 DEF LogFits, Redis!Exists, Redis!TailIsEnd
<1>4. ProducerFits'
  BY <1>1, <1>2, <1>3 DEF ProducerFits
<1>5. (Frozen => Frozen') /\ (Counting' => Counting)
  BY <1>2 DEF Frozen, Counting
<1> QED BY <1>1, <1>2, <1>3, <1>4, <1>5, RedisQuiet

(* Nothing was published, and nobody has joined.                             *)
LEMMA RedisBegins ==
    ASSUME Redis!RedisAssumption, Redis!Init
    PROVE  RedisInvariant
<1>1. /\ log = <<>> /\ lastId = 0 /\ events = {} /\ tracked = FALSE /\ active = FALSE /\ row = "active"
      /\ prod = [pc |-> "new", lease |-> "none", leased |-> FALSE] /\ recovery = "idle"
      /\ got = [c \in Consumers |-> {}]
  BY DEF Redis!Init
<1>2. PICK w \in [Consumers -> BOOLEAN] : cons = [c \in Consumers |-> Redis!NewConsumer(w[c])]
  BY DEF Redis!Init
<1>3. ~Redis!Exists /\ Len(log) = 0 /\ log \in Seq(Kept)
  BY <1>1, EmptySeq DEF Redis!Exists
<1>4. LogFits
  BY <1>1, <1>3 DEF LogFits
<1>5. prod \in Redis!Producer /\ prod.pc = "new" /\ prod.lease = "none" /\ ~prod.leased
  BY <1>1 DEF Redis!Producer
<1>6. ProducerFits
  BY <1>1, <1>3, <1>5 DEF ProducerFits, Starting, Producing, Redis!TailIsEnd
<1>7. ASSUME NEW c \in Consumers
      PROVE  /\ cons[c] \in Reader
             /\ cons[c].pc = "new" /\ ~cons[c].expired /\ cons[c].pending = <<>> /\ cons[c].from = 0
             /\ cons[c].cursor = 0 /\ ~cons[c].observed
  <2>1. PICK b \in BOOLEAN : b = w[c]
    OBVIOUS
  <2>2. cons[c] = [pc |-> "new", waits |-> b, cursor |-> 0, detect |-> FALSE, observed |-> FALSE,
                   expired |-> FALSE, pending |-> <<>>, from |-> 0, beats |-> 0, before |-> {}]
    BY <1>2, <2>1 DEF Redis!NewConsumer
  <2>3. 0 \in 0 .. 2 /\ <<>> \in Seq(Kept) /\ {} \in SUBSET Consumers
    BY EmptySeq
  <2> QED BY <2>2, <2>3 DEF Reader
<1>8. RedisTypes
  <2>1. cons \in [Consumers -> Reader]
    BY <1>2, <1>7
  <2>2. got \in [Consumers -> SUBSET Nat]
    BY <1>1
  <2> QED BY <1>1, <1>5, <2>1, <2>2 DEF RedisTypes
<1>9. ASSUME NEW c \in Consumers PROVE WatchFits(cons[c], got[c]) /\ SubscriberFits(cons[c], got[c])
  <2>1. WatchFits(cons[c], got[c])
    BY <1>5, <1>7 DEF WatchFits
  <2>2. SubscriberFits(cons[c], got[c])
    BY <1>1, <1>7 DEF SubscriberFits
  <2> QED BY <2>1, <2>2
<1>10. ConsumersFit /\ ExpiryIsSeen /\ UntrackedIsCalm /\ EndIsFrozen
  BY <1>5, <1>7, <1>9 DEF ConsumersFit, ExpiryIsSeen, UntrackedIsCalm, EndIsFrozen
<1> QED BY <1>4, <1>6, <1>8, <1>10 DEF RedisInvariant

(* Every step keeps the invariant.                                           *)
LEMMA RedisKeeps ==
    ASSUME Redis!RedisAssumption, RedisInvariant, [Redis!Next]_(Redis!vars)
    PROVE  RedisInvariant'
<1>1. CASE Redis!Claim \/ Redis!Untracked \/ Redis!Commit \/ Redis!Fence \/ Redis!FinishLease
             \/ Redis!RenewalLost \/ Redis!Crash \/ Redis!ExpireActive
  BY <1>1, RedisRuns
<1>2. CASE Redis!Track
  BY <1>2, RedisTrack
<1>3. CASE Redis!PublishEvent \/ Redis!PublishEnd
  BY <1>3, RedisPublishes
<1>4. CASE Redis!Cleanup \/ Redis!RecoveryCleanup
  BY <1>4, RedisCleans
<1>5. CASE Redis!Reclaim \/ Redis!Probe \/ Redis!RecoveryPurge \/ Redis!RecoveryEnd
  BY <1>5, RedisRecovers
<1>6. ASSUME NEW c \in Consumers, Redis!Join(c) \/ Redis!Working(c) \/ Redis!Reconnect(c)
      PROVE  RedisInvariant'
  <2>1. CASE Redis!Join(c)
    BY <2>1, RedisJoin
  <2>2. CASE Redis!MissingState(c)
    BY <2>2, RedisMissingState
  <2>3. CASE Redis!Recheck(c)
    BY <2>3, RedisRecheck
  <2>4. CASE Redis!MissingPurge(c)
    BY <2>4, RedisMissingPurge
  <2>5. CASE Redis!Read(c)
    BY <2>5, RedisRead
  <2>6. CASE Redis!Wake(c)
    BY <2>6, RedisWake
  <2>7. CASE Redis!Heartbeat(c)
    BY <2>7, RedisHeartbeat
  <2>8. CASE Redis!Check(c)
    BY <2>8, RedisCheck
  <2>9. CASE Redis!Confirm(c)
    BY <2>9, RedisConfirm
  <2>10. CASE Redis!Reconnect(c)
    BY <2>10, RedisReconnect
  <2> QED BY <1>6, <2>1, <2>2, <2>3, <2>4, <2>5, <2>6, <2>7, <2>8, <2>9, <2>10 DEF Redis!Working
<1>7. CASE UNCHANGED Redis!vars
  BY <1>7, RedisStutters
<1> QED BY <1>1, <1>2, <1>3, <1>4, <1>5, <1>6, <1>7 DEF Redis!Next, Redis!ProducerNext, Redis!RecoveryNext

(* The invariant holds of every behaviour of the stream and its consumers.   *)
THEOREM RedisIsInvariant == Redis!RedisAssumption => (Redis!Spec => []RedisInvariant)
<1> SUFFICES ASSUME Redis!RedisAssumption
             PROVE  Redis!Spec => []RedisInvariant
  OBVIOUS
<1>1. Redis!Init => RedisInvariant
  BY RedisBegins
<1>2. RedisInvariant /\ [Redis!Next]_(Redis!vars) => RedisInvariant'
  BY RedisKeeps
<1> QED BY <1>1, <1>2, PTL DEF Redis!Spec

(* A subscriber that has gone past an entry it was owed has received it      *)
(* (subscribe).                                                              *)
THEOREM RedisSkipsNothing == Redis!RedisAssumption => (Redis!Spec => []Redis!NoSkippedEvent)
<1> SUFFICES ASSUME Redis!RedisAssumption
             PROVE  Redis!Spec => []Redis!NoSkippedEvent
  OBVIOUS
<1>1. RedisInvariant => Redis!NoSkippedEvent
  BY DEF RedisInvariant, ConsumersFit, SubscriberFits, Redis!NoSkippedEvent
<1>2. Redis!Spec => []RedisInvariant
  BY RedisIsInvariant
<1> QED BY <1>1, <1>2, PTL

(* END, published or made up, never cuts the tail off (sse_consumer,         *)
(* _orphan_recovery_observed_after_heartbeat).                               *)
THEOREM RedisEndsLast == Redis!RedisAssumption => (Redis!Spec => []Redis!EndCutsNothing)
<1> SUFFICES ASSUME Redis!RedisAssumption
             PROVE  Redis!Spec => []Redis!EndCutsNothing
  OBVIOUS
<1>1. RedisInvariant => Redis!EndCutsNothing
  <2> SUFFICES ASSUME RedisInvariant, NEW c \in Consumers, ~cons[c].waits, cons[c].pc = "end", prod.leased
               PROVE  \A e \in events : e >= cons[c].from => e \in got[c]
    BY DEF Redis!EndCutsNothing
  <2>1. WatchFits(cons[c], got[c]) /\ SubscriberFits(cons[c], got[c])
    BY RedisKnown
  <2>2. HasAll(cons[c], got[c]) /\ cons[c].from # 0
    BY <2>1 DEF WatchFits, SubscriberFits
  <2> QED BY <2>2 DEF HasAll, Redis!Owed
<1>2. Redis!Spec => []RedisInvariant
  BY RedisIsInvariant
<1> QED BY <1>1, <1>2, PTL
=============================================================================
