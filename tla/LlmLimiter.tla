------------------------------ MODULE LlmLimiter ------------------------------
(* The process-wide limiter of in-flight LLM calls (_ProcessWideLimiter):     *)
(* threads wait on a condition, tasks of any event loop wait in a queue, and  *)
(* a returning permit goes to the first live waiter of the queue before it    *)
(* goes back to the pool.  Every action is one block under the limiter lock.  *)
EXTENDS Integers, Sequences, FiniteSets, SequencesExt

CONSTANTS
    SyncCallers,   \* threads that call acquire_sync
    AsyncCallers,  \* tasks that call acquire_async
    Limit          \* the frozen cap

LimiterAssumption ==
    /\ Limit \in Nat \ {0}
    /\ SyncCallers \cap AsyncCallers = {}
    /\ IsFiniteSet(SyncCallers) /\ IsFiniteSet(AsyncCallers)

Callers == SyncCallers \cup AsyncCallers

VARIABLES
    inFlight,  \* _in_flight
    waiters,   \* _async_waiters
    sleepers,  \* the threads in _cond.wait(), in order
    pc         \* where each caller is

vars == <<inFlight, waiters, sleepers, pc>>

Init ==
    /\ inFlight = 0
    /\ waiters = <<>> /\ sleepers = <<>>
    /\ pc = [c \in Callers |-> "idle"]

(* The callers that own a permit: a granted one has yet to wake up.          *)
Holders == {c \in Callers : pc[c] \in {"running", "granted"}}

(* _try_acquire_locked fails: a thread sleeps, a task queues up.             *)
Park(c) ==
    IF c \in SyncCallers
    THEN sleepers' = Append(sleepers, c) /\ pc' = [pc EXCEPT ![c] = "asleep"] /\ UNCHANGED waiters
    ELSE waiters' = Append(waiters, c) /\ pc' = [pc EXCEPT ![c] = "queued"] /\ UNCHANGED sleepers

(* acquire_sync and acquire_async, and the second look of a woken thread.    *)
AcquireOverCap(c) ==
    /\ pc[c] \in {"idle", "notified"}
    /\ inFlight' = inFlight + 1
    /\ pc' = [pc EXCEPT ![c] = "running"]
    /\ UNCHANGED <<waiters, sleepers>>

Acquire(c) ==
    /\ pc[c] \in {"idle", "notified"}
    /\ IF inFlight < Limit
       THEN /\ inFlight' = inFlight + 1
            /\ pc' = [pc EXCEPT ![c] = "running"]
            /\ UNCHANGED <<waiters, sleepers>>
       ELSE Park(c) /\ UNCHANGED inFlight

(* The permit returns to the pool and one sleeping thread is notified.       *)
FreeQuietly(held) ==
    /\ inFlight' = inFlight - 1
    /\ pc' = held
    /\ UNCHANGED sleepers

Free(held) ==
    /\ inFlight' = IF inFlight > 0 THEN inFlight - 1 ELSE inFlight
    /\ sleepers' = IF sleepers = <<>> THEN <<>> ELSE Tail(sleepers)
    /\ pc' = IF sleepers = <<>> THEN held ELSE [held EXCEPT ![Head(sleepers)] = "notified"]

(* The places of the queue whose task waits on a loop that is open.          *)
Live == {i \in DOMAIN waiters : pc[waiters[i]] = "queued"}

(* release and _handoff_granted_permit_locked: the first waiter whose loop   *)
(* is open takes the permit over; those before it are dropped.               *)
HandOver(held, i) ==
    /\ \A j \in Live : i <= j
    /\ waiters' = SubSeq(waiters, i + 1, Len(waiters))
    /\ pc' = [held EXCEPT ![waiters[i]] = "granted"]
    /\ UNCHANGED <<inFlight, sleepers>>

GiveUpToPool(c) == Free([pc EXCEPT ![c] = "idle"]) /\ UNCHANGED waiters

GiveUp(c) ==
    LET held == [pc EXCEPT ![c] = "idle"]
    IN  \/ \E i \in Live : HandOver(held, i)
        \/ Live = {} /\ waiters' = <<>> /\ Free(held)

Release(c) == pc[c] = "running" /\ GiveUp(c)

(* The event that release set reaches the task.                              *)
Wake(c) ==
    /\ pc[c] = "granted"
    /\ pc' = [pc EXCEPT ![c] = "running"]
    /\ UNCHANGED <<inFlight, waiters, sleepers>>

(* A waiting task is cancelled: it unregisters, or, when a permit was        *)
(* already reserved for it, hands that on.                                   *)
Unregister(c) == \E i \in DOMAIN waiters : waiters[i] = c /\ waiters' = RemoveAt(waiters, i)

CancelUnregister(c) ==
    /\ \/ pc[c] = "queued" /\ Unregister(c)
       \/ pc[c] = "granted" /\ UNCHANGED waiters
    /\ pc' = [pc EXCEPT ![c] = "idle"]
    /\ UNCHANGED <<inFlight, sleepers>>

Cancel(c) ==
    \/ pc[c] = "granted" /\ GiveUp(c)
    \/ /\ pc[c] = "queued" /\ Unregister(c)
       /\ pc' = [pc EXCEPT ![c] = "idle"]
       /\ UNCHANGED <<inFlight, sleepers>>

(* The loop of a queued task is closed under it: its entry stays behind.     *)
LoopCloses(c) ==
    /\ pc[c] = "queued"
    /\ pc' = [pc EXCEPT ![c] = "dead"]
    /\ UNCHANGED <<inFlight, waiters, sleepers>>

Next == \E c \in Callers : Acquire(c) \/ Release(c) \/ Wake(c) \/ Cancel(c) \/ LoopCloses(c)

Spec == Init /\ [][Next]_vars

(* A model call ends, a set event wakes its task, a notified thread runs.    *)
FairSpec ==
    /\ Spec
    /\ \A c \in Callers :
        WF_vars(Release(c)) /\ WF_vars(Wake(c)) /\ WF_vars(pc[c] = "notified" /\ Acquire(c))
-----------------------------------------------------------------------------
TypeOK ==
    /\ inFlight \in 0 .. Limit
    /\ pc \in [Callers -> {"idle", "running", "asleep", "notified", "queued", "granted", "dead"}]
    /\ waiters \in Seq(AsyncCallers) /\ sleepers \in Seq(SyncCallers)

(* Permits neither leak nor multiply: the counter is the number of callers   *)
(* that own one, whatever cancellation does to a waiter that was just        *)
(* granted its permit (acquire_async, _handoff_granted_permit_locked).       *)
PermitsAccounted == inFlight = Cardinality(Holders)

(* A caller waits only while there is no permit for it: a live task only at  *)
(* the cap, a thread also while as many woken threads as there are free      *)
(* permits have yet to look (release, notify).                               *)
NoLostPermit ==
    /\ Live # {} => inFlight = Limit
    /\ sleepers # <<>> =>
           Limit - inFlight <= Cardinality({c \in SyncCallers : pc[c] = "notified"})

(* A task that waits for a permit gets one, if it is not cancelled and its   *)
(* loop stays open: returning permits go to the queue first, in order.       *)
WaiterIsServed == \A c \in AsyncCallers : pc[c] = "queued" ~> pc[c] # "queued"
=============================================================================
