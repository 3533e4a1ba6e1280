----------------------------- MODULE MemoryQueue -----------------------------
(* The debounced queue of memory updates (MemoryUpdateQueue): conversation    *)
(* turns feed it, a timer wakes a single consumer for the earliest deadline,  *)
(* and shutdown drains it within a budget (flush_sync).  A block under _lock  *)
(* is a step, and so is one extraction.  Deadlines are abstracted to passed   *)
(* or not; _reprocess_pending is left out, since nothing reads it.            *)
EXTENDS Integers, Sequences, FiniteSets

CONSTANTS
    Keys,      \* (thread, user, agent) targets, of one agent each
    MaxDepth,  \* queue_max_depth; 0 for no limit
    MaxFeeds,  \* bound: updates fed to the queue
    MaxWaiting \* bound: timer callbacks waiting at once

QueueAssumption == MaxDepth \in Nat /\ MaxFeeds \in Nat /\ MaxWaiting \in Nat

VARIABLES
    feeds,      \* every update the queue accepted, in order
    items,      \* _items
    timer,      \* _timer and its deadline
    callbacks,  \* timer threads that have fired and wait for _lock
    batch,      \* what the consumer took out and has not finished
    consumer,   \* the thread that processes, or "none" (_processing)
    drain       \* the shutdown drain

vars == <<feeds, items, timer, callbacks, batch, consumer, drain>>

Kinds == {"plain", "signal", "emergency"}

Feed == [key : Keys, kind : Kinds, state : {"pending", "done", "cancelled"}]

Context ==
    [feed    : 1 .. MaxFeeds,         \* the update its messages come from
     key     : Keys,
     bypass  : BOOLEAN,               \* an emergency snapshot
     signals : SUBSET (1 .. MaxFeeds),\* the updates whose signals it carries
     due     : BOOLEAN]               \* due_at has passed

(* caller: the thread in flush_sync; flusher: the thread it starts.          *)
Drain ==
    [caller  : {"out", "join", "pending", "idle", "wait", "still", "empty", "idle_true", "true", "false"},
     flusher : {"none", "mark", "take", "work", "done"},
     before  : SUBSET (1 .. MaxFeeds)] \* what was pending when it was called

Init ==
    /\ feeds = <<>> /\ items = {}
    /\ timer = "none" /\ callbacks = 0
    /\ batch = {} /\ consumer = "none"
    /\ drain = [caller |-> "out", flusher |-> "none", before |-> {}]
-----------------------------------------------------------------------------
(* _schedule_timer for a passed deadline or for the earliest one.            *)
Wakeup(its) == IF \E c \in its : c.due THEN "due" ELSE "later"

(* _rearm_timer_locked: an earlier wakeup is kept.                           *)
Rearm(its, busy) ==
    timer' = IF its = {} \/ busy \/ timer \in {"due", "fired"} \/ (timer # "none" /\ Wakeup(its) = "later")
             THEN timer
             ELSE Wakeup(its)

(* _enqueue_locked: a normal update replaces the pending normal one of its   *)
(* key and keeps its signals; an emergency snapshot stays by itself.         *)
ExistingAny(k, kind) == {c \in items : c.key = k}

Existing(k, kind) == {c \in items : c.key = k /\ ~c.bypass /\ kind # "emergency"}

Rejected(k, kind) ==
    /\ MaxDepth > 0 /\ kind = "plain"
    /\ Existing(k, kind) = {} /\ Cardinality(items) >= MaxDepth

Signals(its) == UNION {c.signals : c \in its}

Enqueue(k, kind) ==
    LET n   == Len(feeds) + 1
        old == Existing(k, kind)
        new == [feed    |-> n, key |-> k, bypass |-> kind = "emergency",
                signals |-> Signals(old) \cup (IF kind = "signal" THEN {n} ELSE {}),
                due     |-> kind = "emergency" \/ \E c \in old : c.due]
    IN  /\ n <= MaxFeeds
        /\ feeds' = Append(feeds, [key |-> k, kind |-> kind, state |-> "pending"])
        /\ items' = (items \ old) \cup {new}

(* add; a rejected update raises QueueFull and changes nothing.              *)
Add(k, kind) ==
    /\ kind # "emergency" /\ ~Rejected(k, kind)
    /\ Enqueue(k, kind)
    /\ Rearm(items', consumer # "none")
    /\ UNCHANGED <<callbacks, batch, consumer, drain>>

(* add_nowait.                                                               *)
AddNowait(k) ==
    /\ Enqueue(k, "emergency")
    /\ timer' = "due"
    /\ UNCHANGED <<callbacks, batch, consumer, drain>>

DueNow(its) == {[c EXCEPT !.due = TRUE] : c \in its}

(* flush_nowait.                                                             *)
FlushNowait ==
    /\ items # {}
    /\ items' = DueNow(items)
    /\ timer' = "due"
    /\ UNCHANGED <<feeds, callbacks, batch, consumer, drain>>

(* An update is covered by a context that will hand its messages, and its    *)
(* signal, to the updater: a normal context has the whole history of its key.*)
Covers(c, i) ==
    /\ c.key = feeds[i].key
    /\ IF feeds[i].kind = "emergency" THEN c.bypass /\ c.feed = i
       ELSE ~c.bypass /\ c.feed >= i /\ (feeds[i].kind = "signal" => i \in c.signals)

Covered(its) == {i \in DOMAIN feeds : \E c \in its : Covers(c, i)}

Pending == {i \in DOMAIN feeds : feeds[i].state = "pending"}

Settle(is, state) ==
    feeds' = [i \in DOMAIN feeds |->
                IF i \in is \cap Pending THEN [feeds[i] EXCEPT !.state = state] ELSE feeds[i]]

(* cancel_by_agent: what the consumer already took is left alone.            *)
CancelByAgent(ks) ==
    LET gone == {c \in items : c.key \in ks}
    IN  /\ gone # {}
        /\ items' = items \ gone
        /\ timer' = IF items' = {} THEN "none" ELSE timer
        /\ Settle(Covered(gone) \ Covered(batch), "cancelled")
        /\ UNCHANGED <<callbacks, batch, consumer, drain>>
-----------------------------------------------------------------------------
(* A debouncing deadline passes.                                             *)
Elapse(c) ==
    /\ ~c.due
    /\ items' = (items \ {c}) \cup {[c EXCEPT !.due = TRUE]}
    /\ UNCHANGED <<feeds, timer, callbacks, batch, consumer, drain>>

(* The timer fires.  Its callback can no longer be cancelled.                *)
TimerFires ==
    /\ timer \in {"later", "due"} /\ callbacks < MaxWaiting
    /\ timer' = "fired" /\ callbacks' = callbacks + 1
    /\ UNCHANGED <<feeds, items, batch, consumer, drain>>

(* The first block of _process_queue, run by a timer callback (due_only) or  *)
(* by a flush.  The consumer's thread is by.                                 *)
Select(by, due_only) ==
    LET took == {c \in items : c.due \/ ~due_only}
    IN  IF consumer # "none" \/ items = {}
        THEN timer' = "none" /\ UNCHANGED <<items, batch, consumer>>
        ELSE IF took = {}
        THEN timer' = "later" /\ UNCHANGED <<items, batch, consumer>>
        ELSE /\ timer' = "none"
             /\ consumer' = by
             /\ batch' = took /\ items' = items \ took

Callback ==
    /\ callbacks > 0
    /\ callbacks' = callbacks - 1
    /\ Select("timer", TRUE)
    /\ UNCHANGED <<feeds, drain>>

(* One update_memory call returns; a failure is logged and swallowed.        *)
Process ==
    \E c \in batch :
        /\ batch' = batch \ {c}
        /\ Settle(Covered({c}), "done")
        /\ UNCHANGED <<items, timer, callbacks, consumer, drain>>

(* The finally block of _process_queue.                                      *)
Finished ==
    /\ consumer' = "none"
    /\ drain' = IF consumer = "flush" THEN [drain EXCEPT !.flusher = "done"] ELSE drain
    /\ UNCHANGED <<feeds, items, callbacks, batch>>

FinishUnarmed == consumer # "none" /\ batch = {} /\ Finished /\ UNCHANGED timer

Finish == consumer # "none" /\ batch = {} /\ Finished /\ Rearm(items, FALSE)
-----------------------------------------------------------------------------
(* flush, on the thread that flush_sync starts: the deadlines are brought    *)
(* forward, then everything is taken unless another consumer is busy.        *)
FlushMark ==
    /\ drain.flusher = "mark"
    /\ timer' = "none"
    /\ items' = DueNow(items)
    /\ drain' = [drain EXCEPT !.flusher = "take"]
    /\ UNCHANGED <<feeds, callbacks, batch, consumer>>

FlushTake ==
    /\ drain.flusher = "take"
    /\ Select("flush", FALSE)
    /\ drain' = [drain EXCEPT !.flusher = IF consumer' = "flush" THEN "work" ELSE "done"]
    /\ UNCHANGED <<feeds, callbacks>>

Caller(from, to) ==
    /\ drain.caller = from
    /\ drain' = [drain EXCEPT !.caller = to]
    /\ UNCHANGED <<feeds, items, timer, callbacks, batch, consumer>>

(* flush_sync, step by step: it looks for a consumer in flight and joins it, *)
(* which ends when that thread has or when the budget is spent.              *)
DrainStart ==
    /\ drain.caller = "out"
    /\ drain' = [drain EXCEPT !.caller = IF consumer = "none" THEN "pending" ELSE "join",
                              !.before = Pending]
    /\ UNCHANGED <<feeds, items, timer, callbacks, batch, consumer>>

DrainJoined == Caller("join", "pending")

(* It reads pending_count, then is_processing, under the lock each.          *)
DrainIdle ==
    \/ Caller("pending", IF items = {} THEN "idle" ELSE "wait")
    \/ Caller("idle", IF consumer = "none" THEN "idle_true" ELSE "wait")

(* It starts the flush and waits for it, until the deadline at most.         *)
DrainFlush ==
    /\ drain.caller = "wait" /\ drain.flusher = "none"
    /\ drain' = [drain EXCEPT !.flusher = "mark"]
    /\ UNCHANGED <<feeds, items, timer, callbacks, batch, consumer>>

DrainTimeout == drain.flusher # "none" /\ Caller("wait", "false")

DrainFlushed == drain.flusher = "done" /\ Caller("wait", "still")

(* The answer: is_processing is read first here, then pending_count.         *)
DrainAnswer ==
    \/ Caller("still", IF consumer = "none" THEN "empty" ELSE "false")
    \/ Caller("empty", IF items = {} THEN "true" ELSE "false")

Next ==
    \/ \E k \in Keys, kind \in Kinds : Add(k, kind)
    \/ \E k \in Keys : AddNowait(k)
    \/ \E ks \in SUBSET Keys : CancelByAgent(ks)
    \/ \E c \in items : Elapse(c)
    \/ FlushNowait \/ TimerFires \/ Callback \/ Process \/ Finish
    \/ FlushMark \/ FlushTake
    \/ DrainStart \/ DrainJoined \/ DrainIdle \/ DrainFlush \/ DrainTimeout \/ DrainFlushed \/ DrainAnswer

Spec == Init /\ [][Next]_vars

(* Time passes, a started timer fires, its thread gets the lock, the         *)
(* extractions return, and the flush thread runs.                            *)
FairSpec ==
    /\ Spec
    /\ WF_vars(\E c \in items : Elapse(c)) /\ WF_vars(TimerFires) /\ WF_vars(Callback)
    /\ WF_vars(Process) /\ WF_vars(Finish) /\ WF_vars(FlushMark) /\ WF_vars(FlushTake)
-----------------------------------------------------------------------------
TypeOK ==
    /\ feeds \in Seq(Feed) /\ Len(feeds) <= MaxFeeds
    /\ items \subseteq Context /\ batch \subseteq Context
    /\ timer \in {"none", "later", "due", "fired"} /\ callbacks \in 0 .. MaxWaiting
    /\ consumer \in {"none", "timer", "flush"} /\ drain \in Drain

(* An accepted update waits in the queue or is with the consumer until it    *)
(* was extracted or cancelled: coalescing, emergency snapshots, cancelling   *)
(* another agent and a drain never drop its messages or its signal           *)
(* (_enqueue_locked, _process_queue).                                        *)
NoUpdateDropped == Pending \subseteq Covered(items) \cup Covered(batch)

(* Every accepted update is extracted or cancelled at last: whoever disarms  *)
(* the timer leaves a consumer or a wakeup behind (_rearm_timer_locked,      *)
(* _process_queue, flush).                                                   *)
UpdatesSettle == \A i \in 1 .. MaxFeeds : i \in Pending ~> i \notin Pending

(* What flush_sync promises: True only if the drain genuinely finished.      *)
TrueMeansDrained == drain.caller = "true" => drain.before \cap Pending = {}
=============================================================================
