------------------------------- MODULE McpTask -------------------------------
(* One long-running task on an MCP server: the gateways that poll it, cancel  *)
(* it and tell its thread about it through agent runs (McpTaskService and     *)
(* McpTaskRepository).  A gateway works on one claim at a time; a claim's     *)
(* token is the gateway, since it claims again only after giving up the last  *)
(* claim.  An UPDATE is a step.  A claim of notification work reads its row   *)
(* and then writes it: other notifiers wait for the row lock (SQLite has one  *)
(* gateway, so one notifier), but on SQLite polls do not.  Clocks are         *)
(* abstracted to lease expired or not; what waits for a retry may be due.     *)
EXTENDS Integers, FiniteSets

CONSTANTS
    Workers,        \* gateways
    Setups,         \* bound: which gateways poll, which notify, whether the user cancels
    DegradedAfter,  \* tracking_degraded_after_errors
    MaxAttempts,    \* _MAX_NOTIFICATION_ATTEMPTS
    MaxMoves,       \* bound: changes of the remote task
    MaxVersions     \* bound: events recorded

VARIABLES
    conf,    \* the setup
    remote,  \* the task on its server, with the number of its changes
    task,    \* the lifecycle columns of the mcp_tasks row
    note,    \* its notification columns
    run,     \* the agent runs, by dispatch version and attempt
    worker   \* the gateways

vars == <<conf, remote, task, note, run, worker>>

None      == "none"

McpAssumption ==
    /\ DegradedAfter \in Nat /\ MaxAttempts \in Nat /\ MaxMoves \in Nat /\ MaxVersions \in Nat
    /\ None \notin Workers

Terminal  == {"completed", "failed", "cancelled"}
Attention == Terminal \cup {"input"}
Statuses  == Attention \cup {"working"}
Owners    == Workers \cup {None}

Event   == [status : Statuses \cup {None}, degraded : BOOLEAN]
NoEvent == [status |-> None, degraded |-> FALSE]

Snapshot == [status : Statuses, at : 0 .. MaxMoves]

Task ==
    [status : Statuses,
     cancel : BOOLEAN,                \* cancel_requested_at is set
     errors : 0 .. DegradedAfter,     \* consecutive_poll_error_count
     by     : Owners, fresh : BOOLEAN,
     seen   : 0 .. MaxMoves]          \* the change that status stands for (not in the code)

NoteStatuses == {None, "pending", "claimed", "launching", "dispatched", "retry", "delivered", "dead_letter"}

Note ==
    [status   : NoteStatuses,
     version  : 0 .. MaxVersions, print : Event,     \* event_version, event_fingerprint
     notified : 0 .. MaxVersions,
     dispatch : 0 .. MaxVersions, event : Event,     \* dispatch_version, dispatch_event
     attempt  : 0 .. MaxAttempts,                    \* dispatch_attempt
     fails    : 0 .. MaxAttempts,                    \* notification_attempt_count
     by       : Owners, fresh : BOOLEAN,
     dead     : 0 .. MaxVersions]                    \* the version dead-lettered last (not in the code)

(* What a notifier keeps of them.                                            *)
Record == [status : NoteStatuses, version : 0 .. MaxVersions, dispatch : 0 .. MaxVersions, event : Event,
           attempt : 0 .. MaxAttempts, fails : 0 .. MaxAttempts]

Worker ==
    [pc   : {"idle", "poll", "polled", "failed", "cancel", "cancelled", "read", "claimed", "launch", "launched"},
     got  : Snapshot,      \* what the server answered
     rec  : Record,        \* the notification columns as read, then as claimed
     made : Event]         \* the event as built when they were read

Keys == (1 .. MaxVersions) \X (0 .. MaxAttempts)

FreshNote ==
    [status |-> None, version |-> 0, print |-> NoEvent, notified |-> 0, dispatch |-> 0, event |-> NoEvent,
     attempt |-> 0, fails |-> 0, by |-> None, fresh |-> FALSE, dead |-> 0]

NoRecord ==
    [status |-> None, version |-> 0, dispatch |-> 0, event |-> NoEvent, attempt |-> 0, fails |-> 0]

Idle == [pc |-> "idle", got |-> [status |-> "working", at |-> 0], rec |-> NoRecord, made |-> NoEvent]

Init ==
    /\ conf \in Setups
    /\ remote = [status |-> "working", at |-> 0]
    /\ task = [status |-> "working", cancel |-> FALSE, errors |-> 0, by |-> None, fresh |-> FALSE, seen |-> 0]
    /\ note = FreshNote
    /\ run = [k \in Keys |-> [state |-> None, event |-> NoEvent]]
    /\ worker = [w \in Workers |-> Idle]
-----------------------------------------------------------------------------
(* _notification_event.                                                      *)
NotificationEvent(t) ==
    LET degraded == t.errors >= DegradedAfter
    IN  IF t.status \in Attention \/ degraded THEN [status |-> t.status, degraded |-> degraded] ELSE NoEvent

InFlight == {"claimed", "launching", "dispatched", "retry"}

(* _record_event_if_changed: a version that is being delivered stays.        *)
Noted(event) ==
    IF event \in {NoEvent, note.print} THEN note
    ELSE IF note.status \in InFlight
    THEN [note EXCEPT !.print = event, !.version = @ + 1]
    ELSE [note EXCEPT !.print = event, !.version = @ + 1, !.status = "pending",
                      !.fails = 0, !.dispatch = 0, !.attempt = 0, !.event = NoEvent]

Go(w, state) == worker' = [worker EXCEPT ![w] = state]
To(w, pc)    == worker' = [worker EXCEPT ![w].pc = pc]

Unclaimed(t) == [t EXCEPT !.by = None, !.fresh = FALSE]

(* The server works on the task; its own failure is like its success here.   *)
RemoteMoves ==
    /\ remote.status \notin Terminal /\ remote.at < MaxMoves
    /\ \E status \in Statuses \ {remote.status, "failed", "cancelled"} :
        remote' = [status |-> status, at |-> remote.at + 1]
    /\ UNCHANGED <<conf, task, note, run, worker>>

(* request_cancel.                                                           *)
RequestCancel ==
    /\ conf.cancels /\ task.status \notin Terminal /\ ~task.cancel
    /\ task' = [Unclaimed(task) EXCEPT !.cancel = TRUE]
    /\ UNCHANGED <<conf, remote, note, run, worker>>
-----------------------------------------------------------------------------
(* claim_due_tasks and claim_cancel_requests.                                *)
ClaimControl(w) ==
    /\ w \in conf.poll /\ worker[w].pc = "idle"
    /\ task.status \notin Terminal /\ (task.by = None \/ ~task.fresh)
    /\ task' = [task EXCEPT !.by = w, !.fresh = TRUE]
    /\ Go(w, [Idle EXCEPT !.pc = IF task.cancel THEN "cancel" ELSE "poll"])
    /\ UNCHANGED <<conf, remote, note, run>>

(* _poll_one_claimed asks the server: an answer, an error that is final, or  *)
(* one that is not.                                                          *)
Ask(w) ==
    /\ worker[w].pc = "poll"
    /\ \/ Go(w, [Idle EXCEPT !.pc = "polled", !.got = remote])
       \/ Go(w, [Idle EXCEPT !.pc = "polled", !.got = [remote EXCEPT !.status = "failed"]])
       \/ Go(w, [Idle EXCEPT !.pc = "failed"])
    /\ UNCHANGED <<conf, remote, task, note, run>>

(* apply_snapshot.                                                           *)
Applied(w) ==
    /\ task' = [Unclaimed(task) EXCEPT !.status = worker[w].got.status, !.errors = 0, !.seen = worker[w].got.at]
    /\ note' = Noted(NotificationEvent(task'))

ApplyUnfenced(w) ==
    /\ worker[w].pc = "polled" /\ note.version < MaxVersions
    /\ IF task.status \notin Terminal /\ ~task.cancel THEN Applied(w) ELSE UNCHANGED <<task, note>>
    /\ Go(w, Idle) /\ UNCHANGED <<conf, remote, run>>

Apply(w) ==
    /\ worker[w].pc = "polled" /\ note.version < MaxVersions
    /\ IF task.by = w /\ task.fresh /\ task.status \notin Terminal /\ ~task.cancel
       THEN Applied(w) ELSE UNCHANGED <<task, note>>
    /\ Go(w, Idle) /\ UNCHANGED <<conf, remote, run>>

(* release_claim.                                                            *)
ReleaseClaim(w) ==
    /\ worker[w].pc = "failed" /\ note.version < MaxVersions
    /\ IF task.by = w
       THEN /\ task' = [Unclaimed(task) EXCEPT !.errors = IF @ < DegradedAfter THEN @ + 1 ELSE @]
            /\ note' = Noted(NotificationEvent(task'))
       ELSE UNCHANGED <<task, note>>
    /\ Go(w, Idle)
    /\ UNCHANGED <<conf, remote, run>>

(* _cancel_one_claimed cancels the task on the server, finds that it cannot  *)
(* be reached for good, or fails for now.                                    *)
AskCancel(w) ==
    /\ worker[w].pc = "cancel"
    /\ \/ /\ remote' = IF remote.status \in Terminal THEN remote ELSE [remote EXCEPT !.status = "cancelled"]
          /\ Go(w, [Idle EXCEPT !.pc = "cancelled", !.got = remote'])
       \/ Go(w, [Idle EXCEPT !.pc = "cancelled", !.got = [remote EXCEPT !.status = "failed"]]) /\ UNCHANGED remote
    /\ UNCHANGED <<conf, task, note, run>>

(* apply_cancel_snapshot.                                                    *)
ApplyCancel(w) ==
    /\ worker[w].pc = "cancelled" /\ note.version < MaxVersions
    /\ IF task.by = w /\ task.fresh /\ task.status \notin Terminal
       THEN /\ task' = [Unclaimed(task) EXCEPT !.status = worker[w].got.status, !.seen = worker[w].got.at]
            /\ note' = Noted(NotificationEvent([task' EXCEPT !.errors = 0]))
       ELSE UNCHANGED <<task, note>>
    /\ Go(w, Idle)
    /\ UNCHANGED <<conf, remote, run>>

(* release_cancel_claim after an error, and what a call that was cancelled   *)
(* or lost its claim gives back.                                             *)
StopControl(w) ==
    /\ worker[w].pc \in {"poll", "polled", "failed", "cancel", "cancelled"}
    /\ task' = IF task.by = w THEN Unclaimed(task) ELSE task
    /\ Go(w, Idle)
    /\ UNCHANGED <<conf, remote, note, run>>
-----------------------------------------------------------------------------
Unread == \A w \in Workers : worker[w].pc # "read"

(* claim_notification_work reads a row ...                                   *)
Claimable == InFlight \cup {"pending"}

ReadWork(w) ==
    /\ w \in conf.notify /\ worker[w].pc = "idle" /\ Unread
    /\ note.version > note.notified /\ note.status \in Claimable
    /\ note.by = None \/ ~note.fresh
    /\ Go(w, [Idle EXCEPT !.pc = "read", !.rec = [f \in DOMAIN NoRecord |-> note[f]], !.made = NotificationEvent(task)])
    /\ UNCHANGED <<conf, remote, task, note, run>>

Rebuilds(rec) ==
    \/ rec.status \in {"pending", "claimed"}
    \/ rec.status = "retry" /\ rec.dispatch # rec.version
    \/ rec.event = NoEvent /\ rec.dispatch # rec.version

(* ... and writes the columns it changed: the claim, with a new snapshot of  *)
(* the event if none is under way.                                           *)
ClaimedRec(w) ==
    LET rec     == worker[w].rec
        rebuilt == [rec EXCEPT !.status = "claimed", !.dispatch = rec.version, !.event = worker[w].made,
                               !.attempt = IF rec.dispatch # rec.version THEN 0 ELSE @,
                               !.fails   = IF rec.dispatch # rec.version THEN 0 ELSE @]
    IN  IF Rebuilds(rec) THEN rebuilt ELSE rec

ClaimWork(w) ==
    LET rec == worker[w].rec
        new == ClaimedRec(w)
    IN  /\ worker[w].pc = "read" /\ new.event # NoEvent
        /\ note' = [f \in DOMAIN note |->
                       IF f = "by" THEN w ELSE IF f = "fresh" THEN TRUE
                       ELSE IF f \in DOMAIN rec /\ new[f] # rec[f] THEN new[f] ELSE note[f]]
        /\ Go(w, [Idle EXCEPT !.pc = "claimed", !.rec = [new EXCEPT !.version = 0]])
        /\ UNCHANGED <<conf, remote, task, run>>

(* What the event stood for is over: it is consumed, unless it changed since *)
(* the row was read.                                                         *)
Consumed(version) ==
    [FreshNote EXCEPT !.version = version, !.notified = version, !.dead = note.dead]

ConsumeWork(w) ==
    LET rec     == worker[w].rec
        version == IF Rebuilds(rec) THEN rec.version ELSE rec.dispatch
    IN  /\ worker[w].pc = "read" /\ ClaimedRec(w).event = NoEvent
        /\ note' = IF note.version = version /\ note.status = rec.status THEN Consumed(version) ELSE note
        /\ Go(w, Idle)
        /\ UNCHANGED <<conf, remote, task, run>>

(* The fence of every write a notifier makes after its claim.                *)
Holds(w)   == note.by = w
Current(w) == Holds(w) /\ note.fresh /\ note.dispatch = worker[w].rec.dispatch

Free(n) == [n EXCEPT !.by = None, !.fresh = FALSE]

(* Failures are counted up to the limit they are compared with.              *)
Failed(n) == [Free(n) EXCEPT !.fails = IF @ < MaxAttempts THEN @ + 1 ELSE @]

(* finish_notification_run, when the run of a dispatched event is over.      *)
Delivered ==
    [Free(note) EXCEPT !.notified = note.dispatch,
                       !.status = IF note.version > note.dispatch THEN "pending" ELSE "delivered",
                       !.dispatch = 0, !.attempt = 0, !.event = NoEvent, !.fails = 0]

Retried ==
    [Failed(note) EXCEPT !.status = "retry", !.attempt = @ + 1]

(* _notify_one_claimed for a dispatched event, and                           *)
(* defer_dispatched_notification while its run is under way.  How the run    *)
(* ends is decided when it is looked at first.                               *)
DeliveredAll == [Delivered EXCEPT !.status = "delivered"]

FollowUp(w, delivered) ==
    LET rec == worker[w].rec
        key == <<rec.dispatch, rec.attempt>>
    IN  /\ worker[w].pc = "claimed" /\ rec.status = "dispatched" /\ Unread
        /\ \E state \in {"live", "success", "error"} :
            /\ run[key].state \in {"live", state}
            /\ run' = [run EXCEPT ![key].state = state]
            /\ note' = IF ~(Current(w) /\ note.status = "dispatched") THEN note
                       ELSE IF state = "success" THEN delivered
                       ELSE IF state = "error" THEN Retried
                       ELSE Free(note)
        /\ Go(w, Idle)
        /\ UNCHANGED <<conf, remote, task>>

FollowAll(w) == FollowUp(w, DeliveredAll)

Follow(w) == FollowUp(w, Delivered)

(* dead_letter_notification: a newer event stays to be delivered.            *)
DeadLettered(fails) ==
    IF note.version > note.dispatch
    THEN [Free(note) EXCEPT !.status = "pending", !.fails = 0, !.dispatch = 0, !.attempt = 0, !.event = NoEvent]
    ELSE [Free(note) EXCEPT !.status = "dead_letter", !.dead = note.dispatch, !.fails = fails,
                            !.dispatch = 0, !.attempt = 0, !.event = NoEvent]

Spent(w) == worker[w].rec.status # "launching" /\ worker[w].rec.fails >= MaxAttempts

GiveUp(w) ==
    /\ Unread
    /\ \/ worker[w].pc = "claimed" /\ worker[w].rec.status # "dispatched" /\ Spent(w)
       \/ worker[w].pc = "launch"                           \* PermanentNotificationError
    /\ note' = IF Current(w) /\ note.status \in InFlight THEN DeadLettered(note.fails) ELSE note
    /\ Go(w, Idle)
    /\ UNCHANGED <<conf, remote, task, run>>

(* begin_notification_launch; when it is refused, the lease or the claim is  *)
(* released.                                                                 *)
BeginLaunch(w) ==
    LET rec    == worker[w].rec
        begins == /\ Current(w)
                  /\ \/ note.status = "launching"
                     \/ note.status \in {"claimed", "retry"} /\ note.version = note.dispatch
    IN  /\ worker[w].pc = "claimed" /\ rec.status # "dispatched" /\ ~Spent(w) /\ Unread
        /\ IF begins
           THEN note' = [note EXCEPT !.status = "launching"] /\ To(w, "launch")
           ELSE /\ note' = IF ~Holds(w) THEN note
                           ELSE IF rec.status = "launching" THEN Free(note)
                           ELSE [Free(note) EXCEPT !.status = "pending", !.event = NoEvent]
                /\ Go(w, Idle)
        /\ UNCHANGED <<conf, remote, task, run>>

(* _launch_notification: start_run returns the run its key already has.      *)
Launch(w) ==
    LET rec == worker[w].rec
        key == <<rec.dispatch, rec.attempt>>
    IN  /\ worker[w].pc = "launch"
        /\ run' = IF run[key].state # None THEN run
                  ELSE [run EXCEPT ![key] = [state |-> "live", event |-> rec.event]]
        /\ To(w, "launched")
        /\ UNCHANGED <<conf, remote, task, note>>

(* mark_notification_dispatched.                                             *)
MarkDispatched(w) ==
    /\ worker[w].pc = "launched" /\ Unread
    /\ note' = IF Current(w) /\ note.status \in {"claimed", "launching", "retry"}
               THEN [Free(note) EXCEPT !.status = "dispatched"] ELSE note
    /\ Go(w, Idle)
    /\ UNCHANGED <<conf, remote, task, run>>

(* A launch that fails or whose outcome is uncertain, and a notifier that is *)
(* cancelled: the lease is released.  A claim that is cancelled before it    *)
(* begins to launch becomes a retry, one whose beginning failed stays as it  *)
(* is, and any other unexpected failure is counted                           *)
(* (_release_notification_after_cancellation, _release_notification_failure).*)
Begun(w) == worker[w].pc # "claimed" \/ worker[w].rec.status \in {"launching", "dispatched"}

StopNotify(w) ==
    /\ worker[w].pc \in {"claimed", "launch", "launched"} /\ Unread
    /\ \/ ~Holds(w) /\ UNCHANGED note
       \/ Holds(w) /\ (Begun(w) \/ ~Spent(w)) /\ note' = Free(note)
       \/ Holds(w) /\ ~Begun(w) /\ note' = [Free(note) EXCEPT !.status = "retry"]
       \/ /\ Holds(w) /\ worker[w].pc = "claimed" /\ worker[w].rec.status # "launching"
          /\ note' = Failed(note)
    /\ Go(w, Idle)
    /\ UNCHANGED <<conf, remote, task, run>>

-----------------------------------------------------------------------------
Crash(w) ==
    /\ worker[w].pc # "idle"
    /\ Go(w, Idle)
    /\ UNCHANGED <<conf, remote, task, note, run>>

LeaseExpires ==
    /\ \/ task.fresh /\ task' = [task EXCEPT !.fresh = FALSE] /\ UNCHANGED note
       \/ note.fresh /\ note' = [note EXCEPT !.fresh = FALSE] /\ UNCHANGED task
    /\ UNCHANGED <<conf, remote, run, worker>>

Next ==
    \/ RemoteMoves \/ RequestCancel \/ LeaseExpires
    \/ \E w \in Workers :
        \/ ClaimControl(w) \/ Ask(w) \/ Apply(w) \/ ReleaseClaim(w)
        \/ AskCancel(w) \/ ApplyCancel(w) \/ StopControl(w)
        \/ ReadWork(w) \/ ClaimWork(w) \/ ConsumeWork(w) \/ Follow(w) \/ GiveUp(w)
        \/ BeginLaunch(w) \/ Launch(w) \/ MarkDispatched(w) \/ StopNotify(w) \/ Crash(w)

Spec == Init /\ [][Next]_vars
-----------------------------------------------------------------------------
TypeOK ==
    /\ conf \in Setups
    /\ remote \in Snapshot /\ task \in Task /\ note \in Note
    /\ run \in [Keys -> [state : {None, "live", "success", "error"}, event : Event]]
    /\ worker \in [Workers -> Worker]

(* Answers of the server are applied in the order it gave them: a poll or a  *)
(* cancellation that took longer than its claim does not overwrite what a    *)
(* later one found (apply_snapshot, apply_cancel_snapshot).                  *)
SnapshotsInOrder == [][task'.seen >= task.seen]_vars

(* The outcome of a task is never lost on the way to its thread: it is still *)
(* to be delivered, or a run that was told this very outcome has succeeded,  *)
(* or its own delivery was given up.  A delivery or a dead letter of an      *)
(* older event, and an event consumed because it was over, do not settle it  *)
(* (finish_notification_run, dead_letter_notification).                      *)
OutcomeReported ==
    task.status \in Terminal =>
        \/ note.version > note.notified /\ note.status \in Claimable
        \/ note.status = "dead_letter" /\ note.dead = note.version
        \/ \E key \in Keys : run[key].state = "success" /\ run[key].event.status = task.status
=============================================================================
