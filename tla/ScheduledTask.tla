---------------------------- MODULE ScheduledTask ----------------------------
(* One scheduled task, its occurrences and the gateways that launch them:     *)
(* admission from the poller and from a manual trigger, the lease-fenced      *)
(* launch, its bookkeeping, the completion hook, and the recovery passes of   *)
(* single-instance and multi-instance deployments.  A transaction under the   *)
(* task's row lock is a step; what is read before it belongs to an earlier    *)
(* one.  Clocks are abstracted to lease expired or not, run time ahead or due.*)
EXTENDS Integers, Sequences, FiniteSets

CONSTANTS
    Launchers,      \* threads of the service that dispatch
    Api,            \* the launcher of a single instance that serves requests
    Setups,         \* tasks and deployments: once or cron, several gateways, max_runs (0: none), bound
    MaxOccurrences  \* bound: occurrences admitted in any setup

ScheduleAssumption ==
    /\ MaxOccurrences \in Nat
    /\ \A s \in Setups : /\ s.once \in BOOLEAN /\ s.multi \in BOOLEAN
                         /\ s.cap \in Nat /\ s.bound \in 0 .. MaxOccurrences

VARIABLES
    conf,      \* the task's schedule type and limit, and the deployment
    task,      \* the scheduled_tasks row
    occ,       \* the scheduled_task_runs rows, by occurrence_seq
    run,       \* the durable run of each occurrence (one per idempotency key)
    launcher   \* the dispatching threads

vars == <<conf, task, occ, run, launcher>>

None      == "none"
Index     == 1 .. MaxOccurrences
Executing == {"launching", "running"}
Active    == Executing \cup {"queued"}
Ended     == {"success", "failed", "interrupted", "skipped"}
Over      == {"success", "error", "interrupted"}
Finished  == {"completed", "failed", "cancelled"}

(* lease_owner is per service instance.                                      *)
Owner(l) == IF conf.multi THEN l ELSE "gateway"
Owners   == Launchers \cup {"gateway", None}
Pollers  == IF conf.multi THEN Launchers ELSE Launchers \ {Api}

Task ==
    [status : {"enabled", "running", "paused"} \cup Finished,
     next   : {None, "later", "due"},   \* next_run_at
     lease  : Owners, fresh : BOOLEAN,  \* lease_owner, lease not expired
     last   : 0 .. MaxOccurrences]      \* last_run_id

Occurrence ==
    [trigger : {"scheduled", "manual"},
     status  : Active \cup Ended,
     lease   : Owners, fresh : BOOLEAN,
     linked  : BOOLEAN,                 \* run_id is set
     counted : BOOLEAN,                 \* launch_accounted
     stop    : BOOLEAN]                 \* stop_requested_run_id

Run == [state : {None, "live", "orphan"} \cup Over, host : Owners, hook : BOOLEAN]

Launcher ==
    [pc   : {"idle", "dispatch", "drain", "recover", "claim", "start", "record", "settle"},
     occ  : 0 .. MaxOccurrences,
     next : {None, "later", "due"},     \* next_run_at as computed when it read the task
     held : BOOLEAN]                    \* the task was paused then

Idle == [pc |-> "idle", occ |-> 0, next |-> None, held |-> FALSE]

Init ==
    /\ conf \in Setups
    /\ task \in [status : {"enabled"}, next : {"later", "due"}, lease : {None}, fresh : {FALSE}, last : {0}]
    /\ occ = <<>>
    /\ run = [i \in Index |-> [state |-> None, host |-> None, hook |-> FALSE]]
    /\ launcher = [l \in Launchers |-> Idle]
-----------------------------------------------------------------------------
Rows       == DOMAIN occ
ActiveRows == {i \in Rows : occ[i].status \in Active}

(* can_project: only the newest occurrence writes the parent.                *)
CanProject(i) == i = Len(occ)

(* end_condition_reached, by max_runs: the launches accounted so far.        *)
Used(rows) == Cardinality({i \in DOMAIN rows : rows[i].trigger = "scheduled" /\ rows[i].counted})

EndReached(rows) == conf.cap > 0 /\ Used(rows) >= conf.cap

(* next_run_at, and should_advance_schedule_cursor for a manual trial.       *)
NextRun == IF conf.once THEN (IF task.next = "later" THEN "later" ELSE None) ELSE "later"

NextAfter(trigger) == IF trigger = "manual" /\ ~conf.once THEN task.next ELSE NextRun

Unleased(t) == [t EXCEPT !.lease = None, !.fresh = FALSE]

End(o, status) == [o EXCEPT !.status = status, !.lease = None, !.fresh = FALSE]

(* once_run_still_scheduled: a trial ahead of a once task's run time.        *)
StillScheduled(o, t) == conf.once /\ o.trigger = "manual" /\ t.next # None

OnceStatus(status) ==
    CASE status = "success" -> "completed" [] status = "failed" -> "failed" [] OTHER -> "cancelled"

(* finish_task_at_end_condition.                                             *)
Finish(t) == [Unleased(t) EXCEPT !.status = "completed", !.next = None]

(* The parent as _associate_task_with_run and finalize_occurrence repair it  *)
(* when launch bookkeeping has not reached it.                               *)
Repaired(i) ==
    IF task.last = i THEN task
    ELSE [Unleased(task) EXCEPT !.last = i, !.next = NextAfter(occ[i].trigger),
                                !.status = IF ~conf.once /\ @ = "running" THEN "enabled" ELSE @]

(* finalize_occurrence: the first terminal outcome wins, and is projected.   *)
Projected(i, status, launched, rows) ==
    LET t == IF launched THEN Repaired(i) ELSE task
    IN  IF conf.once THEN (IF StillScheduled(occ[i], t) THEN t ELSE [t EXCEPT !.status = OnceStatus(status)])
        ELSE IF EndReached(rows) THEN [t EXCEPT !.status = "completed", !.next = None]
        ELSE IF occ[i].stop /\ launched THEN [t EXCEPT !.status = "paused"]
        ELSE t

FinalizeOccurrence(i, status, launched) ==
    /\ occ[i].status \notin Ended
    /\ occ' = [occ EXCEPT ![i] = [End(@, status) EXCEPT !.linked = @ \/ launched, !.counted = @ \/ launched]]
    /\ task' = IF CanProject(i) THEN Projected(i, status, launched, occ') ELSE task

Outcome(state) == CASE state = "success" -> "success" [] state = "error" -> "failed" [] OTHER -> "interrupted"

(* fail_launching_run and expire_queued_runs project a failure like this.    *)
Failed(i) ==
    LET auto == occ[i].trigger = "scheduled"
    IN  [Unleased(task) EXCEPT
            !.status = IF auto THEN (IF conf.once THEN "failed" ELSE "enabled") ELSE @,
            !.next   = IF auto THEN NextRun ELSE @]

Go(l, state) == launcher' = [launcher EXCEPT ![l] = state]
To(l, pc)    == Go(l, [launcher[l] EXCEPT !.pc = pc])

(* What a dispatching thread keeps of the task it read.                      *)
Holding(i, trigger, pc) ==
    [pc |-> pc, occ |-> i, next |-> NextAfter(trigger), held |-> task.status = "paused"]

New(trigger) ==
    [trigger |-> trigger, status |-> "queued", lease |-> None, fresh |-> FALSE,
     linked |-> FALSE, counted |-> FALSE, stop |-> FALSE]
-----------------------------------------------------------------------------
(* claim_due_tasks.                                                          *)
ClaimDue(l) ==
    /\ l \in Pollers /\ launcher[l].pc = "idle"
    /\ task.next = "due" /\ ActiveRows = {}
    /\ \/ task.status = "enabled" /\ ~task.fresh
       \/ task.status = "running" /\ task.lease # None /\ ~task.fresh
    /\ task' = [task EXCEPT !.status = "running", !.lease = Owner(l), !.fresh = TRUE]
    /\ To(l, "dispatch")
    /\ UNCHANGED <<conf, occ, run>>

(* dispatch_task for a due task: complete_if_ended, get_active_run, and the  *)
(* queue row inserted with the release of the claim (create).                *)
Dispatch(l) ==
    /\ launcher[l].pc = "dispatch"
    /\ IF EndReached(occ) /\ ActiveRows = {}
       THEN task' = Finish(task) /\ Go(l, Idle) /\ UNCHANGED occ
       ELSE IF task.lease # Owner(l)
       THEN Go(l, Idle) /\ UNCHANGED <<task, occ>>
       ELSE IF ActiveRows # {}
       THEN task' = [Unleased(task) EXCEPT !.status = "enabled"] /\ Go(l, Idle) /\ UNCHANGED occ
       ELSE /\ Len(occ) < conf.bound
            /\ occ' = Append(occ, New("scheduled"))
            /\ task' = [Unleased(task) EXCEPT !.status = "enabled"]
            /\ Go(l, Holding(Len(occ) + 1, "scheduled", "claim"))
    /\ UNCHANGED <<conf, run>>

(* dispatch_task for a manual trigger: a task that changed since it was read *)
(* is refused (expected_task_status, expected_task_updated_at).              *)
Trigger(l) ==
    /\ launcher[l].pc = "idle"
    /\ ActiveRows = {} /\ Len(occ) < conf.bound
    /\ occ' = Append(occ, New("manual"))
    /\ Go(l, Holding(Len(occ) + 1, "manual", "claim"))
    /\ UNCHANGED <<conf, task, run>>

(* _drain_queue works off a list of queued rows read earlier.                *)
DrainScan(l) ==
    /\ l \in Pollers /\ launcher[l].pc = "idle"
    /\ \E i \in Rows : occ[i].status = "queued" /\ Go(l, [Idle EXCEPT !.pc = "drain", !.occ = i])
    /\ UNCHANGED <<conf, task, occ, run>>

(* release_queued_admission_lease, then get_internal; the occurrence of a    *)
(* task that is paused by now is interrupted, by an update_status that does  *)
(* not look at the row's own status.                                         *)
Drain(l) ==
    LET i == launcher[l].occ
        released == task.status = "running" /\ task.lease # None /\ occ[i].status = "queued" /\ CanProject(i)
    IN  /\ launcher[l].pc = "drain"
        /\ task' = IF released THEN [Unleased(task) EXCEPT !.status = "enabled"] ELSE task
        /\ IF task.status = "paused" /\ occ[i].trigger = "scheduled"
           THEN /\ occ' = [occ EXCEPT ![i] = [End(@, "interrupted") EXCEPT !.linked = FALSE]]
                /\ Go(l, Idle)
           ELSE Go(l, Holding(i, occ[i].trigger, "claim")) /\ UNCHANGED occ
        /\ UNCHANGED <<conf, run>>

(* claim_queued_run; the budgets and an older occurrence on the thread may   *)
(* refuse it, and it stays queued.                                           *)
Claim(l) ==
    LET i == launcher[l].occ
    IN  /\ launcher[l].pc = "claim"
        /\ \/ /\ occ[i].status = "queued" /\ occ[i].trigger = "scheduled" /\ EndReached(occ)
              /\ occ' = [occ EXCEPT ![i] = End(@, "skipped")]
              /\ task' = Finish(task)
              /\ Go(l, Idle)
           \/ /\ occ[i].status = "queued" /\ ~(occ[i].trigger = "scheduled" /\ EndReached(occ))
              /\ occ' = [occ EXCEPT ![i].status = "launching", ![i].lease = Owner(l), ![i].fresh = TRUE]
              /\ To(l, "start")
              /\ UNCHANGED task
           \/ Go(l, Idle) /\ UNCHANGED <<task, occ>>
        /\ UNCHANGED <<conf, run>>
-----------------------------------------------------------------------------
(* _launch_run: start_run is idempotent per occurrence.                      *)
Start(l) ==
    LET i == launcher[l].occ
    IN  /\ launcher[l].pc = "start"
        /\ run' = IF run[i].state = None
                  THEN [run EXCEPT ![i] = [state |-> "live", host |-> Owner(l), hook |-> FALSE]]
                  ELSE run
        /\ To(l, "record")
        /\ UNCHANGED <<conf, task, occ>>

Mine(l, i) == occ[i].status = "launching" /\ occ[i].lease = Owner(l)

(* The launch is refused because the thread is busy: requeue_claimed_run.    *)
Requeue(l) ==
    LET i == launcher[l].occ
    IN  /\ launcher[l].pc = "start"
        /\ occ' = IF Mine(l, i) THEN [occ EXCEPT ![i] = End(@, "queued")] ELSE occ
        /\ Go(l, Idle)
        /\ UNCHANGED <<conf, task, run>>

(* It fails otherwise: fail_launching_run.                                   *)
FailLaunch(l) ==
    LET i == launcher[l].occ
    IN  /\ launcher[l].pc = "start" /\ run[i].state = None
        /\ occ' = IF Mine(l, i) THEN [occ EXCEPT ![i] = End(@, "failed")] ELSE occ
        /\ task' = IF Mine(l, i) /\ CanProject(i) THEN [Failed(i) EXCEPT !.last = 0] ELSE task
        /\ Go(l, Idle)
        /\ UNCHANGED <<conf, run>>

(* _record_launched_run: update_status under the launch lease, else          *)
(* reconcile_launched_run, which restores a row that was ended without a     *)
(* run.  The index of active rows refuses that when the task has another.    *)
Restored(i) == [occ EXCEPT ![i] = [End(@, "running") EXCEPT !.linked = TRUE]]

Recorded(i) ==
    occ' = IF occ[i].status \in Ended /\ (occ[i].linked \/ ActiveRows # {}) THEN occ ELSE Restored(i)

Record(l) ==
    /\ launcher[l].pc = "record"
    /\ Recorded(launcher[l].occ)
    /\ To(l, "settle")
    /\ UNCHANGED <<conf, task, run>>

(* _task_status_for_launch.                                                  *)
LaunchStatus(l) ==
    LET trial == occ[launcher[l].occ].trigger = "manual"
    IN  IF conf.once /\ (~trial \/ launcher[l].next = None) THEN "running"
        ELSE IF trial /\ launcher[l].held THEN "paused"
        ELSE "enabled"

(* update_after_launch with protect_terminal.                                *)
Protected(i) == task.status \in Finished \/ occ[i].status \in Ended

Settled(l, i, status) ==
    /\ occ' = [occ EXCEPT ![i].counted = TRUE]
    /\ task' = IF CanProject(i)
               THEN [task EXCEPT !.status = status, !.next = launcher[l].next, !.last = i]
               ELSE task

SettleUnprotected(l) ==
    /\ launcher[l].pc = "settle"
    /\ Settled(l, launcher[l].occ, LaunchStatus(l))
    /\ Go(l, Idle)
    /\ UNCHANGED <<conf, run>>

Settle(l) ==
    /\ launcher[l].pc = "settle"
    /\ Settled(l, launcher[l].occ, IF Protected(launcher[l].occ) THEN task.status ELSE LaunchStatus(l))
    /\ Go(l, Idle)
    /\ UNCHANGED <<conf, run>>

(* A bookkeeping write fails; the launch is reported all the same.           *)
BookkeepingFails(l) ==
    /\ launcher[l].pc \in {"record", "settle"}
    /\ Go(l, IF launcher[l].pc = "record" THEN [launcher[l] EXCEPT !.pc = "settle"] ELSE Idle)
    /\ UNCHANGED <<conf, task, occ, run>>
-----------------------------------------------------------------------------
(* The run asks to stop its task (request_stop), and ends; its completion    *)
(* hook follows, or is lost.                                                 *)
RequestStop(i) ==
    /\ run[i].state = "live" /\ occ[i].status \in Executing /\ ~conf.once
    /\ occ' = [occ EXCEPT ![i].stop = TRUE]
    /\ UNCHANGED <<conf, task, run, launcher>>

RunEnds(i, state) ==
    /\ run[i].state = "live"
    /\ run' = [run EXCEPT ![i].state = state, ![i].hook = TRUE]
    /\ UNCHANGED <<conf, task, occ, launcher>>

(* handle_run_completion and complete_run.                                   *)
Complete(i) ==
    /\ run[i].hook
    /\ run' = [run EXCEPT ![i].hook = FALSE]
    /\ \/ FinalizeOccurrence(i, Outcome(run[i].state), TRUE)
       \/ occ[i].status \in Ended /\ UNCHANGED <<task, occ>>
    /\ UNCHANGED <<conf, launcher>>

HookLost(i) ==
    /\ run[i].hook
    /\ run' = [run EXCEPT ![i].hook = FALSE]
    /\ UNCHANGED <<conf, task, occ, launcher>>

(* expire_queued_runs; a launch is not in flight for as long as the queue    *)
(* timeout.                                                                  *)
InFlight(i) == \E l \in Launchers : launcher[l].occ = i /\ launcher[l].pc \in {"start", "record", "settle"}

Expire(i) ==
    /\ occ[i].status = "queued" /\ ~InFlight(i)
    /\ occ' = [occ EXCEPT ![i] = End(@, "failed")]
    /\ task' = IF ~CanProject(i) THEN task
               ELSE IF task.status = "paused" THEN Unleased(task)
               ELSE Failed(i)
    /\ UNCHANGED <<conf, run, launcher>>

(* pause_with_queue_cancellation, after the router's own check.              *)
Pause ==
    /\ task.status = "enabled" /\ \A i \in Rows : occ[i].status \notin Executing
    /\ task' = [Unleased(task) EXCEPT !.status = "paused"]
    /\ occ' = [i \in Rows |-> IF occ[i].status = "queued" THEN End(occ[i], "interrupted") ELSE occ[i]]
    /\ UNCHANGED <<conf, run, launcher>>

(* resume_scheduled_task: update with require_mutable.                       *)
Resume ==
    /\ task.status \in Finished \cup {"paused"} /\ ActiveRows = {} /\ ~EndReached(occ)
    /\ conf.once => task.next # None
    /\ task' = [task EXCEPT !.status = "enabled", !.next = IF conf.once THEN @ ELSE "later"]
    /\ UNCHANGED <<conf, occ, run, launcher>>
-----------------------------------------------------------------------------
MayPoll(l) == l \in Pollers /\ launcher[l].pc = "idle"

(* recover_expired_launch_claims: a scan, then one look under the lock.      *)
RecoverScan(l) ==
    /\ MayPoll(l) /\ ~conf.multi
    /\ \E i \in Rows : /\ occ[i].status = "launching" /\ ~occ[i].fresh
                       /\ Go(l, [Idle EXCEPT !.pc = "recover", !.occ = i])
    /\ UNCHANGED <<conf, task, occ, run>>

(* The pass in reconcile_active_runs and recover_expired_launch_claims for   *)
(* an occurrence whose durable run is live: the launch is associated.        *)
Associate(i) ==
    /\ occ' = [occ EXCEPT ![i] = [End(@, "running") EXCEPT !.linked = TRUE, !.counted = TRUE]]
    /\ task' = IF ~CanProject(i) \/ task.last = i THEN task
               ELSE LET t == [Unleased(task) EXCEPT !.last = i, !.next = NextAfter(occ[i].trigger)]
                    IN  [t EXCEPT !.status =
                            IF conf.once /\ ~StillScheduled(occ[i], t) THEN "running"
                            ELSE IF occ[i].trigger = "manual" /\ @ = "paused" THEN @
                            ELSE "enabled"]

RecoverClaim(i) ==
    \/ /\ run[i].state = None
       /\ occ' = [occ EXCEPT ![i] = End(@, "queued")]
       /\ UNCHANGED task
    \/ run[i].state \in {"live", "orphan"} /\ Associate(i)
    \/ run[i].state \in Over /\ FinalizeOccurrence(i, Outcome(run[i].state), TRUE)

RecoverScanned(l) ==
    LET i == launcher[l].occ
    IN  /\ launcher[l].pc = "recover"
        /\ IF ~occ[i].fresh THEN RecoverClaim(i) ELSE UNCHANGED <<task, occ>>
        /\ Go(l, Idle)
        /\ UNCHANGED <<conf, run>>

Recover(l) ==
    LET i == launcher[l].occ
    IN  /\ launcher[l].pc = "recover"
        /\ IF occ[i].status = "launching" /\ ~occ[i].fresh THEN RecoverClaim(i) ELSE UNCHANGED <<task, occ>>
        /\ Go(l, Idle)
        /\ UNCHANGED <<conf, run>>

(* reconcile_terminal_runs, which looks again under the lock.                *)
ReconcileTerminal(l, i) ==
    /\ MayPoll(l) /\ ~conf.multi
    /\ occ[i].status = "running" /\ occ[i].linked /\ run[i].state \in Over
    /\ FinalizeOccurrence(i, Outcome(run[i].state), TRUE)
    /\ UNCHANGED <<conf, run, launcher>>

(* reconcile_active_runs of a multi-instance deployment; an orphaned run is  *)
(* taken over first (claim_for_takeover).                                    *)
ReconcileActive(l, i) ==
    /\ MayPoll(l) /\ conf.multi
    /\ occ[i].status \in Executing
    /\ \/ /\ run[i].state = None /\ occ[i].status = "launching" /\ ~occ[i].fresh
          /\ occ' = [occ EXCEPT ![i] = End(@, "queued")]
          /\ UNCHANGED <<task, run>>
       \/ run[i].state = "live" /\ Associate(i) /\ UNCHANGED run
       \/ /\ run[i].state \in Over \cup {"orphan"}
          /\ run' = IF run[i].state = "orphan" THEN [run EXCEPT ![i].state = "interrupted"] ELSE run
          /\ FinalizeOccurrence(i, Outcome(run[i].state), TRUE)
    /\ UNCHANGED <<conf, launcher>>

(* _finalise_once_task_from_run, by the newest occurrence.                   *)
FinaliseOnce ==
    task' = [task EXCEPT !.status = IF occ = <<>> THEN "cancelled" ELSE OnceStatus(occ[Len(occ)].status)]

(* reconcile_stuck_once_tasks.                                               *)
ReconcileStuckOnce(l) ==
    /\ MayPoll(l) /\ conf.multi /\ conf.once
    /\ task.status = "running" /\ ~task.fresh /\ ActiveRows = {}
    /\ task.last # 0 => run[task.last].state # "live"
    /\ FinaliseOnce
    /\ UNCHANGED <<conf, occ, run, launcher>>

(* A gateway of several dies.                                                *)
Orphaned(host) ==
    [i \in Index |-> IF run[i].host # host THEN run[i]
                     ELSE [run[i] EXCEPT !.hook = FALSE, !.state = IF @ = "live" THEN "orphan" ELSE @]]

Crash(l) ==
    /\ conf.multi
    /\ run' = Orphaned(l)
    /\ Go(l, Idle)
    /\ UNCHANGED <<conf, task, occ>>

(* The single gateway restarts: run recovery, mark_stale_active_runs and     *)
(* cancel_stuck_once_tasks are done before the poller starts.                *)
Stale(i) == occ[i].status \in Executing

Swept ==
    [i \in Rows |->
        IF ~Stale(i) THEN occ[i]
        ELSE IF occ[i].status = "launching" /\ run[i].state = None THEN End(occ[i], "queued")
        ELSE [End(occ[i], Outcome(run[i].state)) EXCEPT !.linked = TRUE, !.counted = TRUE]]

Restart ==
    LET rows  == Swept
        n     == Len(occ)
        swept == IF n > 0 /\ Stale(n) /\ rows[n].status \in Ended
                 THEN Projected(n, rows[n].status, TRUE, rows) ELSE task
        stuck == conf.once /\ swept.status = "running" /\ swept.lease = None
                 /\ \A i \in Rows : rows[i].status \notin Active
    IN  /\ ~conf.multi
        /\ run' = [i \in Index |-> [run[i] EXCEPT !.hook = FALSE,
                                                  !.state = IF @ = "live" THEN "interrupted" ELSE @]]
        /\ occ' = rows
        /\ task' = IF ~stuck THEN swept
                   ELSE [swept EXCEPT !.status = IF n = 0 THEN "cancelled" ELSE OnceStatus(rows[n].status)]
        /\ launcher' = [l \in Launchers |-> Idle]
        /\ UNCHANGED conf

(* Time: the run time arrives, which of a once task is the one a launcher    *)
(* keeps as well; a claim's lease expires.                                   *)
RunTime ==
    /\ task.next = "later"
    /\ task' = [task EXCEPT !.next = "due"]
    /\ launcher' = [l \in Launchers |->
                      [launcher[l] EXCEPT !.next = IF conf.once /\ @ = "later" THEN "due" ELSE @]]
    /\ UNCHANGED <<conf, occ, run>>

LeaseExpires ==
    /\ \/ task.fresh /\ task' = [task EXCEPT !.fresh = FALSE] /\ UNCHANGED occ
       \/ \E i \in Rows : occ[i].fresh /\ occ' = [occ EXCEPT ![i].fresh = FALSE] /\ UNCHANGED task
    /\ UNCHANGED <<conf, run, launcher>>

Next ==
    \/ \E l \in Launchers :
          \/ ClaimDue(l) \/ Dispatch(l) \/ Trigger(l) \/ DrainScan(l) \/ Drain(l) \/ Claim(l)
          \/ Start(l) \/ Requeue(l) \/ FailLaunch(l) \/ Record(l) \/ Settle(l) \/ BookkeepingFails(l)
          \/ RecoverScan(l) \/ Recover(l) \/ ReconcileStuckOnce(l) \/ Crash(l)
          \/ \E i \in Rows : ReconcileTerminal(l, i) \/ ReconcileActive(l, i)
    \/ \E i \in Rows : \/ RequestStop(i) \/ Complete(i) \/ HookLost(i) \/ Expire(i)
                       \/ \E state \in Over : RunEnds(i, state)
    \/ Pause \/ Resume \/ Restart \/ RunTime \/ LeaseExpires

Spec == Init /\ [][Next]_vars
-----------------------------------------------------------------------------
TypeOK ==
    /\ conf \in Setups
    /\ task \in Task
    /\ occ \in Seq(Occurrence) /\ Len(occ) <= MaxOccurrences
    /\ run \in [Index -> Run]
    /\ launcher \in [Launchers -> Launcher]

(* An occurrence that was given up is opened again only by the launch that   *)
(* did produce its run, and one that ended with its run never: neither a     *)
(* recovery scan that is stale when it gets the lock nor a launcher that     *)
(* lost its claim puts it back in the queue (recover_expired_launch_claims,  *)
(* requeue_claimed_run, reconcile_launched_run).                             *)
ReopenedForItsRun ==
    [][\A i \in Rows : occ[i].status \in Ended /\ occ'[i].status \in Active =>
            ~occ[i].linked /\ run[i].state # None]_vars

(* A once task whose own run was completed does not go back to running: the  *)
(* launch bookkeeping of a run that ended at once comes too late             *)
(* (update_after_launch, protect_terminal).                                  *)
CompletedOnceStays ==
    conf.once /\ occ # <<>> =>
        LET o == occ[Len(occ)]
        IN  o.trigger = "scheduled" /\ o.status \in Ended /\ o.linked => task.status # "running"

(* A task is never parked: while it shows as running, a claim, an active     *)
(* occurrence or a launch in flight will take it on (claim_due_tasks: it     *)
(* must stay reclaimable or the task is dead forever).                       *)
NotParked ==
    task.status = "running" =>
        \/ task.lease # None \/ ActiveRows # {}
        \/ \E i \in Rows : InFlight(i)

(* The first outcome of an occurrence stands (finalize_occurrence:           *)
(* terminalize once).                                                        *)
FirstOutcomeStands ==
    [][\A i \in Rows : occ[i].status \in Ended /\ occ[i].linked => occ'[i].status = occ[i].status]_vars
=============================================================================
