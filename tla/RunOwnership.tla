----------------------------- MODULE RunOwnership -----------------------------
(***************************************************************************)
(* Several gateway workers run the agent runs of one thread against one run *)
(* store (RunManager with heartbeat_enabled, and worker.run_agent with an   *)
(* event store, so that the terminal status is staged and committed late).  *)
(*                                                                         *)
(* Every store call is three steps: the caller sends it, the store applies  *)
(* it, the caller sees the answer.  Between them other tasks of the same    *)
(* worker, other workers, the clock and the lease timer move.  A call may   *)
(* fail, and it may be applied and then fail or be retried (Faults).        *)
(***************************************************************************)
EXTENDS RunStore

CONSTANTS
    Slack,         \* longest stall of a worker past its lease deadline, skew included
    Strategies,    \* multitask strategies offered to admissions
    Requests,      \* cancellation actions clients ask for
    Faults         \* "io": store calls may fail or lose their answer; "crash":
                   \* processes may die; "cleanup": sandbox cleanup may fail;
                   \* "agent": the agent, or the write of its delivery receipt, may fail

ASSUME OwnershipAssumption ==
    /\ Slack \in Nat
    /\ Slack <= Grace       \* RunOwnershipConfig: grace is the whole skew budget
    /\ Strategies \subseteq {"reject", "interrupt", "rollback"}
    /\ Requests \subseteq Actions
    /\ Faults \subseteq {"io", "crash", "cleanup", "agent"}

StoreFaults == "io" \in Faults
AgentFaults == "agent" \in Faults

VARIABLES
    rows,       \* the durable rows
    older,      \* the rows that existed when a row was inserted (created_at order)
    up,         \* worker processes that have not crashed
    rec,        \* the in-memory RunRecord of a run, at the worker that admitted it
    tcall,      \* the store call awaited by the run's own task
    ccall,      \* the store call awaited by a client's cancel() at the owner
    rcall,      \* the lease renewal of the run
    adm,        \* the admission each worker has in flight
    published,  \* the run.terminal event: the outcome announced for a run
    ended       \* runs whose stream END frame was published

vars == <<rows, older, up, rec, tcall, ccall, rcall, adm, published, ended>>

-----------------------------------------------------------------------------
(* Types.                                                                   *)

Errors == {"", "failed", "rolledback", "cleanup", "superseded", "lost"}

Outcomes == [status : Active \cup Terminal, err : Errors]

NoOutcome == [status |-> "absent", err |-> ""]

(* Where the run's task is.  "none": not attached yet; "wait": waiting for   *)
(* older runs to finish cleaning up; "start", "unstart": the startup CAS and *)
(* its compensation; "build", "put", "run": assembling the agent, publishing  *)
(* assembly evidence, executing; "cancel", "restore": _finish_cancellation; "final", "persist", "commit",  *)
(* "tail", "seal", "end": finalize(); "done": the task has returned.         *)
Steps == {"none", "wait", "start", "unstart", "build", "put", "run", "cancel", "restore",
          "final", "persist", "commit", "tail", "seal", "end", "done"}

Record ==
    [live       : BOOLEAN,            \* registered in _runs of a live worker
     home       : Workers \cup {NoWorker},
     status     : Active \cup Terminal,
     err        : Errors,
     abort      : {"none"} \cup Actions,
     lost       : BOOLEAN,            \* ownership_lost
     proof      : Outcomes \cup {NoOutcome},
     rev        : Nat,                \* terminal_status_revision
     left       : Left,               \* the last confirmed lease
     armed      : BOOLEAN,            \* a lease deadline timer is pending
     finalizing : BOOLEAN,
     rollback   : BOOLEAN,            \* rollback_finalization_pending
     pending    : BOOLEAN,            \* terminal_commit_pending
     saved      : BOOLEAN,            \* terminal_status_persisted
     started    : BOOLEAN,
     stage      : 0 .. 2,             \* how far finalize() has come
     pc         : Steps]

NoRecord ==
    [live |-> FALSE, home |-> NoWorker, status |-> "pending", err |-> "",
     abort |-> "none", lost |-> FALSE, proof |-> NoOutcome, rev |-> 0,
     left |-> Floor, armed |-> FALSE, finalizing |-> FALSE, rollback |-> FALSE,
     pending |-> FALSE, saved |-> FALSE, started |-> FALSE, stage |-> 0,
     pc |-> "none"]

Replies == {"-", "ok", "no", "exc"} \cup Actions

Call ==
    [op  : {"none", "start", "put", "update", "cas", "request"},
     ph  : {"idle", "sent", "done"},
     out : Outcomes \cup {NoOutcome},
     rev : Nat,
     arg : {"none"} \cup Actions,
     res : Replies]

NoCall ==
    [op |-> "none", ph |-> "idle", out |-> NoOutcome, rev |-> 0, arg |-> "none", res |-> "-"]

Send(op, out, rev, arg) ==
    [op |-> op, ph |-> "sent", out |-> out, rev |-> rev, arg |-> arg, res |-> "-"]

Renewal ==
    [ph      : {"idle", "sent", "done", "signal"},
     left    : Left,
     allow   : BOOLEAN,     \* allow_interrupted
     retried : BOOLEAN,
     cancel  : {"none"} \cup Actions,
     res     : {"-", "ok", "no", "exc"}]

NoRenewal ==
    [ph |-> "idle", left |-> Floor, allow |-> FALSE, retried |-> FALSE,
     cancel |-> "none", res |-> "-"]

Admission ==
    [ph       : {"idle", "sent", "done"},
     run      : SUBSET Runs,     \* the run being admitted, as a singleton
     strategy : {"reject", "interrupt", "rollback"},
     left     : Left,
     cands    : SUBSET Runs,     \* local_inflight: attempts registered for them
     was      : SUBSET Runs,     \* those whose terminal_commit_pending was set
     claimed  : SUBSET Runs,
     res      : {"-", "ok", "no", "exc"}]

NoAdmission ==
    [ph |-> "idle", run |-> {}, strategy |-> "reject", left |-> Floor, cands |-> {},
     was |-> {}, claimed |-> {}, res |-> "-"]

TypeOK ==
    /\ rows \in [Runs -> Row]
    /\ older \in [Runs -> SUBSET Runs]
    /\ up \in SUBSET Workers
    /\ rec \in [Runs -> Record]
    /\ tcall \in [Runs -> Call]
    /\ ccall \in [Runs -> Call]
    /\ rcall \in [Runs -> Renewal]
    /\ adm \in [Workers -> Admission]
    /\ published \in [Runs -> {"absent"} \cup Terminal]
    /\ ended \in SUBSET Runs

Init ==
    /\ rows = [r \in Runs |-> AbsentRow]
    /\ older = [r \in Runs |-> {}]
    /\ up = Workers
    /\ rec = [r \in Runs |-> NoRecord]
    /\ tcall = [r \in Runs |-> NoCall]
    /\ ccall = [r \in Runs |-> NoCall]
    /\ rcall = [r \in Runs |-> NoRenewal]
    /\ adm = [w \in Workers |-> NoAdmission]
    /\ published = [r \in Runs |-> "absent"]
    /\ ended = {}

-----------------------------------------------------------------------------
(* Terminal commit bookkeeping on a record.                                 *)

OutcomeOf(rc) == [status |-> rc.status, err |-> rc.err]

(* _has_terminal_ack and _has_final_terminal_ack: only an answer of the      *)
(* store to this worker's own write is a proof.                             *)
HasAck(rc, out) == ~rc.lost /\ out = rc.proof
FinalAck(rc)    == ~rc.rollback /\ HasAck(rc, OutcomeOf(rc))

(* _awaits_terminal_commit *)
Awaits(rc) == rc.pending \/ rc.rollback

(* Fault: an interrupted answer is only taken over an interrupted proof. *)
AcknowledgeNoFirst(rc, out, rev) ==
    LET proof == IF rc.proof.status = "interrupted" \/ out.status # "interrupted"
                 THEN out ELSE rc.proof
    IN  IF ~rc.live \/ rc.lost
        THEN rc
        ELSE [rc EXCEPT !.proof = proof, !.status = proof.status, !.err = proof.err]

(* _acknowledge_terminal: an older interrupted answer never replaces a newer *)
(* final one, and only publishes the status it was staged for.              *)
Acknowledge(rc, out, rev) ==
    LET proof == IF rc.proof = NoOutcome \/ rc.proof.status = "interrupted"
                    \/ out.status # "interrupted"
                 THEN out ELSE rc.proof
        staged == proof.status # "interrupted" \/ rc.rev = rev
        acked == [rc EXCEPT !.proof    = proof,
                            !.status   = IF staged THEN proof.status ELSE @,
                            !.err      = IF staged THEN proof.err ELSE @,
                            !.rollback = @ /\ proof.status # "error"]
        final == FinalAck(acked)
    IN  IF ~rc.live \/ rc.lost
        THEN rc
        ELSE [acked EXCEPT !.saved = final, !.pending = @ /\ ~final, !.armed = @ /\ ~final]

(* _fence_local_record: the worker gives the run up without a store write,   *)
(* unless it already holds the final acknowledgment.                        *)
Fence(rc) ==
    IF ~rc.live \/ rc.lost THEN rc
    ELSE IF FinalAck(rc) THEN [rc EXCEPT !.pending = FALSE]
    ELSE [rc EXCEPT !.lost = TRUE, !.saved = FALSE, !.pending = FALSE,
                    !.armed = FALSE, !.status = "error", !.err = "lost",
                    !.abort = IF @ = "none" THEN "interrupt" ELSE @]

(* set_status(persist=False): stage a terminal status locally.              *)
Stage(rc, status, err) ==
    LET out == [status |-> status, err |-> IF err = "" THEN rc.err ELSE err]
    IN  IF rc.lost \/ (rc.proof.status \in {"success", "error"} /\ out # rc.proof)
        THEN rc
        ELSE [rc EXCEPT !.status = status, !.err = out.err,
                        !.rev = @ + 1, !.saved = FALSE]

TaskActive(rc) == rc.pc \notin {"none", "done"}

(* The abort of a local run: cancel(), _signal_local_cancel and             *)
(* _atomic_replacement share it.                                            *)
Abort(rc, action) ==
    [rc EXCEPT !.abort = action, !.finalizing = TaskActive(rc),
               !.rollback = (action = "rollback") /\ TaskActive(rc)]

-----------------------------------------------------------------------------
(* Locks and attempts.                                                      *)

Alive(r) == rec[r].live

(* The thread's admission gate at worker w is held across an admission and   *)
(* across the snapshot write of record_assembly_evidence; every registry     *)
(* lock of this thread's runs waits for it.                                 *)
GateFree(w) ==
    /\ adm[w].ph = "idle"
    /\ \A r \in Runs : rec[r].live /\ rec[r].home = w => rec[r].pc # "put"

IsTerminalWrite(call) ==
    call.ph # "idle" /\ (call.op = "cas" \/ (call.op = "update" /\ call.out.status \in Terminal))

(* Terminal writes of run r in flight at its worker (_terminal_attempts).    *)
TaskAttempt(r)      == IsTerminalWrite(tcall[r])
CancelAttempt(r)    == IsTerminalWrite(ccall[r])
AdmissionAttempt(r) == \E w \in Workers : adm[w].ph # "idle" /\ r \in adm[w].cands
Attempting(r)       == TaskAttempt(r) \/ CancelAttempt(r) \/ AdmissionAttempt(r)

(* _fence_unconfirmed_terminal waits for the other attempts of the run until *)
(* the confirmed lease runs out, and then fences.                           *)
MayFence(r, others) == rec[r].lost \/ FinalAck(rec[r]) \/ ~others \/ rec[r].left <= 0

-----------------------------------------------------------------------------
(* Store calls.                                                             *)

Apply(r, call) ==
    CASE call.op = "start"   -> StartRun(rows[r])
      [] call.op = "put"     -> IF PutOk(rows, r)
                                THEN PutRow(rows[r], call.out.status, rec[r].left, rec[r].home)
                                ELSE rows[r]
      [] call.op = "update"  -> UpdateStatus(rows[r], call.out.status, rec[r].home)
      [] call.op = "cas"     -> FinalizeIfNotCancelled(rows[r], call.out.status, rec[r].home)
      [] call.op = "request" -> RequestCancel(rows[r], call.arg)
      [] OTHER               -> rows[r]

Answer(r, call) ==
    CASE call.op = "start"   -> IF StartRunOk(rows[r]) THEN "ok" ELSE "no"
      [] call.op = "update"  -> IF UpdateStatusOk(rows[r], call.out.status, rec[r].home) THEN "ok" ELSE "no"
      [] call.op = "cas"     -> FinalizeReply(rows[r], rec[r].home)
      [] call.op = "request" -> RequestCancelReply(rows[r], call.arg)
      [] call.op = "put"     -> IF PutOk(rows, r) THEN "ok" ELSE "exc"
      [] OTHER               -> "ok"

(* What the caller may see of a call the store has applied: its answer, an   *)
(* exception, or nothing because _call_store_with_retry sends it again.      *)
Seen(call, res) ==
    {[call EXCEPT !.ph = "done", !.res = res]}
        \cup (IF StoreFaults THEN {[call EXCEPT !.ph = "done", !.res = "exc"], call} ELSE {})

(* A call that raised before it was applied.                                *)
Raised(call) == [call EXCEPT !.ph = "done", !.res = "exc"]

TaskStore(r) ==
    /\ tcall[r].ph = "sent"
    /\ \/ /\ rows' = [rows EXCEPT ![r] = Apply(r, tcall[r])]
          /\ \E c \in Seen(tcall[r], Answer(r, tcall[r])) : tcall' = [tcall EXCEPT ![r] = c]
       \/ /\ StoreFaults
          /\ tcall' = [tcall EXCEPT ![r] = Raised(tcall[r])]
          /\ UNCHANGED rows
    /\ UNCHANGED <<older, up, rec, ccall, rcall, adm, published, ended>>

CancelStore(r) ==
    /\ ccall[r].ph = "sent"
    /\ \/ /\ rows' = [rows EXCEPT ![r] = Apply(r, ccall[r])]
          /\ \E c \in Seen(ccall[r], Answer(r, ccall[r])) : ccall' = [ccall EXCEPT ![r] = c]
       \/ /\ StoreFaults
          /\ ccall' = [ccall EXCEPT ![r] = Raised(ccall[r])]
          /\ UNCHANGED rows
    /\ UNCHANGED <<older, up, rec, tcall, rcall, adm, published, ended>>

-----------------------------------------------------------------------------
(* Admission: create_or_reject and _admit_thread_operation.                 *)

LocalInflight(w) ==
    {q \in Runs : /\ rec[q].live /\ rec[q].home = w
                  /\ rec[q].status \in Active \/ rec[q].finalizing}

(* Step 1, under the gate: the same-worker check; interrupt and rollback     *)
(* register a terminal attempt for every local run they may claim.          *)
AdmitBegin(w, r, strategy) ==
    /\ w \in up
    /\ GateFree(w)
    /\ rows[r].status = "absent"
    /\ \A v \in Workers : r \notin adm[v].run
    /\ strategy = "reject" => LocalInflight(w) = {}
    /\ LET cands == IF strategy = "reject" THEN {} ELSE LocalInflight(w)
       IN  /\ adm' = [adm EXCEPT ![w] =
                        [ph |-> "sent", run |-> {r}, strategy |-> strategy, left |-> Lease,
                         cands |-> cands, was |-> {q \in cands : rec[q].pending},
                         claimed |-> {}, res |-> "-"]]
           /\ rec' = [q \in Runs |->
                        IF q \in cands THEN [rec[q] EXCEPT !.pending = TRUE] ELSE rec[q]]
    /\ UNCHANGED <<rows, older, up, tcall, ccall, rcall, published, ended>>

Answered(a, res, claimed) == [a EXCEPT !.ph = "done", !.res = res, !.claimed = claimed]

(* Step 2: the claim and the insert are one transaction.                    *)
AdmitStore(w) ==
    /\ adm[w].ph = "sent"
    /\ \E r \in adm[w].run :
         \/ /\ CreateOk(rows, w, adm[w].strategy)
            /\ rows' = CreateThreadOperation(rows, r, w, adm[w].left)
            /\ older' = [older EXCEPT ![r] = {q \in Runs : rows[q].status # "absent"}]
            /\ \E res \in {"ok"} \cup (IF StoreFaults THEN {"exc"} ELSE {}) :
                 adm' = [adm EXCEPT ![w] = Answered(@, res, ActiveRows(rows))]
         \/ /\ ~CreateOk(rows, w, adm[w].strategy)
            /\ adm' = [adm EXCEPT ![w] = Answered(@, "no", {})]
            /\ UNCHANGED <<rows, older>>
         \/ /\ StoreFaults
            /\ adm' = [adm EXCEPT ![w] = Answered(@, "exc", {})]
            /\ UNCHANGED <<rows, older>>
    /\ UNCHANGED <<up, rec, tcall, ccall, rcall, published, ended>>

(* _atomic_replacement, for a candidate the store returned as claimed.      *)
Superseded(rc, action) ==
    IF rc.lost \/ rc.proof.status \in {"success", "error"}
    THEN rc
    ELSE LET rollback == action = "rollback" /\ TaskActive(rc)
             acked == Acknowledge([rc EXCEPT !.rollback = rollback],
                                  [status |-> "interrupted", err |-> "superseded"], rc.rev)
         IN  [acked EXCEPT !.abort = action, !.finalizing = TaskActive(rc)]

(* A candidate that was not claimed gets its barrier flag back.             *)
NotClaimed(rc, was, attempting) ==
    IF attempting \/ rc.lost THEN rc ELSE [rc EXCEPT !.pending = was]

(* The registered record arms its lease deadline.  A lease that ran out while *)
(* the admission waited for the store is due at once: the timer fires before  *)
(* the event loop can attach and start the task.                            *)
NewRecord(w, left) ==
    LET rc == [NoRecord EXCEPT !.live = TRUE, !.home = w, !.left = left, !.armed = TRUE]
    IN  IF left > 0 THEN rc ELSE Fence(rc)

(* Step 3: acknowledge the claimed rows and register the new record; the     *)
(* gate is still held, so no status revision can have moved meanwhile.       *)
AdmitAck(w) ==
    /\ adm[w].ph = "done"
    /\ \E r \in adm[w].run :
         LET ok == adm[w].res = "ok"
         IN  rec' = [q \in Runs |->
               IF q = r /\ ok
               THEN NewRecord(w, adm[w].left)
               ELSE IF q \in adm[w].cands
               THEN IF ok /\ q \in adm[w].claimed
                    THEN Superseded(rec[q], adm[w].strategy)
                    ELSE NotClaimed(rec[q], q \in adm[w].was, TaskAttempt(q) \/ CancelAttempt(q))
               ELSE rec[q]]
    /\ adm' = [adm EXCEPT ![w] = NoAdmission]
    /\ UNCHANGED <<rows, older, up, tcall, ccall, rcall, published, ended>>

-----------------------------------------------------------------------------
(* The run's own task: start_run's create_task and worker.run_agent.        *)

(* The record of run r while its task may take the registry lock.           *)
CanStep(r, pc) == Alive(r) /\ rec[r].pc = pc /\ GateFree(rec[r].home)

OnlyRec(r, rc) ==
    /\ rec' = [rec EXCEPT ![r] = rc]
    /\ UNCHANGED <<rows, older, up, tcall, ccall, rcall, adm, published, ended>>

RecAndTask(r, rc, call) ==
    /\ rec' = [rec EXCEPT ![r] = rc]
    /\ tcall' = [tcall EXCEPT ![r] = call]
    /\ UNCHANGED <<rows, older, up, ccall, rcall, adm, published, ended>>

(* The task is attached after admission; run_agent first raises the barrier  *)
(* that keeps the row's lease renewed until the terminal commit.            *)
Attach(r) ==
    /\ Alive(r) /\ rec[r].pc = "none"
    /\ OnlyRec(r, [rec[r] EXCEPT !.pc = "wait", !.pending = TRUE])

(* Fault: waiting for older runs only while they are active. *)
PriorActive(r) ==
    \E q \in Runs : /\ rec[q].live /\ rec[q].home = rec[r].home
                    /\ q \in older[r] /\ rec[q].status \in Active

(* wait_for_prior_finalizing looks at this worker's records only.           *)
PriorFinalizing(r) ==
    \E q \in Runs : /\ rec[q].live /\ rec[q].home = rec[r].home
                    /\ q \in older[r] /\ rec[q].finalizing

(* A run that did not start still finalizes, through its cancellation.      *)
NotStarted(rc) == [rc EXCEPT !.pc = IF rc.abort # "none" THEN "cancel" ELSE "final"]

(* try_start: the pending check, then the durable pending-to-running CAS.   *)
StartCheck(r) ==
    /\ CanStep(r, "wait")
    /\ rec[r].abort # "none" \/ ~PriorFinalizing(r)
    /\ IF rec[r].abort # "none" \/ rec[r].status # "pending"
       THEN OnlyRec(r, NotStarted(rec[r]))
       ELSE RecAndTask(r, [rec[r] EXCEPT !.pc = "start"], Send("start", NoOutcome, 0, "none"))

(* The startup answer: started, refused by the row (the run was cancelled or *)
(* taken over), aborted locally meanwhile (the started row is put back), or  *)
(* an exception, which fails the run.                                       *)
StartAck(r) ==
    /\ CanStep(r, "start") /\ ~rec[r].lost
    /\ tcall[r].ph = "done"
    /\ \/ /\ tcall[r].res = "exc"
          /\ RecAndTask(r, [Stage(rec[r], "error", "failed") EXCEPT !.pc = "final"], NoCall)
       \/ /\ tcall[r].res = "no"
          /\ RecAndTask(r,
               [rec[r] EXCEPT !.pc     = "cancel",
                              !.status = IF @ = "pending" THEN "interrupted" ELSE @,
                              !.saved  = @ /\ rec[r].status # "pending",
                              !.abort  = IF @ = "none" THEN "interrupt" ELSE @], NoCall)
       \/ /\ tcall[r].res = "ok"
          /\ rec[r].abort = "none" /\ rec[r].status = "pending"
          /\ RecAndTask(r, [rec[r] EXCEPT !.pc = "build", !.status = "running", !.started = TRUE], NoCall)
       \/ /\ tcall[r].res = "ok"
          /\ rec[r].abort # "none" \/ rec[r].status # "pending"
          /\ IF HasAck(rec[r], OutcomeOf(rec[r]))
             THEN RecAndTask(r, NotStarted(rec[r]), NoCall)
             ELSE RecAndTask(r, [rec[r] EXCEPT !.pc = "unstart",
                                               !.pending = @ \/ rec[r].status \in Terminal],
                             Send("update", OutcomeOf(rec[r]), rec[r].rev, "none"))

(* Fault: an exception is taken for a confirmation. *)
SettleOptimistic(r, call, others, rc) ==
    IF call.res \in {"ok", "exc"}
    THEN rc = IF call.out.status \in Terminal
              THEN Acknowledge(rec[r], call.out, call.rev) ELSE rec[r]
    ELSE \/ call.out.status \notin Terminal /\ rc = rec[r]
         \/ call.out.status \in Terminal /\ MayFence(r, others) /\ rc = Fence(rec[r])

(* The answer to a status write: acknowledge it, or give the run up when no  *)
(* other attempt can still confirm the outcome.  A write that only put the   *)
(* row back to an active status is ignored when it fails.                   *)
Settle(r, call, others, rc) ==
    \/ /\ call.res = "ok"
       /\ rc = IF call.out.status \in Terminal
               THEN Acknowledge(rec[r], call.out, call.rev) ELSE rec[r]
    \/ /\ call.res # "ok"
       /\ \/ call.out.status \notin Terminal /\ rc = rec[r]
          \/ call.out.status \in Terminal /\ MayFence(r, others) /\ rc = Fence(rec[r])

UnstartAck(r) ==
    /\ Alive(r) /\ rec[r].pc = "unstart"
    /\ tcall[r].ph = "done"
    /\ \E rc \in {rec[r], Fence(rec[r]), Acknowledge(rec[r], tcall[r].out, tcall[r].rev)} :
         /\ Settle(r, tcall[r], CancelAttempt(r) \/ AdmissionAttempt(r), rc)
         /\ RecAndTask(r, NotStarted(rc), NoCall)

(* The assembled agent may have no evidence to publish.                     *)
SkipEvidence(r) ==
    /\ Alive(r) /\ rec[r].pc = "build" /\ rec[r].abort = "none" /\ ~rec[r].lost
    /\ OnlyRec(r, [rec[r] EXCEPT !.pc = "run"])

(* Fault: the snapshot write does not take the lock it shares with renewal. *)
PutUnlocked(r) ==
    /\ CanStep(r, "build") /\ rec[r].abort = "none" /\ ~rec[r].lost
    /\ RecAndTask(r, [rec[r] EXCEPT !.pc = "put"],
                  Send("put", [status |-> rec[r].status, err |-> ""], rec[r].rev, "none"))

(* record_assembly_evidence: a full snapshot of the record, written while    *)
(* the gate and the run's snapshot lock (shared with renewal) are held.      *)
PutBegin(r) ==
    /\ CanStep(r, "build") /\ rec[r].abort = "none" /\ ~rec[r].lost
    /\ rcall[r].ph \in {"idle", "signal"}
    /\ RecAndTask(r, [rec[r] EXCEPT !.pc = "put"],
                  Send("put", [status |-> rec[r].status, err |-> ""], rec[r].rev, "none"))

PutAck(r) ==
    /\ Alive(r) /\ rec[r].pc = "put" /\ ~rec[r].lost
    /\ tcall[r].ph = "done"
    /\ RecAndTask(r,
         IF tcall[r].res = "ok"
         THEN [rec[r] EXCEPT !.pc = "run"]
         ELSE [Stage(rec[r], "error", "failed") EXCEPT !.pc = "final"], NoCall)

(* The agent finished and was not aborted: its outcome is staged.           *)
Finish(r, status) ==
    /\ CanStep(r, "run") /\ rec[r].abort = "none" /\ ~rec[r].lost
    /\ status = "error" => AgentFaults
    /\ OnlyRec(r, [Stage(rec[r], status, IF status = "error" THEN "failed" ELSE "") EXCEPT !.pc = "final"])

(* The agent raised, aborted or not.                                        *)
FailRun(r) ==
    /\ AgentFaults
    /\ CanStep(r, "build") \/ CanStep(r, "run")
    /\ ~rec[r].lost
    /\ OnlyRec(r, [Stage(rec[r], "error", "failed") EXCEPT !.pc = "final"])

(* CancelledError, or the abort flag read by the stream loop.               *)
Interrupted(r) ==
    /\ Alive(r) /\ rec[r].pc \in {"build", "run"} /\ rec[r].abort # "none" /\ ~rec[r].lost
    /\ OnlyRec(r, [rec[r] EXCEPT !.pc = "cancel"])

(* A fence cancels the task wherever it awaits; the cancelled store call is  *)
(* abandoned.                                                               *)
Fenced(r) ==
    /\ Alive(r) /\ rec[r].lost
    /\ rec[r].pc \in {"wait", "start", "build", "put", "run", "cancel", "restore", "final", "persist"}
    /\ RecAndTask(r, [rec[r] EXCEPT !.pc = "tail"], NoCall)

(* _finish_cancellation: stage the outcome of the action, then restore the   *)
(* checkpoint for a rollback.  The sandbox cleanup may fail, which changes   *)
(* the error text of the outcome.                                           *)
FinishCancellation(r) ==
    /\ CanStep(r, "cancel") /\ ~rec[r].lost
    /\ \E err \in {""} \cup (IF "cleanup" \in Faults THEN {"cleanup"} ELSE {}) :
         LET rc   == [rec[r] EXCEPT !.finalizing = TRUE]
             next == IF rc.stage = 0 THEN "final" ELSE "persist"
         IN  IF rc.abort = "rollback"
             THEN OnlyRec(r, [Stage([rc EXCEPT !.rollback = TRUE], "error", "rolledback")
                                EXCEPT !.pc = IF rc.started THEN "restore" ELSE next])
             ELSE OnlyRec(r, [Stage(rc, "interrupted", err) EXCEPT !.pc = next])

(* _rollback_to_pre_run_checkpoint has written the old checkpoint back.      *)
Restore(r) ==
    /\ Alive(r) /\ rec[r].pc = "restore" /\ ~rec[r].lost
    /\ OnlyRec(r, [rec[r] EXCEPT !.pc = IF rec[r].stage = 0 THEN "final" ELSE "persist"])

(* finalize(): the delivery receipt could not be written.                   *)
ReceiptLost(r) ==
    /\ AgentFaults
    /\ CanStep(r, "final") /\ ~rec[r].lost /\ rec[r].status = "success"
    /\ OnlyRec(r, Stage(rec[r], "error", "failed"))

(* finalize(): the terminal arbitration.  An aborted run applies the         *)
(* accepted action to a success that is still staged and persists; any other *)
(* run competes with durable cancellation through the compare-and-set.      *)
Arbitrate(r) ==
    /\ CanStep(r, "final") /\ ~rec[r].lost
    /\ LET rc == [rec[r] EXCEPT !.stage = 1]
       IN  IF rc.abort # "none"
           THEN OnlyRec(r, [rc EXCEPT !.pc = IF rc.status = "success" THEN "cancel" ELSE "persist"])
           ELSE IF HasAck(rc, OutcomeOf(rc)) \/ rc.proof.status \in {"success", "error"}
           THEN OnlyRec(r, [rc EXCEPT !.pc = "tail"])
           ELSE RecAndTask(r, [rc EXCEPT !.pc = "commit", !.pending = TRUE],
                           Send("cas", OutcomeOf(rc), rc.rev, "none"))

AfterCommit(rc) == IF rc.stage = 2 THEN "seal" ELSE "tail"

(* persist_current_status *)
PersistBegin(r) ==
    /\ CanStep(r, "persist") /\ ~rec[r].lost
    /\ IF HasAck(rec[r], OutcomeOf(rec[r]))
       THEN OnlyRec(r, [rec[r] EXCEPT !.saved = FinalAck(rec[r]), !.pc = AfterCommit(rec[r])])
       ELSE RecAndTask(r, [rec[r] EXCEPT !.pc = "commit", !.pending = TRUE],
                       Send("update", OutcomeOf(rec[r]), rec[r].rev, "none"))

(* The terminal write answered.  A compare-and-set that lost to a durable    *)
(* cancellation runs that cancellation; a refused or unconfirmed write       *)
(* fences the worker unless another attempt confirms the outcome.           *)
CommitAck(r) ==
    /\ Alive(r) /\ rec[r].pc = "commit"
    /\ tcall[r].ph = "done"
    /\ \/ /\ tcall[r].res \in Actions
          /\ RecAndTask(r, [rec[r] EXCEPT !.abort = tcall[r].res, !.pc = "cancel"], NoCall)
       \/ /\ tcall[r].res \notin Actions
          /\ \E rc \in {Fence(rec[r]), Acknowledge(rec[r], tcall[r].out, tcall[r].rev)} :
               /\ Settle(r, tcall[r], CancelAttempt(r) \/ AdmissionAttempt(r), rc)
               /\ RecAndTask(r, [rc EXCEPT !.pc = AfterCommit(rc), !.saved = FinalAck(rc)], NoCall)

(* After the commit: release the barrier, and try once more to confirm a     *)
(* terminal status that is not persisted yet.                               *)
Tail(r) ==
    /\ CanStep(r, "tail")
    /\ LET rc == [rec[r] EXCEPT !.pending = @ /\ ~(rec[r].lost \/ FinalAck(rec[r]))]
       IN  OnlyRec(r, IF ~rc.lost /\ ~rc.saved
                      THEN [rc EXCEPT !.pc = "persist", !.stage = 2]
                      ELSE [rc EXCEPT !.pc = "seal"])

(* Fault: announcing a status that is only staged. *)
MayPublishStaged(rc) == rc.status \in Terminal

(* terminal_event_status: the outcome this worker may announce.             *)
MayPublish(rc) == rc.status \in Terminal /\ FinalAck(rc)

Seal(r) ==
    /\ Alive(r) /\ rec[r].pc = "seal"
    /\ published' = [published EXCEPT ![r] = IF MayPublish(rec[r]) THEN rec[r].status ELSE @]
    /\ rec' = [rec EXCEPT ![r] = [@ EXCEPT !.pc = "end"]]
    /\ UNCHANGED <<rows, older, up, tcall, ccall, rcall, adm, ended>>

(* Fault: END is skipped for interrupted runs. *)
EndUnlessInterrupted(r) ==
    /\ CanStep(r, "end")
    /\ rec' = [rec EXCEPT ![r] = [@ EXCEPT !.finalizing = FALSE, !.pc = "done"]]
    /\ ended' = IF ~rec[r].lost /\ rec[r].status \in {"success", "error"} /\ rec[r].saved
                THEN ended \cup {r} ELSE ended
    /\ UNCHANGED <<rows, older, up, tcall, ccall, rcall, adm, published>>

End(r) ==
    /\ CanStep(r, "end")
    /\ rec' = [rec EXCEPT ![r] = [@ EXCEPT !.finalizing = FALSE, !.pc = "done"]]
    /\ ended' = IF ~rec[r].lost /\ rec[r].status \in Terminal /\ rec[r].saved
                THEN ended \cup {r} ELSE ended
    /\ UNCHANGED <<rows, older, up, tcall, ccall, rcall, adm, published>>

(* What is left of a record that its worker no longer keeps.                *)
Unregistered(w, left) == [NoRecord EXCEPT !.home = w, !.left = left, !.pc = "done"]

(* cleanup: the finished record is dropped after its retention delay (300 s), *)
(* which outlasts the store calls that are still in flight for it.          *)
Evict(r) ==
    /\ CanStep(r, "done")
    /\ ccall[r].ph = "idle" /\ rcall[r].ph = "idle"
    /\ OnlyRec(r, Unregistered(rec[r].home, rec[r].left))

-----------------------------------------------------------------------------
(* Cancellation.                                                            *)

CancelCall(r, rc, call) ==
    /\ rec' = [rec EXCEPT ![r] = rc]
    /\ ccall' = [ccall EXCEPT ![r] = call]
    /\ UNCHANGED <<rows, older, up, tcall, rcall, adm, published, ended>>

(* cancel() at the owner: the request becomes durable before it is local.   *)
CancelBegin(r, action) ==
    /\ Alive(r) /\ GateFree(rec[r].home)
    /\ ccall[r].ph = "idle"
    /\ rec[r].status # "interrupted"
    /\ CancelCall(r, rec[r], Send("request", NoOutcome, 0, action))

(* The durable action that won is applied to the local run, once, and the    *)
(* interrupted status is written at once, before the task has cleaned up.   *)
(* A request that raised still cancels locally; one that found a terminal    *)
(* row does nothing.                                                        *)
CancelApply(r) ==
    /\ Alive(r) /\ GateFree(rec[r].home)
    /\ ccall[r].ph = "done" /\ ccall[r].op = "request"
    /\ LET action == IF ccall[r].res = "exc" THEN ccall[r].arg ELSE ccall[r].res
           rc == [Abort(rec[r], action) EXCEPT !.status = "interrupted", !.saved = FALSE]
       IN  IF ccall[r].res = "no" \/ rec[r].abort # "none" \/ rec[r].status \notin Active
           THEN CancelCall(r, rec[r], NoCall)
           ELSE CancelCall(r, [rc EXCEPT !.pending = TRUE],
                           Send("update", OutcomeOf(rc), rc.rev, "none"))

CancelAck(r) ==
    /\ Alive(r)
    /\ ccall[r].ph = "done" /\ ccall[r].op = "update"
    /\ \E rc \in {Fence(rec[r]), Acknowledge(rec[r], ccall[r].out, ccall[r].rev)} :
         /\ Settle(r, ccall[r], TaskAttempt(r) \/ AdmissionAttempt(r), rc)
         /\ CancelCall(r, [rc EXCEPT !.saved = FinalAck(rc)], NoCall)

OnlyRows(r, row) ==
    /\ rows' = [rows EXCEPT ![r] = row]
    /\ UNCHANGED <<older, up, rec, tcall, ccall, rcall, adm, published, ended>>

(* cancel() elsewhere records the request for the owner's next heartbeat.    *)
(* The caller's earlier read of the lease may be stale: nothing guards it.   *)
(* At the admitting worker the pending run id makes cancel() wait for the    *)
(* admission.                                                               *)
RemoteCancel(w, r, action) ==
    /\ w \in up /\ ~(Alive(r) /\ rec[r].home = w) /\ r \notin adm[w].run
    /\ rows[r].status \in Active
    /\ OnlyRows(r, RequestCancel(rows[r], action))

(* Orphan recovery: reconcile_orphaned_inflight_runs, and cancel() of a run  *)
(* whose lease has expired.  A worker skips a run its own registry still     *)
(* shows as active.                                                         *)
Takeover(w, r) ==
    /\ w \in up
    /\ ~(Alive(r) /\ rec[r].home = w /\ rec[r].status \in Active)
    /\ ClaimForTakeoverOk(rows[r])
    /\ OnlyRows(r, ClaimForTakeover(rows[r]))

-----------------------------------------------------------------------------
(* The lease heartbeat.                                                     *)

RenewCall(r, rc, call) ==
    /\ rec' = [rec EXCEPT ![r] = rc]
    /\ rcall' = [rcall EXCEPT ![r] = call]
    /\ UNCHANGED <<rows, older, up, tcall, ccall, adm, published, ended>>

(* _renew_leases: which records take part in a heartbeat.                   *)
Renewable(rc) ==
    /\ rc.live /\ ~rc.lost
    /\ rc.status \in Active \/ Awaits(rc)
    /\ Awaits(rc) \/ rc.pc # "done"

AllowInterrupted(rc) == rc.rollback /\ rc.proof.status = "interrupted"

(* Fault: the old timer is cancelled and no new one is armed. *)
RearmNever(rc) == [rc EXCEPT !.armed = FALSE]

Rearm(rc) == [rc EXCEPT !.armed = ~FinalAck(rc)]

SendRenewal(allow, retried) ==
    [ph |-> "sent", left |-> Lease, allow |-> allow, retried |-> retried,
     cancel |-> "none", res |-> "-"]

(* A cancellation request that came back with a renewal, not yet signalled.  *)
SignalOf(action) ==
    [ph |-> "signal", left |-> Floor, allow |-> FALSE, retried |-> FALSE,
     cancel |-> action, res |-> "-"]

(* _renew_one_lease, under the run's snapshot lock.                         *)
RenewBegin(r) ==
    /\ Renewable(rec[r]) /\ rec[r].pc # "put"
    /\ rcall[r].ph = "idle"
    /\ LET rc == Rearm(rec[r])
       IN  IF FinalAck(rc)
           THEN RenewCall(r, [rc EXCEPT !.pending = FALSE], NoRenewal)
           ELSE IF rc.left <= 0 \/ (Awaits(rc) /\ rc.pc = "done" /\ ~Attempting(r))
           THEN RenewCall(r, Fence(rc), NoRenewal)
           ELSE RenewCall(r, rc, SendRenewal(AllowInterrupted(rc), FALSE))

(* Fault: the renewal does not return the durable cancellation request. *)
RenewBlind(r) ==
    /\ rcall[r].ph = "sent"
    /\ LET call == rcall[r]
           ok == RenewLeaseOk(rows[r], call.left, call.allow, rec[r].home)
       IN  /\ rows' = [rows EXCEPT ![r] = RenewLease(@, call.left, call.allow, rec[r].home)]
           /\ rcall' = [rcall EXCEPT ![r].ph = "done", ![r].res = IF ok THEN "ok" ELSE "no"]
    /\ UNCHANGED <<older, up, rec, tcall, ccall, adm, published, ended>>

RenewStore(r) ==
    /\ rcall[r].ph = "sent"
    /\ LET call == rcall[r]
           ok == RenewLeaseOk(rows[r], call.left, call.allow, rec[r].home)
           answer == [call EXCEPT !.ph = "done", !.res = IF ok THEN "ok" ELSE "no",
                                  !.cancel = IF ok THEN rows[r].cancel ELSE "none"]
           raised == [call EXCEPT !.ph = "done", !.res = "exc"]
       IN  \/ /\ rows' = [rows EXCEPT ![r] = RenewLease(@, call.left, call.allow, rec[r].home)]
              /\ \E c \in {answer} \cup (IF StoreFaults THEN {raised} ELSE {}) :
                   rcall' = [rcall EXCEPT ![r] = c]
           \/ /\ StoreFaults
              /\ rcall' = [rcall EXCEPT ![r] = raised]
              /\ UNCHANGED rows
    /\ UNCHANGED <<older, up, rec, tcall, ccall, adm, published, ended>>

(* _rollback_retry_authorized: a renewal refused because the row has just    *)
(* become interrupted is sent once more when this worker owes the rollback. *)
RetryAuthorized(r) ==
    /\ ~rcall[r].retried /\ ~rcall[r].allow
    /\ AllowInterrupted(rec[r]) /\ ~FinalAck(rec[r])

RenewAck(r) ==
    /\ rec[r].live
    /\ rcall[r].ph = "done"
    /\ LET rc == rec[r]
           call == rcall[r]
       IN  IF rc.lost THEN RenewCall(r, rc, NoRenewal)
           ELSE IF call.res = "exc"
           THEN RenewCall(r, IF rc.left <= 0 THEN Fence(rc) ELSE rc, NoRenewal)
           ELSE IF FinalAck(rc)
           THEN RenewCall(r, [rc EXCEPT !.pending = FALSE], NoRenewal)
           ELSE IF rc.left <= 0
           THEN RenewCall(r, Fence(rc), NoRenewal)
           ELSE IF call.res = "ok"
           THEN RenewCall(r, Rearm([rc EXCEPT !.left = call.left]),
                          IF call.cancel = "none" THEN NoRenewal
                          ELSE SignalOf(call.cancel))
           ELSE IF RetryAuthorized(r)
           THEN RenewCall(r, rc, SendRenewal(TRUE, TRUE))
           ELSE MayFence(r, Attempting(r)) /\ RenewCall(r, Fence(rc), NoRenewal)

(* _signal_local_cancel: a durable request seen by the heartbeat.           *)
Signal(r) ==
    /\ Alive(r) /\ GateFree(rec[r].home)
    /\ rcall[r].ph = "signal"
    /\ LET rc == rec[r]
       IN  RenewCall(r,
             IF (rc.status \in Active \/ Awaits(rc)) /\ rc.abort = "none"
             THEN Abort(rc, rcall[r].cancel) ELSE rc, NoRenewal)

(* The lease deadline timer: local, independent of store I/O and the gate.  *)
Deadline(r) ==
    /\ Alive(r) /\ rec[r].armed /\ rec[r].left <= 0
    /\ OnlyRec(r, [Fence(rec[r]) EXCEPT !.armed = FALSE])

-----------------------------------------------------------------------------
(* The environment.                                                         *)

(* A worker that is not stalled for longer than Slack runs its timer before  *)
(* the clock moves on, and the cancellation by that timer ends an unguarded  *)
(* snapshot write that is still in flight.                                  *)
MayTick(r) ==
    /\ rec[r].live /\ rec[r].armed => rec[r].left > -Slack
    /\ tcall[r].op = "put" /\ tcall[r].ph = "sent" => rec[r].left > -Slack

Tick ==
    /\ \A r \in Runs : MayTick(r)
    /\ rows' = [r \in Runs |-> [rows[r] EXCEPT !.left = Age(@)]]
    /\ rec' = [r \in Runs |-> [rec[r] EXCEPT !.left = Age(@)]]
    /\ rcall' = [r \in Runs |-> [rcall[r] EXCEPT !.left = Age(@)]]
    /\ adm' = [w \in Workers |-> [adm[w] EXCEPT !.left = Age(@)]]
    /\ UNCHANGED <<older, up, tcall, ccall, published, ended>>

(* A process dies with everything it holds in memory.  A restarted process   *)
(* draws a new worker id, so the old one never comes back.                  *)
Crash(w) ==
    /\ "crash" \in Faults
    /\ w \in up /\ up # {w}
    /\ up' = up \ {w}
    /\ adm' = [adm EXCEPT ![w] = NoAdmission]
    /\ LET Of(r) == rec[r].home = w
       IN  /\ rec' = [r \in Runs |-> IF Of(r) THEN Unregistered(w, Floor) ELSE rec[r]]
           /\ tcall' = [r \in Runs |-> IF Of(r) THEN NoCall ELSE tcall[r]]
           /\ ccall' = [r \in Runs |-> IF Of(r) THEN NoCall ELSE ccall[r]]
           /\ rcall' = [r \in Runs |-> IF Of(r) THEN NoRenewal ELSE rcall[r]]
    /\ UNCHANGED <<rows, older, published, ended>>

TaskStep(r) ==
    \/ Attach(r) \/ StartCheck(r) \/ StartAck(r) \/ UnstartAck(r)
    \/ SkipEvidence(r) \/ PutBegin(r) \/ PutAck(r)
    \/ \E status \in {"success", "error"} : Finish(r, status)
    \/ FailRun(r) \/ Interrupted(r) \/ Fenced(r) \/ FinishCancellation(r) \/ Restore(r)
    \/ ReceiptLost(r) \/ Arbitrate(r) \/ PersistBegin(r) \/ CommitAck(r)
    \/ Tail(r) \/ Seal(r) \/ End(r) \/ Evict(r)

CancelStep(r) ==
    \/ \E action \in Requests : CancelBegin(r, action)
    \/ CancelApply(r) \/ CancelAck(r)
    \/ \E w \in Workers, action \in Requests : RemoteCancel(w, r, action)

LeaseStep(r) ==
    \/ RenewBegin(r) \/ RenewStore(r) \/ RenewAck(r) \/ Signal(r) \/ Deadline(r)
    \/ \E w \in Workers : Takeover(w, r)

Next ==
    \/ \E w \in Workers :
         \/ \E r \in Runs, strategy \in Strategies : AdmitBegin(w, r, strategy)
         \/ AdmitStore(w) \/ AdmitAck(w) \/ Crash(w)
    \/ \E r \in Runs : TaskStep(r) \/ CancelStep(r) \/ LeaseStep(r) \/ TaskStore(r) \/ CancelStore(r)
    \/ Tick

Spec == Init /\ [][Next]_vars

(* Fairness.  The event loop runs a task whose await is over, store calls    *)
(* return, time passes, timers fire and the recovery scan keeps running.  The *)
(* agent may run for ever, clients need not cancel, and no heartbeat is       *)
(* promised: a worker that stops renewing is what the lease is for.          *)
TaskProgress(r) ==
    \/ Attach(r) \/ StartCheck(r) \/ StartAck(r) \/ UnstartAck(r) \/ PutAck(r)
    \/ Interrupted(r) \/ Fenced(r) \/ FinishCancellation(r) \/ Restore(r)
    \/ Arbitrate(r) \/ PersistBegin(r) \/ CommitAck(r) \/ Tail(r) \/ Seal(r) \/ End(r)

Fairness ==
    /\ WF_vars(Tick)
    /\ \A w \in Workers : WF_vars(AdmitStore(w)) /\ WF_vars(AdmitAck(w))
    /\ \A r \in Runs :
        /\ WF_vars(TaskProgress(r)) /\ WF_vars(TaskStore(r))
        /\ WF_vars(CancelApply(r) \/ CancelAck(r)) /\ WF_vars(CancelStore(r))
        /\ WF_vars(RenewStore(r)) /\ WF_vars(RenewAck(r)) /\ WF_vars(Signal(r))
        /\ WF_vars(Deadline(r))
        /\ WF_vars(\E w \in Workers : Takeover(w, r))

FairSpec == Spec /\ Fairness

-----------------------------------------------------------------------------
(* Properties.                                                              *)

(* A run that a peer has reclaimed as orphaned is not executed any more: its *)
(* former owner has been fenced (or is gone) by the time claim_for_takeover  *)
(* commits, and nothing it still has in flight brings the row back.         *)
ReclaimedRunIsFenced ==
    \A r \in Runs : rows[r].taken => ~rec[r].live \/ rec[r].lost

(* The partial unique index: one active row per thread.                     *)
OneActiveRow ==
    \A q, r \in Runs : rows[q].status \in Active /\ rows[r].status \in Active => q = r

(* The outcome announced by a run.terminal event is the durable one, and     *)
(* stays so whatever late writers, takeovers and crashes follow.            *)
PublishedIsDurable ==
    \A r \in Runs : published[r] # "absent" => rows[r].status = published[r]

(* END is sent only for a run whose row is terminal.                        *)
EndedIsTerminal == \A r \in ended : rows[r].status \in Terminal

(* A worker that holds a final acknowledgment, and has no terminal write of   *)
(* its own in flight any more, agrees with the store.                       *)
FinalAckIsDurable ==
    \A r \in Runs :
        rec[r].live /\ FinalAck(rec[r]) /\ ~Attempting(r) => rows[r].status = rec[r].status

(* A cancellation request, once durable, excludes success.                  *)
CancelExcludesSuccess ==
    \A r \in Runs : rows[r].cancel # "none" => rows[r].status # "success"

Executing(r) == /\ rec[r].live /\ ~rec[r].lost /\ rec[r].abort = "none"
                /\ rec[r].pc \in {"build", "put", "run"}

(* At most one unaborted run of the thread executes, across all workers.  The *)
(* one exception is an admission that outlived the lease of the row it        *)
(* inserted before it could abort the run it claimed.                        *)
OneExecutor ==
    \A q, r \in Runs :
        Executing(q) /\ Executing(r)
        => \/ q = r
           \/ \E w \in Workers : /\ adm[w].ph = "done" /\ adm[w].left < -Grace
                                 /\ {q, r} \cap adm[w].claimed # {}

(* No run executes while an older run of the thread still restores its       *)
(* checkpoint (wait_for_prior_finalizing).                                  *)
NoRunDuringRestore ==
    \A q, r \in Runs :
        /\ rec[q].live /\ rec[q].pc = "restore" /\ ~rec[q].lost
        /\ q \in older[r]
        => ~Executing(r)

(* success and error rows are final; interrupted may only become error.     *)
RowOutcomeIsFinal ==
    [][\A r \in Runs :
        /\ rows[r].status \in {"success", "error"} => rows'[r].status = rows[r].status
        /\ rows[r].status = "interrupted" => rows'[r].status \in {"interrupted", "error"}]_vars

-----------------------------------------------------------------------------
(* The inductive strengthening of ReclaimedRunIsFenced, run by run.          *)

Calling == {"start", "unstart", "put", "commit"}
Early   == {"none", "wait", "start", "build"}

(* What a call in flight carries, and where its caller waits for it.         *)
CallsMatch(r) ==
    /\ \A c \in {tcall[r], ccall[r]} :
         /\ c.ph # "idle" /\ c.op \in {"update", "cas", "put"} => c.out \in Outcomes
         /\ c.ph = "done" /\ c.op = "request" => c.res \in Actions \cup {"no", "exc"}
         /\ c.op = "request" => c.arg \in Actions
    /\ tcall[r].ph # "idle" => rec[r].live /\ rec[r].pc \in Calling
    /\ tcall[r].ph # "idle" => (tcall[r].op = "put" <=> rec[r].pc = "put")
    /\ tcall[r].ph # "idle" /\ rec[r].pc \in {"unstart", "commit"} => tcall[r].op \in {"update", "cas"}
    /\ ccall[r].op \in {"none", "request", "update"}
    /\ ccall[r].ph # "idle" => rec[r].live
    /\ rcall[r].ph # "idle" => rec[r].live
    /\ ccall[r].op = "update" => ccall[r].ph # "idle" /\ rec[r].abort # "none"

(* The local lease never outlives the durable one.                           *)
LeaseIsConfirmed(r) ==
    /\ rec[r].live => rows[r].left >= rec[r].left
    /\ rcall[r].ph \in {"sent", "done"} => rcall[r].left >= rec[r].left
    /\ rcall[r].ph = "done" /\ rcall[r].res = "ok" => rows[r].left >= rcall[r].left

(* An owner without a proof has its timer armed, and the timer is in time.    *)
TimerIsArmed(r) ==
    /\ rec[r].live /\ ~rec[r].lost /\ rec[r].proof = NoOutcome => rec[r].armed
    /\ rec[r].live /\ rec[r].armed => rec[r].left >= -Slack

(* A proof, or a positive answer on its way, means that the row is closed.   *)
ProofMeansClosed(r) ==
    /\ rec[r].proof = NoOutcome \/ rec[r].proof.status \in Terminal
    /\ rec[r].live /\ rec[r].proof # NoOutcome => rows[r].status \notin Active
    /\ \A c \in {tcall[r], ccall[r]} :
         /\ c.ph = "done" /\ c.res = "ok"
         /\ c.op \in {"update", "cas"} /\ c.out.status \in Terminal
         => rows[r].status \notin Active

(* The unguarded snapshot write has no terminal write and no renewal beside it. *)
SnapshotIsAlone(r) ==
    /\ rec[r].live /\ rec[r].pc = "put" =>
         /\ rec[r].proof = NoOutcome
         /\ ccall[r].op # "update"
         /\ rcall[r].ph \in {"idle", "signal"}
         /\ \A w \in Workers : r \notin adm[w].cands
    /\ rec[r].live /\ ~rec[r].lost /\ rec[r].abort = "none" /\ rec[r].pc \in Early
         => rec[r].proof = NoOutcome

RunInvariant(r) ==
    /\ CallsMatch(r) /\ LeaseIsConfirmed(r) /\ TimerIsArmed(r) /\ ProofMeansClosed(r)
    /\ SnapshotIsAlone(r)
    /\ rows[r].taken => ~rec[r].live \/ rec[r].lost
    /\ rows[r].status = "absent" => ~rec[r].live /\ ~rows[r].taken

(* A run has one admission, which registers it at most once.                 *)
AdmissionIsFresh(w) ==
    /\ adm[w].ph = "idle" => adm[w] = NoAdmission
    /\ adm[w].cands # {} => adm[w].strategy \in Actions
    /\ \A q \in adm[w].cands : rec[q].live /\ rec[q].home = w
    /\ \A r \in adm[w].run : ~rec[r].live
    /\ \A q, r \in adm[w].run : q = r
    /\ \A v \in Workers, r \in Runs : r \in adm[w].run /\ r \in adm[v].run => v = w
    /\ adm[w].ph = "sent" => \A r \in adm[w].run : rows[r].status = "absent"
    /\ adm[w].ph = "done" /\ adm[w].res = "ok" =>
         /\ \A r \in adm[w].run : /\ rows[r].status # "absent"
                                  /\ rows[r].left >= adm[w].left
                                  /\ rows[r].taken => adm[w].left <= 0
         /\ \A q \in adm[w].cands \cap adm[w].claimed : rows[q].status \notin Active

FenceInvariant ==
    /\ TypeOK
    /\ \A r \in Runs : RunInvariant(r)
    /\ \A w \in Workers : AdmissionIsFresh(w)

-----------------------------------------------------------------------------
(* The inductive strengthening of the properties about outcomes.             *)

Working == {"none", "wait", "start", "build", "put", "run"}
Final   == {"success", "error"}

(* The run still has its outcome before it, as far as its worker knows.      *)
Busy(rc) == rc.live /\ ~rc.lost /\ rc.abort = "none" /\ rc.pc \in Working

(* A busy run has no proof, and its calls cannot close the row.              *)
BusyIsUndecided(r) ==
    /\ rec[r].live => rec[r].home \in Workers
    /\ Busy(rec[r]) => rec[r].proof = NoOutcome /\ rec[r].status \in Active
    /\ Busy(rec[r]) /\ rec[r].pc \in {"none", "wait", "start"} => rec[r].status = "pending"
    /\ rec[r].pc = "start" /\ tcall[r].ph # "idle" => tcall[r].op = "start"
    /\ tcall[r].ph # "idle" /\ tcall[r].op = "put" => tcall[r].out.status \in Active

(* The outcome was announced, or END was sent.                               *)
Told(r) == r \in ended \/ published[r] # "absent"

(* When clients have been told, the row is closed and the task is past its   *)
(* last write.                                                               *)
ToldIsOver(r) ==
    /\ rec[r].live /\ ~rec[r].lost /\ rec[r].saved => rec[r].proof # NoOutcome
    /\ Told(r) => /\ rows[r].status \in Terminal
                  /\ rec[r].live => rec[r].pc \in {"end", "done"}
                  /\ \A w \in Workers : r \notin adm[w].run

(* A cancellation writes "interrupted" for the revision it was staged at, and *)
(* the answer to the task's write is about the status the row now has.       *)
CallsAgree(r) ==
    /\ rows[r].status = "absent" => rows[r].cancel = "none"
    /\ tcall[r].op = "update" => tcall[r].res \notin Actions
    /\ ccall[r].op = "update" =>
         /\ ccall[r].out.status = "interrupted" /\ ccall[r].rev <= rec[r].rev
         /\ ccall[r].rev = rec[r].rev =>
              rec[r].status = "interrupted" \/ rec[r].lost \/ rec[r].proof.status \in Final
    /\ /\ tcall[r].ph = "done" /\ tcall[r].res = "ok"
       /\ tcall[r].op \in {"update", "cas"} /\ tcall[r].out.status \in Terminal
       => rows[r].status = tcall[r].out.status

RunOutcome(r) == BusyIsUndecided(r) /\ ToldIsOver(r) /\ CallsAgree(r)

(* No worker learns of a claim too late: either the store answers every call, *)
(* or admissions claim nothing.                                              *)
AnswersArrive == ~StoreFaults \/ Strategies \subseteq {"reject"}

(* The task's write of "error" may have closed the row already, and will      *)
(* replace an interrupted proof.                                             *)
PendingError(r) ==
    /\ tcall[r].ph # "idle" /\ tcall[r].op = "update" /\ tcall[r].out.status = "error"
    /\ \/ tcall[r].ph = "done" /\ tcall[r].res = "ok"
       \/ StoreFaults /\ rec[r].status = "error"

(* The row is interrupted, or was amended by this run's own rollback.         *)
Amended(r) ==
    \/ rows[r].status = "interrupted"
    \/ rows[r].status = "error" /\ (rec[r].proof.status = "error" \/ PendingError(r))

(* The admission of worker w claimed the row of run r, which does not know yet. *)
Claims(w, r) ==
    adm[w].ph = "done" /\ adm[w].res = "ok" /\ r \in adm[w].cands \cap adm[w].claimed

(* A proof is the outcome in the row, up to a rollback on its way.            *)
ProofIsDurable(r) ==
    rec[r].live /\ ~rec[r].lost =>
        /\ rec[r].proof # NoOutcome =>
             \/ rows[r].status = rec[r].proof.status
             \/ rec[r].proof.status = "interrupted" /\ rows[r].status = "error" /\ PendingError(r)
        /\ ccall[r].op = "update" /\ ccall[r].ph = "done" /\ ccall[r].res = "ok" => Amended(r)
        /\ \A w \in Workers : Claims(w, r) => Amended(r)
        /\ /\ StoreFaults /\ rec[r].proof.status \notin Final
           /\ tcall[r].ph # "idle" /\ tcall[r].op = "update" /\ tcall[r].out.status = "error"
           => rec[r].status = "error"

Holds(r) == rows[r].status \in Active /\ rows[r].owner = rec[r].home

(* A busy run owns the thread's active row, or is about to be superseded by   *)
(* an admission of its own worker.                                           *)
BusyHolds(r) ==
    /\ Busy(rec[r]) => Holds(r) \/ Claims(rec[r].home, r)
    /\ Busy(rec[r]) /\ adm[rec[r].home].ph # "idle" /\ adm[rec[r].home].strategy # "reject"
         => r \in adm[rec[r].home].cands
    /\ rec[r].live /\ rec[r].pc = "put" => adm[rec[r].home].ph = "idle"
    /\ rec[r].live /\ rec[r].pc = "put" /\ tcall[r].ph = "sent"
         => Holds(r) /\ rec[r].left >= -Slack

(* An answered admission owns the active row, unless its lease ran out.       *)
AdmissionHolds(w) ==
    /\ adm[w].ph # "idle" => adm[w].strategy \in Strategies /\ adm[w].run # {}
    /\ \A q, r \in adm[w].claimed : q = r
    /\ adm[w].ph = "done" /\ adm[w].res = "ok" =>
         \A r \in adm[w].run :
             adm[w].left < -Grace \/ (rows[r].status \in Active /\ rows[r].owner = w)

OutcomeInvariant ==
    /\ FenceInvariant /\ OneActiveRow /\ CancelExcludesSuccess
    /\ \A r \in Runs : RunOutcome(r)
    /\ AnswersArrive => /\ PublishedIsDurable
                        /\ \A r \in Runs : ProofIsDurable(r) /\ BusyHolds(r)
                        /\ \A w \in Workers : AdmissionHolds(w)

-----------------------------------------------------------------------------
(* The abstract specification, and liveness.                                *)

(* The durable rows and the published outcomes behave as RunLifecycle says.   *)
Lifecycle == INSTANCE RunLifecycle WITH
    status    <- [r \in Runs |-> rows[r].status],
    cancel    <- [r \in Runs |-> rows[r].cancel],
    announced <- published

ImplementsLifecycle == Lifecycle!Spec

(* A row nobody works for (its worker crashed, was fenced, or never saw the   *)
(* answer to its admission) does not block the thread for ever.             *)
Attended(r) == rec[r].live /\ ~rec[r].lost
OrphanIsReclaimed ==
    \A r \in Runs :
        rows[r].status \in Active /\ ~Attended(r) ~> rows[r].status \notin Active \/ Attended(r)

(* An accepted cancellation ends the run, wherever the request was made.     *)
CancelIsHonoured ==
    \A r \in Runs : rows[r].cancel # "none" ~> rows[r].status \notin Active

(* A worker that committed the outcome of its run goes on to send END, unless *)
(* it loses the run or dies.                                                *)
CommittedRunEnds ==
    \A r \in Runs :
        rec[r].live /\ FinalAck(rec[r])
            ~> r \in ended \/ rec[r].lost \/ rec[r].home \notin up
=============================================================================
