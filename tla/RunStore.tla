------------------------------- MODULE RunStore -------------------------------
(***************************************************************************)
(* The durable run rows and the guarded statements that change them        *)
(* (RunStore, MemoryRunStore and RunRepository).  One TLA+ operator is one  *)
(* store method: the guard is the WHERE clause, the effect is the SET.      *)
(*                                                                         *)
(* A lease is kept as the time LEFT on it, not as an absolute timestamp:    *)
(* lease_expires_at - now.  No comparison in the code tells two leases      *)
(* apart that are both expired past the grace period, so the time left      *)
(* stops at Floor and the model needs no bound on the clock.                *)
(*                                                                         *)
(* All rows belong to one thread: the admission gate and the partial unique *)
(* index are per thread, so different threads never touch each other's rows.*)
(***************************************************************************)
EXTENDS Integers

CONSTANTS
    Runs,      \* run ids of one thread
    Workers,   \* worker processes (each has its own worker id)
    NoWorker,  \* the owner of a row that does not exist yet
    Lease,     \* run_ownership.lease_seconds, in clock ticks
    Grace      \* run_ownership.grace_seconds, in clock ticks

ASSUME StoreAssumption ==
    /\ NoWorker \notin Workers
    /\ Lease \in Nat \ {0}
    /\ Grace \in Nat

Active   == {"pending", "running"}
Terminal == {"success", "error", "interrupted"}
Actions  == {"interrupt", "rollback"}

(* Nothing distinguishes leases that have been expired for longer than this. *)
Floor == -(Grace + 1)

Left == Floor .. Lease

Age(left) == IF left > Floor THEN left - 1 ELSE Floor

Row ==
    [status : {"absent"} \cup Active \cup Terminal,
     owner  : Workers \cup {NoWorker},
     left   : Left,
     cancel : {"none"} \cup Actions,
     taken  : BOOLEAN]   \* stop_reason = ORPHAN_RECOVERY_STOP_REASON

AbsentRow ==
    [status |-> "absent", owner |-> NoWorker, left |-> Floor,
     cancel |-> "none", taken |-> FALSE]

-----------------------------------------------------------------------------

(* The owner may write while it is still the owner and its lease is live.   *)
LiveOwner(row, w) == row.owner = w /\ row.left > 0

(* is_lease_expired with the grace period: the row looks orphaned to peers. *)
LeaseExpired(row) == row.left < -Grace

(* Fault: startup that does not check that the row is still pending. *)
StartRunAnyway(row) == row.status # "absent"

(* start_run: pending to running and nothing else, without an owner check.  *)
StartRunOk(row) == row.status = "pending"
StartRun(row)   == IF StartRunOk(row) THEN [row EXCEPT !.status = "running"] ELSE row

(* Fault: a status write guarded by ownership only. *)
UpdateStatusByOwner(row, status, w) == LiveOwner(row, w)

(* update_status with an owner: active rows, and interrupted rows for the   *)
(* rollback path; success yields to a durable cancellation request.         *)
UpdateStatusOk(row, status, w) ==
    /\ LiveOwner(row, w)
    /\ row.status \in Active \/ (row.status = "interrupted" /\ status = "error")
    /\ status = "success" => row.cancel = "none"
UpdateStatus(row, status, w) ==
    IF UpdateStatusOk(row, status, w) THEN [row EXCEPT !.status = status] ELSE row

(* Fault: a terminal compare-and-set that forgets cancellation requests. *)
FinalizeOkUncancelled(row, w) == row.status \in Active /\ LiveOwner(row, w)

(* finalize_if_not_cancelled: the terminal compare-and-set.                 *)
FinalizeOk(row, w) == row.status \in Active /\ LiveOwner(row, w) /\ row.cancel = "none"
FinalizeIfNotCancelled(row, status, w) ==
    IF FinalizeOk(row, w) THEN [row EXCEPT !.status = status] ELSE row
FinalizeReply(row, w) ==
    IF row.status \in Active /\ LiveOwner(row, w)
    THEN IF row.cancel = "none" THEN "ok" ELSE row.cancel
    ELSE "no"

(* request_cancel: only active rows, and the first action wins.             *)
RequestCancel(row, action) ==
    IF row.status \in Active /\ row.cancel = "none"
    THEN [row EXCEPT !.cancel = action]
    ELSE row
RequestCancelReply(row, action) ==
    IF row.status \in Active
    THEN IF row.cancel = "none" THEN action ELSE row.cancel
    ELSE "no"

(* renew_lease / update_lease.                                              *)
RenewLeaseOk(row, left, allowInterrupted, w) ==
    /\ row.status \in Active \/ (allowInterrupted /\ row.status = "interrupted")
    /\ LiveOwner(row, w)
    /\ left > 0
RenewLease(row, left, allowInterrupted, w) ==
    IF RenewLeaseOk(row, left, allowInterrupted, w) THEN [row EXCEPT !.left = left] ELSE row

(* Fault: recovery that only looks for running rows. *)
ClaimRunningOnly(row) == row.status = "running" /\ LeaseExpired(row)

(* claim_for_takeover: a lease-aware compare-and-set to error, which leaves *)
(* the owner column alone and stamps the orphan-recovery stop reason.       *)
ClaimForTakeoverOk(row) == row.status \in Active /\ LeaseExpired(row)
ClaimForTakeover(row)   == [row EXCEPT !.status = "error", !.taken = TRUE]

ActiveRows(rows) == {q \in Runs : rows[q].status \in Active}

(* put: a snapshot write that keeps the cancellation request.  It checks      *)
(* neither status nor owner nor lease; only the partial unique index on the  *)
(* thread's active rows can refuse it.                                      *)
PutOk(rows, r) == ActiveRows(rows) \subseteq {r}
PutRow(row, status, left, w) ==
    [row EXCEPT !.status = status, !.left = left, !.owner = w, !.taken = FALSE]

(* Faults: a claim without the ownership and expiry check, and an insert that *)
(* leaves the rows of dead owners active.                                   *)
CreateOkUnowned(rows, w, strategy) == \A q \in ActiveRows(rows) : strategy # "reject"
CreateClaimingOwn(rows, r, w, left) ==
    [q \in Runs |->
        IF q = r
        THEN [status |-> "pending", owner |-> w, left |-> left,
              cancel |-> "none", taken |-> FALSE]
        ELSE IF q \in ActiveRows(rows) /\ rows[q].owner = w
        THEN [rows[q] EXCEPT !.status = "interrupted"]
        ELSE rows[q]]

(* create_thread_operation_atomic: reject needs a thread without an active  *)
(* row; interrupt and rollback claim the active rows that belong to the     *)
(* caller or whose lease has expired past the grace period.                 *)
CreateOk(rows, w, strategy) ==
    \A q \in ActiveRows(rows) :
        strategy # "reject" /\ (rows[q].owner = w \/ LeaseExpired(rows[q]))
CreateThreadOperation(rows, r, w, left) ==
    [q \in Runs |->
        IF q = r
        THEN [status |-> "pending", owner |-> w, left |-> left,
              cancel |-> "none", taken |-> FALSE]
        ELSE IF q \in ActiveRows(rows)
        THEN [rows[q] EXCEPT !.status = "interrupted", !.owner = w]
        ELSE rows[q]]
=============================================================================
