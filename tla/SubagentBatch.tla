---------------------------- MODULE SubagentBatch ----------------------------
(* One durable batch of subagent work: SubagentBatchRepository, the gateways  *)
(* that claim and execute its items (SubagentBatchService, BatchItemLease)    *)
(* and its user's controls.  Every transaction locks the batch row before its *)
(* items, so it is a step (PostgreSQL).  A claim pass has an owner id of its  *)
(* own; here the claims of an item are numbered.  cancel_requested_at is left *)
(* out: only cancel_batch sets it, in the transaction that ends the item.     *)
EXTENDS Integers, FiniteSets

CONSTANTS
    Workers,    \* gateways
    Sizes,      \* bound: the sizes below
    MaxClaims   \* bound: the largest of these claims

BatchAssumption ==
    /\ IsFiniteSet(Workers) /\ MaxClaims \in Nat
    /\ \A s \in Sizes : /\ {s.items, s.attempts} \subseteq Nat \ {0}
                        /\ {s.live, s.running, s.capacity} \subseteq Nat
                        /\ s.claims \in 0 .. MaxClaims

VARIABLES
    size,   \* what stays: total_items, max_live_items, max_running_items, max_attempts of the batch row, the items
            \* that a gateway executes at a time (runtime_config.max_running), and a bound on claims of an item
    batch,  \* its status
    item,   \* the item rows, by position
    exec    \* what each gateway does with each item

vars == <<size, batch, item, exec>>

Items         == 1 .. size.items
ItemTerminal  == {"succeeded", "failed", "cancelled"}
BatchTerminal == {"completed", "failed", "cancelled"}
Runnable      == {"queued", "running"}
Held          == {"leased", "running"}
NoClaim       == 0

Item ==
    [status  : {"pending", "queued"} \cup Held \cup ItemTerminal,
     attempt : 0 .. MaxClaims,
     by      : 0 .. MaxClaims, fresh : BOOLEAN,  \* lease_owner, lease_expires_at in the future
     result  : 0 .. MaxClaims,                   \* the claim whose report is stored
     claims  : 0 .. MaxClaims,                   \* claims made so far (not in the code)
     base    : 0 .. MaxClaims,                   \* claims made before the last retry_item (not in the code)
     ran     : 0 .. MaxClaims]                   \* executions admitted for claims since (not in the code)

Exec ==
    [pc    : {"idle", "claimed", "assembling", "launched", "refused", "running", "completed", "failed"},
     claim : 0 .. MaxClaims,
     valid : BOOLEAN]        \* BatchItemLease.valid

Idle == [pc |-> "idle", claim |-> NoClaim, valid |-> FALSE]

(* create_batch.                                                             *)
Init ==
    /\ size \in Sizes
    /\ batch = "queued"
    /\ item = [i \in Items |-> [status |-> "pending", attempt |-> 0, by |-> NoClaim, fresh |-> FALSE,
                                result |-> NoClaim, claims |-> 0, base |-> 0, ran |-> 0]]
    /\ exec = [w \in Workers |-> [i \in Items |-> Idle]]
-----------------------------------------------------------------------------
With(rows, statuses) == {i \in Items : rows[i].status \in statuses}
First(S, n)          == {i \in S : Cardinality({j \in S : j < i}) < n}
Executing(w)         == {i \in Items : exec[w][i].pc # "idle"}
Go(w, i, state)      == exec' = [exec EXCEPT ![w][i] = state]

(* _refresh_batch_status.                                                    *)
RefreshedUnlessPaused(status, rows) ==
    IF status \in {"paused", "cancelled"} THEN status
    ELSE IF With(rows, ItemTerminal) # Items THEN "running"
    ELSE IF With(rows, {"failed"}) # {} /\ With(rows, {"succeeded"}) = {} THEN "failed" ELSE "completed"

Refreshed(status, rows) ==
    IF With(rows, ItemTerminal) = Items
    THEN IF status = "cancelled" THEN status
         ELSE IF With(rows, {"failed"}) # {} /\ With(rows, {"succeeded"}) = {} THEN "failed" ELSE "completed"
    ELSE IF status \in {"paused", "cancelled"} THEN status ELSE "running"

Unleased(row, status) == [row EXCEPT !.status = status, !.by = NoClaim, !.fresh = FALSE]

(* claim_items recovers the items whose lease ran out, those this gateway    *)
(* itself still executes excepted ...                                        *)
Expired(w)   == {i \in With(item, Held) : ~item[i].fresh} \ Executing(w)
Recovered(w) ==
    [i \in Items |->
        IF i \notin Expired(w) THEN item[i]
        ELSE Unleased(item[i], IF item[i].attempt >= size.attempts THEN "failed" ELSE "queued")]

(* ... lets waiting items in as far as there is room ...                     *)
Promoted(rows) ==
    LET room == size.live - Cardinality(With(rows, {"queued"} \cup Held))
    IN  [i \in Items |-> IF i \in First(With(rows, {"pending"}), room)
                         THEN [rows[i] EXCEPT !.status = "queued"] ELSE rows[i]]

(* ... and claims queued ones, as many as the batch and the gateway may run. *)
Takes(w, rows) ==
    LET room  == size.running - Cardinality(With(rows, Held))
        limit == size.capacity - Cardinality(Executing(w))
    IN  First(With(rows, {"queued"}) \ Executing(w), IF room < limit THEN room ELSE limit)

Claimed(row) ==
    [row EXCEPT !.status = "leased", !.attempt = @ + 1, !.by = row.claims + 1, !.fresh = TRUE, !.claims = @ + 1]

(* run_once.                                                                 *)
ClaimItems(w) ==
    LET rows  == Recovered(w)
        now   == IF \E i \in Expired(w) : rows[i].status \in ItemTerminal THEN Refreshed(batch, rows) ELSE batch
        ready == IF now \in Runnable THEN Promoted(rows) ELSE rows
        taken == IF now \in Runnable THEN Takes(w, ready) ELSE {}
    IN  /\ Cardinality(Executing(w)) < size.capacity
        /\ batch \in Runnable \/ (batch = "paused" /\ Expired(w) # {})
        /\ \A i \in taken : item[i].claims < size.claims
        /\ item' = [i \in Items |-> IF i \in taken THEN Claimed(ready[i]) ELSE ready[i]]
        /\ batch' = IF taken # {} THEN "running" ELSE now
        /\ exec' = [exec EXCEPT ![w] = [i \in Items |->
                       IF i \in taken THEN [pc |-> "claimed", claim |-> item'[i].by, valid |-> TRUE] ELSE @[i]]]
        /\ UNCHANGED size
-----------------------------------------------------------------------------
(* The fence of every write an execution makes (_owned_item_for_update,      *)
(* _write_owned_item).                                                       *)
Owns(w, i) == item[i].by = exec[w][i].claim /\ item[i].status \in Held

(* BatchItemLease.renew: what is not ours any more cannot be renewed, and a  *)
(* renewal that fails gives the lease up too.                                *)
Renew(w, i, then) ==
    \/ /\ exec[w][i].valid /\ Owns(w, i)
       /\ item' = [item EXCEPT ![i].fresh = TRUE]
       /\ Go(w, i, [exec[w][i] EXCEPT !.pc = then])
    \/ /\ UNCHANGED item
       /\ Go(w, i, IF exec[w][i].pc \in {"claimed", "assembling"} THEN Idle ELSE [exec[w][i] EXCEPT !.valid = FALSE])

(* __aenter__ and the check that precedes the launch of what was assembled.  *)
Enter(w, i) ==
    /\ exec[w][i].pc = "claimed" /\ Renew(w, i, "assembling")
    /\ UNCHANGED <<size, batch>>

Launch(w, i) ==
    /\ exec[w][i].pc = "assembling" /\ Renew(w, i, "launched")
    /\ UNCHANGED <<size, batch>>

Heartbeat(w, i) ==
    /\ exec[w][i].pc \in {"launched", "refused", "running", "completed", "failed"} /\ exec[w][i].valid
    /\ Renew(w, i, exec[w][i].pc)
    /\ UNCHANGED <<size, batch>>

(* The executor admits the execution or refuses it.                          *)
Admit(w, i) ==
    /\ exec[w][i].pc = "launched"
    /\ item' = [item EXCEPT ![i].ran = IF exec[w][i].claim > item[i].base THEN @ + 1 ELSE @]
    /\ Go(w, i, [exec[w][i] EXCEPT !.pc = "running"])
    /\ UNCHANGED <<size, batch>>

Refuse(w, i) ==
    /\ exec[w][i].pc = "launched"
    /\ Go(w, i, [exec[w][i] EXCEPT !.pc = "refused"])
    /\ UNCHANGED <<size, batch, item>>

(* mark_item_running; an execution that cannot be marked is cancelled.       *)
MarkRunning(w, i) ==
    /\ exec[w][i].pc = "running"
    /\ \/ /\ Owns(w, i) /\ item[i].status = "leased"
          /\ item' = [item EXCEPT ![i].status = "running"]
          /\ UNCHANGED exec
       \/ /\ ~Owns(w, i)
          /\ Go(w, i, [exec[w][i] EXCEPT !.pc = "failed"])
          /\ UNCHANGED item
    /\ UNCHANGED <<size, batch>>

Ends(w, i) ==
    /\ exec[w][i].pc = "running"
    /\ \E outcome \in {"completed", "failed"} : Go(w, i, [exec[w][i] EXCEPT !.pc = outcome])
    /\ UNCHANGED <<size, batch, item>>

(* _execute_leased_item leaves without a word once its lease is lost, and    *)
(* stop() or a crash leaves every execution so.                              *)
Abandon(w, i) ==
    /\ exec[w][i].pc \notin {"idle", "claimed", "assembling"} /\ ~exec[w][i].valid
    /\ Go(w, i, Idle)
    /\ UNCHANGED <<size, batch, item>>

Stop(w) ==
    /\ Executing(w) # {}
    /\ exec' = [exec EXCEPT ![w] = [i \in Items |-> Idle]]
    /\ UNCHANGED <<size, batch, item>>

Written(w, i, row) ==
    /\ IF Owns(w, i)
       THEN /\ item' = [item EXCEPT ![i] = row]
            /\ batch' = Refreshed(batch, item')
       ELSE UNCHANGED <<batch, item>>
    /\ Go(w, i, Idle)
    /\ UNCHANGED size

WrittenByAny(w, i, row) ==
    /\ IF item[i].status \in Held
       THEN /\ item' = [item EXCEPT ![i] = row]
            /\ batch' = Refreshed(batch, item')
       ELSE UNCHANGED <<batch, item>>
    /\ Go(w, i, Idle)
    /\ UNCHANGED size

(* finalize_item for an outcome, or for an exception of the execution, which *)
(* does not look at the lease first.                                         *)
FinalizeUnfenced(w, i) ==
    \/ /\ exec[w][i].pc = "completed" /\ exec[w][i].valid
       /\ WrittenByAny(w, i, [Unleased(item[i], "succeeded") EXCEPT !.result = exec[w][i].claim])
    \/ /\ (exec[w][i].pc = "failed" /\ exec[w][i].valid) \/ exec[w][i].pc \in {"assembling", "launched", "running"}
       /\ WrittenByAny(w, i, Unleased(item[i], IF item[i].attempt < size.attempts THEN "queued" ELSE "failed"))

Finalize(w, i) ==
    \/ /\ exec[w][i].pc = "completed" /\ exec[w][i].valid
       /\ Written(w, i, [Unleased(item[i], "succeeded") EXCEPT !.result = exec[w][i].claim])
    \/ /\ (exec[w][i].pc = "failed" /\ exec[w][i].valid) \/ exec[w][i].pc \in {"assembling", "launched", "running"}
       /\ Written(w, i, Unleased(item[i], IF item[i].attempt < size.attempts THEN "queued" ELSE "failed"))

(* requeue_item_after_admission_failure gives the attempt back.              *)
Requeue(w, i) ==
    /\ exec[w][i].pc = "refused" /\ exec[w][i].valid
    /\ Written(w, i, [Unleased(item[i], "queued") EXCEPT !.attempt = IF @ > 0 THEN @ - 1 ELSE 0])
-----------------------------------------------------------------------------
(* _set_control.                                                             *)
Pause ==
    /\ batch \in Runnable /\ batch' = "paused"
    /\ UNCHANGED <<size, item, exec>>

Resume ==
    /\ batch = "paused" /\ batch' = "queued"
    /\ UNCHANGED <<size, item, exec>>

Cancel ==
    /\ batch \notin BatchTerminal /\ batch' = "cancelled"
    /\ item' = [i \in Items |-> IF item[i].status \in ItemTerminal THEN item[i] ELSE Unleased(item[i], "cancelled")]
    /\ UNCHANGED <<size, exec>>

(* retry_item.                                                               *)
Retry(i) ==
    /\ item[i].status = "failed"
    /\ item' = [item EXCEPT ![i] = [@ EXCEPT !.status = "pending", !.attempt = 0, !.result = NoClaim,
                                             !.base = item[i].claims, !.ran = 0]]
    /\ batch' = IF batch = "paused" THEN batch ELSE "queued"
    /\ UNCHANGED <<size, exec>>

LeaseExpires(i) ==
    /\ item[i].fresh
    /\ item' = [item EXCEPT ![i].fresh = FALSE]
    /\ UNCHANGED <<size, batch, exec>>

Next ==
    \/ Pause \/ Resume \/ Cancel
    \/ \E i \in Items : Retry(i) \/ LeaseExpires(i)
    \/ \E w \in Workers :
        \/ ClaimItems(w) \/ Stop(w)
        \/ \E i \in Items :
            \/ Enter(w, i) \/ Launch(w, i) \/ Heartbeat(w, i) \/ Admit(w, i) \/ Refuse(w, i)
            \/ MarkRunning(w, i) \/ Ends(w, i) \/ Abandon(w, i) \/ Finalize(w, i) \/ Requeue(w, i)

Spec == Init /\ [][Next]_vars
-----------------------------------------------------------------------------
TypeOK ==
    /\ size \in Sizes
    /\ batch \in Runnable \cup BatchTerminal \cup {"paused"}
    /\ item \in [Items -> Item]
    /\ exec \in [Workers -> [Items -> Exec]]

(* A batch is over exactly when all its items are, whoever ends the last one *)
(* (an execution, the recovery of a lost one, a cancellation), also while it *)
(* is paused, and a retry opens it again: it is never left waiting for work  *)
(* that is not there (_refresh_batch_status).                                *)
BatchSettled == (batch \in BatchTerminal) = (With(item, ItemTerminal) = Items)

(* A worker whose claim was handed on changes nothing any more: the report   *)
(* of an item is the one of its last claim, and no late admission failure    *)
(* gives an attempt back, so that an item is executed at most max_attempts   *)
(* times between two retries (finalize_item,                                 *)
(* requeue_item_after_admission_failure).                                    *)
LostClaimChangesNothing ==
    \A i \in Items :
        /\ item[i].status = "succeeded" => item[i].result = item[i].claims
        /\ item[i].ran <= size.attempts
=============================================================================
