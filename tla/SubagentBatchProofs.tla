-------------------------- MODULE SubagentBatchProofs --------------------------
(* Proofs about a durable batch of subagent work, for every size of it and    *)
(* any number of gateways.                                                    *)
EXTENDS SubagentBatch, FiniteSetTheorems, TLAPS

Statuses == {"pending", "queued"} \cup Held \cup ItemTerminal

(* An execution before the executor has answered for it.                      *)
Unanswered == {"claimed", "assembling", "launched", "refused"}

(* Who may still have an attempt of item i admitted.                          *)
Unspent(i) == {w \in Workers : exec[w][i].pc \in Unanswered /\ exec[w][i].claim > item[i].base}

(* A held item belongs to its last claim.  Every attempt since the last retry *)
(* stands for a claim; those that were admitted, and those that may be, are   *)
(* no more than that.                                                         *)
ItemFits(i) ==
    /\ item[i].status \in Held => item[i].by = item[i].claims /\ item[i].base < item[i].claims
    /\ item[i].base <= item[i].claims /\ item[i].attempt <= item[i].claims - item[i].base
    /\ item[i].attempt <= size.attempts
    /\ item[i].status \in {"pending", "queued"} => item[i].attempt < size.attempts
    /\ \A w \in Workers : exec[w][i].claim <= item[i].claims
    /\ item[i].status = "succeeded" => item[i].result = item[i].claims
    /\ item[i].ran + Cardinality(Unspent(i)) <= item[i].attempt

BatchInvariant == TypeOK /\ BatchSettled /\ \A i \in Items : ItemFits(i)

-----------------------------------------------------------------------------
(* The fields of an item have their types.                                    *)
LEMMA RowFields ==
    ASSUME NEW row \in Item
    PROVE  /\ row.status \in Statuses /\ row.attempt \in 0 .. MaxClaims /\ row.by \in 0 .. MaxClaims
           /\ row.fresh \in BOOLEAN /\ row.result \in 0 .. MaxClaims /\ row.claims \in 0 .. MaxClaims
           /\ row.base \in 0 .. MaxClaims /\ row.ran \in 0 .. MaxClaims
<1>1. row.status \in Statuses
  BY DEF Item, Statuses
<1>2. /\ row.attempt \in 0 .. MaxClaims /\ row.by \in 0 .. MaxClaims /\ row.result \in 0 .. MaxClaims
      /\ row.claims \in 0 .. MaxClaims /\ row.base \in 0 .. MaxClaims /\ row.ran \in 0 .. MaxClaims
  BY DEF Item
<1>3. row.fresh \in BOOLEAN
  BY DEF Item
<1> QED BY <1>1, <1>2, <1>3

(* And those of an execution.                                                 *)
LEMMA ExecFields ==
    ASSUME NEW e \in Exec
    PROVE  e.claim \in 0 .. MaxClaims /\ e.valid \in BOOLEAN
BY DEF Exec

(* The numbers of a batch.                                                    *)
LEMMA SizeFields ==
    ASSUME BatchAssumption, TypeOK
    PROVE  /\ size.items \in Nat \ {0} /\ size.attempts \in Nat \ {0} /\ 1 \in Items
           /\ size.live \in Nat /\ size.running \in Nat /\ size.capacity \in Nat
           /\ size.claims \in 0 .. MaxClaims /\ MaxClaims \in Nat
BY DEF BatchAssumption, TypeOK, Items

(* The set that is counted is finite, and does not grow with a smaller one.   *)
LEMMA UnspentFinite ==
    ASSUME BatchAssumption, NEW i
    PROVE  IsFiniteSet(Unspent(i)) /\ Cardinality(Unspent(i)) \in Nat
<1>1. Unspent(i) \in SUBSET Workers
  BY DEF Unspent
<1> QED BY <1>1, FS_Subset, FS_CardinalityType DEF BatchAssumption

(* Statuses that exclude each other.                                          *)
LEMMA NoNames ==
    /\ \A s \in Held : s \notin ItemTerminal /\ s \in Statuses
    /\ \A s \in ItemTerminal : s \notin Held /\ s \in Statuses
    /\ "pending" \in Statuses \ (Held \cup ItemTerminal) /\ "queued" \in Statuses \ (Held \cup ItemTerminal)
    /\ {"succeeded", "failed", "cancelled"} \subseteq ItemTerminal /\ {"leased", "running"} \subseteq Held
BY DEF Held, ItemTerminal, Statuses

-----------------------------------------------------------------------------
(* Rows that change.                                                          *)

(* A row that is released keeps its numbers.                                  *)
LEMMA UnleasedFields ==
    ASSUME BatchAssumption, NEW row \in Item, NEW s \in Statuses
    PROVE  LET u == Unleased(row, s)
           IN  /\ u \in Item /\ u.status = s /\ u.by = NoClaim /\ u.fresh = FALSE
               /\ u.attempt = row.attempt /\ u.result = row.result /\ u.claims = row.claims
               /\ u.base = row.base /\ u.ran = row.ran
<1> DEFINE u == Unleased(row, s)
<1>1. u.status = s /\ u.by = NoClaim /\ u.fresh = FALSE
  BY DEF Unleased, Item
<1>2. /\ u.attempt = row.attempt /\ u.result = row.result /\ u.claims = row.claims
      /\ u.base = row.base /\ u.ran = row.ran
  BY DEF Unleased, Item
<1>3. NoClaim \in 0 .. MaxClaims
  <2>1. row.by \in 0 .. MaxClaims
    BY RowFields
  <2> QED BY <2>1 DEF NoClaim, BatchAssumption
<1>4. u \in Item
  BY <1>3, Zenon DEF Unleased, Item, Statuses
<1> QED BY <1>1, <1>2, <1>4

(* The part of an item that the invariant looks at stays, or its status moves *)
(* on, and no execution comes that may still be admitted.                     *)
LEMMA ItemKeeps ==
    ASSUME BatchAssumption, TypeOK, NEW i \in Items, ItemFits(i), size' = size,
           item'[i].attempt = item[i].attempt, item'[i].claims = item[i].claims,
           item'[i].base = item[i].base, item'[i].ran = item[i].ran,
           item'[i].status \in Held => item[i].status \in Held /\ item'[i].by = item[i].by,
           item'[i].status \in {"pending", "queued"} => item[i].attempt < size.attempts,
           item'[i].status = "succeeded" => item'[i].result = item[i].claims,
           \A w \in Workers : exec'[w][i].claim <= item[i].claims,
           Unspent(i)' \subseteq Unspent(i)
    PROVE  ItemFits(i)'
<1>1. Cardinality(Unspent(i)') <= Cardinality(Unspent(i)) /\ Cardinality(Unspent(i)') \in Nat
  BY UnspentFinite, FS_Subset, FS_CardinalityType
<1>2. item[i] \in Item
  BY DEF TypeOK
<1>3. item[i].ran \in Nat /\ item[i].attempt \in Nat /\ item[i].base \in Nat /\ item[i].claims \in Nat
  BY <1>2, RowFields
<1>4. Cardinality(Unspent(i)) \in Nat
  BY UnspentFinite
<1>5. item[i].ran + Cardinality(Unspent(i)') <= item[i].attempt
  BY <1>1, <1>3, <1>4 DEF ItemFits
<1>6. item'[i].ran + Cardinality(Unspent(i)') <= item'[i].attempt
  BY <1>5
<1>7. item'[i].status \in Held => item'[i].by = item'[i].claims /\ item'[i].base < item'[i].claims
  BY DEF ItemFits
<1>8. /\ item'[i].base <= item'[i].claims /\ item'[i].attempt <= item'[i].claims - item'[i].base
      /\ item'[i].attempt <= size'.attempts
      /\ item'[i].status \in {"pending", "queued"} => item'[i].attempt < size'.attempts
      /\ item'[i].status = "succeeded" => item'[i].result = item'[i].claims
      /\ \A w \in Workers : exec'[w][i].claim <= item'[i].claims
  BY DEF ItemFits
<1> QED BY <1>6, <1>7, <1>8 DEF ItemFits

(* One gateway's step on one item leaves the others alone.                    *)
LEMMA Frame ==
    ASSUME TypeOK, NEW w \in Workers, NEW i \in Items, NEW e \in Exec, Go(w, i, e)
    PROVE  /\ exec' \in [Workers -> [Items -> Exec]] /\ exec'[w][i] = e
           /\ \A v \in Workers, j \in Items : v # w \/ j # i => exec'[v][j] = exec[v][j]
<1>1. exec \in [Workers -> [Items -> Exec]] /\ exec[w] \in [Items -> Exec]
  BY DEF TypeOK
<1>2. exec' = [exec EXCEPT ![w] = [exec[w] EXCEPT ![i] = e]]
  BY <1>1 DEF Go
<1>3. [exec[w] EXCEPT ![i] = e] \in [Items -> Exec]
  BY <1>1
<1>4. exec'[w] = [exec[w] EXCEPT ![i] = e] /\ exec' \in [Workers -> [Items -> Exec]]
  BY <1>1, <1>2, <1>3
<1>5. \A v \in Workers : v # w => exec'[v] = exec[v]
  BY <1>1, <1>2
<1>6. exec'[w][i] = e /\ \A j \in Items : j # i => exec'[w][j] = exec[w][j]
  BY <1>1, <1>4
<1> QED BY <1>4, <1>5, <1>6

(* An item that is not touched.                                               *)
LEMMA ItemSame ==
    ASSUME NEW j \in Items, ItemFits(j), size' = size, item'[j] = item[j],
           \A v \in Workers : exec'[v][j] = exec[v][j]
    PROVE  ItemFits(j)'
<1>1. Unspent(j)' = Unspent(j)
  BY DEF Unspent
<1> QED BY <1>1 DEF ItemFits

(* A step of one gateway on one item keeps what holds of the others.          *)
LEMMA LocalStep ==
    ASSUME BatchAssumption, BatchInvariant, NEW w \in Workers, NEW i \in Items, NEW e \in Exec, NEW row \in Item,
           size' = size, item' = [item EXCEPT ![i] = row], Go(w, i, e),
           batch' \in Runnable \cup BatchTerminal \cup {"paused"}, BatchSettled', ItemFits(i)'
    PROVE  BatchInvariant'
<1>1. TypeOK /\ Items' = Items /\ item \in [Items -> Item]
  BY DEF BatchInvariant, TypeOK, Items
<1>2. /\ exec' \in [Workers -> [Items -> Exec]]
      /\ \A v \in Workers, j \in Items : v # w \/ j # i => exec'[v][j] = exec[v][j]
  BY <1>1, Frame
<1>3. item' \in [Items -> Item] /\ \A j \in Items : j # i => item'[j] = item[j]
  BY <1>1
<1>4. TypeOK'
  BY <1>1, <1>2, <1>3 DEF TypeOK
<1>5. ASSUME NEW j \in Items PROVE ItemFits(j)'
  <2>1. CASE j = i
    BY <2>1
  <2>2. CASE j # i
    BY <1>2, <1>3, <2>2, ItemSame DEF BatchInvariant
  <2> QED BY <2>1, <2>2
<1> QED BY <1>1, <1>4, <1>5 DEF BatchInvariant

(* Who is counted after a step of gateway w.                                  *)
LEMMA UnspentMoves ==
    ASSUME TypeOK, NEW w \in Workers, NEW i \in Items, NEW e \in Exec, Go(w, i, e),
           item'[i].base = item[i].base
    PROVE  /\ e.pc \in Unanswered /\ e.claim > item[i].base => Unspent(i)' = Unspent(i) \cup {w}
           /\ ~(e.pc \in Unanswered /\ e.claim > item[i].base) => Unspent(i)' = Unspent(i) \ {w}
<1>1. exec'[w][i] = e /\ \A v \in Workers : v # w => exec'[v][i] = exec[v][i]
  BY Frame
<1> QED BY <1>1 DEF Unspent

(* A step that keeps what an execution is about, or ends it, and moves its    *)
(* item's status on at most.                                                  *)
LEMMA QuietFits ==
    ASSUME BatchAssumption, BatchInvariant, NEW w \in Workers, NEW i \in Items, NEW e \in Exec, NEW row \in Item,
           size' = size, item' = [item EXCEPT ![i] = row], Go(w, i, e),
           e.claim \in {NoClaim, exec[w][i].claim},
           e.pc \in Unanswered => exec[w][i].pc \in Unanswered /\ e.claim = exec[w][i].claim,
           row.attempt = item[i].attempt, row.claims = item[i].claims,
           row.base = item[i].base, row.ran = item[i].ran,
           row.status \in Held => item[i].status \in Held /\ row.by = item[i].by,
           row.status \in {"pending", "queued"} => item[i].attempt < size.attempts,
           row.status = "succeeded" => row.result = item[i].claims
    PROVE  ItemFits(i)'
<1>1. TypeOK /\ ItemFits(i) /\ item'[i] = row /\ item[i] \in Item
  BY DEF BatchInvariant, TypeOK
<1>2. exec'[w][i] = e /\ \A v \in Workers : v # w => exec'[v][i] = exec[v][i]
  BY <1>1, Frame
<1>3. item[i].claims \in Nat
  BY <1>1, RowFields
<1>4. \A v \in Workers : exec'[v][i].claim <= item[i].claims
  BY <1>1, <1>2, <1>3 DEF ItemFits, NoClaim
<1>5. Unspent(i)' \subseteq Unspent(i)
  BY <1>1, <1>2 DEF Unspent
<1> QED BY <1>1, <1>4, <1>5, ItemKeeps

-----------------------------------------------------------------------------
(* The status of the batch.                                                   *)

(* A batch stays as it is while no item ends or starts again.                 *)
LEMMA StatusStays ==
    ASSUME BatchSettled, size' = size, batch' = batch,
           \A j \in Items : (item'[j].status \in ItemTerminal) = (item[j].status \in ItemTerminal)
    PROVE  BatchSettled'
<1>1. Items' = Items
  BY DEF Items
<1>2. With(item, ItemTerminal)' = With(item, ItemTerminal)
  BY <1>1 DEF With
<1> QED BY <1>1, <1>2 DEF BatchSettled

(* What _refresh_batch_status leaves is over exactly when every item is.      *)
LEMMA RefreshedSettles ==
    ASSUME NEW b \in Runnable \cup {"paused"}, NEW rows
    PROVE  /\ Refreshed(b, rows) \in Runnable \cup BatchTerminal \cup {"paused"}
           /\ (Refreshed(b, rows) \in BatchTerminal) = (With(rows, ItemTerminal) = Items)
<1>1. CASE With(rows, ItemTerminal) = Items
  <2>1. Refreshed(b, rows) \in {"failed", "completed"}
    BY <1>1 DEF Refreshed, Runnable
  <2> QED BY <1>1, <2>1 DEF BatchTerminal
<1>2. CASE With(rows, ItemTerminal) # Items
  <2>1. Refreshed(b, rows) \in {"running", "paused"}
    BY <1>2 DEF Refreshed, Runnable
  <2> QED BY <1>2, <2>1 DEF BatchTerminal, Runnable
<1> QED BY <1>1, <1>2

(* A batch with an item that is not over is not over.                         *)
LEMMA OpenBatch ==
    ASSUME TypeOK, BatchSettled, NEW i \in Items, item[i].status \notin ItemTerminal
    PROVE  batch \in Runnable \cup {"paused"}
BY DEF TypeOK, BatchSettled, With

-----------------------------------------------------------------------------
(* The steps of an execution.                                                 *)

(* A step that leaves the item's row as it is.                                *)
LEMMA ExecStep ==
    ASSUME BatchAssumption, BatchInvariant, NEW w \in Workers, NEW i \in Items, NEW e \in Exec, Go(w, i, e),
           e.claim \in {NoClaim, exec[w][i].claim},
           e.pc \in Unanswered => exec[w][i].pc \in Unanswered /\ e.claim = exec[w][i].claim,
           UNCHANGED <<size, batch, item>>
    PROVE  BatchInvariant'
<1>1. TypeOK /\ BatchSettled /\ ItemFits(i) /\ item[i] \in Item /\ item \in [Items -> Item]
  BY DEF BatchInvariant, TypeOK
<1>2. item' = [item EXCEPT ![i] = item[i]]
  BY <1>1
<1>3. ItemFits(i)'
  <2>1. item[i].status \in {"pending", "queued"} => item[i].attempt < size.attempts
    BY <1>1 DEF ItemFits
  <2>2. item[i].status = "succeeded" => item[i].result = item[i].claims
    BY <1>1 DEF ItemFits
  <2> QED BY <1>1, <1>2, <2>1, <2>2, QuietFits
<1>4. batch' \in Runnable \cup BatchTerminal \cup {"paused"}
  BY <1>1 DEF TypeOK
<1>5. BatchSettled'
  BY <1>1, StatusStays
<1> QED BY <1>1, <1>2, <1>3, <1>4, <1>5, LocalStep

(* The records that an execution moves to.                                    *)
Phases == {"assembling", "launched", "refused", "running", "completed", "failed"}

(* They are phases.                                                           *)
LEMMA PhaseNames ==
    /\ "assembling" \in Phases /\ "launched" \in Phases /\ "refused" \in Phases
    /\ "running" \in Phases /\ "completed" \in Phases /\ "failed" \in Phases
BY DEF Phases

(* An execution that moves on keeps its claim.                                *)
LEMMA MovedOn ==
    ASSUME TypeOK, NEW w \in Workers, NEW i \in Items, NEW p \in Phases
    PROVE  LET e == [exec[w][i] EXCEPT !.pc = p] IN e \in Exec /\ e.claim = exec[w][i].claim /\ e.pc = p
<1>1. exec[w][i] \in Exec
  BY DEF TypeOK
<1>2. [exec[w][i] EXCEPT !.pc = p].claim = exec[w][i].claim /\ [exec[w][i] EXCEPT !.pc = p].pc = p
  BY <1>1 DEF Exec
<1>3. [exec[w][i] EXCEPT !.pc = p] \in Exec
  BY <1>1, Zenon DEF Exec, Phases
<1> QED BY <1>2, <1>3

(* So does one that learns that its lease is lost.                            *)
LEMMA Lost ==
    ASSUME TypeOK, NEW w \in Workers, NEW i \in Items
    PROVE  LET e == [exec[w][i] EXCEPT !.valid = FALSE]
           IN  e \in Exec /\ e.claim = exec[w][i].claim /\ e.pc = exec[w][i].pc
<1>1. exec[w][i] \in Exec
  BY DEF TypeOK
<1>2. /\ [exec[w][i] EXCEPT !.valid = FALSE].claim = exec[w][i].claim
      /\ [exec[w][i] EXCEPT !.valid = FALSE].pc = exec[w][i].pc
  BY <1>1 DEF Exec
<1>3. [exec[w][i] EXCEPT !.valid = FALSE] \in Exec
  BY <1>1, Zenon DEF Exec
<1> QED BY <1>2, <1>3

(* An execution that is left has none.                                        *)
LEMMA Dropped ==
    ASSUME BatchAssumption
    PROVE  Idle \in Exec /\ Idle.claim = NoClaim /\ Idle.pc \notin Unanswered
BY DEF BatchAssumption, Idle, Exec, NoClaim, Unanswered

(* A renewal.                                                                 *)
LEMMA RenewStep ==
    ASSUME BatchAssumption, BatchInvariant, NEW w \in Workers, NEW i \in Items,
           NEW then \in Phases,
           then \in Unanswered => exec[w][i].pc \in Unanswered,
           Renew(w, i, then), UNCHANGED <<size, batch>>
    PROVE  BatchInvariant'
<1>1. TypeOK /\ BatchSettled /\ ItemFits(i) /\ item[i] \in Item /\ item \in [Items -> Item]
  BY DEF BatchInvariant, TypeOK
<1>2. CASE /\ item' = [item EXCEPT ![i].fresh = TRUE]
           /\ Go(w, i, [exec[w][i] EXCEPT !.pc = then])
  <2> DEFINE row == [item[i] EXCEPT !.fresh = TRUE]
             e   == [exec[w][i] EXCEPT !.pc = then]
  <2>1. e \in Exec /\ e.claim = exec[w][i].claim /\ e.pc = then
    BY <1>1, MovedOn, Zenon
  <2>2. /\ row.status = item[i].status /\ row.attempt = item[i].attempt /\ row.by = item[i].by
        /\ row.result = item[i].result /\ row.claims = item[i].claims
        /\ row.base = item[i].base /\ row.ran = item[i].ran
    BY <1>1 DEF Item
  <2>3. row \in Item
    BY <1>1, Zenon DEF Item
  <2>4. item' = [item EXCEPT ![i] = row] /\ Go(w, i, e)
    BY <1>1, <1>2
  <2>5. row.status \in {"pending", "queued"} => item[i].attempt < size.attempts
    BY <1>1, <2>2 DEF ItemFits
  <2>6. row.status = "succeeded" => row.result = item[i].claims
    BY <1>1, <2>2 DEF ItemFits
  <2>7. item'[i] = row /\ \A j \in Items : j # i => item'[j] = item[j]
    BY <1>1, <2>4
  <2>8. BatchSettled'
    BY <1>1, <2>2, <2>7, StatusStays
  <2>9. batch' \in Runnable \cup BatchTerminal \cup {"paused"}
    BY <1>1 DEF TypeOK
  <2> HIDE DEF row, e
  <2>10. ItemFits(i)'
    BY <2>1, <2>2, <2>3, <2>4, <2>5, <2>6, QuietFits
  <2> QED BY <2>1, <2>3, <2>4, <2>8, <2>9, <2>10, LocalStep
<1>3. CASE UNCHANGED item /\ Go(w, i, Idle)
  BY <1>1, <1>3, Dropped, ExecStep
<1>4. CASE UNCHANGED item /\ Go(w, i, [exec[w][i] EXCEPT !.valid = FALSE])
  BY <1>1, <1>4, Lost, ExecStep
<1> QED BY <1>2, <1>3, <1>4 DEF Renew

-----------------------------------------------------------------------------
(* The lease is renewed before the work is assembled (__aenter__).            *)
LEMMA StepEnter ==
    ASSUME BatchAssumption, BatchInvariant, NEW w \in Workers, NEW i \in Items, Enter(w, i)
    PROVE  BatchInvariant'
BY RenewStep, PhaseNames DEF Enter, Unanswered

(* It is renewed again before the executor is asked.                          *)
LEMMA StepLaunch ==
    ASSUME BatchAssumption, BatchInvariant, NEW w \in Workers, NEW i \in Items, Launch(w, i)
    PROVE  BatchInvariant'
BY RenewStep, PhaseNames DEF Launch, Unanswered

(* And renewed while the execution lasts.                                     *)
LEMMA StepHeartbeat ==
    ASSUME BatchAssumption, BatchInvariant, NEW w \in Workers, NEW i \in Items, Heartbeat(w, i)
    PROVE  BatchInvariant'
BY RenewStep DEF Heartbeat, Phases

(* The executor refuses: the attempt can still be given back.                 *)
LEMMA StepRefuse ==
    ASSUME BatchAssumption, BatchInvariant, NEW w \in Workers, NEW i \in Items, Refuse(w, i)
    PROVE  BatchInvariant'
<1>1. TypeOK
  BY DEF BatchInvariant
<1> DEFINE e == [exec[w][i] EXCEPT !.pc = "refused"]
<1>2. e \in Exec /\ e.claim = exec[w][i].claim
  BY <1>1, PhaseNames, MovedOn
<1>3. exec[w][i].pc \in Unanswered
  BY DEF Refuse, Unanswered
<1>4. Go(w, i, e) /\ UNCHANGED <<size, batch, item>>
  BY DEF Refuse
<1> QED BY <1>2, <1>3, <1>4, ExecStep

(* An execution ends with an outcome, which is not written yet.               *)
LEMMA StepEnds ==
    ASSUME BatchAssumption, BatchInvariant, NEW w \in Workers, NEW i \in Items, Ends(w, i)
    PROVE  BatchInvariant'
<1>1. TypeOK
  BY DEF BatchInvariant
<1>2. PICK p \in {"completed", "failed"} : Go(w, i, [exec[w][i] EXCEPT !.pc = p])
  BY DEF Ends
<1> DEFINE e == [exec[w][i] EXCEPT !.pc = p]
<1>3. e \in Exec /\ e.claim = exec[w][i].claim /\ e.pc = p
  <2>1. p \in Phases
    BY DEF Phases
  <2> QED BY <1>1, <2>1, MovedOn, Zenon
<1>4. Go(w, i, e) /\ UNCHANGED <<size, batch, item>>
  BY <1>2 DEF Ends
<1>5. p \notin Unanswered
  BY DEF Unanswered
<1> QED BY <1>3, <1>4, <1>5, ExecStep

(* An execution without a lease leaves without a word.                        *)
LEMMA StepAbandon ==
    ASSUME BatchAssumption, BatchInvariant, NEW w \in Workers, NEW i \in Items, Abandon(w, i)
    PROVE  BatchInvariant'
<1>1. TypeOK
  BY DEF BatchInvariant
<1> QED BY <1>1, Dropped, ExecStep DEF Abandon

(* mark_item_running, fenced by the claim.                                    *)
LEMMA StepMarkRunning ==
    ASSUME BatchAssumption, BatchInvariant, NEW w \in Workers, NEW i \in Items, MarkRunning(w, i)
    PROVE  BatchInvariant'
<1>1. TypeOK /\ BatchSettled /\ ItemFits(i) /\ item[i] \in Item /\ item \in [Items -> Item]
  BY DEF BatchInvariant, TypeOK
<1>2. CASE Owns(w, i) /\ item[i].status = "leased" /\ item' = [item EXCEPT ![i].status = "running"] /\ UNCHANGED exec
  <2> DEFINE row == [item[i] EXCEPT !.status = "running"]
  <2>1. /\ row.status = "running" /\ row.attempt = item[i].attempt /\ row.by = item[i].by
        /\ row.claims = item[i].claims /\ row.base = item[i].base /\ row.ran = item[i].ran
    BY <1>1 DEF Item
  <2>2. row \in Item
    BY <1>1, NoNames, Zenon DEF Item, Statuses, Held
  <2>3. item' = [item EXCEPT ![i] = row] /\ size' = size /\ batch' = batch
    BY <1>1, <1>2 DEF MarkRunning
  <2>4. exec[w][i] \in Exec /\ Go(w, i, exec[w][i])
    BY <1>1, <1>2 DEF TypeOK, Go
  <2>5. item'[i] = row /\ \A j \in Items : j # i => item'[j] = item[j]
    BY <1>1, <2>3
  <2>6. BatchSettled'
    BY <1>1, <1>2, <2>1, <2>3, <2>5, StatusStays, NoNames
  <2>7. batch' \in Runnable \cup BatchTerminal \cup {"paused"}
    BY <1>1, <2>3 DEF TypeOK
  <2> HIDE DEF row
  <2>8. item[i].status \in Held
    BY <1>2, NoNames
  <2>9. ItemFits(i)'
    BY <2>1, <2>2, <2>3, <2>4, <2>8, QuietFits
  <2> QED BY <2>2, <2>3, <2>4, <2>6, <2>7, <2>9, LocalStep
<1>3. CASE Go(w, i, [exec[w][i] EXCEPT !.pc = "failed"]) /\ UNCHANGED item
  <2> DEFINE e == [exec[w][i] EXCEPT !.pc = "failed"]
  <2>1. e \in Exec /\ e.claim = exec[w][i].claim /\ e.pc = "failed"
    BY <1>1, PhaseNames, MovedOn
  <2>2. Go(w, i, e) /\ UNCHANGED <<size, batch, item>>
    BY <1>3 DEF MarkRunning
  <2>3. "failed" \notin Unanswered
    BY DEF Unanswered
  <2> QED BY <2>1, <2>2, <2>3, ExecStep
<1> QED BY <1>2, <1>3 DEF MarkRunning

(* A gateway stops or crashes: nobody writes for its executions.              *)
LEMMA StepStop ==
    ASSUME BatchAssumption, BatchInvariant, NEW w \in Workers, Stop(w)
    PROVE  BatchInvariant'
<1>1. TypeOK /\ BatchSettled /\ Items' = Items /\ exec \in [Workers -> [Items -> Exec]]
  BY DEF BatchInvariant, TypeOK, Stop, Items
<1>2. Idle \in Exec /\ Idle.claim = NoClaim /\ Idle.pc \notin Unanswered
  BY Dropped
<1>3. exec' = [exec EXCEPT ![w] = [j \in Items |-> Idle]] /\ UNCHANGED <<size, batch, item>>
  BY DEF Stop
<1>4. \A j \in Items : exec'[w][j] = Idle /\ \A v \in Workers : v # w => exec'[v][j] = exec[v][j]
  BY <1>1, <1>3
<1>5. exec' \in [Workers -> [Items -> Exec]]
  BY <1>1, <1>2, <1>3
<1>6. TypeOK'
  BY <1>1, <1>3, <1>5 DEF TypeOK
<1>7. ASSUME NEW j \in Items PROVE ItemFits(j)'
  <2>1. ItemFits(j) /\ item[j] \in Item
    BY <1>1 DEF BatchInvariant, TypeOK
  <2>2. item[j].claims \in Nat
    BY <2>1, RowFields
  <2>3. \A v \in Workers : exec'[v][j].claim <= item[j].claims
    BY <1>2, <1>4, <2>1, <2>2 DEF ItemFits, NoClaim
  <2>4. Unspent(j)' \subseteq Unspent(j)
    BY <1>2, <1>3, <1>4 DEF Unspent
  <2>5. /\ item'[j].status \in {"pending", "queued"} => item[j].attempt < size.attempts
        /\ item'[j].status = "succeeded" => item'[j].result = item[j].claims
    BY <1>3, <2>1 DEF ItemFits
  <2> QED BY <1>1, <1>3, <2>1, <2>3, <2>4, <2>5, ItemKeeps
<1>8. BatchSettled'
  BY <1>1, <1>3, StatusStays
<1> QED BY <1>1, <1>6, <1>7, <1>8 DEF BatchInvariant

(* An admission spends the attempt that its claim was counted for.            *)
LEMMA StepAdmit ==
    ASSUME BatchAssumption, BatchInvariant, NEW w \in Workers, NEW i \in Items, Admit(w, i)
    PROVE  BatchInvariant'
<1>1. /\ TypeOK /\ BatchSettled /\ ItemFits(i) /\ item[i] \in Item /\ item \in [Items -> Item]
      /\ exec[w][i] \in Exec
  BY DEF BatchInvariant, TypeOK
<1> DEFINE more == IF exec[w][i].claim > item[i].base THEN item[i].ran + 1 ELSE item[i].ran
           row  == [item[i] EXCEPT !.ran = more]
           e    == [exec[w][i] EXCEPT !.pc = "running"]
<1>2. e \in Exec /\ e.claim = exec[w][i].claim /\ e.pc = "running"
  BY <1>1, PhaseNames, MovedOn
<1>3. /\ item[i].ran \in Nat /\ item[i].attempt \in 0 .. MaxClaims /\ item[i].base \in Nat /\ item[i].claims \in Nat
      /\ exec[w][i].claim \in Nat /\ MaxClaims \in Nat
  BY <1>1, RowFields, ExecFields DEF BatchAssumption
<1>4. Go(w, i, e) /\ item' = [item EXCEPT ![i] = row] /\ size' = size /\ batch' = batch
  BY <1>1 DEF Admit
<1>5. IsFiniteSet(Unspent(i)) /\ Cardinality(Unspent(i)) \in Nat
  BY UnspentFinite
<1>6. "running" \notin Unanswered /\ exec[w][i].pc \in Unanswered
  BY DEF Unanswered, Admit
<1>7. /\ row.status = item[i].status /\ row.attempt = item[i].attempt /\ row.by = item[i].by
      /\ row.result = item[i].result /\ row.claims = item[i].claims /\ row.base = item[i].base /\ row.ran = more
  BY <1>1 DEF Item
<1>8. item'[i] = row /\ \A j \in Items : j # i => item'[j] = item[j]
  BY <1>1, <1>4
<1>9. Unspent(i)' = Unspent(i) \ {w}
  <2>1. item'[i].base = item[i].base
    BY <1>7, <1>8
  <2> HIDE DEF e, row
  <2> QED BY <1>1, <1>2, <1>4, <1>6, <2>1, UnspentMoves
<1>10. IsFiniteSet(Unspent(i)') /\ more + Cardinality(Unspent(i)') <= item[i].attempt
  <2>1. CASE exec[w][i].claim > item[i].base
    <3>1. w \in Unspent(i)
      BY <1>6, <2>1 DEF Unspent
    <3>2. Cardinality(Unspent(i)') = Cardinality(Unspent(i)) - 1 /\ IsFiniteSet(Unspent(i)')
      BY <1>5, <1>9, <3>1, FS_RemoveElement
    <3>3. item[i].ran + Cardinality(Unspent(i)) <= item[i].attempt
      BY <1>1 DEF ItemFits
    <3> QED BY <1>3, <1>5, <2>1, <3>2, <3>3
  <2>2. CASE ~(exec[w][i].claim > item[i].base)
    <3>1. w \notin Unspent(i)
      BY <2>2 DEF Unspent
    <3>2. Unspent(i)' = Unspent(i)
      BY <1>9, <3>1
    <3> QED BY <1>1, <1>5, <2>2, <3>2 DEF ItemFits
  <2> QED BY <2>1, <2>2
<1>11. more \in 0 .. MaxClaims
  <2>1. Cardinality(Unspent(i)') \in Nat
    BY <1>10, FS_CardinalityType
  <2>2. more \in Nat
    BY <1>3
  <2> HIDE DEF more
  <2> QED BY <1>3, <1>10, <2>1, <2>2
<1>12. row \in Item
  <2> HIDE DEF more
  <2> QED BY <1>1, <1>11, Zenon DEF Item
<1>13. exec'[w][i] = e /\ \A v \in Workers : v # w => exec'[v][i] = exec[v][i]
  BY <1>1, <1>2, <1>4, Frame
<1> HIDE DEF more, row, e
<1>14. ItemFits(i)'
  <2>1. \A v \in Workers : exec'[v][i].claim <= item[i].claims
    BY <1>1, <1>2, <1>13 DEF ItemFits
  <2>2. item'[i].ran + Cardinality(Unspent(i)') <= item'[i].attempt
    BY <1>7, <1>8, <1>10
  <2>3. /\ item'[i].status \in Held => item'[i].by = item'[i].claims /\ item'[i].base < item'[i].claims
        /\ item'[i].base <= item'[i].claims /\ item'[i].attempt <= item'[i].claims - item'[i].base
        /\ item'[i].attempt <= size'.attempts
        /\ item'[i].status \in {"pending", "queued"} => item'[i].attempt < size'.attempts
        /\ item'[i].status = "succeeded" => item'[i].result = item'[i].claims
    BY <1>1, <1>4, <1>7, <1>8 DEF ItemFits
  <2>4. \A v \in Workers : exec'[v][i].claim <= item'[i].claims
    BY <1>7, <1>8, <2>1
  <2> QED BY <2>2, <2>3, <2>4 DEF ItemFits
<1>15. BatchSettled'
  BY <1>1, <1>4, <1>7, <1>8, StatusStays
<1>16. batch' \in Runnable \cup BatchTerminal \cup {"paused"}
  BY <1>1, <1>4 DEF TypeOK
<1> QED BY <1>2, <1>4, <1>12, <1>14, <1>15, <1>16, LocalStep

-----------------------------------------------------------------------------
(* The writes that end an execution: nothing changes without the claim.       *)
LEMMA WrittenStep ==
    ASSUME BatchAssumption, BatchInvariant, NEW w \in Workers, NEW i \in Items, NEW row \in Item, Written(w, i, row),
           Owns(w, i) /\ item' = [item EXCEPT ![i] = row] => ItemFits(i)'
    PROVE  BatchInvariant'
<1>1. TypeOK /\ BatchSettled /\ item \in [Items -> Item] /\ size' = size /\ Items' = Items /\ Go(w, i, Idle)
  BY DEF BatchInvariant, TypeOK, Written, Items
<1>2. Idle \in Exec /\ Idle.claim = NoClaim /\ Idle.pc \notin Unanswered
  BY Dropped
<1>3. CASE Owns(w, i)
  <2>1. item' = [item EXCEPT ![i] = row] /\ batch' = Refreshed(batch, item')
    BY <1>3 DEF Written
  <2>2. batch \in Runnable \cup {"paused"}
    BY <1>1, <1>3, OpenBatch, NoNames DEF Owns
  <2>3. /\ batch' \in Runnable \cup BatchTerminal \cup {"paused"}
        /\ (batch' \in BatchTerminal) = (With(item', ItemTerminal) = Items)
    BY <2>1, <2>2, RefreshedSettles
  <2>4. With(item', ItemTerminal) = With(item, ItemTerminal)'
    BY <1>1 DEF With
  <2>5. BatchSettled'
    BY <1>1, <2>3, <2>4 DEF BatchSettled
  <2>6. ItemFits(i)'
    BY <1>3, <2>1
  <2> QED BY <1>1, <1>2, <2>1, <2>3, <2>5, <2>6, LocalStep
<1>4. CASE ~Owns(w, i)
  <2>1. UNCHANGED <<size, batch, item>>
    BY <1>1, <1>4 DEF Written
  <2> QED BY <1>1, <1>2, <2>1, ExecStep
<1> QED BY <1>3, <1>4

(* finalize_item writes what the owner of the last claim reports.             *)
LEMMA StepFinalize ==
    ASSUME BatchAssumption, BatchInvariant, NEW w \in Workers, NEW i \in Items, Finalize(w, i)
    PROVE  BatchInvariant'
<1>1. /\ TypeOK /\ BatchSettled /\ ItemFits(i) /\ item[i] \in Item /\ item \in [Items -> Item]
      /\ exec[w][i] \in Exec
  BY DEF BatchInvariant, TypeOK
<1>2. Idle \in Exec /\ Idle.claim = NoClaim /\ Idle.pc \notin Unanswered
  BY Dropped
<1>3. CASE Written(w, i, [Unleased(item[i], "succeeded") EXCEPT !.result = exec[w][i].claim])
  <2> DEFINE u   == Unleased(item[i], "succeeded")
             row == [u EXCEPT !.result = exec[w][i].claim]
  <2>1. /\ u \in Item /\ u.status = "succeeded" /\ u.attempt = item[i].attempt /\ u.claims = item[i].claims
        /\ u.base = item[i].base /\ u.ran = item[i].ran
    BY <1>1, NoNames, UnleasedFields
  <2>2. exec[w][i].claim \in 0 .. MaxClaims
    BY <1>1, ExecFields
  <2> HIDE DEF u
  <2>3. row \in Item
    BY <2>1, <2>2, Zenon DEF Item
  <2>4. /\ row.status = "succeeded" /\ row.attempt = item[i].attempt /\ row.claims = item[i].claims
        /\ row.base = item[i].base /\ row.ran = item[i].ran /\ row.result = exec[w][i].claim
    BY <2>1 DEF Item
  <2>5. Owns(w, i) => row.result = item[i].claims
    BY <1>1, <2>4 DEF Owns, ItemFits
  <2>6. Written(w, i, row)
    BY <1>3 DEF u
  <2> HIDE DEF row
  <2>7. Owns(w, i) /\ item' = [item EXCEPT ![i] = row] => ItemFits(i)'
    <3> SUFFICES ASSUME Owns(w, i), item' = [item EXCEPT ![i] = row] PROVE ItemFits(i)'
      OBVIOUS
    <3>1. size' = size /\ Go(w, i, Idle)
      BY <2>6 DEF Written
    <3>2. "succeeded" \notin Held /\ "succeeded" \notin {"pending", "queued"}
      BY NoNames
    <3> QED BY <1>2, <2>3, <2>4, <2>5, <3>1, <3>2, QuietFits
  <2> QED BY <2>3, <2>6, <2>7, WrittenStep
<1>4. CASE Written(w, i, Unleased(item[i], IF item[i].attempt < size.attempts THEN "queued" ELSE "failed"))
  <2> DEFINE s   == IF item[i].attempt < size.attempts THEN "queued" ELSE "failed"
             row == Unleased(item[i], s)
  <2>1. s \in Statuses /\ s \notin Held /\ s # "succeeded" /\ (s \in {"pending", "queued"} => item[i].attempt < size.attempts)
    BY NoNames
  <2>2. Written(w, i, row)
    BY <1>4
  <2> HIDE DEF s
  <2>3. /\ row \in Item /\ row.status = s /\ row.attempt = item[i].attempt /\ row.claims = item[i].claims
        /\ row.base = item[i].base /\ row.ran = item[i].ran
    BY <1>1, <2>1, UnleasedFields
  <2> HIDE DEF row
  <2>4. Owns(w, i) /\ item' = [item EXCEPT ![i] = row] => ItemFits(i)'
    <3> SUFFICES ASSUME Owns(w, i), item' = [item EXCEPT ![i] = row] PROVE ItemFits(i)'
      OBVIOUS
    <3>1. size' = size /\ Go(w, i, Idle)
      BY <2>2 DEF Written
    <3> QED BY <1>2, <2>1, <2>3, <3>1, QuietFits
  <2> QED BY <2>2, <2>3, <2>4, WrittenStep
<1> QED BY <1>3, <1>4 DEF Finalize

(* A refused execution has not spent its attempt and gives it back.           *)
LEMMA StepRequeue ==
    ASSUME BatchAssumption, BatchInvariant, NEW w \in Workers, NEW i \in Items, Requeue(w, i)
    PROVE  BatchInvariant'
<1>1. /\ TypeOK /\ BatchSettled /\ ItemFits(i) /\ item[i] \in Item /\ item \in [Items -> Item]
      /\ exec[w][i] \in Exec
  BY DEF BatchInvariant, TypeOK
<1>2. Idle \in Exec /\ Idle.claim = NoClaim /\ Idle.pc \notin Unanswered
  BY Dropped
<1> DEFINE u    == Unleased(item[i], "queued")
           less == IF item[i].attempt > 0 THEN item[i].attempt - 1 ELSE 0
           row  == [u EXCEPT !.attempt = less]
<1>3. /\ u \in Item /\ u.status = "queued" /\ u.attempt = item[i].attempt /\ u.claims = item[i].claims
      /\ u.base = item[i].base /\ u.ran = item[i].ran
  BY <1>1, NoNames, UnleasedFields
<1>4. /\ item[i].ran \in Nat /\ item[i].attempt \in 0 .. MaxClaims /\ item[i].base \in Nat /\ item[i].claims \in Nat
      /\ exec[w][i].claim \in Nat /\ MaxClaims \in Nat /\ size.attempts \in Nat
  BY <1>1, RowFields, ExecFields, SizeFields DEF BatchAssumption
<1> HIDE DEF u
<1>5. Written(w, i, row)
  BY <1>3 DEF Requeue, u, Item
<1>6. less \in 0 .. MaxClaims
  BY <1>4
<1> HIDE DEF less
<1>7. row \in Item
  BY <1>3, <1>6, Zenon DEF Item
<1>8. /\ row.status = "queued" /\ row.attempt = less /\ row.claims = item[i].claims
      /\ row.base = item[i].base /\ row.ran = item[i].ran
  BY <1>3 DEF Item
<1> HIDE DEF row
<1>9. Owns(w, i) /\ item' = [item EXCEPT ![i] = row] => ItemFits(i)'
  <2> SUFFICES ASSUME Owns(w, i), item' = [item EXCEPT ![i] = row] PROVE ItemFits(i)'
    OBVIOUS
  <2>1. size' = size /\ Go(w, i, Idle) /\ item'[i] = row
    BY <1>1, <1>5 DEF Written
  <2>2. item[i].by = item[i].claims /\ item[i].base < item[i].claims /\ exec[w][i].claim = item[i].claims
    BY <1>1 DEF Owns, ItemFits
  <2>3. w \in Unspent(i)
    BY <2>2 DEF Requeue, Unspent, Unanswered
  <2>4. Unspent(i)' = Unspent(i) \ {w}
    BY <1>1, <1>2, <1>8, <2>1, UnspentMoves
  <2>5. IsFiniteSet(Unspent(i)) /\ Cardinality(Unspent(i)) \in Nat
    BY UnspentFinite
  <2>6. Cardinality(Unspent(i)') = Cardinality(Unspent(i)) - 1 /\ Cardinality(Unspent(i)') \in Nat
    BY <2>3, <2>4, <2>5, FS_RemoveElement, FS_CardinalityType
  <2>7. item[i].ran + Cardinality(Unspent(i)) <= item[i].attempt
    BY <1>1 DEF ItemFits
  <2>8. item[i].attempt > 0 /\ less = item[i].attempt - 1
    BY <1>4, <2>5, <2>6, <2>7 DEF less
  <2>9. /\ item[i].base <= item[i].claims /\ item[i].attempt <= item[i].claims - item[i].base
        /\ item[i].attempt <= size.attempts
    BY <1>1 DEF ItemFits
  <2>10. /\ less <= item[i].claims - item[i].base /\ less < size.attempts
         /\ item[i].ran + Cardinality(Unspent(i)') <= less
    BY <1>4, <2>5, <2>6, <2>7, <2>8, <2>9
  <2>11. exec'[w][i] = Idle /\ \A v \in Workers : v # w => exec'[v][i] = exec[v][i]
    BY <1>1, <1>2, <2>1, Frame
  <2>12. \A v \in Workers : exec'[v][i].claim <= item[i].claims
    BY <1>1, <1>2, <1>4, <2>11 DEF ItemFits, NoClaim
  <2>13. item'[i].status \notin Held /\ item'[i].status # "succeeded"
    BY <1>8, <2>1, NoNames
  <2>14. /\ item'[i].attempt = less /\ item'[i].claims = item[i].claims /\ item'[i].base = item[i].base
         /\ item'[i].ran = item[i].ran /\ size' = size
    BY <1>8, <2>1
  <2>15. less <= size.attempts
    BY <1>4, <1>6, <2>10
  <2>16. /\ item'[i].base <= item'[i].claims /\ item'[i].attempt <= item'[i].claims - item'[i].base
         /\ item'[i].attempt <= size'.attempts
         /\ item'[i].status \in {"pending", "queued"} => item'[i].attempt < size'.attempts
    BY <2>9, <2>10, <2>14, <2>15
  <2>17. item'[i].ran + Cardinality(Unspent(i)') <= item'[i].attempt
    BY <2>10, <2>14
  <2>18. \A v \in Workers : exec'[v][i].claim <= item'[i].claims
    BY <2>12, <2>14
  <2> QED BY <2>13, <2>16, <2>17, <2>18 DEF ItemFits
<1> QED BY <1>5, <1>7, <1>9, WrittenStep

-----------------------------------------------------------------------------
(* The user's controls, and time.                                             *)
LEMMA StepControl ==
    ASSUME BatchAssumption, BatchInvariant, Pause \/ Resume
    PROVE  BatchInvariant'
<1>1. TypeOK /\ BatchSettled
  BY DEF BatchInvariant
<1>2. /\ UNCHANGED <<size, item, exec>> /\ batch \notin BatchTerminal /\ batch' \notin BatchTerminal
      /\ batch' \in Runnable \cup {"paused"}
  BY DEF Pause, Resume, Runnable, BatchTerminal
<1>3. Items' = Items /\ With(item, ItemTerminal)' = With(item, ItemTerminal)
  BY <1>2 DEF Items, With
<1>4. TypeOK'
  BY <1>1, <1>2, <1>3 DEF TypeOK
<1>5. BatchSettled'
  BY <1>1, <1>2, <1>3 DEF BatchSettled
<1>6. \A j \in Items : ItemFits(j)'
  BY <1>2, ItemSame DEF BatchInvariant
<1> QED BY <1>3, <1>4, <1>5, <1>6 DEF BatchInvariant

(* A step on the rows alone.                                                  *)
LEMMA RowsStep ==
    ASSUME BatchAssumption, BatchInvariant, UNCHANGED <<size, exec>>, item' \in [Items -> Item],
           batch' \in Runnable \cup BatchTerminal \cup {"paused"}, BatchSettled', \A j \in Items : ItemFits(j)'
    PROVE  BatchInvariant'
<1>1. TypeOK /\ Items' = Items
  BY DEF BatchInvariant, Items
<1>2. TypeOK'
  BY <1>1 DEF TypeOK
<1> QED BY <1>1, <1>2 DEF BatchInvariant

(* The invariant of an item speaks of its rows and claims only.               *)
LEMMA RowFits ==
    ASSUME BatchAssumption, BatchInvariant, NEW i \in Items, UNCHANGED <<size, exec>>,
           item'[i].attempt = item[i].attempt, item'[i].claims = item[i].claims,
           item'[i].base = item[i].base, item'[i].ran = item[i].ran,
           item'[i].status \in Held => item[i].status \in Held /\ item'[i].by = item[i].by,
           item'[i].status \in {"pending", "queued"} => item[i].attempt < size.attempts,
           item'[i].status = "succeeded" => item'[i].result = item[i].claims
    PROVE  ItemFits(i)'
<1>1. TypeOK /\ ItemFits(i)
  BY DEF BatchInvariant
<1>2. \A w \in Workers : exec'[w][i].claim <= item[i].claims
  BY <1>1 DEF ItemFits
<1>3. Unspent(i)' = Unspent(i)
  BY DEF Unspent
<1> QED BY <1>1, <1>2, <1>3, ItemKeeps

(* cancel_batch ends every item that is not over, and the batch with them.    *)
LEMMA StepCancel ==
    ASSUME BatchAssumption, BatchInvariant, Cancel
    PROVE  BatchInvariant'
<1>1. TypeOK /\ BatchSettled /\ UNCHANGED <<size, exec>> /\ Items' = Items /\ batch' = "cancelled"
  BY DEF BatchInvariant, Cancel, Items
<1>2. ASSUME NEW j \in Items
      PROVE  /\ item'[j] \in Item /\ item'[j].status \in ItemTerminal
             /\ item'[j].attempt = item[j].attempt /\ item'[j].claims = item[j].claims
             /\ item'[j].base = item[j].base /\ item'[j].ran = item[j].ran
             /\ item'[j].status = "succeeded" => item'[j] = item[j]
  <2>1. item[j] \in Item /\ item'[j] = IF item[j].status \in ItemTerminal THEN item[j] ELSE Unleased(item[j], "cancelled")
    BY <1>1 DEF Cancel, TypeOK
  <2>2. CASE item[j].status \in ItemTerminal
    BY <2>1, <2>2
  <2>3. CASE item[j].status \notin ItemTerminal
    <3> DEFINE u == Unleased(item[j], "cancelled")
    <3>1. /\ u \in Item /\ u.status = "cancelled" /\ u.attempt = item[j].attempt
          /\ u.claims = item[j].claims /\ u.base = item[j].base /\ u.ran = item[j].ran
      BY <2>1, NoNames, UnleasedFields
    <3> HIDE DEF u
    <3>2. item'[j] = u
      BY <2>1, <2>3 DEF u
    <3> QED BY <3>1, <3>2, NoNames
  <2> QED BY <2>2, <2>3
<1>3. item' \in [Items -> Item]
  BY <1>2 DEF Cancel
<1>4. ASSUME NEW j \in Items PROVE ItemFits(j)'
  <2>1. item'[j].status \notin Held /\ item'[j].status \notin {"pending", "queued"}
    BY <1>2, NoNames
  <2>2. item'[j].status = "succeeded" => item'[j].result = item[j].claims
    BY <1>2 DEF BatchInvariant, ItemFits
  <2> QED BY <1>1, <1>2, <2>1, <2>2, RowFits
<1>5. BatchSettled'
  <2>1. With(item, ItemTerminal)' = Items
    BY <1>1, <1>2 DEF With
  <2> QED BY <1>1, <2>1 DEF BatchSettled, BatchTerminal
<1> QED BY <1>1, <1>3, <1>4, <1>5, RowsStep DEF BatchTerminal

(* A retry starts the count again: every claim made so far is an old one.     *)
LEMMA StepRetry ==
    ASSUME BatchAssumption, BatchInvariant, NEW i \in Items, Retry(i)
    PROVE  BatchInvariant'
<1>1. /\ TypeOK /\ BatchSettled /\ ItemFits(i) /\ item[i] \in Item /\ item \in [Items -> Item]
      /\ UNCHANGED <<size, exec>> /\ Items' = Items
  BY DEF BatchInvariant, TypeOK, Retry, Items
<1> DEFINE row == [item[i] EXCEPT !.status = "pending", !.attempt = 0, !.result = NoClaim,
                                  !.base = item[i].claims, !.ran = 0]
<1>2. item[i].claims \in 0 .. MaxClaims /\ MaxClaims \in Nat /\ size.attempts \in Nat \ {0}
  BY <1>1, RowFields, SizeFields DEF BatchAssumption
<1>3. row.status = "pending" /\ row.attempt = 0 /\ row.claims = item[i].claims /\ row.base = item[i].claims /\ row.ran = 0
  BY <1>1 DEF Item
<1>4. row \in Item
  <2>1. 0 \in 0 .. MaxClaims /\ NoClaim \in 0 .. MaxClaims
    BY <1>2 DEF NoClaim
  <2> QED BY <1>1, <1>2, <2>1, Zenon DEF Item
<1>5. item' = [item EXCEPT ![i] = row]
  BY <1>1 DEF Retry
<1> HIDE DEF row
<1>6. item'[i] = row /\ item' \in [Items -> Item] /\ \A j \in Items : j # i => item'[j] = item[j]
  BY <1>1, <1>4, <1>5
<1>7. ItemFits(i)'
  <2>1. \A v \in Workers : exec[v][i].claim \in Nat /\ exec[v][i].claim <= item[i].claims
    <3> SUFFICES ASSUME NEW v \in Workers PROVE exec[v][i].claim \in Nat /\ exec[v][i].claim <= item[i].claims
      OBVIOUS
    <3>1. exec[v][i] \in Exec
      BY <1>1 DEF TypeOK
    <3>2. exec[v][i].claim \in Nat
      BY <1>2, <3>1, ExecFields
    <3> QED BY <1>1, <3>2 DEF ItemFits
  <2>2. Unspent(i)' = {}
    <3> SUFFICES ASSUME NEW v \in Workers PROVE ~(exec'[v][i].claim > item'[i].base)
      BY DEF Unspent
    <3> QED BY <1>1, <1>2, <1>3, <1>6, <2>1
  <2>3. Cardinality(Unspent(i)') = 0
    BY <2>2, FS_EmptySet
  <2>4. item'[i].status \notin Held /\ item'[i].status # "succeeded"
    BY <1>3, <1>6, NoNames
  <2>5. \A v \in Workers : exec'[v][i].claim <= item'[i].claims
    BY <1>1, <1>3, <1>6, <2>1
  <2>6. /\ item'[i].base <= item'[i].claims /\ item'[i].attempt <= item'[i].claims - item'[i].base
        /\ item'[i].attempt < size'.attempts /\ item'[i].attempt <= size'.attempts
    BY <1>1, <1>2, <1>3, <1>6
  <2>7. item'[i].ran + Cardinality(Unspent(i)') <= item'[i].attempt
    BY <1>3, <1>6, <2>3
  <2> QED BY <2>4, <2>5, <2>6, <2>7 DEF ItemFits
<1>8. ASSUME NEW j \in Items PROVE ItemFits(j)'
  <2>1. CASE j = i
    BY <1>7, <2>1
  <2>2. CASE j # i
    BY <1>1, <1>6, <2>2, ItemSame DEF BatchInvariant
  <2> QED BY <2>1, <2>2
<1>9. batch' \in Runnable \cup {"paused"}
  BY <1>1 DEF Retry, Runnable
<1>10. BatchSettled'
  <2>1. i \notin With(item, ItemTerminal)'
    BY <1>3, <1>6, NoNames DEF With
  <2>2. batch' \notin BatchTerminal
    BY <1>9 DEF Runnable, BatchTerminal
  <2> QED BY <1>1, <2>1, <2>2 DEF BatchSettled
<1> QED BY <1>1, <1>6, <1>8, <1>9, <1>10, RowsStep

(* A lease runs out.                                                          *)
LEMMA StepLeaseExpires ==
    ASSUME BatchAssumption, BatchInvariant, NEW i \in Items, LeaseExpires(i)
    PROVE  BatchInvariant'
<1>1. /\ TypeOK /\ BatchSettled /\ item[i] \in Item /\ item \in [Items -> Item]
      /\ UNCHANGED <<size, batch, exec>> /\ Items' = Items
  BY DEF BatchInvariant, TypeOK, LeaseExpires, Items
<1> DEFINE row == [item[i] EXCEPT !.fresh = FALSE]
<1>2. /\ row.status = item[i].status /\ row.attempt = item[i].attempt /\ row.by = item[i].by
      /\ row.result = item[i].result /\ row.claims = item[i].claims
      /\ row.base = item[i].base /\ row.ran = item[i].ran
  BY <1>1 DEF Item
<1>3. row \in Item
  BY <1>1, Zenon DEF Item
<1>4. item' = [item EXCEPT ![i] = row]
  BY <1>1 DEF LeaseExpires
<1> HIDE DEF row
<1>5. item'[i] = row /\ item' \in [Items -> Item] /\ \A j \in Items : j # i => item'[j] = item[j]
  BY <1>1, <1>3, <1>4
<1>6. ASSUME NEW j \in Items PROVE ItemFits(j)'
  <2>1. CASE j = i
    <3>1. /\ item[i].status \in {"pending", "queued"} => item[i].attempt < size.attempts
          /\ item[i].status = "succeeded" => item[i].result = item[i].claims
      BY DEF BatchInvariant, ItemFits
    <3> QED BY <1>1, <1>2, <1>5, <2>1, <3>1, RowFits
  <2>2. CASE j # i
    BY <1>1, <1>5, <2>2, ItemSame DEF BatchInvariant
  <2> QED BY <2>1, <2>2
<1>7. BatchSettled'
  BY <1>1, <1>2, <1>5, StatusStays
<1> QED BY <1>1, <1>5, <1>6, <1>7, RowsStep DEF TypeOK

-----------------------------------------------------------------------------
(* A pass of claim_items.                                                     *)

(* What recovery and promotion leave of a row.                                *)
Kept(i, row) ==
    /\ row \in Item /\ row.attempt = item[i].attempt /\ row.claims = item[i].claims
    /\ row.base = item[i].base /\ row.ran = item[i].ran
    /\ row.status \in Held => item[i].status \in Held /\ row.by = item[i].by
    /\ row.status \in {"pending", "queued"} => item[i].attempt < size.attempts
    /\ row.status = "succeeded" => row.result = item[i].claims

(* A row that is not touched.                                                 *)
LEMMA KeptItself ==
    ASSUME BatchInvariant, NEW i \in Items
    PROVE  Kept(i, item[i])
BY DEF BatchInvariant, TypeOK, ItemFits, Kept

(* An item whose lease ran out fails when its attempts are spent.             *)
LEMMA RecoveredRows ==
    ASSUME BatchAssumption, BatchInvariant, NEW w \in Workers, NEW i \in Items
    PROVE  /\ Kept(i, Recovered(w)[i])
           /\ item[i].status \in ItemTerminal => Recovered(w)[i].status \in ItemTerminal
           /\ i \notin Expired(w) => Recovered(w)[i] = item[i]
<1>1. item[i] \in Item
  BY DEF BatchInvariant, TypeOK
<1>2. CASE i \notin Expired(w)
  <2>1. Recovered(w)[i] = item[i]
    BY <1>2 DEF Recovered
  <2> QED BY <2>1, KeptItself
<1>3. CASE i \in Expired(w)
  <2> DEFINE s == IF item[i].attempt >= size.attempts THEN "failed" ELSE "queued"
             u == Unleased(item[i], s)
  <2>1. Recovered(w)[i] = u
    BY <1>3 DEF Recovered
  <2>2. item[i].attempt \in Nat /\ size.attempts \in Nat
    <3>1. MaxClaims \in Nat /\ TypeOK
      BY DEF BatchAssumption, BatchInvariant
    <3> QED BY <1>1, <3>1, RowFields, SizeFields
  <2>3. s \in Statuses /\ s \notin Held /\ s # "succeeded" /\ (s \in {"pending", "queued"} => item[i].attempt < size.attempts)
    BY <2>2, NoNames
  <2> HIDE DEF s
  <2>4. /\ u \in Item /\ u.status = s /\ u.attempt = item[i].attempt /\ u.claims = item[i].claims
        /\ u.base = item[i].base /\ u.ran = item[i].ran
    BY <1>1, <2>3, UnleasedFields
  <2> HIDE DEF u
  <2>5. Kept(i, u)
    BY <2>3, <2>4 DEF Kept
  <2>6. item[i].status \in Held
    BY <1>3 DEF Expired, With
  <2> QED BY <1>3, <2>1, <2>5, <2>6, NoNames
<1> QED BY <1>2, <1>3

(* Letting an item in ends none.                                              *)
LEMMA PromotedRows ==
    ASSUME NEW rows, NEW i \in Items, Kept(i, rows[i])
    PROVE  /\ Kept(i, Promoted(rows)[i])
           /\ (Promoted(rows)[i].status \in ItemTerminal) = (rows[i].status \in ItemTerminal)
<1> DEFINE row == Promoted(rows)[i]
           p   == [rows[i] EXCEPT !.status = "queued"]
<1>1. row = rows[i] \/ (row = p /\ rows[i].status = "pending")
  BY DEF Promoted, First, With
<1>2. CASE row = rows[i]
  BY <1>2
<1>3. CASE row = p /\ rows[i].status = "pending"
  <2>1. rows[i] \in Item
    BY DEF Kept
  <2>2. /\ p.status = "queued" /\ p.attempt = rows[i].attempt /\ p.claims = rows[i].claims
        /\ p.base = rows[i].base /\ p.ran = rows[i].ran
    BY <2>1 DEF Item
  <2>3. p \in Item
    BY <2>1, NoNames, Zenon DEF Item, Statuses
  <2> HIDE DEF p
  <2>4. Kept(i, p)
    BY <1>3, <2>2, <2>3, NoNames DEF Kept
  <2> HIDE DEF row
  <2> QED BY <1>3, <2>2, <2>4, NoNames DEF row
<1> QED BY <1>1, <1>2, <1>3

(* A claim takes an attempt, and the claimant is the one it is counted for.   *)
LEMMA ClaimedFits ==
    ASSUME BatchAssumption, BatchInvariant, NEW w \in Workers, NEW i \in Items, NEW row,
           Kept(i, row), row.status = "queued", item[i].claims < size.claims, exec[w][i].pc = "idle",
           size' = size, item'[i] = Claimed(row),
           exec'[w][i] = [pc |-> "claimed", claim |-> item'[i].by, valid |-> TRUE],
           \A v \in Workers : v # w => exec'[v][i] = exec[v][i]
    PROVE  ItemFits(i)' /\ item'[i] \in Item /\ item'[i].status = "leased" /\ exec'[w][i] \in Exec
<1> DEFINE r == Claimed(row)
<1>1. /\ row \in Item /\ row.attempt = item[i].attempt /\ row.claims = item[i].claims
      /\ row.base = item[i].base /\ row.ran = item[i].ran /\ item[i].attempt < size.attempts
  BY DEF Kept
<1>2. TypeOK /\ ItemFits(i) /\ item[i] \in Item
  BY DEF BatchInvariant, TypeOK
<1>3. /\ item[i].ran \in Nat /\ item[i].attempt \in Nat /\ item[i].base \in Nat /\ item[i].claims \in Nat
      /\ MaxClaims \in Nat /\ size.attempts \in Nat /\ size.claims \in 0 .. MaxClaims
  BY <1>2, RowFields, SizeFields DEF BatchAssumption
<1>4. item[i].base <= item[i].claims /\ item[i].attempt <= item[i].claims - item[i].base
  BY <1>2 DEF ItemFits
<1>5. item[i].claims + 1 \in 0 .. MaxClaims /\ item[i].attempt + 1 \in 0 .. MaxClaims
  BY <1>3, <1>4
<1>6. /\ r.status = "leased" /\ r.attempt = item[i].attempt + 1 /\ r.by = item[i].claims + 1
      /\ r.claims = item[i].claims + 1 /\ r.base = item[i].base /\ r.ran = item[i].ran
  BY <1>1 DEF Claimed, Item
<1>7. r \in Item
  <2>1. row.claims + 1 \in 0 .. MaxClaims /\ row.attempt + 1 \in 0 .. MaxClaims
    BY <1>1, <1>5
  <2>2. r = [row EXCEPT !.status = "leased", !.attempt = row.attempt + 1, !.by = row.claims + 1,
                        !.fresh = TRUE, !.claims = row.claims + 1]
    BY <1>1 DEF Claimed, Item
  <2>3. "leased" \in Statuses
    BY NoNames
  <2> DEFINE a == row.attempt + 1
             c == row.claims + 1
  <2> HIDE DEF r, a, c
  <2>4. a \in 0 .. MaxClaims /\ c \in 0 .. MaxClaims /\ r = [row EXCEPT !.status = "leased", !.attempt = a, !.by = c,
                        !.fresh = TRUE, !.claims = c]
    BY <2>1, <2>2 DEF a, c
  <2> QED BY <1>1, <2>3, <2>4, Zenon DEF Item, Statuses
<1>8. item'[i] = r
  OBVIOUS
<1> HIDE DEF r
<1>9. exec'[w][i].pc = "claimed" /\ exec'[w][i].claim = item[i].claims + 1 /\ exec'[w][i] \in Exec
  BY <1>5, <1>6, <1>8 DEF Exec
<1>10. "idle" \notin Unanswered /\ "claimed" \in Unanswered
  BY DEF Unanswered
<1>11. w \notin Unspent(i)
  BY <1>10 DEF Unspent
<1>12. Unspent(i)' = Unspent(i) \cup {w}
  <2>1. w \in Unspent(i)'
    BY <1>3, <1>4, <1>6, <1>8, <1>9, <1>10 DEF Unspent
  <2>2. \A v \in Workers : v # w => (v \in Unspent(i)') = (v \in Unspent(i))
    BY <1>6, <1>8 DEF Unspent
  <2> QED BY <2>1, <2>2 DEF Unspent
<1>13. IsFiniteSet(Unspent(i)) /\ Cardinality(Unspent(i)) \in Nat
  BY UnspentFinite
<1>14. Cardinality(Unspent(i)') = Cardinality(Unspent(i)) + 1
  BY <1>11, <1>12, <1>13, FS_AddElement
<1>15. item[i].ran + Cardinality(Unspent(i)) <= item[i].attempt
  BY <1>2 DEF ItemFits
<1>16. item'[i].ran + Cardinality(Unspent(i)') <= item'[i].attempt
  BY <1>3, <1>6, <1>8, <1>13, <1>14, <1>15
<1>17. ASSUME NEW v \in Workers PROVE exec'[v][i].claim <= item'[i].claims
  <2>1. CASE v = w
    BY <1>3, <1>6, <1>8, <1>9, <2>1
  <2>2. CASE v # w
    <3>1. exec[v][i] \in Exec
      BY <1>2 DEF TypeOK
    <3>2. exec[v][i].claim \in Nat /\ exec[v][i].claim <= item[i].claims
      BY <1>2, <1>3, <3>1, ExecFields DEF ItemFits
    <3>3. exec'[v][i] = exec[v][i]
      BY <2>2
    <3> QED BY <1>3, <1>6, <1>8, <3>2, <3>3
  <2> QED BY <2>1, <2>2
<1>18. /\ item'[i].by = item'[i].claims /\ item'[i].base < item'[i].claims
       /\ item'[i].base <= item'[i].claims /\ item'[i].attempt <= item'[i].claims - item'[i].base
       /\ item'[i].attempt <= size'.attempts
       /\ item'[i].status \notin {"pending", "queued"} /\ item'[i].status # "succeeded"
  BY <1>1, <1>3, <1>4, <1>6, <1>8
<1>19. ItemFits(i)'
  BY <1>16, <1>17, <1>18 DEF ItemFits
<1> QED BY <1>6, <1>7, <1>8, <1>9, <1>19

(* A whole pass: recovery, promotion and claims, in one transaction.          *)
LEMMA StepClaimItems ==
    ASSUME BatchAssumption, BatchInvariant, NEW w \in Workers, ClaimItems(w)
    PROVE  BatchInvariant'
<1> DEFINE rows  == Recovered(w)
           now   == IF \E i \in Expired(w) : rows[i].status \in ItemTerminal THEN Refreshed(batch, rows) ELSE batch
           ready == IF now \in Runnable THEN Promoted(rows) ELSE rows
           taken == IF now \in Runnable THEN Takes(w, ready) ELSE {}
<1>1. /\ batch \in Runnable \/ batch = "paused"
      /\ \A i \in taken : item[i].claims < size.claims
      /\ item' = [i \in Items |-> IF i \in taken THEN Claimed(ready[i]) ELSE ready[i]]
      /\ batch' = IF taken # {} THEN "running" ELSE now
      /\ exec' = [exec EXCEPT ![w] = [i \in Items |->
                     IF i \in taken THEN [pc |-> "claimed", claim |-> item'[i].by, valid |-> TRUE] ELSE @[i]]]
      /\ size' = size
  BY DEF ClaimItems
<1>2. \A i \in Items : /\ Kept(i, rows[i])
                       /\ item[i].status \in ItemTerminal => rows[i].status \in ItemTerminal
                       /\ i \notin Expired(w) => rows[i] = item[i]
  BY RecoveredRows
<1>3. \A i \in Items : Kept(i, ready[i]) /\ (ready[i].status \in ItemTerminal) = (rows[i].status \in ItemTerminal)
  <2> HIDE DEF rows, now
  <2> QED BY <1>2, PromotedRows
<1>4. taken \subseteq Items \ Executing(w) /\ \A i \in taken : ready[i].status = "queued"
  <2> HIDE DEF ready, now
  <2> QED BY DEF Takes, First, With
<1>5. \A i \in taken : exec[w][i].pc = "idle" /\ i \in Items
  BY <1>4 DEF Executing
<1>6. /\ now \in Runnable \cup BatchTerminal \cup {"paused"}
      /\ (now \in BatchTerminal) = (With(rows, ItemTerminal) = Items)
  <2>1. TypeOK /\ BatchSettled /\ batch \in Runnable \cup {"paused"} /\ batch \notin BatchTerminal
    BY <1>1 DEF BatchInvariant, Runnable, BatchTerminal
  <2>2. CASE \E i \in Expired(w) : rows[i].status \in ItemTerminal
    <3>1. now = Refreshed(batch, rows)
      BY <2>2
    <3> HIDE DEF rows, now
    <3> QED BY <2>1, <3>1, RefreshedSettles
  <2>3. CASE ~ \E i \in Expired(w) : rows[i].status \in ItemTerminal
    <3>1. now = batch
      BY <2>3
    <3>2. Expired(w) \subseteq Items /\ \A i \in Expired(w) : item[i].status \notin ItemTerminal
      BY NoNames DEF Expired, With
    <3> HIDE DEF rows, now
    <3>3. \A i \in Items : (rows[i].status \in ItemTerminal) = (item[i].status \in ItemTerminal)
      BY <1>2, <2>3, <3>2
    <3>4. With(rows, ItemTerminal) = With(item, ItemTerminal)
      BY <3>3 DEF With
    <3> QED BY <2>1, <3>1, <3>4 DEF BatchSettled
  <2> QED BY <2>2, <2>3
<1>7. taken # {} => now \in Runnable
  OBVIOUS
<1> HIDE DEF rows, now, ready, taken
<1>8. /\ \A i \in Items \ taken : item'[i] = ready[i]
      /\ \A i \in taken : item'[i] = Claimed(ready[i])
  BY <1>1, <1>5
<1>9. exec \in [Workers -> [Items -> Exec]] /\ Items' = Items /\ TypeOK
  BY <1>1 DEF BatchInvariant, TypeOK, Items
<1>10. /\ \A i \in taken : exec'[w][i] = [pc |-> "claimed", claim |-> item'[i].by, valid |-> TRUE]
       /\ \A i \in Items \ taken : exec'[w][i] = exec[w][i]
       /\ \A v \in Workers, i \in Items : v # w => exec'[v][i] = exec[v][i]
  <2>1. exec'[w] = [i \in Items |->
                     IF i \in taken THEN [pc |-> "claimed", claim |-> item'[i].by, valid |-> TRUE] ELSE exec[w][i]]
    BY <1>1, <1>9
  <2>2. \A v \in Workers : v # w => exec'[v] = exec[v]
    BY <1>1, <1>9
  <2> QED BY <1>5, <2>1, <2>2
<1>11. ASSUME NEW i \in taken
       PROVE  ItemFits(i)' /\ item'[i] \in Item /\ item'[i].status = "leased" /\ exec'[w][i] \in Exec
  <2>1. Kept(i, ready[i]) /\ ready[i].status = "queued" /\ i \in Items
    BY <1>3, <1>4, <1>5
  <2>2. item[i].claims < size.claims /\ exec[w][i].pc = "idle" /\ item'[i] = Claimed(ready[i]) /\ size' = size
    BY <1>1, <1>5, <1>8
  <2>3. /\ exec'[w][i] = [pc |-> "claimed", claim |-> item'[i].by, valid |-> TRUE]
        /\ \A v \in Workers : v # w => exec'[v][i] = exec[v][i]
    BY <1>10, <2>1
  <2> DEFINE row == ready[i]
  <2>4. Kept(i, row) /\ row.status = "queued" /\ item'[i] = Claimed(row)
    BY <2>1, <2>2
  <2> HIDE DEF row
  <2> QED BY <2>1, <2>2, <2>3, <2>4, ClaimedFits
<1>12. ASSUME NEW i \in Items \ taken
       PROVE  ItemFits(i)' /\ item'[i] \in Item /\ exec'[w][i] \in Exec
  <2>1. Kept(i, item'[i])
    BY <1>3, <1>8
  <2>2. \A v \in Workers : exec'[v][i] = exec[v][i]
    BY <1>10
  <2>3. ItemFits(i) /\ exec[w][i] \in Exec
    BY <1>9 DEF BatchInvariant
  <2>4. \A v \in Workers : exec'[v][i].claim <= item[i].claims
    BY <2>2, <2>3 DEF ItemFits
  <2>5. Unspent(i)' \subseteq Unspent(i)
    BY <2>1, <2>2 DEF Unspent, Kept
  <2>6. ItemFits(i)'
    BY <1>1, <1>9, <2>1, <2>3, <2>4, <2>5, ItemKeeps DEF Kept
  <2> QED BY <2>1, <2>2, <2>3, <2>6 DEF Kept
<1>13. item' \in [Items -> Item]
  BY <1>1, <1>11, <1>12
<1>14. exec' \in [Workers -> [Items -> Exec]]
  <2>1. \A i \in Items : exec'[w][i] \in Exec
    BY <1>11, <1>12
  <2>2. exec'[w] = [i \in Items |-> exec'[w][i]] /\ \A v \in Workers : v # w => exec'[v] = exec[v]
    BY <1>1, <1>9
  <2>3. exec'[w] \in [Items -> Exec]
    BY <2>1, <2>2
  <2> QED BY <1>1, <1>9, <2>2, <2>3
<1>15. batch' \in Runnable \cup BatchTerminal \cup {"paused"}
  BY <1>1, <1>6 DEF Runnable
<1>16. BatchSettled'
  <2>1. \A i \in Items : (item'[i].status \in ItemTerminal) = (rows[i].status \in ItemTerminal)
    BY <1>3, <1>4, <1>8, <1>11, NoNames
  <2>2. With(item, ItemTerminal)' = With(rows, ItemTerminal)
    BY <1>9, <2>1 DEF With
  <2>3. (batch' \in BatchTerminal) = (now \in BatchTerminal)
    BY <1>1, <1>7 DEF Runnable, BatchTerminal
  <2> QED BY <1>6, <1>9, <2>2, <2>3 DEF BatchSettled
<1>17. TypeOK'
  BY <1>1, <1>9, <1>13, <1>14, <1>15 DEF TypeOK
<1>18. \A i \in Items : ItemFits(i)'
  BY <1>11, <1>12
<1> QED BY <1>9, <1>16, <1>17, <1>18 DEF BatchInvariant

-----------------------------------------------------------------------------
(* A new batch.                                                               *)
LEMMA InitBatch ==
    ASSUME BatchAssumption, Init
    PROVE  BatchInvariant
<1> DEFINE row == [status |-> "pending", attempt |-> 0, by |-> NoClaim, fresh |-> FALSE,
                   result |-> NoClaim, claims |-> 0, base |-> 0, ran |-> 0]
<1>1. /\ size \in Sizes /\ batch = "queued" /\ item = [i \in Items |-> row]
      /\ exec = [w \in Workers |-> [i \in Items |-> Idle]]
  BY DEF Init
<1>2. 0 \in 0 .. MaxClaims
  BY DEF BatchAssumption
<1>3. row \in Item
  BY <1>2, NoNames DEF Item, Statuses, NoClaim
<1>4. TypeOK
  BY <1>1, <1>3, Dropped DEF TypeOK, Runnable
<1>5. size.attempts \in Nat \ {0} /\ 1 \in Items
  BY <1>4, SizeFields
<1>6. BatchSettled
  <2>1. 1 \notin With(item, ItemTerminal)
    BY <1>1, <1>5, NoNames DEF With
  <2> QED BY <1>1, <1>5, <2>1 DEF BatchSettled, BatchTerminal
<1>7. ASSUME NEW i \in Items PROVE ItemFits(i)
  <2>1. item[i] = row /\ \A w \in Workers : exec[w][i] = Idle
    BY <1>1
  <2>2. Unspent(i) = {}
    BY <2>1, Dropped DEF Unspent
  <2>3. Cardinality(Unspent(i)) = 0
    BY <2>2, FS_EmptySet
  <2>4. item[i].status = "pending" /\ item[i].attempt = 0 /\ item[i].claims = 0 /\ item[i].base = 0 /\ item[i].ran = 0
    BY <2>1
  <2>5. \A w \in Workers : exec[w][i].claim <= item[i].claims
    BY <2>1, <2>4, Dropped DEF NoClaim
  <2> QED BY <1>5, <2>3, <2>4, <2>5, NoNames DEF ItemFits
<1> QED BY <1>4, <1>6, <1>7 DEF BatchInvariant

(* Every step keeps the invariant.                                            *)
LEMMA NextBatch ==
    ASSUME BatchAssumption, BatchInvariant, [Next]_vars
    PROVE  BatchInvariant'
<1>1. CASE Pause \/ Resume
  BY <1>1, StepControl
<1>2. CASE Cancel
  BY <1>2, StepCancel
<1>3. CASE \E i \in Items : Retry(i) \/ LeaseExpires(i)
  BY <1>3, StepRetry, StepLeaseExpires
<1>4. CASE \E w \in Workers : ClaimItems(w) \/ Stop(w)
  BY <1>4, StepClaimItems, StepStop
<1>5. CASE \E w \in Workers, i \in Items : Enter(w, i) \/ Launch(w, i) \/ Heartbeat(w, i) \/ Admit(w, i) \/ Refuse(w, i)
  BY <1>5, StepEnter, StepLaunch, StepHeartbeat, StepAdmit, StepRefuse
<1>6. CASE \E w \in Workers, i \in Items : MarkRunning(w, i) \/ Ends(w, i) \/ Abandon(w, i) \/ Finalize(w, i) \/ Requeue(w, i)
  BY <1>6, StepMarkRunning, StepEnds, StepAbandon, StepFinalize, StepRequeue
<1>7. CASE UNCHANGED vars
  <2>1. UNCHANGED <<size, batch, item, exec>>
    BY <1>7 DEF vars
  <2> QED BY <2>1 DEF BatchInvariant, TypeOK, BatchSettled, ItemFits, Unspent, Items, With
<1> QED BY <1>1, <1>2, <1>3, <1>4, <1>5, <1>6, <1>7 DEF Next

(* The invariant of a batch.                                                  *)
THEOREM BatchIsInvariant == BatchAssumption => (Spec => []BatchInvariant)
<1> SUFFICES ASSUME BatchAssumption PROVE Spec => []BatchInvariant
  OBVIOUS
<1>1. Init => BatchInvariant
  BY InitBatch
<1>2. BatchInvariant /\ [Next]_vars => BatchInvariant'
  BY NextBatch
<1> QED BY <1>1, <1>2, PTL DEF Spec

(* A batch is over exactly when all its items are, for batches of any size    *)
(* and any number of gateways (_refresh_batch_status).                        *)
THEOREM BatchSettles == BatchAssumption => (Spec => []BatchSettled)
<1> SUFFICES ASSUME BatchAssumption PROVE Spec => []BatchSettled
  OBVIOUS
<1>1. BatchInvariant => BatchSettled
  BY DEF BatchInvariant
<1> QED BY <1>1, BatchIsInvariant, PTL

(* A report that is stored is the one of the last claim, and an item is       *)
(* executed at most max_attempts times between two retries                    *)
(* (finalize_item, requeue_item_after_admission_failure).                     *)
THEOREM LostClaimsIgnored == BatchAssumption => (Spec => []LostClaimChangesNothing)
<1> SUFFICES ASSUME BatchAssumption PROVE Spec => []LostClaimChangesNothing
  OBVIOUS
<1>1. BatchInvariant => LostClaimChangesNothing
  <2> SUFFICES ASSUME BatchInvariant, NEW i \in Items
               PROVE  (item[i].status = "succeeded" => item[i].result = item[i].claims) /\ item[i].ran <= size.attempts
    BY DEF LostClaimChangesNothing
  <2>1. TypeOK /\ ItemFits(i) /\ item[i] \in Item /\ MaxClaims \in Nat
    BY DEF BatchInvariant, TypeOK, BatchAssumption
  <2>2. item[i].ran \in Nat /\ item[i].attempt \in Nat /\ size.attempts \in Nat
    BY <2>1, RowFields, SizeFields
  <2>3. Cardinality(Unspent(i)) \in Nat
    BY UnspentFinite
  <2> QED BY <2>1, <2>2, <2>3 DEF ItemFits
<1> QED BY <1>1, BatchIsInvariant, PTL
=============================================================================
