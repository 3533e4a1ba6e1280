-------------------------- MODULE RunOwnershipProofs --------------------------
(***************************************************************************)
(* Two inductive invariants of the run protocol.                            *)
(*                                                                          *)
(* Leases.  First the facts about the operators of RunOwnership that every  *)
(* step proof uses: the types of the record operations (Fence, Stage,       *)
(* Abort, Acknowledge), what they may do to the fields that FenceInvariant  *)
(* looks at (Calm), and the two step rules LocalStep and CalmStep, which    *)
(* reduce the preservation of FenceInvariant by a step of one run to that   *)
(* run's own conjunct.  Then FenceInvariant is preserved by every step: of  *)
(* a run's own task (worker.run_agent and the RunManager methods it         *)
(* awaits), of the lease deadline timer, of a client's cancel() at the      *)
(* owner, of the heartbeat, of other workers, of the store, of admission,   *)
(* crashes and the clock, one lemma per action, named after it.             *)
(*                                                                          *)
(* Outcomes.  A step of a run's own task, of a cancellation at its owner or *)
(* of its heartbeat concerns one run and no row (LocalOutcome, KeptOutcome  *)
(* and the three acknowledgments).  A store call, a takeover or a request   *)
(* changes one row and no record (RowOutcome).  Admissions, crashes and the *)
(* clock change several runs at once and are treated run by run.  The last  *)
(* part shows, step by step, that the model implements RunLifecycle.        *)
(***************************************************************************)
EXTENDS RunOwnership, TLAPS

-----------------------------------------------------------------------------
(* The time left on a lease is an integer between Floor and Lease.           *)
LEMMA LeftType ==
    /\ Floor \in Int /\ Floor <= -1 /\ Floor = -(Grace + 1)
    /\ Left \subseteq Int /\ Floor \in Left /\ Lease \in Left
    /\ \A l \in Left : l <= Lease
BY StoreAssumption DEF StoreAssumption, Left, Floor

(* One clock tick keeps lease times in range and keeps their order.          *)
LEMMA AgeType ==
    ASSUME NEW l \in Left
    PROVE  /\ Age(l) \in Left /\ Age(l) <= l
           /\ l > Floor => Age(l) = l - 1
           /\ \A m \in Left : l <= m => Age(l) <= Age(m)
BY StoreAssumption DEF StoreAssumption, Age, Left, Floor

(* The status names that proofs mention belong to the sets the store tests.  *)
LEMMA StatusNames ==
    /\ "error" \in Terminal /\ "interrupted" \in Terminal /\ "success" \in Terminal
    /\ "pending" \in Active /\ "running" \in Active
    /\ "absent" \notin Active \cup Terminal
    /\ Active \cap Terminal = {}
    /\ "interrupt" \in Actions /\ "rollback" \in Actions /\ "none" \notin Actions
BY DEF Terminal, Active, Actions

(* The idle values have their types, and "no outcome" is not an outcome.     *)
LEMMA Constants ==
    /\ NoRecord \in Record /\ NoCall \in Call /\ NoRenewal \in Renewal
    /\ NoAdmission \in Admission /\ AbsentRow \in Row
    /\ NoOutcome \notin Outcomes
<1>1. NoRecord \in Record
  BY LeftType DEF NoRecord, Record, Active, Errors, Steps, NoOutcome
<1>2. NoCall \in Call
  BY DEF NoCall, Call, Replies, NoOutcome
<1>3. NoRenewal \in Renewal /\ NoAdmission \in Admission /\ AbsentRow \in Row
  BY LeftType DEF NoRenewal, Renewal, NoAdmission, Admission, AbsentRow, Row
<1>4. NoOutcome \notin Outcomes
  BY DEF NoOutcome, Outcomes, Active, Terminal
<1> QED BY <1>1, <1>2, <1>3, <1>4

-----------------------------------------------------------------------------
(* The outcome a record carries is one that a status write can carry.        *)
LEMMA OutcomeType ==
    ASSUME NEW rc \in Record
    PROVE  OutcomeOf(rc) \in Outcomes /\ OutcomeOf(rc).status = rc.status
BY DEF OutcomeOf, Record, Outcomes

(* The acknowledgment predicates are Boolean.                                *)
LEMMA AckBoolean ==
    ASSUME NEW rc \in Record
    PROVE  FinalAck(rc) \in BOOLEAN /\ Awaits(rc) \in BOOLEAN
BY DEF FinalAck, Awaits, HasAck, Record

(* A final acknowledgment rests on a proof: _has_final_terminal_ack needs    *)
(* terminal_ack.                                                             *)
LEMMA FinalAckHasProof ==
    ASSUME NEW rc \in Record, FinalAck(rc)
    PROVE  ~rc.lost /\ rc.proof # NoOutcome /\ rc.proof.status = rc.status
BY OutcomeType, Constants DEF FinalAck, HasAck

(* _fence_local_record returns a record.                                     *)
LEMMA FenceType ==
    ASSUME NEW rc \in Record
    PROVE  Fence(rc) \in Record
<1> DEFINE ab == IF rc.abort = "none" THEN "interrupt" ELSE rc.abort
<1>1. "error" \in Active \cup Terminal /\ "lost" \in Errors
  BY DEF Terminal, Errors
<1>2. ab \in {"none"} \cup Actions
  BY DEF Record, Actions
<1>3. [rc EXCEPT !.lost = TRUE, !.saved = FALSE, !.pending = FALSE, !.armed = FALSE,
                 !.status = "error", !.err = "lost", !.abort = ab] \in Record
  <2> HIDE DEF ab
  <2> QED BY <1>1, <1>2 DEF Record
<1>4. [rc EXCEPT !.pending = FALSE] \in Record
  BY DEF Record
<1> QED BY <1>3, <1>4 DEF Fence

(* The fields of a record have the types Record gives them.                  *)
LEMMA FieldTypes ==
    ASSUME NEW rc \in Record
    PROVE  /\ rc.live \in BOOLEAN /\ rc.home \in Workers \cup {NoWorker}
           /\ rc.status \in Active \cup Terminal /\ rc.err \in Errors
           /\ rc.abort \in {"none"} \cup Actions /\ rc.lost \in BOOLEAN
           /\ rc.proof \in Outcomes \cup {NoOutcome} /\ rc.rev \in Nat /\ rc.left \in Left
           /\ rc.armed \in BOOLEAN /\ rc.finalizing \in BOOLEAN /\ rc.rollback \in BOOLEAN
           /\ rc.pending \in BOOLEAN /\ rc.saved \in BOOLEAN /\ rc.started \in BOOLEAN
           /\ rc.stage \in 0 .. 2 /\ rc.pc \in Steps
BY Zenon DEF Record

(* set_status(persist=False) returns a record.                               *)
LEMMA StageType ==
    ASSUME NEW rc \in Record, NEW status \in Terminal, NEW err \in Errors
    PROVE  Stage(rc, status, err) \in Record
<1> DEFINE e == IF err = "" THEN rc.err ELSE err
           v == rc.rev + 1
<1>1. rc.rev \in Nat /\ rc.err \in Errors
  BY FieldTypes
<1>2. e \in Errors /\ v \in Nat
  <2>1. e \in Errors
    BY <1>1, Zenon
  <2>2. v \in Nat
    BY <1>1
  <2> QED BY Zenon, <2>1, <2>2
<1>3. [rc EXCEPT !.status = status, !.err = e, !.rev = v, !.saved = FALSE] \in Record
  <2> HIDE DEF e, v
  <2> QED BY <1>2, Zenon DEF Record
<1>4. Stage(rc, status, err) =
        IF rc.lost \/ (rc.proof.status \in {"success", "error"} /\ [status |-> status, err |-> e] # rc.proof)
        THEN rc
        ELSE [rc EXCEPT !.status = status, !.err = e, !.rev = v, !.saved = FALSE]
  BY DEF Stage
<1> QED BY <1>3, <1>4, Zenon

(* The local abort of a run returns a record.                                *)
LEMMA AbortType ==
    ASSUME NEW rc \in Record, NEW action \in {"none"} \cup Actions
    PROVE  Abort(rc, action) \in Record
<1> DEFINE f == TaskActive(rc)
           rb == action = "rollback" /\ TaskActive(rc)
<1>1. f \in BOOLEAN /\ rb \in BOOLEAN
  BY DEF TaskActive
<1>2. [rc EXCEPT !.abort = action, !.finalizing = f, !.rollback = rb] \in Record
  <2> HIDE DEF f, rb
  <2> QED BY <1>1, Zenon DEF Record
<1> QED BY <1>2, Zenon DEF Abort

(* Setting the commit barrier or the task position keeps the record type.    *)
LEMMA FlagsType ==
    ASSUME NEW rc \in Record, NEW a \in BOOLEAN, NEW b \in BOOLEAN, NEW c \in BOOLEAN
    PROVE  [rc EXCEPT !.saved = a, !.pending = b, !.armed = c] \in Record
BY Zenon DEF Record

(* _acknowledge_terminal returns a record.                                   *)
LEMMA AcknowledgeType ==
    ASSUME NEW rc \in Record, NEW out \in Outcomes, NEW rev
    PROVE  Acknowledge(rc, out, rev) \in Record
<1> DEFINE proof == IF rc.proof = NoOutcome \/ rc.proof.status = "interrupted"
                       \/ out.status # "interrupted"
                    THEN out ELSE rc.proof
           staged == proof.status # "interrupted" \/ rc.rev = rev
           st == IF staged THEN proof.status ELSE rc.status
           er == IF staged THEN proof.err ELSE rc.err
           rb == rc.rollback /\ proof.status # "error"
           acked == [rc EXCEPT !.proof = proof, !.status = st, !.err = er, !.rollback = rb]
           final == FinalAck(acked)
           pd == acked.pending /\ ~final
           ar == acked.armed /\ ~final
<1>1. proof \in Outcomes
  BY FieldTypes
<1>2. /\ st \in Active \cup Terminal /\ er \in Errors /\ rb \in BOOLEAN
      /\ proof \in Outcomes \cup {NoOutcome}
  <2> HIDE DEF proof
  <2> QED BY <1>1, FieldTypes DEF Outcomes
<1>3. acked \in Record
  <2> HIDE DEF proof, st, er, rb
  <2> QED BY <1>2, Zenon DEF Record
<1>4. final \in BOOLEAN /\ pd \in BOOLEAN /\ ar \in BOOLEAN
  BY <1>3, AckBoolean
<1>5. [acked EXCEPT !.saved = final, !.pending = pd, !.armed = ar] \in Record
  <2> HIDE DEF acked, final, pd, ar
  <2> QED BY Zenon, <1>3, <1>4, FlagsType
<1>6. Acknowledge(rc, out, rev) =
        IF ~rc.live \/ rc.lost THEN rc
        ELSE [acked EXCEPT !.saved = final, !.pending = pd, !.armed = ar]
  BY DEF Acknowledge
<1> QED BY <1>5, <1>6, Zenon

-----------------------------------------------------------------------------
(* What a local step may do to the fields the invariant looks at: it keeps   *)
(* the registration and the lease, never un-fences or un-aborts a run,       *)
(* disarms the timer only with a fence or a proof, and replaces a proof by a *)
(* proof.                                                                    *)
Calm(a, b) ==
    /\ b.live = a.live /\ b.home = a.home /\ b.left = a.left
    /\ a.lost => b.lost
    /\ b.armed => a.armed
    /\ a.armed /\ ~b.armed => b.lost \/ b.proof # NoOutcome
    /\ b.abort = "none" => a.abort = "none"
    /\ b.proof = a.proof \/ (b.proof # NoOutcome /\ b.proof.status \in Terminal)

(* Fencing is calm: the timer goes only because the run is given up.         *)
LEMMA FenceCalm ==
    ASSUME NEW rc \in Record
    PROVE  /\ Calm(rc, Fence(rc)) /\ Fence(rc).proof = rc.proof /\ Fence(rc).pc = rc.pc
           /\ rc.live /\ ~FinalAck(rc) => Fence(rc).lost
           /\ rc.live /\ ~rc.lost /\ ~FinalAck(rc) => ~Fence(rc).armed
<1>1. CASE ~rc.live \/ rc.lost
  BY <1>1 DEF Fence, Calm
<1>2. CASE rc.live /\ ~rc.lost /\ FinalAck(rc)
  <2> DEFINE f == [rc EXCEPT !.pending = FALSE]
  <2>1. Fence(rc) = f
    BY <1>2, Zenon DEF Fence
  <2>2. /\ f.live = rc.live /\ f.home = rc.home /\ f.left = rc.left /\ f.proof = rc.proof
        /\ f.pc = rc.pc /\ f.lost = rc.lost /\ f.armed = rc.armed /\ f.abort = rc.abort
    OBVIOUS
  <2> HIDE DEF f
  <2> QED BY <1>2, <2>1, <2>2 DEF Calm
<1>3. CASE rc.live /\ ~rc.lost /\ ~FinalAck(rc)
  <2> DEFINE ab == IF rc.abort = "none" THEN "interrupt" ELSE rc.abort
             f == [rc EXCEPT !.lost = TRUE, !.saved = FALSE, !.pending = FALSE, !.armed = FALSE,
                             !.status = "error", !.err = "lost", !.abort = ab]
  <2>1. Fence(rc) = f
    BY <1>3, Zenon DEF Fence
  <2>2. /\ f.live = rc.live /\ f.home = rc.home /\ f.left = rc.left /\ f.proof = rc.proof
        /\ f.pc = rc.pc
    OBVIOUS
  <2>3. f.lost /\ ~f.armed /\ f.abort = ab
    <3> HIDE DEF ab
    <3> QED BY Zenon DEF Record
  <2>4. ab # "none"
    OBVIOUS
  <2> HIDE DEF f, ab
  <2> QED BY <1>3, <2>1, <2>2, <2>3, <2>4 DEF Calm
<1> QED BY <1>1, <1>2, <1>3, FieldTypes

(* Staging a status touches neither proof, lease nor timer.                  *)
LEMMA StageCalm ==
    ASSUME NEW rc \in Record, NEW status, NEW err
    PROVE  /\ Calm(rc, Stage(rc, status, err)) /\ Stage(rc, status, err).proof = rc.proof
           /\ Stage(rc, status, err).pc = rc.pc /\ Stage(rc, status, err).lost = rc.lost
           /\ Stage(rc, status, err).abort = rc.abort
BY FieldTypes DEF Stage, Calm

(* An abort touches neither proof, lease nor timer.                          *)
LEMMA AbortCalm ==
    ASSUME NEW rc \in Record, NEW action \in Actions
    PROVE  /\ Calm(rc, Abort(rc, action)) /\ Abort(rc, action).proof = rc.proof
           /\ Abort(rc, action).pc = rc.pc /\ Abort(rc, action).abort = action
BY FieldTypes, StatusNames DEF Abort, Calm

(* Acknowledging a terminal write is calm, and leaves a proof behind unless  *)
(* the worker had been fenced.                                               *)
LEMMA AcknowledgeCalm ==
    ASSUME NEW rc \in Record, NEW out \in Outcomes, NEW rev, out.status \in Terminal,
           rc.proof = NoOutcome \/ rc.proof.status \in Terminal
    PROVE  LET b == Acknowledge(rc, out, rev)
           IN  /\ Calm(rc, b) /\ b.pc = rc.pc /\ b.abort = rc.abort /\ b.lost = rc.lost
               /\ rc.live /\ ~rc.lost => b.proof # NoOutcome /\ b.proof.status \in Terminal
<1> DEFINE proof == IF rc.proof = NoOutcome \/ rc.proof.status = "interrupted"
                       \/ out.status # "interrupted"
                    THEN out ELSE rc.proof
           b == Acknowledge(rc, out, rev)
<1>1. proof # NoOutcome /\ proof.status \in Terminal
  BY Constants
<1>2. CASE ~rc.live \/ rc.lost
  BY <1>2 DEF Acknowledge, Calm
<1>3. CASE rc.live /\ ~rc.lost
  <2> DEFINE staged == proof.status # "interrupted" \/ rc.rev = rev
             st == IF staged THEN proof.status ELSE rc.status
             er == IF staged THEN proof.err ELSE rc.err
             rb == rc.rollback /\ proof.status # "error"
             acked == [rc EXCEPT !.proof = proof, !.status = st, !.err = er, !.rollback = rb]
             final == FinalAck(acked)
             pd == acked.pending /\ ~final
             ar == acked.armed /\ ~final
             done == [acked EXCEPT !.saved = final, !.pending = pd, !.armed = ar]
  <2>1. b = done
    BY <1>3, Zenon DEF Acknowledge
  <2>2. /\ acked.live = rc.live /\ acked.home = rc.home /\ acked.left = rc.left
        /\ acked.lost = rc.lost /\ acked.abort = rc.abort /\ acked.pc = rc.pc
        /\ acked.armed = rc.armed
    <3> HIDE DEF proof, st, er, rb
    <3> QED OBVIOUS
  <2>3. acked.proof = proof
    <3> HIDE DEF proof, st, er, rb
    <3> QED BY Zenon DEF Record
  <2>4. /\ done.live = acked.live /\ done.home = acked.home /\ done.left = acked.left
        /\ done.lost = acked.lost /\ done.abort = acked.abort /\ done.pc = acked.pc
        /\ done.proof = acked.proof
    <3> HIDE DEF acked, final, pd, ar
    <3> QED OBVIOUS
  <2>5. done.armed => acked.armed
    <3>1. acked \in Record
      <4>1. proof \in Outcomes
        BY FieldTypes
      <4>2. st \in Active \cup Terminal /\ er \in Errors /\ rb \in BOOLEAN
        <5> HIDE DEF proof
        <5> QED BY <4>1, FieldTypes DEF Outcomes
      <4> HIDE DEF proof, st, er, rb
      <4> QED BY <4>1, <4>2, Zenon DEF Record
    <3>2. done.armed = ar
      <4> HIDE DEF acked, final, pd, ar
      <4> QED BY <3>1, Zenon DEF Record
    <3> QED BY <3>2, Zenon
  <2> HIDE DEF done, acked, final, proof, b
  <2> QED BY <1>1, <1>3, <2>1, <2>2, <2>3, <2>4, <2>5 DEF Calm, b
<1> QED BY <1>2, <1>3, FieldTypes

-----------------------------------------------------------------------------
(* A step that only concerns run r.                                         *)

(* A step that changes the record and the calls of run r only preserves      *)
(* FenceInvariant when it preserves the conjunct of r.                       *)
LEMMA LocalStep ==
    ASSUME FenceInvariant, TypeOK', NEW r \in Runs, NEW rc \in Record,
           rec' = [rec EXCEPT ![r] = rc], rows' = rows, adm' = adm,
           \A q \in Runs \ {r} :
               tcall'[q] = tcall[q] /\ ccall'[q] = ccall[q] /\ rcall'[q] = rcall[q],
           rc.live = rec[r].live, rc.home = rec[r].home,
           RunInvariant(r)'
    PROVE  FenceInvariant'
<1>1. rec \in [Runs -> Record]
  BY DEF FenceInvariant, TypeOK
<1>2. ASSUME NEW q \in Runs, q # r PROVE RunInvariant(q)'
  <2>1. /\ rec'[q] = rec[q] /\ rows'[q] = rows[q] /\ tcall'[q] = tcall[q]
        /\ ccall'[q] = ccall[q] /\ rcall'[q] = rcall[q]
    BY <1>1, <1>2
  <2>2. RunInvariant(q)
    BY DEF FenceInvariant
  <2>3. CallsMatch(q)' /\ LeaseIsConfirmed(q)' /\ TimerIsArmed(q)'
    BY <2>1, <2>2 DEF RunInvariant, CallsMatch, LeaseIsConfirmed, TimerIsArmed
  <2>4. ProofMeansClosed(q)' /\ SnapshotIsAlone(q)'
    BY <2>1, <2>2 DEF RunInvariant, ProofMeansClosed, SnapshotIsAlone
  <2> QED BY <2>1, <2>2, <2>3, <2>4 DEF RunInvariant
<1>3. ASSUME NEW w \in Workers PROVE AdmissionIsFresh(w)'
  <2>1. AdmissionIsFresh(w)
    BY DEF FenceInvariant
  <2>2. \A q \in Runs : rec'[q].live = rec[q].live /\ rec'[q].home = rec[q].home
    BY <1>1
  <2>3. adm[w].run \subseteq Runs /\ adm[w].cands \subseteq Runs
    BY DEF FenceInvariant, TypeOK, Admission
  <2> QED BY <2>1, <2>2, <2>3 DEF AdmissionIsFresh
<1> QED BY <1>2, <1>3 DEF FenceInvariant

(* A new store call of the task, and of a client's cancel().                 *)
TaskSends(t, pc) ==
    /\ t.ph = "sent" /\ t.op # "request" /\ pc \in Calling
    /\ t.op = "put" <=> pc = "put"
    /\ pc \in {"unstart", "commit"} => t.op \in {"update", "cas"}
    /\ t.op \in {"update", "cas", "put"} => t.out \in Outcomes

(* A store call that cancel() may send at the owner.                         *)
CancelSends(c, abort) ==
    /\ c.ph = "sent"
    /\ (c.op = "request" /\ c.arg \in Actions) \/ (c.op = "update" /\ c.out \in Outcomes /\ abort # "none")

(* The step rule for one run: a calm change of its record, with its calls    *)
(* kept, finished or newly sent, preserves FenceInvariant.                   *)
LEMMA CalmStep ==
    ASSUME FenceInvariant, NEW r \in Runs, NEW rc \in Record, NEW t \in Call, NEW c \in Call,
           rec' = [rec EXCEPT ![r] = rc],
           tcall' = [tcall EXCEPT ![r] = t],
           ccall' = [ccall EXCEPT ![r] = c],
           UNCHANGED <<rows, older, up, rcall, adm>>,
           published' \in [Runs -> {"absent"} \cup Terminal], ended' \in SUBSET Runs,
           rec[r].live, Calm(rec[r], rc),
           rc.proof = rec[r].proof \/ rows[r].status \notin Active,
           \/ t = tcall[r] /\ (rc.pc = rec[r].pc \/ rec[r].pc \notin Calling)
           \/ t = NoCall
           \/ TaskSends(t, rc.pc),
           c = ccall[r] \/ c = NoCall \/ CancelSends(c, rc.abort),
           rc.pc \in Early => /\ rec[r].pc \in Early
                              /\ rc.proof = rec[r].proof \/ rc.abort # "none" \/ rc.lost,
           rc.pc = "put" => /\ rc.proof = NoOutcome /\ c.op # "update"
                            /\ rcall[r].ph \in {"idle", "signal"}
                            /\ \A w \in Workers : r \notin adm[w].cands
    PROVE  FenceInvariant'
<1>1. /\ rec \in [Runs -> Record] /\ tcall \in [Runs -> Call] /\ ccall \in [Runs -> Call]
      /\ TypeOK /\ RunInvariant(r)
  BY DEF FenceInvariant, TypeOK
<1>2. TypeOK'
  BY <1>1 DEF TypeOK
<1>3. rec'[r] = rc /\ tcall'[r] = t /\ ccall'[r] = c /\ rcall'[r] = rcall[r] /\ rows'[r] = rows[r]
  BY <1>1
<1>4. NoCall.ph = "idle" /\ NoCall.op = "none"
  BY DEF NoCall
<1>5. CallsMatch(r)'
  <2>1. CallsMatch(r)
    BY <1>1 DEF RunInvariant
  <2>2. /\ t.ph # "idle" /\ t.op \in {"update", "cas", "put"} => t.out \in Outcomes
        /\ t.ph = "done" /\ t.op = "request" => t.res \in Actions \cup {"no", "exc"}
        /\ t.op = "request" => t.arg \in Actions
        /\ t.ph # "idle" => rc.pc \in Calling
        /\ t.ph # "idle" => (t.op = "put" <=> rc.pc = "put")
        /\ t.ph # "idle" /\ rc.pc \in {"unstart", "commit"} => t.op \in {"update", "cas"}
    BY <1>4, <2>1 DEF CallsMatch, TaskSends
  <2>3. /\ c.ph # "idle" /\ c.op \in {"update", "cas", "put"} => c.out \in Outcomes
        /\ c.ph = "done" /\ c.op = "request" => c.res \in Actions \cup {"no", "exc"}
        /\ c.op = "request" => c.arg \in Actions
        /\ c.op = "update" => c.ph # "idle" /\ rc.abort # "none"
        /\ c.op \in {"none", "request", "update"}
    BY <1>4, <2>1 DEF CallsMatch, CancelSends, Calm
  <2>4. rc.live
    BY DEF Calm
  <2> QED BY <1>3, <2>2, <2>3, <2>4 DEF CallsMatch
<1>6. LeaseIsConfirmed(r)' /\ TimerIsArmed(r)'
  BY <1>1, <1>3 DEF RunInvariant, LeaseIsConfirmed, TimerIsArmed, Calm
<1>7. ProofMeansClosed(r)'
  <2>1. ProofMeansClosed(r)
    BY <1>1 DEF RunInvariant
  <2>2. t = tcall[r] \/ t.ph # "done"
    BY <1>4 DEF TaskSends
  <2>3. c = ccall[r] \/ c.ph # "done"
    BY <1>4 DEF CancelSends
  <2>4. rc.proof # NoOutcome => rows[r].status \notin Active
    BY <2>1 DEF ProofMeansClosed
  <2>5. rc.proof = NoOutcome \/ rc.proof.status \in Terminal
    BY <2>1 DEF ProofMeansClosed, Calm
  <2> QED BY <1>3, <2>1, <2>2, <2>3, <2>4, <2>5 DEF ProofMeansClosed
<1>8. SnapshotIsAlone(r)'
  BY <1>1, <1>3 DEF RunInvariant, SnapshotIsAlone, Calm
<1>9. RunInvariant(r)'
  BY <1>1, <1>3, <1>5, <1>6, <1>7, <1>8 DEF RunInvariant, Calm
<1> QED BY <1>1, <1>2, <1>9, LocalStep DEF Calm

-----------------------------------------------------------------------------
(* A calm change that leaves the proof alone.                                *)
Quiet(a, b) == Calm(a, b) /\ b.proof = a.proof

(* Moving the task position is quiet.                                        *)
LEMMA QuietPc ==
    ASSUME NEW a \in Record, NEW b \in Record, Quiet(a, b), NEW p \in Steps
    PROVE  LET c == [b EXCEPT !.pc = p]
           IN  c \in Record /\ Quiet(a, c) /\ c.pc = p
<1> DEFINE c == [b EXCEPT !.pc = p]
<1>1. c \in Record /\ c.pc = p
  BY ZenonT(40) DEF Record
<1>2. /\ c.live = b.live /\ c.home = b.home /\ c.left = b.left /\ c.lost = b.lost
      /\ c.armed = b.armed /\ c.abort = b.abort /\ c.proof = b.proof
  OBVIOUS
<1> HIDE DEF c
<1>3. Quiet(a, c)
  BY <1>2 DEF Quiet, Calm
<1> QED BY <1>1, <1>3 DEF c

(* Quiet changes compose.                                                    *)
LEMMA QuietTrans ==
    ASSUME NEW a, NEW b, NEW c, Quiet(a, b), Quiet(b, c)
    PROVE  Quiet(a, c)
BY DEF Quiet, Calm

(* What FenceInvariant says about one run.                                   *)
LEMMA RunFacts ==
    ASSUME FenceInvariant, NEW r \in Runs
    PROVE  /\ rec[r] \in Record /\ tcall[r] \in Call /\ ccall[r] \in Call /\ rcall[r] \in Renewal
           /\ rows[r] \in Row
           /\ tcall \in [Runs -> Call] /\ ccall \in [Runs -> Call]
           /\ published \in [Runs -> {"absent"} \cup Terminal] /\ ended \in SUBSET Runs
           /\ CallsMatch(r) /\ LeaseIsConfirmed(r) /\ TimerIsArmed(r) /\ ProofMeansClosed(r)
           /\ SnapshotIsAlone(r)
BY DEF FenceInvariant, TypeOK, RunInvariant

(* The step rule for an action that changes a record only.                   *)
LEMMA OnlyRecStep ==
    ASSUME FenceInvariant, NEW r \in Runs, NEW b \in Record, OnlyRec(r, b),
           rec[r].live, Quiet(rec[r], b),
           \/ b.pc = rec[r].pc
           \/ /\ rec[r].pc \notin Calling /\ b.pc # "put"
              /\ b.pc \in Early => rec[r].pc \in Early
    PROVE  FenceInvariant'
<1>1. /\ tcall' = [tcall EXCEPT ![r] = tcall[r]] /\ ccall' = [ccall EXCEPT ![r] = ccall[r]]
      /\ rec' = [rec EXCEPT ![r] = b] /\ UNCHANGED <<rows, older, up, rcall, adm>>
      /\ published' \in [Runs -> {"absent"} \cup Terminal] /\ ended' \in SUBSET Runs
  BY RunFacts DEF OnlyRec
<1>2. Calm(rec[r], b) /\ b.proof = rec[r].proof
  BY DEF Quiet
<1>3. b.pc = "put" => /\ b.proof = NoOutcome /\ ccall[r].op # "update"
                      /\ rcall[r].ph \in {"idle", "signal"}
                      /\ \A w \in Workers : r \notin adm[w].cands
  BY <1>2, RunFacts DEF SnapshotIsAlone
<1> QED BY <1>1, <1>2, <1>3, RunFacts, CalmStep

(* The step rule for an action that changes a record and ends the task's     *)
(* call.                                                                     *)
LEMMA TaskCallStep ==
    ASSUME FenceInvariant, NEW r \in Runs, NEW b \in Record, NEW t \in Call,
           RecAndTask(r, b, t),
           rec[r].live, Calm(rec[r], b),
           b.proof = rec[r].proof \/ rows[r].status \notin Active,
           t = NoCall \/ TaskSends(t, b.pc),
           b.pc # "put",
           b.pc \in Early => rec[r].pc \in Early /\ b.proof = rec[r].proof
    PROVE  FenceInvariant'
<1>1. /\ tcall' = [tcall EXCEPT ![r] = t] /\ ccall' = [ccall EXCEPT ![r] = ccall[r]]
      /\ rec' = [rec EXCEPT ![r] = b] /\ UNCHANGED <<rows, older, up, rcall, adm>>
      /\ published' \in [Runs -> {"absent"} \cup Terminal] /\ ended' \in SUBSET Runs
  BY RunFacts DEF RecAndTask
<1> QED BY <1>1, RunFacts, CalmStep

(* The step rule for an action of a client's cancel() at the owner.          *)
LEMMA CancelCallStep ==
    ASSUME FenceInvariant, NEW r \in Runs, NEW b \in Record, NEW c \in Call,
           CancelCall(r, b, c),
           rec[r].live, Calm(rec[r], b), b.pc = rec[r].pc, rec[r].pc # "put",
           b.proof = rec[r].proof \/ (rows[r].status \notin Active /\ b.abort # "none"),
           c = NoCall \/ CancelSends(c, b.abort)
    PROVE  FenceInvariant'
<1>1. /\ tcall' = [tcall EXCEPT ![r] = tcall[r]] /\ ccall' = [ccall EXCEPT ![r] = c]
      /\ rec' = [rec EXCEPT ![r] = b] /\ UNCHANGED <<rows, older, up, rcall, adm>>
      /\ published' \in [Runs -> {"absent"} \cup Terminal] /\ ended' \in SUBSET Runs
  BY RunFacts DEF CancelCall
<1> QED BY <1>1, RunFacts, CalmStep

(* A call that is sent has the type of a call.                               *)
LEMMA SendType ==
    ASSUME NEW op \in {"start", "put", "update", "cas", "request"},
           NEW out \in Outcomes \cup {NoOutcome}, NEW rev \in Nat, NEW arg \in {"none"} \cup Actions
    PROVE  /\ Send(op, out, rev, arg) \in Call
           /\ Send(op, out, rev, arg).op = op /\ Send(op, out, rev, arg).ph = "sent"
           /\ Send(op, out, rev, arg).out = out /\ Send(op, out, rev, arg).arg = arg
BY DEF Send, Call, Replies

(* While the gate is free no run of the worker writes a snapshot             *)
(* (record_assembly_evidence holds the gate).                                *)
LEMMA GateKeepsPut ==
    ASSUME NEW r \in Runs, rec[r].live, GateFree(rec[r].home)
    PROVE  rec[r].pc # "put"
BY DEF GateFree

(* The task positions that the step rules tell apart.                        *)
LEMMA StepNames ==
    /\ Steps = {"none", "wait", "start", "unstart", "build", "put", "run", "cancel", "restore",
                "final", "persist", "commit", "tail", "seal", "end", "done"}
    /\ Calling = {"start", "unstart", "put", "commit"}
    /\ Early = {"none", "wait", "start", "build"}
BY DEF Steps, Calling, Early

(* Leaving a record alone is quiet.                                          *)
LEMMA QuietSelf == ASSUME NEW a PROVE Quiet(a, a)
BY DEF Quiet, Calm

-----------------------------------------------------------------------------
(* Attach preserves FenceInvariant.                                          *)
LEMMA AttachStep ==
    ASSUME FenceInvariant, NEW r \in Runs, Attach(r) PROVE FenceInvariant'
<1> DEFINE b == [rec[r] EXCEPT !.pc = "wait", !.pending = TRUE]
<1>1. rec[r] \in Record /\ rec[r].live /\ rec[r].pc = "none" /\ OnlyRec(r, b)
  BY RunFacts DEF Attach, Alive
<1>2. b \in Record /\ b.pc = "wait"
  BY <1>1, StepNames, Zenon DEF Record
<1>3. Quiet(rec[r], b)
  BY DEF Quiet, Calm
<1> HIDE DEF b
<1> QED BY <1>1, <1>2, <1>3, OnlyRecStep, StepNames

(* A run that did not start moves on quietly to its cancellation or to       *)
(* finalize().                                                               *)
LEMMA NotStartedType ==
    ASSUME NEW a \in Record, NEW b \in Record, Calm(a, b)
    PROVE  /\ NotStarted(b) \in Record /\ Calm(a, NotStarted(b))
           /\ NotStarted(b).pc \in {"cancel", "final"} /\ NotStarted(b).proof = b.proof
<1> DEFINE p == IF b.abort # "none" THEN "cancel" ELSE "final"
<1>1. p \in Steps /\ p \in {"cancel", "final"}
  BY StepNames
<1>2. NotStarted(b) = [b EXCEPT !.pc = p]
  BY DEF NotStarted
<1>3. Quiet(b, b)
  BY QuietSelf
<1> HIDE DEF p
<1>4. /\ NotStarted(b) \in Record /\ NotStarted(b).pc = p /\ Quiet(b, NotStarted(b))
  BY <1>1, <1>2, <1>3, QuietPc
<1>5. Calm(a, NotStarted(b))
  BY <1>4 DEF Quiet, Calm
<1> QED BY <1>1, <1>4, <1>5 DEF Quiet

(* StartCheck preserves FenceInvariant.                                      *)
LEMMA StartCheckStep ==
    ASSUME FenceInvariant, NEW r \in Runs, StartCheck(r) PROVE FenceInvariant'
<1>1. rec[r] \in Record /\ rec[r].live /\ rec[r].pc = "wait"
  BY RunFacts DEF StartCheck, CanStep, Alive
<1>2. CASE OnlyRec(r, NotStarted(rec[r]))
  <2>1. /\ NotStarted(rec[r]) \in Record /\ NotStarted(rec[r]).pc \in {"cancel", "final"}
        /\ Quiet(rec[r], NotStarted(rec[r]))
    BY <1>1, NotStartedType, QuietSelf DEF Quiet
  <2> QED BY <1>1, <1>2, <2>1, OnlyRecStep, StepNames
<1>3. CASE RecAndTask(r, [rec[r] EXCEPT !.pc = "start"], Send("start", NoOutcome, 0, "none"))
  <2> DEFINE b == [rec[r] EXCEPT !.pc = "start"]
             t == Send("start", NoOutcome, 0, "none")
  <2>1. b \in Record /\ Quiet(rec[r], b) /\ b.pc = "start"
    BY <1>1, QuietPc, QuietSelf, StepNames
  <2>2. t \in Call /\ t.op = "start" /\ t.ph = "sent"
    BY SendType
  <2> HIDE DEF b, t
  <2>3. TaskSends(t, b.pc)
    BY <2>1, <2>2, StepNames DEF TaskSends
  <2>4. RecAndTask(r, b, t)
    BY <1>3 DEF b, t
  <2> QED BY <1>1, <2>1, <2>2, <2>3, <2>4, TaskCallStep, StepNames DEF Quiet
<1> QED BY <1>2, <1>3 DEF StartCheck

(* Staging a status and moving on is quiet.                                  *)
LEMMA StagedStep ==
    ASSUME NEW a \in Record, NEW status \in Terminal, NEW err \in Errors, NEW p \in Steps
    PROVE  LET b == [Stage(a, status, err) EXCEPT !.pc = p]
           IN  b \in Record /\ Quiet(a, b) /\ b.pc = p
<1>1. Stage(a, status, err) \in Record
  BY StageType
<1>2. Quiet(a, Stage(a, status, err))
  BY StageCalm DEF Quiet
<1> QED BY <1>1, <1>2, QuietPc

(* StartAck preserves FenceInvariant.                                        *)
LEMMA StartAckStep ==
    ASSUME FenceInvariant, NEW r \in Runs, StartAck(r) PROVE FenceInvariant'
<1>1. rec[r] \in Record /\ rec[r].live /\ rec[r].pc = "start"
  BY RunFacts DEF StartAck, CanStep, Alive
<1>2. NoCall \in Call
  BY Constants
<1>3. CASE RecAndTask(r, [Stage(rec[r], "error", "failed") EXCEPT !.pc = "final"], NoCall)
  <2> DEFINE b == [Stage(rec[r], "error", "failed") EXCEPT !.pc = "final"]
  <2>1. "failed" \in Errors /\ "error" \in Terminal /\ "final" \in Steps
    BY StatusNames, StepNames DEF Errors
  <2>2. b \in Record /\ Quiet(rec[r], b) /\ b.pc = "final"
    BY <1>1, <2>1, StagedStep
  <2> HIDE DEF b
  <2>3. RecAndTask(r, b, NoCall)
    BY <1>3 DEF b
  <2> QED BY <1>1, <1>2, <2>2, <2>3, TaskCallStep, StepNames DEF Quiet
<1>4. CASE RecAndTask(r,
               [rec[r] EXCEPT !.pc     = "cancel",
                              !.status = IF @ = "pending" THEN "interrupted" ELSE @,
                              !.saved  = @ /\ rec[r].status # "pending",
                              !.abort  = IF @ = "none" THEN "interrupt" ELSE @], NoCall)
  <2> DEFINE st == IF rec[r].status = "pending" THEN "interrupted" ELSE rec[r].status
             sv == rec[r].saved /\ rec[r].status # "pending"
             ab == IF rec[r].abort = "none" THEN "interrupt" ELSE rec[r].abort
             b == [rec[r] EXCEPT !.pc = "cancel", !.status = st, !.saved = sv, !.abort = ab]
  <2>1. /\ st \in Active \cup Terminal /\ sv \in BOOLEAN /\ ab \in {"none"} \cup Actions
        /\ ab # "none"
    BY <1>1, FieldTypes, StatusNames
  <2>2. RecAndTask(r, b, NoCall)
    BY <1>4
  <2>3. b \in Record /\ b.pc = "cancel" /\ b.abort = ab
    <3> HIDE DEF st, sv, ab
    <3> QED BY <1>1, <2>1, StepNames, ZenonT(40) DEF Record
  <2>4. /\ b.live = rec[r].live /\ b.home = rec[r].home /\ b.left = rec[r].left
        /\ b.lost = rec[r].lost /\ b.armed = rec[r].armed /\ b.proof = rec[r].proof
    <3> HIDE DEF st, sv, ab
    <3> QED OBVIOUS
  <2> HIDE DEF b, st, sv, ab
  <2>5. Calm(rec[r], b)
    BY <2>1, <2>3, <2>4 DEF Calm
  <2> QED BY <1>1, <1>2, <2>2, <2>3, <2>4, <2>5, TaskCallStep, StepNames
<1>5. CASE RecAndTask(r, [rec[r] EXCEPT !.pc = "build", !.status = "running", !.started = TRUE], NoCall)
  <2> DEFINE b == [rec[r] EXCEPT !.pc = "build", !.status = "running", !.started = TRUE]
  <2>1. b \in Record /\ b.pc = "build"
    BY <1>1, StepNames, StatusNames, Zenon DEF Record
  <2>2. Quiet(rec[r], b)
    BY DEF Quiet, Calm
  <2> HIDE DEF b
  <2>3. RecAndTask(r, b, NoCall)
    BY <1>5 DEF b
  <2> QED BY <1>1, <1>2, <2>1, <2>2, <2>3, TaskCallStep, StepNames DEF Quiet
<1>6. CASE RecAndTask(r, NotStarted(rec[r]), NoCall)
  <2>1. /\ NotStarted(rec[r]) \in Record /\ NotStarted(rec[r]).pc \in {"cancel", "final"}
        /\ Quiet(rec[r], NotStarted(rec[r]))
    BY <1>1, NotStartedType, QuietSelf DEF Quiet
  <2> QED BY <1>1, <1>2, <1>6, <2>1, TaskCallStep, StepNames DEF Quiet
<1>7. CASE RecAndTask(r, [rec[r] EXCEPT !.pc = "unstart",
                                        !.pending = @ \/ rec[r].status \in Terminal],
                      Send("update", OutcomeOf(rec[r]), rec[r].rev, "none"))
  <2> DEFINE pd == rec[r].pending \/ rec[r].status \in Terminal
             b == [rec[r] EXCEPT !.pc = "unstart", !.pending = pd]
             t == Send("update", OutcomeOf(rec[r]), rec[r].rev, "none")
  <2>1. RecAndTask(r, b, t)
    BY <1>7
  <2>2. b \in Record /\ b.pc = "unstart"
    <3>1. pd \in BOOLEAN
      BY <1>1, FieldTypes
    <3> HIDE DEF pd
    <3> QED BY <1>1, <3>1, StepNames, ZenonT(40) DEF Record
  <2>3. Quiet(rec[r], b)
    <3> HIDE DEF pd
    <3> QED BY DEF Quiet, Calm
  <2>4. t \in Call /\ t.op = "update" /\ t.ph = "sent" /\ t.out = OutcomeOf(rec[r])
    BY <1>1, SendType, OutcomeType, FieldTypes
  <2> HIDE DEF b, t
  <2>5. TaskSends(t, b.pc)
    BY <1>1, <2>2, <2>4, OutcomeType, StepNames DEF TaskSends
  <2> QED BY <1>1, <2>1, <2>2, <2>3, <2>4, <2>5, TaskCallStep, StepNames DEF Quiet
<1> QED BY <1>3, <1>4, <1>5, <1>6, <1>7 DEF StartAck

(* The answer to a status write: a positive terminal answer is acknowledged  *)
(* while the row is already closed, anything else leaves the record alone or *)
(* fences it.                                                                *)
LEMMA SettleFacts ==
    ASSUME FenceInvariant, NEW r \in Runs, rec[r].live, NEW c \in {tcall[r], ccall[r]},
           NEW others, NEW b, Settle(r, c, others, b),
           c.ph = "done", c.op \in {"update", "cas"}
    PROVE  /\ b \in Record /\ Calm(rec[r], b) /\ b.pc = rec[r].pc
           /\ rec[r].abort # "none" => b.abort # "none"
           /\ b.proof = rec[r].proof \/ rows[r].status \notin Active
<1>1. rec[r] \in Record /\ CallsMatch(r) /\ ProofMeansClosed(r)
  BY RunFacts
<1>2. c.out \in Outcomes
  BY <1>1 DEF CallsMatch
<1>3. CASE c.res = "ok" /\ c.out.status \in Terminal /\ b = Acknowledge(rec[r], c.out, c.rev)
  <2>1. rows[r].status \notin Active
    BY <1>1, <1>3 DEF ProofMeansClosed
  <2>2. rec[r].proof = NoOutcome \/ rec[r].proof.status \in Terminal
    BY <1>1 DEF ProofMeansClosed
  <2>3. b \in Record
    BY <1>1, <1>2, <1>3, AcknowledgeType
  <2>4. Calm(rec[r], b) /\ b.pc = rec[r].pc /\ b.abort = rec[r].abort
    BY <1>1, <1>2, <1>3, <2>2, AcknowledgeCalm
  <2> QED BY <2>1, <2>3, <2>4
<1>4. CASE b = rec[r]
  BY <1>1, <1>4, QuietSelf DEF Quiet
<1>5. CASE b = Fence(rec[r])
  <2>1. b \in Record /\ Calm(rec[r], b) /\ b.proof = rec[r].proof /\ b.pc = rec[r].pc
    BY <1>1, <1>5, FenceType, FenceCalm
  <2> QED BY <2>1 DEF Calm
<1> QED BY <1>3, <1>4, <1>5 DEF Settle

(* UnstartAck preserves FenceInvariant.                                      *)
LEMMA UnstartAckStep ==
    ASSUME FenceInvariant, NEW r \in Runs, UnstartAck(r) PROVE FenceInvariant'
<1>1. /\ rec[r] \in Record /\ rec[r].live /\ rec[r].pc = "unstart" /\ tcall[r].ph = "done"
      /\ CallsMatch(r) /\ NoCall \in Call
  BY RunFacts, Constants DEF UnstartAck, Alive
<1>2. tcall[r].op \in {"update", "cas"}
  BY <1>1 DEF CallsMatch
<1>3. PICK b : /\ Settle(r, tcall[r], CancelAttempt(r) \/ AdmissionAttempt(r), b)
               /\ RecAndTask(r, NotStarted(b), NoCall)
  BY DEF UnstartAck
<1>4. b \in Record /\ Calm(rec[r], b) /\ (b.proof = rec[r].proof \/ rows[r].status \notin Active)
  BY <1>1, <1>2, <1>3, SettleFacts
<1>5. /\ NotStarted(b) \in Record /\ Calm(rec[r], NotStarted(b))
      /\ NotStarted(b).pc \in {"cancel", "final"} /\ NotStarted(b).proof = b.proof
  BY <1>1, <1>4, NotStartedType
<1> QED BY <1>1, <1>3, <1>4, <1>5, TaskCallStep, StepNames

(* SkipEvidence preserves FenceInvariant.                                    *)
LEMMA SkipEvidenceStep ==
    ASSUME FenceInvariant, NEW r \in Runs, SkipEvidence(r) PROVE FenceInvariant'
<1> DEFINE b == [rec[r] EXCEPT !.pc = "run"]
<1>1. rec[r] \in Record /\ rec[r].live /\ rec[r].pc = "build" /\ OnlyRec(r, b)
  BY RunFacts DEF SkipEvidence, Alive
<1>2. b \in Record /\ Quiet(rec[r], b) /\ b.pc = "run"
  BY <1>1, QuietPc, QuietSelf, StepNames
<1> HIDE DEF b
<1> QED BY <1>1, <1>2, OnlyRecStep, StepNames

(* PutBegin preserves FenceInvariant.                                        *)
LEMMA PutBeginStep ==
    ASSUME FenceInvariant, NEW r \in Runs, PutBegin(r) PROVE FenceInvariant'
<1> DEFINE b == [rec[r] EXCEPT !.pc = "put"]
           out == [status |-> rec[r].status, err |-> ""]
           t == Send("put", out, rec[r].rev, "none")
<1>1. /\ rec[r] \in Record /\ rec[r].live /\ ~rec[r].lost /\ rec[r].abort = "none"
      /\ rec[r].pc = "build" /\ GateFree(rec[r].home) /\ rcall[r].ph \in {"idle", "signal"}
      /\ CallsMatch(r) /\ SnapshotIsAlone(r) /\ RecAndTask(r, b, t)
  BY Zenon, RunFacts DEF PutBegin, CanStep, Alive
<1>2. b \in Record /\ Quiet(rec[r], b) /\ b.pc = "put"
  <2>1. rec[r] \in Record /\ Quiet(rec[r], rec[r]) /\ "put" \in Steps
    BY Zenon, <1>1, QuietSelf, StepNames
  <2> QED BY <2>1, QuietPc
<1>3. t \in Call /\ t.op = "put" /\ t.ph = "sent" /\ t.out = out /\ out \in Outcomes
  <2>1. out \in Outcomes
    BY Zenon, <1>1, FieldTypes DEF Outcomes, Errors
  <2>2. rec[r].rev \in Nat
    BY Zenon, <1>1, FieldTypes
  <2> HIDE DEF out
  <2> QED BY <2>1, <2>2, SendType
<1>4. rec[r].proof = NoOutcome
  BY Zenon, <1>1, StepNames DEF SnapshotIsAlone
<1>5. ccall[r].op # "update"
  BY Zenon, <1>1 DEF CallsMatch
<1>6. ASSUME NEW w \in Workers, r \in adm[w].cands PROVE FALSE
  <2>1. AdmissionIsFresh(w)
    BY DEF FenceInvariant
  <2>2. rec[r].home = w
    BY <1>6, <2>1 DEF AdmissionIsFresh
  <2>3. adm[w] = NoAdmission
    BY Zenon, <1>1, <2>1, <2>2 DEF AdmissionIsFresh, GateFree
  <2> QED BY <1>6, <2>3 DEF NoAdmission
<1> HIDE DEF b, out, t
<1>7. TaskSends(t, b.pc)
  BY <1>2, <1>3, StepNames DEF TaskSends
<1>8. /\ tcall' = [tcall EXCEPT ![r] = t] /\ ccall' = [ccall EXCEPT ![r] = ccall[r]]
      /\ rec' = [rec EXCEPT ![r] = b] /\ UNCHANGED <<rows, older, up, rcall, adm>>
      /\ published' \in [Runs -> {"absent"} \cup Terminal] /\ ended' \in SUBSET Runs
      /\ ccall[r] \in Call
  BY <1>1, RunFacts DEF RecAndTask
<1> QED BY <1>1, <1>2, <1>3, <1>4, <1>5, <1>6, <1>7, <1>8, CalmStep, StepNames DEF Quiet

(* PutAck preserves FenceInvariant.                                          *)
LEMMA PutAckStep ==
    ASSUME FenceInvariant, NEW r \in Runs, PutAck(r) PROVE FenceInvariant'
<1>1. rec[r] \in Record /\ rec[r].live /\ rec[r].pc = "put" /\ NoCall \in Call
  BY RunFacts, Constants DEF PutAck, Alive
<1>2. CASE RecAndTask(r, [rec[r] EXCEPT !.pc = "run"], NoCall)
  <2> DEFINE b == [rec[r] EXCEPT !.pc = "run"]
  <2>1. b \in Record /\ Quiet(rec[r], b) /\ b.pc = "run"
    BY <1>1, QuietPc, QuietSelf, StepNames
  <2> HIDE DEF b
  <2>2. RecAndTask(r, b, NoCall)
    BY <1>2 DEF b
  <2> QED BY <1>1, <2>1, <2>2, TaskCallStep, StepNames DEF Quiet
<1>3. CASE RecAndTask(r, [Stage(rec[r], "error", "failed") EXCEPT !.pc = "final"], NoCall)
  <2> DEFINE b == [Stage(rec[r], "error", "failed") EXCEPT !.pc = "final"]
  <2>1. "failed" \in Errors /\ "error" \in Terminal /\ "final" \in Steps
    BY StatusNames, StepNames DEF Errors
  <2>2. b \in Record /\ Quiet(rec[r], b) /\ b.pc = "final"
    BY <1>1, <2>1, StagedStep
  <2> HIDE DEF b
  <2>3. RecAndTask(r, b, NoCall)
    BY <1>3 DEF b
  <2> QED BY <1>1, <2>2, <2>3, TaskCallStep, StepNames DEF Quiet
<1> QED BY <1>2, <1>3 DEF PutAck

(* Finish preserves FenceInvariant.                                          *)
LEMMA FinishStep ==
    ASSUME FenceInvariant, NEW r \in Runs, NEW status \in {"success", "error"}, Finish(r, status)
    PROVE  FenceInvariant'
<1> DEFINE err == IF status = "error" THEN "failed" ELSE ""
           b == [Stage(rec[r], status, err) EXCEPT !.pc = "final"]
<1>1. rec[r] \in Record /\ rec[r].live /\ rec[r].pc = "run" /\ OnlyRec(r, b)
  BY Zenon, RunFacts DEF Finish, CanStep, Alive
<1>2. err \in Errors /\ status \in Terminal /\ "final" \in Steps
  BY StatusNames, StepNames DEF Errors
<1> HIDE DEF err
<1>3. b \in Record /\ Quiet(rec[r], b) /\ b.pc = "final"
  BY <1>1, <1>2, StagedStep
<1> HIDE DEF b
<1> QED BY <1>1, <1>3, OnlyRecStep, StepNames

(* FailRun preserves FenceInvariant.                                         *)
LEMMA FailRunStep ==
    ASSUME FenceInvariant, NEW r \in Runs, FailRun(r) PROVE FenceInvariant'
<1> DEFINE b == [Stage(rec[r], "error", "failed") EXCEPT !.pc = "final"]
<1>1. rec[r] \in Record /\ rec[r].live /\ rec[r].pc \in {"build", "run"} /\ OnlyRec(r, b)
  BY RunFacts DEF FailRun, CanStep, Alive
<1>2. "failed" \in Errors /\ "error" \in Terminal /\ "final" \in Steps
  BY StatusNames, StepNames DEF Errors
<1>3. b \in Record /\ Quiet(rec[r], b) /\ b.pc = "final"
  BY <1>1, <1>2, StagedStep
<1> HIDE DEF b
<1> QED BY <1>1, <1>3, OnlyRecStep, StepNames

(* Interrupted preserves FenceInvariant.                                     *)
LEMMA InterruptedStep ==
    ASSUME FenceInvariant, NEW r \in Runs, Interrupted(r) PROVE FenceInvariant'
<1> DEFINE b == [rec[r] EXCEPT !.pc = "cancel"]
<1>1. rec[r] \in Record /\ rec[r].live /\ rec[r].pc \in {"build", "run"} /\ OnlyRec(r, b)
  BY RunFacts DEF Interrupted, Alive
<1>2. b \in Record /\ Quiet(rec[r], b) /\ b.pc = "cancel"
  BY <1>1, QuietPc, QuietSelf, StepNames
<1> HIDE DEF b
<1> QED BY <1>1, <1>2, OnlyRecStep, StepNames

(* Fenced preserves FenceInvariant.                                          *)
LEMMA FencedStep ==
    ASSUME FenceInvariant, NEW r \in Runs, Fenced(r) PROVE FenceInvariant'
<1> DEFINE b == [rec[r] EXCEPT !.pc = "tail"]
<1>1. rec[r] \in Record /\ rec[r].live /\ RecAndTask(r, b, NoCall) /\ NoCall \in Call
  BY RunFacts, Constants DEF Fenced, Alive
<1>2. b \in Record /\ Quiet(rec[r], b) /\ b.pc = "tail"
  BY <1>1, QuietPc, QuietSelf, StepNames
<1> HIDE DEF b
<1> QED BY <1>1, <1>2, TaskCallStep, StepNames DEF Quiet

(* FinishCancellation preserves FenceInvariant.                              *)
LEMMA FinishCancellationStep ==
    ASSUME FenceInvariant, NEW r \in Runs, FinishCancellation(r) PROVE FenceInvariant'
<1>1. rec[r] \in Record /\ rec[r].live /\ rec[r].pc = "cancel"
  BY Zenon, RunFacts DEF FinishCancellation, CanStep, Alive
<1> DEFINE rc == [rec[r] EXCEPT !.finalizing = TRUE]
           nx == IF rc.stage = 0 THEN "final" ELSE "persist"
           px == IF rc.started THEN "restore" ELSE nx
           rb == [rc EXCEPT !.rollback = TRUE]
<1>2. rc \in Record /\ Quiet(rec[r], rc)
  <2>1. rc \in Record
    BY <1>1, Zenon DEF Record
  <2>2. Quiet(rec[r], rc)
    BY DEF Quiet, Calm
  <2> QED BY <2>1, <2>2
<1>3. /\ nx \in Steps /\ nx \in {"final", "persist"}
      /\ px \in Steps /\ px \in {"final", "persist", "restore"}
  BY StepNames
<1>4. rb \in Record /\ Quiet(rec[r], rb)
  <2> HIDE DEF rc
  <2>1. rb \in Record
    BY <1>2, Zenon DEF Record
  <2>2. Quiet(rc, rb)
    BY DEF Quiet, Calm
  <2> QED BY <1>2, <2>1, <2>2, QuietTrans
<1>5. PICK text \in Errors :
        IF rc.abort = "rollback"
        THEN OnlyRec(r, [Stage(rb, "error", "rolledback") EXCEPT !.pc = px])
        ELSE OnlyRec(r, [Stage(rc, "interrupted", text) EXCEPT !.pc = nx])
  BY Zenon DEF FinishCancellation, Errors
<1>6. /\ text \in Errors /\ "rolledback" \in Errors
      /\ "error" \in Terminal /\ "interrupted" \in Terminal
  BY Zenon, StatusNames DEF Errors
<1> HIDE DEF rc, nx, px, rb
<1>7. CASE OnlyRec(r, [Stage(rb, "error", "rolledback") EXCEPT !.pc = px])
  <2> DEFINE b == [Stage(rb, "error", "rolledback") EXCEPT !.pc = px]
  <2>1. b \in Record /\ Quiet(rb, b) /\ b.pc = px
    <3>1. /\ rb \in Record /\ px \in Steps
          /\ "error" \in Terminal /\ "rolledback" \in Errors
      BY <1>3, <1>4, <1>6
    <3> QED BY <3>1, StagedStep
  <2>2. OnlyRec(r, b)
    BY <1>7
  <2> HIDE DEF b
  <2>3. Quiet(rec[r], b)
    BY <1>4, <2>1, QuietTrans
  <2> QED BY <1>1, <1>3, <2>1, <2>2, <2>3, OnlyRecStep, StepNames
<1>8. CASE OnlyRec(r, [Stage(rc, "interrupted", text) EXCEPT !.pc = nx])
  <2> DEFINE b == [Stage(rc, "interrupted", text) EXCEPT !.pc = nx]
  <2>1. b \in Record /\ Quiet(rc, b) /\ b.pc = nx
    <3>1. rc \in Record /\ nx \in Steps /\ "interrupted" \in Terminal /\ text \in Errors
      BY <1>2, <1>3, <1>6
    <3> QED BY <3>1, StagedStep
  <2>2. OnlyRec(r, b)
    BY <1>8
  <2> HIDE DEF b
  <2>3. Quiet(rec[r], b)
    BY <1>2, <2>1, QuietTrans
  <2> QED BY <1>1, <1>3, <2>1, <2>2, <2>3, OnlyRecStep, StepNames
<1> QED BY <1>5, <1>7, <1>8

(* Restore preserves FenceInvariant.                                         *)
LEMMA RestoreStep ==
    ASSUME FenceInvariant, NEW r \in Runs, Restore(r) PROVE FenceInvariant'
<1> DEFINE p == IF rec[r].stage = 0 THEN "final" ELSE "persist"
           b == [rec[r] EXCEPT !.pc = p]
<1>1. rec[r] \in Record /\ rec[r].live /\ rec[r].pc = "restore" /\ OnlyRec(r, b)
  BY RunFacts DEF Restore, Alive
<1>2. p \in Steps /\ p \in {"final", "persist"} /\ Quiet(rec[r], rec[r])
  BY StepNames, QuietSelf
<1> HIDE DEF p
<1>3. b \in Record /\ Quiet(rec[r], b) /\ b.pc = p
  BY <1>1, <1>2, QuietPc
<1> HIDE DEF b
<1> QED BY <1>1, <1>2, <1>3, OnlyRecStep, StepNames

(* ReceiptLost preserves FenceInvariant.                                     *)
LEMMA ReceiptLostStep ==
    ASSUME FenceInvariant, NEW r \in Runs, ReceiptLost(r) PROVE FenceInvariant'
<1> DEFINE b == Stage(rec[r], "error", "failed")
<1>1. rec[r] \in Record /\ rec[r].live /\ OnlyRec(r, b)
  BY RunFacts DEF ReceiptLost, CanStep, Alive
<1>2. "failed" \in Errors /\ "error" \in Terminal
  BY StatusNames DEF Errors
<1>3. b \in Record /\ Quiet(rec[r], b) /\ b.pc = rec[r].pc
  BY <1>1, <1>2, StageType, StageCalm DEF Quiet
<1> HIDE DEF b
<1> QED BY <1>1, <1>3, OnlyRecStep

(* Raising the commit barrier before a terminal write keeps the record type. *)
LEMMA CommitRecord ==
    ASSUME NEW a \in Record
    PROVE  LET b == [a EXCEPT !.pc = "commit", !.pending = TRUE]
           IN  b \in Record /\ b.pc = "commit" /\ Quiet(a, b)
<1> DEFINE b == [a EXCEPT !.pc = "commit", !.pending = TRUE]
<1>1. b \in Record /\ b.pc = "commit"
  BY StepNames, Zenon DEF Record
<1>2. Quiet(a, b)
  BY DEF Quiet, Calm
<1> QED BY <1>1, <1>2

(* Sending a terminal write from finalize() preserves the invariant.         *)
LEMMA CommitSent ==
    ASSUME FenceInvariant, NEW r \in Runs, NEW a \in Record, rec[r].live, Quiet(rec[r], a),
           NEW op \in {"update", "cas"},
           RecAndTask(r, [a EXCEPT !.pc = "commit", !.pending = TRUE],
                      Send(op, OutcomeOf(a), a.rev, "none"))
    PROVE  FenceInvariant'
<1> DEFINE b == [a EXCEPT !.pc = "commit", !.pending = TRUE]
           t == Send(op, OutcomeOf(a), a.rev, "none")
<1>1. b \in Record /\ b.pc = "commit" /\ Quiet(a, b)
  BY Zenon, CommitRecord
<1>2. Quiet(a, b)
  BY <1>1
<1>3. a.rev \in Nat /\ OutcomeOf(a) \in Outcomes
  BY FieldTypes, OutcomeType
<1>4. t \in Call /\ t.op = op /\ t.ph = "sent" /\ t.out = OutcomeOf(a)
  BY <1>3, SendType
<1>5. RecAndTask(r, b, t)
  OBVIOUS
<1> HIDE DEF b, t
<1>6. TaskSends(t, b.pc)
  BY <1>1, <1>3, <1>4, StepNames DEF TaskSends
<1>7. Quiet(rec[r], b)
  BY <1>2, QuietTrans
<1> QED BY <1>1, <1>4, <1>5, <1>6, <1>7, TaskCallStep, StepNames DEF Quiet

(* Arbitrate preserves FenceInvariant.                                       *)
LEMMA ArbitrateStep ==
    ASSUME FenceInvariant, NEW r \in Runs, Arbitrate(r) PROVE FenceInvariant'
<1> DEFINE a == [rec[r] EXCEPT !.stage = 1]
           p == IF a.status = "success" THEN "cancel" ELSE "persist"
<1>1. rec[r] \in Record /\ rec[r].live /\ rec[r].pc = "final"
  BY RunFacts DEF Arbitrate, CanStep, Alive
<1>2. a \in Record /\ Quiet(rec[r], a)
  <2>1. 1 \in 0 .. 2
    OBVIOUS
  <2>2. a \in Record
    BY <1>1, <2>1, Zenon DEF Record
  <2>3. Quiet(rec[r], a)
    BY DEF Quiet, Calm
  <2> QED BY <2>2, <2>3
<1>3. \/ OnlyRec(r, [a EXCEPT !.pc = p])
      \/ OnlyRec(r, [a EXCEPT !.pc = "tail"])
      \/ RecAndTask(r, [a EXCEPT !.pc = "commit", !.pending = TRUE],
                    Send("cas", OutcomeOf(a), a.rev, "none"))
  BY DEF Arbitrate
<1>4. p \in {"cancel", "persist"}
  OBVIOUS
<1> HIDE DEF a, p
<1>5. ASSUME NEW s \in {"cancel", "persist", "tail"}, OnlyRec(r, [a EXCEPT !.pc = s])
      PROVE  FenceInvariant'
  <2> DEFINE b == [a EXCEPT !.pc = s]
  <2>1. s \in Steps
    BY StepNames
  <2>2. b \in Record /\ Quiet(rec[r], b) /\ b.pc = s
    BY <1>1, <1>2, <2>1, QuietPc
  <2>3. OnlyRec(r, b)
    BY <1>5
  <2> HIDE DEF b
  <2> QED BY <1>1, <2>2, <2>3, OnlyRecStep, StepNames
<1> QED BY Zenon, <1>1, <1>2, <1>3, <1>4, <1>5, CommitSent

(* finalize() goes on to its tail or to the terminal event.                  *)
LEMMA AfterCommitStep ==
    ASSUME NEW a \in Record PROVE AfterCommit(a) \in {"seal", "tail"}
BY DEF AfterCommit

(* PersistBegin preserves FenceInvariant.                                    *)
LEMMA PersistBeginStep ==
    ASSUME FenceInvariant, NEW r \in Runs, PersistBegin(r) PROVE FenceInvariant'
<1> DEFINE a == rec[r]
           f == FinalAck(a)
           p == AfterCommit(a)
           b == [a EXCEPT !.saved = f, !.pc = p]
<1>1. a \in Record /\ a.live /\ a.pc = "persist"
  BY RunFacts DEF PersistBegin, CanStep, Alive
<1>2. \/ OnlyRec(r, b)
      \/ RecAndTask(r, [a EXCEPT !.pc = "commit", !.pending = TRUE],
                    Send("update", OutcomeOf(a), a.rev, "none"))
  BY DEF PersistBegin
<1>3. CASE OnlyRec(r, b)
  <2>1. f \in BOOLEAN /\ p \in Steps /\ p \in {"seal", "tail"}
    BY <1>1, AckBoolean, AfterCommitStep, StepNames
  <2> HIDE DEF f, p
  <2>2. b \in Record /\ b.pc = p
    BY <1>1, <2>1, Zenon DEF Record
  <2>3. Quiet(rec[r], b)
    BY DEF Quiet, Calm
  <2> HIDE DEF b
  <2> QED BY <1>1, <1>3, <2>1, <2>2, <2>3, OnlyRecStep, StepNames
<1>4. CASE RecAndTask(r, [a EXCEPT !.pc = "commit", !.pending = TRUE],
                      Send("update", OutcomeOf(a), a.rev, "none"))
  BY Zenon, <1>1, <1>4, CommitSent, QuietSelf
<1> QED BY <1>2, <1>3, <1>4

(* CommitAck preserves FenceInvariant.                                       *)
LEMMA CommitAckStep ==
    ASSUME FenceInvariant, NEW r \in Runs, CommitAck(r) PROVE FenceInvariant'
<1>1. /\ rec[r] \in Record /\ rec[r].live /\ rec[r].pc = "commit" /\ tcall[r].ph = "done"
      /\ CallsMatch(r) /\ NoCall \in Call
  BY RunFacts, Constants DEF CommitAck, Alive
<1>2. tcall[r].op \in {"update", "cas"}
  BY <1>1 DEF CallsMatch
<1>3. CASE /\ tcall[r].res \in Actions
           /\ RecAndTask(r, [rec[r] EXCEPT !.abort = tcall[r].res, !.pc = "cancel"], NoCall)
  <2> DEFINE ab == tcall[r].res
             b == [rec[r] EXCEPT !.abort = ab, !.pc = "cancel"]
  <2>1. RecAndTask(r, b, NoCall)
    BY <1>3
  <2>2. ab \in {"none"} \cup Actions /\ ab # "none"
    BY <1>3, StatusNames
  <2> HIDE DEF ab
  <2>3. b \in Record /\ b.pc = "cancel" /\ b.abort = ab
    BY <1>1, <2>2, StepNames, Zenon DEF Record
  <2>4. /\ b.live = rec[r].live /\ b.home = rec[r].home /\ b.left = rec[r].left
        /\ b.lost = rec[r].lost /\ b.armed = rec[r].armed /\ b.proof = rec[r].proof
    OBVIOUS
  <2> HIDE DEF b
  <2>5. Calm(rec[r], b)
    BY <2>2, <2>3, <2>4 DEF Calm
  <2> QED BY <1>1, <2>1, <2>3, <2>4, <2>5, TaskCallStep, StepNames
<1>4. CASE \E rc : /\ Settle(r, tcall[r], CancelAttempt(r) \/ AdmissionAttempt(r), rc)
                   /\ RecAndTask(r, [rc EXCEPT !.pc = AfterCommit(rc), !.saved = FinalAck(rc)], NoCall)
  <2>1. PICK rc : /\ Settle(r, tcall[r], CancelAttempt(r) \/ AdmissionAttempt(r), rc)
                  /\ RecAndTask(r, [rc EXCEPT !.pc = AfterCommit(rc), !.saved = FinalAck(rc)], NoCall)
    BY Zenon, <1>4
  <2>2. rc \in Record /\ Calm(rec[r], rc) /\ (rc.proof = rec[r].proof \/ rows[r].status \notin Active)
    BY <1>1, <1>2, <2>1, SettleFacts
  <2> DEFINE p == AfterCommit(rc)
             f == FinalAck(rc)
             b == [rc EXCEPT !.pc = p, !.saved = f]
  <2>3. f \in BOOLEAN /\ p \in Steps /\ p \in {"seal", "tail"}
    BY <2>2, AckBoolean, AfterCommitStep, StepNames
  <2>4. RecAndTask(r, b, NoCall)
    BY <2>1
  <2> HIDE DEF p, f
  <2>5. b \in Record /\ b.pc = p
    BY <2>2, <2>3, Zenon DEF Record
  <2>6. Quiet(rc, b)
    BY DEF Quiet, Calm
  <2> HIDE DEF b
  <2>7. Calm(rec[r], b) /\ b.proof = rc.proof
    BY <2>2, <2>6 DEF Quiet, Calm
  <2> QED BY <1>1, <2>2, <2>3, <2>4, <2>5, <2>7, TaskCallStep, StepNames
<1> QED BY Zenon, <1>3, <1>4 DEF CommitAck

(* Tail preserves FenceInvariant.                                            *)
LEMMA TailStep ==
    ASSUME FenceInvariant, NEW r \in Runs, Tail(r) PROVE FenceInvariant'
<1> DEFINE pd == rec[r].pending /\ ~(rec[r].lost \/ FinalAck(rec[r]))
           a == [rec[r] EXCEPT !.pending = pd]
<1>1. rec[r] \in Record /\ rec[r].live /\ rec[r].pc = "tail"
  BY RunFacts DEF Tail, CanStep, Alive
<1>2. \/ OnlyRec(r, [a EXCEPT !.pc = "persist", !.stage = 2])
      \/ OnlyRec(r, [a EXCEPT !.pc = "seal"])
  BY DEF Tail
<1>3. a \in Record /\ Quiet(rec[r], a)
  <2>1. pd \in BOOLEAN
    BY <1>1, FieldTypes, AckBoolean
  <2> HIDE DEF pd
  <2>2. a \in Record
    BY <1>1, <2>1, Zenon DEF Record
  <2>3. Quiet(rec[r], a)
    BY DEF Quiet, Calm
  <2> QED BY <2>2, <2>3
<1> HIDE DEF a
<1>4. CASE OnlyRec(r, [a EXCEPT !.pc = "persist", !.stage = 2])
  <2> DEFINE b == [a EXCEPT !.pc = "persist", !.stage = 2]
  <2>1. 2 \in 0 .. 2
    OBVIOUS
  <2>2. b \in Record /\ b.pc = "persist"
    BY <1>3, <2>1, StepNames, Zenon DEF Record
  <2>3. Quiet(a, b)
    BY DEF Quiet, Calm
  <2>4. OnlyRec(r, b)
    BY <1>4
  <2> HIDE DEF b
  <2>5. Quiet(rec[r], b)
    BY <1>3, <2>3, QuietTrans
  <2> QED BY <1>1, <2>2, <2>4, <2>5, OnlyRecStep, StepNames
<1>5. CASE OnlyRec(r, [a EXCEPT !.pc = "seal"])
  <2> DEFINE b == [a EXCEPT !.pc = "seal"]
  <2>1. b \in Record /\ Quiet(rec[r], b) /\ b.pc = "seal"
    BY <1>1, <1>3, QuietPc, StepNames
  <2>2. OnlyRec(r, b)
    BY <1>5
  <2> HIDE DEF b
  <2> QED BY <1>1, <2>1, <2>2, OnlyRecStep, StepNames
<1> QED BY <1>2, <1>4, <1>5

(* Seal preserves FenceInvariant.                                            *)
LEMMA SealStep ==
    ASSUME FenceInvariant, NEW r \in Runs, Seal(r) PROVE FenceInvariant'
<1> DEFINE b == [rec[r] EXCEPT !.pc = "end"]
           s == IF MayPublish(rec[r]) THEN rec[r].status ELSE published[r]
<1>1. /\ rec[r] \in Record /\ rec[r].live /\ rec[r].pc = "seal"
      /\ rec \in [Runs -> Record] /\ published \in [Runs -> {"absent"} \cup Terminal]
  BY RunFacts DEF Seal, Alive, FenceInvariant, TypeOK
<1>2. b \in Record /\ Quiet(rec[r], b) /\ b.pc = "end"
  BY <1>1, QuietPc, QuietSelf, StepNames
<1>3. s \in {"absent"} \cup Terminal
  BY <1>1 DEF MayPublish
<1>4. rec' = [rec EXCEPT ![r] = b] /\ published' = [published EXCEPT ![r] = s]
  BY DEF Seal
<1> HIDE DEF b, s
<1>5. published' \in [Runs -> {"absent"} \cup Terminal]
  BY <1>1, <1>3, <1>4
<1>6. /\ tcall' = [tcall EXCEPT ![r] = tcall[r]] /\ ccall' = [ccall EXCEPT ![r] = ccall[r]]
      /\ UNCHANGED <<rows, older, up, rcall, adm>> /\ ended' \in SUBSET Runs
      /\ tcall[r] \in Call /\ ccall[r] \in Call
  BY RunFacts DEF Seal
<1> QED BY <1>1, <1>2, <1>4, <1>5, <1>6, CalmStep, StepNames DEF Quiet

(* End preserves FenceInvariant.                                             *)
LEMMA EndStep ==
    ASSUME FenceInvariant, NEW r \in Runs, End(r) PROVE FenceInvariant'
<1> DEFINE b == [rec[r] EXCEPT !.finalizing = FALSE, !.pc = "done"]
<1>1. rec[r] \in Record /\ rec[r].live /\ rec[r].pc = "end"
  BY RunFacts DEF End, CanStep, Alive
<1>2. b \in Record /\ b.pc = "done"
  BY <1>1, StepNames, Zenon DEF Record
<1>3. Quiet(rec[r], b)
  BY DEF Quiet, Calm
<1>4. rec' = [rec EXCEPT ![r] = b]
  BY DEF End
<1>5. /\ tcall' = [tcall EXCEPT ![r] = tcall[r]] /\ ccall' = [ccall EXCEPT ![r] = ccall[r]]
      /\ UNCHANGED <<rows, older, up, rcall, adm>> /\ ended' \in SUBSET Runs
      /\ published' \in [Runs -> {"absent"} \cup Terminal]
      /\ tcall[r] \in Call /\ ccall[r] \in Call
  BY RunFacts DEF End
<1> HIDE DEF b
<1> QED BY <1>1, <1>2, <1>3, <1>4, <1>5, CalmStep, StepNames DEF Quiet

(* Deadline preserves FenceInvariant.                                        *)
LEMMA DeadlineStep ==
    ASSUME FenceInvariant, NEW r \in Runs, Deadline(r) PROVE FenceInvariant'
<1> DEFINE f == Fence(rec[r])
           b == [f EXCEPT !.armed = FALSE]
<1>1. rec[r] \in Record /\ rec[r].live /\ OnlyRec(r, b)
  BY RunFacts DEF Deadline, Alive
<1>2. /\ f \in Record /\ Calm(rec[r], f) /\ f.proof = rec[r].proof /\ f.pc = rec[r].pc
      /\ f.lost \/ FinalAck(rec[r])
  BY <1>1, FenceType, FenceCalm
<1>3. f.lost \/ f.proof # NoOutcome
  BY <1>1, <1>2, FinalAckHasProof
<1> HIDE DEF f
<1>4. b \in Record /\ ~b.armed
  BY <1>2, Zenon DEF Record
<1>5. /\ b.live = f.live /\ b.home = f.home /\ b.left = f.left /\ b.lost = f.lost
      /\ b.abort = f.abort /\ b.proof = f.proof /\ b.pc = f.pc
  OBVIOUS
<1> HIDE DEF b
<1>6. Quiet(rec[r], b)
  BY <1>2, <1>3, <1>4, <1>5 DEF Quiet, Calm
<1> QED BY <1>1, <1>2, <1>4, <1>5, <1>6, OnlyRecStep

-----------------------------------------------------------------------------
(* CancelBegin preserves FenceInvariant.                                     *)
LEMMA CancelBeginStep ==
    ASSUME FenceInvariant, NEW r \in Runs, NEW action \in Requests, CancelBegin(r, action)
    PROVE  FenceInvariant'
<1> DEFINE c == Send("request", NoOutcome, 0, action)
<1>1. rec[r] \in Record /\ rec[r].live /\ rec[r].pc # "put" /\ CancelCall(r, rec[r], c)
  BY RunFacts, GateKeepsPut DEF CancelBegin, Alive
<1>2. action \in Actions
  BY OwnershipAssumption DEF OwnershipAssumption
<1>3. c \in Call /\ c.op = "request" /\ c.ph = "sent" /\ c.arg = action
  <2>1. /\ "request" \in {"start", "put", "update", "cas", "request"} /\ 0 \in Nat
        /\ NoOutcome \in Outcomes \cup {NoOutcome} /\ action \in {"none"} \cup Actions
    BY <1>2
  <2> QED BY <2>1, SendType
<1> HIDE DEF c
<1> QED BY <1>1, <1>2, <1>3, CancelCallStep, QuietSelf DEF Quiet, CancelSends

(* cancel() aborts the local run and stages interrupted: a calm change.      *)
LEMMA CancelledRecord ==
    ASSUME NEW a \in Record, NEW action \in Actions
    PROVE  LET x == [Abort(a, action) EXCEPT !.status = "interrupted", !.saved = FALSE]
               b == [x EXCEPT !.pending = TRUE]
           IN  /\ x \in Record /\ b \in Record
               /\ Calm(a, b) /\ b.proof = a.proof /\ b.pc = a.pc /\ b.abort = action
<1> DEFINE y == Abort(a, action)
           x == [y EXCEPT !.status = "interrupted", !.saved = FALSE]
           b == [x EXCEPT !.pending = TRUE]
<1>1. /\ y \in Record /\ Calm(a, y) /\ y.proof = a.proof /\ y.pc = a.pc /\ y.abort = action
  BY AbortType, AbortCalm
<1> HIDE DEF y
<1>2. x \in Record
  BY <1>1, StatusNames, Zenon DEF Record
<1>3. /\ x.live = y.live /\ x.home = y.home /\ x.left = y.left /\ x.lost = y.lost
      /\ x.armed = y.armed /\ x.abort = y.abort /\ x.proof = y.proof /\ x.pc = y.pc
  OBVIOUS
<1> HIDE DEF x
<1>4. b \in Record
  BY <1>2, Zenon DEF Record
<1>5. /\ b.live = x.live /\ b.home = x.home /\ b.left = x.left /\ b.lost = x.lost
      /\ b.armed = x.armed /\ b.abort = x.abort /\ b.proof = x.proof /\ b.pc = x.pc
  OBVIOUS
<1> HIDE DEF b
<1>6. Calm(a, b) /\ b.proof = a.proof /\ b.pc = a.pc /\ b.abort = action
  BY <1>1, <1>3, <1>5 DEF Calm
<1> QED BY <1>2, <1>4, <1>6 DEF b, x, y

(* CancelApply preserves FenceInvariant.                                     *)
LEMMA CancelApplyStep ==
    ASSUME FenceInvariant, NEW r \in Runs, CancelApply(r) PROVE FenceInvariant'
<1> DEFINE action == IF ccall[r].res = "exc" THEN ccall[r].arg ELSE ccall[r].res
           x == [Abort(rec[r], action) EXCEPT !.status = "interrupted", !.saved = FALSE]
           b == [x EXCEPT !.pending = TRUE]
           c == Send("update", OutcomeOf(x), x.rev, "none")
<1>1. /\ rec[r] \in Record /\ rec[r].live /\ rec[r].pc # "put" /\ NoCall \in Call
      /\ ccall[r].ph = "done" /\ ccall[r].op = "request" /\ CallsMatch(r) /\ ccall[r] \in Call
  BY RunFacts, GateKeepsPut, Constants DEF CancelApply, Alive
<1>2. \/ CancelCall(r, rec[r], NoCall)
      \/ ccall[r].res # "no" /\ CancelCall(r, b, c)
  BY DEF CancelApply
<1>3. CASE CancelCall(r, rec[r], NoCall)
  BY <1>1, <1>3, CancelCallStep, QuietSelf DEF Quiet
<1>4. CASE ccall[r].res # "no" /\ CancelCall(r, b, c)
  <2>1. action \in Actions
    BY SMTT(30), <1>1, <1>4 DEF CallsMatch
  <2> HIDE DEF action
  <2>2. /\ x \in Record /\ b \in Record
        /\ Calm(rec[r], b) /\ b.proof = rec[r].proof /\ b.pc = rec[r].pc /\ b.abort = action
    BY Zenon, <1>1, <2>1, CancelledRecord
  <2>3. CancelCall(r, b, c)
    BY <1>4
  <2> HIDE DEF x, b
  <2>4. OutcomeOf(x) \in Outcomes /\ x.rev \in Nat
    BY <2>2, OutcomeType, FieldTypes
  <2>5. c \in Call /\ c.op = "update" /\ c.ph = "sent" /\ c.out = OutcomeOf(x)
    BY <2>4, SendType
  <2> HIDE DEF c
  <2>6. CancelSends(c, b.abort)
    BY <2>1, <2>2, <2>4, <2>5, StatusNames DEF CancelSends
  <2> QED BY <1>1, <2>2, <2>3, <2>5, <2>6, CancelCallStep
<1> QED BY <1>2, <1>3, <1>4

(* CancelAck preserves FenceInvariant.                                       *)
LEMMA CancelAckStep ==
    ASSUME FenceInvariant, NEW r \in Runs, CancelAck(r) PROVE FenceInvariant'
<1>1. /\ rec[r] \in Record /\ rec[r].live /\ NoCall \in Call
      /\ ccall[r].ph = "done" /\ ccall[r].op = "update" /\ CallsMatch(r) /\ SnapshotIsAlone(r)
  BY RunFacts, Constants DEF CancelAck, Alive
<1>2. rec[r].abort # "none" /\ rec[r].pc # "put"
  BY <1>1 DEF CallsMatch, SnapshotIsAlone
<1>3. PICK rc : /\ Settle(r, ccall[r], TaskAttempt(r) \/ AdmissionAttempt(r), rc)
                /\ CancelCall(r, [rc EXCEPT !.saved = FinalAck(rc)], NoCall)
  BY DEF CancelAck
<1>4. /\ rc \in Record /\ Calm(rec[r], rc) /\ rc.pc = rec[r].pc /\ rc.abort # "none"
      /\ rc.proof = rec[r].proof \/ rows[r].status \notin Active
  BY <1>1, <1>2, <1>3, SettleFacts
<1> DEFINE f == FinalAck(rc)
           b == [rc EXCEPT !.saved = f]
<1>5. f \in BOOLEAN /\ CancelCall(r, b, NoCall)
  BY <1>3, <1>4, AckBoolean
<1> HIDE DEF f
<1>6. b \in Record
  BY <1>4, <1>5, Zenon DEF Record
<1>7. /\ b.live = rc.live /\ b.home = rc.home /\ b.left = rc.left /\ b.lost = rc.lost
      /\ b.armed = rc.armed /\ b.abort = rc.abort /\ b.proof = rc.proof /\ b.pc = rc.pc
  OBVIOUS
<1> HIDE DEF b
<1>8. Calm(rec[r], b)
  BY <1>4, <1>7 DEF Calm
<1> QED BY <1>1, <1>2, <1>4, <1>5, <1>6, <1>7, <1>8, CancelCallStep

-----------------------------------------------------------------------------
(* Renewal.                                                                  *)

(* The step rule for the heartbeat: the record may take a newer confirmed    *)
(* lease, as long as the durable lease is at least as long and the timer     *)
(* stays armed.                                                              *)
LEMMA RenewStep ==
    ASSUME FenceInvariant, NEW r \in Runs, NEW b \in Record, NEW c \in Renewal,
           RenewCall(r, b, c), rec[r].live,
           b.live = rec[r].live, b.home = rec[r].home, b.pc = rec[r].pc,
           b.proof = rec[r].proof, rec[r].lost => b.lost,
           b.abort = "none" => rec[r].abort = "none",
           rows[r].left >= b.left,
           ~b.lost /\ b.proof = NoOutcome => b.armed,
           b.armed => b.left >= -Slack,
           c.ph \in {"idle", "sent", "signal"},
           c.ph = "sent" => c.left >= b.left /\ b.pc # "put"
    PROVE  FenceInvariant'
<1>1. /\ rec \in [Runs -> Record] /\ rcall \in [Runs -> Renewal] /\ TypeOK /\ RunInvariant(r)
  BY DEF FenceInvariant, TypeOK
<1>2. /\ rec' = [rec EXCEPT ![r] = b] /\ rcall' = [rcall EXCEPT ![r] = c]
      /\ UNCHANGED <<rows, older, up, tcall, ccall, adm, published, ended>>
  BY DEF RenewCall
<1>3. TypeOK'
  BY <1>1, <1>2 DEF TypeOK
<1>4. rec'[r] = b /\ rcall'[r] = c /\ tcall'[r] = tcall[r] /\ ccall'[r] = ccall[r] /\ rows'[r] = rows[r]
  BY <1>1, <1>2
<1>5. CallsMatch(r)'
  BY ZenonT(40), <1>1, <1>4 DEF RunInvariant, CallsMatch
<1>6. LeaseIsConfirmed(r)' /\ TimerIsArmed(r)'
  BY <1>1, <1>4 DEF LeaseIsConfirmed, TimerIsArmed
<1>7. ProofMeansClosed(r)'
  BY <1>1, <1>4 DEF RunInvariant, ProofMeansClosed
<1>8. SnapshotIsAlone(r)'
  BY <1>1, <1>2, <1>4 DEF RunInvariant, SnapshotIsAlone
<1>9. RunInvariant(r)'
  BY <1>1, <1>4, <1>5, <1>6, <1>7, <1>8 DEF RunInvariant
<1> QED BY <1>2, <1>3, <1>9, <1>1, LocalStep

(* Re-arming the lease deadline leaves it armed unless the outcome is proved. *)
LEMMA RearmFacts ==
    ASSUME NEW a \in Record
    PROVE  /\ Rearm(a) \in Record /\ Rearm(a).armed = ~FinalAck(a)
           /\ FinalAck(Rearm(a)) = FinalAck(a)
           /\ Rearm(a).live = a.live /\ Rearm(a).home = a.home /\ Rearm(a).left = a.left
           /\ Rearm(a).lost = a.lost /\ Rearm(a).abort = a.abort /\ Rearm(a).proof = a.proof
           /\ Rearm(a).pc = a.pc
<1> DEFINE f == ~FinalAck(a)
           b == [a EXCEPT !.armed = f]
<1>1. f \in BOOLEAN
  BY AckBoolean
<1>2. Rearm(a) = b
  BY DEF Rearm
<1> HIDE DEF f
<1>3. b \in Record /\ b.armed = f
  BY <1>1, Zenon DEF Record
<1>4. /\ b.live = a.live /\ b.home = a.home /\ b.left = a.left
      /\ b.lost = a.lost /\ b.abort = a.abort /\ b.proof = a.proof /\ b.pc = a.pc
      /\ b.status = a.status /\ b.err = a.err /\ b.rollback = a.rollback
  OBVIOUS
<1> HIDE DEF b
<1>5. FinalAck(b) = FinalAck(a)
  BY <1>4 DEF FinalAck, HasAck, OutcomeOf
<1> QED BY <1>2, <1>3, <1>4, <1>5 DEF f

(* Dropping the commit barrier touches nothing the invariant looks at.       *)
LEMMA NotPending ==
    ASSUME NEW a \in Record
    PROVE  LET b == [a EXCEPT !.pending = FALSE]
           IN  /\ b \in Record /\ b.live = a.live /\ b.home = a.home /\ b.left = a.left
               /\ b.lost = a.lost /\ b.abort = a.abort /\ b.proof = a.proof
               /\ b.pc = a.pc /\ b.armed = a.armed
<1> DEFINE b == [a EXCEPT !.pending = FALSE]
<1>1. b \in Record
  BY Zenon DEF Record
<1>2. /\ b.live = a.live /\ b.home = a.home /\ b.left = a.left
      /\ b.lost = a.lost /\ b.abort = a.abort /\ b.proof = a.proof
      /\ b.pc = a.pc /\ b.armed = a.armed
  OBVIOUS
<1> QED BY <1>1, <1>2

(* A renewal that is sent has the type of a renewal.                         *)
LEMMA RenewalType ==
    ASSUME NEW a \in BOOLEAN, NEW b \in BOOLEAN
    PROVE  /\ NoRenewal \in Renewal /\ NoRenewal.ph = "idle"
           /\ SendRenewal(a, b) \in Renewal
           /\ SendRenewal(a, b).ph = "sent" /\ SendRenewal(a, b).left = Lease
BY LeftType DEF SendRenewal, NoRenewal, Renewal

(* A pending cancellation signal has the type of a renewal.                  *)
LEMMA SignalType ==
    ASSUME NEW c \in {"none"} \cup Actions
    PROVE  SignalOf(c) \in Renewal /\ SignalOf(c).ph = "signal"
BY LeftType DEF SignalOf, Renewal

(* The run's fence is a fence of the record with its timer re-armed.         *)
LEMMA RenewFence ==
    ASSUME FenceInvariant, NEW r \in Runs, NEW a \in Record, rec[r].live,
           a.live = rec[r].live, a.home = rec[r].home, a.pc = rec[r].pc, a.left = rec[r].left,
           a.proof = rec[r].proof, a.lost = rec[r].lost, a.abort = rec[r].abort,
           ~FinalAck(a), ~a.lost,
           RenewCall(r, Fence(a), NoRenewal)
    PROVE  FenceInvariant'
<1> DEFINE b == Fence(a)
<1>1. /\ b \in Record /\ Calm(a, b) /\ b.proof = a.proof /\ b.pc = a.pc /\ b.lost /\ ~b.armed
  BY FenceType, FenceCalm
<1>2. rows[r].left >= rec[r].left /\ NoRenewal \in Renewal /\ NoRenewal.ph = "idle"
  BY RunFacts, Constants DEF LeaseIsConfirmed, NoRenewal
<1> HIDE DEF b
<1>3. RenewCall(r, b, NoRenewal)
  BY DEF b
<1> QED BY <1>1, <1>2, <1>3, RenewStep DEF Calm

(* RenewBegin preserves FenceInvariant.                                      *)
LEMMA RenewBeginStep ==
    ASSUME FenceInvariant, NEW r \in Runs, RenewBegin(r) PROVE FenceInvariant'
<1> DEFINE a == Rearm(rec[r])
           b == [a EXCEPT !.pending = FALSE]
           call == SendRenewal(AllowInterrupted(a), FALSE)
<1>1. rec[r] \in Record /\ rec[r].live /\ ~rec[r].lost /\ rec[r].pc # "put" /\ rows[r].left >= rec[r].left
  BY RunFacts DEF RenewBegin, Renewable, LeaseIsConfirmed
<1>2. /\ a \in Record /\ a.armed = ~FinalAck(rec[r])
      /\ FinalAck(a) = FinalAck(rec[r])
      /\ a.live = rec[r].live /\ a.home = rec[r].home /\ a.left = rec[r].left
      /\ a.lost = rec[r].lost /\ a.abort = rec[r].abort /\ a.proof = rec[r].proof
      /\ a.pc = rec[r].pc
  BY <1>1, RearmFacts
<1>3. \/ FinalAck(a) /\ RenewCall(r, b, NoRenewal)
      \/ ~FinalAck(a) /\ RenewCall(r, Fence(a), NoRenewal)
      \/ ~FinalAck(a) /\ ~(a.left <= 0) /\ RenewCall(r, a, call)
  BY DEF RenewBegin
<1>4. NoRenewal \in Renewal /\ NoRenewal.ph = "idle"
  BY Constants DEF NoRenewal
<1> HIDE DEF a
<1>5. CASE FinalAck(a) /\ RenewCall(r, b, NoRenewal)
  <2>1. /\ b \in Record /\ b.live = a.live /\ b.home = a.home /\ b.left = a.left
        /\ b.lost = a.lost /\ b.abort = a.abort /\ b.proof = a.proof
        /\ b.pc = a.pc /\ b.armed = a.armed
    BY <1>2, NotPending
  <2>2. a.proof # NoOutcome
    BY <1>2, <1>5, FinalAckHasProof
  <2> HIDE DEF b
  <2> QED BY <1>1, <1>2, <1>4, <1>5, <2>1, <2>2, RenewStep
<1>6. CASE ~FinalAck(a) /\ RenewCall(r, Fence(a), NoRenewal)
  BY <1>1, <1>2, <1>6, RenewFence
<1>7. CASE ~FinalAck(a) /\ ~(a.left <= 0) /\ RenewCall(r, a, call)
  <2>1. AllowInterrupted(a) \in BOOLEAN
    BY <1>2, FieldTypes DEF AllowInterrupted
  <2>2. call \in Renewal /\ call.ph = "sent" /\ call.left = Lease
    BY <2>1, RenewalType
  <2>3. a.left <= Lease /\ a.left \in Int /\ a.left >= -Slack
    <3>1. a.left \in Left /\ ~(a.left <= 0)
      BY <1>2, <1>7, FieldTypes
    <3>2. Slack \in Nat
      BY OwnershipAssumption DEF OwnershipAssumption
    <3>3. ASSUME NEW l \in Left, ~(l <= 0) PROVE l <= Lease /\ l \in Int /\ l >= -Slack
      BY <3>2, <3>3, LeftType
    <3> QED BY <3>1, <3>3
  <2> HIDE DEF call
  <2>4. Lease \in Int
    BY LeftType
  <2> QED BY <1>1, <1>2, <1>7, <2>2, <2>3, <2>4, RenewStep
<1> QED BY <1>3, <1>5, <1>6, <1>7

(* A heartbeat step that only moves the renewal preserves the invariant.     *)
LEMMA QuietRenewStep ==
    ASSUME FenceInvariant, NEW r \in Runs, NEW b \in Record, NEW c \in Renewal,
           RenewCall(r, b, c), rec[r].live, Quiet(rec[r], b), b.pc = rec[r].pc,
           c.ph \in {"idle", "sent", "signal"},
           c.ph = "sent" => c.left = Lease /\ b.pc # "put"
    PROVE  FenceInvariant'
<1>1. rows[r].left >= rec[r].left /\ TimerIsArmed(r) /\ rec[r] \in Record
  BY RunFacts DEF LeaseIsConfirmed
<1>2. rec[r].left \in Left
  BY <1>1, FieldTypes
<1>3. rec[r].left <= Lease
  BY <1>2, LeftType
<1>4. /\ ~b.lost /\ b.proof = NoOutcome => b.armed
      /\ b.armed => b.left >= -Slack
  BY <1>1 DEF TimerIsArmed, Quiet, Calm
<1>5. c.ph = "sent" => c.left >= b.left /\ b.pc # "put"
  <2>1. SUFFICES ASSUME c.ph = "sent" PROVE c.left >= b.left
    OBVIOUS
  <2>2. b.left = rec[r].left /\ c.left = Lease
    BY <2>1 DEF Quiet, Calm
  <2>3. Lease >= rec[r].left
    BY <1>2, <1>3, LeftType
  <2> QED BY <2>2, <2>3
<1> QED BY <1>1, <1>4, <1>5, RenewStep DEF Quiet, Calm

(* A confirmed renewal replaces the lease of the record and nothing else.    *)
LEMMA ConfirmedRecord ==
    ASSUME NEW a \in Record, NEW l \in Left
    PROVE  LET x == [a EXCEPT !.left = l]
           IN  /\ x \in Record /\ FinalAck(x) = FinalAck(a) /\ x.left = l
               /\ x.live = a.live /\ x.home = a.home /\ x.lost = a.lost
               /\ x.abort = a.abort /\ x.proof = a.proof /\ x.pc = a.pc
<1> DEFINE x == [a EXCEPT !.left = l]
<1>1. x \in Record /\ x.left = l
  BY Zenon DEF Record
<1>2. /\ x.live = a.live /\ x.home = a.home /\ x.lost = a.lost
      /\ x.abort = a.abort /\ x.proof = a.proof /\ x.pc = a.pc
      /\ x.status = a.status /\ x.err = a.err /\ x.rollback = a.rollback
  OBVIOUS
<1> HIDE DEF x
<1>3. FinalAck(x) = FinalAck(a)
  BY <1>2 DEF FinalAck, HasAck, OutcomeOf
<1> QED BY <1>1, <1>2, <1>3 DEF x

(* A confirmed renewal re-arms the timer for a lease the store already holds. *)
LEMMA RenewConfirmed ==
    ASSUME FenceInvariant, NEW r \in Runs, NEW c \in Renewal, c.ph \in {"idle", "signal"},
           rec[r].live, ~FinalAck(rec[r]), rec[r].left > 0,
           rcall[r].ph = "done", rcall[r].res = "ok",
           RenewCall(r, Rearm([rec[r] EXCEPT !.left = rcall[r].left]), c)
    PROVE  FenceInvariant'
<1> DEFINE l == rcall[r].left
           x == [rec[r] EXCEPT !.left = l]
           b == Rearm(x)
<1>1. rec[r] \in Record /\ rcall[r] \in Renewal /\ LeaseIsConfirmed(r)
  BY RunFacts
<1>2. l \in Left
  BY <1>1 DEF Renewal
<1>3. rows[r].left >= l /\ l >= rec[r].left
  BY <1>1 DEF LeaseIsConfirmed
<1>4. RenewCall(r, b, c)
  OBVIOUS
<1> HIDE DEF l
<1>5. /\ x \in Record /\ FinalAck(x) = FinalAck(rec[r]) /\ x.left = l
      /\ x.live = rec[r].live /\ x.home = rec[r].home /\ x.lost = rec[r].lost
      /\ x.abort = rec[r].abort /\ x.proof = rec[r].proof /\ x.pc = rec[r].pc
  BY <1>1, <1>2, ConfirmedRecord
<1> HIDE DEF x
<1>6. /\ b \in Record /\ b.armed = ~FinalAck(x)
      /\ b.live = x.live /\ b.home = x.home /\ b.left = x.left
      /\ b.lost = x.lost /\ b.abort = x.abort /\ b.proof = x.proof /\ b.pc = x.pc
  BY <1>5, RearmFacts
<1> HIDE DEF b
<1>7. l >= -Slack
  <2>1. Slack \in Nat
    BY OwnershipAssumption DEF OwnershipAssumption
  <2>2. rec[r].left \in Int /\ l \in Int
    BY <1>1, <1>2, FieldTypes, LeftType
  <2> QED BY <1>3, <2>1, <2>2
<1>8. b.armed
  BY <1>5, <1>6
<1> QED BY <1>3, <1>4, <1>5, <1>6, <1>7, <1>8, RenewStep

(* RenewAck preserves FenceInvariant.                                        *)
LEMMA RenewAckStep ==
    ASSUME FenceInvariant, NEW r \in Runs, RenewAck(r) PROVE FenceInvariant'
<1> DEFINE rc == rec[r]
           f == Fence(rec[r])
           n == [rec[r] EXCEPT !.pending = FALSE]
           x == Rearm([rec[r] EXCEPT !.left = rcall[r].left])
           s == SignalOf(rcall[r].cancel)
<1>1. /\ rec[r] \in Record /\ rec[r].live /\ rcall[r] \in Renewal /\ rcall[r].ph = "done"
      /\ SnapshotIsAlone(r) /\ NoRenewal \in Renewal
  BY RunFacts, Constants DEF RenewAck
<1>2. NoRenewal.ph = "idle" /\ rec[r].pc # "put"
  BY <1>1 DEF NoRenewal, SnapshotIsAlone
<1>3. \/ RenewCall(r, rc, NoRenewal)
      \/ RenewCall(r, f, NoRenewal)
      \/ RenewCall(r, n, NoRenewal)
      \/ /\ ~FinalAck(rc) /\ ~(rc.left <= 0) /\ rcall[r].res = "ok"
         /\ RenewCall(r, x, NoRenewal) \/ RenewCall(r, x, s)
      \/ RenewCall(r, rc, SendRenewal(TRUE, TRUE))
  BY Zenon DEF RenewAck
<1>4. CASE RenewCall(r, rc, NoRenewal)
  BY <1>1, <1>2, <1>4, QuietSelf, QuietRenewStep
<1>5. CASE RenewCall(r, f, NoRenewal)
  <2>1. f \in Record /\ Quiet(rec[r], f) /\ f.pc = rec[r].pc
    BY <1>1, FenceType, FenceCalm DEF Quiet
  <2> HIDE DEF f
  <2> QED BY <1>1, <1>2, <1>5, <2>1, QuietRenewStep
<1>6. CASE RenewCall(r, n, NoRenewal)
  <2>1. /\ n \in Record /\ n.live = rec[r].live /\ n.home = rec[r].home /\ n.left = rec[r].left
        /\ n.lost = rec[r].lost /\ n.abort = rec[r].abort /\ n.proof = rec[r].proof
        /\ n.pc = rec[r].pc /\ n.armed = rec[r].armed
    BY <1>1, NotPending
  <2> HIDE DEF n
  <2>2. Quiet(rec[r], n)
    BY <2>1 DEF Quiet, Calm
  <2> QED BY <1>1, <1>2, <1>6, <2>1, <2>2, QuietRenewStep
<1>7. CASE /\ ~FinalAck(rc) /\ ~(rc.left <= 0) /\ rcall[r].res = "ok"
           /\ RenewCall(r, x, NoRenewal) \/ RenewCall(r, x, s)
  <2>1. rcall[r].cancel \in {"none"} \cup Actions
    BY <1>1 DEF Renewal
  <2>2. s \in Renewal /\ s.ph = "signal"
    BY <2>1, SignalType
  <2>3. rc.left > 0
    <3>1. rc.left \in Int
      BY <1>1, FieldTypes, LeftType
    <3> QED BY <1>7, <3>1
  <2> HIDE DEF s
  <2>4. PICK c \in {NoRenewal, s} : RenewCall(r, x, c)
    BY <1>7
  <2>5. c \in Renewal /\ c.ph \in {"idle", "signal"}
    BY <1>1, <1>2, <2>2, <2>4
  <2> QED BY <1>1, <1>7, <2>3, <2>4, <2>5, RenewConfirmed
<1>8. CASE RenewCall(r, rc, SendRenewal(TRUE, TRUE))
  <2>1. /\ SendRenewal(TRUE, TRUE) \in Renewal /\ SendRenewal(TRUE, TRUE).ph = "sent"
        /\ SendRenewal(TRUE, TRUE).left = Lease
    BY RenewalType
  <2> QED BY <1>1, <1>2, <1>8, <2>1, QuietSelf, QuietRenewStep
<1> QED BY <1>3, <1>4, <1>5, <1>6, <1>7, <1>8

(* The fields an abort keeps.                                                *)
LEMMA AbortFields ==
    ASSUME NEW a \in Record, NEW action
    PROVE  LET b == Abort(a, action)
           IN  /\ b.live = a.live /\ b.home = a.home /\ b.left = a.left
               /\ b.lost = a.lost /\ b.proof = a.proof /\ b.pc = a.pc /\ b.armed = a.armed
BY DEF Abort

(* Signal preserves FenceInvariant.                                          *)
LEMMA SignalStep ==
    ASSUME FenceInvariant, NEW r \in Runs, Signal(r) PROVE FenceInvariant'
<1> DEFINE b == Abort(rec[r], rcall[r].cancel)
<1>1. /\ rec[r] \in Record /\ rec[r].live /\ rcall[r] \in Renewal /\ NoRenewal \in Renewal
      /\ NoRenewal.ph = "idle"
  BY RunFacts, Constants DEF Signal, Alive, NoRenewal
<1>2. \/ RenewCall(r, rec[r], NoRenewal)
      \/ rec[r].abort = "none" /\ RenewCall(r, b, NoRenewal)
  BY Zenon DEF Signal
<1>3. CASE RenewCall(r, rec[r], NoRenewal)
  BY <1>1, <1>3, QuietSelf, QuietRenewStep
<1>4. CASE rec[r].abort = "none" /\ RenewCall(r, b, NoRenewal)
  <2>1. rcall[r].cancel \in {"none"} \cup Actions
    BY <1>1 DEF Renewal
  <2>2. b \in Record
    BY <1>1, <2>1, AbortType
  <2>3. /\ b.live = rec[r].live /\ b.home = rec[r].home /\ b.left = rec[r].left
        /\ b.lost = rec[r].lost /\ b.proof = rec[r].proof
        /\ b.pc = rec[r].pc /\ b.armed = rec[r].armed
    BY <1>1, AbortFields
  <2> HIDE DEF b
  <2>4. Quiet(rec[r], b)
    BY <1>4, <2>3 DEF Quiet, Calm
  <2> QED BY <1>1, <1>4, <2>2, <2>3, <2>4, QuietRenewStep
<1> QED BY <1>2, <1>3, <1>4

-----------------------------------------------------------------------------
(* Steps that change the row of one run.                                     *)

(* The rule for a write to one row by another actor: it may not shorten a    *)
(* lease that somebody relies on, nor reopen a row that is closed by a proof. *)
LEMMA RowsStep ==
    ASSUME FenceInvariant, NEW r \in Runs, NEW row \in Row,
           rows' = [rows EXCEPT ![r] = row], UNCHANGED <<older, up, rec, adm, published, ended>>,
           tcall' \in [Runs -> Call], ccall' \in [Runs -> Call], rcall' \in [Runs -> Renewal],
           \A q \in Runs \ {r} :
               tcall'[q] = tcall[q] /\ ccall'[q] = ccall[q] /\ rcall'[q] = rcall[q],
           row.status = "absent" <=> rows[r].status = "absent",
           \/ \A w \in Workers : r \notin adm[w].cands
           \/ rows[r].status \notin Active => row.status \notin Active,
           \A w \in Workers :
               r \in adm[w].run /\ adm[w].ph = "done" /\ adm[w].res = "ok"
               => row.left >= adm[w].left /\ (row.taken => adm[w].left <= 0),
           RunInvariant(r)'
    PROVE  FenceInvariant'
<1>1. rows \in [Runs -> Row] /\ TypeOK
  BY DEF FenceInvariant, TypeOK
<1>2. TypeOK'
  BY <1>1 DEF TypeOK
<1>3. ASSUME NEW q \in Runs, q # r PROVE RunInvariant(q)'
  <2>1. /\ rec'[q] = rec[q] /\ rows'[q] = rows[q] /\ tcall'[q] = tcall[q]
        /\ ccall'[q] = ccall[q] /\ rcall'[q] = rcall[q]
    BY <1>1, <1>3
  <2>2. RunInvariant(q)
    BY DEF FenceInvariant
  <2>3. CallsMatch(q)' /\ LeaseIsConfirmed(q)' /\ TimerIsArmed(q)'
    BY <2>1, <2>2 DEF RunInvariant, CallsMatch, LeaseIsConfirmed, TimerIsArmed
  <2>4. ProofMeansClosed(q)' /\ SnapshotIsAlone(q)'
    BY <2>1, <2>2 DEF RunInvariant, ProofMeansClosed, SnapshotIsAlone
  <2> QED BY <2>1, <2>2, <2>3, <2>4 DEF RunInvariant
<1>4. ASSUME NEW w \in Workers PROVE AdmissionIsFresh(w)'
  <2>1. AdmissionIsFresh(w)
    BY DEF FenceInvariant
  <2>2. adm[w].run \subseteq Runs /\ adm[w].cands \subseteq Runs /\ adm'[w] = adm[w] /\ rec' = rec
    BY <1>1 DEF TypeOK, Admission
  <2>3. \A q \in Runs : q # r => rows'[q] = rows[q]
    BY <1>1
  <2>4. rows'[r] = row
    BY <1>1
  <2>5. adm[w].ph = "sent" => \A q \in adm[w].run : rows'[q].status = "absent"
    BY <2>1, <2>2, <2>3, <2>4 DEF AdmissionIsFresh
  <2>6. adm[w].ph = "done" /\ adm[w].res = "ok" =>
          /\ \A q \in adm[w].run : /\ rows'[q].status # "absent"
                                   /\ rows'[q].left >= adm[w].left
                                   /\ rows'[q].taken => adm[w].left <= 0
          /\ \A q \in adm[w].cands \cap adm[w].claimed : rows'[q].status \notin Active
    BY <2>1, <2>2, <2>3, <2>4 DEF AdmissionIsFresh
  <2>7. /\ adm[w].ph = "idle" => adm[w] = NoAdmission
        /\ adm[w].cands # {} => adm[w].strategy \in Actions
        /\ \A q \in adm[w].cands : rec'[q].live /\ rec'[q].home = w
        /\ \A q \in adm[w].run : ~rec'[q].live
        /\ \A p, q \in adm[w].run : p = q
        /\ \A v \in Workers, q \in Runs : q \in adm'[w].run /\ q \in adm'[v].run => v = w
    BY <2>1, <2>2 DEF AdmissionIsFresh
  <2> QED BY <2>2, <2>5, <2>6, <2>7 DEF AdmissionIsFresh
<1> QED BY <1>2, <1>3, <1>4 DEF FenceInvariant

(* Another run's admission does not depend on this row unless it claims it.  *)
LEMMA AdmissionOf ==
    ASSUME FenceInvariant, NEW r \in Runs, NEW w \in Workers, r \in adm[w].run
    PROVE  /\ ~rec[r].live
           /\ adm[w].ph = "done" /\ adm[w].res = "ok" =>
                rows[r].left >= adm[w].left /\ (rows[r].taken => adm[w].left <= 0)
<1>1. AdmissionIsFresh(w)
  BY DEF FenceInvariant
<1>2. ~rec[r].live
  BY <1>1 DEF AdmissionIsFresh
<1>3. ASSUME adm[w].ph = "done", adm[w].res = "ok"
      PROVE  rows[r].left >= adm[w].left /\ (rows[r].taken => adm[w].left <= 0)
  <2>1. \A q \in adm[w].run : /\ rows[q].left >= adm[w].left
                              /\ rows[q].taken => adm[w].left <= 0
    BY <1>1, <1>3, Zenon DEF AdmissionIsFresh
  <2> QED BY <2>1, Zenon
<1> QED BY <1>2, <1>3

(* RemoteCancel preserves FenceInvariant.                                    *)
LEMMA RemoteCancelStep ==
    ASSUME FenceInvariant, NEW r \in Runs, NEW w \in Workers, NEW action \in Requests,
           RemoteCancel(w, r, action)
    PROVE  FenceInvariant'
<1> DEFINE row == RequestCancel(rows[r], action)
<1>1. /\ rows[r] \in Row /\ RunInvariant(r) /\ TypeOK
  BY RunFacts DEF FenceInvariant
<1>2. action \in Actions
  BY OwnershipAssumption DEF OwnershipAssumption
<1>3. /\ row \in Row /\ row.status = rows[r].status /\ row.left = rows[r].left
      /\ row.taken = rows[r].taken
  BY <1>1, <1>2 DEF RequestCancel, Row
<1>4. /\ rows' = [rows EXCEPT ![r] = row]
      /\ UNCHANGED <<older, up, rec, tcall, ccall, rcall, adm, published, ended>>
  BY DEF RemoteCancel, OnlyRows
<1> HIDE DEF row
<1>5. rows'[r] = row
  BY <1>1, <1>4 DEF TypeOK
<1>6. /\ CallsMatch(r)' /\ LeaseIsConfirmed(r)' /\ TimerIsArmed(r)'
      /\ ProofMeansClosed(r)' /\ SnapshotIsAlone(r)'
  BY <1>1, <1>3, <1>4, <1>5
     DEF RunInvariant, CallsMatch, LeaseIsConfirmed, TimerIsArmed, ProofMeansClosed, SnapshotIsAlone
<1>7. RunInvariant(r)'
  BY <1>1, <1>3, <1>4, <1>5, <1>6 DEF RunInvariant
<1>8. tcall' \in [Runs -> Call] /\ ccall' \in [Runs -> Call] /\ rcall' \in [Runs -> Renewal]
  BY <1>1, <1>4 DEF TypeOK
<1> QED BY <1>3, <1>4, <1>7, <1>8, RowsStep, AdmissionOf

(* Takeover preserves FenceInvariant.                                        *)
LEMMA TakeoverStep ==
    ASSUME FenceInvariant, NEW r \in Runs, NEW w \in Workers, Takeover(w, r)
    PROVE  FenceInvariant'
<1> DEFINE row == ClaimForTakeover(rows[r])
<1>1. /\ rows[r] \in Row /\ rec[r] \in Record /\ RunInvariant(r) /\ TypeOK
  BY RunFacts DEF FenceInvariant
<1>2. /\ rows' = [rows EXCEPT ![r] = row]
      /\ UNCHANGED <<older, up, rec, tcall, ccall, rcall, adm, published, ended>>
      /\ rows[r].status \in Active /\ rows[r].left < -Grace
  BY DEF Takeover, OnlyRows, ClaimForTakeoverOk, LeaseExpired
<1>3. row \in Row /\ row.status = "error" /\ row.left = rows[r].left
  BY <1>1, StatusNames DEF ClaimForTakeover, Row
<1>4. /\ "error" \notin Active /\ "absent" \notin Active /\ "absent" # "error"
  BY StatusNames
<1>5. ~rec[r].live \/ rec[r].lost
  <2>1. SUFFICES ASSUME rec[r].live, ~rec[r].lost PROVE FALSE
    BY <1>1, FieldTypes
  <2>2. rec[r].proof = NoOutcome
    BY <1>1, <1>2, <2>1 DEF RunInvariant, ProofMeansClosed
  <2>3. rec[r].left >= -Slack /\ rows[r].left >= rec[r].left
    BY <1>1, <2>1, <2>2 DEF RunInvariant, TimerIsArmed, LeaseIsConfirmed
  <2>4. rec[r].left \in Left /\ rows[r].left \in Left
    BY <1>1, FieldTypes DEF Row
  <2>5. rec[r].left \in Int /\ rows[r].left \in Int
    BY <2>4, LeftType
  <2>6. Slack \in Nat /\ Grace \in Nat /\ Slack <= Grace
    BY OwnershipAssumption, StoreAssumption DEF OwnershipAssumption, StoreAssumption
  <2> QED BY <1>2, <2>3, <2>5, <2>6
<1> HIDE DEF row
<1>6. rows'[r] = row
  BY <1>1, <1>2 DEF TypeOK
<1>7. /\ CallsMatch(r)' /\ LeaseIsConfirmed(r)' /\ TimerIsArmed(r)'
      /\ ProofMeansClosed(r)' /\ SnapshotIsAlone(r)'
  BY <1>1, <1>2, <1>3, <1>4, <1>6
     DEF RunInvariant, CallsMatch, LeaseIsConfirmed, TimerIsArmed, ProofMeansClosed, SnapshotIsAlone
<1>8. RunInvariant(r)'
  BY <1>2, <1>3, <1>4, <1>5, <1>6, <1>7 DEF RunInvariant
<1>9. tcall' \in [Runs -> Call] /\ ccall' \in [Runs -> Call] /\ rcall' \in [Runs -> Renewal]
  BY <1>1, <1>2 DEF TypeOK
<1>10. ASSUME NEW v \in Workers, r \in adm[v].run, adm[v].ph = "done", adm[v].res = "ok"
       PROVE  row.left >= adm[v].left /\ (row.taken => adm[v].left <= 0)
  <2>1. rows[r].left >= adm[v].left
    BY <1>10, AdmissionOf
  <2>2. adm[v].left \in Left /\ rows[r].left \in Left
    BY <1>1 DEF TypeOK, Admission, Row
  <2>3. adm[v].left \in Int /\ rows[r].left \in Int
    BY <2>2, LeftType
  <2>4. Grace \in Nat
    BY StoreAssumption DEF StoreAssumption
  <2> QED BY <1>2, <1>3, <2>1, <2>3, <2>4
<1> QED BY <1>2, <1>3, <1>4, <1>8, <1>9, <1>10, RowsStep

-----------------------------------------------------------------------------
(* The store applies a call.                                                 *)

(* start_run, update_status, finalize_if_not_cancelled and request_cancel    *)
(* keep owner, lease and stop reason, and never reopen a row.                *)
LEMMA GuardedWrites ==
    ASSUME NEW row \in Row, NEW w \in Workers \cup {NoWorker}, NEW status \in Active \cup Terminal,
           NEW action \in {"none"} \cup Actions
    PROVE  /\ StartRun(row) \in Row /\ UpdateStatus(row, status, w) \in Row
           /\ FinalizeIfNotCancelled(row, status, w) \in Row /\ RequestCancel(row, action) \in Row
           /\ \A new \in {StartRun(row), UpdateStatus(row, status, w),
                          FinalizeIfNotCancelled(row, status, w), RequestCancel(row, action)} :
                /\ new.left = row.left /\ new.taken = row.taken
                /\ new.status = "absent" <=> row.status = "absent"
                /\ row.status \notin Active => new.status \notin Active
           /\ UpdateStatusOk(row, status, w) => UpdateStatus(row, status, w).status = status
           /\ FinalizeReply(row, w) = "ok" =>
                FinalizeIfNotCancelled(row, status, w).status = status
<1>1. /\ StartRun(row) \in Row /\ StartRun(row).left = row.left /\ StartRun(row).taken = row.taken
      /\ StartRun(row).status = "absent" <=> row.status = "absent"
      /\ row.status \notin Active => StartRun(row).status \notin Active
  BY DEF StartRun, StartRunOk, Row, Active
<1>2. LET new == UpdateStatus(row, status, w)
      IN  /\ new \in Row /\ new.left = row.left /\ new.taken = row.taken
          /\ new.status = "absent" <=> row.status = "absent"
          /\ row.status \notin Active => new.status \notin Active
          /\ UpdateStatusOk(row, status, w) => new.status = status
  BY DEF UpdateStatus, UpdateStatusOk, Row, Active, Terminal
<1>3. LET new == FinalizeIfNotCancelled(row, status, w)
      IN  /\ new \in Row /\ new.left = row.left /\ new.taken = row.taken
          /\ new.status = "absent" <=> row.status = "absent"
          /\ row.status \notin Active => new.status \notin Active
          /\ FinalizeOk(row, w) => new.status = status
  BY DEF FinalizeIfNotCancelled, FinalizeOk, Row, Active, Terminal
<1>4. LET new == RequestCancel(row, action)
      IN  /\ new \in Row /\ new.left = row.left /\ new.taken = row.taken
          /\ new.status = row.status
  BY DEF RequestCancel, Row
<1>5. FinalizeReply(row, w) = "ok" => FinalizeOk(row, w)
  BY DEF FinalizeReply, FinalizeOk, Row, Actions
<1> QED BY <1>1, <1>2, <1>3, <1>4, <1>5

(* What the unguarded snapshot write puts into the row.                      *)
LEMMA PutFacts ==
    ASSUME NEW row \in Row, NEW w \in Workers \cup {NoWorker}, NEW status \in Active \cup Terminal,
           NEW l \in Left
    PROVE  LET new == PutRow(row, status, l, w)
           IN  new \in Row /\ new.left = l /\ ~new.taken /\ new.status = status
BY DEF PutRow, Row

(* What the store does to a row when it applies a call of the task or of     *)
(* cancel().                                                                 *)
LEMMA ApplyFacts ==
    ASSUME FenceInvariant, NEW r \in Runs, NEW call \in Call,
           call.op \in {"update", "cas", "put"} => call.out \in Outcomes,
           call.op = "put" => rows[r].status # "absent"
    PROVE  LET new == Apply(r, call)
           IN  /\ new \in Row
               /\ new.status = "absent" <=> rows[r].status = "absent"
               /\ call.op # "put" =>
                    /\ new.left = rows[r].left /\ new.taken = rows[r].taken
                    /\ rows[r].status \notin Active => new.status \notin Active
               /\ call.op = "put" =>
                    \/ new = rows[r]
                    \/ new.left = rec[r].left /\ ~new.taken
               /\ /\ call.op \in {"update", "cas"} /\ call.out.status \in Terminal
                  /\ Answer(r, call) = "ok"
                  => new.status \notin Active
<1> DEFINE row == rows[r]
           w == rec[r].home
           st == call.out.status
           new == Apply(r, call)
<1>1. row \in Row /\ rec[r] \in Record /\ w \in Workers \cup {NoWorker} /\ rec[r].left \in Left
  BY RunFacts, FieldTypes
<1>2. call.op \in {"none", "start", "put", "update", "cas", "request"} /\ call.arg \in {"none"} \cup Actions
  BY DEF Call
<1>3. call.op \in {"update", "cas", "put"} => st \in Active \cup Terminal
  BY DEF Outcomes
<1>4. "absent" \notin Active \cup Terminal /\ "pending" \in Active \cup Terminal /\ Active \cap Terminal = {}
  BY StatusNames
<1> HIDE DEF row, w, st
<1>5. CASE call.op = "none"
  <2>1. new = row
    BY <1>5 DEF Apply, row
  <2> QED BY <1>1, <1>5, <2>1 DEF row
<1>6. CASE call.op = "start"
  <2>1. new = StartRun(row)
    BY <1>6 DEF Apply, row
  <2> HIDE DEF new
  <2>2. /\ new \in Row /\ new.left = row.left /\ new.taken = row.taken
        /\ new.status = "absent" <=> row.status = "absent"
        /\ row.status \notin Active => new.status \notin Active
    BY <1>1, <1>2, <1>4, <2>1, GuardedWrites
  <2> QED BY <1>6, <2>2 DEF row, new
<1>7. CASE call.op = "request"
  <2>1. new = RequestCancel(row, call.arg)
    BY <1>7 DEF Apply, row
  <2> HIDE DEF new
  <2>2. /\ new \in Row /\ new.left = row.left /\ new.taken = row.taken
        /\ new.status = "absent" <=> row.status = "absent"
        /\ row.status \notin Active => new.status \notin Active
    BY <1>1, <1>2, <1>4, <2>1, GuardedWrites
  <2> QED BY <1>7, <2>2 DEF row, new
<1>8. CASE call.op = "update"
  <2>1. new = UpdateStatus(row, st, w)
    BY <1>8 DEF Apply, row, st, w
  <2>2. Answer(r, call) = "ok" => UpdateStatusOk(row, st, w)
    BY <1>8 DEF Answer, row, st, w
  <2> HIDE DEF new
  <2>3. /\ new \in Row /\ new.left = row.left /\ new.taken = row.taken
        /\ new.status = "absent" <=> row.status = "absent"
        /\ row.status \notin Active => new.status \notin Active
        /\ UpdateStatusOk(row, st, w) => new.status = st
    BY <1>1, <1>2, <1>3, <1>8, <2>1, GuardedWrites
  <2> QED BY <1>4, <1>8, <2>2, <2>3 DEF row, new, st
<1>9. CASE call.op = "cas"
  <2>1. new = FinalizeIfNotCancelled(row, st, w)
    BY <1>9 DEF Apply, row, st, w
  <2>2. Answer(r, call) = FinalizeReply(row, w)
    BY <1>9 DEF Answer, row, w
  <2> HIDE DEF new
  <2>3. /\ new \in Row /\ new.left = row.left /\ new.taken = row.taken
        /\ new.status = "absent" <=> row.status = "absent"
        /\ row.status \notin Active => new.status \notin Active
        /\ FinalizeReply(row, w) = "ok" => new.status = st
    BY <1>1, <1>2, <1>3, <1>9, <2>1, GuardedWrites
  <2> QED BY <1>4, <1>9, <2>2, <2>3 DEF row, new, st
<1>10. CASE call.op = "put"
  <2>1. new = row \/ new = PutRow(row, st, rec[r].left, w)
    BY <1>10 DEF Apply, row, st, w
  <2>2. LET p == PutRow(row, st, rec[r].left, w)
        IN  p \in Row /\ p.left = rec[r].left /\ ~p.taken /\ p.status = st
    BY <1>1, <1>3, <1>10, PutFacts
  <2>3. rows[r].status # "absent" /\ st # "absent"
    BY <1>3, <1>4, <1>10
  <2> HIDE DEF new
  <2> QED BY <1>1, <1>10, <2>1, <2>2, <2>3 DEF row, new
<1> QED BY <1>2, <1>5, <1>6, <1>7, <1>8, <1>9, <1>10

(* The answers of the store have the type the caller expects.                *)
LEMMA AnswerType ==
    ASSUME NEW r \in Runs, NEW call \in Call, rows[r] \in Row,
           call.op = "request" => call.arg \in Actions
    PROVE  /\ Answer(r, call) \in Replies
           /\ call.op = "request" => Answer(r, call) \in Actions \cup {"no"}
<1>1. rows[r].cancel \in {"none"} \cup Actions
  BY DEF Row
<1>2. call.op \in {"none", "start", "put", "update", "cas", "request"} /\ call.arg \in {"none"} \cup Actions
  BY DEF Call
<1>3. CASE call.op = "request"
  <2>1. Answer(r, call) = RequestCancelReply(rows[r], call.arg)
    BY <1>3 DEF Answer
  <2> QED BY <1>1, <1>3, <2>1 DEF RequestCancelReply, Replies
<1>4. CASE call.op = "cas"
  <2>1. Answer(r, call) = FinalizeReply(rows[r], rec[r].home)
    BY <1>4 DEF Answer
  <2> QED BY <1>1, <1>4, <2>1 DEF FinalizeReply, Replies
<1>5. CASE call.op \notin {"request", "cas"}
  <2>1. Answer(r, call) \in {"ok", "no", "exc"}
    BY <1>2, <1>5 DEF Answer
  <2> QED BY <1>5, <2>1 DEF Replies
<1> QED BY <1>3, <1>4, <1>5

(* What the caller sees of an applied call: its answer, an exception, or     *)
(* nothing.                                                                  *)
LEMMA SeenFacts ==
    ASSUME NEW call \in Call, call.ph = "sent", NEW res \in Replies, NEW c,
           c \in Seen(call, res) \/ c = Raised(call)
    PROVE  /\ c \in Call /\ c.op = call.op /\ c.out = call.out /\ c.arg = call.arg
           /\ c.ph \in {"sent", "done"}
           /\ c.ph = "done" => c.res \in {res, "exc"}
           /\ c = Raised(call) => c.res = "exc"
<1> DEFINE a == [call EXCEPT !.ph = "done", !.res = res]
           e == [call EXCEPT !.ph = "done", !.res = "exc"]
<1>1. c \in {a, e, call} /\ Raised(call) = e
  BY DEF Seen, Raised
<1>2. a \in Call /\ a.ph = "done" /\ a.res = res /\ a.op = call.op /\ a.out = call.out /\ a.arg = call.arg
  BY DEF Call
<1>3. e \in Call /\ e.ph = "done" /\ e.res = "exc" /\ e.op = call.op /\ e.out = call.out /\ e.arg = call.arg
  BY DEF Call, Replies
<1> HIDE DEF a, e
<1> QED BY <1>1, <1>2, <1>3

(* The rule for the store applying one call of one run.                      *)
LEMMA StoreStep ==
    ASSUME FenceInvariant, NEW r \in Runs, NEW row \in Row, NEW t \in Call, NEW c \in Call,
           rows' = [rows EXCEPT ![r] = row],
           tcall' = [tcall EXCEPT ![r] = t], ccall' = [ccall EXCEPT ![r] = c],
           UNCHANGED <<older, up, rec, rcall, adm, published, ended>>, rec[r].live,
           t.op = tcall[r].op, t.out = tcall[r].out, t.arg = tcall[r].arg,
           c.op = ccall[r].op, c.out = ccall[r].out, c.arg = ccall[r].arg,
           t.ph = "idle" <=> tcall[r].ph = "idle",
           c.ph = "idle" <=> ccall[r].ph = "idle",
           t.ph = "done" /\ t.op = "request" => t.res \in Actions \cup {"no", "exc"},
           c.ph = "done" /\ c.op = "request" => c.res \in Actions \cup {"no", "exc"},
           /\ t.ph = "done" /\ t.res = "ok"
           /\ t.op \in {"update", "cas"} /\ t.out.status \in Terminal
           => row.status \notin Active,
           /\ c.ph = "done" /\ c.res = "ok"
           /\ c.op \in {"update", "cas"} /\ c.out.status \in Terminal
           => row.status \notin Active,
           row.status = "absent" <=> rows[r].status = "absent",
           \/ /\ row.left = rows[r].left /\ row.taken = rows[r].taken
              /\ rows[r].status \notin Active => row.status \notin Active
           \/ rec[r].pc = "put" /\ row.left = rec[r].left /\ ~row.taken
    PROVE  FenceInvariant'
<1>1. /\ TypeOK /\ RunInvariant(r) /\ rec[r] \in Record
  BY RunFacts DEF FenceInvariant
<1>2. rows'[r] = row /\ tcall'[r] = t /\ ccall'[r] = c /\ rcall'[r] = rcall[r] /\ rec'[r] = rec[r]
  BY <1>1 DEF TypeOK
<1>3. CallsMatch(r)'
  BY <1>1, <1>2 DEF RunInvariant, CallsMatch
<1>4. TimerIsArmed(r)' /\ SnapshotIsAlone(r)'
  BY <1>1, <1>2 DEF RunInvariant, TimerIsArmed, SnapshotIsAlone
<1>5. rec[r].left \in Int
  BY <1>1, FieldTypes, LeftType
<1>6. LeaseIsConfirmed(r)'
  BY <1>1, <1>2, <1>5 DEF RunInvariant, LeaseIsConfirmed, SnapshotIsAlone
<1>7. ProofMeansClosed(r)'
  BY <1>1, <1>2 DEF RunInvariant, ProofMeansClosed, SnapshotIsAlone
<1>8. RunInvariant(r)'
  BY <1>1, <1>2, <1>3, <1>4, <1>6, <1>7 DEF RunInvariant
<1>9. tcall' \in [Runs -> Call] /\ ccall' \in [Runs -> Call] /\ rcall' \in [Runs -> Renewal]
  BY <1>1 DEF TypeOK
<1>10. \A w \in Workers : r \notin adm[w].run
  BY AdmissionOf
<1>11. \A q \in Runs \ {r} :
         tcall'[q] = tcall[q] /\ ccall'[q] = ccall[q] /\ rcall'[q] = rcall[q]
  BY <1>1 DEF TypeOK
<1>12. \/ \A w \in Workers : r \notin adm[w].cands
       \/ rows[r].status \notin Active => row.status \notin Active
  BY <1>1 DEF RunInvariant, SnapshotIsAlone
<1> QED BY <1>8, <1>9, <1>10, <1>11, <1>12, RowsStep

(* TaskStore preserves FenceInvariant.                                       *)
LEMMA TaskStoreStep ==
    ASSUME FenceInvariant, NEW r \in Runs, TaskStore(r) PROVE FenceInvariant'
<1> DEFINE call == tcall[r]
           new == Apply(r, call)
           res == Answer(r, call)
<1>1. /\ call \in Call /\ ccall[r] \in Call /\ rows[r] \in Row /\ rec[r] \in Record /\ TypeOK
      /\ RunInvariant(r) /\ call.ph = "sent"
  BY RunFacts DEF FenceInvariant, TaskStore
<1>2. /\ rec[r].live /\ (call.op = "put" => rec[r].pc = "put")
      /\ call.op \in {"update", "cas", "put"} => call.out \in Outcomes
      /\ call.op = "request" => call.arg \in Actions
  BY <1>1 DEF RunInvariant, CallsMatch
<1>3. rows[r].status # "absent"
  BY <1>1, <1>2 DEF RunInvariant
<1>4. /\ new \in Row
      /\ new.status = "absent" <=> rows[r].status = "absent"
      /\ call.op # "put" =>
           /\ new.left = rows[r].left /\ new.taken = rows[r].taken
           /\ rows[r].status \notin Active => new.status \notin Active
      /\ call.op = "put" =>
           \/ new = rows[r]
           \/ new.left = rec[r].left /\ ~new.taken
      /\ /\ call.op \in {"update", "cas"} /\ call.out.status \in Terminal
         /\ res = "ok"
         => new.status \notin Active
  BY <1>1, <1>2, <1>3, ApplyFacts
<1>5. res \in Replies /\ (call.op = "request" => res \in Actions \cup {"no"})
  BY <1>1, <1>2, AnswerType
<1>6. UNCHANGED <<older, up, rec, ccall, rcall, adm, published, ended>>
  BY DEF TaskStore
<1>7. \/ /\ rows' = [rows EXCEPT ![r] = new]
         /\ \E c \in Seen(call, res) : tcall' = [tcall EXCEPT ![r] = c]
      \/ rows' = rows /\ tcall' = [tcall EXCEPT ![r] = Raised(call)]
  BY DEF TaskStore
<1>8. ccall' = [ccall EXCEPT ![r] = ccall[r]] /\ rows = [rows EXCEPT ![r] = rows[r]]
  BY <1>1, <1>6 DEF TypeOK
<1>9. /\ ccall[r].ph = "done" /\ ccall[r].op = "request" => ccall[r].res \in Actions \cup {"no", "exc"}
      /\ /\ ccall[r].ph = "done" /\ ccall[r].res = "ok"
         /\ ccall[r].op \in {"update", "cas"} /\ ccall[r].out.status \in Terminal
         => rows[r].status \notin Active
      /\ rec[r].pc = "put" => ccall[r].op \notin {"update", "cas"}
  BY <1>1, <1>2 DEF RunInvariant, CallsMatch, ProofMeansClosed, SnapshotIsAlone
<1> HIDE DEF call, new, res
<1>10. CASE /\ rows' = [rows EXCEPT ![r] = new]
            /\ \E c \in Seen(call, res) : tcall' = [tcall EXCEPT ![r] = c]
  <2>1. PICK c \in Seen(call, res) : tcall' = [tcall EXCEPT ![r] = c]
    BY <1>10
  <2>2. /\ c \in Call /\ c.op = call.op /\ c.out = call.out /\ c.arg = call.arg
        /\ c.ph \in {"sent", "done"} /\ (c.ph = "done" => c.res \in {res, "exc"})
    BY <1>1, <1>5, <2>1, SeenFacts
  <2>3. \/ /\ new.left = rows[r].left /\ new.taken = rows[r].taken
           /\ rows[r].status \notin Active => new.status \notin Active
        \/ rec[r].pc = "put" /\ new.left = rec[r].left /\ ~new.taken
    BY <1>2, <1>4
  <2>4. /\ /\ c.ph = "done" /\ c.res = "ok"
           /\ c.op \in {"update", "cas"} /\ c.out.status \in Terminal
           => new.status \notin Active
        /\ c.ph = "done" /\ c.op = "request" => c.res \in Actions \cup {"no", "exc"}
    BY <1>4, <1>5, <2>2
  <2>5. /\ ccall[r].ph = "done" /\ ccall[r].res = "ok"
        /\ ccall[r].op \in {"update", "cas"} /\ ccall[r].out.status \in Terminal
        => new.status \notin Active
    BY <1>9, <2>3
  <2>6. /\ c.op = tcall[r].op /\ c.out = tcall[r].out /\ c.arg = tcall[r].arg
        /\ (c.ph = "idle" <=> tcall[r].ph = "idle")
    BY <1>1, <2>2 DEF call
  <2> QED BY <1>1, <1>2, <1>4, <1>6, <1>8, <1>9, <1>10, <2>1, <2>2, <2>3, <2>4, <2>5, <2>6, StoreStep
<1>11. CASE rows' = rows /\ tcall' = [tcall EXCEPT ![r] = Raised(call)]
  <2> DEFINE c == Raised(call)
  <2>1. /\ c \in Call /\ c.op = call.op /\ c.out = call.out /\ c.arg = call.arg
        /\ c.ph \in {"sent", "done"} /\ c.res = "exc"
    BY <1>1, <1>5, SeenFacts
  <2>2. tcall' = [tcall EXCEPT ![r] = c] /\ rows' = [rows EXCEPT ![r] = rows[r]]
    BY <1>8, <1>11
  <2> HIDE DEF c
  <2>3. /\ c.op = tcall[r].op /\ c.out = tcall[r].out /\ c.arg = tcall[r].arg
        /\ (c.ph = "idle" <=> tcall[r].ph = "idle")
    BY <1>1, <2>1 DEF call
  <2> QED BY <1>1, <1>2, <1>6, <1>8, <1>9, <2>1, <2>2, <2>3, StoreStep
<1> QED BY <1>7, <1>10, <1>11

(* CancelStore preserves FenceInvariant.                                     *)
LEMMA CancelStoreStep ==
    ASSUME FenceInvariant, NEW r \in Runs, CancelStore(r) PROVE FenceInvariant'
<1> DEFINE call == ccall[r]
           new == Apply(r, call)
           res == Answer(r, call)
<1>1. /\ call \in Call /\ tcall[r] \in Call /\ rows[r] \in Row /\ rec[r] \in Record /\ TypeOK
      /\ RunInvariant(r) /\ call.ph = "sent"
  BY RunFacts DEF FenceInvariant, CancelStore
<1>2. /\ rec[r].live /\ call.op # "put"
      /\ call.op \in {"update", "cas", "put"} => call.out \in Outcomes
      /\ call.op = "request" => call.arg \in Actions
  BY <1>1 DEF RunInvariant, CallsMatch
<1>3. rows[r].status # "absent"
  BY <1>1, <1>2 DEF RunInvariant
<1>4. /\ new \in Row
      /\ new.status = "absent" <=> rows[r].status = "absent"
      /\ new.left = rows[r].left /\ new.taken = rows[r].taken
      /\ rows[r].status \notin Active => new.status \notin Active
      /\ /\ call.op \in {"update", "cas"} /\ call.out.status \in Terminal
         /\ res = "ok"
         => new.status \notin Active
  BY <1>1, <1>2, <1>3, ApplyFacts
<1>5. res \in Replies /\ (call.op = "request" => res \in Actions \cup {"no"})
  BY <1>1, <1>2, AnswerType
<1>6. UNCHANGED <<older, up, rec, tcall, rcall, adm, published, ended>>
  BY DEF CancelStore
<1>7. \/ /\ rows' = [rows EXCEPT ![r] = new]
         /\ \E c \in Seen(call, res) : ccall' = [ccall EXCEPT ![r] = c]
      \/ rows' = rows /\ ccall' = [ccall EXCEPT ![r] = Raised(call)]
  BY DEF CancelStore
<1>8. tcall' = [tcall EXCEPT ![r] = tcall[r]] /\ rows = [rows EXCEPT ![r] = rows[r]]
  BY <1>1, <1>6 DEF TypeOK
<1>9. /\ tcall[r].ph = "done" /\ tcall[r].op = "request" => tcall[r].res \in Actions \cup {"no", "exc"}
      /\ /\ tcall[r].ph = "done" /\ tcall[r].res = "ok"
         /\ tcall[r].op \in {"update", "cas"} /\ tcall[r].out.status \in Terminal
         => rows[r].status \notin Active
  BY <1>1, <1>2 DEF RunInvariant, CallsMatch, ProofMeansClosed
<1> HIDE DEF call, new, res
<1>10. CASE /\ rows' = [rows EXCEPT ![r] = new]
            /\ \E c \in Seen(call, res) : ccall' = [ccall EXCEPT ![r] = c]
  <2>1. PICK c \in Seen(call, res) : ccall' = [ccall EXCEPT ![r] = c]
    BY <1>10
  <2>2. /\ c \in Call /\ c.op = call.op /\ c.out = call.out /\ c.arg = call.arg
        /\ c.ph \in {"sent", "done"} /\ (c.ph = "done" => c.res \in {res, "exc"})
    BY <1>1, <1>5, <2>1, SeenFacts
  <2>3. /\ /\ c.ph = "done" /\ c.res = "ok"
           /\ c.op \in {"update", "cas"} /\ c.out.status \in Terminal
           => new.status \notin Active
        /\ c.ph = "done" /\ c.op = "request" => c.res \in Actions \cup {"no", "exc"}
    BY <1>4, <1>5, <2>2
  <2>4. /\ tcall[r].ph = "done" /\ tcall[r].res = "ok"
        /\ tcall[r].op \in {"update", "cas"} /\ tcall[r].out.status \in Terminal
        => new.status \notin Active
    BY <1>4, <1>9
  <2>5. /\ c.op = ccall[r].op /\ c.out = ccall[r].out /\ c.arg = ccall[r].arg
        /\ (c.ph = "idle" <=> ccall[r].ph = "idle")
    BY <1>1, <2>2 DEF call
  <2> QED BY <1>1, <1>2, <1>4, <1>6, <1>8, <1>9, <1>10, <2>1, <2>2, <2>3, <2>4, <2>5, StoreStep
<1>11. CASE rows' = rows /\ ccall' = [ccall EXCEPT ![r] = Raised(call)]
  <2> DEFINE c == Raised(call)
  <2>1. /\ c \in Call /\ c.op = call.op /\ c.out = call.out /\ c.arg = call.arg
        /\ c.ph \in {"sent", "done"} /\ c.res = "exc"
    BY <1>1, <1>5, SeenFacts
  <2>2. ccall' = [ccall EXCEPT ![r] = c] /\ rows' = [rows EXCEPT ![r] = rows[r]]
    BY <1>8, <1>11
  <2> HIDE DEF c
  <2>3. /\ c.op = ccall[r].op /\ c.out = ccall[r].out /\ c.arg = ccall[r].arg
        /\ (c.ph = "idle" <=> ccall[r].ph = "idle")
    BY <1>1, <2>1 DEF call
  <2> QED BY <1>1, <1>2, <1>6, <1>8, <1>9, <2>1, <2>2, <2>3, StoreStep
<1> QED BY <1>7, <1>10, <1>11

(* renew_lease changes the lease and nothing else.                           *)
LEMMA RenewLeaseFacts ==
    ASSUME NEW row \in Row, NEW l \in Left, NEW a, NEW w
    PROVE  LET new == RenewLease(row, l, a, w)
           IN  /\ new \in Row /\ new.status = row.status /\ new.taken = row.taken
               /\ new.left = IF RenewLeaseOk(row, l, a, w) THEN l ELSE row.left
BY DEF RenewLease, Row

(* A renewal whose answer is lost has the type of a renewal.                 *)
LEMMA RenewRaised ==
    ASSUME NEW call \in Renewal
    PROVE  LET raised == [call EXCEPT !.ph = "done", !.res = "exc"]
           IN  /\ raised \in Renewal /\ raised.ph = "done" /\ raised.left = call.left
               /\ raised.res = "exc"
BY DEF Renewal

(* RenewStore preserves FenceInvariant.                                      *)
LEMMA RenewStoreStep ==
    ASSUME FenceInvariant, NEW r \in Runs, RenewStore(r) PROVE FenceInvariant'
<1> DEFINE call == rcall[r]
           ok == RenewLeaseOk(rows[r], call.left, call.allow, rec[r].home)
           new == RenewLease(rows[r], call.left, call.allow, rec[r].home)
           y == IF ok THEN "ok" ELSE "no"
           z == IF ok THEN rows[r].cancel ELSE "none"
           answer == [call EXCEPT !.ph = "done", !.res = y, !.cancel = z]
           raised == [call EXCEPT !.ph = "done", !.res = "exc"]
<1>1. /\ call \in Renewal /\ rows[r] \in Row /\ rec[r] \in Record /\ TypeOK
      /\ RunInvariant(r) /\ call.ph = "sent"
  BY RunFacts DEF FenceInvariant, RenewStore
<1>2. rec[r].live /\ call.left >= rec[r].left /\ rows[r].left >= rec[r].left /\ rec[r].pc # "put"
  BY <1>1 DEF RunInvariant, CallsMatch, LeaseIsConfirmed, SnapshotIsAlone
<1>3. UNCHANGED <<older, up, rec, tcall, ccall, adm, published, ended>>
  BY DEF RenewStore
<1>4. \/ rows' = [rows EXCEPT ![r] = new] /\ rcall' = [rcall EXCEPT ![r] = answer]
      \/ rows' = [rows EXCEPT ![r] = new] /\ rcall' = [rcall EXCEPT ![r] = raised]
      \/ rows' = rows /\ rcall' = [rcall EXCEPT ![r] = raised]
  BY DEF RenewStore
<1>5. ok \in BOOLEAN
  BY DEF RenewLeaseOk, LiveOwner
<1>6. /\ call.left \in Left /\ z \in {"none"} \cup Actions
      /\ y \in {"ok", "no", "exc"} /\ (y = "ok" => ok)
  BY <1>1, <1>5 DEF Renewal, Row
<1>7. /\ new \in Row /\ new.status = rows[r].status /\ new.taken = rows[r].taken
      /\ new.left = IF ok THEN call.left ELSE rows[r].left
  BY <1>1, <1>6, RenewLeaseFacts
<1> HIDE DEF ok, call, y, z
<1>8. /\ answer \in Renewal /\ answer.ph = "done" /\ answer.left = call.left
      /\ answer.res = "ok" => ok
      /\ raised \in Renewal /\ raised.ph = "done" /\ raised.left = call.left
      /\ raised.res = "exc"
  <2>1. answer \in Renewal /\ answer.ph = "done" /\ answer.left = call.left /\ answer.res = y
    <3>1. call \in Renewal /\ y \in {"ok", "no", "exc"} /\ z \in {"none"} \cup Actions
      BY <1>1, <1>6
    <3> QED BY <3>1 DEF Renewal
  <2>2. raised \in Renewal /\ raised.ph = "done" /\ raised.left = call.left /\ raised.res = "exc"
    BY Zenon, <1>1, RenewRaised
  <2> HIDE DEF answer, raised
  <2> QED BY <1>6, <2>1, <2>2
<1> HIDE DEF new, answer, raised
<1>9. PICK row \in {new, rows[r]}, c \in {answer, raised} :
        /\ rows' = [rows EXCEPT ![r] = row] /\ rcall' = [rcall EXCEPT ![r] = c]
        /\ c.res = "ok" => row = new /\ ok
  <2>1. rows = [rows EXCEPT ![r] = rows[r]]
    BY <1>1 DEF TypeOK
  <2> QED BY <1>4, <1>8, <2>1
<1>10. /\ row \in Row /\ row.status = rows[r].status /\ row.taken = rows[r].taken
       /\ row.left >= rec[r].left
       /\ c \in Renewal /\ c.ph = "done" /\ c.left = call.left
       /\ c.res = "ok" => row.left = call.left
  BY <1>1, <1>2, <1>7, <1>8, <1>9
<1>11. rows'[r] = row /\ rcall'[r] = c /\ tcall'[r] = tcall[r] /\ ccall'[r] = ccall[r] /\ rec'[r] = rec[r]
  BY <1>1, <1>3, <1>9 DEF TypeOK
<1>12. CallsMatch(r)' /\ TimerIsArmed(r)' /\ ProofMeansClosed(r)'
  BY <1>1, <1>2, <1>3, <1>10, <1>11 DEF RunInvariant, CallsMatch, TimerIsArmed, ProofMeansClosed
<1>13. SnapshotIsAlone(r)'
  BY <1>1, <1>2, <1>3, <1>11 DEF RunInvariant, SnapshotIsAlone
<1>14. LeaseIsConfirmed(r)'
  <2>1. call.left >= call.left
    <3>1. ASSUME NEW l \in Left PROVE l >= l
      BY LeftType
    <3> QED BY <1>6, <3>1
  <2>2. row.left >= rec[r].left /\ c.left >= rec[r].left /\ (c.res = "ok" => row.left >= c.left)
    BY <1>2, <1>10, <2>1, Zenon
  <2> QED BY <1>11, <2>2 DEF LeaseIsConfirmed
<1>15. RunInvariant(r)'
  BY <1>1, <1>3, <1>10, <1>11, <1>12, <1>13, <1>14 DEF RunInvariant
<1>16. tcall' \in [Runs -> Call] /\ ccall' \in [Runs -> Call] /\ rcall' \in [Runs -> Renewal]
  BY <1>1, <1>3, <1>9, <1>10 DEF TypeOK
<1>17. \A w \in Workers : r \notin adm[w].run
  BY <1>2, AdmissionOf
<1>18. \A q \in Runs \ {r} :
         tcall'[q] = tcall[q] /\ ccall'[q] = ccall[q] /\ rcall'[q] = rcall[q]
  BY <1>1, <1>3, <1>9 DEF TypeOK
<1> QED BY <1>3, <1>9, <1>10, <1>15, <1>16, <1>17, <1>18, RowsStep

-----------------------------------------------------------------------------
(* Steps that concern several runs.                                          *)

(* The conjunct of a run survives a step that changes its record calmly and  *)
(* leaves its row and calls alone.                                           *)
LEMMA QuietRun ==
    ASSUME NEW q \in Runs, RunInvariant(q), rec[q] \in Record, rec'[q] \in Record,
           Calm(rec[q], rec'[q]), rec'[q].pc = rec[q].pc,
           \/ rec'[q].proof = rec[q].proof
           \/ rows[q].status \notin Active /\ (rec'[q].abort # "none" \/ rec'[q].lost),
           tcall'[q] = tcall[q], ccall'[q] = ccall[q], rcall'[q] = rcall[q],
           rows'[q].left = rows[q].left, rows'[q].taken = rows[q].taken,
           rows'[q].status = rows[q].status
             \/ (rows'[q].status \notin Active /\ rows'[q].status # "absent"),
           rec[q].live /\ rec[q].pc = "put" =>
             rec'[q].proof = rec[q].proof /\ \A w \in Workers : q \notin adm'[w].cands
    PROVE  RunInvariant(q)'
<1>1. CallsMatch(q)'
  BY DEF RunInvariant, CallsMatch, Calm
<1>2. LeaseIsConfirmed(q)' /\ TimerIsArmed(q)'
  BY DEF RunInvariant, LeaseIsConfirmed, TimerIsArmed, Calm
<1>3. ProofMeansClosed(q)'
  BY DEF RunInvariant, ProofMeansClosed, Calm
<1>4. SnapshotIsAlone(q)'
  BY DEF RunInvariant, SnapshotIsAlone, Calm
<1> QED BY <1>1, <1>2, <1>3, <1>4 DEF RunInvariant, Calm

(* The conjunct of a run that no live worker holds, as after a crash or an   *)
(* eviction.                                                                 *)
LEMMA DeadRun ==
    ASSUME NEW q \in Runs, ~rec'[q].live, rec'[q].proof = NoOutcome,
           tcall'[q].ph = "idle", ccall'[q].ph = "idle", rcall'[q].ph = "idle",
           tcall'[q].op # "request", ccall'[q].op = "none",
           rows'[q].status = "absent" => ~rows'[q].taken
    PROVE  RunInvariant(q)'
<1>1. CallsMatch(q)'
  BY DEF CallsMatch
<1>2. LeaseIsConfirmed(q)' /\ TimerIsArmed(q)' /\ ProofMeansClosed(q)' /\ SnapshotIsAlone(q)'
  BY DEF LeaseIsConfirmed, TimerIsArmed, ProofMeansClosed, SnapshotIsAlone
<1> QED BY <1>1, <1>2 DEF RunInvariant

(* The fields of the idle values.                                            *)
LEMMA IdleFields ==
    /\ NoRecord.live = FALSE /\ NoRecord.proof = NoOutcome
    /\ NoCall.ph = "idle" /\ NoCall.op = "none" /\ NoRenewal.ph = "idle"
    /\ NoAdmission.ph = "idle" /\ NoAdmission.cands = {} /\ NoAdmission.run = {}
    /\ AbsentRow.status = "absent" /\ AbsentRow.taken = FALSE
BY DEF NoRecord, NoCall, NoRenewal, NoAdmission, AbsentRow

(* FenceInvariant holds initially: no row exists and nothing is in flight.   *)
LEMMA InitInvariant == Init => FenceInvariant
<1> SUFFICES ASSUME Init PROVE FenceInvariant
  OBVIOUS
<1>1. TypeOK
  BY Constants DEF Init, TypeOK
<1>2. ASSUME NEW q \in Runs PROVE RunInvariant(q)
  <2>1. /\ rec[q] = NoRecord /\ tcall[q] = NoCall /\ ccall[q] = NoCall /\ rcall[q] = NoRenewal
        /\ rows[q] = AbsentRow
    BY DEF Init
  <2>2. CallsMatch(q) /\ LeaseIsConfirmed(q) /\ TimerIsArmed(q) /\ ProofMeansClosed(q) /\ SnapshotIsAlone(q)
    BY <2>1, IdleFields DEF CallsMatch, LeaseIsConfirmed, TimerIsArmed, ProofMeansClosed, SnapshotIsAlone
  <2> QED BY <2>1, <2>2, IdleFields DEF RunInvariant
<1>3. ASSUME NEW w \in Workers PROVE AdmissionIsFresh(w)
  <2>1. adm[w] = NoAdmission
    BY DEF Init
  <2> QED BY <2>1, IdleFields DEF AdmissionIsFresh
<1> QED BY <1>1, <1>2, <1>3 DEF FenceInvariant

(* What is left of a record that was dropped.                                *)
LEMMA UnregisteredFacts ==
    ASSUME NEW w \in Workers \cup {NoWorker}, NEW l \in Left
    PROVE  /\ Unregistered(w, l) \in Record /\ ~Unregistered(w, l).live
           /\ Unregistered(w, l).proof = NoOutcome
<1>1. NoRecord \in Record /\ "done" \in Steps
  BY Constants DEF Steps
<1>2. Unregistered(w, l) \in Record
  BY <1>1, Zenon DEF Record, Unregistered
<1>3. Unregistered(w, l).live = NoRecord.live /\ Unregistered(w, l).proof = NoRecord.proof
  BY DEF Unregistered
<1> QED BY <1>2, <1>3, IdleFields

(* Evict preserves FenceInvariant.                                           *)
LEMMA EvictStep ==
    ASSUME FenceInvariant, NEW r \in Runs, Evict(r) PROVE FenceInvariant'
<1> DEFINE b == Unregistered(rec[r].home, rec[r].left)
<1>1. /\ TypeOK /\ rec[r] \in Record /\ rec[r].live /\ rec[r].pc = "done" /\ RunInvariant(r)
      /\ ccall[r].ph = "idle" /\ rcall[r].ph = "idle" /\ GateFree(rec[r].home) /\ OnlyRec(r, b)
      /\ ccall[r].op # "update"
  BY RunFacts DEF Evict, CanStep, Alive, FenceInvariant, CallsMatch
<1>2. b \in Record /\ ~b.live /\ b.proof = NoOutcome
  BY <1>1, FieldTypes, UnregisteredFacts
<1> HIDE DEF b
<1>3. /\ rec' = [rec EXCEPT ![r] = b]
      /\ UNCHANGED <<rows, older, up, tcall, ccall, rcall, adm, published, ended>>
  BY <1>1 DEF OnlyRec
<1>4. TypeOK'
  BY <1>1, <1>2, <1>3 DEF TypeOK
<1>5. rec'[r] = b /\ \A q \in Runs : q # r => rec'[q] = rec[q]
  BY <1>1, <1>3 DEF TypeOK
<1>6. tcall[r].ph = "idle"
  BY <1>1 DEF RunInvariant, CallsMatch, Calling
<1>7. RunInvariant(r)'
  <2>1. CallsMatch(r)'
    BY <1>1, <1>3, <1>5, <1>6 DEF RunInvariant, CallsMatch
  <2>2. LeaseIsConfirmed(r)' /\ TimerIsArmed(r)' /\ ProofMeansClosed(r)' /\ SnapshotIsAlone(r)'
    BY <1>1, <1>2, <1>3, <1>5, <1>6 DEF LeaseIsConfirmed, TimerIsArmed, ProofMeansClosed, SnapshotIsAlone
  <2> QED BY <1>1, <1>2, <1>3, <1>5, <2>1, <2>2 DEF RunInvariant
<1>8. ASSUME NEW q \in Runs, q # r PROVE RunInvariant(q)'
  <2>1. RunInvariant(q) /\ rec[q] \in Record
    BY RunFacts DEF FenceInvariant
  <2>2. Calm(rec[q], rec'[q]) /\ rec'[q] = rec[q]
    BY <1>5, <1>8 DEF Calm
  <2>3. rec[q].live /\ rec[q].pc = "put" => \A w \in Workers : q \notin adm'[w].cands
    BY <1>3, <2>1 DEF RunInvariant, SnapshotIsAlone
  <2> QED BY <1>3, <2>1, <2>2, <2>3, QuietRun
<1>9. ASSUME NEW w \in Workers PROVE AdmissionIsFresh(w)'
  <2>1. AdmissionIsFresh(w)
    BY DEF FenceInvariant
  <2>2. adm[w].run \subseteq Runs /\ adm[w].cands \subseteq Runs
    BY <1>1 DEF TypeOK, Admission
  <2>3. r \notin adm[w].cands
    BY <1>1, <2>1, IdleFields DEF AdmissionIsFresh, GateFree
  <2>4. /\ \A q \in adm[w].cands : rec'[q] = rec[q]
        /\ \A q \in adm[w].run : rec'[q].live => rec[q].live
    BY <1>2, <1>5, <2>2, <2>3
  <2> QED BY <1>3, <2>1, <2>4 DEF AdmissionIsFresh
<1> QED BY <1>4, <1>7, <1>8, <1>9 DEF FenceInvariant

(* The conjunct of a run that a step does not touch.                         *)
LEMMA SameRun ==
    ASSUME FenceInvariant, NEW q \in Runs, rec'[q] = rec[q], rows'[q] = rows[q],
           tcall'[q] = tcall[q], ccall'[q] = ccall[q], rcall'[q] = rcall[q],
           \A w \in Workers : q \in adm'[w].cands => q \in adm[w].cands
    PROVE  RunInvariant(q)'
<1>1. RunInvariant(q) /\ rec[q] \in Record
  BY RunFacts DEF FenceInvariant
<1>2. Calm(rec[q], rec'[q])
  BY DEF Calm
<1>3. rec[q].live /\ rec[q].pc = "put" => \A w \in Workers : q \notin adm'[w].cands
  BY <1>1 DEF RunInvariant, SnapshotIsAlone
<1> QED BY <1>1, <1>2, <1>3, QuietRun

(* Crash preserves FenceInvariant.                                           *)
LEMMA CrashStep ==
    ASSUME FenceInvariant, NEW w \in Workers, Crash(w) PROVE FenceInvariant'
<1> DEFINE b == Unregistered(w, Floor)
<1>1. /\ TypeOK /\ b \in Record /\ ~b.live /\ b.proof = NoOutcome
  BY UnregisteredFacts, LeftType DEF FenceInvariant
<1>2. /\ up' = up \ {w} /\ adm' = [adm EXCEPT ![w] = NoAdmission]
      /\ rec' = [q \in Runs |-> IF rec[q].home = w THEN b ELSE rec[q]]
      /\ tcall' = [q \in Runs |-> IF rec[q].home = w THEN NoCall ELSE tcall[q]]
      /\ ccall' = [q \in Runs |-> IF rec[q].home = w THEN NoCall ELSE ccall[q]]
      /\ rcall' = [q \in Runs |-> IF rec[q].home = w THEN NoRenewal ELSE rcall[q]]
      /\ UNCHANGED <<rows, older, published, ended>>
  BY DEF Crash
<1> HIDE DEF b
<1>3. TypeOK'
  <2>1. rec' \in [Runs -> Record] /\ tcall' \in [Runs -> Call] /\ ccall' \in [Runs -> Call]
    BY <1>1, <1>2, Constants DEF TypeOK
  <2>2. rcall' \in [Runs -> Renewal] /\ adm' \in [Workers -> Admission] /\ up' \in SUBSET Workers
    BY <1>1, <1>2, Constants DEF TypeOK
  <2> QED BY <1>1, <1>2, <2>1, <2>2 DEF TypeOK
<1>4. adm'[w] = NoAdmission /\ \A v \in Workers : v # w => adm'[v] = adm[v]
  BY <1>1, <1>2 DEF TypeOK
<1>5. ASSUME NEW q \in Runs PROVE RunInvariant(q)'
  <2>1. CASE rec[q].home = w
    <3>1. /\ rec'[q] = b /\ tcall'[q] = NoCall /\ ccall'[q] = NoCall /\ rcall'[q] = NoRenewal
          /\ rows'[q] = rows[q]
      BY <1>2, <2>1
    <3>2. rows[q].status = "absent" => ~rows[q].taken
      BY DEF FenceInvariant, RunInvariant
    <3> QED BY <1>1, <3>1, <3>2, IdleFields, DeadRun
  <2>2. CASE rec[q].home # w
    <3>1. /\ rec'[q] = rec[q] /\ tcall'[q] = tcall[q] /\ ccall'[q] = ccall[q]
          /\ rcall'[q] = rcall[q] /\ rows'[q] = rows[q]
      BY <1>2, <2>2
    <3>2. \A v \in Workers : q \in adm'[v].cands => q \in adm[v].cands
      BY <1>4, IdleFields
    <3> QED BY <3>1, <3>2, SameRun
  <2> QED BY <2>1, <2>2
<1>6. ASSUME NEW v \in Workers PROVE AdmissionIsFresh(v)'
  <2>1. CASE v = w
    BY <1>4, <2>1, IdleFields DEF AdmissionIsFresh
  <2>2. CASE v # w
    <3>1. AdmissionIsFresh(v) /\ adm'[v] = adm[v] /\ adm[v].cands \subseteq Runs /\ adm[v].run \subseteq Runs
      BY <1>1, <1>4, <2>2 DEF FenceInvariant, TypeOK, Admission
    <3>2. \A q \in adm[v].cands : rec'[q] = rec[q]
      BY <1>2, <2>2, <3>1 DEF AdmissionIsFresh
    <3>3. \A q \in adm[v].run : ~rec'[q].live
      BY <1>1, <1>2, <3>1 DEF AdmissionIsFresh
    <3>4. \A u \in Workers, q \in Runs : q \in adm'[v].run /\ q \in adm'[u].run => u = v
      BY <1>4, <3>1, IdleFields DEF AdmissionIsFresh
    <3>5. \A q \in adm[v].cands : rec'[q].live /\ rec'[q].home = v
      BY <3>1, <3>2 DEF AdmissionIsFresh
    <3>6. /\ adm[v].ph = "idle" => adm[v] = NoAdmission
          /\ adm[v].cands # {} => adm[v].strategy \in Actions
          /\ \A q, r \in adm[v].run : q = r
          /\ adm[v].ph = "sent" => \A r \in adm[v].run : rows'[r].status = "absent"
      BY <1>2, <3>1 DEF AdmissionIsFresh
    <3>7. adm[v].ph = "done" /\ adm[v].res = "ok" =>
            /\ \A r \in adm[v].run : /\ rows'[r].status # "absent"
                                     /\ rows'[r].left >= adm[v].left
                                     /\ rows'[r].taken => adm[v].left <= 0
            /\ \A q \in adm[v].cands \cap adm[v].claimed : rows'[q].status \notin Active
      BY <1>2, <3>1 DEF AdmissionIsFresh
    <3> QED BY <3>1, <3>3, <3>4, <3>5, <3>6, <3>7 DEF AdmissionIsFresh
  <2> QED BY <2>1, <2>2
<1> QED BY <1>3, <1>5, <1>6 DEF FenceInvariant

(* Registering a terminal attempt for a candidate only raises its commit     *)
(* barrier.                                                                  *)
LEMMA PendingFacts ==
    ASSUME NEW a \in Record, NEW p \in BOOLEAN
    PROVE  LET b == [a EXCEPT !.pending = p]
           IN  b \in Record /\ Quiet(a, b) /\ b.pc = a.pc
<1> DEFINE b == [a EXCEPT !.pending = p]
<1>1. b \in Record
  BY Zenon DEF Record
<1>2. /\ b.live = a.live /\ b.home = a.home /\ b.left = a.left
      /\ b.lost = a.lost /\ b.abort = a.abort /\ b.proof = a.proof
      /\ b.pc = a.pc /\ b.armed = a.armed
  OBVIOUS
<1> HIDE DEF b
<1>3. Quiet(a, b)
  BY <1>2 DEF Quiet, Calm
<1> QED BY <1>1, <1>2, <1>3 DEF b

(* AdmitBegin preserves FenceInvariant.                                      *)
LEMMA AdmitBeginStep ==
    ASSUME FenceInvariant, NEW w \in Workers, NEW r \in Runs, NEW strategy \in Strategies,
           AdmitBegin(w, r, strategy)
    PROVE  FenceInvariant'
<1> DEFINE cands == IF strategy = "reject" THEN {} ELSE LocalInflight(w)
           was == {q \in cands : rec[q].pending}
           a == [ph |-> "sent", run |-> {r}, strategy |-> strategy, left |-> Lease,
                 cands |-> cands, was |-> was, claimed |-> {}, res |-> "-"]
<1>1. /\ TypeOK /\ rows[r].status = "absent" /\ GateFree(w)
      /\ \A v \in Workers : r \notin adm[v].run
      /\ adm' = [adm EXCEPT ![w] = a]
      /\ rec' = [q \in Runs |-> IF q \in cands THEN [rec[q] EXCEPT !.pending = TRUE] ELSE rec[q]]
      /\ UNCHANGED <<rows, older, up, tcall, ccall, rcall, published, ended>>
  BY DEF FenceInvariant, AdmitBegin
<1>2. /\ cands \subseteq Runs /\ was \subseteq Runs
      /\ \A q \in cands : rec[q].live /\ rec[q].home = w /\ rec[q].pc # "put"
  BY <1>1 DEF LocalInflight, GateFree
<1>3. /\ strategy \in {"reject", "interrupt", "rollback"}
      /\ cands # {} => strategy \in Actions
  BY OwnershipAssumption DEF OwnershipAssumption, Actions
<1>4. ~rec[r].live
  BY <1>1 DEF FenceInvariant, RunInvariant
<1> HIDE DEF cands, was
<1>5. /\ a \in Admission /\ a.ph = "sent" /\ a.run = {r} /\ a.cands = cands /\ a.strategy = strategy
  BY <1>2, <1>3, LeftType DEF Admission
<1> HIDE DEF a
<1>6. ASSUME NEW q \in Runs PROVE rec'[q] \in Record /\ Quiet(rec[q], rec'[q]) /\ rec'[q].pc = rec[q].pc
  <2>1. rec[q] \in Record
    BY RunFacts
  <2>2. CASE q \in cands
    <3> DEFINE b == [rec[q] EXCEPT !.pending = TRUE]
    <3>1. b \in Record /\ Quiet(rec[q], b) /\ b.pc = rec[q].pc
      BY <2>1, PendingFacts
    <3>2. rec'[q] = b
      BY <1>1, <2>2
    <3> HIDE DEF b
    <3> QED BY <3>1, <3>2
  <2>3. CASE q \notin cands
    <3>1. rec'[q] = rec[q]
      BY <1>1, <2>3
    <3> QED BY <2>1, <3>1, QuietSelf
  <2> QED BY <2>2, <2>3
<1>7. adm'[w] = a /\ \A v \in Workers : v # w => adm'[v] = adm[v]
  BY <1>1 DEF TypeOK
<1>8. TypeOK'
  <2>1. DOMAIN rec' = Runs /\ rec' = [q \in Runs |-> rec'[q]]
    BY <1>1
  <2>2. rec' \in [Runs -> Record]
    BY <1>6, <2>1
  <2>3. adm' \in [Workers -> Admission]
    BY <1>1, <1>5 DEF TypeOK
  <2> QED BY <1>1, <2>2, <2>3 DEF TypeOK
<1>9. ASSUME NEW q \in Runs PROVE RunInvariant(q)'
  <2>1. RunInvariant(q) /\ rec[q] \in Record
    BY RunFacts DEF FenceInvariant
  <2>2. rec[q].live /\ rec[q].pc = "put" => \A v \in Workers : q \notin adm'[v].cands
    BY <1>2, <1>5, <1>7, <2>1 DEF RunInvariant, SnapshotIsAlone
  <2> QED BY <1>1, <1>6, <2>1, <2>2, QuietRun DEF Quiet
<1>10. \A q \in Runs : rec'[q].live = rec[q].live /\ rec'[q].home = rec[q].home
  BY <1>6 DEF Quiet, Calm
<1>11. ASSUME NEW v \in Workers PROVE AdmissionIsFresh(v)'
  <2>1. CASE v = w
    <3>1. \A u \in Workers, q \in Runs : q \in adm'[w].run /\ q \in adm'[u].run => u = w
      BY <1>1, <1>5, <1>7
    <3> QED BY <1>1, <1>2, <1>3, <1>4, <1>5, <1>7, <1>10, <2>1, <3>1 DEF AdmissionIsFresh
  <2>2. CASE v # w
    <3>1. AdmissionIsFresh(v) /\ adm'[v] = adm[v] /\ adm[v].cands \subseteq Runs /\ adm[v].run \subseteq Runs
      BY <1>1, <1>7, <2>2 DEF FenceInvariant, TypeOK, Admission
    <3>2. \A u \in Workers, q \in Runs : q \in adm'[v].run /\ q \in adm'[u].run => u = v
      BY <1>1, <1>5, <1>7, <3>1 DEF AdmissionIsFresh
    <3> QED BY <1>1, <1>10, <3>1, <3>2 DEF AdmissionIsFresh
  <2> QED BY <2>1, <2>2
<1> QED BY <1>8, <1>9, <1>11 DEF FenceInvariant

(* The row that an admission inserts.                                        *)
LEMMA CreatedRow ==
    ASSUME NEW w \in Workers, NEW l \in Left
    PROVE  LET n == [status |-> "pending", owner |-> w, left |-> l, cancel |-> "none", taken |-> FALSE]
           IN  n \in Row /\ n.status = "pending" /\ n.left = l /\ ~n.taken
BY StatusNames DEF Row

(* A row that an admission claims becomes interrupted and changes its owner. *)
LEMMA ClaimedRow ==
    ASSUME NEW row \in Row, NEW w \in Workers
    PROVE  LET n == [row EXCEPT !.status = "interrupted", !.owner = w]
           IN  /\ n \in Row /\ n.status = "interrupted"
               /\ n.left = row.left /\ n.taken = row.taken
BY StatusNames DEF Row

(* The fields of an admission once the store has answered.                   *)
LEMMA AnsweredFacts ==
    ASSUME NEW a \in Admission, NEW res \in {"ok", "no", "exc"}, NEW claimed \in SUBSET Runs
    PROVE  LET b == Answered(a, res, claimed)
           IN  /\ b \in Admission /\ b.ph = "done" /\ b.res = res /\ b.claimed = claimed
               /\ b.run = a.run /\ b.cands = a.cands /\ b.left = a.left /\ b.strategy = a.strategy
BY DEF Answered, Admission

(* The admission is answered, and every row keeps what the invariant needs.  *)
LEMMA AnsweredStep ==
    ASSUME FenceInvariant, NEW w \in Workers, adm[w].ph = "sent",
           NEW res \in {"ok", "no", "exc"}, NEW claimed \in SUBSET Runs,
           adm' = [adm EXCEPT ![w] = Answered(adm[w], res, claimed)],
           rows' \in [Runs -> Row], older' \in [Runs -> SUBSET Runs],
           UNCHANGED <<up, rec, tcall, ccall, rcall, published, ended>>,
           \A q \in Runs : \/ rows'[q] = rows[q]
                           \/ /\ rows[q].status # "absent" /\ rows'[q].status = "interrupted"
                              /\ rows'[q].left = rows[q].left /\ rows'[q].taken = rows[q].taken
                           \/ /\ q \in adm[w].run /\ rows'[q].status = "pending"
                              /\ rows'[q].left = adm[w].left /\ ~rows'[q].taken,
           res = "ok" => /\ \A q \in adm[w].run : rows'[q].status = "pending"
                                                  /\ rows'[q].left = adm[w].left /\ ~rows'[q].taken
                         /\ \A q \in claimed : q \in adm[w].run \/ rows'[q].status = "interrupted"
    PROVE  FenceInvariant'
<1> DEFINE a == Answered(adm[w], res, claimed)
<1>1. TypeOK /\ adm[w] \in Admission /\ AdmissionIsFresh(w)
  BY DEF FenceInvariant, TypeOK
<1>2. /\ a \in Admission /\ a.ph = "done" /\ a.res = res /\ a.claimed = claimed
      /\ a.run = adm[w].run /\ a.cands = adm[w].cands /\ a.left = adm[w].left
      /\ a.strategy = adm[w].strategy
  BY <1>1, AnsweredFacts
<1>3. adm'[w] = a /\ \A v \in Workers : v # w => adm'[v] = adm[v]
  BY <1>1 DEF TypeOK
<1> HIDE DEF a
<1>4. TypeOK'
  <2>1. adm' \in [Workers -> Admission]
    BY <1>1, <1>2 DEF TypeOK, a
  <2> QED BY <1>1, <2>1 DEF TypeOK
<1>5. /\ "interrupted" \notin Active /\ "pending" # "absent" /\ "interrupted" # "absent"
      /\ "absent" \notin Active
  BY StatusNames
<1>6. \A v \in Workers : adm'[v].run = adm[v].run /\ adm'[v].cands = adm[v].cands
  BY <1>2, <1>3
<1>7. adm[w].run \subseteq Runs /\ adm[w].cands \subseteq Runs /\ adm[w].left \in Left
  BY <1>1 DEF Admission
<1>8. \A q \in adm[w].run : ~rec[q].live /\ rows[q].status = "absent"
  BY <1>1 DEF AdmissionIsFresh
<1>9. ASSUME NEW q \in Runs PROVE RunInvariant(q)'
  <2>1. RunInvariant(q) /\ rec[q] \in Record
    BY RunFacts DEF FenceInvariant
  <2>2. CASE q \in adm[w].run /\ rows'[q].status = "pending" /\ ~rows'[q].taken
    <3>1. ~rec[q].live /\ ~rec'[q].live
      BY <1>8, <2>2
    <3>2. CallsMatch(q)' /\ TimerIsArmed(q)' /\ SnapshotIsAlone(q)'
      BY <2>1, <3>1 DEF RunInvariant, CallsMatch, TimerIsArmed, SnapshotIsAlone
    <3>3. LeaseIsConfirmed(q)' /\ ProofMeansClosed(q)'
      BY <2>1, <3>1 DEF RunInvariant, CallsMatch, LeaseIsConfirmed, ProofMeansClosed
    <3> QED BY <1>5, <2>2, <3>2, <3>3 DEF RunInvariant
  <2>3. CASE \/ rows'[q] = rows[q]
             \/ /\ rows[q].status # "absent" /\ rows'[q].status = "interrupted"
                /\ rows'[q].left = rows[q].left /\ rows'[q].taken = rows[q].taken
    <3>1. Calm(rec[q], rec'[q]) /\ rec'[q] = rec[q]
      BY DEF Calm
    <3>2. rec[q].live /\ rec[q].pc = "put" => \A v \in Workers : q \notin adm'[v].cands
      BY <1>6, <2>1 DEF RunInvariant, SnapshotIsAlone
    <3>3. /\ rows'[q].left = rows[q].left /\ rows'[q].taken = rows[q].taken
          /\ rows'[q].status = rows[q].status
               \/ (rows'[q].status \notin Active /\ rows'[q].status # "absent")
      BY <1>5, <2>3
    <3> QED BY <2>1, <3>1, <3>2, <3>3, QuietRun
  <2> QED BY <2>2, <2>3
<1>10. ASSUME NEW v \in Workers PROVE AdmissionIsFresh(v)'
  <2>1. AdmissionIsFresh(v) /\ adm[v].run \subseteq Runs /\ adm[v].cands \subseteq Runs
    BY <1>1 DEF FenceInvariant, TypeOK, Admission
  <2>2. /\ \A q \in adm'[v].cands : rec'[q].live /\ rec'[q].home = v
        /\ \A q \in adm'[v].run : ~rec'[q].live
        /\ \A p, q \in adm'[v].run : p = q
        /\ \A u \in Workers, q \in Runs : q \in adm'[v].run /\ q \in adm'[u].run => u = v
    BY <1>6, <2>1 DEF AdmissionIsFresh
  <2>3. CASE v = w
    <3>1. res = "ok" => \A q \in adm[w].run : rows'[q].left >= adm[w].left
      <4>1. ASSUME NEW l \in Left PROVE l >= l
        BY LeftType
      <4>2. adm[w].left >= adm[w].left
        BY <1>7, <4>1
      <4> QED BY <1>7, <4>2, Zenon
    <3>2. res = "ok" => \A q \in adm[w].cands \cap claimed : rows'[q].status \notin Active
      BY <1>1, <1>5, <1>8 DEF AdmissionIsFresh
    <3>3. a.ph = "done" /\ a.res = "ok" =>
            /\ \A q \in a.run : /\ rows'[q].status # "absent"
                                /\ rows'[q].left >= a.left
                                /\ rows'[q].taken => a.left <= 0
            /\ \A q \in a.cands \cap a.claimed : rows'[q].status \notin Active
      BY <1>2, <1>5, <3>1, <3>2
    <3>4. a.cands # {} => a.strategy \in Actions
      BY <1>1, <1>2 DEF AdmissionIsFresh
    <3> QED BY <1>2, <1>3, <2>2, <2>3, <3>3, <3>4 DEF AdmissionIsFresh
  <2>4. CASE v # w
    <3>1. adm'[v] = adm[v] /\ \A q \in adm[v].run : q \notin adm[w].run
      BY <1>1, <1>3, <2>1, <2>4 DEF AdmissionIsFresh
    <3>2. \A q \in adm[v].run : \/ rows'[q] = rows[q]
                                \/ /\ rows[q].status # "absent" /\ rows'[q].status = "interrupted"
                                   /\ rows'[q].left = rows[q].left /\ rows'[q].taken = rows[q].taken
      BY <2>1, <3>1
    <3>3. \A q \in adm[v].cands : rows[q].status \notin Active => rows'[q].status \notin Active
      BY <1>5, <1>8, <2>1 DEF AdmissionIsFresh
    <3>4. adm[v].ph = "sent" => \A q \in adm[v].run : rows'[q].status = "absent"
      BY <2>1, <3>2 DEF AdmissionIsFresh
    <3>5. adm[v].ph = "done" /\ adm[v].res = "ok" =>
            /\ \A q \in adm[v].run : /\ rows'[q].status # "absent"
                                     /\ rows'[q].left >= adm[v].left
                                     /\ rows'[q].taken => adm[v].left <= 0
            /\ \A q \in adm[v].cands \cap adm[v].claimed : rows'[q].status \notin Active
      BY <1>5, <2>1, <3>2, <3>3 DEF AdmissionIsFresh
    <3>6. /\ adm[v].ph = "idle" => adm[v] = NoAdmission
          /\ adm[v].cands # {} => adm[v].strategy \in Actions
      BY <2>1 DEF AdmissionIsFresh
    <3> QED BY <2>2, <3>1, <3>4, <3>5, <3>6 DEF AdmissionIsFresh
  <2> QED BY <2>3, <2>4
<1> QED BY <1>4, <1>9, <1>10 DEF FenceInvariant

(* AdmitStore preserves FenceInvariant.                                      *)
LEMMA AdmitStoreStep ==
    ASSUME FenceInvariant, NEW w \in Workers, AdmitStore(w) PROVE FenceInvariant'
<1>1. /\ TypeOK /\ adm[w].ph = "sent" /\ AdmissionIsFresh(w) /\ adm[w] \in Admission
      /\ UNCHANGED <<up, rec, tcall, ccall, rcall, published, ended>>
  BY DEF FenceInvariant, TypeOK, AdmitStore
<1>2. /\ adm[w].run \subseteq Runs /\ adm[w].left \in Left
      /\ ActiveRows(rows) \subseteq Runs /\ {} \in SUBSET Runs
  BY <1>1 DEF Admission, ActiveRows
<1>3. PICK r \in adm[w].run :
         \/ /\ rows' = CreateThreadOperation(rows, r, w, adm[w].left)
            /\ older' = [older EXCEPT ![r] = {q \in Runs : rows[q].status # "absent"}]
            /\ \E res \in {"ok", "exc"} :
                 adm' = [adm EXCEPT ![w] = Answered(adm[w], res, ActiveRows(rows))]
         \/ /\ \E res \in {"no", "exc"} : adm' = [adm EXCEPT ![w] = Answered(adm[w], res, {})]
            /\ UNCHANGED <<rows, older>>
  BY <1>1 DEF AdmitStore, TypeOK
<1>4. CASE /\ \E res \in {"no", "exc"} : adm' = [adm EXCEPT ![w] = Answered(adm[w], res, {})]
           /\ UNCHANGED <<rows, older>>
  <2>1. PICK res \in {"no", "exc"} : adm' = [adm EXCEPT ![w] = Answered(adm[w], res, {})]
    BY <1>4
  <2>2. rows' \in [Runs -> Row] /\ older' \in [Runs -> SUBSET Runs]
    BY <1>1, <1>4 DEF TypeOK
  <2> QED BY <1>1, <1>2, <1>4, <2>1, <2>2, AnsweredStep
<1>5. CASE /\ rows' = CreateThreadOperation(rows, r, w, adm[w].left)
           /\ older' = [older EXCEPT ![r] = {q \in Runs : rows[q].status # "absent"}]
           /\ \E res \in {"ok", "exc"} :
                adm' = [adm EXCEPT ![w] = Answered(adm[w], res, ActiveRows(rows))]
  <2>1. PICK res \in {"ok", "exc"} :
             adm' = [adm EXCEPT ![w] = Answered(adm[w], res, ActiveRows(rows))]
    BY <1>5
  <2> DEFINE n == [status |-> "pending", owner |-> w, left |-> adm[w].left,
                   cancel |-> "none", taken |-> FALSE]
             c(q) == [rows[q] EXCEPT !.status = "interrupted", !.owner = w]
  <2>2. n \in Row /\ n.status = "pending" /\ n.left = adm[w].left /\ ~n.taken
    BY <1>2, CreatedRow
  <2>3. ASSUME NEW q \in Runs
        PROVE  /\ rows[q] \in Row /\ c(q) \in Row /\ c(q).status = "interrupted"
               /\ c(q).left = rows[q].left /\ c(q).taken = rows[q].taken
    BY Zenon, RunFacts, ClaimedRow
  <2>4. rows' = [q \in Runs |-> IF q = r THEN n ELSE IF q \in ActiveRows(rows) THEN c(q) ELSE rows[q]]
    BY Zenon, <1>5 DEF CreateThreadOperation
  <2> HIDE DEF n, c
  <2>5. rows' \in [Runs -> Row]
    BY <2>2, <2>3, <2>4
  <2>6. older' \in [Runs -> SUBSET Runs]
    BY <1>1, <1>5 DEF TypeOK
  <2>7. r \in Runs /\ \A q \in adm[w].run : q = r
    BY <1>1, <1>2 DEF AdmissionIsFresh
  <2>8. \A q \in ActiveRows(rows) : rows[q].status # "absent"
    BY StatusNames DEF ActiveRows
  <2>9. \A q \in Runs : \/ rows'[q] = rows[q]
                        \/ /\ rows[q].status # "absent" /\ rows'[q].status = "interrupted"
                           /\ rows'[q].left = rows[q].left /\ rows'[q].taken = rows[q].taken
                        \/ /\ q \in adm[w].run /\ rows'[q].status = "pending"
                           /\ rows'[q].left = adm[w].left /\ ~rows'[q].taken
    BY <2>2, <2>3, <2>4, <2>7, <2>8
  <2>10. /\ \A q \in adm[w].run : rows'[q].status = "pending"
                                  /\ rows'[q].left = adm[w].left /\ ~rows'[q].taken
         /\ \A q \in ActiveRows(rows) : q \in adm[w].run \/ rows'[q].status = "interrupted"
    BY <1>2, <2>2, <2>3, <2>4, <2>7
  <2> QED BY <1>1, <1>2, <2>1, <2>5, <2>6, <2>9, <2>10, AnsweredStep
<1> QED BY <1>3, <1>4, <1>5

(* A registered record has its timer armed, or is fenced at once because its *)
(* lease ran out while the admission waited.                                 *)
LEMMA NewRecordFacts ==
    ASSUME NEW w \in Workers, NEW l \in Left
    PROVE  LET b == NewRecord(w, l)
           IN  /\ b \in Record /\ b.live /\ b.home = w /\ b.left = l /\ b.proof = NoOutcome
               /\ b.pc = "none" /\ (b.armed \/ b.lost)
               /\ b.armed => l > 0
               /\ l <= 0 => b.lost
<1> DEFINE a == [NoRecord EXCEPT !.live = TRUE, !.home = w, !.left = l, !.armed = TRUE]
<1>1. NoRecord \in Record /\ NoRecord.pc = "none" /\ NoRecord.proof = NoOutcome /\ NoRecord.lost = FALSE
  BY Zenon, Constants DEF NoRecord
<1>2. a \in Record
  BY <1>1, Zenon DEF Record
<1>3. a.live /\ a.home = w /\ a.left = l /\ a.armed
  BY <1>1, Zenon DEF Record
<1>4. a.proof = NoRecord.proof /\ a.pc = NoRecord.pc /\ a.lost = NoRecord.lost
  OBVIOUS
<1>5. NewRecord(w, l) = IF l > 0 THEN a ELSE Fence(a)
  BY DEF NewRecord
<1> HIDE DEF a
<1>6. ~FinalAck(a)
  BY <1>1, <1>2, <1>4, FinalAckHasProof
<1>7. l \in Int
  BY LeftType
<1>8. CASE l > 0
  BY <1>1, <1>2, <1>3, <1>4, <1>5, <1>7, <1>8
<1>9. CASE ~(l > 0)
  <2> DEFINE f == Fence(a)
  <2>1. /\ f \in Record /\ Calm(a, f) /\ f.proof = a.proof /\ f.pc = a.pc /\ f.lost /\ ~f.armed
    BY <1>1, <1>2, <1>3, <1>4, <1>6, FenceType, FenceCalm
  <2>2. NewRecord(w, l) = f
    BY <1>5, <1>9
  <2> HIDE DEF f
  <2> QED BY <1>1, <1>3, <1>4, <2>1, <2>2 DEF Calm
<1> QED BY <1>8, <1>9

(* _atomic_replacement of a claimed candidate is calm and ends with a proof  *)
(* or a fence.                                                               *)
LEMMA SupersededFacts ==
    ASSUME NEW a \in Record, NEW action \in Actions,
           a.proof = NoOutcome \/ a.proof.status \in Terminal
    PROVE  LET b == Superseded(a, action)
           IN  /\ b \in Record /\ Calm(a, b) /\ b.pc = a.pc
               /\ b.proof = a.proof \/ b.abort # "none"
<1> DEFINE rb == action = "rollback" /\ TaskActive(a)
           out == [status |-> "interrupted", err |-> "superseded"]
           x == [a EXCEPT !.rollback = rb]
           y == Acknowledge(x, out, a.rev)
           fi == TaskActive(a)
           b == [y EXCEPT !.abort = action, !.finalizing = fi]
<1>1. CASE a.lost \/ a.proof.status \in {"success", "error"}
  BY <1>1, QuietSelf DEF Superseded, Quiet
<1>2. CASE ~(a.lost \/ a.proof.status \in {"success", "error"})
  <2>1. Superseded(a, action) = b
    BY <1>2, Zenon DEF Superseded
  <2>2. rb \in BOOLEAN /\ fi \in BOOLEAN /\ out \in Outcomes /\ out.status \in Terminal /\ action # "none"
    BY StatusNames DEF TaskActive, Outcomes, Errors
  <2> HIDE DEF rb, fi, out
  <2>3. x \in Record
    BY <2>2, Zenon DEF Record
  <2>4. /\ x.live = a.live /\ x.home = a.home /\ x.left = a.left /\ x.lost = a.lost
        /\ x.armed = a.armed /\ x.abort = a.abort /\ x.proof = a.proof /\ x.pc = a.pc
    OBVIOUS
  <2> HIDE DEF x
  <2>5. y \in Record
    BY <2>2, <2>3, AcknowledgeType
  <2>6. Calm(x, y) /\ y.pc = x.pc
    BY <2>2, <2>3, <2>4, AcknowledgeCalm
  <2> HIDE DEF y
  <2>7. b \in Record /\ b.abort = action
    BY <2>2, <2>5, StatusNames, ZenonT(40) DEF Record
  <2>8. /\ b.live = y.live /\ b.home = y.home /\ b.left = y.left /\ b.lost = y.lost
        /\ b.armed = y.armed /\ b.proof = y.proof /\ b.pc = y.pc
    OBVIOUS
  <2> HIDE DEF b
  <2>9. Calm(a, b)
    BY <2>2, <2>4, <2>6, <2>7, <2>8 DEF Calm
  <2> QED BY <2>1, <2>2, <2>4, <2>6, <2>7, <2>8, <2>9
<1> QED BY <1>1, <1>2

(* A candidate that was not claimed keeps everything but its barrier.        *)
LEMMA NotClaimedFacts ==
    ASSUME NEW a \in Record, NEW was \in BOOLEAN, NEW attempting
    PROVE  LET b == NotClaimed(a, was, attempting)
           IN  b \in Record /\ Quiet(a, b) /\ b.pc = a.pc
<1> DEFINE c == [a EXCEPT !.pending = was]
<1>1. c \in Record /\ Quiet(a, c) /\ c.pc = a.pc
  BY PendingFacts
<1>2. NotClaimed(a, was, attempting) \in {a, c}
  BY DEF NotClaimed
<1> HIDE DEF c
<1> QED BY <1>1, <1>2, QuietSelf

(* AdmitAck preserves FenceInvariant.                                        *)
LEMMA AdmitAckStep ==
    ASSUME FenceInvariant, NEW w \in Workers, AdmitAck(w) PROVE FenceInvariant'
<1> DEFINE ok == adm[w].res = "ok"
           new == NewRecord(w, adm[w].left)
           sup(q) == Superseded(rec[q], adm[w].strategy)
           not(q) == NotClaimed(rec[q], q \in adm[w].was, TaskAttempt(q) \/ CancelAttempt(q))
<1>1. /\ TypeOK /\ adm[w].ph = "done" /\ AdmissionIsFresh(w) /\ adm[w] \in Admission
      /\ adm' = [adm EXCEPT ![w] = NoAdmission]
      /\ UNCHANGED <<rows, older, up, tcall, ccall, rcall, published, ended>>
  BY DEF FenceInvariant, TypeOK, AdmitAck
<1>2. /\ adm[w].run \subseteq Runs /\ adm[w].left \in Left /\ adm[w].cands \subseteq Runs
  BY <1>1 DEF Admission
<1>3. PICK r \in adm[w].run :
        rec' = [q \in Runs |->
                  IF q = r /\ ok THEN new
                  ELSE IF q \in adm[w].cands
                  THEN IF ok /\ q \in adm[w].claimed THEN sup(q) ELSE not(q)
                  ELSE rec[q]]
  BY DEF AdmitAck
<1>4. /\ new \in Record /\ new.live /\ new.home = w /\ new.left = adm[w].left
      /\ new.proof = NoOutcome /\ new.pc = "none"
      /\ new.armed \/ new.lost
      /\ new.armed => adm[w].left > 0
      /\ adm[w].left <= 0 => new.lost
  BY <1>2, NewRecordFacts
<1>5. ASSUME NEW q \in adm[w].cands
      PROVE  /\ sup(q) \in Record /\ Calm(rec[q], sup(q)) /\ sup(q).pc = rec[q].pc
             /\ sup(q).proof = rec[q].proof \/ sup(q).abort # "none"
             /\ not(q) \in Record /\ Quiet(rec[q], not(q)) /\ not(q).pc = rec[q].pc
             /\ rec[q].live /\ rec[q].pc # "put"
  <2>1. q \in Runs /\ adm[w].strategy \in Actions /\ rec[q].live
    BY <1>1, <1>2 DEF AdmissionIsFresh
  <2>2. rec[q] \in Record /\ ProofMeansClosed(q) /\ SnapshotIsAlone(q)
    BY <2>1, RunFacts
  <2>3. /\ sup(q) \in Record /\ Calm(rec[q], sup(q)) /\ sup(q).pc = rec[q].pc
        /\ sup(q).proof = rec[q].proof \/ sup(q).abort # "none"
    BY <2>1, <2>2, SupersededFacts DEF ProofMeansClosed
  <2>4. (q \in adm[w].was) \in BOOLEAN
    OBVIOUS
  <2>5. not(q) \in Record /\ Quiet(rec[q], not(q)) /\ not(q).pc = rec[q].pc
    BY <2>2, <2>4, NotClaimedFacts
  <2>6. rec[q].pc # "put"
    BY <2>1, <2>2 DEF SnapshotIsAlone
  <2> QED BY <2>1, <2>3, <2>5, <2>6
<1> HIDE DEF ok, new, sup, not
<1>6. ASSUME NEW q \in Runs, ~(q = r /\ ok)
      PROVE  /\ rec'[q] \in Record /\ Calm(rec[q], rec'[q]) /\ rec'[q].pc = rec[q].pc
             /\ \/ rec'[q].proof = rec[q].proof
                \/ rows[q].status \notin Active /\ rec'[q].abort # "none"
             /\ rec[q].live /\ rec[q].pc = "put" => rec'[q] = rec[q]
  <2>1. rec[q] \in Record
    BY RunFacts
  <2>2. CASE q \notin adm[w].cands
    <3>1. rec'[q] = rec[q]
      BY <1>3, <1>6, <2>2
    <3> QED BY <2>1, <3>1, QuietSelf DEF Quiet
  <2>3. CASE q \in adm[w].cands /\ ok /\ q \in adm[w].claimed
    <3>1. rec'[q] = sup(q)
      BY <1>3, <1>6, <2>3
    <3>2. rows[q].status \notin Active
      BY <1>1, <2>3 DEF AdmissionIsFresh, ok
    <3> QED BY <1>5, <2>3, <3>1, <3>2
  <2>4. CASE q \in adm[w].cands /\ ~(ok /\ q \in adm[w].claimed)
    <3>1. rec'[q] = not(q)
      BY <1>3, <1>6, <2>4
    <3> QED BY <1>5, <2>4, <3>1 DEF Quiet
  <2> QED BY <2>2, <2>3, <2>4
<1>7. r \in Runs /\ (ok => rec'[r] = new)
  BY <1>2, <1>3
<1>8. adm'[w] = NoAdmission /\ \A v \in Workers : v # w => adm'[v] = adm[v]
  BY <1>1 DEF TypeOK
<1>9. TypeOK'
  <2>1. rec' = [q \in Runs |-> rec'[q]]
    BY <1>3
  <2>2. \A q \in Runs : rec'[q] \in Record
    BY <1>4, <1>6, <1>7
  <2>3. rec' \in [Runs -> Record]
    BY <2>1, <2>2
  <2>4. adm' \in [Workers -> Admission]
    BY <1>1, Constants DEF TypeOK
  <2> QED BY <1>1, <2>3, <2>4 DEF TypeOK
<1>10. ok => RunInvariant(r)'
  <2> SUFFICES ASSUME ok PROVE RunInvariant(r)'
    OBVIOUS
  <2>1. /\ ~rec[r].live /\ rows[r].status # "absent" /\ rows[r].left >= adm[w].left
        /\ rows[r].taken => adm[w].left <= 0
    BY <1>1 DEF AdmissionIsFresh, ok
  <2>2. RunInvariant(r) /\ rec'[r] = new
    BY <1>7 DEF FenceInvariant
  <2>3. tcall[r].ph = "idle" /\ ccall[r].ph = "idle" /\ rcall[r].ph = "idle" /\ ccall[r].op # "update"
    BY <2>1, <2>2 DEF RunInvariant, CallsMatch
  <2>4. CallsMatch(r)'
    BY <1>1, <1>4, <2>2, <2>3 DEF RunInvariant, CallsMatch
  <2>5. LeaseIsConfirmed(r)'
    BY <1>1, <1>4, <2>1, <2>2, <2>3 DEF LeaseIsConfirmed
  <2>6. TimerIsArmed(r)'
    <3>1. adm[w].left > 0 => adm[w].left >= -Slack
      <4>1. adm[w].left \in Int /\ Slack \in Nat
        BY <1>2, LeftType, OwnershipAssumption DEF OwnershipAssumption
      <4> QED BY <4>1
    <3> QED BY <1>4, <2>2, <3>1 DEF TimerIsArmed
  <2>7. ProofMeansClosed(r)' /\ SnapshotIsAlone(r)'
    BY <1>1, <1>4, <2>2, <2>3 DEF ProofMeansClosed, SnapshotIsAlone
  <2> QED BY <1>1, <1>4, <2>1, <2>2, <2>4, <2>5, <2>6, <2>7 DEF RunInvariant
<1>11. ASSUME NEW q \in Runs, ~(q = r /\ ok) PROVE RunInvariant(q)'
  <2>1. RunInvariant(q) /\ rec[q] \in Record
    BY RunFacts DEF FenceInvariant
  <2>2. rec[q].live /\ rec[q].pc = "put" =>
          rec'[q].proof = rec[q].proof /\ \A v \in Workers : q \notin adm'[v].cands
    BY <1>6, <1>8, <1>11, <2>1, IdleFields DEF RunInvariant, SnapshotIsAlone
  <2> QED BY <1>1, <1>6, <1>11, <2>1, <2>2, QuietRun
<1>12. ASSUME NEW v \in Workers PROVE AdmissionIsFresh(v)'
  <2>1. CASE v = w
    BY <1>8, <2>1, IdleFields DEF AdmissionIsFresh
  <2>2. CASE v # w
    <3>1. AdmissionIsFresh(v) /\ adm'[v] = adm[v] /\ adm[v].cands \subseteq Runs /\ adm[v].run \subseteq Runs
      BY <1>1, <1>8, <2>2 DEF FenceInvariant, TypeOK, Admission
    <3>2. r \notin adm[v].run /\ ~rec[r].live
      BY <1>1, <2>2, <3>1 DEF AdmissionIsFresh
    <3>3. r \notin adm[v].cands
      BY <3>1, <3>2 DEF AdmissionIsFresh
    <3>4. \A q \in Runs : q # r => rec'[q].live = rec[q].live /\ rec'[q].home = rec[q].home
      BY <1>6 DEF Calm
    <3>5. \A u \in Workers, q \in Runs : q \in adm'[v].run /\ q \in adm'[u].run => u = v
      BY <1>8, <3>1, IdleFields DEF AdmissionIsFresh
    <3> QED BY <1>1, <3>1, <3>2, <3>3, <3>4, <3>5 DEF AdmissionIsFresh
  <2> QED BY <2>1, <2>2
<1> QED BY <1>9, <1>10, <1>11, <1>12 DEF FenceInvariant

-----------------------------------------------------------------------------
(* Time.                                                                     *)

(* A record after one clock tick.                                            *)
LEMMA AgedRecord ==
    ASSUME NEW a \in Record
    PROVE  LET b == [a EXCEPT !.left = Age(a.left)]
           IN  /\ b \in Record /\ b.left = Age(a.left)
               /\ b.live = a.live /\ b.home = a.home /\ b.lost = a.lost /\ b.armed = a.armed
               /\ b.abort = a.abort /\ b.proof = a.proof /\ b.pc = a.pc
<1> DEFINE l == Age(a.left)
           b == [a EXCEPT !.left = l]
<1>1. l \in Left
  BY FieldTypes, AgeType
<1> HIDE DEF l
<1>2. b \in Record /\ b.left = l
  BY <1>1, Zenon DEF Record
<1>3. /\ b.live = a.live /\ b.home = a.home /\ b.lost = a.lost /\ b.armed = a.armed
      /\ b.abort = a.abort /\ b.proof = a.proof /\ b.pc = a.pc
  OBVIOUS
<1> QED BY <1>2, <1>3 DEF l

(* A row after one clock tick.                                               *)
LEMMA AgedRow ==
    ASSUME NEW a \in Row
    PROVE  LET b == [a EXCEPT !.left = Age(a.left)]
           IN  b \in Row /\ b.left = Age(a.left) /\ b.status = a.status /\ b.taken = a.taken
<1> DEFINE l == Age(a.left)
<1>1. l \in Left
  BY AgeType DEF Row
<1> HIDE DEF l
<1>2. LET b == [a EXCEPT !.left = l]
      IN  b \in Row /\ b.left = l /\ b.status = a.status /\ b.taken = a.taken
  BY <1>1 DEF Row
<1> QED BY <1>2 DEF l

(* A renewal in flight after one clock tick.                                 *)
LEMMA AgedRenewal ==
    ASSUME NEW a \in Renewal
    PROVE  LET b == [a EXCEPT !.left = Age(a.left)]
           IN  b \in Renewal /\ b.left = Age(a.left) /\ b.ph = a.ph /\ b.res = a.res
<1> DEFINE l == Age(a.left)
<1>1. l \in Left
  BY AgeType DEF Renewal
<1> HIDE DEF l
<1>2. LET b == [a EXCEPT !.left = l]
      IN  b \in Renewal /\ b.left = l /\ b.ph = a.ph /\ b.res = a.res
  BY <1>1 DEF Renewal
<1> QED BY <1>2 DEF l

(* An admission in flight after one clock tick.                              *)
LEMMA AgedAdmission ==
    ASSUME NEW a \in Admission
    PROVE  LET b == [a EXCEPT !.left = Age(a.left)]
           IN  /\ b \in Admission /\ b.left = Age(a.left) /\ b.ph = a.ph /\ b.res = a.res
               /\ b.run = a.run /\ b.cands = a.cands /\ b.claimed = a.claimed
               /\ b.strategy = a.strategy
               /\ a = NoAdmission => b = NoAdmission
<1> DEFINE l == Age(a.left)
<1>1. l \in Left
  BY AgeType DEF Admission
<1>2. a = NoAdmission => l = Floor
  <2>1. NoAdmission.left = Floor
    BY DEF NoAdmission
  <2>2. Age(Floor) = Floor
    BY LeftType DEF Age
  <2> QED BY <2>1, <2>2
<1> HIDE DEF l
<1>3. LET b == [a EXCEPT !.left = l]
      IN  /\ b \in Admission /\ b.left = l /\ b.ph = a.ph /\ b.res = a.res
          /\ b.run = a.run /\ b.cands = a.cands /\ b.claimed = a.claimed
          /\ b.strategy = a.strategy
  BY <1>1 DEF Admission
<1>4. a = NoAdmission => [a EXCEPT !.left = l] = NoAdmission
  BY <1>2 DEF NoAdmission
<1> QED BY <1>3, <1>4 DEF l

(* The clock preserves FenceInvariant: it ages the durable and the local     *)
(* lease alike, and it may not move past a timer that is due by more than    *)
(* Slack.                                                                    *)
LEMMA TickStep ==
    ASSUME FenceInvariant, Tick PROVE FenceInvariant'
<1>1. /\ TypeOK /\ \A r \in Runs : MayTick(r)
      /\ rows' = [r \in Runs |-> [rows[r] EXCEPT !.left = Age(rows[r].left)]]
      /\ rec' = [r \in Runs |-> [rec[r] EXCEPT !.left = Age(rec[r].left)]]
      /\ rcall' = [r \in Runs |-> [rcall[r] EXCEPT !.left = Age(rcall[r].left)]]
      /\ adm' = [w \in Workers |-> [adm[w] EXCEPT !.left = Age(adm[w].left)]]
      /\ UNCHANGED <<older, up, tcall, ccall, published, ended>>
  BY DEF FenceInvariant, Tick
<1>2. ASSUME NEW q \in Runs
      PROVE  /\ rec'[q] \in Record /\ rec'[q].left = Age(rec[q].left)
             /\ rec'[q].live = rec[q].live /\ rec'[q].home = rec[q].home /\ rec'[q].lost = rec[q].lost
             /\ rec'[q].armed = rec[q].armed /\ rec'[q].abort = rec[q].abort
             /\ rec'[q].proof = rec[q].proof /\ rec'[q].pc = rec[q].pc
             /\ rows'[q] \in Row /\ rows'[q].left = Age(rows[q].left)
             /\ rows'[q].status = rows[q].status /\ rows'[q].taken = rows[q].taken
             /\ rcall'[q] \in Renewal /\ rcall'[q].left = Age(rcall[q].left)
             /\ rcall'[q].ph = rcall[q].ph /\ rcall'[q].res = rcall[q].res
             /\ rec[q].left \in Left /\ rows[q].left \in Left /\ rcall[q].left \in Left
  <2>1. rec[q] \in Record /\ rows[q] \in Row /\ rcall[q] \in Renewal
    BY RunFacts
  <2>2. rec[q].left \in Left /\ rows[q].left \in Left /\ rcall[q].left \in Left
    BY <2>1, FieldTypes DEF Row, Renewal
  <2>3. /\ rec'[q] = [rec[q] EXCEPT !.left = Age(rec[q].left)]
        /\ rows'[q] = [rows[q] EXCEPT !.left = Age(rows[q].left)]
        /\ rcall'[q] = [rcall[q] EXCEPT !.left = Age(rcall[q].left)]
    BY <1>1
  <2>4. /\ rec'[q] \in Record /\ rec'[q].left = Age(rec[q].left)
        /\ rec'[q].live = rec[q].live /\ rec'[q].home = rec[q].home /\ rec'[q].lost = rec[q].lost
        /\ rec'[q].armed = rec[q].armed /\ rec'[q].abort = rec[q].abort
        /\ rec'[q].proof = rec[q].proof /\ rec'[q].pc = rec[q].pc
    BY <2>1, <2>3, AgedRecord
  <2>5. /\ rows'[q] \in Row /\ rows'[q].left = Age(rows[q].left)
        /\ rows'[q].status = rows[q].status /\ rows'[q].taken = rows[q].taken
    BY <2>1, <2>3, AgedRow
  <2>6. /\ rcall'[q] \in Renewal /\ rcall'[q].left = Age(rcall[q].left)
        /\ rcall'[q].ph = rcall[q].ph /\ rcall'[q].res = rcall[q].res
    BY <2>1, <2>3, AgedRenewal
  <2> QED BY <2>2, <2>4, <2>5, <2>6
<1>3. ASSUME NEW w \in Workers
      PROVE  /\ adm'[w] \in Admission /\ adm'[w].left = Age(adm[w].left)
             /\ adm'[w].ph = adm[w].ph /\ adm'[w].res = adm[w].res
             /\ adm'[w].run = adm[w].run /\ adm'[w].cands = adm[w].cands
             /\ adm'[w].claimed = adm[w].claimed /\ adm'[w].strategy = adm[w].strategy
             /\ adm[w] = NoAdmission => adm'[w] = NoAdmission
             /\ adm[w].left \in Left /\ adm[w].run \subseteq Runs /\ adm[w].cands \subseteq Runs
  <2>1. adm[w] \in Admission
    BY <1>1 DEF TypeOK
  <2>2. adm'[w] = [adm[w] EXCEPT !.left = Age(adm[w].left)]
    BY <1>1
  <2>3. adm[w].left \in Left /\ adm[w].run \subseteq Runs /\ adm[w].cands \subseteq Runs
    BY <2>1 DEF Admission
  <2>4. /\ adm'[w] \in Admission /\ adm'[w].left = Age(adm[w].left)
        /\ adm'[w].ph = adm[w].ph /\ adm'[w].res = adm[w].res
        /\ adm'[w].run = adm[w].run /\ adm'[w].cands = adm[w].cands
        /\ adm'[w].claimed = adm[w].claimed /\ adm'[w].strategy = adm[w].strategy
        /\ adm[w] = NoAdmission => adm'[w] = NoAdmission
    BY <2>1, <2>2, AgedAdmission
  <2> QED BY <2>3, <2>4
<1>4. TypeOK'
  <2>1. /\ rec' = [q \in Runs |-> rec'[q]] /\ rows' = [q \in Runs |-> rows'[q]]
        /\ rcall' = [q \in Runs |-> rcall'[q]] /\ adm' = [w \in Workers |-> adm'[w]]
    BY <1>1
  <2>2. rec' \in [Runs -> Record] /\ rows' \in [Runs -> Row]
    BY <1>2, <2>1
  <2>3. rcall' \in [Runs -> Renewal] /\ adm' \in [Workers -> Admission]
    BY <1>2, <1>3, <2>1
  <2> QED BY <1>1, <2>2, <2>3 DEF TypeOK
<1>5. ASSUME NEW k \in Left, NEW l \in Left, k >= l PROVE Age(k) >= Age(l)
  BY <1>5, AgeType, LeftType
<1>6. ASSUME NEW q \in Runs PROVE RunInvariant(q)'
  <2>1. RunInvariant(q) /\ tcall'[q] = tcall[q] /\ ccall'[q] = ccall[q] /\ MayTick(q)
    BY <1>1 DEF FenceInvariant
  <2>2. CallsMatch(q)'
    BY <1>2, <2>1 DEF RunInvariant, CallsMatch
  <2>3. LeaseIsConfirmed(q)'
    BY <1>2, <1>5, <2>1 DEF RunInvariant, LeaseIsConfirmed
  <2>4. TimerIsArmed(q)'
    <3>1. rec[q].live /\ rec[q].armed => Age(rec[q].left) >= -Slack
      <4>1. ASSUME NEW l \in Left, l > -Slack PROVE Age(l) >= -Slack
        <5>1. l \in Int /\ Slack \in Nat /\ Grace \in Nat /\ Slack <= Grace /\ Floor = -(Grace + 1)
          BY LeftType, OwnershipAssumption, StoreAssumption DEF OwnershipAssumption, StoreAssumption
        <5>2. l > Floor
          BY <4>1, <5>1
        <5>3. Age(l) = l - 1
          BY <5>2, AgeType
        <5> QED BY <4>1, <5>1, <5>3
      <4> QED BY <1>2, <2>1, <4>1 DEF MayTick
    <3> QED BY <1>2, <2>1, <3>1 DEF RunInvariant, TimerIsArmed
  <2>5. ProofMeansClosed(q)'
    BY <1>2, <2>1 DEF RunInvariant, ProofMeansClosed
  <2>6. SnapshotIsAlone(q)'
    BY <1>2, <1>3, <2>1 DEF RunInvariant, SnapshotIsAlone
  <2> QED BY <1>2, <2>1, <2>2, <2>3, <2>4, <2>5, <2>6 DEF RunInvariant
<1>7. ASSUME NEW w \in Workers PROVE AdmissionIsFresh(w)'
  <2>1. AdmissionIsFresh(w)
    BY DEF FenceInvariant
  <2>2. /\ adm'[w].ph = "idle" => adm'[w] = NoAdmission
        /\ adm'[w].cands # {} => adm'[w].strategy \in Actions
        /\ \A q \in adm'[w].cands : rec'[q].live /\ rec'[q].home = w
        /\ \A r \in adm'[w].run : ~rec'[r].live
        /\ \A q, r \in adm'[w].run : q = r
        /\ adm'[w].ph = "sent" => \A r \in adm'[w].run : rows'[r].status = "absent"
    BY <1>2, <1>3, <2>1 DEF AdmissionIsFresh
  <2>3. \A v \in Workers, r \in Runs : r \in adm'[w].run /\ r \in adm'[v].run => v = w
    BY <1>3, <2>1 DEF AdmissionIsFresh
  <2>4. ASSUME adm[w].ph = "done", adm[w].res = "ok", NEW r \in adm[w].run
        PROVE  /\ rows'[r].status # "absent"
               /\ rows'[r].left >= adm'[w].left
               /\ rows'[r].taken => adm'[w].left <= 0
    <3>1. r \in Runs /\ rows[r].status # "absent" /\ rows[r].left >= adm[w].left
          /\ (rows[r].taken => adm[w].left <= 0)
      BY <1>3, <2>1, <2>4 DEF AdmissionIsFresh
    <3>2. Age(rows[r].left) >= Age(adm[w].left)
      BY <1>2, <1>3, <1>5, <3>1
    <3>3. adm[w].left <= 0 => Age(adm[w].left) <= 0
      <4>1. ASSUME NEW l \in Left, l <= 0 PROVE Age(l) <= 0
        <5>1. Age(l) \in Left /\ Age(l) <= l
          BY AgeType
        <5>2. Age(l) \in Int /\ l \in Int
          BY <5>1, LeftType
        <5> QED BY <4>1, <5>1, <5>2
      <4> QED BY <1>3, <4>1
    <3> QED BY <1>2, <1>3, <3>1, <3>2, <3>3
  <2>5. adm[w].ph = "done" /\ adm[w].res = "ok" =>
          \A q \in adm[w].cands \cap adm[w].claimed : rows'[q].status \notin Active
    BY <1>2, <1>3, <2>1 DEF AdmissionIsFresh
  <2> QED BY <1>3, <2>2, <2>3, <2>4, <2>5 DEF AdmissionIsFresh
<1> QED BY <1>4, <1>6, <1>7 DEF FenceInvariant

-----------------------------------------------------------------------------
(* The invariant.                                                            *)

(* Every step of a run's task preserves FenceInvariant.                      *)
LEMMA TaskStepPreserves ==
    ASSUME FenceInvariant, NEW r \in Runs, TaskStep(r) PROVE FenceInvariant'
BY AttachStep, StartCheckStep, StartAckStep, UnstartAckStep, SkipEvidenceStep, PutBeginStep,
   PutAckStep, FinishStep, FailRunStep, InterruptedStep, FencedStep, FinishCancellationStep,
   RestoreStep, ReceiptLostStep, ArbitrateStep, PersistBeginStep, CommitAckStep, TailStep,
   SealStep, EndStep, EvictStep DEF TaskStep

(* Every step of a cancellation preserves FenceInvariant.                    *)
LEMMA CancelStepPreserves ==
    ASSUME FenceInvariant, NEW r \in Runs, CancelStep(r) PROVE FenceInvariant'
BY CancelBeginStep, CancelApplyStep, CancelAckStep, RemoteCancelStep DEF CancelStep

(* Every heartbeat, timer and recovery step preserves FenceInvariant.        *)
LEMMA LeaseStepPreserves ==
    ASSUME FenceInvariant, NEW r \in Runs, LeaseStep(r) PROVE FenceInvariant'
BY RenewBeginStep, RenewStoreStep, RenewAckStep, SignalStep, DeadlineStep, TakeoverStep DEF LeaseStep

(* FenceInvariant depends on the variables only.                             *)
LEMMA StutterPreserves ==
    ASSUME FenceInvariant, UNCHANGED vars PROVE FenceInvariant'
<1>1. UNCHANGED <<rows, older, up, rec, tcall, ccall, rcall, adm, published, ended>>
  BY DEF vars
<1>2. TypeOK'
  BY <1>1 DEF FenceInvariant, TypeOK
<1>3. ASSUME NEW q \in Runs PROVE RunInvariant(q)'
  BY <1>1, SameRun
<1>4. ASSUME NEW w \in Workers PROVE AdmissionIsFresh(w)'
  BY <1>1 DEF FenceInvariant, AdmissionIsFresh
<1> QED BY <1>2, <1>3, <1>4 DEF FenceInvariant

(* FenceInvariant is inductive.                                              *)
LEMMA NextPreserves == FenceInvariant /\ [Next]_vars => FenceInvariant'
<1> SUFFICES ASSUME FenceInvariant, [Next]_vars PROVE FenceInvariant'
  OBVIOUS
<1>1. CASE UNCHANGED vars
  BY <1>1, StutterPreserves
<1>2. ASSUME NEW w \in Workers, NEW r \in Runs, NEW strategy \in Strategies, AdmitBegin(w, r, strategy)
      PROVE  FenceInvariant'
  BY <1>2, AdmitBeginStep
<1>3. ASSUME NEW w \in Workers, AdmitStore(w) \/ AdmitAck(w) \/ Crash(w) PROVE FenceInvariant'
  BY <1>3, AdmitStoreStep, AdmitAckStep, CrashStep
<1>4. ASSUME NEW r \in Runs,
             TaskStep(r) \/ CancelStep(r) \/ LeaseStep(r) \/ TaskStore(r) \/ CancelStore(r)
      PROVE  FenceInvariant'
  BY <1>4, TaskStepPreserves, CancelStepPreserves, LeaseStepPreserves, TaskStoreStep, CancelStoreStep
<1>5. CASE Tick
  BY <1>5, TickStep
<1> QED BY <1>1, <1>2, <1>3, <1>4, <1>5 DEF Next

(* The strengthened fencing invariant of the lease protocol (RunManager with *)
(* heartbeat_enabled over a RunStore) holds in every reachable state, for any *)
(* number of workers and runs, any lease, grace and slack with Slack <=      *)
(* Grace, and with every fault switched on: the lease an owner relies on is  *)
(* never longer than the durable one, an owner without a store answer has its *)
(* deadline timer armed, and an acknowledgment means a closed row.           *)
THEOREM FenceIsInvariant == Spec => []FenceInvariant
<1>1. Init => FenceInvariant
  BY InitInvariant
<1>2. FenceInvariant /\ [Next]_vars => FenceInvariant'
  BY NextPreserves
<1> QED BY <1>1, <1>2, PTL DEF Spec

(* Every record, row and call in flight keeps its type: in particular an     *)
(* acknowledgment (terminal_ack) is always a real outcome and lease times    *)
(* stay in range.                                                            *)
THEOREM TypeCorrect == Spec => []TypeOK
<1>1. FenceInvariant => TypeOK
  BY DEF FenceInvariant
<1> QED BY <1>1, FenceIsInvariant, PTL

(* When claim_for_takeover reclaims a run, its former owner is gone or has   *)
(* fenced itself (_fence_local_record), and it stays so: no late renewal,    *)
(* lost answer, snapshot write or admission brings the run back to life.     *)
THEOREM ReclaimFences == Spec => []ReclaimedRunIsFenced
<1>1. FenceInvariant => ReclaimedRunIsFenced
  BY DEF FenceInvariant, RunInvariant, ReclaimedRunIsFenced
<1> QED BY <1>1, FenceIsInvariant, PTL

-----------------------------------------------------------------------------
(* The thread's active slot.                                                 *)

(* The task of a run changes rows only through its store calls.              *)
LEMMA TaskStepKeepsRows ==
    ASSUME NEW r \in Runs, TaskStep(r) PROVE rows' = rows
<1>1. Attach(r) \/ SkipEvidence(r) \/ Interrupted(r) \/ Restore(r) \/ Evict(r) => rows' = rows
  BY DEF Attach, SkipEvidence, Interrupted, Restore, Evict, OnlyRec
<1>2. StartCheck(r) => rows' = rows
  BY DEF StartCheck, OnlyRec, RecAndTask
<1>3. StartAck(r) => rows' = rows
  BY Zenon DEF StartAck, RecAndTask
<1>4. UnstartAck(r) \/ PutBegin(r) \/ PutAck(r) \/ Fenced(r) => rows' = rows
  BY Zenon DEF UnstartAck, PutBegin, PutAck, Fenced, RecAndTask
<1>5. ASSUME NEW status \in {"success", "error"}, Finish(r, status) PROVE rows' = rows
  BY Zenon, <1>5 DEF Finish, OnlyRec
<1>6. FailRun(r) \/ ReceiptLost(r) => rows' = rows
  BY DEF FailRun, ReceiptLost, OnlyRec
<1>7. FinishCancellation(r) => rows' = rows
  BY Zenon DEF FinishCancellation, OnlyRec
<1>8. Arbitrate(r) => rows' = rows
  BY Zenon DEF Arbitrate, OnlyRec, RecAndTask
<1>9. PersistBegin(r) => rows' = rows
  BY Zenon DEF PersistBegin, OnlyRec, RecAndTask
<1>10. CommitAck(r) => rows' = rows
  BY Zenon DEF CommitAck, RecAndTask
<1>11. Tail(r) => rows' = rows
  BY DEF Tail, OnlyRec
<1>12. Seal(r) \/ End(r) => rows' = rows
  BY DEF Seal, End
<1> QED BY <1>1, <1>2, <1>3, <1>4, <1>5, <1>6, <1>7, <1>8, <1>9, <1>10, <1>11, <1>12 DEF TaskStep

(* No local step of cancel(), the heartbeat or an admission changes a row.   *)
LEMMA LocalStepKeepsRows ==
    ASSUME NEW r \in Runs
    PROVE  /\ \A action \in Requests : CancelBegin(r, action) => rows' = rows
           /\ CancelApply(r) \/ CancelAck(r) => rows' = rows
           /\ RenewBegin(r) \/ RenewAck(r) \/ Signal(r) \/ Deadline(r) => rows' = rows
<1>1. \A action \in Requests : CancelBegin(r, action) => rows' = rows
  BY DEF CancelBegin, CancelCall
<1>2. CancelApply(r) => rows' = rows
  BY Zenon DEF CancelApply, CancelCall
<1>3. CancelAck(r) => rows' = rows
  BY Zenon DEF CancelAck, CancelCall
<1>4. RenewBegin(r) => rows' = rows
  BY Zenon DEF RenewBegin, RenewCall
<1>5. RenewAck(r) => rows' = rows
  BY Zenon DEF RenewAck, RenewCall
<1>6. Signal(r) \/ Deadline(r) => rows' = rows
  BY DEF Signal, Deadline, RenewCall, OnlyRec
<1> QED BY <1>1, <1>2, <1>3, <1>4, <1>5, <1>6

(* A step that makes no row active.                                          *)
Shrinks == \A q \in Runs : rows'[q].status \in Active => rows[q].status \in Active

(* A write to one row that does not make it active makes no row active.      *)
LEMMA RowShrinks ==
    ASSUME FenceInvariant, NEW r \in Runs, NEW row, rows' = [rows EXCEPT ![r] = row],
           row.status \in Active => rows[r].status \in Active
    PROVE  Shrinks
BY DEF FenceInvariant, TypeOK, Shrinks

(* A store call leaves the set of active rows as it is or makes it smaller;  *)
(* the snapshot write is held off by the unique index.                       *)
LEMMA CallShrinks ==
    ASSUME FenceInvariant, NEW r \in Runs, NEW call \in {tcall[r], ccall[r]}, call.ph = "sent",
           rows' = [rows EXCEPT ![r] = Apply(r, call)]
    PROVE  Shrinks \/ \A q \in Runs : rows'[q].status \in Active => q = r
<1> DEFINE new == Apply(r, call)
<1>1. /\ RunInvariant(r) /\ call \in Call /\ rows \in [Runs -> Row]
  BY RunFacts DEF FenceInvariant, TypeOK
<1>2. /\ rec[r].live
      /\ call.op \in {"update", "cas", "put"} => call.out \in Outcomes
  BY <1>1 DEF RunInvariant, CallsMatch
<1>3. rows[r].status # "absent"
  BY <1>1, <1>2 DEF RunInvariant
<1>4. CASE call.op # "put"
  <2>1. rows[r].status \notin Active => new.status \notin Active
    BY <1>1, <1>2, <1>3, <1>4, ApplyFacts
  <2> HIDE DEF new
  <2>2. rows' = [rows EXCEPT ![r] = new]
    BY DEF new
  <2> QED BY <2>1, <2>2, RowShrinks
<1>5. CASE call.op = "put" /\ ~PutOk(rows, r)
  <2>1. new = rows[r]
    BY <1>5 DEF Apply
  <2> HIDE DEF new
  <2>2. rows' = [rows EXCEPT ![r] = new]
    BY DEF new
  <2> QED BY <2>1, <2>2, RowShrinks
<1>6. CASE call.op = "put" /\ PutOk(rows, r)
  <2>1. \A q \in Runs : q # r => rows[q].status \notin Active
    BY <1>6 DEF PutOk, ActiveRows
  <2>2. \A q \in Runs : q # r => rows'[q] = rows[q]
    BY <1>1
  <2> QED BY <2>1, <2>2
<1> QED BY <1>4, <1>5, <1>6

(* Every step keeps the thread's single active slot.                         *)
LEMMA ActiveSlot ==
    ASSUME FenceInvariant, [Next]_vars
    PROVE  Shrinks \/ \E r \in Runs : \A q \in Runs : rows'[q].status \in Active => q = r
<1>1. rows' = rows => Shrinks
  BY DEF Shrinks
<1>2. ASSUME NEW r \in Runs, TaskStore(r)
      PROVE  Shrinks \/ \A q \in Runs : rows'[q].status \in Active => q = r
  BY <1>1, <1>2, CallShrinks DEF TaskStore
<1>3. ASSUME NEW r \in Runs, CancelStore(r)
      PROVE  Shrinks \/ \A q \in Runs : rows'[q].status \in Active => q = r
  BY <1>1, <1>3, CallShrinks DEF CancelStore
<1>4. ASSUME NEW r \in Runs, CancelStep(r) PROVE Shrinks
  <2>1. ASSUME NEW w \in Workers, NEW action \in Requests, RemoteCancel(w, r, action) PROVE Shrinks
    BY <2>1, RowShrinks DEF RemoteCancel, OnlyRows
  <2> QED BY <1>1, <1>4, <2>1, LocalStepKeepsRows DEF CancelStep
<1>5. ASSUME NEW r \in Runs, LeaseStep(r) PROVE Shrinks
  <2>1. ASSUME NEW w \in Workers, Takeover(w, r) PROVE Shrinks
    BY <2>1, RowShrinks DEF Takeover, OnlyRows, ClaimForTakeoverOk
  <2>2. ASSUME RenewStore(r) PROVE Shrinks
    <3> DEFINE new == RenewLease(rows[r], rcall[r].left, rcall[r].allow, rec[r].home)
    <3>1. rows' = rows \/ rows' = [rows EXCEPT ![r] = new]
      BY <2>2 DEF RenewStore
    <3>2. rows[r] \in Row /\ rcall[r] \in Renewal
      BY RunFacts
    <3>3. rcall[r].left \in Left
      BY <3>2 DEF Renewal
    <3>4. new.status = rows[r].status
      BY <3>2, <3>3, RenewLeaseFacts
    <3> HIDE DEF new
    <3> QED BY <1>1, <3>1, <3>4, RowShrinks
  <2> QED BY <1>1, <1>5, <2>1, <2>2, LocalStepKeepsRows DEF LeaseStep
<1>6. ASSUME NEW w \in Workers, AdmitStore(w)
      PROVE  Shrinks \/ \E r \in Runs : \A q \in Runs : rows'[q].status \in Active => q = r
  <2>1. adm[w].run \subseteq Runs
    BY DEF FenceInvariant, TypeOK, Admission
  <2>2. PICK r \in adm[w].run : rows' = rows \/ rows' = CreateThreadOperation(rows, r, w, adm[w].left)
    BY <1>6 DEF AdmitStore
  <2>3. CASE rows' = CreateThreadOperation(rows, r, w, adm[w].left)
    <3> SUFFICES ASSUME NEW q \in Runs, q # r PROVE rows'[q].status \notin Active
      BY <2>1
    <3> DEFINE c == [rows[q] EXCEPT !.status = "interrupted", !.owner = w]
    <3>1. rows'[q] = IF q \in ActiveRows(rows) THEN c ELSE rows[q]
      BY Zenon, <2>3 DEF CreateThreadOperation
    <3>2. c.status = "interrupted"
      BY Zenon, RunFacts, ClaimedRow
    <3> HIDE DEF c
    <3> QED BY <3>1, <3>2, StatusNames DEF ActiveRows
  <2> QED BY <1>1, <2>2, <2>3
<1>7. ASSUME NEW w \in Workers, AdmitAck(w) \/ Crash(w) PROVE rows' = rows
  BY <1>7 DEF AdmitAck, Crash
<1>8. ASSUME NEW w \in Workers, NEW r \in Runs, NEW strategy \in Strategies, AdmitBegin(w, r, strategy)
      PROVE  rows' = rows
  BY <1>8 DEF AdmitBegin
<1>9. CASE Tick
  <2>1. ASSUME NEW q \in Runs PROVE rows'[q].status = rows[q].status
    <3>1. rows'[q] = [rows[q] EXCEPT !.left = Age(rows[q].left)]
      BY <1>9 DEF Tick
    <3> QED BY <3>1, RunFacts, AgedRow
  <2> QED BY <2>1 DEF Shrinks
<1>10. CASE UNCHANGED vars
  BY <1>1, <1>10 DEF vars
<1>11. ASSUME NEW r \in Runs, TaskStep(r) PROVE Shrinks
  BY <1>1, <1>11, TaskStepKeepsRows
<1> QED BY <1>1, <1>2, <1>3, <1>4, <1>5, <1>6, <1>7, <1>8, <1>9, <1>10, <1>11 DEF Next

(* At most one row of a thread is pending or running, in every reachable     *)
(* state: create_thread_operation_atomic claims every active row before it   *)
(* inserts, no status write reopens a row, and the snapshot write put is     *)
(* refused by the partial unique index.                                      *)
THEOREM OneSlot == Spec => []OneActiveRow
<1>1. Init => OneActiveRow
  BY IdleFields, StatusNames DEF Init, OneActiveRow
<1>2. FenceInvariant /\ OneActiveRow /\ [Next]_vars => OneActiveRow'
  <2> SUFFICES ASSUME FenceInvariant, OneActiveRow, [Next]_vars PROVE OneActiveRow'
    OBVIOUS
  <2> QED BY ActiveSlot DEF OneActiveRow, Shrinks
<1> QED BY <1>1, <1>2, FenceIsInvariant, PTL DEF Spec

-----------------------------------------------------------------------------
(* One run changes.                                                          *)

(* What the invariant says of the outcome of run r.                          *)
Durable(r) ==
    AnswersArrive => /\ ProofIsDurable(r) /\ BusyHolds(r)
                     /\ published[r] # "absent" => rows[r].status = published[r]

(* The parts of the invariant that speak of one run.                         *)
LEMMA OutcomeFacts ==
    ASSUME OutcomeInvariant, NEW r \in Runs
    PROVE  /\ FenceInvariant /\ RunInvariant(r) /\ RunOutcome(r) /\ Durable(r)
           /\ rows[r].cancel # "none" => rows[r].status # "success"
BY DEF OutcomeInvariant, FenceInvariant, Durable, PublishedIsDurable, CancelExcludesSuccess

(* A run whose record, calls, row and admissions stay as they are keeps its  *)
(* part of the invariant.                                                    *)
LEMMA SameOutcome ==
    ASSUME NEW q \in Runs, RunOutcome(q), Durable(q), rec'[q] = rec[q], rows'[q] = rows[q],
           tcall'[q] = tcall[q], ccall'[q] = ccall[q], adm' = adm,
           published'[q] = published[q], q \in ended' => q \in ended
    PROVE  RunOutcome(q)' /\ Durable(q)'
<1>1. BusyIsUndecided(q)' /\ CallsAgree(q)'
  BY DEF RunOutcome, BusyIsUndecided, CallsAgree
<1>2. ToldIsOver(q)'
  BY DEF RunOutcome, ToldIsOver, Told
<1>3. ASSUME AnswersArrive PROVE ProofIsDurable(q)'
  <2>1. PendingError(q)' <=> PendingError(q)
    BY DEF PendingError, StoreFaults
  <2>2. Amended(q)' <=> Amended(q)
    BY <2>1 DEF Amended
  <2>3. \A w : Claims(w, q)' <=> Claims(w, q)
    BY DEF Claims
  <2> QED BY <1>3, <2>1, <2>2, <2>3 DEF Durable, ProofIsDurable, StoreFaults
<1>4. ASSUME AnswersArrive PROVE BusyHolds(q)'
  BY <1>4 DEF Durable, BusyHolds, Holds, Claims
<1>5. AnswersArrive' => AnswersArrive
  BY DEF AnswersArrive, StoreFaults
<1> QED BY <1>1, <1>2, <1>3, <1>4, <1>5 DEF RunOutcome, Durable

(* A step that leaves the rows, the admissions and every other run alone     *)
(* preserves the invariant when it preserves the part of run r.              *)
LEMMA LocalOutcome ==
    ASSUME OutcomeInvariant, FenceInvariant', NEW r \in Runs, rows' = rows, adm' = adm,
           \A q \in Runs \ {r} : /\ rec'[q] = rec[q] /\ tcall'[q] = tcall[q] /\ ccall'[q] = ccall[q]
                                 /\ published'[q] = published[q] /\ (q \in ended' => q \in ended),
           RunOutcome(r)', Durable(r)'
    PROVE  OutcomeInvariant'
<1>1. ASSUME NEW q \in Runs PROVE RunOutcome(q)' /\ Durable(q)'
  <2>1. CASE q = r
    BY <2>1
  <2>2. CASE q # r
    BY <2>2, OutcomeFacts, SameOutcome
  <2> QED BY <2>1, <2>2
<1>2. OneActiveRow' /\ CancelExcludesSuccess'
  BY DEF OutcomeInvariant, OneActiveRow, CancelExcludesSuccess
<1>3. AnswersArrive' <=> AnswersArrive
  BY DEF AnswersArrive, StoreFaults
<1>4. ASSUME AnswersArrive, NEW w \in Workers PROVE AdmissionHolds(w)'
  BY <1>4 DEF OutcomeInvariant, AdmissionHolds
<1> QED BY <1>1, <1>2, <1>3, <1>4 DEF OutcomeInvariant, Durable, PublishedIsDurable

(* A change of a record that keeps its proof and gives up no decision taken. *)
Kept(a, b) ==
    /\ b.live = a.live /\ b.home = a.home /\ b.proof = a.proof
    /\ a.lost => b.lost
    /\ b.abort = "none" => a.abort = "none"
    /\ a.rev <= b.rev
    /\ a.rev = b.rev /\ a.status = "interrupted" => b.status = "interrupted" \/ b.lost
    /\ ~b.lost /\ b.saved => a.saved \/ b.proof # NoOutcome

(* A run that is busy afterwards was busy before, and its status still fits  *)
(* the position of its task.                                                 *)
StaysFit(a, b) ==
    Busy(b) => /\ a.pc \in Working
               /\ \/ b.status \in Active /\ b.pc \notin {"none", "wait", "start"}
                  \/ /\ b.status = a.status
                     /\ b.pc \in {"none", "wait", "start"} => a.pc \in {"none", "wait", "start"}

(* The task's call goes on, ends without news of the row, or is a new one.   *)
TaskGoesOn(r) ==
    \/ /\ tcall'[r] = tcall[r]
       /\ rec'[r].pc = "start" => rec[r].pc = "start"
       /\ rec'[r].pc = "put" => rec[r].pc = "put" /\ rec'[r].left >= rec[r].left
       /\ rec[r].status = "error"
            => rec'[r].status = "error" \/ rec'[r].lost \/ tcall[r].ph = "idle"
    \/ /\ \/ tcall[r].ph = "idle" \/ tcall[r].op # "update" \/ rec'[r].lost
          \/ tcall[r].out.status # "error"
       /\ rec'[r].pc # "put"
       /\ \/ tcall'[r] = NoCall
          \/ /\ tcall'[r].ph = "sent" /\ tcall'[r].res = "-" /\ tcall'[r].op # "put"
             /\ rec'[r].pc = "start" => tcall'[r].op = "start"
             /\ tcall'[r].op = "update" => tcall'[r].out.status = rec'[r].status
    \/ /\ tcall[r].ph = "idle" /\ rec'[r].pc = "put"
       /\ tcall'[r].ph = "sent" /\ tcall'[r].op = "put" /\ tcall'[r].out.status \in Active
       /\ AnswersArrive => adm[rec[r].home].ph = "idle" /\ Holds(r) /\ rec'[r].left >= -Slack

(* The same for the call of cancel().                                        *)
CancelGoesOn(r) ==
    \/ ccall'[r] = ccall[r] \/ ccall'[r] = NoCall
    \/ ccall'[r].ph = "sent" /\ ccall'[r].op = "request"
    \/ /\ ccall'[r].ph = "sent" /\ ccall'[r].op = "update" /\ ccall'[r].out.status = "interrupted"
       /\ ccall'[r].rev = rec'[r].rev /\ rec'[r].status = "interrupted"

(* Nothing new is announced, or it is announced at the end and is true.      *)
TellsTruth(r) ==
    \/ published'[r] = published[r] /\ (r \in ended' => r \in ended)
    \/ /\ rows[r].status \in Terminal /\ rec'[r].pc \in {"end", "done"}
       /\ \A w \in Workers : r \notin adm[w].run
       /\ AnswersArrive => (published'[r] # "absent" => rows[r].status = published'[r])

(* The numbers of a record and of a call.                                    *)
LEMMA Numbers ==
    ASSUME FenceInvariant, NEW r \in Runs
    PROVE  /\ rec[r].rev \in Nat /\ rec[r].left \in Int /\ ccall[r].rev \in Nat
           /\ rows[r].left \in Int /\ Slack \in Nat /\ Grace \in Nat /\ Slack <= Grace
<1>1. rec[r] \in Record /\ ccall[r] \in Call /\ rows[r] \in Row
  BY RunFacts
<1>2. rec[r].rev \in Nat /\ rec[r].left \in Left /\ ccall[r].rev \in Nat /\ rows[r].left \in Left
  BY <1>1, FieldTypes DEF Call, Row
<1> QED BY <1>2, LeftType, OwnershipAssumption, StoreAssumption DEF OwnershipAssumption, StoreAssumption

(* A change that keeps the proof keeps the outcome of the run.               *)
LEMMA KeptOutcome ==
    ASSUME OutcomeInvariant, FenceInvariant', NEW r \in Runs, rec[r].live, Kept(rec[r], rec'[r]),
           rows' = rows, adm' = adm, TellsTruth(r), StaysFit(rec[r], rec'[r]),
           rec[r].pc \in {"end", "done"} => rec'[r].pc \in {"end", "done"},
           TaskGoesOn(r), CancelGoesOn(r)
    PROVE  RunOutcome(r)' /\ Durable(r)'
<1> DEFINE a == rec[r]
           b == rec'[r]
<1>1. /\ RunInvariant(r) /\ RunOutcome(r) /\ Durable(r) /\ CallsMatch(r)
      /\ a.rev \in Nat /\ b.rev \in Nat /\ a.left \in Int /\ b.left \in Int /\ Slack \in Nat
      /\ ccall[r].rev \in Nat
  <2>1. FenceInvariant /\ RunInvariant(r) /\ RunOutcome(r) /\ Durable(r)
    BY OutcomeFacts
  <2>2. a.rev \in Nat /\ a.left \in Int /\ Slack \in Nat /\ ccall[r].rev \in Nat
    BY <2>1, Numbers
  <2>3. rec' \in [Runs -> Record]
    BY DEF FenceInvariant, TypeOK
  <2>4. b.rev \in Nat /\ b.left \in Left
    BY <2>3, FieldTypes
  <2> QED BY <2>1, <2>2, <2>4, LeftType DEF RunInvariant
<1>2. NoCall.ph = "idle" /\ NoCall.op = "none" /\ NoCall.res = "-"
  BY DEF NoCall
<1>3. "-" \notin Actions /\ "-" # "ok"
  BY DEF Actions
<1>4. Busy(b) => Busy(a)
  BY DEF Kept, StaysFit, Busy
<1>5. BusyIsUndecided(r)'
  <2>1. b.live => b.home \in Workers
    BY <1>1 DEF Kept, RunOutcome, BusyIsUndecided
  <2>2. Busy(b) => /\ b.proof = NoOutcome /\ b.status \in Active
                   /\ b.pc \in {"none", "wait", "start"} => b.status = "pending"
    BY <1>1, <1>4 DEF Kept, StaysFit, RunOutcome, BusyIsUndecided
  <2>3. b.pc = "start" /\ tcall'[r].ph # "idle" => tcall'[r].op = "start"
    BY <1>1, <1>2 DEF TaskGoesOn, RunOutcome, BusyIsUndecided
  <2>4. tcall'[r].ph # "idle" /\ tcall'[r].op = "put" => tcall'[r].out.status \in Active
    BY <1>1, <1>2 DEF TaskGoesOn, RunOutcome, BusyIsUndecided
  <2> QED BY <2>1, <2>2, <2>3, <2>4 DEF BusyIsUndecided
<1>6. ToldIsOver(r)'
  BY <1>1 DEF Kept, RunOutcome, ToldIsOver, Told, TellsTruth
<1>7. CallsAgree(r)'
  <2>1. rows'[r].status = "absent" => rows'[r].cancel = "none"
    BY <1>1 DEF RunOutcome, CallsAgree
  <2>2. tcall'[r].op = "update" => tcall'[r].res \notin Actions
    BY <1>1, <1>2, <1>3 DEF RunOutcome, CallsAgree, TaskGoesOn
  <2>3. ccall'[r].op = "update" =>
         /\ ccall'[r].out.status = "interrupted" /\ ccall'[r].rev <= b.rev
         /\ ccall'[r].rev = b.rev =>
              b.status = "interrupted" \/ b.lost \/ b.proof.status \in Final
    BY <1>1, <1>2 DEF RunOutcome, CallsAgree, CancelGoesOn, Kept
  <2>4. /\ tcall'[r].ph = "done" /\ tcall'[r].res = "ok"
        /\ tcall'[r].op \in {"update", "cas"} /\ tcall'[r].out.status \in Terminal
        => rows'[r].status = tcall'[r].out.status
    BY <1>1, <1>2, <1>3 DEF RunOutcome, CallsAgree, TaskGoesOn
  <2> QED BY <2>1, <2>2, <2>3, <2>4 DEF CallsAgree
<1>8. ASSUME AnswersArrive PROVE ProofIsDurable(r)'
  <2> SUFFICES ASSUME ~b.lost PROVE ProofIsDurable(r)'
    BY DEF ProofIsDurable
  <2>1. ProofIsDurable(r) /\ ~a.lost /\ a.proof = b.proof
    BY <1>1, <1>8 DEF Durable, Kept
  <2>2. PendingError(r) => PendingError(r)'
    BY DEF PendingError, TaskGoesOn, StoreFaults
  <2>3. Amended(r) => Amended(r)'
    BY <2>1, <2>2 DEF Amended
  <2>4. \A w : Claims(w, r)' <=> Claims(w, r)
    BY DEF Claims
  <2>5. b.proof # NoOutcome =>
          \/ rows'[r].status = b.proof.status
          \/ b.proof.status = "interrupted" /\ rows'[r].status = "error" /\ PendingError(r)'
    BY <2>1, <2>2 DEF ProofIsDurable
  <2>6. ccall'[r].op = "update" /\ ccall'[r].ph = "done" /\ ccall'[r].res = "ok" => Amended(r)'
    BY <1>2, <2>1, <2>3 DEF ProofIsDurable, CancelGoesOn
  <2>7. /\ StoreFaults /\ b.proof.status \notin Final
        /\ tcall'[r].ph # "idle" /\ tcall'[r].op = "update" /\ tcall'[r].out.status = "error"
        => b.status = "error"
    BY <1>2, <2>1 DEF ProofIsDurable, TaskGoesOn
  <2> QED BY <2>1, <2>3, <2>4, <2>5, <2>6, <2>7 DEF ProofIsDurable, StoreFaults
<1>9. ASSUME AnswersArrive PROVE BusyHolds(r)'
  <2>1. BusyHolds(r) /\ b.home = a.home /\ b.live = a.live
    BY <1>1, <1>9 DEF Durable, Kept
  <2>2. (Holds(r)' <=> Holds(r)) /\ (Claims(rec[r].home, r)' <=> Claims(rec[r].home, r))
    BY <2>1 DEF Holds, Claims
  <2>3. b.live /\ b.pc = "put" => adm'[b.home].ph = "idle"
    BY <1>9, <2>1 DEF BusyHolds, TaskGoesOn
  <2>4. b.live /\ b.pc = "put" /\ tcall'[r].ph = "sent" => Holds(r)' /\ b.left >= -Slack
    BY <1>1, <1>9, <2>1, <2>2 DEF BusyHolds, TaskGoesOn
  <2> QED BY <1>4, <2>1, <2>2, <2>3, <2>4 DEF BusyHolds
<1>10. AnswersArrive' => AnswersArrive
  BY DEF AnswersArrive, StoreFaults
<1> QED BY <1>1, <1>5, <1>6, <1>7, <1>8, <1>9, <1>10 DEF RunOutcome, Durable, TellsTruth

(* A step that only changes the record of a run.                             *)
LEMMA OnlyRecKept ==
    ASSUME OutcomeInvariant, FenceInvariant', NEW r \in Runs, NEW b, OnlyRec(r, b), rec[r].live,
           Kept(rec[r], b), StaysFit(rec[r], b),
           rec[r].pc \in {"end", "done"} => b.pc \in {"end", "done"},
           b.pc \notin {"start", "put"} \/ (b.pc = rec[r].pc /\ b.left = rec[r].left),
           \/ rec[r].pc \notin Calling
           \/ rec[r].status = "error" => b.status = "error" \/ b.lost
    PROVE  OutcomeInvariant'
<1>1. /\ FenceInvariant /\ CallsMatch(r) /\ rec \in [Runs -> Record] /\ rec[r].left \in Int
  BY OutcomeFacts, RunFacts, Numbers DEF FenceInvariant, TypeOK
<1>2. /\ rec' = [rec EXCEPT ![r] = b] /\ UNCHANGED <<rows, adm, tcall, ccall, published, ended>>
  BY DEF OnlyRec
<1>3. rec'[r] = b /\ \A q \in Runs \ {r} : rec'[q] = rec[q]
  BY <1>1, <1>2
<1>4. tcall[r].ph # "idle" => rec[r].pc \in Calling
  BY <1>1 DEF CallsMatch
<1>5. TaskGoesOn(r) /\ CancelGoesOn(r) /\ TellsTruth(r)
  BY <1>1, <1>2, <1>3, <1>4 DEF TaskGoesOn, CancelGoesOn, TellsTruth
<1>6. RunOutcome(r)' /\ Durable(r)'
  BY <1>2, <1>3, <1>5, KeptOutcome
<1> QED BY <1>2, <1>3, <1>6, LocalOutcome

(* A step that also ends or sends the task's store call.                     *)
LEMMA TaskCallKept ==
    ASSUME OutcomeInvariant, FenceInvariant', NEW r \in Runs, NEW b, NEW t, RecAndTask(r, b, t),
           rec[r].live, Kept(rec[r], b), StaysFit(rec[r], b),
           rec[r].pc \notin {"end", "done"}, b.pc # "put",
           \/ tcall[r].ph = "idle" \/ tcall[r].op # "update" \/ b.lost
           \/ tcall[r].out.status # "error",
           \/ t = NoCall
           \/ /\ t.ph = "sent" /\ t.res = "-" /\ t.op # "put"
              /\ b.pc = "start" => t.op = "start"
              /\ t.op = "update" => t.out.status = b.status
    PROVE  OutcomeInvariant'
<1>1. rec \in [Runs -> Record] /\ tcall \in [Runs -> Call]
  BY DEF OutcomeInvariant, FenceInvariant, TypeOK
<1>2. /\ rec' = [rec EXCEPT ![r] = b] /\ tcall' = [tcall EXCEPT ![r] = t]
      /\ UNCHANGED <<rows, adm, ccall, published, ended>>
  BY DEF RecAndTask
<1>3. /\ rec'[r] = b /\ tcall'[r] = t
      /\ \A q \in Runs \ {r} : rec'[q] = rec[q] /\ tcall'[q] = tcall[q]
  BY <1>1, <1>2
<1>4. TaskGoesOn(r) /\ CancelGoesOn(r) /\ TellsTruth(r)
  BY <1>2, <1>3 DEF TaskGoesOn, CancelGoesOn, TellsTruth
<1>5. RunOutcome(r)' /\ Durable(r)'
  BY <1>2, <1>3, <1>4, KeptOutcome
<1> QED BY <1>2, <1>3, <1>5, LocalOutcome

(* A step of cancel() at the owner.                                          *)
LEMMA CancelCallKept ==
    ASSUME OutcomeInvariant, FenceInvariant', NEW r \in Runs, NEW b, NEW c, CancelCall(r, b, c),
           rec[r].live, Kept(rec[r], b), b.pc = rec[r].pc, b.left = rec[r].left,
           StaysFit(rec[r], b),
           rec[r].status = "error" => b.status = "error" \/ b.lost,
           \/ c = NoCall
           \/ c.ph = "sent" /\ c.op = "request"
           \/ /\ c.ph = "sent" /\ c.op = "update" /\ c.out.status = "interrupted"
              /\ c.rev = b.rev /\ b.status = "interrupted"
    PROVE  OutcomeInvariant'
<1>1. FenceInvariant /\ rec \in [Runs -> Record] /\ ccall \in [Runs -> Call] /\ rec[r].left \in Int
  BY Numbers DEF OutcomeInvariant, FenceInvariant, TypeOK
<1>2. /\ rec' = [rec EXCEPT ![r] = b] /\ ccall' = [ccall EXCEPT ![r] = c]
      /\ UNCHANGED <<rows, adm, tcall, published, ended>>
  BY DEF CancelCall
<1>3. /\ rec'[r] = b /\ ccall'[r] = c
      /\ \A q \in Runs \ {r} : rec'[q] = rec[q] /\ ccall'[q] = ccall[q]
  BY <1>1, <1>2
<1>4. TaskGoesOn(r) /\ CancelGoesOn(r) /\ TellsTruth(r)
  BY <1>1, <1>2, <1>3 DEF TaskGoesOn, CancelGoesOn, TellsTruth
<1>5. RunOutcome(r)' /\ Durable(r)'
  BY <1>2, <1>3, <1>4, KeptOutcome
<1> QED BY <1>2, <1>3, <1>5, LocalOutcome

(* A step of the heartbeat.                                                  *)
LEMMA RenewCallKept ==
    ASSUME OutcomeInvariant, FenceInvariant', NEW r \in Runs, NEW b, NEW c, RenewCall(r, b, c),
           rec[r].live, Kept(rec[r], b), b.pc = rec[r].pc, b.left >= rec[r].left,
           StaysFit(rec[r], b),
           rec[r].status = "error" => b.status = "error" \/ b.lost
    PROVE  OutcomeInvariant'
<1>1. rec \in [Runs -> Record]
  BY DEF OutcomeInvariant, FenceInvariant, TypeOK
<1>2. rec' = [rec EXCEPT ![r] = b] /\ UNCHANGED <<rows, adm, tcall, ccall, published, ended>>
  BY DEF RenewCall
<1>3. rec'[r] = b /\ \A q \in Runs \ {r} : rec'[q] = rec[q]
  BY <1>1, <1>2
<1>4. TaskGoesOn(r) /\ CancelGoesOn(r) /\ TellsTruth(r)
  BY <1>2, <1>3 DEF TaskGoesOn, CancelGoesOn, TellsTruth
<1>5. RunOutcome(r)' /\ Durable(r)'
  BY <1>2, <1>3, <1>4, KeptOutcome
<1> QED BY <1>2, <1>3, <1>5, LocalOutcome

-----------------------------------------------------------------------------
(* What the bookkeeping operators keep.                                      *)

(* A change of the fields that the invariant does not read.                  *)
LEMMA KeptSame ==
    ASSUME NEW a \in Record, NEW b,
           b.live = a.live, b.home = a.home, b.proof = a.proof, b.lost = a.lost,
           b.abort = "none" => a.abort = "none", b.rev = a.rev, b.saved => a.saved,
           a.status = "interrupted" => b.status = "interrupted"
    PROVE  Kept(a, b)
BY FieldTypes DEF Kept

(* Keeping is transitive.                                                    *)
LEMMA KeptTrans ==
    ASSUME NEW a \in Record, NEW b \in Record, NEW c,
           Kept(a, b), c.live = b.live, c.home = b.home, c.proof = b.proof, c.lost = b.lost,
           c.abort = b.abort, c.rev = b.rev, c.status = b.status, c.saved = b.saved
    PROVE  Kept(a, c)
BY FieldTypes DEF Kept

(* Staging a status raises the revision, so no older answer can publish it.  *)
LEMMA StageKept ==
    ASSUME NEW a \in Record, NEW status \in Terminal, NEW err \in Errors, NEW p \in Steps
    PROVE  LET b == [Stage(a, status, err) EXCEPT !.pc = p]
           IN  /\ Kept(a, Stage(a, status, err)) /\ Kept(a, b) /\ b.pc = p /\ b.left = a.left
               /\ b.abort = a.abort
<1> DEFINE s == Stage(a, status, err)
           b == [s EXCEPT !.pc = p]
<1>1. s \in Record /\ a.rev \in Nat
  BY StageType, FieldTypes
<1>2. b.pc = p
  <2> HIDE DEF s
  <2> QED BY <1>1, Zenon DEF Record
<1>3. Kept(a, s) /\ s.left = a.left /\ s.abort = a.abort
  <2> DEFINE out == [status |-> status, err |-> IF err = "" THEN a.err ELSE err]
             n == [a EXCEPT !.status = status, !.err = out.err, !.rev = a.rev + 1, !.saved = FALSE]
  <2>1. s = a \/ s = n
    BY Zenon DEF Stage
  <2>2. Kept(a, a) /\ a.left = a.left
    BY <1>1 DEF Kept
  <2>3. /\ n.live = a.live /\ n.home = a.home /\ n.proof = a.proof /\ n.lost = a.lost
        /\ n.abort = a.abort /\ n.left = a.left
    OBVIOUS
  <2>4. n.rev = a.rev + 1 /\ n.saved = FALSE
    <3> HIDE DEF out
    <3> QED BY Zenon DEF Record
  <2> HIDE DEF n, s
  <2>5. Kept(a, n)
    BY <1>1, <2>3, <2>4 DEF Kept
  <2> QED BY <2>1, <2>2, <2>3, <2>5
<1>4. /\ b.live = s.live /\ b.home = s.home /\ b.proof = s.proof /\ b.lost = s.lost
      /\ b.abort = s.abort /\ b.rev = s.rev /\ b.status = s.status /\ b.saved = s.saved
      /\ b.left = s.left
  <2> HIDE DEF s
  <2> QED OBVIOUS
<1> HIDE DEF s, b
<1>5. Kept(a, b)
  BY <1>1, <1>3, <1>4, KeptTrans
<1> QED BY <1>2, <1>3, <1>4, <1>5 DEF s, b

(* Fencing gives the run up or leaves its outcome alone.                     *)
LEMMA FenceKept ==
    ASSUME NEW a \in Record
    PROVE  /\ Kept(a, Fence(a)) /\ Fence(a).left = a.left
           /\ a.status = "error" => Fence(a).status = "error"
           /\ a.live /\ ~Fence(a).lost =>
                /\ FinalAck(a) /\ Fence(a).status = a.status /\ Fence(a).saved = a.saved
                /\ Fence(a).rev = a.rev /\ ~a.lost
           /\ Fence(a).lost \/ Fence(a).status = a.status
<1> DEFINE f == [a EXCEPT !.pending = FALSE]
           ab == IF a.abort = "none" THEN "interrupt" ELSE a.abort
           l == [a EXCEPT !.lost = TRUE, !.saved = FALSE, !.pending = FALSE, !.armed = FALSE,
                          !.status = "error", !.err = "lost", !.abort = ab]
<1>1. a.rev \in Nat /\ a.lost \in BOOLEAN /\ a.live \in BOOLEAN
  BY FieldTypes
<1>2. CASE ~a.live \/ a.lost
  <2>1. Fence(a) = a
    BY <1>2 DEF Fence
  <2> QED BY <1>1, <1>2, <2>1 DEF Kept
<1>3. CASE a.live /\ ~a.lost /\ FinalAck(a)
  <2>1. Fence(a) = f
    BY <1>3 DEF Fence
  <2>2. /\ f.live = a.live /\ f.home = a.home /\ f.proof = a.proof /\ f.lost = a.lost
        /\ f.abort = a.abort /\ f.rev = a.rev /\ f.status = a.status /\ f.saved = a.saved
        /\ f.left = a.left
    OBVIOUS
  <2> HIDE DEF f
  <2>3. Kept(a, f)
    BY <2>2, KeptSame
  <2> QED BY <1>3, <2>1, <2>2, <2>3
<1>4. CASE a.live /\ ~a.lost /\ ~FinalAck(a)
  <2>1. Fence(a) = l
    BY <1>4, Zenon DEF Fence
  <2>2. l.live = a.live /\ l.home = a.home /\ l.proof = a.proof /\ l.rev = a.rev /\ l.left = a.left
    OBVIOUS
  <2>3. l.lost = TRUE /\ l.status = "error" /\ l.abort = ab
    <3> HIDE DEF ab
    <3> QED BY Zenon DEF Record
  <2>4. ab = "none" => a.abort = "none"
    OBVIOUS
  <2> HIDE DEF l, ab
  <2>5. Kept(a, l)
    BY <1>1, <2>2, <2>3, <2>4 DEF Kept
  <2> QED BY <2>1, <2>2, <2>3, <2>5
<1> QED BY <1>1, <1>2, <1>3, <1>4

-----------------------------------------------------------------------------
(* The steps of a run's task.                                                *)

(* A move of the task that changes no other field the invariant reads.       *)
LEMMA MovedRecord ==
    ASSUME NEW a \in Record, NEW b, NEW p,
           b.live = a.live, b.home = a.home, b.proof = a.proof, b.lost = a.lost,
           b.abort = a.abort, b.rev = a.rev, b.status = a.status, b.saved = a.saved, b.pc = p,
           \/ p \notin Working
           \/ a.pc \in Working /\ (p \in {"none", "wait", "start"} => a.pc \in {"none", "wait", "start"})
    PROVE  Kept(a, b) /\ StaysFit(a, b)
<1>1. Kept(a, b)
  BY KeptSame
<1> QED BY <1>1 DEF StaysFit, Busy

(* A run that stops working needs no fitting status.                         *)
LEMMA NotBusyFits ==
    ASSUME NEW a, NEW b, b.pc \notin Working \/ b.lost \/ b.abort # "none" \/ ~b.live
    PROVE  StaysFit(a, b)
BY DEF StaysFit, Busy

(* Attach, SkipEvidence, Interrupted and Restore only move the task.         *)
LEMMA MoveOutcome ==
    ASSUME OutcomeInvariant, FenceInvariant', NEW r \in Runs,
           Attach(r) \/ SkipEvidence(r) \/ Interrupted(r) \/ Restore(r)
    PROVE  OutcomeInvariant'
<1>1. rec[r] \in Record
  BY OutcomeFacts, RunFacts
<1>2. CASE Attach(r)
  <2> DEFINE b == [rec[r] EXCEPT !.pc = "wait", !.pending = TRUE]
  <2>1. OnlyRec(r, b) /\ rec[r].live /\ rec[r].pc = "none"
    BY <1>2 DEF Attach, Alive
  <2>2. /\ b.live = rec[r].live /\ b.home = rec[r].home /\ b.proof = rec[r].proof
        /\ b.lost = rec[r].lost /\ b.abort = rec[r].abort /\ b.rev = rec[r].rev
        /\ b.status = rec[r].status /\ b.saved = rec[r].saved
    OBVIOUS
  <2>3. b.pc = "wait"
    BY <1>1, Zenon DEF Record
  <2> HIDE DEF b
  <2>4. Kept(rec[r], b) /\ StaysFit(rec[r], b)
    BY <1>1, <2>1, <2>2, <2>3, MovedRecord DEF Working
  <2> QED BY <2>1, <2>3, <2>4, OnlyRecKept DEF Calling
<1>3. CASE SkipEvidence(r) \/ Interrupted(r) \/ Restore(r)
  <2>1. PICK p \in {"run", "cancel", "final", "persist"} :
          /\ OnlyRec(r, [rec[r] EXCEPT !.pc = p]) /\ rec[r].live
          /\ rec[r].pc \in {"build", "run", "restore"}
          /\ p = "run" => rec[r].pc = "build"
    BY <1>3 DEF SkipEvidence, Interrupted, Restore, Alive
  <2> DEFINE b == [rec[r] EXCEPT !.pc = p]
  <2>2. /\ b.live = rec[r].live /\ b.home = rec[r].home /\ b.proof = rec[r].proof
        /\ b.lost = rec[r].lost /\ b.abort = rec[r].abort /\ b.rev = rec[r].rev
        /\ b.status = rec[r].status /\ b.saved = rec[r].saved
    OBVIOUS
  <2>3. b.pc = p
    BY <1>1, Zenon DEF Record
  <2>4. OnlyRec(r, b)
    BY <2>1
  <2> HIDE DEF b
  <2>5. Kept(rec[r], b) /\ StaysFit(rec[r], b)
    BY <1>1, <2>1, <2>2, <2>3, MovedRecord DEF Working
  <2> QED BY <2>1, <2>3, <2>4, <2>5, OnlyRecKept DEF Calling
<1> QED BY <1>2, <1>3

(* Staging an outcome and going on.                                          *)
LEMMA StagedOutcome ==
    ASSUME OutcomeInvariant, FenceInvariant', NEW r \in Runs, rec[r].live,
           NEW status \in Terminal, NEW err \in Errors, NEW p \in Steps,
           rec[r].pc \notin {"end", "done"}, p \notin Working,
           LET b == [Stage(rec[r], status, err) EXCEPT !.pc = p]
           IN  \/ OnlyRec(r, b) /\ rec[r].pc \notin Calling
               \/ RecAndTask(r, b, NoCall) /\ (tcall[r].ph = "idle" \/ tcall[r].op # "update")
    PROVE  OutcomeInvariant'
<1> DEFINE b == [Stage(rec[r], status, err) EXCEPT !.pc = p]
<1>1. rec[r] \in Record
  BY OutcomeFacts, RunFacts
<1>2. Kept(rec[r], b) /\ b.pc = p
  BY <1>1, StageKept
<1>3. \/ OnlyRec(r, b) /\ rec[r].pc \notin Calling
      \/ RecAndTask(r, b, NoCall) /\ (tcall[r].ph = "idle" \/ tcall[r].op # "update")
  OBVIOUS
<1> HIDE DEF b
<1>4. StaysFit(rec[r], b)
  BY <1>2, NotBusyFits
<1>5. b.pc \notin {"start", "put"}
  BY <1>2 DEF Working
<1> QED BY <1>2, <1>3, <1>4, <1>5, OnlyRecKept, TaskCallKept

(* StartCheck: a pending run sends the startup compare-and-set.              *)
LEMMA StartCheckOutcome ==
    ASSUME OutcomeInvariant, FenceInvariant', NEW r \in Runs, StartCheck(r) PROVE OutcomeInvariant'
<1>1. rec[r] \in Record /\ rec[r].live /\ rec[r].pc = "wait" /\ CallsMatch(r)
  BY OutcomeFacts, RunFacts DEF StartCheck, CanStep, Alive
<1>2. tcall[r].ph = "idle"
  BY <1>1 DEF CallsMatch, Calling
<1>3. CASE OnlyRec(r, NotStarted(rec[r]))
  <2> DEFINE p == IF rec[r].abort # "none" THEN "cancel" ELSE "final"
             b == [rec[r] EXCEPT !.pc = p]
  <2>1. OnlyRec(r, b)
    BY <1>3 DEF NotStarted
  <2>2. p \in {"cancel", "final"}
    OBVIOUS
  <2> HIDE DEF p
  <2>3. /\ b.live = rec[r].live /\ b.home = rec[r].home /\ b.proof = rec[r].proof
        /\ b.lost = rec[r].lost /\ b.abort = rec[r].abort /\ b.rev = rec[r].rev
        /\ b.status = rec[r].status /\ b.saved = rec[r].saved
    OBVIOUS
  <2>4. b.pc = p
    BY <1>1, Zenon DEF Record
  <2> HIDE DEF b
  <2>5. Kept(rec[r], b) /\ StaysFit(rec[r], b)
    BY <1>1, <2>2, <2>3, <2>4, MovedRecord DEF Working
  <2> QED BY <1>1, <2>1, <2>2, <2>4, <2>5, OnlyRecKept DEF Calling
<1>4. CASE RecAndTask(r, [rec[r] EXCEPT !.pc = "start"], Send("start", NoOutcome, 0, "none"))
  <2> DEFINE b == [rec[r] EXCEPT !.pc = "start"]
             t == Send("start", NoOutcome, 0, "none")
  <2>1. RecAndTask(r, b, t)
    BY <1>4
  <2>2. t.ph = "sent" /\ t.res = "-" /\ t.op = "start"
    BY DEF Send
  <2>3. /\ b.live = rec[r].live /\ b.home = rec[r].home /\ b.proof = rec[r].proof
        /\ b.lost = rec[r].lost /\ b.abort = rec[r].abort /\ b.rev = rec[r].rev
        /\ b.status = rec[r].status /\ b.saved = rec[r].saved
    OBVIOUS
  <2>4. b.pc = "start"
    BY <1>1, Zenon DEF Record
  <2> HIDE DEF b, t
  <2>5. Kept(rec[r], b) /\ StaysFit(rec[r], b)
    BY <1>1, <2>3, <2>4, MovedRecord DEF Working
  <2> QED BY <1>1, <1>2, <2>1, <2>2, <2>4, <2>5, TaskCallKept
<1> QED BY <1>3, <1>4 DEF StartCheck

(* A step by which the run stops working, or has stopped before.             *)
LEMMA StoppedOutcome ==
    ASSUME OutcomeInvariant, FenceInvariant', NEW r \in Runs, NEW b, NEW t, rec[r].live,
           Kept(rec[r], b), b.pc \notin Working,
           rec[r].pc \in {"end", "done"} => b.pc \in {"end", "done"},
           \/ OnlyRec(r, b) /\ rec[r].pc \notin Calling
           \/ /\ RecAndTask(r, b, t) /\ rec[r].pc \notin {"end", "done"}
              /\ \/ tcall[r].ph = "idle" \/ tcall[r].op # "update" \/ b.lost
                 \/ tcall[r].out.status # "error"
              /\ \/ t = NoCall
                 \/ /\ t.ph = "sent" /\ t.res = "-" /\ t.op \in {"update", "cas"}
                    /\ t.out.status = b.status
    PROVE  OutcomeInvariant'
<1>1. StaysFit(rec[r], b)
  BY NotBusyFits
<1>2. b.pc \notin {"start", "put"}
  BY DEF Working
<1> QED BY <1>1, <1>2, OnlyRecKept, TaskCallKept

(* The task's startup call is no status write.                               *)
LEMMA StartCallFacts ==
    ASSUME OutcomeInvariant, NEW r \in Runs, rec[r].pc = "start", tcall[r].ph # "idle"
    PROVE  tcall[r].op = "start"
BY OutcomeFacts DEF RunOutcome, BusyIsUndecided

(* StartAck: the run starts to work, fails, is cancelled or is put back.     *)
LEMMA StartAckOutcome ==
    ASSUME OutcomeInvariant, FenceInvariant', NEW r \in Runs, StartAck(r) PROVE OutcomeInvariant'
<1>1. /\ rec[r] \in Record /\ rec[r].live /\ rec[r].pc = "start" /\ tcall[r].ph = "done"
  BY OutcomeFacts, RunFacts DEF StartAck, CanStep, Alive
<1>2. tcall[r].op = "start"
  BY <1>1, StartCallFacts
<1>3. CASE RecAndTask(r, [Stage(rec[r], "error", "failed") EXCEPT !.pc = "final"], NoCall)
  <2>1. "failed" \in Errors /\ "error" \in Terminal /\ "final" \in Steps /\ "final" \notin Working
    BY StatusNames, StepNames DEF Errors, Working
  <2> QED BY <1>1, <1>2, <1>3, <2>1, StagedOutcome
<1>4. CASE RecAndTask(r,
               [rec[r] EXCEPT !.pc     = "cancel",
                              !.status = IF @ = "pending" THEN "interrupted" ELSE @,
                              !.saved  = @ /\ rec[r].status # "pending",
                              !.abort  = IF @ = "none" THEN "interrupt" ELSE @], NoCall)
  <2> DEFINE st == IF rec[r].status = "pending" THEN "interrupted" ELSE rec[r].status
             sv == rec[r].saved /\ rec[r].status # "pending"
             ab == IF rec[r].abort = "none" THEN "interrupt" ELSE rec[r].abort
             b == [rec[r] EXCEPT !.pc = "cancel", !.status = st, !.saved = sv, !.abort = ab]
  <2>1. /\ rec[r].status = "interrupted" => st = "interrupted"
        /\ sv => rec[r].saved
        /\ ab # "none"
    BY <1>1, FieldTypes, StatusNames
  <2>2. RecAndTask(r, b, NoCall)
    BY <1>4
  <2> HIDE DEF st, sv, ab
  <2>3. b.pc = "cancel" /\ b.abort = ab /\ b.status = st /\ b.saved = sv
    BY <1>1, Zenon DEF Record
  <2>4. /\ b.live = rec[r].live /\ b.home = rec[r].home /\ b.proof = rec[r].proof
        /\ b.lost = rec[r].lost /\ b.rev = rec[r].rev
    OBVIOUS
  <2> HIDE DEF b
  <2>5. Kept(rec[r], b)
    BY <1>1, <2>1, <2>3, <2>4, KeptSame
  <2> QED BY <1>1, <1>2, <2>2, <2>3, <2>5, StoppedOutcome DEF Working
<1>5. CASE /\ rec[r].status = "pending"
           /\ RecAndTask(r, [rec[r] EXCEPT !.pc = "build", !.status = "running", !.started = TRUE], NoCall)
  <2> DEFINE b == [rec[r] EXCEPT !.pc = "build", !.status = "running", !.started = TRUE]
  <2>1. b.pc = "build" /\ b.status = "running"
    BY <1>1, Zenon DEF Record
  <2>2. /\ b.live = rec[r].live /\ b.home = rec[r].home /\ b.proof = rec[r].proof
        /\ b.lost = rec[r].lost /\ b.rev = rec[r].rev /\ b.abort = rec[r].abort
        /\ b.saved = rec[r].saved
    OBVIOUS
  <2>3. RecAndTask(r, b, NoCall)
    BY <1>5
  <2> HIDE DEF b
  <2>4. Kept(rec[r], b)
    BY <1>1, <1>5, <2>1, <2>2, KeptSame
  <2>5. StaysFit(rec[r], b)
    BY <1>1, <2>1, StatusNames DEF StaysFit, Working
  <2> QED BY <1>1, <1>2, <2>1, <2>3, <2>4, <2>5, TaskCallKept
<1>6. CASE RecAndTask(r, NotStarted(rec[r]), NoCall)
  <2> DEFINE p == IF rec[r].abort # "none" THEN "cancel" ELSE "final"
             b == [rec[r] EXCEPT !.pc = p]
  <2>1. RecAndTask(r, b, NoCall)
    BY <1>6 DEF NotStarted
  <2>2. p \notin Working
    BY DEF Working
  <2> HIDE DEF p
  <2>3. /\ b.live = rec[r].live /\ b.home = rec[r].home /\ b.proof = rec[r].proof
        /\ b.lost = rec[r].lost /\ b.abort = rec[r].abort /\ b.rev = rec[r].rev
        /\ b.status = rec[r].status /\ b.saved = rec[r].saved
    OBVIOUS
  <2>4. b.pc = p
    BY <1>1, Zenon DEF Record
  <2> HIDE DEF b
  <2>5. Kept(rec[r], b)
    BY <1>1, <2>3, KeptSame
  <2> QED BY <1>1, <1>2, <2>1, <2>2, <2>4, <2>5, StoppedOutcome
<1>7. CASE RecAndTask(r, [rec[r] EXCEPT !.pc = "unstart",
                                        !.pending = @ \/ rec[r].status \in Terminal],
                      Send("update", OutcomeOf(rec[r]), rec[r].rev, "none"))
  <2> DEFINE pd == rec[r].pending \/ rec[r].status \in Terminal
             b == [rec[r] EXCEPT !.pc = "unstart", !.pending = pd]
             t == Send("update", OutcomeOf(rec[r]), rec[r].rev, "none")
  <2>1. RecAndTask(r, b, t)
    BY <1>7
  <2>2. t.ph = "sent" /\ t.res = "-" /\ t.op = "update" /\ t.out.status = rec[r].status
    BY DEF Send, OutcomeOf
  <2> HIDE DEF pd
  <2>3. b.pc = "unstart"
    BY <1>1, Zenon DEF Record
  <2>4. /\ b.live = rec[r].live /\ b.home = rec[r].home /\ b.proof = rec[r].proof
        /\ b.lost = rec[r].lost /\ b.abort = rec[r].abort /\ b.rev = rec[r].rev
        /\ b.status = rec[r].status /\ b.saved = rec[r].saved
    OBVIOUS
  <2> HIDE DEF b, t
  <2>5. Kept(rec[r], b)
    BY <1>1, <2>4, KeptSame
  <2>6. b.pc \notin Working
    BY <2>3 DEF Working
  <2> QED BY <1>1, <1>2, <2>1, <2>2, <2>4, <2>5, <2>6, StoppedOutcome
<1> QED BY <1>3, <1>4, <1>5, <1>6, <1>7 DEF StartAck

(* Finish, FailRun and ReceiptLost stage an outcome.                         *)
LEMMA FinishOutcome ==
    ASSUME OutcomeInvariant, FenceInvariant', NEW r \in Runs,
           FailRun(r) \/ \E status \in {"success", "error"} : Finish(r, status)
    PROVE  OutcomeInvariant'
<1>1. /\ "failed" \in Errors /\ "" \in Errors /\ "final" \in Steps /\ "final" \notin Working
      /\ "error" \in Terminal /\ "success" \in Terminal
  BY StatusNames, StepNames DEF Errors, Working
<1>2. CASE FailRun(r)
  BY Zenon, <1>1, <1>2, StagedOutcome DEF FailRun, CanStep, Alive, Calling
<1>3. ASSUME NEW status \in {"success", "error"}, Finish(r, status) PROVE OutcomeInvariant'
  <2> DEFINE e == IF status = "error" THEN "failed" ELSE ""
  <2>1. /\ OnlyRec(r, [Stage(rec[r], status, e) EXCEPT !.pc = "final"])
        /\ rec[r].live /\ rec[r].pc = "run"
    BY Zenon, <1>3 DEF Finish, CanStep, Alive
  <2>2. e \in Errors
    BY Zenon, <1>1
  <2> HIDE DEF e
  <2> QED BY Zenon, <1>1, <1>3, <2>1, <2>2, StagedOutcome DEF Calling
<1> QED BY <1>2, <1>3

(* ReceiptLost stages an error over a success that is not persisted.         *)
LEMMA ReceiptLostOutcome ==
    ASSUME OutcomeInvariant, FenceInvariant', NEW r \in Runs, ReceiptLost(r) PROVE OutcomeInvariant'
<1> DEFINE b == Stage(rec[r], "error", "failed")
<1>1. rec[r] \in Record /\ rec[r].live /\ rec[r].pc = "final" /\ OnlyRec(r, b)
  BY OutcomeFacts, RunFacts DEF ReceiptLost, CanStep, Alive
<1>2. "failed" \in Errors /\ "error" \in Terminal /\ "final" \in Steps
  BY StatusNames, StepNames DEF Errors
<1>3. Kept(rec[r], b) /\ b.pc = rec[r].pc
  BY <1>1, <1>2, StageKept, StageCalm
<1> HIDE DEF b
<1> QED BY <1>1, <1>3, StoppedOutcome DEF Working, Calling

(* PutBegin: the snapshot is sent while the run holds the active row.        *)
LEMMA PutBeginOutcome ==
    ASSUME OutcomeInvariant, FenceInvariant', NEW r \in Runs, PutBegin(r) PROVE OutcomeInvariant'
<1> DEFINE b == [rec[r] EXCEPT !.pc = "put"]
           t == Send("put", [status |-> rec[r].status, err |-> ""], rec[r].rev, "none")
<1>1. /\ rec[r] \in Record /\ rec[r].live /\ rec[r].pc = "build" /\ rec[r].abort = "none"
      /\ ~rec[r].lost /\ GateFree(rec[r].home) /\ RecAndTask(r, b, t)
      /\ CallsMatch(r) /\ TimerIsArmed(r) /\ RunOutcome(r) /\ Durable(r)
      /\ rec \in [Runs -> Record] /\ tcall \in [Runs -> Call]
  BY Zenon, OutcomeFacts, RunFacts DEF PutBegin, CanStep, Alive, FenceInvariant, TypeOK
<1>2. tcall[r].ph = "idle" /\ Busy(rec[r])
  BY Zenon, <1>1 DEF CallsMatch, Calling, Busy, Working
<1>3. rec[r].proof = NoOutcome /\ rec[r].status \in Active
  BY Zenon, <1>1, <1>2 DEF RunOutcome, BusyIsUndecided
<1>4. /\ b.live = rec[r].live /\ b.home = rec[r].home /\ b.proof = rec[r].proof
      /\ b.lost = rec[r].lost /\ b.abort = rec[r].abort /\ b.rev = rec[r].rev
      /\ b.status = rec[r].status /\ b.saved = rec[r].saved /\ b.left = rec[r].left
  OBVIOUS
<1>5. b.pc = "put"
  BY <1>1, Zenon DEF Record
<1>6. t.ph = "sent" /\ t.op = "put" /\ t.out.status = rec[r].status
  BY Zenon DEF Send
<1> HIDE DEF b, t
<1>7. /\ rec' = [rec EXCEPT ![r] = b] /\ tcall' = [tcall EXCEPT ![r] = t]
      /\ UNCHANGED <<rows, adm, ccall, published, ended>>
  BY <1>1 DEF RecAndTask
<1>8. /\ rec'[r] = b /\ tcall'[r] = t
      /\ \A q \in Runs \ {r} : rec'[q] = rec[q] /\ tcall'[q] = tcall[q]
  BY <1>1, <1>7
<1>9. Kept(rec[r], b) /\ StaysFit(rec[r], b)
  BY <1>1, <1>4, <1>5, MovedRecord DEF Working
<1>10. ASSUME AnswersArrive
       PROVE  adm[rec[r].home].ph = "idle" /\ Holds(r) /\ b.left >= -Slack
  <2>1. adm[rec[r].home].ph = "idle"
    BY <1>1 DEF GateFree
  <2>2. Holds(r)
    BY <1>1, <1>2, <1>10, <2>1 DEF Durable, BusyHolds, Claims
  <2> QED BY <1>1, <1>3, <1>4, <2>1, <2>2 DEF TimerIsArmed
<1>11. TaskGoesOn(r) /\ CancelGoesOn(r) /\ TellsTruth(r)
  BY <1>2, <1>3, <1>5, <1>6, <1>7, <1>8, <1>10 DEF TaskGoesOn, CancelGoesOn, TellsTruth
<1>12. RunOutcome(r)' /\ Durable(r)'
  BY <1>1, <1>7, <1>8, <1>9, <1>11, KeptOutcome
<1> QED BY <1>7, <1>8, <1>12, LocalOutcome

(* PutAck: the run goes on executing, or fails.                              *)
LEMMA PutAckOutcome ==
    ASSUME OutcomeInvariant, FenceInvariant', NEW r \in Runs, PutAck(r) PROVE OutcomeInvariant'
<1>1. /\ rec[r] \in Record /\ rec[r].live /\ rec[r].pc = "put" /\ tcall[r].ph = "done"
      /\ CallsMatch(r)
  BY OutcomeFacts, RunFacts DEF PutAck, Alive
<1>2. tcall[r].op # "update"
  BY <1>1 DEF CallsMatch
<1>3. CASE RecAndTask(r, [rec[r] EXCEPT !.pc = "run"], NoCall)
  <2> DEFINE b == [rec[r] EXCEPT !.pc = "run"]
  <2>1. /\ b.live = rec[r].live /\ b.home = rec[r].home /\ b.proof = rec[r].proof
        /\ b.lost = rec[r].lost /\ b.abort = rec[r].abort /\ b.rev = rec[r].rev
        /\ b.status = rec[r].status /\ b.saved = rec[r].saved
    OBVIOUS
  <2>2. b.pc = "run"
    BY <1>1, Zenon DEF Record
  <2>3. RecAndTask(r, b, NoCall)
    BY <1>3
  <2> HIDE DEF b
  <2>4. Kept(rec[r], b) /\ StaysFit(rec[r], b)
    BY <1>1, <2>1, <2>2, MovedRecord DEF Working
  <2> QED BY <1>1, <1>2, <2>2, <2>3, <2>4, TaskCallKept
<1>4. CASE RecAndTask(r, [Stage(rec[r], "error", "failed") EXCEPT !.pc = "final"], NoCall)
  <2>1. "failed" \in Errors /\ "error" \in Terminal /\ "final" \in Steps /\ "final" \notin Working
    BY StatusNames, StepNames DEF Errors, Working
  <2> QED BY <1>1, <1>2, <1>4, <2>1, StagedOutcome
<1> QED BY <1>3, <1>4 DEF PutAck

(* Fenced: the task of a run that was given up goes to its tail.             *)
LEMMA FencedOutcome ==
    ASSUME OutcomeInvariant, FenceInvariant', NEW r \in Runs, Fenced(r) PROVE OutcomeInvariant'
<1> DEFINE b == [rec[r] EXCEPT !.pc = "tail"]
<1>1. /\ rec[r] \in Record /\ rec[r].live /\ rec[r].lost /\ rec[r].pc \notin {"end", "done"}
      /\ RecAndTask(r, b, NoCall)
  BY OutcomeFacts, RunFacts DEF Fenced, Alive
<1>2. /\ b.live = rec[r].live /\ b.home = rec[r].home /\ b.proof = rec[r].proof
      /\ b.lost = rec[r].lost /\ b.abort = rec[r].abort /\ b.rev = rec[r].rev
      /\ b.status = rec[r].status /\ b.saved = rec[r].saved
  OBVIOUS
<1>3. b.pc = "tail"
  BY <1>1, Zenon DEF Record
<1> HIDE DEF b
<1>4. Kept(rec[r], b)
  BY <1>1, <1>2, KeptSame
<1> QED BY <1>1, <1>2, <1>3, <1>4, StoppedOutcome DEF Working

(* FinishCancellation stages the outcome of the accepted action.             *)
LEMMA FinishCancellationOutcome ==
    ASSUME OutcomeInvariant, FenceInvariant', NEW r \in Runs, FinishCancellation(r)
    PROVE  OutcomeInvariant'
<1>1. rec[r] \in Record /\ rec[r].live /\ rec[r].pc = "cancel"
  BY Zenon, OutcomeFacts, RunFacts DEF FinishCancellation, CanStep, Alive
<1> DEFINE rc == [rec[r] EXCEPT !.finalizing = TRUE]
           nx == IF rc.stage = 0 THEN "final" ELSE "persist"
           px == IF rc.started THEN "restore" ELSE nx
           rb == [rc EXCEPT !.rollback = TRUE]
<1>2. rc \in Record /\ rb \in Record
  <2>1. rc \in Record
    BY <1>1, Zenon DEF Record
  <2> HIDE DEF rc
  <2> QED BY <2>1, Zenon DEF Record
<1>3. nx \in Steps \ Working /\ px \in Steps \ Working
  BY StepNames DEF Working
<1>4. PICK text \in Errors :
        IF rc.abort = "rollback"
        THEN OnlyRec(r, [Stage(rb, "error", "rolledback") EXCEPT !.pc = px])
        ELSE OnlyRec(r, [Stage(rc, "interrupted", text) EXCEPT !.pc = nx])
  BY Zenon DEF FinishCancellation, Errors
<1>5. ASSUME NEW x \in {rc, rb}
      PROVE  /\ x.live = rec[r].live /\ x.home = rec[r].home /\ x.proof = rec[r].proof
             /\ x.lost = rec[r].lost /\ x.abort = rec[r].abort /\ x.rev = rec[r].rev
             /\ x.status = rec[r].status /\ x.saved = rec[r].saved
  <2>1. CASE x = rc
    BY <2>1
  <2>2. CASE x = rb
    BY <2>2
  <2> QED BY <1>5, <2>1, <2>2
<1>6. "error" \in Terminal /\ "interrupted" \in Terminal /\ "rolledback" \in Errors
  BY Zenon, StatusNames DEF Errors
<1> HIDE DEF rc, nx, px, rb
<1>7. ASSUME NEW x \in {rc, rb}, NEW s \in Terminal, NEW e \in Errors, NEW p \in Steps \ Working,
             OnlyRec(r, [Stage(x, s, e) EXCEPT !.pc = p])
      PROVE  OutcomeInvariant'
  <2> DEFINE b == [Stage(x, s, e) EXCEPT !.pc = p]
  <2>1. x \in Record /\ p \in Steps
    BY <1>2
  <2>2. Kept(x, b) /\ b.pc = p
    BY <2>1, StageKept
  <2>3. OnlyRec(r, b)
    BY <1>7
  <2> HIDE DEF b
  <2>4. Kept(rec[r], b)
    BY <1>5, <2>2 DEF Kept
  <2> QED BY <1>1, <2>2, <2>3, <2>4, StoppedOutcome DEF Calling
<1>8. CASE OnlyRec(r, [Stage(rb, "error", "rolledback") EXCEPT !.pc = px])
  BY <1>3, <1>6, <1>7, <1>8
<1>9. CASE OnlyRec(r, [Stage(rc, "interrupted", text) EXCEPT !.pc = nx])
  BY <1>3, <1>6, <1>7, <1>9
<1> QED BY <1>4, <1>8, <1>9

(* Sending a terminal write of the staged outcome.                           *)
LEMMA CommitSentOutcome ==
    ASSUME OutcomeInvariant, FenceInvariant', NEW r \in Runs, NEW a \in Record,
           rec[r].live, rec[r].pc \notin Calling \cup {"end", "done"}, Kept(rec[r], a),
           NEW op \in {"update", "cas"},
           RecAndTask(r, [a EXCEPT !.pc = "commit", !.pending = TRUE],
                      Send(op, OutcomeOf(a), a.rev, "none"))
    PROVE  OutcomeInvariant'
<1> DEFINE b == [a EXCEPT !.pc = "commit", !.pending = TRUE]
           t == Send(op, OutcomeOf(a), a.rev, "none")
<1>1. rec[r] \in Record /\ CallsMatch(r)
  BY OutcomeFacts, RunFacts
<1>2. tcall[r].ph = "idle"
  BY <1>1 DEF CallsMatch
<1>3. /\ b.live = a.live /\ b.home = a.home /\ b.proof = a.proof /\ b.lost = a.lost
      /\ b.abort = a.abort /\ b.rev = a.rev /\ b.status = a.status /\ b.saved = a.saved
  OBVIOUS
<1>4. b.pc = "commit"
  BY Zenon DEF Record
<1>5. t.ph = "sent" /\ t.res = "-" /\ t.op = op /\ t.out.status = a.status
  BY DEF Send, OutcomeOf
<1>6. RecAndTask(r, b, t)
  OBVIOUS
<1> HIDE DEF b, t
<1>7. Kept(rec[r], b)
  BY <1>1, <1>3, KeptTrans
<1> QED BY <1>2, <1>3, <1>4, <1>5, <1>6, <1>7, StoppedOutcome DEF Working

(* Arbitrate: the terminal compare-and-set, the accepted action or the tail. *)
LEMMA ArbitrateOutcome ==
    ASSUME OutcomeInvariant, FenceInvariant', NEW r \in Runs, Arbitrate(r) PROVE OutcomeInvariant'
<1> DEFINE a == [rec[r] EXCEPT !.stage = 1]
           p == IF a.status = "success" THEN "cancel" ELSE "persist"
<1>1. rec[r] \in Record /\ rec[r].live /\ rec[r].pc = "final"
  BY OutcomeFacts, RunFacts DEF Arbitrate, CanStep, Alive
<1>2. a \in Record
  <2>1. 1 \in 0 .. 2
    OBVIOUS
  <2> QED BY <1>1, <2>1, Zenon DEF Record
<1>3. \/ OnlyRec(r, [a EXCEPT !.pc = p])
      \/ OnlyRec(r, [a EXCEPT !.pc = "tail"])
      \/ RecAndTask(r, [a EXCEPT !.pc = "commit", !.pending = TRUE],
                    Send("cas", OutcomeOf(a), a.rev, "none"))
  BY DEF Arbitrate
<1>4. p \in {"cancel", "persist"}
  OBVIOUS
<1>5. Kept(rec[r], a)
  <2>1. /\ a.live = rec[r].live /\ a.home = rec[r].home /\ a.proof = rec[r].proof
        /\ a.lost = rec[r].lost /\ a.abort = rec[r].abort /\ a.rev = rec[r].rev
        /\ a.status = rec[r].status /\ a.saved = rec[r].saved
    OBVIOUS
  <2> HIDE DEF a
  <2> QED BY <1>1, <2>1, KeptSame
<1> HIDE DEF a, p
<1>6. ASSUME NEW s \in {"cancel", "persist", "tail"}, OnlyRec(r, [a EXCEPT !.pc = s])
      PROVE  OutcomeInvariant'
  <2> DEFINE b == [a EXCEPT !.pc = s]
  <2>1. /\ b.live = a.live /\ b.home = a.home /\ b.proof = a.proof /\ b.lost = a.lost
        /\ b.abort = a.abort /\ b.rev = a.rev /\ b.status = a.status /\ b.saved = a.saved
    OBVIOUS
  <2>2. b.pc = s
    BY <1>2, Zenon DEF Record
  <2>3. OnlyRec(r, b)
    BY <1>6
  <2> HIDE DEF b
  <2>4. Kept(rec[r], b)
    BY <1>1, <1>2, <1>5, <2>1, KeptTrans
  <2> QED BY <1>1, <2>2, <2>3, <2>4, StoppedOutcome DEF Working, Calling
<1>7. CASE RecAndTask(r, [a EXCEPT !.pc = "commit", !.pending = TRUE],
                      Send("cas", OutcomeOf(a), a.rev, "none"))
  BY Zenon, <1>1, <1>2, <1>5, <1>7, CommitSentOutcome DEF Calling
<1> QED BY <1>3, <1>4, <1>6, <1>7

(* PersistBegin: the outcome is acknowledged already, or its write is sent.  *)
LEMMA PersistBeginOutcome ==
    ASSUME OutcomeInvariant, FenceInvariant', NEW r \in Runs, PersistBegin(r) PROVE OutcomeInvariant'
<1> DEFINE a == rec[r]
           f == FinalAck(a)
           p == AfterCommit(a)
           b == [a EXCEPT !.saved = f, !.pc = p]
<1>1. a \in Record /\ a.live /\ a.pc = "persist"
  BY OutcomeFacts, RunFacts DEF PersistBegin, CanStep, Alive
<1>2. \/ OnlyRec(r, b)
      \/ RecAndTask(r, [a EXCEPT !.pc = "commit", !.pending = TRUE],
                    Send("update", OutcomeOf(a), a.rev, "none"))
  BY DEF PersistBegin
<1>3. CASE OnlyRec(r, b)
  <2>1. p \in {"seal", "tail"} /\ (f => a.proof # NoOutcome)
    BY <1>1, AfterCommitStep, FinalAckHasProof
  <2> HIDE DEF f, p
  <2>2. b.pc = p /\ b.saved = f
    BY <1>1, Zenon DEF Record
  <2>3. /\ b.live = a.live /\ b.home = a.home /\ b.proof = a.proof /\ b.lost = a.lost
        /\ b.abort = a.abort /\ b.rev = a.rev /\ b.status = a.status
    OBVIOUS
  <2> HIDE DEF b
  <2>4. Kept(rec[r], b)
    BY <1>1, <2>1, <2>2, <2>3, FieldTypes DEF Kept
  <2> QED BY <1>1, <1>3, <2>1, <2>2, <2>4, StoppedOutcome DEF Working, Calling
<1>4. CASE RecAndTask(r, [a EXCEPT !.pc = "commit", !.pending = TRUE],
                      Send("update", OutcomeOf(a), a.rev, "none"))
  <2>1. Kept(rec[r], a)
    BY <1>1, KeptSame
  <2> QED BY Zenon, <1>1, <1>4, <2>1, CommitSentOutcome DEF Calling
<1> QED BY <1>2, <1>3, <1>4

(* Tail: the barrier is released; an unconfirmed outcome is written again.   *)
LEMMA TailOutcome ==
    ASSUME OutcomeInvariant, FenceInvariant', NEW r \in Runs, Tail(r) PROVE OutcomeInvariant'
<1> DEFINE pd == rec[r].pending /\ ~(rec[r].lost \/ FinalAck(rec[r]))
           a == [rec[r] EXCEPT !.pending = pd]
<1>1. rec[r] \in Record /\ rec[r].live /\ rec[r].pc = "tail"
  BY OutcomeFacts, RunFacts DEF Tail, CanStep, Alive
<1>2. \/ OnlyRec(r, [a EXCEPT !.pc = "persist", !.stage = 2])
      \/ OnlyRec(r, [a EXCEPT !.pc = "seal"])
  BY DEF Tail
<1>3. a \in Record
  <2>1. pd \in BOOLEAN
    BY <1>1, FieldTypes, AckBoolean
  <2> HIDE DEF pd
  <2> QED BY <1>1, <2>1, Zenon DEF Record
<1> HIDE DEF pd
<1>4. ASSUME NEW b, NEW s \in {"persist", "seal"}, OnlyRec(r, b), b.pc = s,
             b.live = a.live, b.home = a.home, b.proof = a.proof, b.lost = a.lost,
             b.abort = a.abort, b.rev = a.rev, b.status = a.status, b.saved = a.saved
      PROVE  OutcomeInvariant'
  <2>1. Kept(rec[r], b)
    BY <1>1, <1>4, KeptSame
  <2> QED BY <1>1, <1>4, <2>1, StoppedOutcome DEF Working, Calling
<1> HIDE DEF a
<1>5. CASE OnlyRec(r, [a EXCEPT !.pc = "persist", !.stage = 2])
  <2> DEFINE b == [a EXCEPT !.pc = "persist", !.stage = 2]
  <2>1. b.pc = "persist"
    BY <1>3, Zenon DEF Record
  <2>2. /\ b.live = a.live /\ b.home = a.home /\ b.proof = a.proof /\ b.lost = a.lost
        /\ b.abort = a.abort /\ b.rev = a.rev /\ b.status = a.status /\ b.saved = a.saved
    OBVIOUS
  <2>3. OnlyRec(r, b)
    BY <1>5
  <2> HIDE DEF b
  <2> QED BY <1>4, <2>1, <2>2, <2>3
<1>6. CASE OnlyRec(r, [a EXCEPT !.pc = "seal"])
  <2> DEFINE b == [a EXCEPT !.pc = "seal"]
  <2>1. b.pc = "seal"
    BY <1>3, Zenon DEF Record
  <2>2. /\ b.live = a.live /\ b.home = a.home /\ b.proof = a.proof /\ b.lost = a.lost
        /\ b.abort = a.abort /\ b.rev = a.rev /\ b.status = a.status /\ b.saved = a.saved
    OBVIOUS
  <2>3. OnlyRec(r, b)
    BY <1>6
  <2> HIDE DEF b
  <2> QED BY <1>4, <2>1, <2>2, <2>3
<1> QED BY <1>2, <1>5, <1>6

(* Fencing leaves a busy run busy only if it changes nothing.                *)
LEMMA FenceFits ==
    ASSUME NEW a \in Record, NEW b, b.pc = a.pc, b.lost = Fence(a).lost, b.status = Fence(a).status
    PROVE  StaysFit(a, b)
<1>1. Fence(a).lost \/ Fence(a).status = a.status
  BY FenceKept
<1> QED BY <1>1 DEF StaysFit, Busy

(* Deadline: the timer fences the run.                                       *)
LEMMA DeadlineOutcome ==
    ASSUME OutcomeInvariant, FenceInvariant', NEW r \in Runs, Deadline(r) PROVE OutcomeInvariant'
<1> DEFINE f == Fence(rec[r])
           b == [f EXCEPT !.armed = FALSE]
<1>1. rec[r] \in Record /\ rec[r].live /\ OnlyRec(r, b)
  BY OutcomeFacts, RunFacts DEF Deadline, Alive
<1>2. /\ f \in Record /\ Kept(rec[r], f) /\ f.left = rec[r].left /\ f.pc = rec[r].pc
      /\ rec[r].status = "error" => f.status = "error"
  BY <1>1, FenceType, FenceKept, FenceCalm
<1>3. /\ b.live = f.live /\ b.home = f.home /\ b.proof = f.proof /\ b.lost = f.lost
      /\ b.abort = f.abort /\ b.rev = f.rev /\ b.status = f.status /\ b.saved = f.saved
      /\ b.left = f.left /\ b.pc = f.pc
  <2> HIDE DEF f
  <2> QED OBVIOUS
<1>4. StaysFit(rec[r], b)
  BY <1>1, <1>2, <1>3, FenceFits
<1> HIDE DEF f, b
<1>5. Kept(rec[r], b)
  BY <1>1, <1>2, <1>3, KeptTrans
<1> QED BY <1>1, <1>2, <1>3, <1>4, <1>5, OnlyRecKept

(* A proof means that the row is terminal.                                   *)
LEMMA ProofIsTerminal ==
    ASSUME FenceInvariant, NEW r \in Runs, rec[r].live, rec[r].proof # NoOutcome
    PROVE  rows[r].status \in Terminal /\ \A w \in Workers : r \notin adm[w].run
<1>1. /\ rows[r] \in Row /\ RunInvariant(r) /\ \A w \in Workers : AdmissionIsFresh(w)
  BY RunFacts DEF FenceInvariant
<1>2. rows[r].status \in {"absent"} \cup Active \cup Terminal
  BY <1>1 DEF Row
<1> QED BY <1>1, <1>2 DEF RunInvariant, ProofMeansClosed, AdmissionIsFresh

(* The announcing steps of the task, as a move past its last write.          *)
LEMMA LastSteps ==
    ASSUME OutcomeInvariant, FenceInvariant', NEW r \in Runs, NEW b,
           rec' = [rec EXCEPT ![r] = b], UNCHANGED <<rows, tcall, ccall, adm>>,
           rec[r].live, rec[r].pc \in {"seal", "end"}, b.pc \in {"end", "done"},
           b.live = rec[r].live, b.home = rec[r].home, b.proof = rec[r].proof,
           b.lost = rec[r].lost, b.abort = rec[r].abort, b.rev = rec[r].rev,
           b.status = rec[r].status, b.saved = rec[r].saved,
           \A q \in Runs \ {r} : published'[q] = published[q] /\ (q \in ended' => q \in ended),
           \/ published'[r] = published[r] /\ (r \in ended' => r \in ended)
           \/ /\ rec[r].proof # NoOutcome
              /\ AnswersArrive => (published'[r] # "absent" => rows[r].status = published'[r])
    PROVE  OutcomeInvariant'
<1>1. rec \in [Runs -> Record] /\ rec[r] \in Record /\ FenceInvariant /\ CallsMatch(r)
  BY OutcomeFacts, RunFacts DEF FenceInvariant, TypeOK
<1>2. rec'[r] = b /\ \A q \in Runs \ {r} : rec'[q] = rec[q]
  BY <1>1
<1>3. Kept(rec[r], b) /\ StaysFit(rec[r], b)
  BY <1>1, MovedRecord DEF Working
<1>4. tcall[r].ph = "idle"
  BY <1>1 DEF CallsMatch, Calling
<1>5. TaskGoesOn(r) /\ CancelGoesOn(r) /\ TellsTruth(r)
  BY <1>1, <1>2, <1>4, ProofIsTerminal DEF TaskGoesOn, CancelGoesOn, TellsTruth
<1>6. RunOutcome(r)' /\ Durable(r)'
  BY <1>2, <1>3, <1>5, KeptOutcome
<1> QED BY <1>2, <1>6, LocalOutcome

(* Seal: only a durable outcome is announced.                                *)
LEMMA SealOutcome ==
    ASSUME OutcomeInvariant, FenceInvariant', NEW r \in Runs, Seal(r) PROVE OutcomeInvariant'
<1> DEFINE b == [rec[r] EXCEPT !.pc = "end"]
<1>1. /\ rec[r] \in Record /\ rec[r].live /\ rec[r].pc = "seal" /\ Durable(r) /\ CallsMatch(r)
      /\ published \in [Runs -> {"absent"} \cup Terminal]
  BY OutcomeFacts, RunFacts DEF Seal, Alive
<1>2. /\ rec' = [rec EXCEPT ![r] = b] /\ UNCHANGED <<rows, tcall, ccall, adm, ended>>
      /\ published' = [published EXCEPT ![r] = IF MayPublish(rec[r]) THEN rec[r].status ELSE @]
  BY DEF Seal
<1>3. /\ b.live = rec[r].live /\ b.home = rec[r].home /\ b.proof = rec[r].proof
      /\ b.lost = rec[r].lost /\ b.abort = rec[r].abort /\ b.rev = rec[r].rev
      /\ b.status = rec[r].status /\ b.saved = rec[r].saved
  OBVIOUS
<1>4. b.pc = "end"
  BY <1>1, Zenon DEF Record
<1> HIDE DEF b
<1>5. \A q \in Runs \ {r} : published'[q] = published[q] /\ (q \in ended' => q \in ended)
  BY <1>1, <1>2
<1>6. CASE ~MayPublish(rec[r])
  <2>1. published'[r] = published[r] /\ ended' = ended
    BY <1>1, <1>2, <1>6
  <2> QED BY <1>1, <1>2, <1>3, <1>4, <1>5, <2>1, LastSteps
<1>7. CASE MayPublish(rec[r])
  <2>1. published'[r] = rec[r].status
    BY <1>1, <1>2, <1>7
  <2>2. ~rec[r].lost /\ rec[r].proof # NoOutcome /\ rec[r].proof.status = rec[r].status
    BY <1>1, <1>7, FinalAckHasProof DEF MayPublish
  <2>3. tcall[r].ph = "idle"
    BY <1>1 DEF CallsMatch, Calling
  <2>4. AnswersArrive => rows[r].status = published'[r]
    BY <1>1, <2>1, <2>2, <2>3 DEF Durable, ProofIsDurable, PendingError
  <2> QED BY <1>1, <1>2, <1>3, <1>4, <1>5, <2>2, <2>4, LastSteps
<1> QED BY <1>6, <1>7

(* End: END is sent for an outcome that is saved.                            *)
LEMMA EndOutcome ==
    ASSUME OutcomeInvariant, FenceInvariant', NEW r \in Runs, End(r) PROVE OutcomeInvariant'
<1> DEFINE b == [rec[r] EXCEPT !.finalizing = FALSE, !.pc = "done"]
<1>1. /\ rec[r] \in Record /\ rec[r].live /\ rec[r].pc = "end" /\ Durable(r) /\ RunOutcome(r)
  BY OutcomeFacts, RunFacts DEF End, CanStep, Alive
<1>2. /\ rec' = [rec EXCEPT ![r] = b] /\ UNCHANGED <<rows, tcall, ccall, adm, published>>
      /\ ended' = IF ~rec[r].lost /\ rec[r].status \in Terminal /\ rec[r].saved
                  THEN ended \cup {r} ELSE ended
  BY DEF End
<1>3. /\ b.live = rec[r].live /\ b.home = rec[r].home /\ b.proof = rec[r].proof
      /\ b.lost = rec[r].lost /\ b.abort = rec[r].abort /\ b.rev = rec[r].rev
      /\ b.status = rec[r].status /\ b.saved = rec[r].saved
  OBVIOUS
<1>4. b.pc = "done"
  BY <1>1, Zenon DEF Record
<1> HIDE DEF b
<1>5. \A q \in Runs \ {r} : published'[q] = published[q] /\ (q \in ended' => q \in ended)
  BY <1>2
<1>6. \/ published'[r] = published[r] /\ (r \in ended' => r \in ended)
      \/ /\ rec[r].proof # NoOutcome
         /\ AnswersArrive => (published'[r] # "absent" => rows[r].status = published'[r])
  BY <1>1, <1>2 DEF RunOutcome, ToldIsOver, Durable
<1> QED BY <1>1, <1>2, <1>3, <1>4, <1>5, <1>6, LastSteps

-----------------------------------------------------------------------------
(* The answers to terminal writes.                                           *)

(* What Acknowledge does to a record its worker still owns.                  *)
LEMMA AckFields ==
    ASSUME NEW a \in Record, a.live, ~a.lost, NEW out \in Outcomes, NEW rev
    PROVE  LET proof == IF a.proof = NoOutcome \/ a.proof.status = "interrupted"
                           \/ out.status # "interrupted"
                        THEN out ELSE a.proof
               b == Acknowledge(a, out, rev)
           IN  /\ b.proof = proof
               /\ b.status = IF proof.status # "interrupted" \/ a.rev = rev
                             THEN proof.status ELSE a.status
               /\ b.live = a.live /\ b.home = a.home /\ b.left = a.left /\ b.lost = a.lost
               /\ b.abort = a.abort /\ b.pc = a.pc /\ b.rev = a.rev
<1> DEFINE proof == IF a.proof = NoOutcome \/ a.proof.status = "interrupted"
                       \/ out.status # "interrupted"
                    THEN out ELSE a.proof
           b == Acknowledge(a, out, rev)
           staged == proof.status # "interrupted" \/ a.rev = rev
           st == IF staged THEN proof.status ELSE a.status
           er == IF staged THEN proof.err ELSE a.err
           rb == a.rollback /\ proof.status # "error"
           acked == [a EXCEPT !.proof = proof, !.status = st, !.err = er, !.rollback = rb]
           final == FinalAck(acked)
           pd == acked.pending /\ ~final
           ar == acked.armed /\ ~final
           done == [acked EXCEPT !.saved = final, !.pending = pd, !.armed = ar]
<1>1. b = done
  BY Zenon DEF Acknowledge
<1>2. /\ acked.live = a.live /\ acked.home = a.home /\ acked.left = a.left
      /\ acked.lost = a.lost /\ acked.abort = a.abort /\ acked.pc = a.pc /\ acked.rev = a.rev
  <2> HIDE DEF proof, st, er, rb
  <2>1. acked.live = a.live
    BY Zenon DEF Record
  <2>2. acked.home = a.home /\ acked.left = a.left
    OBVIOUS
  <2>3. acked.lost = a.lost
    OBVIOUS
  <2>4. acked.abort = a.abort /\ acked.pc = a.pc /\ acked.rev = a.rev
    OBVIOUS
  <2> QED BY <2>1, <2>2, <2>3, <2>4
<1>3. acked.proof = proof /\ acked.status = st
  <2> HIDE DEF proof, st, er, rb
  <2> QED BY Zenon DEF Record
<1>4. /\ done.live = acked.live /\ done.home = acked.home /\ done.left = acked.left
      /\ done.lost = acked.lost /\ done.abort = acked.abort /\ done.pc = acked.pc
      /\ done.proof = acked.proof /\ done.status = acked.status /\ done.rev = acked.rev
  <2> HIDE DEF acked, final, pd, ar
  <2> QED OBVIOUS
<1>5. st = IF proof.status # "interrupted" \/ a.rev = rev THEN proof.status ELSE a.status
  OBVIOUS
<1> HIDE DEF done, acked, st, proof, b
<1> QED BY <1>1, <1>2, <1>3, <1>4, <1>5 DEF b, proof

(* The task learns the outcome in its row.                                   *)
LEMMA AckOutcome ==
    ASSUME OutcomeInvariant, FenceInvariant', NEW r \in Runs, NEW b, RecAndTask(r, b, NoCall),
           rec[r].live, ~rec[r].lost, ~b.lost, b.live = rec[r].live, b.home = rec[r].home,
           b.rev = rec[r].rev, b.proof # NoOutcome, b.pc \notin Working,
           rec[r].pc \notin {"end", "done"},
           \/ b.proof.status \in Final
           \/ /\ rec[r].proof.status \notin Final
              /\ b.status = "interrupted" \/ b.status = rec[r].status,
           AnswersArrive => rows[r].status = b.proof.status
    PROVE  OutcomeInvariant'
<1>1. /\ rec \in [Runs -> Record] /\ tcall \in [Runs -> Call] /\ FenceInvariant
      /\ RunOutcome(r) /\ Durable(r) /\ ccall[r].rev \in Nat /\ rec[r].rev \in Nat
  BY OutcomeFacts, Numbers DEF FenceInvariant, TypeOK
<1>2. /\ rec' = [rec EXCEPT ![r] = b] /\ tcall' = [tcall EXCEPT ![r] = NoCall]
      /\ UNCHANGED <<rows, adm, ccall, published, ended>>
  BY DEF RecAndTask
<1>3. /\ rec'[r] = b /\ tcall'[r] = NoCall
      /\ \A q \in Runs \ {r} : rec'[q] = rec[q] /\ tcall'[q] = tcall[q]
  BY <1>1, <1>2
<1>4. NoCall.ph = "idle" /\ NoCall.op = "none"
  BY DEF NoCall
<1>5. BusyIsUndecided(r)'
  <2>1. b.live => b.home \in Workers
    BY <1>1 DEF RunOutcome, BusyIsUndecided
  <2>2. ~Busy(b)
    BY DEF Busy
  <2> QED BY <1>3, <1>4, <2>1, <2>2 DEF BusyIsUndecided
<1>6. ToldIsOver(r)'
  BY <1>1, <1>2, <1>3 DEF RunOutcome, ToldIsOver, Told
<1>7. CallsAgree(r)'
  BY <1>1, <1>2, <1>3, <1>4 DEF RunOutcome, CallsAgree
<1>8. ASSUME AnswersArrive PROVE ProofIsDurable(r)' /\ BusyHolds(r)'
  <2>1. ProofIsDurable(r) /\ rows[r].status = b.proof.status
    BY <1>1, <1>8 DEF Durable
  <2>2. Amended(r) => Amended(r)'
    BY <1>2, <1>3, <2>1 DEF Amended
  <2>3. \A w : Claims(w, r)' <=> Claims(w, r)
    BY <1>2 DEF Claims
  <2>4. ProofIsDurable(r)'
    BY <1>2, <1>3, <1>4, <2>1, <2>2, <2>3 DEF ProofIsDurable
  <2>5. BusyHolds(r)'
    BY <1>3, <1>4 DEF BusyHolds, Busy, Working
  <2> QED BY <2>4, <2>5
<1>9. RunOutcome(r)' /\ Durable(r)'
  <2>1. AnswersArrive' => AnswersArrive
    BY DEF AnswersArrive, StoreFaults
  <2> QED BY <1>1, <1>2, <1>5, <1>6, <1>7, <1>8, <2>1 DEF RunOutcome, Durable
<1> QED BY <1>2, <1>3, <1>9, LocalOutcome

(* The answer to the task's own terminal write is settled.                   *)
LEMMA SettledOutcome ==
    ASSUME OutcomeInvariant, FenceInvariant', NEW r \in Runs, NEW rc, NEW b, NEW others,
           rec[r].live, tcall[r].ph = "done", tcall[r].op \in {"update", "cas"},
           Settle(r, tcall[r], others, rc), RecAndTask(r, b, NoCall),
           b.live = rc.live, b.home = rc.home, b.proof = rc.proof, b.lost = rc.lost,
           b.abort = rc.abort, b.rev = rc.rev, b.status = rc.status,
           b.saved => rc.saved \/ b.proof # NoOutcome,
           b.pc \notin Working, rec[r].pc \notin {"end", "done"}
    PROVE  OutcomeInvariant'
<1>1. /\ rec[r] \in Record /\ tcall[r] \in Call /\ CallsMatch(r) /\ ProofMeansClosed(r)
      /\ RunOutcome(r) /\ Durable(r) /\ FenceInvariant
  BY OutcomeFacts, RunFacts
<1>2. tcall[r].out \in Outcomes /\ rec[r].lost \in BOOLEAN /\ rec[r].rev \in Nat
  BY <1>1, FieldTypes DEF CallsMatch
<1>3. ASSUME Kept(rec[r], rc) PROVE Kept(rec[r], b)
  BY <1>2, <1>3 DEF Kept
<1>4. CASE tcall[r].out.status \notin Terminal /\ rc = rec[r]
  <2>1. Kept(rec[r], b) /\ tcall[r].out.status # "error"
    BY <1>1, <1>3, <1>4, KeptSame, StatusNames
  <2> QED BY <2>1, StoppedOutcome
<1>5. CASE rc = Fence(rec[r]) /\ tcall[r].res # "ok"
  <2>1. Kept(rec[r], b)
    BY <1>1, <1>3, <1>5, FenceKept
  <2>2. CASE b.lost
    BY <2>1, <2>2, StoppedOutcome
  <2>3. CASE ~b.lost
    <3>1. FinalAck(rec[r]) /\ b.status = rec[r].status /\ b.rev = rec[r].rev /\ ~rec[r].lost
      BY <1>1, <1>5, <2>3, FenceKept
    <3>2. rec[r].proof # NoOutcome /\ rec[r].proof.status = rec[r].status /\ b.proof = rec[r].proof
      BY <1>1, <2>1, <3>1, FinalAckHasProof DEF Kept
    <3>3. AnswersArrive => rows[r].status = b.proof.status
      BY <1>1, <1>5, <3>1, <3>2 DEF Durable, ProofIsDurable, PendingError
    <3> QED BY <2>1, <2>3, <3>1, <3>2, <3>3, AckOutcome DEF Kept
  <2> QED BY <2>2, <2>3
<1>6. CASE /\ tcall[r].res = "ok" /\ tcall[r].out.status \in Terminal
           /\ rc = Acknowledge(rec[r], tcall[r].out, tcall[r].rev)
  <2>1. CASE rec[r].lost
    <3>1. rc = rec[r]
      BY <1>6, <2>1 DEF Acknowledge
    <3>2. Kept(rec[r], b) /\ b.lost
      BY <1>1, <1>3, <2>1, <3>1, KeptSame
    <3> QED BY <3>2, StoppedOutcome
  <2>2. CASE ~rec[r].lost
    <3> DEFINE out == tcall[r].out
               proof == IF rec[r].proof = NoOutcome \/ rec[r].proof.status = "interrupted"
                           \/ out.status # "interrupted"
                        THEN out ELSE rec[r].proof
    <3>1. /\ rc.proof = proof
          /\ rc.status = IF proof.status # "interrupted" \/ rec[r].rev = tcall[r].rev
                         THEN proof.status ELSE rec[r].status
          /\ rc.live = rec[r].live /\ rc.home = rec[r].home /\ rc.lost = rec[r].lost
          /\ rc.rev = rec[r].rev
      BY <1>1, <1>2, <1>6, <2>2, AckFields
    <3>2. proof # NoOutcome /\ rows[r].status = out.status
      BY <1>1, <1>2, <1>6, Constants DEF RunOutcome, CallsAgree
    <3>3. AnswersArrive => rows[r].status = proof.status
      BY <1>1, <2>2, <3>2 DEF Durable, ProofIsDurable
    <3>4. \/ proof.status \in Final
          \/ rec[r].proof.status \notin Final /\ proof.status = "interrupted"
      <4>1. CASE proof = rec[r].proof /\ rec[r].proof # NoOutcome /\ rec[r].proof.status # "interrupted"
        BY <1>1, <4>1 DEF ProofMeansClosed, Final, Terminal
      <4>2. CASE proof = out /\ out.status # "interrupted"
        <5>1. proof.status \in Final
          BY <1>6, <4>2 DEF Final, Terminal
        <5> QED BY <5>1
      <4>3. CASE /\ proof = out /\ out.status = "interrupted"
                 /\ rec[r].proof = NoOutcome \/ rec[r].proof.status = "interrupted"
        <5>1. NoOutcome.status = "absent"
          BY Zenon DEF NoOutcome
        <5>2. rec[r].proof.status = "absent" \/ rec[r].proof.status = "interrupted"
          BY <4>3, <5>1
        <5> QED BY <4>3, <5>2 DEF Final
      <4> QED BY <4>1, <4>2, <4>3
    <3> HIDE DEF proof, out
    <3> QED BY <2>2, <3>1, <3>2, <3>3, <3>4, AckOutcome
  <2> QED BY <1>2, <2>1, <2>2
<1> QED BY <1>4, <1>5, <1>6 DEF Settle

(* UnstartAck: the compensation of a startup answered.                       *)
LEMMA UnstartAckOutcome ==
    ASSUME OutcomeInvariant, FenceInvariant', NEW r \in Runs, UnstartAck(r) PROVE OutcomeInvariant'
<1>1. /\ rec[r] \in Record /\ rec[r].live /\ rec[r].pc = "unstart" /\ tcall[r].ph = "done"
      /\ CallsMatch(r) /\ FenceInvariant
  BY OutcomeFacts, RunFacts DEF UnstartAck, Alive
<1>2. tcall[r].op \in {"update", "cas"}
  BY <1>1 DEF CallsMatch
<1>3. PICK rc : /\ Settle(r, tcall[r], CancelAttempt(r) \/ AdmissionAttempt(r), rc)
                /\ RecAndTask(r, NotStarted(rc), NoCall)
  BY DEF UnstartAck
<1>4. rc \in Record
  BY <1>1, <1>2, <1>3, SettleFacts
<1> DEFINE p == IF rc.abort # "none" THEN "cancel" ELSE "final"
           b == [rc EXCEPT !.pc = p]
<1>5. RecAndTask(r, b, NoCall) /\ p \notin Working
  BY <1>3 DEF NotStarted, Working
<1> HIDE DEF p
<1>6. /\ b.live = rc.live /\ b.home = rc.home /\ b.proof = rc.proof /\ b.lost = rc.lost
      /\ b.abort = rc.abort /\ b.rev = rc.rev /\ b.status = rc.status /\ b.saved = rc.saved
  OBVIOUS
<1>7. b.pc = p
  BY <1>4, Zenon DEF Record
<1> HIDE DEF b
<1> QED BY <1>1, <1>2, <1>3, <1>5, <1>6, <1>7, SettledOutcome

(* CommitAck: the terminal write answered.                                   *)
LEMMA CommitAckOutcome ==
    ASSUME OutcomeInvariant, FenceInvariant', NEW r \in Runs, CommitAck(r) PROVE OutcomeInvariant'
<1>1. /\ rec[r] \in Record /\ rec[r].live /\ rec[r].pc = "commit" /\ tcall[r].ph = "done"
      /\ CallsMatch(r) /\ FenceInvariant /\ RunOutcome(r)
  BY OutcomeFacts, RunFacts DEF CommitAck, Alive
<1>2. tcall[r].op \in {"update", "cas"}
  BY <1>1 DEF CallsMatch
<1>3. CASE /\ tcall[r].res \in Actions
           /\ RecAndTask(r, [rec[r] EXCEPT !.abort = tcall[r].res, !.pc = "cancel"], NoCall)
  <2> DEFINE ab == tcall[r].res
             b == [rec[r] EXCEPT !.abort = ab, !.pc = "cancel"]
  <2>1. RecAndTask(r, b, NoCall) /\ tcall[r].op # "update" /\ ab # "none"
    BY <1>1, <1>3, StatusNames DEF RunOutcome, CallsAgree
  <2> HIDE DEF ab
  <2>2. b.pc = "cancel" /\ b.abort = ab
    BY <1>1, Zenon DEF Record
  <2>3. /\ b.live = rec[r].live /\ b.home = rec[r].home /\ b.proof = rec[r].proof
        /\ b.lost = rec[r].lost /\ b.rev = rec[r].rev /\ b.status = rec[r].status
        /\ b.saved = rec[r].saved
    OBVIOUS
  <2> HIDE DEF b
  <2>4. Kept(rec[r], b)
    BY <1>1, <2>1, <2>2, <2>3, KeptSame
  <2> QED BY <1>1, <2>1, <2>2, <2>4, StoppedOutcome DEF Working
<1>4. CASE \E rc : /\ Settle(r, tcall[r], CancelAttempt(r) \/ AdmissionAttempt(r), rc)
                   /\ RecAndTask(r, [rc EXCEPT !.pc = AfterCommit(rc), !.saved = FinalAck(rc)], NoCall)
  <2>1. PICK rc : /\ Settle(r, tcall[r], CancelAttempt(r) \/ AdmissionAttempt(r), rc)
                  /\ RecAndTask(r, [rc EXCEPT !.pc = AfterCommit(rc), !.saved = FinalAck(rc)], NoCall)
    BY Zenon, <1>4
  <2>2. rc \in Record
    BY <1>1, <1>2, <2>1, SettleFacts
  <2> DEFINE p == AfterCommit(rc)
             f == FinalAck(rc)
             b == [rc EXCEPT !.pc = p, !.saved = f]
  <2>3. RecAndTask(r, b, NoCall)
    BY <2>1
  <2>4. p \notin Working /\ (f => rc.proof # NoOutcome)
    BY <2>2, AfterCommitStep, FinalAckHasProof DEF Working
  <2> HIDE DEF p, f
  <2>5. b.pc = p /\ b.saved = f
    BY <2>2, Zenon DEF Record
  <2>6. /\ b.live = rc.live /\ b.home = rc.home /\ b.proof = rc.proof /\ b.lost = rc.lost
        /\ b.abort = rc.abort /\ b.rev = rc.rev /\ b.status = rc.status
    OBVIOUS
  <2> HIDE DEF b
  <2> QED BY <1>1, <1>2, <2>1, <2>3, <2>4, <2>5, <2>6, SettledOutcome
<1> QED BY Zenon, <1>3, <1>4 DEF CommitAck

-----------------------------------------------------------------------------
(* Cancellation at the owner.                                                *)

(* CancelBegin: the request is sent.                                         *)
LEMMA CancelBeginOutcome ==
    ASSUME OutcomeInvariant, FenceInvariant', NEW r \in Runs, NEW action \in Requests,
           CancelBegin(r, action)
    PROVE  OutcomeInvariant'
<1> DEFINE c == Send("request", NoOutcome, 0, action)
<1>1. rec[r] \in Record /\ rec[r].live /\ CancelCall(r, rec[r], c)
  BY OutcomeFacts, RunFacts DEF CancelBegin, Alive
<1>2. c.ph = "sent" /\ c.op = "request"
  BY DEF Send
<1>3. Kept(rec[r], rec[r]) /\ StaysFit(rec[r], rec[r])
  BY <1>1, KeptSame DEF StaysFit, Busy
<1> HIDE DEF c
<1> QED BY <1>1, <1>2, <1>3, CancelCallKept

(* cancel() aborts the run, keeps its proof and stages interrupted.          *)
LEMMA CancelledKept ==
    ASSUME NEW a \in Record, NEW action \in Actions
    PROVE  LET x == [Abort(a, action) EXCEPT !.status = "interrupted", !.saved = FALSE]
               b == [x EXCEPT !.pending = TRUE]
           IN  /\ Kept(a, b) /\ b.left = a.left /\ b.rev = x.rev
               /\ b.status = "interrupted" /\ x.status = "interrupted"
<1> DEFINE y == Abort(a, action)
           x == [y EXCEPT !.status = "interrupted", !.saved = FALSE]
           b == [x EXCEPT !.pending = TRUE]
<1>1. /\ y \in Record /\ y.proof = a.proof /\ y.abort = action /\ y.rev = a.rev
      /\ y.live = a.live /\ y.home = a.home /\ y.left = a.left /\ y.lost = a.lost
  <2>1. /\ y \in Record /\ y.proof = a.proof /\ y.abort = action
        /\ y.live = a.live /\ y.home = a.home /\ y.left = a.left /\ y.lost = a.lost
    BY AbortType, AbortCalm, AbortFields
  <2>2. y.rev = a.rev
    BY DEF Abort
  <2> QED BY <2>1, <2>2
<1> HIDE DEF y
<1>2. x.status = "interrupted" /\ x.saved = FALSE /\ x \in Record
  BY <1>1, StatusNames, Zenon DEF Record
<1>3. /\ x.live = y.live /\ x.home = y.home /\ x.left = y.left /\ x.lost = y.lost
      /\ x.abort = y.abort /\ x.proof = y.proof /\ x.rev = y.rev
  OBVIOUS
<1> HIDE DEF x
<1>4. /\ b.live = x.live /\ b.home = x.home /\ b.left = x.left /\ b.lost = x.lost
      /\ b.abort = x.abort /\ b.proof = x.proof /\ b.rev = x.rev /\ b.status = x.status
      /\ b.saved = x.saved
  OBVIOUS
<1> HIDE DEF b
<1>5. b.live = a.live /\ b.home = a.home /\ b.lost = a.lost /\ b.left = a.left
  BY <1>1, <1>3, <1>4
<1>6. Kept(a, b)
  BY <1>1, <1>2, <1>3, <1>4, <1>5, StatusNames, KeptSame
<1> QED BY <1>2, <1>4, <1>5, <1>6 DEF b, x, y

(* CancelApply: the accepted action is applied to the local run.             *)
LEMMA CancelApplyOutcome ==
    ASSUME OutcomeInvariant, FenceInvariant', NEW r \in Runs, CancelApply(r) PROVE OutcomeInvariant'
<1> DEFINE action == IF ccall[r].res = "exc" THEN ccall[r].arg ELSE ccall[r].res
           x == [Abort(rec[r], action) EXCEPT !.status = "interrupted", !.saved = FALSE]
           b == [x EXCEPT !.pending = TRUE]
           c == Send("update", OutcomeOf(x), x.rev, "none")
<1>1. /\ rec[r] \in Record /\ rec[r].live
      /\ ccall[r].ph = "done" /\ ccall[r].op = "request" /\ CallsMatch(r) /\ ccall[r] \in Call
  BY OutcomeFacts, RunFacts DEF CancelApply, Alive
<1>2. \/ CancelCall(r, rec[r], NoCall)
      \/ ccall[r].res # "no" /\ rec[r].status \in Active /\ CancelCall(r, b, c)
  BY DEF CancelApply
<1>3. CASE CancelCall(r, rec[r], NoCall)
  <2>1. Kept(rec[r], rec[r]) /\ StaysFit(rec[r], rec[r])
    BY <1>1, KeptSame DEF StaysFit, Busy
  <2> QED BY <1>1, <1>3, <2>1, CancelCallKept
<1>4. CASE ccall[r].res # "no" /\ rec[r].status \in Active /\ CancelCall(r, b, c)
  <2>1. action \in Actions /\ action # "none"
    BY <1>1, <1>4, StatusNames DEF CallsMatch
  <2>2. CancelCall(r, b, c) /\ rec[r].status # "error"
    BY SMTT(30), <1>4, StatusNames
  <2> HIDE DEF action
  <2>3. b.pc = rec[r].pc /\ b.abort = action /\ x \in Record
    BY Zenon, <1>1, <2>1, CancelledRecord
  <2>4. /\ Kept(rec[r], b) /\ b.left = rec[r].left /\ b.rev = x.rev
        /\ b.status = "interrupted" /\ x.status = "interrupted"
    BY Zenon, <1>1, <2>1, CancelledKept
  <2> HIDE DEF x, b
  <2>5. c.ph = "sent" /\ c.op = "update" /\ c.out.status = "interrupted" /\ c.rev = x.rev
    BY <2>3, <2>4, OutcomeType DEF Send
  <2>6. StaysFit(rec[r], b)
    BY <2>1, <2>3, NotBusyFits
  <2> HIDE DEF c
  <2> QED BY <1>1, <2>2, <2>3, <2>4, <2>5, <2>6, CancelCallKept
<1> QED BY <1>2, <1>3, <1>4

(* CancelAck: the write of cancel() answered.                                *)
LEMMA CancelAckOutcome ==
    ASSUME OutcomeInvariant, FenceInvariant', NEW r \in Runs, CancelAck(r) PROVE OutcomeInvariant'
<1>1. /\ rec[r] \in Record /\ rec[r].live /\ ccall[r].ph = "done" /\ ccall[r].op = "update"
      /\ CallsMatch(r) /\ SnapshotIsAlone(r) /\ RunOutcome(r) /\ Durable(r) /\ FenceInvariant
      /\ ProofMeansClosed(r) /\ rec \in [Runs -> Record] /\ ccall \in [Runs -> Call]
  BY OutcomeFacts, RunFacts DEF CancelAck, Alive, FenceInvariant, TypeOK
<1>2. rec[r].abort # "none" /\ rec[r].pc # "put" /\ ccall[r].out \in Outcomes
  BY <1>1 DEF CallsMatch, SnapshotIsAlone
<1>3. PICK rc : /\ Settle(r, ccall[r], TaskAttempt(r) \/ AdmissionAttempt(r), rc)
                /\ CancelCall(r, [rc EXCEPT !.saved = FinalAck(rc)], NoCall)
  BY DEF CancelAck
<1>4. rc \in Record /\ rc.abort # "none" /\ rc.pc = rec[r].pc
  BY <1>1, <1>2, <1>3, SettleFacts
<1> DEFINE f == FinalAck(rc)
           b == [rc EXCEPT !.saved = f]
<1>5. CancelCall(r, b, NoCall) /\ (f => rc.proof # NoOutcome)
  BY <1>3, <1>4, FinalAckHasProof
<1> HIDE DEF f
<1>6. b.saved = f
  BY <1>4, Zenon DEF Record
<1>7. /\ b.live = rc.live /\ b.home = rc.home /\ b.left = rc.left /\ b.lost = rc.lost
      /\ b.abort = rc.abort /\ b.proof = rc.proof /\ b.pc = rc.pc /\ b.rev = rc.rev
      /\ b.status = rc.status
  OBVIOUS
<1> HIDE DEF b
<1>8. ccall[r].out.status = "interrupted"
  BY <1>1 DEF RunOutcome, CallsAgree
<1>9. CASE /\ rc = rec[r] \/ rc = Fence(rec[r])
  <2>1. /\ Kept(rec[r], rc) /\ rc.left = rec[r].left
        /\ rec[r].status = "error" => rc.status = "error"
    BY <1>1, <1>9, KeptSame, FenceKept
  <2>2. Kept(rec[r], b)
    BY <1>5, <1>6, <1>7, <2>1 DEF Kept
  <2>3. StaysFit(rec[r], b)
    BY <1>4, <1>7, NotBusyFits
  <2> QED BY <1>1, <1>4, <1>5, <1>7, <2>1, <2>2, <2>3, CancelCallKept
<1>10. CASE /\ ccall[r].res = "ok" /\ ~rec[r].lost
            /\ rc = Acknowledge(rec[r], ccall[r].out, ccall[r].rev)
  <2> DEFINE a == rec[r]
             out == ccall[r].out
             proof == IF a.proof = NoOutcome \/ a.proof.status = "interrupted"
                         \/ out.status # "interrupted"
                      THEN out ELSE a.proof
  <2>1. /\ rc.proof = proof
        /\ rc.status = IF proof.status # "interrupted" \/ a.rev = ccall[r].rev
                       THEN proof.status ELSE a.status
        /\ rc.live = a.live /\ rc.home = a.home /\ rc.lost = a.lost /\ rc.rev = a.rev
    <3>1. a \in Record /\ a.live /\ ~a.lost /\ out \in Outcomes
      BY <1>1, <1>2, <1>10
    <3>2. rc = Acknowledge(a, out, ccall[r].rev)
      BY <1>10
    <3> HIDE DEF a, out
    <3>3. rc.live = a.live /\ rc.lost = a.lost /\ rc.home = a.home /\ rc.rev = a.rev
      <4>1. rc.home = a.home /\ rc.rev = a.rev
        BY <3>1, <3>2, AckFields
      <4>2. rc.lost = a.lost
        BY <3>1, <3>2, AckFields
      <4>3. rc.live = a.live
        BY <3>1, <3>2, AckFields
      <4> QED BY <4>1, <4>2, <4>3
    <3>4. rc.proof = proof
      BY <3>1, <3>2, AckFields
    <3>5. rc.status = IF proof.status # "interrupted" \/ a.rev = ccall[r].rev
                      THEN proof.status ELSE a.status
      BY <3>1, <3>2, AckFields
    <3> QED BY <3>3, <3>4, <3>5
  <2>2. \/ proof = out /\ a.proof.status \notin Final
        \/ proof = a.proof /\ a.proof.status \in Final
    <3>1. NoOutcome.status \notin Final
      BY DEF NoOutcome, Final
    <3>2. a.proof # NoOutcome /\ a.proof.status # "interrupted" => a.proof.status \in Final
      BY <1>1 DEF ProofMeansClosed, Final, Terminal
    <3>3. a.proof.status = "interrupted" => a.proof.status \notin Final
      BY DEF Final
    <3>4. a.proof = NoOutcome => a.proof.status \notin Final
      BY <3>1
    <3> QED BY <1>8, <3>2, <3>3, <3>4
  <2>3. proof # NoOutcome
    BY <1>2, <2>2, Constants
  <2> HIDE DEF proof
  <2>4. /\ rec' = [rec EXCEPT ![r] = b] /\ ccall' = [ccall EXCEPT ![r] = NoCall]
        /\ UNCHANGED <<rows, adm, tcall, published, ended>>
    BY <1>5 DEF CancelCall
  <2>5. /\ rec'[r] = b /\ ccall'[r] = NoCall
        /\ \A q \in Runs \ {r} : rec'[q] = rec[q] /\ ccall'[q] = ccall[q]
    BY <1>1, <2>4
  <2>6. NoCall.ph = "idle" /\ NoCall.op = "none"
    BY DEF NoCall
  <2>7. /\ b.proof = proof /\ b.live = a.live /\ b.home = a.home /\ ~b.lost /\ b.pc = a.pc
        /\ b.abort # "none"
        /\ b.status = IF proof.status # "interrupted" \/ a.rev = ccall[r].rev
                      THEN proof.status ELSE a.status
    BY <1>4, <1>7, <1>10, <2>1
  <2>8. BusyIsUndecided(r)'
    <3>1. ~Busy(b)
      BY <2>7 DEF Busy
    <3> QED BY <1>1, <2>4, <2>5, <2>7, <3>1 DEF RunOutcome, BusyIsUndecided
  <2>9. ToldIsOver(r)'
    BY <1>1, <2>3, <2>4, <2>5, <2>7 DEF RunOutcome, ToldIsOver, Told
  <2>10. CallsAgree(r)'
    BY <1>1, <2>4, <2>5, <2>6 DEF RunOutcome, CallsAgree
  <2>11. ASSUME AnswersArrive PROVE ProofIsDurable(r)' /\ BusyHolds(r)'
    <3>1. /\ ProofIsDurable(r) /\ ~a.lost /\ Amended(r)
      BY <1>1, <1>10, <2>11 DEF Durable, ProofIsDurable
    <3>2. \A w : Claims(w, r)' <=> Claims(w, r)
      BY <2>4 DEF Claims
    <3>3. BusyHolds(r)'
      BY <1>2, <2>5, <2>7 DEF BusyHolds, Busy
    <3>4. CASE proof = a.proof /\ a.proof.status \in Final
      <4>1. rows[r].status = a.proof.status
        BY <1>1, <2>3, <3>1, <3>4 DEF ProofIsDurable, Final
      <4>2. Amended(r)'
        BY <2>4, <2>5, <2>7, <3>1, <3>4, <4>1 DEF Amended, Final
      <4> QED BY <2>4, <2>5, <2>6, <2>7, <3>2, <3>3, <3>4, <4>1, <4>2 DEF ProofIsDurable
    <3>5. CASE proof = out /\ a.proof.status \notin Final
      <4>1. a.status = "error" => b.status = "error"
        <5>1. a.rev = ccall[r].rev => a.status = "interrupted"
          BY <1>1, <1>10, <3>5 DEF RunOutcome, CallsAgree
        <5> QED BY <1>8, <2>7, <3>5, <5>1
      <4>2. PendingError(r) => PendingError(r)'
        BY <2>4, <2>5, <4>1 DEF PendingError, StoreFaults
      <4>3. \/ rows[r].status = "interrupted"
            \/ rows[r].status = "error" /\ PendingError(r)'
        BY <3>1, <3>5, <4>2 DEF Amended, Final
      <4>4. Amended(r)'
        BY <2>4, <4>3 DEF Amended
      <4>5. /\ StoreFaults /\ b.proof.status \notin Final
            /\ tcall'[r].ph # "idle" /\ tcall'[r].op = "update" /\ tcall'[r].out.status = "error"
            => b.status = "error"
        BY <1>1, <2>4, <3>1, <3>5, <4>1 DEF ProofIsDurable
      <4> QED BY <1>8, <2>4, <2>5, <2>6, <2>7, <3>2, <3>3, <3>5, <4>3, <4>4, <4>5
              DEF ProofIsDurable, StoreFaults
    <3> QED BY <2>2, <3>4, <3>5
  <2>12. RunOutcome(r)' /\ Durable(r)'
    <3>1. AnswersArrive' => AnswersArrive
      BY DEF AnswersArrive, StoreFaults
    <3> QED BY <1>1, <2>4, <2>8, <2>9, <2>10, <2>11, <3>1 DEF RunOutcome, Durable
  <2> QED BY <2>4, <2>5, <2>12, LocalOutcome
<1>11. \/ rc = rec[r] \/ rc = Fence(rec[r])
       \/ /\ ccall[r].res = "ok" /\ ~rec[r].lost
          /\ rc = Acknowledge(rec[r], ccall[r].out, ccall[r].rev)
  BY <1>3 DEF Settle, Acknowledge
<1> QED BY <1>9, <1>10, <1>11

-----------------------------------------------------------------------------
(* The heartbeat.                                                            *)

(* A heartbeat step keeps the outcome, or fences the run.                    *)
LEMMA HeartbeatOutcome ==
    ASSUME OutcomeInvariant, FenceInvariant', NEW r \in Runs, NEW a \in Record, NEW c,
           rec[r].live, a.live = rec[r].live, a.home = rec[r].home, a.proof = rec[r].proof,
           a.lost = rec[r].lost, a.rev = rec[r].rev, a.status = rec[r].status,
           a.saved = rec[r].saved, a.pc = rec[r].pc, a.left >= rec[r].left,
           a.abort = "none" => rec[r].abort = "none",
           RenewCall(r, a, c) \/ RenewCall(r, Fence(a), c)
    PROVE  OutcomeInvariant'
<1>1. rec[r] \in Record
  BY OutcomeFacts, RunFacts
<1>2. Kept(rec[r], a) /\ StaysFit(rec[r], a)
  BY <1>1, KeptSame DEF StaysFit, Busy
<1>3. CASE RenewCall(r, a, c)
  BY <1>2, <1>3, RenewCallKept
<1>4. CASE RenewCall(r, Fence(a), c)
  <2> DEFINE f == Fence(a)
  <2>1. /\ f \in Record /\ Kept(a, f) /\ f.left = a.left /\ f.pc = a.pc
        /\ a.status = "error" => f.status = "error"
    BY FenceType, FenceKept, FenceCalm
  <2>2. f.lost \/ f.status = a.status
    BY FenceKept
  <2> HIDE DEF f
  <2>3. Kept(rec[r], f)
    BY <1>1, <1>2, <2>1, FieldTypes DEF Kept
  <2>4. StaysFit(rec[r], f)
    BY <2>1, <2>2 DEF StaysFit, Busy
  <2>5. RenewCall(r, f, c)
    BY <1>4 DEF f
  <2> QED BY <2>1, <2>3, <2>4, <2>5, RenewCallKept
<1> QED BY <1>3, <1>4

(* Re-arming the timer and dropping the barrier leave the outcome alone.     *)
LEMMA RearmKeeps ==
    ASSUME NEW a \in Record
    PROVE  /\ Rearm(a).rev = a.rev /\ Rearm(a).status = a.status /\ Rearm(a).saved = a.saved
           /\ LET b == [a EXCEPT !.pending = FALSE]
              IN  b.rev = a.rev /\ b.status = a.status /\ b.saved = a.saved
<1> DEFINE f == ~FinalAck(a)
           b == [a EXCEPT !.armed = f]
<1>1. Rearm(a) = b
  BY DEF Rearm
<1> HIDE DEF f
<1>2. b.rev = a.rev /\ b.status = a.status /\ b.saved = a.saved
  OBVIOUS
<1> QED BY <1>1, <1>2

(* RenewBegin: the lease deadline is re-armed and the renewal is sent.       *)
LEMMA RenewBeginOutcome ==
    ASSUME OutcomeInvariant, FenceInvariant', NEW r \in Runs, RenewBegin(r) PROVE OutcomeInvariant'
<1> DEFINE a == Rearm(rec[r])
           b == [a EXCEPT !.pending = FALSE]
<1>1. rec[r] \in Record /\ rec[r].live /\ rec[r].left \in Int
  BY OutcomeFacts, RunFacts, Numbers DEF RenewBegin, Renewable
<1>2. /\ a \in Record /\ a.live = rec[r].live /\ a.home = rec[r].home /\ a.left = rec[r].left
      /\ a.lost = rec[r].lost /\ a.abort = rec[r].abort /\ a.proof = rec[r].proof
      /\ a.pc = rec[r].pc
  BY <1>1, RearmFacts
<1>3. a.rev = rec[r].rev /\ a.status = rec[r].status /\ a.saved = rec[r].saved
  BY <1>1, RearmKeeps
<1>4. \E c : RenewCall(r, b, c) \/ RenewCall(r, Fence(a), c) \/ RenewCall(r, a, c)
  BY DEF RenewBegin
<1> HIDE DEF a
<1>5. /\ b \in Record /\ b.live = a.live /\ b.home = a.home /\ b.left = a.left
      /\ b.lost = a.lost /\ b.abort = a.abort /\ b.proof = a.proof /\ b.pc = a.pc
  BY <1>2, NotPending
<1>6. b.rev = a.rev /\ b.status = a.status /\ b.saved = a.saved
  BY <1>2, RearmKeeps
<1> HIDE DEF b
<1>7. a.left >= rec[r].left /\ b.left >= rec[r].left
  BY <1>1, <1>2, <1>5
<1> QED BY ZenonT(40), <1>1, <1>2, <1>3, <1>4, <1>5, <1>6, <1>7, HeartbeatOutcome

(* RenewAck: the renewal is confirmed, retried or fences the run.            *)
LEMMA RenewAckOutcome ==
    ASSUME OutcomeInvariant, FenceInvariant', NEW r \in Runs, RenewAck(r) PROVE OutcomeInvariant'
<1> DEFINE n == [rec[r] EXCEPT !.pending = FALSE]
           l == rcall[r].left
           y == [rec[r] EXCEPT !.left = l]
           x == Rearm(y)
<1>1. /\ rec[r] \in Record /\ rec[r].live /\ rcall[r] \in Renewal /\ rcall[r].ph = "done"
      /\ LeaseIsConfirmed(r) /\ rec[r].left \in Int
  BY OutcomeFacts, RunFacts, Numbers DEF RenewAck
<1>2. \E c : \/ RenewCall(r, rec[r], c) \/ RenewCall(r, Fence(rec[r]), c)
             \/ RenewCall(r, n, c) \/ RenewCall(r, x, c)
  BY Zenon DEF RenewAck
<1>3. l \in Left /\ l >= rec[r].left /\ rec[r].left >= rec[r].left
  BY <1>1 DEF LeaseIsConfirmed, Renewal
<1> HIDE DEF l
<1>4. /\ n \in Record /\ n.live = rec[r].live /\ n.home = rec[r].home /\ n.left = rec[r].left
      /\ n.lost = rec[r].lost /\ n.abort = rec[r].abort /\ n.proof = rec[r].proof
      /\ n.pc = rec[r].pc
  BY <1>1, NotPending
<1>5. n.rev = rec[r].rev /\ n.status = rec[r].status /\ n.saved = rec[r].saved
  BY <1>1, RearmKeeps
<1>6. /\ y \in Record /\ y.left = l
      /\ y.live = rec[r].live /\ y.home = rec[r].home /\ y.lost = rec[r].lost
      /\ y.abort = rec[r].abort /\ y.proof = rec[r].proof /\ y.pc = rec[r].pc
  BY <1>1, <1>3, ConfirmedRecord
<1>7. y.rev = rec[r].rev /\ y.status = rec[r].status /\ y.saved = rec[r].saved
  OBVIOUS
<1> HIDE DEF n, y
<1>8. /\ x \in Record /\ x.live = y.live /\ x.home = y.home /\ x.left = y.left
      /\ x.lost = y.lost /\ x.abort = y.abort /\ x.proof = y.proof /\ x.pc = y.pc
      /\ x.rev = y.rev /\ x.status = y.status /\ x.saved = y.saved
  BY <1>6, RearmFacts, RearmKeeps
<1> HIDE DEF x
<1>9. CASE \E c : RenewCall(r, rec[r], c) \/ RenewCall(r, Fence(rec[r]), c)
  BY <1>1, <1>3, <1>9, HeartbeatOutcome
<1>10. CASE \E c : RenewCall(r, n, c)
  BY <1>1, <1>3, <1>4, <1>5, <1>10, HeartbeatOutcome
<1>11. CASE \E c : RenewCall(r, x, c)
  BY ZenonT(40), <1>1, <1>3, <1>6, <1>7, <1>8, <1>11, HeartbeatOutcome
<1> QED BY <1>2, <1>9, <1>10, <1>11

(* Signal: a durable request aborts the local run.                           *)
LEMMA SignalOutcome ==
    ASSUME OutcomeInvariant, FenceInvariant', NEW r \in Runs, Signal(r) PROVE OutcomeInvariant'
<1> DEFINE b == Abort(rec[r], rcall[r].cancel)
<1>1. rec[r] \in Record /\ rec[r].live /\ rcall[r] \in Renewal /\ rec[r].left \in Int
  BY OutcomeFacts, RunFacts, Numbers DEF Signal, Alive
<1>2. \/ RenewCall(r, rec[r], NoRenewal)
      \/ rec[r].abort = "none" /\ RenewCall(r, b, NoRenewal)
  BY Zenon DEF Signal
<1>3. rcall[r].cancel \in {"none"} \cup Actions
  BY <1>1 DEF Renewal
<1>4. /\ b \in Record /\ b.live = rec[r].live /\ b.home = rec[r].home /\ b.left = rec[r].left
      /\ b.lost = rec[r].lost /\ b.proof = rec[r].proof /\ b.pc = rec[r].pc
  BY <1>1, <1>3, AbortType, AbortFields
<1>5. b.rev = rec[r].rev /\ b.status = rec[r].status /\ b.saved = rec[r].saved
  BY DEF Abort
<1>6. rec[r].left >= rec[r].left
  BY <1>1
<1> HIDE DEF b
<1> QED BY <1>1, <1>2, <1>4, <1>5, <1>6, HeartbeatOutcome

-----------------------------------------------------------------------------
(* Runs that a step leaves alone, and runs that no worker holds.             *)

(* Records that differ in fields the invariant does not read.                *)
Alike(a, b) ==
    /\ b.live = a.live /\ b.home = a.home /\ b.status = a.status /\ b.abort = a.abort
    /\ b.lost = a.lost /\ b.proof = a.proof /\ b.rev = a.rev /\ b.saved = a.saved /\ b.pc = a.pc

(* The admissions concern run q no more and no less than before.             *)
AdmissionsAlike(q) ==
    LET w == rec[q].home
    IN  /\ \A v \in Workers : Claims(v, q)' => Claims(v, q)
        /\ Busy(rec[q]) /\ Claims(w, q) => adm'[w].ph = "done" /\ adm'[w].res = "ok"
                                           /\ q \in adm'[w].cands \cap adm'[w].claimed
        /\ Busy(rec[q]) /\ adm'[w].ph # "idle" /\ adm'[w].strategy # "reject" => q \in adm'[w].cands
        /\ rec[q].live /\ rec[q].pc = "put" => adm'[w].ph = "idle"
        /\ rec[q].live /\ rec[q].pc = "put" /\ tcall[q].ph = "sent" => rec'[q].left >= -Slack

(* A run whose record, row and calls say the same as before keeps its part   *)
(* of the invariant.                                                         *)
LEMMA AlikeOutcome ==
    ASSUME NEW q \in Runs, RunOutcome(q), Durable(q), Alike(rec[q], rec'[q]),
           rows'[q].status = rows[q].status, rows'[q].owner = rows[q].owner,
           rows[q].status = "absent" => rows'[q].cancel = "none",
           tcall'[q] = tcall[q], ccall'[q] = ccall[q],
           published'[q] = published[q], q \in ended' => q \in ended,
           \A w \in Workers : q \in adm'[w].run => q \in adm[w].run \/ ~Told(q),
           AnswersArrive => AdmissionsAlike(q)
    PROVE  RunOutcome(q)' /\ Durable(q)'
<1>1. BusyIsUndecided(q)' /\ CallsAgree(q)'
  BY DEF RunOutcome, BusyIsUndecided, CallsAgree, Busy, Alike
<1>2. ToldIsOver(q)'
  BY DEF RunOutcome, ToldIsOver, Told, Alike
<1>3. ASSUME AnswersArrive PROVE ProofIsDurable(q)'
  <2>1. PendingError(q)' <=> PendingError(q)
    BY DEF PendingError, StoreFaults, Alike
  <2>2. Amended(q)' <=> Amended(q)
    BY <2>1 DEF Amended, Alike
  <2>3. \A w \in Workers : Claims(w, q)' => Claims(w, q)
    BY <1>3 DEF AdmissionsAlike
  <2> QED BY <1>3, <2>1, <2>2, <2>3 DEF Durable, ProofIsDurable, StoreFaults, Alike
<1>4. ASSUME AnswersArrive PROVE BusyHolds(q)'
  <2>1. (Busy(rec[q])' <=> Busy(rec[q])) /\ rec'[q].home = rec[q].home
    BY DEF Busy, Alike
  <2>2. Holds(q)' <=> Holds(q)
    BY DEF Holds, Alike
  <2>3. Busy(rec[q]) /\ Claims(rec[q].home, q) => Claims(rec[q].home, q)'
    BY <1>4, <2>1 DEF AdmissionsAlike, Claims
  <2>4. rec'[q].live = rec[q].live /\ rec'[q].pc = rec[q].pc
    BY DEF Alike
  <2> QED BY <1>4, <2>1, <2>2, <2>3, <2>4 DEF Durable, BusyHolds, AdmissionsAlike
<1>5. AnswersArrive' => AnswersArrive
  BY DEF AnswersArrive, StoreFaults
<1> QED BY <1>1, <1>2, <1>3, <1>4, <1>5 DEF RunOutcome, Durable

(* A run that no worker holds any more, or not yet, keeps its part as long   *)
(* as clients who were told its outcome still find it in the row.            *)
LEMMA DeadOutcome ==
    ASSUME FenceInvariant', NEW q \in Runs, RunOutcome(q), Durable(q), ~rec'[q].live,
           rows'[q].status = rows[q].status \/ ~Told(q),
           rows'[q].status = "absent" => rows'[q].cancel = "none",
           tcall'[q] = tcall[q] \/ tcall'[q] = NoCall,
           published'[q] = published[q], q \in ended' => q \in ended,
           \A w \in Workers : q \in adm'[w].run => q \in adm[w].run \/ ~Told(q)
    PROVE  RunOutcome(q)' /\ Durable(q)'
<1>1. CallsMatch(q)'
  BY DEF FenceInvariant, RunInvariant
<1>2. NoCall.op = "none"
  BY DEF NoCall
<1>3. tcall'[q].ph = "idle" /\ ccall'[q].op # "update"
  BY <1>1 DEF CallsMatch
<1>4. BusyIsUndecided(q)' /\ CallsAgree(q)'
  BY <1>2, <1>3 DEF RunOutcome, BusyIsUndecided, CallsAgree, Busy
<1>5. ToldIsOver(q)'
  BY DEF RunOutcome, ToldIsOver, Told
<1>6. ProofIsDurable(q)' /\ BusyHolds(q)'
  BY DEF ProofIsDurable, BusyHolds, Busy
<1>7. AnswersArrive' => AnswersArrive
  BY DEF AnswersArrive, StoreFaults
<1> QED BY <1>4, <1>5, <1>6, <1>7 DEF RunOutcome, Durable, Told

(* Evict preserves OutcomeInvariant.                                         *)
LEMMA EvictOutcome ==
    ASSUME OutcomeInvariant, FenceInvariant', NEW r \in Runs, Evict(r) PROVE OutcomeInvariant'
<1> DEFINE b == Unregistered(rec[r].home, rec[r].left)
<1>1. rec \in [Runs -> Record] /\ rec[r] \in Record /\ OnlyRec(r, b)
  BY RunFacts DEF OutcomeInvariant, FenceInvariant, TypeOK, Evict
<1>2. ~b.live
  BY <1>1, FieldTypes, UnregisteredFacts
<1> HIDE DEF b
<1>3. /\ rec' = [rec EXCEPT ![r] = b] /\ UNCHANGED <<rows, tcall, ccall, adm, published, ended>>
  BY <1>1 DEF OnlyRec
<1>4. rec'[r] = b /\ \A q \in Runs \ {r} : rec'[q] = rec[q]
  BY <1>1, <1>3
<1>5. RunOutcome(r) /\ Durable(r) /\ (rows[r].status = "absent" => rows[r].cancel = "none")
  BY OutcomeFacts DEF RunOutcome, CallsAgree
<1>6. RunOutcome(r)' /\ Durable(r)'
  BY <1>2, <1>3, <1>4, <1>5, DeadOutcome
<1> QED BY <1>3, <1>4, <1>6, LocalOutcome

-----------------------------------------------------------------------------
(* Steps that change the row of one run.                                     *)

(* What one write may do to a row: nothing, start it or put it back, close   *)
(* it, amend an interrupted row, or accept a cancellation.                   *)
RowMoves(a, b) ==
    \/ b.status = a.status /\ b.cancel = a.cancel
    \/ a.status \in Active /\ b.status \in Active /\ b.cancel = a.cancel
    \/ /\ a.status \in Active /\ b.status \in Terminal /\ b.cancel = a.cancel
       /\ b.status = "success" => a.cancel = "none"
    \/ a.status = "interrupted" /\ b.status = "error" /\ b.cancel = a.cancel
    \/ a.status \in Active /\ b.status = a.status /\ a.cancel = "none" /\ b.cancel \in Actions

(* The guarded statements of the store move a row that way, and keep its     *)
(* owner.                                                                    *)
LEMMA GuardedMoves ==
    ASSUME NEW row \in Row, NEW w \in Workers \cup {NoWorker}, NEW status \in Active \cup Terminal,
           NEW action \in Actions
    PROVE  /\ \A new \in {StartRun(row), UpdateStatus(row, status, w),
                          FinalizeIfNotCancelled(row, status, w), RequestCancel(row, action)} :
                RowMoves(row, new) /\ new.owner = row.owner
           /\ row.status \in Active => StartRun(row).status \in Active
           /\ \A new \in {StartRun(row), FinalizeIfNotCancelled(row, status, w),
                          RequestCancel(row, action)} :
                row.status \notin Active => new.status = row.status
           /\ LET new == UpdateStatus(row, status, w)
              IN  row.status \notin Active /\ new.status # row.status =>
                    /\ row.status = "interrupted" /\ status = "error" /\ new.status = "error"
                    /\ UpdateStatusOk(row, status, w)
<1>1. LET new == StartRun(row)
      IN  /\ new.owner = row.owner /\ new.cancel = row.cancel
          /\ new.status = row.status \/ (row.status = "pending" /\ new.status = "running")
  BY DEF StartRun, StartRunOk, Row
<1>2. LET new == UpdateStatus(row, status, w)
      IN  /\ new.owner = row.owner /\ new.cancel = row.cancel
          /\ \/ new.status = row.status
             \/ UpdateStatusOk(row, status, w) /\ new.status = status
  BY DEF UpdateStatus, Row
<1>3. LET new == FinalizeIfNotCancelled(row, status, w)
      IN  /\ new.owner = row.owner /\ new.cancel = row.cancel
          /\ \/ new.status = row.status
             \/ row.status \in Active /\ row.cancel = "none" /\ new.status = status
  BY DEF FinalizeIfNotCancelled, FinalizeOk, Row
<1>4. LET new == RequestCancel(row, action)
      IN  /\ new.owner = row.owner /\ new.status = row.status
          /\ \/ new.cancel = row.cancel
             \/ row.status \in Active /\ row.cancel = "none" /\ new.cancel = action
  BY DEF RequestCancel, Row
<1>5. UpdateStatusOk(row, status, w) =>
        /\ row.status \in Active \/ (row.status = "interrupted" /\ status = "error")
        /\ status = "success" => row.cancel = "none"
  BY DEF UpdateStatusOk
<1>6. "pending" \in Active /\ "running" \in Active
  BY StatusNames
<1>7. RowMoves(row, StartRun(row))
  BY <1>1, <1>6 DEF RowMoves
<1>8. RowMoves(row, UpdateStatus(row, status, w))
  BY <1>2, <1>5 DEF RowMoves
<1>9. RowMoves(row, FinalizeIfNotCancelled(row, status, w))
  BY <1>3 DEF RowMoves
<1>10. RowMoves(row, RequestCancel(row, action))
  BY <1>4 DEF RowMoves
<1> QED BY <1>1, <1>2, <1>3, <1>4, <1>5, <1>6, <1>7, <1>8, <1>9, <1>10

(* The same for a call in flight; the unguarded snapshot write is the one    *)
(* that relies on the row being active.                                      *)
LEMMA ApplyMoves ==
    ASSUME FenceInvariant, NEW r \in Runs, NEW call \in Call,
           call.op \in {"update", "cas", "put"} => call.out \in Outcomes,
           call.op = "put" => call.out.status \in Active,
           call.op = "request" => call.arg \in Actions
    PROVE  LET new == Apply(r, call)
           IN  /\ call.op # "put" \/ rows[r].status \in Active => RowMoves(rows[r], new)
               /\ call.op # "put" => new.owner = rows[r].owner
               /\ call.op = "put" => \/ new = rows[r]
                                     \/ new.status \in Active /\ new.owner = rec[r].home
               /\ call.op = "start" /\ rows[r].status \in Active => new.status \in Active
               /\ call.op # "put" /\ rows[r].status \notin Active /\ new.status # rows[r].status =>
                    /\ rows[r].status = "interrupted" /\ new.status = "error"
                    /\ call.op = "update" /\ call.out.status = "error" /\ Answer(r, call) = "ok"
               /\ call.op \in {"update", "cas"} /\ Answer(r, call) = "ok"
                    => new.status = call.out.status
               /\ call.op = "update" => Answer(r, call) \in {"ok", "no"}
<1> DEFINE row == rows[r]
           w == rec[r].home
           st == call.out.status
           new == Apply(r, call)
<1>1. row \in Row /\ rec[r] \in Record /\ w \in Workers \cup {NoWorker} /\ rec[r].left \in Left
  BY RunFacts, FieldTypes
<1>2. call.op \in {"none", "start", "put", "update", "cas", "request"}
  BY DEF Call
<1>3. call.op \in {"update", "cas", "put"} => st \in Active \cup Terminal
  BY DEF Outcomes
<1>4. "pending" \in Active \cup Terminal /\ "interrupt" \in {"none"} \cup Actions /\ "interrupt" \in Actions
      /\ Actions \subseteq {"none"} \cup Actions
  BY StatusNames
<1> HIDE DEF row, w, st
<1>5. CASE call.op = "none"
  <2>1. new = row
    BY <1>5 DEF Apply, row
  <2> QED BY <1>1, <1>5, <2>1 DEF row, RowMoves
<1>6. CASE call.op = "start"
  <2>1. new = StartRun(row)
    BY <1>6 DEF Apply, row
  <2> HIDE DEF new
  <2>2. /\ RowMoves(row, new) /\ new.owner = row.owner
        /\ row.status \in Active => new.status \in Active
        /\ row.status \notin Active => new.status = row.status
    BY <1>1, <1>4, <2>1, GuardedMoves
  <2> QED BY <1>6, <2>2 DEF row, new
<1>7. CASE call.op = "request"
  <2>1. new = RequestCancel(row, call.arg)
    BY <1>7 DEF Apply, row
  <2> HIDE DEF new
  <2>2. /\ RowMoves(row, new) /\ new.owner = row.owner
        /\ row.status \notin Active => new.status = row.status
    BY <1>1, <1>4, <1>7, <2>1, GuardedMoves
  <2> QED BY <1>7, <2>2 DEF row, new
<1>8. CASE call.op = "update"
  <2>1. new = UpdateStatus(row, st, w)
    BY <1>8 DEF Apply, row, st, w
  <2>2. Answer(r, call) = IF UpdateStatusOk(row, st, w) THEN "ok" ELSE "no"
    BY <1>8 DEF Answer, row, st, w
  <2> HIDE DEF new
  <2>3. /\ RowMoves(row, new) /\ new.owner = row.owner
        /\ row.status \notin Active /\ new.status # row.status =>
             /\ row.status = "interrupted" /\ st = "error" /\ new.status = "error"
             /\ UpdateStatusOk(row, st, w)
    BY <1>1, <1>3, <1>4, <1>8, <2>1, GuardedMoves
  <2>4. UpdateStatusOk(row, st, w) => new.status = st
    BY <1>1, <1>3, <1>4, <1>8, <2>1, GuardedWrites
  <2> QED BY <1>8, <2>2, <2>3, <2>4 DEF row, new, st
<1>9. CASE call.op = "cas"
  <2>1. new = FinalizeIfNotCancelled(row, st, w)
    BY <1>9 DEF Apply, row, st, w
  <2>2. Answer(r, call) = FinalizeReply(row, w)
    BY <1>9 DEF Answer, row, w
  <2> HIDE DEF new
  <2>3. /\ RowMoves(row, new) /\ new.owner = row.owner
        /\ row.status \notin Active => new.status = row.status
    BY <1>1, <1>3, <1>4, <1>9, <2>1, GuardedMoves
  <2>4. FinalizeReply(row, w) = "ok" => new.status = st
    BY <1>1, <1>3, <1>4, <1>9, <2>1, GuardedWrites
  <2> QED BY <1>9, <2>2, <2>3, <2>4 DEF row, new, st
<1>10. CASE call.op = "put"
  <2>1. new = row \/ new = PutRow(row, st, rec[r].left, w)
    BY <1>10 DEF Apply, row, st, w
  <2>2. st \in Active
    BY <1>10 DEF st
  <2>3. LET p == PutRow(row, st, rec[r].left, w)
        IN  p.status = st /\ p.owner = w /\ p.cancel = row.cancel
    <3>1. st \in {"absent"} \cup Active \cup Terminal
      BY <2>2
    <3> QED BY <1>1, <3>1 DEF PutRow, Row
  <2> HIDE DEF new
  <2>4. new = row \/ (new.status \in Active /\ new.owner = w /\ new.cancel = row.cancel)
    BY <2>1, <2>2, <2>3
  <2>5. row.status \in Active => RowMoves(row, new)
    BY <2>4 DEF RowMoves
  <2> QED BY <1>10, <2>4, <2>5 DEF row, new, w
<1> QED BY <1>2, <1>5, <1>6, <1>7, <1>8, <1>9, <1>10

(* A step that changes one row and no record preserves the invariant when it *)
(* preserves the part of that run, and does not take the row of an answered  *)
(* admission away before its lease is over.                                  *)
LEMMA RowOutcome ==
    ASSUME OutcomeInvariant, FenceInvariant', OneActiveRow', NEW r \in Runs, NEW row,
           rows' = [rows EXCEPT ![r] = row], UNCHANGED <<rec, adm, published, ended>>,
           \A q \in Runs \ {r} : tcall'[q] = tcall[q] /\ ccall'[q] = ccall[q],
           row.cancel # "none" => row.status # "success",
           RunOutcome(r)', Durable(r)',
           \A w \in Workers :
               r \in adm[w].run /\ adm[w].ph = "done" /\ adm[w].res = "ok" =>
                 \/ adm[w].left < -Grace
                 \/ rows[r].status \in Active => row.status \in Active /\ row.owner = rows[r].owner
    PROVE  OutcomeInvariant'
<1>1. rows \in [Runs -> Row] /\ adm \in [Workers -> Admission]
  BY DEF OutcomeInvariant, FenceInvariant, TypeOK
<1>2. rows'[r] = row /\ \A q \in Runs \ {r} : rows'[q] = rows[q]
  BY <1>1
<1>3. ASSUME NEW q \in Runs PROVE RunOutcome(q)' /\ Durable(q)'
  <2>1. CASE q = r
    BY <2>1
  <2>2. CASE q # r
    BY <1>2, <2>2, OutcomeFacts, SameOutcome
  <2> QED BY <2>1, <2>2
<1>4. CancelExcludesSuccess'
  BY <1>2 DEF OutcomeInvariant, CancelExcludesSuccess
<1>5. AnswersArrive' <=> AnswersArrive
  BY DEF AnswersArrive, StoreFaults
<1>6. ASSUME AnswersArrive, NEW w \in Workers PROVE AdmissionHolds(w)'
  <2>1. AdmissionHolds(w) /\ adm[w].run \subseteq Runs
    BY <1>1, <1>6 DEF OutcomeInvariant, Admission
  <2> QED BY <1>2, <2>1 DEF AdmissionHolds
<1> QED BY <1>3, <1>4, <1>5, <1>6 DEF OutcomeInvariant, Durable, PublishedIsDurable

(* A write that keeps status and owner of the row.                           *)
LEMMA SameStatusOutcome ==
    ASSUME OutcomeInvariant, FenceInvariant', OneActiveRow', NEW r \in Runs, NEW row,
           rows' = [rows EXCEPT ![r] = row],
           UNCHANGED <<rec, tcall, ccall, adm, published, ended>>,
           row.status = rows[r].status, row.owner = rows[r].owner,
           rows[r].status = "absent" => row.cancel = "none",
           row.cancel # "none" => row.status # "success"
    PROVE  OutcomeInvariant'
<1>1. rows \in [Runs -> Row] /\ RunOutcome(r) /\ Durable(r)
  BY OutcomeFacts DEF OutcomeInvariant, FenceInvariant, TypeOK
<1>2. rows'[r] = row
  BY <1>1
<1>3. Alike(rec[r], rec'[r])
  BY DEF Alike
<1>4. AnswersArrive => AdmissionsAlike(r)
  BY <1>1 DEF Durable, BusyHolds, AdmissionsAlike, Claims
<1>5. RunOutcome(r)' /\ Durable(r)'
  BY <1>1, <1>2, <1>3, <1>4, AlikeOutcome
<1> QED BY <1>2, <1>5, RowOutcome

(* RemoteCancel preserves OutcomeInvariant.                                  *)
LEMMA RemoteCancelOutcome ==
    ASSUME OutcomeInvariant, FenceInvariant', OneActiveRow', NEW r \in Runs, NEW w \in Workers,
           NEW action \in Requests, RemoteCancel(w, r, action)
    PROVE  OutcomeInvariant'
<1> DEFINE row == RequestCancel(rows[r], action)
<1>1. rows[r] \in Row /\ rows[r].status \in Active /\ action \in Actions
  BY OutcomeFacts, RunFacts, OwnershipAssumption DEF RemoteCancel, OwnershipAssumption
<1>2. row.status = rows[r].status /\ row.owner = rows[r].owner
  BY <1>1 DEF RequestCancel, Row
<1>3. "absent" \notin Active /\ "success" \notin Active
  BY DEF Active
<1>4. rows' = [rows EXCEPT ![r] = row] /\ UNCHANGED <<rec, tcall, ccall, adm, published, ended>>
  BY DEF RemoteCancel, OnlyRows
<1> HIDE DEF row
<1> QED BY <1>1, <1>2, <1>3, <1>4, SameStatusOutcome

(* RenewStore preserves OutcomeInvariant.                                    *)
LEMMA RenewStoreOutcome ==
    ASSUME OutcomeInvariant, FenceInvariant', OneActiveRow', NEW r \in Runs, RenewStore(r)
    PROVE  OutcomeInvariant'
<1> DEFINE new == RenewLease(rows[r], rcall[r].left, rcall[r].allow, rec[r].home)
<1>1. /\ rows \in [Runs -> Row] /\ rows[r] \in Row /\ rcall[r] \in Renewal
      /\ rows[r].cancel # "none" => rows[r].status # "success"
      /\ rows[r].status = "absent" => rows[r].cancel = "none"
  BY OutcomeFacts, RunFacts DEF OutcomeInvariant, FenceInvariant, TypeOK, RunOutcome, CallsAgree
<1>2. new.status = rows[r].status /\ new.owner = rows[r].owner /\ new.cancel = rows[r].cancel
  BY <1>1 DEF RenewLease, Row
<1>3. /\ rows' = [rows EXCEPT ![r] = new] \/ rows' = [rows EXCEPT ![r] = rows[r]]
      /\ UNCHANGED <<rec, tcall, ccall, adm, published, ended>>
  BY <1>1 DEF RenewStore
<1> HIDE DEF new
<1>4. PICK row : /\ rows' = [rows EXCEPT ![r] = row]
                 /\ row.status = rows[r].status /\ row.owner = rows[r].owner
                 /\ row.cancel = rows[r].cancel
  BY <1>2, <1>3
<1> QED BY <1>1, <1>3, <1>4, SameStatusOutcome

(* A write of the owner's row in flight is never overtaken by a recovery: the *)
(* lease of a worker that is not fenced has not expired past the grace.      *)
LEMMA LeaseProtects ==
    ASSUME FenceInvariant, NEW r \in Runs, rec[r].live,
           \/ ~rec[r].lost /\ rec[r].proof = NoOutcome
           \/ rec[r].left >= -Slack
    PROVE  ~LeaseExpired(rows[r])
<1>1. LeaseIsConfirmed(r) /\ TimerIsArmed(r)
  BY RunFacts
<1>2. rec[r].left >= -Slack /\ rows[r].left >= rec[r].left
  BY <1>1 DEF LeaseIsConfirmed, TimerIsArmed
<1> QED BY <1>2, Numbers DEF LeaseExpired

(* Takeover preserves OutcomeInvariant.                                      *)
LEMMA TakeoverOutcome ==
    ASSUME OutcomeInvariant, FenceInvariant', OneActiveRow', NEW r \in Runs, NEW w \in Workers,
           Takeover(w, r)
    PROVE  OutcomeInvariant'
<1> DEFINE row == ClaimForTakeover(rows[r])
<1>1. /\ FenceInvariant /\ RunInvariant(r) /\ RunOutcome(r) /\ Durable(r) /\ rows[r] \in Row
      /\ rows \in [Runs -> Row] /\ rec[r] \in Record
  BY OutcomeFacts, RunFacts DEF OutcomeInvariant, FenceInvariant, TypeOK
<1>2. /\ rows' = [rows EXCEPT ![r] = row]
      /\ UNCHANGED <<rec, tcall, ccall, adm, published, ended>>
      /\ rows[r].status \in Active /\ LeaseExpired(rows[r])
  BY DEF Takeover, OnlyRows, ClaimForTakeoverOk
<1>3. row.status = "error"
  BY <1>1, StatusNames DEF ClaimForTakeover, Row
<1> HIDE DEF row
<1>4. rows'[r] = row
  BY <1>1, <1>2
<1>5. ~Told(r) /\ rows[r].status \notin Terminal
  BY <1>1, <1>2, StatusNames DEF RunOutcome, ToldIsOver
<1>6. ~rec[r].live \/ rec[r].lost
  <2>1. rec[r].live => rec[r].proof = NoOutcome
    BY <1>1, <1>2 DEF RunInvariant, ProofMeansClosed
  <2> QED BY <1>1, <1>2, <2>1, LeaseProtects
<1>7. RunOutcome(r)'
  <2>1. BusyIsUndecided(r)'
    BY <1>1, <1>2 DEF RunOutcome, BusyIsUndecided
  <2>2. ToldIsOver(r)'
    BY <1>1, <1>2, <1>5 DEF RunOutcome, ToldIsOver, Told
  <2>3. CallsAgree(r)'
    BY <1>1, <1>2, <1>3, <1>4, <1>5 DEF RunOutcome, CallsAgree
  <2> QED BY <2>1, <2>2, <2>3 DEF RunOutcome
<1>8. Durable(r)'
  <2>1. ProofIsDurable(r)'
    BY <1>2, <1>6 DEF ProofIsDurable
  <2>2. ASSUME AnswersArrive PROVE BusyHolds(r)'
    <3>1. BusyHolds(r)
      BY <1>1, <2>2 DEF Durable
    <3>2. ~(rec[r].live /\ rec[r].pc = "put" /\ tcall[r].ph = "sent")
      BY <1>1, <1>2, <3>1, LeaseProtects DEF BusyHolds
    <3> QED BY <1>2, <1>6, <3>1, <3>2 DEF BusyHolds, Busy
  <2>3. published'[r] = "absent"
    BY <1>2, <1>5 DEF Told
  <2>4. AnswersArrive' => AnswersArrive
    BY DEF AnswersArrive, StoreFaults
  <2> QED BY <2>1, <2>2, <2>3, <2>4 DEF Durable
<1>9. ASSUME NEW v \in Workers, r \in adm[v].run PROVE adm[v].left < -Grace \/ adm[v].ph # "done" \/ adm[v].res # "ok"
  <2>1. adm[v].ph = "done" /\ adm[v].res = "ok" => rows[r].left >= adm[v].left
    BY <1>1, <1>9, AdmissionOf
  <2>2. adm[v].left \in Left /\ rows[r].left \in Int /\ Grace \in Nat
    BY <1>1, Numbers DEF FenceInvariant, TypeOK, Admission
  <2>3. adm[v].left \in Int
    BY <2>2, LeftType
  <2> QED BY <1>2, <2>1, <2>2, <2>3 DEF LeaseExpired
<1> QED BY <1>2, <1>3, <1>7, <1>8, <1>9, RowOutcome

(* The store applies a call of a live run: its row moves, and the answer that *)
(* the caller will see is about the row as it is now.                        *)
LEMMA StoreOutcome ==
    ASSUME OutcomeInvariant, FenceInvariant', OneActiveRow', NEW r \in Runs, NEW row, NEW t, NEW c,
           rows' = [rows EXCEPT ![r] = row],
           tcall' = [tcall EXCEPT ![r] = t], ccall' = [ccall EXCEPT ![r] = c],
           UNCHANGED <<rec, adm, published, ended>>, rec[r].live,
           t.op = tcall[r].op, t.out = tcall[r].out, t.ph = "idle" <=> tcall[r].ph = "idle",
           t = tcall[r] \/ tcall[r].ph = "sent",
           c.op = ccall[r].op, c.out = ccall[r].out, c.rev = ccall[r].rev,
           RowMoves(rows[r], row) \/ (~AnswersArrive /\ row.status \in Active) \/ row = rows[r],
           Told(r) => row.status = rows[r].status,
           row.status # "absent",
           t.op = "update" => t.res \notin Actions,
           /\ t.ph = "done" /\ t.res = "ok"
           /\ t.op \in {"update", "cas"} /\ t.out.status \in Terminal
           => row.status = t.out.status,
           c.op = "update" /\ c.ph = "done" /\ c.res = "ok"
             => row.status = "interrupted" \/ c = ccall[r],
           AnswersArrive =>
             /\ \/ row.status = rows[r].status \/ rows[r].status \in Active
                \/ /\ rows[r].status = "interrupted" /\ row.status = "error"
                   /\ tcall[r].op = "update" /\ tcall[r].out.status = "error" /\ tcall[r].ph # "idle"
                   /\ StoreFaults \/ (t.ph = "done" /\ t.res = "ok")
             /\ Busy(rec[r]) \/ rec[r].pc = "put" =>
                  (Holds(r) => row.status \in Active /\ row.owner = rec[r].home)
    PROVE  OutcomeInvariant'
<1>1. /\ FenceInvariant /\ RunInvariant(r) /\ RunOutcome(r) /\ Durable(r)
      /\ rows \in [Runs -> Row] /\ tcall \in [Runs -> Call] /\ ccall \in [Runs -> Call]
      /\ rows[r].cancel # "none" => rows[r].status # "success"
  BY OutcomeFacts DEF OutcomeInvariant, FenceInvariant, TypeOK
<1>2. /\ rows'[r] = row /\ tcall'[r] = t /\ ccall'[r] = c /\ rec'[r] = rec[r]
      /\ published'[r] = published[r]
      /\ \A q \in Runs \ {r} : tcall'[q] = tcall[q] /\ ccall'[q] = ccall[q]
  BY <1>1
<1>3. row.cancel # "none" => row.status # "success"
  <2>1. "success" \notin Active
    BY DEF Active
  <2> QED BY <1>1, <2>1 DEF RowMoves
<1>4. tcall[r].ph = "sent" => tcall[r].ph # "done"
  OBVIOUS
<1>5. RunOutcome(r)'
  <2>1. BusyIsUndecided(r)'
    BY <1>1, <1>2 DEF RunOutcome, BusyIsUndecided
  <2>2. ToldIsOver(r)'
    BY <1>1, <1>2 DEF RunOutcome, ToldIsOver, Told
  <2>3. CallsAgree(r)'
    BY <1>1, <1>2 DEF RunOutcome, CallsAgree
  <2> QED BY <2>1, <2>2, <2>3 DEF RunOutcome
<1>6. ASSUME AnswersArrive, ~rec[r].lost PROVE ProofIsDurable(r)'
  <2>1. /\ ProofIsDurable(r)
        /\ rec[r].proof # NoOutcome => rows[r].status \notin Active
        /\ NoOutcome.status = "absent"
    <3>1. NoOutcome.status = "absent"
      BY DEF NoOutcome
    <3> QED BY <1>1, <1>6, <3>1 DEF Durable, RunInvariant, ProofMeansClosed
  <2>2. PendingError(r) => PendingError(r)'
    BY <1>2, <1>4 DEF PendingError, StoreFaults
  <2>3. CASE rows[r].status \notin Active /\ row.status # rows[r].status
    <3>1. /\ rows[r].status = "interrupted" /\ row.status = "error"
          /\ tcall[r].op = "update" /\ tcall[r].out.status = "error" /\ tcall[r].ph # "idle"
          /\ StoreFaults \/ (t.ph = "done" /\ t.res = "ok")
      BY <1>6, <2>3
    <3>2. rec[r].proof.status \notin Final
      BY <1>6, <2>1, <3>1 DEF ProofIsDurable, Final
    <3>3. StoreFaults => rec[r].status = "error"
      BY <1>6, <2>1, <3>1, <3>2 DEF ProofIsDurable
    <3>4. PendingError(r)'
      BY <1>2, <3>1, <3>3 DEF PendingError, StoreFaults
    <3> QED BY <1>2, <1>6, <2>1, <3>1, <3>2, <3>4 DEF ProofIsDurable, Amended, Claims, StoreFaults
  <2>4. CASE rows[r].status \in Active \/ row.status = rows[r].status
    <3>1. Amended(r) => Amended(r)'
      <4>1. Amended(r) => rows[r].status \notin Active
        BY StatusNames DEF Amended
      <4> QED BY <1>2, <2>2, <2>4, <4>1 DEF Amended
    <3>2. rec[r].proof # NoOutcome => row.status = rows[r].status
      BY <2>1, <2>4
    <3> QED BY <1>2, <1>6, <2>1, <2>2, <3>1, <3>2 DEF ProofIsDurable, Claims, StoreFaults, Amended
  <2> QED BY <2>3, <2>4
<1>7. ASSUME AnswersArrive PROVE BusyHolds(r)'
  <2>1. BusyHolds(r)
    BY <1>1, <1>7 DEF Durable
  <2>2. Busy(rec[r]) \/ rec[r].pc = "put" => (Holds(r) => Holds(r)')
    BY <1>2, <1>7 DEF Holds
  <2>3. Claims(rec[r].home, r)' <=> Claims(rec[r].home, r)
    BY <1>2 DEF Claims
  <2>4. t.ph = "sent" => tcall[r].ph = "sent"
    OBVIOUS
  <2> QED BY <1>2, <2>1, <2>2, <2>3, <2>4 DEF BusyHolds
<1>8. Durable(r)'
  <2>1. AnswersArrive' => AnswersArrive
    BY DEF AnswersArrive, StoreFaults
  <2>2. rec[r].lost => ProofIsDurable(r)'
    BY <1>2 DEF ProofIsDurable
  <2>3. published[r] # "absent" => row.status = rows[r].status
    BY DEF Told
  <2> QED BY <1>1, <1>2, <1>6, <1>7, <2>1, <2>2, <2>3 DEF Durable
<1>9. \A w \in Workers : r \notin adm[w].run
  BY <1>1, AdmissionOf
<1> QED BY <1>2, <1>3, <1>5, <1>8, <1>9, RowOutcome

(* What else the caller sees: the call is answered, or sent again, and only   *)
(* a faulty store hides its answer.                                          *)
LEMMA SeenAnswer ==
    ASSUME NEW call \in Call, call.ph = "sent", NEW res \in Replies, NEW c,
           c \in Seen(call, res) \/ c = Raised(call)
    PROVE  /\ c.rev = call.rev
           /\ c = call \/ (c.ph = "done" /\ (c.res = res \/ c.res = "exc"))
           /\ c \in Seen(call, res) => StoreFaults \/ (c.ph = "done" /\ c.res = res)
<1> DEFINE a == [call EXCEPT !.ph = "done", !.res = res]
           e == [call EXCEPT !.ph = "done", !.res = "exc"]
<1>1. c \in {a, e, call} /\ (c \in Seen(call, res) => StoreFaults \/ c = a)
  BY DEF Seen, Raised
<1>2. a.ph = "done" /\ a.res = res /\ a.rev = call.rev
  BY DEF Call
<1>3. e.ph = "done" /\ e.res = "exc" /\ e.rev = call.rev
  BY DEF Call, Replies
<1> HIDE DEF a, e
<1> QED BY <1>1, <1>2, <1>3

(* What the store makes of a call of the run's task.  The snapshot write     *)
(* finds the row active, unless the answer to an admission was lost.         *)
LEMMA TaskApplied ==
    ASSUME OutcomeInvariant, NEW r \in Runs, tcall[r].ph = "sent"
    PROVE  LET call == tcall[r]
               new == Apply(r, call)
           IN  /\ rec[r].live /\ ~Told(r) /\ call \in Call /\ new.status # "absent"
               /\ call.op = "request" => call.arg \in Actions
               /\ RowMoves(rows[r], new) \/ (~AnswersArrive /\ new.status \in Active) \/ new = rows[r]
               /\ call.op = "update" => Answer(r, call) \in {"ok", "no"}
               /\ call.op \in {"update", "cas"} /\ Answer(r, call) = "ok" => new.status = call.out.status
               /\ AnswersArrive =>
                    /\ \/ new.status = rows[r].status \/ rows[r].status \in Active
                       \/ /\ rows[r].status = "interrupted" /\ new.status = "error"
                          /\ call.op = "update" /\ call.out.status = "error"
                          /\ Answer(r, call) = "ok"
                    /\ Busy(rec[r]) \/ rec[r].pc = "put" =>
                         (Holds(r) => new.status \in Active /\ new.owner = rec[r].home)
<1> DEFINE call == tcall[r]
           new == Apply(r, call)
<1>1. /\ FenceInvariant /\ RunInvariant(r) /\ RunOutcome(r) /\ Durable(r) /\ call \in Call
      /\ CallsMatch(r) /\ rec[r] \in Record
  BY OutcomeFacts, RunFacts
<1>2. /\ rec[r].live /\ rec[r].pc \in Calling /\ (call.op = "put" <=> rec[r].pc = "put")
      /\ call.op \in {"update", "cas", "put"} => call.out \in Outcomes
      /\ call.op = "request" => call.arg \in Actions
      /\ rec[r].pc \in {"unstart", "commit"} => call.op \in {"update", "cas"}
  BY <1>1 DEF CallsMatch
<1>3. /\ call.op = "put" => call.out.status \in Active
      /\ rec[r].pc = "start" => call.op = "start"
      /\ rows[r].status # "absent"
  BY <1>1, <1>2 DEF RunInvariant, RunOutcome, BusyIsUndecided
<1>4. ~Told(r)
  BY <1>1, <1>2 DEF RunOutcome, ToldIsOver, Calling
<1>5. new.status # "absent"
  BY <1>1, <1>2, <1>3, ApplyFacts
<1>6. /\ call.op # "put" \/ rows[r].status \in Active => RowMoves(rows[r], new)
      /\ call.op # "put" => new.owner = rows[r].owner
      /\ call.op = "put" => new = rows[r] \/ (new.status \in Active /\ new.owner = rec[r].home)
      /\ call.op = "start" /\ rows[r].status \in Active => new.status \in Active
      /\ call.op # "put" /\ rows[r].status \notin Active /\ new.status # rows[r].status =>
           /\ rows[r].status = "interrupted" /\ new.status = "error"
           /\ call.op = "update" /\ call.out.status = "error" /\ Answer(r, call) = "ok"
      /\ call.op \in {"update", "cas"} /\ Answer(r, call) = "ok" => new.status = call.out.status
      /\ call.op = "update" => Answer(r, call) \in {"ok", "no"}
  BY <1>1, <1>2, <1>3, ApplyMoves
<1> HIDE DEF new
<1>7. AnswersArrive /\ call.op = "put" => Holds(r)
  BY <1>1, <1>2 DEF Durable, BusyHolds
<1>8. RowMoves(rows[r], new) \/ (~AnswersArrive /\ new.status \in Active) \/ new = rows[r]
  BY <1>6, <1>7 DEF Holds
<1>9. ASSUME AnswersArrive, Busy(rec[r]) \/ rec[r].pc = "put", Holds(r)
      PROVE  new.status \in Active /\ new.owner = rec[r].home
  <2>1. call.op \in {"start", "put"}
    BY <1>2, <1>3, <1>9 DEF Busy, Working, Calling
  <2> QED BY <1>6, <1>9, <2>1 DEF Holds
<1> QED BY <1>1, <1>2, <1>4, <1>5, <1>6, <1>7, <1>8, <1>9 DEF Holds, new

(* TaskStore preserves OutcomeInvariant.                                     *)
LEMMA TaskStoreOutcome ==
    ASSUME OutcomeInvariant, FenceInvariant', OneActiveRow', NEW r \in Runs, TaskStore(r)
    PROVE  OutcomeInvariant'
<1> DEFINE call == tcall[r]
           new == Apply(r, call)
           res == Answer(r, call)
<1>1. /\ call \in Call /\ rows[r] \in Row /\ TypeOK /\ call.ph = "sent" /\ CallsMatch(r)
      /\ RunOutcome(r) /\ RunInvariant(r) /\ FenceInvariant
  BY OutcomeFacts, RunFacts DEF FenceInvariant, TaskStore
<1>2. /\ rec[r].live /\ ~Told(r) /\ new.status # "absent"
      /\ call.op = "request" => call.arg \in Actions
      /\ RowMoves(rows[r], new) \/ (~AnswersArrive /\ new.status \in Active) \/ new = rows[r]
      /\ call.op = "update" => res \in {"ok", "no"}
      /\ call.op \in {"update", "cas"} /\ res = "ok" => new.status = call.out.status
      /\ AnswersArrive =>
           /\ \/ new.status = rows[r].status \/ rows[r].status \in Active
              \/ /\ rows[r].status = "interrupted" /\ new.status = "error"
                 /\ call.op = "update" /\ call.out.status = "error" /\ res = "ok"
           /\ Busy(rec[r]) \/ rec[r].pc = "put" =>
                (Holds(r) => new.status \in Active /\ new.owner = rec[r].home)
  BY <1>1, TaskApplied
<1>3. res \in Replies
  BY <1>1, <1>2, AnswerType
<1>4. /\ UNCHANGED <<rec, adm, published, ended>>
      /\ ccall' = [ccall EXCEPT ![r] = ccall[r]] /\ rows = [rows EXCEPT ![r] = rows[r]]
  BY <1>1 DEF TaskStore, TypeOK
<1>5. \/ /\ rows' = [rows EXCEPT ![r] = new]
         /\ \E c \in Seen(call, res) : tcall' = [tcall EXCEPT ![r] = c]
      \/ rows' = rows /\ tcall' = [tcall EXCEPT ![r] = Raised(call)]
  BY DEF TaskStore
<1>6. "ok" \notin Actions /\ "no" \notin Actions /\ "exc" \notin Actions /\ "exc" # "ok"
  BY DEF Actions
<1>7. call.op = "update" => call.res \notin Actions
  BY <1>1 DEF RunOutcome, CallsAgree
<1> HIDE DEF new, res
<1>8. CASE /\ rows' = [rows EXCEPT ![r] = new]
           /\ \E c \in Seen(call, res) : tcall' = [tcall EXCEPT ![r] = c]
  <2>1. PICK t \in Seen(call, res) : tcall' = [tcall EXCEPT ![r] = t]
    BY <1>8
  <2>2. /\ t.op = call.op /\ t.out = call.out /\ t.ph \in {"sent", "done"}
        /\ t = call \/ (t.ph = "done" /\ (t.res = res \/ t.res = "exc"))
        /\ StoreFaults \/ (t.ph = "done" /\ t.res = res)
    BY <1>1, <1>3, <2>1, SeenFacts, SeenAnswer
  <2>3. t.op = "update" => t.res \notin Actions
    BY <1>2, <1>6, <1>7, <2>2
  <2>4. t.ph = "done" /\ t.res = "ok" /\ t.op \in {"update", "cas"} => new.status = t.out.status
    BY <1>1, <1>2, <1>6, <2>2
  <2>5. AnswersArrive =>
          /\ \/ new.status = rows[r].status \/ rows[r].status \in Active
             \/ /\ rows[r].status = "interrupted" /\ new.status = "error"
                /\ call.op = "update" /\ call.out.status = "error" /\ call.ph # "idle"
                /\ StoreFaults \/ (t.ph = "done" /\ t.res = "ok")
          /\ Busy(rec[r]) \/ rec[r].pc = "put" =>
               (Holds(r) => new.status \in Active /\ new.owner = rec[r].home)
    BY <1>1, <1>2, <2>2
  <2> QED BY <1>1, <1>2, <1>4, <1>8, <2>1, <2>2, <2>3, <2>4, <2>5, StoreOutcome
<1>9. CASE rows' = rows /\ tcall' = [tcall EXCEPT ![r] = Raised(call)]
  <2> DEFINE t == Raised(call)
  <2>1. /\ t.op = call.op /\ t.out = call.out /\ t.ph \in {"sent", "done"} /\ t.res = "exc"
    BY <1>1, <1>3, SeenFacts
  <2>2. tcall' = [tcall EXCEPT ![r] = t] /\ rows' = [rows EXCEPT ![r] = rows[r]]
    BY <1>4, <1>9
  <2>3. rows[r].status # "absent"
    BY <1>1, <1>2 DEF RunInvariant
  <2> HIDE DEF t
  <2>4. Holds(r) => rows[r].status \in Active /\ rows[r].owner = rec[r].home
    BY DEF Holds
  <2> QED BY <1>1, <1>2, <1>4, <1>6, <2>1, <2>2, <2>3, <2>4, StoreOutcome
<1> QED BY <1>5, <1>8, <1>9

(* What the store makes of a call of cancel(): the request is recorded, or an *)
(* active row becomes interrupted.                                           *)
LEMMA CancelApplied ==
    ASSUME OutcomeInvariant, NEW r \in Runs, ccall[r].ph = "sent"
    PROVE  LET call == ccall[r]
               new == Apply(r, call)
           IN  /\ rec[r].live /\ call \in Call /\ new.status # "absent"
               /\ call.op = "request" => call.arg \in Actions
               /\ RowMoves(rows[r], new)
               /\ rows[r].status \notin Active => new.status = rows[r].status
               /\ call.op = "update" /\ Answer(r, call) = "ok" => new.status = "interrupted"
               /\ Busy(rec[r]) \/ rec[r].pc = "put" =>
                    (Holds(r) => new.status \in Active /\ new.owner = rec[r].home)
<1> DEFINE call == ccall[r]
           new == Apply(r, call)
<1>1. /\ FenceInvariant /\ RunInvariant(r) /\ RunOutcome(r) /\ call \in Call
      /\ CallsMatch(r) /\ SnapshotIsAlone(r) /\ rec[r] \in Record /\ rows[r] \in Row
  BY OutcomeFacts, RunFacts
<1>2. /\ rec[r].live /\ call.op \in {"none", "request", "update"}
      /\ call.op \in {"update", "cas", "put"} => call.out \in Outcomes
      /\ call.op = "request" => call.arg \in Actions
      /\ call.op = "update" => rec[r].abort # "none"
  BY <1>1 DEF CallsMatch
<1>3. /\ call.op = "update" => call.out.status = "interrupted"
      /\ rows[r].status # "absent"
  BY <1>1, <1>2 DEF RunInvariant, RunOutcome, CallsAgree
<1>4. new.status # "absent"
  BY <1>1, <1>2, <1>3, ApplyFacts
<1>5. /\ RowMoves(rows[r], new) /\ new.owner = rows[r].owner
      /\ rows[r].status \notin Active /\ new.status # rows[r].status =>
           call.op = "update" /\ call.out.status = "error"
      /\ call.op = "update" /\ Answer(r, call) = "ok" => new.status = call.out.status
  BY <1>1, <1>2, <1>3, ApplyMoves
<1>6. call.op # "update" => new.status = rows[r].status
  <2>1. call.op = "none" => new = rows[r]
    BY DEF Apply
  <2>2. call.op = "request" => new.status = rows[r].status
    <3>1. call.op = "request" => new = RequestCancel(rows[r], call.arg)
      BY DEF Apply
    <3>2. call.op = "request" => RequestCancel(rows[r], call.arg).status = rows[r].status
      BY <1>1, <1>2 DEF RequestCancel, Row
    <3> QED BY <3>1, <3>2
  <2> QED BY <1>2, <2>1, <2>2
<1> HIDE DEF new
<1>7. ASSUME Busy(rec[r]) \/ rec[r].pc = "put", Holds(r)
      PROVE  new.status \in Active /\ new.owner = rec[r].home
  <2>1. call.op # "update"
    BY <1>1, <1>2, <1>7 DEF Busy, SnapshotIsAlone
  <2> QED BY <1>5, <1>6, <1>7, <2>1 DEF Holds
<1> QED BY <1>1, <1>2, <1>3, <1>4, <1>5, <1>7 DEF new

(* CancelStore preserves OutcomeInvariant.                                   *)
LEMMA CancelStoreOutcome ==
    ASSUME OutcomeInvariant, FenceInvariant', OneActiveRow', NEW r \in Runs, CancelStore(r)
    PROVE  OutcomeInvariant'
<1> DEFINE call == ccall[r]
           new == Apply(r, call)
           res == Answer(r, call)
<1>1. /\ call \in Call /\ rows[r] \in Row /\ TypeOK /\ call.ph = "sent"
      /\ RunOutcome(r) /\ RunInvariant(r) /\ FenceInvariant
  BY OutcomeFacts, RunFacts DEF FenceInvariant, CancelStore
<1>2. /\ rec[r].live /\ new.status # "absent"
      /\ call.op = "request" => call.arg \in Actions
      /\ RowMoves(rows[r], new)
      /\ rows[r].status \notin Active => new.status = rows[r].status
      /\ call.op = "update" /\ res = "ok" => new.status = "interrupted"
      /\ Busy(rec[r]) \/ rec[r].pc = "put" =>
           (Holds(r) => new.status \in Active /\ new.owner = rec[r].home)
  BY <1>1, CancelApplied
<1>3. res \in Replies /\ rows[r].status # "absent"
  BY <1>1, <1>2, AnswerType DEF RunInvariant
<1>4. /\ UNCHANGED <<rec, adm, published, ended>>
      /\ tcall' = [tcall EXCEPT ![r] = tcall[r]] /\ rows = [rows EXCEPT ![r] = rows[r]]
  BY <1>1 DEF CancelStore, TypeOK
<1>5. \/ /\ rows' = [rows EXCEPT ![r] = new]
         /\ \E c \in Seen(call, res) : ccall' = [ccall EXCEPT ![r] = c]
      \/ rows' = rows /\ ccall' = [ccall EXCEPT ![r] = Raised(call)]
  BY DEF CancelStore
<1>6. /\ Told(r) => rows[r].status \in Terminal
      /\ tcall[r].op = "update" => tcall[r].res \notin Actions
      /\ /\ tcall[r].ph = "done" /\ tcall[r].res = "ok"
         /\ tcall[r].op \in {"update", "cas"} /\ tcall[r].out.status \in Terminal
         => rows[r].status = tcall[r].out.status
  BY <1>1 DEF RunOutcome, ToldIsOver, CallsAgree
<1>7. rows[r].status \in Terminal => rows[r].status \notin Active
  BY StatusNames
<1> HIDE DEF new, res
<1>8. CASE /\ rows' = [rows EXCEPT ![r] = new]
           /\ \E c \in Seen(call, res) : ccall' = [ccall EXCEPT ![r] = c]
  <2>1. PICK c \in Seen(call, res) : ccall' = [ccall EXCEPT ![r] = c]
    BY <1>8
  <2>2. /\ c.op = call.op /\ c.out = call.out /\ c.rev = call.rev
        /\ c = call \/ (c.ph = "done" /\ (c.res = res \/ c.res = "exc"))
    BY <1>1, <1>3, <2>1, SeenFacts, SeenAnswer
  <2>3. c.op = "update" /\ c.ph = "done" /\ c.res = "ok" => new.status = "interrupted" \/ c = ccall[r]
    BY <1>2, <2>2
  <2>4. /\ Told(r) => new.status = rows[r].status
        /\ /\ tcall[r].ph = "done" /\ tcall[r].res = "ok"
           /\ tcall[r].op \in {"update", "cas"} /\ tcall[r].out.status \in Terminal
           => new.status = tcall[r].out.status
    BY <1>2, <1>6, <1>7
  <2> QED BY <1>2, <1>4, <1>6, <1>8, <2>1, <2>2, <2>3, <2>4, StoreOutcome
<1>9. CASE rows' = rows /\ ccall' = [ccall EXCEPT ![r] = Raised(call)]
  <2> DEFINE c == Raised(call)
  <2>1. /\ c.op = call.op /\ c.out = call.out /\ c.res = "exc" /\ c.rev = call.rev
    BY <1>1, <1>3, SeenFacts, SeenAnswer
  <2>2. ccall' = [ccall EXCEPT ![r] = c] /\ rows' = [rows EXCEPT ![r] = rows[r]]
    BY <1>4, <1>9
  <2> HIDE DEF c
  <2>3. Holds(r) => rows[r].status \in Active /\ rows[r].owner = rec[r].home
    BY DEF Holds
  <2> QED BY <1>2, <1>3, <1>4, <1>6, <2>1, <2>2, <2>3, StoreOutcome
<1> QED BY <1>5, <1>8, <1>9

-----------------------------------------------------------------------------
(* Steps that concern several runs.                                          *)

(* The invariant, run by run and admission by admission.                     *)
LEMMA EachOutcome ==
    ASSUME FenceInvariant', OneActiveRow', CancelExcludesSuccess',
           \A q \in Runs : RunOutcome(q)' /\ Durable(q)',
           AnswersArrive => \A w \in Workers : AdmissionHolds(w)'
    PROVE  OutcomeInvariant'
<1>1. AnswersArrive' => AnswersArrive
  BY DEF AnswersArrive, StoreFaults
<1> QED BY <1>1 DEF OutcomeInvariant, Durable, PublishedIsDurable

(* Nothing is announced of a run without a closed row, nor of one that is     *)
(* still being admitted.                                                     *)
LEMMA NotTold ==
    ASSUME OutcomeInvariant, NEW r \in Runs,
           rows[r].status \notin Terminal \/ \E w \in Workers : r \in adm[w].run
    PROVE  ~Told(r)
BY OutcomeFacts DEF RunOutcome, ToldIsOver

(* The fields of an idle admission.                                          *)
LEMMA IdleAdmission ==
    /\ NoAdmission.ph = "idle" /\ NoAdmission.claimed = {} /\ NoAdmission.run = {}
    /\ NoAdmission.res = "-"
BY DEF NoAdmission

(* AdmitBegin preserves OutcomeInvariant.                                    *)
LEMMA AdmitBeginOutcome ==
    ASSUME OutcomeInvariant, FenceInvariant', OneActiveRow', NEW w \in Workers, NEW r \in Runs,
           NEW strategy \in Strategies, AdmitBegin(w, r, strategy)
    PROVE  OutcomeInvariant'
<1> DEFINE cands == IF strategy = "reject" THEN {} ELSE LocalInflight(w)
           a == [ph |-> "sent", run |-> {r}, strategy |-> strategy, left |-> Lease,
                 cands |-> cands, was |-> {q \in cands : rec[q].pending},
                 claimed |-> {}, res |-> "-"]
<1>1. /\ TypeOK /\ rows[r].status = "absent" /\ GateFree(w)
      /\ adm' = [adm EXCEPT ![w] = a]
      /\ rec' = [q \in Runs |-> IF q \in cands THEN [rec[q] EXCEPT !.pending = TRUE] ELSE rec[q]]
      /\ UNCHANGED <<rows, older, up, tcall, ccall, rcall, published, ended>>
  BY DEF OutcomeInvariant, FenceInvariant, AdmitBegin
<1>2. /\ a.ph = "sent" /\ a.run = {r} /\ a.strategy = strategy /\ a.cands = cands
      /\ a.claimed = {} /\ a.res = "-"
  OBVIOUS
<1>3. strategy # "reject" => cands = LocalInflight(w)
  OBVIOUS
<1> HIDE DEF a, cands
<1>4. adm'[w] = a /\ \A v \in Workers : v # w => adm'[v] = adm[v]
  BY <1>1 DEF TypeOK
<1>5. adm[w].ph = "idle"
  BY <1>1 DEF GateFree
<1>6. ~Told(r)
  BY <1>1, NotTold, StatusNames
<1>7. ASSUME NEW q \in Runs PROVE Alike(rec[q], rec'[q]) /\ rec'[q].left = rec[q].left
  <2>1. CASE q \in cands
    <3> DEFINE b == [rec[q] EXCEPT !.pending = TRUE]
    <3>1. /\ b.live = rec[q].live /\ b.home = rec[q].home /\ b.status = rec[q].status
          /\ b.abort = rec[q].abort /\ b.lost = rec[q].lost /\ b.proof = rec[q].proof
          /\ b.rev = rec[q].rev /\ b.saved = rec[q].saved /\ b.pc = rec[q].pc
          /\ b.left = rec[q].left
      OBVIOUS
    <3>2. rec'[q] = b
      BY <1>1, <2>1
    <3> HIDE DEF b
    <3> QED BY <3>1, <3>2 DEF Alike
  <2>2. CASE q \notin cands
    <3>1. rec'[q] = rec[q]
      BY <1>1, <2>2
    <3> QED BY <3>1 DEF Alike
  <2> QED BY <2>1, <2>2
<1>8. ASSUME NEW q \in Runs PROVE RunOutcome(q)' /\ Durable(q)'
  <2>1. RunOutcome(q) /\ Durable(q)
    BY OutcomeFacts
  <2>2. \A v \in Workers : q \in adm'[v].run => q \in adm[v].run \/ ~Told(q)
    BY <1>2, <1>4, <1>6
  <2>3. rows[q].status = "absent" => rows'[q].cancel = "none"
    BY <1>1, <2>1 DEF RunOutcome, CallsAgree
  <2>4. ASSUME AnswersArrive PROVE AdmissionsAlike(q)
    <3>1. BusyHolds(q) /\ (rec[q].live => rec[q].home \in Workers)
          /\ (Busy(rec[q]) => rec[q].status \in Active)
      BY <2>1, <2>4 DEF Durable, RunOutcome, BusyIsUndecided
    <3>2. \A v \in Workers : Claims(v, q)' => Claims(v, q)
      BY <1>2, <1>4 DEF Claims
    <3>3. rec[q].live /\ rec[q].home # w => adm'[rec[q].home] = adm[rec[q].home]
      BY <1>4, <3>1
    <3>4. rec[q].live /\ rec[q].home = w => rec[q].pc # "put" /\ ~Claims(w, q)
      BY <1>1, <1>5 DEF GateFree, Claims
    <3>5. Busy(rec[q]) /\ rec[q].home = w /\ strategy # "reject" => q \in a.cands
      BY <1>2, <1>3, <3>1 DEF LocalInflight, Busy
    <3>6. Busy(rec[q]) => rec[q].live
      BY DEF Busy
    <3>7. Busy(rec[q]) /\ Claims(rec[q].home, q) =>
            /\ adm'[rec[q].home].ph = "done" /\ adm'[rec[q].home].res = "ok"
            /\ q \in adm'[rec[q].home].cands \cap adm'[rec[q].home].claimed
      BY <3>3, <3>4, <3>6 DEF Claims
    <3>8. Busy(rec[q]) /\ adm'[rec[q].home].ph # "idle" /\ adm'[rec[q].home].strategy # "reject"
            => q \in adm'[rec[q].home].cands
      BY <1>2, <1>4, <3>1, <3>3, <3>5, <3>6 DEF BusyHolds
    <3>9. rec[q].live /\ rec[q].pc = "put" => adm'[rec[q].home].ph = "idle"
      BY <3>1, <3>3, <3>4 DEF BusyHolds
    <3>10. rec[q].live /\ rec[q].pc = "put" /\ tcall[q].ph = "sent" => rec'[q].left >= -Slack
      BY <1>7, <3>1 DEF BusyHolds
    <3> QED BY <3>2, <3>7, <3>8, <3>9, <3>10 DEF AdmissionsAlike
  <2> QED BY <1>1, <1>7, <2>1, <2>2, <2>3, <2>4, AlikeOutcome
<1>9. ASSUME AnswersArrive, NEW v \in Workers PROVE AdmissionHolds(v)'
  <2>1. AdmissionHolds(v)
    BY <1>9 DEF OutcomeInvariant
  <2> QED BY <1>1, <1>2, <1>4, <2>1 DEF AdmissionHolds
<1>10. CancelExcludesSuccess'
  BY <1>1 DEF OutcomeInvariant, CancelExcludesSuccess
<1> QED BY <1>8, <1>9, <1>10, EachOutcome

(* Crash preserves OutcomeInvariant.                                         *)
LEMMA CrashOutcome ==
    ASSUME OutcomeInvariant, FenceInvariant', OneActiveRow', NEW w \in Workers, Crash(w)
    PROVE  OutcomeInvariant'
<1> DEFINE b == Unregistered(w, Floor)
<1>1. TypeOK /\ ~b.live
  BY UnregisteredFacts, LeftType DEF OutcomeInvariant, FenceInvariant
<1>2. /\ adm' = [adm EXCEPT ![w] = NoAdmission]
      /\ rec' = [q \in Runs |-> IF rec[q].home = w THEN b ELSE rec[q]]
      /\ tcall' = [q \in Runs |-> IF rec[q].home = w THEN NoCall ELSE tcall[q]]
      /\ ccall' = [q \in Runs |-> IF rec[q].home = w THEN NoCall ELSE ccall[q]]
      /\ UNCHANGED <<rows, published, ended>>
  BY DEF Crash
<1> HIDE DEF b
<1>3. adm'[w] = NoAdmission /\ \A v \in Workers : v # w => adm'[v] = adm[v]
  BY <1>1, <1>2 DEF TypeOK
<1>4. ASSUME NEW q \in Runs PROVE RunOutcome(q)' /\ Durable(q)'
  <2>1. RunOutcome(q) /\ Durable(q) /\ FenceInvariant
    BY OutcomeFacts
  <2>2. \A v \in Workers : q \in adm'[v].run => q \in adm[v].run \/ ~Told(q)
    BY <1>3, IdleAdmission
  <2>3. rows[q].status = "absent" => rows'[q].cancel = "none"
    BY <1>2, <2>1 DEF RunOutcome, CallsAgree
  <2>4. CASE rec[q].home = w
    <3>1. rec'[q] = b /\ tcall'[q] = NoCall
      BY <1>2, <2>4
    <3> QED BY <1>1, <1>2, <2>1, <2>2, <2>3, <3>1, DeadOutcome
  <2>5. CASE rec[q].home # w
    <3>1. rec'[q] = rec[q] /\ tcall'[q] = tcall[q] /\ ccall'[q] = ccall[q]
      BY <1>2, <2>5
    <3>2. ASSUME AnswersArrive PROVE AdmissionsAlike(q)
      <4>1. BusyHolds(q) /\ (rec[q].live => rec[q].home \in Workers)
        BY <2>1, <3>2 DEF Durable, RunOutcome, BusyIsUndecided
      <4>2. rec[q].live => adm'[rec[q].home] = adm[rec[q].home]
        BY <1>3, <2>5, <4>1
      <4>3. \A v \in Workers : Claims(v, q)' => Claims(v, q)
        BY <1>3, IdleAdmission DEF Claims
      <4>4. Busy(rec[q]) => rec[q].live
        BY DEF Busy
      <4> QED BY <3>1, <4>1, <4>2, <4>3, <4>4 DEF AdmissionsAlike, BusyHolds, Claims
    <3>3. Alike(rec[q], rec'[q])
      BY <3>1 DEF Alike
    <3> QED BY <1>2, <2>1, <2>2, <2>3, <3>1, <3>2, <3>3, AlikeOutcome
  <2> QED BY <2>4, <2>5
<1>5. ASSUME AnswersArrive, NEW v \in Workers PROVE AdmissionHolds(v)'
  <2>1. AdmissionHolds(v)
    BY <1>5 DEF OutcomeInvariant
  <2> QED BY <1>2, <1>3, <2>1, IdleAdmission DEF AdmissionHolds
<1>6. CancelExcludesSuccess'
  BY <1>2 DEF OutcomeInvariant, CancelExcludesSuccess
<1> QED BY <1>4, <1>5, <1>6, EachOutcome

(* A row that keeps everything but its lease keeps status, owner and request. *)
LEMMA AgedRowFields ==
    ASSUME NEW a \in Row
    PROVE  LET b == [a EXCEPT !.left = Age(a.left)]
           IN  b.status = a.status /\ b.owner = a.owner /\ b.cancel = a.cancel
<1> DEFINE l == Age(a.left)
<1> HIDE DEF l
<1>1. LET b == [a EXCEPT !.left = l]
      IN  b.status = a.status /\ b.owner = a.owner /\ b.cancel = a.cancel
  BY DEF Row
<1> QED BY <1>1 DEF l

(* A record that keeps everything but its lease is alike.                    *)
LEMMA AgedRecordFields ==
    ASSUME NEW a \in Record
    PROVE  Alike(a, [a EXCEPT !.left = Age(a.left)])
<1> DEFINE b == [a EXCEPT !.left = Age(a.left)]
<1>1. /\ b.home = a.home /\ b.status = a.status /\ b.abort = a.abort
      /\ b.proof = a.proof /\ b.rev = a.rev /\ b.pc = a.pc
  OBVIOUS
<1>2. b.live = a.live
  OBVIOUS
<1>3. b.lost = a.lost
  OBVIOUS
<1>4. b.saved = a.saved
  OBVIOUS
<1> HIDE DEF b
<1>5. Alike(a, b)
  BY <1>1, <1>2, <1>3, <1>4 DEF Alike
<1> QED BY <1>5 DEF b

(* Tick preserves OutcomeInvariant: only leases move.                        *)
LEMMA TickOutcome ==
    ASSUME OutcomeInvariant, FenceInvariant', OneActiveRow', Tick PROVE OutcomeInvariant'
<1>1. /\ TypeOK /\ \A r \in Runs : MayTick(r)
      /\ rows' = [r \in Runs |-> [rows[r] EXCEPT !.left = Age(rows[r].left)]]
      /\ rec' = [r \in Runs |-> [rec[r] EXCEPT !.left = Age(rec[r].left)]]
      /\ adm' = [w \in Workers |-> [adm[w] EXCEPT !.left = Age(adm[w].left)]]
      /\ UNCHANGED <<tcall, ccall, published, ended>>
  BY DEF OutcomeInvariant, FenceInvariant, Tick
<1>2. ASSUME NEW q \in Runs
      PROVE  /\ Alike(rec[q], rec'[q]) /\ rec'[q].left = Age(rec[q].left)
             /\ rows'[q].status = rows[q].status /\ rows'[q].owner = rows[q].owner
             /\ rows'[q].cancel = rows[q].cancel
             /\ rec[q].left \in Left
  <2>1. rec[q] \in Record /\ rows[q] \in Row /\ rec[q].left \in Left
    BY <1>1, FieldTypes DEF TypeOK
  <2>2. /\ rec'[q] = [rec[q] EXCEPT !.left = Age(rec[q].left)]
        /\ rows'[q] = [rows[q] EXCEPT !.left = Age(rows[q].left)]
    BY <1>1
  <2>3. Alike(rec[q], [rec[q] EXCEPT !.left = Age(rec[q].left)])
    BY <2>1, AgedRecordFields
  <2>4. rec'[q].left = Age(rec[q].left)
    BY <2>1, <2>2, AgedRecord
  <2>5. /\ rows'[q].status = rows[q].status /\ rows'[q].owner = rows[q].owner
        /\ rows'[q].cancel = rows[q].cancel
    BY <2>1, <2>2, AgedRowFields
  <2>6. Alike(rec[q], rec'[q])
    BY <2>2, <2>3
  <2> QED BY <2>1, <2>4, <2>5, <2>6
<1>3. ASSUME NEW w \in Workers
      PROVE  /\ adm'[w].left = Age(adm[w].left) /\ adm[w].left \in Left
             /\ adm'[w].ph = adm[w].ph /\ adm'[w].res = adm[w].res
             /\ adm'[w].run = adm[w].run /\ adm'[w].cands = adm[w].cands
             /\ adm'[w].claimed = adm[w].claimed /\ adm'[w].strategy = adm[w].strategy
  <2>1. adm[w] \in Admission
    BY <1>1 DEF TypeOK
  <2>2. adm'[w] = [adm[w] EXCEPT !.left = Age(adm[w].left)]
    BY <1>1
  <2>3. adm[w].left \in Left
    BY <2>1 DEF Admission
  <2>4. /\ adm'[w].left = Age(adm[w].left)
        /\ adm'[w].ph = adm[w].ph /\ adm'[w].res = adm[w].res
        /\ adm'[w].run = adm[w].run /\ adm'[w].cands = adm[w].cands
        /\ adm'[w].claimed = adm[w].claimed /\ adm'[w].strategy = adm[w].strategy
    BY <2>1, <2>2, AgedAdmission
  <2> QED BY <2>3, <2>4
<1>4. ASSUME NEW q \in Runs PROVE RunOutcome(q)' /\ Durable(q)'
  <2>1. RunOutcome(q) /\ Durable(q)
    BY OutcomeFacts
  <2>2. \A v \in Workers : q \in adm'[v].run => q \in adm[v].run \/ ~Told(q)
    BY <1>3
  <2>3. rows[q].status = "absent" => rows'[q].cancel = "none"
    BY <1>2, <2>1 DEF RunOutcome, CallsAgree
  <2>4. ASSUME AnswersArrive PROVE AdmissionsAlike(q)
    <3>1. BusyHolds(q) /\ (rec[q].live => rec[q].home \in Workers)
      BY <2>1, <2>4 DEF Durable, RunOutcome, BusyIsUndecided
    <3>2. \A v \in Workers : Claims(v, q)' => Claims(v, q)
      BY <1>3 DEF Claims
    <3>3. Busy(rec[q]) => rec[q].live
      BY DEF Busy
    <3>4. rec[q].live /\ rec[q].pc = "put" /\ tcall[q].ph = "sent" => rec'[q].left >= -Slack
      <4>1. SUFFICES ASSUME rec[q].live, rec[q].pc = "put", tcall[q].ph = "sent"
                     PROVE  rec'[q].left >= -Slack
        OBVIOUS
      <4>2. CallsMatch(q) /\ MayTick(q)
        BY <1>1, OutcomeFacts DEF RunInvariant
      <4>3. rec[q].left > -Slack
        BY <4>1, <4>2, StatusNames DEF CallsMatch, MayTick
      <4>4. /\ rec[q].left \in Int /\ Slack \in Nat /\ Grace \in Nat /\ Slack <= Grace
            /\ Floor = -(Grace + 1)
        BY <1>2, LeftType, OwnershipAssumption, StoreAssumption
           DEF OwnershipAssumption, StoreAssumption
      <4>5. rec[q].left > Floor
        BY <4>3, <4>4
      <4>6. Age(rec[q].left) = rec[q].left - 1
        BY <1>2, <4>5, AgeType
      <4> QED BY <1>2, <4>3, <4>4, <4>6
    <3>5. ASSUME rec[q].live
          PROVE  LET w == rec[q].home
                 IN  /\ adm'[w].ph = adm[w].ph /\ adm'[w].res = adm[w].res
                     /\ adm'[w].cands = adm[w].cands /\ adm'[w].claimed = adm[w].claimed
                     /\ adm'[w].strategy = adm[w].strategy
      BY <1>3, <3>1, <3>5
    <3>6. Busy(rec[q]) /\ Claims(rec[q].home, q) =>
            /\ adm'[rec[q].home].ph = "done" /\ adm'[rec[q].home].res = "ok"
            /\ q \in adm'[rec[q].home].cands \cap adm'[rec[q].home].claimed
      BY <3>3, <3>5 DEF Claims
    <3>7. Busy(rec[q]) /\ adm'[rec[q].home].ph # "idle" /\ adm'[rec[q].home].strategy # "reject"
            => q \in adm'[rec[q].home].cands
      BY <3>1, <3>3, <3>5 DEF BusyHolds
    <3>8. rec[q].live /\ rec[q].pc = "put" => adm'[rec[q].home].ph = "idle"
      BY <3>1, <3>5 DEF BusyHolds
    <3> QED BY <3>2, <3>4, <3>6, <3>7, <3>8 DEF AdmissionsAlike
  <2> QED BY <1>1, <1>2, <2>1, <2>2, <2>3, <2>4, AlikeOutcome
<1>5. ASSUME AnswersArrive, NEW w \in Workers PROVE AdmissionHolds(w)'
  <2>1. AdmissionHolds(w) /\ adm[w].run \subseteq Runs
    BY <1>1, <1>5 DEF OutcomeInvariant, TypeOK, Admission
  <2>2. adm[w].left < -Grace => adm'[w].left < -Grace
    <3>1. adm[w].left \in Int /\ Grace \in Nat /\ Floor = -(Grace + 1)
      BY <1>3, LeftType, StoreAssumption DEF StoreAssumption
    <3>2. Age(adm[w].left) = adm[w].left - 1 \/ Age(adm[w].left) = Floor
      BY <3>1 DEF Age
    <3>3. ASSUME NEW l \in Int, l < -Grace PROVE l - 1 < -Grace
      BY <3>1, <3>3
    <3>4. Floor < -Grace
      BY <3>1
    <3> QED BY <1>3, <3>1, <3>2, <3>3, <3>4
  <2>3. \A q \in adm[w].run : rows'[q].status = rows[q].status /\ rows'[q].owner = rows[q].owner
    BY <1>2, <2>1
  <2> QED BY <1>3, <2>1, <2>2, <2>3 DEF AdmissionHolds
<1>6. CancelExcludesSuccess'
  BY <1>2 DEF OutcomeInvariant, CancelExcludesSuccess
<1> QED BY <1>4, <1>5, <1>6, EachOutcome

(* A step that changes nothing preserves OutcomeInvariant.                   *)
LEMMA StutterOutcome ==
    ASSUME OutcomeInvariant, FenceInvariant', OneActiveRow', UNCHANGED vars PROVE OutcomeInvariant'
<1>1. ASSUME NEW q \in Runs PROVE RunOutcome(q)' /\ Durable(q)'
  <2>1. RunOutcome(q) /\ Durable(q)
    BY OutcomeFacts
  <2> QED BY <2>1, SameOutcome DEF vars
<1>2. ASSUME AnswersArrive, NEW w \in Workers PROVE AdmissionHolds(w)'
  BY <1>2 DEF vars, OutcomeInvariant, AdmissionHolds
<1>3. CancelExcludesSuccess'
  BY DEF vars, OutcomeInvariant, CancelExcludesSuccess
<1> QED BY <1>1, <1>2, <1>3, EachOutcome

(* The initial states satisfy OutcomeInvariant.                              *)
LEMMA InitOutcome == Init => OutcomeInvariant
<1> SUFFICES ASSUME Init PROVE OutcomeInvariant
  OBVIOUS
<1>1. FenceInvariant
  BY InitInvariant
<1>2. /\ \A q \in Runs : /\ rows[q] = AbsentRow /\ rec[q] = NoRecord /\ tcall[q] = NoCall
                         /\ ccall[q] = NoCall /\ published[q] = "absent" /\ q \notin ended
      /\ \A w \in Workers : adm[w] = NoAdmission
  BY DEF Init
<1>3. /\ AbsentRow.status = "absent" /\ AbsentRow.cancel = "none"
      /\ ~NoRecord.live /\ NoRecord.pc = "none"
      /\ NoCall.ph = "idle" /\ NoCall.op = "none"
  BY DEF AbsentRow, NoRecord, NoCall
<1>4. OneActiveRow /\ CancelExcludesSuccess /\ PublishedIsDurable
  BY <1>2, <1>3, StatusNames DEF OneActiveRow, CancelExcludesSuccess, PublishedIsDurable
<1>5. ASSUME NEW q \in Runs PROVE RunOutcome(q) /\ ProofIsDurable(q) /\ BusyHolds(q)
  <2>1. ~rec[q].live /\ ~Busy(rec[q]) /\ ~Told(q)
    BY <1>2, <1>3 DEF Busy, Told
  <2>2. tcall[q].ph = "idle" /\ tcall[q].op = "none" /\ ccall[q].op = "none"
        /\ rows[q].cancel = "none" /\ rec[q].pc = "none"
    BY <1>2, <1>3
  <2> QED BY <2>1, <2>2 DEF RunOutcome, BusyIsUndecided, ToldIsOver, CallsAgree,
                            ProofIsDurable, BusyHolds
<1>6. ASSUME NEW w \in Workers PROVE AdmissionHolds(w)
  BY <1>2, IdleAdmission DEF AdmissionHolds
<1> QED BY <1>1, <1>4, <1>5, <1>6 DEF OutcomeInvariant

(* An answer of the store to the admission of worker w does not concern a run *)
(* that it does not claim.                                                   *)
LEMMA AnsweredAlike ==
    ASSUME AnswersArrive, NEW q \in Runs, RunOutcome(q), Durable(q), NEW w \in Workers,
           adm[w].ph = "sent", adm'[w].cands = adm[w].cands, q \notin adm'[w].claimed,
           adm'[w].strategy = adm[w].strategy,
           \A v \in Workers : v # w => adm'[v] = adm[v], rec' = rec
    PROVE  AdmissionsAlike(q)
<1>1. BusyHolds(q) /\ (rec[q].live => rec[q].home \in Workers)
  BY DEF Durable, RunOutcome, BusyIsUndecided
<1>2. \A v \in Workers : Claims(v, q)' => Claims(v, q)
  BY DEF Claims
<1>3. Busy(rec[q]) => rec[q].live
  BY DEF Busy
<1>4. rec[q].live /\ rec[q].home # w => adm'[rec[q].home] = adm[rec[q].home]
  BY <1>1
<1>5. Busy(rec[q]) /\ Claims(rec[q].home, q) =>
        /\ adm'[rec[q].home].ph = "done" /\ adm'[rec[q].home].res = "ok"
        /\ q \in adm'[rec[q].home].cands \cap adm'[rec[q].home].claimed
  BY <1>3, <1>4 DEF Claims
<1>6. Busy(rec[q]) /\ adm'[rec[q].home].ph # "idle" /\ adm'[rec[q].home].strategy # "reject"
        => q \in adm'[rec[q].home].cands
  BY <1>1, <1>3, <1>4 DEF BusyHolds
<1>7. rec[q].live /\ rec[q].pc = "put" => adm'[rec[q].home].ph = "idle"
  BY <1>1, <1>4 DEF BusyHolds
<1>8. rec[q].live /\ rec[q].pc = "put" /\ tcall[q].ph = "sent" => rec'[q].left >= -Slack
  BY <1>1 DEF BusyHolds
<1> QED BY <1>2, <1>5, <1>6, <1>7, <1>8 DEF AdmissionsAlike

(* An admission that the store refuses, or that raises, changes no outcome.  *)
LEMMA RefusedOutcome ==
    ASSUME OutcomeInvariant, FenceInvariant', OneActiveRow', NEW w \in Workers,
           adm[w].ph = "sent", NEW res \in {"no", "exc"},
           adm' = [adm EXCEPT ![w] = Answered(adm[w], res, {})],
           UNCHANGED <<rows, rec, tcall, ccall, published, ended>>
    PROVE  OutcomeInvariant'
<1> DEFINE a == Answered(adm[w], res, {})
<1>1. TypeOK /\ adm[w] \in Admission
  BY DEF OutcomeInvariant, FenceInvariant, TypeOK
<1>2. /\ a.ph = "done" /\ a.res = res /\ a.claimed = {} /\ a.run = adm[w].run
      /\ a.cands = adm[w].cands /\ a.strategy = adm[w].strategy
  BY <1>1, AnsweredFacts
<1>3. adm'[w] = a /\ \A v \in Workers : v # w => adm'[v] = adm[v]
  BY <1>1 DEF TypeOK
<1> HIDE DEF a
<1>4. ASSUME NEW q \in Runs PROVE RunOutcome(q)' /\ Durable(q)'
  <2>1. RunOutcome(q) /\ Durable(q)
    BY OutcomeFacts
  <2>2. \A v \in Workers : q \in adm'[v].run => q \in adm[v].run \/ ~Told(q)
    BY <1>2, <1>3
  <2>3. rows[q].status = "absent" => rows'[q].cancel = "none"
    BY <2>1 DEF RunOutcome, CallsAgree
  <2>4. AnswersArrive => AdmissionsAlike(q)
    BY <1>2, <1>3, <2>1, AnsweredAlike
  <2>5. Alike(rec[q], rec'[q])
    BY DEF Alike
  <2> QED BY <2>1, <2>2, <2>3, <2>4, <2>5, AlikeOutcome
<1>5. ASSUME AnswersArrive, NEW v \in Workers PROVE AdmissionHolds(v)'
  <2>1. AdmissionHolds(v)
    BY <1>5 DEF OutcomeInvariant
  <2> QED BY <1>2, <1>3, <2>1 DEF AdmissionHolds
<1>6. CancelExcludesSuccess'
  BY DEF OutcomeInvariant, CancelExcludesSuccess
<1> QED BY <1>4, <1>5, <1>6, EachOutcome

(* A run whose row is claimed is told by its own worker's admission, unless   *)
(* it is not busy any more.                                                  *)
LEMMA ClaimedOutcome ==
    ASSUME OutcomeInvariant, FenceInvariant', NEW w \in Workers, adm[w].ph = "sent",
           NEW q \in Runs, rec[q].live, rows[q].status \in Active,
           CreateOk(rows, w, adm[w].strategy),
           rows'[q].status = "interrupted",
           adm'[w].ph = "done", adm'[w].res = "ok" \/ StoreFaults, q \in adm'[w].claimed,
           adm'[w].run = adm[w].run, adm'[w].cands = adm[w].cands,
           adm'[w].strategy = adm[w].strategy,
           \A v \in Workers : v # w => adm'[v] = adm[v],
           UNCHANGED <<rec, tcall, ccall, published, ended>>
    PROVE  RunOutcome(q)' /\ Durable(q)'
<1>1. RunOutcome(q) /\ Durable(q) /\ RunInvariant(q) /\ FenceInvariant
  BY OutcomeFacts
<1>2. ~Told(q)
  BY NotTold, StatusNames
<1>3. adm[w].strategy # "reject" /\ (rows[q].owner = w \/ LeaseExpired(rows[q]))
  BY DEF CreateOk, ActiveRows
<1>4. BusyIsUndecided(q)'
  BY <1>1 DEF RunOutcome, BusyIsUndecided
<1>5. ToldIsOver(q)'
  BY <1>1, <1>2 DEF RunOutcome, ToldIsOver, Told
<1>6. CallsAgree(q)'
  BY <1>1, StatusNames DEF RunOutcome, CallsAgree
<1>7. ASSUME AnswersArrive
      PROVE  /\ published'[q] # "absent" => rows'[q].status = published'[q]
             /\ ProofIsDurable(q)' /\ BusyHolds(q)'
  <2>1. ProofIsDurable(q) /\ BusyHolds(q) /\ AdmissionHolds(w) /\ (rec[q].live => rec[q].home \in Workers)
    BY <1>1, <1>7 DEF Durable, OutcomeInvariant, RunOutcome, BusyIsUndecided
  <2>2. ~StoreFaults
    BY <1>3, <1>7, <2>1 DEF AdmissionHolds, AnswersArrive
  <2>3. adm'[w].res = "ok"
    BY <2>2
  <2>4. published'[q] = "absent"
    BY <1>2 DEF Told
  <2>5. rec[q].proof = NoOutcome
    BY <1>1 DEF RunInvariant, ProofMeansClosed
  <2>6. ProofIsDurable(q)'
    BY <2>1, <2>5 DEF ProofIsDurable, Amended
  <2>7. Busy(rec[q]) => rec[q].home = w /\ q \in adm[w].cands
    <3>1. SUFFICES ASSUME Busy(rec[q]) PROVE rec[q].home = w /\ q \in adm[w].cands
      OBVIOUS
    <3>2. rec[q].live /\ ~rec[q].lost
      BY <3>1 DEF Busy
    <3>3. rows[q].owner = w
      BY <1>1, <1>3, <2>5, <3>2, LeaseProtects
    <3>4. ~Claims(rec[q].home, q)
      BY <1>1, <2>1 DEF FenceInvariant, AdmissionIsFresh, Claims
    <3>5. rec[q].home = w
      BY <2>1, <3>1, <3>3, <3>4 DEF BusyHolds, Holds
    <3> QED BY <1>3, <2>1, <3>1, <3>5 DEF BusyHolds
  <2>8. rec[q].pc = "put" => rec[q].home # w
    BY <2>1 DEF BusyHolds
  <2>9. ~(rec[q].pc = "put" /\ tcall[q].ph = "sent")
    <3>1. SUFFICES ASSUME rec[q].pc = "put", tcall[q].ph = "sent" PROVE FALSE
      OBVIOUS
    <3>2. rec[q].left >= -Slack /\ rows[q].owner = rec[q].home
      BY <2>1, <3>1 DEF BusyHolds, Holds
    <3> QED BY <1>1, <1>3, <2>8, <3>1, <3>2, LeaseProtects
  <2>10. BusyHolds(q)'
    <3>1. Busy(rec[q]) => Claims(rec[q].home, q)'
      BY <2>3, <2>7 DEF Claims
    <3>2. Busy(rec[q]) => q \in adm'[rec[q].home].cands
      BY <2>7
    <3>3. rec[q].pc = "put" => adm'[rec[q].home].ph = "idle"
      BY <2>1, <2>8 DEF BusyHolds
    <3> QED BY <2>9, <3>1, <3>2, <3>3 DEF BusyHolds
  <2> QED BY <2>4, <2>6, <2>10
<1>8. AnswersArrive' => AnswersArrive
  BY DEF AnswersArrive, StoreFaults
<1> QED BY <1>4, <1>5, <1>6, <1>7, <1>8 DEF RunOutcome, Durable

(* AdmitStore preserves OutcomeInvariant.                                    *)
LEMMA AdmitStoreOutcome ==
    ASSUME OutcomeInvariant, FenceInvariant', OneActiveRow', NEW w \in Workers, AdmitStore(w)
    PROVE  OutcomeInvariant'
<1>1. /\ TypeOK /\ adm[w] \in Admission /\ adm[w].ph = "sent" /\ AdmissionIsFresh(w)
      /\ UNCHANGED <<rec, tcall, ccall, published, ended>>
  BY DEF OutcomeInvariant, FenceInvariant, TypeOK, AdmitStore
<1>2. adm[w].run \subseteq Runs /\ adm[w].left \in Left /\ ActiveRows(rows) \in SUBSET Runs
  BY <1>1 DEF Admission, ActiveRows
<1>3. PICK r \in adm[w].run :
         \/ /\ CreateOk(rows, w, adm[w].strategy)
            /\ rows' = CreateThreadOperation(rows, r, w, adm[w].left)
            /\ \E res \in {"ok", "exc"} :
                 /\ res = "ok" \/ StoreFaults
                 /\ adm' = [adm EXCEPT ![w] = Answered(adm[w], res, ActiveRows(rows))]
         \/ /\ \E res \in {"no", "exc"} : adm' = [adm EXCEPT ![w] = Answered(adm[w], res, {})]
            /\ UNCHANGED rows
  BY <1>1 DEF AdmitStore, TypeOK
<1>4. CASE /\ \E res \in {"no", "exc"} : adm' = [adm EXCEPT ![w] = Answered(adm[w], res, {})]
           /\ UNCHANGED rows
  BY <1>1, <1>4, RefusedOutcome
<1>5. CASE /\ CreateOk(rows, w, adm[w].strategy)
           /\ rows' = CreateThreadOperation(rows, r, w, adm[w].left)
           /\ \E res \in {"ok", "exc"} :
                /\ res = "ok" \/ StoreFaults
                /\ adm' = [adm EXCEPT ![w] = Answered(adm[w], res, ActiveRows(rows))]
  <2>1. PICK res \in {"ok", "exc"} :
          /\ res = "ok" \/ StoreFaults
          /\ adm' = [adm EXCEPT ![w] = Answered(adm[w], res, ActiveRows(rows))]
    BY <1>5
  <2> DEFINE a == Answered(adm[w], res, ActiveRows(rows))
  <2>2. /\ a.ph = "done" /\ a.res = res /\ a.claimed = ActiveRows(rows) /\ a.run = adm[w].run
        /\ a.cands = adm[w].cands /\ a.left = adm[w].left /\ a.strategy = adm[w].strategy
    BY <1>1, <1>2, AnsweredFacts
  <2>3. adm'[w] = a /\ \A v \in Workers : v # w => adm'[v] = adm[v]
    BY <1>1, <2>1 DEF TypeOK
  <2> HIDE DEF a
  <2>4. /\ r \in Runs /\ \A q \in adm[w].run : q = r
        /\ rows[r].status = "absent" /\ ~rec[r].live /\ r \notin ActiveRows(rows)
    BY <1>1, <1>2, StatusNames DEF AdmissionIsFresh, ActiveRows
  <2>5. rows'[r].status = "pending" /\ rows'[r].owner = w /\ rows'[r].cancel = "none"
    BY Zenon, <1>5, <2>4 DEF CreateThreadOperation
  <2>6. ASSUME NEW q \in ActiveRows(rows)
        PROVE  /\ q \in Runs /\ rows'[q].status = "interrupted" /\ rows'[q].owner = w
               /\ rows[q].status \in Active
    <3>1. q \in Runs /\ q # r /\ rows[q] \in Row /\ rows[q].status \in Active
      BY <1>1, <2>4 DEF ActiveRows, TypeOK
    <3>2. rows'[q] = [rows[q] EXCEPT !.status = "interrupted", !.owner = w]
      BY Zenon, <1>5, <3>1 DEF CreateThreadOperation
    <3> QED BY <3>1, <3>2 DEF Row
  <2>7. ASSUME NEW q \in Runs, q # r, q \notin ActiveRows(rows)
        PROVE  rows'[q] = rows[q]
    BY Zenon, <1>5, <2>7 DEF CreateThreadOperation
  <2>8. ASSUME NEW q \in Runs PROVE RunOutcome(q)' /\ Durable(q)'
    <3>1. RunOutcome(q) /\ Durable(q)
      BY OutcomeFacts
    <3>2. \A v \in Workers : q \in adm'[v].run => q \in adm[v].run \/ ~Told(q)
      BY <2>2, <2>3
    <3>3. rows'[q].status = "absent" => rows'[q].cancel = "none"
      BY <2>5, <2>6, <2>7, <3>1, StatusNames DEF RunOutcome, CallsAgree
    <3>4. rows'[q].status = rows[q].status \/ ~Told(q)
      <4>1. CASE q = r \/ q \in ActiveRows(rows)
        BY <2>4, <2>6, <4>1, NotTold, StatusNames
      <4>2. CASE q # r /\ q \notin ActiveRows(rows)
        BY <2>7, <4>2
      <4> QED BY <4>1, <4>2
    <3>5. CASE ~rec[q].live
      BY <1>1, <3>1, <3>2, <3>3, <3>4, <3>5, DeadOutcome
    <3>6. CASE rec[q].live /\ q \in ActiveRows(rows)
      BY <1>1, <1>5, <2>1, <2>2, <2>3, <2>6, <3>6, ClaimedOutcome
    <3>7. CASE rec[q].live /\ q \notin ActiveRows(rows)
      <4>1. rows'[q] = rows[q]
        BY <2>4, <2>7, <3>7
      <4>2. AnswersArrive => AdmissionsAlike(q)
        BY <1>1, <2>2, <2>3, <3>1, <3>7, AnsweredAlike
      <4>3. Alike(rec[q], rec'[q])
        BY <1>1 DEF Alike
      <4> QED BY <1>1, <3>1, <3>2, <3>3, <4>1, <4>2, <4>3, AlikeOutcome
    <3> QED BY <3>5, <3>6, <3>7
  <2>9. ASSUME AnswersArrive, NEW v \in Workers PROVE AdmissionHolds(v)'
    <3>1. AdmissionHolds(v) /\ FenceInvariant /\ OneActiveRow /\ adm[v].run \subseteq Runs
      BY <1>1, <2>9 DEF OutcomeInvariant, TypeOK, Admission
    <3>2. CASE v = w
      <4>1. \A p, q \in ActiveRows(rows) : p = q
        BY <3>1 DEF OneActiveRow, ActiveRows
      <4>2. \A q \in a.run : rows'[q].status \in Active /\ rows'[q].owner = w
        BY <2>2, <2>4, <2>5, StatusNames
      <4>3. a.strategy \in Strategies
        BY <1>1, <2>2, <3>1, <3>2 DEF AdmissionHolds
      <4> QED BY <2>2, <2>3, <3>2, <4>1, <4>2, <4>3 DEF AdmissionHolds
    <3>3. CASE v # w
      <4>1. ASSUME adm[v].ph = "done", adm[v].res = "ok", NEW q \in adm[v].run
            PROVE  adm[v].left < -Grace \/ (rows'[q].status \in Active /\ rows'[q].owner = v)
        <5>1. q \in Runs /\ q # r
          BY <1>1, <2>4, <3>1, <3>3 DEF AdmissionIsFresh
        <5>2. adm[v].left < -Grace \/ (rows[q].status \in Active /\ rows[q].owner = v)
          BY <3>1, <4>1 DEF AdmissionHolds
        <5>3. CASE q \notin ActiveRows(rows)
          BY <2>7, <5>1, <5>2, <5>3
        <5>4. CASE q \in ActiveRows(rows) /\ rows[q].owner = v
          <6>1. rows[q].left < -Grace
            BY <1>5, <3>3, <5>4 DEF CreateOk, LeaseExpired
          <6>2. rows[q].left >= adm[v].left
            BY <3>1, <4>1, <5>1, AdmissionOf
          <6>3. rows[q].left \in Int /\ adm[v].left \in Int /\ Grace \in Nat
            <7>1. rows[q].left \in Left /\ adm[v].left \in Left
              BY <1>1, <5>1 DEF TypeOK, Row, Admission
            <7> QED BY <7>1, LeftType, StoreAssumption DEF StoreAssumption
          <6> QED BY <6>1, <6>2, <6>3
        <5> QED BY <5>2, <5>3, <5>4
      <4> QED BY <2>3, <3>1, <3>3, <4>1 DEF AdmissionHolds
    <3> QED BY <3>2, <3>3
  <2>10. CancelExcludesSuccess'
    <3>1. ASSUME NEW q \in Runs PROVE rows'[q].cancel # "none" => rows'[q].status # "success"
      <4>1. CASE q = r
        BY <2>5, <4>1
      <4>2. CASE q \in ActiveRows(rows)
        BY <2>6, <4>2
      <4>3. CASE q # r /\ q \notin ActiveRows(rows)
        BY <2>7, <4>3 DEF OutcomeInvariant, CancelExcludesSuccess
      <4> QED BY <4>1, <4>2, <4>3
    <3> QED BY <3>1 DEF CancelExcludesSuccess
  <2> QED BY <2>8, <2>9, <2>10, EachOutcome
<1> QED BY <1>3, <1>4, <1>5

(* What a record is registered with while its lease runs.                    *)
LEMMA NewRecordFields ==
    ASSUME NEW w \in Workers, NEW l \in Left, l > 0
    PROVE  LET b == NewRecord(w, l)
           IN  b.status = "pending" /\ ~b.saved
<1> DEFINE a == [NoRecord EXCEPT !.live = TRUE, !.home = w, !.left = l, !.armed = TRUE]
<1>1. NewRecord(w, l) = a
  BY DEF NewRecord
<1>2. NoRecord.status = "pending" /\ ~NoRecord.saved
  BY DEF NoRecord
<1>3. a.status = NoRecord.status
  OBVIOUS
<1>4. a.saved = NoRecord.saved
  OBVIOUS
<1> HIDE DEF a
<1> QED BY <1>1, <1>2, <1>3, <1>4

(* A registered run is busy only while its lease runs, and then its row is    *)
(* the active one.                                                           *)
LEMMA RegisteredOutcome ==
    ASSUME OutcomeInvariant, NEW w \in Workers, NEW r \in adm[w].run,
           adm[w].ph = "done", adm[w].res = "ok",
           rec'[r] = NewRecord(w, adm[w].left),
           adm'[w] = NoAdmission, \A v \in Workers : v # w => adm'[v] = adm[v],
           UNCHANGED <<rows, tcall, ccall, published, ended>>
    PROVE  RunOutcome(r)' /\ Durable(r)'
<1> DEFINE l == adm[w].left
           b == NewRecord(w, l)
<1>1. /\ FenceInvariant /\ adm[w] \in Admission /\ AdmissionIsFresh(w)
      /\ l \in Left /\ r \in Runs
  BY OutcomeFacts DEF OutcomeInvariant, FenceInvariant, TypeOK, Admission
<1>2. RunOutcome(r) /\ Durable(r) /\ CallsMatch(r) /\ ~rec[r].live /\ ~Told(r)
  BY <1>1, OutcomeFacts, NotTold DEF AdmissionIsFresh, RunInvariant
<1>3. /\ b.live /\ b.home = w /\ b.proof = NoOutcome /\ b.pc = "none"
      /\ l <= 0 => b.lost
  BY <1>1, NewRecordFacts
<1>4. l \in Int /\ Grace \in Nat /\ (l > 0 \/ l <= 0)
  <2>1. l \in Int /\ Grace \in Nat
    BY <1>1, LeftType, StoreAssumption DEF StoreAssumption
  <2> QED BY <2>1
<1>5. ~b.lost => l > 0 /\ b.status = "pending" /\ ~b.saved
  BY <1>1, <1>3, <1>4, NewRecordFields
<1>6. rec'[r] = b
  OBVIOUS
<1> HIDE DEF b
<1>7. tcall[r].ph = "idle" /\ ccall[r].op # "update"
  BY <1>2 DEF CallsMatch
<1>8. "pending" \in Active /\ "none" # "put" /\ "none" # "start"
  BY StatusNames
<1>9. BusyIsUndecided(r)'
  BY <1>3, <1>5, <1>6, <1>7, <1>8 DEF BusyIsUndecided, Busy
<1>10. ToldIsOver(r)'
  BY <1>2, <1>5, <1>6 DEF ToldIsOver, Told
<1>11. CallsAgree(r)'
  BY <1>2, <1>7 DEF RunOutcome, CallsAgree
<1>12. ProofIsDurable(r)'
  <2>1. ASSUME NEW v \in Workers PROVE ~Claims(v, r)'
    <3>1. r \notin adm[v].cands
      BY <1>1, <1>2 DEF FenceInvariant, AdmissionIsFresh
    <3> QED BY <3>1, IdleAdmission DEF Claims
  <2> QED BY <1>3, <1>6, <1>7, <2>1 DEF ProofIsDurable
<1>13. ASSUME AnswersArrive PROVE BusyHolds(r)'
  <2>1. l > 0 => ~(l < -Grace)
    BY <1>4
  <2>2. ~b.lost => rows[r].status \in Active /\ rows[r].owner = w
    BY <1>5, <1>13, <2>1 DEF OutcomeInvariant, AdmissionHolds
  <2>3. Busy(b) => Holds(r)'
    BY <1>3, <1>6, <2>2 DEF Busy, Holds
  <2>4. adm'[b.home].ph = "idle"
    BY <1>3, IdleAdmission
  <2> QED BY <1>3, <1>6, <1>8, <2>3, <2>4 DEF BusyHolds
<1>14. AnswersArrive' => AnswersArrive
  BY DEF AnswersArrive, StoreFaults
<1> QED BY <1>2, <1>9, <1>10, <1>11, <1>12, <1>13, <1>14 DEF RunOutcome, Durable

(* A superseded run is aborted and takes the interrupted row for its proof,   *)
(* unless it had a final one or was fenced.                                  *)
LEMMA SupersededFields ==
    ASSUME NEW a \in Record, a.live, NEW action \in Actions,
           a.proof = NoOutcome \/ a.proof.status \in Terminal
    PROVE  LET b == Superseded(a, action)
           IN  \/ b = a /\ (a.lost \/ a.proof.status \in Final)
               \/ /\ ~a.lost /\ a.proof.status \notin Final
                  /\ b.live = a.live /\ b.home = a.home /\ b.lost = a.lost /\ b.pc = a.pc
                  /\ b.rev = a.rev /\ b.abort # "none" /\ b.status = "interrupted"
                  /\ b.proof # NoOutcome /\ b.proof.status = "interrupted"
<1> DEFINE rb == action = "rollback" /\ TaskActive(a)
           out == [status |-> "interrupted", err |-> "superseded"]
           x == [a EXCEPT !.rollback = rb]
           y == Acknowledge(x, out, a.rev)
           fi == TaskActive(a)
           b == [y EXCEPT !.abort = action, !.finalizing = fi]
<1>1. CASE a.lost \/ a.proof.status \in Final
  BY <1>1 DEF Superseded, Final
<1>2. CASE ~(a.lost \/ a.proof.status \in Final)
  <2>1. Superseded(a, action) = b
    BY <1>2, Zenon DEF Superseded, Final
  <2>2. /\ rb \in BOOLEAN /\ fi \in BOOLEAN /\ out \in Outcomes /\ action # "none"
        /\ out.status = "interrupted" /\ out # NoOutcome
    <3>1. rb \in BOOLEAN /\ fi \in BOOLEAN
      BY DEF TaskActive
    <3>2. out \in Outcomes /\ action # "none" /\ out.status = "interrupted"
      BY StatusNames DEF Outcomes, Errors
    <3> QED BY <3>1, <3>2, Constants
  <2> HIDE DEF rb, fi, out
  <2>3. x \in Record
    BY <2>2, Zenon DEF Record
  <2>4. /\ x.home = a.home /\ x.proof = a.proof /\ x.pc = a.pc /\ x.rev = a.rev
    OBVIOUS
  <2>5. x.live = a.live
    BY <2>2, Zenon DEF Record
  <2>6. x.lost = a.lost
    OBVIOUS
  <2> HIDE DEF x
  <2>7. x.live /\ ~x.lost
    BY <1>2, <2>5, <2>6
  <2> DEFINE proof == IF x.proof = NoOutcome \/ x.proof.status = "interrupted"
                         \/ out.status # "interrupted"
                      THEN out ELSE x.proof
  <2>8. proof = out
    BY <1>2, <2>4 DEF Final, Terminal
  <2>9. y.proof = proof
    BY <2>2, <2>3, <2>7, AckFields
  <2>10. y.status = IF proof.status # "interrupted" \/ x.rev = a.rev THEN proof.status ELSE x.status
    BY <2>2, <2>3, <2>7, AckFields
  <2>11. y.home = x.home /\ y.pc = x.pc /\ y.rev = x.rev
    BY <2>2, <2>3, <2>7, AckFields
  <2>12. y.lost = x.lost
    BY <2>2, <2>3, <2>7, AckFields
  <2>13. y.live = x.live
    BY <2>2, <2>3, <2>7, AckFields
  <2>14. y \in Record
    BY <2>2, <2>3, AcknowledgeType
  <2> HIDE DEF y, proof
  <2>15. b.abort = action
    BY <2>14, Zenon DEF Record
  <2>16. b.home = y.home /\ b.pc = y.pc /\ b.rev = y.rev /\ b.proof = y.proof /\ b.status = y.status
    OBVIOUS
  <2>17. b.live = y.live
    BY <2>2, <2>14, Zenon DEF Record
  <2>18. b.lost = y.lost
    OBVIOUS
  <2> HIDE DEF b
  <2>19. b.status = "interrupted" /\ b.proof # NoOutcome /\ b.proof.status = "interrupted"
    BY <2>2, <2>4, <2>8, <2>9, <2>10, <2>16
  <2>20. b.home = a.home /\ b.pc = a.pc /\ b.rev = a.rev /\ b.abort # "none"
    BY <2>2, <2>4, <2>11, <2>15, <2>16
  <2>21. b.live = a.live
    BY <2>5, <2>13, <2>17
  <2>22. b.lost = a.lost
    BY <2>6, <2>12, <2>18
  <2> QED BY <1>2, <2>1, <2>19, <2>20, <2>21, <2>22
<1> QED BY <1>1, <1>2

(* A superseded run takes over the outcome that its row has already.         *)
LEMMA SupersededOutcome ==
    ASSUME OutcomeInvariant, NEW w \in Workers, NEW q \in adm[w].cands \cap adm[w].claimed,
           adm[w].ph = "done", adm[w].res = "ok",
           rec'[q] = Superseded(rec[q], adm[w].strategy),
           adm'[w] = NoAdmission, \A v \in Workers : v # w => adm'[v] = adm[v],
           UNCHANGED <<rows, tcall, ccall, published, ended>>
    PROVE  RunOutcome(q)' /\ Durable(q)'
<1> DEFINE a == rec[q]
           b == Superseded(a, adm[w].strategy)
<1>1. /\ FenceInvariant /\ AdmissionIsFresh(w) /\ q \in Runs
      /\ adm[w].strategy \in Actions /\ a.live /\ a.home = w
  <2>1. FenceInvariant /\ AdmissionIsFresh(w) /\ adm[w] \in Admission
    BY DEF OutcomeInvariant, FenceInvariant, TypeOK
  <2> QED BY <2>1 DEF AdmissionIsFresh, Admission
<1>2. /\ RunOutcome(q) /\ Durable(q) /\ a \in Record
      /\ a.proof = NoOutcome \/ a.proof.status \in Terminal
      /\ a.pc # "put"
  BY <1>1, OutcomeFacts, RunFacts DEF RunInvariant, ProofMeansClosed, SnapshotIsAlone
<1>3. \A v \in Workers : q \in adm'[v].run => q \in adm[v].run
  BY IdleAdmission
<1>4. CASE rec'[q] = a /\ (a.lost \/ a.proof.status \in Final)
  <2>1. ~Busy(a)
    <3>1. NoOutcome.status \notin Final
      BY DEF NoOutcome, Final
    <3> QED BY <1>2, <1>4, <3>1 DEF Busy, RunOutcome, BusyIsUndecided
  <2>2. AdmissionsAlike(q)
    <3>1. \A v \in Workers : Claims(v, q)' => Claims(v, q)
      BY IdleAdmission DEF Claims
    <3> QED BY <1>2, <2>1, <3>1 DEF AdmissionsAlike
  <2>3. Alike(a, rec'[q])
    BY <1>4 DEF Alike
  <2>4. rows[q].status = "absent" => rows'[q].cancel = "none"
    BY <1>2 DEF RunOutcome, CallsAgree
  <2> QED BY <1>1, <1>2, <1>3, <2>2, <2>3, <2>4, AlikeOutcome
<1>5. CASE /\ ~a.lost /\ a.proof.status \notin Final
           /\ b.live = a.live /\ b.home = a.home /\ b.lost = a.lost /\ b.pc = a.pc
           /\ b.rev = a.rev /\ b.abort # "none" /\ b.status = "interrupted"
           /\ b.proof # NoOutcome /\ b.proof.status = "interrupted"
  <2>1. rec'[q] = b
    OBVIOUS
  <2> HIDE DEF b
  <2>2. BusyIsUndecided(q)'
    BY <1>2, <1>5, <2>1 DEF RunOutcome, BusyIsUndecided, Busy
  <2>3. ToldIsOver(q)'
    BY <1>2, <1>3, <1>5, <2>1 DEF RunOutcome, ToldIsOver, Told
  <2>4. CallsAgree(q)'
    BY <1>2, <1>5, <2>1 DEF RunOutcome, CallsAgree
  <2>5. ASSUME AnswersArrive PROVE ProofIsDurable(q)' /\ BusyHolds(q)'
    <3>1. ProofIsDurable(q) /\ adm[w].strategy \in Strategies
      BY <1>2, <2>5 DEF Durable, OutcomeInvariant, AdmissionHolds
    <3>2. ~StoreFaults
      BY <1>1, <2>5, <3>1 DEF AnswersArrive, Actions
    <3>3. Amended(q)
      BY <1>1, <1>5, <3>1 DEF ProofIsDurable, Claims
    <3>4. PendingError(q) => PendingError(q)'
      BY <3>2 DEF PendingError, StoreFaults
    <3>5. \/ rows[q].status = "interrupted"
          \/ rows[q].status = "error" /\ PendingError(q)'
      BY <1>5, <3>3, <3>4 DEF Amended, Final
    <3>6. Amended(q)'
      BY <3>5 DEF Amended
    <3>7. ProofIsDurable(q)'
      BY <1>5, <2>1, <3>2, <3>5, <3>6 DEF ProofIsDurable, StoreFaults
    <3>8. BusyHolds(q)'
      BY <1>2, <1>5, <2>1 DEF BusyHolds, Busy
    <3> QED BY <3>7, <3>8
  <2>6. AnswersArrive' => AnswersArrive
    BY DEF AnswersArrive, StoreFaults
  <2> QED BY <1>2, <2>2, <2>3, <2>4, <2>5, <2>6 DEF RunOutcome, Durable
<1> QED BY ZenonT(40), <1>1, <1>2, <1>4, <1>5, SupersededFields

(* The end of an admission does not concern a run it did not claim.          *)
LEMMA AckedAlike ==
    ASSUME AnswersArrive, NEW q \in Runs, RunOutcome(q), Durable(q), NEW w \in Workers,
           ~Claims(w, q), adm'[w] = NoAdmission,
           \A v \in Workers : v # w => adm'[v] = adm[v], rec'[q].left = rec[q].left
    PROVE  AdmissionsAlike(q)
<1>1. BusyHolds(q) /\ (rec[q].live => rec[q].home \in Workers)
  BY DEF Durable, RunOutcome, BusyIsUndecided
<1>2. \A v \in Workers : Claims(v, q)' => Claims(v, q)
  BY IdleAdmission DEF Claims
<1>3. Busy(rec[q]) => rec[q].live
  BY DEF Busy
<1>4. rec[q].live /\ rec[q].home # w => adm'[rec[q].home] = adm[rec[q].home]
  BY <1>1
<1>5. Busy(rec[q]) /\ Claims(rec[q].home, q) =>
        /\ adm'[rec[q].home].ph = "done" /\ adm'[rec[q].home].res = "ok"
        /\ q \in adm'[rec[q].home].cands \cap adm'[rec[q].home].claimed
  BY <1>3, <1>4 DEF Claims
<1>6. Busy(rec[q]) /\ adm'[rec[q].home].ph # "idle" /\ adm'[rec[q].home].strategy # "reject"
        => q \in adm'[rec[q].home].cands
  BY <1>1, <1>3, <1>4, IdleAdmission DEF BusyHolds
<1>7. rec[q].live /\ rec[q].pc = "put" => adm'[rec[q].home].ph = "idle"
  BY <1>1, <1>4, IdleAdmission DEF BusyHolds
<1>8. rec[q].live /\ rec[q].pc = "put" /\ tcall[q].ph = "sent" => rec'[q].left >= -Slack
  BY <1>1 DEF BusyHolds
<1> QED BY <1>2, <1>5, <1>6, <1>7, <1>8 DEF AdmissionsAlike

(* A candidate that was not claimed says the same as before.                 *)
LEMMA NotClaimedFields ==
    ASSUME NEW a \in Record, NEW was \in BOOLEAN, NEW attempting
    PROVE  LET b == NotClaimed(a, was, attempting)
           IN  Alike(a, b) /\ b.left = a.left
<1> DEFINE c == [a EXCEPT !.pending = was]
<1>1. /\ c.home = a.home /\ c.status = a.status /\ c.abort = a.abort
      /\ c.proof = a.proof /\ c.rev = a.rev /\ c.pc = a.pc /\ c.left = a.left
  OBVIOUS
<1>2. c.live = a.live
  OBVIOUS
<1>3. c.lost = a.lost
  OBVIOUS
<1>4. c.saved = a.saved
  OBVIOUS
<1>5. NotClaimed(a, was, attempting) \in {a, c}
  BY DEF NotClaimed
<1> HIDE DEF c
<1>6. Alike(a, c) /\ Alike(a, a)
  BY <1>1, <1>2, <1>3, <1>4 DEF Alike
<1> QED BY <1>1, <1>5, <1>6

(* AdmitAck preserves OutcomeInvariant.                                      *)
LEMMA AdmitAckOutcome ==
    ASSUME OutcomeInvariant, FenceInvariant', OneActiveRow', NEW w \in Workers, AdmitAck(w)
    PROVE  OutcomeInvariant'
<1> DEFINE ok == adm[w].res = "ok"
           sup(q) == Superseded(rec[q], adm[w].strategy)
           not(q) == NotClaimed(rec[q], q \in adm[w].was, TaskAttempt(q) \/ CancelAttempt(q))
<1>1. /\ TypeOK /\ adm[w].ph = "done" /\ adm[w] \in Admission
      /\ adm' = [adm EXCEPT ![w] = NoAdmission]
      /\ UNCHANGED <<rows, tcall, ccall, published, ended>>
  BY DEF OutcomeInvariant, FenceInvariant, TypeOK, AdmitAck
<1>2. PICK r \in adm[w].run :
        rec' = [q \in Runs |->
                  IF q = r /\ ok THEN NewRecord(w, adm[w].left)
                  ELSE IF q \in adm[w].cands
                  THEN IF ok /\ q \in adm[w].claimed THEN sup(q) ELSE not(q)
                  ELSE rec[q]]
  BY DEF AdmitAck
<1>3. adm'[w] = NoAdmission /\ \A v \in Workers : v # w => adm'[v] = adm[v]
  BY <1>1 DEF TypeOK
<1>4. r \in Runs
  BY <1>1 DEF Admission
<1>5. ASSUME NEW q \in Runs PROVE RunOutcome(q)' /\ Durable(q)'
  <2>1. RunOutcome(q) /\ Durable(q) /\ rec[q] \in Record
    BY OutcomeFacts, RunFacts
  <2>2. CASE q = r /\ ok
    <3>1. rec'[r] = NewRecord(w, adm[w].left)
      BY <1>2, <1>4, <2>2
    <3>2. RunOutcome(r)' /\ Durable(r)'
      BY <1>1, <1>3, <2>2, <3>1, RegisteredOutcome
    <3> QED BY <2>2, <3>2
  <2>3. CASE ~(q = r /\ ok) /\ q \in adm[w].cands \cap adm[w].claimed /\ ok
    <3>1. rec'[q] = Superseded(rec[q], adm[w].strategy)
      BY <1>2, <2>3
    <3> QED BY <1>1, <1>3, <2>3, <3>1, SupersededOutcome
  <2>4. CASE ~(q = r /\ ok) /\ ~(q \in adm[w].cands \cap adm[w].claimed /\ ok)
    <3>1. Alike(rec[q], rec'[q]) /\ rec'[q].left = rec[q].left
      <4>1. CASE q \in adm[w].cands
        <5> DEFINE was == q \in adm[w].was
                   attempting == TaskAttempt(q) \/ CancelAttempt(q)
        <5>1. rec'[q] = NotClaimed(rec[q], was, attempting)
          BY <1>2, <2>4, <4>1
        <5>2. was \in BOOLEAN
          OBVIOUS
        <5> HIDE DEF was, attempting
        <5> QED BY <2>1, <5>1, <5>2, NotClaimedFields
      <4>2. CASE q \notin adm[w].cands
        <5>1. rec'[q] = rec[q]
          BY <1>2, <2>4, <4>2
        <5> QED BY <5>1 DEF Alike
      <4> QED BY <4>1, <4>2
    <3>2. \A v \in Workers : q \in adm'[v].run => q \in adm[v].run \/ ~Told(q)
      BY <1>3, IdleAdmission
    <3>3. rows[q].status = "absent" => rows'[q].cancel = "none"
      BY <1>1, <2>1 DEF RunOutcome, CallsAgree
    <3>4. ~Claims(w, q)
      BY <2>4 DEF Claims
    <3>5. AnswersArrive => AdmissionsAlike(q)
      BY <1>3, <2>1, <3>1, <3>4, AckedAlike
    <3> QED BY <1>1, <2>1, <3>1, <3>2, <3>3, <3>5, AlikeOutcome
  <2> QED BY <2>2, <2>3, <2>4
<1>6. ASSUME AnswersArrive, NEW v \in Workers PROVE AdmissionHolds(v)'
  <2>1. AdmissionHolds(v)
    BY <1>6 DEF OutcomeInvariant
  <2> QED BY <1>1, <1>3, <2>1, IdleAdmission DEF AdmissionHolds
<1>7. CancelExcludesSuccess'
  BY <1>1 DEF OutcomeInvariant, CancelExcludesSuccess
<1> QED BY <1>5, <1>6, <1>7, EachOutcome

-----------------------------------------------------------------------------
(* The invariant.                                                            *)

(* Every step of a run's task preserves OutcomeInvariant.                    *)
LEMMA TaskStepOutcome ==
    ASSUME OutcomeInvariant, FenceInvariant', NEW r \in Runs, TaskStep(r) PROVE OutcomeInvariant'
BY MoveOutcome, StartCheckOutcome, StartAckOutcome, UnstartAckOutcome, PutBeginOutcome,
   PutAckOutcome, FinishOutcome, FencedOutcome, FinishCancellationOutcome, ReceiptLostOutcome,
   ArbitrateOutcome, PersistBeginOutcome, CommitAckOutcome, TailOutcome, SealOutcome,
   EndOutcome, EvictOutcome DEF TaskStep

(* Every step of a cancellation preserves OutcomeInvariant.                  *)
LEMMA CancelStepOutcome ==
    ASSUME OutcomeInvariant, FenceInvariant', OneActiveRow', NEW r \in Runs, CancelStep(r)
    PROVE  OutcomeInvariant'
BY CancelBeginOutcome, CancelApplyOutcome, CancelAckOutcome, RemoteCancelOutcome DEF CancelStep

(* Every heartbeat, timer and recovery step preserves OutcomeInvariant.      *)
LEMMA LeaseStepOutcome ==
    ASSUME OutcomeInvariant, FenceInvariant', OneActiveRow', NEW r \in Runs, LeaseStep(r)
    PROVE  OutcomeInvariant'
BY RenewBeginOutcome, RenewStoreOutcome, RenewAckOutcome, SignalOutcome, DeadlineOutcome,
   TakeoverOutcome DEF LeaseStep

(* OutcomeInvariant is inductive.                                            *)
LEMMA NextOutcome == OutcomeInvariant /\ [Next]_vars => OutcomeInvariant'
<1> SUFFICES ASSUME OutcomeInvariant, [Next]_vars PROVE OutcomeInvariant'
  OBVIOUS
<1>1. FenceInvariant /\ OneActiveRow
  BY DEF OutcomeInvariant
<1>2. FenceInvariant'
  BY <1>1, NextPreserves
<1>3. OneActiveRow'
  BY <1>1, ActiveSlot DEF OneActiveRow, Shrinks
<1>4. CASE UNCHANGED vars
  BY <1>2, <1>3, <1>4, StutterOutcome
<1>5. ASSUME NEW w \in Workers, NEW r \in Runs, NEW strategy \in Strategies, AdmitBegin(w, r, strategy)
      PROVE  OutcomeInvariant'
  BY <1>2, <1>3, <1>5, AdmitBeginOutcome
<1>6. ASSUME NEW w \in Workers, AdmitStore(w) \/ AdmitAck(w) \/ Crash(w) PROVE OutcomeInvariant'
  BY <1>2, <1>3, <1>6, AdmitStoreOutcome, AdmitAckOutcome, CrashOutcome
<1>7. ASSUME NEW r \in Runs,
             TaskStep(r) \/ CancelStep(r) \/ LeaseStep(r) \/ TaskStore(r) \/ CancelStore(r)
      PROVE  OutcomeInvariant'
  BY <1>2, <1>3, <1>7, TaskStepOutcome, CancelStepOutcome, LeaseStepOutcome, TaskStoreOutcome,
     CancelStoreOutcome
<1>8. CASE Tick
  BY <1>2, <1>3, <1>8, TickOutcome
<1> QED BY <1>4, <1>5, <1>6, <1>7, <1>8 DEF Next

(* The strengthened invariant about outcomes holds in every reachable state,  *)
(* for any number of workers and runs, any lease, grace and slack, and every  *)
(* fault: who may still decide a run (set_status, cancel, the admission that  *)
(* claims it), what a call in flight will report, and, where every answer of  *)
(* the store arrives, that a proof (terminal_ack) is the outcome in the row.  *)
THEOREM OutcomeIsInvariant == Spec => []OutcomeInvariant
<1>1. Init => OutcomeInvariant
  BY InitOutcome
<1>2. OutcomeInvariant /\ [Next]_vars => OutcomeInvariant'
  BY NextOutcome
<1> QED BY <1>1, <1>2, PTL DEF Spec

(* A durable cancellation request is never answered by success, whichever of  *)
(* update_status, finalize_if_not_cancelled, put and request_cancel race.     *)
THEOREM CancelExcludes == Spec => []CancelExcludesSuccess
<1>1. OutcomeInvariant => CancelExcludesSuccess
  BY DEF OutcomeInvariant
<1> QED BY <1>1, OutcomeIsInvariant, PTL

(* publish_end is sent only for a run whose row is terminal, and the row      *)
(* stays terminal: nothing that is still in flight reopens it.               *)
THEOREM EndedTerminal == Spec => []EndedIsTerminal
<1>1. OutcomeInvariant => EndedIsTerminal
  <2> SUFFICES ASSUME OutcomeInvariant, NEW r \in ended PROVE rows[r].status \in Terminal
    BY DEF EndedIsTerminal
  <2>1. r \in Runs
    BY DEF OutcomeInvariant, FenceInvariant, TypeOK
  <2> QED BY <2>1, OutcomeFacts DEF RunOutcome, ToldIsOver, Told
<1> QED BY <1>1, OutcomeIsInvariant, PTL

-----------------------------------------------------------------------------
(* What holds where every answer of the store arrives, or no admission claims *)
(* a row.                                                                    *)

(* A run.terminal event announces the durable outcome, and the row keeps it   *)
(* whatever late writers, takeovers, rollbacks and crashes follow.           *)
THEOREM PublishedDurable ==
    ASSUME AnswersArrive
    PROVE  Spec => []PublishedIsDurable
<1>1. OutcomeInvariant => PublishedIsDurable
  BY DEF OutcomeInvariant
<1> QED BY <1>1, OutcomeIsInvariant, PTL

(* A worker with a final acknowledgment and no terminal write of its own in   *)
(* flight (_has_final_terminal_ack, _terminal_attempts) agrees with the row.  *)
THEOREM FinalAckDurable ==
    ASSUME AnswersArrive
    PROVE  Spec => []FinalAckIsDurable
<1>1. OutcomeInvariant => FinalAckIsDurable
  <2> SUFFICES ASSUME OutcomeInvariant, NEW r \in Runs, rec[r].live, FinalAck(rec[r]),
                      ~Attempting(r)
               PROVE  rows[r].status = rec[r].status
    BY DEF FinalAckIsDurable
  <2>1. ProofIsDurable(r) /\ FenceInvariant
    BY DEF OutcomeInvariant
  <2>2. rec[r] \in Record
    BY <2>1, RunFacts
  <2>3. ~rec[r].lost /\ rec[r].proof # NoOutcome /\ rec[r].proof.status = rec[r].status
    BY <2>2, FinalAckHasProof
  <2>4. ~PendingError(r)
    BY StatusNames DEF PendingError, Attempting, TaskAttempt, IsTerminalWrite
  <2> QED BY <2>1, <2>3, <2>4 DEF ProofIsDurable
<1> QED BY <1>1, OutcomeIsInvariant, PTL

(* At most one unaborted run of the thread executes, across all workers, up   *)
(* to the admission that outlived its lease.                                 *)
THEOREM OneRunsAtATime ==
    ASSUME AnswersArrive
    PROVE  Spec => []OneExecutor
<1>1. OutcomeInvariant => OneExecutor
  <2> SUFFICES ASSUME OutcomeInvariant, NEW q \in Runs, NEW r \in Runs, Executing(q), Executing(r)
               PROVE  \/ q = r
                      \/ \E w \in Workers : /\ adm[w].ph = "done" /\ adm[w].left < -Grace
                                            /\ {q, r} \cap adm[w].claimed # {}
    BY DEF OneExecutor
  <2>1. OneActiveRow /\ FenceInvariant
    BY DEF OutcomeInvariant
  <2>2. ASSUME NEW p \in Runs, Executing(p)
        PROVE  /\ Busy(rec[p]) /\ rec[p].home \in Workers
               /\ Holds(p) \/ Claims(rec[p].home, p)
    <3>1. Busy(rec[p])
      BY <2>2 DEF Executing, Busy, Working
    <3>2. BusyHolds(p) /\ RunOutcome(p)
      BY DEF OutcomeInvariant
    <3> QED BY <3>1, <3>2 DEF Busy, BusyHolds, RunOutcome, BusyIsUndecided
  <2>3. CASE Holds(q) /\ Holds(r)
    BY <2>1, <2>3 DEF Holds, OneActiveRow
  <2>4. ASSUME NEW p \in Runs, Claims(rec[p].home, p), rec[p].home \in Workers
        PROVE  \/ adm[rec[p].home].left < -Grace
               \/ \E t \in Runs : /\ rows[t].status \in Active /\ rows[t].owner = rec[p].home
                                /\ ~rec[t].live
    <3> DEFINE w == rec[p].home
    <3>1. AdmissionHolds(w) /\ AdmissionIsFresh(w) /\ adm[w] \in Admission
      BY <2>1, <2>4 DEF OutcomeInvariant, FenceInvariant, TypeOK
    <3>2. adm[w].ph = "done" /\ adm[w].res = "ok"
      BY <2>4 DEF Claims
    <3>3. PICK t \in adm[w].run : TRUE
      BY <3>1, <3>2 DEF AdmissionHolds
    <3>4. t \in Runs
      BY <3>1 DEF Admission
    <3> QED BY <3>1, <3>2, <3>3, <3>4 DEF AdmissionHolds, AdmissionIsFresh
  <2>5. ASSUME NEW p \in Runs, NEW s \in Runs, Executing(p), Executing(s),
               Claims(rec[p].home, p)
        PROVE  \/ p = s
               \/ \E w \in Workers : /\ adm[w].ph = "done" /\ adm[w].left < -Grace
                                     /\ {p, s} \cap adm[w].claimed # {}
    <3>1. rec[p].home \in Workers /\ rec[s].home \in Workers /\ rec[s].live
      BY <2>2, <2>5 DEF Executing
    <3>2. \A x \in Runs : Claims(rec[x].home, x) => adm[rec[x].home].ph = "done" /\ x \in adm[rec[x].home].claimed
      BY DEF Claims
    <3>3. CASE adm[rec[p].home].left < -Grace
      BY <2>5, <3>1, <3>2, <3>3
    <3>4. CASE \E t \in Runs : /\ rows[t].status \in Active /\ rows[t].owner = rec[p].home
                              /\ ~rec[t].live
      <4>1. PICK t \in Runs : /\ rows[t].status \in Active /\ rows[t].owner = rec[p].home
                             /\ ~rec[t].live
        BY <3>4
      <4>2. CASE Holds(s)
        BY <2>1, <3>1, <4>1, <4>2 DEF Holds, OneActiveRow
      <4>3. CASE Claims(rec[s].home, s) /\ adm[rec[s].home].left < -Grace
        BY <3>1, <3>2, <4>3
      <4>4. CASE /\ Claims(rec[s].home, s)
                 /\ \E x \in Runs : /\ rows[x].status \in Active /\ rows[x].owner = rec[s].home
                                   /\ ~rec[x].live
        <5>1. rec[p].home = rec[s].home
          BY <2>1, <4>1, <4>4 DEF OneActiveRow
        <5>2. AdmissionHolds(rec[p].home)
          BY <3>1 DEF OutcomeInvariant
        <5> QED BY <2>5, <3>2, <4>4, <5>1, <5>2 DEF AdmissionHolds
      <4> QED BY <2>2, <2>4, <2>5, <3>1, <4>2, <4>3, <4>4
    <3> QED BY <2>4, <2>5, <3>1, <3>3, <3>4
  <2>6. ASSUME Claims(rec[r].home, r)
        PROVE  \/ q = r
               \/ \E w \in Workers : /\ adm[w].ph = "done" /\ adm[w].left < -Grace
                                     /\ {q, r} \cap adm[w].claimed # {}
    <3>1. {r, q} = {q, r}
      OBVIOUS
    <3> QED BY <2>5, <2>6, <3>1
  <2> QED BY <2>2, <2>3, <2>5, <2>6
<1> QED BY <1>1, OutcomeIsInvariant, PTL

-----------------------------------------------------------------------------
(* The rows and the announcements implement RunLifecycle.                    *)

(* The abstract state is what clients read: status and request of each row,   *)
(* and the announced outcome.                                                *)
LEMMA AbstractState ==
    ASSUME \A q \in Runs : rows'[q].status = rows[q].status /\ rows'[q].cancel = rows[q].cancel,
           published' = published
    PROVE  UNCHANGED Lifecycle!vars
BY DEF Lifecycle!vars

(* A write that moves one row is a step of RunLifecycle.                     *)
LEMMA MovedRow ==
    ASSUME NEW r \in Runs, NEW row, rows \in [Runs -> Row], rows' = [rows EXCEPT ![r] = row],
           published' = published, RowMoves(rows[r], row),
           rows[r].status = "interrupted" /\ row.status = "error" => published[r] = "absent"
    PROVE  [Lifecycle!Next]_(Lifecycle!vars)
<1> DEFINE st == [q \in Runs |-> rows[q].status]
           ca == [q \in Runs |-> rows[q].cancel]
<1>1. /\ rows'[r] = row /\ \A q \in Runs : q # r => rows'[q] = rows[q]
  OBVIOUS
<1>2. /\ [q \in Runs |-> rows'[q].status] = [st EXCEPT ![r] = row.status]
      /\ [q \in Runs |-> rows'[q].cancel] = [ca EXCEPT ![r] = row.cancel]
      /\ st[r] = rows[r].status /\ ca[r] = rows[r].cancel
  BY <1>1
<1>3. row.cancel = rows[r].cancel => [q \in Runs |-> rows'[q].cancel] = ca
  BY <1>1
<1>4. row.status = rows[r].status => [q \in Runs |-> rows'[q].status] = st
  BY <1>1
<1>5. CASE row.status = rows[r].status /\ row.cancel = rows[r].cancel
  BY <1>1, <1>5, AbstractState
<1>6. CASE rows[r].status \in Active /\ row.status \in Active /\ row.cancel = rows[r].cancel
  <2>1. Lifecycle!Move(r, row.status)
    BY <1>2, <1>3, <1>6 DEF Lifecycle!Move, Lifecycle!Active, Active
  <2> QED BY <1>6, <2>1 DEF Lifecycle!Next, Lifecycle!Active, Active
<1>7. CASE /\ rows[r].status \in Active /\ row.status \in Terminal /\ row.cancel = rows[r].cancel
           /\ row.status = "success" => rows[r].cancel = "none"
  <2>1. Lifecycle!Close(r, row.status)
    BY <1>2, <1>3, <1>7 DEF Lifecycle!Close, Lifecycle!Active, Active
  <2> QED BY <1>7, <2>1 DEF Lifecycle!Next, Lifecycle!Terminal, Terminal
<1>8. CASE /\ rows[r].status = "interrupted" /\ row.status = "error"
           /\ row.cancel = rows[r].cancel
  <2>1. Lifecycle!Amend(r)
    BY <1>2, <1>3, <1>8 DEF Lifecycle!Amend
  <2> QED BY <2>1 DEF Lifecycle!Next
<1>9. CASE /\ rows[r].status \in Active /\ row.status = rows[r].status
           /\ rows[r].cancel = "none" /\ row.cancel \in Actions
  <2>1. Lifecycle!Request(r, row.cancel)
    BY <1>2, <1>4, <1>9 DEF Lifecycle!Request, Lifecycle!Active, Active
  <2> QED BY <1>9, <2>1 DEF Lifecycle!Next, Lifecycle!Actions, Actions
<1> QED BY <1>5, <1>6, <1>7, <1>8, <1>9 DEF RowMoves

(* The task of a run announces an outcome in Seal only.                      *)
LEMMA TaskStepTellsNothing ==
    ASSUME NEW r \in Runs, TaskStep(r) PROVE Seal(r) \/ published' = published
<1>1. Attach(r) \/ SkipEvidence(r) \/ Interrupted(r) \/ Restore(r) \/ Evict(r)
        => published' = published
  BY DEF Attach, SkipEvidence, Interrupted, Restore, Evict, OnlyRec
<1>2. StartCheck(r) => published' = published
  BY DEF StartCheck, OnlyRec, RecAndTask
<1>3. StartAck(r) => published' = published
  BY Zenon DEF StartAck, RecAndTask
<1>4. UnstartAck(r) \/ PutBegin(r) \/ PutAck(r) \/ Fenced(r) => published' = published
  BY Zenon DEF UnstartAck, PutBegin, PutAck, Fenced, RecAndTask
<1>5. ASSUME NEW status \in {"success", "error"}, Finish(r, status) PROVE published' = published
  BY Zenon, <1>5 DEF Finish, OnlyRec
<1>6. FailRun(r) \/ ReceiptLost(r) => published' = published
  BY DEF FailRun, ReceiptLost, OnlyRec
<1>7. FinishCancellation(r) => published' = published
  BY Zenon DEF FinishCancellation, OnlyRec
<1>8. Arbitrate(r) => published' = published
  BY Zenon DEF Arbitrate, OnlyRec, RecAndTask
<1>9. PersistBegin(r) => published' = published
  BY Zenon DEF PersistBegin, OnlyRec, RecAndTask
<1>10. CommitAck(r) => published' = published
  BY Zenon DEF CommitAck, RecAndTask
<1>11. Tail(r) \/ End(r) => published' = published
  BY DEF Tail, End, OnlyRec
<1> QED BY <1>1, <1>2, <1>3, <1>4, <1>5, <1>6, <1>7, <1>8, <1>9, <1>10, <1>11 DEF TaskStep

(* Nor do cancel() and the heartbeat announce anything.                      *)
LEMMA OtherStepsTellNothing ==
    ASSUME NEW r \in Runs
    PROVE  /\ CancelStep(r) => published' = published
           /\ LeaseStep(r) => published' = published
<1>1. \A action \in Requests : CancelBegin(r, action) => published' = published
  BY DEF CancelBegin, CancelCall
<1>2. CancelApply(r) => published' = published
  BY Zenon DEF CancelApply, CancelCall
<1>3. CancelAck(r) => published' = published
  BY Zenon DEF CancelAck, CancelCall
<1>4. \A w \in Workers, action \in Requests : RemoteCancel(w, r, action) => published' = published
  BY DEF RemoteCancel, OnlyRows
<1>5. RenewBegin(r) => published' = published
  BY Zenon DEF RenewBegin, RenewCall
<1>6. RenewAck(r) => published' = published
  BY Zenon DEF RenewAck, RenewCall
<1>7. Signal(r) \/ Deadline(r) => published' = published
  BY DEF Signal, Deadline, RenewCall, OnlyRec
<1>8. RenewStore(r) => published' = published
  BY DEF RenewStore
<1>9. \A w \in Workers : Takeover(w, r) => published' = published
  BY DEF Takeover, OnlyRows
<1> QED BY <1>1, <1>2, <1>3, <1>4, <1>5, <1>6, <1>7, <1>8, <1>9 DEF CancelStep, LeaseStep

(* The calls of a run's task and of cancel() move its row.                   *)
LEMMA StoreImplements ==
    ASSUME OutcomeInvariant, AnswersArrive, NEW r \in Runs, TaskStore(r) \/ CancelStore(r)
    PROVE  [Lifecycle!Next]_(Lifecycle!vars)
<1>1. rows \in [Runs -> Row] /\ published' = published
  BY DEF OutcomeInvariant, FenceInvariant, TypeOK, TaskStore, CancelStore
<1>2. CASE rows' = rows
  BY <1>1, <1>2, AbstractState
<1>3. CASE tcall[r].ph = "sent" /\ rows' = [rows EXCEPT ![r] = Apply(r, tcall[r])]
  <2> DEFINE new == Apply(r, tcall[r])
  <2>1. ~Told(r) /\ (RowMoves(rows[r], new) \/ new = rows[r])
    BY <1>3, TaskApplied
  <2>2. rows' = [rows EXCEPT ![r] = new]
    BY <1>3
  <2> HIDE DEF new
  <2>3. RowMoves(rows[r], new) /\ published[r] = "absent"
    BY <2>1 DEF RowMoves, Told
  <2> QED BY <1>1, <2>2, <2>3, MovedRow
<1>4. CASE ccall[r].ph = "sent" /\ rows' = [rows EXCEPT ![r] = Apply(r, ccall[r])]
  <2> DEFINE new == Apply(r, ccall[r])
  <2>1. /\ RowMoves(rows[r], new)
        /\ rows[r].status \notin Active => new.status = rows[r].status
    BY <1>4, CancelApplied
  <2>2. rows' = [rows EXCEPT ![r] = new]
    BY <1>4
  <2> HIDE DEF new
  <2>3. ~(rows[r].status = "interrupted" /\ new.status = "error")
    BY <2>1, StatusNames
  <2> QED BY <1>1, <2>1, <2>2, <2>3, MovedRow
<1> QED BY <1>2, <1>3, <1>4 DEF TaskStore, CancelStore

(* The other steps of a cancellation only make a request.                    *)
LEMMA CancelImplements ==
    ASSUME OutcomeInvariant, NEW r \in Runs, CancelStep(r)
    PROVE  [Lifecycle!Next]_(Lifecycle!vars)
<1>1. rows \in [Runs -> Row] /\ rows[r] \in Row /\ published' = published
  BY OtherStepsTellNothing DEF OutcomeInvariant, FenceInvariant, TypeOK
<1>2. CASE rows' = rows
  BY <1>1, <1>2, AbstractState
<1>3. ASSUME NEW w \in Workers, NEW action \in Requests, RemoteCancel(w, r, action)
      PROVE  [Lifecycle!Next]_(Lifecycle!vars)
  <2> DEFINE new == RequestCancel(rows[r], action)
  <2>1. action \in Actions
    BY OwnershipAssumption DEF OwnershipAssumption
  <2>2. RowMoves(rows[r], new) /\ new.status = rows[r].status
    BY <1>1, <2>1 DEF RowMoves, RequestCancel, Row
  <2>3. rows' = [rows EXCEPT ![r] = new]
    BY <1>3 DEF RemoteCancel, OnlyRows
  <2> HIDE DEF new
  <2> QED BY <1>1, <2>2, <2>3, MovedRow
<1> QED BY <1>2, <1>3, LocalStepKeepsRows DEF CancelStep

(* A takeover closes the run; renewals are not visible.                      *)
LEMMA LeaseImplements ==
    ASSUME OutcomeInvariant, NEW r \in Runs, LeaseStep(r)
    PROVE  [Lifecycle!Next]_(Lifecycle!vars)
<1>1. rows \in [Runs -> Row] /\ rows[r] \in Row /\ rcall[r] \in Renewal /\ published' = published
  BY OutcomeFacts, RunFacts, OtherStepsTellNothing DEF OutcomeInvariant, FenceInvariant, TypeOK
<1>2. CASE rows' = rows
  BY <1>1, <1>2, AbstractState
<1>3. ASSUME NEW w \in Workers, Takeover(w, r) PROVE [Lifecycle!Next]_(Lifecycle!vars)
  <2> DEFINE new == ClaimForTakeover(rows[r])
  <2>1. rows' = [rows EXCEPT ![r] = new] /\ rows[r].status \in Active
    BY <1>3 DEF Takeover, OnlyRows, ClaimForTakeoverOk
  <2>2. new.status = "error" /\ new.cancel = rows[r].cancel
    BY <1>1 DEF ClaimForTakeover, Row
  <2> HIDE DEF new
  <2>3. RowMoves(rows[r], new)
    BY <2>1, <2>2, StatusNames DEF RowMoves
  <2>4. rows[r].status # "interrupted"
    BY <2>1, StatusNames
  <2> QED BY <1>1, <2>1, <2>3, <2>4, MovedRow
<1>4. ASSUME RenewStore(r) PROVE [Lifecycle!Next]_(Lifecycle!vars)
  <2> DEFINE new == RenewLease(rows[r], rcall[r].left, rcall[r].allow, rec[r].home)
  <2>1. rows' = rows \/ rows' = [rows EXCEPT ![r] = new]
    BY <1>4 DEF RenewStore
  <2>2. new.status = rows[r].status /\ new.cancel = rows[r].cancel
    BY <1>1 DEF RenewLease, Row
  <2> HIDE DEF new
  <2>3. RowMoves(rows[r], new)
    BY <2>2 DEF RowMoves
  <2>4. ~(rows[r].status = "interrupted" /\ new.status = "error")
    BY <2>2
  <2> QED BY <1>1, <1>2, <2>1, <2>3, <2>4, MovedRow
<1> QED BY <1>2, <1>3, <1>4, LocalStepKeepsRows DEF LeaseStep

(* An outcome is announced when the row has it.                              *)
LEMMA SealImplements ==
    ASSUME OutcomeInvariant, AnswersArrive, NEW r \in Runs, Seal(r)
    PROVE  [Lifecycle!Next]_(Lifecycle!vars)
<1>1. /\ rec[r] \in Record /\ CallsMatch(r) /\ ProofIsDurable(r)
      /\ published \in [Runs -> {"absent"} \cup Terminal]
  BY OutcomeFacts, RunFacts DEF Durable
<1>2. rows' = rows /\ rec[r].live /\ rec[r].pc = "seal"
  BY DEF Seal, Alive
<1>3. CASE published' = published
  BY <1>2, <1>3, AbstractState
<1>4. CASE MayPublish(rec[r]) /\ published' = [published EXCEPT ![r] = rec[r].status]
  <2>1. ~rec[r].lost /\ rec[r].proof # NoOutcome /\ rec[r].proof.status = rec[r].status
    BY <1>1, <1>4, FinalAckHasProof DEF MayPublish
  <2>2. tcall[r].ph = "idle"
    BY <1>1, <1>2 DEF CallsMatch, Calling
  <2>3. rows[r].status = rec[r].status /\ rec[r].status \in Terminal
    BY <1>1, <1>2, <1>4, <2>1, <2>2 DEF ProofIsDurable, PendingError, MayPublish
  <2>4. Lifecycle!Announce(r)
    BY <1>2, <1>4, <2>3 DEF Lifecycle!Announce, Lifecycle!Terminal, Terminal
  <2> QED BY <2>4 DEF Lifecycle!Next
<1>5. published' = [published EXCEPT ![r] = IF MayPublish(rec[r]) THEN rec[r].status ELSE published[r]]
  BY DEF Seal
<1> QED BY <1>1, <1>3, <1>4, <1>5

(* The insert of an admission takes the thread over.                         *)
LEMMA AdmitImplements ==
    ASSUME OutcomeInvariant, NEW w \in Workers, AdmitStore(w)
    PROVE  [Lifecycle!Next]_(Lifecycle!vars)
<1>1. /\ rows \in [Runs -> Row] /\ adm[w].run \subseteq Runs /\ adm[w].ph = "sent"
      /\ AdmissionIsFresh(w) /\ published' = published
  BY DEF OutcomeInvariant, FenceInvariant, TypeOK, Admission, AdmitStore
<1>2. PICK r \in adm[w].run : rows' = rows \/ rows' = CreateThreadOperation(rows, r, w, adm[w].left)
  BY DEF AdmitStore
<1>3. r \in Runs /\ rows[r].status = "absent" /\ rows[r].cancel = "none"
  BY <1>1, OutcomeFacts DEF AdmissionIsFresh, RunOutcome, CallsAgree
<1>4. CASE rows' = rows
  BY <1>1, <1>4, AbstractState
<1>5. CASE rows' = CreateThreadOperation(rows, r, w, adm[w].left)
  <2>1. ASSUME NEW q \in Runs
        PROVE  /\ rows'[q].status = IF q = r THEN "pending"
                                    ELSE IF rows[q].status \in Active THEN "interrupted"
                                    ELSE rows[q].status
               /\ rows'[q].cancel = rows[q].cancel
    <3>1. CASE q = r
      BY Zenon, <1>3, <1>5, <3>1 DEF CreateThreadOperation
    <3>2. CASE q # r /\ q \in ActiveRows(rows)
      <4>1. rows'[q] = [rows[q] EXCEPT !.status = "interrupted", !.owner = w]
        BY Zenon, <1>5, <3>2 DEF CreateThreadOperation
      <4>2. rows[q] \in Row /\ rows[q].status \in Active
        BY <1>1, <3>2 DEF ActiveRows
      <4> QED BY <3>2, <4>1, <4>2 DEF Row
    <3>3. CASE q # r /\ q \notin ActiveRows(rows)
      <4>1. rows'[q] = rows[q] /\ rows[q].status \notin Active
        BY Zenon, <1>5, <3>3 DEF CreateThreadOperation, ActiveRows
      <4> QED BY <3>3, <4>1
    <3> QED BY <3>1, <3>2, <3>3
  <2>2. Lifecycle!Admit(r)
    BY <1>1, <1>3, <2>1 DEF Lifecycle!Admit, Lifecycle!Active, Active
  <2> QED BY <1>3, <2>2 DEF Lifecycle!Next
<1> QED BY <1>2, <1>4, <1>5

(* The clock is not visible.                                                 *)
LEMMA TickImplements ==
    ASSUME OutcomeInvariant, Tick PROVE UNCHANGED Lifecycle!vars
<1>1. ASSUME NEW q \in Runs
      PROVE  rows'[q].status = rows[q].status /\ rows'[q].cancel = rows[q].cancel
  <2>1. rows[q] \in Row /\ rows'[q] = [rows[q] EXCEPT !.left = Age(rows[q].left)]
    BY OutcomeFacts, RunFacts DEF Tick
  <2> QED BY <2>1, AgedRowFields
<1>2. published' = published
  BY DEF Tick
<1> QED BY <1>1, <1>2, AbstractState

(* Every step is a step of RunLifecycle, or is not visible to clients.       *)
LEMMA NextImplements ==
    ASSUME OutcomeInvariant, AnswersArrive, [Next]_vars
    PROVE  [Lifecycle!Next]_(Lifecycle!vars)
<1>1. CASE rows' = rows /\ published' = published
  BY <1>1, AbstractState
<1>2. CASE UNCHANGED vars
  BY <1>1, <1>2 DEF vars
<1>3. ASSUME NEW w \in Workers, NEW r \in Runs, NEW strategy \in Strategies, AdmitBegin(w, r, strategy)
      PROVE  [Lifecycle!Next]_(Lifecycle!vars)
  BY <1>1, <1>3 DEF AdmitBegin
<1>4. ASSUME NEW w \in Workers, AdmitAck(w) \/ Crash(w) PROVE [Lifecycle!Next]_(Lifecycle!vars)
  BY <1>1, <1>4 DEF AdmitAck, Crash
<1>5. ASSUME NEW w \in Workers, AdmitStore(w) PROVE [Lifecycle!Next]_(Lifecycle!vars)
  BY <1>5, AdmitImplements
<1>6. ASSUME NEW r \in Runs, TaskStep(r) PROVE [Lifecycle!Next]_(Lifecycle!vars)
  BY <1>1, <1>6, TaskStepTellsNothing, TaskStepKeepsRows, SealImplements
<1>7. ASSUME NEW r \in Runs, CancelStep(r) \/ LeaseStep(r) \/ TaskStore(r) \/ CancelStore(r)
      PROVE  [Lifecycle!Next]_(Lifecycle!vars)
  BY <1>7, CancelImplements, LeaseImplements, StoreImplements
<1>8. CASE Tick
  BY <1>8, TickImplements
<1> QED BY <1>2, <1>3, <1>4, <1>5, <1>6, <1>7, <1>8 DEF Next

(* RunLifecycle never takes an outcome back.                                 *)
LEMMA LifecycleIsFinal ==
    ASSUME [Lifecycle!Next]_(Lifecycle!vars), NEW r \in Runs
    PROVE  /\ rows[r].status \in {"success", "error"} => rows'[r].status = rows[r].status
           /\ rows[r].status = "interrupted" => rows'[r].status \in {"interrupted", "error"}
<1> DEFINE st == [q \in Runs |-> rows[q].status]
           new == [q \in Runs |-> rows'[q].status]
<1>1. st[r] = rows[r].status /\ new[r] = rows'[r].status /\ st \in [Runs -> {st[q] : q \in Runs}]
  OBVIOUS
<1>2. CASE UNCHANGED Lifecycle!vars
  BY <1>1, <1>2 DEF Lifecycle!vars
<1>3. ASSUME NEW p \in Runs,
             \/ Lifecycle!Announce(p) \/ \E action \in Lifecycle!Actions : Lifecycle!Request(p, action)
      PROVE  rows'[r].status = rows[r].status
  BY <1>1, <1>3 DEF Lifecycle!Announce, Lifecycle!Request
<1>4. ASSUME NEW p \in Runs, NEW s,
             Lifecycle!Move(p, s) \/ Lifecycle!Close(p, s)
      PROVE  rows[r].status \in Active \/ rows'[r].status = rows[r].status
  BY <1>1, <1>4 DEF Lifecycle!Move, Lifecycle!Close, Lifecycle!Active, Active
<1>5. ASSUME NEW p \in Runs, Lifecycle!Amend(p)
      PROVE  \/ rows'[r].status = rows[r].status
             \/ rows[r].status = "interrupted" /\ rows'[r].status = "error"
  BY <1>1, <1>5 DEF Lifecycle!Amend
<1>6. ASSUME NEW p \in Runs, Lifecycle!Admit(p)
      PROVE  rows[r].status \in Active \cup {"absent"} \/ rows'[r].status = rows[r].status
  BY <1>1, <1>6 DEF Lifecycle!Admit, Lifecycle!Active, Active
<1>7. "success" \notin Active \cup {"absent"} /\ "error" \notin Active \cup {"absent"}
      /\ "interrupted" \notin Active \cup {"absent"}
  BY DEF Active
<1> QED BY <1>2, <1>3, <1>4, <1>5, <1>6, <1>7 DEF Lifecycle!Next

(* Where every answer of the store arrives, or admissions claim nothing, the  *)
(* rows and the run.terminal events of any number of workers behave as the    *)
(* sequential RunLifecycle: one operation at a time, an outcome decided once, *)
(* no success after an accepted cancellation, and announcements that stay     *)
(* true.                                                                     *)
THEOREM LifecycleImplemented ==
    ASSUME AnswersArrive
    PROVE  Spec => ImplementsLifecycle
<1>1. Init => Lifecycle!Init
  BY DEF Init, AbsentRow, Lifecycle!Init
<1>2. OutcomeInvariant /\ [Next]_vars => [Lifecycle!Next]_(Lifecycle!vars)
  BY NextImplements
<1> QED BY <1>1, <1>2, OutcomeIsInvariant, PTL DEF Spec, ImplementsLifecycle, Lifecycle!Spec

(* A success or error row is never rewritten, and an interrupted row can only *)
(* become error, when the rollback it was interrupted for has been done.     *)
THEOREM OutcomeFinal ==
    ASSUME AnswersArrive
    PROVE  Spec => RowOutcomeIsFinal
<1> DEFINE A == \A r \in Runs :
                  /\ rows[r].status \in {"success", "error"} => rows'[r].status = rows[r].status
                  /\ rows[r].status = "interrupted" => rows'[r].status \in {"interrupted", "error"}
<1>1. OutcomeInvariant /\ [Next]_vars => [A]_vars
  BY NextImplements, LifecycleIsFinal
<1> HIDE DEF A
<1>2. Spec => [][A]_vars
  BY <1>1, OutcomeIsInvariant, PTL DEF Spec
<1> QED BY <1>2 DEF RowOutcomeIsFinal, A
=============================================================================
