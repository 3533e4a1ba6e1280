--------------------------- MODULE RunRestoreProofs ---------------------------
(***************************************************************************)
(* The third inductive invariant of the run protocol: while a worker        *)
(* restores the state before a run, no other run of that worker executes.   *)
(* Where no client cancels, no step of a task turns its run to a restore    *)
(* (Moves), and only the acknowledgment of an admission does; then          *)
(* RestoreInvariant is preserved by every step, action by action, on top of *)
(* the invariants of RunOwnershipProofs.                                    *)
(***************************************************************************)
EXTENDS RunOwnershipProofs

-----------------------------------------------------------------------------
(* Restores.  Where no client cancels, a run restores its checkpoint only for *)
(* an admission of its own worker that replaced it.                          *)

(* The run may still write its old checkpoint back.                          *)
WillRestore(rc) ==
    /\ rc.live /\ ~rc.lost /\ rc.started /\ rc.pc # "done"
    /\ rc.abort = "rollback" \/ rc.pc = "restore"

(* The task has found no older run cleaning up.                              *)
Underway   == {"start", "build", "put", "run"}
Passed(rc) == rc.live /\ ~rc.lost /\ rc.abort = "none" /\ rc.pc \in Underway

(* Nobody asked to cancel the run.                                           *)
NotAsked(r) ==
    /\ rows[r].cancel = "none" /\ ccall[r].ph = "idle"
    /\ tcall[r].res \notin Actions /\ tcall[r].op # "request"
    /\ rcall[r].cancel = "none" /\ rcall[r].ph # "signal"

(* A run that may restore keeps its finalizing flag until its task is done.  *)
RestoreFits(r) ==
    /\ rec[r].started => rec[r].pc # "none"
    /\ rec[r].pc = "restore" => rec[r].started
    /\ WillRestore(rec[r]) => rec[r].finalizing

OlderIsOver(r) == \A q \in older[r] : rows[q].status \in Terminal

(* No run of the worker was admitted after one that its admission claimed.   *)
AdmissionAlone(w) ==
    adm[w].ph = "done" /\ adm[w].res = "ok" =>
        \A q \in adm[w].claimed, r \in Runs : q \in older[r] /\ rec[r].live => rec[r].home # w

RestoreAlone(r) ==
    Passed(rec[r]) => \A q \in older[r] : rec[q].home = rec[r].home => ~WillRestore(rec[q])

RestoreInvariant ==
    /\ \A r \in Runs : NotAsked(r) /\ RestoreFits(r) /\ OlderIsOver(r) /\ RestoreAlone(r)
    /\ \A w \in Workers : AdmissionAlone(w)

-----------------------------------------------------------------------------
(* A change of a record by which its run does not turn to a restore.         *)
Gone(b) == ~b.live /\ ~b.started /\ b.pc = "done"

Moves(a, b) ==
    \/ Gone(b)
    \/ /\ b.live => a.live
       /\ b.home = a.home /\ (a.lost => b.lost)
       /\ b.abort = a.abort \/ (a.abort = "none" /\ b.abort = "interrupt")
       /\ b.started = a.started \/ (b.started /\ b.pc = "build" /\ b.abort = "none")
       /\ b.finalizing = a.finalizing \/ b.finalizing \/ b.pc = "done"
       /\ b.pc = "none" => a.pc = "none"
       /\ b.pc = "restore" => a.pc = "restore" \/ (a.abort = "rollback" /\ a.started)
       /\ a.pc = "done" => b.pc = "done"

(* A change that leaves the task where it is.                                *)
Still(a, b) ==
    /\ b.live = a.live /\ b.home = a.home /\ b.started = a.started
    /\ b.finalizing = a.finalizing /\ b.pc = a.pc
    /\ a.lost => b.lost
    /\ b.abort = a.abort \/ (a.abort = "none" /\ b.abort = "interrupt")

LEMMA StillMoves ==
    ASSUME NEW a, NEW b, Still(a, b)
    PROVE  Moves(a, b)
BY DEF Still, Moves

LEMMA MovesFacts ==
    ASSUME NEW a \in Record, NEW b \in Record, Moves(a, b)
    PROVE  /\ WillRestore(b) => WillRestore(a) /\ b.home = a.home
           /\ WillRestore(b) /\ a.finalizing => b.finalizing
           /\ b.live => a.live /\ b.home = a.home
           /\ Passed(b) /\ a.pc \in Underway => Passed(a)
           /\ (a.started => a.pc # "none") => (b.started => b.pc # "none")
           /\ (a.pc = "restore" => a.started) => (b.pc = "restore" => b.started)
<1>1. /\ a.started \in BOOLEAN /\ b.started \in BOOLEAN /\ a.finalizing \in BOOLEAN /\ b.finalizing \in BOOLEAN
      /\ a.live \in BOOLEAN /\ b.live \in BOOLEAN /\ a.lost \in BOOLEAN /\ b.lost \in BOOLEAN
  BY FieldTypes
<1> QED BY <1>1 DEF Moves, Gone, WillRestore, Passed, Underway

(* The rule for a step that admits nobody.                                   *)
LEMMA RestoreRule ==
    ASSUME RestoreInvariant, TypeOK, TypeOK',
           \A r \in Runs : Moves(rec[r], rec'[r]),
           \A r \in Runs : rec'[r].pc \in Underway => rec[r].pc \in Underway \/ ~PriorFinalizing(r),
           \A r \in Runs : NotAsked(r)',
           \A r \in Runs : rows[r].status \in Terminal => rows'[r].status \in Terminal,
           older' = older,
           \A w \in Workers : adm'[w].ph = "done" =>
               adm[w].ph = "done" /\ adm'[w].res = adm[w].res /\ adm'[w].claimed = adm[w].claimed
    PROVE  RestoreInvariant'
<1>1. ASSUME NEW r \in Runs
      PROVE  rec[r] \in Record /\ rec'[r] \in Record /\ older[r] \subseteq Runs
  BY DEF TypeOK
<1>2. ASSUME NEW r \in Runs PROVE RestoreFits(r)'
  <2>1. RestoreFits(r) /\ Moves(rec[r], rec'[r])
    BY DEF RestoreInvariant
  <2> QED BY <1>1, <2>1, MovesFacts DEF RestoreFits
<1>3. ASSUME NEW r \in Runs PROVE OlderIsOver(r)'
  BY <1>1 DEF RestoreInvariant, OlderIsOver
<1>4. ASSUME NEW r \in Runs PROVE RestoreAlone(r)'
  <2> SUFFICES ASSUME Passed(rec'[r]), NEW q \in older[r], rec'[q].home = rec'[r].home, WillRestore(rec'[q])
               PROVE  FALSE
    BY DEF RestoreAlone
  <2>1. q \in Runs
    BY <1>1
  <2>2. WillRestore(rec[q]) /\ rec'[q].home = rec[q].home
    BY <1>1, <2>1, MovesFacts
  <2>3. rec'[r].home = rec[r].home /\ (rec[r].pc \in Underway => Passed(rec[r]))
    BY <1>1, MovesFacts DEF Passed
  <2>4. rec[r].pc \notin Underway
    BY <2>2, <2>3 DEF RestoreInvariant, RestoreAlone
  <2>5. ~PriorFinalizing(r)
    BY <2>4 DEF Passed
  <2>6. rec[q].finalizing /\ rec[q].live
    BY <2>1, <2>2 DEF RestoreInvariant, RestoreFits, WillRestore
  <2> QED BY <2>1, <2>2, <2>3, <2>5, <2>6 DEF PriorFinalizing
<1>5. ASSUME NEW w \in Workers PROVE AdmissionAlone(w)'
  <2>1. \A r \in Runs : rec'[r].live => rec[r].live /\ rec'[r].home = rec[r].home
    BY <1>1, MovesFacts
  <2>2. AdmissionAlone(w)
    BY DEF RestoreInvariant
  <2> QED BY <2>1, <2>2 DEF AdmissionAlone
<1> QED BY <1>2, <1>3, <1>4, <1>5 DEF RestoreInvariant

(* A step of one run that keeps the rows, and its calls within what is asked. *)
LEMMA LocalRestore ==
    ASSUME RestoreInvariant, TypeOK, TypeOK', NEW r \in Runs, NEW b,
           rec' = [rec EXCEPT ![r] = b], UNCHANGED <<rows, older, adm>>,
           Moves(rec[r], b),
           b.pc \in Underway => rec[r].pc \in Underway \/ ~PriorFinalizing(r),
           \A q \in Runs \ {r} : NotAsked(q)', NotAsked(r)'
    PROVE  RestoreInvariant'
<1>1. rec'[r] = b /\ \A q \in Runs \ {r} : rec'[q] = rec[q]
  BY DEF TypeOK
<1>2. \A q \in Runs : Moves(rec[q], rec'[q])
  BY <1>1, StillMoves DEF Still
<1>3. \A q \in Runs : rec'[q].pc \in Underway => rec[q].pc \in Underway \/ ~PriorFinalizing(q)
  BY <1>1
<1>4. \A q \in Runs : NotAsked(q)'
  OBVIOUS
<1>5. \A w \in Workers : adm'[w] = adm[w]
  OBVIOUS
<1> QED BY <1>2, <1>3, <1>4, <1>5, RestoreRule

(* A step of the run's task, with or without a store call.                   *)
LEMMA TaskRestore ==
    ASSUME RestoreInvariant, TypeOK, TypeOK', NEW r \in Runs, NEW b, NEW t,
           OnlyRec(r, b) \/ (RecAndTask(r, b, t) /\ t.res \notin Actions /\ t.op # "request"),
           Moves(rec[r], b),
           b.pc \in Underway => rec[r].pc \in Underway \/ ~PriorFinalizing(r)
    PROVE  RestoreInvariant'
<1>1. rec' = [rec EXCEPT ![r] = b] /\ UNCHANGED <<rows, older, adm, ccall, rcall>>
  BY DEF OnlyRec, RecAndTask
<1>2. /\ \A q \in Runs \ {r} : tcall'[q] = tcall[q]
      /\ tcall'[r] = tcall[r] \/ (tcall'[r].res \notin Actions /\ tcall'[r].op # "request")
  BY DEF OnlyRec, RecAndTask, TypeOK
<1>3. \A q \in Runs : NotAsked(q)'
  BY <1>1, <1>2 DEF RestoreInvariant, NotAsked
<1> QED BY <1>1, <1>3, LocalRestore

(* The task goes to another position.                                        *)
LEMMA GoesOn ==
    ASSUME NEW a, NEW s, Still(a, s), NEW b, NEW p,
           b.live = s.live, b.home = s.home, b.lost = s.lost, b.abort = s.abort,
           b.started = s.started, b.finalizing = s.finalizing, b.pc = p,
           p \notin {"none", "restore"}, a.pc = "done" => p = "done"
    PROVE  Moves(a, b)
BY DEF Still, Moves

(* A record of which one field changes.                                      *)
SameTask(a, b) ==
    /\ b.live = a.live /\ b.home = a.home /\ b.lost = a.lost /\ b.abort = a.abort
    /\ b.started = a.started

LEMMA SetPc ==
    ASSUME NEW a \in Record, NEW p
    PROVE  LET b == [a EXCEPT !.pc = p]
           IN  SameTask(a, b) /\ b.finalizing = a.finalizing /\ b.pc = p
<1> DEFINE b == [a EXCEPT !.pc = p]
<1>1. b.pc = p
  BY Zenon DEF Record
<1>2. /\ b.live = a.live /\ b.home = a.home /\ b.lost = a.lost
      /\ b.abort = a.abort /\ b.started = a.started /\ b.finalizing = a.finalizing
  OBVIOUS
<1> HIDE DEF b
<1>3. SameTask(a, b)
  BY <1>2 DEF SameTask
<1> QED BY <1>1, <1>2, <1>3 DEF b

LEMMA SetFinalizing ==
    ASSUME NEW a \in Record
    PROVE  LET b == [a EXCEPT !.finalizing = TRUE]
           IN  b \in Record /\ SameTask(a, b) /\ b.finalizing = TRUE /\ b.pc = a.pc
<1> DEFINE b == [a EXCEPT !.finalizing = TRUE]
<1>1. b \in Record /\ b.finalizing = TRUE
  BY Zenon DEF Record
<1>2. /\ b.live = a.live /\ b.home = a.home /\ b.lost = a.lost
      /\ b.abort = a.abort /\ b.started = a.started /\ b.pc = a.pc
  OBVIOUS
<1> HIDE DEF b
<1>3. SameTask(a, b)
  BY <1>2 DEF SameTask
<1> QED BY <1>1, <1>2, <1>3 DEF b

LEMMA SetRollback ==
    ASSUME NEW a \in Record
    PROVE  LET b == [a EXCEPT !.rollback = TRUE]
           IN  b \in Record /\ Still(a, b)
<1> DEFINE b == [a EXCEPT !.rollback = TRUE]
<1>1. b \in Record
  BY Zenon DEF Record
<1>2. /\ b.live = a.live /\ b.home = a.home /\ b.lost = a.lost
      /\ b.abort = a.abort /\ b.started = a.started /\ b.finalizing = a.finalizing /\ b.pc = a.pc
  OBVIOUS
<1> HIDE DEF b
<1>3. Still(a, b)
  BY <1>2 DEF Still
<1> QED BY <1>1, <1>3 DEF b

LEMMA MovesTo ==
    ASSUME NEW a \in Record, NEW s \in Record, Still(a, s), NEW p,
           p \notin {"none", "restore"}, a.pc = "done" => p = "done"
    PROVE  LET b == [s EXCEPT !.pc = p] IN Moves(a, b) /\ b.pc = p
<1> DEFINE b == [s EXCEPT !.pc = p]
<1>1. SameTask(s, b) /\ b.finalizing = s.finalizing /\ b.pc = p
  BY SetPc
<1> HIDE DEF b
<1>2. Moves(a, b)
  BY <1>1, GoesOn DEF SameTask
<1> QED BY <1>1, <1>2 DEF b

(* What the operations on a record leave alone.                              *)
LEMMA StillSelf == ASSUME NEW a PROVE Still(a, a)
BY DEF Still

LEMMA FenceStill ==
    ASSUME NEW a \in Record
    PROVE  Still(a, Fence(a))
<1> DEFINE f == [a EXCEPT !.pending = FALSE]
           ab == IF a.abort = "none" THEN "interrupt" ELSE a.abort
           l == [a EXCEPT !.lost = TRUE, !.saved = FALSE, !.pending = FALSE, !.armed = FALSE,
                          !.status = "error", !.err = "lost", !.abort = ab]
<1>1. Fence(a) \in {a, f, l}
  BY Zenon DEF Fence
<1>2. Still(a, f)
  BY DEF Still
<1>3. Still(a, l)
  <2>1. /\ l.live = a.live /\ l.home = a.home /\ l.started = a.started
        /\ l.finalizing = a.finalizing /\ l.pc = a.pc
    OBVIOUS
  <2>2. l.lost = TRUE /\ l.abort = ab
    <3> HIDE DEF ab
    <3> QED BY Zenon DEF Record
  <2>3. ab = a.abort \/ (a.abort = "none" /\ ab = "interrupt")
    OBVIOUS
  <2> HIDE DEF l, ab
  <2> QED BY <2>1, <2>2, <2>3 DEF Still
<1> HIDE DEF f, l
<1> QED BY <1>1, <1>2, <1>3, StillSelf

LEMMA StageStill ==
    ASSUME NEW a \in Record, NEW status, NEW err
    PROVE  Still(a, Stage(a, status, err))
<1> DEFINE e == IF err = "" THEN a.err ELSE err
           n == a.rev + 1
           s == [a EXCEPT !.status = status, !.err = e, !.rev = n, !.saved = FALSE]
<1>1. Stage(a, status, err) \in {a, s}
  BY Zenon DEF Stage
<1>2. Still(a, s)
  <2> HIDE DEF e, n
  <2> QED BY DEF Still
<1> HIDE DEF s
<1> QED BY <1>1, <1>2, StillSelf

LEMMA AckStill ==
    ASSUME NEW a \in Record, NEW out, NEW rev
    PROVE  Still(a, Acknowledge(a, out, rev))
<1> DEFINE p == IF a.proof = NoOutcome \/ a.proof.status = "interrupted"
                      \/ out.status # "interrupted"
                THEN out ELSE a.proof
           staged == p.status # "interrupted" \/ a.rev = rev
           st == IF staged THEN p.status ELSE a.status
           er == IF staged THEN p.err ELSE a.err
           rb == a.rollback /\ p.status # "error"
           k == [a EXCEPT !.proof = p, !.status = st, !.err = er, !.rollback = rb]
           f == FinalAck(k)
           pd == k.pending /\ ~f
           ar == k.armed /\ ~f
           g == [k EXCEPT !.saved = f, !.pending = pd, !.armed = ar]
<1>1. Acknowledge(a, out, rev) \in {a, g}
  BY Zenon DEF Acknowledge
<1>2. Still(a, k)
  <2> HIDE DEF p, st, er, rb
  <2> QED BY DEF Still
<1>3. Still(k, g)
  <2> HIDE DEF f, pd, ar, k
  <2> QED BY DEF Still
<1>4. Still(a, g)
  <2> HIDE DEF g, k
  <2> QED BY <1>2, <1>3 DEF Still
<1> HIDE DEF g
<1> QED BY <1>1, <1>4, StillSelf

(* The record and the call of a run have their types.                         *)
LEMMA RestoreRecord ==
    ASSUME TypeOK, NEW r \in Runs
    PROVE  rec[r] \in Record /\ tcall[r] \in Call
BY DEF TypeOK

(* A step of the task that changes nothing but the position of its task.     *)
LEMMA MoveRestore ==
    ASSUME RestoreInvariant, TypeOK, TypeOK', NEW r \in Runs,
           Attach(r) \/ SkipEvidence(r) \/ Interrupted(r) \/ Restore(r)
    PROVE  RestoreInvariant'
<1>1. rec[r] \in Record
  BY RestoreRecord
<1>2. CASE Attach(r)
  <2> DEFINE b == [rec[r] EXCEPT !.pc = "wait", !.pending = TRUE]
  <2>1. OnlyRec(r, b) /\ rec[r].pc = "none"
    BY <1>2 DEF Attach
  <2>2. b.pc = "wait"
    BY <1>1, Zenon DEF Record
  <2>3. /\ b.live = rec[r].live /\ b.home = rec[r].home /\ b.lost = rec[r].lost
        /\ b.abort = rec[r].abort /\ b.started = rec[r].started /\ b.finalizing = rec[r].finalizing
    OBVIOUS
  <2> HIDE DEF b
  <2> QED BY <2>1, <2>2, <2>3, StillSelf, GoesOn, TaskRestore DEF Underway
<1>3. ASSUME NEW p \in {"run", "cancel", "final", "persist"}, OnlyRec(r, [rec[r] EXCEPT !.pc = p]),
             rec[r].pc # "done", p = "run" => rec[r].pc = "build"
      PROVE  RestoreInvariant'
  <2> DEFINE b == [rec[r] EXCEPT !.pc = p]
  <2>1. Moves(rec[r], b) /\ b.pc = p
    BY <1>1, <1>3, StillSelf, MovesTo
  <2>2. OnlyRec(r, b)
    BY <1>3
  <2> HIDE DEF b
  <2> QED BY <1>3, <2>1, <2>2, TaskRestore DEF Underway
<1>4. CASE Restore(r)
  <2> DEFINE p == IF rec[r].stage = 0 THEN "final" ELSE "persist"
  <2>1. OnlyRec(r, [rec[r] EXCEPT !.pc = p]) /\ rec[r].pc = "restore"
    BY <1>4 DEF Restore
  <2>2. p \in {"final", "persist"}
    OBVIOUS
  <2> HIDE DEF p
  <2> QED BY <1>3, <2>1, <2>2
<1>5. CASE SkipEvidence(r)
  BY <1>3, <1>5 DEF SkipEvidence
<1>6. CASE Interrupted(r)
  BY <1>3, <1>6 DEF Interrupted
<1> QED BY <1>2, <1>4, <1>5, <1>6

(* A run that did not start.                                                 *)
LEMMA NotStartedMoves ==
    ASSUME NEW a \in Record, NEW s \in Record, Still(a, s), a.pc # "done"
    PROVE  Moves(a, NotStarted(s)) /\ NotStarted(s).pc \in {"cancel", "final"}
<1> DEFINE p == IF s.abort # "none" THEN "cancel" ELSE "final"
<1>1. NotStarted(s) = [s EXCEPT !.pc = p] /\ p \in {"cancel", "final"}
  BY DEF NotStarted
<1> HIDE DEF p
<1> QED BY <1>1, MovesTo

(* StartCheck: a run goes on only past older runs that are not cleaning up.  *)
LEMMA StartCheckRestore ==
    ASSUME RestoreInvariant, TypeOK, TypeOK', NEW r \in Runs, StartCheck(r)
    PROVE  RestoreInvariant'
<1>1. rec[r] \in Record /\ rec[r].pc = "wait"
  BY RestoreRecord DEF StartCheck, CanStep
<1>2. CASE OnlyRec(r, NotStarted(rec[r]))
  BY <1>1, <1>2, NotStartedMoves, StillSelf, TaskRestore DEF Underway
<1>3. CASE /\ rec[r].abort = "none"
           /\ RecAndTask(r, [rec[r] EXCEPT !.pc = "start"], Send("start", NoOutcome, 0, "none"))
  <2> DEFINE b == [rec[r] EXCEPT !.pc = "start"]
             t == Send("start", NoOutcome, 0, "none")
  <2>1. RecAndTask(r, b, t) /\ ~PriorFinalizing(r)
    BY <1>3 DEF StartCheck
  <2>2. t.res \notin Actions /\ t.op # "request"
    BY DEF Send, Actions
  <2>3. Moves(rec[r], b)
    BY <1>1, StillSelf, MovesTo
  <2> HIDE DEF b, t
  <2> QED BY <2>1, <2>2, <2>3, TaskRestore
<1> QED BY <1>2, <1>3 DEF StartCheck

(* A run that stages an outcome and finalizes.                               *)
LEMMA StagedMoves ==
    ASSUME NEW a \in Record, NEW s \in Record, Still(a, s), NEW status \in Terminal, NEW err \in Errors,
           NEW p \in Steps, p \notin {"none", "restore"}, a.pc # "done"
    PROVE  LET b == [Stage(s, status, err) EXCEPT !.pc = p]
           IN  Moves(a, b) /\ b.pc = p
<1> DEFINE n == Stage(s, status, err)
<1>1. n \in Record /\ Still(s, n)
  BY StageType, StageStill
<1>2. Still(a, n)
  <2> HIDE DEF n
  <2> QED BY <1>1 DEF Still
<1> HIDE DEF n
<1>3. LET b == [n EXCEPT !.pc = p] IN Moves(a, b) /\ b.pc = p
  BY <1>1, <1>2, MovesTo
<1> QED BY <1>3 DEF n

(* StartAck.                                                                 *)
LEMMA StartAckRestore ==
    ASSUME RestoreInvariant, TypeOK, TypeOK', NEW r \in Runs, StartAck(r)
    PROVE  RestoreInvariant'
<1>1. rec[r] \in Record /\ rec[r].pc = "start" /\ NoCall.res \notin Actions /\ NoCall.op # "request"
  BY RestoreRecord DEF StartAck, CanStep, NoCall, Actions
<1>2. CASE RecAndTask(r, [Stage(rec[r], "error", "failed") EXCEPT !.pc = "final"], NoCall)
  <2>1. "failed" \in Errors /\ "error" \in Terminal /\ "final" \in Steps
    BY StatusNames, StepNames DEF Errors
  <2> QED BY <1>1, <1>2, <2>1, StillSelf, StagedMoves, TaskRestore DEF Underway
<1>3. CASE RecAndTask(r,
               [rec[r] EXCEPT !.pc     = "cancel",
                              !.status = IF @ = "pending" THEN "interrupted" ELSE @,
                              !.saved  = @ /\ rec[r].status # "pending",
                              !.abort  = IF @ = "none" THEN "interrupt" ELSE @], NoCall)
  <2> DEFINE st == IF rec[r].status = "pending" THEN "interrupted" ELSE rec[r].status
             sv == rec[r].saved /\ rec[r].status # "pending"
             ab == IF rec[r].abort = "none" THEN "interrupt" ELSE rec[r].abort
             b == [rec[r] EXCEPT !.pc = "cancel", !.status = st, !.saved = sv, !.abort = ab]
  <2>1. RecAndTask(r, b, NoCall)
    BY <1>3
  <2>2. ab = rec[r].abort \/ (rec[r].abort = "none" /\ ab = "interrupt")
    OBVIOUS
  <2> HIDE DEF st, sv, ab
  <2>3. b.pc = "cancel" /\ b.abort = ab
    BY <1>1, Zenon DEF Record
  <2>4. /\ b.live = rec[r].live /\ b.home = rec[r].home /\ b.lost = rec[r].lost
        /\ b.started = rec[r].started /\ b.finalizing = rec[r].finalizing
    OBVIOUS
  <2> HIDE DEF b
  <2>5. Moves(rec[r], b)
    BY <1>1, <2>2, <2>3, <2>4 DEF Moves
  <2> QED BY <1>1, <2>1, <2>3, <2>5, TaskRestore DEF Underway
<1>4. CASE /\ rec[r].abort = "none"
           /\ RecAndTask(r, [rec[r] EXCEPT !.pc = "build", !.status = "running", !.started = TRUE], NoCall)
  <2> DEFINE b == [rec[r] EXCEPT !.pc = "build", !.status = "running", !.started = TRUE]
  <2>1. b.pc = "build" /\ b.started = TRUE
    BY <1>1, Zenon DEF Record
  <2>2. /\ b.live = rec[r].live /\ b.home = rec[r].home /\ b.lost = rec[r].lost
        /\ b.abort = rec[r].abort /\ b.finalizing = rec[r].finalizing
    OBVIOUS
  <2>3. RecAndTask(r, b, NoCall)
    BY <1>4
  <2> HIDE DEF b
  <2>4. Moves(rec[r], b)
    BY <1>1, <1>4, <2>1, <2>2 DEF Moves
  <2> QED BY <1>1, <2>3, <2>4, TaskRestore DEF Underway
<1>5. CASE RecAndTask(r, NotStarted(rec[r]), NoCall)
  BY <1>1, <1>5, NotStartedMoves, StillSelf, TaskRestore DEF Underway
<1>6. CASE RecAndTask(r, [rec[r] EXCEPT !.pc = "unstart",
                                        !.pending = @ \/ rec[r].status \in Terminal],
                      Send("update", OutcomeOf(rec[r]), rec[r].rev, "none"))
  <2> DEFINE pd == rec[r].pending \/ rec[r].status \in Terminal
             b == [rec[r] EXCEPT !.pc = "unstart", !.pending = pd]
             t == Send("update", OutcomeOf(rec[r]), rec[r].rev, "none")
  <2>1. RecAndTask(r, b, t)
    BY <1>6
  <2>2. t.res \notin Actions /\ t.op # "request"
    BY DEF Send, Actions
  <2> HIDE DEF pd
  <2>3. b.pc = "unstart"
    BY <1>1, Zenon DEF Record
  <2>4. /\ b.live = rec[r].live /\ b.home = rec[r].home /\ b.lost = rec[r].lost
        /\ b.abort = rec[r].abort /\ b.started = rec[r].started /\ b.finalizing = rec[r].finalizing
    OBVIOUS
  <2> HIDE DEF b, t
  <2>5. Moves(rec[r], b)
    BY <1>1, <2>3, <2>4, StillSelf, GoesOn
  <2> QED BY <2>1, <2>2, <2>3, <2>5, TaskRestore DEF Underway
<1> QED BY <1>2, <1>3, <1>4, <1>5, <1>6 DEF StartAck

(* The answer to a status write.                                             *)
LEMMA SettleStill ==
    ASSUME FenceInvariant, NEW r \in Runs, rec[r].live, NEW c \in {tcall[r], ccall[r]},
           NEW others, NEW b, Settle(r, c, others, b), c.ph = "done", c.op \in {"update", "cas"}
    PROVE  b \in Record /\ Still(rec[r], b)
<1>1. rec[r] \in Record /\ b \in Record
  BY RunFacts, SettleFacts
<1>2. b \in {rec[r], Fence(rec[r]), Acknowledge(rec[r], c.out, c.rev)}
  BY DEF Settle
<1>3. Still(rec[r], rec[r]) /\ Still(rec[r], Fence(rec[r])) /\ Still(rec[r], Acknowledge(rec[r], c.out, c.rev))
  BY <1>1, StillSelf, FenceStill, AckStill
<1> QED BY <1>1, <1>2, <1>3

(* UnstartAck.                                                               *)
LEMMA UnstartAckRestore ==
    ASSUME RestoreInvariant, FenceInvariant, TypeOK', NEW r \in Runs, UnstartAck(r)
    PROVE  RestoreInvariant'
<1>1. /\ rec[r] \in Record /\ rec[r].pc = "unstart" /\ rec[r].live /\ tcall[r].ph = "done" /\ CallsMatch(r)
      /\ TypeOK /\ NoCall.res \notin Actions /\ NoCall.op # "request"
  BY RunFacts DEF UnstartAck, Alive, NoCall, Actions, FenceInvariant
<1>2. tcall[r].op \in {"update", "cas"}
  BY <1>1 DEF CallsMatch
<1>3. PICK b : /\ Settle(r, tcall[r], CancelAttempt(r) \/ AdmissionAttempt(r), b)
               /\ RecAndTask(r, NotStarted(b), NoCall)
  BY DEF UnstartAck
<1>4. b \in Record /\ Still(rec[r], b)
  BY <1>1, <1>2, <1>3, SettleStill
<1>5. Moves(rec[r], NotStarted(b)) /\ NotStarted(b).pc \in {"cancel", "final"}
  BY <1>1, <1>4, NotStartedMoves
<1> QED BY <1>1, <1>3, <1>5, TaskRestore DEF Underway

(* PutBegin and PutAck.                                                      *)
LEMMA PutRestore ==
    ASSUME RestoreInvariant, TypeOK, TypeOK', NEW r \in Runs, PutBegin(r) \/ PutAck(r)
    PROVE  RestoreInvariant'
<1>1. rec[r] \in Record /\ NoCall.res \notin Actions /\ NoCall.op # "request"
  BY RestoreRecord DEF NoCall, Actions
<1>2. ASSUME NEW p \in {"put", "run"}, NEW t, RecAndTask(r, [rec[r] EXCEPT !.pc = p], t),
             t.res \notin Actions, t.op # "request", rec[r].pc \in Underway
      PROVE  RestoreInvariant'
  <2> DEFINE b == [rec[r] EXCEPT !.pc = p]
  <2>1. RecAndTask(r, b, t)
    BY <1>2
  <2>2. rec[r].pc # "done"
    BY <1>2 DEF Underway
  <2>3. Moves(rec[r], b)
    BY <1>1, <2>2, StillSelf, MovesTo
  <2> HIDE DEF b
  <2> QED BY <1>2, <2>1, <2>3, TaskRestore
<1>3. CASE PutBegin(r)
  <2> DEFINE t == Send("put", [status |-> rec[r].status, err |-> ""], rec[r].rev, "none")
  <2>1. RecAndTask(r, [rec[r] EXCEPT !.pc = "put"], t) /\ rec[r].pc = "build"
    BY <1>3 DEF PutBegin, CanStep
  <2>2. t.res \notin Actions /\ t.op # "request"
    BY DEF Send, Actions
  <2> HIDE DEF t
  <2> QED BY <1>2, <2>1, <2>2 DEF Underway
<1>4. CASE PutAck(r) /\ RecAndTask(r, [rec[r] EXCEPT !.pc = "run"], NoCall)
  BY <1>1, <1>2, <1>4 DEF PutAck, Underway
<1>5. CASE PutAck(r) /\ RecAndTask(r, [Stage(rec[r], "error", "failed") EXCEPT !.pc = "final"], NoCall)
  <2>1. "failed" \in Errors /\ "error" \in Terminal /\ "final" \in Steps /\ rec[r].pc = "put"
    BY <1>5, StatusNames, StepNames DEF Errors, PutAck
  <2> QED BY <1>1, <1>5, <2>1, StillSelf, StagedMoves, TaskRestore DEF Underway
<1> QED BY <1>3, <1>4, <1>5 DEF PutAck

(* Finish and FailRun.                                                       *)
LEMMA FinishRestore ==
    ASSUME RestoreInvariant, TypeOK, TypeOK', NEW r \in Runs,
           FailRun(r) \/ \E status \in {"success", "error"} : Finish(r, status)
    PROVE  RestoreInvariant'
<1>1. /\ "failed" \in Errors /\ "" \in Errors /\ "final" \in Steps
      /\ "error" \in Terminal /\ "success" \in Terminal
  BY StatusNames, StepNames DEF Errors
<1>3. rec[r] \in Record /\ rec[r].pc # "done"
  BY RestoreRecord DEF FailRun, Finish, CanStep
<1>4. ASSUME NEW status \in Terminal, NEW err \in Errors
      PROVE  LET b == [Stage(rec[r], status, err) EXCEPT !.pc = "final"]
             IN  Moves(rec[r], b) /\ b.pc = "final"
  <2>1. "final" \in Steps /\ "final" \notin {"none", "restore"} /\ Still(rec[r], rec[r])
    BY <1>1, StillSelf
  <2>2. rec[r] \in Record /\ rec[r].pc # "done"
    BY <1>3
  <2> QED BY <2>1, <2>2, StagedMoves
<1>2. PICK status \in Terminal, err \in Errors :
        OnlyRec(r, [Stage(rec[r], status, err) EXCEPT !.pc = "final"])
  <2>1. CASE FailRun(r)
    BY <1>1, <2>1, Zenon DEF FailRun
  <2>2. ASSUME NEW st \in {"success", "error"}, Finish(r, st)
        PROVE  \E status \in Terminal, err \in Errors :
                 OnlyRec(r, [Stage(rec[r], status, err) EXCEPT !.pc = "final"])
    <3> DEFINE e == IF st = "error" THEN "failed" ELSE ""
    <3>1. OnlyRec(r, [Stage(rec[r], st, e) EXCEPT !.pc = "final"]) /\ e \in Errors /\ st \in Terminal
      BY <1>1, <2>2, Zenon DEF Finish
    <3> HIDE DEF e
    <3> QED BY <3>1
  <2> QED BY <2>1, <2>2
<1> DEFINE b == [Stage(rec[r], status, err) EXCEPT !.pc = "final"]
<1>6. Moves(rec[r], b) /\ b.pc = "final"
  BY <1>4
<1>5. OnlyRec(r, b)
  BY <1>2
<1> HIDE DEF b
<1> QED BY <1>5, <1>6, TaskRestore DEF Underway

(* A fenced task goes to its end.                                            *)
LEMMA FencedRestore ==
    ASSUME RestoreInvariant, TypeOK, TypeOK', NEW r \in Runs, Fenced(r)
    PROVE  RestoreInvariant'
<1> DEFINE b == [rec[r] EXCEPT !.pc = "tail"]
<1>1. rec[r] \in Record /\ NoCall.res \notin Actions /\ NoCall.op # "request"
  BY RestoreRecord DEF NoCall, Actions
<1>2. RecAndTask(r, b, NoCall)
  BY DEF Fenced
<1>3. rec[r].pc # "done" /\ "tail" \notin {"none", "restore"} /\ Still(rec[r], rec[r])
  BY StillSelf DEF Fenced
<1>4. Moves(rec[r], b) /\ b.pc = "tail"
  BY <1>1, <1>3, MovesTo
<1> HIDE DEF b
<1> QED BY <1>1, <1>2, <1>4, TaskRestore DEF Underway

(* _finish_cancellation raises the flag before it restores.                  *)
LEMMA FinishCancellationRestore ==
    ASSUME RestoreInvariant, TypeOK, TypeOK', NEW r \in Runs, FinishCancellation(r)
    PROVE  RestoreInvariant'
<1> DEFINE a == [rec[r] EXCEPT !.finalizing = TRUE]
           next == IF a.stage = 0 THEN "final" ELSE "persist"
<1>1. rec[r] \in Record /\ rec[r].pc = "cancel"
  BY RestoreRecord DEF FinishCancellation, CanStep
<1>2. PICK err \in {"", "cleanup"} :
        IF a.abort = "rollback"
        THEN OnlyRec(r, [Stage([a EXCEPT !.rollback = TRUE], "error", "rolledback")
                           EXCEPT !.pc = IF a.started THEN "restore" ELSE next])
        ELSE OnlyRec(r, [Stage(a, "interrupted", err) EXCEPT !.pc = next])
  BY DEF FinishCancellation
<1>3. next \in {"final", "persist"} /\ err \in Errors /\ "rolledback" \in Errors
  BY DEF Errors
<1>4. a \in Record /\ SameTask(rec[r], a) /\ a.finalizing = TRUE /\ a.pc = "cancel"
  BY <1>1, SetFinalizing
<1> HIDE DEF a, next
<1>5. ASSUME NEW s \in Record, Still(a, s), NEW status \in Terminal, NEW e \in Errors, NEW p \in Steps,
             p \in {"final", "persist"} \/ (p = "restore" /\ a.abort = "rollback" /\ a.started),
             OnlyRec(r, [Stage(s, status, e) EXCEPT !.pc = p])
      PROVE  RestoreInvariant'
  <2> DEFINE n == Stage(s, status, e)
             b == [n EXCEPT !.pc = p]
  <2>1. n \in Record /\ Still(s, n)
    BY StageType, StageStill
  <2>2. OnlyRec(r, b)
    BY <1>5
  <2> HIDE DEF n
  <2>3. SameTask(n, b) /\ b.finalizing = n.finalizing /\ b.pc = p
    BY <2>1, SetPc
  <2> HIDE DEF b
  <2>4. Moves(rec[r], b)
    BY <1>1, <1>4, <1>5, <2>1, <2>3 DEF Still, Moves, SameTask
  <2> QED BY <1>5, <2>2, <2>3, <2>4, TaskRestore DEF Underway
<1>6. CASE a.abort = "rollback"
  <2> DEFINE s == [a EXCEPT !.rollback = TRUE]
             p == IF a.started THEN "restore" ELSE next
  <2>1. OnlyRec(r, [Stage(s, "error", "rolledback") EXCEPT !.pc = p])
    BY <1>2, <1>6
  <2>2. s \in Record /\ Still(a, s)
    BY <1>4, SetRollback
  <2>4. p \in {"final", "persist"} \/ (p = "restore" /\ a.abort = "rollback" /\ a.started)
    BY <1>3, <1>6
  <2>5. p \in Steps
    BY <2>4, StepNames
  <2> HIDE DEF s, p
  <2> QED BY <1>3, <1>5, <2>1, <2>2, <2>4, <2>5, StatusNames
<1>7. CASE a.abort # "rollback"
  <2>1. OnlyRec(r, [Stage(a, "interrupted", err) EXCEPT !.pc = next])
    BY <1>2, <1>7
  <2> QED BY <1>3, <1>4, <1>5, <2>1, StillSelf, StatusNames, StepNames
<1> QED BY <1>6, <1>7

(* What goes with a new position leaves the rest of the task alone.          *)
LEMMA SetPcPending ==
    ASSUME NEW a \in Record, NEW p, NEW x
    PROVE  LET b == [a EXCEPT !.pc = p, !.pending = x]
           IN  SameTask(a, b) /\ b.finalizing = a.finalizing /\ b.pc = p
<1> DEFINE b == [a EXCEPT !.pc = p, !.pending = x]
<1>1. b.pc = p
  BY Zenon DEF Record
<1>2. /\ b.live = a.live /\ b.home = a.home /\ b.lost = a.lost
      /\ b.abort = a.abort /\ b.started = a.started /\ b.finalizing = a.finalizing
  OBVIOUS
<1> HIDE DEF b
<1>3. SameTask(a, b)
  BY <1>2 DEF SameTask
<1> QED BY <1>1, <1>2, <1>3 DEF b

LEMMA SetPcStage ==
    ASSUME NEW a \in Record, NEW p, NEW x
    PROVE  LET b == [a EXCEPT !.pc = p, !.stage = x]
           IN  SameTask(a, b) /\ b.finalizing = a.finalizing /\ b.pc = p
<1> DEFINE b == [a EXCEPT !.pc = p, !.stage = x]
<1>1. b.pc = p
  BY Zenon DEF Record
<1>2. /\ b.live = a.live /\ b.home = a.home /\ b.lost = a.lost
      /\ b.abort = a.abort /\ b.started = a.started /\ b.finalizing = a.finalizing
  OBVIOUS
<1> HIDE DEF b
<1>3. SameTask(a, b)
  BY <1>2 DEF SameTask
<1> QED BY <1>1, <1>2, <1>3 DEF b

LEMMA SetOne ==
    ASSUME NEW a \in Record, NEW x \in BOOLEAN, NEW n \in 0 .. 2, NEW l \in Left
    PROVE  /\ [a EXCEPT !.pending = x] \in Record /\ Still(a, [a EXCEPT !.pending = x])
           /\ [a EXCEPT !.stage = n] \in Record /\ Still(a, [a EXCEPT !.stage = n])
           /\ [a EXCEPT !.armed = x] \in Record /\ Still(a, [a EXCEPT !.armed = x])
           /\ [a EXCEPT !.left = l] \in Record /\ Still(a, [a EXCEPT !.left = l])
           /\ Still(a, [a EXCEPT !.armed = x])
<1>1. [a EXCEPT !.pending = x] \in Record /\ [a EXCEPT !.stage = n] \in Record
  BY Zenon DEF Record
<1>2. [a EXCEPT !.armed = x] \in Record /\ [a EXCEPT !.left = l] \in Record
  BY Zenon DEF Record
<1>3. Still(a, [a EXCEPT !.pending = x])
  BY DEF Still
<1>4. Still(a, [a EXCEPT !.stage = n])
  BY DEF Still
<1>5. Still(a, [a EXCEPT !.armed = x])
  BY DEF Still
<1>6. Still(a, [a EXCEPT !.left = l])
  BY DEF Still
<1> QED BY <1>1, <1>2, <1>3, <1>4, <1>5, <1>6

(* A change of position, with any of the flags above.                        *)
LEMMA MovesOn ==
    ASSUME NEW a, NEW s, NEW b, NEW p, Still(a, s), SameTask(s, b), b.finalizing = s.finalizing,
           b.pc = p, p \notin {"none", "restore"}, a.pc = "done" => p = "done"
    PROVE  Moves(a, b)
BY GoesOn DEF SameTask

(* ReceiptLost.                                                              *)
LEMMA ReceiptLostRestore ==
    ASSUME RestoreInvariant, TypeOK, TypeOK', NEW r \in Runs, ReceiptLost(r)
    PROVE  RestoreInvariant'
<1> DEFINE b == Stage(rec[r], "error", "failed")
<1>1. rec[r] \in Record /\ rec[r].pc = "final" /\ OnlyRec(r, b)
  BY RestoreRecord DEF ReceiptLost, CanStep
<1>2. Still(rec[r], b)
  BY <1>1, StageStill
<1> HIDE DEF b
<1>3. Moves(rec[r], b) /\ b.pc = "final"
  BY <1>1, <1>2, StillMoves DEF Still
<1> QED BY <1>1, <1>3, TaskRestore DEF Underway

(* A run that finalizes goes on, with or without a store call.               *)
LEMMA FinalRestore ==
    ASSUME RestoreInvariant, TypeOK, TypeOK', NEW r \in Runs, NEW s, NEW b, NEW t,
           Still(rec[r], s), SameTask(s, b), b.finalizing = s.finalizing,
           b.pc \in {"cancel", "persist", "tail", "commit", "seal"}, rec[r].pc # "done",
           OnlyRec(r, b) \/ (RecAndTask(r, b, t) /\ t.res \notin Actions /\ t.op # "request")
    PROVE  RestoreInvariant'
<1>1. Moves(rec[r], b)
  BY MovesOn
<1> QED BY <1>1, TaskRestore DEF Underway

(* Arbitrate.                                                                *)
LEMMA ArbitrateRestore ==
    ASSUME RestoreInvariant, TypeOK, TypeOK', NEW r \in Runs, Arbitrate(r)
    PROVE  RestoreInvariant'
<1> DEFINE s == [rec[r] EXCEPT !.stage = 1]
<1>1. rec[r] \in Record /\ rec[r].pc = "final"
  BY RestoreRecord DEF Arbitrate, CanStep
<1>2. s \in Record /\ Still(rec[r], s)
  <2>1. 1 \in 0 .. 2 /\ TRUE \in BOOLEAN /\ rec[r].left \in Left
    BY <1>1, FieldTypes
  <2> QED BY <1>1, <2>1, SetOne
<1>3. \/ OnlyRec(r, [s EXCEPT !.pc = IF s.status = "success" THEN "cancel" ELSE "persist"])
      \/ OnlyRec(r, [s EXCEPT !.pc = "tail"])
      \/ RecAndTask(r, [s EXCEPT !.pc = "commit", !.pending = TRUE],
                    Send("cas", OutcomeOf(s), s.rev, "none"))
  BY Zenon DEF Arbitrate
<1> HIDE DEF s
<1>4. ASSUME NEW p \in {"cancel", "persist", "tail"}, OnlyRec(r, [s EXCEPT !.pc = p])
      PROVE  RestoreInvariant'
  <2> DEFINE b == [s EXCEPT !.pc = p]
  <2>1. SameTask(s, b) /\ b.finalizing = s.finalizing /\ b.pc = p
    BY <1>2, SetPc
  <2>2. OnlyRec(r, b)
    BY <1>4
  <2> HIDE DEF b
  <2> QED BY <1>1, <1>2, <2>1, <2>2, FinalRestore
<1>5. CASE OnlyRec(r, [s EXCEPT !.pc = IF s.status = "success" THEN "cancel" ELSE "persist"])
  <2> DEFINE p == IF s.status = "success" THEN "cancel" ELSE "persist"
  <2>1. p \in {"cancel", "persist", "tail"} /\ OnlyRec(r, [s EXCEPT !.pc = p])
    BY <1>5
  <2> HIDE DEF p
  <2> QED BY <1>4, <2>1
<1>6. CASE RecAndTask(r, [s EXCEPT !.pc = "commit", !.pending = TRUE],
                      Send("cas", OutcomeOf(s), s.rev, "none"))
  <2> DEFINE b == [s EXCEPT !.pc = "commit", !.pending = TRUE]
             t == Send("cas", OutcomeOf(s), s.rev, "none")
  <2>1. SameTask(s, b) /\ b.finalizing = s.finalizing /\ b.pc = "commit"
    BY <1>2, SetPcPending
  <2>2. RecAndTask(r, b, t)
    BY <1>6
  <2>3. t.res \notin Actions /\ t.op # "request"
    BY DEF Send, Actions
  <2> HIDE DEF b, t
  <2> QED BY <1>1, <1>2, <2>1, <2>2, <2>3, FinalRestore
<1> QED BY <1>3, <1>4, <1>5, <1>6

(* PersistBegin.                                                             *)
LEMMA PersistRestore ==
    ASSUME RestoreInvariant, TypeOK, TypeOK', NEW r \in Runs, PersistBegin(r)
    PROVE  RestoreInvariant'
<1>1. rec[r] \in Record /\ rec[r].pc = "persist" /\ Still(rec[r], rec[r])
  BY RestoreRecord, StillSelf DEF PersistBegin, CanStep
<1>2. CASE OnlyRec(r, [rec[r] EXCEPT !.saved = FinalAck(rec[r]), !.pc = AfterCommit(rec[r])])
  <2> DEFINE f == FinalAck(rec[r])
             p == AfterCommit(rec[r])
             b == [rec[r] EXCEPT !.saved = f, !.pc = p]
  <2>1. OnlyRec(r, b) /\ p \in {"seal", "tail"}
    BY <1>1, <1>2, AfterCommitStep
  <2>2. SameTask(rec[r], b) /\ b.finalizing = rec[r].finalizing /\ b.pc = p
    <3>1. b.pc = p
      BY <1>1, Zenon DEF Record
    <3>2. SameTask(rec[r], b) /\ b.finalizing = rec[r].finalizing
      BY DEF SameTask
    <3> QED BY <3>1, <3>2
  <2> HIDE DEF b, f, p
  <2> QED BY <1>1, <2>1, <2>2, FinalRestore
<1>3. CASE RecAndTask(r, [rec[r] EXCEPT !.pc = "commit", !.pending = TRUE],
                      Send("update", OutcomeOf(rec[r]), rec[r].rev, "none"))
  <2> DEFINE b == [rec[r] EXCEPT !.pc = "commit", !.pending = TRUE]
             t == Send("update", OutcomeOf(rec[r]), rec[r].rev, "none")
  <2>1. SameTask(rec[r], b) /\ b.finalizing = rec[r].finalizing /\ b.pc = "commit"
    BY <1>1, SetPcPending
  <2>2. RecAndTask(r, b, t)
    BY <1>3
  <2>3. t.res \notin Actions /\ t.op # "request"
    BY DEF Send, Actions
  <2> HIDE DEF b, t
  <2> QED BY <1>1, <2>1, <2>2, <2>3, FinalRestore
<1> QED BY <1>2, <1>3, Zenon DEF PersistBegin

(* CommitAck: no answer carries an action, as none was asked for.            *)
LEMMA CommitAckRestore ==
    ASSUME RestoreInvariant, FenceInvariant, TypeOK', NEW r \in Runs, CommitAck(r)
    PROVE  RestoreInvariant'
<1>1. /\ rec[r] \in Record /\ rec[r].pc = "commit" /\ rec[r].live /\ tcall[r].ph = "done" /\ CallsMatch(r)
      /\ TypeOK /\ NoCall.res \notin Actions /\ NoCall.op # "request"
  BY RunFacts DEF CommitAck, Alive, NoCall, Actions, FenceInvariant
<1>2. tcall[r].op \in {"update", "cas"} /\ tcall[r].res \notin Actions
  BY <1>1 DEF CallsMatch, RestoreInvariant, NotAsked
<1>3. PICK s : /\ Settle(r, tcall[r], CancelAttempt(r) \/ AdmissionAttempt(r), s)
               /\ RecAndTask(r, [s EXCEPT !.pc = AfterCommit(s), !.saved = FinalAck(s)], NoCall)
  BY <1>2 DEF CommitAck
<1>4. s \in Record /\ Still(rec[r], s)
  BY <1>1, <1>2, <1>3, SettleStill
<1> DEFINE f == FinalAck(s)
           p == AfterCommit(s)
           b == [s EXCEPT !.pc = p, !.saved = f]
<1>5. RecAndTask(r, b, NoCall) /\ p \in {"seal", "tail"}
  BY <1>3, <1>4, AfterCommitStep
<1>6. SameTask(s, b) /\ b.finalizing = s.finalizing /\ b.pc = p
  <2>1. b.pc = p
    BY <1>4, Zenon DEF Record
  <2>2. SameTask(s, b) /\ b.finalizing = s.finalizing
    BY DEF SameTask
  <2> QED BY <2>1, <2>2
<1> HIDE DEF b, f, p
<1> QED BY <1>1, <1>4, <1>5, <1>6, FinalRestore

(* Tail.                                                                     *)
LEMMA TailRestore ==
    ASSUME RestoreInvariant, TypeOK, TypeOK', NEW r \in Runs, Tail(r)
    PROVE  RestoreInvariant'
<1> DEFINE x == rec[r].pending /\ ~(rec[r].lost \/ FinalAck(rec[r]))
           s == [rec[r] EXCEPT !.pending = x]
<1>1. rec[r] \in Record /\ rec[r].pc = "tail"
  BY RestoreRecord DEF Tail, CanStep
<1>2. \/ OnlyRec(r, [s EXCEPT !.pc = "persist", !.stage = 2])
      \/ OnlyRec(r, [s EXCEPT !.pc = "seal"])
  BY Zenon DEF Tail
<1>3. s \in Record /\ Still(rec[r], s)
  <2>1. 1 \in 0 .. 2 /\ rec[r].left \in Left /\ x \in BOOLEAN
    BY <1>1, FieldTypes
  <2> HIDE DEF x
  <2> QED BY <1>1, <2>1, SetOne
<1> HIDE DEF s
<1>4. CASE OnlyRec(r, [s EXCEPT !.pc = "persist", !.stage = 2])
  <2> DEFINE b == [s EXCEPT !.pc = "persist", !.stage = 2]
  <2>1. SameTask(s, b) /\ b.finalizing = s.finalizing /\ b.pc = "persist"
    BY <1>3, SetPcStage
  <2>2. OnlyRec(r, b)
    BY <1>4
  <2> HIDE DEF b
  <2> QED BY <1>1, <1>3, <2>1, <2>2, FinalRestore
<1>5. CASE OnlyRec(r, [s EXCEPT !.pc = "seal"])
  <2> DEFINE b == [s EXCEPT !.pc = "seal"]
  <2>1. SameTask(s, b) /\ b.finalizing = s.finalizing /\ b.pc = "seal"
    BY <1>3, SetPc
  <2>2. OnlyRec(r, b)
    BY <1>5
  <2> HIDE DEF b
  <2> QED BY <1>1, <1>3, <2>1, <2>2, FinalRestore
<1> QED BY <1>2, <1>4, <1>5

(* Seal and End: the task is over, and keeps no flag.                        *)
LEMMA SealRestore ==
    ASSUME RestoreInvariant, TypeOK, TypeOK', NEW r \in Runs, Seal(r)
    PROVE  RestoreInvariant'
<1> DEFINE b == [rec[r] EXCEPT !.pc = "end"]
<1>1. rec[r] \in Record /\ rec[r].pc = "seal" /\ Still(rec[r], rec[r])
  BY RestoreRecord, StillSelf DEF Seal
<1>2. rec' = [rec EXCEPT ![r] = b] /\ UNCHANGED <<rows, older, adm, tcall, ccall, rcall>>
  BY DEF Seal
<1>3. Moves(rec[r], b) /\ b.pc = "end"
  BY <1>1, MovesTo
<1>4. \A q \in Runs : NotAsked(q)'
  BY <1>2 DEF RestoreInvariant, NotAsked
<1> HIDE DEF b
<1> QED BY <1>2, <1>3, <1>4, LocalRestore DEF Underway

LEMMA EndRestore ==
    ASSUME RestoreInvariant, TypeOK, TypeOK', NEW r \in Runs, End(r)
    PROVE  RestoreInvariant'
<1> DEFINE b == [rec[r] EXCEPT !.finalizing = FALSE, !.pc = "done"]
<1>1. rec[r] \in Record
  BY RestoreRecord
<1>2. rec' = [rec EXCEPT ![r] = b] /\ UNCHANGED <<rows, older, adm, tcall, ccall, rcall>>
  BY DEF End
<1>3. b.pc = "done"
  BY <1>1, Zenon DEF Record
<1>4. /\ b.live = rec[r].live /\ b.home = rec[r].home /\ b.lost = rec[r].lost
      /\ b.abort = rec[r].abort /\ b.started = rec[r].started
  OBVIOUS
<1> HIDE DEF b
<1>5. Moves(rec[r], b)
  BY <1>3, <1>4 DEF Moves
<1>6. \A q \in Runs : NotAsked(q)'
  BY <1>2 DEF RestoreInvariant, NotAsked
<1> QED BY <1>2, <1>3, <1>5, <1>6, LocalRestore DEF Underway

(* A record that its worker no longer keeps.                                 *)
LEMMA UnregisteredGone ==
    ASSUME NEW w, NEW l
    PROVE  Gone(Unregistered(w, l))
BY DEF Gone, Unregistered, NoRecord

LEMMA EvictRestore ==
    ASSUME RestoreInvariant, TypeOK, TypeOK', NEW r \in Runs, Evict(r)
    PROVE  RestoreInvariant'
<1> DEFINE b == Unregistered(rec[r].home, rec[r].left)
<1>1. OnlyRec(r, b)
  BY DEF Evict
<1>2. Gone(b)
  BY UnregisteredGone
<1> HIDE DEF b
<1>3. Moves(rec[r], b) /\ b.pc = "done"
  BY <1>2 DEF Moves, Gone
<1> QED BY <1>1, <1>3, TaskRestore DEF Underway

(* A step of the run's task.                                                 *)
LEMMA TaskStepRestore ==
    ASSUME RestoreInvariant, FenceInvariant, TypeOK', NEW r \in Runs, TaskStep(r)
    PROVE  RestoreInvariant'
<1>1. TypeOK
  BY DEF FenceInvariant
<1>2. CASE Attach(r) \/ SkipEvidence(r) \/ Interrupted(r) \/ Restore(r)
  BY <1>1, <1>2, MoveRestore
<1>3. CASE StartCheck(r) \/ StartAck(r) \/ UnstartAck(r)
  BY <1>1, <1>3, StartCheckRestore, StartAckRestore, UnstartAckRestore
<1>4. CASE PutBegin(r) \/ PutAck(r)
  BY <1>1, <1>4, PutRestore
<1>5. CASE FailRun(r) \/ \E status \in {"success", "error"} : Finish(r, status)
  BY <1>1, <1>5, FinishRestore
<1>6. CASE Fenced(r) \/ FinishCancellation(r)
  BY <1>1, <1>6, FencedRestore, FinishCancellationRestore
<1>7. CASE ReceiptLost(r) \/ Arbitrate(r) \/ PersistBegin(r) \/ CommitAck(r)
  BY <1>1, <1>7, ReceiptLostRestore, ArbitrateRestore, PersistRestore, CommitAckRestore
<1>8. CASE Tail(r) \/ Seal(r) \/ End(r) \/ Evict(r)
  BY <1>1, <1>8, TailRestore, SealRestore, EndRestore, EvictRestore
<1> QED BY <1>2, <1>3, <1>4, <1>5, <1>6, <1>7, <1>8 DEF TaskStep

-----------------------------------------------------------------------------
(* The store.                                                                *)

(* What a call without a request may answer, and what it leaves of the row.  *)
LEMMA QuietCall ==
    ASSUME NEW row \in Row, row.cancel = "none", NEW status, NEW w
    PROVE  /\ StartRun(row).cancel = "none" /\ UpdateStatus(row, status, w).cancel = "none"
           /\ FinalizeIfNotCancelled(row, status, w).cancel = "none"
           /\ FinalizeReply(row, w) \notin Actions
BY DEF StartRun, UpdateStatus, FinalizeIfNotCancelled, FinalizeReply, Actions, Row

LEMMA TaskStoreRestore ==
    ASSUME RestoreInvariant, TypeOK, TypeOK', NEW r \in Runs, TaskStore(r),
           \A q \in Runs : rows[q].status \in Terminal => rows'[q].status \in Terminal
    PROVE  RestoreInvariant'
<1>1. /\ rows[r] \in Row /\ tcall[r] \in Call /\ rows[r].cancel = "none"
      /\ tcall[r].res \notin Actions /\ tcall[r].op # "request"
  BY DEF TypeOK, RestoreInvariant, NotAsked
<1>2. UNCHANGED <<older, rec, ccall, rcall, adm>>
  BY DEF TaskStore
<1>3. /\ \A q \in Runs \ {r} : rows'[q] = rows[q] /\ tcall'[q] = tcall[q]
      /\ rows'[r] \in {rows[r], Apply(r, tcall[r])}
      /\ tcall'[r] = Raised(tcall[r]) \/ tcall'[r] \in Seen(tcall[r], Answer(r, tcall[r]))
  BY DEF TaskStore, TypeOK
<1>4. Apply(r, tcall[r]).cancel = "none"
  <2>1. PutRow(rows[r], tcall[r].out.status, rec[r].left, rec[r].home).cancel = "none"
    BY <1>1 DEF PutRow
  <2> QED BY <1>1, <2>1, QuietCall DEF Apply
<1>5. Answer(r, tcall[r]) \in {"ok", "no", "exc"}
  BY <1>1 DEF Answer, FinalizeReply
<1>6. tcall'[r].res \notin Actions /\ tcall'[r].op # "request"
  <2>1. \A c \in Seen(tcall[r], Answer(r, tcall[r])) : c.res \notin Actions /\ c.op # "request"
    BY <1>1, <1>5 DEF Seen, Call, Actions
  <2>2. Raised(tcall[r]).res \notin Actions /\ Raised(tcall[r]).op # "request"
    BY <1>1 DEF Raised, Call, Actions
  <2> QED BY <1>3, <2>1, <2>2
<1>7. \A q \in Runs : NotAsked(q)'
  BY <1>1, <1>2, <1>3, <1>4, <1>6 DEF RestoreInvariant, NotAsked
<1>8. \A q \in Runs : Moves(rec[q], rec'[q])
  BY <1>2, StillSelf, StillMoves
<1> QED BY <1>2, <1>7, <1>8, RestoreRule

-----------------------------------------------------------------------------
(* Cancellation: nobody asks.                                                *)

LEMMA CancelRestore ==
    ASSUME RestoreInvariant, Requests = {}, NEW r \in Runs, CancelStep(r) \/ CancelStore(r)
    PROVE  FALSE
<1>1. ccall[r].ph = "idle"
  BY DEF RestoreInvariant, NotAsked
<1> QED BY <1>1 DEF CancelStep, CancelStore, CancelApply, CancelAck

-----------------------------------------------------------------------------
(* The lease.                                                                *)

(* A step of the heartbeat, which brings no request.                         *)
LEMMA RenewRestore ==
    ASSUME RestoreInvariant, TypeOK, TypeOK', NEW r \in Runs, NEW b, NEW c, RenewCall(r, b, c),
           Still(rec[r], b), c.cancel = "none", c.ph # "signal"
    PROVE  RestoreInvariant'
<1>1. /\ rec' = [rec EXCEPT ![r] = b] /\ UNCHANGED <<rows, older, adm, tcall, ccall>>
      /\ rcall'[r] = c /\ \A q \in Runs \ {r} : rcall'[q] = rcall[q]
  BY DEF RenewCall, TypeOK
<1>2. Moves(rec[r], b) /\ b.pc = rec[r].pc
  BY StillMoves DEF Still
<1>3. \A q \in Runs : NotAsked(q)'
  BY <1>1 DEF RestoreInvariant, NotAsked
<1> QED BY <1>1, <1>2, <1>3, LocalRestore

LEMMA RearmStill ==
    ASSUME NEW a \in Record
    PROVE  Rearm(a) \in Record /\ Still(a, Rearm(a))
<1> DEFINE f == ~FinalAck(a)
           b == [a EXCEPT !.armed = f]
<1>1. Rearm(a) = b /\ f \in BOOLEAN
  BY DEF Rearm
<1> HIDE DEF f
<1>2. b \in Record
  BY <1>1, Zenon DEF Record
<1>3. Still(a, b)
  BY DEF Still
<1> HIDE DEF b
<1> QED BY <1>1, <1>2, <1>3

LEMMA PendingStill ==
    ASSUME NEW a \in Record
    PROVE  Still(a, [a EXCEPT !.pending = FALSE])
BY DEF Still

LEMMA StillTwice ==
    ASSUME NEW a, NEW s, NEW b, Still(a, s), Still(s, b)
    PROVE  Still(a, b)
BY DEF Still

LEMMA RenewBeginRestore ==
    ASSUME RestoreInvariant, TypeOK, TypeOK', NEW r \in Runs, RenewBegin(r)
    PROVE  RestoreInvariant'
<1> DEFINE s == Rearm(rec[r])
<1>1. rec[r] \in Record
  BY RestoreRecord
<1>2. \/ RenewCall(r, [s EXCEPT !.pending = FALSE], NoRenewal)
      \/ RenewCall(r, Fence(s), NoRenewal)
      \/ RenewCall(r, s, SendRenewal(AllowInterrupted(s), FALSE))
  BY Zenon DEF RenewBegin
<1>3. s \in Record /\ Still(rec[r], s)
  BY <1>1, RearmStill
<1> HIDE DEF s
<1>4. NoRenewal.cancel = "none" /\ NoRenewal.ph # "signal"
  BY DEF NoRenewal
<1>5. CASE RenewCall(r, [s EXCEPT !.pending = FALSE], NoRenewal)
  <2> DEFINE b == [s EXCEPT !.pending = FALSE]
  <2>1. Still(rec[r], b)
    BY <1>3, PendingStill, StillTwice
  <2>2. RenewCall(r, b, NoRenewal)
    BY <1>5
  <2> HIDE DEF b
  <2> QED BY <1>4, <2>1, <2>2, RenewRestore
<1>6. CASE RenewCall(r, Fence(s), NoRenewal)
  BY <1>3, <1>4, <1>6, FenceStill, StillTwice, RenewRestore
<1>7. CASE RenewCall(r, s, SendRenewal(AllowInterrupted(s), FALSE))
  <2>1. SendRenewal(AllowInterrupted(s), FALSE).cancel = "none"
        /\ SendRenewal(AllowInterrupted(s), FALSE).ph # "signal"
    BY DEF SendRenewal
  <2> QED BY <1>3, <1>7, <2>1, RenewRestore
<1> QED BY <1>2, <1>5, <1>6, <1>7

LEMMA RenewAckRestore ==
    ASSUME RestoreInvariant, TypeOK, TypeOK', NEW r \in Runs, RenewAck(r)
    PROVE  RestoreInvariant'
<1> DEFINE a == rec[r]
           l == rcall[r].left
           s == [a EXCEPT !.left = l]
<1>1. a \in Record /\ l \in Left
  BY DEF TypeOK, Renewal
<1>2. rcall[r].cancel = "none"
  BY DEF RestoreInvariant, NotAsked
<1>3. \/ RenewCall(r, a, NoRenewal)
      \/ RenewCall(r, Fence(a), NoRenewal)
      \/ RenewCall(r, [a EXCEPT !.pending = FALSE], NoRenewal)
      \/ RenewCall(r, Rearm(s), NoRenewal)
      \/ RenewCall(r, a, SendRenewal(TRUE, TRUE))
  BY <1>2, Zenon DEF RenewAck
<1>4. /\ NoRenewal.cancel = "none" /\ NoRenewal.ph # "signal"
      /\ SendRenewal(TRUE, TRUE).cancel = "none" /\ SendRenewal(TRUE, TRUE).ph # "signal"
  BY DEF NoRenewal, SendRenewal
<1>5. s \in Record /\ Still(a, s)
  <2>1. s \in Record
    BY <1>1, Zenon DEF Record
  <2>2. Still(a, s)
    BY DEF Still
  <2> QED BY <2>1, <2>2
<1>6. CASE RenewCall(r, [a EXCEPT !.pending = FALSE], NoRenewal)
  <2> DEFINE b == [a EXCEPT !.pending = FALSE]
  <2>1. Still(a, b)
    BY <1>1, PendingStill
  <2>2. RenewCall(r, b, NoRenewal)
    BY <1>6
  <2> HIDE DEF b, s, l
  <2> QED BY <1>4, <2>1, <2>2, RenewRestore
<1> HIDE DEF s, l
<1>7. CASE RenewCall(r, Fence(a), NoRenewal)
  BY <1>1, <1>4, <1>7, FenceStill, RenewRestore
<1>8. CASE RenewCall(r, Rearm(s), NoRenewal)
  BY <1>4, <1>5, <1>8, RearmStill, StillTwice, RenewRestore
<1>9. CASE RenewCall(r, a, NoRenewal) \/ RenewCall(r, a, SendRenewal(TRUE, TRUE))
  BY <1>4, <1>9, StillSelf, RenewRestore
<1> QED BY <1>3, <1>6, <1>7, <1>8, <1>9

LEMMA RenewStoreRestore ==
    ASSUME RestoreInvariant, TypeOK, TypeOK', NEW r \in Runs, RenewStore(r),
           \A q \in Runs : rows[q].status \in Terminal => rows'[q].status \in Terminal
    PROVE  RestoreInvariant'
<1>1. /\ rows[r] \in Row /\ rcall[r] \in Renewal /\ rows[r].cancel = "none"
      /\ rcall[r].cancel = "none" /\ UNCHANGED <<older, rec, tcall, ccall, adm>>
  BY DEF TypeOK, RestoreInvariant, NotAsked, RenewStore
<1> DEFINE call == rcall[r]
           ok == RenewLeaseOk(rows[r], call.left, call.allow, rec[r].home)
           answer == [call EXCEPT !.ph = "done", !.res = IF ok THEN "ok" ELSE "no",
                                  !.cancel = IF ok THEN rows[r].cancel ELSE "none"]
           raised == [call EXCEPT !.ph = "done", !.res = "exc"]
           row == RenewLease(rows[r], call.left, call.allow, rec[r].home)
<1>2. /\ rows' \in {rows, [rows EXCEPT ![r] = row]}
      /\ \E c \in {answer, raised} : rcall' = [rcall EXCEPT ![r] = c]
  BY DEF RenewStore
<1>3. row.cancel = "none"
  <2>1. row \in {rows[r], [rows[r] EXCEPT !.left = call.left]}
    BY DEF RenewLease
  <2>2. [rows[r] EXCEPT !.left = call.left].cancel = rows[r].cancel
    OBVIOUS
  <2> QED BY <1>1, <2>1, <2>2
<1>4. answer.cancel = "none" /\ answer.ph = "done" /\ raised.cancel = "none" /\ raised.ph = "done"
  <2> DEFINE x == IF ok THEN "ok" ELSE "no"
             y == IF ok THEN rows[r].cancel ELSE "none"
  <2>1. y = "none"
    BY <1>1
  <2> HIDE DEF x, y, ok
  <2>2. [call EXCEPT !.ph = "done", !.res = x, !.cancel = y].cancel = y
        /\ [call EXCEPT !.ph = "done", !.res = x, !.cancel = y].ph = "done"
    BY <1>1, Zenon DEF Renewal
  <2>3. raised.cancel = call.cancel /\ raised.ph = "done"
    BY <1>1, Zenon DEF Renewal
  <2> QED BY <1>1, <2>1, <2>2, <2>3 DEF x, y
<1> HIDE DEF answer, raised, row
<1>5. \A q \in Runs : NotAsked(q)'
  <2>1. \A q \in Runs : rows'[q].cancel = "none"
    BY <1>1, <1>2, <1>3 DEF RestoreInvariant, NotAsked, TypeOK
  <2>2. \A q \in Runs : rcall'[q].cancel = "none" /\ rcall'[q].ph # "signal"
    BY <1>2, <1>4 DEF RestoreInvariant, NotAsked, TypeOK
  <2> QED BY <1>1, <2>1, <2>2 DEF RestoreInvariant, NotAsked
<1>6. \A q \in Runs : Moves(rec[q], rec'[q])
  BY <1>1, StillSelf, StillMoves
<1> QED BY <1>1, <1>5, <1>6, RestoreRule

LEMMA DeadlineRestore ==
    ASSUME RestoreInvariant, TypeOK, TypeOK', NEW r \in Runs, Deadline(r)
    PROVE  RestoreInvariant'
<1> DEFINE s == Fence(rec[r])
           b == [s EXCEPT !.armed = FALSE]
<1>1. rec[r] \in Record /\ s \in Record /\ Still(rec[r], s)
  BY RestoreRecord, FenceType, FenceStill
<1>2. OnlyRec(r, b)
  BY DEF Deadline
<1> HIDE DEF s
<1>3. Still(s, b)
  BY DEF Still
<1> HIDE DEF b
<1>4. Moves(rec[r], b) /\ b.pc = rec[r].pc
  BY <1>1, <1>3, StillTwice, StillMoves DEF Still
<1> QED BY <1>2, <1>4, TaskRestore

LEMMA TakeoverRestore ==
    ASSUME RestoreInvariant, TypeOK, TypeOK', NEW w \in Workers, NEW r \in Runs, Takeover(w, r)
    PROVE  RestoreInvariant'
<1> DEFINE row == ClaimForTakeover(rows[r])
<1>1. /\ rows[r] \in Row /\ rows[r].cancel = "none" /\ rows' = [rows EXCEPT ![r] = row]
      /\ UNCHANGED <<older, rec, tcall, ccall, rcall, adm>>
  BY DEF Takeover, OnlyRows, TypeOK, RestoreInvariant, NotAsked
<1>2. row.cancel = "none" /\ row.status \in Terminal
  BY <1>1 DEF ClaimForTakeover, Row, Terminal
<1> HIDE DEF row
<1>3. \A q \in Runs : rows'[q].cancel = "none"
  BY <1>1, <1>2 DEF RestoreInvariant, NotAsked, TypeOK
<1>4. \A q \in Runs : NotAsked(q)'
  BY <1>1, <1>3 DEF RestoreInvariant, NotAsked
<1>5. \A q \in Runs : rows[q].status \in Terminal => rows'[q].status \in Terminal
  BY <1>1, <1>2 DEF TypeOK
<1>6. \A q \in Runs : Moves(rec[q], rec'[q])
  BY <1>1, StillSelf, StillMoves
<1> QED BY <1>1, <1>4, <1>5, <1>6, RestoreRule

LEMMA LeaseStepRestore ==
    ASSUME RestoreInvariant, TypeOK, TypeOK', NEW r \in Runs, LeaseStep(r),
           \A q \in Runs : rows[q].status \in Terminal => rows'[q].status \in Terminal
    PROVE  RestoreInvariant'
<1>1. ~Signal(r)
  BY DEF RestoreInvariant, NotAsked, Signal
<1>2. CASE RenewBegin(r) \/ RenewStore(r) \/ RenewAck(r) \/ Deadline(r)
  BY <1>2, RenewBeginRestore, RenewStoreRestore, RenewAckRestore, DeadlineRestore
<1>3. CASE \E w \in Workers : Takeover(w, r)
  BY <1>3, TakeoverRestore
<1> QED BY <1>1, <1>2, <1>3 DEF LeaseStep

-----------------------------------------------------------------------------
(* The environment.                                                          *)

LEMMA TickRestore ==
    ASSUME RestoreInvariant, TypeOK, TypeOK', Tick
    PROVE  RestoreInvariant'
<1>1. /\ rows' = [q \in Runs |-> [rows[q] EXCEPT !.left = Age(rows[q].left)]]
      /\ rec' = [q \in Runs |-> [rec[q] EXCEPT !.left = Age(rec[q].left)]]
      /\ rcall' = [q \in Runs |-> [rcall[q] EXCEPT !.left = Age(rcall[q].left)]]
      /\ adm' = [w \in Workers |-> [adm[w] EXCEPT !.left = Age(adm[w].left)]]
      /\ UNCHANGED <<older, tcall, ccall>>
  BY DEF Tick
<1>2. ASSUME NEW q \in Runs
      PROVE  /\ rows'[q].status = rows[q].status /\ rows'[q].cancel = rows[q].cancel
             /\ rcall'[q].cancel = rcall[q].cancel /\ rcall'[q].ph = rcall[q].ph
             /\ Still(rec[q], rec'[q])
  <2>1. rows'[q].status = rows[q].status /\ rows'[q].cancel = rows[q].cancel
    <3>1. PICK l : rows'[q] = [rows[q] EXCEPT !.left = l]
      BY <1>1
    <3>2. /\ [rows[q] EXCEPT !.left = l].status = rows[q].status
          /\ [rows[q] EXCEPT !.left = l].cancel = rows[q].cancel
      OBVIOUS
    <3> QED BY <3>1, <3>2
  <2>2. rcall'[q].cancel = rcall[q].cancel /\ rcall'[q].ph = rcall[q].ph
    <3>1. PICK l : rcall'[q] = [rcall[q] EXCEPT !.left = l]
      BY <1>1
    <3>2. /\ [rcall[q] EXCEPT !.left = l].cancel = rcall[q].cancel
          /\ [rcall[q] EXCEPT !.left = l].ph = rcall[q].ph
      OBVIOUS
    <3> QED BY <3>1, <3>2
  <2>3. Still(rec[q], rec'[q])
    <3> DEFINE l == Age(rec[q].left)
               b == [rec[q] EXCEPT !.left = l]
    <3>1. rec'[q] = b
      BY <1>1
    <3> HIDE DEF l
    <3>2. Still(rec[q], b)
      BY DEF Still
    <3> QED BY <3>1, <3>2
  <2> QED BY <2>1, <2>2, <2>3
<1>3. \A w \in Workers : /\ adm'[w].ph = adm[w].ph /\ adm'[w].res = adm[w].res
                         /\ adm'[w].claimed = adm[w].claimed
  <2> TAKE w \in Workers
  <2>1. PICK l : adm'[w] = [adm[w] EXCEPT !.left = l]
    BY <1>1
  <2>2. /\ [adm[w] EXCEPT !.left = l].ph = adm[w].ph /\ [adm[w] EXCEPT !.left = l].res = adm[w].res
        /\ [adm[w] EXCEPT !.left = l].claimed = adm[w].claimed
    OBVIOUS
  <2> QED BY <2>1, <2>2
<1>4. \A q \in Runs : NotAsked(q)'
  BY <1>1, <1>2 DEF RestoreInvariant, NotAsked
<1>5. \A q \in Runs : Moves(rec[q], rec'[q]) /\ rec'[q].pc = rec[q].pc
  BY <1>2, StillMoves DEF Still
<1> QED BY <1>1, <1>2, <1>3, <1>4, <1>5, RestoreRule

LEMMA CrashRestore ==
    ASSUME RestoreInvariant, TypeOK, TypeOK', NEW w \in Workers, Crash(w)
    PROVE  RestoreInvariant'
<1>1. /\ adm' = [adm EXCEPT ![w] = NoAdmission] /\ UNCHANGED <<rows, older>>
      /\ rec' = [q \in Runs |-> IF rec[q].home = w THEN Unregistered(w, Floor) ELSE rec[q]]
      /\ tcall' = [q \in Runs |-> IF rec[q].home = w THEN NoCall ELSE tcall[q]]
      /\ ccall' = [q \in Runs |-> IF rec[q].home = w THEN NoCall ELSE ccall[q]]
      /\ rcall' = [q \in Runs |-> IF rec[q].home = w THEN NoRenewal ELSE rcall[q]]
  BY DEF Crash
<1>2. /\ NoCall.res \notin Actions /\ NoCall.op # "request" /\ NoCall.ph = "idle"
      /\ NoRenewal.cancel = "none" /\ NoRenewal.ph # "signal"
  BY DEF NoCall, NoRenewal, Actions
<1>3. \A q \in Runs : NotAsked(q)'
  BY <1>1, <1>2 DEF RestoreInvariant, NotAsked
<1>4. ASSUME NEW q \in Runs
      PROVE  Moves(rec[q], rec'[q]) /\ (rec'[q].pc = rec[q].pc \/ rec'[q].pc = "done")
  <2>1. CASE rec[q].home = w
    <3>1. Gone(rec'[q])
      BY <1>1, <2>1, UnregisteredGone
    <3> QED BY <3>1 DEF Moves, Gone
  <2>2. CASE rec[q].home # w
    BY <1>1, <2>2, StillSelf, StillMoves
  <2> QED BY <2>1, <2>2
<1>5. \A v \in Workers : adm'[v].ph = "done" =>
          adm[v].ph = "done" /\ adm'[v].res = adm[v].res /\ adm'[v].claimed = adm[v].claimed
  BY <1>1 DEF TypeOK, NoAdmission
<1> QED BY <1>1, <1>3, <1>4, <1>5, RestoreRule DEF Underway

-----------------------------------------------------------------------------
(* Admission.                                                                *)

LEMMA AdmitBeginRestore ==
    ASSUME RestoreInvariant, TypeOK, TypeOK', NEW w \in Workers, NEW r \in Runs,
           NEW strategy \in Strategies, AdmitBegin(w, r, strategy)
    PROVE  RestoreInvariant'
<1>1. UNCHANGED <<rows, older, tcall, ccall, rcall>>
  BY DEF AdmitBegin
<1>2. PICK cands :
        rec' = [q \in Runs |-> IF q \in cands THEN [rec[q] EXCEPT !.pending = TRUE] ELSE rec[q]]
  BY DEF AdmitBegin
<1>3. ASSUME NEW q \in Runs PROVE Still(rec[q], rec'[q])
  <2> DEFINE b == [rec[q] EXCEPT !.pending = TRUE]
  <2>1. rec'[q] \in {b, rec[q]}
    BY <1>2
  <2>2. Still(rec[q], b)
    BY DEF Still
  <2> HIDE DEF b
  <2> QED BY <2>1, <2>2, StillSelf
<1>4. \A v \in Workers : adm'[v] = adm[v] \/ adm'[v].ph = "sent"
  BY DEF AdmitBegin, TypeOK
<1>5. \A q \in Runs : NotAsked(q)'
  BY <1>1 DEF RestoreInvariant, NotAsked
<1>6. \A q \in Runs : Moves(rec[q], rec'[q]) /\ rec'[q].pc = rec[q].pc
  BY <1>3, StillMoves DEF Still
<1> QED BY <1>1, <1>4, <1>5, <1>6, RestoreRule

(* The store claims the active rows; no run that is registered came after    *)
(* one of them.                                                              *)
LEMMA AdmitStoreRestore ==
    ASSUME RestoreInvariant, FenceInvariant, TypeOK', NEW w \in Workers, AdmitStore(w)
    PROVE  RestoreInvariant'
<1>1. /\ TypeOK /\ adm[w].ph = "sent" /\ UNCHANGED <<rec, tcall, ccall, rcall>>
      /\ \A q \in Runs : older[q] \subseteq Runs
  BY DEF FenceInvariant, AdmitStore, TypeOK
<1>2. CASE UNCHANGED <<rows, older>> /\ \E res \in {"no", "exc"} :
             adm' = [adm EXCEPT ![w] = Answered(adm[w], res, {})]
  <2>1. adm'[w].res \in {"no", "exc"} /\ \A v \in Workers \ {w} : adm'[v] = adm[v]
    BY <1>1, <1>2 DEF TypeOK, Answered, Admission
  <2>2. \A v \in Workers : AdmissionAlone(v)'
    BY <1>1, <1>2, <2>1 DEF RestoreInvariant, AdmissionAlone
  <2>3. \A q \in Runs : NotAsked(q)' /\ RestoreFits(q)' /\ OlderIsOver(q)' /\ RestoreAlone(q)'
    BY <1>1, <1>2 DEF RestoreInvariant, NotAsked, RestoreFits, OlderIsOver, RestoreAlone
  <2> QED BY <2>2, <2>3 DEF RestoreInvariant
<1>3. CASE \E r \in adm[w].run, res \in {"ok", "exc"} :
             /\ rows' = CreateThreadOperation(rows, r, w, adm[w].left)
             /\ older' = [older EXCEPT ![r] = {q \in Runs : rows[q].status # "absent"}]
             /\ adm' = [adm EXCEPT ![w] = Answered(adm[w], res, ActiveRows(rows))]
  <2>1. PICK r \in adm[w].run, res \in {"ok", "exc"} :
             /\ rows' = CreateThreadOperation(rows, r, w, adm[w].left)
             /\ older' = [older EXCEPT ![r] = {q \in Runs : rows[q].status # "absent"}]
             /\ adm' = [adm EXCEPT ![w] = Answered(adm[w], res, ActiveRows(rows))]
    BY <1>3
  <2>2. r \in Runs /\ ~rec[r].live /\ rows[r].status = "absent"
    BY <1>1 DEF FenceInvariant, AdmissionIsFresh, TypeOK, Admission
  <2>3. /\ older'[r] = {q \in Runs : rows[q].status # "absent"}
        /\ \A q \in Runs \ {r} : older'[q] = older[q]
    BY <1>1, <2>1, <2>2 DEF TypeOK
  <2>4. /\ adm'[w].ph = "done" /\ adm'[w].claimed = ActiveRows(rows)
        /\ \A v \in Workers \ {w} : adm'[v] = adm[v]
    BY <1>1, <2>1 DEF TypeOK, Answered, Admission
  <2>5. ASSUME NEW q \in Runs
        PROVE  /\ rows'[q].cancel = "none"
               /\ q # r /\ rows[q].status # "absent" => rows'[q].status \in Terminal
    <3>1. rows[q] \in Row /\ rows[q].cancel = "none"
      BY <1>1 DEF TypeOK, RestoreInvariant, NotAsked
    <3>2. CASE q = r
      BY <2>1, <3>2 DEF CreateThreadOperation
    <3>3. CASE q # r /\ rows[q].status \in Active
      <4>1. rows'[q] = [rows[q] EXCEPT !.status = "interrupted", !.owner = w]
        BY <2>1, <3>3 DEF CreateThreadOperation, ActiveRows
      <4> QED BY <3>1, <3>3, <4>1 DEF Row, Terminal
    <3>4. CASE q # r /\ rows[q].status \notin Active
      <4>1. rows'[q] = rows[q]
        BY <2>1, <3>4 DEF CreateThreadOperation, ActiveRows
      <4> QED BY <3>1, <3>4, <4>1 DEF Row, Active, Terminal
    <3> QED BY <3>2, <3>3, <3>4
  <2>6. \A q \in Runs : NotAsked(q)' /\ RestoreFits(q)'
    BY <1>1, <2>5 DEF RestoreInvariant, NotAsked, RestoreFits
  <2>7. \A q \in Runs : rows[q].status \in Terminal => rows'[q].status \in Terminal /\ q # r
    BY <2>2, <2>5, StatusNames
  <2>8. \A q \in Runs : OlderIsOver(q)'
    BY <1>1, <2>2, <2>3, <2>5, <2>7 DEF RestoreInvariant, OlderIsOver
  <2>9. \A q \in Runs : RestoreAlone(q)'
    BY <1>1, <2>2, <2>3 DEF RestoreInvariant, RestoreAlone, Passed
  <2>10. AdmissionAlone(w)'
    <3> SUFFICES ASSUME NEW q \in ActiveRows(rows), NEW p \in Runs, q \in older'[p], rec[p].live
                 PROVE  FALSE
      BY <1>1, <2>4 DEF AdmissionAlone
    <3>1. q \in older[p]
      BY <2>2, <2>3
    <3> QED BY <3>1, StatusNames DEF RestoreInvariant, OlderIsOver, ActiveRows
  <2>11. \A v \in Workers \ {w} : AdmissionAlone(v)'
    BY <1>1, <2>2, <2>3, <2>4 DEF RestoreInvariant, AdmissionAlone
  <2> QED BY <2>6, <2>8, <2>9, <2>10, <2>11 DEF RestoreInvariant
<1> QED BY <1>2, <1>3, Zenon DEF AdmitStore

(* A record that an admission supersedes keeps its place, and its flag while *)
(* the task is under way.                                                    *)
LEMMA SupersededRestore ==
    ASSUME NEW a \in Record, a.live, NEW action \in Actions,
           a.proof = NoOutcome \/ a.proof.status \in Terminal
    PROVE  LET b == Superseded(a, action)
           IN  \/ b = a
               \/ /\ b.live = a.live /\ b.home = a.home /\ b.started = a.started /\ b.pc = a.pc
                  /\ b.abort # "none" /\ b.finalizing = TaskActive(a)
<1> DEFINE rb == action = "rollback" /\ TaskActive(a)
           out == [status |-> "interrupted", err |-> "superseded"]
           x == [a EXCEPT !.rollback = rb]
           y == Acknowledge(x, out, a.rev)
           fi == TaskActive(a)
           b == [y EXCEPT !.abort = action, !.finalizing = fi]
<1>1. CASE a.lost \/ a.proof.status \in Final
  BY <1>1 DEF Superseded, Final
<1>2. CASE ~(a.lost \/ a.proof.status \in Final)
  <2>1. Superseded(a, action) = b
    BY <1>2, Zenon DEF Superseded, Final
  <2>2. rb \in BOOLEAN /\ fi \in BOOLEAN /\ out \in Outcomes /\ action # "none"
    <3>1. rb \in BOOLEAN /\ fi \in BOOLEAN
      BY DEF TaskActive
    <3>2. out \in Outcomes /\ action # "none"
      BY StatusNames DEF Outcomes, Errors
    <3> QED BY <3>1, <3>2
  <2>3. x \in Record
    <3> HIDE DEF rb
    <3> QED BY <2>2, Zenon DEF Record
  <2>4. x.live = a.live /\ x.home = a.home /\ x.started = a.started /\ x.pc = a.pc
    <3> HIDE DEF rb
    <3>1. x.live = a.live
      BY Zenon DEF Record
    <3>2. x.home = a.home
      BY Zenon DEF Record
    <3>3. x.started = a.started
      BY Zenon DEF Record
    <3>4. x.pc = a.pc
      BY Zenon DEF Record
    <3> QED BY <3>1, <3>2, <3>3, <3>4
  <2> HIDE DEF x, out
  <2>5. y \in Record /\ Still(x, y)
    BY <2>2, <2>3, AcknowledgeType, AckStill
  <2> HIDE DEF y, fi
  <2>6. b.abort = action /\ b.finalizing = fi
    BY <2>5, Zenon DEF Record
  <2>7. b.live = y.live /\ b.home = y.home /\ b.started = y.started /\ b.pc = y.pc
    OBVIOUS
  <2> HIDE DEF b
  <2> QED BY <2>1, <2>2, <2>4, <2>5, <2>6, <2>7 DEF Still, fi
<1> QED BY <1>1, <1>2

LEMMA NotClaimedStill ==
    ASSUME NEW a, NEW was, NEW attempting
    PROVE  Still(a, NotClaimed(a, was, attempting))
<1> DEFINE c == [a EXCEPT !.pending = was]
<1>1. NotClaimed(a, was, attempting) \in {a, c}
  BY DEF NotClaimed
<1>2. Still(a, c)
  BY DEF Still
<1> HIDE DEF c
<1> QED BY <1>1, <1>2, StillSelf

LEMMA NewRecordIdle ==
    ASSUME NEW w \in Workers, NEW l \in Left
    PROVE  LET b == NewRecord(w, l)
           IN  b \in Record /\ b.home = w /\ ~b.started /\ b.pc = "none"
<1> DEFINE a == [NoRecord EXCEPT !.live = TRUE, !.home = w, !.left = l, !.armed = TRUE]
<1>1. NewRecord(w, l) \in {a, Fence(a)}
  BY Zenon DEF NewRecord
<1>6. NewRecord(w, l) \in Record /\ NewRecord(w, l).home = w /\ NewRecord(w, l).pc = "none"
  BY NewRecordFacts
<1>2. NoRecord \in Record /\ NoRecord.started = FALSE
  BY Zenon, Constants DEF NoRecord
<1>3. a \in Record
  BY <1>2, Zenon DEF Record
<1>4. a.started = NoRecord.started
  OBVIOUS
<1> HIDE DEF a
<1>5. Fence(a).started = a.started
  BY <1>3, FenceStill DEF Still
<1> QED BY <1>1, <1>2, <1>4, <1>5, <1>6

(* What an acknowledged admission makes of the records.                      *)
AckCases(w, q) ==
    \/ ~rec'[q].started /\ rec'[q].pc = "none" /\ rec'[q].home = w
    \/ Still(rec[q], rec'[q])
    \/ /\ adm[w].ph = "done" /\ adm[w].res = "ok" /\ q \in adm[w].claimed /\ rec[q].home = w
       /\ rec'[q].live = rec[q].live /\ rec'[q].home = rec[q].home
       /\ rec'[q].started = rec[q].started /\ rec'[q].pc = rec[q].pc
       /\ rec'[q].abort # "none" /\ rec'[q].finalizing = TaskActive(rec[q])

LEMMA AdmitAckCases ==
    ASSUME FenceInvariant, NEW w \in Workers, AdmitAck(w), NEW q \in Runs
    PROVE  AckCases(w, q)
<1>1. /\ rec[q] \in Record /\ ProofMeansClosed(q) /\ adm[w] \in Admission /\ AdmissionIsFresh(w)
      /\ adm[w].ph = "done"
  BY RunFacts DEF FenceInvariant, TypeOK, AdmitAck
<1>2. PICK r \in adm[w].run :
        rec'[q] = IF q = r /\ adm[w].res = "ok"
                  THEN NewRecord(w, adm[w].left)
                  ELSE IF q \in adm[w].cands
                  THEN IF adm[w].res = "ok" /\ q \in adm[w].claimed
                       THEN Superseded(rec[q], adm[w].strategy)
                       ELSE NotClaimed(rec[q], q \in adm[w].was, TaskAttempt(q) \/ CancelAttempt(q))
                  ELSE rec[q]
  BY DEF AdmitAck
<1>3. CASE rec'[q] = NewRecord(w, adm[w].left)
  <2>1. adm[w].left \in Left
    BY <1>1 DEF Admission
  <2> QED BY <1>3, <2>1, NewRecordIdle DEF AckCases
<1>4. CASE rec'[q] = rec[q]
  BY <1>4, StillSelf DEF AckCases
<1>5. CASE rec'[q] = NotClaimed(rec[q], q \in adm[w].was, TaskAttempt(q) \/ CancelAttempt(q))
  <2> DEFINE x == q \in adm[w].was
             y == TaskAttempt(q) \/ CancelAttempt(q)
  <2>1. rec'[q] = NotClaimed(rec[q], x, y)
    BY <1>5
  <2> HIDE DEF x, y
  <2>2. Still(rec[q], NotClaimed(rec[q], x, y))
    BY NotClaimedStill
  <2> QED BY <2>1, <2>2 DEF AckCases
<1>6. CASE /\ q \in adm[w].cands /\ adm[w].res = "ok" /\ q \in adm[w].claimed
           /\ rec'[q] = Superseded(rec[q], adm[w].strategy)
  <2>1. rec[q].live /\ rec[q].home = w /\ adm[w].strategy \in Actions
    BY <1>1, <1>6 DEF AdmissionIsFresh
  <2>2. rec[q].proof = NoOutcome \/ rec[q].proof.status \in Terminal
    BY <1>1 DEF ProofMeansClosed
  <2>3. \/ rec'[q] = rec[q]
        \/ /\ rec'[q].live = rec[q].live /\ rec'[q].home = rec[q].home
           /\ rec'[q].started = rec[q].started /\ rec'[q].pc = rec[q].pc
           /\ rec'[q].abort # "none" /\ rec'[q].finalizing = TaskActive(rec[q])
    BY <1>1, <1>6, <2>1, <2>2, SupersededRestore
  <2> QED BY <1>1, <1>6, <2>1, <2>3, StillSelf DEF AckCases
<1> QED BY <1>2, <1>3, <1>4, <1>5, <1>6

(* The admission hands the cleanup of the runs it claimed to their tasks, and *)
(* no run of this worker that came after them has passed the barrier.        *)
LEMMA AdmitAckRestore ==
    ASSUME RestoreInvariant, FenceInvariant, TypeOK', NEW w \in Workers, AdmitAck(w)
    PROVE  RestoreInvariant'
<1>1. /\ UNCHANGED <<rows, older, tcall, ccall, rcall>> /\ adm'[w] = NoAdmission
      /\ \A v \in Workers \ {w} : adm'[v] = adm[v]
  BY DEF AdmitAck, FenceInvariant, TypeOK
<1>2. /\ \A q \in Runs : AckCases(w, q) /\ rec[q] \in Record /\ rec'[q] \in Record
      /\ \A q \in Runs : older[q] \subseteq Runs
  BY AdmitAckCases, RunFacts DEF FenceInvariant, TypeOK
<1>3. \A q \in Runs : NotAsked(q)' /\ OlderIsOver(q)'
  BY <1>1 DEF RestoreInvariant, NotAsked, OlderIsOver
<1>4. ASSUME NEW q \in Runs
      PROVE  /\ rec[q].started \in BOOLEAN /\ rec'[q].started \in BOOLEAN
             /\ rec[q].live \in BOOLEAN /\ rec'[q].live \in BOOLEAN
             /\ rec[q].lost \in BOOLEAN /\ rec'[q].lost \in BOOLEAN
             /\ rec[q].finalizing \in BOOLEAN /\ rec'[q].finalizing \in BOOLEAN
  BY <1>2, FieldTypes
<1>5. ASSUME NEW q \in Runs PROVE RestoreFits(q)'
  <2>1. RestoreFits(q) /\ AckCases(w, q)
    BY <1>2 DEF RestoreInvariant
  <2>2. CASE ~rec'[q].started /\ rec'[q].pc = "none"
    BY <2>2 DEF RestoreFits, WillRestore
  <2>3. CASE Still(rec[q], rec'[q])
    BY <1>4, <2>1, <2>3 DEF RestoreFits, WillRestore, Still
  <2>4. CASE /\ rec'[q].started = rec[q].started /\ rec'[q].pc = rec[q].pc
             /\ rec'[q].finalizing = TaskActive(rec[q])
    BY <1>4, <2>1, <2>4 DEF RestoreFits, WillRestore, TaskActive
  <2> QED BY <2>1, <2>2, <2>3, <2>4 DEF AckCases
<1>6. ASSUME NEW r \in Runs PROVE RestoreAlone(r)'
  <2> SUFFICES ASSUME Passed(rec'[r]), NEW q \in older[r], rec'[q].home = rec'[r].home, WillRestore(rec'[q])
               PROVE  FALSE
    BY <1>1 DEF RestoreAlone
  <2>1. q \in Runs
    BY <1>2
  <2>2. Still(rec[r], rec'[r])
    BY <1>2 DEF AckCases, Passed, Underway
  <2>3. Passed(rec[r]) /\ rec'[r].home = rec[r].home /\ rec[r].live
    BY <1>4, <2>2 DEF Passed, Still
  <2>4. CASE Still(rec[q], rec'[q])
    <3>1. WillRestore(rec[q]) /\ rec'[q].home = rec[q].home
      BY <1>4, <2>1, <2>4 DEF WillRestore, Still
    <3> QED BY <2>3, <3>1 DEF RestoreInvariant, RestoreAlone
  <2>5. CASE /\ adm[w].ph = "done" /\ adm[w].res = "ok" /\ q \in adm[w].claimed /\ rec[q].home = w
             /\ rec'[q].home = rec[q].home
    BY <2>3, <2>5 DEF RestoreInvariant, AdmissionAlone
  <2> QED BY <1>2, <2>1, <2>4, <2>5 DEF AckCases, WillRestore
<1>7. AdmissionAlone(w)'
  BY <1>1 DEF AdmissionAlone, NoAdmission
<1>8. ASSUME NEW v \in Workers \ {w} PROVE AdmissionAlone(v)'
  <2>1. \A q \in Runs : rec'[q].live /\ rec'[q].home = v => rec[q].live /\ rec[q].home = v
    BY <1>2, <1>4 DEF AckCases, Still
  <2> QED BY <1>1, <2>1 DEF RestoreInvariant, AdmissionAlone
<1> QED BY <1>3, <1>5, <1>6, <1>7, <1>8 DEF RestoreInvariant

-----------------------------------------------------------------------------
LEMMA InitRestore == Init => RestoreInvariant
<1> SUFFICES ASSUME Init PROVE RestoreInvariant
  OBVIOUS
<1>1. ASSUME NEW r \in Runs
      PROVE  /\ rec[r] = NoRecord /\ older[r] = {} /\ rows[r].cancel = "none"
             /\ tcall[r] = NoCall /\ ccall[r] = NoCall /\ rcall[r] = NoRenewal
  BY DEF Init, AbsentRow
<1>2. /\ NoCall.res \notin Actions /\ NoCall.op # "request" /\ NoCall.ph = "idle"
      /\ NoRenewal.cancel = "none" /\ NoRenewal.ph # "signal"
      /\ ~NoRecord.live /\ ~NoRecord.started /\ NoRecord.pc = "none"
  BY DEF NoCall, NoRenewal, Actions, NoRecord
<1>3. \A r \in Runs : NotAsked(r) /\ RestoreFits(r) /\ OlderIsOver(r) /\ RestoreAlone(r)
  BY <1>1, <1>2 DEF NotAsked, RestoreFits, OlderIsOver, RestoreAlone, WillRestore
<1>4. \A w \in Workers : AdmissionAlone(w)
  BY DEF Init, AdmissionAlone, NoAdmission
<1> QED BY <1>3, <1>4 DEF RestoreInvariant

LEMMA NextRestore ==
    ASSUME RestoreInvariant, OutcomeInvariant, TypeOK', AnswersArrive, Requests = {}, [Next]_vars
    PROVE  RestoreInvariant'
<1>1. FenceInvariant /\ TypeOK
  BY DEF OutcomeInvariant, FenceInvariant
<1>2. \A q \in Runs : rows[q].status \in Terminal => rows'[q].status \in Terminal
  BY NextImplements, LifecycleIsFinal DEF Terminal
<1>3. CASE UNCHANGED vars
  BY <1>3 DEF vars, RestoreInvariant, NotAsked, RestoreFits, OlderIsOver, RestoreAlone, AdmissionAlone
<1>4. ASSUME NEW w \in Workers, \E r \in Runs, strategy \in Strategies : AdmitBegin(w, r, strategy)
      PROVE  RestoreInvariant'
  BY <1>1, <1>4, AdmitBeginRestore
<1>5. ASSUME NEW w \in Workers, AdmitStore(w) \/ AdmitAck(w) \/ Crash(w)
      PROVE  RestoreInvariant'
  BY <1>1, <1>5, AdmitStoreRestore, AdmitAckRestore, CrashRestore
<1>6. ASSUME NEW r \in Runs, TaskStep(r) \/ TaskStore(r) \/ LeaseStep(r)
      PROVE  RestoreInvariant'
  BY <1>1, <1>2, <1>6, TaskStepRestore, TaskStoreRestore, LeaseStepRestore
<1>7. ASSUME NEW r \in Runs, CancelStep(r) \/ CancelStore(r)
      PROVE  RestoreInvariant'
  BY <1>7, CancelRestore
<1>8. CASE Tick
  BY <1>1, <1>8, TickRestore
<1> QED BY <1>3, <1>4, <1>5, <1>6, <1>7, <1>8 DEF Next

(* Where every answer of the store arrives and no client cancels, a run that  *)
(* has passed wait_for_prior_finalizing never meets an older run of its own   *)
(* worker that may still write its checkpoint back.                          *)
THEOREM RestoreIsInvariant ==
    ASSUME AnswersArrive, Requests = {}
    PROVE  Spec => []RestoreInvariant
<1>1. Init => RestoreInvariant
  BY InitRestore
<1>2. RestoreInvariant /\ OutcomeInvariant /\ TypeOK' /\ [Next]_vars => RestoreInvariant'
  BY NextRestore
<1> QED BY <1>1, <1>2, OutcomeIsInvariant, TypeCorrect, PTL DEF Spec

(* No run executes while an older run restores its checkpoint: with a single  *)
(* worker, as wait_for_prior_finalizing looks at one registry, where every    *)
(* answer of the store arrives, and where no client cancels, as a requested   *)
(* rollback of an older run is refused by nothing (MCRunOwnership_own_restore *)
(* shows it).                                                                *)
THEOREM RestoresAlone ==
    ASSUME AnswersArrive, Requests = {}, \A v, w \in Workers : v = w
    PROVE  Spec => []NoRunDuringRestore
<1>1. RestoreInvariant /\ OutcomeInvariant => NoRunDuringRestore
  <2> SUFFICES ASSUME RestoreInvariant, OutcomeInvariant,
                      NEW q \in Runs, NEW r \in Runs, q \in older[r], Executing(r),
                      rec[q].live, rec[q].pc = "restore", ~rec[q].lost
               PROVE  FALSE
    BY DEF NoRunDuringRestore
  <2>1. Passed(rec[r])
    BY DEF Executing, Passed, Underway
  <2>2. WillRestore(rec[q])
    BY DEF RestoreInvariant, RestoreFits, WillRestore
  <2>3. rec[q].home \in Workers /\ rec[r].home \in Workers
    BY <2>1 DEF OutcomeInvariant, RunOutcome, BusyIsUndecided, Passed
  <2> QED BY <2>1, <2>2, <2>3 DEF RestoreInvariant, RestoreAlone
<1> QED BY <1>1, RestoreIsInvariant, OutcomeIsInvariant, PTL
=============================================================================
