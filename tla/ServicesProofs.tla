---------------------------- MODULE ServicesProofs ----------------------------
(***************************************************************************)
(* Services around a run as instances over the variables of MCServices, and *)
(* the theorems about each of them, for every value of the constants.  Each *)
(* part is the component's module; its definitions are reached as Part!Def. *)
(***************************************************************************)
EXTENDS Integers, Sequences, FiniteSets, FiniteSetTheorems, TLAPS

CONSTANTS
    Workers,
    Launchers, Api, TaskSetups, MaxOccurrences,               \* ScheduledTask
    McpSetups, DegradedAfter, NoticeAttempts, MaxMoves, MaxVersions,   \* McpTask
    Calls, CircuitThreshold, CallAttempts,                    \* LlmCircuit
    Executions, Forks, MaxClients,                            \* SandboxLease
    OutboxAttempts, MaxParked, MaxOutboxClaims,               \* NotificationOutbox
    Logins, Policies, LoginAttempts, MaxClock, MaxFailures    \* LoginThrottle

VARIABLES
    schedule, task, occ, run, launcher,                       \* ScheduledTask
    setup, remote, mcp, note, told, worker,                   \* McpTask
    circuit, elapsed, call,                                   \* LlmCircuit
    client, built, serial, pending, teardown, holder,         \* SandboxLease
    delivery, enabled, sender, pushed, allowed,               \* NotificationOutbox
    clock, policy, throttle, login                            \* LoginThrottle

Circuit == INSTANCE LlmCircuit WITH Threshold <- CircuitThreshold, MaxAttempts <- CallAttempts
Sandbox == INSTANCE SandboxLease WITH Owners <- Executions, made <- built
Outbox == INSTANCE NotificationOutbox WITH
    MaxAttempts <- OutboxAttempts, MaxClaims <- MaxOutboxClaims, row <- delivery, worker <- sender
Throttle == INSTANCE LoginThrottle WITH Attempts <- LoginAttempts, row <- throttle
Schedule == INSTANCE ScheduledTask WITH Setups <- TaskSetups, conf <- schedule
Mcp == INSTANCE McpTask WITH
    Setups <- McpSetups, MaxAttempts <- NoticeAttempts, conf <- setup, task <- mcp, run <- told

-----------------------------------------------------------------------------
(* The circuit breaker: a half-open circuit that sheds calls has one probe, *)
(* under way or ended by a signal out of its fallback event, and a call     *)
(* admitted before the circuit last opened does not move it.                *)

UnderWay == {"calling", "backoff", "swapping"}

(* A call whose fallback event raised a signal takes its probe with it.      *)
Held == UnderWay \cup {"bubbled"}

(* What makes both properties inductive.  A waiting circuit remembers a call *)
(* that is under way, or took the probe with it, and carries the current     *)
(* generation, so that a call under way owns the circuit whatever its        *)
(* outcome.  A generation is never given out twice, so that two calls of one *)
(* generation saw the circuit open equally often; a call that sleeps has an  *)
(* attempt left.                                                             *)
ProbeHeld ==
    circuit.state = "half_open" /\ circuit.probing =>
        /\ circuit.probe \in Calls
        /\ call[circuit.probe].pc \in Held
        /\ call[circuit.probe].gen = circuit.gen

GenerationOf(c) ==
    /\ call[c].gen <= circuit.gen
    /\ call[c].gen = circuit.gen => call[c].trips = circuit.trips
    /\ call[c].pc = "backoff" => call[c].attempt < CallAttempts

CircuitInvariant ==
    /\ Circuit!TypeOK
    /\ ProbeHeld
    /\ \A c \in Calls : GenerationOf(c)

-----------------------------------------------------------------------------
(* The fields of the breaker and of a call have their types.                 *)
LEMMA CircuitFields ==
    ASSUME Circuit!TypeOK
    PROVE  /\ circuit.state \in {"closed", "open", "half_open"} /\ circuit.gen \in Nat
           /\ circuit.failures \in 0 .. CircuitThreshold /\ circuit.probing \in BOOLEAN
           /\ circuit.probe \in Calls \cup {Circuit!None} /\ circuit.trips \in Nat
           /\ \A c \in Calls :
                /\ call[c] \in Circuit!Call
                /\ call[c].gen \in {-1} \cup Nat /\ call[c].trips \in Nat
                /\ call[c].attempt \in 1 .. CallAttempts /\ call[c].fallback \in BOOLEAN
BY DEF Circuit!TypeOK, Circuit!Circuit, Circuit!Call

(* The three outcomes a call that owns the circuit may leave behind: none    *)
(* lowers the generation, none changes the count of openings without a new   *)
(* generation, and none leaves a waiting circuit behind that was half open.  *)
Outcome(new) ==
    /\ new \in Circuit!Circuit
    /\ new.gen >= circuit.gen
    /\ new.gen = circuit.gen => new.trips = circuit.trips
    /\ circuit.state = "half_open" => ~(new.state = "half_open" /\ new.probing)
    /\ circuit.state = "closed" => new.state # "half_open"

(* A breaker with these fields.                                              *)
HasFields(new, s, g, f, p, t, n) ==
    /\ new \in Circuit!Circuit
    /\ new.state = s /\ new.gen = g /\ new.failures = f
    /\ new.probing = p /\ new.probe = t /\ new.trips = n

(* An update with well-typed values gives a breaker with these values.       *)
LEMMA UpdateType ==
    ASSUME NEW b \in Circuit!Circuit, NEW s \in {"closed", "open", "half_open"}, NEW g \in Nat,
           NEW f \in 0 .. CircuitThreshold, NEW p \in BOOLEAN, NEW t \in Calls \cup {Circuit!None},
           NEW n \in Nat
    PROVE  /\ HasFields([b EXCEPT !.probing = p, !.probe = t], b.state, b.gen, b.failures, p, t, b.trips)
           /\ HasFields([b EXCEPT !.state = s, !.failures = f, !.gen = g], s, g, f, b.probing, b.probe, b.trips)
           /\ HasFields([b EXCEPT !.state = s, !.gen = g, !.trips = n], s, g, b.failures, b.probing, b.probe, n)
           /\ HasFields([b EXCEPT !.failures = f], b.state, b.gen, f, b.probing, b.probe, b.trips)
           /\ HasFields([b EXCEPT !.gen = g], b.state, g, b.failures, b.probing, b.probe, b.trips)
           /\ HasFields([b EXCEPT !.state = s, !.probing = p, !.probe = t, !.gen = g],
                   s, g, b.failures, p, t, b.trips)
<1>1. HasFields([b EXCEPT !.probing = p, !.probe = t], b.state, b.gen, b.failures, p, t, b.trips)
  BY Zenon DEF HasFields, Circuit!Circuit
<1>2. HasFields([b EXCEPT !.state = s, !.failures = f, !.gen = g], s, g, f, b.probing, b.probe, b.trips)
  BY Zenon DEF HasFields, Circuit!Circuit
<1>3. HasFields([b EXCEPT !.state = s, !.gen = g, !.trips = n], s, g, b.failures, b.probing, b.probe, n)
  BY Zenon DEF HasFields, Circuit!Circuit
<1>4. HasFields([b EXCEPT !.failures = f], b.state, b.gen, f, b.probing, b.probe, b.trips)
  BY Zenon DEF HasFields, Circuit!Circuit
<1>5. HasFields([b EXCEPT !.gen = g], b.state, g, b.failures, b.probing, b.probe, b.trips)
  BY Zenon DEF HasFields, Circuit!Circuit
<1>6. HasFields([b EXCEPT !.state = s, !.probing = p, !.probe = t, !.gen = g], s, g, b.failures, p, t, b.trips)
  BY Zenon DEF HasFields, Circuit!Circuit
<1> QED BY <1>1, <1>2, <1>3, <1>4, <1>5, <1>6

(* _record_success, _record_failure and _release_half_open_probe.            *)
LEMMA OutcomesAreFresh ==
    ASSUME Circuit!CircuitAssumption, Circuit!TypeOK, circuit.state \in {"closed", "half_open"}
    PROVE  Outcome(Circuit!Reset) /\ Outcome(Circuit!Counted) /\ Outcome(Circuit!Released)
<1> USE CircuitFields
<1> DEFINE half == circuit.state = "half_open"
           b == Circuit!Idle(circuit)
<1>0. /\ Circuit!None \in Calls \cup {Circuit!None} /\ FALSE \in BOOLEAN /\ circuit \in Circuit!Circuit
      /\ circuit.gen + 1 \in Nat /\ circuit.trips + 1 \in Nat /\ 0 \in 0 .. CircuitThreshold
      /\ "closed" \in {"closed", "open", "half_open"} /\ "open" \in {"closed", "open", "half_open"}
  BY DEF Circuit!TypeOK, Circuit!CircuitAssumption
<1>1. HasFields(b, circuit.state, circuit.gen, circuit.failures, FALSE, Circuit!None, circuit.trips)
  BY <1>0, UpdateType DEF Circuit!Idle
<1>2. b \in Circuit!Circuit
  BY <1>1 DEF HasFields
<1>3. Outcome(Circuit!Reset)
  <2> DEFINE g == IF half THEN b.gen + 1 ELSE b.gen
  <2>1. g \in Nat /\ g >= circuit.gen
    BY <1>1 DEF HasFields
  <2>2. Circuit!Reset = [b EXCEPT !.state = "closed", !.failures = 0, !.gen = g]
    BY DEF Circuit!Reset
  <2> HIDE DEF g, b
  <2>3. HasFields(Circuit!Reset, "closed", g, 0, b.probing, b.probe, b.trips)
    BY <1>0, <1>2, <2>1, <2>2, UpdateType
  <2> QED BY <1>1, <2>1, <2>3 DEF Outcome, HasFields
<1>4. HasFields(Circuit!Trip, "open", circuit.gen + 1, circuit.failures, FALSE, Circuit!None, circuit.trips + 1)
  <2>1. Circuit!Trip = [b EXCEPT !.state = "open", !.gen = b.gen + 1, !.trips = b.trips + 1]
    BY DEF Circuit!Trip
  <2> HIDE DEF b
  <2>2. b.gen + 1 = circuit.gen + 1 /\ b.trips + 1 = circuit.trips + 1
    BY <1>1 DEF HasFields
  <2>3. HasFields(Circuit!Trip, "open", circuit.gen + 1, b.failures, b.probing, b.probe, circuit.trips + 1)
    BY <1>0, <1>2, <2>1, <2>2, UpdateType
  <2> QED BY <1>1, <2>3 DEF HasFields
<1>5. Outcome(Circuit!Counted)
  <2>1. CASE half
    BY <1>4, <2>1 DEF Circuit!Counted, Outcome, HasFields
  <2>2. CASE ~half /\ circuit.failures + 1 < CircuitThreshold
    <3>1. Circuit!Counted = [circuit EXCEPT !.failures = circuit.failures + 1]
      BY <2>2 DEF Circuit!Counted
    <3>2. circuit.failures + 1 \in 0 .. CircuitThreshold
      BY <2>2 DEF Circuit!CircuitAssumption
    <3>3. HasFields(Circuit!Counted, circuit.state, circuit.gen, circuit.failures + 1, circuit.probing, circuit.probe, circuit.trips)
      BY <1>0, <3>1, <3>2, UpdateType
    <3> QED BY <2>2, <3>3 DEF Outcome, HasFields
  <2>3. CASE ~half /\ ~(circuit.failures + 1 < CircuitThreshold)
    <3> DEFINE f == IF Circuit!Trip.failures < CircuitThreshold THEN Circuit!Trip.failures + 1 ELSE Circuit!Trip.failures
    <3>1. f \in 0 .. CircuitThreshold /\ Circuit!Trip \in Circuit!Circuit
      BY <1>4 DEF Circuit!CircuitAssumption, HasFields
    <3>2. Circuit!Counted = [Circuit!Trip EXCEPT !.failures = f]
      BY <2>3 DEF Circuit!Counted
    <3> HIDE DEF f
    <3>3. HasFields(Circuit!Counted, Circuit!Trip.state, Circuit!Trip.gen, f, Circuit!Trip.probing, Circuit!Trip.probe, Circuit!Trip.trips)
      BY <3>1, <3>2, UpdateType
    <3> QED BY <1>4, <3>3 DEF Outcome, HasFields
  <2> QED BY <2>1, <2>2, <2>3
<1>6. Outcome(Circuit!Released)
  <2>1. CASE half
    <3>1. Circuit!Released = [b EXCEPT !.gen = b.gen + 1]
      BY <2>1 DEF Circuit!Released
    <3> HIDE DEF b
    <3>2. b.gen + 1 = circuit.gen + 1
      BY <1>1 DEF HasFields
    <3>3. HasFields(Circuit!Released, b.state, circuit.gen + 1, b.failures, b.probing, b.probe, b.trips)
      BY <1>0, <1>2, <3>1, <3>2, UpdateType
    <3> QED BY <1>1, <3>3 DEF Outcome, HasFields
  <2>2. CASE ~half
    BY <2>2 DEF Circuit!Released, Outcome, Circuit!TypeOK
  <2> QED BY <2>1, <2>2
<1> QED BY <1>3, <1>5, <1>6

(* A call that ends reports to the circuit, and the invariant stays: only    *)
(* the owner moves it, and the probe of a waiting circuit is its owner.      *)
LEMMA ReportStep ==
    ASSUME Circuit!CircuitAssumption, CircuitInvariant, NEW c \in Calls, NEW new,
           call[c].pc \in UnderWay,
           circuit.state \in {"closed", "half_open"} => Outcome(new),
           Circuit!Report(c, new), Circuit!Over(c)
    PROVE  CircuitInvariant'
<1> USE CircuitFields DEF CircuitInvariant
<1>1. call' \in [Calls -> Circuit!Call] /\ elapsed' \in BOOLEAN
  BY DEF Circuit!Over, Circuit!Report, Circuit!TypeOK, Circuit!Call
<1>2. \A d \in Calls : /\ call'[d].gen = call[d].gen /\ call'[d].trips = call[d].trips
                       /\ call'[d].attempt = call[d].attempt
                       /\ d # c => call'[d].pc = call[d].pc
                       /\ d = c => call'[d].pc = "over"
  BY DEF Circuit!Over, Circuit!TypeOK, Circuit!Call
<1>3. CASE Circuit!Owns(c)
  <2>1. circuit.state \in {"closed", "half_open"} /\ circuit' = new /\ Outcome(new)
    BY <1>3 DEF Circuit!Owns, Circuit!Report
  <2>2. Circuit!TypeOK'
    BY <1>1, <2>1 DEF Circuit!TypeOK, Outcome
  <2>3. ProbeHeld'
    BY <2>1 DEF ProbeHeld, Outcome
  <2>4. \A d \in Calls : GenerationOf(d)'
    BY <1>2, <2>1, <2>2 DEF GenerationOf, Outcome, Circuit!Circuit
  <2> QED BY <2>2, <2>3, <2>4
<1>4. CASE ~Circuit!Owns(c)
  <2>1. circuit' = circuit
    BY <1>4 DEF Circuit!Report
  <2>2. circuit.state = "half_open" /\ circuit.probing => circuit.probe # c
    BY <1>4 DEF Circuit!Owns, ProbeHeld
  <2>3. ProbeHeld'
    BY <1>2, <2>1, <2>2 DEF ProbeHeld
  <2>4. \A d \in Calls : GenerationOf(d)'
    BY <1>2, <2>1 DEF GenerationOf
  <2> QED BY <1>1, <2>1, <2>3, <2>4 DEF Circuit!TypeOK
<1> QED BY <1>3, <1>4

(* A step of one call that leaves the circuit alone and does not end the     *)
(* call without its report, unless it takes the probe with it.               *)
LEMMA CallStep ==
    ASSUME CircuitInvariant, NEW c \in Calls, NEW new \in Circuit!Call,
           call' = [call EXCEPT ![c] = new], UNCHANGED <<circuit, elapsed>>,
           call[c].pc \in Held => new.pc \in Held,
           new.gen = call[c].gen, new.trips = call[c].trips,
           new.pc = "backoff" => new.attempt < CallAttempts
    PROVE  CircuitInvariant'
<1> USE CircuitFields DEF CircuitInvariant
<1>1. Circuit!TypeOK'
  BY DEF Circuit!TypeOK
<1>2. call'[c] = new /\ \A d \in Calls \ {c} : call'[d] = call[d]
  BY DEF Circuit!TypeOK
<1>3. ProbeHeld'
  BY <1>2 DEF ProbeHeld
<1>4. \A d \in Calls : GenerationOf(d)'
  BY <1>2 DEF GenerationOf
<1> QED BY <1>1, <1>3, <1>4

-----------------------------------------------------------------------------
(* _check_circuit: a call that is let into a circuit which is not closed     *)
(* becomes its probe, under the generation that the circuit then has.        *)
LEMMA AdmitStep ==
    ASSUME Circuit!CircuitAssumption, CircuitInvariant, NEW c \in Calls, Circuit!Admit(c)
    PROVE  CircuitInvariant'
<1> USE CircuitFields DEF CircuitInvariant
<1> DEFINE gen == IF Circuit!Sheds THEN call[c].gen ELSE circuit'.gen
           new == [call[c] EXCEPT !.pc = IF Circuit!Sheds THEN "shed" ELSE "calling",
                                  !.gen = gen, !.trips = circuit.trips]
<1>1. /\ circuit' \in Circuit!Circuit /\ circuit'.trips = circuit.trips
      /\ circuit'.gen \in Nat /\ circuit'.gen >= circuit.gen
      /\ ~Circuit!Sheds /\ circuit.state # "closed" => circuit' = Circuit!Probing(c)
      /\ Circuit!Sheds \/ circuit.state = "closed" => circuit' = circuit
  <2> DEFINE g == IF circuit.state = "open" THEN circuit.gen + 1 ELSE circuit.gen
  <2>1. /\ g \in Nat /\ g >= circuit.gen /\ TRUE \in BOOLEAN /\ c \in Calls \cup {Circuit!None}
        /\ "half_open" \in {"closed", "open", "half_open"}
    OBVIOUS
  <2>2. Circuit!Probing(c) = [circuit EXCEPT !.state = "half_open", !.probing = TRUE, !.probe = c, !.gen = g]
    BY DEF Circuit!Probing
  <2> HIDE DEF g
  <2>3. HasFields(Circuit!Probing(c), "half_open", g, circuit.failures, TRUE, c, circuit.trips)
    <3>1. circuit \in Circuit!Circuit
      BY DEF Circuit!TypeOK
    <3>2. /\ circuit.failures \in 0 .. CircuitThreshold /\ circuit.trips \in Nat
      OBVIOUS
    <3>3. HasFields([circuit EXCEPT !.state = "half_open", !.probing = TRUE, !.probe = c, !.gen = g],
                    "half_open", g, circuit.failures, TRUE, c, circuit.trips)
      BY <2>1, <3>1, <3>2, UpdateType
    <3> QED BY Zenon, <2>2, <3>3
  <2>4. Circuit!Probing(c) \in Circuit!Circuit /\ Circuit!Probing(c).gen = g
        /\ Circuit!Probing(c).trips = circuit.trips
    BY <2>3 DEF HasFields
  <2>5. circuit' = IF Circuit!Sheds \/ circuit.state = "closed" THEN circuit ELSE Circuit!Probing(c)
    BY DEF Circuit!Admit
  <2> QED BY <2>1, <2>4, <2>5 DEF Circuit!TypeOK
<1>2. call' = [call EXCEPT ![c] = new] /\ new \in Circuit!Call
  BY <1>1 DEF Circuit!Admit, Circuit!TypeOK, Circuit!Call
<1>3. Circuit!TypeOK'
  BY <1>1, <1>2 DEF Circuit!TypeOK, Circuit!Admit
<1>4. call'[c] = new /\ \A d \in Calls \ {c} : call'[d] = call[d]
  BY <1>2 DEF Circuit!TypeOK
<1>5. /\ new.gen = gen /\ new.trips = circuit.trips
      /\ new.pc = IF Circuit!Sheds THEN "shed" ELSE "calling"
  BY DEF Circuit!Call
<1>6. call[c].pc = "new"
  BY DEF Circuit!Admit
<1>7. ProbeHeld'
  <2>1. CASE Circuit!Sheds \/ circuit.state = "closed"
    BY <1>1, <1>4, <1>6, <2>1 DEF ProbeHeld, UnderWay, Held
  <2>2. CASE ~Circuit!Sheds /\ circuit.state # "closed"
    <3>1. circuit'.probe = c
      BY <1>1, <2>2 DEF Circuit!Probing, Circuit!TypeOK, Circuit!Circuit
    <3> QED BY <1>4, <1>5, <2>2, <3>1 DEF ProbeHeld, UnderWay, Held
  <2> QED BY <2>1, <2>2
<1>8. ASSUME NEW d \in Calls PROVE GenerationOf(d)'
  <2>1. CASE d = c
    <3>1. gen <= circuit'.gen
      BY <1>1 DEF GenerationOf
    <3>2. new.pc # "backoff"
      BY <1>5
    <3> HIDE DEF gen, new
    <3> QED BY <1>1, <1>4, <1>5, <2>1, <3>1, <3>2 DEF GenerationOf
  <2>2. CASE d # c
    BY <1>1, <1>4, <2>2 DEF GenerationOf
  <2> QED BY <2>1, <2>2
<1> QED BY <1>3, <1>7, <1>8

(* Every step of a call keeps the invariant.                                 *)
LEMMA CallNextStep ==
    ASSUME Circuit!CircuitAssumption, CircuitInvariant, NEW c \in Calls, Circuit!CallNext(c)
    PROVE  CircuitInvariant'
<1> USE CircuitFields DEF CircuitInvariant
<1>0. /\ circuit.state \in {"closed", "half_open"} => Outcome(Circuit!Reset)
      /\ circuit.state \in {"closed", "half_open"} => Outcome(Circuit!Counted)
      /\ circuit.state \in {"closed", "half_open"} => Outcome(Circuit!Released)
  BY OutcomesAreFresh
<1>1. CASE Circuit!Succeed(c)
  BY <1>0, <1>1, ReportStep DEF Circuit!Succeed, UnderWay
<1>2. CASE Circuit!Signal(c) \/ Circuit!Cancel(c)
  BY <1>0, <1>2, ReportStep DEF Circuit!Signal, Circuit!Cancel, UnderWay
<1>3. ASSUME NEW reason \in DOMAIN Circuit!Reasons, Circuit!Fail(c, reason) PROVE CircuitInvariant'
  <2> DEFINE new == IF Circuit!Reasons[reason].retriable
      /\ Circuit!Reasons[reason].counts THEN Circuit!Counted ELSE Circuit!Released
  <2>1. circuit.state \in {"closed", "half_open"} => Outcome(new)
    BY <1>0
  <2>2. Circuit!Report(c, new) /\ Circuit!Over(c) /\ call[c].pc \in UnderWay
    BY <1>3 DEF Circuit!Fail, UnderWay
  <2> HIDE DEF new
  <2> QED BY <2>1, <2>2, ReportStep
<1>4. ASSUME NEW reason \in DOMAIN Circuit!Reasons, Circuit!Retry(c, reason) PROVE CircuitInvariant'
  <2> DEFINE new == [call[c] EXCEPT !.pc = "backoff"]
  <2>1. call' = [call EXCEPT ![c] = new] /\ new \in Circuit!Call /\ UNCHANGED <<circuit, elapsed>>
    BY <1>4 DEF Circuit!Retry, Circuit!TypeOK, Circuit!Call
  <2>2. new.gen = call[c].gen /\ new.trips = call[c].trips /\ new.attempt = call[c].attempt
        /\ new.pc = "backoff"
    BY DEF Circuit!Call
  <2>3. call[c].attempt < CallAttempts
    BY <1>4 DEF Circuit!Retry, Circuit!Retries
  <2> HIDE DEF new
  <2> QED BY <2>1, <2>2, <2>3, CallStep DEF UnderWay, Held
<1>5. CASE Circuit!Resume(c)
  <2> DEFINE new == [call[c] EXCEPT !.pc = "calling", !.attempt = @ + 1]
  <2>1. call[c].attempt < CallAttempts
    BY <1>5 DEF Circuit!Resume, GenerationOf
  <2>2. call' = [call EXCEPT ![c] = new] /\ new \in Circuit!Call /\ UNCHANGED <<circuit, elapsed>>
    BY <1>5, <2>1 DEF Circuit!Resume, Circuit!TypeOK, Circuit!Call, Circuit!CircuitAssumption
  <2>3. new.gen = call[c].gen /\ new.trips = call[c].trips /\ new.pc = "calling"
    BY DEF Circuit!Call
  <2> HIDE DEF new
  <2> QED BY <2>2, <2>3, CallStep DEF UnderWay, Held
<1>6. ASSUME NEW reason \in DOMAIN Circuit!Reasons, Circuit!Swap(c, reason) PROVE CircuitInvariant'
  <2> DEFINE new == [call[c] EXCEPT !.pc = "swapping", !.fallback = TRUE]
  <2>1. call' = [call EXCEPT ![c] = new] /\ new \in Circuit!Call /\ UNCHANGED <<circuit, elapsed>>
    BY <1>6 DEF Circuit!Swap, Circuit!TypeOK, Circuit!Call
  <2>2. new.gen = call[c].gen /\ new.trips = call[c].trips /\ new.pc = "swapping"
    BY DEF Circuit!Call
  <2> HIDE DEF new
  <2> QED BY <2>1, <2>2, CallStep DEF UnderWay, Held
<1>7. CASE Circuit!Swapped(c)
  <2> DEFINE new == [call[c] EXCEPT !.pc = "calling", !.attempt = 1]
  <2>0. 1 \in 1 .. CallAttempts
    BY DEF Circuit!CircuitAssumption
  <2>1. call' = [call EXCEPT ![c] = new] /\ new \in Circuit!Call /\ UNCHANGED <<circuit, elapsed>>
    BY <1>7, <2>0 DEF Circuit!Swapped, Circuit!TypeOK, Circuit!Call
  <2>2. new.gen = call[c].gen /\ new.trips = call[c].trips /\ new.pc = "calling"
    BY DEF Circuit!Call
  <2> HIDE DEF new
  <2> QED BY <2>1, <2>2, CallStep DEF UnderWay, Held
<1>8. CASE Circuit!FallbackSignal(c)
  <2> DEFINE new == [call[c] EXCEPT !.pc = "bubbled"]
  <2>1. call' = [call EXCEPT ![c] = new] /\ new \in Circuit!Call /\ UNCHANGED <<circuit, elapsed>>
    BY <1>8 DEF Circuit!FallbackSignal, Circuit!TypeOK, Circuit!Call
  <2>2. new.gen = call[c].gen /\ new.trips = call[c].trips /\ new.pc = "bubbled"
    BY DEF Circuit!Call
  <2> HIDE DEF new
  <2> QED BY <2>1, <2>2, CallStep DEF Held
<1> QED BY <1>1, <1>2, <1>3, <1>4, <1>5, <1>6, <1>7, <1>8 DEF Circuit!CallNext

(* The breaker starts closed, with every call still to come.                 *)
LEMMA InitCircuit == Circuit!CircuitAssumption /\ Circuit!Init => CircuitInvariant
<1> SUFFICES ASSUME Circuit!CircuitAssumption, Circuit!Init PROVE CircuitInvariant
  OBVIOUS
<1> DEFINE start == [pc |-> "new", gen |-> -1, trips |-> 0, attempt |-> 1, fallback |-> FALSE]
<1>0. 0 \in 0 .. CircuitThreshold /\ 1 \in 1 .. CallAttempts
  BY DEF Circuit!CircuitAssumption
<1>1. /\ circuit.state = "closed" /\ circuit.gen = 0 /\ circuit.trips = 0
      /\ elapsed = FALSE /\ call = [c \in Calls |-> start]
  BY DEF Circuit!Init
<1>2. start \in Circuit!Call
  BY <1>0 DEF Circuit!Call
<1>3. circuit \in Circuit!Circuit
  BY <1>0 DEF Circuit!Init, Circuit!Circuit
<1>4. ProbeHeld
  BY <1>1 DEF ProbeHeld
<1>5. \A c \in Calls : GenerationOf(c)
  BY <1>1 DEF GenerationOf
<1> QED BY <1>1, <1>2, <1>3, <1>4, <1>5 DEF CircuitInvariant, Circuit!TypeOK

(* Every step keeps the invariant.                                           *)
LEMMA NextCircuit == Circuit!CircuitAssumption /\ CircuitInvariant /\ [Circuit!Next]_(Circuit!vars)
  => CircuitInvariant'
<1> SUFFICES ASSUME Circuit!CircuitAssumption, CircuitInvariant, [Circuit!Next]_(Circuit!vars)
    PROVE CircuitInvariant'
  OBVIOUS
<1>1. CASE Circuit!Elapse
  BY <1>1 DEF Circuit!Elapse, CircuitInvariant, Circuit!TypeOK, ProbeHeld, GenerationOf
<1>2. CASE UNCHANGED Circuit!vars
  BY <1>2 DEF Circuit!vars, CircuitInvariant, Circuit!TypeOK, ProbeHeld, GenerationOf
<1> QED BY <1>1, <1>2, AdmitStep, CallNextStep DEF Circuit!Next

-----------------------------------------------------------------------------
(* CircuitInvariant holds in every state of the breaker                      *)
(* (LLMErrorHandlingMiddleware).                                             *)
THEOREM CircuitIsInvariant == Circuit!CircuitAssumption => (Circuit!Spec => []CircuitInvariant)
<1> SUFFICES ASSUME Circuit!CircuitAssumption PROVE Circuit!Spec => []CircuitInvariant
  OBVIOUS
<1>1. Circuit!Init => CircuitInvariant
  BY InitCircuit
<1>2. CircuitInvariant /\ [Circuit!Next]_(Circuit!vars) => CircuitInvariant'
  BY NextCircuit
<1> QED BY <1>1, <1>2, PTL DEF Circuit!Spec

(* A half-open circuit that sheds calls has one probe: a call under way      *)
(* whose outcome it will accept, or a call that ended by a signal out of its *)
(* fallback event, and no other end of a call takes the probe with it        *)
(* (_check_circuit, _release_half_open_probe, _aemit_fallback_event).        *)
THEOREM ProbeAccountedFor == Circuit!CircuitAssumption => (Circuit!Spec => []Circuit!ProbeIsAccountedFor)
<1> SUFFICES ASSUME Circuit!CircuitAssumption PROVE Circuit!Spec => []Circuit!ProbeIsAccountedFor
  OBVIOUS
<1>1. CircuitInvariant => Circuit!ProbeIsAccountedFor
  <2> SUFFICES ASSUME CircuitInvariant, circuit.state = "half_open", circuit.probing
               PROVE  \/ Circuit!Probes = {circuit.probe}
                      \/ Circuit!Probes = {} /\ call[circuit.probe].pc = "bubbled"
    BY DEF Circuit!ProbeIsAccountedFor
  <2>1. /\ circuit.probe \in Calls /\ call[circuit.probe].pc \in Held
        /\ call[circuit.probe].gen = circuit.gen
    BY DEF CircuitInvariant, ProbeHeld
  <2>2. \A c \in Circuit!Probes : c = circuit.probe /\ call[c].pc \in UnderWay
    BY DEF Circuit!Probes, Circuit!Owns, UnderWay
  <2>3. call[circuit.probe].pc \in UnderWay => circuit.probe \in Circuit!Probes
    BY <2>1 DEF Circuit!Probes, Circuit!Owns, UnderWay
  <2> QED BY <2>1, <2>2, <2>3 DEF Held, UnderWay
<1> QED BY <1>1, CircuitIsInvariant, PTL

(* An outcome that arrives after the circuit has opened is not counted       *)
(* (_owns_current_circuit_generation).                                       *)
THEOREM StaleIgnored == Circuit!CircuitAssumption => (Circuit!Spec => Circuit!StaleOutcomesIgnored)
<1> SUFFICES ASSUME Circuit!CircuitAssumption PROVE Circuit!Spec => Circuit!StaleOutcomesIgnored
  OBVIOUS
<1> DEFINE Ignored == \A c \in Calls :
             call[c].pc # "over" /\ call'[c].pc = "over" /\ call[c].trips # circuit.trips
                 => circuit' = circuit
<1>1. CircuitInvariant /\ [Circuit!Next]_(Circuit!vars) => [Ignored]_(Circuit!vars)
  <2> SUFFICES ASSUME CircuitInvariant, Circuit!Next,
                      NEW c \in Calls, call[c].pc # "over", call'[c].pc = "over",
                      call[c].trips # circuit.trips
               PROVE  circuit' = circuit
    BY DEF Circuit!vars
  <2> USE CircuitFields DEF CircuitInvariant
  <2>1. ~Circuit!Owns(c)
    BY DEF Circuit!Owns, GenerationOf
  <2>2. CASE Circuit!Elapse
    BY <2>2 DEF Circuit!Elapse
  <2>3. ASSUME NEW d \in Calls, Circuit!Admit(d) PROVE FALSE
    BY <2>3 DEF Circuit!Admit, Circuit!TypeOK
  <2>4. ASSUME NEW d \in Calls, Circuit!CallNext(d), d # c PROVE FALSE
    BY <2>4 DEF Circuit!CallNext, Circuit!Succeed, Circuit!Retry, Circuit!Resume, Circuit!Swap,
                Circuit!Swapped, Circuit!FallbackSignal, Circuit!Fail, Circuit!Signal, Circuit!Cancel,
                Circuit!Over, Circuit!TypeOK
  <2>5. CASE Circuit!CallNext(c)
    BY <2>1, <2>5 DEF Circuit!CallNext, Circuit!Succeed, Circuit!Retry, Circuit!Resume, Circuit!Swap,
                      Circuit!Swapped, Circuit!FallbackSignal, Circuit!Fail, Circuit!Signal, Circuit!Cancel,
                      Circuit!Report
  <2> QED BY <2>2, <2>3, <2>4, <2>5 DEF Circuit!Next
<1> QED BY <1>1, CircuitIsInvariant, PTL DEF Circuit!Spec, Circuit!StaleOutcomesIgnored

-----------------------------------------------------------------------------
(* Sandbox leases: the client of a bound execution is live and is the one it*)
(* looked up.                                                               *)

(* A teardown has the client to itself: nothing is bound, whoever looked the *)
(* client up before the reservation is stale, and whoever looked it up since *)
(* saw the client that is there.  The provider is only told to release by    *)
(* the one that holds the reservation.                                       *)
TeardownIsAlone(h) ==
    /\ teardown # Sandbox!None => holder[h].pc \notin {"bound", "leaving"}
    /\ holder[h].pc \in {"get", "bind"} /\ ~holder[h].stale => teardown = Sandbox!None
    /\ holder[h].pc = "bind" /\ ~holder[h].stale /\ holder[h].seen # 0 => client = holder[h].seen
    /\ holder[h].pc \in {"bound", "leaving"} => client # 0 /\ client = holder[h].seen
    /\ holder[h].pc \in {"release", "finish"} => teardown = h

LeaseInvariant == Sandbox!TypeOK /\ \A h \in Sandbox!Holders : TeardownIsAlone(h)

(* The fields of an execution have their types.                              *)
LEMMA HolderFields ==
    ASSUME Sandbox!TypeOK, NEW h \in Sandbox!Holders
    PROVE  /\ holder[h] \in Sandbox!Holder /\ holder[h].closes \in BOOLEAN
           /\ holder[h].seen \in 0 .. MaxClients /\ holder[h].stale \in BOOLEAN
BY DEF Sandbox!TypeOK, Sandbox!Holder

(* Moving an execution on keeps its other fields.                            *)
LEMMA GotoType ==
    ASSUME Sandbox!TypeOK, NEW h \in Sandbox!Holders,
           NEW pc \in {"out", "acquire", "observe", "get", "bind", "undo",
           "bound", "leaving", "reserve", "release", "finish"}, Sandbox!Goto(h, pc)
    PROVE  /\ holder' \in [Sandbox!Holders -> Sandbox!Holder]
           /\ holder'[h].pc = pc /\ holder'[h].seen = holder[h].seen /\ holder'[h].stale = holder[h].stale
           /\ \A g \in Sandbox!Holders \ {h} : holder'[g] = holder[g]
BY DEF Sandbox!TypeOK, Sandbox!Goto, Sandbox!Holder

(* The serializer is given up by its holder only.                            *)
LEMMA ReturnType ==
    ASSUME Sandbox!TypeOK, NEW h \in Sandbox!Holders, NEW state \in Sandbox!Holder, Sandbox!Return(h, state)
    PROVE  /\ holder' \in [Sandbox!Holders -> Sandbox!Holder] /\ serial' \in Executions \cup {Sandbox!None}
           /\ holder'[h] = state
           /\ \A g \in Sandbox!Holders \ {h} : holder'[g] = holder[g]
BY DEF Sandbox!TypeOK, Sandbox!Return

(* An execution that is away has no part in any lease.                       *)
LEMMA AwayType ==
    ASSUME Sandbox!SandboxAssumption
    PROVE  Sandbox!Away \in Sandbox!Holder /\ Sandbox!Away.pc = "out" /\ Sandbox!Away.seen = 0
           /\ ~Sandbox!Away.stale
BY DEF Sandbox!Away, Sandbox!Holder, Sandbox!SandboxAssumption

(* A step that moves execution h, keeps client and teardown, and leaves h    *)
(* itself in order.                                                          *)
LEMMA QuietStep ==
    ASSUME LeaseInvariant, NEW h \in Sandbox!Holders, Sandbox!TypeOK', client' = client, teardown' = teardown,
           \A g \in Sandbox!Holders \ {h} : holder'[g] = holder[g],
           TeardownIsAlone(h)'
    PROVE  LeaseInvariant'
BY DEF LeaseInvariant, TeardownIsAlone

(* No execution is told to release while the provider's own teardown, or     *)
(* none at all, is under way; the names are apart.                           *)
LEMMA Names ==
    ASSUME Sandbox!SandboxAssumption, NEW h \in Sandbox!Holders
    PROVE  h # Sandbox!None /\ h # Sandbox!Reaper /\ Sandbox!None # Sandbox!Reaper
BY DEF Sandbox!SandboxAssumption, Sandbox!None, Sandbox!Reaper

-----------------------------------------------------------------------------
(* acquire: the serializer, and the provider's client.                       *)
LEMMA AcquireSteps ==
    ASSUME Sandbox!SandboxAssumption, LeaseInvariant, NEW o \in Executions,
           Sandbox!Enter(o) \/ Sandbox!ProviderAcquire(o) \/ Sandbox!Undo(o)
    PROVE  LeaseInvariant'
<1> USE DEF LeaseInvariant
<1>0. o \in Sandbox!Holders /\ Sandbox!TypeOK
  BY DEF Sandbox!Holders
<1>1. CASE Sandbox!Enter(o)
  <2>1. PICK closes \in BOOLEAN : holder' = [holder EXCEPT ![o].pc = "acquire", ![o].closes = closes]
    BY <1>1 DEF Sandbox!Enter
  <2>2. Sandbox!TypeOK'
    <3> DEFINE new == [holder[o] EXCEPT !.pc = "acquire", !.closes = closes]
    <3>1. holder[o] \in Sandbox!Holder
      BY <1>0, HolderFields
    <3>2. new \in Sandbox!Holder
      BY <2>1, <3>1, Zenon DEF Sandbox!Holder
    <3>3. holder' = [holder EXCEPT ![o] = new]
      BY <1>0, <2>1 DEF Sandbox!TypeOK
    <3> HIDE DEF new
    <3> QED BY Zenon, <1>0, <1>1, <3>2, <3>3 DEF Sandbox!Enter, Sandbox!TypeOK
  <2>3. holder'[o].pc = "acquire" /\ \A g \in Sandbox!Holders \ {o} : holder'[g] = holder[g]
    BY <1>0, <2>1 DEF Sandbox!TypeOK, Sandbox!Holder
  <2> QED BY <1>0, <1>1, <2>2, <2>3, QuietStep DEF Sandbox!Enter, TeardownIsAlone
<1>2. CASE Sandbox!ProviderAcquire(o)
  <2>1. PICK pc \in {"observe", "undo"} : Sandbox!Goto(o, pc)
    BY <1>2 DEF Sandbox!ProviderAcquire
  <2>2. /\ holder' \in [Sandbox!Holders -> Sandbox!Holder] /\ holder'[o].pc = pc
        /\ \A g \in Sandbox!Holders \ {o} : holder'[g] = holder[g]
    BY <1>0, <2>1, GotoType
  <2>3. client' \in 0 .. MaxClients /\ built' \in 0 .. MaxClients
    BY <1>2 DEF Sandbox!ProviderAcquire, Sandbox!TypeOK, Sandbox!SandboxAssumption
  <2>4. Sandbox!TypeOK'
    BY <1>2, <2>2, <2>3 DEF Sandbox!ProviderAcquire, Sandbox!TypeOK
  <2>5. ASSUME NEW g \in Sandbox!Holders PROVE TeardownIsAlone(g)'
    BY <1>2, <2>2 DEF Sandbox!ProviderAcquire, TeardownIsAlone
  <2> QED BY <2>4, <2>5
<1>3. CASE Sandbox!Undo(o)
  <2>1. /\ holder' \in [Sandbox!Holders -> Sandbox!Holder] /\ holder'[o].pc = "reserve"
        /\ \A g \in Sandbox!Holders \ {o} : holder'[g] = holder[g]
    BY <1>0, <1>3, GotoType DEF Sandbox!Undo
  <2>2. Sandbox!TypeOK'
    BY <1>3, <2>1 DEF Sandbox!Undo, Sandbox!TypeOK
  <2> QED BY <1>0, <1>3, <2>1, <2>2, QuietStep DEF Sandbox!Undo, TeardownIsAlone
<1> QED BY <1>1, <1>2, <1>3

(* _observe_client_lifecycle and the lookup.                                 *)
LEMMA LookupSteps ==
    ASSUME Sandbox!SandboxAssumption, LeaseInvariant, NEW h \in Sandbox!Holders, Sandbox!Observe(h)
             \/ Sandbox!Get(h)
    PROVE  LeaseInvariant'
<1> USE DEF LeaseInvariant
<1>1. CASE Sandbox!Observe(h) /\ teardown # Sandbox!None
  <2>1. /\ holder' \in [Sandbox!Holders -> Sandbox!Holder] /\ holder'[h].pc = "undo"
        /\ \A g \in Sandbox!Holders \ {h} : holder'[g] = holder[g]
    BY <1>1, GotoType DEF Sandbox!Observe
  <2>2. Sandbox!TypeOK'
    BY <1>1, <2>1 DEF Sandbox!Observe, Sandbox!TypeOK
  <2> QED BY <1>1, <2>1, <2>2, QuietStep DEF Sandbox!Observe, TeardownIsAlone
<1>2. CASE Sandbox!Observe(h) /\ teardown = Sandbox!None
  <2>1. /\ holder' \in [Sandbox!Holders -> Sandbox!Holder] /\ holder'[h].pc = "get"
        /\ \A g \in Sandbox!Holders \ {h} : holder'[g] = holder[g]
    BY <1>2 DEF Sandbox!Observe, Sandbox!TypeOK, Sandbox!Holder
  <2>2. Sandbox!TypeOK'
    BY <1>2, <2>1 DEF Sandbox!Observe, Sandbox!TypeOK
  <2> QED BY <1>2, <2>1, <2>2, QuietStep DEF Sandbox!Observe, TeardownIsAlone
<1>3. CASE Sandbox!Get(h)
  <2>1. /\ holder' \in [Sandbox!Holders -> Sandbox!Holder] /\ holder'[h].pc = "bind" /\ holder'[h].seen = client
        /\ holder'[h].stale = holder[h].stale
        /\ \A g \in Sandbox!Holders \ {h} : holder'[g] = holder[g]
    BY <1>3 DEF Sandbox!Get, Sandbox!TypeOK, Sandbox!Holder
  <2>2. Sandbox!TypeOK'
    BY <1>3, <2>1 DEF Sandbox!Get, Sandbox!TypeOK
  <2> QED BY <1>3, <2>1, <2>2, QuietStep DEF Sandbox!Get, TeardownIsAlone
<1> QED BY <1>1, <1>2, <1>3

(* _bind_live_client: what was looked up is bound only if no teardown began  *)
(* since the lifecycle was observed.                                         *)
LEMMA BindStep ==
    ASSUME Sandbox!SandboxAssumption, LeaseInvariant, NEW h \in Sandbox!Holders, Sandbox!Bind(h)
    PROVE  LeaseInvariant'
<1> USE DEF LeaseInvariant
<1> DEFINE state == [holder[h] EXCEPT !.pc = "bound", !.stale = FALSE]
<1>0. state \in Sandbox!Holder /\ state.pc = "bound" /\ state.seen = holder[h].seen
  BY DEF Sandbox!TypeOK, Sandbox!Holder
<1>1. CASE Sandbox!Bindable(h)
  <2>1. Sandbox!Return(h, state)
    BY <1>1 DEF Sandbox!Bind
  <2> HIDE DEF state
  <2>2. /\ holder' \in [Sandbox!Holders -> Sandbox!Holder] /\ serial' \in Executions \cup {Sandbox!None}
           /\ holder'[h] = state
        /\ \A g \in Sandbox!Holders \ {h} : holder'[g] = holder[g]
    BY <1>0, <2>1, ReturnType
  <2>3. Sandbox!TypeOK'
    BY <2>2 DEF Sandbox!Bind, Sandbox!TypeOK
  <2>4. teardown = Sandbox!None /\ client = holder[h].seen /\ client # 0
    BY <1>1 DEF Sandbox!Bind, Sandbox!Bindable, TeardownIsAlone
  <2> QED BY <1>0, <2>2, <2>3, <2>4, QuietStep DEF Sandbox!Bind, TeardownIsAlone
<1>2. CASE ~Sandbox!Bindable(h) /\ h \in Forks
  <2>1. /\ holder' \in [Sandbox!Holders -> Sandbox!Holder] /\ serial' \in Executions \cup {Sandbox!None}
           /\ holder'[h] = Sandbox!Away
        /\ \A g \in Sandbox!Holders \ {h} : holder'[g] = holder[g]
    BY <1>2, ReturnType, AwayType DEF Sandbox!Bind
  <2>2. Sandbox!TypeOK'
    BY <2>1 DEF Sandbox!Bind, Sandbox!TypeOK
  <2> QED BY <2>1, <2>2, AwayType, QuietStep DEF Sandbox!Bind, TeardownIsAlone
<1>3. CASE ~Sandbox!Bindable(h) /\ h \notin Forks
  <2>1. /\ holder' \in [Sandbox!Holders -> Sandbox!Holder] /\ holder'[h].pc = "undo"
        /\ \A g \in Sandbox!Holders \ {h} : holder'[g] = holder[g]
    BY <1>3, GotoType DEF Sandbox!Bind
  <2>2. Sandbox!TypeOK'
    BY <1>3, <2>1 DEF Sandbox!Bind, Sandbox!TypeOK
  <2> QED BY <1>3, <2>1, <2>2, QuietStep DEF Sandbox!Bind, TeardownIsAlone
<1> QED BY <1>1, <1>2, <1>3

(* release: the command scope is cleaned up, then the binding removed.       *)
LEMMA LeaveSteps ==
    ASSUME Sandbox!SandboxAssumption, LeaseInvariant, NEW h \in Sandbox!Holders, Sandbox!Leave(h)
             \/ Sandbox!Remove(h)
    PROVE  LeaseInvariant'
<1> USE DEF LeaseInvariant
<1>1. CASE Sandbox!Leave(h)
  <2>1. /\ holder' \in [Sandbox!Holders -> Sandbox!Holder] /\ holder'[h].pc = "leaving"
        /\ holder'[h].seen = holder[h].seen
        /\ \A g \in Sandbox!Holders \ {h} : holder'[g] = holder[g]
    BY <1>1, GotoType DEF Sandbox!Leave
  <2>2. Sandbox!TypeOK'
    BY <1>1, <2>1 DEF Sandbox!Leave, Sandbox!TypeOK
  <2> QED BY <1>1, <2>1, <2>2, QuietStep DEF Sandbox!Leave, TeardownIsAlone
<1>2. CASE Sandbox!Remove(h)
  <2>1. pending' \in BOOLEAN
    BY <1>2, HolderFields DEF Sandbox!Remove, Sandbox!TypeOK
  <2>2. CASE Sandbox!Bound = {h} /\ pending'
    <3>1. /\ holder' \in [Sandbox!Holders -> Sandbox!Holder] /\ holder'[h].pc = "reserve"
          /\ \A g \in Sandbox!Holders \ {h} : holder'[g] = holder[g]
      BY <1>2, <2>2, GotoType DEF Sandbox!Remove
    <3>2. Sandbox!TypeOK'
      BY <1>2, <2>1, <2>2, <3>1 DEF Sandbox!Remove, Sandbox!TypeOK
    <3> QED BY <1>2, <3>1, <3>2, QuietStep DEF Sandbox!Remove, TeardownIsAlone
  <2>3. CASE ~(Sandbox!Bound = {h} /\ pending')
    <3>1. /\ holder' \in [Sandbox!Holders -> Sandbox!Holder] /\ serial' \in Executions \cup {Sandbox!None}
             /\ holder'[h] = Sandbox!Away
          /\ \A g \in Sandbox!Holders \ {h} : holder'[g] = holder[g]
      BY <1>2, <2>3, ReturnType, AwayType DEF Sandbox!Remove
    <3>2. Sandbox!TypeOK'
      BY <1>2, <2>1, <3>1 DEF Sandbox!Remove, Sandbox!TypeOK
    <3> QED BY <1>2, <3>1, <3>2, AwayType, QuietStep DEF Sandbox!Remove, TeardownIsAlone
  <2> QED BY <2>2, <2>3
<1> QED BY <1>1, <1>2

(* reserve_idle_teardown: whoever is between its lookup and its binding      *)
(* turns stale.                                                              *)
LEMMA ReservedStep ==
    ASSUME Sandbox!SandboxAssumption, LeaseInvariant, Sandbox!MayReserve,
           NEW by \in Sandbox!Holders \cup {Sandbox!Reaper}, NEW pc, by \in Sandbox!Holders => pc = "release",
           Sandbox!Reserved(by, pc), UNCHANGED <<client, built, serial, pending>>
    PROVE  LeaseInvariant'
<1> USE DEF LeaseInvariant
<1>0. /\ teardown = Sandbox!None /\ teardown' = by
      /\ \A g \in Sandbox!Holders : holder[g].pc \notin {"bound", "leaving", "release", "finish"}
  BY Zenon, Names DEF Sandbox!MayReserve, Sandbox!Bound, TeardownIsAlone, Sandbox!Reserved
<1>1. ASSUME NEW g \in Sandbox!Holders
      PROVE  /\ holder'[g] \in Sandbox!Holder /\ holder'[g].seen = holder[g].seen
             /\ holder'[g].pc = IF g = by THEN "release" ELSE holder[g].pc
             /\ holder[g].pc \in {"get", "bind"} => holder'[g].stale
  <2> DEFINE st == holder[g].stale \/ holder[g].pc \in {"get", "bind"}
             p == IF g = by THEN pc ELSE holder[g].pc
             new == [holder[g] EXCEPT !.stale = st, !.pc = p]
  <2>1. holder'[g] = new
    BY Zenon DEF Sandbox!Reserved
  <2>2. st \in BOOLEAN /\ holder[g] \in Sandbox!Holder
    BY HolderFields
  <2>3. p = IF g = by THEN "release" ELSE holder[g].pc
    BY Names
  <2>4. p \in {"out", "acquire", "observe", "get", "bind", "undo", "bound", "leaving", "reserve",
               "release", "finish"}
    BY <2>2, <2>3 DEF Sandbox!Holder
  <2>5. holder[g].pc \in {"get", "bind"} => st
    OBVIOUS
  <2> HIDE DEF st, p
  <2>6. new \in Sandbox!Holder /\ new.seen = holder[g].seen /\ new.pc = p /\ new.stale = st
    BY <2>2, <2>4, Zenon DEF Sandbox!Holder
  <2> HIDE DEF new
  <2> QED BY <2>1, <2>3, <2>5, <2>6
<1>2. holder' \in [Sandbox!Holders -> Sandbox!Holder]
  BY Zenon, <1>1 DEF Sandbox!Reserved
<1>3. Sandbox!TypeOK'
  BY <1>0, <1>2 DEF Sandbox!TypeOK
<1>4. ASSUME NEW g \in Sandbox!Holders PROVE TeardownIsAlone(g)'
  BY <1>0, <1>1, Names DEF TeardownIsAlone
<1> QED BY <1>3, <1>4

(* _release_if_idle: the reservation, or nothing when it is refused.         *)
LEMMA ReserveStep ==
    ASSUME Sandbox!SandboxAssumption, LeaseInvariant, NEW h \in Sandbox!Holders, Sandbox!Reserve(h)
    PROVE  LeaseInvariant'
<1> USE DEF LeaseInvariant
<1>1. CASE Sandbox!MayReserve
  BY <1>1, ReservedStep DEF Sandbox!Reserve
<1>2. CASE ~Sandbox!MayReserve
  <2>1. /\ holder' \in [Sandbox!Holders -> Sandbox!Holder] /\ serial' \in Executions \cup {Sandbox!None}
           /\ holder'[h] = Sandbox!Away
        /\ \A g \in Sandbox!Holders \ {h} : holder'[g] = holder[g]
    BY <1>2, ReturnType, AwayType DEF Sandbox!Reserve
  <2>2. Sandbox!TypeOK'
    BY <1>2, <2>1 DEF Sandbox!Reserve, Sandbox!TypeOK
  <2> QED BY <1>2, <2>1, <2>2, AwayType, QuietStep DEF Sandbox!Reserve, TeardownIsAlone
<1> QED BY <1>1, <1>2

(* The provider's release under the reservation, and its end.                *)
LEMMA TeardownSteps ==
    ASSUME Sandbox!SandboxAssumption, LeaseInvariant, NEW h \in Sandbox!Holders, Sandbox!ProviderRelease(h)
             \/ Sandbox!Finish(h)
    PROVE  LeaseInvariant'
<1> USE DEF LeaseInvariant
<1>1. CASE Sandbox!ProviderRelease(h)
  <2>1. /\ holder' \in [Sandbox!Holders -> Sandbox!Holder] /\ holder'[h].pc = "finish"
        /\ \A g \in Sandbox!Holders \ {h} : holder'[g] = holder[g]
    BY <1>1, GotoType DEF Sandbox!ProviderRelease
  <2>2. Sandbox!TypeOK'
    <3>1. 0 \in 0 .. MaxClients
      BY DEF Sandbox!SandboxAssumption
    <3> QED BY <1>1, <2>1, <3>1, Zenon DEF Sandbox!ProviderRelease, Sandbox!TypeOK
  <2>3. teardown = h /\ teardown # Sandbox!None /\ teardown' = teardown
    BY <1>1, Names DEF Sandbox!ProviderRelease, TeardownIsAlone
  <2>4. ASSUME NEW g \in Sandbox!Holders PROVE TeardownIsAlone(g)'
    BY <2>1, <2>3 DEF TeardownIsAlone
  <2> QED BY <2>2, <2>4
<1>2. CASE Sandbox!Finish(h)
  <2>1. /\ holder' \in [Sandbox!Holders -> Sandbox!Holder] /\ serial' \in Executions \cup {Sandbox!None}
           /\ holder'[h] = Sandbox!Away
        /\ \A g \in Sandbox!Holders \ {h} : holder'[g] = holder[g]
    BY <1>2, ReturnType, AwayType DEF Sandbox!Finish
  <2>2. Sandbox!TypeOK'
    BY <1>2, <2>1 DEF Sandbox!Finish, Sandbox!TypeOK
  <2>3. teardown = h /\ teardown' = Sandbox!None /\ client' = client
    BY <1>2 DEF Sandbox!Finish, TeardownIsAlone
  <2>4. ASSUME NEW g \in Sandbox!Holders PROVE TeardownIsAlone(g)'
    BY <2>1, <2>3, AwayType DEF TeardownIsAlone
  <2> QED BY <2>2, <2>4
<1> QED BY <1>1, <1>2

(* The provider's idle checker.                                              *)
LEMMA ReapSteps ==
    ASSUME Sandbox!SandboxAssumption, LeaseInvariant, Sandbox!ReapReserve \/ Sandbox!Reap
    PROVE  LeaseInvariant'
<1> USE DEF LeaseInvariant
<1>1. CASE Sandbox!ReapReserve
  BY <1>1, ReservedStep, Names DEF Sandbox!ReapReserve
<1>2. CASE Sandbox!Reap
  <2>1. Sandbox!TypeOK'
    BY <1>2 DEF Sandbox!Reap, Sandbox!TypeOK, Sandbox!SandboxAssumption
  <2>2. ASSUME NEW g \in Sandbox!Holders PROVE TeardownIsAlone(g)'
    BY <1>2, Names DEF Sandbox!Reap, TeardownIsAlone, Sandbox!None, Sandbox!Reaper
  <2> QED BY <2>1, <2>2
<1> QED BY <1>1, <1>2

-----------------------------------------------------------------------------
(* LeaseInvariant holds in every state of the lease manager.                 *)
THEOREM LeaseIsInvariant == Sandbox!SandboxAssumption => (Sandbox!Spec => []LeaseInvariant)
<1> SUFFICES ASSUME Sandbox!SandboxAssumption PROVE Sandbox!Spec => []LeaseInvariant
  OBVIOUS
<1>1. Sandbox!Init => LeaseInvariant
  <2> SUFFICES ASSUME Sandbox!Init PROVE LeaseInvariant
    OBVIOUS
  <2>1. Sandbox!TypeOK
    <3>1. 0 \in 0 .. MaxClients /\ Sandbox!Away \in Sandbox!Holder
      BY AwayType DEF Sandbox!SandboxAssumption
    <3> QED BY <3>1, Zenon DEF Sandbox!Init, Sandbox!TypeOK
  <2>2. \A h \in Sandbox!Holders : TeardownIsAlone(h)
    BY AwayType DEF Sandbox!Init, TeardownIsAlone
  <2> QED BY <2>1, <2>2 DEF LeaseInvariant
<1>2. LeaseInvariant /\ [Sandbox!Next]_(Sandbox!vars) => LeaseInvariant'
  <2> SUFFICES ASSUME LeaseInvariant, [Sandbox!Next]_(Sandbox!vars) PROVE LeaseInvariant'
    OBVIOUS
  <2>1. CASE UNCHANGED Sandbox!vars
    BY <2>1 DEF Sandbox!vars, LeaseInvariant, Sandbox!TypeOK, TeardownIsAlone
  <2> QED BY <2>1, AcquireSteps, LookupSteps, BindStep, LeaveSteps, ReserveStep, TeardownSteps, ReapSteps
          DEF Sandbox!Next
<1> QED BY <1>1, <1>2, PTL DEF Sandbox!Spec

(* The client of a bound execution is live and is the one it looked up,      *)
(* whatever the other executions, the forks that borrow it and the idle      *)
(* checker do (reserve_idle_teardown, _bind_live_client).                    *)
THEOREM BoundIsLive == Sandbox!SandboxAssumption => (Sandbox!Spec => []Sandbox!BoundClientIsLive)
<1> SUFFICES ASSUME Sandbox!SandboxAssumption PROVE Sandbox!Spec => []Sandbox!BoundClientIsLive
  OBVIOUS
<1>1. LeaseInvariant => Sandbox!BoundClientIsLive
  BY DEF LeaseInvariant, TeardownIsAlone, Sandbox!BoundClientIsLive, Sandbox!Bound
<1> QED BY <1>1, LeaseIsInvariant, PTL

-----------------------------------------------------------------------------
(* The notification outbox: a notice is sent no more often than the outbox  *)
(* has had reason to.                                                       *)

(* Who may send the notice without a further look at the row.                *)
Sending == {w \in Workers : Outbox!At(w, "send")}

(* Whether the row may yet lead to a send: it waits, or the worker that owns *)
(* it has not got so far, or may still give it back.                         *)
Undecided(w) == Outbox!Owns(w) /\ sender[w].pc \in {"check", "recheck", "confirm", "failed", "park"}
Chance       == IF delivery.status \in {"none", "pending"} \/ \E w \in Workers : Undecided(w) THEN 1 ELSE 0

(* A claim belongs to one worker.                                            *)
ClaimsFit ==
    /\ delivery.status = "sending" => delivery.token = delivery.claims /\ delivery.claims > 0
    /\ delivery.status \in {"none", "pending", "sending"} => delivery.attempts < OutboxAttempts
    /\ \A w \in Workers : /\ sender[w].token <= delivery.claims
                          /\ sender[w].token = 0 <=> sender[w].pc \in {"idle", "claim"}
    /\ \A v, w \in Workers : v # w /\ sender[v].token = sender[w].token => sender[v].token = 0

OutboxInvariant == Outbox!TypeOK /\ ClaimsFit /\ pushed + Cardinality(Sending) + Chance <= allowed

(* Its finite sets are those of this module.                                 *)
LEMMA OutboxFinite ==
    ASSUME NEW S
    PROVE  Outbox!Cardinality(S) = Cardinality(S) /\ (Outbox!IsFiniteSet(S) <=> IsFiniteSet(S))
BY DEF Cardinality, Outbox!Cardinality, IsFiniteSet, Outbox!IsFiniteSet

(* What the row and a worker hold.                                           *)
LEMMA OutboxFields ==
    ASSUME Outbox!OutboxAssumption, Outbox!TypeOK
    PROVE  /\ delivery.claims \in Nat /\ delivery.token \in Nat /\ delivery.attempts \in Nat
              /\ delivery.parked \in Nat
           /\ delivery.claims \in 0 .. MaxOutboxClaims /\ delivery.attempts \in 0 .. OutboxAttempts
              /\ delivery.parked \in 0 .. MaxParked
           /\ pushed \in Nat /\ allowed \in Nat /\ 0 \in 0 .. MaxOutboxClaims /\ Outbox!Idle \in Outbox!Worker
           /\ \A w \in Workers : sender[w] \in Outbox!Worker /\ sender[w].token \in Nat
           /\ IsFiniteSet(Sending) /\ Cardinality(Sending) \in Nat
<1>1. Sending \subseteq Workers
  BY DEF Sending
<1>2. IsFiniteSet(Sending) /\ Cardinality(Sending) \in Nat
  BY <1>1, FS_Subset, FS_CardinalityType, OutboxFinite DEF Outbox!OutboxAssumption
<1>3. 0 \in 0 .. MaxOutboxClaims /\ Outbox!Idle \in Outbox!Worker
  BY DEF Outbox!OutboxAssumption, Outbox!Idle, Outbox!Worker
<1>4. /\ delivery.claims \in 0 .. MaxOutboxClaims /\ delivery.token \in 0 .. MaxOutboxClaims
         /\ delivery.attempts \in 0 .. OutboxAttempts
      /\ delivery.parked \in 0 .. MaxParked
  BY DEF Outbox!TypeOK, Outbox!Row
<1>5. \A w \in Workers : sender[w] \in Outbox!Worker /\ sender[w].token \in Nat
  BY DEF Outbox!TypeOK, Outbox!Worker
<1> QED BY <1>2, <1>3, <1>4, <1>5 DEF Outbox!TypeOK

(* A worker's step moves at most itself among those who send.                *)
LEMMA OutboxMoves ==
    ASSUME Outbox!OutboxAssumption, Outbox!TypeOK, NEW w \in Workers, NEW state \in Outbox!Worker,
           sender' = [sender EXCEPT ![w] = state]
    PROVE  /\ sender' \in [Workers -> Outbox!Worker] /\ sender'[w] = state
           /\ \A v \in Workers : v # w => sender'[v] = sender[v]
           /\ state.pc # "send" /\ ~Outbox!At(w, "send") => Cardinality(Sending') = Cardinality(Sending)
           /\ state.pc # "send" /\ Outbox!At(w, "send") => Cardinality(Sending') = Cardinality(Sending) - 1
           /\ state.pc = "send" /\ ~Outbox!At(w, "send") => Cardinality(Sending') = Cardinality(Sending) + 1
           /\ Cardinality(Sending') \in Nat
<1>1. /\ sender' \in [Workers -> Outbox!Worker] /\ sender'[w] = state
      /\ \A v \in Workers : v # w => sender'[v] = sender[v]
  BY DEF Outbox!TypeOK
<1>2. IsFiniteSet(Sending)
  BY OutboxFields
<1>3. ASSUME state.pc # "send" PROVE Sending' = Sending \ {w}
  BY <1>1, <1>3 DEF Sending, Outbox!At
<1>4. ASSUME state.pc = "send" PROVE Sending' = Sending \cup {w}
  BY <1>1, <1>4 DEF Sending, Outbox!At
<1>5. w \in Sending <=> Outbox!At(w, "send")
  BY DEF Sending
<1>6. ASSUME state.pc # "send", ~Outbox!At(w, "send") PROVE Cardinality(Sending') = Cardinality(Sending)
  <2>1. Sending' = Sending
    BY <1>3, <1>5, <1>6
  <2> QED BY <2>1
<1>7. ASSUME state.pc # "send", Outbox!At(w, "send") PROVE Cardinality(Sending') = Cardinality(Sending) - 1
  BY <1>2, <1>3, <1>5, <1>7, FS_RemoveElement
<1>8. ASSUME state.pc = "send", ~Outbox!At(w, "send") PROVE Cardinality(Sending') = Cardinality(Sending) + 1
  BY <1>2, <1>4, <1>5, <1>8, FS_AddElement
<1>9. Cardinality(Sending') \in Nat
  <2>1. Sending' \subseteq Workers
    BY DEF Sending
  <2> QED BY <2>1, FS_Subset, FS_CardinalityType, OutboxFinite DEF Outbox!OutboxAssumption
<1> QED BY <1>1, <1>6, <1>7, <1>8, <1>9

(* A worker that keeps its claim or leaves it, and a row that is not claimed *)
(* anew.                                                                     *)
LEMMA OutboxTokens ==
    ASSUME Outbox!OutboxAssumption, OutboxInvariant, NEW w \in Workers, NEW state \in Outbox!Worker,
           sender' = [sender EXCEPT ![w] = state], state.token \in {0, sender[w].token},
           state.token = 0 <=> state.pc \in {"idle", "claim"},
           delivery' \in Outbox!Row, delivery'.claims = delivery.claims,
           delivery'.status = "sending" => delivery.status = "sending" /\ delivery'.token = delivery.token,
           delivery'.status \in {"none", "pending", "sending"} => delivery'.attempts < OutboxAttempts
    PROVE  ClaimsFit'
<1>1. /\ sender'[w] = state /\ \A v \in Workers : v # w => sender'[v] = sender[v]
      /\ delivery.claims \in Nat /\ \A v \in Workers : sender[v].token \in Nat
  BY OutboxMoves, OutboxFields DEF OutboxInvariant
<1> QED BY <1>1 DEF OutboxInvariant, ClaimsFit

(* Whether the row still has a chance.                                       *)
LEMMA OutboxChance ==
    ASSUME Outbox!OutboxAssumption, OutboxInvariant, NEW w \in Workers, NEW state \in Outbox!Worker,
           sender' = [sender EXCEPT ![w] = state]
    PROVE  /\ Chance \in {0, 1} /\ Chance' \in {0, 1}
           /\ delivery'.status \in {"sent", "failed"} => Chance' = 0
           /\ delivery.status = "pending" \/ Undecided(w) => Chance = 1
           /\ delivery' = delivery /\ (Undecided(w)' => Undecided(w)) => Chance' <= Chance
           /\ delivery' = delivery /\ Undecided(w) /\ ~Undecided(w)' => Chance' = 0
<1>1. sender'[w] = state /\ \A v \in Workers : v # w => sender'[v] = sender[v]
  BY OutboxMoves DEF OutboxInvariant
<1>2. delivery' = delivery => \A v \in Workers : v # w => (Undecided(v)' <=> Undecided(v))
  BY <1>1 DEF Undecided, Outbox!Owns
<1>3. Undecided(w) => delivery.status = "sending" /\ \A v \in Workers : v # w => ~Undecided(v)
  <2>1. delivery.claims \in Nat
    BY OutboxFields DEF OutboxInvariant
  <2> QED BY <2>1 DEF Undecided, Outbox!Owns, OutboxInvariant, ClaimsFit
<1>4. Chance \in {0, 1} /\ Chance' \in {0, 1}
  BY DEF Chance
<1>5. delivery'.status \in {"sent", "failed"} => Chance' = 0
  BY DEF Chance, Undecided, Outbox!Owns
<1>6. delivery.status = "pending" \/ Undecided(w) => Chance = 1
  BY DEF Chance
<1>7. delivery' = delivery /\ (Undecided(w)' => Undecided(w)) => Chance' <= Chance
  <2> SUFFICES ASSUME delivery' = delivery, Undecided(w)' => Undecided(w), Chance' # 0 PROVE Chance = 1
    BY <1>4
  <2>1. delivery'.status \in {"none", "pending"} \/ \E v \in Workers : Undecided(v)'
    BY DEF Chance
  <2>2. delivery.status \in {"none", "pending"} \/ \E v \in Workers : Undecided(v)
    BY <1>2, <2>1
  <2> QED BY <2>2 DEF Chance
<1>8. delivery' = delivery /\ Undecided(w) /\ ~Undecided(w)' => Chance' = 0
  BY <1>2, <1>3 DEF Chance
<1> QED BY <1>4, <1>5, <1>6, <1>7, <1>8

(* A worker moves on with its claim.                                         *)
LEMMA OutboxMovedOn ==
    ASSUME Outbox!OutboxAssumption, OutboxInvariant, NEW w \in Workers, sender[w].token # 0,
           NEW p \in {"check", "recheck", "confirm", "send", "sent", "failed", "park", "drop"}
    PROVE  LET state == [sender[w] EXCEPT !.pc = p]
           IN  /\ state \in Outbox!Worker /\ state.pc = p /\ state.token = sender[w].token
               /\ state.token = 0 <=> state.pc \in {"idle", "claim"}
<1>1. sender[w] \in Outbox!Worker
  BY DEF OutboxInvariant, Outbox!TypeOK
<1>2. [sender[w] EXCEPT !.pc = p].pc = p /\ [sender[w] EXCEPT !.pc = p].token = sender[w].token
  BY <1>1 DEF Outbox!Worker
<1>3. [sender[w] EXCEPT !.pc = p] \in Outbox!Worker
  BY <1>1, Zenon DEF Outbox!Worker
<1> QED BY <1>2, <1>3

(* A step of a worker that does not write the row.                           *)
LEMMA OutboxWorks ==
    ASSUME Outbox!OutboxAssumption, OutboxInvariant, NEW w \in Workers, sender[w].token # 0,
           NEW p \in {"check", "recheck", "confirm", "send", "sent", "failed", "park", "drop"}, Outbox!Go(w, p),
           delivery' = delivery, enabled' = enabled, pushed' \in Nat, allowed' \in Nat,
           pushed' + Cardinality(Sending') + Chance' <= allowed'
    PROVE  OutboxInvariant'
<1> DEFINE state == [sender[w] EXCEPT !.pc = p]
<1>1. /\ state \in Outbox!Worker /\ state.pc = p /\ state.token = sender[w].token
      /\ state.token = 0 <=> state.pc \in {"idle", "claim"}
  BY OutboxMovedOn
<1>2. sender' = [sender EXCEPT ![w] = state]
  BY DEF Outbox!Go, OutboxInvariant, Outbox!TypeOK
<1> HIDE DEF state
<1>3. sender' \in [Workers -> Outbox!Worker]
  BY <1>1, <1>2, OutboxMoves DEF OutboxInvariant
<1>4. delivery \in Outbox!Row
      /\ (delivery.status \in {"none", "pending", "sending"} => delivery.attempts < OutboxAttempts)
  BY DEF OutboxInvariant, Outbox!TypeOK, ClaimsFit
<1>5. ClaimsFit'
  BY <1>1, <1>2, <1>4, OutboxTokens
<1>6. Outbox!TypeOK'
  BY <1>3 DEF OutboxInvariant, Outbox!TypeOK
<1> QED BY <1>5, <1>6 DEF OutboxInvariant

(* A worker that leaves its claim.                                           *)
LEMMA OutboxRests ==
    ASSUME Outbox!OutboxAssumption, OutboxInvariant, NEW w \in Workers, Outbox!Rest(w), ~Outbox!At(w, "idle"),
           UNCHANGED <<enabled, pushed, allowed>>, delivery' \in Outbox!Row, delivery'.claims = delivery.claims,
           delivery'.status = "sending" => delivery.status = "sending" /\ delivery'.token = delivery.token,
           delivery'.status \in {"none", "pending", "sending"} => delivery'.attempts < OutboxAttempts,
           delivery' = delivery \/ delivery'.status \in {"sent", "failed"} \/ Undecided(w)
    PROVE  OutboxInvariant'
<1>1. /\ Outbox!Idle \in Outbox!Worker /\ Outbox!Idle.pc = "idle" /\ Outbox!Idle.token = 0
         /\ sender' = [sender EXCEPT ![w] = Outbox!Idle]
      /\ pushed \in Nat /\ allowed \in Nat /\ Cardinality(Sending) \in Nat
  BY OutboxFields DEF OutboxInvariant, Outbox!Idle, Outbox!Rest
<1>2. ClaimsFit'
  BY <1>1, OutboxTokens
<1>3. Outbox!TypeOK'
  BY <1>1, OutboxMoves DEF OutboxInvariant, Outbox!TypeOK
<1>4. Cardinality(Sending') <= Cardinality(Sending) /\ Cardinality(Sending') \in Nat
  <2> DEFINE state == Outbox!Idle
  <2>1. state \in Outbox!Worker /\ state.pc = "idle" /\ sender' = [sender EXCEPT ![w] = state] /\ Outbox!TypeOK
    BY <1>1 DEF OutboxInvariant
  <2> HIDE DEF state
  <2>2. /\ ~Outbox!At(w, "send") => Cardinality(Sending') = Cardinality(Sending)
        /\ Outbox!At(w, "send") => Cardinality(Sending') = Cardinality(Sending) - 1
        /\ Cardinality(Sending') \in Nat
    BY <2>1, OutboxMoves
  <2> QED BY <1>1, <2>2
<1>5. Chance' <= Chance /\ Chance \in {0, 1} /\ Chance' \in {0, 1}
  <2>1. sender'[w] = Outbox!Idle
    BY <1>1, OutboxMoves DEF OutboxInvariant
  <2>2. ~Undecided(w)'
    BY <1>1, <2>1 DEF Undecided
  <2> DEFINE state == Outbox!Idle
  <2>3. state \in Outbox!Worker /\ sender' = [sender EXCEPT ![w] = state]
    BY <1>1
  <2> HIDE DEF state
  <2>4. /\ Chance \in {0, 1} /\ Chance' \in {0, 1}
        /\ delivery'.status \in {"sent", "failed"} => Chance' = 0
        /\ Undecided(w) => Chance = 1
        /\ delivery' = delivery => Chance' <= Chance
    BY <2>2, <2>3, OutboxChance
  <2> QED BY <2>4
<1>6. pushed' + Cardinality(Sending') + Chance' <= allowed'
  BY <1>1, <1>4, <1>5 DEF OutboxInvariant
<1> QED BY <1>2, <1>3, <1>6 DEF OutboxInvariant

(* A change of the row that no worker makes: nobody is counted anew.         *)
LEMMA OutboxRowStep ==
    ASSUME Outbox!OutboxAssumption, OutboxInvariant, sender' = sender, delivery' \in Outbox!Row,
           delivery'.claims = delivery.claims,
           enabled' \in BOOLEAN, pushed' = pushed, allowed' \in Nat,
           delivery'.status = "sending" => delivery.status = "sending" /\ delivery'.token = delivery.token,
           delivery'.status \in {"none", "pending", "sending"} => delivery'.attempts < OutboxAttempts,
           pushed + Cardinality(Sending) + Chance' <= allowed'
    PROVE  OutboxInvariant'
<1>1. Sending' = Sending
  BY DEF Sending, Outbox!At
<1> QED BY <1>1 DEF OutboxInvariant, Outbox!TypeOK, ClaimsFit

(* The row settled, with its counters.                                       *)
LEMMA OutboxSettle ==
    ASSUME Outbox!OutboxAssumption, Outbox!TypeOK, NEW s \in {"none", "pending", "sending", "sent", "failed"}
    PROVE  /\ Outbox!Settle(s) \in Outbox!Row /\ Outbox!Settle(s).status = s
              /\ Outbox!Settle(s).claims = delivery.claims /\ Outbox!Settle(s).token = 0
           /\ Outbox!Settle(s).attempts = delivery.attempts /\ Outbox!Settle(s).parked = delivery.parked
<1>1. delivery \in Outbox!Row /\ 0 \in 0 .. MaxOutboxClaims
  BY OutboxFields DEF Outbox!TypeOK
<1>2. Outbox!Settle(s) \in Outbox!Row
  BY <1>1, Zenon DEF Outbox!Settle, Outbox!Row
<1> QED BY <1>1, <1>2 DEF Outbox!Settle, Outbox!Row

LEMMA OutboxStep ==
    ASSUME Outbox!OutboxAssumption, OutboxInvariant, [Outbox!Next]_(Outbox!vars)
    PROVE  OutboxInvariant'
<1>1. /\ Outbox!TypeOK /\ ClaimsFit /\ pushed + Cardinality(Sending) + Chance <= allowed
      /\ pushed \in Nat /\ allowed \in Nat /\ Cardinality(Sending) \in Nat /\ delivery \in Outbox!Row
         /\ enabled \in BOOLEAN
      /\ \A w \in Workers : sender[w] \in Outbox!Worker /\ sender[w].token \in Nat
      /\ Chance \in {0, 1} /\ Chance' \in {0, 1}
  BY OutboxFields DEF OutboxInvariant, Outbox!TypeOK, Chance
<1>2. delivery.status \in {"none", "pending", "sending"} => delivery.attempts < OutboxAttempts
  BY <1>1 DEF ClaimsFit
<1>3. CASE Outbox!Enqueue
  <2> DEFINE next == [delivery EXCEPT !.status = "pending"]
  <2>1. next \in Outbox!Row /\ next.status = "pending" /\ next.claims = delivery.claims
        /\ next.attempts = delivery.attempts
    BY <1>1 DEF Outbox!Row
  <2>2. delivery' = next /\ delivery.status = "none" /\ UNCHANGED <<enabled, sender, pushed, allowed>>
    BY <1>3 DEF Outbox!Enqueue
  <2> HIDE DEF next
  <2>3. Chance = 1
    BY <2>2 DEF Chance
  <2> QED BY <1>1, <1>2, <2>1, <2>2, <2>3, OutboxRowStep
<1>4. CASE Outbox!Mute
  <2>1. CASE delivery.status \in {"pending", "sending"} /\ delivery' = Outbox!Settle("failed")
    <3>1. Outbox!Settle("failed") \in Outbox!Row /\ Outbox!Settle("failed").status = "failed"
          /\ Outbox!Settle("failed").claims = delivery.claims
      BY <1>1, OutboxSettle
    <3>2. Chance' = 0
      BY <2>1, <3>1 DEF Chance, Undecided, Outbox!Owns
    <3>3. allowed' = pushed + Cardinality(Sending) /\ sender' = sender /\ pushed' = pushed
          /\ enabled' \in BOOLEAN
      BY <1>4, <2>1, OutboxFinite DEF Outbox!Mute, Sending
    <3> QED BY <1>1, <2>1, <3>1, <3>2, <3>3, OutboxRowStep
  <2>2. CASE delivery' = delivery /\ allowed' = allowed
    <3>1. sender' = sender /\ pushed' = pushed /\ enabled' \in BOOLEAN
      BY <1>4 DEF Outbox!Mute
    <3>2. Chance' = Chance
      BY <2>2, <3>1 DEF Chance, Undecided, Outbox!Owns
    <3> QED BY <1>1, <1>2, <2>2, <3>1, <3>2, OutboxRowStep
  <2> QED BY <1>4, <2>1, <2>2 DEF Outbox!Mute, Outbox!Settle
<1>5. CASE Outbox!Unmute
  <2>1. UNCHANGED <<delivery, sender, pushed, allowed>> /\ enabled' \in BOOLEAN
    BY <1>5 DEF Outbox!Unmute
  <2>2. Chance' = Chance
    BY <2>1 DEF Chance, Undecided, Outbox!Owns
  <2> QED BY <1>1, <1>2, <2>1, <2>2, OutboxRowStep
<1>6. CASE Outbox!TurnsStale
  <2> DEFINE next == [delivery EXCEPT !.stale = TRUE]
  <2>1. /\ next \in Outbox!Row /\ next.status = delivery.status /\ next.claims = delivery.claims
           /\ next.attempts = delivery.attempts
        /\ next.token = delivery.token
    BY <1>1 DEF Outbox!Row
  <2>2. delivery' = next /\ UNCHANGED <<enabled, sender, pushed, allowed>>
    BY <1>6 DEF Outbox!TurnsStale
  <2> HIDE DEF next
  <2>3. Chance' = Chance
    BY <2>1, <2>2 DEF Chance, Undecided, Outbox!Owns
  <2> QED BY <1>1, <1>2, <2>1, <2>2, <2>3, OutboxRowStep
<1>7. ASSUME NEW w \in Workers, Outbox!Reset(w) PROVE OutboxInvariant'
  <2>1. delivery' = Outbox!Settle("pending") /\ allowed' = allowed + 1 /\ delivery.status = "sending"
    BY <1>7 DEF Outbox!Reset, Outbox!Settle
  <2>2. Outbox!Settle("pending") \in Outbox!Row /\ Outbox!Settle("pending").status = "pending"
        /\ Outbox!Settle("pending").claims = delivery.claims
        /\ Outbox!Settle("pending").attempts = delivery.attempts
    BY <1>1, OutboxSettle
  <2>3. UNCHANGED <<enabled, sender, pushed>>
    BY <1>7 DEF Outbox!Reset
  <2> QED BY <1>1, <1>2, <2>1, <2>2, <2>3, OutboxRowStep
<1>8. ASSUME NEW w \in Workers, Outbox!Select(w) PROVE OutboxInvariant'
  <2> DEFINE state == [sender[w] EXCEPT !.pc = "claim"]
  <2>1. sender[w].token = 0 /\ sender[w] \in Outbox!Worker
    BY <1>1, <1>8 DEF ClaimsFit, Outbox!Select, Outbox!At
  <2>2. state \in Outbox!Worker
    BY <2>1, Zenon DEF Outbox!Worker
  <2>3. state.pc = "claim" /\ state.token = 0
    BY <2>1 DEF Outbox!Worker
  <2>4. sender' = [sender EXCEPT ![w] = state] /\ UNCHANGED <<delivery, enabled, pushed, allowed>>
        /\ delivery.status = "pending"
    BY <1>1, <1>8 DEF Outbox!Select, Outbox!Go, Outbox!TypeOK
  <2> HIDE DEF state
  <2>5. ClaimsFit'
    BY <1>1, <1>2, <2>2, <2>3, <2>4, OutboxTokens
  <2>6. Chance = 1
    BY <2>4 DEF Chance
  <2>7. ~Outbox!At(w, "send")
    BY <1>8 DEF Outbox!Select, Outbox!At
  <2>8. Cardinality(Sending') = Cardinality(Sending) /\ sender' \in [Workers -> Outbox!Worker]
    BY <1>1, <2>2, <2>3, <2>4, <2>7, OutboxMoves
  <2> QED BY <1>1, <2>4, <2>5, <2>6, <2>8 DEF OutboxInvariant, Outbox!TypeOK
<1>9. ASSUME NEW w \in Workers, Outbox!Claim(w) PROVE OutboxInvariant'
  <2>1. UNCHANGED <<enabled, pushed, allowed>> /\ sender[w].pc = "claim" /\ delivery.claims < MaxOutboxClaims
    BY <1>9 DEF Outbox!Claim, Outbox!At
  <2>2. CASE ~Outbox!Flippable /\ delivery' = delivery /\ Outbox!Rest(w)
    <3>1. ~Outbox!At(w, "idle")
      BY <2>1 DEF Outbox!At
    <3> QED BY <1>1, <1>2, <2>1, <2>2, <3>1, OutboxRests
  <2>3. CASE /\ Outbox!Flippable
             /\ delivery' = [delivery EXCEPT !.status = "sending", !.claims = @ + 1, !.token = delivery.claims + 1]
             /\ sender' = [sender EXCEPT ![w] = [pc |-> "check", token |-> delivery.claims + 1]]
    <3> DEFINE c     == delivery.claims + 1
               next  == [delivery EXCEPT !.status = "sending", !.claims = c, !.token = c]
               state == [pc |-> "check", token |-> c]
    <3>1. c \in 0 .. MaxOutboxClaims /\ c \in Nat /\ c > 0 /\ delivery.claims \in Nat /\ c = delivery.claims + 1
      BY <1>1, <2>1, OutboxFields DEF Outbox!OutboxAssumption
    <3>2. sender' = [sender EXCEPT ![w] = state] /\ delivery' = next
      BY <1>1, <2>3 DEF Outbox!Row
    <3> HIDE DEF c
    <3>3. state \in Outbox!Worker /\ state.pc = "check" /\ state.token = c
      BY <3>1 DEF Outbox!Worker
    <3>4. next \in Outbox!Row
      BY <1>1, <3>1, Zenon DEF Outbox!Row
    <3>5. next.status = "sending" /\ next.claims = c /\ next.token = c /\ next.attempts = delivery.attempts
      BY <1>1 DEF Outbox!Row
    <3> HIDE DEF next, state
    <3>6. ~Outbox!At(w, "send")
      BY <2>1 DEF Outbox!At
    <3>7. /\ sender' \in [Workers -> Outbox!Worker] /\ sender'[w] = state
             /\ Cardinality(Sending') = Cardinality(Sending)
          /\ \A v \in Workers : v # w => sender'[v] = sender[v]
      BY <1>1, <3>2, <3>3, <3>6, OutboxMoves
    <3>8. Chance = 1
      BY <2>3 DEF Chance, Outbox!Flippable
    <3>9. ClaimsFit'
      <4>1. \A v \in Workers : v # w => sender[v].token \in Nat /\ sender[v].token < c
        BY <1>1, <3>1 DEF ClaimsFit
      <4>2. delivery.attempts < OutboxAttempts
        BY <1>2, <2>3 DEF Outbox!Flippable
      <4>3. \A v \in Workers : v # w => (sender[v].token = 0 <=> sender[v].pc \in {"idle", "claim"})
        BY <1>1 DEF ClaimsFit
      <4>4. \A u, v \in Workers : u # v /\ sender[u].token = sender[v].token => sender[u].token = 0
        BY <1>1 DEF ClaimsFit
      <4> QED BY <3>1, <3>2, <3>3, <3>5, <3>7, <4>1, <4>2, <4>3, <4>4 DEF ClaimsFit
    <3> QED BY <1>1, <2>1, <3>2, <3>4, <3>7, <3>8, <3>9 DEF OutboxInvariant, Outbox!TypeOK
  <2> QED BY <1>9, <2>2, <2>3 DEF Outbox!Claim
<1>10. ASSUME NEW w \in Workers, NEW state \in Outbox!Worker, sender' = [sender EXCEPT ![w] = state]
       PROVE  /\ state.pc # "send" /\ ~Outbox!At(w, "send") => Cardinality(Sending') = Cardinality(Sending)
              /\ state.pc # "send" /\ Outbox!At(w, "send") => Cardinality(Sending') = Cardinality(Sending) - 1
              /\ state.pc = "send" /\ ~Outbox!At(w, "send") => Cardinality(Sending') = Cardinality(Sending) + 1
              /\ sender'[w] = state
  BY <1>1, <1>10, OutboxMoves
<1>11. ASSUME NEW w \in Workers, sender[w].token # 0, delivery' = delivery,
              NEW p \in {"check", "recheck", "confirm", "send", "sent", "failed", "park", "drop"},
              Outbox!Go(w, p)
       PROVE  /\ p # "send" /\ ~Outbox!At(w, "send") => Cardinality(Sending') = Cardinality(Sending)
              /\ p # "send" /\ Outbox!At(w, "send") => Cardinality(Sending') = Cardinality(Sending) - 1
              /\ p = "send" /\ ~Outbox!At(w, "send") => Cardinality(Sending') = Cardinality(Sending) + 1
              /\ (p \in {"check", "recheck", "confirm", "failed", "park"} => ~Outbox!Owns(w) \/ Undecided(w))
                   => Chance' <= Chance
              /\ Undecided(w) /\ p = "send" => Chance = 1 /\ Chance' = 0
  <2> DEFINE state == [sender[w] EXCEPT !.pc = p]
  <2>1. state \in Outbox!Worker /\ state.pc = p /\ state.token = sender[w].token
    BY <1>11, OutboxMovedOn
  <2>2. sender' = [sender EXCEPT ![w] = state]
    BY <1>1, <1>11 DEF Outbox!Go, Outbox!TypeOK
  <2> HIDE DEF state
  <2>3. sender'[w] = state
    BY <1>10, <2>1, <2>2
  <2>4. (p \in {"check", "recheck", "confirm", "failed", "park"} => ~Outbox!Owns(w) \/ Undecided(w))
          => (Undecided(w)' => Undecided(w))
    BY <1>11, <2>1, <2>3 DEF Undecided, Outbox!Owns
  <2>5. p = "send" => ~Undecided(w)'
    BY <2>1, <2>3 DEF Undecided
  <2>6. /\ delivery' = delivery /\ (Undecided(w)' => Undecided(w)) => Chance' <= Chance
        /\ Undecided(w) => Chance = 1
        /\ delivery' = delivery /\ Undecided(w) /\ ~Undecided(w)' => Chance' = 0
    BY <2>1, <2>2, OutboxChance
  <2>7. /\ p # "send" /\ ~Outbox!At(w, "send") => Cardinality(Sending') = Cardinality(Sending)
        /\ p # "send" /\ Outbox!At(w, "send") => Cardinality(Sending') = Cardinality(Sending) - 1
        /\ p = "send" /\ ~Outbox!At(w, "send") => Cardinality(Sending') = Cardinality(Sending) + 1
    BY <1>10, <2>1, <2>2
  <2> QED BY <1>11, <2>4, <2>5, <2>6, <2>7
<1>12. ASSUME NEW w \in Workers, Outbox!Check(w) PROVE OutboxInvariant'
  <2>1. /\ sender[w].pc \in {"check", "recheck"} /\ UNCHANGED <<delivery, enabled, pushed, allowed>>
        /\ \E p \in {"recheck", "confirm", "drop", "park"} : Outbox!Go(w, p)
    BY <1>12 DEF Outbox!Check, Outbox!At
  <2>2. PICK p \in {"recheck", "confirm", "drop", "park"} : Outbox!Go(w, p)
    BY <2>1
  <2>3. sender[w].token # 0 /\ ~Outbox!At(w, "send") /\ (Outbox!Owns(w) => Undecided(w))
    BY <1>1, <2>1 DEF ClaimsFit, Outbox!At, Undecided
  <2>4. Cardinality(Sending') = Cardinality(Sending) /\ Chance' <= Chance
    BY <1>11, <2>1, <2>2, <2>3
  <2> QED BY <1>1, <2>1, <2>2, <2>3, <2>4, OutboxWorks
<1>13. ASSUME NEW w \in Workers, Outbox!Confirm(w) PROVE OutboxInvariant'
  <2>1. sender[w].pc = "confirm" /\ UNCHANGED <<delivery, enabled, pushed, allowed>>
    BY <1>13 DEF Outbox!Confirm, Outbox!At
  <2>2. sender[w].token # 0 /\ ~Outbox!At(w, "send") /\ ~Outbox!At(w, "idle")
        /\ (Outbox!Owns(w) => Undecided(w))
    BY <1>1, <2>1 DEF ClaimsFit, Outbox!At, Undecided
  <2>3. CASE Outbox!Owns(w) /\ Outbox!Go(w, "send")
    <3>1. Cardinality(Sending') = Cardinality(Sending) + 1 /\ Chance = 1 /\ Chance' = 0
      BY <1>11, <2>1, <2>2, <2>3
    <3> QED BY <1>1, <2>1, <2>2, <2>3, <3>1, OutboxWorks
  <2>4. CASE Outbox!Rest(w)
    BY <1>1, <1>2, <2>1, <2>2, <2>4, OutboxRests
  <2> QED BY <1>13, <2>3, <2>4 DEF Outbox!Confirm
<1>14. ASSUME NEW w \in Workers, Outbox!Send(w) PROVE OutboxInvariant'
  <2>1. sender[w].pc = "send" /\ UNCHANGED <<delivery, enabled>> /\ sender[w].token # 0 /\ Outbox!At(w, "send")
    BY <1>1, <1>14 DEF Outbox!Send, Outbox!At, ClaimsFit
  <2>2. CASE pushed' = pushed + 1 /\ Outbox!Go(w, "sent") /\ UNCHANGED allowed
    <3>1. Cardinality(Sending') = Cardinality(Sending) - 1 /\ Chance' <= Chance
      BY <1>11, <2>1, <2>2
    <3> QED BY <1>1, <2>1, <2>2, <3>1, OutboxWorks
  <2>3. CASE pushed' = pushed + 1 /\ Outbox!Go(w, "failed")
             /\ allowed' = allowed + (IF Outbox!Owns(w) THEN 1 ELSE 0)
    <3>1. Cardinality(Sending') = Cardinality(Sending) - 1 /\ (~Outbox!Owns(w) => Chance' <= Chance)
      BY <1>11, <2>1, <2>3
    <3>2. allowed' \in Nat /\ pushed' \in Nat /\ pushed' + Cardinality(Sending') + Chance' <= allowed'
      BY <1>1, <2>3, <3>1
    <3> QED BY <1>1, <2>1, <2>3, <3>2, OutboxWorks
  <2>4. CASE (Outbox!Go(w, "failed") \/ Outbox!Go(w, "park")) /\ UNCHANGED <<pushed, allowed>>
    <3>1. Cardinality(Sending') = Cardinality(Sending) - 1
      BY <1>11, <2>1, <2>4
    <3>2. pushed' + Cardinality(Sending') + Chance' <= allowed'
      BY <1>1, <2>4, <3>1
    <3> QED BY <1>1, <2>1, <2>4, <3>2, OutboxWorks
  <2> QED BY <1>14, <2>2, <2>3, <2>4 DEF Outbox!Send
<1>15. ASSUME NEW w \in Workers, Outbox!MarkSent(w) PROVE OutboxInvariant'
  <2>1. ~Outbox!At(w, "idle") /\ Outbox!Rest(w) /\ UNCHANGED <<enabled, pushed, allowed>>
        /\ (delivery' = Outbox!Settle("sent") \/ delivery' = delivery)
    BY <1>15 DEF Outbox!MarkSent, Outbox!At
  <2>2. Outbox!Settle("sent") \in Outbox!Row /\ Outbox!Settle("sent").status = "sent"
        /\ Outbox!Settle("sent").claims = delivery.claims
    BY <1>1, OutboxSettle
  <2> QED BY <1>1, <1>2, <2>1, <2>2, OutboxRests
<1>16. ASSUME NEW w \in Workers, Outbox!MarkFailed(w) PROVE OutboxInvariant'
  <2>1. ~Outbox!At(w, "idle") /\ Outbox!Rest(w) /\ UNCHANGED <<enabled, pushed, allowed>>
        /\ sender[w].pc \in {"failed", "park", "drop"}
    BY <1>16 DEF Outbox!MarkFailed, Outbox!At
  <2>2. CASE delivery' = delivery
    BY <1>1, <1>2, <2>1, <2>2, OutboxRests
  <2>3. CASE Outbox!Owns(w) /\ delivery' \in Outbox!Outcome(w)
    <3>1. delivery.attempts < OutboxAttempts /\ delivery.status = "sending" /\ delivery.attempts \in Nat
          /\ delivery.parked \in Nat
          /\ OutboxAttempts \in Nat /\ MaxParked \in Nat
      BY <1>1, <1>2, <2>3, OutboxFields DEF Outbox!Owns, Outbox!OutboxAssumption
    <3>2. CASE delivery' = Outbox!Settle("failed")
      <4>1. Outbox!Settle("failed") \in Outbox!Row /\ Outbox!Settle("failed").status = "failed"
            /\ Outbox!Settle("failed").claims = delivery.claims
        BY <1>1, OutboxSettle
      <4> QED BY <2>1, <3>2, <4>1, OutboxRests
    <3>3. CASE Outbox!At(w, "park") /\ delivery.parked < MaxParked
               /\ delivery' = [Outbox!Settle("pending") EXCEPT !.parked = @ + 1]
      <4> DEFINE u    == Outbox!Settle("pending")
                 more == delivery.parked + 1
                 next == [u EXCEPT !.parked = more]
      <4>1. /\ u \in Outbox!Row /\ u.status = "pending" /\ u.claims = delivery.claims /\ u.token = 0
            /\ u.attempts = delivery.attempts /\ u.parked = delivery.parked
        BY <1>1, OutboxSettle
      <4> HIDE DEF u
      <4>2. more \in 0 .. MaxParked /\ delivery' = next
        BY <3>1, <3>3, <4>1 DEF u, Outbox!Row
      <4> HIDE DEF more
      <4>3. next \in Outbox!Row
        BY <4>1, <4>2, Zenon DEF Outbox!Row
      <4>4. next.status = "pending" /\ next.claims = delivery.claims /\ next.attempts = delivery.attempts
        BY <4>1 DEF Outbox!Row
      <4>5. Undecided(w)
        BY <2>3, <3>3 DEF Undecided, Outbox!At
      <4> HIDE DEF next
      <4> QED BY <2>1, <3>1, <4>2, <4>3, <4>4, <4>5, OutboxRests
    <3>4. CASE Outbox!At(w, "failed")
      <4> DEFINE s    == IF delivery.attempts + 1 >= OutboxAttempts THEN "failed" ELSE "pending"
                 u    == Outbox!Settle(s)
                 more == delivery.attempts + 1
                 next == [u EXCEPT !.attempts = more]
      <4>1. s \in {"pending", "failed"} /\ (s = "pending" => more < OutboxAttempts)
            /\ more \in 0 .. OutboxAttempts
        BY <3>1
      <4>2. delivery' = [u EXCEPT !.attempts = @ + 1]
        BY <2>3, <3>4 DEF Outbox!Outcome, Outbox!At
      <4> HIDE DEF s
      <4>3. u \in Outbox!Row /\ u.status = s /\ u.claims = delivery.claims /\ u.token = 0
            /\ u.attempts = delivery.attempts
        BY <1>1, <4>1, OutboxSettle
      <4> HIDE DEF u
      <4>4. delivery' = next
        BY <4>2, <4>3
      <4> HIDE DEF more
      <4>5. next \in Outbox!Row
        BY <4>1, <4>3, Zenon DEF Outbox!Row
      <4>6. next.status = s /\ next.claims = delivery.claims /\ next.attempts = more
        BY <4>3 DEF Outbox!Row
      <4>7. Undecided(w)
        BY <2>3, <3>4 DEF Undecided, Outbox!At
      <4> HIDE DEF next
      <4> QED BY <2>1, <4>1, <4>4, <4>5, <4>6, <4>7, OutboxRests
    <3> QED BY <2>1, <2>3, <3>2, <3>3, <3>4 DEF Outbox!Outcome, Outbox!At
  <2> QED BY <1>16, <2>2, <2>3 DEF Outbox!MarkFailed
<1>17. ASSUME NEW w \in Workers, Outbox!MarkSentFails(w) PROVE OutboxInvariant'
  <2>1. /\ sender[w].pc = "sent" /\ sender[w].token # 0 /\ Outbox!Go(w, "failed")
           /\ UNCHANGED <<delivery, enabled, pushed>>
        /\ ~Outbox!At(w, "send") /\ allowed' = allowed + (IF Outbox!Owns(w) THEN 1 ELSE 0)
    BY <1>1, <1>17 DEF Outbox!MarkSentFails, Outbox!At, ClaimsFit
  <2>2. Cardinality(Sending') = Cardinality(Sending) /\ (~Outbox!Owns(w) => Chance' <= Chance)
    BY <1>11, <2>1
  <2>3. allowed' \in Nat /\ pushed' + Cardinality(Sending') + Chance' <= allowed'
    BY <1>1, <2>1, <2>2
  <2> QED BY <1>1, <2>1, <2>3, OutboxWorks
<1>18. ASSUME NEW w \in Workers, Outbox!Crash(w) PROVE OutboxInvariant'
  BY <1>1, <1>2, <1>18, OutboxRests DEF Outbox!Crash
<1>19. CASE UNCHANGED Outbox!vars
  BY <1>19
  DEF Outbox!vars, OutboxInvariant, Outbox!TypeOK, ClaimsFit, Sending, Chance, Undecided, Outbox!Owns, Outbox!At
<1> QED BY <1>3, <1>4, <1>5, <1>6, <1>7, <1>8, <1>9, <1>12, <1>13, <1>14, <1>15, <1>16, <1>17, <1>18, <1>19
        DEF Outbox!Next

(* The invariant of the outbox.                                              *)
THEOREM OutboxIsInvariant == Outbox!OutboxAssumption => (Outbox!Spec => []OutboxInvariant)
<1> SUFFICES ASSUME Outbox!OutboxAssumption PROVE Outbox!Spec => []OutboxInvariant
  OBVIOUS
<1>1. Outbox!Init => OutboxInvariant
  <2> SUFFICES ASSUME Outbox!Init PROVE OutboxInvariant
    OBVIOUS
  <2>1. /\ delivery = [status |-> "none", claims |-> 0, token |-> 0, attempts |-> 0, parked |-> 0, stale |-> FALSE]
        /\ enabled = TRUE /\ sender = [w \in Workers |-> Outbox!Idle] /\ pushed = 0 /\ allowed = 1
    BY DEF Outbox!Init
  <2>2. Outbox!TypeOK
    BY <2>1 DEF Outbox!TypeOK, Outbox!Row, Outbox!Worker, Outbox!Idle, Outbox!OutboxAssumption
  <2>3. ClaimsFit
    BY <2>1 DEF ClaimsFit, Outbox!Idle, Outbox!OutboxAssumption
  <2>4. Sending = {} /\ Chance = 1
    BY <2>1 DEF Sending, Outbox!At, Outbox!Idle, Chance
  <2> QED BY <2>1, <2>2, <2>3, <2>4, FS_EmptySet DEF OutboxInvariant
<1>2. OutboxInvariant /\ [Outbox!Next]_(Outbox!vars) => OutboxInvariant'
  BY OutboxStep
<1> QED BY <1>1, <1>2, PTL DEF Outbox!Spec

THEOREM OutboxAllows == Outbox!OutboxAssumption => (Outbox!Spec => []Outbox!PushesAllowed)
<1> SUFFICES ASSUME Outbox!OutboxAssumption PROVE Outbox!Spec => []Outbox!PushesAllowed
  OBVIOUS
<1>1. OutboxInvariant => Outbox!PushesAllowed
  <2> SUFFICES ASSUME OutboxInvariant PROVE Outbox!PushesAllowed
    OBVIOUS
  <2>1. pushed \in Nat /\ allowed \in Nat /\ Cardinality(Sending) \in Nat /\ Chance \in {0, 1}
    BY OutboxFields DEF OutboxInvariant, Chance
  <2> QED BY <2>1 DEF OutboxInvariant, Outbox!PushesAllowed
<1> QED BY <1>1, OutboxIsInvariant, PTL

-----------------------------------------------------------------------------
(* The login throttle: a lock stands until it is served.                    *)

(* A login goes by a time and a policy that were current once, and reads the *)
(* row again only while it has an attempt left.                              *)
LoginFits(state) ==
    /\ state \in Throttle!Login /\ state.now <= clock /\ state.turn <= policy
    /\ state.pc \in {"policy", "read"} => state.try < LoginAttempts

LoginsLag == \A l \in Logins : LoginFits(login[l])

ThrottleInvariant == Throttle!TypeOK /\ LoginsLag /\ clock > 0

(* The settings are numbers, in the order the operator uses them.            *)
LEMMA ThrottlePolicies ==
    ASSUME Throttle!ThrottleAssumption
    PROVE  /\ Throttle!Turns \subseteq Nat \ {0} /\ 1 \in Throttle!Turns /\ MaxClock \in Nat \ {0}
              /\ MaxFailures \in Nat /\ LoginAttempts \in Nat \ {0}
           /\ \A t \in Throttle!Turns : 1 .. t \subseteq Throttle!Turns /\ Policies[t].max \in Nat
              /\ Policies[t].lockout \in Throttle!Times
<1>1. /\ Policies # <<>> /\ Policies \in Seq([max : Nat \ {0}, lockout : Throttle!Times])
      /\ MaxClock \in Nat \ {0} /\ MaxFailures \in Nat /\ LoginAttempts \in Nat \ {0}
  BY DEF Throttle!ThrottleAssumption, Throttle!Times
<1>2. Len(Policies) \in Nat \ {0} /\ Throttle!Turns = 1 .. Len(Policies)
  BY <1>1 DEF Throttle!Turns
<1>3. ASSUME NEW t \in Throttle!Turns
      PROVE  1 .. t \subseteq Throttle!Turns /\ Policies[t].max \in Nat
             /\ Policies[t].lockout \in Throttle!Times
  <2> DEFINE Settings == [max : Nat \ {0}, lockout : Throttle!Times]
  <2>1. t \in 1 .. Len(Policies) /\ Policies \in Seq(Settings)
    BY <1>1, <1>2
  <2> HIDE DEF Settings
  <2>2. Policies[t] \in Settings
    BY <2>1
  <2>3. 1 .. t \subseteq Throttle!Turns
    BY <1>2, <2>1
  <2> QED BY <2>2, <2>3 DEF Settings
<1> QED BY <1>1, <1>2, <1>3

(* What the row and a login hold.                                            *)
LEMMA ThrottleFields ==
    ASSUME Throttle!ThrottleAssumption, Throttle!TypeOK
    PROVE  /\ throttle \in Throttle!Record /\ throttle.fails \in 0 .. MaxFailures
              /\ throttle.at \in Throttle!Times /\ throttle.duration \in Throttle!Times
           /\ clock \in Throttle!Times /\ policy \in Throttle!Turns /\ Throttle!Times \subseteq Nat
              /\ policy \in Nat \ {0}
           /\ \A l \in Logins : login[l] \in Throttle!Login /\ login[l].now \in Throttle!Times
              /\ login[l].turn \in Throttle!Turns
                                /\ login[l].snap \in Throttle!Record /\ login[l].try \in 0 .. LoginAttempts
BY ThrottlePolicies DEF Throttle!TypeOK, Throttle!Record, Throttle!Login, Throttle!Times

(* A row without failures.                                                   *)
LEMMA ThrottleNoRow ==
    ASSUME Throttle!ThrottleAssumption
    PROVE  Throttle!NoRow \in Throttle!Record /\ Throttle!Idle \in Throttle!Login /\ Throttle!Idle.now = 0
           /\ Throttle!Idle.turn = 1 /\ Throttle!Idle.try = 0 /\ Throttle!Idle.pc = "idle"
<1>1. 0 \in Throttle!Times /\ 0 \in 0 .. MaxFailures /\ 1 \in Throttle!Turns /\ 0 \in 0 .. LoginAttempts
  BY ThrottlePolicies DEF Throttle!Times
<1>2. Throttle!NoRow \in Throttle!Record
  BY <1>1 DEF Throttle!NoRow, Throttle!Record
<1> QED BY <1>1, <1>2 DEF Throttle!Idle, Throttle!Login

(* A login that moves on to a state that fits keeps the invariant.           *)
LEMMA ThrottleGo ==
    ASSUME Throttle!ThrottleAssumption, ThrottleInvariant, NEW l \in Logins, NEW state, LoginFits(state),
           Throttle!Go(l, state),
           throttle' \in Throttle!Record, UNCHANGED <<clock, policy>>
    PROVE  ThrottleInvariant'
<1>1. login \in [Logins -> Throttle!Login] /\ state \in Throttle!Login
  BY DEF ThrottleInvariant, Throttle!TypeOK, LoginFits
<1>2. login' \in [Logins -> Throttle!Login] /\ login'[l] = state /\ \A m \in Logins \ {l} : login'[m] = login[m]
  BY <1>1 DEF Throttle!Go
<1> QED BY <1>2 DEF ThrottleInvariant, Throttle!TypeOK, LoginsLag, LoginFits

LEMMA ThrottleStep ==
    ASSUME Throttle!ThrottleAssumption, ThrottleInvariant, [Throttle!Next]_(Throttle!vars)
    PROVE  ThrottleInvariant'
<1> USE DEF ThrottleInvariant
<1>1. /\ throttle \in Throttle!Record /\ throttle.fails \in 0 .. MaxFailures /\ throttle.at \in Throttle!Times
         /\ throttle.duration \in Throttle!Times
      /\ clock \in Throttle!Times /\ policy \in Throttle!Turns /\ Throttle!Times \subseteq Nat
         /\ policy \in Nat \ {0} /\ Throttle!NoRow \in Throttle!Record
      /\ 0 <= clock /\ LoginAttempts \in Nat \ {0}
  BY ThrottleFields, ThrottleNoRow, ThrottlePolicies
<1>2. CASE Throttle!Sweep
  BY <1>1, <1>2 DEF Throttle!Sweep, Throttle!TypeOK, LoginsLag, LoginFits
<1>3. CASE Throttle!ChangePolicy
  <2>1. policy' \in Throttle!Turns /\ policy <= policy' /\ UNCHANGED <<clock, throttle, login>>
    BY <1>1, <1>3 DEF Throttle!ChangePolicy
  <2>2. \A l \in Logins : login[l].turn \in Nat
    BY ThrottleFields, ThrottlePolicies
  <2>3. policy' \in Nat
    BY <2>1, ThrottlePolicies
  <2> QED BY <1>1, <2>1, <2>2, <2>3 DEF Throttle!TypeOK, LoginsLag, LoginFits
<1>4. CASE Throttle!Tick
  <2>1. clock' \in Throttle!Times /\ clock' = clock + 1 /\ UNCHANGED <<policy, throttle, login>>
    BY <1>1, <1>4, ThrottlePolicies DEF Throttle!Tick, Throttle!Times
  <2>2. \A l \in Logins : login[l].now \in Nat
    BY ThrottleFields, <1>1
  <2> QED BY <1>1, <2>1, <2>2 DEF Throttle!TypeOK, LoginsLag, LoginFits
<1>5. ASSUME NEW l \in Logins, Throttle!Probe(l) PROVE ThrottleInvariant'
  <2> DEFINE then  == IF throttle = Throttle!NoRow THEN "verify" ELSE "policy"
             state == [Throttle!Idle EXCEPT !.pc = then, !.now = clock]
  <2>1. Throttle!Idle \in Throttle!Login /\ Throttle!Idle.turn = 1 /\ Throttle!Idle.try = 0
        /\ then \in {"verify", "policy"}
    BY ThrottleNoRow
  <2>2. Throttle!Go(l, state) /\ throttle' = throttle /\ UNCHANGED <<clock, policy>>
    BY <1>5 DEF Throttle!Probe
  <2> HIDE DEF then
  <2>3. state \in Throttle!Login
    BY <1>1, <2>1, Zenon DEF Throttle!Login
  <2>4. state.now = clock /\ state.turn = 1 /\ state.try = 0
    BY <2>1 DEF Throttle!Login
  <2> HIDE DEF state
  <2>5. LoginFits(state)
    BY <1>1, <2>3, <2>4 DEF LoginFits
  <2> QED BY <1>1, <2>2, <2>5, ThrottleGo
<1>6. ASSUME NEW l \in Logins, Throttle!ReadPolicy(l) PROVE ThrottleInvariant'
  <2> DEFINE then  == IF login[l].pc = "policy" THEN "read" ELSE "record"
             time  == IF login[l].pc = "failed" THEN clock ELSE login[l].now
             state == [login[l] EXCEPT !.pc = then, !.turn = policy, !.now = time]
  <2>1. LoginFits(login[l]) /\ login[l] \in Throttle!Login /\ login[l].now \in Throttle!Times
    BY ThrottleFields DEF LoginsLag
  <2>2. time \in Throttle!Times /\ time <= clock /\ then \in {"read", "record"}
        /\ (then = "read" => login[l].pc = "policy")
    BY <1>1, <2>1 DEF LoginFits
  <2>3. Throttle!Go(l, state) /\ throttle' = throttle /\ UNCHANGED <<clock, policy>>
    BY <1>6, <2>1 DEF Throttle!ReadPolicy, Throttle!Login
  <2> HIDE DEF then, time
  <2>4. state \in Throttle!Login
    BY <1>1, <2>1, <2>2, Zenon DEF Throttle!Login
  <2>5. state.now = time /\ state.turn = policy /\ state.pc = then /\ state.try = login[l].try
    BY <2>1 DEF Throttle!Login
  <2> HIDE DEF state
  <2>6. LoginFits(state)
    BY <1>1, <2>1, <2>2, <2>4, <2>5 DEF LoginFits
  <2> QED BY <1>1, <2>3, <2>6, ThrottleGo
<1>7. ASSUME NEW l \in Logins, NEW p \in {"verify", "read"}, p = "read" => login[l].try < LoginAttempts,
             Throttle!Go(l, [login[l] EXCEPT !.pc = p]), throttle' \in Throttle!Record, UNCHANGED <<clock,
             policy>>
      PROVE  ThrottleInvariant'
  <2> DEFINE state == [login[l] EXCEPT !.pc = p]
  <2>1. LoginFits(login[l]) /\ login[l] \in Throttle!Login
    BY ThrottleFields DEF LoginsLag
  <2>2. state \in Throttle!Login
    BY <2>1, Zenon DEF Throttle!Login
  <2>3. state.now = login[l].now /\ state.turn = login[l].turn /\ state.pc = p /\ state.try = login[l].try
    BY <2>1 DEF Throttle!Login
  <2>4. Throttle!Go(l, state)
    BY <1>7
  <2> HIDE DEF state
  <2>5. LoginFits(state)
    BY <1>7, <2>1, <2>2, <2>3 DEF LoginFits
  <2> QED BY <1>7, <2>4, <2>5, ThrottleGo
<1>8. ASSUME NEW l \in Logins, NEW p \in {"idle", "failed"}, Throttle!Go(l, [Throttle!Idle EXCEPT !.pc = p]),
             throttle' \in Throttle!Record, UNCHANGED <<clock, policy>>
      PROVE  ThrottleInvariant'
  <2> DEFINE state == [Throttle!Idle EXCEPT !.pc = p]
  <2>1. Throttle!Idle \in Throttle!Login /\ Throttle!Idle.now = 0 /\ Throttle!Idle.turn = 1
    BY ThrottleNoRow
  <2>2. state \in Throttle!Login
    BY <2>1, Zenon DEF Throttle!Login
  <2>3. state.now = 0 /\ state.turn = 1 /\ state.pc = p
    BY <2>1 DEF Throttle!Login
  <2>4. Throttle!Go(l, state)
    BY <1>8
  <2> HIDE DEF state
  <2>5. LoginFits(state)
    BY <1>1, <1>8, <2>2, <2>3 DEF LoginFits
  <2> QED BY <1>8, <2>4, <2>5, ThrottleGo
<1>9. Throttle!Idle = [Throttle!Idle EXCEPT !.pc = "idle"]
  BY DEF Throttle!Idle
<1>10. ASSUME NEW l \in Logins, Throttle!Read(l) PROVE ThrottleInvariant'
  <2>1. LoginFits(login[l]) /\ login[l] \in Throttle!Login /\ login[l].try \in 0 .. LoginAttempts
        /\ login[l].pc = "read"
    BY <1>10, ThrottleFields DEF LoginsLag, Throttle!Read
  <2>2. throttle' \in Throttle!Record /\ UNCHANGED <<clock, policy>>
    BY <1>1, <1>10 DEF Throttle!Read
  <2>3. CASE Throttle!Go(l, [login[l] EXCEPT !.pc = "verify"])
    BY <1>7, <2>2, <2>3
  <2>4. CASE Throttle!Go(l, [login[l] EXCEPT !.pc = "write", !.snap = throttle, !.try = login[l].try + 1])
    <3> DEFINE more  == login[l].try + 1
               state == [login[l] EXCEPT !.pc = "write", !.snap = throttle, !.try = more]
    <3>1. more \in 0 .. LoginAttempts
      BY <1>1, <2>1 DEF LoginFits
    <3>2. Throttle!Go(l, state)
      BY <2>4
    <3> HIDE DEF more
    <3>3. state \in Throttle!Login
      BY <1>1, <2>1, <3>1, Zenon DEF Throttle!Login
    <3>4. state.now = login[l].now /\ state.turn = login[l].turn /\ state.pc = "write"
      BY <2>1 DEF Throttle!Login
    <3> HIDE DEF state
    <3>5. LoginFits(state)
      BY <2>1, <3>3, <3>4 DEF LoginFits
    <3> QED BY <2>2, <3>2, <3>5, ThrottleGo
  <2>5. CASE Throttle!Go(l, Throttle!Idle)
    BY <1>8, <1>9, <2>2, <2>5
  <2> QED BY <1>10, <2>1, <2>3, <2>4, <2>5 DEF Throttle!Read, Throttle!Login
<1>11. ASSUME NEW l \in Logins, Throttle!Write(l) PROVE ThrottleInvariant'
  <2>1. login[l].try \in 0 .. LoginAttempts /\ login[l].turn \in Throttle!Turns /\ UNCHANGED <<clock, policy>>
    BY <1>11, ThrottleFields DEF Throttle!Write
  <2>2. throttle' \in Throttle!Record
    <3>1. Throttle!Limits(l).lockout \in Throttle!Times
      BY <2>1, ThrottlePolicies DEF Throttle!Limits
    <3>2. [throttle EXCEPT !.duration = Throttle!Limits(l).lockout] \in Throttle!Record
      BY <1>1, <3>1 DEF Throttle!Record
    <3> QED BY <1>1, <1>11, <3>2 DEF Throttle!Write
  <2>3. CASE Throttle!Go(l, [login[l] EXCEPT !.pc = "verify"])
    BY <1>7, <2>1, <2>2, <2>3
  <2>4. CASE Throttle!Go(l, [login[l] EXCEPT !.pc = "read"]) /\ login[l].try # LoginAttempts
    <3>1. login[l].try < LoginAttempts
      BY <1>1, <2>1, <2>4
    <3> QED BY <1>7, <2>1, <2>2, <2>4, <3>1
  <2>5. CASE Throttle!Go(l, Throttle!Idle)
    BY <1>8, <1>9, <2>1, <2>2, <2>5
  <2> QED BY <1>11, <2>3, <2>4, <2>5 DEF Throttle!Write
<1>12. ASSUME NEW l \in Logins, Throttle!Fail(l) PROVE ThrottleInvariant'
  BY <1>1, <1>8, <1>12 DEF Throttle!Fail
<1>13. ASSUME NEW l \in Logins, Throttle!Succeed(l) PROVE ThrottleInvariant'
  BY <1>1, <1>8, <1>9, <1>13 DEF Throttle!Succeed
<1>14. ASSUME NEW l \in Logins, Throttle!RecordFailure(l) PROVE ThrottleInvariant'
  <2>1. login[l].now \in Throttle!Times /\ login[l].turn \in Throttle!Turns /\ UNCHANGED <<clock, policy>>
        /\ Throttle!Go(l, Throttle!Idle)
    BY <1>14, ThrottleFields DEF Throttle!RecordFailure
  <2> DEFINE count == throttle.fails + 1
  <2>2. count \in 0 .. MaxFailures /\ 0 \in Throttle!Times /\ Throttle!Limits(l).lockout \in Throttle!Times
    BY <1>1, <1>14, <2>1, ThrottlePolicies DEF Throttle!RecordFailure, Throttle!Times, Throttle!Limits
  <2>3. \/ throttle' = [Throttle!NoRow EXCEPT !.fails = count] \/ throttle' = [throttle EXCEPT !.fails = count]
        \/ throttle' = [fails |-> count, at |-> login[l].now, duration |-> Throttle!Limits(l).lockout]
    BY <1>14 DEF Throttle!RecordFailure
  <2> HIDE DEF count
  <2>4. throttle' \in Throttle!Record
    BY <1>1, <2>1, <2>2, <2>3 DEF Throttle!Record
  <2> QED BY <1>8, <1>9, <2>1, <2>4
<1>15. CASE UNCHANGED Throttle!vars
  BY <1>15 DEF Throttle!vars, Throttle!TypeOK, LoginsLag, LoginFits
<1> QED BY <1>2, <1>3, <1>4, <1>5, <1>6, <1>10, <1>11, <1>12, <1>13, <1>14, <1>15 DEF Throttle!Next

(* The invariant of the throttle.                                            *)
THEOREM ThrottleIsInvariant == Throttle!ThrottleAssumption => (Throttle!Spec => []ThrottleInvariant)
<1> SUFFICES ASSUME Throttle!ThrottleAssumption PROVE Throttle!Spec => []ThrottleInvariant
  OBVIOUS
<1>1. Throttle!Init => ThrottleInvariant
  <2> SUFFICES ASSUME Throttle!Init PROVE ThrottleInvariant
    OBVIOUS
  <2>1. clock = 1 /\ policy = 1 /\ throttle = Throttle!NoRow /\ login = [l \in Logins |-> Throttle!Idle]
    BY DEF Throttle!Init
  <2>2. 1 \in Throttle!Times /\ 1 \in Throttle!Turns
    BY ThrottlePolicies DEF Throttle!Times
  <2> QED BY <2>1, <2>2, ThrottleNoRow DEF ThrottleInvariant, Throttle!TypeOK, LoginsLag, LoginFits
<1>2. ThrottleInvariant /\ [Throttle!Next]_(Throttle!vars) => ThrottleInvariant'
  BY ThrottleStep
<1> QED BY <1>1, <1>2, PTL DEF Throttle!Spec

(* A lock stands until it is served.                                         *)
THEOREM ThrottleServes == Throttle!ThrottleAssumption => (Throttle!Spec => Throttle!LockIsServed)
<1> SUFFICES ASSUME Throttle!ThrottleAssumption PROVE Throttle!Spec => Throttle!LockIsServed
  OBVIOUS
<1>1. ASSUME ThrottleInvariant, [Throttle!Next]_(Throttle!vars), Throttle!Active
      PROVE  (throttle'.at = throttle.at /\ throttle'.fails >= throttle.fails)
               \/ \E l \in Logins : Throttle!Succeed(l)
  <2>1. /\ throttle \in Throttle!Record /\ throttle.fails \in Nat /\ throttle.at \in Nat
           /\ throttle.duration \in Nat
        /\ clock \in Nat /\ policy \in Nat
    BY <1>1, ThrottleFields, ThrottlePolicies DEF ThrottleInvariant
  <2>2. CASE throttle' = throttle
    BY <2>1, <2>2
  <2>3. CASE Throttle!Sweep
    BY <1>1, <2>1, <2>3 DEF Throttle!Active, Throttle!Sweep, Throttle!Until
  <2>4. ASSUME NEW l \in Logins
        PROVE  /\ login[l].now \in Nat /\ login[l].now <= clock /\ throttle.fails >= Throttle!Limits(l).max
                  /\ Throttle!Limits(l).max \in Nat
               /\ Throttle!Limits(l).lockout \in Nat /\ throttle.at + Throttle!Limits(l).lockout > login[l].now
                  /\ Throttle!Until(throttle) > login[l].now
    <3>1. /\ login[l].now \in Nat /\ login[l].turn \in Throttle!Turns /\ login[l].turn \in Nat \ {0}
          /\ login[l].now <= clock /\ login[l].turn <= policy
      BY <1>1, ThrottleFields, ThrottlePolicies DEF ThrottleInvariant, LoginsLag, LoginFits
    <3>2. login[l].turn \in 1 .. policy
      BY <2>1, <3>1
    <3>3. Throttle!Limits(l).max \in Nat /\ Throttle!Limits(l).lockout \in Nat
      BY <3>1, ThrottlePolicies DEF Throttle!Limits, Throttle!Times
    <3> QED BY <1>1, <2>1, <3>1, <3>2, <3>3 DEF Throttle!Active, Throttle!Limits, Throttle!Until
  <2>5. ASSUME NEW l \in Logins, Throttle!Write(l)
        PROVE throttle'.at = throttle.at /\ throttle'.fails >= throttle.fails
    <3>1. ~Throttle!Over(l, throttle)
      BY <2>1, <2>4 DEF Throttle!Over, Throttle!Until
    <3>2. throttle' = throttle \/ throttle' = [throttle EXCEPT !.duration = Throttle!Limits(l).lockout]
      BY <2>5, <3>1 DEF Throttle!Write, Throttle!Matches
    <3> QED BY <2>1, <3>2 DEF Throttle!Record
  <2>6. ASSUME NEW l \in Logins, Throttle!RecordFailure(l)
        PROVE throttle'.at = throttle.at /\ throttle'.fails >= throttle.fails
    <3>1. throttle # Throttle!NoRow /\ ~(throttle.fails + 1 < Throttle!Limits(l).max)
          /\ Throttle!Locked(throttle)
      BY <1>1, <2>1, <2>4 DEF Throttle!Active, Throttle!NoRow, Throttle!Locked
    <3>2. throttle' = [throttle EXCEPT !.fails = throttle.fails + 1]
      BY <2>4, <2>6, <3>1 DEF Throttle!RecordFailure
    <3> QED BY <2>1, <3>2 DEF Throttle!Record
  <2> QED BY <1>1, <2>2, <2>3, <2>5, <2>6
          DEF Throttle!Next, Throttle!vars, Throttle!ChangePolicy, Throttle!Tick, Throttle!Probe,
              Throttle!ReadPolicy, Throttle!Read, Throttle!Fail
<1>2. ThrottleInvariant /\ [Throttle!Next]_(Throttle!vars)
        => [Throttle!Active =>
              \/ throttle'.at = throttle.at /\ throttle'.fails >= throttle.fails
              \/ \E l \in Logins : Throttle!Succeed(l)]_(Throttle!vars)
  BY <1>1
<1> QED BY <1>2, ThrottleIsInvariant, PTL DEF Throttle!Spec, Throttle!LockIsServed

-----------------------------------------------------------------------------
(* Scheduled tasks: a once task that was completed stays so, and only the   *)
(* launch that has its run opens an occurrence again.                       *)

(* What a dispatching thread keeps while it launches.                        *)
Launching == {"claim", "start", "record", "settle"}

(* A thread works on an occurrence that exists, and records the run that it  *)
(* started.  Of a once task it has the cursor of the row, and none for an    *)
(* automatic occurrence, which is claimed when the run time has come.        *)
LaunchFits(s) ==
    /\ s.pc \notin {"idle", "dispatch"} => s.occ \in Schedule!Rows
    /\ s.pc \in {"record", "settle"} => run[s.occ].state # Schedule!None
    /\ schedule.once /\ s.pc \in Launching => (s.next = "later" <=> task.next = "later")
    /\ schedule.once /\ s.pc \in Launching /\ occ[s.occ].trigger = "scheduled" => s.next = Schedule!None
    /\ schedule.once /\ s.pc = "dispatch" => task.next # "later"

(* An occurrence that is linked is running or over, and it has its run.      *)
RowFits(i) ==
    /\ occ[i].linked => occ[i].status \in Schedule!Ended \cup {"running"}
    /\ occ[i].linked \/ occ[i].status = "running" => run[i].state # Schedule!None

(* The parent of a once task: an automatic occurrence came at its run time,  *)
(* and once the newest is launched, or over with its run, none comes after.  *)
ParentFits ==
    /\ task.last <= Len(occ)
    /\ \A i \in Schedule!Rows : schedule.once /\ occ[i].trigger = "scheduled" => task.next # "later"
    /\ \A i \in Schedule!Rows : schedule.once /\ occ[i].trigger = "scheduled" /\ i = Len(occ) =>
           /\ task.last = i => task.next = Schedule!None
           /\ occ[i].status \in Schedule!Ended /\ occ[i].linked
                => task.next = Schedule!None /\ task.status # "running"

HooksFit == \A i \in Schedule!Index : run[i].hook => run[i].state \in Schedule!Over

ScheduleInvariant ==
    /\ Schedule!TypeOK /\ ParentFits /\ HooksFit
    /\ \A l \in Launchers : LaunchFits(launcher[l])
    /\ \A i \in Schedule!Rows : RowFits(i)

(* The types by field.                                                       *)
LEMMA ScheduleTypes ==
    ASSUME Schedule!ScheduleAssumption, Schedule!TypeOK
    PROVE  /\ schedule.once \in BOOLEAN /\ schedule.multi \in BOOLEAN /\ schedule.bound \in Nat
              /\ schedule.bound <= MaxOccurrences
           /\ MaxOccurrences \in Nat /\ Len(occ) \in Nat /\ Len(occ) <= MaxOccurrences
           /\ Schedule!Rows = 1 .. Len(occ) /\ Schedule!Rows \subseteq Schedule!Index
           /\ \A i \in Schedule!Rows : occ[i] \in Schedule!Occurrence
           /\ DOMAIN run = Schedule!Index /\ \A i \in Schedule!Index : run[i] \in Schedule!Run
           /\ DOMAIN launcher = Launchers /\ \A l \in Launchers : launcher[l] \in Schedule!Launcher
           /\ task \in Schedule!Task
<1>1. occ \in Seq(Schedule!Occurrence) /\ Len(occ) <= MaxOccurrences /\ schedule \in TaskSetups
  BY DEF Schedule!TypeOK
<1>2. Len(occ) \in Nat /\ DOMAIN occ = 1 .. Len(occ) /\ \A i \in DOMAIN occ : occ[i] \in Schedule!Occurrence
  <2> DEFINE R == Schedule!Occurrence
  <2>1. occ \in Seq(R)
    BY <1>1
  <2> HIDE DEF R
  <2>2. Len(occ) \in Nat /\ DOMAIN occ = 1 .. Len(occ) /\ \A i \in DOMAIN occ : occ[i] \in R
    BY <2>1
  <2> QED BY <2>2 DEF R
<1>3. schedule.bound \in 0 .. MaxOccurrences /\ schedule.once \in BOOLEAN /\ schedule.multi \in BOOLEAN
      /\ MaxOccurrences \in Nat
  BY <1>1 DEF Schedule!ScheduleAssumption
<1>4. Schedule!Rows = 1 .. Len(occ) /\ Schedule!Rows \subseteq Schedule!Index
  BY <1>1, <1>2, <1>3 DEF Schedule!Rows, Schedule!Index
<1>5. DOMAIN run = Schedule!Index /\ (\A i \in Schedule!Index : run[i] \in Schedule!Run)
  BY DEF Schedule!TypeOK
<1>6. DOMAIN launcher = Launchers /\ (\A l \in Launchers : launcher[l] \in Schedule!Launcher)
      /\ task \in Schedule!Task
  BY DEF Schedule!TypeOK
<1>7. schedule.bound \in Nat /\ schedule.bound <= MaxOccurrences
  BY <1>3
<1>8. \A i \in Schedule!Rows : occ[i] \in Schedule!Occurrence
  BY <1>2 DEF Schedule!Rows
<1> QED BY <1>1, <1>2, <1>3, <1>4, <1>5, <1>6, <1>7, <1>8

(* A row that is replaced.                                                   *)
LEMMA ScheduleRow ==
    ASSUME Schedule!ScheduleAssumption, Schedule!TypeOK, NEW i \in Schedule!Rows,
           NEW r \in Schedule!Occurrence, occ' = [occ EXCEPT ![i] = r]
    PROVE  /\ occ' \in Seq(Schedule!Occurrence) /\ Len(occ') = Len(occ) /\ Schedule!Rows' = Schedule!Rows
              /\ occ'[i] = r
           /\ \A j \in Schedule!Rows : j # i => occ'[j] = occ[j]
<1> DEFINE R == Schedule!Occurrence
<1>1. Len(occ) \in Nat /\ Schedule!Rows = 1 .. Len(occ) /\ (\A j \in Schedule!Rows : occ[j] \in R)
      /\ Schedule!Rows = DOMAIN occ
  BY ScheduleTypes DEF Schedule!Rows
<1>2. r \in R /\ occ \in Seq(R)
  BY DEF Schedule!TypeOK
<1> HIDE DEF R
<1>3. occ' \in Seq(R) /\ Len(occ') = Len(occ) /\ DOMAIN occ' = DOMAIN occ
  BY <1>1, <1>2
<1>4. occ'[i] = r /\ \A j \in Schedule!Rows : j # i => occ'[j] = occ[j]
  BY <1>1
<1> QED BY <1>1, <1>3, <1>4 DEF R, Schedule!Rows

(* An occurrence that ends, or goes back to the queue.                       *)
LEMMA ScheduleEnd ==
    ASSUME NEW o \in Schedule!Occurrence, NEW status \in Schedule!Active \cup Schedule!Ended
    PROVE  /\ Schedule!End(o, status) \in Schedule!Occurrence /\ Schedule!End(o, status).status = status
           /\ Schedule!End(o, status).linked = o.linked /\ Schedule!End(o, status).trigger = o.trigger
           /\ Schedule!End(o, status).counted = o.counted /\ Schedule!End(o, status).stop = o.stop
BY DEF Schedule!End, Schedule!Occurrence, Schedule!Owners, Schedule!None

(* A launcher that goes on.                                                  *)
LEMMA ScheduleGo ==
    ASSUME Schedule!ScheduleAssumption, Schedule!TypeOK, NEW l \in Launchers, NEW s \in Schedule!Launcher,
           Schedule!Go(l, s)
    PROVE  /\ launcher' \in [Launchers -> Schedule!Launcher] /\ launcher'[l] = s
           /\ \A k \in Launchers : k # l => launcher'[k] = launcher[k]
BY DEF Schedule!Go, Schedule!TypeOK

(* One that is at another step with what it had.                             *)
LEMMA ScheduleTo ==
    ASSUME NEW s \in Schedule!Launcher,
           NEW pc \in {"idle", "dispatch", "drain", "recover", "claim", "start", "record", "settle"}
    PROVE  /\ [s EXCEPT !.pc = pc] \in Schedule!Launcher /\ [s EXCEPT !.pc = pc].pc = pc
           /\ [s EXCEPT !.pc = pc].occ = s.occ /\ [s EXCEPT !.pc = pc].next = s.next
BY DEF Schedule!Launcher

(* A step that keeps the number of occurrences and what triggered them keeps *)
(* the invariant, when what it writes fits.                                  *)
LEMMA ScheduleKept ==
    ASSUME Schedule!ScheduleAssumption, ScheduleInvariant, UNCHANGED schedule,
           task' \in Schedule!Task, occ' \in Seq(Schedule!Occurrence), Len(occ') = Len(occ),
           run' \in [Schedule!Index -> Schedule!Run], launcher' \in [Launchers -> Schedule!Launcher], HooksFit',
           \A i \in Schedule!Rows : occ'[i].trigger = occ[i].trigger,
           \A i \in Schedule!Index : run[i].state # Schedule!None => run'[i].state # Schedule!None,
           \A i \in Schedule!Rows : occ'[i] = occ[i] \/ RowFits(i)',
           \A l \in Launchers : \/ launcher'[l] = launcher[l]
                                \/ LaunchFits(launcher[l])',
           schedule.once => (task'.next = "later" <=> task.next = "later"),
           task'.last <= Len(occ),
           \A i \in Schedule!Rows : schedule.once /\ occ[i].trigger = "scheduled" /\ i = Len(occ) =>
               /\ task'.last = i => task'.next = Schedule!None
               /\ occ'[i].status \in Schedule!Ended /\ occ'[i].linked
                    => task'.next = Schedule!None /\ task'.status # "running"
    PROVE  ScheduleInvariant'
<1>1. Schedule!TypeOK /\ ParentFits
  BY DEF ScheduleInvariant
<1>2. Schedule!Rows' = Schedule!Rows /\ Schedule!Rows \subseteq Schedule!Index
  <2> DEFINE R == Schedule!Occurrence
  <2>1. occ' \in Seq(R) /\ occ \in Seq(R)
    BY <1>1 DEF Schedule!TypeOK
  <2> HIDE DEF R
  <2>2. DOMAIN occ' = 1 .. Len(occ') /\ DOMAIN occ = 1 .. Len(occ)
    BY <2>1
  <2> QED BY <1>1, <2>2, ScheduleTypes DEF Schedule!Rows
<1>3. Schedule!TypeOK'
  BY <1>1 DEF Schedule!TypeOK
<1>4. ParentFits'
  BY <1>1, <1>2 DEF ParentFits
<1>5. \A i \in Schedule!Rows' : RowFits(i)'
  <2> SUFFICES ASSUME NEW i \in Schedule!Rows PROVE RowFits(i)'
    BY <1>2
  <2>1. CASE occ'[i] = occ[i]
    <3>1. RowFits(i) /\ i \in Schedule!Index
      BY <1>2 DEF ScheduleInvariant
    <3> QED BY <2>1, <3>1 DEF RowFits
  <2> QED BY <2>1
<1>6. \A l \in Launchers : LaunchFits(launcher[l])'
  <2> SUFFICES ASSUME NEW l \in Launchers, launcher'[l] = launcher[l] PROVE LaunchFits(launcher[l])'
    OBVIOUS
  <2>1. LaunchFits(launcher[l]) /\ launcher[l] \in Schedule!Launcher
    BY <1>1, ScheduleTypes DEF ScheduleInvariant
  <2>2. launcher[l].pc \notin {"idle", "dispatch"}
          => launcher[l].occ \in Schedule!Rows /\ launcher[l].occ \in Schedule!Index
    BY <1>2, <2>1 DEF LaunchFits
  <2> QED BY <1>2, <2>1, <2>2 DEF LaunchFits, Launching
<1> QED BY <1>3, <1>4, <1>5, <1>6 DEF ScheduleInvariant

(* What the invariant says, in one place.                                    *)
LEMMA ScheduleFacts ==
    ASSUME Schedule!ScheduleAssumption, ScheduleInvariant
    PROVE  /\ Schedule!TypeOK /\ HooksFit /\ task.last <= Len(occ) /\ Len(occ) \in Nat
           /\ occ \in Seq(Schedule!Occurrence) /\ Schedule!Rows = 1 .. Len(occ)
              /\ Schedule!Rows \subseteq Schedule!Index
           /\ run \in [Schedule!Index -> Schedule!Run] /\ launcher \in [Launchers -> Schedule!Launcher]
              /\ task \in Schedule!Task
           /\ \A i \in Schedule!Rows : occ[i] \in Schedule!Occurrence /\ RowFits(i)
           /\ \A l \in Launchers : launcher[l] \in Schedule!Launcher /\ LaunchFits(launcher[l])
           /\ \A i \in Schedule!Rows : schedule.once /\ occ[i].trigger = "scheduled" => task.next # "later"
           /\ \A i \in Schedule!Rows : schedule.once /\ occ[i].trigger = "scheduled" /\ i = Len(occ) =>
                  /\ task.last = i => task.next = Schedule!None
                  /\ occ[i].status \in Schedule!Ended /\ occ[i].linked
                       => task.next = Schedule!None /\ task.status # "running"
<1>1. Schedule!TypeOK /\ HooksFit /\ ParentFits
  BY DEF ScheduleInvariant
<1>2. occ \in Seq(Schedule!Occurrence) /\ run \in [Schedule!Index -> Schedule!Run]
      /\ launcher \in [Launchers -> Schedule!Launcher]
  BY <1>1 DEF Schedule!TypeOK
<1>3. task.last <= Len(occ)
  BY <1>1 DEF ParentFits
<1>4. \A i \in Schedule!Rows : RowFits(i)
  BY DEF ScheduleInvariant
<1>5. \A l \in Launchers : LaunchFits(launcher[l])
  BY DEF ScheduleInvariant
<1>6. \A i \in Schedule!Rows : schedule.once /\ occ[i].trigger = "scheduled" => task.next # "later"
  BY <1>1 DEF ParentFits
<1>7. \A i \in Schedule!Rows : schedule.once /\ occ[i].trigger = "scheduled" /\ i = Len(occ) =>
          /\ task.last = i => task.next = Schedule!None
          /\ occ[i].status \in Schedule!Ended /\ occ[i].linked
               => task.next = Schedule!None /\ task.status # "running"
  BY <1>1 DEF ParentFits
<1> QED BY <1>1, <1>2, <1>3, <1>4, <1>5, <1>6, <1>7, ScheduleTypes

(* A step of a launcher that writes neither the rows nor the runs.           *)
LEMMA ScheduleMoved ==
    ASSUME Schedule!ScheduleAssumption, ScheduleInvariant, NEW l \in Launchers, NEW s \in Schedule!Launcher,
           Schedule!Go(l, s),
           UNCHANGED <<schedule, occ, run>>, task' \in Schedule!Task, LaunchFits(launcher[l])',
           schedule.once => (task'.next = "later" <=> task.next = "later"),
           task'.last <= Len(occ),
           \A i \in Schedule!Rows : schedule.once /\ occ[i].trigger = "scheduled" /\ i = Len(occ) =>
               /\ task'.last = i => task'.next = Schedule!None
               /\ occ[i].status \in Schedule!Ended /\ occ[i].linked
                    => task'.next = Schedule!None /\ task'.status # "running"
    PROVE  ScheduleInvariant'
<1>1. launcher' \in [Launchers -> Schedule!Launcher] /\ \A k \in Launchers : k # l => launcher'[k] = launcher[k]
  BY ScheduleGo, ScheduleFacts
<1>2. HooksFit'
  BY ScheduleFacts DEF HooksFit
<1> QED BY <1>1, <1>2, ScheduleFacts, ScheduleKept

(* A step that leaves the parent alone and writes a row that fits.           *)
LEMMA ScheduleWritten ==
    ASSUME Schedule!ScheduleAssumption, ScheduleInvariant, NEW i \in Schedule!Rows,
           NEW r \in Schedule!Occurrence,
           occ' = [occ EXCEPT ![i] = r], UNCHANGED <<schedule, run, task>>,
           r.trigger = occ[i].trigger, RowFits(i)', launcher' \in [Launchers -> Schedule!Launcher],
           \A l \in Launchers : launcher'[l] = launcher[l] \/ LaunchFits(launcher[l])',
           r.linked => r.status \notin Schedule!Ended \/ (occ[i].linked /\ occ[i].status \in Schedule!Ended)
    PROVE  ScheduleInvariant'
<1>1. /\ occ' \in Seq(Schedule!Occurrence) /\ Len(occ') = Len(occ) /\ Schedule!Rows' = Schedule!Rows
         /\ occ'[i] = r
      /\ \A j \in Schedule!Rows : j # i => occ'[j] = occ[j]
  BY ScheduleRow, ScheduleFacts
<1>2. HooksFit'
  BY ScheduleFacts DEF HooksFit
<1>3. \A j \in Schedule!Rows : occ'[j].trigger = occ[j].trigger
  BY <1>1
<1>4. \A j \in Schedule!Rows : occ'[j] = occ[j] \/ RowFits(j)'
  BY <1>1
<1>5. \A j \in Schedule!Rows : schedule.once /\ occ[j].trigger = "scheduled" /\ j = Len(occ) =>
          /\ task'.last = j => task'.next = Schedule!None
          /\ occ'[j].status \in Schedule!Ended /\ occ'[j].linked
               => task'.next = Schedule!None /\ task'.status # "running"
  BY <1>1, ScheduleFacts
<1> QED BY <1>1, <1>2, <1>3, <1>4, <1>5, ScheduleFacts, ScheduleKept

(* A step that writes a row and the parent, or only these.                   *)
LEMMA ScheduleProjects ==
    ASSUME Schedule!ScheduleAssumption, ScheduleInvariant, NEW i \in Schedule!Rows,
           NEW r \in Schedule!Occurrence,
           occ' = [occ EXCEPT ![i] = r], UNCHANGED schedule, task' \in Schedule!Task,
           run' \in [Schedule!Index -> Schedule!Run], HooksFit',
           \A j \in Schedule!Index : run[j].state # Schedule!None => run'[j].state # Schedule!None,
           r.trigger = occ[i].trigger, RowFits(i)', launcher' \in [Launchers -> Schedule!Launcher],
           \A l \in Launchers : launcher'[l] = launcher[l] \/ LaunchFits(launcher[l])',
           schedule.once => (task'.next = "later" <=> task.next = "later"),
           task'.last <= Len(occ),
           i # Len(occ) => /\ task'.last = task.last /\ task'.next \in {task.next, Schedule!None}
                           /\ task'.status = "running" => task.status = "running",
           schedule.once /\ occ[i].trigger = "scheduled" /\ i = Len(occ) =>
               /\ task'.last = i => task'.next = Schedule!None
               /\ r.status \in Schedule!Ended /\ r.linked
                    => task'.next = Schedule!None /\ task'.status # "running"
    PROVE  ScheduleInvariant'
<1>1. /\ occ' \in Seq(Schedule!Occurrence) /\ Len(occ') = Len(occ) /\ Schedule!Rows' = Schedule!Rows
         /\ occ'[i] = r
      /\ \A j \in Schedule!Rows : j # i => occ'[j] = occ[j]
  BY ScheduleRow, ScheduleFacts
<1>3. \A j \in Schedule!Rows : occ'[j].trigger = occ[j].trigger
  BY <1>1
<1>4. \A j \in Schedule!Rows : occ'[j] = occ[j] \/ RowFits(j)'
  BY <1>1
<1>5. \A j \in Schedule!Rows : schedule.once /\ occ[j].trigger = "scheduled" /\ j = Len(occ) =>
          /\ task'.last = j => task'.next = Schedule!None
          /\ occ'[j].status \in Schedule!Ended /\ occ'[j].linked
               => task'.next = Schedule!None /\ task'.status # "running"
  BY <1>1, ScheduleFacts
<1> QED BY <1>1, <1>3, <1>4, <1>5, ScheduleFacts, ScheduleKept

(* A thread that is idle, or waits for its turn, fits.                       *)
LEMMA ScheduleIdle ==
    ASSUME NEW l \in Launchers, launcher'[l].pc = "idle"
    PROVE  LaunchFits(launcher[l])'
BY DEF LaunchFits, Launching

LEMMA ScheduleIdles ==
    ASSUME Schedule!ScheduleAssumption
    PROVE  Schedule!Idle \in Schedule!Launcher /\ Schedule!Idle.pc = "idle"
           /\ Schedule!Idle.next = Schedule!None
BY DEF Schedule!Idle, Schedule!Launcher, Schedule!None, Schedule!ScheduleAssumption

(* The parent keeps its type.                                                *)
LEMMA ScheduleParents ==
    ASSUME Schedule!ScheduleAssumption, Schedule!TypeOK
    PROVE  /\ task.status \in {"enabled", "running", "paused"} \cup Schedule!Finished
           /\ task.next \in {Schedule!None, "later", "due"} /\ task.lease \in Schedule!Owners
           /\ task.fresh \in BOOLEAN /\ task.last \in 0 .. MaxOccurrences
           /\ Schedule!Unleased(task) \in Schedule!Task /\ Schedule!Unleased(task).status = task.status
           /\ Schedule!Unleased(task).next = task.next /\ Schedule!Unleased(task).last = task.last
<1>1. task \in Schedule!Task
  BY ScheduleTypes
<1> QED BY <1>1 DEF Schedule!Task, Schedule!Unleased, Schedule!Owners, Schedule!None

(* What is written of the parent.                                            *)
LEMMA ScheduleSets ==
    ASSUME Schedule!ScheduleAssumption, NEW t \in Schedule!Task
    PROVE  /\ \A st \in {"enabled", "running", "paused"} \cup Schedule!Finished :
                  /\ [t EXCEPT !.status = st] \in Schedule!Task /\ [t EXCEPT !.status = st].status = st
                  /\ [t EXCEPT !.status = st].next = t.next /\ [t EXCEPT !.status = st].last = t.last
           /\ Schedule!Unleased(t) \in Schedule!Task /\ Schedule!Unleased(t).status = t.status
           /\ Schedule!Unleased(t).next = t.next /\ Schedule!Unleased(t).last = t.last
           /\ Schedule!Finish(t) \in Schedule!Task /\ Schedule!Finish(t).status = "completed"
              /\ Schedule!Finish(t).next = Schedule!None
           /\ Schedule!Finish(t).last = t.last
<1>1. \A st \in {"enabled", "running", "paused"} \cup Schedule!Finished :
          /\ [t EXCEPT !.status = st] \in Schedule!Task /\ [t EXCEPT !.status = st].status = st
          /\ [t EXCEPT !.status = st].next = t.next /\ [t EXCEPT !.status = st].last = t.last
  BY DEF Schedule!Task, Schedule!Finished
<1>2. /\ Schedule!Unleased(t) \in Schedule!Task /\ Schedule!Unleased(t).status = t.status
      /\ Schedule!Unleased(t).next = t.next /\ Schedule!Unleased(t).last = t.last
  BY DEF Schedule!Task, Schedule!Unleased, Schedule!Owners, Schedule!None
<1>3. /\ Schedule!Finish(t) \in Schedule!Task /\ Schedule!Finish(t).status = "completed"
         /\ Schedule!Finish(t).next = Schedule!None
      /\ Schedule!Finish(t).last = t.last
  BY DEF Schedule!Task, Schedule!Finish, Schedule!Unleased, Schedule!Owners, Schedule!None, Schedule!Finished
<1> QED BY <1>1, <1>2, <1>3

(* The cursor after an occurrence.                                           *)
LEMMA ScheduleCursor ==
    ASSUME Schedule!ScheduleAssumption, Schedule!TypeOK
    PROVE  /\ Schedule!NextRun \in {Schedule!None, "later", "due"}
           /\ schedule.once
                => (Schedule!NextRun = "later" <=> task.next = "later")
                /\ Schedule!NextRun \in {"later", Schedule!None}
           /\ \A trigger \in {"scheduled", "manual"} :
                  /\ Schedule!NextAfter(trigger) \in {Schedule!None, "later", "due"}
                  /\ schedule.once => Schedule!NextAfter(trigger) = Schedule!NextRun
BY ScheduleParents, ScheduleTypes DEF Schedule!NextRun, Schedule!NextAfter, Schedule!None

(* A thread takes up an occurrence.                                          *)
LEMMA ScheduleTakes ==
    ASSUME Schedule!ScheduleAssumption, Schedule!TypeOK, NEW i \in Schedule!Index,
           NEW trigger \in {"scheduled", "manual"}
    PROVE  LET s == Schedule!Holding(i, trigger, "claim")
           IN  s \in Schedule!Launcher /\ s.pc = "claim" /\ s.occ = i /\ s.next = Schedule!NextAfter(trigger)
<1>1. i \in 0 .. MaxOccurrences
  BY DEF Schedule!Index, Schedule!ScheduleAssumption
<1>2. Schedule!NextAfter(trigger) \in {Schedule!None, "later", "due"}
  BY ScheduleCursor
<1> QED BY <1>1, <1>2 DEF Schedule!Holding, Schedule!Launcher

(* An occurrence is admitted: it is the newest.                              *)
LEMMA ScheduleAdded ==
    ASSUME Schedule!ScheduleAssumption, ScheduleInvariant, NEW l \in Launchers,
           NEW trigger \in {"scheduled", "manual"},
           Len(occ) < schedule.bound, occ' = Append(occ, Schedule!New(trigger)),
           Schedule!Go(l, Schedule!Holding(Len(occ) + 1, trigger, "claim")),
           UNCHANGED <<schedule, run>>, task' \in Schedule!Task, task'.next = task.next, task'.last = task.last,
           schedule.once /\ trigger = "scheduled" => task.next # "later"
    PROVE  ScheduleInvariant'
<1> DEFINE n == Len(occ) + 1
           R == Schedule!Occurrence
<1>1. /\ Schedule!TypeOK /\ HooksFit /\ task.last <= Len(occ) /\ Len(occ) \in Nat
      /\ occ \in Seq(R) /\ Schedule!Rows = 1 .. Len(occ) /\ Schedule!Rows \subseteq Schedule!Index
      /\ \A i \in Schedule!Rows : RowFits(i)
      /\ \A i \in Launchers : launcher[i] \in Schedule!Launcher /\ LaunchFits(launcher[i])
      /\ \A i \in Schedule!Rows : schedule.once /\ occ[i].trigger = "scheduled" => task.next # "later"
  BY ScheduleFacts
<1>2. n \in Schedule!Index /\ n \in Nat /\ n <= MaxOccurrences /\ task.last \in Nat
  BY <1>1, ScheduleTypes, ScheduleParents DEF Schedule!Index
<1>3. Schedule!New(trigger) \in R
  BY DEF Schedule!New, Schedule!Occurrence, Schedule!Owners, Schedule!Active, Schedule!None
<1> HIDE DEF R
<1>4. /\ occ' \in Seq(R) /\ Len(occ') = n /\ DOMAIN occ' = 1 .. n /\ occ'[n] = Schedule!New(trigger)
      /\ \A i \in Schedule!Rows : occ'[i] = occ[i]
  BY <1>1, <1>3
<1>5. Schedule!Rows' = Schedule!Rows \cup {n} /\ n \notin Schedule!Rows /\ n \in Schedule!Rows'
  BY <1>1, <1>2, <1>4 DEF Schedule!Rows
<1>6. LET s == Schedule!Holding(n, trigger, "claim")
      IN  s \in Schedule!Launcher /\ s.pc = "claim" /\ s.occ = n /\ s.next = Schedule!NextAfter(trigger)
  <2> HIDE DEF n
  <2> QED BY <1>1, <1>2, ScheduleTakes
<1>7. /\ launcher' \in [Launchers -> Schedule!Launcher] /\ launcher'[l] = Schedule!Holding(n, trigger, "claim")
      /\ \A k \in Launchers : k # l => launcher'[k] = launcher[k]
  <2> DEFINE s == Schedule!Holding(n, trigger, "claim")
  <2>1. s \in Schedule!Launcher /\ Schedule!Go(l, s)
    BY <1>6
  <2> HIDE DEF s
  <2>2. /\ launcher' \in [Launchers -> Schedule!Launcher] /\ launcher'[l] = s
        /\ \A k \in Launchers : k # l => launcher'[k] = launcher[k]
    BY <1>1, <2>1, ScheduleGo
  <2> QED BY <2>2 DEF s
<1>8. occ'[n].trigger = trigger /\ occ'[n].status = "queued" /\ occ'[n].linked = FALSE
  BY <1>4 DEF Schedule!New
<1> HIDE DEF n
<1>9. Schedule!TypeOK'
  BY <1>1, <1>2, <1>4, <1>7 DEF Schedule!TypeOK, R
<1>10. ParentFits'
  <2>1. task'.last <= Len(occ')
    BY <1>1, <1>2, <1>4 DEF n
  <2>2. \A i \in Schedule!Rows' : schedule'.once /\ occ'[i].trigger = "scheduled" => task'.next # "later"
    BY <1>1, <1>4, <1>5, <1>8
  <2>3. task'.last # n /\ \A i \in Schedule!Rows' : i = Len(occ') => i = n
    BY <1>1, <1>2, <1>4 DEF n
  <2> QED BY <1>8, <2>1, <2>2, <2>3 DEF ParentFits, Schedule!Ended
<1>11. HooksFit'
  BY <1>1 DEF HooksFit
<1>12. ASSUME NEW k \in Launchers PROVE LaunchFits(launcher[k])'
  <2>1. CASE k = l
    <3>1. launcher'[l].pc = "claim" /\ launcher'[l].occ = n /\ launcher'[l].next = Schedule!NextAfter(trigger)
      BY <1>6, <1>7
    <3>2. schedule.once
            => (launcher'[l].next = "later" <=> task.next = "later")
            /\ launcher'[l].next \in {"later", Schedule!None}
      BY <1>1, <3>1, ScheduleCursor
    <3> QED BY <1>5, <1>8, <2>1, <3>1, <3>2 DEF LaunchFits, Launching, Schedule!None
  <2>2. CASE k # l
    <3>1. LaunchFits(launcher[k]) /\ launcher'[k] = launcher[k]
      BY <1>1, <1>7, <2>2
    <3>2. launcher[k].pc \notin {"idle", "dispatch"} => launcher[k].occ \in Schedule!Rows
      BY <3>1 DEF LaunchFits
    <3>3. launcher[k].pc \notin {"idle", "dispatch"} => occ'[launcher[k].occ] = occ[launcher[k].occ]
      BY <1>4, <3>2
    <3>4. UNCHANGED <<schedule, run>> /\ task'.next = task.next
      OBVIOUS
    <3> DEFINE s == launcher[k]
    <3>5. PICK t : t = s
      OBVIOUS
    <3>6. LaunchFits(t) /\ launcher'[k] = t
      BY <3>1, <3>5
    <3>7. t.pc \notin {"idle", "dispatch"} => t.occ \in Schedule!Rows' /\ occ'[t.occ] = occ[t.occ]
      BY <1>5, <3>2, <3>3, <3>5
    <3>8. LaunchFits(t)'
      BY <3>4, <3>6, <3>7 DEF LaunchFits, Launching
    <3> QED BY <3>6, <3>8 DEF LaunchFits
  <2> QED BY <2>1, <2>2
<1>13. ASSUME NEW i \in Schedule!Rows' PROVE RowFits(i)'
  BY <1>1, <1>4, <1>5, <1>8 DEF RowFits
<1> QED BY <1>9, <1>10, <1>11, <1>12, <1>13 DEF ScheduleInvariant

(* What a run's end or its association writes of a row that was not over.    *)
LEMMA ScheduleLinks ==
    ASSUME NEW o \in Schedule!Occurrence, NEW status \in {"running", "success", "failed", "interrupted"}
    PROVE  /\ LET r == [Schedule!End(o, status) EXCEPT !.linked = TRUE, !.counted = TRUE]
              IN  r \in Schedule!Occurrence /\ r.status = status /\ r.linked /\ r.trigger = o.trigger
           /\ LET r == [Schedule!End(o, status) EXCEPT !.linked = @ \/ TRUE, !.counted = @ \/ TRUE]
              IN  r \in Schedule!Occurrence /\ r.status = status /\ r.linked /\ r.trigger = o.trigger
           /\ LET r == [Schedule!End(o, status) EXCEPT !.linked = TRUE]
              IN  r \in Schedule!Occurrence /\ r.status = status /\ r.linked /\ r.trigger = o.trigger
BY DEF Schedule!End, Schedule!Occurrence, Schedule!Owners, Schedule!None, Schedule!Active, Schedule!Executing,
       Schedule!Ended

(* What an outcome, projected on the parent, makes of it.                    *)
ProjectFits(i, p) ==
    /\ p \in Schedule!Task /\ p.last = i
    /\ schedule.once => (p.next = "later" <=> task.next = "later")
    /\ schedule.once /\ occ[i].trigger = "scheduled" => p.next = Schedule!None /\ p.status # "running"

(* The parent as the outcome is projected on it.                             *)
LEMMA ScheduleProjected ==
    ASSUME Schedule!ScheduleAssumption, ScheduleInvariant, NEW i \in Schedule!Rows, i = Len(occ),
           NEW status \in {"success", "failed", "interrupted"}, NEW rows, NEW p,
           p = Schedule!Projected(i, status, TRUE, rows)
    PROVE  ProjectFits(i, p)
<1> DEFINE r == Schedule!Repaired(i)
<1>1. /\ Schedule!TypeOK /\ i \in Schedule!Index /\ occ[i].trigger \in {"scheduled", "manual"}
         /\ task \in Schedule!Task
      /\ schedule.once \in BOOLEAN
      /\ schedule.once /\ occ[i].trigger = "scheduled"
           => task.next # "later" /\ (task.last = i => task.next = Schedule!None)
  BY ScheduleFacts, ScheduleTypes DEF Schedule!Occurrence
<1>2. i \in 0 .. MaxOccurrences
  BY <1>1 DEF Schedule!Index, Schedule!ScheduleAssumption
<1>3. LET x == Schedule!NextAfter(occ[i].trigger)
      IN  x \in {Schedule!None, "later", "due"}
      /\ (schedule.once => (x = "later" <=> task.next = "later") /\ x \in {"later", Schedule!None})
  BY <1>1, ScheduleCursor
<1>4. /\ r \in Schedule!Task /\ r.last = i /\ (schedule.once => (r.next = "later" <=> task.next = "later"))
      /\ (schedule.once /\ occ[i].trigger = "scheduled" => r.next = Schedule!None)
  <2>1. CASE task.last = i
    BY <1>1, <2>1 DEF Schedule!Repaired
  <2>2. CASE task.last # i
    <3> DEFINE u == Schedule!Unleased(task)
               x == Schedule!NextAfter(occ[i].trigger)
               st == IF ~schedule.once /\ u.status = "running" THEN "enabled" ELSE u.status
    <3>1. u \in Schedule!Task /\ u.next = task.next
      BY <1>1, ScheduleSets
    <3>2. x \in {Schedule!None, "later", "due"}
          /\ (schedule.once => (x = "later" <=> task.next = "later") /\ x \in {"later", Schedule!None})
      BY <1>3
    <3>3. r = [u EXCEPT !.last = i, !.next = x, !.status = st]
      BY <2>2 DEF Schedule!Repaired
    <3>4. st \in {"enabled", "running", "paused"} \cup Schedule!Finished
      <4> HIDE DEF u
      <4> QED BY <3>1 DEF Schedule!Task
    <3> HIDE DEF u, x, r, st
    <3>5. r \in Schedule!Task /\ r.last = i /\ r.next = x
      BY <1>2, <3>1, <3>2, <3>3, <3>4 DEF Schedule!Task
    <3> QED BY <1>1, <3>2, <3>5
  <2> QED BY <2>1, <2>2
<1>5. \/ schedule.once /\ Schedule!StillScheduled(occ[i], r) /\ p = r
      \/ schedule.once /\ ~Schedule!StillScheduled(occ[i], r)
         /\ p = [r EXCEPT !.status = Schedule!OnceStatus(status)]
      \/ ~schedule.once /\ p = [r EXCEPT !.status = "completed", !.next = Schedule!None]
      \/ ~schedule.once /\ p = [r EXCEPT !.status = "paused"]
      \/ ~schedule.once /\ p = r
  BY <1>1 DEF Schedule!Projected
<1>6. Schedule!OnceStatus(status) \in Schedule!Finished
  BY DEF Schedule!OnceStatus, Schedule!Finished
<1>7. occ[i].trigger = "scheduled" => ~Schedule!StillScheduled(occ[i], r)
  BY DEF Schedule!StillScheduled
<1> HIDE DEF r
<1>8. /\ [r EXCEPT !.status = Schedule!OnceStatus(status)] \in Schedule!Task
      /\ [r EXCEPT !.status = Schedule!OnceStatus(status)].status = Schedule!OnceStatus(status)
      /\ [r EXCEPT !.status = Schedule!OnceStatus(status)].next = r.next
      /\ [r EXCEPT !.status = Schedule!OnceStatus(status)].last = r.last
  BY <1>4, <1>6, ScheduleSets
<1>9. /\ [r EXCEPT !.status = "paused"] \in Schedule!Task /\ [r EXCEPT !.status = "paused"].last = r.last
      /\ [r EXCEPT !.status = "completed", !.next = Schedule!None] \in Schedule!Task
      /\ [r EXCEPT !.status = "completed", !.next = Schedule!None].last = r.last
  BY <1>4 DEF Schedule!Task, Schedule!Finished, Schedule!None
<1>10. p \in Schedule!Task /\ p.last = i
  BY <1>4, <1>5, <1>8, <1>9
<1>11. schedule.once => (p.next = "later" <=> task.next = "later")
  BY <1>4, <1>5, <1>8
<1>12. schedule.once /\ occ[i].trigger = "scheduled" => p.next = Schedule!None /\ p.status # "running"
  BY <1>4, <1>5, <1>6, <1>7, <1>8 DEF Schedule!Finished
<1> QED BY <1>10, <1>11, <1>12 DEF ProjectFits

(* An occurrence ends with its run.                                          *)
LEMMA ScheduleFinalizes ==
    ASSUME Schedule!ScheduleAssumption, ScheduleInvariant, NEW i \in Schedule!Rows,
           NEW status \in {"success", "failed", "interrupted"}, Schedule!FinalizeOccurrence(i, status, TRUE),
           UNCHANGED schedule, run' \in [Schedule!Index -> Schedule!Run], HooksFit',
           run[i].state # Schedule!None,
           \A j \in Schedule!Index : run[j].state # Schedule!None => run'[j].state # Schedule!None,
           launcher' \in [Launchers -> Schedule!Launcher],
           \A l \in Launchers : launcher'[l] = launcher[l] \/ LaunchFits(launcher[l])'
    PROVE  ScheduleInvariant'
<1> DEFINE r == [Schedule!End(occ[i], status) EXCEPT !.linked = @ \/ TRUE, !.counted = @ \/ TRUE]
           p == Schedule!Projected(i, status, TRUE, occ')
<1>1. occ' = [occ EXCEPT ![i] = r] /\ task' = IF i = Len(occ) THEN p ELSE task
  BY DEF Schedule!FinalizeOccurrence, Schedule!CanProject
<1>2. r \in Schedule!Occurrence /\ r.status = status /\ r.linked /\ r.trigger = occ[i].trigger
  <2>1. occ[i] \in Schedule!Occurrence
    BY ScheduleFacts
  <2>2. Schedule!End(occ[i], status) \in Schedule!Occurrence /\ Schedule!End(occ[i], status).status = status
        /\ Schedule!End(occ[i], status).trigger = occ[i].trigger
    BY <2>1, ScheduleEnd DEF Schedule!Ended
  <2> QED BY <2>2 DEF Schedule!Occurrence
<1> HIDE DEF r
<1>3. i = Len(occ) => /\ p \in Schedule!Task /\ p.last = i
                      /\ schedule.once => (p.next = "later" <=> task.next = "later")
                      /\ schedule.once /\ occ[i].trigger = "scheduled"
                           => p.next = Schedule!None /\ p.status # "running"
  <2>1. PICK rows : rows = occ'
    OBVIOUS
  <2>2. p = Schedule!Projected(i, status, TRUE, rows)
    BY <2>1
  <2> HIDE DEF p
  <2>3. PICK t : t = p
    OBVIOUS
  <2>4. t = Schedule!Projected(i, status, TRUE, rows)
    BY <2>2, <2>3
  <2> HIDE DEF p
  <2>5. i = Len(occ) => ProjectFits(i, t)
    BY <2>4, ScheduleProjected
  <2> QED BY <2>3, <2>5 DEF ProjectFits
<1> HIDE DEF p
<1>4. Schedule!TypeOK /\ task \in Schedule!Task /\ task.last <= Len(occ) /\ i \in Schedule!Index
      /\ Len(occ) \in Nat
  BY ScheduleFacts
<1>5. occ'[i] = r
  BY <1>1, <1>2, <1>4, ScheduleRow
<1>6. RowFits(i)'
  BY <1>2, <1>4, <1>5 DEF RowFits, Schedule!Ended
<1>7. task' \in Schedule!Task /\ task'.last <= Len(occ)
      /\ (schedule.once => (task'.next = "later" <=> task.next = "later"))
  BY <1>1, <1>3, <1>4
<1>8. i # Len(occ)
        => task'.last = task.last /\ task'.next \in {task.next, Schedule!None} /\ task'.status = task.status
  BY <1>1
<1>9. schedule.once /\ occ[i].trigger = "scheduled" /\ i = Len(occ)
        => task'.next = Schedule!None /\ task'.status # "running"
  BY <1>1, <1>3
<1> QED BY <1>1, <1>2, <1>6, <1>7, <1>8, <1>9, ScheduleProjects

(* An occurrence is associated with its run.                                 *)
LEMMA ScheduleAssociates ==
    ASSUME Schedule!ScheduleAssumption, ScheduleInvariant, NEW i \in Schedule!Rows, Schedule!Associate(i),
           UNCHANGED <<schedule, run>>, run[i].state # Schedule!None,
           launcher' \in [Launchers -> Schedule!Launcher],
           \A l \in Launchers : launcher'[l] = launcher[l] \/ LaunchFits(launcher[l])'
    PROVE  ScheduleInvariant'
<1> DEFINE r == [Schedule!End(occ[i], "running") EXCEPT !.linked = TRUE, !.counted = TRUE]
           u == Schedule!Unleased(task)
           x == Schedule!NextAfter(occ[i].trigger)
           t == [u EXCEPT !.last = i, !.next = x]
           st == IF schedule.once /\ ~Schedule!StillScheduled(occ[i], t) THEN "running"
                 ELSE IF occ[i].trigger = "manual" /\ t.status = "paused" THEN t.status
                 ELSE "enabled"
           p == [t EXCEPT !.status = st]
<1>1. occ' = [occ EXCEPT ![i] = r] /\ task' = IF i # Len(occ) \/ task.last = i THEN task ELSE p
  BY DEF Schedule!Associate, Schedule!CanProject
<1>2. r \in Schedule!Occurrence /\ r.status = "running" /\ r.linked /\ r.trigger = occ[i].trigger
  BY ScheduleFacts, ScheduleLinks
<1> HIDE DEF r
<1>3. /\ Schedule!TypeOK /\ task \in Schedule!Task /\ task.last <= Len(occ) /\ i \in Schedule!Index
         /\ Len(occ) \in Nat
      /\ occ[i].trigger \in {"scheduled", "manual"}
      /\ schedule.once /\ occ[i].trigger = "scheduled"
           => task.next # "later" /\ (i = Len(occ) /\ task.last = i => task.next = Schedule!None)
  BY ScheduleFacts DEF Schedule!Occurrence
<1>4. x \in {Schedule!None, "later", "due"}
      /\ (schedule.once => (x = "later" <=> task.next = "later") /\ x \in {"later", Schedule!None})
  BY <1>3, ScheduleCursor
<1>5. u \in Schedule!Task
  BY <1>3, ScheduleSets
<1> HIDE DEF u, x
<1>6. t \in Schedule!Task /\ t.last = i /\ t.next = x
  <2>1. i \in 0 .. MaxOccurrences
    BY <1>3 DEF Schedule!Index, Schedule!ScheduleAssumption
  <2>2. x \in {Schedule!None, "later", "due"}
    BY <1>4
  <2> QED BY <1>5, <2>1, <2>2 DEF Schedule!Task
<1>7. st \in {"enabled", "running", "paused"} \cup Schedule!Finished
  OBVIOUS
<1> HIDE DEF t, st
<1>8. p \in Schedule!Task /\ p.last = i /\ p.next = x
  BY <1>6, <1>7, ScheduleSets
<1> HIDE DEF p
<1>9. occ'[i] = r
  BY <1>1, <1>2, <1>3, ScheduleRow
<1>10. RowFits(i)'
  BY <1>2, <1>9 DEF RowFits
<1>11. task' \in Schedule!Task /\ task'.last <= Len(occ)
       /\ (schedule.once => (task'.next = "later" <=> task.next = "later"))
  BY <1>1, <1>3, <1>4, <1>8
<1>12. i # Len(occ)
         => task'.last = task.last /\ task'.next \in {task.next, Schedule!None} /\ task'.status = task.status
  BY <1>1
<1>13. schedule.once /\ occ[i].trigger = "scheduled" /\ i = Len(occ) => task'.next = Schedule!None
  BY <1>1, <1>3, <1>4, <1>8
<1>14. r.status \notin Schedule!Ended
  BY <1>2 DEF Schedule!Ended
<1>15. HooksFit'
  BY ScheduleFacts DEF HooksFit
<1> QED BY <1>1, <1>2, <1>3, <1>10, <1>11, <1>12, <1>13, <1>14, <1>15, ScheduleFacts, ScheduleProjects

(* The parent fits as it is.                                                 *)
LEMMA ScheduleNewest ==
    ASSUME Schedule!ScheduleAssumption, ScheduleInvariant, NEW i \in Schedule!Rows, schedule.once,
           occ[i].trigger = "scheduled", i = Len(occ)
    PROVE  /\ task.last = i => task.next = Schedule!None
           /\ occ[i].status \in Schedule!Ended /\ occ[i].linked
                => task.next = Schedule!None /\ task.status # "running"
BY ScheduleFacts

(* A launcher takes a claim, looks for work or gives up.                     *)
LEMMA ScheduleClaimDue ==
    ASSUME Schedule!ScheduleAssumption, ScheduleInvariant, NEW l \in Launchers, Schedule!ClaimDue(l)
    PROVE  ScheduleInvariant'
<1> DEFINE s == [launcher[l] EXCEPT !.pc = "dispatch"]
<1>1. task \in Schedule!Task /\ launcher[l] \in Schedule!Launcher /\ task.last <= Len(occ) /\ Schedule!TypeOK
  BY ScheduleFacts
<1>2. /\ task.next = "due" /\ Schedule!Go(l, s) /\ UNCHANGED <<schedule, occ, run>>
      /\ task' = [task EXCEPT !.status = "running", !.lease = Schedule!Owner(l), !.fresh = TRUE]
  BY DEF Schedule!ClaimDue, Schedule!To
<1>3. s \in Schedule!Launcher /\ s.pc = "dispatch"
  BY <1>1, ScheduleTo
<1> HIDE DEF s
<1>4. task' \in Schedule!Task /\ task'.next = "due" /\ task'.last = task.last
  BY <1>1, <1>2 DEF Schedule!Task, Schedule!Owners, Schedule!Owner
<1>5. launcher'[l] = s
  BY <1>1, <1>2, <1>3, ScheduleGo
<1>6. LaunchFits(launcher[l])'
  BY <1>3, <1>4, <1>5 DEF LaunchFits, Launching
<1>7. \A i \in Schedule!Rows : schedule.once /\ occ[i].trigger = "scheduled" /\ i = Len(occ) =>
          /\ task'.last = i => task'.next = Schedule!None
          /\ occ[i].status \in Schedule!Ended /\ occ[i].linked
               => task'.next = Schedule!None /\ task'.status # "running"
  BY <1>2, <1>4, ScheduleNewest DEF Schedule!None
<1> QED BY <1>1, <1>2, <1>3, <1>4, <1>6, <1>7, ScheduleMoved

(* A step of a launcher that leaves the rest alone.                          *)
LEMMA ScheduleAlone ==
    ASSUME Schedule!ScheduleAssumption, ScheduleInvariant, NEW l \in Launchers, NEW s \in Schedule!Launcher,
           Schedule!Go(l, s),
           UNCHANGED <<schedule, task, occ, run>>, LaunchFits(launcher[l])'
    PROVE  ScheduleInvariant'
<1>1. task \in Schedule!Task /\ task.last <= Len(occ)
  BY ScheduleFacts
<1>2. \A i \in Schedule!Rows : schedule.once /\ occ[i].trigger = "scheduled" /\ i = Len(occ) =>
          /\ task'.last = i => task'.next = Schedule!None
          /\ occ[i].status \in Schedule!Ended /\ occ[i].linked
               => task'.next = Schedule!None /\ task'.status # "running"
  BY ScheduleNewest
<1> QED BY <1>1, <1>2, ScheduleMoved

(* It gives up, the rest stays.                                              *)
LEMMA ScheduleGivesUp ==
    ASSUME Schedule!ScheduleAssumption, ScheduleInvariant, NEW l \in Launchers, Schedule!Go(l, Schedule!Idle),
           UNCHANGED <<schedule, task, occ, run>>
    PROVE  ScheduleInvariant'
<1>1. Schedule!TypeOK /\ Schedule!Idle \in Schedule!Launcher /\ Schedule!Idle.pc = "idle"
  BY ScheduleFacts, ScheduleIdles
<1>2. launcher'[l] = Schedule!Idle
  BY <1>1, ScheduleGo
<1>3. LaunchFits(launcher[l])'
  BY <1>1, <1>2, ScheduleIdle
<1> QED BY <1>1, <1>3, ScheduleAlone

LEMMA ScheduleDispatch ==
    ASSUME Schedule!ScheduleAssumption, ScheduleInvariant, NEW l \in Launchers, Schedule!Dispatch(l)
    PROVE  ScheduleInvariant'
<1>1. /\ task \in Schedule!Task /\ launcher[l] \in Schedule!Launcher /\ task.last <= Len(occ) /\ Schedule!TypeOK
         /\ LaunchFits(launcher[l])
      /\ Schedule!Idle \in Schedule!Launcher /\ Schedule!Idle.pc = "idle"
  BY ScheduleFacts, ScheduleIdles
<1>2. launcher[l].pc = "dispatch" /\ UNCHANGED <<schedule, run>> /\ (schedule.once => task.next # "later")
  BY <1>1 DEF Schedule!Dispatch, LaunchFits
<1> DEFINE u == Schedule!Unleased(task)
           t == [u EXCEPT !.status = "enabled"]
<1>3. /\ u \in Schedule!Task /\ u.next = task.next /\ u.last = task.last /\ t \in Schedule!Task
      /\ t.next = task.next /\ t.last = task.last /\ t.status = "enabled"
  <2>1. u \in Schedule!Task /\ u.next = task.next /\ u.last = task.last
    BY <1>1, ScheduleSets
  <2> HIDE DEF u
  <2> QED BY <2>1, ScheduleSets
<1> HIDE DEF u, t
<1>4. /\ Schedule!Finish(task) \in Schedule!Task /\ Schedule!Finish(task).status = "completed"
         /\ Schedule!Finish(task).next = Schedule!None
      /\ Schedule!Finish(task).last = task.last
  BY <1>1, ScheduleSets
<1>5. CASE Schedule!Go(l, Schedule!Idle) /\ UNCHANGED occ /\ task' \in {task, t, Schedule!Finish(task)}
  <2>1. launcher'[l] = Schedule!Idle
    BY <1>1, <1>5, ScheduleGo
  <2>2. LaunchFits(launcher[l])'
    BY <1>1, <2>1, ScheduleIdle
  <2>3. task' \in Schedule!Task /\ task'.last <= Len(occ) /\ task'.next \in {task.next, Schedule!None}
        /\ task'.last = task.last
    BY <1>1, <1>3, <1>4, <1>5
  <2>4. task'.status = "running" => task.status = "running"
    BY <1>3, <1>4, <1>5
  <2>5. \A i \in Schedule!Rows : schedule.once /\ occ[i].trigger = "scheduled" /\ i = Len(occ) =>
            /\ task'.last = i => task'.next = Schedule!None
            /\ occ[i].status \in Schedule!Ended /\ occ[i].linked
                 => task'.next = Schedule!None /\ task'.status # "running"
    BY <2>3, <2>4, ScheduleNewest
  <2> QED BY <1>1, <1>2, <1>5, <2>2, <2>3, <2>5, ScheduleMoved DEF Schedule!None
<1>6. CASE Len(occ) < schedule.bound /\ occ' = Append(occ, Schedule!New("scheduled")) /\ task' = t
           /\ Schedule!Go(l, Schedule!Holding(Len(occ) + 1, "scheduled", "claim"))
  BY <1>2, <1>3, <1>6, ScheduleAdded
<1> QED BY <1>5, <1>6 DEF Schedule!Dispatch, t, u

LEMMA ScheduleTrigger ==
    ASSUME Schedule!ScheduleAssumption, ScheduleInvariant, NEW l \in Launchers, Schedule!Trigger(l)
    PROVE  ScheduleInvariant'
<1>1. task \in Schedule!Task
  BY ScheduleFacts
<1> QED BY <1>1, ScheduleAdded DEF Schedule!Trigger

LEMMA ScheduleScans ==
    ASSUME Schedule!ScheduleAssumption, ScheduleInvariant, NEW l \in Launchers, NEW i \in Schedule!Rows,
           NEW pc \in {"drain", "recover"},
           Schedule!Go(l, [Schedule!Idle EXCEPT !.pc = pc, !.occ = i]), UNCHANGED <<schedule, task, occ, run>>
    PROVE  ScheduleInvariant'
<1> DEFINE s == [Schedule!Idle EXCEPT !.pc = pc, !.occ = i]
<1>1. Schedule!TypeOK /\ i \in Schedule!Index
  BY ScheduleFacts
<1>2. s \in Schedule!Launcher /\ s.pc = pc /\ s.occ = i
  <2>1. i \in 0 .. MaxOccurrences
    BY <1>1 DEF Schedule!Index, Schedule!ScheduleAssumption
  <2> QED BY <2>1 DEF Schedule!Idle, Schedule!Launcher, Schedule!None
<1>3. Schedule!Go(l, s)
  OBVIOUS
<1> HIDE DEF s
<1>4. launcher'[l] = s
  BY <1>1, <1>2, <1>3, ScheduleGo
<1>5. Schedule!Rows' = Schedule!Rows
  BY DEF Schedule!Rows
<1>6. LaunchFits(launcher[l])'
  BY <1>2, <1>4, <1>5 DEF LaunchFits, Launching
<1> QED BY <1>2, <1>3, <1>6, ScheduleAlone

LEMMA ScheduleDrain ==
    ASSUME Schedule!ScheduleAssumption, ScheduleInvariant, NEW l \in Launchers, Schedule!Drain(l)
    PROVE  ScheduleInvariant'
<1> DEFINE i == launcher[l].occ
           r == [Schedule!End(occ[i], "interrupted") EXCEPT !.linked = FALSE]
           t == [Schedule!Unleased(task) EXCEPT !.status = "enabled"]
           s == Schedule!Holding(i, occ[i].trigger, "claim")
<1>1. /\ task \in Schedule!Task /\ launcher[l] \in Schedule!Launcher /\ task.last <= Len(occ) /\ Schedule!TypeOK
         /\ LaunchFits(launcher[l])
      /\ Schedule!Idle \in Schedule!Launcher /\ Schedule!Idle.pc = "idle"
         /\ launcher \in [Launchers -> Schedule!Launcher]
  BY ScheduleFacts, ScheduleIdles
<1>2. launcher[l].pc = "drain" /\ UNCHANGED <<schedule, run>>
  BY DEF Schedule!Drain
<1>3. i \in Schedule!Rows
  BY <1>1, <1>2 DEF LaunchFits
<1>4. PICK j \in Schedule!Rows : j = i
  BY <1>3
<1>5. occ[j] \in Schedule!Occurrence /\ occ[j].trigger \in {"scheduled", "manual"} /\ j \in Schedule!Index
  BY ScheduleFacts DEF Schedule!Occurrence
<1>6. CASE task.status = "paused" /\ occ[i].trigger = "scheduled"
  <2>1. occ' = [occ EXCEPT ![j] = r] /\ Schedule!Go(l, Schedule!Idle) /\ task' = task
    BY <1>4, <1>6 DEF Schedule!Drain
  <2>2. r \in Schedule!Occurrence /\ r.status = "interrupted" /\ r.linked = FALSE /\ r.trigger = occ[j].trigger
    <3>1. LET e == Schedule!End(occ[j], "interrupted") IN e \in Schedule!Occurrence /\ e.status = "interrupted"
          /\ e.trigger = occ[j].trigger
      BY <1>5, ScheduleEnd DEF Schedule!Ended
    <3> QED BY <1>4, <3>1 DEF Schedule!Occurrence
  <2> HIDE DEF r
  <2>3. /\ launcher' \in [Launchers -> Schedule!Launcher] /\ launcher'[l] = Schedule!Idle
        /\ \A k \in Launchers : k # l => launcher'[k] = launcher[k]
    BY <1>1, <2>1, ScheduleGo
  <2>4. LaunchFits(launcher[l])'
    BY <1>1, <2>3, ScheduleIdle
  <2>5. occ'[j] = r
    BY <1>1, <2>1, <2>2, ScheduleRow
  <2>6. RowFits(j)'
    BY <2>2, <2>5 DEF RowFits
  <2>7. \A k \in Launchers : launcher'[k] = launcher[k] \/ LaunchFits(launcher[k])'
    BY <2>3, <2>4
  <2> QED BY <1>2, <2>1, <2>2, <2>3, <2>6, <2>7, ScheduleWritten
<1>7. CASE ~(task.status = "paused" /\ occ[i].trigger = "scheduled")
  <2>1. UNCHANGED occ /\ Schedule!Go(l, s) /\ task' \in {task, t}
    BY <1>7 DEF Schedule!Drain
  <2>2. t \in Schedule!Task /\ t.next = task.next /\ t.last = task.last /\ t.status = "enabled"
    <3> DEFINE u == Schedule!Unleased(task)
    <3>1. u \in Schedule!Task /\ u.next = task.next /\ u.last = task.last
      BY <1>1, ScheduleSets
    <3> HIDE DEF u
    <3>2. LET x == [u EXCEPT !.status = "enabled"]
          IN x \in Schedule!Task /\ x.next = u.next /\ x.last = u.last /\ x.status = "enabled"
      BY <3>1, ScheduleSets
    <3> QED BY <3>1, <3>2 DEF u
  <2> HIDE DEF t
  <2>3. s \in Schedule!Launcher /\ s.pc = "claim" /\ s.occ = j /\ s.next = Schedule!NextAfter(occ[j].trigger)
    BY <1>1, <1>4, <1>5, ScheduleTakes
  <2> HIDE DEF s, i
  <2>4. launcher'[l] = s
    BY <1>1, <2>1, <2>3, ScheduleGo
  <2>5. task' \in Schedule!Task /\ task'.next = task.next /\ task'.last = task.last
        /\ (task'.status = "running" => task.status = "running")
    BY <1>1, <2>1, <2>2
  <2>6. schedule.once => (s.next = "later" <=> task.next = "later") /\ s.next \in {"later", Schedule!None}
    BY <1>1, <1>5, <2>3, ScheduleCursor
  <2>7. schedule.once /\ occ[j].trigger = "scheduled" => task.next # "later"
    BY ScheduleFacts
  <2>8. Schedule!Rows' = Schedule!Rows
    BY <2>1 DEF Schedule!Rows
  <2>9. LaunchFits(launcher[l])'
    BY <1>2, <2>1, <2>3, <2>4, <2>5, <2>6, <2>7, <2>8 DEF LaunchFits, Launching
  <2>10. \A k \in Schedule!Rows : schedule.once /\ occ[k].trigger = "scheduled" /\ k = Len(occ) =>
            /\ task'.last = k => task'.next = Schedule!None
            /\ occ[k].status \in Schedule!Ended /\ occ[k].linked
                 => task'.next = Schedule!None /\ task'.status # "running"
    BY <2>5, ScheduleNewest
  <2> QED BY <1>1, <1>2, <2>1, <2>3, <2>5, <2>9, <2>10, ScheduleMoved
<1> QED BY <1>6, <1>7

(* The launcher at hand, at its occurrence.                                  *)
LEMMA ScheduleAt ==
    ASSUME Schedule!ScheduleAssumption, ScheduleInvariant, NEW l \in Launchers,
           launcher[l].pc \notin {"idle", "dispatch"}
    PROVE  /\ Schedule!TypeOK /\ launcher \in [Launchers -> Schedule!Launcher]
              /\ launcher[l] \in Schedule!Launcher /\ LaunchFits(launcher[l])
           /\ Schedule!Idle \in Schedule!Launcher /\ Schedule!Idle.pc = "idle"
           /\ launcher[l].occ \in Schedule!Rows /\ launcher[l].occ \in Schedule!Index
           /\ occ[launcher[l].occ] \in Schedule!Occurrence /\ RowFits(launcher[l].occ)
<1>1. /\ Schedule!TypeOK /\ launcher \in [Launchers -> Schedule!Launcher] /\ launcher[l] \in Schedule!Launcher
         /\ LaunchFits(launcher[l])
      /\ Schedule!Idle \in Schedule!Launcher /\ Schedule!Idle.pc = "idle"
         /\ Schedule!Rows \subseteq Schedule!Index
  BY ScheduleFacts, ScheduleIdles
<1>2. launcher[l].occ \in Schedule!Rows
  BY <1>1 DEF LaunchFits
<1> QED BY <1>1, <1>2, ScheduleFacts

(* It gives up and leaves a row.                                             *)
LEMMA ScheduleLeaves ==
    ASSUME Schedule!ScheduleAssumption, ScheduleInvariant, NEW l \in Launchers, Schedule!Go(l, Schedule!Idle)
    PROVE  /\ launcher' \in [Launchers -> Schedule!Launcher]
           /\ \A k \in Launchers : launcher'[k] = launcher[k] \/ LaunchFits(launcher[k])'
<1>1. Schedule!TypeOK /\ Schedule!Idle \in Schedule!Launcher /\ Schedule!Idle.pc = "idle"
  BY ScheduleFacts, ScheduleIdles
<1>2. /\ launcher' \in [Launchers -> Schedule!Launcher] /\ launcher'[l] = Schedule!Idle
      /\ \A k \in Launchers : k # l => launcher'[k] = launcher[k]
  BY <1>1, ScheduleGo
<1>3. LaunchFits(launcher[l])'
  BY <1>1, <1>2, ScheduleIdle
<1> QED BY <1>2, <1>3

LEMMA ScheduleClaim ==
    ASSUME Schedule!ScheduleAssumption, ScheduleInvariant, NEW l \in Launchers, Schedule!Claim(l)
    PROVE  ScheduleInvariant'
<1>1. launcher[l].pc = "claim" /\ UNCHANGED <<schedule, run>>
  BY DEF Schedule!Claim
<1>2. PICK i \in Schedule!Rows : i = launcher[l].occ
  BY <1>1, ScheduleAt
<1>3. /\ Schedule!TypeOK /\ launcher[l] \in Schedule!Launcher /\ occ[i] \in Schedule!Occurrence /\ RowFits(i)
         /\ i \in Schedule!Index
      /\ LaunchFits(launcher[l]) /\ task \in Schedule!Task /\ task.last <= Len(occ)
  BY <1>1, <1>2, ScheduleAt, ScheduleFacts
<1>4. CASE /\ occ[i].status = "queued" /\ occ[i].trigger = "scheduled"
           /\ occ' = [occ EXCEPT ![i] = Schedule!End(@, "skipped")] /\ task' = Schedule!Finish(task)
              /\ Schedule!Go(l, Schedule!Idle)
  <2> DEFINE r == Schedule!End(occ[i], "skipped")
  <2>1. r \in Schedule!Occurrence /\ r.status = "skipped" /\ r.linked = occ[i].linked
        /\ r.trigger = occ[i].trigger
    BY <1>3, ScheduleEnd DEF Schedule!Ended
  <2>2. occ' = [occ EXCEPT ![i] = r]
    BY <1>4
  <2>3. occ[i].linked = FALSE
    BY <1>3, <1>4 DEF RowFits, Schedule!Ended, Schedule!Occurrence
  <2> HIDE DEF r
  <2>4. occ'[i] = r
    BY <1>3, <2>1, <2>2, ScheduleRow
  <2>5. RowFits(i)'
    BY <2>1, <2>3, <2>4 DEF RowFits
  <2>6. task' \in Schedule!Task /\ task'.status = "completed" /\ task'.next = Schedule!None
        /\ task'.last = task.last
    BY <1>3, <1>4, ScheduleSets
  <2>7. schedule.once => task.next # "later"
    BY <1>4, ScheduleFacts
  <2>8. HooksFit' /\ run' \in [Schedule!Index -> Schedule!Run]
    BY <1>1, ScheduleFacts DEF HooksFit
  <2>9. /\ launcher' \in [Launchers -> Schedule!Launcher]
        /\ \A k \in Launchers : launcher'[k] = launcher[k] \/ LaunchFits(launcher[k])'
    BY <1>4, ScheduleLeaves
  <2>10. schedule.once => (task'.next = "later" <=> task.next = "later")
    BY <2>6, <2>7 DEF Schedule!None
  <2> QED BY <1>1, <1>3, <2>1, <2>2, <2>3, <2>5, <2>6, <2>8, <2>9, <2>10, ScheduleProjects
<1>5. CASE /\ occ[i].status = "queued" /\ UNCHANGED task /\ Schedule!To(l, "start")
           /\ occ' = [occ EXCEPT ![i].status = "launching", ![i].lease = Schedule!Owner(l), ![i].fresh = TRUE]
  <2> DEFINE r == [occ[i] EXCEPT !.status = "launching", !.lease = Schedule!Owner(l), !.fresh = TRUE]
             s == [launcher[l] EXCEPT !.pc = "start"]
  <2>1. /\ r \in Schedule!Occurrence /\ r.status = "launching" /\ r.linked = occ[i].linked
        /\ r.trigger = occ[i].trigger
    BY <1>3 DEF Schedule!Occurrence, Schedule!Owner, Schedule!Owners, Schedule!Active, Schedule!Executing
  <2>2. occ' = [occ EXCEPT ![i] = r]
    BY <1>3, <1>5
  <2>3. occ[i].linked = FALSE
    BY <1>3, <1>5 DEF RowFits, Schedule!Ended, Schedule!Occurrence
  <2> HIDE DEF r
  <2>4. occ'[i] = r /\ Schedule!Rows' = Schedule!Rows
    BY <1>3, <2>1, <2>2, ScheduleRow
  <2>5. RowFits(i)'
    BY <2>1, <2>3, <2>4 DEF RowFits
  <2>6. s \in Schedule!Launcher /\ s.pc = "start" /\ s.occ = i /\ s.next = launcher[l].next /\ Schedule!Go(l, s)
    BY <1>2, <1>3, <1>5, ScheduleTo DEF Schedule!To
  <2> HIDE DEF s
  <2>7. /\ launcher' \in [Launchers -> Schedule!Launcher] /\ launcher'[l] = s
        /\ \A k \in Launchers : k # l => launcher'[k] = launcher[k]
    BY <1>3, <2>6, ScheduleGo
  <2>8. LaunchFits(launcher[l])'
    BY <1>1, <1>2, <1>3, <1>5, <2>1, <2>4, <2>6, <2>7 DEF LaunchFits, Launching
  <2>9. \A k \in Launchers : launcher'[k] = launcher[k] \/ LaunchFits(launcher[k])'
    BY <2>7, <2>8
  <2> QED BY <1>1, <1>5, <2>1, <2>2, <2>3, <2>5, <2>7, <2>9, ScheduleWritten
<1>6. CASE Schedule!Go(l, Schedule!Idle) /\ UNCHANGED <<task, occ>>
  BY <1>1, <1>6, ScheduleGivesUp
<1> QED BY <1>2, <1>4, <1>5, <1>6 DEF Schedule!Claim

LEMMA ScheduleStart ==
    ASSUME Schedule!ScheduleAssumption, ScheduleInvariant, NEW l \in Launchers, Schedule!Start(l)
    PROVE  ScheduleInvariant'
<1>1. launcher[l].pc = "start" /\ UNCHANGED <<schedule, task, occ>> /\ Schedule!To(l, "record")
  BY DEF Schedule!Start
<1>2. PICK i \in Schedule!Rows : i = launcher[l].occ
  BY <1>1, ScheduleAt
<1>3. /\ Schedule!TypeOK /\ launcher[l] \in Schedule!Launcher /\ i \in Schedule!Index /\ LaunchFits(launcher[l])
         /\ HooksFit
      /\ task \in Schedule!Task /\ task.last <= Len(occ) /\ run \in [Schedule!Index -> Schedule!Run]
         /\ occ \in Seq(Schedule!Occurrence)
  BY <1>1, <1>2, ScheduleAt, ScheduleFacts
<1>4. /\ run' \in [Schedule!Index -> Schedule!Run] /\ run'[i].state # Schedule!None /\ HooksFit'
      /\ \A j \in Schedule!Index : run[j].state # Schedule!None => run'[j].state # Schedule!None
  <2>1. CASE run[i].state = Schedule!None
    <3> DEFINE x == [state |-> "live", host |-> Schedule!Owner(l), hook |-> FALSE]
    <3>1. x \in Schedule!Run /\ x.state = "live" /\ ~x.hook
      BY DEF Schedule!Run, Schedule!Owner, Schedule!Owners
    <3>2. run' = [run EXCEPT ![i] = x]
      BY <1>2, <2>1 DEF Schedule!Start
    <3> HIDE DEF x
    <3> QED BY <1>3, <3>1, <3>2 DEF HooksFit, Schedule!None
  <2>2. CASE run[i].state # Schedule!None
    <3>1. run' = run
      BY <1>2, <2>2 DEF Schedule!Start
    <3> QED BY <1>3, <2>2, <3>1 DEF HooksFit
  <2> QED BY <2>1, <2>2
<1> DEFINE s == [launcher[l] EXCEPT !.pc = "record"]
<1>5. s \in Schedule!Launcher /\ s.pc = "record" /\ s.occ = i /\ s.next = launcher[l].next /\ Schedule!Go(l, s)
  BY <1>1, <1>2, <1>3, ScheduleTo DEF Schedule!To
<1> HIDE DEF s
<1>6. /\ launcher' \in [Launchers -> Schedule!Launcher] /\ launcher'[l] = s
      /\ \A k \in Launchers : k # l => launcher'[k] = launcher[k]
  BY <1>3, <1>5, ScheduleGo
<1>7. Schedule!Rows' = Schedule!Rows
  BY <1>1 DEF Schedule!Rows
<1>8. LaunchFits(launcher[l])'
  BY <1>1, <1>2, <1>3, <1>4, <1>5, <1>6, <1>7 DEF LaunchFits, Launching
<1>9. \A k \in Launchers : launcher'[k] = launcher[k] \/ LaunchFits(launcher[k])'
  BY <1>6, <1>8
<1>10. \A j \in Schedule!Rows : schedule.once /\ occ[j].trigger = "scheduled" /\ j = Len(occ) =>
          /\ task'.last = j => task'.next = Schedule!None
          /\ occ'[j].status \in Schedule!Ended /\ occ'[j].linked
               => task'.next = Schedule!None /\ task'.status # "running"
  BY <1>1, ScheduleNewest
<1> QED BY <1>1, <1>3, <1>4, <1>6, <1>9, <1>10, ScheduleKept

LEMMA ScheduleRequeue ==
    ASSUME Schedule!ScheduleAssumption, ScheduleInvariant, NEW l \in Launchers, Schedule!Requeue(l)
    PROVE  ScheduleInvariant'
<1>1. launcher[l].pc = "start" /\ UNCHANGED <<schedule, task, run>> /\ Schedule!Go(l, Schedule!Idle)
  BY DEF Schedule!Requeue
<1>2. PICK i \in Schedule!Rows : i = launcher[l].occ
  BY <1>1, ScheduleAt
<1>3. Schedule!TypeOK /\ occ[i] \in Schedule!Occurrence /\ RowFits(i)
  BY <1>1, <1>2, ScheduleAt
<1>4. CASE ~Schedule!Mine(l, i)
  BY <1>1, <1>2, <1>4, ScheduleGivesUp DEF Schedule!Requeue
<1>5. CASE Schedule!Mine(l, i)
  <2> DEFINE r == Schedule!End(occ[i], "queued")
  <2>1. r \in Schedule!Occurrence /\ r.status = "queued" /\ r.linked = occ[i].linked
        /\ r.trigger = occ[i].trigger
    BY <1>3, ScheduleEnd DEF Schedule!Active
  <2>2. occ' = [occ EXCEPT ![i] = r]
    BY <1>2, <1>5 DEF Schedule!Requeue
  <2>3. occ[i].linked = FALSE
    BY <1>3, <1>5 DEF RowFits, Schedule!Ended, Schedule!Occurrence, Schedule!Mine
  <2> HIDE DEF r
  <2>4. occ'[i] = r
    BY <1>3, <2>1, <2>2, ScheduleRow
  <2>5. RowFits(i)'
    BY <2>1, <2>3, <2>4 DEF RowFits
  <2> QED BY <1>1, <2>1, <2>2, <2>3, <2>5, ScheduleLeaves, ScheduleWritten
<1> QED BY <1>4, <1>5

LEMMA ScheduleFailed ==
    ASSUME Schedule!ScheduleAssumption, ScheduleInvariant, NEW i \in Schedule!Rows
    PROVE  /\ Schedule!Failed(i) \in Schedule!Task /\ Schedule!Failed(i).last = task.last
           /\ schedule.once => (Schedule!Failed(i).next = "later" <=> task.next = "later")
           /\ schedule.once => Schedule!Failed(i).next \in {task.next, Schedule!None}
<1> DEFINE u == Schedule!Unleased(task)
           auto == occ[i].trigger = "scheduled"
           st == IF auto THEN (IF schedule.once THEN "failed" ELSE "enabled") ELSE u.status
           x == IF auto THEN Schedule!NextRun ELSE u.next
<1>1. Schedule!TypeOK /\ task \in Schedule!Task
  BY ScheduleFacts
<1>2. u \in Schedule!Task /\ u.next = task.next /\ u.last = task.last
  BY <1>1, ScheduleSets
<1>3. /\ Schedule!NextRun \in {Schedule!None, "later", "due"}
      /\ schedule.once
           => (Schedule!NextRun = "later" <=> task.next = "later")
           /\ Schedule!NextRun \in {"later", Schedule!None}
  BY <1>1, ScheduleCursor
<1>4. Schedule!Failed(i) = [u EXCEPT !.status = st, !.next = x]
  BY DEF Schedule!Failed
<1> HIDE DEF u, auto
<1>5. st \in {"enabled", "running", "paused"} \cup Schedule!Finished
  BY <1>2 DEF Schedule!Task, Schedule!Finished
<1>6. x \in {Schedule!None, "later", "due"}
      /\ (schedule.once => (x = "later" <=> task.next = "later") /\ x \in {task.next, Schedule!None})
  BY <1>2, <1>3 DEF Schedule!Task, Schedule!None
<1> HIDE DEF st, x
<1>7. Schedule!Failed(i) \in Schedule!Task /\ Schedule!Failed(i).last = task.last /\ Schedule!Failed(i).next = x
  BY <1>2, <1>4, <1>5, <1>6 DEF Schedule!Task
<1> QED BY <1>6, <1>7

LEMMA ScheduleFailLaunch ==
    ASSUME Schedule!ScheduleAssumption, ScheduleInvariant, NEW l \in Launchers, Schedule!FailLaunch(l)
    PROVE  ScheduleInvariant'
<1>1. launcher[l].pc = "start" /\ UNCHANGED <<schedule, run>> /\ Schedule!Go(l, Schedule!Idle)
  BY DEF Schedule!FailLaunch
<1>2. PICK i \in Schedule!Rows : i = launcher[l].occ
  BY <1>1, ScheduleAt
<1>3. /\ Schedule!TypeOK /\ occ[i] \in Schedule!Occurrence /\ RowFits(i) /\ task \in Schedule!Task
         /\ task.last <= Len(occ)
      /\ Len(occ) \in Nat /\ run \in [Schedule!Index -> Schedule!Run] /\ HooksFit
         /\ Schedule!Rows = 1 .. Len(occ)
  BY <1>1, <1>2, ScheduleAt, ScheduleFacts
<1>4. CASE ~Schedule!Mine(l, i)
  BY <1>1, <1>2, <1>4, ScheduleGivesUp DEF Schedule!FailLaunch
<1>5. CASE Schedule!Mine(l, i)
  <2> DEFINE r == Schedule!End(occ[i], "failed")
             f == Schedule!Failed(i)
             p == [f EXCEPT !.last = 0]
  <2>1. r \in Schedule!Occurrence /\ r.status = "failed" /\ r.linked = occ[i].linked
        /\ r.trigger = occ[i].trigger
    BY <1>3, ScheduleEnd DEF Schedule!Ended
  <2>2. occ' = [occ EXCEPT ![i] = r] /\ task' = IF i = Len(occ) THEN p ELSE task
    BY <1>2, <1>5 DEF Schedule!FailLaunch, Schedule!CanProject
  <2>3. occ[i].linked = FALSE
    BY <1>3, <1>5 DEF RowFits, Schedule!Ended, Schedule!Occurrence, Schedule!Mine
  <2>4. f \in Schedule!Task /\ (schedule.once => (f.next = "later" <=> task.next = "later"))
    BY ScheduleFailed
  <2> HIDE DEF r, f
  <2>5. p \in Schedule!Task /\ p.last = 0 /\ p.next = f.next
    BY <2>4, Schedule!ScheduleAssumption DEF Schedule!Task, Schedule!ScheduleAssumption
  <2> HIDE DEF p
  <2>6. occ'[i] = r
    BY <1>3, <2>1, <2>2, ScheduleRow
  <2>7. RowFits(i)'
    BY <2>1, <2>3, <2>6 DEF RowFits
  <2>8. task' \in Schedule!Task /\ task'.last <= Len(occ)
        /\ (schedule.once => (task'.next = "later" <=> task.next = "later"))
    BY <1>3, <2>2, <2>4, <2>5
  <2>9. i # Len(occ) => task' = task
    BY <2>2
  <2>10. i = Len(occ) => task'.last # i
    BY <1>3, <2>2, <2>5
  <2>11. HooksFit' /\ run' \in [Schedule!Index -> Schedule!Run]
    BY <1>1, <1>3 DEF HooksFit
  <2>12. /\ launcher' \in [Launchers -> Schedule!Launcher]
         /\ \A k \in Launchers : launcher'[k] = launcher[k] \/ LaunchFits(launcher[k])'
    BY <1>1, ScheduleLeaves
  <2> QED BY <1>1, <2>1, <2>2, <2>3, <2>7, <2>8, <2>9, <2>10, <2>11, <2>12, ScheduleProjects
<1> QED BY <1>4, <1>5

LEMMA ScheduleRecord ==
    ASSUME Schedule!ScheduleAssumption, ScheduleInvariant, NEW l \in Launchers, Schedule!Record(l)
    PROVE  ScheduleInvariant'
<1>1. launcher[l].pc = "record" /\ UNCHANGED <<schedule, task, run>> /\ Schedule!To(l, "settle")
  BY DEF Schedule!Record
<1>2. PICK i \in Schedule!Rows : i = launcher[l].occ
  BY <1>1, ScheduleAt
<1>3. /\ Schedule!TypeOK /\ occ[i] \in Schedule!Occurrence /\ RowFits(i) /\ launcher[l] \in Schedule!Launcher
      /\ LaunchFits(launcher[l]) /\ run[i].state # Schedule!None
  BY <1>1, <1>2, ScheduleAt DEF LaunchFits
<1> DEFINE s == [launcher[l] EXCEPT !.pc = "settle"]
<1>4. s \in Schedule!Launcher /\ s.pc = "settle" /\ s.occ = i /\ s.next = launcher[l].next /\ Schedule!Go(l, s)
  BY <1>1, <1>2, <1>3, ScheduleTo DEF Schedule!To
<1> HIDE DEF s
<1>5. /\ launcher' \in [Launchers -> Schedule!Launcher] /\ launcher'[l] = s
      /\ \A k \in Launchers : k # l => launcher'[k] = launcher[k]
  BY <1>3, <1>4, ScheduleGo
<1>6. CASE occ' = occ
  <2>1. Schedule!Rows' = Schedule!Rows
    BY <1>6 DEF Schedule!Rows
  <2>2. LaunchFits(launcher[l])'
    BY <1>1, <1>2, <1>3, <1>4, <1>5, <1>6, <2>1 DEF LaunchFits, Launching
  <2> QED BY <1>1, <1>4, <1>6, <2>2, ScheduleAlone
<1>7. CASE occ' = Schedule!Restored(i)
  <2> DEFINE r == [Schedule!End(occ[i], "running") EXCEPT !.linked = TRUE]
  <2>1. r \in Schedule!Occurrence /\ r.status = "running" /\ r.linked /\ r.trigger = occ[i].trigger
    BY <1>3, ScheduleLinks
  <2>2. occ' = [occ EXCEPT ![i] = r]
    BY <1>7 DEF Schedule!Restored
  <2> HIDE DEF r
  <2>3. occ'[i] = r /\ Schedule!Rows' = Schedule!Rows
    BY <1>3, <2>1, <2>2, ScheduleRow
  <2>4. RowFits(i)'
    BY <1>1, <1>3, <2>1, <2>3 DEF RowFits
  <2>5. LaunchFits(launcher[l])'
    BY <1>1, <1>2, <1>3, <1>4, <1>5, <2>1, <2>3 DEF LaunchFits, Launching
  <2>6. \A k \in Launchers : launcher'[k] = launcher[k] \/ LaunchFits(launcher[k])'
    BY <1>5, <2>5
  <2>7. r.status \notin Schedule!Ended
    BY <2>1 DEF Schedule!Ended
  <2> QED BY <1>1, <1>5, <2>1, <2>2, <2>4, <2>6, <2>7, ScheduleWritten
<1> QED BY <1>2, <1>6, <1>7 DEF Schedule!Record, Schedule!Recorded

LEMMA ScheduleSettle ==
    ASSUME Schedule!ScheduleAssumption, ScheduleInvariant, NEW l \in Launchers, Schedule!Settle(l)
    PROVE  ScheduleInvariant'
<1>1. launcher[l].pc = "settle" /\ UNCHANGED <<schedule, run>> /\ Schedule!Go(l, Schedule!Idle)
  BY DEF Schedule!Settle
<1>2. PICK i \in Schedule!Rows : i = launcher[l].occ
  BY <1>1, ScheduleAt
<1>3. /\ Schedule!TypeOK /\ occ[i] \in Schedule!Occurrence /\ RowFits(i) /\ launcher[l] \in Schedule!Launcher
         /\ i \in Schedule!Index
      /\ LaunchFits(launcher[l]) /\ task \in Schedule!Task /\ task.last <= Len(occ)
      /\ Len(occ) \in Nat /\ run \in [Schedule!Index -> Schedule!Run] /\ HooksFit
         /\ Schedule!Rows = 1 .. Len(occ)
  BY <1>1, <1>2, ScheduleAt, ScheduleFacts
<1> DEFINE r == [occ[i] EXCEPT !.counted = TRUE]
           x == launcher[l].next
           st == IF Schedule!Protected(i) THEN task.status ELSE Schedule!LaunchStatus(l)
           p == [task EXCEPT !.status = st, !.next = x, !.last = i]
<1>4. occ' = [occ EXCEPT ![i] = r] /\ task' = IF i = Len(occ) THEN p ELSE task
  BY <1>2, <1>3 DEF Schedule!Settle, Schedule!Settled, Schedule!CanProject
<1>5. /\ r \in Schedule!Occurrence /\ r.status = occ[i].status /\ r.trigger = occ[i].trigger
         /\ r.linked = occ[i].linked
  BY <1>3 DEF Schedule!Occurrence
<1> HIDE DEF r
<1>6. /\ x \in {Schedule!None, "later", "due"} /\ (schedule.once => (x = "later" <=> task.next = "later"))
      /\ (schedule.once /\ occ[i].trigger = "scheduled" => x = Schedule!None)
  BY <1>1, <1>2, <1>3 DEF LaunchFits, Launching, Schedule!Launcher
<1>7. st \in {"enabled", "running", "paused"} \cup Schedule!Finished
  BY <1>3 DEF Schedule!LaunchStatus, Schedule!Task
<1>8. i \in 0 .. MaxOccurrences
  BY <1>3 DEF Schedule!Index, Schedule!ScheduleAssumption
<1>9. occ[i].status \in Schedule!Ended => st = task.status
  BY DEF Schedule!Protected
<1> HIDE DEF st, x
<1>10. p \in Schedule!Task /\ p.last = i /\ p.next = x /\ p.status = st
  BY <1>3, <1>6, <1>7, <1>8 DEF Schedule!Task
<1> HIDE DEF p
<1>11. occ'[i] = r
  BY <1>3, <1>4, <1>5, ScheduleRow
<1>12. RowFits(i)'
  BY <1>1, <1>3, <1>5, <1>11 DEF RowFits
<1>13. task' \in Schedule!Task /\ task'.last <= Len(occ)
       /\ (schedule.once => (task'.next = "later" <=> task.next = "later"))
  BY <1>3, <1>4, <1>6, <1>10
<1>14. i # Len(occ) => task' = task
  BY <1>4
<1>15. schedule.once /\ occ[i].trigger = "scheduled" /\ i = Len(occ) =>
          /\ task'.next = Schedule!None
          /\ r.status \in Schedule!Ended /\ r.linked => task'.status # "running"
  BY <1>4, <1>5, <1>6, <1>9, <1>10, ScheduleNewest
<1>16. HooksFit' /\ run' \in [Schedule!Index -> Schedule!Run]
  BY <1>1, <1>3 DEF HooksFit
<1>17. /\ launcher' \in [Launchers -> Schedule!Launcher]
       /\ \A k \in Launchers : launcher'[k] = launcher[k] \/ LaunchFits(launcher[k])'
  BY <1>1, ScheduleLeaves
<1> QED BY <1>1, <1>4, <1>5, <1>12, <1>13, <1>14, <1>15, <1>16, <1>17, ScheduleProjects

LEMMA ScheduleBookkeepingFails ==
    ASSUME Schedule!ScheduleAssumption, ScheduleInvariant, NEW l \in Launchers, Schedule!BookkeepingFails(l)
    PROVE  ScheduleInvariant'
<1>1. launcher[l].pc \in {"record", "settle"} /\ UNCHANGED <<schedule, task, occ, run>>
  BY DEF Schedule!BookkeepingFails
<1>2. CASE Schedule!Go(l, Schedule!Idle)
  BY <1>1, <1>2, ScheduleGivesUp
<1>3. CASE launcher[l].pc = "record" /\ Schedule!Go(l, [launcher[l] EXCEPT !.pc = "settle"])
  <2> DEFINE s == [launcher[l] EXCEPT !.pc = "settle"]
  <2>1. Schedule!TypeOK /\ launcher[l] \in Schedule!Launcher /\ LaunchFits(launcher[l])
    BY ScheduleFacts
  <2>2. s \in Schedule!Launcher /\ s.pc = "settle" /\ s.occ = launcher[l].occ /\ s.next = launcher[l].next
    BY <2>1, ScheduleTo
  <2>3. Schedule!Go(l, s)
    BY <1>3
  <2> HIDE DEF s
  <2>4. launcher'[l] = s /\ Schedule!Rows' = Schedule!Rows
    BY <1>1, <2>1, <2>2, <2>3, ScheduleGo DEF Schedule!Rows
  <2>5. LaunchFits(launcher[l])'
    BY <1>1, <1>3, <2>1, <2>2, <2>4 DEF LaunchFits, Launching
  <2> QED BY <1>1, <2>2, <2>3, <2>5, ScheduleAlone
<1> QED BY <1>2, <1>3 DEF Schedule!BookkeepingFails

(* A launch that is recovered.                                               *)
LEMMA ScheduleRecovers ==
    ASSUME Schedule!ScheduleAssumption, ScheduleInvariant, NEW i \in Schedule!Rows,
           occ[i].status = "launching", Schedule!RecoverClaim(i),
           UNCHANGED <<schedule, run>>, launcher' \in [Launchers -> Schedule!Launcher],
           \A l \in Launchers : launcher'[l] = launcher[l] \/ LaunchFits(launcher[l])'
    PROVE  ScheduleInvariant'
<1>1. /\ Schedule!TypeOK /\ occ[i] \in Schedule!Occurrence /\ RowFits(i) /\ HooksFit
         /\ run \in [Schedule!Index -> Schedule!Run] /\ i \in Schedule!Index
  BY ScheduleFacts
<1>2. CASE occ' = [occ EXCEPT ![i] = Schedule!End(@, "queued")] /\ UNCHANGED task
  <2> DEFINE r == Schedule!End(occ[i], "queued")
  <2>1. r \in Schedule!Occurrence /\ r.status = "queued" /\ r.linked = occ[i].linked
        /\ r.trigger = occ[i].trigger
    BY <1>1, ScheduleEnd DEF Schedule!Active
  <2>2. occ' = [occ EXCEPT ![i] = r]
    BY <1>2
  <2>3. occ[i].linked = FALSE
    BY <1>1 DEF RowFits, Schedule!Ended, Schedule!Occurrence
  <2> HIDE DEF r
  <2>4. occ'[i] = r
    BY <1>1, <2>1, <2>2, ScheduleRow
  <2>5. RowFits(i)'
    BY <2>1, <2>3, <2>4 DEF RowFits
  <2> QED BY <1>2, <2>1, <2>2, <2>3, <2>5, ScheduleWritten
<1>3. CASE run[i].state \in {"live", "orphan"} /\ Schedule!Associate(i)
  BY <1>3, ScheduleAssociates DEF Schedule!None
<1>4. CASE run[i].state \in Schedule!Over
           /\ Schedule!FinalizeOccurrence(i, Schedule!Outcome(run[i].state), TRUE)
  <2>1. HooksFit' /\ run' \in [Schedule!Index -> Schedule!Run] /\ run[i].state # Schedule!None
    BY <1>1, <1>4 DEF HooksFit, Schedule!Over, Schedule!None
  <2>2. Schedule!Outcome(run[i].state) \in {"success", "failed", "interrupted"}
    BY DEF Schedule!Outcome
  <2>3. PICK status \in {"success", "failed", "interrupted"} : Schedule!FinalizeOccurrence(i, status, TRUE)
    BY <1>4, <2>2
  <2> QED BY <2>1, <2>3, ScheduleFinalizes
<1> QED BY <1>2, <1>3, <1>4 DEF Schedule!RecoverClaim

LEMMA ScheduleRecover ==
    ASSUME Schedule!ScheduleAssumption, ScheduleInvariant, NEW l \in Launchers, Schedule!Recover(l)
    PROVE  ScheduleInvariant'
<1>1. launcher[l].pc = "recover" /\ UNCHANGED <<schedule, run>> /\ Schedule!Go(l, Schedule!Idle)
  BY DEF Schedule!Recover
<1>2. PICK i \in Schedule!Rows : i = launcher[l].occ
  BY <1>1, ScheduleAt
<1>3. CASE occ[i].status = "launching" /\ Schedule!RecoverClaim(i)
  BY <1>1, <1>3, ScheduleLeaves, ScheduleRecovers
<1>4. CASE UNCHANGED <<task, occ>>
  BY <1>1, <1>4, ScheduleGivesUp
<1> QED BY <1>2, <1>3, <1>4 DEF Schedule!Recover

LEMMA ScheduleReconcileTerminal ==
    ASSUME Schedule!ScheduleAssumption, ScheduleInvariant, NEW l \in Launchers, NEW i \in Schedule!Rows,
           Schedule!ReconcileTerminal(l, i)
    PROVE  ScheduleInvariant'
<1>1. /\ run[i].state \in Schedule!Over /\ Schedule!FinalizeOccurrence(i, Schedule!Outcome(run[i].state), TRUE)
      /\ UNCHANGED <<schedule, run, launcher>>
  BY DEF Schedule!ReconcileTerminal
<1>2. HooksFit' /\ run' \in [Schedule!Index -> Schedule!Run] /\ run[i].state # Schedule!None
      /\ launcher' \in [Launchers -> Schedule!Launcher]
  BY <1>1, ScheduleFacts DEF HooksFit, Schedule!Over, Schedule!None
<1>3. Schedule!Outcome(run[i].state) \in {"success", "failed", "interrupted"}
  BY DEF Schedule!Outcome
<1>4. PICK status \in {"success", "failed", "interrupted"} : Schedule!FinalizeOccurrence(i, status, TRUE)
  BY <1>1, <1>3
<1> QED BY <1>1, <1>2, <1>4, ScheduleFinalizes

LEMMA ScheduleReconcileActive ==
    ASSUME Schedule!ScheduleAssumption, ScheduleInvariant, NEW l \in Launchers, NEW i \in Schedule!Rows,
           Schedule!ReconcileActive(l, i)
    PROVE  ScheduleInvariant'
<1>1. /\ Schedule!TypeOK /\ occ[i] \in Schedule!Occurrence /\ RowFits(i) /\ HooksFit
         /\ run \in [Schedule!Index -> Schedule!Run] /\ i \in Schedule!Index
      /\ launcher \in [Launchers -> Schedule!Launcher]
  BY ScheduleFacts
<1>2. UNCHANGED <<schedule, launcher>>
  BY DEF Schedule!ReconcileActive
<1>3. CASE /\ run[i].state = Schedule!None /\ occ[i].status = "launching"
           /\ occ' = [occ EXCEPT ![i] = Schedule!End(@, "queued")] /\ UNCHANGED <<task, run>>
  <2>1. Schedule!RecoverClaim(i)
    BY <1>3 DEF Schedule!RecoverClaim
  <2> QED BY <1>1, <1>2, <1>3, <2>1, ScheduleRecovers
<1>4. CASE run[i].state = "live" /\ Schedule!Associate(i) /\ UNCHANGED run
  BY <1>1, <1>2, <1>4, ScheduleAssociates DEF Schedule!None
<1>5. CASE /\ run[i].state \in Schedule!Over \cup {"orphan"}
           /\ run' = IF run[i].state = "orphan" THEN [run EXCEPT ![i].state = "interrupted"] ELSE run
           /\ Schedule!FinalizeOccurrence(i, Schedule!Outcome(run[i].state), TRUE)
  <2>1. Schedule!Outcome(run[i].state) \in {"success", "failed", "interrupted"}
    BY DEF Schedule!Outcome
  <2>2. PICK status \in {"success", "failed", "interrupted"} : Schedule!FinalizeOccurrence(i, status, TRUE)
    BY <1>5, <2>1
  <2>3. run[i].state # Schedule!None
    BY <1>5 DEF Schedule!Over, Schedule!None
  <2>4. HooksFit' /\ run' \in [Schedule!Index -> Schedule!Run]
        /\ \A j \in Schedule!Index : run[j].state # Schedule!None => run'[j].state # Schedule!None
    <3>1. CASE run' = run
      BY <1>1, <3>1 DEF HooksFit
    <3>2. CASE run' = [run EXCEPT ![i].state = "interrupted"]
      <4> DEFINE x == [run[i] EXCEPT !.state = "interrupted"]
      <4>1. x \in Schedule!Run /\ x.state = "interrupted"
        <5>1. run[i] \in Schedule!Run
          BY <1>1
        <5> QED BY <5>1 DEF Schedule!Run, Schedule!Over
      <4>2. run' = [run EXCEPT ![i] = x]
        BY <1>1, <3>2
      <4> HIDE DEF x
      <4> QED BY <1>1, <4>1, <4>2 DEF HooksFit, Schedule!Over, Schedule!None
    <3> QED BY <1>5, <3>1, <3>2
  <2> QED BY <1>1, <1>2, <2>2, <2>3, <2>4, ScheduleFinalizes
<1> QED BY <1>3, <1>4, <1>5 DEF Schedule!ReconcileActive

LEMMA ScheduleReconcileStuckOnce ==
    ASSUME Schedule!ScheduleAssumption, ScheduleInvariant, NEW l \in Launchers, Schedule!ReconcileStuckOnce(l)
    PROVE  ScheduleInvariant'
<1> DEFINE st == IF occ = <<>> THEN "cancelled" ELSE Schedule!OnceStatus(occ[Len(occ)].status)
<1>1. UNCHANGED <<schedule, occ, run, launcher>> /\ task' = [task EXCEPT !.status = st]
  BY DEF Schedule!ReconcileStuckOnce, Schedule!FinaliseOnce
<1>2. st \in Schedule!Finished
  BY DEF Schedule!OnceStatus, Schedule!Finished
<1> HIDE DEF st
<1>3. /\ task \in Schedule!Task /\ task.last <= Len(occ) /\ HooksFit /\ run \in [Schedule!Index -> Schedule!Run]
         /\ occ \in Seq(Schedule!Occurrence)
      /\ launcher \in [Launchers -> Schedule!Launcher]
  BY ScheduleFacts
<1>4. task' \in Schedule!Task /\ task'.status = st /\ task'.next = task.next /\ task'.last = task.last
  BY <1>1, <1>2, <1>3, ScheduleSets
<1>5. task'.status # "running"
  BY <1>2, <1>4 DEF Schedule!Finished
<1>6. \A i \in Schedule!Rows : schedule.once /\ occ[i].trigger = "scheduled" /\ i = Len(occ) =>
          /\ task'.last = i => task'.next = Schedule!None
          /\ occ'[i].status \in Schedule!Ended /\ occ'[i].linked
               => task'.next = Schedule!None /\ task'.status # "running"
  BY <1>1, <1>4, <1>5, ScheduleNewest
<1>7. HooksFit'
  BY <1>1, <1>3 DEF HooksFit
<1> QED BY <1>1, <1>3, <1>4, <1>6, <1>7, ScheduleKept

(* A step that writes neither the parent nor the rows.                       *)
LEMMA ScheduleRuns ==
    ASSUME Schedule!ScheduleAssumption, ScheduleInvariant, UNCHANGED <<schedule, task, occ>>,
           run' \in [Schedule!Index -> Schedule!Run], HooksFit',
           \A j \in Schedule!Index : run[j].state # Schedule!None
             => run'[j].state # Schedule!None, launcher' \in [Launchers -> Schedule!Launcher],
           \A l \in Launchers : launcher'[l] = launcher[l] \/ LaunchFits(launcher[l])'
    PROVE  ScheduleInvariant'
<1>1. task \in Schedule!Task /\ task.last <= Len(occ) /\ occ \in Seq(Schedule!Occurrence)
  BY ScheduleFacts
<1>2. \A i \in Schedule!Rows : schedule.once /\ occ[i].trigger = "scheduled" /\ i = Len(occ) =>
          /\ task'.last = i => task'.next = Schedule!None
          /\ occ'[i].status \in Schedule!Ended /\ occ'[i].linked
               => task'.next = Schedule!None /\ task'.status # "running"
  BY ScheduleNewest
<1> QED BY <1>1, <1>2, ScheduleKept

LEMMA ScheduleCrash ==
    ASSUME Schedule!ScheduleAssumption, ScheduleInvariant, NEW l \in Launchers, Schedule!Crash(l)
    PROVE  ScheduleInvariant'
<1>1. UNCHANGED <<schedule, task, occ>> /\ Schedule!Go(l, Schedule!Idle) /\ run' = Schedule!Orphaned(l)
  BY DEF Schedule!Crash
<1>2. run \in [Schedule!Index -> Schedule!Run] /\ HooksFit
  BY ScheduleFacts
<1> DEFINE f(i) == IF run[i].host # l THEN run[i]
                   ELSE [run[i] EXCEPT !.hook = FALSE, !.state = IF @ = "live" THEN "orphan" ELSE @]
<1>3. ASSUME NEW i \in Schedule!Index
      PROVE  f(i) \in Schedule!Run /\ (f(i).hook => f(i).state \in Schedule!Over)
             /\ (run[i].state # Schedule!None => f(i).state # Schedule!None)
  <2>1. run[i] \in Schedule!Run /\ (run[i].hook => run[i].state \in Schedule!Over)
    BY <1>2 DEF HooksFit
  <2> QED BY <2>1 DEF Schedule!Run, Schedule!None
<1>4. run' = [i \in Schedule!Index |-> f(i)]
  BY <1>1 DEF Schedule!Orphaned
<1> HIDE DEF f
<1>5. run' \in [Schedule!Index -> Schedule!Run] /\ HooksFit'
      /\ \A j \in Schedule!Index : run[j].state # Schedule!None => run'[j].state # Schedule!None
  BY <1>3, <1>4 DEF HooksFit
<1> QED BY <1>1, <1>5, ScheduleLeaves, ScheduleRuns

(* A row whose run is under way, and its end.                                *)
LEMMA ScheduleRequestStop ==
    ASSUME Schedule!ScheduleAssumption, ScheduleInvariant, NEW i \in Schedule!Rows, Schedule!RequestStop(i)
    PROVE  ScheduleInvariant'
<1> DEFINE r == [occ[i] EXCEPT !.stop = TRUE]
<1>1. occ[i] \in Schedule!Occurrence /\ Schedule!TypeOK /\ RowFits(i) /\ i \in Schedule!Index
      /\ launcher \in [Launchers -> Schedule!Launcher]
  BY ScheduleFacts
<1>2. r \in Schedule!Occurrence /\ r.status = occ[i].status /\ r.trigger = occ[i].trigger
      /\ r.linked = occ[i].linked
  BY <1>1 DEF Schedule!Occurrence
<1>3. occ' = [occ EXCEPT ![i] = r] /\ UNCHANGED <<schedule, task, run, launcher>>
  BY <1>1 DEF Schedule!RequestStop
<1> HIDE DEF r
<1>4. occ'[i] = r
  BY <1>1, <1>2, <1>3, ScheduleRow
<1>5. RowFits(i)'
  BY <1>1, <1>2, <1>3, <1>4 DEF RowFits
<1> QED BY <1>1, <1>2, <1>3, <1>5, ScheduleWritten

LEMMA ScheduleRunEnds ==
    ASSUME Schedule!ScheduleAssumption, ScheduleInvariant, NEW i \in Schedule!Rows,
           NEW state \in Schedule!Over, Schedule!RunEnds(i, state)
    PROVE  ScheduleInvariant'
<1> DEFINE x == [run[i] EXCEPT !.state = state, !.hook = TRUE]
<1>1. run \in [Schedule!Index -> Schedule!Run] /\ HooksFit /\ i \in Schedule!Index
      /\ launcher \in [Launchers -> Schedule!Launcher]
  BY ScheduleFacts
<1>2. x \in Schedule!Run /\ x.state = state /\ state # Schedule!None
  BY <1>1 DEF Schedule!Run, Schedule!Over, Schedule!None
<1>3. run' = [run EXCEPT ![i] = x] /\ UNCHANGED <<schedule, task, occ, launcher>>
  BY <1>1 DEF Schedule!RunEnds
<1> HIDE DEF x
<1>4. run' \in [Schedule!Index -> Schedule!Run] /\ HooksFit'
      /\ \A j \in Schedule!Index : run[j].state # Schedule!None => run'[j].state # Schedule!None
  BY <1>1, <1>2, <1>3 DEF HooksFit
<1> QED BY <1>1, <1>3, <1>4, ScheduleRuns

(* Its hook is used up.                                                      *)
LEMMA ScheduleUnhooked ==
    ASSUME Schedule!ScheduleAssumption, ScheduleInvariant, NEW i \in Schedule!Rows,
           run' = [run EXCEPT ![i].hook = FALSE]
    PROVE  /\ run' \in [Schedule!Index -> Schedule!Run] /\ HooksFit'
           /\ \A j \in Schedule!Index : run[j].state # Schedule!None => run'[j].state # Schedule!None
<1> DEFINE x == [run[i] EXCEPT !.hook = FALSE]
<1>1. run \in [Schedule!Index -> Schedule!Run] /\ HooksFit /\ i \in Schedule!Index
  BY ScheduleFacts
<1>2. x \in Schedule!Run /\ x.state = run[i].state /\ ~x.hook
  BY <1>1 DEF Schedule!Run
<1>3. run' = [run EXCEPT ![i] = x]
  BY <1>1
<1> HIDE DEF x
<1> QED BY <1>1, <1>2, <1>3 DEF HooksFit

LEMMA ScheduleHookLost ==
    ASSUME Schedule!ScheduleAssumption, ScheduleInvariant, NEW i \in Schedule!Rows, Schedule!HookLost(i)
    PROVE  ScheduleInvariant'
<1>1. run' = [run EXCEPT ![i].hook = FALSE] /\ UNCHANGED <<schedule, task, occ, launcher>>
  BY DEF Schedule!HookLost
<1>2. launcher \in [Launchers -> Schedule!Launcher]
  BY ScheduleFacts
<1> QED BY <1>1, <1>2, ScheduleUnhooked, ScheduleRuns

LEMMA ScheduleComplete ==
    ASSUME Schedule!ScheduleAssumption, ScheduleInvariant, NEW i \in Schedule!Rows, Schedule!Complete(i)
    PROVE  ScheduleInvariant'
<1>1. run[i].hook /\ run' = [run EXCEPT ![i].hook = FALSE] /\ UNCHANGED <<schedule, launcher>>
  BY DEF Schedule!Complete
<1>2. launcher \in [Launchers -> Schedule!Launcher] /\ HooksFit /\ i \in Schedule!Index
  BY ScheduleFacts
<1>3. run[i].state # Schedule!None
  BY <1>1, <1>2 DEF HooksFit, Schedule!Over, Schedule!None
<1>4. /\ run' \in [Schedule!Index -> Schedule!Run] /\ HooksFit'
      /\ \A j \in Schedule!Index : run[j].state # Schedule!None => run'[j].state # Schedule!None
  BY <1>1, ScheduleUnhooked
<1>5. CASE UNCHANGED <<task, occ>>
  BY <1>1, <1>2, <1>4, <1>5, ScheduleRuns
<1>6. CASE Schedule!FinalizeOccurrence(i, Schedule!Outcome(run[i].state), TRUE)
  <2>1. Schedule!Outcome(run[i].state) \in {"success", "failed", "interrupted"}
    BY DEF Schedule!Outcome
  <2>2. PICK status \in {"success", "failed", "interrupted"} : Schedule!FinalizeOccurrence(i, status, TRUE)
    BY <1>6, <2>1
  <2> QED BY <1>1, <1>2, <1>3, <1>4, <2>2, ScheduleFinalizes
<1> QED BY <1>5, <1>6 DEF Schedule!Complete

LEMMA ScheduleExpire ==
    ASSUME Schedule!ScheduleAssumption, ScheduleInvariant, NEW i \in Schedule!Rows, Schedule!Expire(i)
    PROVE  ScheduleInvariant'
<1> DEFINE r == Schedule!End(occ[i], "failed")
           u == Schedule!Unleased(task)
           f == Schedule!Failed(i)
<1>1. /\ Schedule!TypeOK /\ occ[i] \in Schedule!Occurrence /\ RowFits(i) /\ task \in Schedule!Task
         /\ task.last <= Len(occ)
      /\ run \in [Schedule!Index -> Schedule!Run] /\ HooksFit /\ launcher \in [Launchers -> Schedule!Launcher]
  BY ScheduleFacts
<1>2. r \in Schedule!Occurrence /\ r.status = "failed" /\ r.linked = occ[i].linked /\ r.trigger = occ[i].trigger
  BY <1>1, ScheduleEnd DEF Schedule!Ended
<1>3. /\ occ' = [occ EXCEPT ![i] = r] /\ UNCHANGED <<schedule, run, launcher>>
      /\ task' = task \/ (i = Len(occ) /\ task' \in {u, f})
  BY DEF Schedule!Expire, Schedule!CanProject
<1>4. occ[i].linked = FALSE
  BY <1>1 DEF RowFits, Schedule!Ended, Schedule!Occurrence, Schedule!Expire
<1>5. u \in Schedule!Task /\ u.next = task.next /\ u.last = task.last /\ u.status = task.status
  BY <1>1, ScheduleSets
<1>6. /\ f \in Schedule!Task /\ f.last = task.last
      /\ schedule.once => (f.next = "later" <=> task.next = "later")
      /\ schedule.once => f.next \in {task.next, Schedule!None}
  BY ScheduleFailed
<1> HIDE DEF r, u, f
<1>7. occ'[i] = r
  BY <1>1, <1>2, <1>3, ScheduleRow
<1>8. RowFits(i)'
  BY <1>2, <1>4, <1>7 DEF RowFits
<1>9. /\ task' \in Schedule!Task /\ task'.last = task.last
      /\ schedule.once => (task'.next = "later" <=> task.next = "later")
      /\ schedule.once => task'.next \in {task.next, Schedule!None}
  BY <1>1, <1>3, <1>5, <1>6
<1>10. i # Len(occ) => task' = task
  BY <1>3
<1>11. schedule.once /\ occ[i].trigger = "scheduled" /\ i = Len(occ)
         => (task'.last = i => task'.next = Schedule!None)
  BY <1>9, ScheduleNewest
<1>12. HooksFit' /\ run' \in [Schedule!Index -> Schedule!Run] /\ launcher' \in [Launchers -> Schedule!Launcher]
  BY <1>1, <1>3 DEF HooksFit
<1> QED BY <1>1, <1>2, <1>3, <1>4, <1>8, <1>9, <1>10, <1>11, <1>12, ScheduleProjects

(* The rows rewritten one by one.                                            *)
LEMMA ScheduleRewrites ==
    ASSUME Schedule!ScheduleAssumption, Schedule!TypeOK, NEW rows, DOMAIN rows = Schedule!Rows,
           rows = [i \in Schedule!Rows |-> rows[i]],
           \A i \in Schedule!Rows : rows[i] \in Schedule!Occurrence
    PROVE  rows \in Seq(Schedule!Occurrence) /\ Len(rows) = Len(occ)
<1> DEFINE R == Schedule!Occurrence
<1>1. Len(occ) \in Nat /\ Schedule!Rows = 1 .. Len(occ)
  BY ScheduleTypes
<1>2. \A i \in Schedule!Rows : rows[i] \in R
  OBVIOUS
<1> HIDE DEF R
<1>3. rows \in [1 .. Len(occ) -> R]
  BY <1>1, <1>2
<1>4. rows \in Seq(R) /\ Len(rows) = Len(occ)
  BY <1>1, <1>3
<1> QED BY <1>4 DEF R

LEMMA SchedulePause ==
    ASSUME Schedule!ScheduleAssumption, ScheduleInvariant, Schedule!Pause
    PROVE  ScheduleInvariant'
<1> DEFINE u == Schedule!Unleased(task)
           f(i) == IF occ[i].status = "queued" THEN Schedule!End(occ[i], "interrupted") ELSE occ[i]
           p == [u EXCEPT !.status = "paused"]
<1>1. /\ Schedule!TypeOK /\ task \in Schedule!Task /\ task.last <= Len(occ)
         /\ run \in [Schedule!Index -> Schedule!Run] /\ HooksFit
      /\ launcher \in [Launchers -> Schedule!Launcher]
         /\ \A i \in Schedule!Rows : occ[i] \in Schedule!Occurrence /\ RowFits(i)
  BY ScheduleFacts
<1>2. UNCHANGED <<schedule, run, launcher>> /\ task' = p /\ occ' = [i \in Schedule!Rows |-> f(i)]
  BY DEF Schedule!Pause
<1>3. p \in Schedule!Task /\ p.status = "paused" /\ p.next = task.next /\ p.last = task.last
  <2>1. u \in Schedule!Task /\ u.next = task.next /\ u.last = task.last
    BY <1>1, ScheduleSets
  <2> HIDE DEF u
  <2> QED BY <2>1, ScheduleSets
<1>4. ASSUME NEW i \in Schedule!Rows
      PROVE  /\ f(i) \in Schedule!Occurrence /\ f(i).trigger = occ[i].trigger
             /\ f(i) # occ[i] => ~f(i).linked /\ f(i).status = "interrupted"
  <2>1. occ[i] \in Schedule!Occurrence /\ (occ[i].status = "queued" => occ[i].linked = FALSE)
    BY <1>1 DEF RowFits, Schedule!Ended, Schedule!Occurrence
  <2>2. LET e == Schedule!End(occ[i], "interrupted")
        IN  e \in Schedule!Occurrence /\ e.status = "interrupted" /\ e.trigger = occ[i].trigger
        /\ e.linked = occ[i].linked
    BY <2>1, ScheduleEnd DEF Schedule!Ended
  <2> QED BY <2>1, <2>2
<1> HIDE DEF f, p, u
<1>5. occ' \in Seq(Schedule!Occurrence) /\ Len(occ') = Len(occ)
  <2>1. PICK rows : rows = [i \in Schedule!Rows |-> f(i)]
    OBVIOUS
  <2>2. rows \in Seq(Schedule!Occurrence) /\ Len(rows) = Len(occ)
    BY <1>1, <1>4, <2>1, ScheduleRewrites
  <2> QED BY <1>2, <2>1, <2>2
<1>6. \A i \in Schedule!Rows : occ'[i] = f(i)
  BY <1>2
<1>7. \A i \in Schedule!Rows : occ'[i].trigger = occ[i].trigger /\ (occ'[i] = occ[i] \/ RowFits(i)')
  BY <1>4, <1>6 DEF RowFits
<1>8. \A i \in Schedule!Rows : schedule.once /\ occ[i].trigger = "scheduled" /\ i = Len(occ) =>
          /\ task'.last = i => task'.next = Schedule!None
          /\ occ'[i].status \in Schedule!Ended /\ occ'[i].linked
               => task'.next = Schedule!None /\ task'.status # "running"
  BY <1>2, <1>3, <1>4, <1>6, ScheduleNewest
<1>9. HooksFit'
  BY <1>1, <1>2 DEF HooksFit
<1> QED BY <1>1, <1>2, <1>3, <1>5, <1>7, <1>8, <1>9, ScheduleKept

LEMMA ScheduleResume ==
    ASSUME Schedule!ScheduleAssumption, ScheduleInvariant, Schedule!Resume
    PROVE  ScheduleInvariant'
<1> DEFINE x == IF schedule.once THEN task.next ELSE "later"
<1>1. /\ task \in Schedule!Task /\ task.last <= Len(occ) /\ run \in [Schedule!Index -> Schedule!Run] /\ HooksFit
         /\ occ \in Seq(Schedule!Occurrence)
      /\ launcher \in [Launchers -> Schedule!Launcher]
  BY ScheduleFacts
<1>2. UNCHANGED <<schedule, occ, run, launcher>> /\ task' = [task EXCEPT !.status = "enabled", !.next = x]
  BY DEF Schedule!Resume
<1>3. x \in {Schedule!None, "later", "due"} /\ (schedule.once => x = task.next)
  BY <1>1 DEF Schedule!Task
<1> HIDE DEF x
<1>4. task' \in Schedule!Task /\ task'.status = "enabled" /\ task'.next = x /\ task'.last = task.last
  BY <1>1, <1>2, <1>3 DEF Schedule!Task
<1>5. \A i \in Schedule!Rows : schedule.once /\ occ[i].trigger = "scheduled" /\ i = Len(occ) =>
          /\ task'.last = i => task'.next = Schedule!None
          /\ occ'[i].status \in Schedule!Ended /\ occ'[i].linked
               => task'.next = Schedule!None /\ task'.status # "running"
  BY <1>2, <1>3, <1>4, ScheduleNewest
<1>6. HooksFit'
  BY <1>1, <1>2 DEF HooksFit
<1> QED BY <1>1, <1>2, <1>3, <1>4, <1>5, <1>6, ScheduleKept

(* What a restart makes of a row.                                            *)
LEMMA ScheduleSwept ==
    ASSUME Schedule!ScheduleAssumption, ScheduleInvariant, NEW i \in Schedule!Rows, NEW r, r = Schedule!Swept[i]
    PROVE  /\ r \in Schedule!Occurrence /\ r.trigger = occ[i].trigger
           /\ \/ r = occ[i] /\ ~Schedule!Stale(i)
              \/ Schedule!Stale(i) /\ ~r.linked /\ r.status = "queued"
              \/ /\ Schedule!Stale(i) /\ r.linked /\ r.status \in {"success", "failed", "interrupted"}
                 /\ run[i].state # Schedule!None
<1>1. occ[i] \in Schedule!Occurrence /\ RowFits(i)
  BY ScheduleFacts
<1>2. r = IF ~Schedule!Stale(i) THEN occ[i]
          ELSE IF occ[i].status = "launching"
          /\ run[i].state = Schedule!None THEN Schedule!End(occ[i], "queued")
          ELSE [Schedule!End(occ[i], Schedule!Outcome(run[i].state)) EXCEPT !.linked = TRUE, !.counted = TRUE]
  BY DEF Schedule!Swept
<1>3. CASE ~Schedule!Stale(i)
  BY <1>1, <1>2, <1>3
<1>4. CASE Schedule!Stale(i) /\ occ[i].status = "launching" /\ run[i].state = Schedule!None
  <2>1. occ[i].linked = FALSE
    BY <1>1, <1>4 DEF RowFits, Schedule!Ended, Schedule!Occurrence
  <2>2. r \in Schedule!Occurrence /\ r.status = "queued" /\ r.trigger = occ[i].trigger
        /\ r.linked = occ[i].linked
    BY <1>1, <1>2, <1>4, ScheduleEnd DEF Schedule!Active
  <2> QED BY <1>4, <2>1, <2>2
<1>5. CASE Schedule!Stale(i) /\ ~(occ[i].status = "launching" /\ run[i].state = Schedule!None)
  <2>1. run[i].state # Schedule!None
    BY <1>1, <1>5 DEF RowFits, Schedule!Stale, Schedule!Executing
  <2>2. PICK status \in {"success", "failed", "interrupted"} : status = Schedule!Outcome(run[i].state)
    BY DEF Schedule!Outcome
  <2>3. r = [Schedule!End(occ[i], status) EXCEPT !.linked = TRUE, !.counted = TRUE]
    BY <1>2, <1>5, <2>2
  <2>4. r \in Schedule!Occurrence /\ r.status = status /\ r.linked /\ r.trigger = occ[i].trigger
    BY <1>1, <2>3 DEF Schedule!End, Schedule!Occurrence, Schedule!Owners, Schedule!None, Schedule!Ended
  <2> QED BY <1>5, <2>1, <2>4
<1> QED BY <1>3, <1>4, <1>5

LEMMA ScheduleRestart ==
    ASSUME Schedule!ScheduleAssumption, ScheduleInvariant, Schedule!Restart
    PROVE  ScheduleInvariant'
<1> DEFINE n == Len(occ)
<1>1. /\ Schedule!TypeOK /\ task \in Schedule!Task /\ task.last <= n /\ run \in [Schedule!Index -> Schedule!Run]
         /\ HooksFit /\ n \in Nat
      /\ launcher \in [Launchers -> Schedule!Launcher] /\ Schedule!Rows = 1 .. n
      /\ \A i \in Schedule!Rows : occ[i] \in Schedule!Occurrence /\ RowFits(i)
  BY ScheduleFacts
<1>2. PICK rows : rows = Schedule!Swept
  OBVIOUS
<1>3. PICK swept : swept = IF n > 0 /\ Schedule!Stale(n) /\ rows[n].status \in Schedule!Ended
                           THEN Schedule!Projected(n, rows[n].status, TRUE, rows) ELSE task
  OBVIOUS
<1>4. /\ run' = [i \in Schedule!Index |-> [run[i] EXCEPT !.hook = FALSE,
                                                !.state = IF @ = "live" THEN "interrupted" ELSE @]]
      /\ occ' = rows /\ launcher' = [l \in Launchers |-> Schedule!Idle] /\ UNCHANGED schedule
  BY <1>2 DEF Schedule!Restart
<1>5. \/ task' = swept
      \/ \E status
             : task' = [swept EXCEPT !.status = IF n = 0 THEN "cancelled" ELSE Schedule!OnceStatus(status)]
  BY <1>2, <1>3 DEF Schedule!Restart
<1>6. ASSUME NEW i \in Schedule!Rows
      PROVE  /\ rows[i] \in Schedule!Occurrence /\ rows[i].trigger = occ[i].trigger
             /\ \/ rows[i] = occ[i] /\ ~Schedule!Stale(i)
                \/ Schedule!Stale(i) /\ ~rows[i].linked /\ rows[i].status = "queued"
                \/ /\ Schedule!Stale(i) /\ rows[i].linked
                   /\ rows[i].status \in {"success", "failed", "interrupted"}
                   /\ run[i].state # Schedule!None
  BY <1>2, ScheduleSwept
<1>7. occ' \in Seq(Schedule!Occurrence) /\ Len(occ') = Len(occ)
  <2>1. DOMAIN rows = Schedule!Rows /\ rows = [i \in Schedule!Rows |-> rows[i]]
    BY <1>2 DEF Schedule!Swept
  <2>2. rows \in Seq(Schedule!Occurrence) /\ Len(rows) = Len(occ)
    BY <1>1, <1>6, <2>1, ScheduleRewrites
  <2> QED BY <1>4, <2>2
<1>8. run' \in [Schedule!Index -> Schedule!Run] /\ HooksFit'
      /\ \A j \in Schedule!Index : run[j].state # Schedule!None => run'[j].state # Schedule!None
  <2> DEFINE f(i) == [run[i] EXCEPT !.hook = FALSE, !.state = IF @ = "live" THEN "interrupted" ELSE @]
  <2>1. ASSUME NEW i \in Schedule!Index
        PROVE f(i) \in Schedule!Run /\ ~f(i).hook
              /\ (run[i].state # Schedule!None => f(i).state # Schedule!None)
    <3>1. run[i] \in Schedule!Run
      BY <1>1
    <3> QED BY <3>1 DEF Schedule!Run, Schedule!None, Schedule!Over
  <2>2. run' = [i \in Schedule!Index |-> f(i)]
    BY <1>4
  <2> HIDE DEF f
  <2> QED BY <2>1, <2>2 DEF HooksFit
<1>9. /\ launcher' \in [Launchers -> Schedule!Launcher]
      /\ \A l \in Launchers : launcher'[l] = launcher[l] \/ LaunchFits(launcher[l])'
  <2>1. Schedule!Idle \in Schedule!Launcher /\ Schedule!Idle.pc = "idle"
    BY ScheduleIdles
  <2>2. \A l \in Launchers : launcher'[l].pc = "idle"
    BY <1>4, <2>1
  <2> QED BY <1>4, <2>1, <2>2, ScheduleIdle
<1>10. \A i \in Schedule!Rows : occ'[i].trigger = occ[i].trigger /\ (occ'[i] = occ[i] \/ RowFits(i)')
  <2> SUFFICES ASSUME NEW i \in Schedule!Rows
      PROVE occ'[i].trigger = occ[i].trigger /\ (occ'[i] = occ[i] \/ RowFits(i)')
    OBVIOUS
  <2>1. run[i].state # Schedule!None => run'[i].state # Schedule!None
    BY <1>8, ScheduleFacts
  <2> QED BY <1>4, <1>6, <2>1 DEF RowFits, Schedule!Ended
<1>11. \/ swept = task
       \/ n \in Schedule!Rows /\ ProjectFits(n, swept)
  <2>1. CASE n > 0 /\ Schedule!Stale(n) /\ rows[n].status \in Schedule!Ended
    <3>1. n \in Schedule!Rows
      BY <1>1, <2>1
    <3>2. PICK status \in {"success", "failed", "interrupted"} : status = rows[n].status
      BY <1>6, <2>1, <3>1 DEF Schedule!Ended, Schedule!Stale
    <3>3. swept = Schedule!Projected(n, status, TRUE, rows)
      BY <1>3, <2>1, <3>2
    <3> QED BY <3>1, <3>3, ScheduleProjected
  <2>2. CASE ~(n > 0 /\ Schedule!Stale(n) /\ rows[n].status \in Schedule!Ended)
    BY <1>3, <2>2
  <2> QED BY <2>1, <2>2
<1>12. /\ swept \in Schedule!Task /\ swept.last <= n
          /\ (schedule.once => (swept.next = "later" <=> task.next = "later"))
  BY <1>1, <1>11 DEF ProjectFits
<1>13. \A i \in Schedule!Rows : schedule.once /\ occ[i].trigger = "scheduled" /\ i = Len(occ) =>
          /\ swept.last = i => swept.next = Schedule!None
          /\ rows[i].status \in Schedule!Ended /\ rows[i].linked
               => swept.next = Schedule!None /\ swept.status # "running"
  <2> SUFFICES ASSUME NEW i \in Schedule!Rows, schedule.once, occ[i].trigger = "scheduled", i = n
               PROVE  /\ swept.last = i => swept.next = Schedule!None
                      /\ rows[i].status \in Schedule!Ended /\ rows[i].linked
                           => swept.next = Schedule!None /\ swept.status # "running"
    OBVIOUS
  <2>1. CASE ProjectFits(n, swept)
    BY <2>1 DEF ProjectFits
  <2>2. CASE swept = task /\ ~(Schedule!Stale(n) /\ rows[n].status \in Schedule!Ended)
    BY <1>6, <2>2, ScheduleNewest DEF Schedule!Ended
  <2>3. CASE swept = task /\ Schedule!Stale(n) /\ rows[n].status \in Schedule!Ended
    <3>1. n > 0 /\ n \in Schedule!Rows
      BY <1>1
    <3>2. PICK status \in {"success", "failed", "interrupted"} : status = rows[n].status
      BY <1>6, <2>3, <3>1 DEF Schedule!Ended
    <3>3. swept = Schedule!Projected(n, status, TRUE, rows)
      BY <1>3, <2>3, <3>1, <3>2
    <3>4. ProjectFits(n, swept)
      BY <3>1, <3>3, ScheduleProjected
    <3> QED BY <3>4 DEF ProjectFits
  <2> QED BY <1>11, <2>1, <2>2, <2>3
<1>14. /\ task' \in Schedule!Task /\ task'.last = swept.last /\ task'.next = swept.next
       /\ task'.status = "running" => swept.status = "running"
  <2>1. CASE task' = swept
    BY <1>12, <2>1
  <2>2. CASE \E status
                 : task' = [swept EXCEPT !.status = IF n = 0 THEN "cancelled" ELSE Schedule!OnceStatus(status)]
    <3>1. PICK status
                   : task' = [swept EXCEPT !.status = IF n = 0 THEN "cancelled" ELSE Schedule!OnceStatus(status)]
      BY <2>2
    <3>2. PICK st \in Schedule!Finished : task' = [swept EXCEPT !.status = st]
      BY <3>1 DEF Schedule!OnceStatus, Schedule!Finished
    <3>3. st # "running"
      BY DEF Schedule!Finished
    <3> QED BY <1>12, <3>2, <3>3, ScheduleSets
  <2> QED BY <1>5, <2>1, <2>2
<1>15. \A i \in Schedule!Rows : schedule.once /\ occ[i].trigger = "scheduled" /\ i = Len(occ) =>
          /\ task'.last = i => task'.next = Schedule!None
          /\ occ'[i].status \in Schedule!Ended /\ occ'[i].linked
               => task'.next = Schedule!None /\ task'.status # "running"
  BY <1>4, <1>13, <1>14
<1> QED BY <1>4, <1>7, <1>8, <1>9, <1>10, <1>12, <1>14, <1>15, ScheduleKept

(* Time.                                                                     *)
LEMMA ScheduleRunTime ==
    ASSUME Schedule!ScheduleAssumption, ScheduleInvariant, Schedule!RunTime
    PROVE  ScheduleInvariant'
<1>1. /\ Schedule!TypeOK /\ task \in Schedule!Task /\ task.last <= Len(occ)
         /\ run \in [Schedule!Index -> Schedule!Run] /\ HooksFit
      /\ launcher \in [Launchers -> Schedule!Launcher]
      /\ \A i \in Schedule!Rows : RowFits(i)
      /\ \A l \in Launchers : launcher[l] \in Schedule!Launcher /\ LaunchFits(launcher[l])
  BY ScheduleFacts
<1>2. task.next = "later" /\ task' = [task EXCEPT !.next = "due"] /\ UNCHANGED <<schedule, occ, run>>
  BY DEF Schedule!RunTime
<1>3. \A i \in Schedule!Rows : ~(schedule.once /\ occ[i].trigger = "scheduled")
  BY <1>2, ScheduleFacts
<1>4. task' \in Schedule!Task /\ task'.next = "due" /\ task'.last = task.last
  BY <1>1, <1>2 DEF Schedule!Task
<1>5. Schedule!Rows' = Schedule!Rows
  BY <1>2 DEF Schedule!Rows
<1> DEFINE f(l) == [launcher[l] EXCEPT !.next = IF schedule.once /\ @ = "later" THEN "due" ELSE @]
<1>6. ASSUME NEW l \in Launchers
      PROVE  /\ f(l) \in Schedule!Launcher /\ f(l).pc = launcher[l].pc /\ f(l).occ = launcher[l].occ
             /\ schedule.once => f(l).next # "later"
  <2>1. launcher[l] \in Schedule!Launcher
    BY <1>1
  <2> QED BY <2>1 DEF Schedule!Launcher
<1>7. launcher' = [l \in Launchers |-> f(l)]
  BY DEF Schedule!RunTime
<1> HIDE DEF f
<1>8. Schedule!TypeOK'
  BY <1>1, <1>2, <1>4, <1>6, <1>7 DEF Schedule!TypeOK
<1>9. ParentFits'
  BY <1>1, <1>2, <1>3, <1>4, <1>5 DEF ParentFits
<1>10. HooksFit' /\ \A i \in Schedule!Rows' : RowFits(i)'
  BY <1>1, <1>2, <1>5 DEF HooksFit, RowFits
<1>11. ASSUME NEW l \in Launchers PROVE LaunchFits(launcher[l])'
  <2>1. LaunchFits(launcher[l]) /\ launcher'[l] = f(l)
    BY <1>1, <1>7
  <2> QED BY <1>2, <1>3, <1>4, <1>5, <1>6, <2>1 DEF LaunchFits, Launching
<1> QED BY <1>8, <1>9, <1>10, <1>11 DEF ScheduleInvariant

LEMMA ScheduleLeaseExpires ==
    ASSUME Schedule!ScheduleAssumption, ScheduleInvariant, Schedule!LeaseExpires
    PROVE  ScheduleInvariant'
<1>1. /\ Schedule!TypeOK /\ task \in Schedule!Task /\ task.last <= Len(occ)
         /\ run \in [Schedule!Index -> Schedule!Run] /\ HooksFit
      /\ launcher \in [Launchers -> Schedule!Launcher] /\ occ \in Seq(Schedule!Occurrence)
  BY ScheduleFacts
<1>2. UNCHANGED <<schedule, run, launcher>>
  BY DEF Schedule!LeaseExpires
<1>3. CASE task' = [task EXCEPT !.fresh = FALSE] /\ UNCHANGED occ
  <2>1. task' \in Schedule!Task /\ task'.status = task.status /\ task'.next = task.next
        /\ task'.last = task.last
    BY <1>1, <1>3 DEF Schedule!Task
  <2>2. \A i \in Schedule!Rows : schedule.once /\ occ[i].trigger = "scheduled" /\ i = Len(occ) =>
            /\ task'.last = i => task'.next = Schedule!None
            /\ occ'[i].status \in Schedule!Ended /\ occ'[i].linked
                 => task'.next = Schedule!None /\ task'.status # "running"
    BY <1>3, <2>1, ScheduleNewest
  <2>3. HooksFit'
    BY <1>1, <1>2 DEF HooksFit
  <2> QED BY <1>1, <1>2, <1>3, <2>1, <2>2, <2>3, ScheduleKept
<1>4. CASE \E i \in Schedule!Rows : occ' = [occ EXCEPT ![i].fresh = FALSE] /\ UNCHANGED task
  <2>1. PICK i \in Schedule!Rows : occ' = [occ EXCEPT ![i].fresh = FALSE] /\ UNCHANGED task
    BY <1>4
  <2> DEFINE r == [occ[i] EXCEPT !.fresh = FALSE]
  <2>2. occ[i] \in Schedule!Occurrence /\ RowFits(i)
    BY ScheduleFacts
  <2>3. r \in Schedule!Occurrence /\ r.status = occ[i].status /\ r.trigger = occ[i].trigger
        /\ r.linked = occ[i].linked
    BY <2>2 DEF Schedule!Occurrence
  <2>4. occ' = [occ EXCEPT ![i] = r]
    BY <2>1, <2>2
  <2> HIDE DEF r
  <2>5. occ'[i] = r
    BY <1>1, <2>3, <2>4, ScheduleRow
  <2>6. RowFits(i)'
    BY <1>2, <2>2, <2>3, <2>5 DEF RowFits
  <2> QED BY <1>1, <1>2, <2>1, <2>3, <2>4, <2>6, ScheduleWritten
<1> QED BY <1>3, <1>4 DEF Schedule!LeaseExpires

LEMMA ScheduleInits ==
    ASSUME Schedule!ScheduleAssumption, Schedule!Init
    PROVE  ScheduleInvariant
<1>1. Schedule!Idle \in Schedule!Launcher /\ Schedule!Idle.pc = "idle"
  BY ScheduleIdles
<1>2. schedule \in TaskSetups /\ occ = <<>>
      /\ run = [i \in Schedule!Index |-> [state |-> Schedule!None, host |-> Schedule!None, hook |-> FALSE]]
  BY DEF Schedule!Init
<1>3. task \in Schedule!Task /\ task.last = 0
  <2>1. task \in [status : {"enabled"}, next : {"later", "due"}, lease : {Schedule!None}, fresh : {FALSE}, last
            : {0}]
    BY DEF Schedule!Init
  <2>2. PICK n \in {"later", "due"} :
            task = [status |-> "enabled", next |-> n, lease |-> Schedule!None, fresh |-> FALSE, last |-> 0]
    BY <2>1
  <2>3. 0 \in 0 .. MaxOccurrences
    BY DEF Schedule!ScheduleAssumption
  <2> QED BY <2>2, <2>3 DEF Schedule!Task, Schedule!Owners
<1>4. launcher = [l \in Launchers |-> Schedule!Idle]
  BY DEF Schedule!Init
<1>5. run \in [Schedule!Index -> Schedule!Run] /\ HooksFit
  BY <1>2 DEF Schedule!Run, Schedule!Owners, HooksFit
<1>6. occ \in Seq(Schedule!Occurrence) /\ Len(occ) = 0 /\ Schedule!Rows = {}
  <2> DEFINE R == Schedule!Occurrence
  <2> HIDE DEF R
  <2>1. occ \in Seq(R) /\ Len(occ) = 0 /\ Schedule!Rows = {}
    BY <1>2 DEF Schedule!Rows
  <2> QED BY <2>1 DEF R
<1>7. Schedule!TypeOK
  <2>1. Len(occ) <= MaxOccurrences
    BY <1>6 DEF Schedule!ScheduleAssumption
  <2>2. launcher \in [Launchers -> Schedule!Launcher]
    BY <1>1, <1>4
  <2> QED BY <1>2, <1>3, <1>5, <1>6, <2>1, <2>2 DEF Schedule!TypeOK
<1>8. ParentFits
  BY <1>3, <1>6 DEF ParentFits
<1>9. \A l \in Launchers : LaunchFits(launcher[l])
  BY <1>1, <1>4 DEF LaunchFits, Launching
<1> QED BY <1>5, <1>6, <1>7, <1>8, <1>9 DEF ScheduleInvariant

LEMMA ScheduleStep ==
    ASSUME Schedule!ScheduleAssumption, ScheduleInvariant, [Schedule!Next]_(Schedule!vars)
    PROVE  ScheduleInvariant'
<1>1. CASE UNCHANGED Schedule!vars
  <2>1. UNCHANGED <<schedule, task, occ, run, launcher>>
    BY <1>1 DEF Schedule!vars
  <2>2. run \in [Schedule!Index -> Schedule!Run] /\ HooksFit /\ launcher \in [Launchers -> Schedule!Launcher]
    BY ScheduleFacts
  <2>3. HooksFit'
    BY <2>1, <2>2 DEF HooksFit
  <2> QED BY <2>1, <2>2, <2>3, ScheduleRuns
<1>2. ASSUME NEW l \in Launchers,
             \/ Schedule!ClaimDue(l) \/ Schedule!Dispatch(l) \/ Schedule!Trigger(l) \/ Schedule!DrainScan(l)
                  \/ Schedule!Drain(l) \/ Schedule!Claim(l)
             \/ Schedule!Start(l) \/ Schedule!Requeue(l) \/ Schedule!FailLaunch(l)
      PROVE  ScheduleInvariant'
  <2>1. CASE Schedule!DrainScan(l)
    BY <2>1, ScheduleScans DEF Schedule!DrainScan
  <2> QED BY <1>2, <2>1, ScheduleClaimDue, ScheduleDispatch, ScheduleTrigger, ScheduleDrain, ScheduleClaim,
             ScheduleStart, ScheduleRequeue, ScheduleFailLaunch
<1>3. ASSUME NEW l \in Launchers,
             \/ Schedule!Record(l) \/ Schedule!Settle(l) \/ Schedule!BookkeepingFails(l)
                  \/ Schedule!RecoverScan(l) \/ Schedule!Recover(l)
             \/ Schedule!ReconcileStuckOnce(l) \/ Schedule!Crash(l)
      PROVE  ScheduleInvariant'
  <2>1. CASE Schedule!RecoverScan(l)
    BY <2>1, ScheduleScans DEF Schedule!RecoverScan
  <2> QED BY <1>3, <2>1, ScheduleRecord, ScheduleSettle, ScheduleBookkeepingFails, ScheduleRecover,
             ScheduleReconcileStuckOnce, ScheduleCrash
<1>4. ASSUME NEW l \in Launchers, NEW i \in Schedule!Rows, Schedule!ReconcileTerminal(l, i)
               \/ Schedule!ReconcileActive(l, i)
      PROVE  ScheduleInvariant'
  BY <1>4, ScheduleReconcileTerminal, ScheduleReconcileActive
<1>5. ASSUME NEW i \in Schedule!Rows,
             \/ Schedule!RequestStop(i) \/ Schedule!Complete(i) \/ Schedule!HookLost(i) \/ Schedule!Expire(i)
             \/ \E state \in Schedule!Over : Schedule!RunEnds(i, state)
      PROVE  ScheduleInvariant'
  BY <1>5, ScheduleRequestStop, ScheduleComplete, ScheduleHookLost, ScheduleExpire, ScheduleRunEnds
<1>6. CASE Schedule!Pause \/ Schedule!Resume \/ Schedule!Restart \/ Schedule!RunTime \/ Schedule!LeaseExpires
  BY <1>6, SchedulePause, ScheduleResume, ScheduleRestart, ScheduleRunTime, ScheduleLeaseExpires
<1> QED BY <1>1, <1>2, <1>3, <1>4, <1>5, <1>6 DEF Schedule!Next

(* The invariant, and the types in it, for every deployment and any number   *)
(* of launchers and occurrences.                                             *)
THEOREM ScheduleIsInvariant == Schedule!ScheduleAssumption => (Schedule!Spec => []ScheduleInvariant)
<1> SUFFICES ASSUME Schedule!ScheduleAssumption PROVE Schedule!Spec => []ScheduleInvariant
  OBVIOUS
<1>1. Schedule!Init => ScheduleInvariant
  BY ScheduleInits
<1>2. ScheduleInvariant /\ [Schedule!Next]_(Schedule!vars) => ScheduleInvariant'
  BY ScheduleStep
<1> QED BY <1>1, <1>2, PTL DEF Schedule!Spec

(* A once task whose newest occurrence is over with its run has no run time  *)
(* left and is not running: both the hook and the bookkeeping of the launch, *)
(* in any order, leave it so.                                                *)
THEOREM ScheduleOnceStays == Schedule!ScheduleAssumption => (Schedule!Spec => []Schedule!CompletedOnceStays)
<1> SUFFICES ASSUME Schedule!ScheduleAssumption PROVE Schedule!Spec => []Schedule!CompletedOnceStays
  OBVIOUS
<1>1. ASSUME ScheduleInvariant PROVE Schedule!CompletedOnceStays
  <2> SUFFICES ASSUME schedule.once, occ # <<>>, occ[Len(occ)].trigger = "scheduled",
                      occ[Len(occ)].status \in Schedule!Ended, occ[Len(occ)].linked
               PROVE  task.status # "running"
    BY DEF Schedule!CompletedOnceStays
  <2>1. Len(occ) # 0
    <3> DEFINE R == Schedule!Occurrence
    <3>1. occ \in Seq(R)
      BY <1>1, ScheduleFacts
    <3> HIDE DEF R
    <3> QED BY <3>1
  <2>2. Len(occ) \in Schedule!Rows
    BY <1>1, <2>1, ScheduleFacts
  <2> QED BY <1>1, <2>2, ScheduleNewest
<1>2. Schedule!Spec => []ScheduleInvariant
  BY ScheduleIsInvariant
<1> QED BY <1>1, <1>2, PTL

Reopens(i) ==
    occ[i].status \in Schedule!Ended /\ occ'[i].status \in Schedule!Active
      => ~occ[i].linked /\ run[i].state # Schedule!None

(* A step that writes one row.                                               *)
LEMMA ScheduleReopens ==
    ASSUME Schedule!ScheduleAssumption, ScheduleInvariant, NEW i \in Schedule!Rows, NEW r,
           occ' = [occ EXCEPT ![i] = r],
           \/ occ[i].status \notin Schedule!Ended \/ r.status \notin Schedule!Active
           \/ ~occ[i].linked /\ run[i].state # Schedule!None
    PROVE  \A j \in Schedule!Rows : Reopens(j)
<1>1. Schedule!Rows = DOMAIN occ
  BY DEF Schedule!Rows
<1>2. \A j \in Schedule!Rows : occ'[j] = IF j = i THEN r ELSE occ[j]
  BY <1>1
<1>3. \A o \in Schedule!Occurrence : o.status \in Schedule!Ended => o.status \notin Schedule!Active
  BY DEF Schedule!Ended, Schedule!Active, Schedule!Executing
<1>4. \A j \in Schedule!Rows : occ[j] \in Schedule!Occurrence
  BY ScheduleFacts
<1> QED BY <1>2, <1>3, <1>4 DEF Reopens

LEMMA ScheduleRowsKept ==
    ASSUME Schedule!ScheduleAssumption, ScheduleInvariant,
           \A i \in Schedule!Rows : occ'[i].status = occ[i].status
    PROVE  \A j \in Schedule!Rows : Reopens(j)
<1>1. \A j \in Schedule!Rows : occ[j].status \in Schedule!Ended => occ'[j].status \notin Schedule!Active
  BY DEF Schedule!Ended, Schedule!Active, Schedule!Executing
<1> QED BY <1>1 DEF Reopens

(* The occurrence that a launch adds leaves the others alone.                *)
LEMMA ScheduleAppended ==
    ASSUME Schedule!ScheduleAssumption, ScheduleInvariant, NEW trigger \in {"scheduled", "manual"},
           occ' = Append(occ, Schedule!New(trigger))
    PROVE  \A j \in Schedule!Rows : Reopens(j)
<1> DEFINE R == Schedule!Occurrence
<1>1. occ \in Seq(R) /\ Schedule!Rows = 1 .. Len(occ) /\ Len(occ) \in Nat
  BY ScheduleFacts
<1>2. Schedule!New(trigger) \in R
  BY DEF Schedule!New, Schedule!Occurrence, Schedule!Owners, Schedule!Active, Schedule!None
<1> HIDE DEF R
<1>3. \A i \in Schedule!Rows : occ'[i] = occ[i]
  BY <1>1, <1>2
<1> QED BY <1>3, ScheduleRowsKept

LEMMA ScheduleEndsOnly ==
    ASSUME Schedule!ScheduleAssumption, ScheduleInvariant, NEW i \in Schedule!Rows, NEW status,
           Schedule!FinalizeOccurrence(i, status, TRUE)
    PROVE  \A j \in Schedule!Rows : Reopens(j)
<1> DEFINE r == [Schedule!End(occ[i], status) EXCEPT !.linked = @ \/ TRUE, !.counted = @ \/ TRUE]
<1>1. occ' = [occ EXCEPT ![i] = r] /\ occ[i].status \notin Schedule!Ended
  BY DEF Schedule!FinalizeOccurrence
<1> HIDE DEF r
<1> QED BY <1>1, ScheduleReopens

LEMMA ScheduleClaimed ==
    ASSUME Schedule!ScheduleAssumption, ScheduleInvariant, NEW i \in Schedule!Rows,
           occ[i].status \notin Schedule!Ended,
           \/ Schedule!RecoverClaim(i) \/ Schedule!Associate(i)
    PROVE  \A j \in Schedule!Rows : Reopens(j)
<1> DEFINE q == Schedule!End(occ[i], "queued")
           r == [Schedule!End(occ[i], "running") EXCEPT !.linked = TRUE, !.counted = TRUE]
<1>1. CASE occ' = [occ EXCEPT ![i] = Schedule!End(@, "queued")]
  <2>1. occ' = [occ EXCEPT ![i] = q]
    BY <1>1
  <2> HIDE DEF q
  <2> QED BY <2>1, ScheduleReopens
<1>2. CASE Schedule!Associate(i)
  <2>1. occ' = [occ EXCEPT ![i] = r]
    BY <1>2 DEF Schedule!Associate
  <2> HIDE DEF r
  <2> QED BY <2>1, ScheduleReopens
<1>3. CASE Schedule!FinalizeOccurrence(i, Schedule!Outcome(run[i].state), TRUE)
  BY <1>3, ScheduleEndsOnly
<1> QED BY <1>1, <1>2, <1>3 DEF Schedule!RecoverClaim

(* What a launcher does to the rows.                                         *)
LEMMA ScheduleLaunchReopens ==
    ASSUME Schedule!ScheduleAssumption, ScheduleInvariant, NEW l \in Launchers,
           \/ Schedule!ClaimDue(l) \/ Schedule!Dispatch(l) \/ Schedule!Trigger(l) \/ Schedule!DrainScan(l)
                \/ Schedule!Drain(l) \/ Schedule!Claim(l)
           \/ Schedule!Start(l) \/ Schedule!Requeue(l) \/ Schedule!FailLaunch(l) \/ Schedule!Record(l)
                \/ Schedule!Settle(l) \/ Schedule!BookkeepingFails(l)
           \/ Schedule!RecoverScan(l) \/ Schedule!Recover(l) \/ Schedule!ReconcileStuckOnce(l)
                \/ Schedule!Crash(l)
    PROVE  \A j \in Schedule!Rows : Reopens(j)
<1> DEFINE i == launcher[l].occ
<1>1. CASE UNCHANGED occ
  BY <1>1, ScheduleRowsKept
<1>2. CASE Schedule!Dispatch(l) \/ Schedule!Trigger(l)
  <2>1. UNCHANGED occ \/ occ' = Append(occ, Schedule!New("scheduled"))
          \/ occ' = Append(occ, Schedule!New("manual"))
    BY <1>2 DEF Schedule!Dispatch, Schedule!Trigger
  <2> QED BY <1>1, <2>1, ScheduleAppended
<1>3. CASE Schedule!ClaimDue(l) \/ Schedule!DrainScan(l) \/ Schedule!Start(l) \/ Schedule!BookkeepingFails(l)
             \/ Schedule!RecoverScan(l)
           \/ Schedule!ReconcileStuckOnce(l) \/ Schedule!Crash(l)
  BY <1>1, <1>3 DEF Schedule!ClaimDue, Schedule!DrainScan, Schedule!Start, Schedule!BookkeepingFails,
                    Schedule!RecoverScan, Schedule!ReconcileStuckOnce, Schedule!Crash
<1>4. CASE \/ Schedule!Drain(l) \/ Schedule!Claim(l) \/ Schedule!Requeue(l) \/ Schedule!FailLaunch(l)
                \/ Schedule!Record(l) \/ Schedule!Settle(l) \/ Schedule!Recover(l)
  <2>1. launcher[l].pc \notin {"idle", "dispatch"}
    BY <1>4 DEF Schedule!Drain, Schedule!Claim, Schedule!Requeue, Schedule!FailLaunch, Schedule!Record,
                Schedule!Settle, Schedule!Recover
  <2>2. PICK k \in Schedule!Rows : k = i
    BY <2>1, ScheduleAt
  <2>3. occ[k] \in Schedule!Occurrence /\ RowFits(k) /\ Schedule!TypeOK
    BY <2>1, <2>2, ScheduleAt
  <2>4. CASE Schedule!Drain(l)
    <3> DEFINE r == [Schedule!End(occ[k], "interrupted") EXCEPT !.linked = FALSE]
    <3>1. UNCHANGED occ \/ occ' = [occ EXCEPT ![k] = r]
      BY <2>2, <2>4 DEF Schedule!Drain
    <3>2. r.status \notin Schedule!Active
      BY <2>3 DEF Schedule!End, Schedule!Occurrence, Schedule!Active, Schedule!Executing
    <3> HIDE DEF r
    <3> QED BY <1>1, <3>1, <3>2, ScheduleReopens
  <2>5. CASE Schedule!Claim(l)
    <3> DEFINE q == Schedule!End(occ[k], "skipped")
               r == [occ[k] EXCEPT !.status = "launching", !.lease = Schedule!Owner(l), !.fresh = TRUE]
    <3>1. \/ UNCHANGED occ
          \/ occ[k].status = "queued" /\ (occ' = [occ EXCEPT ![k] = q] \/ occ' = [occ EXCEPT ![k] = r])
      BY <2>2, <2>3, <2>5 DEF Schedule!Claim
    <3>2. occ[k].status = "queued" => occ[k].status \notin Schedule!Ended
      BY DEF Schedule!Ended
    <3> HIDE DEF q, r
    <3> QED BY <1>1, <3>1, <3>2, ScheduleReopens
  <2>6. CASE Schedule!Requeue(l) \/ Schedule!FailLaunch(l)
    <3> DEFINE q == Schedule!End(occ[k], "queued")
               r == Schedule!End(occ[k], "failed")
    <3>1. \/ UNCHANGED occ
          \/ occ[k].status = "launching" /\ (occ' = [occ EXCEPT ![k] = q] \/ occ' = [occ EXCEPT ![k] = r])
      BY <2>2, <2>6 DEF Schedule!Requeue, Schedule!FailLaunch, Schedule!Mine
    <3>2. occ[k].status = "launching" => occ[k].status \notin Schedule!Ended
      BY DEF Schedule!Ended
    <3> HIDE DEF q, r
    <3> QED BY <1>1, <3>1, <3>2, ScheduleReopens
  <2>7. CASE Schedule!Record(l)
    <3> DEFINE r == [Schedule!End(occ[k], "running") EXCEPT !.linked = TRUE]
    <3>1. UNCHANGED occ
            \/ ((occ[k].status \in Schedule!Ended => ~occ[k].linked) /\ occ' = [occ EXCEPT ![k] = r])
      BY <2>2, <2>7 DEF Schedule!Record, Schedule!Recorded, Schedule!Restored
    <3>2. launcher[l].pc = "record"
      BY <2>7 DEF Schedule!Record
    <3>3. run[k].state # Schedule!None
      BY <2>1, <2>2, <3>2, ScheduleAt DEF LaunchFits
    <3> HIDE DEF r
    <3> QED BY <1>1, <3>1, <3>3, ScheduleReopens
  <2>8. CASE Schedule!Settle(l)
    <3>1. occ' = [occ EXCEPT ![k].counted = TRUE]
      BY <2>2, <2>8 DEF Schedule!Settle, Schedule!Settled
    <3>2. \A j \in Schedule!Rows : occ[j] \in Schedule!Occurrence /\ Schedule!Rows = DOMAIN occ
      BY ScheduleFacts DEF Schedule!Rows
    <3>3. \A j \in Schedule!Rows : occ'[j].status = occ[j].status
      BY <3>1, <3>2 DEF Schedule!Occurrence
    <3> QED BY <3>3, ScheduleRowsKept
  <2>9. CASE Schedule!Recover(l)
    <3>1. UNCHANGED occ \/ (occ[k].status = "launching" /\ Schedule!RecoverClaim(k))
      BY <2>2, <2>9 DEF Schedule!Recover
    <3>2. occ[k].status = "launching" => occ[k].status \notin Schedule!Ended
      BY DEF Schedule!Ended
    <3> QED BY <1>1, <3>1, <3>2, ScheduleClaimed
  <2> QED BY <1>4, <2>4, <2>5, <2>6, <2>7, <2>8, <2>9
<1> QED BY <1>2, <1>3, <1>4

(* The reconciling passes.                                                   *)
LEMMA ScheduleReconcileReopens ==
    ASSUME Schedule!ScheduleAssumption, ScheduleInvariant, NEW l \in Launchers, NEW i \in Schedule!Rows,
           Schedule!ReconcileTerminal(l, i) \/ Schedule!ReconcileActive(l, i)
    PROVE  \A j \in Schedule!Rows : Reopens(j)
<1>1. CASE Schedule!ReconcileTerminal(l, i)
  BY <1>1, ScheduleEndsOnly DEF Schedule!ReconcileTerminal
<1>2. CASE Schedule!ReconcileActive(l, i)
  <2>1. occ[i].status \notin Schedule!Ended
    BY <1>2 DEF Schedule!ReconcileActive, Schedule!Executing, Schedule!Ended
  <2>2. Schedule!RecoverClaim(i) \/ Schedule!Associate(i)
          \/ Schedule!FinalizeOccurrence(i, Schedule!Outcome(run[i].state), TRUE)
    BY <1>2 DEF Schedule!ReconcileActive, Schedule!RecoverClaim
  <2> QED BY <2>1, <2>2, ScheduleClaimed, ScheduleEndsOnly
<1> QED BY <1>1, <1>2

(* The other steps.                                                          *)
LEMMA ScheduleOtherReopens ==
    ASSUME Schedule!ScheduleAssumption, ScheduleInvariant,
           \/ \E i \in Schedule!Rows :
                 \/ Schedule!RequestStop(i) \/ Schedule!Complete(i) \/ Schedule!HookLost(i)
                      \/ Schedule!Expire(i)
                 \/ \E state \in Schedule!Over : Schedule!RunEnds(i, state)
           \/ Schedule!Pause \/ Schedule!Resume \/ Schedule!Restart \/ Schedule!RunTime \/ Schedule!LeaseExpires
    PROVE  \A j \in Schedule!Rows : Reopens(j)
<1>1. CASE UNCHANGED occ
  BY <1>1, ScheduleRowsKept
<1>2. CASE \E i \in Schedule!Rows : Schedule!HookLost(i)
             \/ \E state \in Schedule!Over : Schedule!RunEnds(i, state)
  BY <1>1, <1>2 DEF Schedule!HookLost, Schedule!RunEnds
<1>3. CASE \E i \in Schedule!Rows : Schedule!RequestStop(i)
  <2>1. PICK i \in Schedule!Rows : occ' = [occ EXCEPT ![i].stop = TRUE]
    BY <1>3 DEF Schedule!RequestStop
  <2>2. \A j \in Schedule!Rows : occ[j] \in Schedule!Occurrence /\ Schedule!Rows = DOMAIN occ
    BY ScheduleFacts DEF Schedule!Rows
  <2>3. \A j \in Schedule!Rows : occ'[j].status = occ[j].status
    BY <2>1, <2>2 DEF Schedule!Occurrence
  <2> QED BY <2>3, ScheduleRowsKept
<1>4. CASE \E i \in Schedule!Rows : Schedule!Complete(i)
  BY <1>1, <1>4, ScheduleEndsOnly DEF Schedule!Complete
<1>5. CASE \E i \in Schedule!Rows : Schedule!Expire(i)
  <2>1. PICK i \in Schedule!Rows : Schedule!Expire(i)
    BY <1>5
  <2> DEFINE r == Schedule!End(occ[i], "failed")
  <2>2. occ' = [occ EXCEPT ![i] = r] /\ occ[i].status \notin Schedule!Ended
    BY <2>1 DEF Schedule!Expire, Schedule!Ended
  <2> HIDE DEF r
  <2> QED BY <2>2, ScheduleReopens
<1>6. CASE Schedule!Pause
  <2>1. occ' = [i \in Schedule!Rows |-> IF occ[i].status = "queued" THEN Schedule!End(occ[i], "interrupted") ELSE occ[i]]
    BY <1>6 DEF Schedule!Pause
  <2>2. \A j \in Schedule!Rows : occ[j].status \in Schedule!Ended => occ'[j] = occ[j]
    BY <2>1 DEF Schedule!Ended
  <2>3. \A j \in Schedule!Rows : occ[j].status \in Schedule!Ended => occ[j].status \notin Schedule!Active
    BY DEF Schedule!Ended, Schedule!Active, Schedule!Executing
  <2> QED BY <2>2, <2>3 DEF Reopens
<1>7. CASE Schedule!Resume \/ Schedule!RunTime
  BY <1>1, <1>7 DEF Schedule!Resume, Schedule!RunTime
<1>8. CASE Schedule!Restart
  <2>1. \A j \in Schedule!Rows : ~Schedule!Stale(j) => occ'[j] = occ[j]
    BY <1>8 DEF Schedule!Restart, Schedule!Swept
  <2>2. \A j \in Schedule!Rows : occ[j].status \in Schedule!Ended
          => ~Schedule!Stale(j) /\ occ[j].status \notin Schedule!Active
    BY DEF Schedule!Ended, Schedule!Active, Schedule!Executing, Schedule!Stale
  <2> QED BY <2>1, <2>2 DEF Reopens
<1>9. CASE Schedule!LeaseExpires
  <2>1. CASE \E i \in Schedule!Rows : occ' = [occ EXCEPT ![i].fresh = FALSE]
    <3>1. PICK i \in Schedule!Rows : occ' = [occ EXCEPT ![i].fresh = FALSE]
      BY <2>1
    <3>2. \A j \in Schedule!Rows : occ[j] \in Schedule!Occurrence /\ Schedule!Rows = DOMAIN occ
      BY ScheduleFacts DEF Schedule!Rows
    <3>3. \A j \in Schedule!Rows : occ'[j].status = occ[j].status
      BY <3>1, <3>2 DEF Schedule!Occurrence
    <3> QED BY <3>3, ScheduleRowsKept
  <2> QED BY <1>1, <1>9, <2>1 DEF Schedule!LeaseExpires
<1> QED BY <1>2, <1>3, <1>4, <1>5, <1>6, <1>7, <1>8, <1>9

(* Of all the writers only the launch that has its run opens a row again,    *)
(* and only one that was given up before it was linked.                      *)
THEOREM ScheduleReopened == Schedule!ScheduleAssumption => (Schedule!Spec => Schedule!ReopenedForItsRun)
<1> SUFFICES ASSUME Schedule!ScheduleAssumption PROVE Schedule!Spec => Schedule!ReopenedForItsRun
  OBVIOUS
<1>1. ASSUME ScheduleInvariant, [Schedule!Next]_(Schedule!vars)
      PROVE [\A i \in Schedule!Rows : Reopens(i)]_(Schedule!vars)
  <2>1. CASE Schedule!Next
    BY <1>1, <2>1, ScheduleLaunchReopens, ScheduleReconcileReopens, ScheduleOtherReopens DEF Schedule!Next
  <2> QED BY <1>1, <2>1
<1>2. [\A i \in Schedule!Rows : Reopens(i)]_(Schedule!vars) =>
          [\A i \in Schedule!Rows : occ[i].status \in Schedule!Ended /\ occ'[i].status \in Schedule!Active =>
               ~occ[i].linked /\ run[i].state # Schedule!None]_(Schedule!vars)
  BY DEF Reopens
<1>3. Schedule!Spec => []ScheduleInvariant
  BY ScheduleIsInvariant
<1> QED BY <1>1, <1>2, <1>3, PTL DEF Schedule!Spec, Schedule!ReopenedForItsRun

-----------------------------------------------------------------------------
(* MCP remote tasks: the outcome of a task is not lost on the way to its    *)
(* thread.                                                                  *)

(* What the row's notification columns say of each other: an event under way *)
(* has its snapshot, and what is launched has attempts left.                 *)
ColumnsFit(n) ==
    /\ n.dispatch <= n.version /\ n.notified <= n.version /\ n.attempt <= n.fails
    /\ n.status \in Mcp!InFlight => n.event # Mcp!NoEvent
    /\ n.status = "pending" => n.event = Mcp!NoEvent
    /\ n.status \in {"launching", "dispatched"} => n.dispatch >= 1 /\ n.attempt < NoticeAttempts
    /\ n.status = "launching" => n.fails < NoticeAttempts
    /\ n.by # Mcp!None => n.status \in Mcp!InFlight

(* The same of what a notifier read, and what became of the row meanwhile:   *)
(* nothing, or a poll has recorded a new event over one that waited.         *)
ReadFits(s) ==
    s.pc = "read" =>
        /\ s.rec.status \in Mcp!Claimable /\ s.rec.version >= 1 /\ s.rec.version <= note.version
        /\ s.rec.dispatch <= s.rec.version /\ s.rec.attempt <= s.rec.fails
        /\ s.rec.status \in Mcp!InFlight => s.rec.event # Mcp!NoEvent
        /\ s.rec.status = "pending" => s.rec.event = Mcp!NoEvent
        /\ s.rec.status \in {"launching", "dispatched"} => s.rec.dispatch >= 1
        /\ note.status \in Mcp!Claimable /\ note.version > note.notified
        /\ \/ /\ note.status = s.rec.status /\ note.dispatch = s.rec.dispatch /\ note.event = s.rec.event
              /\ note.attempt = s.rec.attempt /\ note.fails = s.rec.fails
           \/ /\ s.rec.status = "pending" /\ note.status = "pending" /\ s.rec.version < note.version
              /\ note.dispatch = 0 /\ note.event = Mcp!NoEvent /\ note.attempt = 0 /\ note.fails = 0

Notifying == {"claimed", "launch", "launched"}

(* A notifier has what it claimed, and the row is as it left it while it is  *)
(* the claim's owner.                                                        *)
ClaimFits(w) ==
    worker[w].pc \in Notifying =>
        /\ worker[w].rec.dispatch >= 1 /\ worker[w].rec.dispatch <= note.version
        /\ worker[w].rec.event # Mcp!NoEvent
        /\ note.by = w =>
            /\ note.fails <= worker[w].rec.fails
            /\ worker[w].pc = "claimed" => note.status = worker[w].rec.status
            /\ worker[w].pc # "claimed" => note.status = "launching"

RunsFit == \A key \in Mcp!Keys : told[key].state # Mcp!None => key[1] <= note.version

(* What a worker heard is not older than the row while it holds the task.    *)
AnswerFits(w) ==
    worker[w].pc \in {"polled", "cancelled"} =>
        /\ worker[w].got.at <= remote.at
        /\ mcp.by = w => worker[w].got.at >= mcp.seen

TaskFits ==
    /\ mcp.seen <= remote.at
    /\ mcp.status \notin Mcp!Terminal => note.print.status \notin Mcp!Terminal
    /\ mcp.status \in Mcp!Terminal => mcp.by = Mcp!None

(* The last version is the outcome, wherever it is.                          *)
ToldFits(s) ==
    mcp.status \in Mcp!Terminal =>
        /\ s.pc = "read" /\ s.rec.version = note.version => s.made.status = mcp.status
        /\ s.pc \in Notifying /\ s.rec.dispatch = note.version => s.rec.event.status = mcp.status

OutcomeFits ==
    mcp.status \in Mcp!Terminal =>
        /\ note.version >= 1
        /\ note.dispatch = note.version /\ note.event # Mcp!NoEvent => note.event.status = mcp.status
        /\ \A key \in Mcp!Keys : key[1] = note.version /\ told[key].state # Mcp!None
             => told[key].event.status = mcp.status

OneReads == \A v, w \in Workers : worker[v].pc = "read" /\ worker[w].pc = "read" => v = w

WorkerFits(w) == ReadFits(worker[w]) /\ ClaimFits(w) /\ AnswerFits(w) /\ ToldFits(worker[w])

McpInvariant ==
    /\ Mcp!TypeOK /\ ColumnsFit(note) /\ RunsFit /\ TaskFits /\ OutcomeFits /\ Mcp!OutcomeReported /\ OneReads
    /\ \A w \in Workers : WorkerFits(w)

(* The types by field.                                                       *)
LEMMA McpTypes ==
    ASSUME Mcp!McpAssumption, Mcp!TypeOK
    PROVE  /\ remote.status \in Mcp!Statuses /\ remote.at \in 0 .. MaxMoves /\ remote \in Mcp!Snapshot
           /\ mcp.status \in Mcp!Statuses /\ mcp.cancel \in BOOLEAN /\ mcp.errors \in 0 .. DegradedAfter
           /\ mcp.by \in Mcp!Owners /\ mcp.fresh \in BOOLEAN /\ mcp.seen \in 0 .. MaxMoves
           /\ note.status \in Mcp!NoteStatuses /\ note.version \in 0 .. MaxVersions /\ note.print \in Mcp!Event
           /\ note.notified \in 0 .. MaxVersions /\ note.dispatch \in 0 .. MaxVersions
              /\ note.event \in Mcp!Event
           /\ note.attempt \in 0 .. NoticeAttempts /\ note.fails \in 0 .. NoticeAttempts
           /\ note.by \in Mcp!Owners /\ note.fresh \in BOOLEAN /\ note.dead \in 0 .. MaxVersions
           /\ MaxVersions \in Nat /\ NoticeAttempts \in Nat /\ MaxMoves \in Nat /\ DegradedAfter \in Nat
           /\ DOMAIN worker = Workers /\ \A w \in Workers : worker[w] \in Mcp!Worker
<1>1. remote \in Mcp!Snapshot /\ mcp \in Mcp!Task /\ note \in Mcp!Note /\ worker \in [Workers -> Mcp!Worker]
  BY DEF Mcp!TypeOK
<1>2. remote.status \in Mcp!Statuses /\ remote.at \in 0 .. MaxMoves
  BY <1>1 DEF Mcp!Snapshot
<1>3. /\ mcp.status \in Mcp!Statuses /\ mcp.cancel \in BOOLEAN /\ mcp.errors \in 0 .. DegradedAfter
      /\ mcp.by \in Mcp!Owners /\ mcp.fresh \in BOOLEAN /\ mcp.seen \in 0 .. MaxMoves
  BY <1>1 DEF Mcp!Task
<1>4. /\ note.status \in Mcp!NoteStatuses /\ note.version \in 0 .. MaxVersions /\ note.print \in Mcp!Event
      /\ note.notified \in 0 .. MaxVersions /\ note.dispatch \in 0 .. MaxVersions /\ note.event \in Mcp!Event
      /\ note.attempt \in 0 .. NoticeAttempts /\ note.fails \in 0 .. NoticeAttempts
      /\ note.by \in Mcp!Owners /\ note.fresh \in BOOLEAN /\ note.dead \in 0 .. MaxVersions
  BY <1>1 DEF Mcp!Note
<1> QED BY <1>1, <1>2, <1>3, <1>4 DEF Mcp!McpAssumption

(* What a worker keeps.                                                      *)
LEMMA McpWorker ==
    ASSUME NEW s \in Mcp!Worker
    PROVE  /\ s.got \in Mcp!Snapshot /\ s.rec \in Mcp!Record /\ s.made \in Mcp!Event
           /\ s.got.status \in Mcp!Statuses /\ s.got.at \in 0 .. MaxMoves
           /\ s.rec.status \in Mcp!NoteStatuses /\ s.rec.version \in 0 .. MaxVersions
           /\ s.rec.dispatch \in 0 .. MaxVersions /\ s.rec.event \in Mcp!Event
           /\ s.rec.attempt \in 0 .. NoticeAttempts /\ s.rec.fails \in 0 .. NoticeAttempts
<1>1. s.got \in Mcp!Snapshot /\ s.rec \in Mcp!Record /\ s.made \in Mcp!Event
  BY DEF Mcp!Worker
<1>2. s.got.status \in Mcp!Statuses /\ s.got.at \in 0 .. MaxMoves
  BY <1>1 DEF Mcp!Snapshot
<1>3. /\ s.rec.status \in Mcp!NoteStatuses /\ s.rec.version \in 0 .. MaxVersions
      /\ s.rec.dispatch \in 0 .. MaxVersions /\ s.rec.event \in Mcp!Event
      /\ s.rec.attempt \in 0 .. NoticeAttempts /\ s.rec.fails \in 0 .. NoticeAttempts
  BY <1>1 DEF Mcp!Record
<1> QED BY <1>1, <1>2, <1>3

LEMMA McpIdle ==
    ASSUME Mcp!McpAssumption
    PROVE  Mcp!Idle \in Mcp!Worker /\ Mcp!Idle.pc = "idle" /\ Mcp!NoRecord \in Mcp!Record
           /\ Mcp!NoEvent \in Mcp!Event
<1>1. Mcp!NoEvent \in Mcp!Event
  BY DEF Mcp!NoEvent, Mcp!Event
<1>2. Mcp!NoRecord \in Mcp!Record
  BY <1>1 DEF Mcp!NoRecord, Mcp!Record, Mcp!NoteStatuses, Mcp!McpAssumption
<1>3. [status |-> "working", at |-> 0] \in Mcp!Snapshot
  BY DEF Mcp!Snapshot, Mcp!Statuses, Mcp!McpAssumption
<1> QED BY <1>1, <1>2, <1>3 DEF Mcp!Idle, Mcp!Worker

(* A worker that goes on.                                                    *)
LEMMA McpGo ==
    ASSUME Mcp!TypeOK, NEW w \in Workers, NEW s \in Mcp!Worker, Mcp!Go(w, s)
    PROVE  /\ worker' \in [Workers -> Mcp!Worker] /\ worker'[w] = s
           /\ \A v \in Workers : v # w => worker'[v] = worker[v]
BY DEF Mcp!Go, Mcp!TypeOK

(* A worker that waits for nothing fits.                                     *)
LEMMA McpQuiet ==
    ASSUME NEW w \in Workers, worker[w].pc \in {"idle", "poll", "cancel", "failed"}
    PROVE  WorkerFits(w)
BY DEF WorkerFits, ReadFits, ClaimFits, AnswerFits, ToldFits, Notifying

(* What the invariant says, in one place.                                    *)
LEMMA McpFacts ==
    ASSUME McpInvariant
    PROVE  /\ Mcp!TypeOK /\ ColumnsFit(note) /\ RunsFit /\ TaskFits /\ OutcomeFits /\ Mcp!OutcomeReported
              /\ OneReads
           /\ \A w \in Workers : /\ WorkerFits(w) /\ ReadFits(worker[w]) /\ ClaimFits(w) /\ AnswerFits(w)
                                 /\ ToldFits(worker[w])
BY DEF McpInvariant, WorkerFits

(* The event of a task is its status.                                        *)
LEMMA McpEvents ==
    ASSUME Mcp!McpAssumption, NEW t \in Mcp!Task
    PROVE  /\ Mcp!NotificationEvent(t) \in Mcp!Event
           /\ Mcp!NotificationEvent(t) # Mcp!NoEvent => Mcp!NotificationEvent(t).status = t.status
           /\ t.status \in Mcp!Terminal => Mcp!NotificationEvent(t) # Mcp!NoEvent
<1>1. t.status \in Mcp!Statuses /\ t.errors \in 0 .. DegradedAfter
  BY DEF Mcp!Task
<1>2. t.status # Mcp!None
  BY <1>1 DEF Mcp!Statuses, Mcp!Attention, Mcp!Terminal, Mcp!None
<1>3. Mcp!NotificationEvent(t) \in Mcp!Event
  BY <1>1 DEF Mcp!NotificationEvent, Mcp!Event, Mcp!NoEvent
<1>4. Mcp!NotificationEvent(t) # Mcp!NoEvent => Mcp!NotificationEvent(t).status = t.status
  BY DEF Mcp!NotificationEvent, Mcp!NoEvent
<1>5. t.status \in Mcp!Terminal => Mcp!NotificationEvent(t) # Mcp!NoEvent
  BY <1>2 DEF Mcp!NotificationEvent, Mcp!NoEvent, Mcp!Attention, Mcp!Event
<1> QED BY <1>3, <1>4, <1>5

(* A step of a worker that writes neither notification columns nor runs, nor *)
(* the status of the task.                                                   *)
LEMMA McpControls ==
    ASSUME Mcp!McpAssumption, McpInvariant, UNCHANGED <<setup, note, told>>, remote' \in Mcp!Snapshot,
           mcp' \in Mcp!Task,
           mcp'.status = mcp.status, TaskFits', worker' \in [Workers -> Mcp!Worker], OneReads',
           \A w \in Workers :
               \/ worker'[w].pc \in {"idle", "poll", "cancel", "failed"}
               \/ worker'[w] = worker[w] /\ AnswerFits(w)'
               \/ WorkerFits(w)'
    PROVE  McpInvariant'
<1>1. Mcp!TypeOK'
  BY McpFacts DEF Mcp!TypeOK
<1>2. ColumnsFit(note)' /\ RunsFit' /\ OutcomeFits' /\ Mcp!OutcomeReported'
  BY McpFacts DEF ColumnsFit, RunsFit, OutcomeFits, Mcp!OutcomeReported
<1>3. ASSUME NEW w \in Workers PROVE WorkerFits(w)'
  <2>1. CASE worker'[w].pc \in {"idle", "poll", "cancel", "failed"}
    BY <2>1 DEF WorkerFits, ReadFits, ClaimFits, AnswerFits, ToldFits, Notifying
  <2>2. CASE worker'[w] = worker[w] /\ AnswerFits(w)'
    <3>1. ReadFits(worker[w]) /\ ClaimFits(w) /\ ToldFits(worker[w])
      BY McpFacts
    <3>2. ReadFits(worker[w])' /\ ClaimFits(w)' /\ ToldFits(worker[w])'
      BY <2>2, <3>1 DEF ReadFits, ClaimFits, ToldFits
    <3> QED BY <2>2, <3>2 DEF WorkerFits
  <2> QED BY <2>1, <2>2
<1> QED BY <1>1, <1>2, <1>3 DEF McpInvariant

(* The answer that a worker waits with, of the same server and task.         *)
LEMMA McpAnswers ==
    ASSUME NEW w \in Workers, worker'[w] = worker[w], AnswerFits(w), remote'.at = remote.at
             \/ remote'.at > remote.at,
           remote.at \in Nat, remote'.at \in Nat, worker[w].got.at \in Nat,
           mcp'.by = w => mcp.by = w /\ mcp'.seen = mcp.seen
    PROVE  AnswerFits(w)'
BY DEF AnswerFits

LEMMA McpRemoteMoves ==
    ASSUME Mcp!McpAssumption, McpInvariant, Mcp!RemoteMoves
    PROVE  McpInvariant'
<1>1. PICK status \in Mcp!Statuses : remote' = [status |-> status, at |-> remote.at + 1]
  BY DEF Mcp!RemoteMoves
<1>2. remote.at < MaxMoves /\ UNCHANGED <<setup, mcp, note, told, worker>>
  BY DEF Mcp!RemoteMoves
<1>3. Mcp!TypeOK /\ TaskFits /\ OneReads /\ (\A w \in Workers : AnswerFits(w))
  BY McpFacts
<1>4. /\ remote.at \in 0 .. MaxMoves /\ mcp.seen \in 0 .. MaxMoves /\ MaxMoves \in Nat
      /\ \A w \in Workers : worker[w] \in Mcp!Worker
  BY <1>3, McpTypes
<1>5. remote' \in Mcp!Snapshot /\ remote'.at = remote.at + 1
  BY <1>1, <1>2, <1>4 DEF Mcp!Snapshot
<1>6. TaskFits' /\ OneReads'
  BY <1>2, <1>3, <1>4, <1>5 DEF TaskFits, OneReads
<1>7. \A w \in Workers : AnswerFits(w)'
  BY <1>2, <1>3, <1>4, <1>5, McpWorker, McpAnswers
<1>8. mcp' \in Mcp!Task /\ worker' \in [Workers -> Mcp!Worker]
  BY <1>2, <1>3 DEF Mcp!TypeOK
<1> QED BY <1>2, <1>5, <1>6, <1>7, <1>8, McpControls

(* The task is given back.                                                   *)
LEMMA McpUnclaimed ==
    ASSUME Mcp!McpAssumption, NEW t \in Mcp!Task
    PROVE  /\ Mcp!Unclaimed(t) \in Mcp!Task /\ Mcp!Unclaimed(t).by = Mcp!None
              /\ Mcp!Unclaimed(t).status = t.status
           /\ Mcp!Unclaimed(t).seen = t.seen /\ Mcp!Unclaimed(t).errors = t.errors
BY DEF Mcp!Unclaimed, Mcp!Task, Mcp!Owners

LEMMA McpRequestCancel ==
    ASSUME Mcp!McpAssumption, McpInvariant, Mcp!RequestCancel
    PROVE  McpInvariant'
<1> DEFINE u == Mcp!Unclaimed(mcp)
<1>1. mcp' = [u EXCEPT !.cancel = TRUE] /\ UNCHANGED <<setup, remote, note, told, worker>>
  BY DEF Mcp!RequestCancel
<1>2. Mcp!TypeOK /\ TaskFits /\ OneReads /\ (\A w \in Workers : AnswerFits(w)) /\ mcp \in Mcp!Task
      /\ remote \in Mcp!Snapshot
      /\ worker \in [Workers -> Mcp!Worker]
  BY McpFacts DEF Mcp!TypeOK
<1>3. u \in Mcp!Task /\ u.by = Mcp!None /\ u.status = mcp.status /\ u.seen = mcp.seen
  BY <1>2, McpUnclaimed
<1> HIDE DEF u
<1>4. mcp' \in Mcp!Task /\ mcp'.by = Mcp!None /\ mcp'.status = mcp.status /\ mcp'.seen = mcp.seen
  BY <1>1, <1>3 DEF Mcp!Task
<1>5. TaskFits' /\ OneReads'
  BY <1>1, <1>2, <1>4 DEF TaskFits, OneReads
<1>6. \A w \in Workers : AnswerFits(w)'
  BY <1>1, <1>2, <1>4 DEF AnswerFits, Mcp!McpAssumption
<1> QED BY <1>1, <1>2, <1>4, <1>5, <1>6, McpControls

(* A step of one worker that neither hears nor reads.                        *)
LEMMA McpOneMoves ==
    ASSUME Mcp!McpAssumption, McpInvariant, NEW w \in Workers, NEW s \in Mcp!Worker, Mcp!Go(w, s),
           UNCHANGED <<setup, note, told>>, remote' \in Mcp!Snapshot, remote'.at = remote.at, mcp' \in Mcp!Task,
           mcp'.status = mcp.status, mcp'.seen = mcp.seen, mcp'.by \in {mcp.by, w, Mcp!None},
           mcp.status \in Mcp!Terminal => mcp'.by \in {mcp.by, Mcp!None},
           s.pc \in {"idle", "poll", "cancel", "failed"}
    PROVE  McpInvariant'
<1>1. Mcp!TypeOK /\ TaskFits /\ OneReads /\ (\A v \in Workers : AnswerFits(v))
  BY McpFacts
<1>2. worker' \in [Workers -> Mcp!Worker] /\ worker'[w] = s /\ \A v \in Workers : v # w
        => worker'[v] = worker[v]
  BY <1>1, McpGo
<1>3. TaskFits'
  BY <1>1 DEF TaskFits
<1>4. OneReads'
  BY <1>1, <1>2 DEF OneReads
<1>5. \A v \in Workers : v # w => AnswerFits(v)'
  BY <1>1, <1>2 DEF AnswerFits, Mcp!McpAssumption
<1> QED BY <1>2, <1>3, <1>4, <1>5, McpControls

LEMMA McpClaimControl ==
    ASSUME Mcp!McpAssumption, McpInvariant, NEW w \in Workers, Mcp!ClaimControl(w)
    PROVE  McpInvariant'
<1> DEFINE s == [Mcp!Idle EXCEPT !.pc = IF mcp.cancel THEN "cancel" ELSE "poll"]
<1>1. /\ mcp.status \notin Mcp!Terminal /\ mcp' = [mcp EXCEPT !.by = w, !.fresh = TRUE] /\ Mcp!Go(w, s)
      /\ UNCHANGED <<setup, remote, note, told>>
  BY DEF Mcp!ClaimControl
<1>2. Mcp!TypeOK /\ mcp \in Mcp!Task /\ remote \in Mcp!Snapshot
  BY McpFacts DEF Mcp!TypeOK
<1>3. s \in Mcp!Worker /\ s.pc \in {"cancel", "poll"}
  BY McpIdle DEF Mcp!Worker
<1>4. mcp' \in Mcp!Task /\ mcp'.status = mcp.status /\ mcp'.seen = mcp.seen /\ mcp'.by = w
  BY <1>1, <1>2 DEF Mcp!Task, Mcp!Owners
<1> HIDE DEF s
<1> QED BY <1>1, <1>2, <1>3, <1>4, McpOneMoves

(* A worker that goes idle and leaves the rest as it is.                     *)
LEMMA McpRests ==
    ASSUME Mcp!McpAssumption, McpInvariant, NEW w \in Workers, Mcp!Go(w, Mcp!Idle), UNCHANGED <<setup, remote,
           mcp, note, told>>
    PROVE  McpInvariant'
<1>1. mcp \in Mcp!Task /\ remote \in Mcp!Snapshot
  BY McpFacts DEF Mcp!TypeOK
<1> QED BY <1>1, McpIdle, McpOneMoves

LEMMA McpStopControl ==
    ASSUME Mcp!McpAssumption, McpInvariant, NEW w \in Workers, Mcp!StopControl(w)
    PROVE  McpInvariant'
<1>1. Mcp!Go(w, Mcp!Idle) /\ UNCHANGED <<setup, remote, note, told>> /\ mcp' \in {mcp, Mcp!Unclaimed(mcp)}
  BY DEF Mcp!StopControl
<1>2. mcp \in Mcp!Task /\ remote \in Mcp!Snapshot
  BY McpFacts DEF Mcp!TypeOK
<1>3. mcp' \in Mcp!Task /\ mcp'.status = mcp.status /\ mcp'.seen = mcp.seen /\ mcp'.by \in {mcp.by, Mcp!None}
  BY <1>1, <1>2, McpUnclaimed
<1> QED BY <1>1, <1>2, <1>3, McpIdle, McpOneMoves

(* A worker hears from the server what it says now.                          *)
LEMMA McpHears ==
    ASSUME Mcp!McpAssumption, McpInvariant, NEW w \in Workers, NEW s \in Mcp!Worker, Mcp!Go(w, s),
           UNCHANGED <<setup, mcp, note, told>>, remote' \in Mcp!Snapshot, remote'.at = remote.at,
           s.pc \in {"polled", "cancelled"}, s.got.at = remote.at
    PROVE  McpInvariant'
<1>1. Mcp!TypeOK /\ TaskFits /\ OneReads /\ (\A v \in Workers : AnswerFits(v)) /\ mcp \in Mcp!Task
  BY McpFacts DEF Mcp!TypeOK
<1>2. worker' \in [Workers -> Mcp!Worker] /\ worker'[w] = s /\ \A v \in Workers : v # w
        => worker'[v] = worker[v]
  BY <1>1, McpGo
<1>3. TaskFits' /\ OneReads'
  BY <1>1, <1>2 DEF TaskFits, OneReads
<1>4. \A v \in Workers : v # w => AnswerFits(v)'
  BY <1>1, <1>2 DEF AnswerFits
<1>5. remote.at \in Nat
  BY <1>1, McpTypes
<1>6. WorkerFits(w)'
  BY <1>1, <1>2, <1>5 DEF WorkerFits, ReadFits, ClaimFits, AnswerFits, ToldFits, Notifying, TaskFits
<1> QED BY <1>1, <1>2, <1>3, <1>4, <1>6, McpControls

LEMMA McpAsk ==
    ASSUME Mcp!McpAssumption, McpInvariant, NEW w \in Workers, Mcp!Ask(w)
    PROVE  McpInvariant'
<1> DEFINE h == [remote EXCEPT !.status = "failed"]
           s == [Mcp!Idle EXCEPT !.pc = "polled", !.got = remote]
           t == [Mcp!Idle EXCEPT !.pc = "polled", !.got = h]
           u == [Mcp!Idle EXCEPT !.pc = "failed"]
<1>1. (Mcp!Go(w, s) \/ Mcp!Go(w, t) \/ Mcp!Go(w, u)) /\ UNCHANGED <<setup, remote, mcp, note, told>>
  BY DEF Mcp!Ask
<1>2. remote \in Mcp!Snapshot /\ mcp \in Mcp!Task
  BY McpFacts DEF Mcp!TypeOK
<1>3. h \in Mcp!Snapshot /\ h.at = remote.at
  BY <1>2 DEF Mcp!Snapshot, Mcp!Statuses, Mcp!Attention, Mcp!Terminal
<1> HIDE DEF h
<1>4. /\ s \in Mcp!Worker /\ s.pc = "polled" /\ s.got.at = remote.at
      /\ t \in Mcp!Worker /\ t.pc = "polled" /\ t.got.at = remote.at
      /\ u \in Mcp!Worker /\ u.pc = "failed"
  BY <1>2, <1>3, McpIdle DEF Mcp!Worker
<1> HIDE DEF s, t, u
<1> QED BY <1>1, <1>2, <1>4, McpHears, McpOneMoves

LEMMA McpAskCancel ==
    ASSUME Mcp!McpAssumption, McpInvariant, NEW w \in Workers, Mcp!AskCancel(w)
    PROVE  McpInvariant'
<1> DEFINE h == [remote EXCEPT !.status = "failed"]
           c == IF remote.status \in Mcp!Terminal THEN remote ELSE [remote EXCEPT !.status = "cancelled"]
           s == [Mcp!Idle EXCEPT !.pc = "cancelled", !.got = c]
           t == [Mcp!Idle EXCEPT !.pc = "cancelled", !.got = h]
<1>0. /\ \/ remote' = c /\ Mcp!Go(w, [Mcp!Idle EXCEPT !.pc = "cancelled", !.got = remote'])
         \/ Mcp!Go(w, t) /\ UNCHANGED remote
      /\ UNCHANGED <<setup, mcp, note, told>>
  BY DEF Mcp!AskCancel
<1>1. /\ \/ remote' = c /\ Mcp!Go(w, s)
         \/ Mcp!Go(w, t) /\ UNCHANGED remote
      /\ UNCHANGED <<setup, mcp, note, told>>
  BY <1>0
<1>2. remote \in Mcp!Snapshot /\ mcp \in Mcp!Task
  BY McpFacts DEF Mcp!TypeOK
<1>3. h \in Mcp!Snapshot /\ h.at = remote.at /\ c \in Mcp!Snapshot /\ c.at = remote.at
  BY <1>2 DEF Mcp!Snapshot, Mcp!Statuses, Mcp!Attention, Mcp!Terminal
<1> HIDE DEF h, c
<1>4. /\ s \in Mcp!Worker /\ s.pc = "cancelled" /\ s.got.at = remote.at
      /\ t \in Mcp!Worker /\ t.pc = "cancelled" /\ t.got.at = remote.at
  BY <1>3, McpIdle DEF Mcp!Worker
<1> HIDE DEF s, t
<1> QED BY <1>1, <1>2, <1>3, <1>4, McpHears

(* An event is recorded: over an event under way only as the next version.   *)
LEMMA McpNoted ==
    ASSUME Mcp!McpAssumption, McpInvariant, note.version < MaxVersions, NEW event \in Mcp!Event, NEW n,
           n = Mcp!Noted(event)
    PROVE  /\ n \in Mcp!Note /\ ColumnsFit(n) /\ n.by = note.by
           /\ n.version >= note.version /\ n.notified = note.notified
           /\ n.print = IF event = Mcp!NoEvent THEN note.print ELSE event
           /\ event \in {Mcp!NoEvent, note.print} => n = note
           /\ event \notin {Mcp!NoEvent, note.print}
                => n.version = note.version + 1 /\ n.status \in Mcp!Claimable
           /\ note.status \in Mcp!InFlight =>
                 /\ n.status = note.status /\ n.dispatch = note.dispatch /\ n.event = note.event
                 /\ n.attempt = note.attempt /\ n.fails = note.fails
           /\ note.status \notin Mcp!InFlight /\ event \notin {Mcp!NoEvent, note.print} =>
                 /\ n.status = "pending" /\ n.dispatch = 0 /\ n.event = Mcp!NoEvent
                 /\ n.attempt = 0 /\ n.fails = 0
<1>1. note \in Mcp!Note /\ ColumnsFit(note) /\ Mcp!TypeOK
  BY McpFacts DEF Mcp!TypeOK
<1>2. /\ note.version \in Nat /\ MaxVersions \in Nat /\ NoticeAttempts \in Nat /\ note.dispatch \in Nat
      /\ note.notified \in Nat /\ note.version \in 0 .. MaxVersions
  BY <1>1, McpTypes
<1>3. note.version + 1 \in 0 .. MaxVersions
  BY <1>2
<1>4. CASE event \in {Mcp!NoEvent, note.print}
  <2>1. n = note
    BY <1>4 DEF Mcp!Noted
  <2> QED BY <1>1, <1>2, <1>4, <2>1
<1>5. CASE event \notin {Mcp!NoEvent, note.print} /\ note.status \in Mcp!InFlight
  <2>1. n = [note EXCEPT !.print = event, !.version = @ + 1]
    BY <1>5 DEF Mcp!Noted
  <2>2. /\ n \in Mcp!Note /\ n.status = note.status /\ n.dispatch = note.dispatch /\ n.event = note.event
        /\ n.attempt = note.attempt /\ n.fails = note.fails /\ n.by = note.by
        /\ n.notified = note.notified /\ n.version = note.version + 1 /\ n.print = event
    BY <1>1, <1>3, <2>1 DEF Mcp!Note
  <2>3. ColumnsFit(n)
    BY <1>1, <1>2, <2>2 DEF ColumnsFit
  <2>4. n.status \in Mcp!Claimable
    BY <1>5, <2>2 DEF Mcp!Claimable
  <2> QED BY <1>2, <1>5, <2>2, <2>3, <2>4
<1>6. CASE event \notin {Mcp!NoEvent, note.print} /\ note.status \notin Mcp!InFlight
  <2>1. n = [note EXCEPT !.print = event, !.version = @ + 1, !.status = "pending",
                         !.fails = 0, !.dispatch = 0, !.attempt = 0, !.event = Mcp!NoEvent]
    BY <1>6 DEF Mcp!Noted
  <2>2. 0 \in 0 .. NoticeAttempts /\ 0 \in 0 .. MaxVersions /\ "pending" \in Mcp!NoteStatuses
        /\ Mcp!NoEvent \in Mcp!Event
    BY <1>2, McpIdle DEF Mcp!NoteStatuses
  <2>3. /\ n \in Mcp!Note /\ n.status = "pending" /\ n.dispatch = 0 /\ n.event = Mcp!NoEvent
        /\ n.attempt = 0 /\ n.fails = 0 /\ n.by = note.by
        /\ n.notified = note.notified /\ n.version = note.version + 1 /\ n.print = event
    BY <1>1, <1>3, <2>1, <2>2 DEF Mcp!Note
  <2>4. note.by = Mcp!None
    BY <1>1, <1>6 DEF ColumnsFit
  <2>5. ColumnsFit(n)
    BY <1>1, <1>2, <2>3, <2>4 DEF ColumnsFit, Mcp!InFlight
  <2>6. n.status \in Mcp!Claimable
    BY <2>3 DEF Mcp!Claimable
  <2> QED BY <1>2, <1>6, <2>3, <2>5, <2>6
<1> QED BY <1>4, <1>5, <1>6

(* A poll or a cancellation writes the task and records its event.           *)
LEMMA McpApplies ==
    ASSUME Mcp!McpAssumption, McpInvariant, NEW w \in Workers, Mcp!Go(w, Mcp!Idle), UNCHANGED <<setup, remote,
           told>>,
           note.version < MaxVersions, mcp.status \notin Mcp!Terminal, NEW event \in Mcp!Event,
           note' = Mcp!Noted(event),
           mcp' \in Mcp!Task, mcp'.by = Mcp!None, mcp'.seen <= remote.at,
           event # Mcp!NoEvent => event.status = mcp'.status,
           mcp'.status \in Mcp!Terminal => event # Mcp!NoEvent
    PROVE  McpInvariant'
<1>1. /\ Mcp!TypeOK /\ ColumnsFit(note) /\ RunsFit /\ TaskFits /\ OneReads
      /\ \A v \in Workers : ReadFits(worker[v]) /\ ClaimFits(v)
      /\ note \in Mcp!Note /\ worker \in [Workers -> Mcp!Worker]
      /\ told \in [Mcp!Keys -> [state : {Mcp!None, "live", "success", "error"}, event : Mcp!Event]]
  BY McpFacts DEF Mcp!TypeOK
<1>2. /\ note.version \in 0 .. MaxVersions /\ note.dispatch \in 0 .. MaxVersions
      /\ note.notified \in 0 .. MaxVersions /\ MaxVersions \in Nat
      /\ \A v \in Workers : worker[v] \in Mcp!Worker
  BY <1>1, McpTypes
<1>3. /\ worker' \in [Workers -> Mcp!Worker] /\ worker'[w] = Mcp!Idle /\ Mcp!Idle.pc = "idle"
      /\ \A v \in Workers : v # w => worker'[v] = worker[v]
  BY <1>1, McpIdle, McpGo
<1>4. PICK n : n = note'
  OBVIOUS
<1>5. n = Mcp!Noted(event)
  BY <1>4
<1>6. /\ n \in Mcp!Note /\ ColumnsFit(n) /\ n.by = note.by
      /\ n.version >= note.version /\ n.notified = note.notified
      /\ n.print = IF event = Mcp!NoEvent THEN note.print ELSE event
      /\ event \in {Mcp!NoEvent, note.print} => n = note
      /\ event \notin {Mcp!NoEvent, note.print} => n.version = note.version + 1 /\ n.status \in Mcp!Claimable
      /\ note.status \in Mcp!InFlight =>
            /\ n.status = note.status /\ n.dispatch = note.dispatch /\ n.event = note.event
            /\ n.attempt = note.attempt /\ n.fails = note.fails
      /\ note.status \notin Mcp!InFlight /\ event \notin {Mcp!NoEvent, note.print} =>
            /\ n.status = "pending" /\ n.dispatch = 0 /\ n.event = Mcp!NoEvent
            /\ n.attempt = 0 /\ n.fails = 0
  BY <1>5, McpNoted
<1>7. Mcp!TypeOK'
  BY <1>1, <1>3, <1>4, <1>6 DEF Mcp!TypeOK
<1>8. ColumnsFit(note)'
  BY <1>4, <1>6 DEF ColumnsFit
<1>9. RunsFit'
  <2>1. \A key \in Mcp!Keys : told[key].state # Mcp!None => key[1] <= note.version /\ key[1] \in Nat
    BY <1>1 DEF RunsFit, Mcp!Keys
  <2> QED BY <1>2, <1>4, <1>6, <2>1 DEF RunsFit, Mcp!Note
<1>10. n.version \in Nat /\ n.version <= MaxVersions /\ note.print.status \notin Mcp!Terminal
  BY <1>1, <1>2, <1>6 DEF Mcp!Note, TaskFits
<1>11. mcp'.status \in Mcp!Terminal => event \notin {Mcp!NoEvent, note.print}
  BY <1>10
<1>12. TaskFits'
  BY <1>4, <1>6, <1>10 DEF TaskFits
<1>13. OutcomeFits'
  <2>1. ASSUME mcp'.status \in Mcp!Terminal, NEW key \in Mcp!Keys, told[key].state # Mcp!None
        PROVE key[1] # n.version
    BY <1>1, <1>2, <1>6, <1>11, <2>1 DEF RunsFit, Mcp!Keys
  <2>2. mcp'.status \in Mcp!Terminal => n.version >= 1 /\ (n.dispatch = n.version => n.event = Mcp!NoEvent)
    <3> SUFFICES ASSUME mcp'.status \in Mcp!Terminal
        PROVE n.version >= 1 /\ (n.dispatch = n.version => n.event = Mcp!NoEvent)
      OBVIOUS
    <3>1. n.version = note.version + 1
      BY <1>6, <1>11
    <3>2. note.dispatch <= note.version
      BY <1>1 DEF ColumnsFit
    <3>3. CASE note.status \in Mcp!InFlight
      BY <1>2, <1>6, <3>1, <3>2, <3>3
    <3>4. CASE note.status \notin Mcp!InFlight
      BY <1>2, <1>6, <1>11, <3>1, <3>4
    <3> QED BY <3>3, <3>4
  <2> QED BY <1>4, <2>1, <2>2 DEF OutcomeFits
<1>14. Mcp!OutcomeReported'
  <2>1. note.notified <= note.version
    BY <1>1 DEF ColumnsFit
  <2> QED BY <1>2, <1>4, <1>6, <1>11, <2>1 DEF Mcp!OutcomeReported
<1>15. OneReads'
  BY <1>1, <1>3 DEF OneReads
<1>16. ASSUME NEW v \in Workers PROVE WorkerFits(v)'
  <2>1. CASE v = w
    BY <1>3, <2>1 DEF WorkerFits, ReadFits, ClaimFits, AnswerFits, ToldFits, Notifying
  <2>2. CASE v # w
    <3>1. PICK s \in Mcp!Worker : s = worker[v]
      BY <1>2
    <3>2. worker'[v] = s /\ ReadFits(s)
      BY <1>1, <1>3, <2>2, <3>1
    <3>3. /\ s.rec.version \in Nat /\ s.rec.dispatch \in Nat /\ s.got.at \in Nat
      BY McpWorker
    <3>4. ReadFits(s)'
      <4> SUFFICES ASSUME s.pc = "read" PROVE ReadFits(s)'
        BY DEF ReadFits
      <4>1. /\ s.rec.status \in Mcp!Claimable /\ s.rec.version >= 1 /\ s.rec.version <= note.version
            /\ s.rec.dispatch <= s.rec.version /\ s.rec.attempt <= s.rec.fails
            /\ s.rec.status \in Mcp!InFlight => s.rec.event # Mcp!NoEvent
            /\ s.rec.status = "pending" => s.rec.event = Mcp!NoEvent
            /\ s.rec.status \in {"launching", "dispatched"} => s.rec.dispatch >= 1
            /\ note.status \in Mcp!Claimable /\ note.version > note.notified
        BY <3>2 DEF ReadFits
      <4>2. \/ /\ note.status = s.rec.status /\ note.dispatch = s.rec.dispatch /\ note.event = s.rec.event
               /\ note.attempt = s.rec.attempt /\ note.fails = s.rec.fails
            \/ /\ s.rec.status = "pending" /\ note.status = "pending" /\ s.rec.version < note.version
               /\ note.dispatch = 0 /\ note.event = Mcp!NoEvent /\ note.attempt = 0 /\ note.fails = 0
        BY <3>2 DEF ReadFits
      <4>3. n.status \in Mcp!Claimable /\ n.version > n.notified /\ s.rec.version <= n.version
        BY <1>2, <1>6, <3>3, <4>1, <1>10
      <4>4. \/ /\ n.status = s.rec.status /\ n.dispatch = s.rec.dispatch /\ n.event = s.rec.event
               /\ n.attempt = s.rec.attempt /\ n.fails = s.rec.fails
            \/ /\ s.rec.status = "pending" /\ n.status = "pending" /\ s.rec.version < n.version
               /\ n.dispatch = 0 /\ n.event = Mcp!NoEvent /\ n.attempt = 0 /\ n.fails = 0
        <5>1. CASE n = note
          BY <4>2, <5>1
        <5>2. CASE n # note /\ note.status \in Mcp!InFlight
          <6>1. note.status # "pending"
            BY <5>2 DEF Mcp!InFlight
          <6> QED BY <1>6, <4>2, <5>2, <6>1
        <5>3. CASE n # note /\ note.status \notin Mcp!InFlight
          <6>1. note.status = "pending" /\ s.rec.status = "pending"
            BY <4>1, <4>2, <5>3 DEF Mcp!Claimable
          <6>2. event \notin {Mcp!NoEvent, note.print}
            BY <1>6, <5>3
          <6>3. s.rec.version < n.version
            BY <1>2, <1>6, <3>3, <4>1, <6>2
          <6> QED BY <1>6, <5>3, <6>1, <6>2, <6>3
        <5> QED BY <5>1, <5>2, <5>3
      <4> QED BY <1>4, <4>1, <4>3, <4>4 DEF ReadFits
    <3>5. ClaimFits(v)'
      <4>1. ClaimFits(v) /\ worker'[v] = worker[v]
        BY <1>1, <1>3, <2>2
      <4>2. note.by = v => note.status \in Mcp!InFlight
        BY <1>1 DEF ColumnsFit, Mcp!McpAssumption
      <4>3. worker[v].rec.dispatch <= note.version => worker[v].rec.dispatch <= n.version
        BY <1>2, <1>6, <1>10, <3>1, <3>3
      <4> QED BY <1>4, <1>6, <4>1, <4>2, <4>3 DEF ClaimFits, Notifying
    <3>6. AnswerFits(v)'
      <4>1. AnswerFits(v) /\ worker'[v] = worker[v]
        BY <1>3, <2>2, McpFacts
      <4> QED BY <4>1 DEF AnswerFits, Mcp!McpAssumption
    <3>7. ToldFits(worker[v])'
      <4>1. ClaimFits(v) /\ worker'[v] = s
        BY <1>1, <1>3, <2>2, <3>1
      <4>2. s.pc = "read" => s.rec.version <= note.version
        BY <3>2 DEF ReadFits
      <4>3. s.pc \in Notifying => s.rec.dispatch <= note.version
        BY <3>1, <4>1 DEF ClaimFits
      <4>4. mcp'.status \in Mcp!Terminal => n.version = note.version + 1
        BY <1>6, <1>11
      <4> QED BY <1>2, <1>4, <3>3, <4>1, <4>2, <4>3, <4>4 DEF ToldFits
    <3>8. ReadFits(worker[v])'
      BY <3>2, <3>4 DEF ReadFits
    <3> QED BY <3>5, <3>6, <3>7, <3>8 DEF WorkerFits
  <2> QED BY <2>1, <2>2
<1> QED BY <1>7, <1>8, <1>9, <1>12, <1>13, <1>14, <1>15, <1>16 DEF McpInvariant

LEMMA McpApply ==
    ASSUME Mcp!McpAssumption, McpInvariant, NEW w \in Workers, Mcp!Apply(w)
    PROVE  McpInvariant'
<1>1. worker[w].pc = "polled" /\ note.version < MaxVersions /\ Mcp!Go(w, Mcp!Idle)
      /\ UNCHANGED <<setup, remote, told>>
  BY DEF Mcp!Apply
<1>2. CASE UNCHANGED <<mcp, note>>
  BY <1>1, <1>2, McpRests
<1>3. CASE mcp.status \notin Mcp!Terminal /\ Mcp!Applied(w)
  <2> DEFINE u == Mcp!Unclaimed(mcp)
             st == worker[w].got.status
             at == worker[w].got.at
  <2>1. mcp' = [u EXCEPT !.status = st, !.errors = 0, !.seen = at]
    BY <1>3 DEF Mcp!Applied
  <2>2. PICK t : t = mcp'
    OBVIOUS
  <2>3. note' = Mcp!Noted(Mcp!NotificationEvent(t))
    BY <1>3, <2>2 DEF Mcp!Applied
  <2>4. Mcp!TypeOK /\ mcp \in Mcp!Task /\ AnswerFits(w)
    BY McpFacts DEF Mcp!TypeOK
  <2>5. st \in Mcp!Statuses /\ at \in 0 .. MaxMoves /\ at <= remote.at
    BY <1>1, <2>4, McpTypes, McpWorker DEF AnswerFits
  <2>6. u \in Mcp!Task /\ u.by = Mcp!None
    BY <2>4, McpUnclaimed
  <2> HIDE DEF u, st, at
  <2>0. 0 \in 0 .. DegradedAfter
    BY DEF Mcp!McpAssumption
  <2>7. t \in Mcp!Task /\ t.by = Mcp!None /\ t.seen = at
    BY <2>0, <2>1, <2>2, <2>5, <2>6 DEF Mcp!Task
  <2>8. PICK event : event = Mcp!NotificationEvent(t)
    OBVIOUS
  <2>9. event \in Mcp!Event /\ (event # Mcp!NoEvent => event.status = t.status)
        /\ (t.status \in Mcp!Terminal => event # Mcp!NoEvent)
    BY <2>7, <2>8, McpEvents
  <2> QED BY <1>1, <1>3, <2>2, <2>3, <2>5, <2>7, <2>8, <2>9, McpApplies
<1> QED BY <1>2, <1>3 DEF Mcp!Apply

LEMMA McpReleaseClaim ==
    ASSUME Mcp!McpAssumption, McpInvariant, NEW w \in Workers, Mcp!ReleaseClaim(w)
    PROVE  McpInvariant'
<1>1. worker[w].pc = "failed" /\ note.version < MaxVersions /\ Mcp!Go(w, Mcp!Idle)
      /\ UNCHANGED <<setup, remote, told>>
  BY DEF Mcp!ReleaseClaim
<1>2. CASE UNCHANGED <<mcp, note>>
  BY <1>1, <1>2, McpRests
<1>3. CASE /\ mcp.by = w
           /\ mcp' = [Mcp!Unclaimed(mcp) EXCEPT !.errors = IF @ < DegradedAfter THEN @ + 1 ELSE @]
           /\ note' = Mcp!Noted(Mcp!NotificationEvent(mcp'))
  <2> DEFINE u == Mcp!Unclaimed(mcp)
             e == IF u.errors < DegradedAfter THEN u.errors + 1 ELSE u.errors
  <2>1. mcp' = [u EXCEPT !.errors = e]
    BY <1>3
  <2>2. PICK t : t = mcp'
    OBVIOUS
  <2>3. note' = Mcp!Noted(Mcp!NotificationEvent(t))
    BY <1>3, <2>2
  <2>4. Mcp!TypeOK /\ mcp \in Mcp!Task /\ TaskFits
    BY McpFacts DEF Mcp!TypeOK
  <2>5. u \in Mcp!Task /\ u.by = Mcp!None /\ u.seen = mcp.seen /\ u.status = mcp.status
    BY <2>4, McpUnclaimed
  <2>6. mcp.status \notin Mcp!Terminal /\ mcp.seen <= remote.at
    BY <1>3, <2>4 DEF TaskFits, Mcp!McpAssumption
  <2> HIDE DEF u
  <2>7. e \in 0 .. DegradedAfter
    BY <2>5 DEF Mcp!Task, Mcp!McpAssumption
  <2> HIDE DEF e
  <2>8. t \in Mcp!Task /\ t.by = Mcp!None /\ t.seen = mcp.seen
    BY <2>1, <2>2, <2>5, <2>7 DEF Mcp!Task
  <2>9. PICK event : event = Mcp!NotificationEvent(t)
    OBVIOUS
  <2>10. event \in Mcp!Event /\ (event # Mcp!NoEvent => event.status = t.status)
         /\ (t.status \in Mcp!Terminal => event # Mcp!NoEvent)
    BY <2>8, <2>9, McpEvents
  <2> QED BY <1>1, <2>2, <2>3, <2>6, <2>8, <2>9, <2>10, McpApplies
<1> QED BY <1>2, <1>3 DEF Mcp!ReleaseClaim

LEMMA McpApplyCancel ==
    ASSUME Mcp!McpAssumption, McpInvariant, NEW w \in Workers, Mcp!ApplyCancel(w)
    PROVE  McpInvariant'
<1>1. worker[w].pc = "cancelled" /\ note.version < MaxVersions /\ Mcp!Go(w, Mcp!Idle)
      /\ UNCHANGED <<setup, remote, told>>
  BY DEF Mcp!ApplyCancel
<1>2. CASE UNCHANGED <<mcp, note>>
  BY <1>1, <1>2, McpRests
<1>3. CASE /\ mcp.status \notin Mcp!Terminal
           /\ mcp' = [Mcp!Unclaimed(mcp) EXCEPT !.status = worker[w].got.status, !.seen = worker[w].got.at]
           /\ note' = Mcp!Noted(Mcp!NotificationEvent([mcp' EXCEPT !.errors = 0]))
  <2> DEFINE u == Mcp!Unclaimed(mcp)
             st == worker[w].got.status
             at == worker[w].got.at
  <2>1. mcp' = [u EXCEPT !.status = st, !.seen = at]
    BY <1>3
  <2>2. PICK t : t = mcp'
    OBVIOUS
  <2>3. PICK f : f = [t EXCEPT !.errors = 0]
    OBVIOUS
  <2>4. note' = Mcp!Noted(Mcp!NotificationEvent(f))
    BY <1>3, <2>2, <2>3
  <2>5. Mcp!TypeOK /\ mcp \in Mcp!Task /\ AnswerFits(w)
    BY McpFacts DEF Mcp!TypeOK
  <2>6. st \in Mcp!Statuses /\ at \in 0 .. MaxMoves /\ at <= remote.at
    BY <1>1, <2>5, McpTypes, McpWorker DEF AnswerFits
  <2>7. u \in Mcp!Task /\ u.by = Mcp!None
    BY <2>5, McpUnclaimed
  <2> HIDE DEF u, st, at
  <2>8. t \in Mcp!Task /\ t.by = Mcp!None /\ t.seen = at
    BY <2>1, <2>2, <2>6, <2>7 DEF Mcp!Task
  <2>9. f \in Mcp!Task /\ f.status = t.status
    BY <2>3, <2>8 DEF Mcp!Task, Mcp!McpAssumption
  <2>10. PICK event : event = Mcp!NotificationEvent(f)
    OBVIOUS
  <2>11. event \in Mcp!Event /\ (event # Mcp!NoEvent => event.status = t.status)
         /\ (t.status \in Mcp!Terminal => event # Mcp!NoEvent)
    BY <2>9, <2>10, McpEvents
  <2> QED BY <1>1, <1>3, <2>2, <2>4, <2>6, <2>8, <2>10, <2>11, McpApplies
<1> QED BY <1>2, <1>3 DEF Mcp!ApplyCancel

LEMMA McpCrash ==
    ASSUME Mcp!McpAssumption, McpInvariant, NEW w \in Workers, Mcp!Crash(w)
    PROVE  McpInvariant'
BY McpRests DEF Mcp!Crash

(* The row with its lease given back.                                        *)
LEMMA McpFree ==
    ASSUME NEW n \in Mcp!Note
    PROVE  /\ Mcp!Free(n) \in Mcp!Note /\ Mcp!Free(n).by = Mcp!None /\ Mcp!Free(n).status = n.status
              /\ Mcp!Free(n).version = n.version
           /\ Mcp!Free(n).print = n.print /\ Mcp!Free(n).notified = n.notified
              /\ Mcp!Free(n).dispatch = n.dispatch
           /\ Mcp!Free(n).event = n.event /\ Mcp!Free(n).attempt = n.attempt /\ Mcp!Free(n).fails = n.fails
           /\ Mcp!Free(n).dead = n.dead
BY DEF Mcp!Free, Mcp!Note, Mcp!Owners

(* The same with one more failure, up to the limit.                          *)
LEMMA McpFailed ==
    ASSUME Mcp!McpAssumption, NEW n \in Mcp!Note
    PROVE  /\ Mcp!Failed(n) \in Mcp!Note /\ Mcp!Failed(n).by = Mcp!None /\ Mcp!Failed(n).status = n.status
           /\ Mcp!Failed(n).version = n.version /\ Mcp!Failed(n).print = n.print
              /\ Mcp!Failed(n).notified = n.notified
           /\ Mcp!Failed(n).dispatch = n.dispatch /\ Mcp!Failed(n).event = n.event
              /\ Mcp!Failed(n).attempt = n.attempt
           /\ Mcp!Failed(n).fails \in 0 .. NoticeAttempts /\ n.fails \in 0 .. NoticeAttempts
           /\ Mcp!Failed(n).fails = IF n.fails < NoticeAttempts THEN n.fails + 1 ELSE n.fails
<1> DEFINE f == Mcp!Free(n)
<1>1. /\ f \in Mcp!Note /\ f.by = Mcp!None /\ f.status = n.status /\ f.version = n.version
      /\ f.print = n.print /\ f.notified = n.notified /\ f.dispatch = n.dispatch
      /\ f.event = n.event /\ f.attempt = n.attempt /\ f.fails = n.fails
  BY McpFree
<1>2. n.fails \in 0 .. NoticeAttempts /\ NoticeAttempts \in Nat
  BY DEF Mcp!Note, Mcp!McpAssumption
<1>3. PICK k : k = IF n.fails < NoticeAttempts THEN n.fails + 1 ELSE n.fails
  OBVIOUS
<1>4. k \in 0 .. NoticeAttempts
  BY <1>2, <1>3
<1>5. Mcp!Failed(n) = [f EXCEPT !.fails = k]
  BY <1>1, <1>3 DEF Mcp!Failed
<1> HIDE DEF f
<1>6. /\ Mcp!Failed(n) \in Mcp!Note /\ Mcp!Failed(n).by = Mcp!None /\ Mcp!Failed(n).status = n.status
      /\ Mcp!Failed(n).version = n.version /\ Mcp!Failed(n).print = n.print
         /\ Mcp!Failed(n).notified = n.notified
      /\ Mcp!Failed(n).dispatch = n.dispatch /\ Mcp!Failed(n).event = n.event
         /\ Mcp!Failed(n).attempt = n.attempt
      /\ Mcp!Failed(n).fails = k
  BY <1>1, <1>4, <1>5 DEF Mcp!Note
<1> QED BY <1>2, <1>3, <1>4, <1>6

(* A notifier reads the row.                                                 *)
LEMMA McpReadWork ==
    ASSUME Mcp!McpAssumption, McpInvariant, NEW w \in Workers, Mcp!ReadWork(w)
    PROVE  McpInvariant'
<1> DEFINE r == [f \in DOMAIN Mcp!NoRecord |-> note[f]]
           e == Mcp!NotificationEvent(mcp)
           s == [Mcp!Idle EXCEPT !.pc = "read", !.rec = r, !.made = e]
<1>1. /\ Mcp!Unread /\ note.version > note.notified /\ note.status \in Mcp!Claimable /\ Mcp!Go(w, s)
      /\ UNCHANGED <<setup, remote, mcp, note, told>>
  BY DEF Mcp!ReadWork
<1>2. /\ Mcp!TypeOK /\ note \in Mcp!Note /\ mcp \in Mcp!Task /\ remote \in Mcp!Snapshot /\ ColumnsFit(note)
      /\ (\A v \in Workers : AnswerFits(v)) /\ TaskFits
  BY McpFacts DEF Mcp!TypeOK
<1>3. /\ r \in Mcp!Record /\ r.status = note.status /\ r.version = note.version /\ r.dispatch = note.dispatch
      /\ r.event = note.event /\ r.attempt = note.attempt /\ r.fails = note.fails
  BY <1>2 DEF Mcp!Note, Mcp!Record, Mcp!NoRecord
<1>4. e \in Mcp!Event /\ (e # Mcp!NoEvent => e.status = mcp.status)
      /\ (mcp.status \in Mcp!Terminal => e # Mcp!NoEvent)
  BY <1>2, McpEvents
<1> HIDE DEF r, e
<1>5. s \in Mcp!Worker /\ s.pc = "read" /\ s.rec = r /\ s.made = e
  BY <1>3, <1>4, McpIdle DEF Mcp!Worker
<1> HIDE DEF s
<1>6. worker' \in [Workers -> Mcp!Worker] /\ worker'[w] = s /\ \A v \in Workers : v # w
        => worker'[v] = worker[v]
  BY <1>1, <1>2, <1>5, McpGo
<1>7. /\ note.version \in Nat /\ note.notified \in Nat /\ note.dispatch \in Nat /\ note.attempt \in Nat
      /\ note.fails \in Nat
  BY <1>2, McpTypes
<1>8. ReadFits(worker[w])'
  <2>1. ReadFits(s)
    BY <1>1, <1>2, <1>3, <1>5, <1>7 DEF ReadFits, ColumnsFit, Mcp!Claimable
  <2> QED BY <1>1, <1>6, <2>1 DEF ReadFits
<1>9. WorkerFits(w)'
  BY <1>1, <1>4, <1>5, <1>6, <1>8 DEF WorkerFits, ClaimFits, AnswerFits, ToldFits, Notifying
<1>10. OneReads'
  BY <1>1, <1>6 DEF OneReads, Mcp!Unread
<1>11. TaskFits' /\ \A v \in Workers : v # w => AnswerFits(v)'
  BY <1>1, <1>2, <1>6 DEF TaskFits, AnswerFits
<1> QED BY <1>1, <1>2, <1>6, <1>9, <1>10, <1>11, McpControls

(* A step of a notifier that writes the row while nobody else reads it.      *)
LEMMA McpTold ==
    ASSUME Mcp!McpAssumption, McpInvariant, NEW w \in Workers, UNCHANGED <<setup, remote, mcp>>,
           NEW n \in Mcp!Note, note' = n, ColumnsFit(n), n.version = note.version,
           n.print \in {note.print, Mcp!NoEvent},
           n = note \/ n.by \in {Mcp!None, w}, \A v \in Workers : v # w => worker[v].pc # "read",
           NEW s \in Mcp!Worker, Mcp!Go(w, s), s.pc # "read", WorkerFits(w)',
           told' \in [Mcp!Keys -> [state : {Mcp!None, "live", "success", "error"}, event : Mcp!Event]],
           \A key \in Mcp!Keys : told'[key].state # Mcp!None
             => told[key].state # Mcp!None /\ told'[key].event = told[key].event,
           Mcp!OutcomeReported',
           mcp.status \in Mcp!Terminal =>
               (n.dispatch = n.version /\ n.event # Mcp!NoEvent => n.event.status = mcp.status)
    PROVE  McpInvariant'
<1>1. /\ Mcp!TypeOK /\ RunsFit /\ TaskFits /\ OutcomeFits /\ OneReads
      /\ \A v \in Workers : ClaimFits(v) /\ AnswerFits(v) /\ ToldFits(worker[v])
  BY McpFacts
<1>2. worker' \in [Workers -> Mcp!Worker] /\ worker'[w] = s /\ \A v \in Workers : v # w
        => worker'[v] = worker[v]
  BY <1>1, McpGo
<1>3. Mcp!TypeOK'
  BY <1>1, <1>2 DEF Mcp!TypeOK
<1>4. ColumnsFit(note)'
  BY DEF ColumnsFit
<1>5. RunsFit'
  BY <1>1 DEF RunsFit
<1>6. TaskFits'
  BY <1>1 DEF TaskFits, Mcp!NoEvent, Mcp!Terminal, Mcp!None
<1>7. OutcomeFits'
  <2>1. mcp.status \in Mcp!Terminal => n.version >= 1
    BY <1>1 DEF OutcomeFits
  <2>2. mcp.status \in Mcp!Terminal =>
            \A key \in Mcp!Keys : key[1] = n.version /\ told'[key].state # Mcp!None
              => told'[key].event.status = mcp.status
    BY <1>1 DEF OutcomeFits
  <2> QED BY <2>1, <2>2 DEF OutcomeFits
<1>8. OneReads'
  BY <1>2 DEF OneReads
<1>9. ASSUME NEW v \in Workers PROVE WorkerFits(v)'
  <2> SUFFICES ASSUME v # w PROVE WorkerFits(v)'
    OBVIOUS
  <2>1. worker'[v] = worker[v] /\ worker[v].pc # "read" /\ ClaimFits(v) /\ AnswerFits(v) /\ ToldFits(worker[v])
    BY <1>1, <1>2
  <2>2. n = note \/ n.by # v
    BY DEF Mcp!McpAssumption
  <2>3. ReadFits(worker[v])' /\ AnswerFits(v)' /\ ToldFits(worker[v])'
    BY <2>1 DEF ReadFits, AnswerFits, ToldFits
  <2>4. ClaimFits(v)'
    BY <2>1, <2>2 DEF ClaimFits
  <2> QED BY <2>3, <2>4 DEF WorkerFits
<1> QED BY <1>3, <1>4, <1>5, <1>6, <1>7, <1>8, <1>9 DEF McpInvariant

(* What was reported stays reported when the row stays in delivery.          *)
LEMMA McpStillReported ==
    ASSUME McpInvariant, UNCHANGED mcp, note'.version = note.version,
           \A key \in Mcp!Keys : told[key].state = "success" => told'[key] = told[key],
           note' = note
             \/ (note.status \in Mcp!Claimable /\ note'.status \in Mcp!Claimable
                    /\ note'.notified = note.notified)
    PROVE  Mcp!OutcomeReported'
<1>1. Mcp!OutcomeReported
  BY McpFacts
<1>2. "dead_letter" \notin Mcp!Claimable
  BY DEF Mcp!Claimable, Mcp!InFlight
<1> QED BY <1>1, <1>2 DEF Mcp!OutcomeReported

(* A notifier gives its claim back, in one way or another.                   *)
LEMMA McpGivesBack ==
    ASSUME Mcp!McpAssumption, McpInvariant, NEW w \in Workers, UNCHANGED <<setup, remote, mcp>>, Mcp!Unread,
           Mcp!Go(w, Mcp!Idle),
           NEW n \in Mcp!Note, note' = n, ColumnsFit(n), n.version = note.version, n.print = note.print,
           n = note \/ n.by = Mcp!None, n.event = Mcp!NoEvent
             \/ (n.event = note.event /\ n.dispatch = note.dispatch),
           told' \in [Mcp!Keys -> [state : {Mcp!None, "live", "success", "error"}, event : Mcp!Event]],
           \A key \in Mcp!Keys : told'[key].state # Mcp!None
             => told[key].state # Mcp!None /\ told'[key].event = told[key].event,
           Mcp!OutcomeReported'
    PROVE  McpInvariant'
<1>1. Mcp!TypeOK /\ OutcomeFits
  BY McpFacts
<1>2. worker'[w] = Mcp!Idle /\ Mcp!Idle \in Mcp!Worker /\ Mcp!Idle.pc = "idle"
  BY <1>1, McpIdle, McpGo
<1>3. WorkerFits(w)'
  BY <1>2 DEF WorkerFits, ReadFits, ClaimFits, AnswerFits, ToldFits, Notifying
<1>4. mcp.status \in Mcp!Terminal =>
          (n.dispatch = n.version /\ n.event # Mcp!NoEvent => n.event.status = mcp.status)
  BY <1>1 DEF OutcomeFits
<1>5. \A v \in Workers : v # w => worker[v].pc # "read"
  BY DEF Mcp!Unread
<1> QED BY <1>2, <1>3, <1>4, <1>5, McpTold

(* The columns of a row that is given back.                                  *)
LEMMA McpFreed ==
    ASSUME Mcp!McpAssumption, McpInvariant, NEW w \in Workers, Mcp!Holds(w), NEW status \in Mcp!Claimable,
           status \in {"launching", "dispatched"} => note.dispatch >= 1 /\ note.attempt < NoticeAttempts,
           status = "launching" => note.fails < NoticeAttempts,
           NEW n,
           \/ status # "pending" /\ n = [Mcp!Free(note) EXCEPT !.status = status]
           \/ status = "pending" /\ n = [Mcp!Free(note) EXCEPT !.status = status, !.event = Mcp!NoEvent]
    PROVE  /\ n \in Mcp!Note /\ ColumnsFit(n) /\ n.version = note.version /\ n.print = note.print
              /\ n.by = Mcp!None
           /\ n.event = Mcp!NoEvent \/ (n.event = note.event /\ n.dispatch = note.dispatch)
           /\ n.status = status /\ n.notified = note.notified /\ note.status \in Mcp!Claimable
<1> DEFINE f == Mcp!Free(note)
<1>1. note \in Mcp!Note /\ ColumnsFit(note)
  BY McpFacts DEF Mcp!TypeOK
<1>2. note.status \in Mcp!InFlight
  BY <1>1 DEF ColumnsFit, Mcp!Holds, Mcp!McpAssumption
<1>3. /\ f \in Mcp!Note /\ f.by = Mcp!None /\ f.version = note.version /\ f.print = note.print
      /\ f.notified = note.notified /\ f.dispatch = note.dispatch /\ f.event = note.event
      /\ f.attempt = note.attempt /\ f.fails = note.fails
  BY <1>1, McpFree
<1>4. status \in Mcp!NoteStatuses /\ Mcp!NoEvent \in Mcp!Event
  BY McpIdle DEF Mcp!Claimable, Mcp!InFlight, Mcp!NoteStatuses
<1>5. \/ status # "pending" /\ n = [f EXCEPT !.status = status]
      \/ status = "pending" /\ n = [f EXCEPT !.status = status, !.event = Mcp!NoEvent]
  OBVIOUS
<1> HIDE DEF f
<1>6. /\ n \in Mcp!Note /\ n.by = Mcp!None /\ n.version = note.version /\ n.print = note.print
         /\ n.status = status
      /\ n.notified = note.notified /\ n.dispatch = note.dispatch
      /\ n.attempt = note.attempt /\ n.fails = note.fails
      /\ n.event = IF status = "pending" THEN Mcp!NoEvent ELSE note.event
  BY <1>3, <1>4, <1>5 DEF Mcp!Note
<1>7. ColumnsFit(n)
  BY <1>1, <1>2, <1>6 DEF ColumnsFit, Mcp!InFlight
<1>8. note.status \in Mcp!Claimable
  BY <1>2 DEF Mcp!Claimable
<1> QED BY <1>6, <1>7, <1>8

LEMMA McpStopNotify ==
    ASSUME Mcp!McpAssumption, McpInvariant, NEW w \in Workers, Mcp!StopNotify(w)
    PROVE  McpInvariant'
<1>1. Mcp!Unread /\ Mcp!Go(w, Mcp!Idle) /\ UNCHANGED <<setup, remote, mcp, told>>
  BY DEF Mcp!StopNotify
<1>2. CASE note' = note
  BY <1>1, <1>2, McpRests
<1>3. CASE Mcp!Holds(w) /\ note' \in {Mcp!Free(note), [Mcp!Free(note) EXCEPT !.status = "retry"]}
  <2>1. note \in Mcp!Note /\ ColumnsFit(note)
        /\ told \in [Mcp!Keys -> [state : {Mcp!None, "live", "success", "error"}, event : Mcp!Event]]
    BY McpFacts DEF Mcp!TypeOK
  <2>2. note.status \in Mcp!InFlight /\ note.status # "pending"
    BY <1>3, <2>1 DEF ColumnsFit, Mcp!Holds, Mcp!McpAssumption, Mcp!InFlight
  <2>3. Mcp!Free(note) = [Mcp!Free(note) EXCEPT !.status = note.status]
    BY <2>1 DEF Mcp!Free, Mcp!Note
  <2>4. PICK status \in Mcp!InFlight :
            note' = [Mcp!Free(note) EXCEPT !.status = status] /\ status \in {"retry", note.status}
    BY <1>3, <2>2, <2>3 DEF Mcp!InFlight
  <2>5. status \in Mcp!Claimable /\ status # "pending"
    BY DEF Mcp!Claimable, Mcp!InFlight
  <2>6. /\ status \in {"launching", "dispatched"} => note.dispatch >= 1 /\ note.attempt < NoticeAttempts
        /\ status = "launching" => note.fails < NoticeAttempts
    BY <2>1, <2>4 DEF ColumnsFit
  <2>7. PICK n : n = [Mcp!Free(note) EXCEPT !.status = status]
    OBVIOUS
  <2>11. \/ status # "pending" /\ n = [Mcp!Free(note) EXCEPT !.status = status]
         \/ status = "pending" /\ n = [Mcp!Free(note) EXCEPT !.status = status, !.event = Mcp!NoEvent]
    BY <2>5, <2>7
  <2>12. Mcp!Holds(w)
    BY <1>3
  <2>8. /\ n \in Mcp!Note /\ ColumnsFit(n) /\ n.version = note.version /\ n.print = note.print
           /\ n.by = Mcp!None
        /\ n.event = Mcp!NoEvent \/ (n.event = note.event /\ n.dispatch = note.dispatch)
        /\ n.status = status /\ n.notified = note.notified /\ note.status \in Mcp!Claimable
    BY <2>5, <2>6, <2>11, <2>12, McpFreed
  <2>9. note' = n
    BY <2>4, <2>7
  <2>10. Mcp!OutcomeReported'
    BY <1>1, <2>5, <2>8, <2>9, McpStillReported
  <2> QED BY <1>1, <2>1, <2>8, <2>9, <2>10, McpGivesBack
<1>4. CASE Mcp!Holds(w) /\ worker[w].pc = "claimed" /\ worker[w].rec.status # "launching"
           /\ note' = Mcp!Failed(note)
  <2>1. /\ note \in Mcp!Note /\ ColumnsFit(note) /\ ClaimFits(w) /\ NoticeAttempts \in Nat
        /\ told \in [Mcp!Keys -> [state : {Mcp!None, "live", "success", "error"}, event : Mcp!Event]]
    BY McpFacts DEF Mcp!TypeOK, Mcp!McpAssumption
  <2>2. note.status \in Mcp!InFlight /\ note.status # "launching"
    BY <1>4, <2>1 DEF ColumnsFit, ClaimFits, Notifying, Mcp!Holds, Mcp!McpAssumption
  <2>3. PICK n : n = note'
    OBVIOUS
  <2>4. n = Mcp!Failed(note)
    BY <1>4, <2>3
  <2>5. /\ n \in Mcp!Note /\ n.by = Mcp!None /\ n.status = note.status /\ n.version = note.version
        /\ n.print = note.print /\ n.notified = note.notified /\ n.dispatch = note.dispatch
        /\ n.event = note.event /\ n.attempt = note.attempt
        /\ n.fails \in 0 .. NoticeAttempts /\ note.fails \in 0 .. NoticeAttempts
        /\ n.fails = IF note.fails < NoticeAttempts THEN note.fails + 1 ELSE note.fails
    BY <2>1, <2>4, McpFailed
  <2>6. note.attempt \in Nat /\ note.attempt <= note.fails
    BY <2>1 DEF ColumnsFit, Mcp!Note
  <2>7. note.fails <= n.fails /\ note.attempt <= n.fails
    BY <2>1, <2>5, <2>6
  <2>8. ColumnsFit(n)
    BY <2>1, <2>2, <2>5, <2>7 DEF ColumnsFit
  <2>9. note.status \in Mcp!Claimable /\ n.status \in Mcp!Claimable
    BY <2>2, <2>5 DEF Mcp!Claimable
  <2>10. Mcp!OutcomeReported'
    BY <1>1, <2>3, <2>5, <2>9, McpStillReported
  <2> QED BY <1>1, <2>1, <2>3, <2>5, <2>8, <2>10, McpGivesBack
<1> QED BY <1>2, <1>3, <1>4 DEF Mcp!StopNotify

LEMMA McpMarkDispatched ==
    ASSUME Mcp!McpAssumption, McpInvariant, NEW w \in Workers, Mcp!MarkDispatched(w)
    PROVE  McpInvariant'
<1>1. worker[w].pc = "launched" /\ Mcp!Unread /\ Mcp!Go(w, Mcp!Idle) /\ UNCHANGED <<setup, remote, mcp, told>>
  BY DEF Mcp!MarkDispatched
<1>2. CASE note' = note
  BY <1>1, <1>2, McpRests
<1>3. CASE Mcp!Holds(w) /\ note' = [Mcp!Free(note) EXCEPT !.status = "dispatched"]
  <2>1. /\ note \in Mcp!Note /\ ColumnsFit(note) /\ ClaimFits(w)
        /\ told \in [Mcp!Keys -> [state : {Mcp!None, "live", "success", "error"}, event : Mcp!Event]]
    BY McpFacts DEF Mcp!TypeOK
  <2>2. note.status = "launching"
    BY <1>1, <1>3, <2>1 DEF ClaimFits, Notifying, Mcp!Holds
  <2>3. note.dispatch >= 1 /\ note.attempt < NoticeAttempts /\ "dispatched" \in Mcp!Claimable
    BY <2>1, <2>2 DEF ColumnsFit, Mcp!Claimable, Mcp!InFlight
  <2>4. PICK n : n = note'
    OBVIOUS
  <2>5. n = [Mcp!Free(note) EXCEPT !.status = "dispatched"]
    BY <1>3, <2>4
  <2>6. /\ n \in Mcp!Note /\ ColumnsFit(n) /\ n.version = note.version /\ n.print = note.print
           /\ n.by = Mcp!None
        /\ n.event = Mcp!NoEvent \/ (n.event = note.event /\ n.dispatch = note.dispatch)
        /\ n.status = "dispatched" /\ n.notified = note.notified /\ note.status \in Mcp!Claimable
    BY <1>3, <2>3, <2>5, McpFreed
  <2>7. Mcp!OutcomeReported'
    BY <1>1, <2>3, <2>4, <2>6, McpStillReported
  <2> QED BY <1>1, <2>1, <2>4, <2>6, <2>7, McpGivesBack
<1> QED BY <1>2, <1>3 DEF Mcp!MarkDispatched, Mcp!Current

LEMMA McpBeginLaunch ==
    ASSUME Mcp!McpAssumption, McpInvariant, NEW w \in Workers, Mcp!BeginLaunch(w)
    PROVE  McpInvariant'
<1> DEFINE rec == worker[w].rec
           s   == [worker[w] EXCEPT !.pc = "launch"]
<1>1. /\ worker[w].pc = "claimed" /\ rec.status # "dispatched" /\ ~Mcp!Spent(w) /\ Mcp!Unread
      /\ UNCHANGED <<setup, remote, mcp, told>>
  BY DEF Mcp!BeginLaunch
<1>2. /\ Mcp!TypeOK /\ note \in Mcp!Note /\ ColumnsFit(note) /\ ClaimFits(w) /\ OutcomeFits
         /\ ToldFits(worker[w])
      /\ worker \in [Workers -> Mcp!Worker] /\ worker[w] \in Mcp!Worker
      /\ told \in [Mcp!Keys -> [state : {Mcp!None, "live", "success", "error"}, event : Mcp!Event]]
  BY McpFacts DEF Mcp!TypeOK
<1>3. rec \in Mcp!Record /\ rec.fails \in 0 .. NoticeAttempts /\ note.fails \in 0 .. NoticeAttempts
      /\ NoticeAttempts \in Nat
      /\ note.dispatch \in 0 .. MaxVersions /\ rec.dispatch \in 0 .. MaxVersions
  BY <1>2, McpTypes, McpWorker
<1>4. CASE note' = note /\ Mcp!Go(w, Mcp!Idle)
  BY <1>1, <1>4, McpRests
<1>5. CASE Mcp!Holds(w) /\ note' = Mcp!Free(note) /\ rec.status = "launching" /\ Mcp!Go(w, Mcp!Idle)
  <2>1. note.status = "launching"
    BY <1>1, <1>2, <1>5 DEF ClaimFits, Notifying, Mcp!Holds
  <2>2. /\ note.dispatch >= 1 /\ note.attempt < NoticeAttempts /\ note.fails < NoticeAttempts
        /\ "launching" \in Mcp!Claimable
    BY <1>2, <2>1 DEF ColumnsFit, Mcp!Claimable, Mcp!InFlight
  <2>3. Mcp!Free(note) = [Mcp!Free(note) EXCEPT !.status = "launching"]
    BY <1>2, <2>1 DEF Mcp!Free, Mcp!Note
  <2>4. PICK n : n = note'
    OBVIOUS
  <2>5. n = [Mcp!Free(note) EXCEPT !.status = "launching"]
    BY <1>5, <2>3, <2>4
  <2>6. /\ n \in Mcp!Note /\ ColumnsFit(n) /\ n.version = note.version /\ n.print = note.print
           /\ n.by = Mcp!None
        /\ n.event = Mcp!NoEvent \/ (n.event = note.event /\ n.dispatch = note.dispatch)
        /\ n.status = "launching" /\ n.notified = note.notified /\ note.status \in Mcp!Claimable
    BY <1>5, <2>2, <2>5, McpFreed
  <2>7. Mcp!OutcomeReported'
    BY <1>1, <2>2, <2>4, <2>6, McpStillReported
  <2> QED BY <1>1, <1>2, <1>5, <2>4, <2>6, <2>7, McpGivesBack
<1>6. CASE Mcp!Holds(w) /\ note' = [Mcp!Free(note) EXCEPT !.status = "pending", !.event = Mcp!NoEvent]
           /\ Mcp!Go(w, Mcp!Idle)
  <2>1. "pending" \in Mcp!Claimable
    BY DEF Mcp!Claimable
  <2>2. PICK n : n = note'
    OBVIOUS
  <2>3. n = [Mcp!Free(note) EXCEPT !.status = "pending", !.event = Mcp!NoEvent]
    BY <1>6, <2>2
  <2>4. /\ n \in Mcp!Note /\ ColumnsFit(n) /\ n.version = note.version /\ n.print = note.print
           /\ n.by = Mcp!None
        /\ n.event = Mcp!NoEvent \/ (n.event = note.event /\ n.dispatch = note.dispatch)
        /\ n.status = "pending" /\ n.notified = note.notified /\ note.status \in Mcp!Claimable
    BY <1>6, <2>1, <2>3, McpFreed
  <2>5. Mcp!OutcomeReported'
    BY <1>1, <2>1, <2>2, <2>4, McpStillReported
  <2> QED BY <1>1, <1>2, <1>6, <2>2, <2>4, <2>5, McpGivesBack
<1>7. CASE /\ Mcp!Holds(w) /\ note.status \in {"launching", "claimed", "retry"} /\ note.dispatch = rec.dispatch
           /\ note' = [note EXCEPT !.status = "launching"] /\ Mcp!To(w, "launch")
  <2>1. /\ rec.dispatch >= 1 /\ rec.event # Mcp!NoEvent /\ note.fails <= rec.fails
        /\ note.status = rec.status /\ rec.dispatch <= note.version
    BY <1>1, <1>2, <1>7 DEF ClaimFits, Notifying, Mcp!Holds
  <2>2. note.fails < NoticeAttempts
    <3>1. CASE note.status = "launching"
      BY <1>2, <3>1 DEF ColumnsFit
    <3>2. CASE rec.fails < NoticeAttempts
      BY <1>3, <2>1, <3>2
    <3> QED BY <1>1, <1>3, <2>1, <3>1, <3>2 DEF Mcp!Spent
  <2>24. note.attempt < NoticeAttempts
    <3>1. note.attempt \in Nat /\ note.attempt <= note.fails
      BY <1>2 DEF ColumnsFit, Mcp!Note
    <3> QED BY <1>3, <2>2, <3>1
  <2>3. PICK n : n = note'
    OBVIOUS
  <2>4. /\ n \in Mcp!Note /\ n.status = "launching" /\ n.version = note.version /\ n.print = note.print
        /\ n.notified = note.notified /\ n.dispatch = note.dispatch /\ n.event = note.event
        /\ n.attempt = note.attempt /\ n.fails = note.fails /\ n.by = w
    BY <1>2, <1>7, <2>3 DEF Mcp!Note, Mcp!NoteStatuses, Mcp!Holds
  <2>5. note.status \in Mcp!InFlight /\ note.status \in Mcp!Claimable /\ n.status \in Mcp!Claimable
    BY <1>7, <2>4 DEF Mcp!InFlight, Mcp!Claimable
  <2>6. ColumnsFit(n)
    BY <1>2, <1>7, <2>1, <2>2, <2>4, <2>5, <2>24 DEF ColumnsFit, Mcp!InFlight
  <2>7. s \in Mcp!Worker /\ s.pc = "launch" /\ s.rec = rec /\ Mcp!Go(w, s)
    BY <1>2, <1>7 DEF Mcp!Worker, Mcp!To, Mcp!Go
  <2> HIDE DEF s
  <2>8. worker' \in [Workers -> Mcp!Worker] /\ worker'[w] = s
    BY <1>2, <2>7, McpGo
  <2>9. Mcp!OutcomeReported'
    BY <1>1, <2>3, <2>4, <2>5, McpStillReported
  <2>10. ClaimFits(w)'
    BY <1>3, <2>1, <2>3, <2>4, <2>7, <2>8 DEF ClaimFits
  <2>11. ToldFits(worker[w])'
    BY <1>1, <1>2, <2>3, <2>4, <2>7, <2>8 DEF ToldFits, Notifying
  <2>12. WorkerFits(w)'
    BY <2>7, <2>8, <2>10, <2>11 DEF WorkerFits, ReadFits, AnswerFits
  <2>13. mcp.status \in Mcp!Terminal
           => (n.dispatch = n.version /\ n.event # Mcp!NoEvent => n.event.status = mcp.status)
    BY <1>2, <2>4 DEF OutcomeFits
  <2>14. \A v \in Workers : v # w => worker[v].pc # "read"
    BY <1>1 DEF Mcp!Unread
  <2> QED BY <1>1, <1>2, <2>3, <2>4, <2>6, <2>7, <2>9, <2>12, <2>13, <2>14, McpTold
<1>8. \/ note' = note /\ Mcp!Go(w, Mcp!Idle)
      \/ Mcp!Holds(w) /\ note' = Mcp!Free(note) /\ rec.status = "launching" /\ Mcp!Go(w, Mcp!Idle)
      \/ Mcp!Holds(w) /\ note' = [Mcp!Free(note) EXCEPT !.status = "pending", !.event = Mcp!NoEvent]
         /\ Mcp!Go(w, Mcp!Idle)
      \/ /\ Mcp!Holds(w) /\ note.status \in {"launching", "claimed", "retry"} /\ note.dispatch = rec.dispatch
         /\ note' = [note EXCEPT !.status = "launching"] /\ Mcp!To(w, "launch")
  BY DEF Mcp!BeginLaunch, Mcp!Current
<1> QED BY <1>4, <1>5, <1>6, <1>7, <1>8

LEMMA McpGiveUp ==
    ASSUME Mcp!McpAssumption, McpInvariant, NEW w \in Workers, Mcp!GiveUp(w)
    PROVE  McpInvariant'
<1>1. Mcp!Unread /\ Mcp!Go(w, Mcp!Idle) /\ UNCHANGED <<setup, remote, mcp, told>>
  BY DEF Mcp!GiveUp
<1>2. CASE note' = note
  BY <1>1, <1>2, McpRests
<1>3. CASE note.status \in Mcp!InFlight /\ note' = Mcp!DeadLettered(note.fails)
  <2> DEFINE f == Mcp!Free(note)
  <2>1. /\ Mcp!TypeOK /\ note \in Mcp!Note /\ ColumnsFit(note)
        /\ told \in [Mcp!Keys -> [state : {Mcp!None, "live", "success", "error"}, event : Mcp!Event]]
    BY McpFacts DEF Mcp!TypeOK
  <2>2. /\ f \in Mcp!Note /\ f.by = Mcp!None /\ f.version = note.version /\ f.print = note.print
        /\ f.notified = note.notified /\ f.dead = note.dead /\ f.fails = note.fails
    BY <2>1, McpFree
  <2>3. PICK n : n = note'
    OBVIOUS
  <2>4. n = IF note.version > note.dispatch
            THEN [f EXCEPT !.status = "pending", !.fails = 0, !.dispatch = 0, !.attempt = 0, !.event = Mcp!NoEvent]
            ELSE [f EXCEPT !.status = "dead_letter", !.dead = note.dispatch, !.fails = note.fails,
                           !.dispatch = 0, !.attempt = 0, !.event = Mcp!NoEvent]
    BY <1>3, <2>3 DEF Mcp!DeadLettered
  <2> HIDE DEF f
  <2>5. 0 \in 0 .. NoticeAttempts /\ 0 \in 0 .. MaxVersions /\ Mcp!NoEvent \in Mcp!Event
    BY McpIdle DEF Mcp!McpAssumption
  <2>6. /\ note.version \in Nat /\ note.dispatch \in 0 .. MaxVersions /\ note.notified \in Nat
        /\ note.fails \in 0 .. NoticeAttempts /\ note.dispatch \in Nat /\ note.fails \in Nat
    BY <2>1, McpTypes
  <2>7. /\ n \in Mcp!Note /\ n.by = Mcp!None /\ n.version = note.version /\ n.print = note.print
        /\ n.notified = note.notified /\ n.event = Mcp!NoEvent /\ n.dispatch = 0 /\ n.attempt = 0
        /\ n.fails \in Nat
        /\ \/ note.version > note.dispatch /\ n.status = "pending"
           \/ ~(note.version > note.dispatch) /\ n.status = "dead_letter" /\ n.dead = note.dispatch
    BY <2>2, <2>4, <2>5, <2>6 DEF Mcp!Note, Mcp!NoteStatuses
  <2>8. ColumnsFit(n)
    BY <2>1, <2>6, <2>7 DEF ColumnsFit, Mcp!InFlight
  <2>9. Mcp!OutcomeReported'
    <3> SUFFICES ASSUME mcp.status \in Mcp!Terminal PROVE Mcp!OutcomeReported'
      BY <1>1 DEF Mcp!OutcomeReported
    <3>1. Mcp!OutcomeReported /\ note.dispatch <= note.version
      BY <2>1, McpFacts DEF ColumnsFit
    <3>2. note.status # "dead_letter"
      BY <1>3 DEF Mcp!InFlight
    <3>3. CASE n.status = "dead_letter"
      BY <2>3, <2>6, <2>7, <3>1, <3>3 DEF Mcp!OutcomeReported
    <3>4. CASE n.status = "pending"
      <4>1. n.status \in Mcp!Claimable
        BY <3>4 DEF Mcp!Claimable
      <4> QED BY <1>1, <2>3, <2>7, <3>1, <3>2, <4>1 DEF Mcp!OutcomeReported
    <3> QED BY <2>7, <3>3, <3>4
  <2> QED BY <1>1, <2>1, <2>3, <2>7, <2>8, <2>9, McpGivesBack
<1> QED BY <1>2, <1>3 DEF Mcp!GiveUp

(* The run of a dispatched event is looked at.                               *)
LEMMA McpFollow ==
    ASSUME Mcp!McpAssumption, McpInvariant, NEW w \in Workers, Mcp!Follow(w)
    PROVE  McpInvariant'
<1> DEFINE rec == worker[w].rec
           key == <<rec.dispatch, rec.attempt>>
           f   == Mcp!Free(note)
<1>1. /\ worker[w].pc = "claimed" /\ rec.status = "dispatched" /\ Mcp!Unread /\ Mcp!Go(w, Mcp!Idle)
      /\ UNCHANGED <<setup, remote, mcp>>
  BY DEF Mcp!Follow, Mcp!FollowUp
<1>2. PICK state \in {"live", "success", "error"} :
          /\ told[key].state \in {"live", state}
          /\ told' = [told EXCEPT ![key].state = state]
          /\ note' = IF ~(Mcp!Current(w) /\ note.status = "dispatched") THEN note
                     ELSE IF state = "success" THEN Mcp!Delivered
                     ELSE IF state = "error" THEN Mcp!Retried
                     ELSE Mcp!Free(note)
  BY DEF Mcp!Follow, Mcp!FollowUp
<1>3. /\ Mcp!TypeOK /\ note \in Mcp!Note /\ ColumnsFit(note) /\ ClaimFits(w) /\ OutcomeFits
      /\ worker[w] \in Mcp!Worker
      /\ told \in [Mcp!Keys -> [state : {Mcp!None, "live", "success", "error"}, event : Mcp!Event]]
  BY McpFacts DEF Mcp!TypeOK
<1>4. /\ rec.dispatch \in 0 .. MaxVersions /\ rec.attempt \in 0 .. NoticeAttempts
      /\ note.version \in 0 .. MaxVersions /\ note.dispatch \in 0 .. MaxVersions
      /\ note.notified \in 0 .. MaxVersions /\ note.attempt \in 0 .. NoticeAttempts
      /\ note.fails \in 0 .. NoticeAttempts /\ NoticeAttempts \in Nat /\ MaxVersions \in Nat
  BY <1>3, McpTypes, McpWorker
<1>5. rec.dispatch >= 1
  BY <1>1, <1>3 DEF ClaimFits, Notifying
<1>6. key \in Mcp!Keys
  BY <1>4, <1>5 DEF Mcp!Keys
<1> HIDE DEF key
<1>7. told' \in [Mcp!Keys -> [state : {Mcp!None, "live", "success", "error"}, event : Mcp!Event]]
  BY <1>2, <1>3, <1>6
<1>8. /\ told'[key].state = state /\ told'[key].event = told[key].event /\ told[key].state # Mcp!None
      /\ \A k \in Mcp!Keys : k # key => told'[k] = told[k]
  BY <1>2, <1>3, <1>6 DEF Mcp!None
<1>9. \A k \in Mcp!Keys : told'[k].state # Mcp!None
        => told[k].state # Mcp!None /\ told'[k].event = told[k].event
  BY <1>8
<1>10. \A k \in Mcp!Keys : told[k].state = "success" => told'[k] = told[k]
  <2>1. CASE told[key].state = "success"
    <3>1. state = "success"
      BY <1>2, <2>1
    <3>2. told' = told
      BY <1>2, <1>3, <1>6, <2>1, <3>1
    <3> QED BY <3>2
  <2> QED BY <1>8, <2>1
<1>11. PICK n : n = note'
  OBVIOUS
<1>12. /\ f \in Mcp!Note /\ f.by = Mcp!None /\ f.version = note.version /\ f.print = note.print
          /\ f.status = note.status
       /\ f.notified = note.notified /\ f.dispatch = note.dispatch /\ f.event = note.event
       /\ f.attempt = note.attempt /\ f.fails = note.fails
  BY <1>3, McpFree
<1>13. CASE n = note
  <2>1. Mcp!OutcomeReported'
    BY <1>1, <1>10, <1>11, <1>13, McpStillReported
  <2> QED BY <1>1, <1>3, <1>7, <1>9, <1>11, <1>13, <2>1, McpGivesBack
<1>14. CASE n = f /\ note.status = "dispatched"
  <2>1. ColumnsFit(n)
    BY <1>3, <1>12, <1>14 DEF ColumnsFit
  <2>2. "dispatched" \in Mcp!Claimable
    BY DEF Mcp!Claimable, Mcp!InFlight
  <2>3. Mcp!OutcomeReported'
    BY <1>1, <1>10, <1>11, <1>12, <1>14, <2>2, McpStillReported
  <2> QED BY <1>1, <1>7, <1>9, <1>11, <1>12, <1>14, <2>1, <2>3, McpGivesBack
<1>15. CASE n = Mcp!Retried /\ note.status = "dispatched"
  <2>1. note.attempt < NoticeAttempts /\ note.attempt <= note.fails
    BY <1>3, <1>15 DEF ColumnsFit
  <2>8. PICK m : m = Mcp!Failed(note)
    OBVIOUS
  <2>9. /\ m \in Mcp!Note /\ m.by = Mcp!None /\ m.version = note.version
        /\ m.print = note.print /\ m.notified = note.notified /\ m.dispatch = note.dispatch
        /\ m.event = note.event /\ m.attempt = note.attempt /\ m.fails \in 0 .. NoticeAttempts
        /\ m.fails = IF note.fails < NoticeAttempts THEN note.fails + 1 ELSE note.fails
    BY <1>3, <2>8, McpFailed
  <2>2. n = [m EXCEPT !.status = "retry", !.attempt = note.attempt + 1]
    BY <1>15, <2>8, <2>9 DEF Mcp!Retried
  <2>3. note.attempt + 1 \in 0 .. NoticeAttempts /\ note.attempt + 1 <= m.fails
    BY <1>4, <2>1, <2>9
  <2>4. /\ n \in Mcp!Note /\ n.by = Mcp!None /\ n.version = note.version /\ n.print = note.print
           /\ n.status = "retry"
        /\ n.notified = note.notified /\ n.dispatch = note.dispatch /\ n.event = note.event
        /\ n.attempt = note.attempt + 1 /\ n.fails = m.fails
    BY <2>2, <2>3, <2>9 DEF Mcp!Note, Mcp!NoteStatuses
  <2>5. "dispatched" \in Mcp!Claimable /\ "retry" \in Mcp!Claimable /\ "dispatched" \in Mcp!InFlight
    BY DEF Mcp!Claimable, Mcp!InFlight
  <2>6. ColumnsFit(n)
    BY <1>3, <1>4, <1>15, <2>1, <2>3, <2>4, <2>5 DEF ColumnsFit
  <2>7. Mcp!OutcomeReported'
    BY <1>1, <1>10, <1>11, <1>15, <2>4, <2>5, McpStillReported
  <2> QED BY <1>1, <1>7, <1>9, <1>11, <2>4, <2>6, <2>7, McpGivesBack
<1>16. CASE n = Mcp!Delivered /\ note.status = "dispatched" /\ note.dispatch = rec.dispatch /\ state = "success"
  <2>1. n = [f EXCEPT !.notified = note.dispatch,
                      !.status = IF note.version > note.dispatch THEN "pending" ELSE "delivered",
                      !.dispatch = 0, !.attempt = 0, !.event = Mcp!NoEvent, !.fails = 0]
    BY <1>16 DEF Mcp!Delivered
  <2> HIDE DEF f
  <2>2. 0 \in 0 .. NoticeAttempts /\ 0 \in 0 .. MaxVersions /\ Mcp!NoEvent \in Mcp!Event
    BY <1>4, McpIdle
  <2>3. /\ n \in Mcp!Note /\ n.by = Mcp!None /\ n.version = note.version /\ n.print = note.print
        /\ n.notified = note.dispatch /\ n.event = Mcp!NoEvent /\ n.dispatch = 0 /\ n.attempt = 0 /\ n.fails = 0
        /\ \/ note.version > note.dispatch /\ n.status = "pending"
           \/ ~(note.version > note.dispatch) /\ n.status = "delivered"
    BY <1>4, <1>12, <2>1, <2>2 DEF Mcp!Note, Mcp!NoteStatuses
  <2>4. note.dispatch <= note.version
    BY <1>3 DEF ColumnsFit
  <2>5. ColumnsFit(n)
    BY <1>4, <2>3, <2>4 DEF ColumnsFit, Mcp!InFlight
  <2>6. Mcp!OutcomeReported'
    <3> SUFFICES ASSUME mcp.status \in Mcp!Terminal PROVE Mcp!OutcomeReported'
      BY <1>1 DEF Mcp!OutcomeReported
    <3>1. CASE n.status = "pending"
      <4>1. n.status \in Mcp!Claimable /\ n.version > n.notified
        BY <2>3, <3>1 DEF Mcp!Claimable
      <4> QED BY <1>11, <4>1 DEF Mcp!OutcomeReported
    <3>2. CASE note.dispatch = note.version
      <4>1. key[1] = note.version
        BY <1>16, <3>2 DEF key
      <4>2. told[key].event.status = mcp.status
        BY <1>3, <1>6, <1>8, <4>1 DEF OutcomeFits
      <4>3. told'[key].state = "success" /\ told'[key].event.status = mcp'.status
        BY <1>1, <1>8, <1>16, <4>2
      <4> QED BY <1>6, <4>3 DEF Mcp!OutcomeReported
    <3> QED BY <1>4, <2>3, <2>4, <3>1, <3>2
  <2> QED BY <1>1, <1>7, <1>9, <1>11, <2>3, <2>5, <2>6, McpGivesBack
<1>17. \/ n = note
       \/ n = f /\ note.status = "dispatched"
       \/ n = Mcp!Retried /\ note.status = "dispatched"
       \/ n = Mcp!Delivered /\ note.status = "dispatched" /\ note.dispatch = rec.dispatch /\ state = "success"
  BY <1>2, <1>11 DEF Mcp!Current
<1> QED BY <1>13, <1>14, <1>15, <1>16, <1>17

(* What a notifier takes the row for when it claims it.                      *)
LEMMA McpClaimed ==
    ASSUME Mcp!McpAssumption, NEW w \in Workers, worker[w] \in Mcp!Worker, NEW new, new = Mcp!ClaimedRec(w)
    PROVE  /\ new \in Mcp!Record /\ new.version = worker[w].rec.version
           /\ Mcp!Rebuilds(worker[w].rec) =>
                 /\ new.status = "claimed" /\ new.dispatch = worker[w].rec.version /\ new.event = worker[w].made
                 /\ \/ new.attempt = 0 /\ new.fails = 0
                    \/ /\ worker[w].rec.dispatch = worker[w].rec.version
                       /\ new.attempt = worker[w].rec.attempt /\ new.fails = worker[w].rec.fails
           /\ ~Mcp!Rebuilds(worker[w].rec) => new = worker[w].rec
<1> DEFINE rec == worker[w].rec
           made == worker[w].made
<1>1. rec \in Mcp!Record /\ made \in Mcp!Event /\ rec.version \in 0 .. MaxVersions
  BY McpWorker
<1>2. new = IF Mcp!Rebuilds(rec)
            THEN [rec EXCEPT !.status = "claimed", !.dispatch = rec.version, !.event = made,
                             !.attempt = IF rec.dispatch # rec.version THEN 0 ELSE @,
                             !.fails   = IF rec.dispatch # rec.version THEN 0 ELSE @]
            ELSE rec
  BY DEF Mcp!ClaimedRec
<1> HIDE DEF rec, made
<1>3. 0 \in 0 .. NoticeAttempts
  BY DEF Mcp!McpAssumption
<1>4. /\ new \in Mcp!Record /\ new.version = rec.version
      /\ Mcp!Rebuilds(rec) =>
            /\ new.status = "claimed" /\ new.dispatch = rec.version /\ new.event = made
            /\ \/ new.attempt = 0 /\ new.fails = 0
               \/ rec.dispatch = rec.version /\ new.attempt = rec.attempt /\ new.fails = rec.fails
      /\ ~Mcp!Rebuilds(rec) => new = rec
  BY <1>1, <1>2, <1>3 DEF Mcp!Record, Mcp!NoteStatuses
<1> QED BY <1>4 DEF rec, made

(* The columns after the claim: those the notifier changed, and the rest as  *)
(* they are now.                                                             *)
Written(new, rec, w) ==
    [f \in DOMAIN note |->
        IF f = "by" THEN w ELSE IF f = "fresh" THEN TRUE
        ELSE IF f \in DOMAIN rec /\ new[f] # rec[f] THEN new[f] ELSE note[f]]

LEMMA McpWritten ==
    ASSUME note \in Mcp!Note, NEW new \in Mcp!Record, NEW rec \in Mcp!Record, NEW w \in Workers, NEW n,
           n = Written(new, rec, w)
    PROVE  /\ n \in Mcp!Note /\ n.by = w /\ n.print = note.print /\ n.notified = note.notified
           /\ n.version = IF new.version # rec.version THEN new.version ELSE note.version
           /\ n.status = IF new.status # rec.status THEN new.status ELSE note.status
           /\ n.dispatch = IF new.dispatch # rec.dispatch THEN new.dispatch ELSE note.dispatch
           /\ n.event = IF new.event # rec.event THEN new.event ELSE note.event
           /\ n.attempt = IF new.attempt # rec.attempt THEN new.attempt ELSE note.attempt
           /\ n.fails = IF new.fails # rec.fails THEN new.fails ELSE note.fails
BY DEF Written, Mcp!Note, Mcp!Record, Mcp!Owners

LEMMA McpClaimWork ==
    ASSUME Mcp!McpAssumption, McpInvariant, NEW w \in Workers, Mcp!ClaimWork(w)
    PROVE  McpInvariant'
<1>1. PICK rec : rec = worker[w].rec
  OBVIOUS
<1>2. PICK new : new = Mcp!ClaimedRec(w)
  OBVIOUS
<1>3. PICK made : made = worker[w].made
  OBVIOUS
<1>4. PICK n : n = Written(new, rec, w)
  OBVIOUS
<1> DEFINE s == [Mcp!Idle EXCEPT !.pc = "claimed", !.rec = [new EXCEPT !.version = 0]]
<1>5. /\ worker[w].pc = "read" /\ new.event # Mcp!NoEvent /\ note' = n /\ Mcp!Go(w, s)
      /\ UNCHANGED <<setup, remote, mcp, told>>
  BY <1>1, <1>2, <1>4 DEF Mcp!ClaimWork, Written
<1>6. /\ Mcp!TypeOK /\ note \in Mcp!Note /\ ColumnsFit(note) /\ ReadFits(worker[w]) /\ OutcomeFits
         /\ ToldFits(worker[w])
      /\ OneReads /\ worker[w] \in Mcp!Worker
      /\ told \in [Mcp!Keys -> [state : {Mcp!None, "live", "success", "error"}, event : Mcp!Event]]
  BY McpFacts DEF Mcp!TypeOK
<1>7. /\ rec \in Mcp!Record /\ made \in Mcp!Event /\ rec.version \in 0 .. MaxVersions
         /\ rec.dispatch \in 0 .. MaxVersions
      /\ rec.attempt \in 0 .. NoticeAttempts /\ rec.fails \in 0 .. NoticeAttempts
      /\ note.version \in 0 .. MaxVersions /\ note.dispatch \in 0 .. MaxVersions
         /\ note.notified \in 0 .. MaxVersions
      /\ note.attempt \in 0 .. NoticeAttempts /\ note.fails \in 0 .. NoticeAttempts
      /\ MaxVersions \in Nat /\ NoticeAttempts \in Nat
  BY <1>1, <1>3, <1>6, McpTypes, McpWorker
<1>8. /\ new \in Mcp!Record /\ new.version = rec.version
      /\ Mcp!Rebuilds(rec) =>
            /\ new.status = "claimed" /\ new.dispatch = rec.version /\ new.event = made
            /\ \/ new.attempt = 0 /\ new.fails = 0
               \/ rec.dispatch = rec.version /\ new.attempt = rec.attempt /\ new.fails = rec.fails
      /\ ~Mcp!Rebuilds(rec) => new = rec
  BY <1>1, <1>2, <1>3, <1>6, McpClaimed
<1>9. /\ n \in Mcp!Note /\ n.by = w /\ n.print = note.print /\ n.notified = note.notified
      /\ n.version = IF new.version # rec.version THEN new.version ELSE note.version
      /\ n.status = IF new.status # rec.status THEN new.status ELSE note.status
      /\ n.dispatch = IF new.dispatch # rec.dispatch THEN new.dispatch ELSE note.dispatch
      /\ n.event = IF new.event # rec.event THEN new.event ELSE note.event
      /\ n.attempt = IF new.attempt # rec.attempt THEN new.attempt ELSE note.attempt
      /\ n.fails = IF new.fails # rec.fails THEN new.fails ELSE note.fails
  <2>1. note \in Mcp!Note
    BY <1>6
  <2>2. rec \in Mcp!Record /\ new \in Mcp!Record
    BY <1>7, <1>8
  <2> QED BY <1>4, <2>1, <2>2, McpWritten
<1>10. /\ rec.status \in Mcp!Claimable /\ rec.version >= 1 /\ rec.version <= note.version
       /\ rec.dispatch <= rec.version /\ rec.attempt <= rec.fails
       /\ rec.status \in Mcp!InFlight => rec.event # Mcp!NoEvent
       /\ rec.status = "pending" => rec.event = Mcp!NoEvent
       /\ rec.status \in {"launching", "dispatched"} => rec.dispatch >= 1
       /\ note.status \in Mcp!Claimable /\ note.version > note.notified
       /\ \/ /\ note.status = rec.status /\ note.dispatch = rec.dispatch /\ note.event = rec.event
             /\ note.attempt = rec.attempt /\ note.fails = rec.fails
          \/ /\ rec.status = "pending" /\ note.status = "pending" /\ rec.version < note.version
             /\ note.dispatch = 0 /\ note.event = Mcp!NoEvent /\ note.attempt = 0 /\ note.fails = 0
  BY <1>1, <1>5, <1>6 DEF ReadFits
<1>11. n.version = note.version
  BY <1>8, <1>9
<1>12. /\ new.dispatch >= 1 /\ new.dispatch <= note.version /\ new.dispatch <= rec.version
       /\ new.attempt <= new.fails
       /\ new.status \in Mcp!InFlight
  <2>1. CASE Mcp!Rebuilds(rec)
    BY <1>7, <1>8, <1>10, <2>1 DEF Mcp!InFlight
  <2>2. CASE ~Mcp!Rebuilds(rec)
    <3>1. rec.status \in {"launching", "dispatched"} \/ (rec.status = "retry" /\ rec.dispatch = rec.version)
      BY <1>10, <2>2 DEF Mcp!Rebuilds, Mcp!Claimable, Mcp!InFlight
    <3> QED BY <1>7, <1>8, <1>10, <2>2, <3>1 DEF Mcp!InFlight
  <2> QED BY <2>1, <2>2
<1>13. /\ n.status = new.status /\ n.fails <= new.fails /\ n.attempt <= n.fails /\ n.dispatch <= n.version
       /\ n.event = new.event
       /\ \/ n.dispatch = new.dispatch /\ note.dispatch = rec.dispatch /\ note.event = rec.event
             /\ note.status = rec.status /\ note.fails = rec.fails
          \/ Mcp!Rebuilds(rec) /\ n.dispatch < n.version /\ rec.version < note.version
  <2>1. CASE /\ note.status = rec.status /\ note.dispatch = rec.dispatch /\ note.event = rec.event
             /\ note.attempt = rec.attempt /\ note.fails = rec.fails
    <3>1. /\ n.status = new.status /\ n.dispatch = new.dispatch /\ n.event = new.event
          /\ n.attempt = new.attempt /\ n.fails = new.fails
      BY <1>9, <2>1
    <3>2. new.fails \in 0 .. NoticeAttempts
      BY <1>8 DEF Mcp!Record
    <3> QED BY <1>7, <1>11, <1>12, <2>1, <3>1, <3>2
  <2>2. CASE /\ rec.status = "pending" /\ note.status = "pending" /\ rec.version < note.version
             /\ note.dispatch = 0 /\ note.event = Mcp!NoEvent /\ note.attempt = 0 /\ note.fails = 0
    <3>1. Mcp!Rebuilds(rec) /\ new.status = "claimed" /\ new.dispatch = rec.version /\ rec.event = Mcp!NoEvent
      BY <1>8, <1>10, <2>2 DEF Mcp!Rebuilds
    <3>2. n.status = new.status /\ n.event = new.event
      BY <1>5, <1>9, <2>2, <3>1
    <3>3. n.dispatch \in {0, rec.version} /\ n.dispatch < n.version
      BY <1>7, <1>9, <1>10, <1>11, <2>2, <3>1
    <3>4. n.attempt = 0 /\ n.fails = 0
      BY <1>8, <1>9, <2>2, <3>1
    <3>5. new.fails \in Nat
      BY <1>8 DEF Mcp!Record
    <3> QED BY <1>7, <1>11, <2>2, <3>1, <3>2, <3>3, <3>4, <3>5
  <2> QED BY <1>10, <2>1, <2>2
<1>14. ColumnsFit(n)
  <2>1. /\ n.status \in {"launching", "dispatched"} => n.dispatch >= 1 /\ n.attempt < NoticeAttempts
        /\ n.status = "launching" => n.fails < NoticeAttempts
    <3> SUFFICES ASSUME n.status \in {"launching", "dispatched"}
                 PROVE  /\ n.dispatch >= 1 /\ n.attempt < NoticeAttempts
                        /\ n.status = "launching" => n.fails < NoticeAttempts
      OBVIOUS
    <3>1. ~Mcp!Rebuilds(rec)
      BY <1>8, <1>13
    <3>2. /\ new = rec /\ note.status = rec.status /\ n.dispatch = new.dispatch /\ note.fails = rec.fails
      BY <1>8, <1>13, <3>1
    <3>3. n.attempt = note.attempt /\ n.fails = note.fails /\ n.status = note.status
      BY <1>9, <1>13, <3>2
    <3>4. note.attempt < NoticeAttempts /\ (note.status = "launching" => note.fails < NoticeAttempts)
      BY <1>6, <3>3 DEF ColumnsFit
    <3> QED BY <1>12, <3>2, <3>3, <3>4
  <2>2. n.notified <= n.version
    BY <1>6, <1>9, <1>11 DEF ColumnsFit
  <2> QED BY <1>5, <1>12, <1>13, <2>1, <2>2 DEF ColumnsFit, Mcp!InFlight
<1>0. PICK r : r = [new EXCEPT !.version = 0]
  OBVIOUS
<1>25. /\ r \in Mcp!Record /\ r.dispatch = new.dispatch /\ r.event = new.event
       /\ r.status = new.status /\ r.fails = new.fails
  <2>1. 0 \in 0 .. MaxVersions
    BY <1>7
  <2> QED BY <1>0, <1>8, <2>1 DEF Mcp!Record
<1>26. s = [Mcp!Idle EXCEPT !.pc = "claimed", !.rec = r]
  BY <1>0
<1> HIDE DEF s
<1>15. s \in Mcp!Worker /\ s.pc = "claimed" /\ s.rec.dispatch = new.dispatch /\ s.rec.event = new.event
       /\ s.rec.status = new.status /\ s.rec.fails = new.fails
  BY <1>25, <1>26, McpIdle DEF Mcp!Worker
<1>16. worker' \in [Workers -> Mcp!Worker] /\ worker'[w] = s
  BY <1>5, <1>6, <1>15, McpGo
<1>17. ClaimFits(w)'
  BY <1>5, <1>11, <1>12, <1>13, <1>15, <1>16 DEF ClaimFits
<1>18. mcp.status \in Mcp!Terminal /\ new.dispatch = note.version => new.event.status = mcp.status
  <2> SUFFICES ASSUME mcp.status \in Mcp!Terminal, new.dispatch = note.version
      PROVE new.event.status = mcp.status
    OBVIOUS
  <2>1. CASE Mcp!Rebuilds(rec)
    <3>1. rec.version = note.version /\ new.event = made
      BY <1>8, <2>1
    <3> QED BY <1>1, <1>3, <1>5, <1>6, <3>1 DEF ToldFits
  <2>2. CASE ~Mcp!Rebuilds(rec)
    <3>1. new = rec /\ note.dispatch = rec.dispatch /\ note.event = rec.event
      BY <1>8, <1>13, <2>2
    <3> QED BY <1>5, <1>6, <3>1 DEF OutcomeFits
  <2> QED BY <2>1, <2>2
<1>19. ToldFits(worker[w])'
  BY <1>5, <1>11, <1>15, <1>16, <1>18 DEF ToldFits
<1>20. WorkerFits(w)'
  BY <1>15, <1>16, <1>17, <1>19 DEF WorkerFits, ReadFits, AnswerFits
<1>21. mcp.status \in Mcp!Terminal
         => (n.dispatch = n.version /\ n.event # Mcp!NoEvent => n.event.status = mcp.status)
  BY <1>7, <1>11, <1>13, <1>18
<1>22. \A v \in Workers : v # w => worker[v].pc # "read"
  BY <1>5, <1>6 DEF OneReads
<1>23. n.status \in Mcp!Claimable /\ note.status \in Mcp!Claimable
  BY <1>10, <1>12, <1>13 DEF Mcp!Claimable
<1>24. Mcp!OutcomeReported'
  BY <1>5, <1>9, <1>11, <1>23, McpStillReported
<1> QED BY <1>5, <1>6, <1>9, <1>11, <1>14, <1>15, <1>20, <1>21, <1>22, <1>24, McpTold

(* What the event stood for is over.                                         *)
LEMMA McpConsumeWork ==
    ASSUME Mcp!McpAssumption, McpInvariant, NEW w \in Workers, Mcp!ConsumeWork(w)
    PROVE  McpInvariant'
<1> DEFINE rec     == worker[w].rec
           made    == worker[w].made
           version == IF Mcp!Rebuilds(rec) THEN rec.version ELSE rec.dispatch
<1>1. /\ worker[w].pc = "read" /\ Mcp!ClaimedRec(w).event = Mcp!NoEvent /\ Mcp!Go(w, Mcp!Idle)
      /\ note' = IF note.version = version /\ note.status = rec.status THEN Mcp!Consumed(version) ELSE note
      /\ UNCHANGED <<setup, remote, mcp, told>>
  BY DEF Mcp!ConsumeWork
<1>2. /\ Mcp!TypeOK /\ note \in Mcp!Note /\ ReadFits(worker[w]) /\ ToldFits(worker[w]) /\ OneReads
         /\ worker[w] \in Mcp!Worker
      /\ told \in [Mcp!Keys -> [state : {Mcp!None, "live", "success", "error"}, event : Mcp!Event]]
  BY McpFacts DEF Mcp!TypeOK
<1>3. CASE note' = note
  BY <1>1, <1>3, McpRests
<1>4. CASE note.version = version /\ note.status = rec.status /\ note' = Mcp!Consumed(version)
  <2>1. PICK new : new = Mcp!ClaimedRec(w)
    OBVIOUS
  <2>2. /\ Mcp!Rebuilds(rec) => new.event = made
        /\ ~Mcp!Rebuilds(rec) => new = rec
    BY <1>2, <2>1, McpClaimed
  <2>3. rec.status \in Mcp!Claimable /\ (rec.status \in Mcp!InFlight => rec.event # Mcp!NoEvent)
    BY <1>1, <1>2 DEF ReadFits
  <2>4. Mcp!Rebuilds(rec)
    <3>1. rec.status \in Mcp!InFlight \/ rec.status = "pending"
      BY <2>3 DEF Mcp!Claimable
    <3> QED BY <1>1, <2>1, <2>2, <2>3, <3>1 DEF Mcp!Rebuilds
  <2>5. made = Mcp!NoEvent /\ rec.version = note.version
    BY <1>1, <1>4, <2>1, <2>2, <2>4
  <2>6. mcp.status \notin Mcp!Terminal
    <3>1. mcp.status \in Mcp!Terminal => made.status = mcp.status
      BY <1>1, <1>2, <2>5 DEF ToldFits
    <3> QED BY <2>5, <3>1 DEF Mcp!NoEvent, Mcp!Terminal, Mcp!None
  <2>7. PICK n : n = note'
    OBVIOUS
  <2>8. n = [Mcp!FreshNote EXCEPT !.version = note.version, !.notified = note.version, !.dead = note.dead]
    BY <1>4, <2>7 DEF Mcp!Consumed
  <2>9. /\ note.version \in 0 .. MaxVersions /\ note.dead \in 0 .. MaxVersions /\ NoticeAttempts \in Nat
           /\ MaxVersions \in Nat
    BY <1>2, McpTypes
  <2>10. 0 \in 0 .. MaxVersions /\ 0 \in 0 .. NoticeAttempts /\ Mcp!NoEvent \in Mcp!Event
    BY <2>9, McpIdle
  <2>11. /\ n \in Mcp!Note /\ n.status = Mcp!None /\ n.version = note.version /\ n.print = Mcp!NoEvent
            /\ n.notified = note.version
         /\ n.dispatch = 0 /\ n.event = Mcp!NoEvent /\ n.attempt = 0 /\ n.fails = 0 /\ n.by = Mcp!None
    BY <2>8, <2>9, <2>10 DEF Mcp!Note, Mcp!FreshNote, Mcp!NoteStatuses, Mcp!Owners
  <2>12. ColumnsFit(n)
    BY <2>9, <2>11 DEF ColumnsFit, Mcp!InFlight, Mcp!None
  <2>13. Mcp!OutcomeReported'
    BY <1>1, <2>6 DEF Mcp!OutcomeReported
  <2>14. Mcp!Idle \in Mcp!Worker /\ Mcp!Idle.pc = "idle" /\ worker'[w] = Mcp!Idle
    BY <1>1, <1>2, McpIdle, McpGo
  <2>15. WorkerFits(w)'
    BY <2>14 DEF WorkerFits, ReadFits, ClaimFits, AnswerFits, ToldFits, Notifying
  <2>16. \A v \in Workers : v # w => worker[v].pc # "read"
    BY <1>1, <1>2 DEF OneReads
  <2>17. \A key \in Mcp!Keys : told'[key].state # Mcp!None
           => told[key].state # Mcp!None /\ told'[key].event = told[key].event
    BY <1>1
  <2> QED BY <1>1, <1>2, <2>6, <2>7, <2>11, <2>12, <2>13, <2>14, <2>15, <2>16, <2>17, McpTold
<1> QED BY <1>1, <1>3, <1>4

LEMMA McpLaunch ==
    ASSUME Mcp!McpAssumption, McpInvariant, NEW w \in Workers, Mcp!Launch(w)
    PROVE  McpInvariant'
<1> DEFINE rec == worker[w].rec
           key == <<rec.dispatch, rec.attempt>>
           s   == [worker[w] EXCEPT !.pc = "launched"]
<1>1. /\ worker[w].pc = "launch" /\ Mcp!To(w, "launched") /\ UNCHANGED <<setup, remote, mcp, note>>
      /\ told' = IF told[key].state # Mcp!None THEN told ELSE [told EXCEPT ![key] = [state |-> "live", event |-> rec.event]]
  BY DEF Mcp!Launch
<1>2. /\ Mcp!TypeOK /\ ColumnsFit(note) /\ RunsFit /\ TaskFits /\ OutcomeFits /\ Mcp!OutcomeReported /\ OneReads
      /\ \A v \in Workers : ReadFits(worker[v]) /\ ClaimFits(v) /\ AnswerFits(v) /\ ToldFits(worker[v])
      /\ worker \in [Workers -> Mcp!Worker] /\ worker[w] \in Mcp!Worker
      /\ told \in [Mcp!Keys -> [state : {Mcp!None, "live", "success", "error"}, event : Mcp!Event]]
  BY McpFacts DEF Mcp!TypeOK
<1>3. /\ rec.dispatch \in 0 .. MaxVersions /\ rec.attempt \in 0 .. NoticeAttempts /\ rec.event \in Mcp!Event
      /\ MaxVersions \in Nat
  BY <1>2, McpTypes, McpWorker
<1>4. rec.dispatch >= 1 /\ rec.dispatch <= note.version /\ rec.event # Mcp!NoEvent
  BY <1>1, <1>2 DEF ClaimFits, Notifying
<1>5. key \in Mcp!Keys /\ key[1] = rec.dispatch
  BY <1>3, <1>4 DEF Mcp!Keys
<1>6. s \in Mcp!Worker /\ s.pc = "launched" /\ s.rec = rec /\ Mcp!Go(w, s)
  BY <1>1, <1>2 DEF Mcp!Worker, Mcp!To, Mcp!Go
<1>13. mcp.status \in Mcp!Terminal /\ rec.dispatch = note.version => rec.event.status = mcp.status
  BY <1>1, <1>2 DEF ToldFits, Notifying
<1> HIDE DEF s, key
<1>7. worker' \in [Workers -> Mcp!Worker] /\ worker'[w] = s /\ \A v \in Workers : v # w
        => worker'[v] = worker[v]
  BY <1>2, <1>6, McpGo
<1>8. /\ told' \in [Mcp!Keys -> [state : {Mcp!None, "live", "success", "error"}, event : Mcp!Event]]
      /\ \A k \in Mcp!Keys : told[k].state # Mcp!None => told'[k] = told[k]
      /\ \A k \in Mcp!Keys : told'[k] = told[k] \/ (k = key /\ told'[k].event = rec.event)
  <2>1. CASE told' = told
    BY <1>2, <2>1
  <2>2. CASE told[key].state = Mcp!None
             /\ told' = [told EXCEPT ![key] = [state |-> "live", event |-> rec.event]]
    <3>1. [state |-> "live", event |-> rec.event] \in [state : {Mcp!None, "live", "success", "error"}, event
              : Mcp!Event]
      BY <1>3
    <3> QED BY <1>2, <1>5, <2>2, <3>1
  <2> QED BY <1>1, <2>1, <2>2
<1>9. Mcp!TypeOK'
  BY <1>1, <1>2, <1>7, <1>8 DEF Mcp!TypeOK
<1>10. ColumnsFit(note)' /\ TaskFits'
  BY <1>1, <1>2 DEF ColumnsFit, TaskFits
<1>11. RunsFit'
  BY <1>1, <1>2, <1>4, <1>5, <1>8 DEF RunsFit
<1>12. OutcomeFits'
  <2> SUFFICES ASSUME mcp.status \in Mcp!Terminal PROVE OutcomeFits'
    BY <1>1 DEF OutcomeFits
  <2>1. note.version >= 1
        /\ (note.dispatch = note.version /\ note.event # Mcp!NoEvent => note.event.status = mcp.status)
    BY <1>2 DEF OutcomeFits
  <2>2. \A k \in Mcp!Keys : k[1] = note.version /\ told'[k].state # Mcp!None
          => told'[k].event.status = mcp.status
    BY <1>2, <1>5, <1>8, <1>13 DEF OutcomeFits
  <2> QED BY <1>1, <2>1, <2>2 DEF OutcomeFits
<1>14. Mcp!OutcomeReported'
  <2>1. \A k \in Mcp!Keys : told[k].state = "success" => told'[k] = told[k]
    BY <1>8 DEF Mcp!None
  <2> QED BY <1>1, <1>2, <2>1 DEF Mcp!OutcomeReported
<1>15. OneReads'
  BY <1>2, <1>6, <1>7 DEF OneReads
<1>16. ASSUME NEW v \in Workers PROVE WorkerFits(v)'
  <2>1. CASE v # w
    <3>1. worker'[v] = worker[v] /\ ReadFits(worker[v]) /\ ClaimFits(v) /\ AnswerFits(v) /\ ToldFits(worker[v])
      BY <1>2, <1>7, <2>1
    <3> QED BY <1>1, <3>1 DEF WorkerFits, ReadFits, ClaimFits, AnswerFits, ToldFits
  <2>2. CASE v = w
    <3>1. ClaimFits(w) /\ ToldFits(worker[w]) /\ worker'[w].pc = "launched" /\ worker'[w].rec = rec
      BY <1>2, <1>6, <1>7
    <3>2. ClaimFits(w)'
      BY <1>1, <3>1 DEF ClaimFits, Notifying
    <3>3. ToldFits(worker[w])'
      BY <1>1, <1>13, <3>1 DEF ToldFits
    <3> QED BY <2>2, <3>1, <3>2, <3>3 DEF WorkerFits, ReadFits, AnswerFits
  <2> QED BY <2>1, <2>2
<1> QED BY <1>9, <1>10, <1>11, <1>12, <1>14, <1>15, <1>16 DEF McpInvariant

LEMMA McpLeaseExpires ==
    ASSUME Mcp!McpAssumption, McpInvariant, Mcp!LeaseExpires
    PROVE  McpInvariant'
<1>1. /\ Mcp!TypeOK /\ ColumnsFit(note) /\ RunsFit /\ TaskFits /\ OutcomeFits /\ Mcp!OutcomeReported /\ OneReads
      /\ \A v \in Workers : ReadFits(worker[v]) /\ ClaimFits(v) /\ AnswerFits(v) /\ ToldFits(worker[v])
      /\ note \in Mcp!Note /\ mcp \in Mcp!Task /\ remote \in Mcp!Snapshot /\ worker \in [Workers -> Mcp!Worker]
  BY McpFacts DEF Mcp!TypeOK
<1>2. UNCHANGED <<setup, remote, told, worker>>
  BY DEF Mcp!LeaseExpires
<1>3. CASE mcp' = [mcp EXCEPT !.fresh = FALSE] /\ UNCHANGED note
  <2>1. mcp' \in Mcp!Task /\ mcp'.status = mcp.status /\ mcp'.seen = mcp.seen /\ mcp'.by = mcp.by
    BY <1>1, <1>3 DEF Mcp!Task
  <2>2. TaskFits' /\ OneReads' /\ \A v \in Workers : AnswerFits(v)'
    BY <1>1, <1>2, <1>3, <2>1 DEF TaskFits, OneReads, AnswerFits
  <2> QED BY <1>1, <1>2, <1>3, <2>1, <2>2, McpControls
<1>4. CASE note' = [note EXCEPT !.fresh = FALSE] /\ UNCHANGED mcp
  <2>1. PICK n : n = note'
    OBVIOUS
  <2>2. /\ n \in Mcp!Note /\ n.by = note.by /\ n.version = note.version /\ n.print = note.print
        /\ n.status = note.status /\ n.dead = note.dead
        /\ n.notified = note.notified /\ n.dispatch = note.dispatch /\ n.event = note.event
        /\ n.attempt = note.attempt /\ n.fails = note.fails
    BY <1>1, <1>4, <2>1 DEF Mcp!Note
  <2>3. Mcp!TypeOK'
    BY <1>1, <1>2, <1>4, <2>1, <2>2 DEF Mcp!TypeOK
  <2>4. ColumnsFit(n)
    BY <1>1, <2>2 DEF ColumnsFit
  <2>5. RunsFit' /\ TaskFits' /\ OutcomeFits' /\ Mcp!OutcomeReported' /\ OneReads'
    BY <1>1, <1>2, <1>4, <2>1, <2>2 DEF RunsFit, TaskFits, OutcomeFits, Mcp!OutcomeReported, OneReads
  <2>6. ASSUME NEW v \in Workers PROVE WorkerFits(v)'
    <3>1. ReadFits(worker[v]) /\ ClaimFits(v) /\ AnswerFits(v) /\ ToldFits(worker[v])
      BY <1>1
    <3>2. ReadFits(worker[v])'
      BY <1>2, <2>1, <2>2, <3>1 DEF ReadFits
    <3>3. ClaimFits(v)' /\ AnswerFits(v)' /\ ToldFits(worker[v])'
      BY <1>2, <1>4, <2>1, <2>2, <3>1 DEF ClaimFits, AnswerFits, ToldFits
    <3> QED BY <3>2, <3>3 DEF WorkerFits
  <2>7. ColumnsFit(note)'
    BY <2>1, <2>4 DEF ColumnsFit
  <2> QED BY <2>3, <2>5, <2>6, <2>7 DEF McpInvariant
<1> QED BY <1>3, <1>4 DEF Mcp!LeaseExpires

LEMMA McpInits ==
    ASSUME Mcp!McpAssumption, Mcp!Init
    PROVE  McpInvariant
<1>1. /\ setup \in McpSetups /\ remote = [status |-> "working", at |-> 0] /\ note = Mcp!FreshNote
      /\ mcp = [status |-> "working", cancel |-> FALSE, errors |-> 0, by |-> Mcp!None, fresh |-> FALSE, seen |-> 0]
      /\ told = [k \in Mcp!Keys |-> [state |-> Mcp!None, event |-> Mcp!NoEvent]]
         /\ worker = [w \in Workers |-> Mcp!Idle]
  BY DEF Mcp!Init
<1>2. Mcp!Idle \in Mcp!Worker /\ Mcp!Idle.pc = "idle" /\ Mcp!NoEvent \in Mcp!Event /\ "working" \in Mcp!Statuses
      /\ "working" \notin Mcp!Terminal
  BY McpIdle DEF Mcp!Statuses, Mcp!Attention, Mcp!Terminal
<1>3. 0 \in 0 .. MaxMoves /\ 0 \in 0 .. DegradedAfter /\ 0 \in 0 .. MaxVersions /\ 0 \in 0 .. NoticeAttempts
  BY DEF Mcp!McpAssumption
<1>4. remote \in Mcp!Snapshot /\ mcp \in Mcp!Task /\ note \in Mcp!Note
  BY <1>1, <1>2, <1>3 DEF Mcp!Snapshot, Mcp!Task, Mcp!Note, Mcp!FreshNote, Mcp!NoteStatuses, Mcp!Owners
<1>5. told \in [Mcp!Keys -> [state : {Mcp!None, "live", "success", "error"}, event : Mcp!Event]]
      /\ worker \in [Workers -> Mcp!Worker]
  BY <1>1, <1>2
<1>6. ColumnsFit(note)
  BY <1>1 DEF ColumnsFit, Mcp!FreshNote, Mcp!InFlight, Mcp!None
<1>7. RunsFit
  BY <1>1 DEF RunsFit
<1>8. TaskFits
  BY <1>1, <1>2 DEF TaskFits, Mcp!FreshNote, Mcp!NoEvent, Mcp!Terminal, Mcp!None
<1>9. OutcomeFits /\ Mcp!OutcomeReported
  BY <1>1, <1>2 DEF OutcomeFits, Mcp!OutcomeReported
<1>10. OneReads /\ \A w \in Workers : WorkerFits(w)
  BY <1>1, <1>2, McpQuiet DEF OneReads
<1>11. Mcp!TypeOK
  BY <1>1, <1>4, <1>5 DEF Mcp!TypeOK
<1> QED BY <1>6, <1>7, <1>8, <1>9, <1>10, <1>11 DEF McpInvariant

LEMMA McpStep ==
    ASSUME Mcp!McpAssumption, McpInvariant, [Mcp!Next]_(Mcp!vars)
    PROVE  McpInvariant'
<1>1. CASE UNCHANGED Mcp!vars
  <2>1. UNCHANGED <<setup, remote, mcp, note, told, worker>>
    BY <1>1 DEF Mcp!vars
  <2>2. Mcp!TypeOK' /\ ColumnsFit(note)' /\ RunsFit' /\ TaskFits' /\ OutcomeFits' /\ Mcp!OutcomeReported'
        /\ OneReads'
    BY <2>1, McpFacts
       DEF Mcp!TypeOK, ColumnsFit, RunsFit, TaskFits, OutcomeFits, Mcp!OutcomeReported, OneReads
  <2>3. ASSUME NEW w \in Workers PROVE WorkerFits(w)'
    BY <2>1, McpFacts DEF WorkerFits, ReadFits, ClaimFits, AnswerFits, ToldFits
  <2> QED BY <2>2, <2>3 DEF McpInvariant
<1>2. ASSUME NEW w \in Workers,
             \/ Mcp!ClaimControl(w) \/ Mcp!Ask(w) \/ Mcp!Apply(w) \/ Mcp!ReleaseClaim(w)
             \/ Mcp!AskCancel(w) \/ Mcp!ApplyCancel(w) \/ Mcp!StopControl(w)
             \/ Mcp!ReadWork(w) \/ Mcp!ClaimWork(w) \/ Mcp!ConsumeWork(w) \/ Mcp!Follow(w) \/ Mcp!GiveUp(w)
             \/ Mcp!BeginLaunch(w) \/ Mcp!Launch(w) \/ Mcp!MarkDispatched(w) \/ Mcp!StopNotify(w)
                  \/ Mcp!Crash(w)
      PROVE  McpInvariant'
  BY <1>2, McpClaimControl, McpAsk, McpApply, McpReleaseClaim, McpAskCancel, McpApplyCancel, McpStopControl,
     McpReadWork, McpClaimWork, McpConsumeWork, McpFollow, McpGiveUp, McpBeginLaunch, McpLaunch,
     McpMarkDispatched, McpStopNotify, McpCrash
<1> QED BY <1>1, <1>2, McpRemoteMoves, McpRequestCancel, McpLeaseExpires DEF Mcp!Next

(* The invariant holds in every behaviour of a task (McpTaskRepository).     *)
THEOREM McpIsInvariant == Mcp!McpAssumption => (Mcp!Spec => []McpInvariant)
<1> SUFFICES ASSUME Mcp!McpAssumption PROVE Mcp!Spec => []McpInvariant
  OBVIOUS
<1>1. Mcp!Init => McpInvariant
  BY McpInits
<1>2. McpInvariant /\ [Mcp!Next]_(Mcp!vars) => McpInvariant'
  BY McpStep
<1> QED BY <1>1, <1>2, PTL DEF Mcp!Spec

(* The outcome of a task is not lost on the way to its thread                *)
(* (finish_notification_run, dead_letter_notification).                      *)
THEOREM McpOutcome == Mcp!McpAssumption => (Mcp!Spec => []Mcp!OutcomeReported)
<1> SUFFICES ASSUME Mcp!McpAssumption PROVE Mcp!Spec => []Mcp!OutcomeReported
  OBVIOUS
<1>1. Mcp!Spec => []McpInvariant
  BY McpIsInvariant
<1>2. McpInvariant => Mcp!OutcomeReported
  BY McpFacts
<1> QED BY <1>1, <1>2, PTL

(* No step puts a task behind an answer that was applied before (SnapshotsInOrder). *)
LEMMA McpSnapshots ==
    ASSUME Mcp!McpAssumption, McpInvariant, [Mcp!Next]_(Mcp!vars)
    PROVE  [mcp'.seen >= mcp.seen]_(Mcp!vars)
<1>1. Mcp!TypeOK /\ mcp \in Mcp!Task /\ \A w \in Workers : AnswerFits(w)
  BY McpFacts DEF Mcp!TypeOK
<1>2. mcp.seen \in Nat
  BY <1>1, McpTypes
<1>3. CASE mcp'.seen = mcp.seen
  BY <1>2, <1>3
<1>4. ASSUME NEW w \in Workers, Mcp!Apply(w) \/ Mcp!ApplyCancel(w) PROVE mcp'.seen >= mcp.seen
  <2>1. CASE mcp' = mcp
    BY <1>2, <2>1
  <2>2. CASE mcp.by = w /\ mcp'.seen = worker[w].got.at /\ worker[w].pc \in {"polled", "cancelled"}
    BY <1>1, <2>2 DEF AnswerFits
  <2>3. mcp' = mcp \/ (mcp.by = w /\ mcp'.seen = worker[w].got.at /\ worker[w].pc \in {"polled", "cancelled"})
    <3> DEFINE u == Mcp!Unclaimed(mcp)
               st == worker[w].got.status
               at == worker[w].got.at
    <3>1. u \in Mcp!Task
      BY <1>1, McpUnclaimed
    <3>2. \/ mcp' = mcp
          \/ mcp.by = w /\ mcp' = [u EXCEPT !.status = st, !.errors = 0, !.seen = at] /\ worker[w].pc = "polled"
          \/ mcp.by = w /\ mcp' = [u EXCEPT !.status = st, !.seen = at] /\ worker[w].pc = "cancelled"
      BY <1>4 DEF Mcp!Apply, Mcp!ApplyCancel, Mcp!Applied
    <3> HIDE DEF u, st
    <3> QED BY <3>1, <3>2 DEF Mcp!Task
  <2> QED BY <2>1, <2>2, <2>3
<1>5. CASE UNCHANGED mcp
  BY <1>2, <1>5
<1>6. ASSUME NEW w \in Workers, Mcp!ClaimControl(w) \/ Mcp!ReleaseClaim(w) \/ Mcp!StopControl(w)
      PROVE mcp'.seen = mcp.seen
  <2> DEFINE u == Mcp!Unclaimed(mcp)
             e == IF u.errors < DegradedAfter THEN u.errors + 1 ELSE u.errors
  <2>1. u \in Mcp!Task /\ u.seen = mcp.seen
    BY <1>1, McpUnclaimed
  <2>2. \/ mcp' = mcp \/ mcp' = u \/ mcp' = [u EXCEPT !.errors = e]
        \/ mcp' = [mcp EXCEPT !.by = w, !.fresh = TRUE]
    BY <1>6 DEF Mcp!ClaimControl, Mcp!ReleaseClaim, Mcp!StopControl
  <2> HIDE DEF u, e
  <2> QED BY <1>1, <2>1, <2>2 DEF Mcp!Task
<1>7. CASE Mcp!RequestCancel
  <2> DEFINE u == Mcp!Unclaimed(mcp)
  <2>1. u \in Mcp!Task /\ u.seen = mcp.seen /\ mcp' = [u EXCEPT !.cancel = TRUE]
    BY <1>1, <1>7, McpUnclaimed DEF Mcp!RequestCancel
  <2> HIDE DEF u
  <2> QED BY <1>3, <2>1 DEF Mcp!Task
<1>8. CASE Mcp!LeaseExpires
  <2>1. mcp' = mcp \/ mcp' = [mcp EXCEPT !.fresh = FALSE]
    BY <1>8 DEF Mcp!LeaseExpires
  <2> QED BY <1>1, <1>3, <2>1 DEF Mcp!Task
<1>9. CASE Mcp!RemoteMoves \/ UNCHANGED Mcp!vars
  BY <1>5, <1>9 DEF Mcp!RemoteMoves, Mcp!vars
<1>10. ASSUME NEW w \in Workers,
              \/ Mcp!Ask(w) \/ Mcp!AskCancel(w) \/ Mcp!ReadWork(w) \/ Mcp!ClaimWork(w) \/ Mcp!ConsumeWork(w)
                   \/ Mcp!Follow(w) \/ Mcp!GiveUp(w)
              \/ Mcp!BeginLaunch(w) \/ Mcp!Launch(w) \/ Mcp!MarkDispatched(w) \/ Mcp!StopNotify(w)
                   \/ Mcp!Crash(w)
       PROVE  UNCHANGED mcp
  BY <1>10
     DEF Mcp!Ask, Mcp!AskCancel, Mcp!ReadWork, Mcp!ClaimWork, Mcp!ConsumeWork, Mcp!Follow, Mcp!FollowUp,
         Mcp!GiveUp, Mcp!BeginLaunch, Mcp!Launch, Mcp!MarkDispatched,
         Mcp!StopNotify, Mcp!Crash
<1> QED BY <1>3, <1>4, <1>5, <1>6, <1>7, <1>8, <1>9, <1>10 DEF Mcp!Next

(* Answers of the server are applied in the order it gave them               *)
(* (apply_snapshot, apply_cancel_snapshot).                                  *)
THEOREM McpInOrder == Mcp!McpAssumption => (Mcp!Spec => Mcp!SnapshotsInOrder)
<1> SUFFICES ASSUME Mcp!McpAssumption PROVE Mcp!Spec => Mcp!SnapshotsInOrder
  OBVIOUS
<1>1. McpInvariant /\ [Mcp!Next]_(Mcp!vars) => [mcp'.seen >= mcp.seen]_(Mcp!vars)
  BY McpSnapshots
<1>2. Mcp!Spec => []McpInvariant
  BY McpIsInvariant
<1> QED BY <1>1, <1>2, PTL DEF Mcp!Spec, Mcp!SnapshotsInOrder
=============================================================================
