------------------------------ MODULE LlmCircuit ------------------------------
(* The retry loop of a model call and the circuit breaker around it           *)
(* (LLMErrorHandlingMiddleware.awrap_model_call): retries, one swap to the    *)
(* fallback model, cancellation and control-flow signals.  A call that was    *)
(* admitted before the circuit changed reports its outcome after it.  Each    *)
(* block under the circuit lock is one step.                                  *)
EXTENDS Integers, FiniteSets

CONSTANTS
    Calls,       \* model calls; each is made once (bound)
    Threshold,   \* circuit_failure_threshold
    MaxAttempts  \* retry_max_attempts

CircuitAssumption == Threshold \in Nat \ {0} /\ MaxAttempts \in Nat \ {0}

None == "none"

VARIABLES
    circuit,  \* the breaker, without its clock
    elapsed,  \* the recovery timeout of the open circuit has passed
    call      \* the calls

vars == <<circuit, elapsed, call>>

Circuit ==
    [state    : {"closed", "open", "half_open"},
     gen      : Nat,
     failures : 0 .. Threshold,
     probing  : BOOLEAN,               \* _circuit_probe_in_flight
     probe    : Calls \cup {None},     \* _circuit_probe_token
     trips    : Nat]                   \* times it has opened (not in the code)

Call ==
    [pc       : {"new", "calling", "backoff", "swapping",
                 "over", "shed",
                 "bubbled"},           \* ended by a signal out of its fallback event
     gen      : {-1} \cup Nat,
     trips    : Nat,                   \* those before it was admitted (not in the code)
     attempt  : 1 .. MaxAttempts,
     fallback : BOOLEAN]               \* fallback_used

Init ==
    /\ circuit = [state |-> "closed", gen |-> 0, failures |-> 0, probing |-> FALSE, probe |-> None,
                  trips |-> 0]
    /\ elapsed = FALSE
    /\ call = [c \in Calls |-> [pc |-> "new", gen |-> -1, trips |-> 0, attempt |-> 1, fallback |-> FALSE]]

(* _check_circuit, which also ends the open state.                           *)
Probing(c) ==
    [circuit EXCEPT !.state = "half_open", !.probing = TRUE, !.probe = c,
                    !.gen = IF circuit.state = "open" THEN @ + 1 ELSE @]

Sheds ==
    \/ circuit.state = "open" /\ ~elapsed
    \/ circuit.state = "half_open" /\ circuit.probing

Admit(c) ==
    /\ call[c].pc = "new"
    /\ circuit' = IF Sheds \/ circuit.state = "closed" THEN circuit ELSE Probing(c)
    /\ call' = [call EXCEPT ![c].pc = IF Sheds THEN "shed" ELSE "calling",
                            ![c].gen = IF Sheds THEN @ ELSE circuit'.gen,
                            ![c].trips = circuit.trips]
    /\ UNCHANGED elapsed

(* _owns_current_circuit_generation.                                         *)
OwnsByState(c) == circuit.state # "open"

Owns(c) ==
    /\ call[c].gen = circuit.gen
    /\ \/ circuit.state = "closed"
       \/ circuit.state = "half_open" /\ circuit.probe = c

Idle(b) == [b EXCEPT !.probing = FALSE, !.probe = None]

(* _record_success, _record_failure and _release_half_open_probe, when the   *)
(* call still owns the circuit.                                              *)
Reset == [Idle(circuit) EXCEPT !.state = "closed", !.failures = 0,
                               !.gen = IF circuit.state = "half_open" THEN @ + 1 ELSE @]

Trip == [Idle(circuit) EXCEPT !.state = "open", !.gen = @ + 1, !.trips = @ + 1]

Counted ==
    IF circuit.state = "half_open" THEN Trip
    ELSE IF circuit.failures + 1 < Threshold THEN [circuit EXCEPT !.failures = @ + 1]
    ELSE [Trip EXCEPT !.failures = IF @ < Threshold THEN @ + 1 ELSE @]

Released ==
    IF circuit.state = "half_open" THEN [Idle(circuit) EXCEPT !.gen = @ + 1] ELSE circuit

Report(c, new) ==
    /\ circuit' = IF Owns(c) THEN new ELSE circuit
    /\ elapsed' = (elapsed /\ circuit'.state = "open" /\ circuit.state = "open")

Over(c) == call' = [call EXCEPT ![c].pc = "over"]

(* What an attempt may raise: whether it is retriable, whether it counts     *)
(* against the circuit, whether the fallback model may answer instead, and   *)
(* how many attempts it is given.                                            *)
Reasons ==
    [transient      |-> [retriable |-> TRUE,  counts |-> TRUE,  swaps |-> TRUE,  budget |-> MaxAttempts],
     burst_rate     |-> [retriable |-> TRUE,  counts |-> FALSE, swaps |-> TRUE,  budget |-> 2],
     empty_response |-> [retriable |-> TRUE,  counts |-> FALSE, swaps |-> FALSE, budget |-> 2],
     quota          |-> [retriable |-> FALSE, counts |-> FALSE, swaps |-> TRUE,  budget |-> 1],
     auth           |-> [retriable |-> FALSE, counts |-> FALSE, swaps |-> FALSE, budget |-> 1]]

Retries(c, reason) ==
    Reasons[reason].retriable /\ call[c].attempt < MaxAttempts
                              /\ call[c].attempt < Reasons[reason].budget

Succeed(c) ==
    /\ call[c].pc = "calling"
    /\ Report(c, Reset) /\ Over(c)

(* A retriable error: the retry event is emitted (it may raise a signal),    *)
(* then the call sleeps without its permit.  The run has one retry for       *)
(* empty responses, which another call may have used up.                     *)
Retry(c, reason) ==
    /\ call[c].pc = "calling"
    /\ Retries(c, reason)
    /\ call' = [call EXCEPT ![c].pc = "backoff"]
    /\ UNCHANGED <<circuit, elapsed>>

Resume(c) ==
    /\ call[c].pc = "backoff"
    /\ call' = [call EXCEPT ![c].pc = "calling", ![c].attempt = @ + 1]
    /\ UNCHANGED <<circuit, elapsed>>

(* A terminal failure of the provider: the fallback model, if one can be     *)
(* built, gets attempts of its own, ...                                      *)
Swap(c, reason) ==
    /\ call[c].pc = "calling"
    /\ ~Retries(c, reason) /\ ~call[c].fallback /\ Reasons[reason].swaps
    /\ call' = [call EXCEPT ![c].pc = "swapping", ![c].fallback = TRUE]
    /\ UNCHANGED <<circuit, elapsed>>

Swapped(c) ==
    /\ call[c].pc = "swapping"
    /\ call' = [call EXCEPT ![c].pc = "calling", ![c].attempt = 1]
    /\ UNCHANGED <<circuit, elapsed>>

(* ... unless the fallback event raises a GraphBubbleUp: it leaves the       *)
(* handler of the first error, where no clause gives the probe back.         *)
FallbackSignal(c) ==
    /\ call[c].pc = "swapping"
    /\ call' = [call EXCEPT ![c].pc = "bubbled"]
    /\ UNCHANGED <<circuit, elapsed>>

(* Without a fallback, the call ends with a message to the user.             *)
Fail(c, reason) ==
    /\ call[c].pc = "calling"
    /\ ~Retries(c, reason) \/ reason = "empty_response"
    /\ Report(c, IF Reasons[reason].retriable /\ Reasons[reason].counts THEN Counted ELSE Released)
    /\ Over(c)

(* A GraphBubbleUp out of the call or of the retry event, and cancellation,  *)
(* give the probe back.                                                      *)
SignalKeepsProbe(c) ==
    /\ call[c].pc \in {"calling", "backoff"}
    /\ Over(c) /\ UNCHANGED <<circuit, elapsed>>

Signal(c) ==
    /\ call[c].pc \in {"calling", "backoff"}
    /\ Report(c, Released) /\ Over(c)

Cancel(c) ==
    /\ call[c].pc \in {"calling", "backoff", "swapping"}
    /\ Report(c, Released) /\ Over(c)

Elapse ==
    /\ circuit.state = "open" /\ ~elapsed
    /\ elapsed' = TRUE
    /\ UNCHANGED <<circuit, call>>

CallNext(c) ==
    \/ Succeed(c) \/ Resume(c) \/ Swapped(c) \/ FallbackSignal(c) \/ Signal(c) \/ Cancel(c)
    \/ \E reason \in DOMAIN Reasons : Retry(c, reason) \/ Swap(c, reason) \/ Fail(c, reason)

Next == Elapse \/ \E c \in Calls : Admit(c) \/ CallNext(c)

Spec == Init /\ [][Next]_vars
-----------------------------------------------------------------------------
TypeOK == circuit \in Circuit /\ elapsed \in BOOLEAN /\ call \in [Calls -> Call]

Probes == {c \in Calls : call[c].pc \in {"calling", "backoff", "swapping"} /\ Owns(c)}

(* While the circuit is half open and sheds calls, one call is its probe and *)
(* no other thinks that it is: either it is under way, and its outcome ends  *)
(* the wait, or it ended by a signal out of its fallback event, the one end  *)
(* of a call that takes the probe with it (_check_circuit,                   *)
(* _release_half_open_probe, _aemit_fallback_event).                         *)
ProbeIsAccountedFor ==
    circuit.state = "half_open" /\ circuit.probing =>
        \/ Probes = {circuit.probe}
        \/ Probes = {} /\ call[circuit.probe].pc = "bubbled"

(* The circuit moves only on the outcome of a call that it admitted since it *)
(* last opened: a call from before neither closes it, nor gives a probe back *)
(* that it does not have, nor counts towards or against the calls admitted   *)
(* after the provider recovered (_owns_current_circuit_generation).          *)
StaleOutcomesIgnored ==
    [][\A c \in Calls :
        call[c].pc # "over" /\ call'[c].pc = "over" /\ call[c].trips # circuit.trips
            => circuit' = circuit]_vars
=============================================================================
