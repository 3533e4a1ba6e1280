---------------------------- MODULE LoginThrottle ----------------------------
(* The failed-login record of one client IP, shared by the gateways           *)
(* (SqlLoginThrottleStore, evaluate_check), and the logins from that IP that  *)
(* are under way at the same time (auth.py).  A statement is a step.  A login *)
(* takes the time when a store call starts, and reads the policy, which the   *)
(* operator may change, before it decides.                                    *)
EXTENDS Integers, Sequences

CONSTANTS
    Logins,      \* bound: logins under way at a time
    Policies,    \* the values of (max_login_attempts, lockout_seconds) the operator uses in turn
    Attempts,    \* CHECK_CAS_ATTEMPTS
    MaxClock,    \* bound: time
    MaxFailures  \* bound: failures in a row

ThrottleAssumption ==
    /\ Attempts \in Nat \ {0} /\ MaxClock \in Nat \ {0} /\ MaxFailures \in Nat
    /\ Policies # <<>> /\ Policies \in Seq([max : Nat \ {0}, lockout : 0 .. MaxClock])

VARIABLES
    clock,
    policy,  \* how many times the policy was changed
    row,     \* the login_throttle row
    login    \* the logins

vars == <<clock, policy, row, login>>

Times  == 0 .. MaxClock
Record == [fails : 0 .. MaxFailures, at : Times, duration : Times]   \* fails = 0: no row; at = 0: not locked
NoRow  == [fails |-> 0, at |-> 0, duration |-> 0]
Turns  == DOMAIN Policies

Login ==
    [pc   : {"idle", "policy", "read", "write", "verify", "failed", "record"},
     now  : Times, turn : Turns,      \* the time and the policy it goes by
     snap : Record,                   \* the row as it read it
     try  : 0 .. Attempts]

Idle == [pc |-> "idle", now |-> 0, turn |-> 1, snap |-> NoRow, try |-> 0]

Init ==
    /\ clock = 1 /\ policy = 1
    /\ row = NoRow
    /\ login = [l \in Logins |-> Idle]
-----------------------------------------------------------------------------
Locked(record) == record.at > 0
Until(record)  == record.at + record.duration       \* expires_at

Go(l, state) == login' = [login EXCEPT ![l] = state]

(* check: a clean IP is let through, otherwise the policy is read ...        *)
Probe(l) ==
    /\ login[l].pc = "idle"
    /\ Go(l, [Idle EXCEPT !.pc = IF row = NoRow THEN "verify" ELSE "policy", !.now = clock])
    /\ UNCHANGED <<clock, policy, row>>

ReadPolicy(l) ==
    /\ login[l].pc \in {"policy", "failed"}
    /\ Go(l, [login[l] EXCEPT !.pc = IF @ = "policy" THEN "read" ELSE "record", !.turn = policy,
                              !.now = IF login[l].pc = "failed" THEN clock ELSE @])
    /\ UNCHANGED <<clock, policy, row>>

(* ... and the row is read again, and judged by it (evaluate_check).         *)
Limits(l) == Policies[login[l].turn]

Below(l, record)   == record.fails < Limits(l).max \/ ~Locked(record)
Over(l, record)    == login[l].now >= Until(record) \/ login[l].now >= record.at + Limits(l).lockout
Changes(l, record) == record.duration # Limits(l).lockout

Read(l) ==
    /\ login[l].pc = "read"
    /\ Go(l, IF row = NoRow \/ Below(l, row) THEN [login[l] EXCEPT !.pc = "verify"]
             ELSE IF Over(l, row) \/ Changes(l, row) THEN [login[l] EXCEPT !.pc = "write", !.snap = row, !.try = @ + 1]
             ELSE Idle)                                          \* 429
    /\ UNCHANGED <<clock, policy, row>>

(* _discard and _commit_duration, on the row the decision was made on.       *)
MatchesAny(l) == row # NoRow

Matches(l) == row = login[l].snap

Write(l) ==
    LET snap == login[l].snap
        last == login[l].try = Attempts                          \* the answer from the last snapshot
        held == snap.at + Limits(l).lockout > login[l].now
    IN  /\ login[l].pc = "write"
        /\ \/ /\ Matches(l) /\ Over(l, snap)
              /\ row' = NoRow /\ Go(l, [login[l] EXCEPT !.pc = "verify"])
           \/ /\ Matches(l) /\ ~Over(l, snap)
              /\ row' = [row EXCEPT !.duration = Limits(l).lockout] /\ Go(l, Idle)
           \/ /\ ~Matches(l) /\ UNCHANGED row
              /\ Go(l, IF ~last THEN [login[l] EXCEPT !.pc = "read"]
                       ELSE IF held THEN Idle ELSE [login[l] EXCEPT !.pc = "verify"])
        /\ UNCHANGED <<clock, policy>>

(* The password is verified; a success forgets the IP (reset).               *)
Fail(l) ==
    /\ login[l].pc = "verify"
    /\ Go(l, [Idle EXCEPT !.pc = "failed"])
    /\ UNCHANGED <<clock, policy, row>>

Succeed(l) ==
    /\ login[l].pc = "verify"
    /\ row' = NoRow
    /\ Go(l, Idle)
    /\ UNCHANGED <<clock, policy>>

(* record_failure: a lock that is active keeps its start and its duration.   *)
RecordFailure(l) ==
    LET count  == row.fails + 1
        active == Locked(row) /\ Until(row) > login[l].now
    IN  /\ login[l].pc = "record" /\ row.fails < MaxFailures
        /\ row' = IF row = NoRow \/ count < Limits(l).max THEN [NoRow EXCEPT !.fails = count]
                  ELSE IF active THEN [row EXCEPT !.fails = count]
                  ELSE [fails |-> count, at |-> login[l].now, duration |-> Limits(l).lockout]
        /\ Go(l, Idle)
        /\ UNCHANGED <<clock, policy>>

(* sweep_statement of a failure from another IP.                             *)
Sweep ==
    /\ Locked(row) /\ Until(row) <= clock
    /\ row' = NoRow
    /\ UNCHANGED <<clock, policy, login>>

ChangePolicy ==
    /\ policy + 1 \in Turns
    /\ policy' = policy + 1
    /\ UNCHANGED <<clock, row, login>>

Tick ==
    /\ clock < MaxClock
    /\ clock' = clock + 1
    /\ UNCHANGED <<policy, row, login>>

Next ==
    \/ Sweep \/ ChangePolicy \/ Tick
    \/ \E l \in Logins :
        Probe(l) \/ ReadPolicy(l) \/ Read(l) \/ Write(l) \/ Fail(l) \/ Succeed(l) \/ RecordFailure(l)

Spec == Init /\ [][Next]_vars
-----------------------------------------------------------------------------
TypeOK ==
    /\ clock \in Times /\ policy \in Turns
    /\ row \in Record /\ login \in [Logins -> Login]

(* The lock is active whichever of the policies used so far it is judged by. *)
Active ==
    /\ Locked(row)
    /\ \A turn \in 1 .. policy : row.fails >= Policies[turn].max /\ row.at + Policies[turn].lockout > clock
    /\ Until(row) > clock

(* A lock stands until it is served: while it is active under every policy   *)
(* used so far, no stale decision of a login that judged an earlier row, no  *)
(* further failure and no sweep removes it or moves its start; only a login  *)
(* that succeeds ends it (check, record_failure, sweep_statement).           *)
LockIsServed ==
    [][Active => \/ row'.at = row.at /\ row'.fails >= row.fails
                 \/ \E l \in Logins : Succeed(l)]_vars
=============================================================================
