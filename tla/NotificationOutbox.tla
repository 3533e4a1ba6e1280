-------------------------- MODULE NotificationOutbox --------------------------
(* One delivery of the notification outbox (NotificationDeliveryRepository),  *)
(* the workers of the gateways that claim and send it                         *)
(* (NotificationDeliveryWorker), and the owner, who may mute the provider     *)
(* (ImNotificationPreferencesRepository.patch).  A statement or an awaited    *)
(* call is a step; available_at only delays a claim and is left out.          *)
EXTENDS Integers, FiniteSets

CONSTANTS
    Workers,
    MaxAttempts,  \* max_attempts of the row
    MaxParked,    \* _CHANNEL_PARK_MAX_ATTEMPTS
    MaxClaims     \* bound: claims of the row; a claim's number is its token

OutboxAssumption ==
    IsFiniteSet(Workers) /\ MaxAttempts \in Nat \ {0} /\ MaxParked \in Nat /\ MaxClaims \in Nat

VARIABLES
    row,      \* the notification_deliveries row
    enabled,  \* the owner's preference for the provider
    worker,   \* the workers
    pushed,   \* how many times the owner got the notice
    allowed   \* how many times the outbox has had reason to send it

vars == <<row, enabled, worker, pushed, allowed>>

Row ==
    [status : {"none", "pending", "sending", "sent", "failed"},
     claims : 0 .. MaxClaims, token : 0 .. MaxClaims,         \* claim_token; 0: none
     attempts : 0 .. MaxAttempts, parked : 0 .. MaxParked,
     stale : BOOLEAN]                                         \* sending past the timeout

Worker ==
    [pc    : {"idle", "claim", "check", "recheck", "confirm", "send", "sent", "failed", "park", "drop"},
     token : 0 .. MaxClaims]

Idle == [pc |-> "idle", token |-> 0]

Init ==
    /\ row = [status |-> "none", claims |-> 0, token |-> 0, attempts |-> 0, parked |-> 0, stale |-> FALSE]
    /\ enabled = TRUE
    /\ worker = [w \in Workers |-> Idle]
    /\ pushed = 0 /\ allowed = 1
-----------------------------------------------------------------------------
At(w, pc) == worker[w].pc = pc
Go(w, pc) == worker' = [worker EXCEPT ![w].pc = pc]
Rest(w)   == worker' = [worker EXCEPT ![w] = Idle]

(* The finalization observer: a replay finds the row it has inserted         *)
(* (enqueue_in_session), and a muted owner gets none.                        *)
Enqueue ==
    /\ enabled /\ row.status = "none"
    /\ row' = [row EXCEPT !.status = "pending"]
    /\ UNCHANGED <<enabled, worker, pushed, allowed>>

(* patch: turning the provider off settles what is due; a send that has      *)
(* passed its last check cannot be called back.                              *)
Mute ==
    /\ enabled
    /\ enabled' = FALSE
    /\ \/ /\ row.status \in {"pending", "sending"}
          /\ row' = [row EXCEPT !.status = "failed", !.token = 0, !.stale = FALSE]
          /\ allowed' = pushed + Cardinality({w \in Workers : At(w, "send")})
       \/ /\ row.status \notin {"pending", "sending"}
          /\ UNCHANGED <<row, allowed>>
    /\ UNCHANGED <<worker, pushed>>

Unmute ==
    /\ ~enabled
    /\ enabled' = TRUE
    /\ UNCHANGED <<row, worker, pushed, allowed>>
-----------------------------------------------------------------------------
(* claim_due_deliveries: the due rows are selected, then flipped if they are *)
(* still pending.                                                            *)
Select(w) ==
    /\ At(w, "idle") /\ row.status = "pending"
    /\ Go(w, "claim")
    /\ UNCHANGED <<row, enabled, pushed, allowed>>

FlippableAny == row.status # "none"

Flippable == row.status = "pending"

Claim(w) ==
    /\ At(w, "claim") /\ row.claims < MaxClaims
    /\ \/ /\ Flippable
          /\ row' = [row EXCEPT !.status = "sending", !.claims = @ + 1, !.token = row.claims + 1]
          /\ worker' = [worker EXCEPT ![w] = [pc |-> "check", token |-> row.claims + 1]]
       \/ ~Flippable /\ UNCHANGED row /\ Rest(w)
    /\ UNCHANGED <<enabled, pushed, allowed>>

(* reset_stale_sending_rows, at the start of a poll.  Whether the claim that *)
(* is given up has sent the notice is not known.                             *)
TurnsStale ==
    /\ row.status = "sending" /\ ~row.stale
    /\ row' = [row EXCEPT !.stale = TRUE]
    /\ UNCHANGED <<enabled, worker, pushed, allowed>>

Reset(w) ==
    /\ At(w, "idle") /\ row.status = "sending" /\ row.stale
    /\ row' = [row EXCEPT !.status = "pending", !.token = 0, !.stale = FALSE]
    /\ allowed' = allowed + 1
    /\ UNCHANGED <<enabled, worker, pushed>>

(* _deliver: the target, the preference and the request are checked, the     *)
(* channel and the summary are looked up, and the preference is checked      *)
(* again.  A notice that can never be sent is dropped; one whose channel is  *)
(* down, or that cannot be checked, is parked.                               *)
Check(w) ==
    /\ At(w, "check") \/ At(w, "recheck")
    /\ \/ enabled /\ Go(w, IF At(w, "check") THEN "recheck" ELSE "confirm")
       \/ Go(w, "drop")
       \/ Go(w, "park")
    /\ UNCHANGED <<row, enabled, pushed, allowed>>

(* is_active_claim.                                                          *)
Owns(w) == row.status = "sending" /\ row.token = worker[w].token

Confirm(w) ==
    /\ At(w, "confirm")
    /\ IF Owns(w) THEN Go(w, "send") ELSE Rest(w)
    /\ UNCHANGED <<row, enabled, pushed, allowed>>

(* The send, which may fail before or after the owner got the notice.        *)
Send(w) ==
    /\ At(w, "send")
    /\ \/ pushed' = pushed + 1 /\ Go(w, "sent") /\ UNCHANGED allowed
       \/ pushed' = pushed + 1 /\ Go(w, "failed") /\ allowed' = allowed + (IF Owns(w) THEN 1 ELSE 0)
       \/ Go(w, "failed") /\ UNCHANGED <<pushed, allowed>>
       \/ Go(w, "park") /\ UNCHANGED <<pushed, allowed>>            \* ChannelUnavailable
    /\ UNCHANGED <<row, enabled>>

(* mark_sent and mark_failed, of the claim that still owns the row           *)
(* (_fenced_completion).                                                     *)
Settle(status) == [row EXCEPT !.status = status, !.token = 0, !.stale = FALSE]

MarkSent(w) ==
    /\ At(w, "sent")
    /\ row' = IF Owns(w) THEN Settle("sent") ELSE row
    /\ Rest(w)
    /\ UNCHANGED <<enabled, pushed, allowed>>

OutcomeLate(w) ==
    IF At(w, "park") /\ row.parked <= MaxParked THEN {[Settle("pending") EXCEPT !.parked = @ + 1]}
    ELSE {Settle("failed")}

Outcome(w) ==
    IF At(w, "drop") THEN {Settle("failed")}
    ELSE IF At(w, "park")
    THEN (IF row.parked < MaxParked THEN {[Settle("pending") EXCEPT !.parked = @ + 1]} ELSE {})
         \cup {Settle("failed")}                               \* too often or too old
    ELSE {[Settle(IF row.attempts + 1 >= MaxAttempts THEN "failed" ELSE "pending") EXCEPT !.attempts = @ + 1]}

MarkFailed(w) ==
    /\ worker[w].pc \in {"failed", "park", "drop"}
    /\ IF Owns(w) THEN row' \in Outcome(w) ELSE UNCHANGED row
    /\ Rest(w)
    /\ UNCHANGED <<enabled, pushed, allowed>>

(* The write that records a send fails, and run_once records a failure.      *)
MarkSentFails(w) ==
    /\ At(w, "sent")
    /\ Go(w, "failed")
    /\ allowed' = allowed + (IF Owns(w) THEN 1 ELSE 0)
    /\ UNCHANGED <<row, enabled, pushed>>

(* The worker dies or is stopped, or cannot record a failure either.         *)
Crash(w) ==
    /\ ~At(w, "idle")
    /\ Rest(w)
    /\ UNCHANGED <<row, enabled, pushed, allowed>>

Next ==
    \/ Enqueue \/ Mute \/ Unmute \/ TurnsStale
    \/ \E w \in Workers :
        \/ Select(w) \/ Claim(w) \/ Reset(w) \/ Check(w) \/ Confirm(w) \/ Send(w)
        \/ MarkSent(w) \/ MarkFailed(w) \/ MarkSentFails(w) \/ Crash(w)

Spec == Init /\ [][Next]_vars
-----------------------------------------------------------------------------
TypeOK ==
    /\ row \in Row /\ enabled \in BOOLEAN /\ worker \in [Workers -> Worker]
    /\ pushed \in Nat /\ allowed \in Nat

(* The owner gets a notice once, and once more only for a claim that was     *)
(* given up as stale or a send that failed after it went through: workers    *)
(* that select the same row never both send it.  Once the owner has muted    *)
(* the provider, only the sends under way at that moment may still arrive:   *)
(* neither a late worker nor turning the provider on again releases the      *)
(* notice (claim_due_deliveries, _fenced_completion, patch).                 *)
PushesAllowed == pushed <= allowed
=============================================================================
