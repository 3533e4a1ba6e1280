-------------------------- MODULE ChannelLeadership --------------------------
(* The leader lease of one IM provider: the channel_leases row                *)
(* (SqlChannelLeaseRepository), the holder's view of it (ChannelLeadership)   *)
(* and the transports that gateways run under it (ChannelService).  Time is   *)
(* in steps of Tick; every duration is a number of steps.  A repository call  *)
(* is sent, takes effect in one statement and is answered, and times out; one *)
(* that timed out or was abandoned may still take effect later.  A start that *)
(* is under way counts as a transport, and a stop ends within StopTime.       *)
EXTENDS Integers, FiniteSets

CONSTANTS
    Gateways,
    RenewInterval,     \* renew_interval
    OperationTimeout,  \* operation_timeout
    LeaseSeconds,      \* lease_seconds
    GraceSeconds,      \* grace_seconds
    StopTime,          \* a transport's stop takes at most this
    ShutdownTime,      \* _SHUTDOWN_HOOK_TIMEOUT_SECONDS
    MaxEpoch,          \* bound: acquisitions
    MaxLate            \* bound: calls that were given up and take effect later

(* What ChannelLeadership.__init__ sees to, and the budget of the grace: it   *)
(* covers an unconfirmed renewal with the stop or the shutdown after it.     *)
ChannelAssumption ==
    /\ {RenewInterval, OperationTimeout, LeaseSeconds, GraceSeconds} \subseteq Nat
    /\ {StopTime, ShutdownTime, MaxEpoch, MaxLate} \subseteq Nat
    /\ "none" \notin Gateways
    /\ OperationTimeout <= RenewInterval /\ RenewInterval < LeaseSeconds
    /\ OperationTimeout + StopTime <= GraceSeconds + 1
    /\ OperationTimeout + ShutdownTime <= GraceSeconds + 1

VARIABLES
    row,    \* the channel_leases row
    gw,     \* the gateways
    call,   \* the repository call each has under way (one at a time: the lock of the provider)
    late,   \* calls that were given up and may still take effect
    lates   \* the number of these so far (a bound)

vars == <<row, gw, call, late, lates>>

None   == "none"
Epochs == 0 .. MaxEpoch
Past   == -(GraceSeconds + 1)      \* expired for longer than the grace

Row == [owner : Gateways \cup {None}, epoch : Epochs,
        left  : Past .. LeaseSeconds]     \* until lease_expires_at

Gateway ==
    [stopping  : BOOLEAN,
     epoch     : Epochs,                  \* _held.epoch, 0 when not held
     age       : 0 .. LeaseSeconds,       \* since the call that made _held was sent
     timer     : -OperationTimeout .. RenewInterval,  \* until the next round, while there is something to look after
     transport : {"off", "on", "stopping"},
     until     : 0 .. StopTime + ShutdownTime]        \* until the stop or the shutdown is over

Call == [kind   : {None, "acquire", "renew", "release"}, owner : Gateways \cup {None}, epoch : Epochs,
         age    : 0 .. OperationTimeout,
         answer : {None, "yes", "no"}]

NoCall == [kind |-> None, owner |-> None, epoch |-> 0, age |-> 0, answer |-> None]

Fresh == [stopping |-> FALSE, epoch |-> 0, age |-> 0, timer |-> 0, transport |-> "off", until |-> 0]

Init ==
    /\ row = [owner |-> None, epoch |-> 0, left |-> Past]
    /\ gw = [g \in Gateways |-> Fresh]
    /\ call = [g \in Gateways |-> NoCall]
    /\ late = {} /\ lates = 0
-----------------------------------------------------------------------------
Idle(state)   == state.epoch = 0 /\ state.transport = "off"
Normal(state) == IF Idle(state) THEN [state EXCEPT !.age = 0, !.timer = 0] ELSE state
Is(g, state)  == gw' = [gw EXCEPT ![g] = Normal(state)]

(* holds: the margin of one renewal interval before the local deadline.      *)
Holds(g) == gw[g].epoch # 0 /\ gw[g].age + RenewInterval < LeaseSeconds

Send(g, kind, epoch) ==
    call' = [call EXCEPT ![g] = [NoCall EXCEPT !.kind = kind, !.owner = g, !.epoch = epoch]]

(* What the statement of a call does to the row: acquire, renew, release.    *)
MatchesOwner(c) == row.owner = c.owner

Matches(c) == row.owner = c.owner /\ row.epoch = c.epoch

Effective(c) ==
    CASE c.kind = "acquire" -> row.left < -GraceSeconds \/ row.owner = c.owner
      [] c.kind = "renew"   -> Matches(c) /\ row.left > 0
      [] c.kind = "release" -> Matches(c)

Statement(c) ==
    /\ c.kind = "acquire" => row.epoch < MaxEpoch
    /\ row' = IF ~Effective(c) THEN row
              ELSE CASE c.kind = "acquire" -> [owner |-> c.owner, epoch |-> row.epoch + 1, left |-> LeaseSeconds]
                     [] c.kind = "renew"   -> [row EXCEPT !.left = LeaseSeconds]
                     [] c.kind = "release" -> [row EXCEPT !.left = Past]

Execute(g) ==
    /\ call[g].kind # None /\ call[g].answer = None
    /\ Statement(call[g])
    /\ call' = [call EXCEPT ![g] = [@ EXCEPT !.answer = IF Effective(call[g]) THEN "yes" ELSE "no",
                                             !.epoch = row'.epoch]]
    /\ UNCHANGED <<gw, late, lates>>

ExecuteLate ==
    /\ \E c \in late : Statement(c) /\ late' = late \ {c}
    /\ UNCHANGED <<gw, call, lates>>
-----------------------------------------------------------------------------
(* The lock is fair: a round that waits for it is next.                      *)
Free(g) == ~gw[g].stopping /\ gw[g].timer >= 0 /\ call[g].kind = None

(* _claim_transport before a start, and a round of a gateway that does not   *)
(* hold the lease.                                                           *)
Acquire(g) ==
    /\ gw[g].transport = "off" /\ ~Holds(g) /\ Free(g)
    /\ Send(g, "acquire", 0)
    /\ UNCHANGED <<row, gw, late, lates>>

(* _release_idle_lease.  The hold is dropped before the call.                *)
Release(g) ==
    /\ gw[g].transport = "off" /\ gw[g].epoch # 0 /\ Free(g)
    /\ Send(g, "release", gw[g].epoch)
    /\ Is(g, [gw[g] EXCEPT !.epoch = 0])
    /\ UNCHANGED <<row, late, lates>>

Stopping(state) ==
    IF state.transport = "on" THEN [state EXCEPT !.transport = "stopping", !.until = StopTime] ELSE state

(* _lease_round at its fixed rate: renews a lease, or stops a transport that *)
(* is left without one.  What it acquires is Acquire.                        *)
Due(g) == ~gw[g].stopping /\ ~Idle(gw[g]) /\ gw[g].timer <= 0 /\ call[g].kind = None

Round(g) ==
    LET next == [gw[g] EXCEPT !.timer = @ + RenewInterval]
    IN  /\ Due(g)
        /\ IF gw[g].epoch # 0
           THEN Send(g, "renew", gw[g].epoch) /\ Is(g, next)
           ELSE Is(g, Stopping(next)) /\ UNCHANGED call
        /\ UNCHANGED <<row, late, lates>>

(* The answer to a call.  The first round after an acquisition may be due at *)
(* any time within the interval.                                             *)
Answer(g) ==
    LET c    == call[g]
        held == [gw[g] EXCEPT !.epoch = c.epoch, !.age = c.age]
    IN  /\ c.answer # None
        /\ \/ c.answer = "yes" /\ c.kind = "acquire" /\ Idle(gw[g])
              /\ \E timer \in 1 .. RenewInterval : Is(g, [held EXCEPT !.timer = timer])
           \/ c.answer = "yes" /\ c.kind \in {"acquire", "renew"} /\ ~Idle(gw[g]) /\ Is(g, held)
           \/ c.answer = "yes" /\ c.kind = "release" /\ UNCHANGED gw
           \/ c.answer = "no" /\ c.kind = "release" /\ UNCHANGED gw
           \/ c.answer = "no" /\ c.kind = "acquire" /\ Is(g, [gw[g] EXCEPT !.epoch = 0])
           \/ c.answer = "no" /\ c.kind = "renew" /\ Is(g, Stopping([gw[g] EXCEPT !.epoch = 0]))   \* LOST
        /\ call' = [call EXCEPT ![g] = NoCall]
        /\ UNCHANGED <<row, late, lates>>

(* A call that was given up before it took effect is lost or takes effect    *)
(* later.                                                                    *)
GiveUp(c) ==
    \/ UNCHANGED <<late, lates>>
    \/ /\ c.kind # None /\ c.answer = None /\ lates < MaxLate
       /\ late' = late \cup {[c EXCEPT !.age = 0]} /\ lates' = lates + 1

(* An error or the timeout of a call: an unconfirmed renewal stops the       *)
(* transport once the lease is not safely held any more.                     *)
Unconfirmed(g) ==
    /\ call[g].kind # None
    /\ GiveUp(call[g])
    /\ Is(g, IF call[g].kind = "renew" /\ ~Holds(g) THEN Stopping([gw[g] EXCEPT !.epoch = 0]) ELSE gw[g])
    /\ call' = [call EXCEPT ![g] = NoCall]
    /\ UNCHANGED row
-----------------------------------------------------------------------------
(* _start_channel.                                                           *)
Start(g) ==
    /\ ~gw[g].stopping /\ gw[g].transport = "off" /\ Holds(g)
    /\ Is(g, [gw[g] EXCEPT !.transport = "on"])
    /\ UNCHANGED <<row, call, late, lates>>

(* A restart, a removal or a provider that is disabled stops the transport.  *)
Stop(g) ==
    /\ ~gw[g].stopping /\ gw[g].transport = "on"
    /\ Is(g, Stopping(gw[g]))
    /\ UNCHANGED <<row, call, late, lates>>

Stopped(g) ==
    /\ gw[g].transport = "stopping"
    /\ Is(g, [gw[g] EXCEPT !.transport = "off", !.until = 0])
    /\ UNCHANGED <<row, call, late, lates>>

(* ChannelService.stop: the rounds end first, the transports stay up while   *)
(* messages drain ...                                                        *)
Shutdown(g) ==
    /\ ~gw[g].stopping /\ gw[g].transport = "on"
    /\ GiveUp(call[g])
    /\ Is(g, [gw[g] EXCEPT !.stopping = TRUE, !.timer = 0, !.until = ShutdownTime])
    /\ call' = [call EXCEPT ![g] = NoCall]
    /\ UNCHANGED row

(* ... and the lease is handed back once they are gone.                      *)
Handback(g) == [NoCall EXCEPT !.kind = IF gw[g].epoch = 0 THEN None ELSE "release", !.owner = None, !.epoch = gw[g].epoch]

(* The next process has an owner id of its own.                              *)
Gone(g) ==
    /\ gw' = [gw EXCEPT ![g] = Fresh]
    /\ row' = [row EXCEPT !.owner = IF @ = g THEN None ELSE @]
    /\ call' = [call EXCEPT ![g] = NoCall]

Exit(g) ==
    /\ gw[g].stopping
    /\ GiveUp(Handback(g))
    /\ Gone(g)

Crash(g) ==
    /\ ~Idle(gw[g]) \/ call[g].kind # None
    /\ GiveUp([call[g] EXCEPT !.owner = None])
    /\ Gone(g)
-----------------------------------------------------------------------------
Older(age)       == IF age < LeaseSeconds THEN age + 1 ELSE age
Nearer(left, to) == IF left > to THEN left - 1 ELSE left

(* Time passes while no deadline is reached.                                 *)
Urgent(g) ==
    \/ call[g].kind # None /\ call[g].age = OperationTimeout
    \/ Due(g)
    \/ (gw[g].transport = "stopping" \/ gw[g].stopping) /\ gw[g].until = 0

Tick ==
    /\ \A g \in Gateways : ~Urgent(g)
    /\ row' = [row EXCEPT !.left = Nearer(@, Past)]
    /\ gw' = [g \in Gateways |->
                 Normal([gw[g] EXCEPT !.age = Older(@), !.timer = IF gw[g].stopping THEN 0 ELSE @ - 1,
                                      !.until = Nearer(@, 0)])]
    /\ call' = [g \in Gateways |-> IF call[g].kind = None THEN NoCall ELSE [call[g] EXCEPT !.age = @ + 1]]
    /\ UNCHANGED <<late, lates>>

Next ==
    \/ Tick \/ ExecuteLate
    \/ \E g \in Gateways :
        \/ Execute(g) \/ Acquire(g) \/ Release(g) \/ Round(g) \/ Answer(g) \/ Unconfirmed(g)
        \/ Start(g) \/ Stop(g) \/ Stopped(g) \/ Shutdown(g) \/ Exit(g) \/ Crash(g)

Spec == Init /\ [][Next]_vars
-----------------------------------------------------------------------------
TypeOK ==
    /\ row \in Row
    /\ gw \in [Gateways -> Gateway]
    /\ call \in [Gateways -> Call] /\ late \subseteq Call /\ lates \in 0 .. MaxLate

(* A provider is connected by one gateway at a time, though renewals are     *)
(* lost, time out or take effect late, processes crash and shut down, and    *)
(* nobody can see a peer's transport: a holder whose lease may lapse has     *)
(* stopped before a peer is let in (ChannelLeadership.holds,                 *)
(* SqlChannelLeaseRepository.acquire).                                       *)
OneTransport == Cardinality({g \in Gateways : gw[g].transport # "off"}) <= 1
=============================================================================
