------------------------------ MODULE MCServices ------------------------------
(* The services around a run, checked for safety: scheduled tasks, MCP remote *)
(* tasks, subagent batches, channel leadership, the notification outbox, the  *)
(* login throttle, the circuit breaker and sandbox leases.  They do not share *)
(* state, so a behaviour chooses one of them (service) and the others stay as *)
(* they are.  The parts with theorems are instances of their proof modules or *)
(* of ServicesProofs.                                                         *)
EXTENDS ServicesProofs

CONSTANTS w1, w2, Gateways

VARIABLES
    service,
    size, batch, item, exec,                              \* SubagentBatch
    lease, gw, query, late, lates                         \* ChannelLeadership

OnceOrCron ==   \* for TaskSetups
    {[once |-> TRUE, multi |-> FALSE, cap |-> 0, bound |-> 1], [once |-> TRUE, multi |-> TRUE, cap |-> 0, bound |-> 1],
     [once |-> FALSE, multi |-> FALSE, cap |-> 1, bound |-> 1], [once |-> FALSE, multi |-> TRUE, cap |-> 1, bound |-> 1]}

PollOrNotify ==   \* for McpSetups
    {[poll |-> {w1}, notify |-> {w1, w2}, cancels |-> FALSE], [poll |-> {w1}, notify |-> {w2}, cancels |-> TRUE],
     [poll |-> {w1, w2}, notify |-> {}, cancels |-> TRUE]}

Sizes ==
    {[items |-> 2, live |-> 1, running |-> 1, attempts |-> 1, capacity |-> 1, claims |-> 1],
     [items |-> 1, live |-> 1, running |-> 1, attempts |-> 2, capacity |-> 2, claims |-> 3],
     [items |-> 1, live |-> 1, running |-> 1, attempts |-> 1, capacity |-> 1, claims |-> 3]}

TwoPolicies == <<[max |-> 2, lockout |-> 1], [max |-> 2, lockout |-> 2]>>   \* for Policies

Batch == INSTANCE SubagentBatchProofs WITH MaxClaims <- 3
Channel == INSTANCE ChannelLeadershipProofs WITH      \* the defaults, in units of 5 s
    RenewInterval <- 2, OperationTimeout <- 1, LeaseSeconds <- 6, GraceSeconds <- 2,
    StopTime <- 2, ShutdownTime <- 1, MaxEpoch <- 3, MaxLate <- 1, row <- lease, call <- query

ASSUME ServicesAssumption ==
    /\ Circuit!CircuitAssumption /\ Sandbox!SandboxAssumption /\ Channel!ChannelAssumption
    /\ Batch!BatchAssumption /\ Outbox!OutboxAssumption /\ Throttle!ThrottleAssumption
    /\ Schedule!ScheduleAssumption /\ Mcp!McpAssumption

scheduleVars == <<schedule, task, occ, run, launcher>>
mcpVars      == <<setup, remote, mcp, note, told, worker>>
batchVars    == <<size, batch, item, exec>>
channelVars  == <<lease, gw, query, late, lates>>
outboxVars   == <<delivery, enabled, sender, pushed, allowed>>
throttleVars == <<clock, policy, throttle, login>>
circuitVars  == <<circuit, elapsed, call>>
sandboxVars  == <<client, built, serial, pending, teardown, holder>>

servicesVars == <<service, scheduleVars, mcpVars, batchVars, channelVars, outboxVars, throttleVars, circuitVars, sandboxVars>>

ServicesInit ==
    /\ service \in {"schedule", "mcp", "batch", "channel", "outbox", "throttle", "circuit", "sandbox"}
    /\ Schedule!Init /\ (service # "schedule" => schedule = (CHOOSE s \in TaskSetups : TRUE) /\ task.next = "later")
    /\ Mcp!Init /\ (service # "mcp" => setup = CHOOSE s \in McpSetups : TRUE)
    /\ Batch!Init /\ (service # "batch" => size = CHOOSE s \in Sizes : TRUE)
    /\ Channel!Init /\ Outbox!Init /\ Throttle!Init /\ Circuit!Init /\ Sandbox!Init

Serves(p) == service = p /\ service' = p

ServicesNext ==
    \/ /\ Serves("schedule") /\ Schedule!Next
       /\ UNCHANGED <<mcpVars, batchVars, channelVars, outboxVars, throttleVars, circuitVars, sandboxVars>>
    \/ /\ Serves("mcp") /\ Mcp!Next
       /\ UNCHANGED <<scheduleVars, batchVars, channelVars, outboxVars, throttleVars, circuitVars, sandboxVars>>
    \/ /\ Serves("batch") /\ Batch!Next
       /\ UNCHANGED <<scheduleVars, mcpVars, channelVars, outboxVars, throttleVars, circuitVars, sandboxVars>>
    \/ /\ Serves("channel") /\ Channel!Next
       /\ UNCHANGED <<scheduleVars, mcpVars, batchVars, outboxVars, throttleVars, circuitVars, sandboxVars>>
    \/ /\ Serves("outbox") /\ Outbox!Next
       /\ UNCHANGED <<scheduleVars, mcpVars, batchVars, channelVars, throttleVars, circuitVars, sandboxVars>>
    \/ /\ Serves("throttle") /\ Throttle!Next
       /\ UNCHANGED <<scheduleVars, mcpVars, batchVars, channelVars, outboxVars, circuitVars, sandboxVars>>
    \/ /\ Serves("circuit") /\ Circuit!Next
       /\ UNCHANGED <<scheduleVars, mcpVars, batchVars, channelVars, outboxVars, throttleVars, sandboxVars>>
    \/ /\ Serves("sandbox") /\ Sandbox!Next
       /\ UNCHANGED <<scheduleVars, mcpVars, batchVars, channelVars, outboxVars, throttleVars, circuitVars>>

ServicesSpec == ServicesInit /\ [][ServicesNext]_servicesVars
-----------------------------------------------------------------------------
ServicesTypeOK ==
    /\ service = "schedule" => Schedule!TypeOK
    /\ service = "mcp" => Mcp!TypeOK
    /\ service = "batch" => Batch!TypeOK
    /\ service = "channel" => Channel!TypeOK
    /\ service = "outbox" => Outbox!TypeOK
    /\ service = "throttle" => Throttle!TypeOK
    /\ service = "circuit" => Circuit!TypeOK
    /\ service = "sandbox" => Sandbox!TypeOK

(* A once task whose own run was completed does not go back to running       *)
(* (update_after_launch).                                                    *)
CompletedOnceStays == Schedule!CompletedOnceStays

(* An occurrence that was given up is opened again only for the run that its *)
(* launch did produce (recover_expired_launch_claims, requeue_claimed_run).  *)
ReopenedForItsRun == Schedule!ReopenedForItsRun

(* Answers of an MCP server are applied in the order it gave them            *)
(* (apply_snapshot, apply_cancel_snapshot).                                  *)
SnapshotsInOrder == Mcp!SnapshotsInOrder

(* The outcome of an MCP task is not lost on the way to its thread           *)
(* (finish_notification_run, dead_letter_notification).                      *)
OutcomeReported == Mcp!OutcomeReported

(* A batch is over exactly when all its items are (_refresh_batch_status).   *)
BatchSettled == Batch!BatchSettled

(* A batch worker whose claim was handed on changes nothing any more         *)
(* (finalize_item, requeue_item_after_admission_failure).                    *)
LostClaimChangesNothing == Batch!LostClaimChangesNothing

(* A provider is connected by one gateway at a time (ChannelLeadership).     *)
OneTransport == Channel!OneTransport

(* A notice is sent once, again only for a send whose outcome is not known,  *)
(* and not after its owner muted it (claim_due_deliveries, patch).           *)
PushesAllowed == Outbox!PushesAllowed

(* A lock of the login throttle stands until it is served                    *)
(* (SqlLoginThrottleStore.check).                                            *)
LockIsServed == Throttle!LockIsServed

(* A half-open circuit that sheds calls has one probe, under way or ended by *)
(* a signal out of its fallback event (_check_circuit,                       *)
(* _release_half_open_probe, _aemit_fallback_event).                         *)
ProbeIsAccountedFor == Circuit!ProbeIsAccountedFor

(* Calls from before the circuit last opened do not move it                  *)
(* (_owns_current_circuit_generation).                                       *)
StaleOutcomesIgnored == Circuit!StaleOutcomesIgnored

(* The sandbox client of an execution is live until its lease is removed     *)
(* (reserve_idle_teardown, _bind_live_client).                               *)
BoundClientIsLive == Sandbox!BoundClientIsLive
=============================================================================
