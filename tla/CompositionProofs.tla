-------------------------- MODULE CompositionProofs --------------------------
(***************************************************************************)
(* The theorems of the components hold of the compositions that the runs    *)
(* services and delivery check: a behaviour of the composition is one of    *)
(* each part, in which the part may stand still.                            *)
(***************************************************************************)
EXTENDS MCServices, MCDelivery, TLAPS

-----------------------------------------------------------------------------
(* The services.                                                             *)

(* A behaviour of the services is one of each of them.                       *)
LEMMA ServicesImplement ==
    ServicesSpec => /\ Circuit!Spec /\ Sandbox!Spec /\ Channel!Spec /\ Batch!Spec
                    /\ Outbox!Spec /\ Throttle!Spec /\ Schedule!Spec /\ Mcp!Spec
<1>1. ServicesInit => /\ Circuit!Init /\ Sandbox!Init /\ Channel!Init /\ Batch!Init
                      /\ Outbox!Init /\ Throttle!Init /\ Schedule!Init /\ Mcp!Init
  BY DEF ServicesInit
<1>2. [ServicesNext]_servicesVars => [Circuit!Next]_(Circuit!vars)
  BY DEF ServicesNext, servicesVars, circuitVars, Circuit!vars
<1>3. [ServicesNext]_servicesVars => [Sandbox!Next]_(Sandbox!vars)
  BY DEF ServicesNext, servicesVars, sandboxVars, Sandbox!vars
<1>4. [ServicesNext]_servicesVars => [Channel!Next]_(Channel!vars)
  BY DEF ServicesNext, servicesVars, channelVars, Channel!vars
<1>5. [ServicesNext]_servicesVars => [Batch!Next]_(Batch!vars)
  BY DEF ServicesNext, servicesVars, batchVars, Batch!vars
<1>6. [ServicesNext]_servicesVars => [Outbox!Next]_(Outbox!vars)
  BY DEF ServicesNext, servicesVars, outboxVars, Outbox!vars
<1>7. [ServicesNext]_servicesVars => [Throttle!Next]_(Throttle!vars)
  BY DEF ServicesNext, servicesVars, throttleVars, Throttle!vars
<1>8. [ServicesNext]_servicesVars => [Schedule!Next]_(Schedule!vars)
  BY DEF ServicesNext, servicesVars, scheduleVars, Schedule!vars
<1>9. [ServicesNext]_servicesVars => [Mcp!Next]_(Mcp!vars)
  BY DEF ServicesNext, servicesVars, mcpVars, Mcp!vars
<1> QED BY <1>1, <1>2, <1>3, <1>4, <1>5, <1>6, <1>7, <1>8, <1>9, PTL
        DEF ServicesSpec, Circuit!Spec, Sandbox!Spec, Channel!Spec, Batch!Spec, Outbox!Spec, Throttle!Spec,
            Schedule!Spec, Mcp!Spec

(* Every part keeps to the types of its state.                               *)
THEOREM ServicesTypes == ServicesSpec => []ServicesTypeOK
<1>1. Circuit!Spec => []CircuitInvariant
  BY ServicesAssumption, CircuitIsInvariant
<1>2. Sandbox!Spec => []LeaseInvariant
  BY ServicesAssumption, LeaseIsInvariant
<1>3. Channel!Spec => []Channel!ChannelInvariant
  BY ServicesAssumption, Channel!ChannelIsInvariant
<1>4. Batch!Spec => []Batch!BatchInvariant
  BY ServicesAssumption, Batch!BatchIsInvariant
<1>5. Outbox!Spec => []OutboxInvariant
  BY ServicesAssumption, OutboxIsInvariant
<1>6. Throttle!Spec => []ThrottleInvariant
  BY ServicesAssumption, ThrottleIsInvariant
<1>7. Schedule!Spec => []ScheduleInvariant
  BY ServicesAssumption, ScheduleIsInvariant
<1>8. Mcp!Spec => []McpInvariant
  BY ServicesAssumption, McpIsInvariant
<1>9. CircuitInvariant => Circuit!TypeOK
  BY DEF CircuitInvariant
<1>10. LeaseInvariant => Sandbox!TypeOK
  BY DEF LeaseInvariant
<1>11. Channel!ChannelInvariant => Channel!TypeOK
  BY DEF Channel!ChannelInvariant
<1>12. Batch!BatchInvariant => Batch!TypeOK
  BY DEF Batch!BatchInvariant
<1>13. OutboxInvariant => Outbox!TypeOK
  BY DEF OutboxInvariant
<1>14. ThrottleInvariant => Throttle!TypeOK
  BY DEF ThrottleInvariant
<1>15. ScheduleInvariant => Schedule!TypeOK
  BY DEF ScheduleInvariant
<1>16. McpInvariant => Mcp!TypeOK
  BY DEF McpInvariant
<1>17. /\ Circuit!TypeOK /\ Sandbox!TypeOK /\ Channel!TypeOK /\ Batch!TypeOK
       /\ Outbox!TypeOK /\ Throttle!TypeOK /\ Schedule!TypeOK /\ Mcp!TypeOK
       => ServicesTypeOK
  BY DEF ServicesTypeOK
<1> QED BY <1>1, <1>2, <1>3, <1>4, <1>5, <1>6, <1>7, <1>8, <1>9, <1>10, <1>11, <1>12, <1>13, <1>14, <1>15,
           <1>16, <1>17, ServicesImplement, PTL

(* A half-open circuit that sheds calls has one probe, under way or ended by *)
(* a signal out of its fallback event (_check_circuit,                       *)
(* _release_half_open_probe, _aemit_fallback_event).                         *)
THEOREM ServicesProbe == ServicesSpec => []ProbeIsAccountedFor
<1>1. Circuit!Spec => []Circuit!ProbeIsAccountedFor
  BY ServicesAssumption, ProbeAccountedFor
<1> QED BY <1>1, ServicesImplement, PTL DEF ProbeIsAccountedFor

(* Calls from before the circuit last opened do not move it                  *)
(* (_owns_current_circuit_generation).                                       *)
THEOREM ServicesStale == ServicesSpec => StaleOutcomesIgnored
<1>1. Circuit!Spec => Circuit!StaleOutcomesIgnored
  BY ServicesAssumption, StaleIgnored
<1> QED BY <1>1, ServicesImplement, PTL DEF StaleOutcomesIgnored

(* The sandbox client of an execution is live until its lease is removed     *)
(* (reserve_idle_teardown, _bind_live_client).                               *)
THEOREM ServicesLive == ServicesSpec => []BoundClientIsLive
<1>1. Sandbox!Spec => []Sandbox!BoundClientIsLive
  BY ServicesAssumption, BoundIsLive
<1> QED BY <1>1, ServicesImplement, PTL DEF BoundClientIsLive

(* A provider is connected by one gateway at a time (ChannelLeadership).     *)
THEOREM ServicesTransport == ServicesSpec => []OneTransport
<1>1. Channel!Spec => []Channel!OneTransport
  BY ServicesAssumption, Channel!OneConnects
<1> QED BY <1>1, ServicesImplement, PTL DEF OneTransport

(* A batch is over exactly when all its items are (_refresh_batch_status).   *)
THEOREM ServicesBatch == ServicesSpec => []BatchSettled
<1>1. Batch!Spec => []Batch!BatchSettled
  BY ServicesAssumption, Batch!BatchSettles
<1> QED BY <1>1, ServicesImplement, PTL DEF BatchSettled

(* A batch worker whose claim was handed on changes nothing any more         *)
(* (finalize_item, requeue_item_after_admission_failure).                    *)
THEOREM ServicesLostClaim == ServicesSpec => []LostClaimChangesNothing
<1>1. Batch!Spec => []Batch!LostClaimChangesNothing
  BY ServicesAssumption, Batch!LostClaimsIgnored
<1> QED BY <1>1, ServicesImplement, PTL DEF LostClaimChangesNothing

(* A notice is sent once, again only for a send whose outcome is not known,  *)
(* and not after its owner muted it (claim_due_deliveries, patch).           *)
THEOREM ServicesPushes == ServicesSpec => []PushesAllowed
<1>1. Outbox!Spec => []Outbox!PushesAllowed
  BY ServicesAssumption, OutboxAllows
<1> QED BY <1>1, ServicesImplement, PTL DEF PushesAllowed

(* A lock of the login throttle stands until it is served                    *)
(* (SqlLoginThrottleStore.check).                                            *)
THEOREM ServicesLock == ServicesSpec => LockIsServed
<1>1. Throttle!Spec => Throttle!LockIsServed
  BY ServicesAssumption, ThrottleServes
<1> QED BY <1>1, ServicesImplement, PTL DEF LockIsServed

(* A once task whose own run was completed does not go back to running       *)
(* (update_after_launch).                                                    *)
THEOREM ServicesOnceStays == ServicesSpec => []CompletedOnceStays
<1>1. Schedule!Spec => []Schedule!CompletedOnceStays
  BY ServicesAssumption, ScheduleOnceStays
<1> QED BY <1>1, ServicesImplement, PTL DEF CompletedOnceStays

(* An occurrence that was given up is opened again only for the run that its *)
(* launch did produce (recover_expired_launch_claims, requeue_claimed_run).  *)
THEOREM ServicesReopened == ServicesSpec => ReopenedForItsRun
<1>1. Schedule!Spec => Schedule!ReopenedForItsRun
  BY ServicesAssumption, ScheduleReopened
<1> QED BY <1>1, ServicesImplement, PTL DEF ReopenedForItsRun

(* The outcome of an MCP task is not lost on the way to its thread           *)
(* (finish_notification_run, dead_letter_notification).                      *)
THEOREM ServicesOutcome == ServicesSpec => []OutcomeReported
<1>1. Mcp!Spec => []Mcp!OutcomeReported
  BY ServicesAssumption, McpOutcome
<1> QED BY <1>1, ServicesImplement, PTL DEF OutcomeReported

(* Answers of an MCP server are applied in the order it gave them            *)
(* (apply_snapshot, apply_cancel_snapshot).                                  *)
THEOREM ServicesSnapshots == ServicesSpec => SnapshotsInOrder
<1>1. Mcp!Spec => Mcp!SnapshotsInOrder
  BY ServicesAssumption, McpInOrder
<1> QED BY <1>1, ServicesImplement, PTL DEF SnapshotsInOrder

-----------------------------------------------------------------------------
(* What a run hands on.                                                      *)

(* A behaviour of the parts that answer is one of the limiter, one of the    *)
(* memory queue, one of a run's inputs, one of the Redis stream, and one of  *)
(* the in-process bridge with few writers in line or with more.              *)
LEMMA DeliveryImplements ==
    DeliverySpec => /\ Limiter!Spec /\ Queue!Spec /\ Input!Spec /\ Redis!Spec
                    /\ Stream!Spec \/ Writers!Spec
<1> DEFINE Many == part = "writers"
<1>1. DeliveryInit => Limiter!Init /\ Queue!Init /\ Input!Init /\ Redis!Init /\ Stream!Init
  BY DEF DeliveryInit
<1>2. Stream!Init => Writers!Init
  BY DEF Stream!Init, Writers!Init, Stream!Idle, Writers!Idle, Stream!NewStream, Writers!NewStream,
         Stream!NoId, Writers!NoId, Stream!Gens, Writers!Gens
<1>3. [DeliveryNext]_deliveryVars => [Limiter!Next]_(Limiter!vars)
  BY DEF DeliveryNext, deliveryVars, limiterVars, Limiter!vars
<1>4. ~Many /\ [DeliveryNext]_deliveryVars
        => ~Many' /\ [Stream!Next]_(Stream!vars)
  BY DEF DeliveryNext, Delivers, deliveryVars, streamVars, Stream!vars
<1>5. Many /\ [DeliveryNext]_deliveryVars
        => Many' /\ [Writers!Next]_(Writers!vars)
  BY DEF DeliveryNext, Delivers, deliveryVars, streamVars, Writers!vars
<1>6. [DeliveryNext]_deliveryVars => [Queue!Next]_(Queue!vars)
  BY DEF DeliveryNext, deliveryVars, queueVars, Queue!vars
<1>7. [DeliveryNext]_deliveryVars => [Input!Next]_(Input!vars)
  BY DEF DeliveryNext, deliveryVars, inputVars, Input!vars
<1>8. [DeliveryNext]_deliveryVars => [Redis!Next]_(Redis!vars)
  BY DEF DeliveryNext, deliveryVars, redisVars, Redis!vars
<1> HIDE DEF Many
<1> QED BY <1>1, <1>2, <1>3, <1>4, <1>5, <1>6, <1>7, <1>8, PTL
        DEF DeliverySpec, Limiter!Spec, Queue!Spec, Input!Spec, Redis!Spec, Stream!Spec, Writers!Spec

(* Eviction, reconnection and cleanup make no silent hole in what a          *)
(* subscriber of the in-process bridge receives (memory.py, subscribe).      *)
THEOREM DeliveryNoHole == DeliverySpec => []NoSilentHole
<1>1. Stream!Spec => []Stream!NoSilentHole
  BY DeliveryAssumption, Stream!NoHole
<1>2. Writers!Spec => []Writers!NoSilentHole
  BY DeliveryAssumption, Writers!NoHole
<1>3. Writers!NoSilentHole => Stream!NoSilentHole
  BY DEF Writers!NoSilentHole, Stream!NoSilentHole
<1> QED BY <1>1, <1>2, <1>3, DeliveryImplements, PTL DEF NoSilentHole

(* END reaches it only after everything published before END (memory.py).    *)
THEOREM DeliveryEndLast == DeliverySpec => []EndAfterTail
<1>1. Stream!Spec => []Stream!EndAfterTail
  BY DeliveryAssumption, Stream!EndComesLast
<1>2. Writers!Spec => []Writers!EndAfterTail
  BY DeliveryAssumption, Writers!EndComesLast
<1>3. Writers!EndAfterTail => Stream!EndAfterTail
  BY DEF Writers!EndAfterTail, Stream!EndAfterTail
<1> QED BY <1>1, <1>2, <1>3, DeliveryImplements, PTL DEF EndAfterTail

(* The limiter's counter is the number of callers that own a permit          *)
(* (_ProcessWideLimiter).                                                    *)
THEOREM DeliveryPermits == DeliverySpec => []PermitsAccounted
<1>1. Limiter!Spec => []Limiter!PermitsAccounted
  BY DeliveryAssumption, PermitsKept
<1> QED BY <1>1, DeliveryImplements, PTL DEF PermitsAccounted

(* Nobody waits while there is a permit for it (release).                    *)
THEOREM DeliveryNoLostPermit == DeliverySpec => []NoLostPermit
<1>1. Limiter!Spec => []Limiter!NoLostPermit
  BY DeliveryAssumption, PermitsFound
<1> QED BY <1>1, DeliveryImplements, PTL DEF NoLostPermit

(* An accepted memory update is queued or under way until it is settled      *)
(* (queue.py, _enqueue_locked).                                              *)
THEOREM DeliveryNoDrop == DeliverySpec => []NoUpdateDropped
<1>1. Queue!Spec => []Queue!NoUpdateDropped
  BY DeliveryAssumption, QueueKeeps
<1> QED BY <1>1, DeliveryImplements, PTL DEF NoUpdateDropped

(* A steer that a successful run accepted got its turn, and an input that    *)
(* was taken back is out (input_control.py, finish_graph; inputs.py).        *)
THEOREM DeliveryInputs == DeliverySpec => InputsKept
<1>1. Input!Spec => Input!InputsKept
  BY DeliveryAssumption, InputKeeps
<1> QED BY <1>1, DeliveryImplements, PTL DEF InputsKept

(* A subscriber goes past no event it was owed without a gap (redis.py,      *)
(* subscribe).                                                               *)
THEOREM DeliverySkips == DeliverySpec => []NoSkippedEvent
<1>1. Redis!Spec => []Redis!NoSkippedEvent
  BY DeliveryAssumption, RedisSkipsNothing
<1> QED BY <1>1, DeliveryImplements, PTL DEF NoSkippedEvent

(* END over Redis, published or made up, cuts off no event (services.py,     *)
(* _orphan_recovery_observed_after_heartbeat).                               *)
THEOREM DeliveryEnds == DeliverySpec => []EndCutsNothing
<1>1. Redis!Spec => []Redis!EndCutsNothing
  BY DeliveryAssumption, RedisEndsLast
<1> QED BY <1>1, DeliveryImplements, PTL DEF EndCutsNothing
=============================================================================
