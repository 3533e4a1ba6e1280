------------------------------ MODULE MCDelivery ------------------------------
(* The parts of a gateway that owe somebody an answer: the readers of the two *)
(* stream bridges, the callers of the limiter, the memory queue and the users *)
(* who write to a run.  They do not share state, so a behaviour chooses one   *)
(* of them (part) and the others stay as they are.  They are the instances of *)
(* DeliveryProofs and, for the in-process bridge, of its proof module.        *)
EXTENDS DeliveryProofs

CONSTANTS Clients

VARIABLES
    part,
    streams, current, counter, made, waiting, producing, sub, seen   \* MemoryStream

Stream  == INSTANCE MemoryStreamProofs WITH MaxSize <- 1, MaxSeq <- 3, MaxGens <- 2, MaxWaiting <- 1
Writers == INSTANCE MemoryStreamProofs WITH MaxSize <- 1, MaxSeq <- 2, MaxGens <- 2, MaxWaiting <- 2

ASSUME DeliveryAssumption ==
    /\ Stream!StreamAssumption /\ Writers!StreamAssumption /\ Redis!RedisAssumption /\ Limiter!LimiterAssumption
    /\ Queue!QueueAssumption /\ Input!InputAssumption

streamVars  == <<streams, current, counter, made, waiting, producing, sub, seen>>
redisVars   == <<log, lastId, events, tracked, active, row, prod, recovery, cons, got>>
limiterVars == <<inFlight, waiters, sleepers, pc>>
queueVars   == <<feeds, items, timer, callbacks, taken, consumer, drain>>
inputVars   == <<input, closed, order, message, graph, heard, runs, caller, todo>>

deliveryVars == <<part, streamVars, redisVars, limiterVars, queueVars, inputVars>>

DeliveryInit ==
    /\ part \in {"stream", "writers", "redis", "limiter", "queue", "input"}
    /\ Stream!Init /\ Limiter!Init /\ Queue!Init /\ Input!Init
    /\ Redis!Init /\ (part # "redis" => \A c \in Consumers : cons[c].waits)

Bridge == {"stream", "writers"}   \* more events, or more writers in line

Delivers(p) == part = p /\ part' = p

DeliveryNext ==
    \/ Delivers("stream") /\ Stream!Next /\ UNCHANGED <<redisVars, limiterVars, queueVars, inputVars>>
    \/ Delivers("writers") /\ Writers!Next /\ UNCHANGED <<redisVars, limiterVars, queueVars, inputVars>>
    \/ Delivers("redis") /\ Redis!Next /\ UNCHANGED <<streamVars, limiterVars, queueVars, inputVars>>
    \/ Delivers("limiter") /\ Limiter!Next /\ UNCHANGED <<streamVars, redisVars, queueVars, inputVars>>
    \/ Delivers("queue") /\ Queue!Next /\ UNCHANGED <<streamVars, redisVars, limiterVars, inputVars>>
    \/ Delivers("input") /\ Input!Next /\ UNCHANGED <<streamVars, redisVars, limiterVars, queueVars>>

(* The chosen part runs as fairly as its own FairSpec says.                  *)
Fairness ==
    /\ \A g \in Stream!Gens : WF_streamVars(part \in Bridge /\ Stream!Write(g))
    /\ \A c \in Clients : /\ WF_streamVars(part \in Bridge /\ Stream!Resolve(c))
                          /\ WF_streamVars(part \in Bridge /\ Stream!Read(c))
    /\ \A c \in Consumers : /\ WF_redisVars(part = "redis" /\ Redis!Working(c))
                            /\ WF_redisVars(part = "redis" /\ cons[c].waits /\ Redis!Join(c))
    /\ WF_redisVars(part = "redis" /\ prod.pc = "gone" /\ Redis!ExpireActive)
    /\ WF_redisVars(part = "redis" /\ (Redis!Probe \/ Redis!RecoveryPurge \/ Redis!RecoveryEnd \/ Redis!RecoveryCleanup))
    /\ \A c \in SyncCallers \cup AsyncCallers :
        /\ WF_limiterVars(part = "limiter" /\ Limiter!Release(c))
        /\ WF_limiterVars(part = "limiter" /\ Limiter!Wake(c))
        /\ WF_limiterVars(part = "limiter" /\ pc[c] = "notified" /\ Limiter!Acquire(c))
    /\ WF_queueVars(part = "queue" /\ \E c \in items : Queue!Elapse(c))
    /\ WF_queueVars(part = "queue" /\ Queue!TimerFires) /\ WF_queueVars(part = "queue" /\ Queue!Callback)
    /\ WF_queueVars(part = "queue" /\ Queue!Process) /\ WF_queueVars(part = "queue" /\ Queue!Finish)
    /\ WF_queueVars(part = "queue" /\ Queue!FlushMark) /\ WF_queueVars(part = "queue" /\ Queue!FlushTake)

DeliverySpec == DeliveryInit /\ [][DeliveryNext]_deliveryVars /\ Fairness
-----------------------------------------------------------------------------
DeliveryTypeOK == Stream!TypeOK /\ Redis!TypeOK /\ Limiter!TypeOK /\ Queue!TypeOK /\ Input!TypeOK

(* Eviction, reconnection and cleanup make no silent hole in what a          *)
(* subscriber of the in-process bridge receives (memory.py, subscribe).      *)
NoSilentHole == Stream!NoSilentHole

(* END reaches it only after everything published before END (memory.py).    *)
EndAfterTail == Stream!EndAfterTail

(* It does not wait for ever on a log that has ended, was cleaned up or is   *)
(* registered no more (memory.py, subscribe, cleanup).                       *)
ReadersFinish == Stream!ReadersFinish

(* END over Redis, published or made up, cuts off no event (services.py,     *)
(* _orphan_recovery_observed_after_heartbeat).                               *)
EndCutsNothing == Redis!EndCutsNothing

(* A subscriber goes past no event it was owed without a gap (redis.py,      *)
(* subscribe).                                                               *)
NoSkippedEvent == Redis!NoSkippedEvent

(* A consumer of a run that is over and whose producer is gone ends          *)
(* (services.py, sse_consumer).                                              *)
ConsumersFinish == Redis!ConsumersFinish

(* The limiter's counter is the number of callers that own a permit          *)
(* (_ProcessWideLimiter).                                                    *)
PermitsAccounted == Limiter!PermitsAccounted

(* Nobody waits while there is a permit for it (release).                    *)
NoLostPermit == Limiter!NoLostPermit

(* A waiting task gets its permit (_handoff_granted_permit_locked).          *)
WaiterIsServed == Limiter!WaiterIsServed

(* An accepted memory update is queued or under way until it is settled      *)
(* (queue.py, _enqueue_locked).                                              *)
NoUpdateDropped == Queue!NoUpdateDropped

(* It is extracted or cancelled at last (queue.py, _rearm_timer_locked).     *)
UpdatesSettle == Queue!UpdatesSettle

(* A steer that a successful run accepted got its turn, and an input that    *)
(* was taken back is out (input_control.py, finish_graph; inputs.py).        *)
InputsKept == Input!InputsKept
=============================================================================
