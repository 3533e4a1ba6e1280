------------------------------ MODULE RedisStream ------------------------------
(* The Redis stream bridge of one run and the consumers that join it to the   *)
(* run's durable row (RedisStreamBridge, sse_consumer): a producer with a     *)
(* short lease, the recovery of orphaned runs in another gateway, and         *)
(* subscribers that read atomic snapshots of the retained log.  Scripts run   *)
(* atomically in Redis; everything between two awaits is one step.            *)
(* producer_lease_recovery_enabled is on and the retained stream has no TTL   *)
(* (stream_ttl_seconds = 0).                                                  *)
EXTENDS Integers, Sequences, FiniteSets, SequencesExt

CONSTANTS
    Consumers,  \* clients of sse_consumer and of wait_for_run_completion
    MaxLen,     \* queue_maxsize
    MaxEvents   \* bound: events the producer publishes

RedisAssumption ==
    /\ IsFiniteSet(Consumers)
    /\ MaxLen \in Nat \ {0} /\ MaxEvents \in Nat

VARIABLES
    log,       \* the retained stream: entries [id, end]
    lastId,    \* the last entry id Redis handed out
    events,    \* ids of all events ever appended (not in the code)
    tracked,   \* producer-tracked holds the producer's token
    active,    \* producer-active holds the producer's token
    row,       \* the run's row: "active", "done" (by its worker) or "orphan"
    prod,      \* the producer: where it is, and what it believes of its lease
    recovery,  \* the gateway that reclaimed the row
    cons,      \* the consumers
    got        \* the events each consumer has received

vars == <<log, lastId, events, tracked, active, row, prod, recovery, cons, got>>

Ids == 0 .. MaxEvents + 1

Entry == [id : Ids, end : BOOLEAN]

Producer ==
    [pc     : {"new", "claimed", "running", "tail", "ended", "fenced", "finished", "gone"},
     lease  : {"none", "held", "lost", "stopped"},
     leased : BOOLEAN]          \* it once held a lease (not in the code)

Consumer ==
    [pc       : {"new", "missing", "recheck", "purge", "reading", "waiting", "beat", "confirm",
                 "end", "gap"},
     waits    : BOOLEAN,        \* it only waits for completion
     cursor   : Ids,            \* 0: no Last-Event-ID, read from the start
     detect   : BOOLEAN,        \* gap_detection_enabled
     observed : BOOLEAN,        \* stream_observed
     expired  : BOOLEAN,        \* expired_heartbeat_seen
     pending  : Seq(Entry),     \* pending_initial_response
     from     : 0 .. MaxEvents + 2, \* the first entry it is owed (not in the code)
     beats    : 0 .. 2,         \* heartbeats since the last delayed cleanup began (time)
     before   : SUBSET Consumers] \* checks under way at its expired one (time)

NewConsumer(w) ==
    [pc |-> "new", waits |-> w, cursor |-> 0, detect |-> FALSE, observed |-> FALSE, expired |-> FALSE,
     pending |-> <<>>, from |-> 0, beats |-> 0, before |-> {}]

Init ==
    /\ log = <<>> /\ lastId = 0 /\ events = {}
    /\ tracked = FALSE /\ active = FALSE
    /\ row = "active"
    /\ prod = [pc |-> "new", lease |-> "none", leased |-> FALSE]
    /\ recovery = "idle"
    /\ \E w \in [Consumers -> BOOLEAN] : cons = [c \in Consumers |-> NewConsumer(w[c])]
    /\ got = [c \in Consumers |-> {}]

Exists == log # <<>>
TailIsEnd == Exists /\ Last(log).end

Retain(entries, n) ==
    IF Len(entries) > n THEN SubSeq(entries, Len(entries) - n + 1, Len(entries)) ELSE entries

(* XADD ... MAXLEN: an event, or END with one more entry retained.           *)
Xadd(end) ==
    /\ lastId' = lastId + 1
    /\ log' = Retain(Append(log, [id |-> lastId + 1, end |-> end]),
                     IF end THEN MaxLen + 1 ELSE MaxLen)
    /\ events' = IF end THEN events ELSE events \cup {lastId + 1}

Silent == UNCHANGED <<log, lastId, events>>
(* Both delayed cleanups wait four heartbeat intervals (60 s and 15 s), so   *)
(* every subscriber has checked twice by then.                               *)
Unhurried == [c \in Consumers |-> [cons[c] EXCEPT !.beats = 0]]
CleanupIsDue == \A c \in Consumers : cons[c].pc \in {"new", "end", "gap"} \/ cons[c].beats = 2
-----------------------------------------------------------------------------
(* start_producer_lease: SET NX the active key, then the tracking key.       *)
Claim ==
    /\ prod.pc = "new"
    /\ active' = TRUE
    /\ prod' = [prod EXCEPT !.pc = "claimed"]
    /\ UNCHANGED <<log, lastId, events, tracked, row, recovery, cons, got>>

Track ==
    /\ prod.pc = "claimed"
    /\ tracked' = TRUE
    /\ prod' = [pc |-> "running", lease |-> "held", leased |-> TRUE]
    /\ UNCHANGED <<log, lastId, events, active, row, recovery, cons, got>>

(* A Redis error on the way: the partial registration is rolled back and the *)
(* run is admitted without a lease.                                         *)
Untracked ==
    /\ prod.pc \in {"new", "claimed"}
    /\ active' = FALSE
    /\ prod' = [prod EXCEPT !.pc = "running"]
    /\ UNCHANGED <<log, lastId, events, tracked, row, recovery, cons, got>>

(* _COMPARE_XADD_SCRIPT and _XADD_IF_NO_ACTIVE_PRODUCER_SCRIPT: an append is *)
(* applied, refused (a leased producer has lost its lease) or ignored.       *)
AppendAllowed ==
    CASE prod.lease = "held" -> active /\ tracked
      [] prod.lease = "none" -> ~active
      [] OTHER -> FALSE

LeaseAfterAppend == IF prod.lease = "held" /\ ~AppendAllowed THEN "lost" ELSE prod.lease

(* publish while the agent runs, and the error frame of the tail.            *)
PublishEvent ==
    /\ prod.pc \in {"running", "tail"}
    /\ Cardinality(events) < MaxEvents
    /\ \/ AppendAllowed /\ ~TailIsEnd /\ Xadd(FALSE)
       \/ ~AppendAllowed /\ Silent
    /\ prod' = [prod EXCEPT !.lease = LeaseAfterAppend]
    /\ UNCHANGED <<tracked, active, row, recovery, cons, got>>

(* The worker commits its outcome, unless the row was reclaimed.             *)
Commit ==
    /\ prod.pc = "running"
    /\ row = "active"
    /\ row' = "done"
    /\ prod' = [prod EXCEPT !.pc = "tail"]
    /\ UNCHANGED <<log, lastId, events, tracked, active, recovery, cons, got>>

(* The worker is fenced by the run protocol: it announces nothing.           *)
Fence ==
    /\ prod.pc = "running"
    /\ row = "active"
    /\ prod' = [prod EXCEPT !.pc = "fenced"]
    /\ UNCHANGED <<log, lastId, events, tracked, active, row, recovery, cons, got>>

(* publish_end.  An untracked END for a stream that does not exist is a      *)
(* no-op, and so is a second END.                                           *)
PublishEnd ==
    /\ prod.pc = "tail"
    /\ IF AppendAllowed /\ ~TailIsEnd /\ (prod.lease = "held" \/ Exists)
       THEN Xadd(TRUE) ELSE Silent
    /\ prod' = [prod EXCEPT !.pc = "ended", !.lease = LeaseAfterAppend]
    /\ UNCHANGED <<tracked, active, row, recovery, cons, got>>

(* finish_producer_lease, in the finalizer: the active key goes, the         *)
(* tracking key stays.                                                      *)
FinishLease ==
    /\ prod.pc \in {"ended", "fenced"}
    /\ active' = (active /\ prod.lease = "none")
    /\ prod' = [prod EXCEPT !.pc = "finished", !.lease = IF @ = "none" THEN @ ELSE "stopped"]
    /\ cons' = Unhurried
    /\ UNCHANGED <<log, lastId, events, tracked, row, recovery, got>>

(* The worker's delayed bridge.cleanup.                                      *)
Cleanup ==
    /\ prod.pc = "finished"
    /\ CleanupIsDue
    /\ prod' = [prod EXCEPT !.pc = "gone"]
    /\ log' = <<>> /\ tracked' = FALSE /\ active' = FALSE
    /\ UNCHANGED <<lastId, events, row, recovery, cons, got>>

(* The renewal task finds the lease gone, or its local deadline passes: the  *)
(* producer is cancelled and can publish no more.                            *)
RenewalLost ==
    /\ prod.lease = "held" /\ ~active
    /\ prod' = [prod EXCEPT !.lease = "lost"]
    /\ UNCHANGED <<log, lastId, events, tracked, active, row, recovery, cons, got>>

Crash ==
    /\ prod.pc # "gone"
    /\ prod' = [prod EXCEPT !.pc = "gone", !.lease = "none"]
    /\ UNCHANGED <<log, lastId, events, tracked, active, row, recovery, cons, got>>

(* The active key's TTL runs out: the producer died, stalled or lost Redis.  *)
ExpireActive ==
    /\ active
    /\ active' = FALSE
    /\ UNCHANGED <<log, lastId, events, tracked, row, prod, recovery, cons, got>>
-----------------------------------------------------------------------------
(* Orphan recovery claims the row of a dead or fenced worker.                *)
Reclaim ==
    /\ prod.pc \in {"fenced", "finished", "gone"}
    /\ row = "active"
    /\ row' = "orphan"
    /\ recovery' = "probe"
    /\ UNCHANGED <<log, lastId, events, tracked, active, prod, cons, got>>

(* _DELETE_EXPIRED_TRACKING_SCRIPT.                                          *)
PurgeOk == ~active

(* _publish_recovered_run_stream_end: probe, then END or the stale marker.   *)
Probe ==
    /\ recovery = "probe"
    /\ recovery' = IF Exists THEN "end" ELSE "purge"
    /\ UNCHANGED <<log, lastId, events, tracked, active, row, prod, cons, got>>

RecoveryPurge ==
    /\ recovery = "purge"
    /\ tracked' = (tracked /\ ~PurgeOk)
    /\ recovery' = IF PurgeOk THEN "done" ELSE "retry"
    /\ UNCHANGED <<log, lastId, events, active, row, prod, cons, got>>

(* publish_end without a lease: refused while a producer is active.  It is   *)
(* retried once, after the TTL of a lease: a dead producer's has run out.    *)
RecoveryEnd ==
    /\ recovery \in {"end", "retry"}
    /\ recovery = "retry" => ~active \/ prod.pc # "gone"
    /\ IF active
       THEN /\ recovery' = IF recovery = "end" THEN "retry" ELSE "done"
            /\ Silent /\ UNCHANGED cons
       ELSE /\ recovery' = "clean"
            /\ cons' = Unhurried
            /\ IF Exists /\ ~TailIsEnd THEN Xadd(TRUE) ELSE Silent
    /\ UNCHANGED <<tracked, active, row, prod, got>>

(* The delayed cleanup of a recovered stream.                                *)
RecoveryCleanup ==
    /\ recovery = "clean"
    /\ CleanupIsDue
    /\ recovery' = "done"
    /\ log' = IF active THEN log ELSE <<>>
    /\ tracked' = (tracked /\ active)
    /\ UNCHANGED <<lastId, events, active, row, prod, cons, got>>
-----------------------------------------------------------------------------
LeaseState == IF ~tracked THEN "untracked" ELSE IF active THEN "active" ELSE "expired"

Others == UNCHANGED <<log, lastId, events, active, row, prod, recovery>>

(* A check that is over no longer holds up another consumer's heartbeat.     *)
Checking == {"missing", "recheck", "purge", "beat", "confirm"}

Step(c, new) ==
    cons' = [d \in Consumers |->
                IF d = c THEN new
                ELSE IF new.pc \in Checking THEN cons[d]
                ELSE [cons[d] EXCEPT !.before = @ \ {c}]]

(* The first entry owed to a subscriber without a cursor (not in the code):  *)
(* the first one retained when it finds the stream, or whatever comes after  *)
(* it was told that there is none.                                           *)
Owed(u) == IF u.from # 0 THEN u.from ELSE IF Exists THEN Head(log).id ELSE lastId + 1

(* A client whose subscription never saw the stream, because it came when    *)
(* everything was gone, is told only that the run has ended.                 *)
Ended(u) == [u EXCEPT !.pc = "end", !.before = {},
                      !.from = IF u.observed \/ Exists THEN Owed(u) ELSE lastId + 1]

(* A consumer opens with _terminal_record_stream_missing, in its four reads. *)
Join(c) ==
    /\ cons[c].pc = "new"
    /\ Step(c, [cons[c] EXCEPT !.pc = IF row # "active" /\ ~Exists THEN "missing" ELSE "reading",
                               !.detect = cons[c].cursor # 0, !.observed = FALSE,
                               !.beats = 0])
    /\ UNCHANGED <<tracked, got>> /\ Others

MissingState(c) ==
    /\ cons[c].pc = "missing"
    /\ Step(c, CASE LeaseState = "untracked" -> Ended(cons[c])
                 [] LeaseState = "expired" -> [cons[c] EXCEPT !.pc = "recheck"]
                 [] OTHER -> [cons[c] EXCEPT !.pc = "reading"])
    /\ UNCHANGED <<tracked, got>> /\ Others

Recheck(c) ==
    /\ cons[c].pc = "recheck"
    /\ Step(c, [cons[c] EXCEPT !.pc = IF Exists THEN "reading" ELSE "purge"])
    /\ UNCHANGED <<tracked, got>> /\ Others

MissingPurge(c) ==
    /\ cons[c].pc = "purge"
    /\ tracked' = (tracked /\ ~PurgeOk)
    /\ Step(c, IF PurgeOk THEN Ended(cons[c]) ELSE [cons[c] EXCEPT !.pc = "reading"])
    /\ UNCHANGED got /\ Others
-----------------------------------------------------------------------------
(* XREAD: the retained entries from the first one with a later id on.        *)
After(cursor) ==
    LET later == {i \in DOMAIN log : log[i].id > cursor}
    IN  IF later = {} THEN <<>> ELSE SubSeq(log, Min(later), Len(log))

EventIds(entries) == {e.id : e \in {x \in ToSet(entries) : ~x.end}}

(* What the snapshot is compared with: the entries of a first wake-up are    *)
(* held back until it has shown that nothing before them was evicted.        *)
Base(u) == IF u.pending # <<>> THEN Last(u.pending).id ELSE u.cursor

FellBehindUnpended(u) ==
    \/ ~Exists /\ u.observed
    \/ Exists /\ u.detect /\ (Base(u) < Head(log).id \/ Last(log).id < u.cursor)

FellBehind(u) ==
    \/ ~Exists /\ (u.observed \/ u.pending # <<>>)
    \/ Exists /\ (u.detect \/ u.pending # <<>>) /\ Base(u) < Head(log).id
    \/ Exists /\ u.detect /\ Last(log).id < u.cursor

(* A gap ends an event stream.  wait_for_run_completion goes on at the       *)
(* retained tail, or looks again whether the stream is gone for good.        *)
AfterGap(c) ==
    IF ~cons[c].waits THEN [cons[c] EXCEPT !.pc = "gap", !.pending = <<>>]
    ELSE [cons[c] EXCEPT !.pc = IF Exists THEN "reading" ELSE "new", !.pending = <<>>,
                         !.cursor = IF Exists THEN Last(log).id ELSE 0,
                         !.detect = Exists, !.observed = FALSE]

(* A turn of subscribe: one atomic snapshot of the retained bounds and of    *)
(* the entries after the cursor.                                             *)
Read(c) ==
    LET u == cons[c]
        entries == u.pending \o After(Base(u))
        looked == [u EXCEPT !.observed = @ \/ Exists, !.from = IF Exists THEN Owed(u) ELSE @,
                            !.pending = <<>>]
    IN  /\ u.pc = "reading"
        /\ IF FellBehind(u) THEN Step(c, AfterGap(c)) /\ UNCHANGED got
           ELSE IF entries # <<>>
           THEN /\ Step(c, [looked EXCEPT !.cursor = Last(entries).id, !.detect = TRUE,
                                          !.expired = FALSE,
                                          !.pc = IF Last(entries).end THEN "end" ELSE "reading"])
                /\ got' = [got EXCEPT ![c] = @ \cup EventIds(entries)]
           ELSE /\ Step(c, [looked EXCEPT !.pc = IF TailIsEnd /\ Last(log).id = u.cursor
                                                 THEN "end" ELSE "waiting"])
                /\ UNCHANGED got
        /\ UNCHANGED tracked /\ Others

(* The blocking XREAD returns entries, which only say that it is time to     *)
(* look again, unless the subscriber began with an empty stream ...          *)
Wake(c) ==
    LET u == cons[c]
    IN  /\ u.pc = "waiting"
        /\ After(u.cursor) # <<>>
        /\ Step(c, [u EXCEPT !.pc = "reading", !.from = Owed(u),
                             !.pending = IF u.detect \/ u.observed THEN <<>> ELSE After(u.cursor)])
        /\ UNCHANGED <<tracked, got>> /\ Others

(* ... or times out: a heartbeat.  The check that follows one takes less     *)
(* than a heartbeat interval.                                                *)
Heartbeat(c) ==
    /\ cons[c].pc = "waiting"
    /\ After(cons[c].cursor) = <<>>
    /\ cons[c].before = {}
    /\ Step(c, [cons[c] EXCEPT !.pc = "beat"])
    /\ UNCHANGED <<tracked, got>> /\ Others

(* _orphan_recovery_observed_after_heartbeat.                                *)
ReasonOrphanOnly ==
    IF row = "orphan" /\ LeaseState # "active" THEN "recovered" ELSE "none"

Reason ==
    CASE row = "orphan" /\ LeaseState = "untracked" -> "recovered"
      [] row # "active" /\ LeaseState = "expired"   -> "expired"
      [] OTHER -> "none"

(* The consumer's reaction: an expired producer must be seen twice, with an  *)
(* empty read in between.                                                    *)
CheckOnce(c) ==
    /\ cons[c].pc = "beat"
    /\ LET u == [cons[c] EXCEPT !.beats = IF @ < 2 THEN @ + 1 ELSE @]
       IN  Step(c, CASE Reason = "recovered" -> Ended(u)
                     [] Reason = "expired"   -> [u EXCEPT !.pc = "confirm"]
                     [] OTHER -> [u EXCEPT !.pc = "reading"])
    /\ UNCHANGED <<tracked, got>> /\ Others

Check(c) ==
    /\ cons[c].pc = "beat"
    /\ LET first == Reason = "expired" /\ ~cons[c].expired
           busy == {d \in Consumers \ {c} : cons[d].pc \in Checking}
           u == [cons[c] EXCEPT !.expired = Reason = "expired",
                                !.before  = IF first THEN busy ELSE {},
                                !.beats   = IF @ < 2 THEN @ + 1 ELSE @]
       IN  Step(c, CASE Reason = "recovered" -> Ended(u)
                     [] Reason = "expired" /\ ~first -> [u EXCEPT !.pc = "confirm"]
                     [] OTHER -> [u EXCEPT !.pc = "reading"])
    /\ UNCHANGED <<tracked, got>> /\ Others

(* _cleanup_expired_stream_producer, before END is made up.                  *)
Confirm(c) ==
    /\ cons[c].pc = "confirm"
    /\ tracked' = (tracked /\ ~PurgeOk)
    /\ LET u == [cons[c] EXCEPT !.expired = FALSE]
       IN  Step(c, IF PurgeOk THEN Ended(u) ELSE [u EXCEPT !.pc = "reading"])
    /\ UNCHANGED got /\ Others

(* An event-stream client goes away and comes back with its Last-Event-ID.   *)
Reconnect(c) ==
    /\ ~cons[c].waits
    /\ cons[c].pc \in {"reading", "waiting", "beat"}
    /\ Step(c, [cons[c] EXCEPT !.pc = "new", !.pending = <<>>, !.expired = FALSE, !.before = {},
                               !.from = IF cons[c].cursor = 0 THEN 0 ELSE @])
    /\ UNCHANGED <<tracked, got>> /\ Others

ProducerNext ==
    \/ Claim \/ Track \/ Untracked \/ PublishEvent \/ Commit \/ Fence \/ PublishEnd
    \/ FinishLease \/ Cleanup \/ RenewalLost \/ Crash \/ ExpireActive

RecoveryNext == Reclaim \/ Probe \/ RecoveryPurge \/ RecoveryEnd \/ RecoveryCleanup

Working(c) ==
    \/ MissingState(c) \/ Recheck(c) \/ MissingPurge(c) \/ Read(c) \/ Wake(c) \/ Heartbeat(c)
    \/ Check(c) \/ Confirm(c)

Next ==
    \/ ProducerNext \/ RecoveryNext
    \/ \E c \in Consumers : Join(c) \/ Working(c) \/ Reconnect(c)

Spec == Init /\ [][Next]_vars

(* A consumer keeps running (a waiter starts over by itself), a dead         *)
(* producer's key expires, and the gateway that reclaimed a row finishes     *)
(* what it began.  Nothing is assumed of the producer or of clients.         *)
FairSpec ==
    /\ Spec
    /\ \A c \in Consumers : WF_vars(Working(c))
    /\ \A c \in Consumers : WF_vars(cons[c].waits /\ Join(c))
    /\ WF_vars(prod.pc = "gone" /\ ExpireActive)
    /\ WF_vars(Probe \/ RecoveryPurge \/ RecoveryEnd \/ RecoveryCleanup)
-----------------------------------------------------------------------------
TypeOK ==
    /\ log \in Seq(Entry) /\ Len(log) <= MaxLen + 1 /\ lastId \in Ids /\ events \subseteq Ids
    /\ tracked \in BOOLEAN /\ active \in BOOLEAN
    /\ row \in {"active", "done", "orphan"}
    /\ prod \in Producer
    /\ recovery \in {"idle", "probe", "end", "purge", "retry", "clean", "done"}
    /\ cons \in [Consumers -> Consumer]
    /\ got \in [Consumers -> SUBSET Ids]

(* END, published or made up by a consumer, never cuts the tail off: an      *)
(* event stream that has ended has received every event ever appended from   *)
(* the first one it was owed, and none is appended later.  A client that     *)
(* never found the stream is owed only what comes later (services.py,       *)
(* _orphan_recovery_observed_after_heartbeat; the producer held a lease).    *)
EndCutsNothing ==
    \A c \in Consumers :
        ~cons[c].waits /\ cons[c].pc = "end" /\ prod.leased =>
            \A e \in events : e >= cons[c].from => e \in got[c]

(* A subscriber that has gone past an entry it was owed has received it; if  *)
(* it was evicted first, the subscriber sees a gap (subscribe).              *)
NoSkippedEvent ==
    \A c \in Consumers :
        ~cons[c].waits /\ cons[c].pc # "gap" =>
            \A e \in events : cons[c].from # 0 /\ e \in cons[c].from .. cons[c].cursor => e \in got[c]

(* A consumer of a run whose row is terminal and whose producer is gone      *)
(* ends, also when the process died between the row and END (services.py:    *)
(* "closes the crash window").                                               *)
ConsumersFinish ==
    \A c \in Consumers :
        (row # "active" /\ prod.pc = "gone" /\ prod.leased /\ cons[c].pc = "reading")
            ~> (cons[c].pc \in {"end", "gap"} \/ (cons[c].pc = "new" /\ ~cons[c].waits))
=============================================================================
