----------------------------- MODULE SandboxLease -----------------------------
(* The execution leases on one sandbox client inside a gateway                *)
(* (SandboxLeaseManager).  Executions of the sandbox's own thread acquire it  *)
(* under the thread's serializer; forks of that thread run under other keys   *)
(* and only borrow the live client; the provider tears an idle client down on *)
(* its own account.  Blocks under the metadata lock are steps; a provider     *)
(* call is a step of its own.                                                 *)
EXTENDS Integers, FiniteSets

CONSTANTS
    Owners,    \* executions of the sandbox's thread
    Forks,     \* executions of forked threads
    MaxClients \* bound: clients the provider makes

Holders == Owners \cup Forks
None    == "none"
Reaper  == "reaper"

SandboxAssumption == MaxClients \in Nat /\ Holders \cap {None, Reaper} = {}

VARIABLES
    client,    \* the provider's live client: its number, or 0 for none
    made,      \* clients made so far
    serial,    \* who holds the serializer of the sandbox's thread
    pending,   \* _release_pending_by_sandbox
    teardown,  \* _teardowns_by_sandbox: the worker of the reservation
    holder     \* the executions

vars == <<client, made, serial, pending, teardown, holder>>

Holder ==
    [pc     : {"out", "acquire", "observe", "get", "bind", "undo", "bound", "leaving", "reserve",
               "release", "finish"},
     closes : BOOLEAN,          \* release_on_last
     seen   : 0 .. MaxClients,  \* the client it looked up, then bound
     stale  : BOOLEAN]          \* a teardown began since it observed the lifecycle

Away == [pc |-> "out", closes |-> FALSE, seen |-> 0, stale |-> FALSE]

Init ==
    /\ client = 0 /\ made = 0
    /\ serial = None /\ pending = FALSE /\ teardown = None
    /\ holder = [h \in Holders |-> Away]

(* _owners_by_sandbox.                                                       *)
Bound == {h \in Holders : holder[h].pc \in {"bound", "leaving"}}

Goto(h, pc) == holder' = [holder EXCEPT ![h].pc = pc]

(* The end of a call: the serializer is given up.                            *)
Return(h, state) ==
    /\ holder' = [holder EXCEPT ![h] = state]
    /\ serial' = IF serial = h THEN None ELSE serial
-----------------------------------------------------------------------------
(* acquire, or the replacement that reuse_or_acquire needs.                  *)
Enter(o) ==
    /\ holder[o].pc = "out" /\ serial = None
    /\ \E closes \in BOOLEAN :
        holder' = [holder EXCEPT ![o].pc = "acquire", ![o].closes = closes]
    /\ serial' = o
    /\ UNCHANGED <<client, made, pending, teardown>>

(* provider.acquire reuses the live client or makes one.  A caller that was  *)
(* cancelled meanwhile undoes the acquire once it has drained.               *)
ProviderAcquire(o) ==
    /\ holder[o].pc = "acquire"
    /\ client # 0 \/ made < MaxClients
    /\ client' = IF client # 0 THEN client ELSE made + 1
    /\ made' = IF client # 0 THEN made ELSE made + 1
    /\ \E pc \in {"observe", "undo"} : Goto(o, pc)
    /\ UNCHANGED <<serial, pending, teardown>>

(* _observe_client_lifecycle; a fork begins here (allow_unscoped_borrow).    *)
Observe(h) ==
    /\ holder[h].pc = IF h \in Forks THEN "out" ELSE "observe"
    /\ IF teardown # None
       THEN h \in Owners /\ Goto(h, "undo")
       ELSE holder' = [holder EXCEPT ![h].pc = "get", ![h].stale = FALSE]
    /\ UNCHANGED <<client, made, serial, pending, teardown>>

Get(h) ==
    /\ holder[h].pc = "get"
    /\ holder' = [holder EXCEPT ![h].pc = "bind", ![h].seen = client]
    /\ UNCHANGED <<client, made, serial, pending, teardown>>

(* _bind_live_client, after the lookup.  A fork that finds no client is      *)
(* given a sandbox of its own.                                               *)
BindableUnversioned(h) == holder[h].seen # 0 /\ teardown = None

Bindable(h) == holder[h].seen # 0 /\ ~holder[h].stale

Bind(h) ==
    /\ holder[h].pc = "bind"
    /\ IF Bindable(h) THEN Return(h, [holder[h] EXCEPT !.pc = "bound", !.stale = FALSE])
       ELSE IF h \in Forks THEN Return(h, Away)
       ELSE Goto(h, "undo") /\ UNCHANGED serial
    /\ UNCHANGED <<client, made, pending, teardown>>

(* _release_unbound_acquire.                                                 *)
Undo(o) ==
    /\ holder[o].pc = "undo"
    /\ pending' = TRUE
    /\ Goto(o, "reserve")
    /\ UNCHANGED <<client, made, serial, teardown>>

(* release: the command scope is cleaned up, then the binding removed.       *)
Leave(h) ==
    /\ holder[h].pc = "bound"
    /\ h \in Owners => serial = None
    /\ serial' = IF h \in Owners THEN h ELSE serial
    /\ Goto(h, "leaving")
    /\ UNCHANGED <<client, made, pending, teardown>>

Remove(h) ==
    /\ holder[h].pc = "leaving"
    /\ pending' = (pending \/ holder[h].closes)
    /\ IF Bound = {h} /\ pending'
       THEN Goto(h, "reserve") /\ UNCHANGED serial
       ELSE Return(h, Away)
    /\ UNCHANGED <<client, made, teardown>>

(* reserve_idle_teardown.                                                    *)
MayReserve == Bound = {} /\ teardown = None

Reserved(by, pc) ==
    /\ teardown' = by
    /\ holder' = [h \in Holders |->
                    [holder[h] EXCEPT !.stale = @ \/ holder[h].pc \in {"get", "bind"},
                                      !.pc = IF h = by THEN pc ELSE @]]

(* _release_if_idle: the reservation, the provider's release under it, and   *)
(* its end.                                                                  *)
Reserve(h) ==
    /\ holder[h].pc = "reserve"
    /\ IF MayReserve THEN Reserved(h, "release") /\ UNCHANGED serial
       ELSE Return(h, Away) /\ UNCHANGED teardown
    /\ UNCHANGED <<client, made, pending>>

ProviderRelease(h) ==
    /\ holder[h].pc = "release"
    /\ pending' = FALSE
    /\ client' = 0
    /\ Goto(h, "finish")
    /\ UNCHANGED <<made, serial, teardown>>

Finish(h) ==
    /\ holder[h].pc = "finish"
    /\ teardown' = None
    /\ Return(h, Away)
    /\ UNCHANGED <<client, made, pending>>
-----------------------------------------------------------------------------
(* The provider's idle checker and destroy: the teardown may be refused      *)
(* after the reservation, by the ownership store or because it is no longer  *)
(* wanted.                                                                   *)
ReapReserve ==
    /\ client # 0 /\ MayReserve
    /\ Reserved(Reaper, "none")
    /\ UNCHANGED <<client, made, serial, pending>>

Reap ==
    /\ teardown = Reaper
    /\ client' \in {0, client}
    /\ teardown' = None
    /\ UNCHANGED <<made, serial, pending, holder>>

Next ==
    \/ \E o \in Owners : Enter(o) \/ ProviderAcquire(o) \/ Undo(o)
    \/ \E h \in Holders : \/ Observe(h) \/ Get(h) \/ Bind(h) \/ Leave(h) \/ Remove(h) \/ Reserve(h)
                          \/ ProviderRelease(h) \/ Finish(h)
    \/ ReapReserve \/ Reap

Spec == Init /\ [][Next]_vars
-----------------------------------------------------------------------------
TypeOK ==
    /\ client \in 0 .. MaxClients /\ made \in 0 .. MaxClients
    /\ serial \in Owners \cup {None} /\ pending \in BOOLEAN
    /\ teardown \in Holders \cup {None, Reaper}
    /\ holder \in [Holders -> Holder]

(* The client an execution is bound to is live, and the one it looked up,    *)
(* until its lease is removed: neither the last owner's release, nor the     *)
(* idle checker, nor a client made under the same sandbox id takes it away   *)
(* (reserve_idle_teardown, _bind_live_client).                               *)
BoundClientIsLive == \A h \in Bound : client # 0 /\ client = holder[h].seen
=============================================================================
