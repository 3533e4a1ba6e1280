----------------------- MODULE ChannelLeadershipProofs -----------------------
(* The leader lease of a provider, for any number of gateways and any         *)
(* durations: two transports never overlap as long as the grace covers one    *)
(* unconfirmed renewal with the stop, or the shutdown, that follows it.       *)
EXTENDS ChannelLeadership, FiniteSetTheorems, TLAPS

(* A call under way is the gateway's own, times out within OperationTimeout   *)
(* of a round, and, once confirmed, the row stands for it.  Only a gateway    *)
(* without a transport acquires or releases.                                  *)
CallFits(g) ==
    LET c == call[g]
    IN  /\ c.kind # None => c.owner = g /\ ~gw[g].stopping /\ gw[g].timer + c.age >= 0
        /\ c.kind = None => c.answer = None
        /\ c.epoch <= row.epoch
        /\ c.kind \in {"acquire", "release"} => gw[g].transport = "off" /\ ~Holds(g)
        /\ c.kind = "release" => gw[g].epoch = 0
        /\ c.kind = "renew" => gw[g].epoch # 0 /\ gw[g].timer + c.age <= RenewInterval
        /\ c.kind = "renew" /\ c.answer # "no" => c.epoch = gw[g].epoch
        /\ c.answer = "yes" /\ c.kind \in {"acquire", "renew"} =>
             row.owner = g /\ row.left + c.age >= LeaseSeconds

(* What a gateway believes of its lease: the row is at least as fresh.        *)
HoldIsDurable(g) ==
    /\ gw[g].epoch <= row.epoch
    /\ gw[g].epoch # 0 /\ gw[g].age < LeaseSeconds =>
         row.owner = g /\ row.left + gw[g].age >= LeaseSeconds

(* A release that takes effect late is about an earlier acquisition than the  *)
(* one its gateway holds or runs a transport under.                           *)
ReleasesAreOld(g) ==
    \A c \in late :
        c.kind = "release" /\ c.owner = g =>
            /\ c.epoch <= row.epoch
            /\ gw[g].epoch # 0 => c.epoch < gw[g].epoch
            /\ call[g].kind = "acquire" /\ call[g].answer = "yes" => c.epoch < call[g].epoch
            /\ gw[g].transport # "off" => c.epoch < row.epoch

(* The time a transport may still be up is covered by what is left of the     *)
(* lease and its grace: the next renewal is sent while the lease is good, and *)
(* a stop or a shutdown has begun early enough.                               *)
TransportIsCovered(g) ==
    /\ gw[g].stopping => gw[g].transport = "on"
    /\ gw[g].transport # "off" => row.owner = g
    /\ gw[g].transport = "on" => gw[g].epoch # 0
    /\ gw[g].transport = "stopping" \/ gw[g].stopping => row.left + GraceSeconds >= gw[g].until
    /\ gw[g].transport = "on" /\ ~gw[g].stopping =>
         IF call[g].kind = "renew" THEN row.left + call[g].age >= 1
         ELSE gw[g].age < LeaseSeconds /\ gw[g].age + gw[g].timer < LeaseSeconds

Leads(g) == CallFits(g) /\ HoldIsDurable(g) /\ ReleasesAreOld(g) /\ TransportIsCovered(g)

ChannelInvariant ==
    /\ TypeOK
    /\ \A c \in late : c.kind # None
    /\ \A g \in Gateways : Leads(g)
-----------------------------------------------------------------------------
(* The constants are numbers, and no gateway is called "none".                *)
LEMMA Durations ==
    ASSUME ChannelAssumption
    PROVE  /\ RenewInterval \in Nat /\ OperationTimeout \in Nat /\ LeaseSeconds \in Nat /\ GraceSeconds \in Nat
           /\ StopTime \in Nat /\ ShutdownTime \in Nat /\ MaxEpoch \in Nat /\ MaxLate \in Nat
           /\ None \notin Gateways /\ OperationTimeout <= RenewInterval /\ RenewInterval < LeaseSeconds
           /\ OperationTimeout + StopTime <= GraceSeconds + 1
           /\ OperationTimeout + ShutdownTime <= GraceSeconds + 1
BY DEF ChannelAssumption, None

(* The fields of the row, of a gateway and of a call have their types.        *)
LEMMA Fields ==
    ASSUME TypeOK, NEW g \in Gateways
    PROVE  /\ row \in Row /\ row.owner \in Gateways \cup {None} /\ row.epoch \in 0 .. MaxEpoch
           /\ row.left \in -(GraceSeconds + 1) .. LeaseSeconds
           /\ gw[g] \in Gateway /\ gw[g].stopping \in BOOLEAN /\ gw[g].epoch \in 0 .. MaxEpoch
           /\ gw[g].age \in 0 .. LeaseSeconds /\ gw[g].timer \in -OperationTimeout .. RenewInterval
           /\ gw[g].transport \in {"off", "on", "stopping"} /\ gw[g].until \in 0 .. StopTime + ShutdownTime
           /\ call[g] \in Call
BY DEF TypeOK, Row, Gateway, Epochs, Past

LEMMA CallFields ==
    ASSUME NEW c \in Call
    PROVE  /\ c.kind \in {None, "acquire", "renew", "release"} /\ c.owner \in Gateways \cup {None}
           /\ c.epoch \in 0 .. MaxEpoch /\ c.age \in 0 .. OperationTimeout /\ c.answer \in {None, "yes", "no"}
BY DEF Call, Epochs

(* Something of gateway h depends on its row.                                 *)
Relies(h) ==
    \/ gw[h].transport # "off"
    \/ gw[h].epoch # 0 /\ gw[h].age < LeaseSeconds
    \/ call[h].answer = "yes" /\ call[h].kind \in {"acquire", "renew"}

(* Then the row is its own, and nobody else may take it yet.                  *)
LEMMA ReliesOnItsRow ==
    ASSUME ChannelAssumption, TypeOK, NEW h \in Gateways, Leads(h), Relies(h)
    PROVE  row.owner = h /\ row.left >= -GraceSeconds
<1> USE Durations, Fields
<1> DEFINE c == call[h]
<1>0. c \in Call /\ c.age \in 0 .. OperationTimeout
  BY CallFields
<1>1. CASE call[h].answer = "yes" /\ call[h].kind \in {"acquire", "renew"}
  BY <1>0, <1>1 DEF Leads, CallFits
<1>2. CASE gw[h].epoch # 0 /\ gw[h].age < LeaseSeconds
  BY <1>2 DEF Leads, HoldIsDurable
<1>3. CASE gw[h].transport = "stopping" \/ gw[h].stopping
  BY <1>3 DEF Leads, TransportIsCovered
<1>4. CASE gw[h].transport = "on" /\ ~gw[h].stopping /\ call[h].kind = "renew"
  BY <1>0, <1>4 DEF Leads, TransportIsCovered
<1>5. CASE gw[h].transport = "on" /\ ~gw[h].stopping /\ call[h].kind # "renew"
  BY <1>2, <1>5 DEF Leads, TransportIsCovered
<1> QED BY <1>1, <1>2, <1>3, <1>4, <1>5 DEF Relies

(* A step that only extends the row of h, as far as h relies on it.           *)
RowKept(h) ==
    /\ row'.epoch >= row.epoch
    /\ Relies(h) => row'.owner = row.owner /\ row'.left >= row.left

(* A step of somebody else.                                                   *)
LEMMA OthersKeep ==
    ASSUME ChannelAssumption, TypeOK, TypeOK', NEW h \in Gateways, Leads(h), RowKept(h),
           gw'[h] = gw[h], call'[h] = call[h],
           \A c \in late' : c \in late \/ c.kind # "release" \/ c.owner # h
    PROVE  Leads(h)'
<1> USE Durations
<1>1. /\ row.epoch \in Int /\ row'.epoch \in Int /\ row.left \in Int /\ row'.left \in Int
      /\ row'.epoch >= row.epoch
  BY Fields DEF TypeOK, Row, Epochs, Past, RowKept
<1>2. gw[h].epoch \in Int /\ gw[h].age \in Int /\ gw[h].timer \in Int /\ gw[h].until \in Int
  BY Fields
<1>3. call[h].epoch \in Int /\ call[h].age \in Int
  BY Fields, CallFields
<1>4. CallFits(h)'
  <2> DEFINE c == call[h]
  <2>1. c.answer = "yes" /\ c.kind \in {"acquire", "renew"} => row'.owner = h /\ row'.left + c.age >= LeaseSeconds
    BY <1>1, <1>3 DEF Leads, CallFits, RowKept, Relies
  <2>2. c.epoch <= row'.epoch
    BY <1>1, <1>3 DEF Leads, CallFits
  <2>3. Holds(h)' = Holds(h)
    BY DEF Holds
  <2> QED BY <2>1, <2>2, <2>3 DEF Leads, CallFits
<1>5. HoldIsDurable(h)'
  BY <1>1, <1>2 DEF Leads, HoldIsDurable, RowKept, Relies
<1>6. ReleasesAreOld(h)'
  BY <1>1, <1>2, <1>3 DEF Leads, ReleasesAreOld, TypeOK, Call, Epochs
<1>7. TransportIsCovered(h)'
  BY <1>1, <1>2, <1>3 DEF Leads, TransportIsCovered, RowKept, Relies
<1> QED BY <1>4, <1>5, <1>6, <1>7 DEF Leads

(* Calls by anybody leave the row to h as far as h relies on it; only a       *)
(* release of its own, of the acquisition the row stands for, would not.      *)
LEMMA StatementKeeps ==
    ASSUME ChannelAssumption, TypeOK, NEW h \in Gateways, Leads(h), NEW c \in Call, Statement(c), c.kind # None,
           Relies(h) /\ c.kind = "release" /\ c.owner = h => c.epoch # row.epoch
    PROVE  RowKept(h)
<1> USE Durations
<1>1. row.epoch \in Int /\ row.left \in Int /\ row.left <= LeaseSeconds /\ row \in Row
  BY Fields
<1>2. Relies(h) => row.owner = h /\ row.left >= -GraceSeconds
  BY ReliesOnItsRow
<1>3. CASE ~Effective(c)
  BY <1>1, <1>3 DEF Statement, RowKept
<1>4. CASE Effective(c) /\ c.kind = "acquire"
  <2>1. row' = [owner |-> c.owner, epoch |-> row.epoch + 1, left |-> LeaseSeconds]
    BY <1>4 DEF Statement
  <2>2. Relies(h) => c.owner = row.owner
    BY <1>1, <1>2, <1>4 DEF Effective
  <2> QED BY <1>1, <2>1, <2>2 DEF RowKept
<1>5. CASE Effective(c) /\ c.kind = "renew"
  <2>1. row' = [row EXCEPT !.left = LeaseSeconds]
    BY <1>5 DEF Statement
  <2> QED BY <1>1, <2>1 DEF RowKept, Row
<1>6. CASE Effective(c) /\ c.kind = "release"
  <2>1. row' = [row EXCEPT !.left = Past]
    BY <1>6 DEF Statement
  <2>2. row.owner = c.owner /\ row.epoch = c.epoch
    BY <1>6 DEF Effective, Matches
  <2>3. ~Relies(h)
    BY <1>2, <1>6, <2>2
  <2> QED BY <1>1, <2>1, <2>3 DEF RowKept, Row
<1> QED BY <1>3, <1>4, <1>5, <1>6, CallFields

(* The row after a call, with its types.                                      *)
LEMMA StatementType ==
    ASSUME ChannelAssumption, TypeOK, NEW c \in Call, Statement(c), c.kind # None
    PROVE  row' \in Row /\ row'.epoch >= row.epoch
<1> USE Durations
<1>1. /\ row \in Row /\ row.epoch \in 0 .. MaxEpoch /\ row.owner \in Gateways \cup {None}
      /\ c.owner \in Gateways \cup {None} /\ LeaseSeconds \in Past .. LeaseSeconds /\ Past \in Past .. LeaseSeconds
      /\ row.left \in Past .. LeaseSeconds
  BY CallFields DEF TypeOK, Row, Epochs, Past
<1>2. CASE row' = row
  BY <1>1, <1>2
<1>3. CASE row' = [owner |-> c.owner, epoch |-> row.epoch + 1, left |-> LeaseSeconds] /\ row.epoch < MaxEpoch
  <2>1. row.epoch + 1 \in Epochs
    BY <1>1, <1>3 DEF Epochs
  <2> QED BY <1>1, <1>3, <2>1 DEF Row
<1>4. CASE row' = [row EXCEPT !.left = LeaseSeconds]
  BY <1>1, <1>4 DEF Row
<1>5. CASE row' = [row EXCEPT !.left = Past]
  BY <1>1, <1>5 DEF Row
<1>6. c.kind \in {"acquire", "renew", "release"}
  BY CallFields
<1>7. \/ row' = row \/ row' = [row EXCEPT !.left = LeaseSeconds] \/ row' = [row EXCEPT !.left = Past]
      \/ row' = [owner |-> c.owner, epoch |-> row.epoch + 1, left |-> LeaseSeconds] /\ row.epoch < MaxEpoch
  BY <1>6 DEF Statement
<1> QED BY <1>2, <1>3, <1>4, <1>5, <1>7

-----------------------------------------------------------------------------
(* A step of gateway g keeps what the others rely on.                         *)
LEMMA GatewayStep ==
    ASSUME ChannelAssumption, ChannelInvariant, NEW g \in Gateways, TypeOK', Leads(g)',
           \A h \in Gateways \ {g} : gw'[h] = gw[h] /\ call'[h] = call[h] /\ RowKept(h),
           \A x \in late' : x \in late \/ (x.kind # None /\ x.owner \in {g, None})
    PROVE  ChannelInvariant'
<1>1. \A c \in late' : c.kind # None
  BY DEF ChannelInvariant
<1>2. ASSUME NEW h \in Gateways PROVE Leads(h)'
  <2>1. CASE h = g
    BY <2>1
  <2>2. CASE h # g
    <3>1. TypeOK /\ Leads(h)
      BY DEF ChannelInvariant
    <3>2. gw'[h] = gw[h] /\ call'[h] = call[h] /\ RowKept(h)
      BY <2>2
    <3>3. \A c \in late' : c \in late \/ c.kind # "release" \/ c.owner # h
      BY <2>2, Durations
    <3> QED BY <3>1, <3>2, <3>3, OthersKeep
  <2> QED BY <2>1, <2>2
<1> QED BY <1>1, <1>2 DEF ChannelInvariant

(* What the invariant says of one gateway.                                    *)
LEMMA GatewayFacts ==
    ASSUME ChannelInvariant, NEW g \in Gateways
    PROVE  /\ TypeOK /\ CallFits(g) /\ HoldIsDurable(g) /\ ReleasesAreOld(g) /\ TransportIsCovered(g)
           /\ Leads(g)
BY DEF ChannelInvariant, Leads

(* The row does not move.                                                     *)
LEMMA SameRow ==
    ASSUME TypeOK, UNCHANGED row, NEW h \in Gateways
    PROVE  RowKept(h)
BY Fields DEF RowKept

(* The new state of one gateway.                                              *)
LEMMA NewState ==
    ASSUME ChannelAssumption, TypeOK, NEW g \in Gateways, NEW state \in Gateway, Is(g, state)
    PROVE  /\ gw' \in [Gateways -> Gateway]
           /\ \A h \in Gateways \ {g} : gw'[h] = gw[h]
           /\ gw'[g].stopping = state.stopping /\ gw'[g].epoch = state.epoch
           /\ gw'[g].transport = state.transport /\ gw'[g].until = state.until
           /\ ~Idle(state) => gw'[g].age = state.age /\ gw'[g].timer = state.timer
           /\ Idle(state) => gw'[g].age = 0 /\ gw'[g].timer = 0
<1> USE Durations
<1>1. /\ state.stopping \in BOOLEAN /\ state.epoch \in Epochs /\ state.age \in 0 .. LeaseSeconds
      /\ state.timer \in -OperationTimeout .. RenewInterval /\ state.transport \in {"off", "on", "stopping"}
      /\ state.until \in 0 .. StopTime + ShutdownTime
      /\ 0 \in 0 .. LeaseSeconds /\ 0 \in -OperationTimeout .. RenewInterval
  BY DEF Gateway
<1>2. gw \in [Gateways -> Gateway] /\ gw' = [gw EXCEPT ![g] = Normal(state)]
  BY DEF TypeOK, Is
<1>3. CASE Idle(state)
  <2>1. Normal(state) = [state EXCEPT !.age = 0, !.timer = 0]
    BY <1>3 DEF Normal
  <2>2. [state EXCEPT !.age = 0, !.timer = 0] \in Gateway
    BY <1>1, Zenon DEF Gateway
  <2>3. gw'[g] = [state EXCEPT !.age = 0, !.timer = 0]
    BY <1>2, <2>1
  <2>4. /\ gw'[g].stopping = state.stopping /\ gw'[g].epoch = state.epoch
        /\ gw'[g].transport = state.transport /\ gw'[g].until = state.until
        /\ gw'[g].age = 0 /\ gw'[g].timer = 0
    BY <2>3, Zenon DEF Gateway
  <2> QED BY <1>2, <1>3, <2>1, <2>2, <2>4
<1>4. CASE ~Idle(state)
  <2>1. Normal(state) = state
    BY <1>4 DEF Normal
  <2> QED BY <1>2, <1>4, <2>1
<1> QED BY <1>3, <1>4

(* The new call of one gateway.                                               *)
LEMMA NewCall ==
    ASSUME TypeOK, NEW g \in Gateways, NEW c \in Call, call' = [call EXCEPT ![g] = c]
    PROVE  call' \in [Gateways -> Call] /\ call'[g] = c /\ \A h \in Gateways \ {g} : call'[h] = call[h]
BY DEF TypeOK

LEMMA NoCallType ==
    ASSUME ChannelAssumption
    PROVE  NoCall \in Call
BY Durations DEF NoCall, Call, Epochs

LEMMA SendType ==
    ASSUME ChannelAssumption, TypeOK, NEW g \in Gateways, NEW kind \in {"acquire", "renew", "release"},
           NEW epoch \in Epochs, Send(g, kind, epoch)
    PROVE  /\ call' \in [Gateways -> Call] /\ \A h \in Gateways \ {g} : call'[h] = call[h]
           /\ call'[g].kind = kind /\ call'[g].owner = g /\ call'[g].epoch = epoch
           /\ call'[g].age = 0 /\ call'[g].answer = None
<1> DEFINE c == [NoCall EXCEPT !.kind = kind, !.owner = g, !.epoch = epoch]
<1>1. c \in Call
  BY NoCallType, Zenon DEF Call, NoCall
<1>2. c.kind = kind /\ c.owner = g /\ c.epoch = epoch /\ c.age = 0 /\ c.answer = None
  BY DEF NoCall
<1>3. call' = [call EXCEPT ![g] = c]
  BY DEF Send
<1> HIDE DEF c
<1> QED BY <1>1, <1>2, <1>3, NewCall

-----------------------------------------------------------------------------
(* The actions.                                                               *)

(* A call of gateway g takes effect in time.                                  *)
LEMMA ExecuteStep ==
    ASSUME ChannelAssumption, ChannelInvariant, NEW g \in Gateways, Execute(g)
    PROVE  ChannelInvariant'
<1> USE Durations
<1> DEFINE c == call[g]
           answer == IF Effective(c) THEN "yes" ELSE "no"
           d == [c EXCEPT !.answer = answer, !.epoch = row'.epoch]
<1>1. /\ TypeOK /\ CallFits(g) /\ HoldIsDurable(g) /\ ReleasesAreOld(g) /\ TransportIsCovered(g)
      /\ Leads(g)
  BY GatewayFacts
<1>2. /\ c \in Call /\ c.kind # None /\ c.answer = None /\ Statement(c) /\ UNCHANGED <<gw, late, lates>>
      /\ call' = [call EXCEPT ![g] = d]
  BY <1>1, Fields DEF Execute
<1>3. row' \in Row /\ row'.epoch >= row.epoch /\ row'.epoch \in Epochs
  BY <1>1, <1>2, StatementType DEF Row
<1>4. d \in Call
  BY <1>2, <1>3, Zenon DEF Call
<1>5. d.kind = c.kind /\ d.owner = c.owner /\ d.age = c.age /\ d.epoch = row'.epoch /\ d.answer = answer
  BY <1>2 DEF Call
<1>6. call' \in [Gateways -> Call] /\ call'[g] = d /\ \A h \in Gateways \ {g} : call'[h] = call[h]
  <2> HIDE DEF d
  <2> QED BY <1>1, <1>2, <1>4, NewCall
<1>7. TypeOK'
  BY <1>1, <1>2, <1>3, <1>6 DEF TypeOK
<1>8. \A h \in Gateways : RowKept(h)
  <2> SUFFICES ASSUME NEW h \in Gateways PROVE RowKept(h)
    OBVIOUS
  <2>1. Leads(h)
    BY GatewayFacts
  <2>2. c.owner = g
    BY <1>1, <1>2 DEF CallFits
  <2>3. c.kind = "release" => ~Relies(g)
    BY <1>1, <1>2 DEF CallFits, Relies, None
  <2> QED BY <1>1, <1>2, <2>1, <2>2, <2>3, StatementKeeps
<1>9. /\ row.epoch \in Int /\ row'.epoch \in Int /\ row.left \in Int /\ row'.left \in Int
      /\ c.age \in 0 .. OperationTimeout /\ c.epoch \in Int /\ gw[g].epoch \in Int
      /\ gw[g].age \in Int /\ gw[g].timer \in Int /\ gw[g].until \in Int
  BY <1>1, <1>2, <1>3, Fields, CallFields DEF Row, Epochs, Past
<1>10. c.owner = g /\ ~gw[g].stopping
  BY <1>1, <1>2 DEF CallFits
<1>11. c.kind = "acquire" /\ answer = "yes" =>
          row'.owner = g /\ row'.left = LeaseSeconds /\ row'.epoch = row.epoch + 1
  BY <1>2, <1>10 DEF Statement
<1>12. c.kind = "renew" /\ answer = "yes" =>
          row'.owner = g /\ row'.left = LeaseSeconds /\ row'.epoch = gw[g].epoch
  <2> SUFFICES ASSUME c.kind = "renew", answer = "yes"
               PROVE  row'.owner = g /\ row'.left = LeaseSeconds /\ row'.epoch = gw[g].epoch
    OBVIOUS
  <2>1. row' = [row EXCEPT !.left = LeaseSeconds] /\ row.owner = g /\ row.epoch = c.epoch
    BY <1>2, <1>10 DEF Statement, Effective, Matches
  <2>2. c.epoch = gw[g].epoch
    BY <1>1, <1>2 DEF CallFits, None
  <2> QED BY <1>1, <2>1, <2>2 DEF TypeOK, Row
<1>13. CallFits(g)'
  <2> HIDE DEF d, answer
  <2>1. Holds(g)' = Holds(g)
    BY <1>2 DEF Holds
  <2>2. answer \in {"yes", "no"}
    BY DEF answer
  <2> QED BY <1>1, <1>2, <1>5, <1>6, <1>9, <1>10, <1>11, <1>12, <2>1, <2>2 DEF CallFits
<1>14. HoldIsDurable(g)'
  BY <1>1, <1>2, <1>3, <1>8, <1>9 DEF HoldIsDurable, RowKept, Relies
<1>15. ReleasesAreOld(g)'
  <2> HIDE DEF d, answer
  <2>1. \A x \in late : x.epoch \in Int
    BY <1>1, CallFields DEF TypeOK
  <2> QED BY <1>1, <1>2, <1>3, <1>5, <1>6, <1>9, <1>11, <2>1 DEF ReleasesAreOld
<1>16. TransportIsCovered(g)'
  <2> HIDE DEF d, answer
  <2> QED BY <1>1, <1>2, <1>5, <1>6, <1>8, <1>9 DEF TransportIsCovered, RowKept, Relies
<1>17. Leads(g)'
  BY <1>13, <1>14, <1>15, <1>16 DEF Leads
<1>18. \A x \in late' : x \in late \/ (x.kind # None /\ x.owner \in {g, None})
  BY <1>2
<1>19. \A h \in Gateways \ {g} : gw'[h] = gw[h] /\ call'[h] = call[h] /\ RowKept(h)
  BY <1>2, <1>6, <1>8
<1> QED BY <1>7, <1>17, <1>18, <1>19, GatewayStep

(* A call that was given up takes effect later.                               *)
LEMMA ExecuteLateStep ==
    ASSUME ChannelAssumption, ChannelInvariant, ExecuteLate
    PROVE  ChannelInvariant'
<1> USE Durations
<1>1. PICK c \in late : Statement(c) /\ late' = late \ {c}
  BY DEF ExecuteLate
<1>2. UNCHANGED <<gw, call, lates>> /\ TypeOK /\ c \in Call /\ c.kind # None
  BY <1>1 DEF ExecuteLate, ChannelInvariant, TypeOK
<1>3. row' \in Row
  BY <1>1, <1>2, StatementType
<1>4. TypeOK'
  BY <1>1, <1>2, <1>3 DEF TypeOK
<1>5. ASSUME NEW h \in Gateways PROVE Leads(h)'
  <2>1. /\ CallFits(h) /\ HoldIsDurable(h) /\ ReleasesAreOld(h) /\ Leads(h)
    BY GatewayFacts
  <2>2. /\ row.epoch \in Int /\ gw[h].epoch \in Int /\ c.epoch \in Int /\ call[h].epoch \in Int
    BY <1>2, Fields, CallFields
  <2>3. Relies(h) /\ c.kind = "release" /\ c.owner = h => c.epoch # row.epoch
    BY <1>1, <2>1, <2>2 DEF Relies, ReleasesAreOld, HoldIsDurable, CallFits
  <2>4. RowKept(h)
    BY <1>1, <1>2, <2>1, <2>3, StatementKeeps
  <2> QED BY <1>1, <1>2, <1>4, <2>1, <2>4, OthersKeep
<1>6. \A x \in late' : x.kind # None
  BY <1>1 DEF ChannelInvariant
<1> QED BY <1>4, <1>5, <1>6 DEF ChannelInvariant

LEMMA AcquireStep ==
    ASSUME ChannelAssumption, ChannelInvariant, NEW g \in Gateways, Acquire(g)
    PROVE  ChannelInvariant'
<1> USE Durations
<1>1. TypeOK /\ CallFits(g) /\ HoldIsDurable(g) /\ ReleasesAreOld(g) /\ TransportIsCovered(g)
  BY GatewayFacts
<1>2. /\ gw[g].transport = "off" /\ ~Holds(g) /\ ~gw[g].stopping /\ gw[g].timer >= 0
      /\ Send(g, "acquire", 0) /\ UNCHANGED <<row, gw, late, lates>> /\ 0 \in Epochs
  BY DEF Acquire, Free, Epochs
<1>3. /\ call' \in [Gateways -> Call] /\ \A h \in Gateways \ {g} : call'[h] = call[h]
      /\ call'[g].kind = "acquire" /\ call'[g].owner = g /\ call'[g].epoch = 0
      /\ call'[g].age = 0 /\ call'[g].answer = None
  BY <1>1, <1>2, SendType
<1>4. TypeOK'
  BY <1>1, <1>2, <1>3 DEF TypeOK
<1>5. row.epoch >= 0 /\ gw[g].timer \in Int /\ row.epoch \in Int
  BY <1>1, Fields
<1>6. CallFits(g)'
  BY <1>2, <1>3, <1>5 DEF CallFits, Holds, None
<1>7. HoldIsDurable(g)' /\ ReleasesAreOld(g)' /\ TransportIsCovered(g)'
  BY <1>1, <1>2, <1>3 DEF HoldIsDurable, ReleasesAreOld, TransportIsCovered, None
<1>8. \A h \in Gateways : RowKept(h)
  BY <1>1, <1>2, SameRow
<1>9. Leads(g)'
  BY <1>6, <1>7 DEF Leads
<1>10. \A x \in late' : x \in late \/ (x.kind # None /\ x.owner \in {g, None})
  BY <1>2
<1>11. \A h \in Gateways \ {g} : gw'[h] = gw[h] /\ call'[h] = call[h] /\ RowKept(h)
  BY <1>2, <1>3, <1>8
<1> QED BY <1>4, <1>9, <1>10, <1>11, GatewayStep

LEMMA ReleaseStep ==
    ASSUME ChannelAssumption, ChannelInvariant, NEW g \in Gateways, Release(g)
    PROVE  ChannelInvariant'
<1> USE Durations
<1> DEFINE state == [gw[g] EXCEPT !.epoch = 0]
<1>1. TypeOK /\ CallFits(g) /\ HoldIsDurable(g) /\ ReleasesAreOld(g) /\ TransportIsCovered(g)
  BY GatewayFacts
<1>2. /\ gw[g].transport = "off" /\ ~gw[g].stopping /\ gw[g].timer >= 0 /\ gw[g].epoch \in Epochs
      /\ gw[g].epoch # 0 /\ Send(g, "release", gw[g].epoch) /\ UNCHANGED <<row, late, lates>>
      /\ Is(g, state) /\ gw[g] \in Gateway
  BY <1>1, Fields DEF Release, Free, Epochs
<1>3. /\ call' \in [Gateways -> Call] /\ \A h \in Gateways \ {g} : call'[h] = call[h]
      /\ call'[g].kind = "release" /\ call'[g].owner = g /\ call'[g].epoch = gw[g].epoch
      /\ call'[g].age = 0 /\ call'[g].answer = None
  BY <1>1, <1>2, SendType
<1>4. /\ state \in Gateway /\ Idle(state) /\ state.stopping = gw[g].stopping /\ state.epoch = 0
      /\ state.transport = "off"
  BY <1>2 DEF Gateway, Epochs, Idle
<1>5. /\ gw' \in [Gateways -> Gateway] /\ \A h \in Gateways \ {g} : gw'[h] = gw[h]
      /\ gw'[g].stopping = gw[g].stopping /\ gw'[g].epoch = 0 /\ gw'[g].transport = "off"
      /\ gw'[g].age = 0 /\ gw'[g].timer = 0
  <2> HIDE DEF state
  <2> QED BY <1>1, <1>2, <1>4, NewState
<1>6. TypeOK'
  BY <1>1, <1>2, <1>3, <1>5 DEF TypeOK
<1>7. row.epoch \in Int /\ row.epoch >= 0
  BY <1>1, Fields
<1>8. CallFits(g)' /\ HoldIsDurable(g)' /\ ReleasesAreOld(g)' /\ TransportIsCovered(g)'
  BY <1>1, <1>2, <1>3, <1>5, <1>7 DEF CallFits, HoldIsDurable, ReleasesAreOld, TransportIsCovered, Holds
<1>9. \A h \in Gateways : RowKept(h)
  BY <1>1, <1>2, SameRow
<1>10. Leads(g)'
  BY <1>8 DEF Leads
<1>11. \A x \in late' : x \in late \/ (x.kind # None /\ x.owner \in {g, None})
  BY <1>2
<1>12. \A h \in Gateways \ {g} : gw'[h] = gw[h] /\ call'[h] = call[h] /\ RowKept(h)
  BY <1>3, <1>5, <1>9
<1> QED BY <1>6, <1>10, <1>11, <1>12, GatewayStep

(* A step of gateway g that does not touch the row.                           *)
LEMMA LocalStep ==
    ASSUME ChannelAssumption, ChannelInvariant, NEW g \in Gateways, UNCHANGED row,
           gw' \in [Gateways -> Gateway], \A h \in Gateways \ {g} : gw'[h] = gw[h],
           call' \in [Gateways -> Call], \A h \in Gateways \ {g} : call'[h] = call[h],
           late' \subseteq Call, lates' \in 0 .. MaxLate, Leads(g)',
           \A x \in late' : x \in late \/ (x.kind # None /\ x.owner \in {g, None})
    PROVE  ChannelInvariant'
<1>1. TypeOK /\ TypeOK'
  BY DEF ChannelInvariant, TypeOK
<1>2. \A h \in Gateways : RowKept(h)
  BY <1>1, SameRow
<1> QED BY <1>1, <1>2, GatewayStep

(* A gateway without a call under way.                                        *)
LEMMA NoneUnderWay ==
    ASSUME ChannelAssumption, TypeOK, NEW g \in Gateways, call' = [call EXCEPT ![g] = NoCall]
    PROVE  /\ call' \in [Gateways -> Call] /\ \A h \in Gateways \ {g} : call'[h] = call[h]
           /\ call'[g].kind = None /\ call'[g].answer = None /\ call'[g].epoch = 0
<1>1. NoCall \in Call
  BY NoCallType
<1>2. call'[g] = NoCall /\ call' \in [Gateways -> Call] /\ \A h \in Gateways \ {g} : call'[h] = call[h]
  BY <1>1, NewCall
<1> QED BY <1>2 DEF NoCall

(* A call that is given up leaves, at most, itself behind.                    *)
LEMMA GivenUp ==
    ASSUME ChannelAssumption, TypeOK, NEW c \in Call, GiveUp(c)
    PROVE  /\ late' \subseteq Call /\ lates' \in 0 .. MaxLate
           /\ \A x \in late' :
                x \in late \/ ( /\ x.kind = c.kind /\ x.owner = c.owner /\ x.epoch = c.epoch
                                /\ c.kind # None /\ c.answer = None )
<1> USE Durations
<1> DEFINE d == [c EXCEPT !.age = 0]
<1>1. 0 \in 0 .. OperationTimeout
  OBVIOUS
<1>2. d \in Call /\ d.kind = c.kind /\ d.owner = c.owner /\ d.epoch = c.epoch
  BY <1>1, Zenon DEF Call
<1>3. CASE UNCHANGED <<late, lates>>
  BY <1>3 DEF TypeOK
<1>4. CASE c.kind # None /\ c.answer = None /\ lates < MaxLate /\ late' = late \cup {d} /\ lates' = lates + 1
  <2> HIDE DEF d
  <2>1. late \subseteq Call /\ lates \in 0 .. MaxLate
    BY DEF TypeOK
  <2>2. late' \subseteq Call /\ \A x \in late' : x \in late \/ x = d
    BY <1>2, <1>4, <2>1
  <2>3. lates' \in 0 .. MaxLate
    BY <1>4, <2>1
  <2> QED BY <1>2, <1>4, <2>2, <2>3
<1> QED BY <1>3, <1>4 DEF GiveUp

LEMMA StoppingState ==
    ASSUME ChannelAssumption, NEW state \in Gateway
    PROVE  /\ Stopping(state) \in Gateway
           /\ Stopping(state).stopping = state.stopping /\ Stopping(state).epoch = state.epoch
           /\ Stopping(state).age = state.age /\ Stopping(state).timer = state.timer
           /\ IF state.transport = "on"
              THEN Stopping(state).transport = "stopping" /\ Stopping(state).until = StopTime
              ELSE Stopping(state).transport = state.transport /\ Stopping(state).until = state.until
<1>1. StopTime \in 0 .. StopTime + ShutdownTime
  BY Durations
<1>2. [state EXCEPT !.transport = "stopping", !.until = StopTime] \in Gateway
  BY <1>1, Zenon DEF Gateway
<1> QED BY <1>2 DEF Stopping, Gateway

(* A transport that may be up is covered for a stop, and for a shutdown.      *)
LEMMA TimeToStop ==
    ASSUME ChannelAssumption, ChannelInvariant, NEW g \in Gateways,
           gw[g].transport = "on", ~gw[g].stopping
    PROVE  /\ row.owner = g
           /\ row.left + GraceSeconds >= StopTime /\ row.left + GraceSeconds >= ShutdownTime
<1> USE Durations
<1>1. CallFits(g) /\ HoldIsDurable(g) /\ TransportIsCovered(g) /\ TypeOK
  BY GatewayFacts
<1>2. /\ row.left \in Int /\ call[g].age \in 0 .. OperationTimeout /\ gw[g].age \in Int
  BY <1>1, Fields, CallFields
<1>3. row.owner = g /\ gw[g].epoch # 0
  BY <1>1 DEF TransportIsCovered
<1>4. CASE call[g].kind = "renew"
  BY <1>1, <1>2, <1>3, <1>4 DEF TransportIsCovered
<1>5. CASE call[g].kind # "renew"
  BY <1>1, <1>2, <1>3, <1>5 DEF TransportIsCovered, HoldIsDurable
<1> QED BY <1>4, <1>5

LEMMA RoundStep ==
    ASSUME ChannelAssumption, ChannelInvariant, NEW g \in Gateways, Round(g)
    PROVE  ChannelInvariant'
<1> USE Durations
<1> DEFINE next == [gw[g] EXCEPT !.timer = @ + RenewInterval]
<1>1. TypeOK /\ CallFits(g) /\ HoldIsDurable(g) /\ ReleasesAreOld(g) /\ TransportIsCovered(g)
  BY GatewayFacts
<1>2. /\ gw[g] \in Gateway /\ gw[g].timer \in -OperationTimeout .. 0 /\ gw[g].epoch \in Epochs
      /\ gw[g].age \in Int /\ row.epoch \in Int /\ row.left \in Int /\ row.epoch >= 0
      /\ ~gw[g].stopping /\ ~Idle(gw[g]) /\ call[g].kind = None /\ UNCHANGED <<row, late, lates>>
  BY <1>1, Fields DEF Round, Due, Epochs
<1>3. gw[g].timer + RenewInterval \in 0 .. RenewInterval
  BY <1>2
<1>4. /\ next \in Gateway /\ next.timer = gw[g].timer + RenewInterval /\ next.epoch = gw[g].epoch
      /\ next.stopping = gw[g].stopping /\ next.transport = gw[g].transport /\ next.age = gw[g].age
      /\ next.until = gw[g].until
  <2>1. gw[g].timer + RenewInterval \in -OperationTimeout .. RenewInterval
    BY <1>3
  <2> QED BY <1>2, <2>1, Zenon DEF Gateway
<1>5. ~Idle(next)
  BY <1>2, <1>4 DEF Idle
<1> HIDE DEF next
<1>6. late' \subseteq Call /\ lates' \in 0 .. MaxLate
      /\ \A x \in late' : x \in late \/ (x.kind # None /\ x.owner \in {g, None})
  BY <1>1, <1>2 DEF TypeOK
<1>7. CASE gw[g].epoch # 0
  <2>1. Send(g, "renew", gw[g].epoch) /\ Is(g, next)
    BY <1>7 DEF Round, next
  <2>2. /\ call' \in [Gateways -> Call] /\ \A h \in Gateways \ {g} : call'[h] = call[h]
        /\ call'[g].kind = "renew" /\ call'[g].owner = g /\ call'[g].epoch = gw[g].epoch
        /\ call'[g].age = 0 /\ call'[g].answer = None
    BY <1>1, <1>2, <2>1, SendType
  <2>3. /\ gw' \in [Gateways -> Gateway] /\ \A h \in Gateways \ {g} : gw'[h] = gw[h]
        /\ gw'[g].stopping = next.stopping /\ gw'[g].epoch = next.epoch /\ gw'[g].transport = next.transport
        /\ gw'[g].until = next.until /\ gw'[g].age = next.age /\ gw'[g].timer = next.timer
    BY <1>1, <1>4, <1>5, <2>1, NewState
  <2>4. CallFits(g)'
    BY <1>1, <1>2, <1>3, <1>4, <1>7, <2>2, <2>3 DEF CallFits, HoldIsDurable, None
  <2>5. HoldIsDurable(g)' /\ ReleasesAreOld(g)'
    BY <1>1, <1>2, <1>4, <2>2, <2>3 DEF HoldIsDurable, ReleasesAreOld
  <2>6. gw[g].transport = "on" => row.left >= 1
    BY <1>1, <1>2, <1>7 DEF TransportIsCovered, HoldIsDurable, None
  <2>7. TransportIsCovered(g)'
    BY <1>1, <1>2, <1>4, <2>2, <2>3, <2>6 DEF TransportIsCovered
  <2> QED BY <1>2, <1>6, <2>2, <2>3, <2>4, <2>5, <2>7, LocalStep DEF Leads
<1>8. CASE gw[g].epoch = 0
  <2>1. Is(g, Stopping(next)) /\ UNCHANGED call /\ gw[g].transport = "stopping"
    BY <1>1, <1>2, <1>8, Fields DEF Round, next, TransportIsCovered, Idle
  <2>2. Stopping(next) = next
    BY <1>4, <2>1 DEF Stopping
  <2>3. /\ gw' \in [Gateways -> Gateway] /\ \A h \in Gateways \ {g} : gw'[h] = gw[h]
        /\ gw'[g].stopping = next.stopping /\ gw'[g].epoch = next.epoch /\ gw'[g].transport = next.transport
        /\ gw'[g].until = next.until /\ gw'[g].age = next.age /\ gw'[g].timer = next.timer
    BY <1>1, <1>4, <1>5, <2>1, <2>2, NewState
  <2>4. CallFits(g)'
    BY <1>1, <1>2, <2>1, <2>3 DEF CallFits, None
  <2>5. HoldIsDurable(g)' /\ ReleasesAreOld(g)' /\ TransportIsCovered(g)'
    BY <1>1, <1>2, <1>4, <2>1, <2>3 DEF HoldIsDurable, ReleasesAreOld, TransportIsCovered
  <2>6. call' \in [Gateways -> Call] /\ \A h \in Gateways \ {g} : call'[h] = call[h]
    BY <1>1, <2>1 DEF TypeOK
  <2> QED BY <1>2, <1>6, <2>3, <2>4, <2>5, <2>6, LocalStep DEF Leads
<1> QED BY <1>7, <1>8

(* The lease is given up, and with it the transport: after a renewal that was *)
(* refused, or one that was not confirmed while the lease was still safe.     *)
LEMMA LeaseGivenUp ==
    ASSUME ChannelAssumption, ChannelInvariant, NEW g \in Gateways, call[g].kind = "renew",
           Is(g, Stopping([gw[g] EXCEPT !.epoch = 0])), UNCHANGED row,
           call' = [call EXCEPT ![g] = NoCall], late' = late \/ GiveUp(call[g]),
           late' \subseteq Call, lates' \in 0 .. MaxLate
    PROVE  ChannelInvariant'
<1> USE Durations
<1> DEFINE state == [gw[g] EXCEPT !.epoch = 0]
<1>1. TypeOK /\ CallFits(g) /\ HoldIsDurable(g) /\ ReleasesAreOld(g) /\ TransportIsCovered(g)
  BY GatewayFacts
<1>2. /\ gw[g] \in Gateway /\ call[g] \in Call /\ row.epoch \in Int /\ row.epoch >= 0 /\ row.left \in Int
      /\ ~gw[g].stopping /\ call[g].kind # None
      /\ gw[g].transport \in {"off", "on", "stopping"}
  BY <1>1, Fields DEF CallFits, None
<1>3. /\ state \in Gateway /\ state.epoch = 0 /\ state.stopping = gw[g].stopping
      /\ state.transport = gw[g].transport /\ state.until = gw[g].until
  <2>1. 0 \in Epochs
    BY DEF Epochs
  <2> QED BY <1>2, <2>1, Zenon DEF Gateway
<1> DEFINE next == Stopping(state)
<1> HIDE DEF state
<1>4. /\ next \in Gateway /\ next.epoch = 0 /\ next.stopping = gw[g].stopping
      /\ IF gw[g].transport = "on" THEN next.transport = "stopping" /\ next.until = StopTime
         ELSE next.transport = gw[g].transport /\ next.until = gw[g].until
  BY <1>3, StoppingState
<1>5. Is(g, next)
  BY DEF state
<1> HIDE DEF next
<1>6. /\ gw' \in [Gateways -> Gateway] /\ \A h \in Gateways \ {g} : gw'[h] = gw[h]
      /\ gw'[g].stopping = FALSE /\ gw'[g].epoch = 0 /\ gw'[g].transport = next.transport
      /\ gw'[g].until = next.until
  BY <1>1, <1>2, <1>4, <1>5, NewState
<1>7. /\ call' \in [Gateways -> Call] /\ \A h \in Gateways \ {g} : call'[h] = call[h]
      /\ call'[g].kind = None /\ call'[g].answer = None /\ call'[g].epoch = 0
  BY <1>1, NoneUnderWay
<1>8. /\ \A x \in late' : x \in late \/ (x.kind # None /\ x.owner \in {g, None})
      /\ \A x \in late' : x \in late \/ x.kind = "renew"
  <2>1. CASE late' = late
    BY <2>1
  <2>2. CASE GiveUp(call[g])
    <3>1. \A x \in late' : x \in late \/ (x.kind = call[g].kind /\ x.owner = call[g].owner)
      BY <1>1, <1>2, <2>2, GivenUp
    <3>2. call[g].owner = g
      BY <1>1, <1>2 DEF CallFits
    <3> QED BY <1>2, <3>1, <3>2
  <2> QED BY <2>1, <2>2
<1>9. gw[g].transport = "on" => row.left + GraceSeconds >= StopTime
  BY <1>2, TimeToStop
<1>10. CallFits(g)' /\ HoldIsDurable(g)'
  BY <1>2, <1>6, <1>7 DEF CallFits, HoldIsDurable, None
<1>11. ReleasesAreOld(g)'
  BY <1>1, <1>2, <1>4, <1>6, <1>7, <1>8 DEF ReleasesAreOld, None
<1>12. TransportIsCovered(g)'
  BY <1>1, <1>2, <1>4, <1>6, <1>7, <1>9 DEF TransportIsCovered
<1> QED BY <1>6, <1>7, <1>8, <1>10, <1>11, <1>12, LocalStep DEF Leads

(* The lease was granted or renewed.                                          *)
LEMMA LeaseConfirmed ==
    ASSUME ChannelAssumption, ChannelInvariant, NEW g \in Gateways, NEW state \in Gateway, Is(g, state),
           call[g].answer = "yes", call[g].kind \in {"acquire", "renew"},
           state.epoch = call[g].epoch, state.age = call[g].age, state.stopping = gw[g].stopping,
           state.transport = gw[g].transport, state.until = gw[g].until,
           call[g].kind = "renew" => state.timer = gw[g].timer,
           call' = [call EXCEPT ![g] = NoCall], UNCHANGED <<row, late, lates>>
    PROVE  ChannelInvariant'
<1> USE Durations
<1> DEFINE c == call[g]
<1>1. TypeOK /\ CallFits(g) /\ HoldIsDurable(g) /\ ReleasesAreOld(g) /\ TransportIsCovered(g)
  BY GatewayFacts
<1>2. /\ gw[g] \in Gateway /\ row.epoch \in Int /\ row.epoch >= 0 /\ row.left \in Int
      /\ c.epoch \in 0 .. MaxEpoch /\ c.age \in 0 .. OperationTimeout /\ gw[g].timer \in Int
      /\ gw[g].epoch \in Int
  BY <1>1, Fields, CallFields
<1>3. /\ c.owner = g /\ ~gw[g].stopping /\ row.owner = g /\ row.left + c.age >= LeaseSeconds
      /\ c.epoch <= row.epoch
  BY <1>1 DEF CallFits, None
<1>4. /\ c.kind = "acquire" => gw[g].transport = "off"
      /\ c.kind = "renew" => gw[g].epoch = c.epoch /\ gw[g].epoch # 0 /\ gw[g].timer + c.age <= RenewInterval
  BY <1>1 DEF CallFits
<1>5. /\ gw' \in [Gateways -> Gateway] /\ \A h \in Gateways \ {g} : gw'[h] = gw[h]
      /\ gw'[g].stopping = FALSE /\ gw'[g].epoch = c.epoch /\ gw'[g].transport = gw[g].transport
      /\ gw'[g].until = gw[g].until
      /\ ~Idle(state) => gw'[g].age = c.age /\ gw'[g].timer = state.timer
  BY <1>1, <1>3, NewState
<1>6. gw'[g].epoch # 0 => ~Idle(state)
  BY <1>5 DEF Idle
<1>7. /\ call' \in [Gateways -> Call] /\ \A h \in Gateways \ {g} : call'[h] = call[h]
      /\ call'[g].kind = None /\ call'[g].answer = None /\ call'[g].epoch = 0
  BY <1>1, NoneUnderWay
<1>8. late' \subseteq Call /\ lates' \in 0 .. MaxLate
  BY <1>1 DEF TypeOK
<1>9. CallFits(g)'
  BY <1>2, <1>7 DEF CallFits, None
<1>10. HoldIsDurable(g)'
  BY <1>2, <1>3, <1>5, <1>6 DEF HoldIsDurable
<1>11. ReleasesAreOld(g)'
  <2>1. \A x \in late : x.kind = "release" /\ x.owner = g => x.epoch < c.epoch
    BY <1>1, <1>4 DEF ReleasesAreOld
  <2> QED BY <1>1, <1>5, <1>7, <2>1 DEF ReleasesAreOld, None
<1>12. TransportIsCovered(g)'
  <2>1. gw[g].transport = "on" => gw'[g].age = c.age /\ gw'[g].timer = gw[g].timer /\ c.kind = "renew"
    BY <1>4, <1>5, <1>6
  <2>2. gw[g].transport = "on" => gw'[g].age < LeaseSeconds /\ gw'[g].age + gw'[g].timer < LeaseSeconds
    BY <1>2, <1>4, <2>1
  <2>3. gw[g].transport = "on" => gw'[g].epoch # 0
    BY <1>4, <1>5, <2>1
  <2>4. call'[g].kind # "renew"
    BY <1>7 DEF None
  <2> QED BY <1>1, <1>3, <1>5, <2>2, <2>3, <2>4 DEF TransportIsCovered
<1> QED BY <1>5, <1>7, <1>8, <1>9, <1>10, <1>11, <1>12, LocalStep DEF Leads

(* A call is over that changes nothing but, perhaps, a hold that was dropped. *)
LEMMA CallOver ==
    ASSUME ChannelAssumption, ChannelInvariant, NEW g \in Gateways, UNCHANGED row,
           \/ UNCHANGED gw
           \/ Is(g, gw[g])
           \/ gw[g].transport = "off" /\ Is(g, [gw[g] EXCEPT !.epoch = 0]),
           call[g].kind = "renew" => Holds(g),
           call' = [call EXCEPT ![g] = NoCall], call[g].kind # None,
           late' = late \/ GiveUp(call[g]), late' \subseteq Call, lates' \in 0 .. MaxLate
    PROVE  ChannelInvariant'
<1> USE Durations
<1> DEFINE c == call[g]
<1>1. TypeOK /\ CallFits(g) /\ HoldIsDurable(g) /\ ReleasesAreOld(g) /\ TransportIsCovered(g)
  BY GatewayFacts
<1>2. /\ gw[g] \in Gateway /\ call[g] \in Call /\ row.epoch \in Int /\ row.epoch >= 0 /\ row.left \in Int
      /\ c.epoch \in 0 .. MaxEpoch /\ c.age \in 0 .. OperationTimeout /\ gw[g].timer \in Int
      /\ gw[g].epoch \in Int /\ gw[g].age \in Int /\ ~gw[g].stopping /\ c.owner = g
      /\ c.kind \in {None, "acquire", "renew", "release"}
  BY <1>1, Fields, CallFields DEF CallFits
<1>3. /\ gw' \in [Gateways -> Gateway] /\ \A h \in Gateways \ {g} : gw'[h] = gw[h]
      /\ gw'[g].stopping = FALSE /\ gw'[g].transport = gw[g].transport /\ gw'[g].until = gw[g].until
      /\ gw'[g].epoch = gw[g].epoch \/ (gw'[g].epoch = 0 /\ gw[g].transport = "off")
      /\ gw'[g].epoch # 0 => gw'[g].age = gw[g].age /\ gw'[g].timer = gw[g].timer
  <2>1. CASE UNCHANGED gw
    BY <1>1, <1>2, <2>1 DEF TypeOK
  <2>2. CASE Is(g, gw[g])
    BY <1>1, <1>2, <2>2, NewState DEF Idle
  <2>3. CASE gw[g].transport = "off" /\ Is(g, [gw[g] EXCEPT !.epoch = 0])
    <3> DEFINE state == [gw[g] EXCEPT !.epoch = 0]
    <3>1. 0 \in Epochs
      BY DEF Epochs
    <3>2. /\ state \in Gateway /\ state.epoch = 0 /\ state.stopping = gw[g].stopping
          /\ state.transport = gw[g].transport /\ state.until = gw[g].until
      BY <1>2, <3>1, Zenon DEF Gateway
    <3>3. Is(g, state)
      BY <2>3
    <3> HIDE DEF state
    <3> QED BY <1>1, <1>2, <2>3, <3>2, <3>3, NewState
  <2> QED BY <2>1, <2>2, <2>3
<1>4. /\ call' \in [Gateways -> Call] /\ \A h \in Gateways \ {g} : call'[h] = call[h]
      /\ call'[g].kind = None /\ call'[g].answer = None /\ call'[g].epoch = 0
  BY <1>1, NoneUnderWay
<1>5. \A x \in late' : x \in late \/ (x.kind = c.kind /\ x.owner = g /\ x.epoch = c.epoch)
  <2>1. CASE late' = late
    BY <2>1
  <2>2. CASE GiveUp(call[g])
    BY <1>1, <1>2, <2>2, GivenUp
  <2> QED BY <2>1, <2>2
<1>6. CallFits(g)'
  BY <1>2, <1>4 DEF CallFits, None
<1>7. HoldIsDurable(g)'
  BY <1>1, <1>2, <1>3 DEF HoldIsDurable
<1>8. ReleasesAreOld(g)'
  <2>1. c.kind = "release" => c.epoch <= row.epoch /\ gw[g].epoch = 0 /\ gw[g].transport = "off"
    BY <1>1 DEF CallFits
  <2> QED BY <1>1, <1>2, <1>3, <1>4, <1>5, <2>1 DEF ReleasesAreOld, None
<1>9. TransportIsCovered(g)'
  <2>1. gw[g].transport = "on" =>
          /\ c.kind = "renew" /\ gw'[g].epoch = gw[g].epoch /\ gw[g].epoch # 0
          /\ gw[g].age + RenewInterval < LeaseSeconds /\ gw[g].timer + c.age <= RenewInterval
    BY <1>1, <1>2, <1>3 DEF CallFits, TransportIsCovered, Holds
  <2> QED BY <1>1, <1>2, <1>3, <1>4, <2>1 DEF TransportIsCovered
<1> QED BY <1>2, <1>3, <1>4, <1>5, <1>6, <1>7, <1>8, <1>9, LocalStep DEF Leads

LEMMA AnswerStep ==
    ASSUME ChannelAssumption, ChannelInvariant, NEW g \in Gateways, Answer(g)
    PROVE  ChannelInvariant'
<1> USE Durations
<1> DEFINE c == call[g]
           held == [gw[g] EXCEPT !.epoch = c.epoch, !.age = c.age]
<1>1. TypeOK /\ CallFits(g)
  BY GatewayFacts
<1>2. /\ c.answer # None /\ call' = [call EXCEPT ![g] = NoCall] /\ UNCHANGED <<row, late, lates>>
      /\ gw[g] \in Gateway /\ c.epoch \in 0 .. MaxEpoch /\ c.age \in 0 .. OperationTimeout
      /\ c.kind # None /\ gw[g].timer \in -OperationTimeout .. RenewInterval
      /\ late' \subseteq Call /\ lates' \in 0 .. MaxLate
  BY Zenon, <1>1, Fields, CallFields DEF Answer, CallFits, TypeOK
<1>3. c.epoch \in Epochs /\ c.age \in 0 .. LeaseSeconds
  BY <1>2 DEF Epochs
<1>4. /\ held \in Gateway /\ held.epoch = c.epoch /\ held.age = c.age /\ held.timer = gw[g].timer
      /\ held.stopping = gw[g].stopping /\ held.transport = gw[g].transport /\ held.until = gw[g].until
  BY <1>2, <1>3, Zenon DEF Gateway
<1>5. ASSUME c.answer = "yes", c.kind = "acquire", Idle(gw[g]), NEW timer \in 1 .. RenewInterval,
             Is(g, [held EXCEPT !.timer = timer])
      PROVE  ChannelInvariant'
  <2> DEFINE state == [held EXCEPT !.timer = timer]
  <2> HIDE DEF held
  <2>1. timer \in -OperationTimeout .. RenewInterval
    BY <1>5
  <2>2. /\ state \in Gateway /\ state.epoch = c.epoch /\ state.age = c.age
        /\ state.stopping = gw[g].stopping /\ state.transport = gw[g].transport /\ state.until = gw[g].until
    BY <1>4, <2>1, Zenon DEF Gateway
  <2>3. Is(g, state)
    BY <1>5
  <2> HIDE DEF state
  <2> QED BY <1>2, <1>5, <2>2, <2>3, LeaseConfirmed
<1>6. CASE c.answer = "yes" /\ c.kind \in {"acquire", "renew"} /\ ~Idle(gw[g]) /\ Is(g, held)
  <2> HIDE DEF held
  <2> QED BY <1>2, <1>4, <1>6, LeaseConfirmed
<1>7. CASE c.kind = "release" /\ UNCHANGED gw
  BY <1>2, <1>7, CallOver
<1>8. CASE c.answer = "no" /\ c.kind = "acquire" /\ Is(g, [gw[g] EXCEPT !.epoch = 0])
  <2>1. gw[g].transport = "off"
    BY <1>1, <1>8 DEF CallFits
  <2> QED BY <1>2, <1>8, <2>1, CallOver
<1>9. CASE c.answer = "no" /\ c.kind = "renew" /\ Is(g, Stopping([gw[g] EXCEPT !.epoch = 0]))
  BY <1>2, <1>9, LeaseGivenUp
<1> QED BY Zenon, <1>5, <1>6, <1>7, <1>8, <1>9 DEF Answer

LEMMA UnconfirmedStep ==
    ASSUME ChannelAssumption, ChannelInvariant, NEW g \in Gateways, Unconfirmed(g)
    PROVE  ChannelInvariant'
<1>1. TypeOK /\ call[g] \in Call
  BY GatewayFacts, Fields
<1>2. /\ call[g].kind # None /\ GiveUp(call[g]) /\ UNCHANGED row /\ call' = [call EXCEPT ![g] = NoCall]
  BY DEF Unconfirmed
<1>3. late' \subseteq Call /\ lates' \in 0 .. MaxLate
  BY <1>1, <1>2, GivenUp
<1>4. CASE call[g].kind = "renew" /\ ~Holds(g)
  <2>1. Is(g, Stopping([gw[g] EXCEPT !.epoch = 0]))
    BY <1>4 DEF Unconfirmed
  <2> QED BY <1>2, <1>3, <1>4, <2>1, LeaseGivenUp
<1>5. CASE ~(call[g].kind = "renew" /\ ~Holds(g))
  <2>1. Is(g, gw[g])
    BY <1>5 DEF Unconfirmed
  <2> QED BY <1>2, <1>3, <1>5, <2>1, CallOver
<1> QED BY <1>4, <1>5

LEMMA StartStep ==
    ASSUME ChannelAssumption, ChannelInvariant, NEW g \in Gateways, Start(g)
    PROVE  ChannelInvariant'
<1> USE Durations
<1> DEFINE state == [gw[g] EXCEPT !.transport = "on"]
<1>1. TypeOK /\ CallFits(g) /\ HoldIsDurable(g) /\ ReleasesAreOld(g) /\ TransportIsCovered(g)
  BY GatewayFacts
<1>2. /\ gw[g] \in Gateway /\ row.epoch \in Int /\ row.left \in Int /\ gw[g].epoch \in Int
      /\ gw[g].age \in Int /\ gw[g].timer \in Int /\ gw[g].timer <= RenewInterval
      /\ call[g].age \in 0 .. OperationTimeout
      /\ ~gw[g].stopping /\ gw[g].transport = "off" /\ Holds(g) /\ UNCHANGED <<row, call, late, lates>>
      /\ Is(g, state)
  BY <1>1, Fields, CallFields DEF Start
<1>3. gw[g].epoch # 0 /\ gw[g].age + RenewInterval < LeaseSeconds
  BY <1>2 DEF Holds
<1>4. row.owner = g /\ row.left + gw[g].age >= LeaseSeconds
  BY <1>1, <1>2, <1>3 DEF HoldIsDurable
<1>5. /\ state \in Gateway /\ state.epoch = gw[g].epoch /\ state.stopping = gw[g].stopping
      /\ state.transport = "on" /\ state.age = gw[g].age /\ state.timer = gw[g].timer
  BY <1>2, Zenon DEF Gateway
<1> HIDE DEF state
<1>6. /\ gw' \in [Gateways -> Gateway] /\ \A h \in Gateways \ {g} : gw'[h] = gw[h]
      /\ gw'[g].stopping = FALSE /\ gw'[g].epoch = gw[g].epoch /\ gw'[g].transport = "on"
      /\ gw'[g].age = gw[g].age /\ gw'[g].timer = gw[g].timer
  BY <1>1, <1>2, <1>5, NewState DEF Idle
<1>7. CallFits(g)'
  <2>1. call[g].kind \notin {"acquire", "release"}
    BY <1>1, <1>2 DEF CallFits
  <2> QED BY <1>1, <1>2, <1>6, <2>1 DEF CallFits
<1>8. HoldIsDurable(g)'
  BY <1>1, <1>2, <1>6 DEF HoldIsDurable
<1>9. ReleasesAreOld(g)'
  <2>1. \A x \in late : x.epoch \in Int
    BY <1>1, CallFields DEF TypeOK
  <2> QED BY <1>1, <1>2, <1>3, <1>6, <2>1 DEF ReleasesAreOld, HoldIsDurable
<1>10. TransportIsCovered(g)'
  BY <1>2, <1>3, <1>4, <1>6 DEF TransportIsCovered
<1>11. /\ call' \in [Gateways -> Call] /\ \A h \in Gateways \ {g} : call'[h] = call[h]
       /\ late' \subseteq Call /\ lates' \in 0 .. MaxLate
  BY <1>1, <1>2 DEF TypeOK
<1> QED BY <1>2, <1>6, <1>7, <1>8, <1>9, <1>10, <1>11, LocalStep DEF Leads

LEMMA StopStep ==
    ASSUME ChannelAssumption, ChannelInvariant, NEW g \in Gateways, Stop(g)
    PROVE  ChannelInvariant'
<1> USE Durations
<1>1. TypeOK /\ CallFits(g) /\ HoldIsDurable(g) /\ ReleasesAreOld(g) /\ TransportIsCovered(g)
  BY GatewayFacts
<1>2. /\ gw[g] \in Gateway /\ ~gw[g].stopping /\ gw[g].transport = "on"
      /\ UNCHANGED <<row, call, late, lates>> /\ Is(g, Stopping(gw[g]))
  BY <1>1, Fields DEF Stop
<1> DEFINE state == Stopping(gw[g])
<1>3. /\ state \in Gateway /\ state.epoch = gw[g].epoch /\ state.stopping = gw[g].stopping
      /\ state.transport = "stopping" /\ state.age = gw[g].age /\ state.timer = gw[g].timer
      /\ state.until = StopTime
  BY <1>2, StoppingState
<1> HIDE DEF state
<1>4. /\ gw' \in [Gateways -> Gateway] /\ \A h \in Gateways \ {g} : gw'[h] = gw[h]
      /\ gw'[g].stopping = FALSE /\ gw'[g].epoch = gw[g].epoch /\ gw'[g].transport = "stopping"
      /\ gw'[g].age = gw[g].age /\ gw'[g].timer = gw[g].timer /\ gw'[g].until = StopTime
  BY <1>1, <1>2, <1>3, NewState DEF Idle, state
<1>5. row.owner = g /\ row.left + GraceSeconds >= StopTime
  BY <1>2, TimeToStop
<1>6. CallFits(g)'
  <2>1. call[g].kind \notin {"acquire", "release"}
    BY <1>1, <1>2 DEF CallFits
  <2> QED BY <1>1, <1>2, <1>4, <2>1 DEF CallFits
<1>7. HoldIsDurable(g)' /\ ReleasesAreOld(g)'
  BY <1>1, <1>2, <1>4 DEF HoldIsDurable, ReleasesAreOld
<1>8. TransportIsCovered(g)'
  BY <1>2, <1>4, <1>5 DEF TransportIsCovered
<1>9. /\ call' \in [Gateways -> Call] /\ \A h \in Gateways \ {g} : call'[h] = call[h]
      /\ late' \subseteq Call /\ lates' \in 0 .. MaxLate
  BY <1>1, <1>2 DEF TypeOK
<1> QED BY <1>2, <1>4, <1>6, <1>7, <1>8, <1>9, LocalStep DEF Leads

LEMMA StoppedStep ==
    ASSUME ChannelAssumption, ChannelInvariant, NEW g \in Gateways, Stopped(g)
    PROVE  ChannelInvariant'
<1> USE Durations
<1> DEFINE state == [gw[g] EXCEPT !.transport = "off", !.until = 0]
<1>1. TypeOK /\ CallFits(g) /\ HoldIsDurable(g) /\ ReleasesAreOld(g) /\ TransportIsCovered(g)
  BY GatewayFacts
<1>2. /\ gw[g] \in Gateway /\ gw[g].transport = "stopping" /\ UNCHANGED <<row, call, late, lates>>
      /\ Is(g, state) /\ 0 \in 0 .. StopTime + ShutdownTime /\ row.epoch \in Int
      /\ row.epoch >= 0 /\ call[g].age \in Nat
  BY <1>1, Fields, CallFields DEF Stopped
<1>3. ~gw[g].stopping
  BY <1>1, <1>2 DEF TransportIsCovered
<1>4. /\ state \in Gateway /\ state.epoch = gw[g].epoch /\ state.stopping = gw[g].stopping
      /\ state.transport = "off" /\ state.age = gw[g].age /\ state.timer = gw[g].timer
  BY <1>2, Zenon DEF Gateway
<1> HIDE DEF state
<1>5. /\ gw' \in [Gateways -> Gateway] /\ \A h \in Gateways \ {g} : gw'[h] = gw[h]
      /\ gw'[g].stopping = FALSE /\ gw'[g].epoch = gw[g].epoch /\ gw'[g].transport = "off"
      /\ gw[g].epoch # 0 => gw'[g].age = gw[g].age /\ gw'[g].timer = gw[g].timer
      /\ gw[g].epoch = 0 => gw'[g].age = 0 /\ gw'[g].timer = 0
  BY <1>1, <1>2, <1>3, <1>4, NewState DEF Idle
<1>6. CallFits(g)'
  <2>1. call[g].kind \notin {"acquire", "release"}
    BY <1>1, <1>2 DEF CallFits
  <2> QED BY <1>1, <1>2, <1>5, <2>1 DEF CallFits
<1>7. HoldIsDurable(g)' /\ ReleasesAreOld(g)' /\ TransportIsCovered(g)'
  BY <1>1, <1>2, <1>5 DEF HoldIsDurable, ReleasesAreOld, TransportIsCovered
<1>8. /\ call' \in [Gateways -> Call] /\ \A h \in Gateways \ {g} : call'[h] = call[h]
      /\ late' \subseteq Call /\ lates' \in 0 .. MaxLate
  BY <1>1, <1>2 DEF TypeOK
<1> QED BY <1>2, <1>5, <1>6, <1>7, <1>8, LocalStep DEF Leads

LEMMA ShutdownStep ==
    ASSUME ChannelAssumption, ChannelInvariant, NEW g \in Gateways, Shutdown(g)
    PROVE  ChannelInvariant'
<1> USE Durations
<1> DEFINE state == [gw[g] EXCEPT !.stopping = TRUE, !.timer = 0, !.until = ShutdownTime]
<1>1. TypeOK /\ CallFits(g) /\ HoldIsDurable(g) /\ ReleasesAreOld(g) /\ TransportIsCovered(g)
  BY GatewayFacts
<1>2. /\ gw[g] \in Gateway /\ ~gw[g].stopping /\ gw[g].transport = "on" /\ GiveUp(call[g])
      /\ UNCHANGED row /\ Is(g, state) /\ call' = [call EXCEPT ![g] = NoCall]
      /\ call[g] \in Call /\ row.epoch \in Int /\ row.epoch >= 0
  BY <1>1, Fields DEF Shutdown
<1>3. /\ state \in Gateway /\ state.epoch = gw[g].epoch /\ state.stopping = TRUE
      /\ state.transport = "on" /\ state.age = gw[g].age /\ state.timer = 0 /\ state.until = ShutdownTime
  <2>1. 0 \in -OperationTimeout .. RenewInterval /\ ShutdownTime \in 0 .. StopTime + ShutdownTime
    OBVIOUS
  <2> QED BY <1>2, <2>1, Zenon DEF Gateway
<1> HIDE DEF state
<1>4. /\ gw' \in [Gateways -> Gateway] /\ \A h \in Gateways \ {g} : gw'[h] = gw[h]
      /\ gw'[g].stopping = TRUE /\ gw'[g].epoch = gw[g].epoch /\ gw'[g].transport = "on"
      /\ gw'[g].age = gw[g].age /\ gw'[g].until = ShutdownTime
  BY <1>1, <1>2, <1>3, NewState DEF Idle
<1>5. /\ call' \in [Gateways -> Call] /\ \A h \in Gateways \ {g} : call'[h] = call[h]
      /\ call'[g].kind = None /\ call'[g].answer = None /\ call'[g].epoch = 0
  BY <1>1, <1>2, NoneUnderWay
<1>6. row.owner = g /\ row.left + GraceSeconds >= ShutdownTime
  BY <1>2, TimeToStop
<1>7. /\ late' \subseteq Call /\ lates' \in 0 .. MaxLate
      /\ \A x \in late' : x \in late \/ (x.kind # None /\ x.kind # "release" /\ x.owner = g)
  <2>1. call[g].kind \notin {"acquire", "release"} /\ (call[g].kind # None => call[g].owner = g)
    BY <1>1, <1>2 DEF CallFits
  <2> QED BY <1>1, <1>2, <2>1, GivenUp
<1>8. CallFits(g)' /\ HoldIsDurable(g)'
  BY <1>1, <1>2, <1>4, <1>5 DEF CallFits, HoldIsDurable, None
<1>9. ReleasesAreOld(g)'
  BY <1>1, <1>2, <1>4, <1>5, <1>7 DEF ReleasesAreOld, None
<1>10. TransportIsCovered(g)'
  BY <1>1, <1>2, <1>4, <1>6 DEF TransportIsCovered
<1> QED BY <1>2, <1>4, <1>5, <1>7, <1>8, <1>9, <1>10, LocalStep DEF Leads

(* A process is gone; what it has sent may still arrive.                      *)
LEMMA GoneStep ==
    ASSUME ChannelAssumption, ChannelInvariant, NEW g \in Gateways, Gone(g),
           NEW c \in Call, c.owner = None, GiveUp(c)
    PROVE  ChannelInvariant'
<1> USE Durations
<1>1. TypeOK /\ ReleasesAreOld(g)
  BY GatewayFacts
<1>2. /\ row \in Row /\ row.epoch \in Int /\ row.epoch >= 0 /\ row.left \in Int
      /\ row.owner \in Gateways \cup {None}
  BY <1>1, Fields
<1>3. /\ row' \in Row /\ row'.epoch = row.epoch /\ row'.left = row.left
      /\ row.owner # g => row'.owner = row.owner
  <2> DEFINE owner == IF row.owner = g THEN None ELSE row.owner
  <2>1. row' = [row EXCEPT !.owner = owner] /\ owner \in Gateways \cup {None}
    BY <1>2 DEF Gone
  <2>2. row.owner # g => owner = row.owner
    OBVIOUS
  <2> HIDE DEF owner
  <2> QED BY <1>2, <2>1, <2>2 DEF Row
<1>4. Fresh \in Gateway
  <2>1. 0 \in Epochs /\ 0 \in 0 .. LeaseSeconds /\ 0 \in -OperationTimeout .. RenewInterval
        /\ 0 \in 0 .. StopTime + ShutdownTime
    BY DEF Epochs
  <2> QED BY <2>1 DEF Fresh, Gateway
<1>5. /\ gw' \in [Gateways -> Gateway] /\ \A h \in Gateways \ {g} : gw'[h] = gw[h] /\ gw'[g] = Fresh
  BY <1>1, <1>4 DEF Gone, TypeOK
<1>6. /\ call' \in [Gateways -> Call] /\ \A h \in Gateways \ {g} : call'[h] = call[h]
      /\ call'[g].kind = None /\ call'[g].answer = None /\ call'[g].epoch = 0
  BY <1>1, NoneUnderWay DEF Gone
<1>7. /\ late' \subseteq Call /\ lates' \in 0 .. MaxLate
      /\ \A x \in late' : x \in late \/ (x.kind # None /\ x.owner = None)
  BY <1>1, GivenUp
<1>8. TypeOK'
  BY <1>3, <1>5, <1>6, <1>7 DEF TypeOK
<1>9. \A h \in Gateways \ {g} : RowKept(h)
  <2> SUFFICES ASSUME NEW h \in Gateways \ {g} PROVE RowKept(h)
    OBVIOUS
  <2>1. Leads(h)
    BY GatewayFacts
  <2>2. Relies(h) => row.owner = h
    BY <1>1, <2>1, ReliesOnItsRow
  <2> QED BY <1>2, <1>3, <2>2 DEF RowKept
<1>10. /\ gw'[g].stopping = FALSE /\ gw'[g].epoch = 0 /\ gw'[g].transport = "off"
  <2>1. gw'[g] = Fresh
    BY <1>1, <1>4 DEF Gone, TypeOK
  <2> QED BY <2>1 DEF Fresh
<1>11. CallFits(g)' /\ HoldIsDurable(g)' /\ TransportIsCovered(g)'
  BY <1>2, <1>3, <1>6, <1>10 DEF CallFits, HoldIsDurable, TransportIsCovered, None
<1>12. ReleasesAreOld(g)'
  BY <1>1, <1>3, <1>6, <1>7, <1>10 DEF ReleasesAreOld, None
<1>13. Leads(g)'
  BY <1>11, <1>12 DEF Leads
<1>14. \A h \in Gateways \ {g} : gw'[h] = gw[h] /\ call'[h] = call[h] /\ RowKept(h)
  BY <1>5, <1>6, <1>9
<1>15. \A x \in late' : x \in late \/ (x.kind # None /\ x.owner \in {g, None})
  BY <1>7
<1> QED BY <1>8, <1>13, <1>14, <1>15, GatewayStep

LEMMA ExitStep ==
    ASSUME ChannelAssumption, ChannelInvariant, NEW g \in Gateways, Exit(g)
    PROVE  ChannelInvariant'
<1> DEFINE kind == IF gw[g].epoch = 0 THEN None ELSE "release"
<1>1. gw[g].epoch \in Epochs
  BY GatewayFacts, Fields DEF Epochs
<1>2. Handback(g) \in Call /\ Handback(g).owner = None
  <2>1. Handback(g) = [NoCall EXCEPT !.kind = kind, !.owner = None, !.epoch = gw[g].epoch]
    BY DEF Handback
  <2>2. kind \in {None, "acquire", "renew", "release"} /\ None \in Gateways \cup {None}
    OBVIOUS
  <2>3. NoCall \in Call
    BY NoCallType
  <2> HIDE DEF kind
  <2>4. [NoCall EXCEPT !.kind = kind, !.owner = None, !.epoch = gw[g].epoch] \in Call
    BY <1>1, <2>2, <2>3, Zenon DEF Call
  <2> QED BY <2>1, <2>4 DEF NoCall
<1>3. GiveUp(Handback(g)) /\ Gone(g)
  BY DEF Exit
<1> QED BY <1>2, <1>3, GoneStep

LEMMA CrashStep ==
    ASSUME ChannelAssumption, ChannelInvariant, NEW g \in Gateways, Crash(g)
    PROVE  ChannelInvariant'
<1> DEFINE c == [call[g] EXCEPT !.owner = None]
<1>1. call[g] \in Call
  BY GatewayFacts, Fields
<1>2. c \in Call /\ c.owner = None
  <2>1. None \in Gateways \cup {None}
    OBVIOUS
  <2> QED BY <1>1, <2>1, Zenon DEF Call
<1>3. GiveUp(c) /\ Gone(g)
  BY DEF Crash
<1> HIDE DEF c
<1> QED BY <1>2, <1>3, GoneStep

(* What a tick does to one gateway, to its call and to the row.               *)
LEMMA TickGateway ==
    ASSUME ChannelAssumption, ChannelInvariant, Tick, NEW g \in Gateways
    PROVE  /\ gw'[g] \in Gateway /\ gw'[g].stopping = gw[g].stopping /\ gw'[g].epoch = gw[g].epoch
           /\ gw'[g].transport = gw[g].transport /\ gw'[g].until = Nearer(gw[g].until, 0)
           /\ IF Idle(gw[g]) THEN gw'[g].age = 0 /\ gw'[g].timer = 0
              ELSE /\ gw'[g].age = Older(gw[g].age)
                   /\ gw'[g].timer = IF gw[g].stopping THEN 0 ELSE gw[g].timer - 1
<1> USE Durations
<1>1. TypeOK /\ CallFits(g) /\ TransportIsCovered(g) /\ ~Urgent(g)
  BY Zenon, GatewayFacts DEF Tick
<1>2. /\ gw[g] \in Gateway /\ gw[g].stopping \in BOOLEAN /\ gw[g].epoch \in 0 .. MaxEpoch
      /\ gw[g].age \in 0 .. LeaseSeconds /\ gw[g].timer \in -OperationTimeout .. RenewInterval
      /\ gw[g].transport \in {"off", "on", "stopping"} /\ gw[g].until \in 0 .. StopTime + ShutdownTime
      /\ call[g].age \in 0 .. OperationTimeout
  BY <1>1, Fields, CallFields
<1> DEFINE age   == Older(gw[g].age)
           timer == IF gw[g].stopping THEN 0 ELSE gw[g].timer - 1
           until == Nearer(gw[g].until, 0)
           state == [gw[g] EXCEPT !.age = age, !.timer = timer, !.until = until]
<1>3. gw'[g] = Normal(state)
  BY Zenon DEF Tick
<1>4. age \in 0 .. LeaseSeconds /\ until \in 0 .. StopTime + ShutdownTime /\ timer \in Int
  BY <1>2 DEF Older, Nearer
<1>5. ~Idle(gw[g]) => timer \in -OperationTimeout .. RenewInterval
  BY <1>1, <1>2 DEF Urgent, Due, CallFits
<1> HIDE DEF age, timer, until
<1>6. /\ Idle(state) = Idle(gw[g])
  BY <1>2 DEF Idle, Gateway
<1>7. CASE Idle(gw[g])
  <2> DEFINE new == [gw[g] EXCEPT !.age = 0, !.timer = 0, !.until = until]
  <2>1. Normal(state) = [state EXCEPT !.age = 0, !.timer = 0]
    BY <1>6, <1>7 DEF Normal
  <2>2. gw'[g] = new
    BY <1>2, <1>3, <2>1 DEF Gateway
  <2>3. 0 \in 0 .. LeaseSeconds /\ 0 \in -OperationTimeout .. RenewInterval
    OBVIOUS
  <2>4. /\ new \in Gateway /\ new.stopping = gw[g].stopping /\ new.epoch = gw[g].epoch
        /\ new.transport = gw[g].transport /\ new.until = until /\ new.age = 0 /\ new.timer = 0
    BY <1>2, <1>4, <2>3, Zenon DEF Gateway
  <2> HIDE DEF new
  <2> QED BY <1>7, <2>2, <2>4 DEF until
<1>8. CASE ~Idle(gw[g])
  <2>1. gw'[g] = state
    BY <1>3, <1>6, <1>8 DEF Normal
  <2>2. /\ state \in Gateway /\ state.stopping = gw[g].stopping /\ state.epoch = gw[g].epoch
        /\ state.transport = gw[g].transport /\ state.until = until /\ state.age = age /\ state.timer = timer
    BY <1>2, <1>4, <1>5, <1>8, Zenon DEF Gateway
  <2> HIDE DEF state
  <2> QED BY <1>8, <2>1, <2>2 DEF until, age, timer
<1> QED BY <1>7, <1>8

LEMMA TickCall ==
    ASSUME ChannelAssumption, ChannelInvariant, Tick, NEW g \in Gateways
    PROVE  /\ call'[g] \in Call /\ call'[g].kind = call[g].kind /\ call'[g].answer = call[g].answer
           /\ call[g].kind # None =>
                /\ call'[g].age = call[g].age + 1 /\ call'[g].owner = call[g].owner
                /\ call'[g].epoch = call[g].epoch
           /\ call[g].kind = None => call'[g].epoch = 0
<1> USE Durations
<1>1. TypeOK /\ CallFits(g) /\ ~Urgent(g)
  BY Zenon, GatewayFacts DEF Tick
<1>2. call[g] \in Call /\ call[g].age \in 0 .. OperationTimeout
  BY <1>1, Fields, CallFields
<1>3. CASE call[g].kind = None
  <2>1. call'[g] = NoCall /\ call[g].answer = None
    BY Zenon, <1>1, <1>3 DEF Tick, CallFits
  <2> QED BY <1>3, <2>1, NoCallType DEF NoCall
<1>4. CASE call[g].kind # None
  <2> DEFINE age == call[g].age + 1
             c   == [call[g] EXCEPT !.age = age]
  <2>1. call'[g] = c
    BY Zenon, <1>4 DEF Tick
  <2>2. age \in 0 .. OperationTimeout
    BY <1>1, <1>2, <1>4 DEF Urgent
  <2> HIDE DEF age
  <2>3. /\ c \in Call /\ c.kind = call[g].kind /\ c.answer = call[g].answer /\ c.owner = call[g].owner
        /\ c.epoch = call[g].epoch /\ c.age = age
    BY <1>2, <2>2, Zenon DEF Call
  <2> HIDE DEF c
  <2> QED BY <1>4, <2>1, <2>3 DEF age
<1> QED BY <1>3, <1>4

LEMMA TickStep ==
    ASSUME ChannelAssumption, ChannelInvariant, Tick
    PROVE  ChannelInvariant'
<1> USE Durations
<1>1. TypeOK /\ UNCHANGED <<late, lates>>
  BY Zenon DEF ChannelInvariant, Tick
<1>2. /\ row \in Row /\ row.left \in Past .. LeaseSeconds /\ Past \in Int /\ Past < 0
      /\ row.epoch \in 0 .. MaxEpoch
  BY <1>1 DEF TypeOK, Row, Epochs, Past
<1>3. /\ row' \in Row /\ row'.owner = row.owner /\ row'.epoch = row.epoch
      /\ row'.left >= row.left - 1 /\ row'.left \in Int
  <2> DEFINE left == Nearer(row.left, Past)
  <2>1. row' = [row EXCEPT !.left = left]
    BY Zenon DEF Tick
  <2>2. left \in Past .. LeaseSeconds /\ left >= row.left - 1
    BY <1>2 DEF Nearer
  <2> HIDE DEF left
  <2> QED BY <1>2, <2>1, <2>2 DEF Row
<1>4. gw' \in [Gateways -> Gateway]
  <2> DEFINE f(g) == Normal([gw[g] EXCEPT !.age = Older(@), !.timer = IF gw[g].stopping THEN 0 ELSE @ - 1,
                                          !.until = Nearer(@, 0)])
  <2>1. gw' = [g \in Gateways |-> f(g)]
    BY Zenon DEF Tick
  <2> HIDE DEF f
  <2>2. \A g \in Gateways : gw'[g] \in Gateway
    BY TickGateway
  <2> QED BY <2>1, <2>2
<1>5. call' \in [Gateways -> Call]
  <2> DEFINE f(g) == IF call[g].kind = None THEN NoCall ELSE [call[g] EXCEPT !.age = @ + 1]
  <2>1. call' = [g \in Gateways |-> f(g)]
    BY Zenon DEF Tick
  <2> HIDE DEF f
  <2>2. \A g \in Gateways : call'[g] \in Call
    BY TickCall
  <2> QED BY <2>1, <2>2
<1>6. TypeOK'
  BY <1>1, <1>3, <1>4, <1>5 DEF TypeOK
<1>7. ASSUME NEW g \in Gateways PROVE Leads(g)'
  <2>1. CallFits(g) /\ HoldIsDurable(g) /\ ReleasesAreOld(g) /\ TransportIsCovered(g) /\ ~Urgent(g)
    BY Zenon, GatewayFacts DEF Tick
  <2>2. /\ gw[g].stopping \in BOOLEAN /\ gw[g].epoch \in 0 .. MaxEpoch
        /\ gw[g].age \in 0 .. LeaseSeconds /\ gw[g].timer \in -OperationTimeout .. RenewInterval
        /\ gw[g].transport \in {"off", "on", "stopping"} /\ gw[g].until \in 0 .. StopTime + ShutdownTime
        /\ call[g].age \in 0 .. OperationTimeout /\ call[g].epoch \in Int
        /\ call'[g].age \in Nat
        /\ call[g].kind \in {None, "acquire", "renew", "release"}
    BY <1>1, <1>6, Fields, CallFields, TickCall
  <2>3. /\ gw'[g].stopping = gw[g].stopping /\ gw'[g].epoch = gw[g].epoch
        /\ gw'[g].transport = gw[g].transport
        /\ gw'[g].until = IF gw[g].until > 0 THEN gw[g].until - 1 ELSE gw[g].until
        /\ IF Idle(gw[g]) THEN gw'[g].age = 0 /\ gw'[g].timer = 0
           ELSE /\ gw'[g].age = IF gw[g].age < LeaseSeconds THEN gw[g].age + 1 ELSE gw[g].age
                /\ gw'[g].timer = IF gw[g].stopping THEN 0 ELSE gw[g].timer - 1
    BY TickGateway DEF Nearer, Older
  <2>4. /\ call'[g].kind = call[g].kind /\ call'[g].answer = call[g].answer
        /\ call[g].kind # None =>
             /\ call'[g].age = call[g].age + 1 /\ call'[g].owner = call[g].owner
             /\ call'[g].epoch = call[g].epoch
        /\ call[g].kind = None => call'[g].epoch = 0
    BY TickCall
  <2>5. gw[g].epoch # 0 \/ gw[g].transport # "off" => ~Idle(gw[g])
    BY DEF Idle
  <2>6. CallFits(g)'
    <3>1. ~Holds(g) => ~Holds(g)'
      BY <2>2, <2>3, <2>5 DEF Holds
    <3>2. call[g].kind # None => gw'[g].timer + call'[g].age >= 0
      BY <2>1, <2>2, <2>3, <2>4 DEF CallFits
    <3>3. call[g].kind = "renew" => gw'[g].timer + call'[g].age <= RenewInterval
      BY <2>1, <2>2, <2>3, <2>4, <2>5 DEF CallFits, None
    <3>4. call[g].answer = "yes" /\ call[g].kind \in {"acquire", "renew"} =>
            row'.owner = g /\ row'.left + call'[g].age >= LeaseSeconds
      BY <1>2, <1>3, <2>1, <2>2, <2>4 DEF CallFits, None
    <3>5. call'[g].epoch <= row'.epoch
      BY <1>2, <1>3, <2>1, <2>4 DEF CallFits
    <3> QED BY <2>1, <2>3, <2>4, <3>1, <3>2, <3>3, <3>4, <3>5 DEF CallFits, None
  <2>7. HoldIsDurable(g)'
    BY <1>2, <1>3, <2>1, <2>2, <2>3, <2>5 DEF HoldIsDurable
  <2>8. ReleasesAreOld(g)'
    BY <1>1, <1>3, <2>1, <2>3, <2>4 DEF ReleasesAreOld, None
  <2>9. TransportIsCovered(g)'
    <3>1. gw[g].transport = "stopping" \/ gw[g].stopping => row'.left + GraceSeconds >= gw'[g].until
      BY <1>2, <1>3, <2>1, <2>2, <2>3 DEF TransportIsCovered, Urgent
    <3>2. gw[g].transport = "on" /\ ~gw[g].stopping /\ call[g].kind = "renew" => row'.left + call'[g].age >= 1
      BY <1>2, <1>3, <2>1, <2>2, <2>4 DEF TransportIsCovered, None
    <3>3. gw[g].transport = "on" /\ ~gw[g].stopping /\ call[g].kind # "renew" =>
            gw'[g].age < LeaseSeconds /\ gw'[g].age + gw'[g].timer < LeaseSeconds
      <4> SUFFICES ASSUME gw[g].transport = "on", ~gw[g].stopping, call[g].kind # "renew"
                   PROVE  gw'[g].age < LeaseSeconds /\ gw'[g].age + gw'[g].timer < LeaseSeconds
        OBVIOUS
      <4>1. call[g].kind = None
        BY <2>1, <2>2 DEF CallFits
      <4>2. ~Idle(gw[g]) /\ gw[g].timer > 0
        BY <2>1, <2>2, <2>5, <4>1 DEF Urgent, Due
      <4> QED BY <2>1, <2>2, <2>3, <4>2 DEF TransportIsCovered
    <3> QED BY <1>3, <2>1, <2>3, <2>4, <3>1, <3>2, <3>3 DEF TransportIsCovered
  <2> QED BY <2>6, <2>7, <2>8, <2>9 DEF Leads
<1> QED BY <1>1, <1>6, <1>7 DEF ChannelInvariant

LEMMA InitChannel ==
    ASSUME ChannelAssumption, Init
    PROVE  ChannelInvariant
<1> USE Durations
<1>1. row \in Row
  BY DEF Init, Row, Epochs, Past
<1>2. \A g \in Gateways : gw[g] = Fresh /\ call[g] = NoCall
  BY DEF Init
<1>3. Fresh \in Gateway /\ NoCall \in Call
  <2>1. 0 \in Epochs /\ 0 \in 0 .. LeaseSeconds /\ 0 \in -OperationTimeout .. RenewInterval
        /\ 0 \in 0 .. StopTime + ShutdownTime
    BY DEF Epochs
  <2> QED BY <2>1, NoCallType DEF Fresh, Gateway
<1>4. TypeOK
  BY <1>1, <1>3 DEF Init, TypeOK
<1>5. ASSUME NEW g \in Gateways PROVE Leads(g)
  <2>1. gw[g].stopping = FALSE /\ gw[g].epoch = 0 /\ gw[g].transport = "off"
    BY <1>2 DEF Fresh
  <2>2. call[g].kind = None /\ call[g].epoch = 0 /\ call[g].answer = None
    BY <1>2 DEF NoCall
  <2>3. row.epoch = 0 /\ late = {}
    BY DEF Init
  <2> QED BY <2>1, <2>2, <2>3 DEF Leads, CallFits, HoldIsDurable, ReleasesAreOld, TransportIsCovered, None
<1> QED BY <1>4, <1>5 DEF ChannelInvariant, Init

(* Every step keeps the invariant.                                            *)
LEMMA NextChannel ==
    ASSUME ChannelAssumption, ChannelInvariant, [Next]_vars
    PROVE  ChannelInvariant'
<1>1. CASE UNCHANGED vars
  <2>1. TypeOK' /\ \A x \in late' : x.kind # None
    BY <1>1 DEF ChannelInvariant, TypeOK, vars
  <2>2. ASSUME NEW g \in Gateways PROVE Leads(g)'
    <3>1. CallFits(g)' /\ HoldIsDurable(g)'
      BY <1>1, GatewayFacts DEF vars, CallFits, HoldIsDurable, Holds
    <3>2. ReleasesAreOld(g)' /\ TransportIsCovered(g)'
      BY <1>1, GatewayFacts DEF vars, ReleasesAreOld, TransportIsCovered
    <3> QED BY <3>1, <3>2 DEF Leads
  <2> QED BY <2>1, <2>2 DEF ChannelInvariant
<1>2. ASSUME NEW g \in Gateways,
             \/ Execute(g) \/ Acquire(g) \/ Release(g) \/ Round(g) \/ Answer(g) \/ Unconfirmed(g)
             \/ Start(g) \/ Stop(g) \/ Stopped(g) \/ Shutdown(g) \/ Exit(g) \/ Crash(g)
      PROVE  ChannelInvariant'
  BY <1>2, ExecuteStep, AcquireStep, ReleaseStep, RoundStep, AnswerStep, UnconfirmedStep,
     StartStep, StopStep, StoppedStep, ShutdownStep, ExitStep, CrashStep
<1> QED BY <1>1, <1>2, TickStep, ExecuteLateStep DEF Next
-----------------------------------------------------------------------------
(* ChannelInvariant holds in every state of the leader election               *)
(* (ChannelLeadership, SqlChannelLeaseRepository).                            *)
THEOREM ChannelIsInvariant == ChannelAssumption => (Spec => []ChannelInvariant)
<1> SUFFICES ASSUME ChannelAssumption PROVE Spec => []ChannelInvariant
  OBVIOUS
<1>1. Init => ChannelInvariant
  BY InitChannel
<1>2. ChannelInvariant /\ [Next]_vars => ChannelInvariant'
  BY NextChannel
<1> QED BY <1>1, <1>2, PTL DEF Spec

(* A provider is connected by one gateway at a time, for every configuration  *)
(* in which the grace covers an unconfirmed renewal and the stop or the       *)
(* shutdown that follows it (ChannelLeadership.holds, acquire).               *)
THEOREM OneConnects == ChannelAssumption => (Spec => []OneTransport)
<1> SUFFICES ASSUME ChannelAssumption PROVE Spec => []OneTransport
  OBVIOUS
<1>1. ChannelInvariant => OneTransport
  <2> SUFFICES ASSUME ChannelInvariant PROVE OneTransport
    OBVIOUS
  <2> DEFINE connected == {g \in Gateways : gw[g].transport # "off"}
  <2>1. \A g \in connected : row.owner = g
    BY GatewayFacts DEF TransportIsCovered
  <2>2. connected = {} \/ \E g \in Gateways : connected = {g}
    BY <2>1
  <2>3. Cardinality(connected) <= 1
    <3>1. CASE connected = {}
      <4>1. Cardinality({}) = 0
        BY FS_EmptySet
      <4> QED BY <3>1, <4>1
    <3>2. ASSUME NEW g \in Gateways, connected = {g} PROVE Cardinality(connected) <= 1
      <4>1. Cardinality({g}) = 1
        BY FS_Singleton
      <4> QED BY <3>2, <4>1
    <3> QED BY <2>2, <3>1, <3>2
  <2> QED BY <2>3 DEF OneTransport
<1> QED BY <1>1, ChannelIsInvariant, PTL
=============================================================================
