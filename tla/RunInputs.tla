------------------------------- MODULE RunInputs -------------------------------
(* What a user sends to a run that is under way (RunInputs, RunInputControl): *)
(* a steer joins the run's own conversation, a queued input becomes a run of  *)
(* its own after this one succeeded.  The inputs live in the run's row, and   *)
(* every change of them is one transaction on that row (mutate_run_inputs);   *)
(* between two transactions the graph, the users and the dispatcher move.     *)
EXTENDS Integers, Sequences, FiniteSets

CONSTANTS
    Inputs,        \* request ids of the users
    MaxInputs,     \* MAX_INPUTS
    MaxContinues   \* bound: goal continuations of the run

InputAssumption == MaxInputs \in Nat /\ MaxContinues \in Nat

Callers == {"queue", "user"}   \* who dispatches: the run's worker, a retry by hand

VARIABLES
    row,      \* the run's row: status and ownership
    closed,   \* run_inputs["closed"]
    order,    \* run_inputs["items"], the ids as they came
    item,     \* the entries themselves
    graph,    \* the run's task and its RunInputControl
    heard,    \* inputs the model was called with
    runs,     \* the run created under each input's idempotency key
    caller,   \* dispatch_one_input, where it stands
    todo      \* what dispatch_queued_inputs still iterates over

vars == <<row, closed, order, item, graph, heard, runs, caller, todo>>

(* "running" is an active row and "cancelling" one with a cancel_action;     *)
(* "stopped" is every end but a success without a stop_reason: no guard      *)
(* tells those apart.                                                        *)
Row == [status : {"running", "cancelling", "success", "stopped"}, owned : BOOLEAN]

Item ==
    [mode   : {"queue", "steer"},
     status : {"absent", "pending", "applying", "applied", "not_applied", "dispatching", "cancelled"},
     run    : BOOLEAN]

Graph ==
    [pc        : {"start", "before", "claim", "call", "finish", "close", "ended", "final", "pause",
                  "commit", "done"},
     ids       : SUBSET Inputs,             \* what deliver read
     delivered : SUBSET Inputs,
     acked     : SUBSET Inputs,             \* acknowledged
     saved     : SUBSET Inputs,             \* applied_run_inputs of the last checkpoint
     stop      : {"none", "hard", "soft"},  \* stop_reason of the runtime context
     rounds    : 0 .. MaxContinues,
     failed    : BOOLEAN]                   \* not a success without a stop_reason

Fresh(pc) ==
    [pc |-> pc, ids |-> {}, delivered |-> {}, acked |-> {}, saved |-> {},
     stop |-> "none", rounds |-> 0, failed |-> FALSE]

Idle == [pc |-> "idle", of |-> {}]
Over == [pc |-> "over", of |-> {}]

Init ==
    /\ row = [status |-> "running", owned |-> TRUE]
    /\ closed = TRUE /\ order = <<>>        \* run_inputs is NULL until the first reopen
    /\ item = [i \in Inputs |-> [mode |-> "steer", status |-> "absent", run |-> FALSE]]
    /\ graph = Fresh("start")
    /\ heard = {} /\ runs = [i \in Inputs |-> "none"]
    /\ caller = [c \in Callers |-> Idle]
    /\ todo = <<>>

Active == row.status \in {"running", "cancelling"}
Going  == row.status = "running"

(* mutate_run_inputs with owner_worker_id: the owner, under a live lease.    *)
Owned == row.owned

Mark(from, ids, to) ==
    [i \in Inputs |-> IF i \in ids /\ item[i].status \in from THEN [item[i] EXCEPT !.status = to] ELSE item[i]]

(* Steers that wait for a turn (RunInputControl.pending, RunInputs.close).   *)
Waiting ==
    {i \in Inputs : item[i].mode = "steer" /\ item[i].status \in {"pending", "applying"}} \ graph.delivered

At(pc)   == graph.pc = pc
Goto(pc) == graph' = [graph EXCEPT !.pc = pc]
-----------------------------------------------------------------------------
(* Users and the rest of the system.                                         *)

(* submit; a repeated request id changes nothing.                            *)
Submit(i, mode) ==
    /\ item[i].status = "absent"
    /\ ~closed /\ Going /\ Len(order) < MaxInputs
    /\ item' = [item EXCEPT ![i].mode = mode, ![i].status = "pending"]
    /\ order' = Append(order, i)
    /\ UNCHANGED <<row, closed, graph, heard, runs, caller, todo>>

Remove(i) ==
    /\ item[i].status \in {"pending", "not_applied"}
    /\ item' = [item EXCEPT ![i].status = "cancelled"]
    /\ UNCHANGED <<row, closed, order, graph, heard, runs, caller, todo>>

RequestCancel ==
    /\ Going
    /\ row' = [row EXCEPT !.status = "cancelling"]
    /\ UNCHANGED <<closed, order, item, graph, heard, runs, caller, todo>>

(* The lease runs out; then a peer may close the row.                        *)
LoseLease ==
    /\ Active /\ Owned
    /\ row' = [row EXCEPT !.owned = FALSE]
    /\ UNCHANGED <<closed, order, item, graph, heard, runs, caller, todo>>

TakeOver ==
    /\ Active /\ ~Owned
    /\ row' = [row EXCEPT !.status = "stopped"]
    /\ UNCHANGED <<closed, order, item, graph, heard, runs, caller, todo>>

(* The run created for an input ends.                                        *)
RunEnds(i) ==
    /\ runs[i] = "active"
    /\ runs' = [runs EXCEPT ![i] = "ended"]
    /\ UNCHANGED <<row, closed, order, item, graph, heard, caller, todo>>
-----------------------------------------------------------------------------
(* The graph.                                                                *)

Ended(g, failed) ==
    [g EXCEPT !.pc = "final", !.failed = failed, !.ids = {}, !.stop = "none", !.rounds = 0]

(* An exception or an abort leaves the graph; a store call that the row      *)
(* refuses is one.                                                           *)
GraphFails ==
    /\ graph.pc \in {"start", "before", "claim", "call", "finish", "close", "ended"}
    /\ graph' = Ended(graph, TRUE)
    /\ UNCHANGED <<row, closed, order, item, heard, runs, caller, todo>>

(* _stream_once opens the inputs.                                            *)
Reopen ==
    /\ At("start") /\ Owned
    /\ closed' = IF Going THEN FALSE ELSE closed
    /\ Goto("before")
    /\ UNCHANGED <<row, order, item, heard, runs, caller, todo>>

(* abefore_model: what waits is read, then claimed.                          *)
DeliverRead ==
    /\ At("before")
    /\ graph' = [graph EXCEPT !.ids = Waiting, !.pc = IF Waiting = {} THEN "call" ELSE "claim"]
    /\ UNCHANGED <<row, closed, order, item, heard, runs, caller, todo>>

(* A plausible bug: what was read is delivered, whatever became of it.       *)
ClaimedAsRead(ids) == ids

(* claim_steer: of the ones that were read, the ones that still stand.       *)
Claimed(ids) == {i \in ids : item[i].status \in {"pending", "applying"}}

DeliverClaim ==
    /\ At("claim") /\ Owned /\ Going
    /\ item' = Mark({"pending"}, graph.ids, "applying")
    /\ graph' = [graph EXCEPT !.pc = "call", !.delivered = @ \cup Claimed(graph.ids), !.ids = {}]
    /\ UNCHANGED <<row, closed, order, heard, runs, caller, todo>>

(* The checkpointer writes behind the graph.                                 *)
Save ==
    /\ graph.pc \in {"call", "before", "claim", "finish", "close"} /\ graph.saved # graph.delivered
    /\ graph' = [graph EXCEPT !.saved = graph.delivered]
    /\ UNCHANGED <<row, closed, order, item, heard, runs, caller, todo>>

(* confirm_checkpoint: what the checkpoint holds is acknowledged.            *)
Unconfirmed == ~(graph.delivered \subseteq graph.acked)

Confirm(g) ==
    /\ Unconfirmed => Owned
    /\ item' = IF Unconfirmed THEN Mark({"applying"}, graph.saved, "applied") ELSE item
    /\ graph' = [g EXCEPT !.acked = IF Unconfirmed THEN @ \cup graph.saved ELSE @]

(* awrap_model_call: the model is called with all that was delivered.  Its   *)
(* answer has actions, done or withdrawn when a steer waits, or it has none; *)
(* a guard may cap the run.                                                  *)
Call ==
    /\ At("call")
    /\ \E next \in {"before", "finish"}, stop \in {"none", "hard", "soft"} :
        /\ stop # "none" => next = "finish"
        /\ Confirm([graph EXCEPT !.pc = next, !.stop = IF stop = "none" THEN @ ELSE stop])
    /\ heard' = heard \cup graph.delivered
    /\ UNCHANGED <<row, closed, order, runs, caller, todo>>

(* finish_graph: a hard stop ends the graph; a steer, or the result of a     *)
(* subagent, gives the model another turn.                                   *)
Finish ==
    /\ At("finish")
    /\ \/ graph.stop = "hard" /\ Confirm([graph EXCEPT !.pc = "ended"])
       \/ graph.stop # "hard" /\ Confirm([graph EXCEPT !.pc = "before"])
       \/ graph.stop # "hard" /\ Waiting = {} /\ Confirm([graph EXCEPT !.pc = "close"])
    /\ UNCHANGED <<row, closed, order, heard, runs, caller, todo>>

(* A plausible bug: the inputs are closed on the strength of the last read.  *)
CloseFindsNothing == {}

(* The transaction that closes the inputs sees what was submitted since.     *)
CloseFinds == Waiting

Close ==
    /\ At("close") /\ Owned
    /\ closed' = (closed \/ CloseFinds = {})
    /\ graph' = IF closed' THEN [graph EXCEPT !.pc = "ended", !.saved = graph.delivered]
                           ELSE [graph EXCEPT !.pc = "finish"]
    /\ UNCHANGED <<row, order, item, heard, runs, caller, todo>>

(* run_agent: after the first stream the checkpoint is confirmed; the goal    *)
(* sends the agent on, or the outcome is staged.                             *)
AfterStream(g) == IF graph.rounds = 0 THEN Confirm(g) ELSE graph' = g /\ UNCHANGED item

Continue ==
    /\ At("ended") /\ graph.stop = "none" /\ graph.rounds < MaxContinues
    /\ AfterStream([graph EXCEPT !.pc = "start", !.rounds = @ + 1])
    /\ UNCHANGED <<row, closed, order, heard, runs, caller, todo>>

Stage ==
    /\ At("ended")
    /\ \E failed \in BOOLEAN : AfterStream(Ended(graph, failed \/ graph.stop # "none"))
    /\ UNCHANGED <<row, closed, order, heard, runs, caller, todo>>
-----------------------------------------------------------------------------
(* finalize and dispatch.                                                    *)

(* The receipts of the inputs.  A worker that lost the run leaves them       *)
(* alone; one that does not know it yet has its call refused.                *)
Receipts ==
    /\ At("final")
    /\ \/ ~Owned /\ Goto("commit") /\ UNCHANGED item
       \/ Confirm([graph EXCEPT !.pc = IF graph.failed THEN "pause" ELSE "commit"])
    /\ UNCHANGED <<row, closed, order, heard, runs, caller, todo>>

Paused == closed' = TRUE /\ item' = Mark({"pending", "applying"}, Inputs, "not_applied")

Pause ==
    /\ At("pause") /\ Paused /\ Goto("commit")
    /\ UNCHANGED <<row, order, heard, runs, caller, todo>>

(* The terminal status, unless the run was lost or cancelled; a success      *)
(* whose receipt cannot be written is an error.  The task ends.              *)
Commit ==
    /\ At("commit") /\ graph' = Fresh("done")
    /\ \/ ~Owned /\ UNCHANGED row
       \/ /\ Owned
          /\ \E end \in IF graph.failed \/ ~Going THEN {"stopped"} ELSE {"success", "stopped"} :
              row' = [row EXCEPT !.status = end]
    /\ UNCHANGED <<closed, order, item, heard, runs, caller, todo>>

TakeNext ==
    caller' = [caller EXCEPT !["queue"] =
        IF todo' = <<>> THEN Over ELSE [pc |-> "claim", of |-> {Head(todo')}]]

(* dispatch_queued_inputs reads the inputs once.                             *)
Drain ==
    /\ At("done") /\ row.status = "success"
    /\ caller["queue"].pc = "idle"
    /\ todo' = SelectSeq(order, LAMBDA i : item[i].mode = "queue" /\ item[i].status = "pending")
    /\ TakeNext
    /\ UNCHANGED <<row, closed, order, item, graph, heard, runs>>

(* An exception ends the dispatcher with the rest of its list.               *)
GiveUp(c) ==
    /\ caller' = [caller EXCEPT ![c] = IF c = "queue" THEN Over ELSE Idle]
    /\ todo' = IF c = "queue" THEN <<>> ELSE todo

(* claim, and its refusals.                                                  *)
MayClaim(c, i) ==
    /\ ~Active /\ item[i].status \notin {"cancelled", "applied"}
    /\ c = "queue" => /\ row.status = "success"
                      /\ item[i].mode = "queue" /\ item[i].status # "not_applied"

HasRun(i) == item[i].status = "applied" /\ item[i].run

ClaimQueued ==
    \E i \in caller["queue"].of :
        /\ caller["queue"].pc = "claim"
        /\ \/ /\ MayClaim("queue", i)
              /\ item' = [item EXCEPT ![i].status = "dispatching"]
              /\ caller' = [caller EXCEPT !["queue"].pc = "create"] /\ UNCHANGED todo
           \/ /\ HasRun(i) /\ UNCHANGED <<item, todo>>
              /\ caller' = [caller EXCEPT !["queue"].pc = "wait"]
           \/ ~MayClaim("queue", i) /\ ~HasRun(i) /\ GiveUp("queue") /\ UNCHANGED item
        /\ UNCHANGED <<row, closed, order, graph, heard, runs>>

(* change_run_input with retry; refused, it changes nothing.                 *)
Retry(i) ==
    /\ caller["user"].pc = "idle" /\ item[i].status # "absent" /\ MayClaim("user", i)
    /\ item' = [item EXCEPT ![i].status = "dispatching"]
    /\ caller' = [caller EXCEPT !["user"] = [pc |-> "create", of |-> {i}]]
    /\ UNCHANGED <<row, closed, order, graph, heard, runs, todo>>

(* create_run under the input's key: the run that key has, or a new one when *)
(* the thread is free; the answer may be lost or refused.                    *)
Create(c) ==
    \E i \in caller[c].of :
        /\ caller[c].pc = "create"
        /\ \/ /\ runs[i] # "none" \/ \A j \in Inputs : runs[j] # "active"
              /\ runs' = IF runs[i] = "none" THEN [runs EXCEPT ![i] = "active"] ELSE runs
              /\ \/ caller' = [caller EXCEPT ![c].pc = "record"] /\ UNCHANGED todo
                 \/ GiveUp(c)
           \/ GiveUp(c) /\ UNCHANGED runs
        /\ UNCHANGED <<row, closed, order, item, graph, heard>>

Dispatched(c) ==
    \E i \in caller[c].of :
        /\ caller[c].pc = "record"
        /\ item' = [item EXCEPT ![i].status = "applied", ![i].run = TRUE]
        /\ caller' = [caller EXCEPT ![c] = IF c = "queue" THEN [pc |-> "wait", of |-> {i}] ELSE Idle]
        /\ UNCHANGED <<row, closed, order, graph, heard, runs, todo>>

(* The dispatcher waits for the run, and goes on only after a success,       *)
(* which nobody else looks at.                                               *)
WaitOver ==
    \E i \in caller["queue"].of :
        /\ caller["queue"].pc = "wait"
        /\ \/ runs[i] = "ended" /\ todo' = Tail(todo) /\ TakeNext /\ UNCHANGED <<closed, item>>
           \/ runs[i] = "ended" /\ Paused /\ GiveUp("queue")
        /\ UNCHANGED <<row, order, graph, heard, runs>>

Next ==
    \/ \E i \in Inputs, mode \in {"queue", "steer"} : Submit(i, mode)
    \/ \E i \in Inputs : Remove(i) \/ Retry(i) \/ RunEnds(i)
    \/ RequestCancel \/ LoseLease \/ TakeOver
    \/ GraphFails \/ Reopen \/ DeliverRead \/ DeliverClaim \/ Save \/ Call \/ Finish \/ Close
    \/ Continue \/ Stage \/ Receipts \/ Pause \/ Commit \/ Drain \/ ClaimQueued \/ WaitOver
    \/ \E c \in Callers : Create(c) \/ Dispatched(c)

Spec == Init /\ [][Next]_vars
-----------------------------------------------------------------------------
TypeOK ==
    /\ row \in Row /\ closed \in BOOLEAN
    /\ order \in Seq(Inputs) /\ Len(order) <= MaxInputs
    /\ item \in [Inputs -> Item] /\ graph \in Graph /\ heard \subseteq Inputs
    /\ runs \in [Inputs -> {"none", "active", "ended"}]
    /\ caller \in [Callers -> [pc : {"idle", "claim", "create", "record", "wait", "over"}, of : SUBSET Inputs]]
    /\ todo \in Seq(Inputs)

(* The model was called with every steer that a successful run accepted and  *)
(* nobody took back.                                                         *)
SteerHasTurn ==
    row.status = "success" =>
        \A i \in Inputs : item[i].mode = "steer" /\ item[i].status \notin {"absent", "cancelled"} => i \in heard

(* An input that was taken back stays so: no run is started for it and no    *)
(* model call hears it that had not heard it before.                         *)
RemovedStaysOut ==
    \A i \in Inputs : item[i].status = "cancelled" =>
        /\ item'[i].status = "cancelled"
        /\ runs'[i] = "none" <=> runs[i] = "none"
        /\ i \in heard' => i \in heard

(* Accepted inputs of a run are neither dropped nor brought back             *)
(* (RunInputControl.finish_graph: a concurrent accepted steer must get a     *)
(* turn; RunInputs.claim_steer, cancel).                                     *)
InputsKept == []SteerHasTurn /\ [][RemovedStaysOut]_vars
=============================================================================
