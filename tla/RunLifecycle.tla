----------------------------- MODULE RunLifecycle -----------------------------
(***************************************************************************)
(* What the run store promises to a client of one thread, whatever the      *)
(* workers, leases, retries and crashes behind it do: one operation at a    *)
(* time, an outcome that is decided once, a cancellation that is never      *)
(* answered by success, and announcements that stay true.                  *)
(***************************************************************************)
CONSTANT Runs

VARIABLES
    status,     \* the status a client reads for each run
    cancel,     \* the cancellation action accepted for each run
    announced   \* the outcome announced in the event stream of each run

vars == <<status, cancel, announced>>

Active   == {"pending", "running"}
Terminal == {"success", "error", "interrupted"}
Actions  == {"interrupt", "rollback"}

TypeOK ==
    /\ status \in [Runs -> {"absent"} \cup Active \cup Terminal]
    /\ cancel \in [Runs -> {"none"} \cup Actions]
    /\ announced \in [Runs -> {"absent"} \cup Terminal]

Init ==
    /\ status = [r \in Runs |-> "absent"]
    /\ cancel = [r \in Runs |-> "none"]
    /\ announced = [r \in Runs |-> "absent"]

(* A new run takes the thread over from the run that held it, if any.        *)
Admit(r) ==
    /\ status[r] = "absent"
    /\ status' = [q \in Runs |->
                    IF q = r THEN "pending"
                    ELSE IF status[q] \in Active THEN "interrupted" ELSE status[q]]
    /\ UNCHANGED <<cancel, announced>>

(* Execution begins, or is put back before anything was executed.            *)
Move(r, s) ==
    /\ status[r] \in Active
    /\ status' = [status EXCEPT ![r] = s]
    /\ UNCHANGED <<cancel, announced>>

(* The first cancellation request is accepted while the run is active.       *)
Request(r, action) ==
    /\ status[r] \in Active /\ cancel[r] = "none"
    /\ cancel' = [cancel EXCEPT ![r] = action]
    /\ UNCHANGED <<status, announced>>

(* The outcome is decided; success loses to an accepted cancellation.        *)
Close(r, s) ==
    /\ status[r] \in Active
    /\ s = "success" => cancel[r] = "none"
    /\ status' = [status EXCEPT ![r] = s]
    /\ UNCHANGED <<cancel, announced>>

(* An interrupted run that was rolled back becomes an error, but only while  *)
(* nobody has been told that it was interrupted.                            *)
Amend(r) ==
    /\ status[r] = "interrupted" /\ announced[r] = "absent"
    /\ status' = [status EXCEPT ![r] = "error"]
    /\ UNCHANGED <<cancel, announced>>

Announce(r) ==
    /\ status[r] \in Terminal
    /\ announced' = [announced EXCEPT ![r] = status[r]]
    /\ UNCHANGED <<status, cancel>>

Next ==
    \E r \in Runs :
        \/ Admit(r) \/ Amend(r) \/ Announce(r)
        \/ \E s \in Active : Move(r, s)
        \/ \E s \in Terminal : Close(r, s)
        \/ \E action \in Actions : Request(r, action)

Spec == Init /\ [][Next]_vars
=============================================================================
