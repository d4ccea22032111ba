---------------------------- MODULE JobLifecycle ----------------------------
(***************************************************************************)
(* What the worker pool promises its callers: a job it accepted is run at  *)
(* most once, never before it was accepted, by one of at most MaxWorkers   *)
(* workers, and no job moves once the process is gone.                     *)
(***************************************************************************)
EXTENDS Naturals, FiniteSets

CONSTANTS Job, MaxWorkers

VARIABLES status,   \* of each job: "new", "accepted", "running" or "done"
          up        \* whether the process is there

vars == <<status, up>>

Init ==
  /\ status = [j \in Job |-> "new"]
  /\ up = TRUE

Move(j, from, to) ==
  /\ up
  /\ status[j] = from
  /\ status' = [status EXCEPT ![j] = to]
  /\ UNCHANGED up

\* The caller has been answered 201.
Accept(j) == Move(j, "new", "accepted")

Start(j) ==
  /\ Cardinality({k \in Job : status[k] = "running"}) < MaxWorkers
  /\ Move(j, "accepted", "running")

Finish(j) == Move(j, "running", "done")

End ==
  /\ up
  /\ up' = FALSE
  /\ UNCHANGED status

Next == End \/ \E j \in Job : Accept(j) \/ Start(j) \/ Finish(j)

Spec == Init /\ [][Next]_vars
=============================================================================
