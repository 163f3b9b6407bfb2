------------------------------ MODULE SplitPhase ------------------------------
(***************************************************************************)
(* What a task relies on the concurrent splitting of its files for: each   *)
(* file gets one verdict, which is never taken back, the phase succeeds    *)
(* only when every file has a verdict and none is an error, and it may     *)
(* fail early while some files have none.  Files that are still with a     *)
(* worker then may get their verdict afterwards.                           *)
(***************************************************************************)
CONSTANTS Files, Outcomes

Errors == {"broken", "timeout", "refused"}

VARIABLES
  split,    \* verdict of every file; "todo" before, "none" if the phase is not about it
  result    \* "idle", "running", "ok", "error"; "over" or "lost" with the task

phaseVars == <<split, result>>

PhaseInit ==
  /\ split = [f \in Files |-> "none"]
  /\ result = "idle"

Begin ==
  /\ result = "idle"
  /\ result' = "running"
  /\ \E given \in (SUBSET Files) \ {{}} :
       split' = [f \in Files |-> IF f \in given THEN "todo" ELSE "none"]

Split(f) ==
  /\ result \in {"running", "error", "over"}
  /\ split[f] = "todo"
  /\ \E verdict \in Outcomes : split' = [split EXCEPT ![f] = verdict]
  /\ UNCHANGED result

Succeed ==
  /\ result = "running"
  /\ \A f \in Files : split[f] \notin Errors \cup {"todo"}
  /\ result' = "ok"
  /\ UNCHANGED split

Fail ==
  /\ result = "running"
  /\ result' = "error"
  /\ UNCHANGED split

Leave ==
  /\ result \in {"ok", "error"}
  /\ result' = "over"
  /\ UNCHANGED split

Die ==
  /\ result' = "lost"
  /\ UNCHANGED split

PhaseNext ==
  \/ Begin \/ Succeed \/ Fail \/ Leave \/ Die
  \/ \E f \in Files : Split(f)

PhaseSpec == PhaseInit /\ [][PhaseNext]_phaseVars
=============================================================================
