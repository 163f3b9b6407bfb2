------------------------------- MODULE TaskPool -------------------------------
(***************************************************************************)
(* What the server relies on its task pool for (TaskPool of the service    *)
(* context, an ants pool): at most Size tasks run, at most MaxWaiting      *)
(* submitters wait for a goroutine, none of them while one is free to      *)
(* begin with, and a task that entered leaves again or is lost with the    *)
(* whole pool.  A task is entered once.                                    *)
(***************************************************************************)
EXTENDS Integers, FiniteSets

CONSTANTS
  Tasks,       \* what may be submitted
  Size,        \* goroutines of the pool
  MaxWaiting   \* submitters that may block

VARIABLES
  running,   \* tasks on a goroutine of the pool
  waiting,   \* tasks whose submitter is blocked in Submit
  over       \* tasks that were turned away, have ended or were lost

poolVars == <<running, waiting, over>>

Fresh(t)  == t \notin running \cup waiting \cup over
FreeSlot  == Cardinality(running) < Size

PoolInit == running = {} /\ waiting = {} /\ over = {}

Enter(t) ==
  /\ Fresh(t) /\ FreeSlot
  /\ running' = running \cup {t}
  /\ UNCHANGED <<waiting, over>>

Wait(t) ==
  /\ Fresh(t) /\ ~FreeSlot /\ Cardinality(waiting) < MaxWaiting
  /\ waiting' = waiting \cup {t}
  /\ UNCHANGED <<running, over>>

Admit(t) ==
  /\ t \in waiting /\ FreeSlot
  /\ waiting' = waiting \ {t}
  /\ running' = running \cup {t}
  /\ UNCHANGED over

\* The pool is full, or the upload needs no task or is refused before it comes to one.
TurnAway(t) ==
  /\ Fresh(t)
  /\ over' = over \cup {t}
  /\ UNCHANGED <<running, waiting>>

Leave(t) ==
  /\ t \in running
  /\ running' = running \ {t}
  /\ over' = over \cup {t}
  /\ UNCHANGED waiting

\* The process dies, with every task and every submitter in it.
Stop ==
  /\ running' = {}
  /\ waiting' = {}
  /\ \E fresh \in SUBSET {t \in Tasks : Fresh(t)} : over' = over \cup running \cup waiting \cup fresh

PoolNext ==
  \/ \E t \in Tasks : Enter(t) \/ Wait(t) \/ Admit(t) \/ TurnAway(t) \/ Leave(t)
  \/ Stop

PoolSpec == PoolInit /\ [][PoolNext]_poolVars
=============================================================================
