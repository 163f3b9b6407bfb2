--------------------------- MODULE IndexTaskRefines ---------------------------
(***************************************************************************)
(* IndexTask implements its abstract specifications: the pool it submits   *)
(* to (TaskPool) and the splitting phase of every task (SplitPhase).       *)
(***************************************************************************)
EXTENDS IndexTaskProofs

-----------------------------------------------------------------------------
(* The pool.                                                               *)

Over == {r \in Requests : stage[r] \in {"done", "refused", "lost"}}

USE DEF Pool!Fresh, Pool!poolVars

LEMMA PlaceOf ==
  ASSUME NEW r \in Requests
  PROVE  /\ r \in Running <=> stage[r] \in TaskStages
         /\ r \in Blocked <=> stage[r] = "blocked"
         /\ r \in Over <=> stage[r] \in {"done", "refused", "lost"}
  BY DEF Running, Blocked, Over

LEMMA SameFreeSlot == FreeGoroutine <=> Pool!FreeSlot
  BY DEF FreeGoroutine, Pool!FreeSlot, Cardinality, Pool!Cardinality

LEMMA SameQueue == Pool!Cardinality(Blocked) = Cardinality(Blocked)
  BY DEF Cardinality, Pool!Cardinality

\* What a change of one stage does to the three sets of the pool.
LEMMA OneMoves ==
  ASSUME TypeOK, NEW r \in Requests, NEW s \in Stages, Goto(r, s)
  PROVE  /\ Running' = IF s \in TaskStages THEN Running \cup {r} ELSE Running \ {r}
         /\ Blocked' = IF s = "blocked" THEN Blocked \cup {r} ELSE Blocked \ {r}
         /\ Over' = IF s \in {"done", "refused", "lost"} THEN Over \cup {r} ELSE Over \ {r}
  BY DEF TypeOK, Goto, Running, Blocked, Over

\* A handler or a task that goes on to its next stage keeps its place in the pool.
LEMMA StaysPut ==
  ASSUME TypeOK, NEW r \in Requests, NEW s \in Stages, Goto(r, s),
         \/ stage[r] \in TaskStages /\ s \in TaskStages
         \/ stage[r] \in HandlerStages \cup {"new"} /\ stage[r] # "blocked"
            /\ s \in HandlerStages /\ s # "blocked"
  PROVE  UNCHANGED Pool!poolVars
<1>1. /\ Running' = Running /\ Blocked' = Blocked /\ Over' = Over
  BY OneMoves, PlaceOf DEF TaskStages, HandlerStages
<1> QED BY <1>1 DEF Over

LEMMA TurnedAway ==
  ASSUME TypeOK, NEW r \in Requests, NEW s \in {"done", "refused"}, Goto(r, s),
         stage[r] \in HandlerStages \cup {"new"}, stage[r] # "blocked"
  PROVE  Pool!TurnAway(r)
<1>1. r \notin Running \cup Blocked \cup Over
  BY PlaceOf DEF TaskStages, HandlerStages
<1>2. Running' = Running /\ Blocked' = Blocked /\ Over' = Over \cup {r}
  BY <1>1, OneMoves DEF Stages, TaskStages
<1> QED BY <1>1, <1>2 DEF Over, Pool!TurnAway

LEMMA LeavesPool ==
  ASSUME TypeOK, NEW r \in Requests, stage[r] \in TaskStages, Goto(r, "done")
  PROVE  Pool!Leave(r)
<1>1. r \in Running /\ r \notin Blocked
  BY PlaceOf DEF TaskStages
<1>2. Running' = Running \ {r} /\ Blocked' = Blocked /\ Over' = Over \cup {r}
  BY <1>1, OneMoves DEF Stages, TaskStages
<1> QED BY <1>1, <1>2 DEF Over, Pool!Leave

LEMMA PoolStep == TypeOK /\ [Next]_vars => [Pool!PoolNext]_(Pool!poolVars)
<1> SUFFICES ASSUME TypeOK, [Next]_vars PROVE Pool!PoolNext \/ UNCHANGED Pool!poolVars
  OBVIOUS
<1> USE DEF Pool!PoolNext
<1>1. ASSUME NEW r \in Requests,
             Receive(r) \/ InitStatus(r) \/ DeleteListed(r) \/ RenameListed(r)
      PROVE  UNCHANGED Pool!poolVars
  BY <1>1, StaysPut DEF Receive, InitStatus, DeleteListed, RenameListed, At, HandlerStages, Live, Stages
<1>2. ASSUME NEW r \in Requests, Refuse(r) \/ FinishEmpty(r) PROVE Pool!TurnAway(r)
  BY <1>2, TurnedAway DEF Refuse, FinishEmpty, At, HandlerStages
<1>3. ASSUME NEW r \in Requests, SaveCodebase(r) PROVE Pool!TurnAway(r) \/ UNCHANGED Pool!poolVars
  BY <1>3, TurnedAway, StaysPut DEF SaveCodebase, At, HandlerStages, Live, Stages
<1>4. ASSUME NEW r \in Requests, SubmitRuns(r) PROVE Pool!Enter(r)
  <2>1. /\ stage[r] = "submitting" /\ Goto(r, "splitting")
        /\ Pool!FreeSlot
    BY <1>4, SameFreeSlot DEF SubmitRuns, StartTask, At
  <2>2. r \notin Running \cup Blocked \cup Over
    BY <2>1, PlaceOf DEF TaskStages
  <2>3. Running' = Running \cup {r} /\ Blocked' = Blocked /\ Over' = Over
    BY <2>1, <2>2, OneMoves DEF Stages, Live, TaskStages
  <2> QED BY <2>1, <2>2, <2>3 DEF Over, Pool!Enter
<1>5. ASSUME NEW r \in Requests, SubmitWaits(r) PROVE Pool!Wait(r) \/ Pool!TurnAway(r)
  <2>1. stage[r] = "submitting" /\ ~Pool!FreeSlot
    BY <1>5, SameFreeSlot DEF SubmitWaits, At
  <2>2. CASE Cardinality(Blocked) < QueueSize
    <3>1. r \notin Running \cup Blocked \cup Over
      BY <2>1, PlaceOf DEF TaskStages
    <3>2. Running' = Running /\ Blocked' = Blocked \cup {r} /\ Over' = Over
      BY <1>5, <2>2, <3>1, OneMoves DEF SubmitWaits, Stages, Live, TaskStages, HandlerStages
    <3> QED BY <2>1, <2>2, <3>1, <3>2, SameQueue DEF Over, Pool!Wait
  <2>3. CASE ~(Cardinality(Blocked) < QueueSize)
    BY <1>5, <2>1, <2>3, TurnedAway DEF SubmitWaits, HandlerStages
  <2> QED BY <2>2, <2>3
<1>6. ASSUME NEW r \in Requests, Unblock(r) PROVE Pool!Admit(r)
  <2>1. /\ stage[r] = "blocked" /\ Goto(r, "splitting")
        /\ Pool!FreeSlot
    BY <1>6, SameFreeSlot DEF Unblock, StartTask, At
  <2>2. r \in Blocked /\ r \notin Over
    BY <2>1, PlaceOf
  <2>3. Running' = Running \cup {r} /\ Blocked' = Blocked \ {r} /\ Over' = Over
    BY <2>1, <2>2, OneMoves DEF Stages, Live, TaskStages
  <2> QED BY <2>1, <2>2, <2>3 DEF Over, Pool!Admit
<1>7. ASSUME NEW r \in Requests, MarkFailed(r) \/ Finalize(r) PROVE Pool!Leave(r)
  BY <1>7, LeavesPool DEF MarkFailed, Finalize, At, TaskStages
<1>8. ASSUME NEW r \in Requests,
             SplitDone(r) \/ SplitTimeout(r) \/ MarkUnsupportedFiles(r) \/ DeleteOld(r) \/ EmbedOver(r) \/ Insert(r)
      PROVE  UNCHANGED Pool!poolVars
  <2>1. PICK s \in TaskStages : Goto(r, s)
    BY <1>8 DEF SplitDone, SplitTimeout, MarkUnsupportedFiles, DeleteOld, EmbedOver, Insert, TaskStages
  <2>2. stage[r] \in TaskStages
    BY <1>8 DEF SplitDone, SplitTimeout, MarkUnsupportedFiles, DeleteOld, EmbedOver, Insert, At, TaskStages
  <2> QED BY <2>1, <2>2, StaysPut, StagesTyped
<1>9. CASE Crash
  <2> DEFINE fresh == {r \in Requests : stage[r] \in HandlerStages /\ stage[r] # "blocked"}
  <2>1. stage' = [r \in Requests |-> IF stage[r] \in Live THEN "lost" ELSE stage[r]]
    BY <1>9 DEF Crash
  <2>2. Running' = {} /\ Blocked' = {}
    BY <2>1 DEF Running, Blocked, Live, TaskStages, HandlerStages
  <2>3. Over' = Over \cup Running \cup Blocked \cup fresh
    BY <2>1 DEF Over, Running, Blocked, Live, TaskStages, HandlerStages
  <2>4. \A r \in fresh : r \in Requests /\ r \notin Running \cup Blocked \cup Over
    BY PlaceOf DEF HandlerStages, TaskStages
  <2> HIDE DEF fresh
  <2>5. fresh \in SUBSET {r \in Requests : Pool!Fresh(r)}
    BY <2>4 DEF Over
  <2> QED BY <2>2, <2>3, <2>5 DEF Over, Pool!Stop
<1>10. CASE UNCHANGED stage
  BY <1>10 DEF Running, Blocked
<1> QED BY <1>1, <1>2, <1>3, <1>4, <1>5, <1>6, <1>7, <1>8, <1>9, <1>10
        DEF Next, HandlerStep, TaskStep, SplitFile, EmbedBatch, Deadline, Expire, Restart, vars

(***************************************************************************)
(* Submit, Run and the end of a task use the pool as TaskPool says: never  *)
(* more tasks than goroutines, never more waiting handlers than the queue  *)
(* is long, and no task twice, whatever the uploads and the sizes.         *)
(***************************************************************************)
THEOREM PoolIsRespectedHolds == Spec => PoolIsRespected
<1>1. Init => Pool!PoolInit
  BY DEF Init, Pool!PoolInit, Running, Blocked, TaskStages
<1>2. TypeOK /\ [Next]_vars => [Pool!PoolNext]_(Pool!poolVars)
  BY PoolStep
<1> QED BY <1>1, <1>2, TypeCorrect, PTL DEF Spec, PoolIsRespected, Pool!PoolSpec

-----------------------------------------------------------------------------
(* The splitting phase.                                                    *)

\* The stages between the splitting and the end of a task.
UpsertStages == {"marking", "replacing", "embedding", "inserting", "finalizing"}

\* An upload of which nothing is split, yet or at all.
Undecided(r) == \A f \in Files : split[r][f] = "none"

LEMMA PhaseStep ==
  ASSUME TypeOK, TypeOK', NEW r \in Requests, NoVerdictYet(r), UploadStep(r)
  PROVE  [Phase(r)!PhaseNext]_(Phase(r)!phaseVars)
<1> SUFFICES Phase(r)!PhaseNext \/ UNCHANGED Phase(r)!phaseVars
  OBVIOUS
<1> USE DEF Phase!PhaseNext, Phase!phaseVars
<1>0. /\ stage[r] \in Stages /\ stage'[r] \in Stages
      /\ split[r] \in [Files -> SplitStates] /\ split'[r] \in [Files -> SplitStates]
  BY DEF TypeOK
<1>1. (UNCHANGED <<stage[r], split[r]>>) => UNCHANGED SplitResult(r)
  BY DEF SplitResult
<1>2. ASSUME Undecided(r), split'[r] = split[r] PROVE SplitResult(r) = "idle" /\ SplitResult(r)' = "idle"
  BY <1>0, <1>2 DEF SplitResult, Undecided
<1>3. ASSUME ~Undecided(r), split'[r] = split[r]
      PROVE  /\ stage[r] = "splitting" => SplitResult(r) = "running"
             /\ stage[r] = "failing" => SplitResult(r) = "error"
             /\ stage[r] \in UpsertStages => SplitResult(r) = "ok"
             /\ stage'[r] = "failing" => SplitResult(r)' = "error"
             /\ stage'[r] = "done" => SplitResult(r)' = "over"
             /\ stage'[r] = "lost" => SplitResult(r)' = "lost"
             /\ stage'[r] \in UpsertStages => SplitResult(r)' = "ok"
  BY <1>3 DEF SplitResult, Undecided, UpsertStages
<1>4. stage[r] \in HandlerStages \cup {"new"} => Undecided(r)
  BY DEF NoVerdictYet, Undecided
<1>5. CASE UNCHANGED <<stage[r], split[r]>>
  BY <1>1, <1>5
<1>6. CASE Moves(r, HandlerStages \cup {"new"}, HandlerStages \cup {"refused", "done"})
  BY <1>2, <1>4, <1>6 DEF Moves
<1>7. CASE /\ stage[r] \in HandlerStages /\ stage'[r] = "splitting"
           /\ split'[r] = [f \in Files |-> IF f \in Contents(r) THEN "todo" ELSE "none"]
  <2>1. SplitResult(r) = "idle" /\ split[r] = [f \in Files |-> "none"]
    BY <1>0, <1>4, <1>7 DEF SplitResult, Undecided
  <2>2. CASE Contents(r) = {}
    <3>1. split'[r] = split[r]
      BY <1>7, <2>1, <2>2
    <3> QED BY <1>2, <1>4, <1>7, <3>1
  <2>3. CASE Contents(r) # {}
    <3>1. Contents(r) \in (SUBSET Files) \ {{}}
      BY <2>3 DEF Contents
    <3>2. SplitResult(r)' = "running"
      BY <1>7, <3>1 DEF SplitResult
    <3> QED BY <1>7, <2>1, <3>1, <3>2 DEF Phase!Begin
  <2> QED BY <2>2, <2>3
<1>8. ASSUME stage[r] = "splitting", stage'[r] = "splitting", NEW f \in Files, split[r][f] = "todo",
             NEW verdict \in SplitOutcomes \cup {"timeout"}, split'[r] = [split[r] EXCEPT ![f] = verdict]
      PROVE  Phase(r)!Split(f)
  <2>1. SplitResult(r) = "running"
    BY <1>8 DEF SplitResult
  <2>2. split'[r][f] = verdict
    BY <1>0, <1>8
  <2>3. verdict \in SplitStates \ {"none"}
    BY OutcomesAssumption DEF SplitStates, AllOutcomes
  <2>4. SplitResult(r)' = "running"
    BY <1>8, <2>2, <2>3 DEF SplitResult
  <2> QED BY <1>8, <2>1, <2>3, <2>4 DEF Phase!Split
<1>9. CASE Moves(r, {"splitting"}, {"failing"})
  BY <1>2, <1>3, <1>9 DEF Moves, Phase!Fail
<1>10. CASE /\ Moves(r, {"splitting"}, {"marking"})
            /\ \A f \in Files : split[r][f] \notin {"todo", "broken", "timeout"}
  <2>1. \A f \in Files : split[r][f] # "refused"
    BY <1>0 DEF SplitStates, AllOutcomes
  <2>2. CASE Undecided(r)
    BY <1>2, <1>10, <2>2 DEF Moves
  <2>3. CASE ~Undecided(r)
    <3>1. SplitResult(r) = "running" /\ SplitResult(r)' = "ok"
      BY <1>3, <1>10, <2>3 DEF Moves, UpsertStages
    <3> QED BY <1>10, <2>1, <3>1 DEF Moves, Phase!Succeed, Phase!Errors
  <2> QED BY <2>2, <2>3
<1>11. CASE \/ Moves(r, {"marking"}, {"replacing", "finalizing"}) \/ Moves(r, {"replacing"}, {"embedding"})
            \/ Moves(r, {"embedding"}, {"inserting"}) \/ Moves(r, {"inserting"}, {"finalizing"})
  BY <1>2, <1>3, <1>11 DEF Moves, UpsertStages
<1>12. CASE Moves(r, {"failing", "finalizing"}, {"done"})
  BY <1>2, <1>3, <1>12 DEF Moves, UpsertStages, Phase!Leave
<1>13. CASE Moves(r, Live, {"lost"})
  BY <1>2, <1>3, <1>13 DEF Moves, Phase!Die
<1> QED BY <1>5, <1>6, <1>7, <1>8, <1>9, <1>10, <1>11, <1>12, <1>13 DEF UploadStep

(***************************************************************************)
(* The tasks of all uploads at once: the splitting of each goes through    *)
(* the phase SplitWorkers implements, whatever the others do and whenever  *)
(* the server dies (processFilesConcurrently, Process).                    *)
(***************************************************************************)
THEOREM SplitsAsAgreedHolds == Spec => SplitsAsAgreed
<1>1. Init => \A r \in Requests : Phase(r)!PhaseInit
  BY DEF Init, Phase!PhaseInit, SplitResult
<1>2. (IInv /\ IInv') /\ [Next]_vars
        => [\A r \in Requests : [Phase(r)!PhaseNext]_(Phase(r)!phaseVars)]_vars
  BY EveryStepIsAnUploadStep, PhaseStep DEF IInv, UInv
<1> QED BY <1>1, <1>2, IHolds, PTL DEF Spec, SplitsAsAgreed
=============================================================================
