-------------------------- MODULE SplitWorkersProofs --------------------------
(***************************************************************************)
(* Theorems about SplitWorkers, for any number of files and of workers,    *)
(* and whether or not the context of the task expires.                     *)
(***************************************************************************)
EXTENDS SplitWorkers, FiniteSetTheorems, TLAPS

-----------------------------------------------------------------------------
(* The inductive invariant.                                                *)

\* Files processFile has put in the lists, and those of them with one of some verdicts.
Recorder(f)      == pc[f] \in {"reporting", "done"}
Recording(found) == {f \in Files : Recorder(f) /\ verdict[f] \in found}

\* What is known of a file follows its closure.
VerdictsFollow ==
  \A f \in Files :
    /\ pc[f] = "unsent" <=> f \in unsent \/ f = offer
    /\ pc[f] \in {"unsent", "checking", "splitting"} <=> verdict[f] = "todo"
    /\ pc[f] = "recording" => verdict[f] \in Outcomes

ListsFollow ==
  /\ added = Recording({"chunked"})
  /\ unsupported = Recording(Outcomes \ {"chunked"})
  /\ runErrs = {f \in Files : pc[f] = "done" /\ verdict[f] \in Failures}

CountsFollow ==
  /\ counts["success"] = Cardinality(Recording({"chunked", "empty"}))
  /\ counts["ignored"] = Cardinality(Recording({"unsupported"}))
  /\ counts["failed"]  = Cardinality(Recording({"broken"}))

\* The task, its channel and the files still to come.
CallerFollows ==
  /\ offer # NoFile => caller = "submitting" /\ offer \notin unsent
  /\ caller = "idle" => unsent = Files
  /\ caller \in {"waiting", "ok"} => unsent = {}
  /\ closed => (\A f \in Files : pc[f] = "done") /\ caller \notin {"idle", "submitting"}
  /\ caller = "ok" => closed /\ runErrs = {}
  /\ caller \in {"ok", "error"} => closed \/ late

Inv == TypeOK /\ VerdictsFollow /\ ListsFollow /\ CountsFollow /\ CallerFollows

-----------------------------------------------------------------------------
(* Counting.                                                               *)

LEMMA RecordingFinite ==
  ASSUME NEW found
  PROVE  /\ IsFiniteSet(Recording(found))
         /\ Cardinality(Recording(found)) \in 0..Cardinality(Files)
<1>1. Recording(found) \in SUBSET Files
  BY DEF Recording
<1> QED BY <1>1, FilesAssumption, FS_Subset, FS_CardinalityType

\* A step that puts no file in the lists.
LEMMA NothingRecorded ==
  ASSUME TypeOK, VerdictsFollow, NEW f \in Files, NEW found \in SUBSET Outcomes,
         Check(f) \/ SplitFile(f) \/ Report(f)
  PROVE  Recording(found)' = Recording(found)
  BY DEF TypeOK, VerdictsFollow, Check, SplitFile, Report, Step, Recording, Recorder, Outcomes

LEMMA OneRecorded ==
  ASSUME TypeOK, VerdictsFollow, NEW f \in Files, NEW found \in SUBSET Outcomes, Record(f)
  PROVE  /\ f \notin Recording(found)
         /\ verdict[f] \in found => Recording(found)' = Recording(found) \cup {f}
         /\ verdict[f] \notin found => Recording(found)' = Recording(found)
  BY DEF TypeOK, VerdictsFollow, Record, Step, Recording, Recorder

LEMMA OneCounted ==
  ASSUME TypeOK, VerdictsFollow, NEW f \in Files, NEW found \in SUBSET Outcomes, Record(f)
  PROVE  Cardinality(Recording(found))'
           = IF verdict[f] \in found THEN Cardinality(Recording(found)) + 1
                                     ELSE Cardinality(Recording(found))
<1>1. IsFiniteSet(Recording(found))
  BY RecordingFinite
<1>2. f \notin Recording(found)
  BY OneRecorded
<1>3. Cardinality(Recording(found) \cup {f}) = Cardinality(Recording(found)) + 1
  BY <1>1, <1>2, FS_AddElement
<1>4. CASE verdict[f] \in found
  BY <1>3, <1>4, OneRecorded
<1>5. CASE verdict[f] \notin found
  BY <1>5, OneRecorded
<1> QED BY <1>4, <1>5

-----------------------------------------------------------------------------
(* The steps.                                                              *)

LEMMA InitInv == Init => Inv
<1> SUFFICES ASSUME Init PROVE Inv
  OBVIOUS
<1>1. \A found : Recording(found) = {}
  BY DEF Init, Recording, Recorder
<1>2. Cardinality({}) = 0 /\ Cardinality(Files) \in Nat
  BY FilesAssumption, FS_EmptySet, FS_CardinalityType
<1>3. TypeOK
  <2>1. counts \in [{"success", "ignored", "failed"} -> 0..Cardinality(Files)]
    BY <1>2 DEF Init
  <2> QED BY <2>1 DEF Init, TypeOK
<1>4. VerdictsFollow /\ CallerFollows
  BY FilesAssumption DEF Init, VerdictsFollow, CallerFollows
<1>5. ListsFollow /\ CountsFollow
  BY <1>1, <1>2 DEF Init, ListsFollow, CountsFollow
<1> QED BY <1>3, <1>4, <1>5 DEF Inv

LEMMA CallerKeeps == ASSUME Inv, CallerStep \/ CloseDone \/ Expire PROVE Inv'
<1> USE DEF Inv, Recording, Recorder
<1>1. ASSUME Call \/ AllSent \/ ReturnTimeout \/ ReturnDone \/ CloseDone \/ Expire PROVE Inv'
  <2>1. /\ UNCHANGED <<unsent, offer, pc, verdict, lists, runErrs>>
        /\ caller' \in {caller, "submitting", "waiting", "ok", "error"}
        /\ closed' \in {closed, TRUE} /\ late' \in {late, TRUE}
    BY <1>1 DEF Call, AllSent, ReturnTimeout, ReturnDone, CloseDone, Expire, callerVars
  <2>2. TypeOK'
    BY <2>1 DEF TypeOK, lists
  <2>3. CallerFollows'
    <3>1. ASSUME Call \/ AllSent PROVE CallerFollows'
      BY <3>1 DEF CallerFollows, Call, AllSent
    <3>2. ASSUME ReturnTimeout \/ ReturnDone PROVE CallerFollows'
      BY <3>2 DEF CallerFollows, ReturnTimeout, ReturnDone
    <3>3. ASSUME CloseDone PROVE CallerFollows'
      <4>1. \A f \in Files : pc[f] = "done"
        BY <3>3, FilesAssumption DEF CloseDone, Pending, Busy, VerdictsFollow, TypeOK
      <4> QED BY <3>3, <4>1 DEF CallerFollows, CloseDone, callerVars
    <3>4. ASSUME Expire PROVE CallerFollows'
      BY <3>4 DEF CallerFollows, Expire, callerVars
    <3> QED BY <1>1, <3>1, <3>2, <3>3, <3>4
  <2> QED BY <2>1, <2>2, <2>3 DEF VerdictsFollow, ListsFollow, CountsFollow, lists
<1>2. ASSUME NEW f \in Files, Offer(f) PROVE Inv'
  <2>1. UNCHANGED <<pc, verdict, lists, runErrs>> /\ TypeOK' /\ CallerFollows' /\ VerdictsFollow'
    BY <1>2, FilesAssumption DEF TypeOK, VerdictsFollow, CallerFollows, Offer, lists
  <2> QED BY <2>1 DEF ListsFollow, CountsFollow, lists
<1>3. ASSUME Submit PROVE Inv'
  <2>1. /\ offer \in Files /\ pc[offer] = "unsent" /\ offer \notin unsent
        /\ pc' = [pc EXCEPT ![offer] = "checking"] /\ offer' = NoFile
        /\ UNCHANGED <<caller, unsent, verdict, lists, runErrs, closed, late>>
    BY <1>3 DEF TypeOK, VerdictsFollow, CallerFollows, Submit
  <2>2. TypeOK' /\ VerdictsFollow' /\ CallerFollows'
    BY <2>1, FilesAssumption DEF TypeOK, VerdictsFollow, CallerFollows, lists
  <2>3. /\ \A found : Recording(found)' = Recording(found)
        /\ {f \in Files : pc'[f] = "done" /\ verdict'[f] \in Failures}
             = {f \in Files : pc[f] = "done" /\ verdict[f] \in Failures}
    BY <2>1 DEF TypeOK
  <2> HIDE DEF Recording
  <2> QED BY <2>1, <2>2, <2>3 DEF ListsFollow, CountsFollow, lists
<1>4. ASSUME Refuse PROVE Inv'
  <2>1. /\ offer \in Files /\ pc[offer] = "unsent" /\ offer \notin unsent
        /\ pc' = [pc EXCEPT ![offer] = "done"] /\ offer' = NoFile
        /\ verdict' = [verdict EXCEPT ![offer] = "refused"] /\ runErrs' = runErrs \cup {offer}
        /\ UNCHANGED <<caller, unsent, lists, closed, late>>
        /\ caller = "submitting"
    BY <1>4 DEF TypeOK, VerdictsFollow, CallerFollows, Refuse
  <2>2. TypeOK' /\ VerdictsFollow' /\ CallerFollows'
    BY <2>1, FilesAssumption DEF TypeOK, VerdictsFollow, CallerFollows, lists, Verdicts, Outcomes
  <2>3. /\ \A found \in SUBSET Outcomes : Recording(found)' = Recording(found)
        /\ runErrs' = {f \in Files : pc'[f] = "done" /\ verdict'[f] \in Failures}
    BY <2>1 DEF TypeOK, ListsFollow, Failures, Outcomes
  <2>4. /\ {"chunked"} \in SUBSET Outcomes /\ Outcomes \ {"chunked"} \in SUBSET Outcomes
        /\ {"chunked", "empty"} \in SUBSET Outcomes /\ {"unsupported"} \in SUBSET Outcomes
        /\ {"broken"} \in SUBSET Outcomes
    BY DEF Outcomes
  <2> HIDE DEF Recording
  <2> QED BY <2>1, <2>2, <2>3, <2>4 DEF ListsFollow, CountsFollow, lists
<1> QED BY <1>1, <1>2, <1>3, <1>4 DEF CallerStep

\* A worker that puts no file in the lists.
LEMMA WorkerKeeps ==
  ASSUME Inv, NEW f \in Files, Check(f) \/ SplitFile(f) \/ Report(f)
  PROVE  Inv'
<1> USE DEF Inv
<1>1. /\ UNCHANGED <<callerVars, lists, closed, late>>
      /\ pc[f] \in {"checking", "splitting", "reporting"} /\ ~closed
  BY DEF Check, SplitFile, Report, Step, CallerFollows
<1>2. TypeOK' /\ VerdictsFollow'
  BY <1>1 DEF TypeOK, VerdictsFollow, Check, SplitFile, Report, Step, callerVars, lists, Verdicts, Outcomes
<1>3. CallerFollows'
  BY <1>1 DEF CallerFollows, callerVars
<1>4. \A found \in SUBSET Outcomes : Recording(found)' = Recording(found)
  BY NothingRecorded
<1>5. runErrs' = {g \in Files : pc'[g] = "done" /\ verdict'[g] \in Failures}
  BY DEF TypeOK, VerdictsFollow, ListsFollow, Check, SplitFile, Report, Step, Failures
<1>6. /\ {"chunked"} \in SUBSET Outcomes /\ Outcomes \ {"chunked"} \in SUBSET Outcomes
      /\ {"chunked", "empty"} \in SUBSET Outcomes /\ {"unsupported"} \in SUBSET Outcomes
      /\ {"broken"} \in SUBSET Outcomes
  BY DEF Outcomes
<1>7. ListsFollow' /\ CountsFollow'
  BY <1>1, <1>4, <1>5, <1>6 DEF ListsFollow, CountsFollow, lists
<1> QED BY <1>2, <1>3, <1>7

LEMMA RecordKeeps == ASSUME Inv, NEW f \in Files, Record(f) PROVE Inv'
<1> USE DEF Inv
<1>1. /\ UNCHANGED <<callerVars, verdict, runErrs, closed, late>>
      /\ pc[f] = "recording" /\ pc' = [pc EXCEPT ![f] = "reporting"] /\ ~closed
      /\ verdict[f] \in Outcomes
  BY DEF Record, Step, VerdictsFollow, CallerFollows
<1>2. /\ {"chunked"} \in SUBSET Outcomes /\ Outcomes \ {"chunked"} \in SUBSET Outcomes
      /\ {"chunked", "empty"} \in SUBSET Outcomes /\ {"unsupported"} \in SUBSET Outcomes
      /\ {"broken"} \in SUBSET Outcomes
  BY DEF Outcomes
<1>3. VerdictsFollow' /\ CallerFollows'
  BY <1>1 DEF TypeOK, VerdictsFollow, CallerFollows, callerVars
<1>4. ListsFollow'
  <2>1. runErrs' = {g \in Files : pc'[g] = "done" /\ verdict'[g] \in Failures}
    BY <1>1 DEF TypeOK, ListsFollow
  <2>2. added' = Recording({"chunked"})'
    BY <1>2, OneRecorded DEF ListsFollow, Record
  <2>3. unsupported' = Recording(Outcomes \ {"chunked"})'
    BY <1>1, <1>2, OneRecorded DEF ListsFollow, Record
  <2> QED BY <2>1, <2>2, <2>3 DEF ListsFollow
<1>5. CountsFollow'
  <2>1. /\ counts'["success"] = IF verdict[f] \in {"chunked", "empty"} THEN counts["success"] + 1 ELSE counts["success"]
        /\ counts'["ignored"] = IF verdict[f] \in {"unsupported"} THEN counts["ignored"] + 1 ELSE counts["ignored"]
        /\ counts'["failed"]  = IF verdict[f] \in {"broken"} THEN counts["failed"] + 1 ELSE counts["failed"]
    BY <1>1 DEF Record, TypeOK, Outcomes
  <2>2. \A found \in SUBSET Outcomes :
          Cardinality(Recording(found))'
            = IF verdict[f] \in found THEN Cardinality(Recording(found)) + 1 ELSE Cardinality(Recording(found))
    BY OneCounted
  <2> QED BY <1>2, <2>1, <2>2 DEF CountsFollow
<1>6. TypeOK'
  <2>1. /\ DOMAIN counts' = {"success", "ignored", "failed"}
        /\ counts' = [c \in DOMAIN counts' |-> counts'[c]]
    <3>1. PICK c \in {"success", "ignored", "failed"} : counts' = [counts EXCEPT ![c] = @ + 1]
      BY <1>1 DEF Record, Outcomes
    <3> QED BY <3>1 DEF TypeOK
  <2>2. \A found : Cardinality(Recording(found))' \in 0..Cardinality(Files)
    BY RecordingFinite, FilesAssumption, FS_Subset, FS_CardinalityType DEF Recording
  <2>3. counts' \in [{"success", "ignored", "failed"} -> 0..Cardinality(Files)]
    BY <1>5, <2>1, <2>2 DEF CountsFollow
  <2>4. added' \subseteq Files /\ unsupported' \subseteq Files
    BY <1>4 DEF ListsFollow, Recording
  <2> QED BY <1>1, <2>3, <2>4 DEF TypeOK, callerVars
<1> QED BY <1>3, <1>4, <1>5, <1>6

LEMMA StepInv == Inv /\ [Next]_vars => Inv'
<1>1. Inv /\ UNCHANGED vars => Inv'
  BY DEF vars, callerVars, lists, Inv, TypeOK, VerdictsFollow, ListsFollow, CountsFollow, CallerFollows,
         Recording, Recorder
<1> QED BY <1>1, CallerKeeps, WorkerKeeps, RecordKeeps DEF Next, WorkerStep

LEMMA Invariance == Spec => []Inv
  BY InitInv, StepInv, PTL DEF Spec

-----------------------------------------------------------------------------
(***************************************************************************)
(* The counters never exceed the number of files, and a list holds files:  *)
(* no file is recorded twice.                                              *)
(***************************************************************************)
THEOREM TypeCorrect == Spec => []TypeOK
<1>1. Inv => TypeOK
  BY DEF Inv
<1> QED BY <1>1, Invariance, PTL

(***************************************************************************)
(* When processFilesConcurrently returns without an error, every file is   *)
(* in the list of its verdict, and counted, and no worker is left.         *)
(***************************************************************************)
THEOREM SuccessIsCompleteHolds == Spec => []SuccessIsComplete
<1>1. ASSUME Inv, caller = "ok"
      PROVE  /\ Busy = {}
             /\ added = {f \in Files : verdict[f] = "chunked"}
             /\ unsupported = Files \ added
             /\ counts["success"] + counts["ignored"] = Cardinality(Files)
  <2>1. /\ \A f \in Files : pc[f] = "done"
        /\ runErrs = {}
    BY <1>1 DEF Inv, CallerFollows
  <2>2. Busy = {}
    BY <2>1 DEF Busy
  <2>3. \A f \in Files : verdict[f] \in {"chunked", "empty", "unsupported"}
    BY <1>1, <2>1 DEF Inv, TypeOK, VerdictsFollow, ListsFollow, Verdicts, Outcomes, Failures
  <2>4. added = {f \in Files : verdict[f] = "chunked"} /\ unsupported = Files \ added
    BY <1>1, <2>1, <2>3 DEF Inv, ListsFollow, Recording, Recorder, Outcomes
  <2>5. counts["success"] + counts["ignored"] = Cardinality(Files)
    <3> DEFINE S == Recording({"chunked", "empty"})
               U == Recording({"unsupported"})
    <3>1. S \cup U = Files /\ S \cap U = {}
      BY <2>1, <2>3 DEF Recording, Recorder
    <3>2. IsFiniteSet(S) /\ IsFiniteSet(U) /\ Cardinality(S) \in Nat /\ Cardinality(U) \in Nat
      BY RecordingFinite, FS_CardinalityType
    <3>3. Cardinality(S \cup U) = Cardinality(S) + Cardinality(U) - Cardinality(S \cap U)
      BY <3>2, FS_Union
    <3>4. Cardinality({}) = 0
      BY FS_EmptySet
    <3> HIDE DEF S, U
    <3>5. Cardinality(S \cup U) = Cardinality(Files) /\ Cardinality(S \cap U) = 0
      BY <3>1, <3>4, Zenon
    <3>6. Cardinality(Files) = Cardinality(S) + Cardinality(U)
      BY <3>2, <3>3, <3>5
    <3> QED BY <1>1, <3>6 DEF Inv, CountsFollow, S, U
  <2> QED BY <2>2, <2>4, <2>5
<1>2. Inv => SuccessIsComplete
  BY <1>1 DEF SuccessIsComplete
<1> QED BY <1>2, Invariance, PTL

\* runErrs is read without its mutex only after every worker has written what it had to.
THEOREM ErrorsAreCompleteHolds == Spec => []ErrorsAreComplete
<1>1. Inv => ErrorsAreComplete
  BY DEF Inv, CallerFollows, ListsFollow, ErrorsAreComplete, Busy
<1> QED BY <1>1, Invariance, PTL

(***************************************************************************)
(* A worker is left to append to the lists that the task now reads only    *)
(* when the call has returned because the context was over.                *)
(***************************************************************************)
THEOREM ReadsWhenQuietHolds == Spec => []ReadsWhenQuiet
<1>1. Inv => ReadsWhenQuiet
  BY DEF Inv, CallerFollows, ReadsWhenQuiet, Busy
<1> QED BY <1>1, Invariance, PTL

-----------------------------------------------------------------------------
(* The phase of a task.                                                    *)

LEMMA PhaseInits == Init => Phase!PhaseInit
  BY DEF Init, Phase!PhaseInit, Recorded

LEMMA Verdict ==
  ASSUME Inv, NEW f \in Files, NEW found \in Verdicts, caller \notin {"idle", "ok"}, UNCHANGED caller,
         ~Recorder(f), Recorder(f)', verdict'[f] = found,
         \A g \in Files \ {f} : (Recorder(g)' <=> Recorder(g)) /\ verdict'[g] = verdict[g]
  PROVE  Phase!Split(f)
<1>1. caller \in {"submitting", "waiting", "error"}
  BY DEF Inv, TypeOK
<1>2. Recorded(f) = "todo" /\ Recorded(f)' = found
  BY <1>1 DEF Recorded, Recorder
<1>3. \A g \in Files \ {f} : Recorded(g)' = Recorded(g)
  BY <1>1 DEF Recorded, Recorder
<1> QED BY <1>1, <1>2, <1>3 DEF Phase!Split

LEMMA PhaseStep == Inv /\ [Next]_vars => [Phase!PhaseNext]_(Phase!phaseVars)
<1> SUFFICES ASSUME Inv, [Next]_vars PROVE Phase!PhaseNext \/ UNCHANGED Phase!phaseVars
  OBVIOUS
<1> USE DEF Phase!PhaseNext
<1>1. ASSUME Call PROVE Phase!Begin
  <2>1. caller = "idle" /\ caller' = "submitting" /\ UNCHANGED <<pc, verdict>> /\ \A f \in Files : pc[f] = "unsent"
    BY <1>1 DEF Call, Inv, CallerFollows, VerdictsFollow
  <2>2. \A f \in Files : Recorded(f)' = "todo"
    BY <2>1 DEF Recorded
  <2>3. Files \in (SUBSET Files) \ {{}}
    BY FilesAssumption
  <2>4. [f \in Files |-> Recorded(f)]' = [f \in Files |-> IF f \in Files THEN "todo" ELSE "none"]
    BY <2>2
  <2> QED BY <2>1, <2>3, <2>4 DEF Phase!Begin
<1>2. ASSUME \/ Submit \/ AllSent \/ CloseDone \/ Expire
             \/ \E f \in Files : Offer(f) \/ SplitFile(f) \/ Report(f)
      PROVE  UNCHANGED Phase!phaseVars
  <2>1. ASSUME Submit \/ AllSent \/ CloseDone \/ Expire PROVE UNCHANGED Phase!phaseVars
    <3>1. UNCHANGED verdict /\ \A f \in Files : Recorder(f)' <=> Recorder(f)
      BY <2>1 DEF Submit, AllSent, CloseDone, Expire, Recorder, Inv, TypeOK, VerdictsFollow, CallerFollows
    <3>2. \/ UNCHANGED caller
          \/ caller = "submitting" /\ caller' = "waiting"
      BY <2>1 DEF Submit, AllSent, CloseDone, Expire, callerVars
    <3> QED BY <3>1, <3>2 DEF Phase!phaseVars, Recorded, Recorder
  <2>2. ASSUME NEW f \in Files, Offer(f) \/ SplitFile(f) \/ Report(f) PROVE UNCHANGED Phase!phaseVars
    <3>1. /\ UNCHANGED caller
          /\ \A g \in Files : (Recorder(g)' <=> Recorder(g)) /\ (Recorder(g) => verdict'[g] = verdict[g])
      BY <2>2 DEF Offer, SplitFile, Report, Step, Recorder, Inv, TypeOK, VerdictsFollow, callerVars
    <3> QED BY <3>1 DEF Phase!phaseVars, Recorded, Recorder
  <2> QED BY <1>2, <2>1, <2>2
<1>3. ASSUME ReturnTimeout PROVE Phase!Fail
  BY <1>3 DEF ReturnTimeout, Recorded, Phase!Fail
<1>4. ASSUME ReturnDone PROVE Phase!Succeed \/ Phase!Fail
  <2>1. caller = "waiting" /\ caller' \in {"ok", "error"} /\ UNCHANGED <<pc, verdict>>
    BY <1>4 DEF ReturnDone
  <2>2. \A f \in Files : Recorded(f)' = Recorded(f)
    BY <2>1 DEF Recorded
  <2>3. CASE caller' = "error"
    BY <2>1, <2>2, <2>3 DEF Phase!Fail
  <2>4. CASE caller' = "ok"
    <3>1. /\ \A f \in Files : pc[f] = "done"
          /\ runErrs = {}
      BY <1>4, <2>4 DEF ReturnDone, Inv, CallerFollows
    <3>2. \A f \in Files : Recorded(f) \notin {"broken", "timeout", "refused", "todo"}
      BY <2>1, <3>1 DEF Inv, VerdictsFollow, ListsFollow, Recorded, Failures
    <3> QED BY <2>1, <2>2, <2>4, <3>2 DEF Phase!Succeed, Phase!Errors
  <2> QED BY <2>1, <2>3, <2>4
<1>5. ASSUME NEW f \in Files, pc[f] \in {"checking", "recording"} PROVE caller \notin {"idle", "ok"}
  BY <1>5 DEF Inv, VerdictsFollow, CallerFollows
<1>6. ASSUME NEW f \in Files, Check(f) PROVE Phase!Split(f) \/ UNCHANGED Phase!phaseVars
  <2>1. /\ pc[f] = "checking" /\ UNCHANGED caller
        /\ \A g \in Files \ {f} : pc'[g] = pc[g] /\ verdict'[g] = verdict[g]
    BY <1>6 DEF Check, Step, Inv, TypeOK, callerVars
  <2>2. CASE late
    <3>1. pc'[f] = "reporting" /\ verdict'[f] = "timeout"
      BY <1>6, <2>2 DEF Check, Step, Inv, TypeOK
    <3> QED BY <1>5, <2>1, <3>1, Verdict DEF Recorder, Verdicts
  <2>3. CASE ~late
    <3>1. pc'[f] = "splitting" /\ UNCHANGED verdict
      BY <1>6, <2>3 DEF Check, Step, Inv, TypeOK
    <3> QED BY <1>5, <2>1, <3>1 DEF Phase!phaseVars, Recorded
  <2> QED BY <2>2, <2>3
<1>7. ASSUME NEW f \in Files, Record(f) PROVE Phase!Split(f)
  <2>1. /\ pc[f] = "recording" /\ pc'[f] = "reporting" /\ UNCHANGED <<caller, verdict>>
        /\ \A g \in Files \ {f} : pc'[g] = pc[g]
    BY <1>7 DEF Record, Step, Inv, TypeOK, callerVars
  <2>2. verdict[f] \in Verdicts
    BY <2>1 DEF Inv, VerdictsFollow, Verdicts
  <2> QED BY <1>5, <2>1, <2>2, Verdict DEF Recorder
<1>8. ASSUME Refuse PROVE Phase!Split(offer)
  <2>1. /\ offer \in Files /\ pc[offer] = "unsent" /\ pc'[offer] = "done" /\ verdict'[offer] = "refused"
        /\ caller = "submitting" /\ UNCHANGED caller
        /\ \A g \in Files \ {offer} : pc'[g] = pc[g] /\ verdict'[g] = verdict[g]
    BY <1>8 DEF Refuse, Inv, TypeOK, VerdictsFollow, CallerFollows
  <2> QED BY <2>1, Verdict DEF Recorder, Verdicts
<1>9. ASSUME Refuse PROVE offer \in Files
  BY <1>9 DEF Refuse, Inv, TypeOK
<1>10. CASE UNCHANGED vars
  BY <1>10 DEF vars, callerVars, Phase!phaseVars, Recorded
<1> QED BY <1>1, <1>2, <1>3, <1>4, <1>6, <1>7, <1>8, <1>9, <1>10 DEF Next, CallerStep, WorkerStep

(***************************************************************************)
(* processFilesConcurrently is the splitting phase IndexTask goes through: *)
(* it gives each file one verdict and succeeds only with a good one for    *)
(* every file, though workers it leaves behind still write theirs.         *)
(***************************************************************************)
THEOREM IsSplitPhaseHolds == Spec => IsSplitPhase
  BY PhaseInits, PhaseStep, Invariance, PTL DEF Spec, IsSplitPhase, Phase!PhaseSpec
=============================================================================
