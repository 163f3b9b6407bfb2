--------------------------- MODULE IndexTaskProofs ---------------------------
(***************************************************************************)
(* Theorems about IndexTask, for any number of uploads, files, chunks,     *)
(* goroutines and crashes, and any mix of faults but for those a theorem   *)
(* excludes in its hypotheses.                                             *)
(***************************************************************************)
EXTENDS IndexTask, TLAPS

-----------------------------------------------------------------------------
(* Records: every updateFn makes a record of a record.                     *)

LEMMA MissingIsRecord == Missing \in Record
  BY DEF Missing, NoItems, Record, Processes, ItemStates

LEMMA FetchedIsRecord == ASSUME NEW rec \in Record PROVE Fetched(rec) \in Record
  BY DEF Fetched, Record, Processes

LEMMA ListFilesIsRecord ==
  ASSUME NEW rec \in Record, NEW listed \in SUBSET Files PROVE ListFiles(rec, listed) \in Record
  BY DEF ListFiles, Record, Processes, ItemStates

LEMMA AllCompletedIsRecord == ASSUME NEW rec \in Record PROVE MarkAllCompleted(rec) \in Record
  BY DEF MarkAllCompleted, Record, Processes, ItemStates

LEMMA UnsupportedIsRecord ==
  ASSUME NEW rec \in Record, NEW S \in SUBSET Files PROVE MarkUnsupported(rec, S) \in Record
  BY DEF MarkUnsupported, Record, Processes, ItemStates

LEMMA EmbeddedIsRecord ==
  ASSUME NEW rec \in Record, NEW f \in Files PROVE MarkEmbedded(rec, f) \in Record
  BY DEF MarkEmbedded, Record, Processes, ItemStates

LEMMA OverIsRecord == ASSUME NEW rec \in Record PROVE MarkEmbeddingOver(rec) \in Record
  BY DEF MarkEmbeddingOver, Record, Processes

LEMMA CompletedIsRecord == ASSUME NEW rec \in Record PROVE MarkCompleted(rec) \in Record
  BY DEF MarkCompleted, Record, Processes

LEMMA ResetIsRecord == ASSUME NEW rec \in Record PROVE ResetRecord(rec) \in Record
  BY DEF ResetRecord, Record, Processes

-----------------------------------------------------------------------------
(* Type correctness.                                                       *)

USE DEF Keys

LEMMA UpdateTyped ==
  ASSUME redis \in [Keys -> Record], NEW r \in Requests, NEW k \in Keys,
         NEW rec \in Record, Update(r, k, rec)
  PROVE  redis' \in [Keys -> Record]
  BY DEF Update

LEMMA StagesTyped == HandlerStages \subseteq Stages /\ TaskStages \subseteq Stages /\ Live \subseteq Stages
  BY DEF Stages, Live

LEMMA StartTyped ==
  ASSUME TypeOK, NEW r \in Requests, StartTask(r)
  PROVE  TypeOK'
  BY DEF TypeOK, StartTask, Goto, Stages, Live, TaskStages, SplitStates, serverVars

LEMMA TypePreserved == TypeOK /\ [Next]_vars => TypeOK'
<1> SUFFICES ASSUME TypeOK, [Next]_vars PROVE TypeOK'
  OBVIOUS
<1> USE DEF TypeOK
<1>0. CASE UNCHANGED vars
  BY <1>0 DEF vars
<1>1. ASSUME NEW r \in Requests, Receive(r) PROVE TypeOK'
  BY <1>1 DEF Receive, Goto, Stages, Live, HandlerStages, taskVars, serverVars
<1>2. ASSUME NEW r \in Requests, Refuse(r) PROVE TypeOK'
  BY <1>2 DEF Refuse, Goto, Stages, taskVars, serverVars
<1>3. ASSUME NEW r \in Requests, InitStatus(r) PROVE TypeOK'
  <2>1. ListFiles(Fetched(redis[r]), Listed(r)) \in Record
    BY FetchedIsRecord, ListFilesIsRecord DEF Listed
  <2>2. redis' \in [Keys -> Record]
    BY <1>3, <2>1, UpdateTyped DEF InitStatus
  <2> QED BY <1>3, <2>2 DEF InitStatus, Goto, Stages, Live, HandlerStages, taskVars, serverVars
<1>4. ASSUME NEW r \in Requests, DeleteListed(r) PROVE TypeOK'
  BY <1>4 DEF DeleteListed, Goto, Stages, Live, HandlerStages, taskVars, serverVars
<1>5. ASSUME NEW r \in Requests, RenameListed(r) PROVE TypeOK'
  <2>1. Fetched(redis[NoId]) \in Record
    BY FetchedIsRecord
  <2>2. redis' \in [Keys -> Record]
    BY <1>5, <2>1, UpdateTyped DEF RenameListed
  <2> QED BY <1>5, <2>2 DEF RenameListed, Goto, Stages, Live, HandlerStages, taskVars, serverVars
<1>6. ASSUME NEW r \in Requests, SaveCodebase(r) PROVE TypeOK'
  BY <1>6 DEF SaveCodebase, Goto, Stages, Live, HandlerStages, taskVars, serverVars
<1>7. ASSUME NEW r \in Requests, FinishEmpty(r) PROVE TypeOK'
  <2>1. MarkAllCompleted(Fetched(redis[r])) \in Record
    BY FetchedIsRecord, AllCompletedIsRecord
  <2>2. redis' \in [Keys -> Record]
    BY <1>7, <2>1, UpdateTyped DEF FinishEmpty
  <2> QED BY <1>7, <2>2 DEF FinishEmpty, Goto, Stages, taskVars, serverVars
<1>8. ASSUME NEW r \in Requests, SubmitRuns(r) \/ Unblock(r) PROVE TypeOK'
  BY <1>8, StartTyped DEF SubmitRuns, Unblock
<1>9. ASSUME NEW r \in Requests, SubmitWaits(r) PROVE TypeOK'
  BY <1>9 DEF SubmitWaits, Goto, Stages, Live, HandlerStages, taskVars, serverVars
<1>10. ASSUME NEW r \in Requests, NEW f \in Files, SplitFile(r, f) PROVE TypeOK'
  <2>1. CASE r \in late
    <3>1. split' = [split EXCEPT ![r][f] = "timeout"] /\ UNCHANGED chunks
      BY <1>10, <2>1 DEF SplitFile
    <3>2. split' \in [Requests -> [Files -> SplitStates]]
      BY <3>1 DEF SplitStates
    <3> QED BY <1>10, <3>1, <3>2 DEF SplitFile, serverVars
  <2>2. CASE r \notin late
    <3>1. PICK res \in SplitOutcomes :
            /\ split' = [split EXCEPT ![r][f] = res]
            /\ IF res = "chunked"
                 THEN \E n \in 1..MaxChunks : chunks' = [chunks EXCEPT ![r][f] = n]
                 ELSE UNCHANGED chunks
      BY <1>10, <2>2 DEF SplitFile
    <3>2. split' \in [Requests -> [Files -> SplitStates]]
      BY <3>1, OutcomesAssumption DEF SplitStates
    <3>3. chunks' \in [Requests -> [Files -> 0..MaxChunks]]
      <4>1. CASE res = "chunked"
        <5>1. PICK n \in 1..MaxChunks : chunks' = [chunks EXCEPT ![r][f] = n]
          BY <3>1, <4>1
        <5> QED BY <5>1, ChunkAssumption
      <4>2. CASE res # "chunked"
        BY <3>1, <4>2
      <4> QED BY <4>1, <4>2
    <3> QED BY <1>10, <3>2, <3>3 DEF SplitFile, serverVars
  <2> QED BY <2>1, <2>2
<1>11. ASSUME NEW r \in Requests, SplitDone(r) \/ SplitTimeout(r) PROVE TypeOK'
  BY <1>11 DEF SplitDone, SplitTimeout, Goto, Stages, Live, TaskStages, taskVars, serverVars
<1>12. ASSUME NEW r \in Requests, MarkFailed(r) \/ MarkUnsupportedFiles(r) PROVE TypeOK'
  <2>1. MarkUnsupported(Fetched(redis[r]), Unsupported(r)) \in Record
    BY FetchedIsRecord, UnsupportedIsRecord DEF Unsupported
  <2>2. redis' \in [Keys -> Record]
    BY <1>12, <2>1, UpdateTyped DEF MarkFailed, MarkUnsupportedFiles
  <2> QED BY <1>12, <2>2
           DEF MarkFailed, MarkUnsupportedFiles, Goto, Stages, Live, TaskStages, taskVars, serverVars
<1>13. ASSUME NEW r \in Requests, DeleteOld(r) PROVE TypeOK'
  BY <1>13 DEF DeleteOld, Goto, Stages, Live, TaskStages, taskVars, serverVars
<1>14. ASSUME NEW r \in Requests, EmbedBatch(r) PROVE TypeOK'
  <2>1. PICK f \in NextFiles(r) :
          /\ embedded' = [embedded EXCEPT ![r][f] = @ + 1]
          /\ IF embedded[r][f] = 0
               THEN Update(r, r, MarkEmbedded(Fetched(redis[r]), f))
               ELSE UNCHANGED redis
    BY <1>14 DEF EmbedBatch
  <2>2. f \in Files /\ embedded[r][f] + 1 \in 0..MaxChunks
    BY <2>1, ChunkAssumption DEF NextFiles, InProgress, Chunked
  <2>3. embedded' \in [Requests -> [Files -> 0..MaxChunks]]
    BY <2>1, <2>2
  <2>4. MarkEmbedded(Fetched(redis[r]), f) \in Record
    BY <2>2, FetchedIsRecord, EmbeddedIsRecord
  <2>5. redis' \in [Keys -> Record]
    BY <2>1, <2>4, UpdateTyped
  <2> QED BY <1>14, <2>3, <2>5 DEF EmbedBatch, serverVars
<1>15. ASSUME NEW r \in Requests, EmbedOver(r) PROVE TypeOK'
  <2>1. MarkEmbeddingOver(Fetched(redis[r])) \in Record
    BY FetchedIsRecord, OverIsRecord
  <2>2. redis' \in [Keys -> Record]
    BY <1>15, <2>1, UpdateTyped DEF EmbedOver
  <2> QED BY <1>15, <2>2 DEF EmbedOver, Goto, Stages, Live, TaskStages, taskVars, serverVars
<1>16. ASSUME NEW r \in Requests, Insert(r) PROVE TypeOK'
  BY <1>16 DEF Insert, Goto, Stages, Live, TaskStages, taskVars, serverVars
<1>17. ASSUME NEW r \in Requests, Finalize(r) PROVE TypeOK'
  <2>1. MarkCompleted(Fetched(redis[r])) \in Record
    BY FetchedIsRecord, CompletedIsRecord
  <2>2. redis' \in [Keys -> Record]
    BY <1>17, <2>1, UpdateTyped DEF Finalize
  <2> QED BY <1>17, <2>2 DEF Finalize, Goto, Stages, taskVars, serverVars
<1>18. ASSUME NEW r \in Requests, Deadline(r) PROVE TypeOK'
  BY <1>18 DEF Deadline, taskVars, serverVars
<1>19. ASSUME NEW k \in Keys, Expire(k) PROVE TypeOK'
  BY <1>19, MissingIsRecord DEF Expire, taskVars, serverVars
<1>20. CASE Crash
  <2>1. stage' \in [Requests -> Stages]
    BY <1>20 DEF Crash, Stages
  <2>2. crashes' \in 0..MaxCrashes
    BY <1>20, CrashAssumption DEF Crash
  <2> QED BY <1>20, <2>1, <2>2 DEF Crash, taskVars
<1>21. CASE Restart
  <2>1. \A k \in Keys : ResetRecord(redis[k]) \in Record
    BY ResetIsRecord
  <2> QED BY <1>21, <2>1 DEF Restart, taskVars
<1> QED BY <1>0, <1>1, <1>2, <1>3, <1>4, <1>5, <1>6, <1>7, <1>8, <1>9, <1>10, <1>11, <1>12, <1>13,
           <1>14, <1>15, <1>16, <1>17, <1>18, <1>19, <1>20, <1>21
        DEF Next, HandlerStep, TaskStep

(***************************************************************************)
(* Every state of the system is made of values of the types TypeOK gives   *)
(* its variables.                                                          *)
(***************************************************************************)
THEOREM TypeCorrect == Spec => []TypeOK
<1>1. Init => TypeOK
  BY MissingIsRecord, CrashAssumption, ChunkAssumption DEF Init, TypeOK, Stages, SplitStates
<1> QED BY <1>1, TypePreserved, PTL DEF Spec

-----------------------------------------------------------------------------
(* What an update makes of a record, as far as the invariant is concerned. *)

LEMMA UpdateEffect ==
  ASSUME redis \in [Keys -> Record], NEW r \in Requests, NEW k \in Keys,
         NEW rec \in Record, Update(r, k, rec)
  PROVE  /\ \A q \in Keys : q # k => redis'[q] = redis[q]
         /\ redis'[k] \in {redis[k], rec}
  BY DEF Update

LEMMA FetchedEffect ==
  ASSUME NEW rec \in Record
  PROVE  /\ Fetched(rec) \in Record
         /\ Fetched(rec).items = rec.items
  BY DEF Fetched, Record, Processes

LEMMA ListFilesEffect ==
  ASSUME NEW rec \in Record, NEW listed \in SUBSET Files
  PROVE  LET new == ListFiles(rec, listed)
         IN  /\ new \in Record
             /\ new.process = "processing"
             /\ \A f \in Files : new.items[f] \notin {"completed", "unsupported"}
  BY ListFilesIsRecord DEF ListFiles

LEMMA AllCompletedEffect ==
  ASSUME NEW rec \in Record
  PROVE  LET new == MarkAllCompleted(rec)
         IN  /\ new \in Record
             /\ new.process = "completed"
             /\ \A f \in Files : new.items[f] \in {"absent", "completed"}
  BY AllCompletedIsRecord DEF MarkAllCompleted

LEMMA UnsupportedEffect ==
  ASSUME NEW rec \in Record, NEW S \in SUBSET Files
  PROVE  LET new == MarkUnsupported(rec, S)
         IN  /\ new \in Record
             /\ new.process = "completed"
             /\ \A f \in Files : new.items[f] = rec.items[f] \/ (f \in S /\ new.items[f] = "unsupported")
  BY UnsupportedIsRecord DEF MarkUnsupported, Record

LEMMA EmbeddedEffect ==
  ASSUME NEW rec \in Record, NEW f \in Files
  PROVE  LET new == MarkEmbedded(rec, f)
         IN  /\ new \in Record
             /\ new.process = "processing"
             /\ \A g \in Files : new.items[g] = rec.items[g] \/ (g = f /\ new.items[g] = "completed")
  BY EmbeddedIsRecord DEF MarkEmbedded, Record

LEMMA OverEffect ==
  ASSUME NEW rec \in Record
  PROVE  LET new == MarkEmbeddingOver(rec)
         IN  /\ new \in Record
             /\ new.process = "complete"
             /\ new.items = rec.items
  BY OverIsRecord DEF MarkEmbeddingOver, Record

LEMMA CompletedEffect ==
  ASSUME NEW rec \in Record
  PROVE  LET new == MarkCompleted(rec)
         IN  /\ new \in Record
             /\ new.process = "completed"
             /\ new.items = rec.items
  BY CompletedIsRecord DEF MarkCompleted, Record

LEMMA ResetEffect ==
  ASSUME NEW rec \in Record
  PROVE  LET new == ResetRecord(rec)
         IN  /\ new \in Record
             /\ new.items = rec.items
             /\ new = rec \/ (rec.process \in {"pending", "processing"} /\ new.process = "failed")
  BY ResetIsRecord DEF ResetRecord, Record

-----------------------------------------------------------------------------
(***************************************************************************)
(* The inductive invariant is one of each upload.  The first three parts   *)
(* say what holds before its task starts and while the server is down; the *)
(* other four what its record may say at any time.                         *)
(***************************************************************************)
NewIsMissing(r)       == stage[r] \in {"new", "received"} => redis[r] = Missing
NoVerdictYet(r)       == stage[r] \in HandlerStages \cup {"new"} => \A f \in Files : split[r][f] = "none"
DownIsIdle(r)         == ~up => stage[r] \notin Live
CompletedIsOver(r)    == IsCompleted(redis[r]) => stage[r] = "done" \/ Unsupported(r) # {}
FailedIsOver(r)       == IsFailed(redis[r]) => stage[r] \notin Live \cup {"new"}
CompletedIsEmbedded(r) ==
  \A f \in Files : redis[r].items[f] = "completed" => embedded[r][f] > 0 \/ Contents(r) = {}
UnsupportedIsVerdict(r) ==
  \A f \in Files : redis[r].items[f] = "unsupported" => f \in Unsupported(r)

UInv(r) ==
  /\ NewIsMissing(r) /\ NoVerdictYet(r) /\ DownIsIdle(r)
  /\ CompletedIsOver(r) /\ FailedIsOver(r) /\ CompletedIsEmbedded(r) /\ UnsupportedIsVerdict(r)

IInv == TypeOK /\ \A r \in Requests : UInv(r)

\* A step leaves the uploads other than r as they are.
Others(r) ==
  /\ up' = up
  /\ \A q \in Requests \ {r} :
       /\ redis'[q] = redis[q] /\ stage'[q] = stage[q] /\ upload'[q] = upload[q]
       /\ split'[q] = split[q] /\ embedded'[q] = embedded[q]

LEMMA OneAtATime ==
  ASSUME IInv, TypeOK', NEW r \in Requests, Others(r), UInv(r)'
  PROVE  IInv'
<1>1. ASSUME NEW q \in Requests \ {r} PROVE UInv(q)'
  BY <1>1 DEF IInv, Others, UInv, NewIsMissing, NoVerdictYet, DownIsIdle, CompletedIsOver, FailedIsOver,
              CompletedIsEmbedded, UnsupportedIsVerdict, Unsupported, Contents
<1> QED BY <1>1 DEF IInv

LEMMA IPreserved == IInv /\ [Next]_vars => IInv'
<1> SUFFICES ASSUME IInv, [Next]_vars PROVE IInv'
  OBVIOUS
<1>T. TypeOK' /\ TypeOK
  BY TypePreserved DEF IInv
<1> USE DEF NewIsMissing, NoVerdictYet, DownIsIdle, CompletedIsOver, FailedIsOver, CompletedIsEmbedded,
            UnsupportedIsVerdict, IsCompleted, IsFailed, Live, HandlerStages, TaskStages
<1>1. ASSUME NEW r \in Requests, Receive(r) PROVE IInv'
  <2> USE <1>T, <1>1
  <2> UInv(r) /\ r \in Keys
    BY DEF IInv
  <2>1. Others(r)
    BY DEF Receive, Others, Goto, TypeOK, taskVars, serverVars
  <2>2. UInv(r)'
    BY DEF Receive, UInv, At, Goto, TypeOK, taskVars, serverVars, Unsupported, Contents, Missing, NoItems
  <2> QED BY <2>1, <2>2, OneAtATime
<1>2. ASSUME NEW r \in Requests, Refuse(r) PROVE IInv'
  <2> USE <1>T, <1>2
  <2> UInv(r) /\ r \in Keys
    BY DEF IInv
  <2>1. Others(r)
    BY DEF Refuse, Others, Goto, TypeOK, taskVars, serverVars
  <2>2. UInv(r)'
    BY DEF Refuse, UInv, At, Goto, TypeOK, taskVars, serverVars, Unsupported, Contents, Missing, NoItems
  <2> QED BY <2>1, <2>2, OneAtATime
<1>3. ASSUME NEW r \in Requests, InitStatus(r) PROVE IInv'
  <2> USE <1>T, <1>3
  <2> UInv(r) /\ r \in Keys
    BY DEF IInv
  <2> DEFINE new == ListFiles(Fetched(redis[r]), Listed(r))
  <2>1. redis[r] \in Record
    BY DEF TypeOK
  <2>2. Update(r, r, new) \/ UNCHANGED redis
    BY DEF InitStatus
  <2>3. new \in Record
        /\ new.process = "processing" /\ \A f \in Files : new.items[f] \notin {"completed", "unsupported"}
    BY <2>1, FetchedEffect, ListFilesEffect DEF Listed, Unsupported
  <2> HIDE DEF new
  <2>4. /\ \A q \in Keys : q # r => redis'[q] = redis[q]
        /\ redis'[r] \in {redis[r], new}
    BY <2>1, <2>2, <2>3, UpdateEffect DEF TypeOK
  <2>5. Others(r)
    BY <2>4, NoIdAssumption DEF InitStatus, Others, Goto, TypeOK, taskVars, serverVars
  <2>6. /\ up /\ up' /\ stage[r] = "received" /\ stage'[r] = "deleting"
        /\ upload'[r] = upload[r] /\ split'[r] = split[r] /\ embedded'[r] = embedded[r]
    BY DEF InitStatus, At, Goto, TypeOK, taskVars, serverVars
  <2>7. UInv(r)'
    BY <2>1, <2>3, <2>4, <2>6, NoIdAssumption DEF UInv, Unsupported, Contents, Missing, NoItems
  <2> QED BY <2>5, <2>7, OneAtATime
<1>4. ASSUME NEW r \in Requests, DeleteListed(r) PROVE IInv'
  <2> USE <1>T, <1>4
  <2> UInv(r) /\ r \in Keys
    BY DEF IInv
  <2>1. Others(r)
    BY DEF DeleteListed, Others, Goto, TypeOK, taskVars, serverVars
  <2>2. UInv(r)'
    BY DEF DeleteListed, UInv, At, Goto, TypeOK, taskVars, serverVars, Unsupported, Contents, Missing, NoItems
  <2> QED BY <2>1, <2>2, OneAtATime
<1>5. ASSUME NEW r \in Requests, RenameListed(r) PROVE IInv'
  <2> USE <1>T, <1>5
  <2> UInv(r) /\ r \in Keys
    BY DEF IInv
  <2> DEFINE new == Fetched(redis[NoId])
  <2>1. redis[NoId] \in Record
    BY DEF TypeOK
  <2>2. Update(r, NoId, new) \/ UNCHANGED redis
    BY DEF RenameListed
  <2>3. new \in Record
        
    BY <2>1, FetchedEffect, FetchedIsRecord DEF Listed, Unsupported
  <2> HIDE DEF new
  <2>4. /\ \A q \in Keys : q # NoId => redis'[q] = redis[q]
        /\ redis'[NoId] \in {redis[NoId], new}
    BY <2>1, <2>2, <2>3, UpdateEffect DEF TypeOK
  <2>5. Others(r)
    BY <2>4, NoIdAssumption DEF RenameListed, Others, Goto, TypeOK, taskVars, serverVars
  <2>6. /\ up /\ up' /\ stage[r] = "renaming" /\ stage'[r] = "saving"
        /\ upload'[r] = upload[r] /\ split'[r] = split[r] /\ embedded'[r] = embedded[r]
    BY DEF RenameListed, At, Goto, TypeOK, taskVars, serverVars
  <2>7. UInv(r)'
    BY <2>1, <2>3, <2>4, <2>6, NoIdAssumption DEF UInv, Unsupported, Contents, Missing, NoItems
  <2> QED BY <2>5, <2>7, OneAtATime
<1>6. ASSUME NEW r \in Requests, SaveCodebase(r) PROVE IInv'
  <2> USE <1>T, <1>6
  <2> UInv(r) /\ r \in Keys
    BY DEF IInv
  <2>1. Others(r)
    BY DEF SaveCodebase, Others, Goto, TypeOK, taskVars, serverVars
  <2>2. UInv(r)'
    BY DEF SaveCodebase, UInv, At, Goto, TypeOK, taskVars, serverVars, Unsupported, Contents, Missing, NoItems
  <2> QED BY <2>1, <2>2, OneAtATime
<1>7. ASSUME NEW r \in Requests, FinishEmpty(r) PROVE IInv'
  <2> USE <1>T, <1>7
  <2> UInv(r) /\ r \in Keys
    BY DEF IInv
  <2> DEFINE new == MarkAllCompleted(Fetched(redis[r]))
  <2>1. redis[r] \in Record
    BY DEF TypeOK
  <2>2. Update(r, r, new) \/ UNCHANGED redis
    BY DEF FinishEmpty
  <2>3. new \in Record
        /\ new.process = "completed" /\ \A f \in Files : new.items[f] # "unsupported"
    BY <2>1, FetchedEffect, AllCompletedEffect DEF Listed, Unsupported
  <2> HIDE DEF new
  <2>4. /\ \A q \in Keys : q # r => redis'[q] = redis[q]
        /\ redis'[r] \in {redis[r], new}
    BY <2>1, <2>2, <2>3, UpdateEffect DEF TypeOK
  <2>5. Others(r)
    BY <2>4, NoIdAssumption DEF FinishEmpty, Others, Goto, TypeOK, taskVars, serverVars
  <2>6. /\ up /\ up' /\ stage[r] = "submitting" /\ stage'[r] = "done"
        /\ upload'[r] = upload[r] /\ split'[r] = split[r] /\ embedded'[r] = embedded[r] /\ Contents(r) = {}
    BY DEF FinishEmpty, At, Goto, TypeOK, taskVars, serverVars
  <2>7. UInv(r)'
    BY <2>1, <2>3, <2>4, <2>6, NoIdAssumption DEF UInv, Unsupported, Contents, Missing, NoItems
  <2> QED BY <2>5, <2>7, OneAtATime
<1>8. ASSUME NEW r \in Requests, SubmitWaits(r) PROVE IInv'
  <2> USE <1>T, <1>8
  <2> UInv(r) /\ r \in Keys
    BY DEF IInv
  <2>1. Others(r)
    BY DEF SubmitWaits, Others, Goto, TypeOK, taskVars, serverVars
  <2>2. UInv(r)'
    BY DEF SubmitWaits, UInv, At, Goto, TypeOK, taskVars, serverVars, Unsupported, Contents, Missing, NoItems
  <2> QED BY <2>1, <2>2, OneAtATime
<1>9. ASSUME NEW r \in Requests, SplitDone(r) PROVE IInv'
  <2> USE <1>T, <1>9
  <2> UInv(r) /\ r \in Keys
    BY DEF IInv
  <2>1. Others(r)
    BY DEF SplitDone, Others, Goto, TypeOK, taskVars, serverVars
  <2>2. UInv(r)'
    BY DEF SplitDone, UInv, At, Goto, TypeOK, taskVars, serverVars, Unsupported, Contents, Missing, NoItems
  <2> QED BY <2>1, <2>2, OneAtATime
<1>10. ASSUME NEW r \in Requests, SplitTimeout(r) PROVE IInv'
  <2> USE <1>T, <1>10
  <2> UInv(r) /\ r \in Keys
    BY DEF IInv
  <2>1. Others(r)
    BY DEF SplitTimeout, Others, Goto, TypeOK, taskVars, serverVars
  <2>2. UInv(r)'
    BY DEF SplitTimeout, UInv, At, Goto, TypeOK, taskVars, serverVars, Unsupported, Contents, Missing, NoItems
  <2> QED BY <2>1, <2>2, OneAtATime
<1>11. ASSUME NEW r \in Requests, MarkFailed(r) PROVE IInv'
  <2> USE <1>T, <1>11
  <2> UInv(r) /\ r \in Keys
    BY DEF IInv
  <2> DEFINE new == MarkUnsupported(Fetched(redis[r]), Unsupported(r))
  <2>1. redis[r] \in Record
    BY DEF TypeOK
  <2>2. Update(r, r, new) \/ UNCHANGED redis
    BY DEF MarkFailed
  <2>3. new \in Record
        /\ new.process = "completed"
        /\ \A f \in Files : new.items[f] = redis[r].items[f] \/ (f \in Unsupported(r) /\ new.items[f] = "unsupported")
    BY <2>1, FetchedEffect, UnsupportedEffect DEF Listed, Unsupported
  <2> HIDE DEF new
  <2>4. /\ \A q \in Keys : q # r => redis'[q] = redis[q]
        /\ redis'[r] \in {redis[r], new}
    BY <2>1, <2>2, <2>3, UpdateEffect DEF TypeOK
  <2>5. Others(r)
    BY <2>4, NoIdAssumption DEF MarkFailed, Others, Goto, TypeOK, taskVars, serverVars
  <2>6. /\ up /\ up' /\ stage[r] = "failing" /\ stage'[r] = "done"
        /\ upload'[r] = upload[r] /\ split'[r] = split[r] /\ embedded'[r] = embedded[r]
    BY DEF MarkFailed, At, Goto, TypeOK, taskVars, serverVars
  <2>7. UInv(r)'
    BY <2>1, <2>3, <2>4, <2>6, NoIdAssumption DEF UInv, Unsupported, Contents, Missing, NoItems
  <2> QED BY <2>5, <2>7, OneAtATime
<1>12. ASSUME NEW r \in Requests, MarkUnsupportedFiles(r) PROVE IInv'
  <2> USE <1>T, <1>12
  <2> UInv(r) /\ r \in Keys
    BY DEF IInv
  <2> DEFINE new == MarkUnsupported(Fetched(redis[r]), Unsupported(r))
  <2>1. redis[r] \in Record
    BY DEF TypeOK
  <2>2. Update(r, r, new) \/ UNCHANGED redis
    BY DEF MarkUnsupportedFiles
  <2>3. new \in Record
        /\ new.process = "completed"
        /\ \A f \in Files : new.items[f] = redis[r].items[f] \/ (f \in Unsupported(r) /\ new.items[f] = "unsupported")
    BY <2>1, FetchedEffect, UnsupportedEffect DEF Listed, Unsupported
  <2> HIDE DEF new
  <2>4. /\ \A q \in Keys : q # r => redis'[q] = redis[q]
        /\ redis'[r] \in {redis[r], new}
    BY <2>1, <2>2, <2>3, UpdateEffect DEF TypeOK
  <2>5. Others(r)
    BY <2>4, NoIdAssumption DEF MarkUnsupportedFiles, Others, Goto, TypeOK, taskVars, serverVars
  <2>6. /\ up /\ up' /\ stage[r] = "marking" /\ stage'[r] \in {"finalizing", "replacing"}
        /\ upload'[r] = upload[r] /\ split'[r] = split[r] /\ embedded'[r] = embedded[r]
        /\ (redis' = redis \/ Unsupported(r) # {})
    BY DEF MarkUnsupportedFiles, At, Goto, TypeOK, taskVars, serverVars
  <2>7. UInv(r)'
    BY <2>1, <2>3, <2>4, <2>6, NoIdAssumption DEF UInv, Unsupported, Contents, Missing, NoItems
  <2> QED BY <2>5, <2>7, OneAtATime
<1>13. ASSUME NEW r \in Requests, DeleteOld(r) PROVE IInv'
  <2> USE <1>T, <1>13
  <2> UInv(r) /\ r \in Keys
    BY DEF IInv
  <2>1. Others(r)
    BY DEF DeleteOld, Others, Goto, TypeOK, taskVars, serverVars
  <2>2. UInv(r)'
    BY DEF DeleteOld, UInv, At, Goto, TypeOK, taskVars, serverVars, Unsupported, Contents, Missing, NoItems
  <2> QED BY <2>1, <2>2, OneAtATime
<1>14. ASSUME NEW r \in Requests, EmbedOver(r) PROVE IInv'
  <2> USE <1>T, <1>14
  <2> UInv(r) /\ r \in Keys
    BY DEF IInv
  <2> DEFINE new == MarkEmbeddingOver(Fetched(redis[r]))
  <2>1. redis[r] \in Record
    BY DEF TypeOK
  <2>2. Update(r, r, new) \/ UNCHANGED redis
    BY DEF EmbedOver
  <2>3. new \in Record
        /\ new.process = "complete" /\ new.items = redis[r].items
    BY <2>1, FetchedEffect, OverEffect DEF Listed, Unsupported
  <2> HIDE DEF new
  <2>4. /\ \A q \in Keys : q # r => redis'[q] = redis[q]
        /\ redis'[r] \in {redis[r], new}
    BY <2>1, <2>2, <2>3, UpdateEffect DEF TypeOK
  <2>5. Others(r)
    BY <2>4, NoIdAssumption DEF EmbedOver, Others, Goto, TypeOK, taskVars, serverVars
  <2>6. /\ up /\ up' /\ stage[r] = "embedding" /\ stage'[r] = "inserting"
        /\ upload'[r] = upload[r] /\ split'[r] = split[r] /\ embedded'[r] = embedded[r]
    BY DEF EmbedOver, At, Goto, TypeOK, taskVars, serverVars
  <2>7. UInv(r)'
    BY <2>1, <2>3, <2>4, <2>6, NoIdAssumption DEF UInv, Unsupported, Contents, Missing, NoItems
  <2> QED BY <2>5, <2>7, OneAtATime
<1>15. ASSUME NEW r \in Requests, Insert(r) PROVE IInv'
  <2> USE <1>T, <1>15
  <2> UInv(r) /\ r \in Keys
    BY DEF IInv
  <2>1. Others(r)
    BY DEF Insert, Others, Goto, TypeOK, taskVars, serverVars
  <2>2. UInv(r)'
    BY DEF Insert, UInv, At, Goto, TypeOK, taskVars, serverVars, Unsupported, Contents, Missing, NoItems
  <2> QED BY <2>1, <2>2, OneAtATime
<1>16. ASSUME NEW r \in Requests, Finalize(r) PROVE IInv'
  <2> USE <1>T, <1>16
  <2> UInv(r) /\ r \in Keys
    BY DEF IInv
  <2> DEFINE new == MarkCompleted(Fetched(redis[r]))
  <2>1. redis[r] \in Record
    BY DEF TypeOK
  <2>2. Update(r, r, new) \/ UNCHANGED redis
    BY DEF Finalize
  <2>3. new \in Record
        /\ new.process = "completed" /\ new.items = redis[r].items
    BY <2>1, FetchedEffect, CompletedEffect DEF Listed, Unsupported
  <2> HIDE DEF new
  <2>4. /\ \A q \in Keys : q # r => redis'[q] = redis[q]
        /\ redis'[r] \in {redis[r], new}
    BY <2>1, <2>2, <2>3, UpdateEffect DEF TypeOK
  <2>5. Others(r)
    BY <2>4, NoIdAssumption DEF Finalize, Others, Goto, TypeOK, taskVars, serverVars
  <2>6. /\ up /\ up' /\ stage[r] = "finalizing" /\ stage'[r] = "done"
        /\ upload'[r] = upload[r] /\ split'[r] = split[r] /\ embedded'[r] = embedded[r]
    BY DEF Finalize, At, Goto, TypeOK, taskVars, serverVars
  <2>7. UInv(r)'
    BY <2>1, <2>3, <2>4, <2>6, NoIdAssumption DEF UInv, Unsupported, Contents, Missing, NoItems
  <2> QED BY <2>5, <2>7, OneAtATime
<1>17. ASSUME NEW r \in Requests, Deadline(r) PROVE IInv'
  <2> USE <1>T, <1>17
  <2> UInv(r) /\ r \in Keys
    BY DEF IInv
  <2>1. Others(r)
    BY DEF Deadline, Others, Goto, TypeOK, taskVars, serverVars
  <2>2. UInv(r)'
    BY DEF Deadline, UInv, At, Goto, TypeOK, taskVars, serverVars, Unsupported, Contents, Missing, NoItems
  <2> QED BY <2>1, <2>2, OneAtATime
<1>18. ASSUME NEW r \in Requests, SubmitRuns(r) \/ Unblock(r) PROVE IInv'
  <2> USE <1>T, <1>18
  <2> UInv(r) /\ StartTask(r) /\ up /\ stage[r] \in {"submitting", "blocked"}
    BY DEF IInv, SubmitRuns, Unblock, At
  <2>1. Others(r)
    BY DEF StartTask, Others, Goto, TypeOK, serverVars
  <2>2. UInv(r)'
    BY DEF StartTask, UInv, Goto, TypeOK, serverVars, Unsupported, Contents
  <2> QED BY <2>1, <2>2, OneAtATime
<1>19. ASSUME NEW r \in Requests, NEW f \in Files, SplitFile(r, f) PROVE IInv'
  <2> USE <1>T, <1>19
  <2> UInv(r) /\ r \in Keys
    BY DEF IInv
  <2>1. PICK verdict : split' = [split EXCEPT ![r][f] = verdict]
    BY DEF SplitFile
  <2>2. Others(r)
    BY <2>1 DEF SplitFile, Others, TypeOK, serverVars
  <2>3. Unsupported(r) \subseteq Unsupported(r)'
    BY <2>1 DEF SplitFile, Unsupported, TypeOK
  <2>4. UInv(r)'
    BY <2>1, <2>3 DEF SplitFile, At, UInv, TypeOK, serverVars, Contents
  <2> QED BY <2>2, <2>4, OneAtATime
<1>20. ASSUME NEW r \in Requests, EmbedBatch(r) PROVE IInv'
  <2> USE <1>T, <1>20
  <2> UInv(r) /\ r \in Keys
    BY DEF IInv
  <2>1. PICK f \in NextFiles(r) :
          /\ embedded' = [embedded EXCEPT ![r][f] = @ + 1]
          /\ IF embedded[r][f] = 0
               THEN Update(r, r, MarkEmbedded(Fetched(redis[r]), f))
               ELSE UNCHANGED redis
    BY DEF EmbedBatch
  <2>2. f \in Files /\ f \notin Unsupported(r)
    BY <2>1 DEF NextFiles, InProgress, Chunked, Unsupported
  <2> DEFINE new == MarkEmbedded(Fetched(redis[r]), f)
  <2>3. redis[r] \in Record
    BY DEF TypeOK
  <2>4. /\ new \in Record /\ new.process = "processing"
        /\ \A g \in Files : new.items[g] = redis[r].items[g] \/ (g = f /\ new.items[g] = "completed")
    BY <2>2, <2>3, FetchedEffect, EmbeddedEffect
  <2>5. Update(r, r, new) \/ UNCHANGED redis
    BY <2>1
  <2> HIDE DEF new
  <2>6. /\ \A q \in Keys : q # r => redis'[q] = redis[q]
        /\ redis'[r] \in {redis[r], new}
    BY <2>3, <2>4, <2>5, UpdateEffect DEF TypeOK
  <2>7. Others(r)
    BY <2>1, <2>6 DEF EmbedBatch, Others, TypeOK, serverVars
  <2>8. \A g \in Files : embedded'[r][g] >= embedded[r][g] /\ embedded'[r][f] > 0
    BY <2>1, <2>2 DEF TypeOK
  <2>9. /\ up /\ up' /\ stage[r] = "embedding" /\ stage' = stage
        /\ upload'[r] = upload[r] /\ split'[r] = split[r]
    BY DEF EmbedBatch, At, serverVars
  <2>10. CompletedIsEmbedded(r)'
    <3> SUFFICES ASSUME NEW g \in Files, redis'[r].items[g] = "completed", Contents(r)' # {}
                 PROVE  embedded'[r][g] > 0
      OBVIOUS
    <3>1. CASE g = f
      BY <3>1, <2>8
    <3>2. CASE g # f
      <4>1. redis[r].items[g] = "completed" /\ Contents(r) # {}
        BY <3>2, <2>4, <2>6, <2>9 DEF Contents
      <4>2. embedded[r][g] > 0
        BY <4>1 DEF UInv
      <4> QED BY <4>2, <2>8 DEF TypeOK
    <3> QED BY <3>1, <3>2
  <2>11. UInv(r)'
    BY <2>3, <2>4, <2>6, <2>9, <2>10 DEF UInv, Unsupported
  <2> QED BY <2>7, <2>11, OneAtATime
<1>21. ASSUME NEW k \in Keys, Expire(k) PROVE IInv'
  <2>1. ASSUME NEW r \in Requests PROVE UInv(r)'
    <3>1. /\ redis'[r] \in {redis[r], Missing} /\ UInv(r)
          /\ stage' = stage /\ up' = up /\ upload' = upload /\ split' = split /\ embedded' = embedded
      BY <1>T, <1>21 DEF IInv, Expire, TypeOK, taskVars, serverVars
    <3> QED BY <3>1 DEF UInv, Unsupported, Contents, Missing, NoItems
  <2> QED BY <2>1, <1>T DEF IInv
<1>22. CASE Crash
  <2>1. ASSUME NEW r \in Requests PROVE UInv(r)'
    <3>1. /\ stage'[r] = (IF stage[r] \in Live THEN "lost" ELSE stage[r]) /\ UInv(r)
          /\ redis' = redis /\ upload' = upload /\ split' = split /\ embedded' = embedded
      BY <1>22 DEF IInv, Crash, taskVars
    <3> QED BY <3>1 DEF UInv, Unsupported, Contents
  <2> QED BY <2>1, <1>T DEF IInv
<1>23. CASE Restart
  <2>1. ASSUME NEW r \in Requests PROVE UInv(r)'
    <3>1. /\ redis[r] \in Record /\ redis'[r] \in {redis[r], ResetRecord(redis[r])} /\ UInv(r)
          /\ stage[r] \notin Live /\ stage' = stage /\ up'
          /\ upload' = upload /\ split' = split /\ embedded' = embedded
      BY <1>T, <1>23 DEF IInv, UInv, Restart, TypeOK, taskVars
    <3>2. /\ redis'[r].items = redis[r].items
          /\ redis'[r] = redis[r] \/ (redis[r].process \in {"pending", "processing"} /\ redis'[r].process = "failed")
      BY <3>1, ResetEffect
    <3> QED BY <3>1, <3>2 DEF UInv, Unsupported, Contents, Missing
  <2> QED BY <2>1, <1>T DEF IInv
<1>24. CASE UNCHANGED vars
  BY <1>T, <1>24 DEF IInv, UInv, vars, taskVars, serverVars, Unsupported, Contents
<1> QED BY <1>1, <1>2, <1>3, <1>4, <1>5, <1>6, <1>7, <1>8, <1>9, <1>10, <1>11, <1>12, <1>13, <1>14,
           <1>15, <1>16, <1>17, <1>18, <1>19, <1>20, <1>21, <1>22, <1>23, <1>24
        DEF Next, HandlerStep, TaskStep

LEMMA IHolds == Spec => []IInv
<1>1. Init => IInv
  <2>1. Init => TypeOK
    BY MissingIsRecord, CrashAssumption, ChunkAssumption DEF Init, TypeOK, Stages, SplitStates
  <2> QED BY <2>1 DEF IInv, UInv, NewIsMissing, NoVerdictYet, DownIsIdle, CompletedIsOver, FailedIsOver,
                      CompletedIsEmbedded, UnsupportedIsVerdict, IsCompleted, IsFailed, Live,
                      HandlerStages, TaskStages, Init, Missing, NoItems
<1> QED BY <1>1, IPreserved, PTL DEF Spec

(***************************************************************************)
(* A record that says "completed" is of an upload that is over, or that    *)
(* has a file the splitter refused.                                        *)
(***************************************************************************)
THEOREM CompletedMeansOverHolds == Spec => []CompletedMeansOver
<1>1. IInv => CompletedMeansOver
  BY DEF IInv, UInv, CompletedIsOver, CompletedMeansOver
<1> QED BY <1>1, IHolds, PTL

(***************************************************************************)
(* A record that says "failed" is of an upload whose handler and task are  *)
(* gone: with one server the reset at start-up meets no upload at work.    *)
(***************************************************************************)
THEOREM FailedMeansOverHolds == Spec => []FailedMeansOver
<1>1. IInv => FailedMeansOver
  BY DEF IInv, UInv, FailedIsOver, FailedMeansOver
<1> QED BY <1>1, IHolds, PTL

(***************************************************************************)
(* A file that a record shows as completed has at least its first vector,  *)
(* unless the upload had nothing to index.                                 *)
(***************************************************************************)
THEOREM CompletedItemsEmbeddedHolds == Spec => []CompletedItemsEmbedded
<1>1. IInv => CompletedItemsEmbedded
  BY DEF IInv, UInv, CompletedIsEmbedded, CompletedItemsEmbedded
<1> QED BY <1>1, IHolds, PTL

-----------------------------------------------------------------------------
(***************************************************************************)
(* The steps of one record: a step of the system leaves it, drops it,      *)
(* resets it or makes one of the updates of its own handler or task.       *)
(***************************************************************************)
OwnUpdate(q) ==
  \/ stage[q] = "received" /\ redis'[q] = ListFiles(Fetched(redis[q]), Listed(q))
  \/ stage[q] = "submitting" /\ redis'[q] = MarkAllCompleted(Fetched(redis[q]))
  \/ redis'[q] = MarkUnsupported(Fetched(redis[q]), Unsupported(q))
  \/ stage[q] = "embedding" /\ \E f \in Chunked(q) : redis'[q] = MarkEmbedded(Fetched(redis[q]), f)
  \/ stage[q] = "embedding" /\ redis'[q] = MarkEmbeddingOver(Fetched(redis[q]))
  \/ redis'[q] = MarkCompleted(Fetched(redis[q]))

RecordStep(q) ==
  \/ redis'[q] \in {redis[q], Missing, ResetRecord(redis[q])}
  \/ stage[q] \in Live /\ OwnUpdate(q)

LEMMA UpdateOfOne ==
  ASSUME TypeOK, NEW r \in Requests, NEW q \in Requests, NEW rec, Update(r, r, rec)
  PROVE  redis'[q] = redis[q] \/ (q = r /\ redis'[q] = rec)
  BY DEF Update, TypeOK

LEMMA EveryStepIsARecordStep ==
  ASSUME TypeOK, [Next]_vars, NEW q \in Requests
  PROVE  RecordStep(q)
<1>1. ASSUME NEW r \in Requests, InitStatus(r) PROVE RecordStep(q)
  BY <1>1, UpdateOfOne DEF InitStatus, At, RecordStep, OwnUpdate, Live, HandlerStages
<1>2. ASSUME NEW r \in Requests, RenameListed(r) PROVE RecordStep(q)
  BY <1>2, NoIdAssumption DEF RenameListed, Update, TypeOK, RecordStep
<1>3. ASSUME NEW r \in Requests, FinishEmpty(r) PROVE RecordStep(q)
  BY <1>3, UpdateOfOne DEF FinishEmpty, At, RecordStep, OwnUpdate, Live, HandlerStages
<1>4. ASSUME NEW r \in Requests, MarkFailed(r) \/ MarkUnsupportedFiles(r) PROVE RecordStep(q)
  BY <1>4, UpdateOfOne DEF MarkFailed, MarkUnsupportedFiles, At, RecordStep, OwnUpdate, Live, TaskStages
<1>5. ASSUME NEW r \in Requests, EmbedBatch(r) PROVE RecordStep(q)
  <2>1. PICK f \in NextFiles(r) :
          IF embedded[r][f] = 0 THEN Update(r, r, MarkEmbedded(Fetched(redis[r]), f)) ELSE UNCHANGED redis
    BY <1>5 DEF EmbedBatch
  <2>2. f \in Chunked(r) /\ stage[r] = "embedding" /\ stage[r] \in Live
    BY <1>5 DEF NextFiles, InProgress, EmbedBatch, At, Live, TaskStages
  <2> QED BY <2>1, <2>2, UpdateOfOne DEF RecordStep, OwnUpdate
<1>6. ASSUME NEW r \in Requests, EmbedOver(r) \/ Finalize(r) PROVE RecordStep(q)
  BY <1>6, UpdateOfOne DEF EmbedOver, Finalize, At, RecordStep, OwnUpdate, Live, TaskStages
<1>7. ASSUME NEW k \in Keys, Expire(k) PROVE RecordStep(q)
  BY <1>7 DEF Expire, TypeOK, RecordStep
<1>8. CASE Restart
  BY <1>8 DEF Restart, RecordStep
<1>9. CASE UNCHANGED redis
  BY <1>9 DEF RecordStep
<1>10. ASSUME NEW r \in Requests,
              \/ Receive(r) \/ Refuse(r) \/ DeleteListed(r) \/ SaveCodebase(r) \/ SubmitRuns(r)
              \/ SubmitWaits(r) \/ Unblock(r) \/ (\E f \in Files : SplitFile(r, f)) \/ SplitDone(r)
              \/ SplitTimeout(r) \/ DeleteOld(r) \/ Insert(r) \/ Deadline(r)
       PROVE  UNCHANGED redis
  BY <1>10 DEF Receive, Refuse, DeleteListed, SaveCodebase, SubmitRuns, SubmitWaits, Unblock, StartTask,
               SplitFile, SplitDone, SplitTimeout, DeleteOld, Insert, Deadline
<1> QED BY <1>1, <1>2, <1>3, <1>4, <1>5, <1>6, <1>7, <1>8, <1>9, <1>10
        DEF Next, HandlerStep, TaskStep, Crash, vars

(***************************************************************************)
(* A file reported unsupported stays so as long as its record is there.    *)
(***************************************************************************)
THEOREM UnsupportedSticksHolds == Spec => UnsupportedSticks
<1>1. ASSUME IInv, [Next]_vars, NEW r \in Requests, NEW f \in Files, redis[r].items[f] = "unsupported"
      PROVE  redis'[r].items[f] = "unsupported" \/ redis'[r] = Missing
  <2>1. RecordStep(r) /\ redis[r] \in Record /\ UInv(r)
    BY <1>1, EveryStepIsARecordStep DEF IInv, TypeOK
  <2>2. f \in Unsupported(r)
    BY <1>1, <2>1 DEF UInv, UnsupportedIsVerdict
  <2>3. stage[r] \notin {"received", "submitting"} /\ f \notin Chunked(r)
    BY <2>1, <2>2 DEF UInv, NoVerdictYet, HandlerStages, Unsupported, Chunked
  <2>4. Fetched(redis[r]) \in Record /\ Fetched(redis[r]).items[f] = "unsupported"
    BY <1>1, <2>1, FetchedEffect
  <2>5. CASE redis'[r] = ResetRecord(redis[r])
    BY <1>1, <2>1, <2>5, ResetEffect
  <2>6. CASE redis'[r] = MarkUnsupported(Fetched(redis[r]), Unsupported(r))
    BY <2>4, <2>6, UnsupportedEffect DEF Unsupported
  <2>7. ASSUME NEW g \in Chunked(r), redis'[r] = MarkEmbedded(Fetched(redis[r]), g)
        PROVE  redis'[r].items[f] = "unsupported"
    BY <2>3, <2>4, <2>7, EmbeddedEffect DEF Chunked
  <2>8. CASE redis'[r] = MarkEmbeddingOver(Fetched(redis[r])) \/ redis'[r] = MarkCompleted(Fetched(redis[r]))
    BY <2>4, <2>8, OverEffect, CompletedEffect
  <2> QED BY <1>1, <2>1, <2>3, <2>5, <2>6, <2>7, <2>8 DEF RecordStep, OwnUpdate
<1>2. IInv /\ [Next]_vars
        => [\A r \in Requests : \A f \in Files : redis[r].items[f] = "unsupported"
              => redis'[r].items[f] = "unsupported" \/ redis'[r] = Missing]_vars
  BY <1>1
<1> QED BY <1>2, IHolds, PTL DEF Spec, UnsupportedSticks

-----------------------------------------------------------------------------
(***************************************************************************)
(* The steps of one upload, as far as its stage and its verdicts go: a     *)
(* step of the system leaves both, or moves it before its task, starts the *)
(* task, splits a file, ends the splitting with or without an error, goes  *)
(* on with the task or ends it.                                            *)
(***************************************************************************)
Moves(r, from, to) == stage[r] \in from /\ stage'[r] \in to /\ split'[r] = split[r]

UploadStep(r) ==
  \/ stage'[r] = stage[r] /\ split'[r] = split[r]
  \/ Moves(r, HandlerStages \cup {"new"}, HandlerStages \cup {"refused", "done"})
  \/ /\ stage[r] \in HandlerStages /\ stage'[r] = "splitting"
     /\ split'[r] = [f \in Files |-> IF f \in Contents(r) THEN "todo" ELSE "none"]
  \/ /\ stage[r] = "splitting" /\ stage'[r] = "splitting"
     /\ \E f \in Files : /\ split[r][f] = "todo"
                         /\ \E verdict \in SplitOutcomes \cup {"timeout"} :
                              /\ split'[r] = [split[r] EXCEPT ![f] = verdict]
                              /\ verdict = "timeout" => r \in late
  \/ /\ Moves(r, {"splitting"}, {"failing"})
     /\ r \in late \/ \E f \in Files : split[r][f] \in {"broken", "timeout"}
  \/ /\ Moves(r, {"splitting"}, {"marking"})
     /\ \A f \in Files : split[r][f] \notin {"todo", "broken", "timeout"}
  \/ Moves(r, {"marking"}, {"replacing", "finalizing"}) \/ Moves(r, {"replacing"}, {"embedding"})
  \/ Moves(r, {"embedding"}, {"inserting"}) \/ Moves(r, {"inserting"}, {"finalizing"})
  \/ Moves(r, {"failing", "finalizing"}, {"done"})
  \/ Moves(r, Live, {"lost"})

LEMMA EveryStepIsAnUploadStep ==
  ASSUME TypeOK, [Next]_vars, NEW q \in Requests
  PROVE  UploadStep(q)
<1> USE DEF TypeOK, UploadStep, Moves
<1>1. ASSUME NEW r \in Requests,
             \/ Receive(r) \/ Refuse(r) \/ InitStatus(r) \/ DeleteListed(r) \/ RenameListed(r)
             \/ SaveCodebase(r) \/ FinishEmpty(r) \/ SubmitWaits(r)
      PROVE  UploadStep(q)
  <2>1. PICK s \in HandlerStages \cup {"refused", "done"} : Goto(r, s)
    BY <1>1 DEF Receive, Refuse, InitStatus, DeleteListed, RenameListed, SaveCodebase, FinishEmpty,
                SubmitWaits, HandlerStages
  <2>2. stage[r] \in HandlerStages \cup {"new"} /\ split' = split
    BY <1>1 DEF Receive, Refuse, InitStatus, DeleteListed, RenameListed, SaveCodebase, FinishEmpty,
                SubmitWaits, HandlerStages, At, taskVars
  <2> QED BY <2>1, <2>2 DEF Goto
<1>2. ASSUME NEW r \in Requests, SubmitRuns(r) \/ Unblock(r) PROVE UploadStep(q)
  <2>1. StartTask(r) /\ stage[r] \in HandlerStages
    BY <1>2 DEF SubmitRuns, Unblock, At, HandlerStages
  <2> QED BY <2>1 DEF StartTask, Goto
<1>3. ASSUME NEW r \in Requests, NEW f \in Files, SplitFile(r, f) PROVE UploadStep(q)
  <2>1. PICK verdict \in SplitOutcomes \cup {"timeout"} :
          /\ split' = [split EXCEPT ![r][f] = verdict]
          /\ verdict = "timeout" => r \in late
    BY <1>3, OutcomesAssumption DEF SplitFile, AllOutcomes
  <2>2. stage[r] = "splitting" /\ split[r][f] = "todo" /\ stage' = stage
    BY <1>3 DEF SplitFile, At
  <2>3. CASE q = r
    <3>1. split'[r] = [split[r] EXCEPT ![f] = verdict]
      BY <2>1 DEF TypeOK
    <3> QED BY <2>1, <2>2, <2>3, <3>1
  <2>4. CASE q # r
    BY <2>1, <2>2, <2>4
  <2> QED BY <2>3, <2>4
<1>4. ASSUME NEW r \in Requests, SplitDone(r) PROVE UploadStep(q)
  BY <1>4 DEF SplitDone, At, Goto, taskVars
<1>5. ASSUME NEW r \in Requests, SplitTimeout(r) PROVE UploadStep(q)
  BY <1>5 DEF SplitTimeout, At, Goto, taskVars
<1>6. ASSUME NEW r \in Requests, MarkUnsupportedFiles(r) \/ DeleteOld(r) \/ EmbedOver(r) \/ Insert(r)
      PROVE  UploadStep(q)
  BY <1>6 DEF MarkUnsupportedFiles, DeleteOld, EmbedOver, Insert, At, Goto, taskVars
<1>7. ASSUME NEW r \in Requests, MarkFailed(r) \/ Finalize(r) PROVE UploadStep(q)
  BY <1>7 DEF MarkFailed, Finalize, At, Goto, taskVars
<1>8. CASE Crash
  BY <1>8 DEF Crash, taskVars
<1>9. CASE UNCHANGED <<stage, split>>
  BY <1>9
<1> QED BY <1>1, <1>2, <1>3, <1>4, <1>5, <1>6, <1>7, <1>8, <1>9
        DEF Next, HandlerStep, TaskStep, EmbedBatch, Deadline, Expire, Restart, vars, taskVars

-----------------------------------------------------------------------------
(* Properties that hold under conditions on the faults and the sizes.      *)

\* A file has no verdict but those the splitter may give, and a timeout.
VerdictsGiven == \A r \in Requests : \A f \in Files :
  split[r][f] \in SplitOutcomes \cup {"none", "todo", "timeout"}

LEMMA VerdictsHold == Spec => [](IInv /\ VerdictsGiven)
<1>1. Init => VerdictsGiven
  BY DEF Init, VerdictsGiven
<1>2. IInv /\ VerdictsGiven /\ [Next]_vars => VerdictsGiven'
  <2> SUFFICES ASSUME TypeOK, VerdictsGiven, [Next]_vars, NEW r \in Requests, NEW f \in Files
               PROVE  split'[r][f] \in SplitOutcomes \cup {"none", "todo", "timeout"}
    BY DEF VerdictsGiven, IInv
  <2>1. UploadStep(r) /\ split[r] \in [Files -> SplitStates]
    BY EveryStepIsAnUploadStep DEF TypeOK
  <2> QED BY <2>1 DEF UploadStep, Moves, VerdictsGiven
<1> QED BY <1>1, <1>2, IHolds, PTL DEF Spec

\* Where the splitter refuses nothing, a record that says "completed" is of an upload that is done.
LEMMA CompletedIsDone ==
  ASSUME SplitOutcomes \subseteq {"chunked"}, IInv, VerdictsGiven, NEW r \in Requests
  PROVE  /\ Unsupported(r) = {}
         /\ IsCompleted(redis[r]) => stage[r] = "done"
<1>1. Unsupported(r) = {}
  BY DEF VerdictsGiven, Unsupported
<1> QED BY <1>1 DEF IInv, UInv, CompletedIsOver

(***************************************************************************)
(* "completed" is the last word on an upload, whatever fails, expires or   *)
(* is refused and whenever the server dies, but for the embedding of other *)
(* files after a refused one has made Process say it too early.            *)
(***************************************************************************)
THEOREM CompletedIsFinalHolds == Spec => CompletedIsFinal
<1>1. ASSUME IInv, [Next]_vars, NEW r \in Requests, IsCompleted(redis[r]),
             ~IsCompleted(redis'[r]), redis'[r] # Missing
      PROVE  stage[r] = "embedding" /\ Unsupported(r) # {}
  <2>1. UInv(r) /\ redis[r] \in Record /\ Fetched(redis[r]) \in Record
    BY <1>1, FetchedIsRecord DEF IInv, TypeOK
  <2>2. RecordStep(r)
    BY <1>1, EveryStepIsARecordStep DEF IInv
  <2>3. stage[r] \in Live /\ OwnUpdate(r)
    BY <1>1, <2>2 DEF RecordStep, ResetRecord, IsCompleted
  <2>4. Unsupported(r) # {}
    BY <1>1, <2>1, <2>3 DEF UInv, CompletedIsOver, Live, HandlerStages, TaskStages
  <2>5. stage[r] \notin HandlerStages
    BY <2>1, <2>4 DEF UInv, NoVerdictYet, Unsupported
  <2>6. Unsupported(r) \in SUBSET Files
    BY DEF Unsupported
  <2>7. ~(redis'[r] = MarkUnsupported(Fetched(redis[r]), Unsupported(r))) /\ ~(redis'[r] = MarkCompleted(Fetched(redis[r])))
    BY <1>1, <2>1, <2>6, UnsupportedEffect, CompletedEffect DEF IsCompleted
  <2> QED BY <2>3, <2>4, <2>5, <2>7 DEF OwnUpdate, HandlerStages
<1>2. IInv /\ [Next]_vars
        => [\A r \in Requests : IsCompleted(redis[r])
              => \/ IsCompleted(redis'[r]) \/ redis'[r] = Missing
                 \/ stage[r] = "embedding" /\ Unsupported(r) # {}]_vars
  BY <1>1
<1> QED BY <1>2, IHolds, PTL DEF Spec, CompletedIsFinal

-----------------------------------------------------------------------------
(* "completed" means indexed.                                              *)

\* Stages in which a task has deleted what was stored of its files, if it got there.
AfterDelete == {"embedding", "inserting", "finalizing", "done", "lost"}

\* A task that is neither past its insert nor over has the vectors it is to insert.
Counted(r) ==
  /\ stage[r] \notin AfterDelete => \A f \in Files : embedded[r][f] = 0
  /\ \A f \in Chunked(r) : chunks[r][f] > 0 /\ embedded[r][f] <= chunks[r][f]
AllEmbedded(r) ==
  stage[r] = "inserting" /\ r \notin late => \A f \in Chunked(r) : embedded[r][f] = chunks[r][f]
CountInv == \A r \in Requests : Counted(r) /\ AllEmbedded(r)

(***************************************************************************)
(* One of the replacers of a file, the one that was the last to delete,    *)
(* either will have no completed record or not for a version of this file, *)
(* or it is about to insert its version or its version is there.           *)
(***************************************************************************)
Excused(s, f) ==
  \/ f \notin Chunked(s)
  \/ stage[s] = "lost"
  \/ stage[s] \in {"embedding", "inserting", "finalizing"} /\ s \in late
  \/ stage[s] = "done" /\ ~IsCompleted(redis[s])
Kept(s, f) ==
  \/ stage[s] \in {"embedding", "inserting"}
  \/ stage[s] \in {"finalizing", "done"} /\ IsStored(s, f)

VersionInv ==
  \A f \in Files : Replacers(f) # {} => \E s \in Replacers(f) : Excused(s, f) \/ Kept(s, f)

IndexInv == IInv /\ VerdictsGiven /\ CountInv /\ VersionInv

LEMMA CountKept ==
  ASSUME "embed" \notin Faults, TypeOK, CountInv, [Next]_vars
  PROVE  CountInv'
<1>0. TypeOK'
  BY TypePreserved
<1> USE DEF CountInv
<1>1. ASSUME NEW r \in Requests,
             UNCHANGED <<chunks, embedded, split>>, \A q \in Requests \ {r} : stage'[q] = stage[q],
             late \subseteq late',
             \/ stage'[r] = stage[r]
             \/ stage'[r] # "inserting" /\ (stage'[r] \notin AfterDelete => stage[r] \notin AfterDelete)
      PROVE  CountInv'
  BY <1>1 DEF Counted, AllEmbedded, Chunked
<1>2. ASSUME NEW r \in Requests,
             \/ Receive(r) \/ Refuse(r) \/ InitStatus(r) \/ DeleteListed(r) \/ RenameListed(r)
             \/ SaveCodebase(r) \/ FinishEmpty(r) \/ SubmitWaits(r) \/ SplitDone(r) \/ SplitTimeout(r)
             \/ MarkUnsupportedFiles(r) \/ DeleteOld(r) \/ Insert(r) \/ MarkFailed(r) \/ Finalize(r)
      PROVE  CountInv'
  <2>1. PICK s \in Stages \ {"inserting"} : Goto(r, s) /\ (s \notin AfterDelete => stage[r] \notin AfterDelete)
    BY <1>2 DEF Receive, Refuse, InitStatus, DeleteListed, RenameListed, SaveCodebase, FinishEmpty, SubmitWaits,
                SplitDone, SplitTimeout, MarkUnsupportedFiles, DeleteOld, Insert, MarkFailed, Finalize,
                At, AfterDelete, Stages, Live, HandlerStages, TaskStages
  <2>2. UNCHANGED <<chunks, embedded, split, late>>
    BY <1>2 DEF Receive, Refuse, InitStatus, DeleteListed, RenameListed, SaveCodebase, FinishEmpty, SubmitWaits,
                SplitDone, SplitTimeout, MarkUnsupportedFiles, DeleteOld, Insert, MarkFailed, Finalize, taskVars
  <2>3. stage'[r] = s /\ \A q \in Requests \ {r} : stage'[q] = stage[q]
    BY <2>1 DEF Goto, TypeOK
  <2> QED BY <1>1, <2>1, <2>2, <2>3
<1>3. ASSUME NEW r \in Requests, SubmitRuns(r) \/ Unblock(r) PROVE CountInv'
  <2>1. StartTask(r) /\ stage[r] \notin AfterDelete
    BY <1>3 DEF SubmitRuns, Unblock, At, AfterDelete
  <2>2. /\ stage'[r] = "splitting" /\ UNCHANGED <<chunks, embedded>> /\ Chunked(r)' = {} /\ late' = late \ {r}
        /\ \A q \in Requests \ {r} : stage'[q] = stage[q] /\ split'[q] = split[q]
    BY <1>0, <2>1 DEF StartTask, Goto, TypeOK, Chunked
  <2>3. Counted(r)' /\ AllEmbedded(r)'
    BY <2>1, <2>2 DEF Counted, AllEmbedded, AfterDelete
  <2>4. ASSUME NEW q \in Requests \ {r} PROVE Counted(q)' /\ AllEmbedded(q)'
    BY <2>2 DEF Counted, AllEmbedded, Chunked
  <2> QED BY <2>3, <2>4
<1>4. ASSUME NEW r \in Requests, NEW f \in Files, SplitFile(r, f) PROVE CountInv'
  <2>1. /\ stage[r] = "splitting" /\ UNCHANGED <<embedded, stage, late>>
        /\ \A q \in Requests : \A g \in Files : q # r \/ g # f =>
             split'[q][g] = split[q][g] /\ chunks'[q][g] = chunks[q][g]
        /\ split'[r][f] = "chunked" => chunks'[r][f] \in 1..MaxChunks
    <3>1. CASE r \in late
      BY <1>4, <3>1 DEF SplitFile, At, TypeOK
    <3>2. CASE r \notin late
      <4>1. PICK res \in SplitOutcomes :
              /\ split' = [split EXCEPT ![r][f] = res]
              /\ IF res = "chunked"
                   THEN \E n \in 1..MaxChunks : chunks' = [chunks EXCEPT ![r][f] = n]
                   ELSE UNCHANGED chunks
        BY <1>4, <3>2 DEF SplitFile
      <4>2. split'[r][f] = res
        BY <4>1 DEF TypeOK
      <4> QED BY <1>4, <4>1, <4>2 DEF SplitFile, At, TypeOK
    <3> QED BY <3>1, <3>2
  <2>2. \A g \in Files : embedded[r][g] = 0
    BY <2>1 DEF Counted, AfterDelete
  <2>3. ASSUME NEW g \in Chunked(r)' PROVE chunks'[r][g] > 0 /\ embedded'[r][g] <= chunks'[r][g]
    <3>1. g \in Files /\ split'[r][g] = "chunked" /\ embedded'[r][g] = 0
      BY <2>1, <2>2 DEF Chunked
    <3>2. CASE g = f
      BY <2>1, <3>1, <3>2, ChunkAssumption
    <3>3. CASE g # f
      BY <2>1, <3>1, <3>3 DEF Counted, Chunked
    <3> QED BY <3>2, <3>3
  <2>4. Counted(r)' /\ AllEmbedded(r)'
    BY <2>1, <2>2, <2>3 DEF Counted, AllEmbedded
  <2>5. ASSUME NEW q \in Requests \ {r} PROVE Counted(q)' /\ AllEmbedded(q)'
    BY <2>1 DEF Counted, AllEmbedded, Chunked
  <2> QED BY <2>4, <2>5
<1>5. ASSUME NEW r \in Requests, EmbedBatch(r) PROVE CountInv'
  <2>1. PICK f \in NextFiles(r) : embedded' = [embedded EXCEPT ![r][f] = @ + 1]
    BY <1>5 DEF EmbedBatch
  <2>2. stage[r] = "embedding" /\ UNCHANGED <<chunks, stage, split, late>> /\ f \in Chunked(r) /\ f \in Files
    BY <1>5 DEF EmbedBatch, At, NextFiles, InProgress, Chunked
  <2>3. \A q \in Requests : \A g \in Files : q # r \/ g # f => embedded'[q][g] = embedded[q][g]
    BY <2>1, <2>2 DEF TypeOK
  <2>4. embedded'[r][f] <= chunks[r][f]
    <3>1. chunks[r][f] \in Nat /\ embedded[r][f] \in Nat /\ chunks[r][f] > 0
      BY <2>2, ChunkAssumption DEF TypeOK, Counted
    <3>2. embedded[r][f] \in 1..(chunks[r][f] - 1) \/ embedded[r][f] = 0
      BY <2>1 DEF NextFiles, InProgress
    <3>3. embedded'[r][f] = embedded[r][f] + 1
      BY <2>1, <2>2 DEF TypeOK
    <3> QED BY <3>1, <3>2, <3>3
  <2>5. Counted(r)' /\ AllEmbedded(r)'
    BY <2>2, <2>3, <2>4 DEF Counted, AllEmbedded, Chunked, AfterDelete
  <2>6. ASSUME NEW q \in Requests \ {r} PROVE Counted(q)' /\ AllEmbedded(q)'
    BY <2>2, <2>3 DEF Counted, AllEmbedded, Chunked
  <2> QED BY <2>5, <2>6
<1>6. ASSUME NEW r \in Requests, EmbedOver(r) PROVE CountInv'
  <2>1. /\ stage[r] = "embedding" /\ UNCHANGED <<chunks, embedded, split, late>>
        /\ stage' = [stage EXCEPT ![r] = "inserting"]
        /\ r \notin late => NextFiles(r) = {}
    BY <1>6 DEF EmbedOver, At, Goto, CanFail, taskVars
  <2>2. ASSUME r \notin late, NEW f \in Chunked(r) PROVE embedded[r][f] = chunks[r][f]
    <3>1. f \notin InProgress(r) /\ embedded[r][f] # 0
      BY <2>1, <2>2 DEF NextFiles
    <3>2. f \in Files /\ embedded[r][f] \in Nat /\ chunks[r][f] \in Nat /\ embedded[r][f] <= chunks[r][f]
      BY <2>2, ChunkAssumption DEF TypeOK, Counted, Chunked
    <3> QED BY <2>2, <3>1, <3>2 DEF InProgress
  <2>3. Counted(r)' /\ AllEmbedded(r)'
    BY <2>1, <2>2 DEF TypeOK, Counted, AllEmbedded, AfterDelete, Chunked
  <2>4. ASSUME NEW q \in Requests \ {r} PROVE Counted(q)' /\ AllEmbedded(q)'
    BY <2>1 DEF TypeOK, Counted, AllEmbedded, Chunked
  <2> QED BY <2>3, <2>4
<1>7. CASE Crash
  <2>1. /\ UNCHANGED <<chunks, embedded, split>>
        /\ \A q \in Requests : /\ stage'[q] # "inserting"
                               /\ stage'[q] \notin AfterDelete => stage[q] \notin AfterDelete
    BY <1>7 DEF Crash, Live, TaskStages, AfterDelete, taskVars
  <2> QED BY <2>1 DEF Counted, AllEmbedded, Chunked
<1>8. ASSUME UNCHANGED <<chunks, embedded, split, stage>>, late \subseteq late' PROVE CountInv'
  BY <1>8 DEF Counted, AllEmbedded, Chunked
<1> QED BY <1>2, <1>3, <1>4, <1>5, <1>6, <1>7, <1>8
        DEF Next, HandlerStep, TaskStep, Deadline, Expire, Restart, vars, taskVars

-----------------------------------------------------------------------------
LEMMA StepOfAnother ==
  ASSUME TypeOK, NEW q \in Requests, NEW r \in Requests \ {q},
         Receive(q) \/ Refuse(q) \/ HandlerStep(q) \/ TaskStep(q) \/ Deadline(q)
  PROVE  /\ stage'[r] = stage[r] /\ chunks'[r] = chunks[r]
         /\ r \in late' <=> r \in late
<1>1. ASSUME NEW f \in Files, SplitFile(q, f) PROVE chunks'[r] = chunks[r] /\ stage' = stage /\ late' = late
  BY <1>1 DEF SplitFile, TypeOK
<1>2. CASE SubmitRuns(q) \/ Unblock(q)
  BY <1>2 DEF SubmitRuns, Unblock, StartTask, Goto, TypeOK
<1> QED BY <1>1, <1>2
        DEF HandlerStep, TaskStep, Receive, Refuse, InitStatus, DeleteListed, RenameListed, SaveCodebase,
            FinishEmpty, SubmitWaits, SplitDone, SplitTimeout, MarkUnsupportedFiles, DeleteOld, EmbedBatch,
            EmbedOver, Insert, MarkFailed, Finalize, Deadline, Goto, TypeOK, taskVars

\* Who brings an upload to its last update, and to its end.
LEMMA WhoFinalizes ==
  ASSUME TypeOK, [Next]_vars, NEW r \in Requests, stage'[r] = "finalizing"
  PROVE  stage[r] = "finalizing" \/ Insert(r) \/ MarkUnsupportedFiles(r)
<1>1. ASSUME Receive(r) \/ Refuse(r) \/ HandlerStep(r) \/ TaskStep(r) \/ Deadline(r)
      PROVE  stage[r] = "finalizing" \/ Insert(r) \/ MarkUnsupportedFiles(r)
  BY <1>1 DEF HandlerStep, TaskStep, Receive, Refuse, InitStatus, DeleteListed, RenameListed, SaveCodebase,
            FinishEmpty, SubmitRuns, SubmitWaits, Unblock, StartTask, SplitFile, SplitDone, SplitTimeout,
            DeleteOld, EmbedBatch, EmbedOver, MarkFailed, Finalize, Deadline, Goto, At, TypeOK, taskVars
<1>2. CASE Crash
  BY <1>2 DEF Crash, Live, TaskStages
<1>3. CASE UNCHANGED stage
  BY <1>3
<1> QED BY <1>1, <1>2, <1>3, StepOfAnother DEF Next, Expire, Restart, vars

\* The context of a task that is under way stays expired.
LEMMA LateStays ==
  ASSUME TypeOK, [Next]_vars, NEW r \in late, stage'[r] \in TaskStages \ {"splitting"}
  PROVE  r \in late'
<1>0. r \in Requests
  BY DEF TypeOK
<1>1. ASSUME Receive(r) \/ Refuse(r) \/ HandlerStep(r) \/ TaskStep(r) \/ Deadline(r)
      PROVE  r \in late'
  BY <1>0, <1>1 DEF HandlerStep, TaskStep, Receive, Refuse, InitStatus, DeleteListed, RenameListed, SaveCodebase,
            FinishEmpty, SubmitRuns, SubmitWaits, Unblock, StartTask, SplitFile, SplitDone, SplitTimeout,
            MarkUnsupportedFiles, DeleteOld, EmbedBatch, EmbedOver, Insert, MarkFailed, Finalize, Deadline,
            Goto, TypeOK
<1>2. CASE Crash
  BY <1>0, <1>2 DEF Crash, TypeOK, Live, TaskStages
<1>3. CASE UNCHANGED late
  BY <1>3
<1> QED BY <1>0, <1>1, <1>2, <1>3, StepOfAnother DEF Next, Expire, Restart, vars

LEMMA WhoLeaves ==
  ASSUME TypeOK, [Next]_vars, NEW r \in Requests, stage'[r] \notin Live
  PROVE  \/ stage'[r] = stage[r]
         \/ Refuse(r) \/ SaveCodebase(r) \/ SubmitWaits(r)
         \/ FinishEmpty(r) \/ MarkFailed(r) \/ Finalize(r) \/ Crash
<1>1. ASSUME \/ Receive(r) \/ InitStatus(r) \/ DeleteListed(r) \/ RenameListed(r) \/ SubmitRuns(r) \/ Unblock(r)
             \/ SplitDone(r) \/ SplitTimeout(r) \/ MarkUnsupportedFiles(r) \/ DeleteOld(r) \/ EmbedOver(r)
             \/ Insert(r)
      PROVE  FALSE
  BY <1>1 DEF Receive, InitStatus, DeleteListed, RenameListed, SubmitRuns, Unblock, StartTask, SplitDone,
              SplitTimeout, MarkUnsupportedFiles, DeleteOld, EmbedOver, Insert, Goto, TypeOK, Live,
              HandlerStages, TaskStages
<1>2. CASE UNCHANGED stage
  BY <1>2
<1> QED BY <1>1, <1>2, StepOfAnother
        DEF Next, HandlerStep, TaskStep, SplitFile, EmbedBatch, Deadline, Expire, Restart, vars

LEMMA WhoIsDone ==
  ASSUME TypeOK, [Next]_vars, NEW r \in Requests, stage'[r] = "done"
  PROVE  stage[r] = "done" \/ FinishEmpty(r) \/ MarkFailed(r) \/ Finalize(r)
<1>1. ~Refuse(r) /\ ~SaveCodebase(r) /\ ~SubmitWaits(r)
  BY DEF Refuse, SaveCodebase, SubmitWaits, Goto, TypeOK
<1>2. Crash => stage[r] = "done"
  BY DEF Crash
<1> QED BY <1>1, <1>2, WhoLeaves DEF Live, HandlerStages, TaskStages

\* Without renames, only a task that finds the chunks of a file removes one.
LEMMA StoredStays ==
  ASSUME "rename" \notin Ops, TypeOK, [Next]_vars, NEW f \in Files,
         \A q \in Requests : DeleteOld(q) => f \notin Matched(q)
  PROVE  \A c \in stored : c.file = f => c \in stored'
<1>1. ASSUME NEW r \in Requests, RenameListed(r) PROVE stored \subseteq stored'
  <2>1. Renamed(r) = {}
    BY DEF TypeOK, Renamed
  <2> QED BY <1>1, <2>1 DEF RenameListed, Found
<1>2. ASSUME NEW q \in Requests, DeleteOld(q) PROVE \A c \in stored : c.file = f => c \in stored'
  BY <1>2 DEF DeleteOld
<1>3. CASE stored \subseteq stored'
  BY <1>3
<1> QED BY <1>1, <1>2, <1>3
        DEF Next, HandlerStep, TaskStep, Receive, Refuse, InitStatus, DeleteListed, SaveCodebase,
            FinishEmpty, SubmitRuns, SubmitWaits, Unblock, StartTask, SplitFile, SplitDone, SplitTimeout,
            MarkUnsupportedFiles, EmbedBatch, EmbedOver, Insert, MarkFailed, Finalize, Deadline, Expire,
            Crash, Restart, vars

LEMMA ChunksStay ==
  ASSUME TypeOK, [Next]_vars, NEW r \in Requests, stage[r] \in AfterDelete
  PROVE  chunks'[r] = chunks[r]
<1>1. ASSUME Receive(r) \/ Refuse(r) \/ HandlerStep(r) \/ TaskStep(r) \/ Deadline(r)
      PROVE  UNCHANGED chunks
  BY <1>1 DEF HandlerStep, TaskStep, Receive, Refuse, InitStatus, DeleteListed, RenameListed, SaveCodebase,
          FinishEmpty, SubmitRuns, SubmitWaits, Unblock, StartTask, SplitFile, SplitDone, SplitTimeout,
          MarkUnsupportedFiles, DeleteOld, EmbedBatch, EmbedOver, Insert, MarkFailed, Finalize, Deadline,
          At, taskVars, AfterDelete
<1> QED BY <1>1, StepOfAnother DEF Next, Expire, Crash, Restart, vars, taskVars

LEMMA ReplacerStays ==
  ASSUME TypeOK, [Next]_vars, NEW f \in Files, NEW s \in Replacers(f)
  PROVE  /\ s \in Replacers(f)' /\ split'[s] = split[s] /\ stage[s] \in AfterDelete
         /\ \/ stage'[s] = stage[s]
            \/ stage[s] = "embedding" /\ stage'[s] = "inserting"
            \/ stage[s] = "inserting" /\ stage'[s] = "finalizing"
            \/ stage[s] = "finalizing" /\ stage'[s] = "done"
            \/ stage'[s] = "lost"
<1>1. UploadStep(s) /\ s \in Requests /\ stage[s] \in AfterDelete
  BY EveryStepIsAnUploadStep DEF Replacers, AfterDelete
<1>2. split'[s] = split[s]
  BY <1>1 DEF UploadStep, Moves, AfterDelete, HandlerStages, Live
<1>3. Matched(s)' = Matched(s)
  BY <1>2 DEF Matched, Chunked
<1> QED BY <1>1, <1>2, <1>3 DEF UploadStep, Moves, Replacers, AfterDelete, HandlerStages, Live

\* The replacer that speaks for a file does so until another one deletes.
LEMMA OldReplacer ==
  ASSUME SplitOutcomes \subseteq {"chunked"}, {"embed", "vector"} \cap Faults = {}, "rename" \notin Ops,
         IndexInv, [Next]_vars, NEW f \in Files, \A q \in Requests : DeleteOld(q) => f \notin Matched(q),
         NEW s \in Replacers(f), Excused(s, f) \/ Kept(s, f)
  PROVE  (Excused(s, f) \/ Kept(s, f))'
<1>0. TypeOK /\ s \in Requests
  BY DEF IndexInv, IInv, Replacers
<1>1. /\ s \in Replacers(f)' /\ split'[s] = split[s] /\ stage[s] \in AfterDelete
      /\ \/ stage'[s] = stage[s]
         \/ stage[s] = "embedding" /\ stage'[s] = "inserting"
         \/ stage[s] = "inserting" /\ stage'[s] = "finalizing"
         \/ stage[s] = "finalizing" /\ stage'[s] = "done"
         \/ stage'[s] = "lost"
  BY <1>0, ReplacerStays
<1>2. /\ f \in Chunked(s)' <=> f \in Chunked(s)
      /\ chunks'[s] = chunks[s]
  BY <1>0, <1>1, ChunksStay DEF Chunked
<1>3. Unsupported(s) = {} /\ (IsCompleted(redis[s]) => stage[s] = "done")
  BY <1>0, CompletedIsDone DEF IndexInv
<1>4. IsStored(s, f) => IsStored(s, f)'
  BY <1>0, <1>2, StoredStays DEF IsStored
<1>5. CASE f \notin Chunked(s) \/ stage'[s] = "lost"
  BY <1>2, <1>5 DEF Excused
<1>6. CASE stage[s] = "done" /\ stage'[s] = "done"
  <2>1. redis'[s] \in {redis[s], Missing, ResetRecord(redis[s])}
    BY <1>0, <1>6, EveryStepIsARecordStep DEF RecordStep, Live, HandlerStages, TaskStages
  <2>2. IsCompleted(redis'[s]) => IsCompleted(redis[s])
    BY <1>0, <2>1, ResetEffect DEF IsCompleted, Missing, TypeOK
  <2> QED BY <1>2, <1>4, <1>6, <2>2 DEF Excused, Kept
<1>7. CASE stage[s] = "finalizing" /\ stage'[s] = "done"
  <2>1. Finalize(s)
    BY <1>0, <1>3, <1>7, WhoIsDone DEF FinishEmpty, MarkFailed, At
  <2>2. CASE s \in late
    <3>1. redis' = redis
      BY <2>1, <2>2 DEF Finalize, Update, CanSucceed
    <3> QED BY <1>3, <1>7, <3>1 DEF Excused
  <2>3. CASE s \notin late
    BY <1>2, <1>4, <1>7, <2>3 DEF Excused, Kept
  <2> QED BY <2>2, <2>3
<1>8. CASE stage[s] = "inserting" /\ stage'[s] = "finalizing" /\ f \in Chunked(s) /\ s \notin late
  <2> DEFINE new == {c \in Chunk : c.from = s /\ c.nth \in 1..embedded[s][c.file]}
  <2>1. Insert(s)
    BY <1>0, <1>8, WhoFinalizes DEF MarkUnsupportedFiles, At
  <2>2. stored' = stored \cup new
    BY <1>8, <2>1 DEF Insert, CanFail
  <2>3. embedded[s][f] = chunks[s][f]
    BY <1>0, <1>8 DEF IndexInv, CountInv, AllEmbedded
  <2>4. ASSUME NEW n \in 1..chunks[s][f] PROVE [file |-> f, from |-> s, nth |-> n] \in new
    <3>1. n \in 1..MaxChunks
      BY <1>0, ChunkAssumption DEF TypeOK
    <3> QED BY <1>0, <2>3, <3>1 DEF Chunk
  <2> HIDE DEF new
  <2>5. IsStored(s, f)'
    BY <1>2, <2>2, <2>4 DEF IsStored
  <2> QED BY <1>8, <2>5 DEF Kept
<1>9. CASE s \in late /\ stage'[s] \in {"embedding", "inserting", "finalizing"}
  BY <1>0, <1>9, LateStays DEF Excused, TaskStages
<1>10. CASE stage'[s] \in {"embedding", "inserting"}
  BY <1>10 DEF Kept
<1>11. CASE stage[s] = "finalizing" /\ stage'[s] = "finalizing" /\ s \notin late
  BY <1>2, <1>4, <1>11 DEF Excused, Kept
<1> QED BY <1>1, <1>5, <1>6, <1>7, <1>8, <1>9, <1>10, <1>11 DEF AfterDelete

\* A replacer that comes new speaks for the file.
LEMMA NewReplacer ==
  ASSUME SplitOutcomes \subseteq {"chunked"}, IndexInv, [Next]_vars, NEW f \in Files,
         NEW s \in Replacers(f)', s \notin Replacers(f)
  PROVE  (Excused(s, f) \/ Kept(s, f))'
<1>0. /\ TypeOK /\ s \in Requests /\ UInv(s) /\ UploadStep(s)
      /\ stage'[s] \in AfterDelete /\ f \in Matched(s)'
  BY EveryStepIsAnUploadStep DEF IndexInv, IInv, Replacers, AfterDelete
<1>1. split'[s] = split[s]
  BY <1>0 DEF UploadStep, Moves, AfterDelete
<1>2. f \in Matched(s)
  BY <1>0, <1>1 DEF Matched, Chunked
<1>3. stage[s] \notin AfterDelete
  BY <1>0, <1>2 DEF Replacers, AfterDelete
<1>4. Chunked(s) # {} /\ Unsupported(s) = {} /\ (IsCompleted(redis[s]) => stage[s] = "done")
  BY <1>0, <1>2, CompletedIsDone DEF Matched, IndexInv
<1>5. stage[s] \notin HandlerStages \cup {"new"}
  BY <1>0, <1>4 DEF UInv, NoVerdictYet, Chunked
<1>6. stage'[s] \in {"lost", "embedding", "finalizing", "done"}
  BY <1>0, <1>3, <1>5 DEF UploadStep, Moves, AfterDelete
<1>7. stage'[s] # "finalizing"
  <2>1. ~Insert(s)
    BY <1>3 DEF Insert, At, AfterDelete
  <2>2. ~(stage'[s] = "finalizing" /\ MarkUnsupportedFiles(s))
    BY <1>0, <1>4 DEF MarkUnsupportedFiles, Goto, TypeOK
  <2> QED BY <1>0, <1>3, <2>1, <2>2, WhoFinalizes DEF AfterDelete
<1>8. CASE stage'[s] = "done"
  <2>1. MarkFailed(s)
    BY <1>0, <1>3, <1>5, <1>8, WhoIsDone DEF FinishEmpty, Finalize, At, AfterDelete, HandlerStages
  <2>2. redis' = redis
    BY <1>4, <2>1 DEF MarkFailed
  <2> QED BY <1>3, <1>4, <1>8, <2>2 DEF Excused, AfterDelete
<1>9. CASE stage'[s] \in {"lost", "embedding"}
  BY <1>9 DEF Excused, Kept
<1> QED BY <1>6, <1>7, <1>8, <1>9

LEMMA VersionKept ==
  ASSUME SplitOutcomes \subseteq {"chunked"}, {"embed", "vector"} \cap Faults = {}, "rename" \notin Ops,
         IndexInv, [Next]_vars
  PROVE  VersionInv'
<1>0. TypeOK
  BY DEF IndexInv, IInv
<1>1. SUFFICES ASSUME NEW f \in Files, Replacers(f)' # {}
               PROVE  \E s \in Replacers(f)' : (Excused(s, f) \/ Kept(s, f))'
  BY DEF VersionInv
<1>2. ASSUME NEW q \in Requests, DeleteOld(q), f \in Matched(q)
      PROVE  \E s \in Replacers(f)' : (Excused(s, f) \/ Kept(s, f))'
  <2>1. q \notin Replacers(f)
    BY <1>2 DEF DeleteOld, At, Replacers
  <2>2. stage'[q] = "embedding" /\ split' = split
    BY <1>0, <1>2 DEF DeleteOld, Goto, TypeOK, taskVars
  <2>3. q \in Replacers(f)'
    BY <1>2, <2>2 DEF Replacers, Matched, Chunked
  <2> QED BY <2>1, <2>3, NewReplacer
<1>3. ASSUME \A q \in Requests : DeleteOld(q) => f \notin Matched(q), Replacers(f) # {}
      PROVE  \E s \in Replacers(f)' : (Excused(s, f) \/ Kept(s, f))'
  <2>1. PICK s \in Replacers(f) : Excused(s, f) \/ Kept(s, f)
    BY <1>3 DEF IndexInv, VersionInv
  <2>2. s \in Replacers(f)'
    BY <1>0, <2>1, ReplacerStays
  <2> QED BY <1>3, <2>1, <2>2, OldReplacer
<1>4. CASE Replacers(f) = {}
  BY <1>1, <1>4, NewReplacer
<1> QED BY <1>2, <1>3, <1>4

LEMMA IndexHolds ==
  ASSUME SplitOutcomes \subseteq {"chunked"}, {"embed", "vector"} \cap Faults = {}, "rename" \notin Ops
  PROVE  Spec => []IndexInv
<1>1. Init => IndexInv \/ ~(IInv /\ VerdictsGiven)
  BY DEF Init, IndexInv, CountInv, Counted, AllEmbedded, VersionInv, Replacers, Chunked, AfterDelete
<1>2. IndexInv /\ [Next]_vars /\ (IInv /\ VerdictsGiven)' => IndexInv'
  <2> SUFFICES ASSUME IndexInv, [Next]_vars, IInv', VerdictsGiven' PROVE IndexInv'
    OBVIOUS
  <2>1. CountInv'
    BY CountKept DEF IndexInv, IInv
  <2> QED BY <2>1, VersionKept DEF IndexInv
<1> QED BY <1>1, <1>2, VerdictsHold, PTL DEF Spec

\* A completed upload does not excuse itself.
LEMMA CompletedSpeaks ==
  ASSUME SplitOutcomes \subseteq {"chunked"}, IndexInv, NEW r \in Requests, IsCompleted(redis[r]),
         NEW f \in Chunked(r)
  PROVE  /\ f \in Files /\ r \in Replacers(f)
         /\ Excused(r, f) \/ Kept(r, f) => IsStored(r, f)
<1>1. stage[r] = "done"
  BY CompletedIsDone DEF IndexInv
<1>2. f \in Files /\ f \in Alike[f]
  BY AlikeAssumption DEF Chunked
<1> QED BY <1>1, <1>2 DEF Replacers, Matched, Excused, Kept

(***************************************************************************)
(* A record that says "completed" is of an upload whose chunks are all     *)
(* stored, unless another task has replaced them, whatever the number of   *)
(* tasks at once and whichever paths look alike, whenever contexts expire, *)
(* records are lost and the server dies.  Hypotheses: the splitter refuses *)
(* no file, the embedding service answers, the vector store only fails     *)
(* with the context (Process does not tell whether they did), and no       *)
(* upload renames.                                                         *)
(***************************************************************************)
THEOREM CompletedMeansIndexedHolds ==
  ASSUME SplitOutcomes \subseteq {"chunked"}, {"embed", "vector"} \cap Faults = {}, "rename" \notin Ops
  PROVE  Spec => []CompletedMeansIndexed
<1>1. IndexInv => CompletedMeansIndexed
  <2> SUFFICES ASSUME IndexInv, NEW r \in Requests, IsCompleted(redis[r]),
                      NEW f \in Chunked(r), Replacers(f) \subseteq {r}
               PROVE  IsStored(r, f)
    BY DEF CompletedMeansIndexed
  <2>1. PICK s \in Replacers(f) : Excused(s, f) \/ Kept(s, f)
    BY CompletedSpeaks DEF IndexInv, VersionInv
  <2> QED BY <2>1, CompletedSpeaks
<1> QED BY <1>1, IndexHolds, PTL

(***************************************************************************)
(* However many tasks write a file at the same time, and however their     *)
(* deletes and inserts interleave: once all that replaced it are           *)
(* completed, one of its versions is stored as a whole.  Hypotheses as     *)
(* above.                                                                  *)
(***************************************************************************)
THEOREM SomeVersionStaysHolds ==
  ASSUME SplitOutcomes \subseteq {"chunked"}, {"embed", "vector"} \cap Faults = {}, "rename" \notin Ops
  PROVE  Spec => []SomeVersionStays
<1>1. IndexInv => SomeVersionStays
  <2> SUFFICES ASSUME IndexInv, NEW f \in Files, Replacers(f) # {},
                      \A s \in Replacers(f) : f \in Chunked(s) /\ IsCompleted(redis[s])
               PROVE  \E s \in Replacers(f) : IsStored(s, f)
    BY DEF SomeVersionStays
  <2>1. PICK s \in Replacers(f) : Excused(s, f) \/ Kept(s, f)
    BY DEF IndexInv, VersionInv
  <2>2. s \in Requests
    BY DEF Replacers
  <2> QED BY <2>1, <2>2, CompletedSpeaks
<1> QED BY <1>1, IndexHolds, PTL

-----------------------------------------------------------------------------
(* What is left in the running list.                                       *)

\* A task that failed has a refused file to report, or its context has expired.
TimeoutIsLate(r) == stage[r] = "splitting" => r \in late \/ \A f \in Files : split[r][f] # "timeout"
FailureIsTold(r) == stage[r] = "failing" => Unsupported(r) # {} \/ r \in late
RunningIsLive(r) == up /\ IsRunning(redis[r]) => stage[r] \in Live \cup {"refused"} \/ r \in late

LiveInv == IInv /\ \A r \in Requests : TimeoutIsLate(r) /\ FailureIsTold(r) /\ RunningIsLive(r)

\* An expired context stays so until a task starts with a new one, or a crash ends them all.
LEMMA WhoRenewsContexts ==
  ASSUME TypeOK, [Next]_vars, NEW r \in Requests, r \in late, r \notin late'
  PROVE  (stage[r] \in HandlerStages /\ stage'[r] = "splitting") \/ ~up'
<1>1. ASSUME Receive(r) \/ Refuse(r) \/ HandlerStep(r) \/ TaskStep(r) \/ Deadline(r)
      PROVE  stage[r] \in HandlerStages /\ stage'[r] = "splitting"
  BY <1>1 DEF HandlerStep, TaskStep, Receive, Refuse, InitStatus, DeleteListed, RenameListed, SaveCodebase,
            FinishEmpty, SubmitRuns, SubmitWaits, Unblock, StartTask, SplitFile, SplitDone, SplitTimeout,
            MarkUnsupportedFiles, DeleteOld, EmbedBatch, EmbedOver, Insert, MarkFailed, Finalize, Deadline,
            Goto, At, TypeOK, HandlerStages
<1>2. CASE Crash
  BY <1>2 DEF Crash
<1>3. CASE UNCHANGED late
  BY <1>3
<1> QED BY <1>1, <1>2, <1>3, StepOfAnother DEF Next, Expire, Restart, vars

LEMMA LiveKept ==
  ASSUME "redis" \notin Faults, LiveInv, [Next]_vars, IInv'
  PROVE  LiveInv'
<1>0. TypeOK /\ TypeOK'
  BY DEF LiveInv, IInv
<1>1. ASSUME NEW r \in Requests PROVE TimeoutIsLate(r)'
  <2> SUFFICES ASSUME stage'[r] = "splitting", r \notin late', NEW f \in Files, split'[r][f] = "timeout"
               PROVE  FALSE
    BY DEF TimeoutIsLate
  <2>1. UploadStep(r) /\ TimeoutIsLate(r) /\ UInv(r)' /\ split[r] \in [Files -> SplitStates]
    BY <1>0, EveryStepIsAnUploadStep DEF LiveInv, IInv, TypeOK
  <2>2. up'
    BY <2>1 DEF UInv, DownIsIdle, Live, TaskStages
  <2>3. CASE stage[r] = "splitting"
    <3>1. r \notin late
      BY <1>0, <2>2, <2>3, WhoRenewsContexts DEF HandlerStages
    <3> QED BY <2>1, <2>3, <3>1 DEF TimeoutIsLate, UploadStep, Moves, HandlerStages
  <2>4. CASE stage[r] # "splitting"
    BY <2>1, <2>4 DEF UploadStep, Moves, HandlerStages
  <2> QED BY <2>3, <2>4
<1>2. ASSUME NEW r \in Requests PROVE FailureIsTold(r)'
  <2> SUFFICES ASSUME stage'[r] = "failing", r \notin late' PROVE Unsupported(r)' # {}
    BY DEF FailureIsTold
  <2>1. UploadStep(r) /\ TimeoutIsLate(r) /\ FailureIsTold(r) /\ UInv(r)'
    BY <1>0, EveryStepIsAnUploadStep DEF LiveInv, IInv
  <2>2. up'
    BY <2>1 DEF UInv, DownIsIdle, Live, TaskStages
  <2>3. r \notin late
    BY <1>0, <2>2, WhoRenewsContexts
  <2> QED BY <2>1, <2>3 DEF TimeoutIsLate, FailureIsTold, UploadStep, Moves, Unsupported, HandlerStages
<1>3. ASSUME NEW r \in Requests PROVE RunningIsLive(r)'
  <2> SUFFICES ASSUME up', IsRunning(redis'[r]), stage'[r] \notin Live, stage'[r] # "refused", r \notin late'
               PROVE  FALSE
    BY DEF RunningIsLive
  <2>1. UInv(r) /\ RunningIsLive(r) /\ FailureIsTold(r) /\ redis[r] \in Record
    BY <1>0 DEF LiveInv, IInv, TypeOK
  <2>2. r \notin late
    BY <1>0, WhoRenewsContexts DEF Live, TaskStages
  <2>3. \A rec \in Record : Update(r, r, rec) => redis'[r] = rec
    BY <1>0, <2>2 DEF Update, CanFail, TypeOK
  <2>4. Fetched(redis[r]) \in Record
    BY <2>1, FetchedIsRecord
  <2>5. ~Refuse(r) /\ ~SaveCodebase(r) /\ ~SubmitWaits(r)
    BY <1>0 DEF Refuse, SaveCodebase, SubmitWaits, Goto, TypeOK, Live, HandlerStages
  <2>6. ~FinishEmpty(r)
    BY <2>3, <2>4, AllCompletedEffect DEF FinishEmpty, IsRunning
  <2>7. ~MarkFailed(r)
    BY <2>1, <2>2, <2>3, <2>4, UnsupportedEffect DEF MarkFailed, At, FailureIsTold, Unsupported, IsRunning
  <2>8. ~Finalize(r)
    BY <2>3, <2>4, CompletedEffect DEF Finalize, IsRunning
  <2>9. ~Crash
    BY DEF Crash
  <2>10. stage'[r] = stage[r]
    BY <1>0, <2>5, <2>6, <2>7, <2>8, <2>9, WhoLeaves
  <2>11. redis'[r] \in {redis[r], Missing, ResetRecord(redis[r])}
    BY <1>0, <2>10, EveryStepIsARecordStep DEF RecordStep
  <2>12. redis'[r] = redis[r]
    BY <2>1, <2>11, ResetEffect DEF IsRunning, Missing
  <2>13. ~up
    BY <2>1, <2>2, <2>10, <2>12 DEF RunningIsLive
  <2>14. Restart
    BY <2>13 DEF Next, HandlerStep, TaskStep, Receive, Refuse, InitStatus, DeleteListed, RenameListed,
              SaveCodebase, FinishEmpty, SubmitRuns, SubmitWaits, Unblock, SplitFile, SplitDone,
              SplitTimeout, MarkUnsupportedFiles, DeleteOld, EmbedBatch, EmbedOver, Insert, MarkFailed, Finalize,
              Deadline, Expire, Crash, At, vars, serverVars
  <2>15. redis'[r] = ResetRecord(redis[r])
    BY <2>14 DEF Restart
  <2> QED BY <2>1, <2>15 DEF ResetRecord, IsRunning, Record, Processes
<1> QED BY <1>1, <1>2, <1>3 DEF LiveInv

(***************************************************************************)
(* A record left in the running list without a handler or task is of an    *)
(* upload that was turned away, by the database or by the pool, or whose   *)
(* context has expired, whatever else fails: the splitter, the embedder,   *)
(* the vector store or the server, for any number of uploads, any list of  *)
(* operations, renames among them, and any pool.  Hypothesis: Redis takes  *)
(* the updates it is sent.                                                 *)
(***************************************************************************)
THEOREM OrphansWereTurnedAwayHolds ==
  ASSUME "redis" \notin Faults
  PROVE  Spec => []OrphansWereTurnedAway
<1>1. Init /\ IInv => LiveInv
  BY DEF Init, LiveInv, TimeoutIsLate, FailureIsTold, RunningIsLive, IsRunning, Missing
<1>2. LiveInv /\ [Next]_vars /\ IInv' => LiveInv'
  BY LiveKept
<1>3. LiveInv => OrphansWereTurnedAway
  BY DEF LiveInv, RunningIsLive, OrphansWereTurnedAway
<1> QED BY <1>1, <1>2, <1>3, IHolds, PTL DEF Spec
=============================================================================
