------------------------------- MODULE IndexTask -------------------------------
(***************************************************************************)
(* The life of an upload on one server: the HTTP handler (SubmitTask), the *)
(* bounded task pool it submits to, the embedding task that the pool runs  *)
(* (splitFile on every file, then delete, embed and insert its chunks),    *)
(* the status record every step updates, and the vector store.  The server *)
(* may crash at any point and is restarted with a reset of the records.    *)
(*                                                                         *)
(* Uploads are for one codebase, so that any two of them may touch the     *)
(* same file.  One action is one call of the code that changes state       *)
(* outside its goroutine, with the local bookkeeping that follows it.      *)
(*                                                                         *)
(* The vector store finds the chunks of a file by the words of its path    *)
(* (VectorStore), so that those of other files, its look-alikes, are found *)
(* with them: cmd/main.go has all the words of main.go.                    *)
(***************************************************************************)
EXTENDS Integers, FiniteSets

CONSTANTS
  Requests,       \* uploads, named by their X-Request-ID
  Files,          \* file paths of the codebase
  Alike,          \* the files whose path has every word of a file's path
  MaxChunks,      \* bound: chunks the splitter makes of one file
  PoolSize,       \* IndexTask.PoolSize: goroutines of the task pool
  QueueSize,      \* IndexTask.QueueSize: handlers that may wait for one
  Ops,            \* what a file list may ask for a file
  SplitOutcomes,  \* what the splitter may answer for a file
  Faults,         \* the failures of the environment that may happen
  MaxCrashes,     \* bound: crashes of the server
  NoId            \* the empty request id, the key renames write to

AllOps      == {"none", "write", "unlisted", "missing", "delete", "rename"}
AllOutcomes == {"chunked", "empty", "unsupported", "broken"}
AllFaults   == {"redis", "db", "embed", "vector", "deadline", "expiry"}

ASSUME AlikeAssumption ==
  /\ Alike \in [Files -> SUBSET Files]
  /\ \A f \in Files : f \in Alike[f] /\ \A g \in Alike[f] : Alike[g] \subseteq Alike[f]
ASSUME PoolAssumption     == PoolSize \in Nat \ {0} /\ QueueSize \in Nat \ {0}
ASSUME ChunkAssumption    == MaxChunks \in Nat \ {0}
ASSUME CrashAssumption    == MaxCrashes \in Nat
ASSUME OpsAssumption      == Ops \subseteq AllOps
ASSUME OutcomesAssumption == SplitOutcomes \subseteq AllOutcomes
ASSUME NoIdAssumption     == NoId \notin Requests

INSTANCE FileStatus

VARIABLES
  redis,     \* status record of every key
  stored,    \* chunks in the vector store
  stage,     \* where each upload's handler or task is
  late,      \* uploads whose current context has expired
  upload,    \* the operation each upload lists for each file
  split,     \* result of splitFile, per upload and file
  chunks,    \* number of chunks it returned
  embedded,  \* number of them that have their vector
  up,        \* the server runs
  crashes

vars      == <<redis, stored, stage, late, upload, split, chunks, embedded, up, crashes>>
taskVars  == <<split, chunks, embedded>>
serverVars == <<up, crashes>>

Keys == Requests \cup {NoId}

HandlerStages == {"received", "deleting", "renaming", "saving", "submitting", "blocked"}
TaskStages    == {"splitting", "failing", "marking", "replacing", "embedding",
                  "inserting", "finalizing"}
Live          == HandlerStages \cup TaskStages
Stages        == Live \cup {"new", "done", "refused", "lost"}
SplitStates   == AllOutcomes \cup {"none", "todo", "timeout"}
Chunk         == [file : Files, from : Requests, nth : 1..MaxChunks]

TypeOK ==
  /\ redis \in [Keys -> Record]
  /\ stored \subseteq Chunk
  /\ stage \in [Requests -> Stages]
  /\ late \subseteq Requests
  /\ upload \in [Requests -> [Files -> Ops \cup {"none"}]]
  /\ split \in [Requests -> [Files -> SplitStates]]
  /\ chunks \in [Requests -> [Files -> 0..MaxChunks]]
  /\ embedded \in [Requests -> [Files -> 0..MaxChunks]]
  /\ up \in BOOLEAN
  /\ crashes \in 0..MaxCrashes

Init ==
  /\ redis = [k \in Keys |-> Missing]
  /\ stored = {}
  /\ stage = [r \in Requests |-> "new"]
  /\ late = {}
  /\ upload = [r \in Requests |-> [f \in Files |-> "none"]]
  /\ split = [r \in Requests |-> [f \in Files |-> "none"]]
  /\ chunks = [r \in Requests |-> [f \in Files |-> 0]]
  /\ embedded = [r \in Requests |-> [f \in Files |-> 0]]
  /\ up = TRUE
  /\ crashes = 0

-----------------------------------------------------------------------------
Listed(r)   == {f \in Files : upload[r][f] \notin {"none", "unlisted"}}
Contents(r) == {f \in Files : upload[r][f] \in {"write", "unlisted"}}   \* the files map of the task

Running == {r \in Requests : stage[r] \in TaskStages}
Blocked == {r \in Requests : stage[r] = "blocked"}
FreeGoroutine == Cardinality(Running) < PoolSize

Chunked(r)     == {f \in Files : split[r][f] = "chunked"}
Unsupported(r) == {f \in Files : split[r][f] \in {"empty", "unsupported", "broken"}}
Matched(r)     == UNION {Alike[f] : f \in Chunked(r)}    \* the files DeleteCodeChunks finds chunks of

At(r, s) == up /\ stage[r] = s
Goto(r, s) == stage' = [stage EXCEPT ![r] = s]

(***************************************************************************)
(* A call that takes the context of upload r fails once that context has   *)
(* expired, and may fail when the service it goes to does.                 *)
(***************************************************************************)
CanSucceed(r)       == r \notin late
CanFail(r, service) == r \in late \/ service \in Faults

(***************************************************************************)
(* UpdateFileStatus for key k by upload r: rec is what updateFn makes of   *)
(* the record.  Its error is logged or dropped by every caller.            *)
(***************************************************************************)
Update(r, k, rec) ==
  \/ CanSucceed(r) /\ redis' = [redis EXCEPT ![k] = rec]
  \/ CanFail(r, "redis") /\ UNCHANGED redis

-----------------------------------------------------------------------------
(* The handler.                                                            *)

(***************************************************************************)
(* SubmitTask up to the status initialisation: the codebase row is found   *)
(* or created and the ZIP is read.  "missing" is a path listed for add or  *)
(* modify that the ZIP does not hold; "unlisted" is a file of the ZIP that *)
(* is listed under another name, with slashes for its backslashes.  Other  *)
(* files of the ZIP are skipped: all of them when the list does not parse, *)
(* for it is empty then.                                                   *)
(***************************************************************************)
Receive(r) ==
  /\ At(r, "new")
  /\ Goto(r, "received")
  /\ \E list \in [Files -> Ops] : upload' = [upload EXCEPT ![r] = list]
  /\ UNCHANGED <<redis, stored, late, taskVars, serverVars>>

\* A ZIP or a database error before that: the client gets the error, no record is written.
Refuse(r) ==
  /\ At(r, "new")
  /\ Goto(r, "refused")
  /\ UNCHANGED <<redis, stored, late, upload, taskVars, serverVars>>

InitStatus(r) ==
  /\ At(r, "received")
  /\ Goto(r, "deleting")
  /\ Update(r, r, ListFiles(Fetched(redis[r]), Listed(r)))
  /\ UNCHANGED <<stored, late, upload, taskVars, serverVars>>

(***************************************************************************)
(* deleteFilesFromVectorDB: DeleteDictionary for every path listed for     *)
(* delete.  Its options name the codebase but no client, so that           *)
(* generateTenantName refuses, and the error of DeleteDictionary is        *)
(* dropped: nothing is removed.                                            *)
(***************************************************************************)
DeleteListed(r) ==
  /\ At(r, "deleting")
  /\ Goto(r, "renaming")
  /\ UNCHANGED <<redis, stored, late, upload, taskVars, serverVars>>

(***************************************************************************)
(* executeRenameTasks.  UpdateCodeChunksDictionary finds the chunks of the *)
(* file and of its look-alikes.  <path>/ is in the path of none, so that   *)
(* none gets a new path, but each is written over the chunks its own path  *)
(* finds: what is lost was overwritten by one that is left.  How many are  *)
(* depends on the order of the records and on where a call fails; the      *)
(* error is dropped.  The status update then goes to getTaskRequestId(ctx),*)
(* always empty, and looks for items the record under that key does not    *)
(* have.                                                                   *)
(***************************************************************************)
Renamed(r) == {f \in Files : upload[r][f] = "rename"}
Found(r)   == {c \in stored : \E f \in Renamed(r) : c.file \in Alike[f]}

RenameListed(r) ==
  /\ At(r, "renaming")
  /\ Goto(r, "saving")
  /\ IF Renamed(r) # {}
       THEN Update(r, NoId, Fetched(redis[NoId]))
       ELSE UNCHANGED redis
  /\ \E lost \in SUBSET stored :
       /\ stored' = stored \ lost
       /\ \A c \in lost : \E d \in Found(r) \ lost : c.file \in Alike[d.file]
  /\ UNCHANGED <<late, upload, taskVars, serverVars>>

\* updateCodebaseInfo: an error ends the handler and leaves the record as it is.
SaveCodebase(r) ==
  /\ At(r, "saving")
  /\ \/ CanSucceed(r) /\ Goto(r, "submitting")
     \/ CanFail(r, "db") /\ Goto(r, "refused")
  /\ UNCHANGED <<redis, stored, late, upload, taskVars, serverVars>>

FinishEmpty(r) ==
  /\ At(r, "submitting")
  /\ Contents(r) = {}
  /\ Goto(r, "done")
  /\ Update(r, r, MarkAllCompleted(Fetched(redis[r])))
  /\ UNCHANGED <<stored, late, upload, taskVars, serverVars>>

(***************************************************************************)
(* TaskPool.Submit: a free goroutine takes the task, or the handler waits  *)
(* for one, or QueueSize handlers wait already and the pool refuses it.    *)
(* The task gets a context of its own.                                     *)
(***************************************************************************)
StartTask(r) ==
  /\ Goto(r, "splitting")
  /\ late' = late \ {r}
  /\ split' = [split EXCEPT ![r] = [f \in Files |-> IF f \in Contents(r) THEN "todo" ELSE "none"]]
  /\ UNCHANGED <<redis, stored, upload, chunks, embedded, serverVars>>

SubmitRuns(r) ==
  /\ At(r, "submitting")
  /\ Contents(r) # {}
  /\ FreeGoroutine
  /\ StartTask(r)

SubmitWaits(r) ==
  /\ At(r, "submitting")
  /\ Contents(r) # {}
  /\ ~FreeGoroutine
  /\ IF Cardinality(Blocked) < QueueSize THEN Goto(r, "blocked") ELSE Goto(r, "refused")
  /\ UNCHANGED <<redis, stored, late, upload, taskVars, serverVars>>

\* Faulty variant: the waiting handler does not look for a free goroutine again.
UnblockUnchecked(r) ==
  /\ At(r, "blocked")
  /\ StartTask(r)

Unblock(r) ==
  /\ At(r, "blocked")
  /\ FreeGoroutine
  /\ StartTask(r)

-----------------------------------------------------------------------------
(* The task.                                                               *)

\* processFile: one file through the splitter, unless the context is over.
SplitFile(r, f) ==
  /\ At(r, "splitting")
  /\ split[r][f] = "todo"
  /\ IF r \in late
       THEN split' = [split EXCEPT ![r][f] = "timeout"] /\ UNCHANGED chunks
       ELSE \E res \in SplitOutcomes :
              /\ split' = [split EXCEPT ![r][f] = res]
              /\ IF res = "chunked"
                   THEN \E n \in 1..MaxChunks : chunks' = [chunks EXCEPT ![r][f] = n]
                   ELSE UNCHANGED chunks
  /\ UNCHANGED <<redis, stored, stage, late, upload, embedded, serverVars>>

\* Faulty variant: the errors of the files are dropped.
SplitDoneWithoutErrors(r) ==
  /\ At(r, "splitting")
  /\ \A f \in Files : split[r][f] # "todo"
  /\ Goto(r, "marking")
  /\ UNCHANGED <<redis, stored, late, upload, taskVars, serverVars>>

\* processFilesConcurrently returns when every file is done: an error if any file had one.
SplitDone(r) ==
  /\ At(r, "splitting")
  /\ \A f \in Files : split[r][f] # "todo"
  /\ Goto(r, IF \E f \in Files : split[r][f] \in {"broken", "timeout"} THEN "failing" ELSE "marking")
  /\ UNCHANGED <<redis, stored, late, upload, taskVars, serverVars>>

\* ... or, with an error, as soon as the context is over.
SplitTimeout(r) ==
  /\ At(r, "splitting")
  /\ r \in late
  /\ Goto(r, "failing")
  /\ UNCHANGED <<redis, stored, late, upload, taskVars, serverVars>>

\* The error branch: report the files the splitter refused, if any, and end the task.
MarkFailed(r) ==
  /\ At(r, "failing")
  /\ Goto(r, "done")
  /\ IF Unsupported(r) # {}
       THEN Update(r, r, MarkUnsupported(Fetched(redis[r]), Unsupported(r)))
       ELSE UNCHANGED redis
  /\ UNCHANGED <<stored, late, upload, taskVars, serverVars>>

MarkUnsupportedFiles(r) ==
  /\ At(r, "marking")
  /\ Goto(r, IF Chunked(r) = {} THEN "finalizing" ELSE "replacing")
  /\ IF Unsupported(r) # {}
       THEN Update(r, r, MarkUnsupported(Fetched(redis[r]), Unsupported(r)))
       ELSE UNCHANGED redis
  /\ UNCHANGED <<stored, late, upload, taskVars, serverVars>>

\* UpsertCodeChunks, first half: DeleteCodeChunks; its error is only logged.
\* A delete that fails may have removed a part.
DeleteOld(r) ==
  /\ At(r, "replacing")
  /\ Goto(r, "embedding")
  /\ LET old == {c \in stored : c.file \in Matched(r)}
     IN  \/ CanSucceed(r) /\ stored' = stored \ old
         \/ CanFail(r, "vector") /\ \E part \in SUBSET old : stored' = stored \ part
  /\ UNCHANGED <<redis, late, upload, taskVars, serverVars>>

\* A file is embedded chunk after chunk; its chunks are adjacent in the task's list.
InProgress(r) == {f \in Chunked(r) : embedded[r][f] \in 1..(chunks[r][f] - 1)}
NextFiles(r)  == IF InProgress(r) # {} THEN InProgress(r)
                 ELSE {f \in Chunked(r) : embedded[r][f] = 0}

\* EmbedCodeChunks, one batch: the first chunk of a file marks the file completed.
EmbedBatch(r) ==
  /\ At(r, "embedding")
  /\ CanSucceed(r)
  /\ \E f \in NextFiles(r) :
       /\ embedded' = [embedded EXCEPT ![r][f] = @ + 1]
       /\ IF embedded[r][f] = 0
            THEN Update(r, r, MarkEmbedded(Fetched(redis[r]), f))
            ELSE UNCHANGED redis
  /\ UNCHANGED <<stored, stage, late, upload, split, chunks, serverVars>>

\* Faulty variant: a batch that fails is tried again for ever.
EmbedOverAfterAll(r) ==
  /\ At(r, "embedding")
  /\ NextFiles(r) = {}
  /\ Goto(r, "inserting")
  /\ Update(r, r, MarkEmbeddingOver(Fetched(redis[r])))
  /\ UNCHANGED <<stored, late, upload, taskVars, serverVars>>

\* ... until no batch is left or one fails; either way the record says "complete".
EmbedOver(r) ==
  /\ At(r, "embedding")
  /\ NextFiles(r) = {} \/ CanFail(r, "embed")
  /\ Goto(r, "inserting")
  /\ Update(r, r, MarkEmbeddingOver(Fetched(redis[r])))
  /\ UNCHANGED <<stored, late, upload, taskVars, serverVars>>

\* Faulty variant: the last vector of a file is not written.
InsertAllButLast(r) ==
  /\ At(r, "inserting")
  /\ Goto(r, "finalizing")
  /\ stored' = stored \cup {c \in Chunk : c.from = r /\ c.nth \in 1..(embedded[r][c.file] - 1)}
  /\ UNCHANGED <<redis, late, upload, taskVars, serverVars>>

\* InsertCodeChunks: what has a vector is written; a failing batch may be written in part.
Insert(r) ==
  /\ At(r, "inserting")
  /\ Goto(r, "finalizing")
  /\ LET objs == {c \in Chunk : c.from = r /\ c.nth \in 1..embedded[r][c.file]}
     IN  \/ CanSucceed(r) /\ stored' = stored \cup objs
         \/ CanFail(r, "vector") /\ \E part \in SUBSET objs : stored' = stored \cup part
  /\ UNCHANGED <<redis, late, upload, taskVars, serverVars>>

\* Faulty variant: the last update completes the items with the record.
FinalizeItems(r) ==
  /\ At(r, "finalizing")
  /\ Goto(r, "done")
  /\ Update(r, r, MarkAllCompleted(Fetched(redis[r])))
  /\ UNCHANGED <<stored, late, upload, taskVars, serverVars>>

\* The last update of Process, made whether or not the upsert succeeded.
Finalize(r) ==
  /\ At(r, "finalizing")
  /\ Goto(r, "done")
  /\ Update(r, r, MarkCompleted(Fetched(redis[r])))
  /\ UNCHANGED <<stored, late, upload, taskVars, serverVars>>

-----------------------------------------------------------------------------
(* The environment.                                                        *)

\* The request context is cancelled or the task's timeout passes.
Deadline(r) ==
  /\ up
  /\ "deadline" \in Faults
  /\ stage[r] \in Live
  /\ r \notin late
  /\ late' = late \cup {r}
  /\ UNCHANGED <<redis, stored, stage, upload, taskVars, serverVars>>

\* Redis drops a record DefaultExpiration after its last write.
Expire(k) ==
  /\ "expiry" \in Faults
  /\ redis[k] # Missing
  /\ redis' = [redis EXCEPT ![k] = Missing]
  /\ UNCHANGED <<stored, stage, late, upload, taskVars, serverVars>>

Crash ==
  /\ up
  /\ crashes < MaxCrashes
  /\ up' = FALSE
  /\ crashes' = crashes + 1
  /\ stage' = [r \in Requests |-> IF stage[r] \in Live THEN "lost" ELSE stage[r]]
  /\ late' = {}
  /\ UNCHANGED <<redis, stored, upload, taskVars>>

\* Faulty variant: the reset is made while the server serves.
ResetWhileServing ==
  /\ up' = TRUE
  /\ redis' = [k \in Keys |-> ResetRecord(redis[k])]
  /\ UNCHANGED <<stored, stage, late, upload, taskVars, crashes>>

\* main: ResetPendingAndProcessingTasksToFailed, before any handler is registered.
Restart ==
  /\ ~up
  /\ up' = TRUE
  /\ \/ redis' = [k \in Keys |-> ResetRecord(redis[k])]
     \/ "redis" \in Faults /\ UNCHANGED redis
  /\ UNCHANGED <<stored, stage, late, upload, taskVars, crashes>>

-----------------------------------------------------------------------------
HandlerStep(r) ==
  \/ InitStatus(r) \/ DeleteListed(r) \/ RenameListed(r) \/ SaveCodebase(r)
  \/ FinishEmpty(r) \/ SubmitRuns(r) \/ SubmitWaits(r) \/ Unblock(r)

TaskStep(r) ==
  \/ \E f \in Files : SplitFile(r, f)
  \/ SplitDone(r) \/ SplitTimeout(r) \/ MarkFailed(r) \/ MarkUnsupportedFiles(r)
  \/ DeleteOld(r) \/ EmbedBatch(r) \/ EmbedOver(r) \/ Insert(r) \/ Finalize(r)

Next ==
  \/ \E r \in Requests : Receive(r) \/ Refuse(r) \/ HandlerStep(r) \/ TaskStep(r) \/ Deadline(r)
  \/ \E k \in Keys : Expire(k)
  \/ Crash
  \/ Restart

(***************************************************************************)
(* Goroutines are scheduled: a handler or a task that can go on does.  A   *)
(* crashed server is restarted.  Clients, failures and crashes are free.   *)
(***************************************************************************)
Fairness ==
  /\ \A r \in Requests : WF_vars(HandlerStep(r)) /\ WF_vars(TaskStep(r))
  /\ WF_vars(Restart)

Spec     == Init /\ [][Next]_vars
FairSpec == Spec /\ Fairness
-----------------------------------------------------------------------------
(* Safety.                                                                 *)

(***************************************************************************)
(* Every record the running list shows belongs to an upload whose handler  *)
(* or task is alive: no record is left "pending" or "processing" by a      *)
(* handler or task that is gone.  docs/charts/running_tasks.md promises    *)
(* it.  Not so: SubmitTask and Process have returns that forget the        *)
(* record, and a rename makes one that belongs to no upload.               *)
(***************************************************************************)
RunningTasksAreLive ==
  up => \A k \in Keys : IsRunning(redis[k]) => k \in Requests /\ stage[k] \in Live

(***************************************************************************)
(* The orphans of the running list are of two kinds: a handler made the    *)
(* record and was then turned away by the database or the pool, or the     *)
(* context of the handler or task expired, with which it makes its last    *)
(* update too.  The splitter, the embedder, the vector store and a crash   *)
(* with its restart leave none.                                            *)
(***************************************************************************)
OrphansWereTurnedAway ==
  up => \A r \in Requests :
          IsRunning(redis[r]) => stage[r] \in Live \cup {"refused"} \/ r \in late

(***************************************************************************)
(* A record says "completed" only when the upload is over, or when the     *)
(* splitter refused one of its files: Process marks such files with an     *)
(* update that also sets the record "completed", ahead of the upsert.      *)
(***************************************************************************)
CompletedMeansOver ==
  \A r \in Requests : IsCompleted(redis[r]) => stage[r] = "done" \/ Unsupported(r) # {}

(***************************************************************************)
(* "failed" is the word of the reset that main makes before it serves      *)
(* anything, so no record says it of an upload that is still at work, or   *)
(* has not come yet.                                                       *)
(***************************************************************************)
FailedMeansOver ==
  \A r \in Requests : IsFailed(redis[r]) => stage[r] \notin Live \cup {"new"}

(***************************************************************************)
(* A file item says "completed" only if a chunk of the file has its        *)
(* vector, or the upload has no content at all: the writers of FileList    *)
(* (handler, Process, EmbedCodeChunks) never promote another file.         *)
(***************************************************************************)
CompletedItemsEmbedded ==
  \A r \in Requests : \A f \in Files :
    redis[r].items[f] = "completed" => embedded[r][f] > 0 \/ Contents(r) = {}

\* Tasks that have deleted, or may have deleted, the chunks of f stored before them.
Replacers(f) == {s \in Requests : /\ f \in Matched(s)
                                  /\ stage[s] \in {"embedding", "inserting", "finalizing", "done", "lost"}}

IsStored(r, f) == \A n \in 1..chunks[r][f] : [file |-> f, from |-> r, nth |-> n] \in stored

(***************************************************************************)
(* When a record says "completed", every chunk of every file of the upload *)
(* is stored, unless another task has replaced the file, or a file it      *)
(* looks like, meanwhile: the last update of Process hides no lost write.  *)
(***************************************************************************)
CompletedMeansIndexed ==
  \A r \in Requests : IsCompleted(redis[r]) =>
    \A f \in Chunked(r) : Replacers(f) \subseteq {r} => IsStored(r, f)

(***************************************************************************)
(* Tasks that write the same file at the same time lose none of it: once   *)
(* all that replaced a file are completed, one of its versions is stored   *)
(* as a whole.  The two calls of UpsertCodeChunks, delete and insert, may  *)
(* interleave with those of any number of other tasks of the pool.         *)
(***************************************************************************)
SomeVersionStays ==
  \A f \in Files :
    (/\ Replacers(f) # {}
     /\ \A s \in Replacers(f) : f \in Chunked(s) /\ IsCompleted(redis[s]))
      => \E s \in Replacers(f) : IsStored(s, f)

(***************************************************************************)
(* The chunks stored for a file are those of one upload: UpsertCodeChunks  *)
(* deletes before it inserts so that versions do not mix.  Not so: another *)
(* task's upsert may come between the two calls.                           *)
(***************************************************************************)
NoMixedVersions ==
  \A c, d \in stored : c.file = d.file => c.from = d.from

(***************************************************************************)
(* A file that only one upload has written is stored when that upload is   *)
(* completed, whatever other files others write: UpsertCodeChunks deletes  *)
(* what has the same file path, as its comment says.  Not so: it deletes   *)
(* the chunks of look-alikes, too.                                         *)
(***************************************************************************)
OwnFilesStay ==
  \A r \in Requests : IsCompleted(redis[r]) =>
    \A f \in Chunked(r) : (\A s \in Requests \ {r} : f \notin Chunked(s)) => IsStored(r, f)

(***************************************************************************)
(* A record says "completed" only when its task is over, as the guide for  *)
(* clients says: the answer that ends their polling.  Not so when a file   *)
(* was refused, see CompletedMeansOver.                                    *)
(***************************************************************************)
CompletedMeansDone ==
  \A r \in Requests : IsCompleted(redis[r]) => stage[r] = "done"

-----------------------------------------------------------------------------
(* Steps.                                                                  *)

\* A file reported unsupported stays so: no later update of the upload overwrites the verdict.
UnsupportedSticks ==
  [][\A r \in Requests : \A f \in Files :
       redis[r].items[f] = "unsupported"
         => redis'[r].items[f] = "unsupported" \/ redis'[r] = Missing]_vars

(***************************************************************************)
(* "completed" is the last word on an upload, for its own task and for     *)
(* every restart.  Only the embedder takes it back, for an upload with a   *)
(* refused file: Process has said it too early then, and says it again.    *)
(***************************************************************************)
CompletedIsFinal ==
  [][\A r \in Requests : IsCompleted(redis[r])
       => \/ IsCompleted(redis'[r]) \/ redis'[r] = Missing
          \/ stage[r] = "embedding" /\ Unsupported(r) # {}]_vars

-----------------------------------------------------------------------------
(* Refinement.                                                             *)

(***************************************************************************)
(* The handlers and tasks of this module use the pool as TaskPool says a   *)
(* pool is used: Submit and Run never run more than PoolSize tasks, never  *)
(* leave more than QueueSize handlers waiting and never enter one twice.   *)
(***************************************************************************)
Pool == INSTANCE TaskPool WITH
  Tasks <- Requests, Size <- PoolSize, MaxWaiting <- QueueSize,
  running <- Running, waiting <- Blocked,
  over <- {r \in Requests : stage[r] \in {"done", "refused", "lost"}}

PoolIsRespected == Pool!PoolSpec

(***************************************************************************)
(* The splitting of a task's files is SplitPhase, whose other side is      *)
(* SplitWorkers: a task goes on to the vector store only when every file   *)
(* has its verdict and none is an error.                                   *)
(***************************************************************************)
SplitResult(r) ==
  IF \A f \in Files : split[r][f] = "none" THEN "idle"
  ELSE CASE stage[r] = "splitting" -> "running"
         [] stage[r] = "failing"   -> "error"
         [] stage[r] = "done"      -> "over"
         [] stage[r] = "lost"      -> "lost"
         [] OTHER                  -> "ok"

Phase(r) == INSTANCE SplitPhase WITH
  Outcomes <- SplitStates, split <- split[r], result <- SplitResult(r)

SplitsAsAgreed ==
  /\ \A r \in Requests : Phase(r)!PhaseInit
  /\ [][\A r \in Requests : [Phase(r)!PhaseNext]_(Phase(r)!phaseVars)]_vars

-----------------------------------------------------------------------------
(* Liveness, under FairSpec.                                               *)

\* Every task leaves the pool, however it fails: no goroutine of the pool is lost.
TasksTerminate ==
  \A r \in Requests : (stage[r] \in TaskStages) ~> (stage[r] \in {"done", "lost"})

(***************************************************************************)
(* Polling for an upload ends once its record is made: it gets a final     *)
(* status and keeps one, through a crash and a restart too.  Two kinds     *)
(* are left out: one the pool or the database turned away after its record *)
(* was made, and one whose task was lost when the record said "complete",  *)
(* the word that neither the task's end nor the reset replaces then.       *)
(***************************************************************************)
Ended(r) ==
  \/ redis[r].process \in {"completed", "failed"}
  \/ stage[r] = "refused"
  \/ stage[r] = "lost" /\ redis[r].process = "complete"

PollingEnds == \A r \in Requests : (stage[r] = "deleting") ~> []Ended(r)
=============================================================================
