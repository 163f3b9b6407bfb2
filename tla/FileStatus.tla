------------------------------ MODULE FileStatus ------------------------------
(***************************************************************************)
(* The status record of one upload, kept by StatusManager in Redis under   *)
(* the key request:id:<X-Request-ID>, and the pure part of its operations: *)
(* what each caller's updateFn makes of a record, and which list a record  *)
(* is shown in.                                                            *)
(*                                                                         *)
(* A record is its Process field and its FileList; TotalProgress is left   *)
(* out (no property depends on it).  A key that does not exist is the      *)
(* record Missing, so that the store is a total function on keys.          *)
(***************************************************************************)
CONSTANT Files    \* the paths an upload may list

ItemStates == {"absent", "processing", "completed", "unsupported"}
Processes  == {"missing", "pending", "processing", "complete", "completed", "failed"}
Record     == [process : Processes, items : [Files -> ItemStates]]

NoItems == [f \in Files |-> "absent"]
Missing == [process |-> "missing", items |-> NoItems]

-----------------------------------------------------------------------------
(* UpdateFileStatus: the value its updateFn is applied to.                 *)
Fetched(rec) == IF rec.process = "missing" THEN [rec EXCEPT !.process = "pending"] ELSE rec

(* The updateFn of each caller, as a function from record to record.       *)

\* SubmitTask: every listed path becomes an item "processing".
ListFiles(rec, listed) ==
  [process |-> "processing",
   items   |-> [f \in Files |-> IF f \in listed THEN "processing" ELSE "absent"]]

\* SubmitTask with no content to index: everything listed is done.
MarkAllCompleted(rec) ==
  [process |-> "completed",
   items   |-> [f \in Files |-> IF rec.items[f] = "absent" THEN "absent" ELSE "completed"]]

\* Process: the files the splitter produced nothing for.
MarkUnsupported(rec, unsupported) ==
  [process |-> "completed",
   items   |-> [f \in Files |-> IF f \in unsupported /\ rec.items[f] # "absent"
                                THEN "unsupported" ELSE rec.items[f]]]

\* EmbedCodeChunks: the first chunk of file f came back from the embedding service.
MarkEmbedded(rec, f) ==
  [process |-> "processing",
   items   |-> [g \in Files |-> IF g = f /\ rec.items[g] # "absent"
                                THEN "completed" ELSE rec.items[g]]]

\* Faulty variants: a word nobody reads, the word of the end too early, the word of embedding at the end.
MarkEmbeddingOverByAnotherWord(rec) == [rec EXCEPT !.process = "finished"]
MarkEmbeddingOverAsTheEnd(rec)      == [rec EXCEPT !.process = "completed"]
MarkCompletedAsEmbedded(rec)        == [rec EXCEPT !.process = "complete"]

\* EmbedCodeChunks after its last batch, and Process as its last act.
MarkEmbeddingOver(rec) == [rec EXCEPT !.process = "complete"]
MarkCompleted(rec)     == [rec EXCEPT !.process = "completed"]

\* What any of the callers above may make of a record.
Updates(rec) ==
  {ListFiles(rec, listed) : listed \in SUBSET Files}
  \cup {MarkUnsupported(rec, unsupported) : unsupported \in SUBSET Files}
  \cup {MarkEmbedded(rec, f) : f \in Files}
  \cup {MarkAllCompleted(rec), MarkEmbeddingOver(rec), MarkCompleted(rec)}

\* Faulty variants: the reset forgets a word, or looks at none.
ResetPendingOnly(rec) ==
  IF rec.process = "pending" THEN [rec EXCEPT !.process = "failed"] ELSE rec
ResetWhatever(rec) ==
  IF rec.process # "missing" THEN [rec EXCEPT !.process = "failed"] ELSE rec

\* ResetPendingAndProcessingTasksToFailed, for one key.
ResetRecord(rec) ==
  IF rec.process \in {"pending", "processing"} THEN [rec EXCEPT !.process = "failed"] ELSE rec

-----------------------------------------------------------------------------
(* The lists of the three task queries.                                    *)
IsRunning(rec)   == rec.process \in {"pending", "processing", "running"}
IsCompleted(rec) == rec.process = "completed"
IsFailed(rec)    == rec.process = "failed"
=============================================================================
