----------------------------- MODULE SplitWorkers -----------------------------
(***************************************************************************)
(* processFilesConcurrently with the processFile of an embedding task: the *)
(* goroutine of the task gives the files one by one to a pool of workers   *)
(* of its own, a goroutine waits for them all and closes a channel, and    *)
(* the task goes on when the channel is closed or its context is over.     *)
(* Workers that are left behind go on, and append to the lists of the task *)
(* under a mutex; the task reads the lists without it.                     *)
(***************************************************************************)
EXTENDS Integers, FiniteSets

CONSTANTS
  Files,           \* the files of the task
  MaxConcurrency,  \* EmbeddingTask.MaxConcurrency: workers of the pool
  MayExpire,       \* the context of the task may expire
  NoFile           \* no file is being submitted

ASSUME FilesAssumption       == Files # {} /\ IsFiniteSet(Files) /\ NoFile \notin Files
ASSUME ConcurrencyAssumption == MaxConcurrency \in Nat \ {0}
ASSUME MayExpireAssumption   == MayExpire \in BOOLEAN

VARIABLES
  caller,       \* the goroutine of the task
  unsent,       \* files it has still to submit
  offer,        \* the file it is submitting
  pc,           \* where the closure of each file is
  verdict,      \* what processFile found for each file
  unsupported,  \* the list unsupportedFiles
  added,        \* files with chunks in the list addChunks
  runErrs,      \* files with an error in the list runErrs
  counts,       \* successFileCnt, ignoreFileCnt and failedFileCnt
  closed,       \* the channel done is closed
  late          \* the context is over

callerVars == <<caller, unsent, offer>>
lists      == <<unsupported, added, counts>>
vars       == <<callerVars, pc, verdict, lists, runErrs, closed, late>>

Outcomes == {"chunked", "empty", "unsupported", "broken"}
Verdicts == Outcomes \cup {"timeout", "refused"}
Failures == {"broken", "timeout", "refused"}    \* the verdicts with an error

TypeOK ==
  /\ caller \in {"idle", "submitting", "waiting", "ok", "error"}
  /\ unsent \subseteq Files
  /\ offer \in Files \cup {NoFile}
  /\ pc \in [Files -> {"unsent", "checking", "splitting", "recording", "reporting", "done"}]
  /\ verdict \in [Files -> Verdicts \cup {"todo"}]
  /\ unsupported \subseteq Files /\ added \subseteq Files /\ runErrs \subseteq Files
  /\ counts \in [{"success", "ignored", "failed"} -> 0..Cardinality(Files)]
  /\ closed \in BOOLEAN
  /\ late \in BOOLEAN

Init ==
  /\ caller = "idle"
  /\ unsent = Files
  /\ offer = NoFile
  /\ pc = [f \in Files |-> "unsent"]
  /\ verdict = [f \in Files |-> "todo"]
  /\ unsupported = {} /\ added = {} /\ runErrs = {}
  /\ counts = [c \in {"success", "ignored", "failed"} |-> 0]
  /\ closed = FALSE
  /\ late = FALSE

Busy    == {f \in Files : pc[f] \notin {"unsent", "done"}}
Pending == Busy \cup ({offer} \ {NoFile})    \* the count of the wait group

-----------------------------------------------------------------------------
(* The goroutine of the task.                                              *)

Call ==
  /\ caller = "idle"
  /\ caller' = "submitting"
  /\ UNCHANGED <<unsent, offer, pc, verdict, lists, runErrs, closed, late>>

\* The context is not over: take the next file of the map and count it in.
Offer(f) ==
  /\ caller = "submitting" /\ offer = NoFile
  /\ ~late
  /\ f \in unsent
  /\ offer' = f
  /\ unsent' = unsent \ {f}
  /\ UNCHANGED <<caller, pc, verdict, lists, runErrs, closed, late>>

\* pool.Submit returns when a worker takes the file.
Submit ==
  /\ offer # NoFile
  /\ Cardinality(Busy) < MaxConcurrency
  /\ pc' = [pc EXCEPT ![offer] = "checking"]
  /\ offer' = NoFile
  /\ UNCHANGED <<caller, unsent, verdict, lists, runErrs, closed, late>>

\* ... or with an error: the file is counted out, and the error collected with the others.
Refuse ==
  /\ offer # NoFile
  /\ pc' = [pc EXCEPT ![offer] = "done"]
  /\ verdict' = [verdict EXCEPT ![offer] = "refused"]
  /\ runErrs' = runErrs \cup {offer}
  /\ offer' = NoFile
  /\ UNCHANGED <<caller, unsent, lists, closed, late>>

AllSent ==
  /\ caller = "submitting" /\ offer = NoFile /\ unsent = {}
  /\ caller' = "waiting"
  /\ UNCHANGED <<unsent, offer, pc, verdict, lists, runErrs, closed, late>>

\* errs.RunTimeout, from the submit loop or from the last select.
ReturnTimeout ==
  /\ late
  /\ \/ caller = "submitting" /\ offer = NoFile /\ unsent # {}
     \/ caller = "waiting"
  /\ caller' = "error"
  /\ UNCHANGED <<unsent, offer, pc, verdict, lists, runErrs, closed, late>>

\* Faulty variant: runErrs is not looked at.
ReturnDoneWithoutErrors ==
  /\ caller = "waiting"
  /\ closed
  /\ caller' = "ok"
  /\ UNCHANGED <<unsent, offer, pc, verdict, lists, runErrs, closed, late>>

ReturnDone ==
  /\ caller = "waiting"
  /\ closed
  /\ caller' = IF runErrs = {} THEN "ok" ELSE "error"
  /\ UNCHANGED <<unsent, offer, pc, verdict, lists, runErrs, closed, late>>

\* Faulty variant: the file is counted in by the worker, so that a file may be missed.
CloseDoneEarly ==
  /\ caller \notin {"idle", "submitting"}
  /\ \A f \in Files : pc[f] \in {"unsent", "checking", "done"}
  /\ ~closed
  /\ closed' = TRUE
  /\ UNCHANGED <<callerVars, pc, verdict, lists, runErrs, late>>

\* wg.Wait(); close(done)
CloseDone ==
  /\ caller \notin {"idle", "submitting"}
  /\ Pending = {} /\ unsent = {}
  /\ ~closed
  /\ closed' = TRUE
  /\ UNCHANGED <<callerVars, pc, verdict, lists, runErrs, late>>

-----------------------------------------------------------------------------
(* A worker with file f.                                                   *)

Step(f, from, to) == pc[f] = from /\ pc' = [pc EXCEPT ![f] = to]

\* The context is looked at once, before the splitter runs.
Check(f) ==
  /\ IF late THEN /\ Step(f, "checking", "reporting")
                  /\ verdict' = [verdict EXCEPT ![f] = "timeout"]
             ELSE /\ Step(f, "checking", "splitting")
                  /\ UNCHANGED verdict
  /\ UNCHANGED <<callerVars, lists, runErrs, closed, late>>

SplitFile(f) ==
  /\ Step(f, "splitting", "recording")
  /\ \E res \in Outcomes : verdict' = [verdict EXCEPT ![f] = res]
  /\ UNCHANGED <<callerVars, lists, runErrs, closed, late>>

\* Faulty variants: a file without chunks is not listed; a file is counted twice.
RecordChunksOnly(f) ==
  /\ Step(f, "recording", "reporting")
  /\ unsupported' = IF verdict[f] \in {"chunked", "empty"} THEN unsupported ELSE unsupported \cup {f}
  /\ added' = IF verdict[f] = "chunked" THEN added \cup {f} ELSE added
  /\ counts' = [counts EXCEPT !["success"] = @ + 1]
  /\ UNCHANGED <<callerVars, verdict, runErrs, closed, late>>
RecordTwice(f) ==
  /\ Step(f, "recording", "reporting")
  /\ counts' = [counts EXCEPT !["success"] = @ + 2]
  /\ UNCHANGED <<callerVars, verdict, unsupported, added, runErrs, closed, late>>

\* Under the mutex: the lists; then the counter of the verdict.
Record(f) ==
  /\ Step(f, "recording", "reporting")
  /\ unsupported' = IF verdict[f] = "chunked" THEN unsupported ELSE unsupported \cup {f}
  /\ added' = IF verdict[f] = "chunked" THEN added \cup {f} ELSE added
  /\ counts' = LET c == CASE verdict[f] \in {"chunked", "empty"} -> "success"
                          [] verdict[f] = "unsupported"          -> "ignored"
                          [] verdict[f] = "broken"               -> "failed"
               IN  [counts EXCEPT ![c] = @ + 1]
  /\ UNCHANGED <<callerVars, verdict, runErrs, closed, late>>

\* Faulty variant: a file with an error is not counted out.
ReportSuccess(f) ==
  /\ verdict[f] \notin {"broken", "timeout"}
  /\ Step(f, "reporting", "done")
  /\ UNCHANGED <<callerVars, verdict, lists, runErrs, closed, late>>

\* The closure collects the error, and counts the file out.
Report(f) ==
  /\ Step(f, "reporting", "done")
  /\ runErrs' = IF verdict[f] \in Failures THEN runErrs \cup {f} ELSE runErrs
  /\ UNCHANGED <<callerVars, verdict, lists, closed, late>>

Expire ==
  /\ MayExpire
  /\ ~late
  /\ late' = TRUE
  /\ UNCHANGED <<callerVars, pc, verdict, lists, runErrs, closed>>

-----------------------------------------------------------------------------
CallerStep == Call \/ (\E f \in Files : Offer(f)) \/ Submit \/ Refuse \/ AllSent \/ ReturnTimeout \/ ReturnDone
WorkerStep(f) == Check(f) \/ SplitFile(f) \/ Record(f) \/ Report(f)

Next == CallerStep \/ CloseDone \/ (\E f \in Files : WorkerStep(f)) \/ Expire

\* Goroutines are scheduled, and the splitter returns.
Fairness ==
  /\ WF_vars(CallerStep)
  /\ WF_vars(CloseDone)
  /\ \A f \in Files : WF_vars(WorkerStep(f))

Spec     == Init /\ [][Next]_vars
FairSpec == Spec /\ Fairness
-----------------------------------------------------------------------------
(* Properties.                                                             *)

(***************************************************************************)
(* When the call succeeds, the lists hold every file once, in the one that *)
(* fits its verdict, the counters add up, and no worker can change any of  *)
(* this while the task uses them: a context that is over never makes it    *)
(* pass over a file in silence.                                            *)
(***************************************************************************)
SuccessIsComplete ==
  caller = "ok" =>
    /\ Busy = {}
    /\ added = {f \in Files : verdict[f] = "chunked"}
    /\ unsupported = Files \ added
    /\ counts["success"] + counts["ignored"] = Cardinality(Files)

(***************************************************************************)
(* The channel is closed only when no worker has a file left, so that      *)
(* runErrs, read without the mutex after it, is complete.                  *)
(***************************************************************************)
ErrorsAreComplete ==
  closed => runErrs = {f \in Files : verdict[f] \in Failures} /\ Busy = {}

(***************************************************************************)
(* The task reads its lists after the call without the mutex.  A worker    *)
(* may still append to them then, but only when the context was over: with *)
(* any other error, and with none, all of them have ended.                 *)
(***************************************************************************)
ReadsWhenQuiet == caller \in {"ok", "error"} /\ Busy # {} => late

(***************************************************************************)
(* The mutex protects the lists, as the comment at its declaration says:   *)
(* when the task reads them without it, no worker has still to append.     *)
(* Not so after a timeout.                                                 *)
(***************************************************************************)
ListsAreProtected ==
  caller \in {"ok", "error"} => \A f \in Files : pc[f] \notin {"checking", "splitting", "recording"}

\* The call returns, and every worker that was given a file ends, also one left behind.
CallReturns  == <>(caller \in {"ok", "error"})
WorkersEnd   == \A f \in Files : (pc[f] = "checking") ~> (pc[f] = "done")

(***************************************************************************)
(* The call is the splitting phase that a task of IndexTask goes through.  *)
(* A file has its verdict for the task when it is in the lists.            *)
(***************************************************************************)
Recorded(f) ==
  CASE caller = "idle"                   -> "none"
    [] pc[f] \in {"reporting", "done"}  -> verdict[f]
    [] OTHER                             -> "todo"

Phase == INSTANCE SplitPhase WITH
  Outcomes <- Verdicts,
  split    <- [f \in Files |-> Recorded(f)],
  result   <- IF caller \in {"submitting", "waiting"} THEN "running" ELSE caller

IsSplitPhase == Phase!PhaseSpec
=============================================================================
