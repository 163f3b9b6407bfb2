----------------------------- MODULE StatusStore -----------------------------
(***************************************************************************)
(* StatusManager on a shared Redis.  UpdateFileStatus is a GET, updateFn   *)
(* on the copy, and a SET; ResetPendingAndProcessingTasksToFailed, which   *)
(* every server runs when it starts, is a SCAN and then a GET and a SET    *)
(* for each key.  Nothing holds the key in between.                        *)
(*                                                                         *)
(* An upload is served by one server, whose handler and task update its    *)
(* record one after the other.  Servers crash and are started again, while *)
(* the others go on serving.  A record may expire at any time, also        *)
(* between a GET and its SET.                                              *)
(***************************************************************************)
EXTENDS Integers, FiniteSets

CONSTANTS
  Requests,     \* uploads, named by their X-Request-ID
  Files,        \* file paths of the codebase
  Servers,      \* replicas of the deployment
  Home,         \* the server an upload is sent to
  MaxCrashes,   \* bound: crashes of all servers together
  NoCopy        \* no record is held between a GET and a SET

ASSUME HomeAssumption  == Home \in [Requests -> Servers]
ASSUME BoundAssumption == MaxCrashes \in Nat

INSTANCE FileStatus

ASSUME NoCopyAssumption == NoCopy \notin Record /\ NoCopy \notin [key : Requests, rec : Record]

VARIABLES
  redis,     \* status record of every upload
  alive,     \* uploads whose handler or task runs
  over,      \* uploads whose handler or task has ended or was lost
  held,      \* UpdateFileStatus: the updated copy, between GET and SET
  server,    \* what each server does
  scan,      \* reset: the keys its SCAN still yields
  copy,      \* reset: the key and updated copy, between GET and SET
  crashes,
  last,      \* history: what the record of an upload was when it was last there
  met        \* history: uploads that were alive while another server reset

vars == <<redis, alive, over, held, server, scan, copy, crashes, last, met>>
recordVars == <<redis, last>>
uploadVars == <<alive, over, held, met>>
serverVars == <<server, scan, copy, crashes>>

TypeOK ==
  /\ redis \in [Requests -> Record]
  /\ alive \subseteq Requests
  /\ over \subseteq Requests
  /\ held \in [Requests -> Record \cup {NoCopy}]
  /\ server \in [Servers -> {"down", "resetting", "up"}]
  /\ scan \in [Servers -> SUBSET Requests]
  /\ copy \in [Servers -> [key : Requests, rec : Record] \cup {NoCopy}]
  /\ crashes \in 0..MaxCrashes
  /\ last \in [Requests -> Record]
  /\ met \subseteq Requests

Init ==
  /\ redis = [r \in Requests |-> Missing]
  /\ alive = {}
  /\ over = {}
  /\ held = [r \in Requests |-> NoCopy]
  /\ server = [p \in Servers |-> "down"]
  /\ scan = [p \in Servers |-> {}]
  /\ copy = [p \in Servers |-> NoCopy]
  /\ crashes = 0
  /\ last = [r \in Requests |-> Missing]
  /\ met = {}

\* SetFileStatusByRequestId succeeds: the whole record is written, with a new time to live.
Write(r, rec) ==
  /\ redis' = [redis EXCEPT ![r] = rec]
  /\ last' = [last EXCEPT ![r] = rec]

\* The time to live of a record is over.
Expire(r) ==
  /\ redis[r] # Missing
  /\ redis' = [redis EXCEPT ![r] = Missing]
  /\ UNCHANGED <<last, uploadVars, serverVars>>

-----------------------------------------------------------------------------
(* The handler of an upload and then its task.                             *)

\* An upload that begins while another server resets is met by that reset.
MeetOne(r) == IF \E p \in Servers \ {Home[r]} : server[p] = "resetting" THEN met \cup {r} ELSE met

\* Faulty variant: the server listens before the reset is through.
BeginEarly(r) ==
  /\ server[Home[r]] # "down"
  /\ r \notin alive \cup over
  /\ alive' = alive \cup {r}
  /\ met' = MeetOne(r)
  /\ UNCHANGED <<recordVars, over, held, serverVars>>

Begin(r) ==
  /\ server[Home[r]] = "up"
  /\ r \notin alive \cup over
  /\ alive' = alive \cup {r}
  /\ met' = MeetOne(r)
  /\ UNCHANGED <<recordVars, over, held, serverVars>>

\* Faulty variant: the task does not wait for its last update.
EndEarly(r) ==
  /\ r \in alive
  /\ alive' = alive \ {r}
  /\ over' = over \cup {r}
  /\ UNCHANGED <<recordVars, held, met, serverVars>>

End(r) ==
  /\ r \in alive
  /\ held[r] = NoCopy
  /\ alive' = alive \ {r}
  /\ over' = over \cup {r}
  /\ UNCHANGED <<recordVars, held, met, serverVars>>

\* UpdateFileStatus, first half.  A GET that fails ends the call: nothing happens.
Get(r) ==
  /\ r \in alive
  /\ held[r] = NoCopy
  /\ \E rec \in Updates(Fetched(redis[r])) : held' = [held EXCEPT ![r] = rec]
  /\ UNCHANGED <<recordVars, alive, over, met, serverVars>>

\* UpdateFileStatus, second half: SetFileStatusByRequestId, which may fail.
Set(r) ==
  /\ held[r] # NoCopy
  /\ held' = [held EXCEPT ![r] = NoCopy]
  /\ Write(r, held[r]) \/ UNCHANGED recordVars
  /\ UNCHANGED <<alive, over, met, serverVars>>

-----------------------------------------------------------------------------
(* A server.                                                               *)

(***************************************************************************)
(* main begins with the reset.  SCAN yields every key that is there from   *)
(* its start to its end, and perhaps keys that appear meanwhile.           *)
(***************************************************************************)
Start(p) ==
  /\ server[p] = "down"
  /\ server' = [server EXCEPT ![p] = "resetting"]
  /\ \E keys \in SUBSET Requests :
       /\ {r \in Requests : redis[r] # Missing} \subseteq keys
       /\ scan' = [scan EXCEPT ![p] = keys]
  /\ met' = met \cup alive
  /\ UNCHANGED <<recordVars, alive, over, held, copy, crashes>>

\* The next key of the SCAN: a record that is pending or processing is copied, as failed.
ResetGet(p) ==
  /\ server[p] = "resetting"
  /\ copy[p] = NoCopy
  /\ \E r \in scan[p] :
       /\ scan' = [scan EXCEPT ![p] = @ \ {r}]
       /\ IF redis[r].process \in {"pending", "processing"}
            THEN copy' = [copy EXCEPT ![p] = [key |-> r, rec |-> ResetRecord(redis[r])]]
            ELSE UNCHANGED copy
  /\ UNCHANGED <<recordVars, uploadVars, server, crashes>>

\* ... and written back; a SET that fails is logged and the loop goes on.
ResetSet(p) ==
  /\ copy[p] # NoCopy
  /\ copy' = [copy EXCEPT ![p] = NoCopy]
  /\ Write(copy[p].key, copy[p].rec) \/ UNCHANGED recordVars
  /\ UNCHANGED <<uploadVars, server, scan, crashes>>

\* The server listens when the reset is through, or when a GET or the SCAN has failed.
Serve(p) ==
  /\ server[p] = "resetting"
  /\ copy[p] = NoCopy
  /\ server' = [server EXCEPT ![p] = "up"]
  /\ scan' = [scan EXCEPT ![p] = {}]
  /\ UNCHANGED <<recordVars, uploadVars, copy, crashes>>

Crash(p) ==
  /\ server[p] # "down"
  /\ crashes < MaxCrashes
  /\ crashes' = crashes + 1
  /\ server' = [server EXCEPT ![p] = "down"]
  /\ scan' = [scan EXCEPT ![p] = {}]
  /\ copy' = [copy EXCEPT ![p] = NoCopy]
  /\ LET lost == {r \in alive : Home[r] = p}
     IN  /\ alive' = alive \ lost
         /\ over' = over \cup lost
         /\ held' = [r \in Requests |-> IF r \in lost THEN NoCopy ELSE held[r]]
  /\ UNCHANGED <<recordVars, met>>

Next ==
  \/ \E r \in Requests : Begin(r) \/ Get(r) \/ Set(r) \/ End(r) \/ Expire(r)
  \/ \E p \in Servers : Start(p) \/ ResetGet(p) \/ ResetSet(p) \/ Serve(p) \/ Crash(p)

Spec == Init /\ [][Next]_vars
-----------------------------------------------------------------------------
(* Properties.                                                             *)

(***************************************************************************)
(* A record says "failed" of an upload whose handler or task runs only     *)
(* when another server was starting while that upload ran.  Its own        *)
(* server's reset never meets it: main is through with the reset before it *)
(* listens.                                                                *)
(***************************************************************************)
OnlyStartsFail ==
  \A r \in alive \ met : ~IsFailed(redis[r])

(***************************************************************************)
(* The two-step updates and the two-step reset are as good as the atomic   *)
(* ones of AtomicStatus, for every upload that no start of another server  *)
(* meets: no update is lost, none is made of a stale record, none is made  *)
(* over, except that a record which expires between the two steps is back. *)
(***************************************************************************)
Atomic == INSTANCE AtomicStatus

UpdatesAreAtomic == Atomic!ASpec

-----------------------------------------------------------------------------
(* What the documents say of any number of servers.  Not so.               *)

(***************************************************************************)
(* A record says "failed" only of an upload whose handler and task are     *)
(* gone: the list of failed tasks has no running one in it.                *)
(***************************************************************************)
FailedMeansDead ==
  \A r \in Requests : IsFailed(redis[r]) => r \notin alive

(***************************************************************************)
(* The reset turns no "completed" record into a "failed" one: it is for    *)
(* records that are pending or processing, as its comment says, also when  *)
(* it writes and not only when it reads.                                   *)
(***************************************************************************)
CompletedNeverFails ==
  [][\A r \in Requests : IsCompleted(redis[r]) => ~IsFailed(redis'[r])]_vars
=============================================================================
