----------------------------- MODULE AtomicStatus -----------------------------
(***************************************************************************)
(* What the callers of StatusManager rely on: UpdateFileStatus applies     *)
(* updateFn to the record as it is, in one step, for the handler or task   *)
(* that the key belongs to; and the reset at start-up fails only uploads   *)
(* whose handler and task are gone.                                        *)
(*                                                                         *)
(* Two things are not promised.  A record whose time to live is over may   *)
(* come back with the update that had already read it.  And an upload that *)
(* runs while another server starts is "met": its record may become any.   *)
(***************************************************************************)
EXTENDS Integers, FiniteSets

CONSTANTS Requests, Files

INSTANCE FileStatus

VARIABLES
  redis,   \* status record of every upload
  alive,   \* uploads whose handler or task runs
  over,    \* uploads whose handler or task has ended or was lost
  last,    \* what the record of an upload was when it was last there
  met      \* uploads that were alive while another server started

statusVars == <<redis, alive, over, last, met>>

AInit ==
  /\ redis = [r \in Requests |-> Missing]
  /\ alive = {}
  /\ over = {}
  /\ last = [r \in Requests |-> Missing]
  /\ met = {}

AWrite(r, rec) ==
  /\ redis' = [redis EXCEPT ![r] = rec]
  /\ last' = [last EXCEPT ![r] = rec]
  /\ UNCHANGED <<alive, over, met>>

\* The record as it is or, when it has expired, as it was.
Readable(r) == {redis[r]} \cup (IF redis[r] = Missing THEN {last[r]} ELSE {})

ABegin(r) ==
  /\ r \notin alive \cup over
  /\ alive' = alive \cup {r}
  /\ met' \in {met, met \cup {r}}
  /\ UNCHANGED <<redis, over, last>>

AMeet ==
  /\ met' = met \cup alive
  /\ UNCHANGED <<redis, alive, over, last>>

AUpdate(r) ==
  /\ r \in alive \ met
  /\ \E old \in Readable(r) : \E rec \in Updates(Fetched(old)) : AWrite(r, rec)

AReset(r) ==
  /\ r \notin alive \cup met
  /\ \E old \in Readable(r) : AWrite(r, ResetRecord(old))

ASpoil(r) ==
  /\ r \in met
  /\ \E rec \in Record : AWrite(r, rec)

AExpire(r) ==
  /\ redis' = [redis EXCEPT ![r] = Missing]
  /\ UNCHANGED <<alive, over, last, met>>

AEnd(lost) ==
  /\ lost \subseteq alive
  /\ alive' = alive \ lost
  /\ over' = over \cup lost
  /\ UNCHANGED <<redis, last, met>>

ANext ==
  \/ \E r \in Requests : ABegin(r) \/ AUpdate(r) \/ AReset(r) \/ ASpoil(r) \/ AExpire(r)
  \/ \E lost \in SUBSET Requests : AEnd(lost)
  \/ AMeet

ASpec == AInit /\ [][ANext]_statusVars
=============================================================================
