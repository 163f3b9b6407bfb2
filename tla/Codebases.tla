------------------------------- MODULE Codebases -------------------------------
(***************************************************************************)
(* The table of codebases and those who write it: uploads, which find or   *)
(* create the row of their codebase, save it and then index under its id,  *)
(* and the cleaner, which takes rows nobody has saved for a long time,     *)
(* deletes their vectors and expires them.  The table and the vector store *)
(* are two databases without a common transaction, and each step below is  *)
(* one call to one of them; a cron entry starts its next pass whether or   *)
(* not the last has ended.                                                 *)
(*                                                                         *)
(* The files of a codebase are one here, so that its vectors are known by  *)
(* the row under whose id they were written.                               *)
(***************************************************************************)
EXTENDS Naturals, FiniteSets

CONSTANTS
  Clients,    \* codebases, each a client id with a path
  Uploads,    \* uploads, each for one codebase
  Passes,     \* passes of the cleaner
  Faults      \* "db" and "vector", the databases that may fail

ASSUME FaultsAssumption == Faults \subseteq {"db", "vector"}

VARIABLES
  rows,       \* the table: row id to row
  vectors,    \* what is stored, by codebase and row id
  upload,     \* each upload: its codebase, where it stands, its row
  pass,       \* each pass: where it stands and the rows it has left
  alone,      \* history: uploads whose codebase no one else was working on meanwhile
  raced       \* history: codebases a pass met an upload of, or could not delete the vectors of

vars == <<rows, vectors, upload, pass, alone, raced>>

(***************************************************************************)
(* A row: own says that client_id is still that of the client, without the *)
(* suffix the cleaner adds; recent that updated_at is within the days of   *)
(* CodebaseExpireDays.  Ids are given by a sequence, from 1; 0 is the id   *)
(* of a row that was never stored.                                         *)
(***************************************************************************)
Row     == [client : Clients, own : BOOLEAN, status : {"active", "expired"}, recent : BOOLEAN]
RowIds  == Nat \ {0}
NoRow   == [id |-> 0]
Handle  == [id : RowIds, row : Row]       \* a row as someone has read it

UploadStages == {"new", "finding", "creating", "saving", "deleting", "inserting",
                 "done", "failed", "conflict"}
PassStages   == {"idle", "wiping", "expiring", "over"}

Ids      == DOMAIN rows
NewId    == Cardinality(Ids) + 1
InFlight(u) == upload[u].stage \notin {"new", "done", "failed", "conflict"}
Working(p)  == pass[p].stage \in {"wiping", "expiring"}

\* The type invariant.
TypeOK ==
  /\ rows \in [1..Cardinality(Ids) -> Row]
  /\ vectors \subseteq [client : Clients, id : Ids]
  /\ upload \in [Uploads -> [client : Clients, stage : UploadStages, held : {NoRow} \cup Handle]]
  /\ pass \in [Passes -> [stage : PassStages, todo : SUBSET Handle]]
  /\ \A p \in Passes : Working(p) => pass[p].todo # {}
  /\ alone \subseteq Uploads
  /\ raced \subseteq Clients

Init ==
  /\ rows = <<>>
  /\ vectors = {}
  /\ upload \in [Uploads -> [client : Clients, stage : {"new"}, held : {NoRow}]]
  /\ pass = [p \in Passes |-> [stage |-> "idle", todo |-> {}]]
  /\ alone = Uploads
  /\ raced = {}

-----------------------------------------------------------------------------
Client(u) == upload[u].client
HeldId(u) == upload[u].held.id

At(u, stage)    == upload[u].stage = stage
Goto(u, stage)  == upload' = [upload EXCEPT ![u].stage = stage]
Holding(u, stage, id, row) ==
  upload' = [upload EXCEPT ![u].stage = stage, ![u].held = [id |-> id, row |-> row]]

Listed(p, client) == \E h \in pass[p].todo : h.row.client = client

\* Everyone else who works on the codebase: none of them has it alone from now on.
Companions(u) == {v \in Uploads \ {u} : InFlight(v) /\ Client(v) = Client(u)}

(***************************************************************************)
(* The unique index on client_id and client_path: another row has them.    *)
(***************************************************************************)
Taken(client, id) == \E other \in Ids \ {id} : rows[other].client = client /\ rows[other].own

-----------------------------------------------------------------------------
(* Uploads.                                                                *)

Begin(u) ==
  /\ At(u, "new")
  /\ Goto(u, "finding")
  /\ alone' = IF Companions(u) # {} \/ \E p \in Passes : Listed(p, Client(u))
              THEN alone \ (Companions(u) \cup {u}) ELSE alone
  /\ raced' = IF \E p \in Passes : Listed(p, Client(u)) THEN raced \cup {Client(u)} ELSE raced
  /\ UNCHANGED <<rows, vectors, pass>>

\* FindByClientIdAndPath.
Found(client, id) ==
  /\ rows[id].client = client /\ rows[id].own
  /\ rows[id].status = "active"

Find(u) ==
  /\ At(u, "finding")
  /\ \/ \E id \in Ids : Found(Client(u), id) /\ Holding(u, "saving", id, rows[id])
     \/ (\A id \in Ids : ~Found(Client(u), id)) /\ Goto(u, "creating")
     \/ "db" \in Faults /\ Goto(u, "failed")
  /\ UNCHANGED <<rows, vectors, pass, alone, raced>>

NewRow(client) == [client |-> client, own |-> TRUE, status |-> "active", recent |-> TRUE]

\* Faulty variant: a duplicate is taken for success, with the model row that got no id.
CreateOrGoOn(u) ==
  /\ At(u, "creating")
  /\ \/ /\ ~Taken(Client(u), 0)
        /\ rows' = [id \in Ids \cup {NewId} |-> IF id = NewId THEN NewRow(Client(u)) ELSE rows[id]]
        /\ Holding(u, "saving", NewId, NewRow(Client(u)))
     \/ Taken(Client(u), 0) /\ Goto(u, "saving") /\ UNCHANGED rows
  /\ UNCHANGED <<vectors, pass, alone, raced>>

(***************************************************************************)
(* saveCodebase, an insert.  The driver's duplicate-key error is not       *)
(* translated, so a duplicate is an error like any other; it is dropped by *)
(* initCodebaseIfNotExists, and the nil row it returns ends the request in *)
(* a panic the server recovers from.                                       *)
(***************************************************************************)
Create(u) ==
  /\ At(u, "creating")
  /\ \/ /\ ~Taken(Client(u), 0)
        /\ rows' = [id \in Ids \cup {NewId} |-> IF id = NewId THEN NewRow(Client(u)) ELSE rows[id]]
        /\ Holding(u, "saving", NewId, NewRow(Client(u)))
     \/ Taken(Client(u), 0) /\ Goto(u, "conflict") /\ UNCHANGED rows
     \/ "db" \in Faults /\ Goto(u, "failed") /\ UNCHANGED rows
  /\ UNCHANGED <<vectors, pass, alone, raced>>

(***************************************************************************)
(* updateCodebaseInfo: the row as it was read goes back, over whatever has *)
(* been written since.  The generated Save is an insert that on conflict   *)
(* updates every column but those whose default is an SQL expression, and  *)
(* updated_at is one: it stays what it is in the table, so that a row does *)
(* not grow younger.  The upload then has files to index or not.           *)
(***************************************************************************)
Save(u) ==
  /\ At(u, "saving")
  /\ \/ /\ ~Taken(Client(u), HeldId(u))
        /\ rows' = [rows EXCEPT ![HeldId(u)] = [upload[u].held.row EXCEPT !.recent = rows[HeldId(u)].recent]]
        /\ Goto(u, "deleting") \/ Goto(u, "done")
     \/ Taken(Client(u), HeldId(u)) /\ Goto(u, "conflict") /\ UNCHANGED rows
     \/ "db" \in Faults /\ Goto(u, "failed") /\ UNCHANGED rows
  /\ UNCHANGED <<vectors, pass, alone, raced>>

\* UpsertCodeChunks: the old chunks are those of the row's id; that they could not be deleted is logged.
DeleteOld(u) ==
  /\ At(u, "deleting")
  /\ \/ vectors' = vectors \ {[client |-> Client(u), id |-> HeldId(u)]}
     \/ "vector" \in Faults /\ UNCHANGED vectors
  /\ Goto(u, "inserting")
  /\ UNCHANGED <<rows, pass, alone, raced>>

Insert(u) ==
  /\ At(u, "inserting")
  /\ \/ vectors' = vectors \cup {[client |-> Client(u), id |-> HeldId(u)]}
     \/ "vector" \in Faults /\ UNCHANGED vectors
  /\ Goto(u, "done")
  /\ UNCHANGED <<rows, pass, alone, raced>>

UploadStep(u) ==
  Begin(u) \/ Find(u) \/ Create(u) \/ Save(u) \/ DeleteOld(u) \/ Insert(u)

-----------------------------------------------------------------------------
(* The cleaner.                                                            *)

Stale == {[id |-> id, row |-> rows[id]] : id \in {i \in Ids : rows[i].status = "active" /\ ~rows[i].recent}}

\* Uploads under way of the codebases that a pass would list now.
Surprised == {u \in Uploads : InFlight(u) /\ \E h \in Stale : h.row.client = Client(u)}

\* Faulty variant: the pass goes on when nothing is left.
ThroughNever(todo) == "wiping"
Through(todo)      == IF todo = {} THEN "over" ELSE "wiping"

\* findExpiredCodebases.
Scan(p) ==
  /\ pass[p].stage = "idle"
  /\ \/ /\ pass' = [pass EXCEPT ![p] = [stage |-> Through(Stale), todo |-> Stale]]
        /\ alone' = alone \ Surprised
        /\ raced' = raced \cup {Client(u) : u \in Surprised}
     \/ "db" \in Faults /\ pass' = [pass EXCEPT ![p].stage = "over"] /\ UNCHANGED <<alone, raced>>
  /\ UNCHANGED <<rows, vectors, upload>>

First(p) == CHOOSE h \in pass[p].todo : \A g \in pass[p].todo : h.id <= g.id

\* Faulty variant: by the name the row has once it is expired.
WipeByNewName(p) ==
  /\ pass[p].stage = "wiping"
  /\ pass' = [pass EXCEPT ![p].stage = "expiring"]
  /\ UNCHANGED <<rows, vectors, upload, alone, raced>>

\* DeleteByCodebase for the next row; its failure is logged and the pass goes on.
Wipe(p) ==
  /\ pass[p].stage = "wiping"
  /\ LET h == First(p)
     IN \/ /\ vectors' = {v \in vectors : v.client # h.row.client}
           /\ UNCHANGED raced
        \/ /\ "vector" \in Faults
           /\ raced' = raced \cup {h.row.client}
           /\ UNCHANGED vectors
  /\ pass' = [pass EXCEPT ![p].stage = "expiring"]
  /\ UNCHANGED <<rows, upload, alone>>

\* Faulty variants: the row keeps its client id; the row is renamed but stays active.
ExpiredKeepingClient(row) == [row EXCEPT !.status = "expired", !.recent = TRUE]
ExpiredInNameOnly(row)    == [row EXCEPT !.own = FALSE, !.recent = TRUE]

\* client_id gets a unique suffix, so that the client may come back.
Expired(row) == [row EXCEPT !.own = FALSE, !.status = "expired", !.recent = TRUE]

(***************************************************************************)
(* The row is updated by its id, from the copy the pass has read.  An      *)
(* error ends the whole pass.                                              *)
(***************************************************************************)
Expire(p) ==
  /\ pass[p].stage = "expiring"
  /\ LET h    == First(p)
         left == pass[p].todo \ {h}
     IN \/ /\ rows' = [rows EXCEPT ![h.id] = Expired(h.row)]
           /\ pass' = [pass EXCEPT ![p] = [stage |-> Through(left), todo |-> left]]
        \/ /\ "db" \in Faults
           /\ pass' = [pass EXCEPT ![p] = [stage |-> "over", todo |-> {}]]
           /\ UNCHANGED rows
  /\ UNCHANGED <<vectors, upload, alone, raced>>

PassStep(p) == Scan(p) \/ Wipe(p) \/ Expire(p)

-----------------------------------------------------------------------------
\* DeleteIndex without file paths: the vectors go, the row stays.
DeleteIndex(client) ==
  /\ \E v \in vectors : v.client = client
  /\ vectors' = {v \in vectors : v.client # client}
  /\ UNCHANGED <<rows, upload, pass, alone, raced>>

\* Days go by; an upload or a pass takes less than one.
Age(id) ==
  /\ rows[id].recent /\ rows[id].status = "active"
  /\ \A u \in Uploads : ~(InFlight(u) /\ Client(u) = rows[id].client)
  /\ \A p \in Passes : ~Listed(p, rows[id].client)
  /\ rows' = [rows EXCEPT ![id].recent = FALSE]
  /\ UNCHANGED <<vectors, upload, pass, alone, raced>>

Next ==
  \/ \E u \in Uploads : UploadStep(u)
  \/ \E p \in Passes : PassStep(p)
  \/ \E client \in Clients : DeleteIndex(client)
  \/ \E id \in Ids : Age(id)

Spec == Init /\ [][Next]_vars

-----------------------------------------------------------------------------
(* Properties.                                                             *)

(***************************************************************************)
(* However uploads create and save rows and passes expire them, a codebase *)
(* has at most one active row, and that row goes by the client's own name. *)
(***************************************************************************)
OneActiveRow ==
  \A id, other \in Ids :
    rows[id].status = "active" =>
      /\ rows[id].own
      /\ rows[other].client = rows[id].client /\ rows[other].status = "active" => other = id

(***************************************************************************)
(* An upload that has got past initCodebaseIfNotExists works under the id  *)
(* of a row of its codebase: never under 0, for which deletes and inserts  *)
(* are refused.                                                            *)
(***************************************************************************)
NoRowlessWork ==
  \A u \in Uploads : upload[u].stage \in {"saving", "deleting", "inserting", "done"} =>
    HeldId(u) \in Ids /\ rows[HeldId(u)].client = Client(u)

(***************************************************************************)
(* An upload fails for a duplicate row only if another upload, or a pass   *)
(* of the cleaner, was working on its codebase at the same time: an        *)
(* expired row never stands in the way of a client that comes back.        *)
(***************************************************************************)
AloneUploadsWork == \A u \in alone : upload[u].stage # "conflict"

(***************************************************************************)
(* Vectors belong to the active row of their codebase, so that no search   *)
(* finds what belongs to none and the next upload replaces them: unless a  *)
(* pass met an upload of the codebase or could not delete its vectors.     *)
(***************************************************************************)
VectorsHaveRow ==
  \A v \in vectors :
    \/ v.client \in raced
    \/ rows[v.id].client = v.client /\ rows[v.id].status = "active"

(***************************************************************************)
(* The row of a codebase that an upload has just saved is a recent one,    *)
(* for updated_at is the time when the record was last updated, and the    *)
(* next pass of the cleaner leaves it alone.  Not so.                      *)
(***************************************************************************)
SavedIsRecent ==
  [][\A u \in Uploads :
       At(u, "saving") /\ upload'[u].stage \in {"deleting", "done"} => rows'[HeldId(u)].recent]_vars
=============================================================================
