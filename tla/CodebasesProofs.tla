---------------------------- MODULE CodebasesProofs ----------------------------
(***************************************************************************)
(* Theorems about Codebases, for any number of codebases, uploads and      *)
(* passes of the cleaner, and any mix of faults of the two databases.      *)
(***************************************************************************)
EXTENDS Codebases, FiniteSetTheorems, WellFoundedInduction, TLAPS

-----------------------------------------------------------------------------
(* The inductive invariant.                                                *)

\* Expiring renames a row, and nothing else does.
OwnIsActive == \A id \in Ids : rows[id].own <=> rows[id].status = "active"

\* What an upload holds was once the active row of its codebase, and is still one of its rows.
HeldIsRow ==
  \A u \in Uploads : upload[u].stage \in {"saving", "deleting", "inserting", "done"} =>
    /\ HeldId(u) \in Ids /\ upload[u].held \in Handle
    /\ rows[HeldId(u)].client = Client(u)
    /\ upload[u].held.row.client = Client(u)
    /\ upload[u].held.row.own /\ upload[u].held.row.status = "active"

\* So are the rows a pass has listed; they were stale.
ListedIsRow ==
  \A p \in Passes : \A h \in pass[p].todo :
    /\ h.id \in Ids
    /\ rows[h.id].client = h.row.client
    /\ h.row.own /\ h.row.status = "active" /\ ~h.row.recent

\* An upload that is alone shares its codebase with nobody, and what it has read is still so.
AloneIsAlone ==
  \A u \in alone :
    /\ upload[u].stage # "conflict"
    /\ InFlight(u) => /\ \A v \in Uploads \ {u} : InFlight(v) => Client(v) # Client(u)
                      /\ \A p \in Passes : ~Listed(p, Client(u))
    /\ At(u, "creating") => ~Taken(Client(u), 0)
    /\ At(u, "saving") => rows[HeldId(u)].own

\* The row an upload indexes under is active, unless a pass met an upload.
WritersSaved ==
  \A u \in Uploads : upload[u].stage \in {"deleting", "inserting"} =>
    Client(u) \in raced \/ rows[HeldId(u)].own

\* The codebase a pass has wiped has no vectors, unless the pass met an upload of it or failed.
WipedIsEmpty ==
  \A p \in Passes : pass[p].stage = "expiring" =>
    \/ First(p).row.client \in raced
    \/ \A v \in vectors : v.client # First(p).row.client

\* An upload and a pass under way of the same codebase have been noted.
MeetingsAreRaced ==
  \A u \in Uploads : InFlight(u) => \A p \in Passes : Listed(p, Client(u)) => Client(u) \in raced

Inv ==
  /\ TypeOK
  /\ IsFiniteSet(Ids)
  /\ OwnIsActive
  /\ OneActiveRow
  /\ HeldIsRow
  /\ ListedIsRow
  /\ AloneIsAlone
  /\ WritersSaved
  /\ WipedIsEmpty
  /\ VectorsHaveRow

-----------------------------------------------------------------------------
(* Operators.                                                              *)

Less == {pair \in Nat \X Nat : pair[1] < pair[2]}

LEMMA LeastNat ==
  ASSUME NEW S \in SUBSET Nat, S # {} PROVE \E n \in S : \A m \in S : n <= m
<1>1. IsWellFoundedOn(Less, Nat)
  BY NatLessThanWellFounded DEF OpToRel, Less
<1>2. PICK n \in S : \A m \in S : ~ (<<m, n>> \in Less)
  BY <1>1, WFMin
<1>3. \A m \in S : ~ (m < n)
  BY <1>2 DEF Less
<1> QED BY <1>3

\* A pass that works has a next row.
LEMMA FirstIsListed ==
  ASSUME TypeOK, NEW p \in Passes, Working(p)
  PROVE  First(p) \in pass[p].todo
<1> DEFINE todo == pass[p].todo
           ids  == {h.id : h \in todo}
<1>1. todo # {} /\ todo \in SUBSET Handle
  BY DEF TypeOK
<1>2. ids \in SUBSET Nat /\ ids # {}
  BY <1>1 DEF Handle, RowIds
<1>3. PICK n \in ids : \A m \in ids : n <= m
  BY <1>2, LeastNat
<1>4. \E h \in todo : \A g \in todo : h.id <= g.id
  BY <1>3
<1> QED BY <1>4 DEF First

LEMMA RowIdsKnown ==
  ASSUME TypeOK, IsFiniteSet(Ids)
  PROVE  /\ Cardinality(Ids) \in Nat
         /\ Ids = 1..Cardinality(Ids)
         /\ Ids \subseteq RowIds
         /\ NewId \in RowIds /\ NewId \notin Ids
<1>1. Cardinality(Ids) \in Nat
  BY FS_CardinalityType
<1>2. Ids = 1..Cardinality(Ids)
  BY DEF TypeOK, Ids
<1> QED BY <1>1, <1>2 DEF RowIds, NewId

LEMMA GotoEffect ==
  ASSUME TypeOK, NEW u \in Uploads, NEW stage \in UploadStages, Goto(u, stage)
  PROVE  /\ upload' \in [Uploads -> [client : Clients, stage : UploadStages, held : {NoRow} \cup Handle]]
         /\ upload'[u].stage = stage
         /\ upload'[u].client = upload[u].client /\ upload'[u].held = upload[u].held
         /\ \A v \in Uploads \ {u} : upload'[v] = upload[v]
  BY DEF TypeOK, Goto

LEMMA HoldingEffect ==
  ASSUME TypeOK, NEW u \in Uploads, NEW stage \in UploadStages, NEW id \in RowIds, NEW row \in Row,
         Holding(u, stage, id, row)
  PROVE  /\ upload' \in [Uploads -> [client : Clients, stage : UploadStages, held : {NoRow} \cup Handle]]
         /\ upload'[u].stage = stage /\ upload'[u].client = upload[u].client
         /\ upload'[u].held = [id |-> id, row |-> row]
         /\ upload'[u].held \in Handle
         /\ \A v \in Uploads \ {u} : upload'[v] = upload[v]
  BY DEF TypeOK, Holding, Handle

LEMMA ReplaceEffect ==
  ASSUME TypeOK, IsFiniteSet(Ids), NEW id \in Ids, NEW row \in Row, rows' = [rows EXCEPT ![id] = row]
  PROVE  /\ Ids' = Ids /\ IsFiniteSet(Ids)'
         /\ rows' \in [1..Cardinality(Ids)' -> Row]
         /\ rows'[id] = row
         /\ \A other \in Ids \ {id} : rows'[other] = rows[other]
<1>1. Ids' = Ids /\ rows'[id] = row /\ \A other \in Ids \ {id} : rows'[other] = rows[other]
  BY DEF Ids
<1>2. IsFiniteSet(Ids)' /\ Cardinality(Ids)' = Cardinality(Ids)
  BY <1>1, Zenon
<1>3. rows' \in [1..Cardinality(Ids) -> Row]
  BY DEF TypeOK, Ids
<1> QED BY <1>1, <1>2, <1>3

\* What is neither about uploads nor about those who have them alone.
LEMMA OnlyUploads ==
  ASSUME Inv, UNCHANGED <<rows, vectors, pass>>, raced \subseteq raced'
  PROVE  /\ IsFiniteSet(Ids)' /\ OwnIsActive' /\ OneActiveRow' /\ ListedIsRow'
         /\ WipedIsEmpty' /\ VectorsHaveRow'
<1>1. IsFiniteSet(Ids)' /\ OwnIsActive' /\ OneActiveRow' /\ ListedIsRow' /\ VectorsHaveRow'
  BY DEF Inv, OwnIsActive, OneActiveRow, ListedIsRow, VectorsHaveRow, Ids
<1>2. WipedIsEmpty'
  BY DEF Inv, WipedIsEmpty, First
<1> QED BY <1>1, <1>2

-----------------------------------------------------------------------------
(* Uploads.                                                                *)

LEMMA BeginKeeps == ASSUME Inv, NEW u \in Uploads, Begin(u) PROVE Inv'
<1>1. Goto(u, "finding") /\ "finding" \in UploadStages /\ TypeOK
  BY DEF Begin, UploadStages, Inv
<1>2. UNCHANGED <<rows, vectors, pass>> /\ raced \subseteq raced' /\ raced' \subseteq Clients
  BY DEF Begin, Inv, TypeOK, Client
<1>3. TypeOK'
  BY <1>1, <1>2, GotoEffect DEF TypeOK, Begin, Ids, Working
<1>4. HeldIsRow' /\ WritersSaved'
  BY <1>1, <1>2, GotoEffect DEF Inv, HeldIsRow, WritersSaved, HeldId, Client, Ids
<1>5. AloneIsAlone'
  <2> SUFFICES ASSUME NEW w \in alone'
               PROVE  /\ upload'[w].stage # "conflict"
                      /\ InFlight(w)' => /\ \A v \in Uploads \ {w} : InFlight(v)' => Client(v)' # Client(w)'
                                         /\ \A p \in Passes : ~Listed(p, Client(w))'
                      /\ At(w, "creating")' => ~Taken(Client(w), 0)'
                      /\ At(w, "saving")' => rows'[HeldId(w)'].own
    BY DEF AloneIsAlone
  <2>1. w \in alone /\ w \in Uploads
    BY DEF Begin, Inv, TypeOK
  <2>2. CASE w = u
    <3>1. Companions(u) = {} /\ \A p \in Passes : ~Listed(p, Client(u))
      BY <2>2 DEF Begin
    <3> QED BY <1>1, <1>2, <2>2, <3>1, GotoEffect DEF Companions, InFlight, Client, Listed, At
  <2>3. CASE w # u
    <3>1. upload'[w] = upload[w]
      BY <1>1, <2>1, <2>3, GotoEffect
    <3>2. ASSUME InFlight(w), Client(u) = Client(w) PROVE FALSE
      <4>1. w \in Companions(u)
        BY <2>1, <2>3, <3>2 DEF Companions
      <4> QED BY <4>1 DEF Begin
    <3> QED BY <1>1, <1>2, <2>1, <2>3, <3>1, <3>2, GotoEffect
             DEF Inv, AloneIsAlone, InFlight, Client, Listed, At, Taken, HeldId, Ids
  <2> QED BY <2>2, <2>3
<1> QED BY <1>2, <1>3, <1>4, <1>5, OnlyUploads DEF Inv

LEMMA FindKeeps == ASSUME Inv, NEW u \in Uploads, Find(u) PROVE Inv'
<1>1. TypeOK /\ UNCHANGED <<rows, vectors, pass, alone, raced>>
  BY DEF Find, Inv
<1>2. {"saving", "creating", "failed"} \subseteq UploadStages
  BY DEF UploadStages
<1>3. CASE \E id \in Ids : Found(Client(u), id) /\ Holding(u, "saving", id, rows[id])
  <2>1. PICK id \in Ids : Found(Client(u), id) /\ Holding(u, "saving", id, rows[id])
    BY <1>3
  <2>2. id \in RowIds /\ rows[id] \in Row
    BY <1>1, RowIdsKnown DEF Inv, TypeOK, Ids
  <2>3. /\ upload'[u].stage = "saving" /\ upload'[u].client = upload[u].client
        /\ upload'[u].held = [id |-> id, row |-> rows[id]] /\ upload'[u].held \in Handle
        /\ \A v \in Uploads \ {u} : upload'[v] = upload[v]
    BY <1>1, <1>2, <2>1, <2>2, HoldingEffect
  <2>4. TypeOK'
    BY <1>1, <1>2, <2>1, <2>2, HoldingEffect DEF TypeOK, Ids, Working
  <2>5. HeldIsRow' /\ WritersSaved'
    BY <1>1, <2>1, <2>3
       DEF Inv, HeldIsRow, WritersSaved, HeldId, Client, Ids, Found, At
  <2>6. AloneIsAlone'
    BY <1>1, <2>1, <2>3
       DEF Inv, TypeOK, AloneIsAlone, InFlight, Client, Listed, At, Taken, HeldId, Ids, Found, Find
  <2> QED BY <1>1, <2>4, <2>5, <2>6, OnlyUploads DEF Inv
<1>4. CASE Goto(u, "creating") /\ \A id \in Ids : ~Found(Client(u), id)
  <2>1. TypeOK'
    BY <1>1, <1>2, <1>4, GotoEffect DEF TypeOK, Ids, Working
  <2>2. HeldIsRow' /\ WritersSaved'
    BY <1>1, <1>2, <1>4, GotoEffect DEF Inv, HeldIsRow, WritersSaved, HeldId, Client, Ids
  <2>3. ~Taken(Client(u), 0)
    BY <1>4 DEF Taken, Found, Inv, OwnIsActive
  <2>4. AloneIsAlone'
    BY <1>1, <1>2, <1>4, <2>3, GotoEffect
       DEF Inv, TypeOK, AloneIsAlone, InFlight, Client, Listed, At, Taken, HeldId, Ids, Find
  <2> QED BY <1>1, <2>1, <2>2, <2>4, OnlyUploads DEF Inv
<1>5. CASE Goto(u, "failed")
  <2>1. TypeOK'
    BY <1>1, <1>2, <1>5, GotoEffect DEF TypeOK, Ids, Working
  <2>2. HeldIsRow' /\ WritersSaved'
    BY <1>1, <1>2, <1>5, GotoEffect DEF Inv, HeldIsRow, WritersSaved, HeldId, Client, Ids
  <2>3. AloneIsAlone'
    BY <1>1, <1>2, <1>5, GotoEffect
       DEF Inv, TypeOK, AloneIsAlone, InFlight, Client, Listed, At, Taken, HeldId, Ids
  <2> QED BY <1>1, <2>1, <2>2, <2>3, OnlyUploads DEF Inv
<1> QED BY <1>3, <1>4, <1>5 DEF Find

\* An upload that ends before it has a row changes nothing else.
LEMMA GivingUpKeeps ==
  ASSUME Inv, NEW u \in Uploads, InFlight(u), NEW stage \in {"failed", "conflict"},
         stage = "conflict" => u \notin alone,
         Goto(u, stage), UNCHANGED <<rows, vectors, pass, alone, raced>>
  PROVE  Inv'
<1>1. TypeOK /\ stage \in UploadStages
  BY DEF Inv, UploadStages
<1>2. TypeOK'
  BY <1>1, GotoEffect DEF TypeOK, Ids, Working
<1>3. HeldIsRow' /\ WritersSaved'
  BY <1>1, GotoEffect DEF Inv, HeldIsRow, WritersSaved, HeldId, Client, Ids
<1>4. AloneIsAlone'
  BY <1>1, GotoEffect
     DEF Inv, TypeOK, AloneIsAlone, InFlight, Client, Listed, At, Taken, HeldId, Ids
<1> QED BY <1>2, <1>3, <1>4, OnlyUploads DEF Inv

LEMMA CreateKeeps == ASSUME Inv, NEW u \in Uploads, Create(u) PROVE Inv'
<1>1. TypeOK /\ UNCHANGED <<vectors, pass, alone, raced>> /\ At(u, "creating")
  BY DEF Create, Inv
<1>2. InFlight(u)
  BY <1>1 DEF At, InFlight
<1>3. CASE Goto(u, "conflict") /\ Taken(Client(u), 0) /\ UNCHANGED rows
  <2>1. u \notin alone
    BY <1>1, <1>3 DEF Inv, AloneIsAlone
  <2> QED BY <1>1, <1>2, <1>3, <2>1, GivingUpKeeps
<1>4. CASE Goto(u, "failed") /\ UNCHANGED rows
  BY <1>1, <1>2, <1>4, GivingUpKeeps
<1>5. CASE /\ ~Taken(Client(u), 0)
           /\ rows' = [id \in Ids \cup {NewId} |-> IF id = NewId THEN NewRow(Client(u)) ELSE rows[id]]
           /\ Holding(u, "saving", NewId, NewRow(Client(u)))
  <2>1. /\ NewRow(Client(u)) \in Row /\ "saving" \in UploadStages
        /\ NewId \in RowIds /\ NewId \notin Ids /\ 0 \notin Ids
    BY <1>1, RowIdsKnown DEF Inv, TypeOK, Client, NewRow, Row, UploadStages, RowIds
  <2>2. /\ Ids' = Ids \cup {NewId}
        /\ rows'[NewId] = NewRow(Client(u))
        /\ \A id \in Ids : rows'[id] = rows[id]
    BY <1>5, <2>1 DEF Ids
  <2>3. /\ upload'[u].stage = "saving" /\ upload'[u].client = upload[u].client
        /\ upload'[u].held = [id |-> NewId, row |-> NewRow(Client(u))] /\ upload'[u].held \in Handle
        /\ \A v \in Uploads \ {u} : upload'[v] = upload[v]
    BY <1>1, <1>5, <2>1, HoldingEffect
  <2>4. /\ IsFiniteSet(Ids)' /\ Cardinality(Ids)' = NewId
        /\ Ids' = 1..Cardinality(Ids)'
    <3>1. IsFiniteSet(Ids) /\ Cardinality(Ids) \in Nat /\ Ids = 1..Cardinality(Ids)
      BY <1>1, RowIdsKnown DEF Inv
    <3>2. IsFiniteSet(Ids \cup {NewId}) /\ Cardinality(Ids \cup {NewId}) = Cardinality(Ids) + 1
      BY <2>1, <3>1, FS_AddElement
    <3>3. Ids \cup {NewId} = 1..NewId
      BY <3>1 DEF NewId
    <3>4. IsFiniteSet(Ids)' /\ Cardinality(Ids)' = NewId
      BY <2>2, <3>2, Zenon DEF NewId
    <3> QED BY <2>2, <3>3, <3>4, Zenon
  <2>5. TypeOK'
    <3>1. rows' \in [1..Cardinality(Ids)' -> Row]
      <4>1. \A id \in Ids : rows[id] \in Row
        BY <1>1 DEF TypeOK, Ids
      <4> QED BY <1>5, <2>1, <2>2, <2>4, <4>1
    <3>2. vectors' \subseteq [client : Clients, id : Ids']
      BY <1>1, <2>2 DEF TypeOK
    <3>3. pass' \in [Passes -> [stage : PassStages, todo : SUBSET Handle]]
      BY <1>1 DEF TypeOK
    <3> QED BY <1>1, <1>5, <2>1, <3>1, <3>2, <3>3, HoldingEffect DEF TypeOK, Working
  <2>6. OwnIsActive'
    BY <2>1, <2>2 DEF Inv, OwnIsActive, NewRow
  <2>7. OneActiveRow'
    BY <1>5, <2>1, <2>2 DEF Inv, OneActiveRow, OwnIsActive, NewRow, Taken
  <2>8. HeldIsRow' /\ WritersSaved'
    BY <1>1, <2>3, <2>1, <2>2
       DEF Inv, HeldIsRow, WritersSaved, HeldId, Client, NewRow
  <2>9. ListedIsRow'
    BY <1>1, <2>2 DEF Inv, ListedIsRow
  <2>10. AloneIsAlone'
    <3> SUFFICES ASSUME NEW w \in alone'
                 PROVE  /\ upload'[w].stage # "conflict"
                        /\ InFlight(w)' => /\ \A v \in Uploads \ {w} : InFlight(v)' => Client(v)' # Client(w)'
                                           /\ \A p \in Passes : ~Listed(p, Client(w))'
                        /\ At(w, "creating")' => ~Taken(Client(w), 0)'
                        /\ At(w, "saving")' => rows'[HeldId(w)'].own
      BY DEF AloneIsAlone
    <3>1. w \in alone /\ w \in Uploads
      BY <1>1 DEF TypeOK
    <3>2. CASE w = u
      BY <1>1, <1>2, <2>3, <2>1, <2>2, <3>1, <3>2
         DEF Inv, AloneIsAlone, InFlight, Client, Listed, At, HeldId, NewRow
    <3>3. CASE w # u
      <4>1. upload'[w] = upload[w]
        BY <2>3, <3>1, <3>3
      <4>2. InFlight(w) => Client(u) # Client(w)
        BY <1>2, <3>1, <3>3 DEF Inv, AloneIsAlone
      <4>3. At(w, "creating") => ~Taken(Client(w), 0)'
        BY <2>1, <2>2, <3>1, <4>1, <4>2 DEF Inv, AloneIsAlone, At, InFlight, Taken, NewRow, Client
      <4>4. At(w, "saving") => HeldId(w) \in Ids /\ rows[HeldId(w)].own
        BY <3>1 DEF Inv, AloneIsAlone, HeldIsRow, At
      <4>5. InFlight(w)' => \A v \in Uploads \ {w} : InFlight(v)' => Client(v)' # Client(w)'
        BY <1>2, <2>3, <3>1, <4>1, <4>2 DEF Inv, AloneIsAlone, InFlight, Client
      <4>6. InFlight(w)' => \A p \in Passes : ~Listed(p, Client(w))'
        BY <1>1, <3>1, <4>1 DEF Inv, AloneIsAlone, InFlight, Client, Listed
      <4> QED BY <2>2, <3>1, <4>1, <4>3, <4>4, <4>5, <4>6 DEF Inv, AloneIsAlone, At, HeldId
    <3> QED BY <3>2, <3>3
  <2>11. WipedIsEmpty'
    <3>1. \A p \in Passes : First(p)' = First(p)
      BY <1>1 DEF First
    <3> QED BY <1>1, <3>1 DEF Inv, WipedIsEmpty
  <2>12. VectorsHaveRow'
    BY <1>1, <2>2 DEF Inv, TypeOK, VectorsHaveRow
  <2> QED BY <2>4, <2>5, <2>6, <2>7, <2>8, <2>9, <2>10, <2>11, <2>12 DEF Inv
<1> QED BY <1>3, <1>4, <1>5 DEF Create

LEMMA SaveKeeps == ASSUME Inv, NEW u \in Uploads, Save(u) PROVE Inv'
<1> DEFINE id  == HeldId(u)
           row == [upload[u].held.row EXCEPT !.recent = rows[HeldId(u)].recent]
<1>1. TypeOK /\ UNCHANGED <<vectors, pass, alone, raced>> /\ At(u, "saving") /\ InFlight(u)
  BY DEF Save, Inv, At, InFlight
<1>2. /\ id \in Ids /\ upload[u].held \in Handle /\ rows[id].client = Client(u)
      /\ row \in Row /\ row.client = Client(u) /\ row.own /\ row.status = "active"
  <2>1. id \in Ids /\ upload[u].held \in Handle /\ rows[id].client = Client(u)
    BY <1>1 DEF Inv, HeldIsRow, At
  <2>2. rows[id].recent \in BOOLEAN
    BY <1>1, <2>1 DEF TypeOK, Ids, Row
  <2> QED BY <1>1, <2>1, <2>2 DEF Inv, HeldIsRow, At, Handle, Row
<1> HIDE DEF row
<1>3. CASE Goto(u, "conflict") /\ Taken(Client(u), id) /\ UNCHANGED rows
  <2>1. u \notin alone
    BY <1>1, <1>2, <1>3 DEF Inv, AloneIsAlone, OwnIsActive, OneActiveRow, Taken
  <2> QED BY <1>1, <1>3, <2>1, GivingUpKeeps
<1>4. CASE Goto(u, "failed") /\ UNCHANGED rows
  BY <1>1, <1>4, GivingUpKeeps
<1>5. CASE /\ ~Taken(Client(u), id)
           /\ rows' = [rows EXCEPT ![id] = row]
           /\ Goto(u, "deleting") \/ Goto(u, "done")
  <2>1. PICK stage \in {"deleting", "done"} : Goto(u, stage)
    BY <1>5
  <2>2. stage \in UploadStages
    BY DEF UploadStages
  <2>3. /\ upload' \in [Uploads -> [client : Clients, stage : UploadStages, held : {NoRow} \cup Handle]]
        /\ upload'[u].stage = stage
        /\ upload'[u].client = upload[u].client /\ upload'[u].held = upload[u].held
        /\ \A v \in Uploads \ {u} : upload'[v] = upload[v]
    BY <1>1, <2>1, <2>2, GotoEffect
  <2>4. /\ Ids' = Ids /\ IsFiniteSet(Ids)'
        /\ rows' \in [1..Cardinality(Ids)' -> Row]
        /\ rows'[id] = row
        /\ \A other \in Ids \ {id} : rows'[other] = rows[other]
    BY <1>1, <1>2, <1>5, ReplaceEffect DEF Inv
  <2>5. TypeOK'
    BY <1>1, <2>3, <2>4 DEF TypeOK, Working
  <2>6. OwnIsActive'
    BY <1>2, <2>4 DEF Inv, OwnIsActive
  <2>7. OneActiveRow'
    BY <1>2, <1>5, <2>4 DEF Inv, OneActiveRow, OwnIsActive, Taken
  <2>8. HeldIsRow'
    BY <1>1, <1>2, <2>3, <2>4 DEF Inv, HeldIsRow, HeldId, Client, At
  <2>9. WritersSaved'
    BY <1>1, <1>2, <2>3, <2>4 DEF Inv, HeldIsRow, WritersSaved, HeldId, Client
  <2>10. ListedIsRow'
    BY <1>1, <1>2, <2>4 DEF Inv, ListedIsRow
  <2>11. AloneIsAlone'
    <3> SUFFICES ASSUME NEW w \in alone'
                 PROVE  /\ upload'[w].stage # "conflict"
                        /\ InFlight(w)' => /\ \A v \in Uploads \ {w} : InFlight(v)' => Client(v)' # Client(w)'
                                           /\ \A p \in Passes : ~Listed(p, Client(w))'
                        /\ At(w, "creating")' => ~Taken(Client(w), 0)'
                        /\ At(w, "saving")' => rows'[HeldId(w)'].own
      BY DEF AloneIsAlone
    <3>1. w \in alone /\ w \in Uploads
      BY <1>1 DEF TypeOK
    <3>2. CASE w = u
      BY <1>1, <2>3, <3>1, <3>2 DEF Inv, AloneIsAlone, InFlight, Client, Listed, At
    <3>3. CASE w # u
      <4>1. upload'[w] = upload[w]
        BY <2>3, <3>1, <3>3
      <4>2. InFlight(w) => Client(u) # Client(w)
        BY <1>1, <3>1, <3>3 DEF Inv, AloneIsAlone
      <4>3. At(w, "creating") => ~Taken(Client(w), 0)'
        BY <1>2, <2>4, <3>1, <4>1, <4>2 DEF Inv, AloneIsAlone, At, InFlight, Taken, Client
      <4>4. At(w, "saving") => rows'[HeldId(w)].own
        BY <1>2, <2>4, <3>1 DEF Inv, AloneIsAlone, HeldIsRow, At
      <4>5. InFlight(w)' => \A v \in Uploads \ {w} : InFlight(v)' => Client(v)' # Client(w)'
        BY <1>1, <2>3, <3>1, <4>1, <4>2 DEF Inv, AloneIsAlone, InFlight, Client
      <4>6. InFlight(w)' => \A p \in Passes : ~Listed(p, Client(w))'
        BY <1>1, <3>1, <4>1 DEF Inv, AloneIsAlone, InFlight, Client, Listed
      <4> QED BY <3>1, <4>1, <4>3, <4>4, <4>5, <4>6 DEF Inv, AloneIsAlone, At, HeldId
    <3> QED BY <3>2, <3>3
  <2>12. WipedIsEmpty'
    <3>1. \A p \in Passes : First(p)' = First(p)
      BY <1>1 DEF First
    <3> QED BY <1>1, <3>1 DEF Inv, WipedIsEmpty
  <2>13. VectorsHaveRow'
    BY <1>1, <1>2, <2>4 DEF Inv, TypeOK, VectorsHaveRow
  <2> QED BY <2>4, <2>5, <2>6, <2>7, <2>8, <2>9, <2>10, <2>11, <2>12, <2>13 DEF Inv
<1> QED BY <1>3, <1>4, <1>5 DEF Save, row

\* A vector of the row an upload holds may come or go.
LEMMA VectorsOnly ==
  ASSUME Inv, NEW u \in Uploads, InFlight(u), NEW stage \in {"inserting", "done"},
         upload[u].stage \in {"deleting", "inserting"},
         Goto(u, stage), UNCHANGED <<rows, pass, alone, raced>>
  PROVE  /\ upload' \in [Uploads -> [client : Clients, stage : UploadStages, held : {NoRow} \cup Handle]]
         /\ IsFiniteSet(Ids)' /\ OwnIsActive' /\ OneActiveRow' /\ ListedIsRow'
         /\ HeldIsRow' /\ WritersSaved' /\ AloneIsAlone'
<1>1. TypeOK /\ stage \in UploadStages
  BY DEF Inv, UploadStages
<1>2. IsFiniteSet(Ids)' /\ OwnIsActive' /\ OneActiveRow' /\ ListedIsRow'
  BY DEF Inv, OwnIsActive, OneActiveRow, ListedIsRow, Ids
<1>3. /\ upload' \in [Uploads -> [client : Clients, stage : UploadStages, held : {NoRow} \cup Handle]]
      /\ upload'[u].stage = stage
      /\ upload'[u].client = upload[u].client /\ upload'[u].held = upload[u].held
      /\ \A v \in Uploads \ {u} : upload'[v] = upload[v]
  BY <1>1, GotoEffect
<1>4. HeldIsRow' /\ WritersSaved'
  BY <1>3 DEF Inv, HeldIsRow, WritersSaved, HeldId, Client, Ids
<1>5. AloneIsAlone'
  BY <1>1, <1>3 DEF Inv, TypeOK, AloneIsAlone, InFlight, Client, Listed, At, Taken, HeldId, Ids
<1> QED BY <1>2, <1>3, <1>4, <1>5

LEMMA DeleteOldKeeps == ASSUME Inv, NEW u \in Uploads, DeleteOld(u) PROVE Inv'
<1>1. /\ InFlight(u) /\ upload[u].stage \in {"deleting", "inserting"}
      /\ Goto(u, "inserting") /\ UNCHANGED <<rows, pass, alone, raced>>
  BY DEF DeleteOld, InFlight, At
<1>2. vectors' \subseteq vectors
  BY DEF DeleteOld
<1>3. TypeOK'
  BY <1>1, <1>2, VectorsOnly DEF Inv, TypeOK, Ids, Working
<1>4. WipedIsEmpty' /\ VectorsHaveRow'
  <2>1. \A p \in Passes : First(p)' = First(p)
    BY <1>1 DEF First
  <2> QED BY <1>1, <1>2, <2>1 DEF Inv, WipedIsEmpty, VectorsHaveRow
<1> QED BY <1>1, <1>3, <1>4, VectorsOnly DEF Inv

LEMMA InsertKeeps == ASSUME Inv, MeetingsAreRaced, NEW u \in Uploads, Insert(u) PROVE Inv'
<1> DEFINE new == [client |-> Client(u), id |-> HeldId(u)]
<1>1. /\ InFlight(u) /\ upload[u].stage = "inserting" /\ upload[u].stage \in {"deleting", "inserting"}
      /\ Goto(u, "done") /\ UNCHANGED <<rows, pass, alone, raced>> /\ TypeOK
  BY DEF Insert, InFlight, At, Inv
<1>2. vectors' \subseteq vectors \cup {new}
  BY DEF Insert
<1>3. /\ HeldId(u) \in Ids /\ rows[HeldId(u)].client = Client(u)
      /\ Client(u) \in raced \/ rows[HeldId(u)].own
      /\ Client(u) \in Clients
  BY <1>1 DEF Inv, HeldIsRow, WritersSaved, TypeOK, Client
<1>4. TypeOK'
  BY <1>1, <1>2, <1>3, VectorsOnly DEF Inv, TypeOK, Ids, Working
<1>5. WipedIsEmpty'
  <2>1. \A p \in Passes : First(p)' = First(p)
    BY <1>1 DEF First
  <2>2. ASSUME NEW p \in Passes, pass[p].stage = "expiring", First(p).row.client = Client(u)
        PROVE  Client(u) \in raced
    <3>1. Listed(p, Client(u))
      BY <1>1, <2>2, FirstIsListed DEF Listed, Working
    <3> QED BY <1>1, <3>1 DEF MeetingsAreRaced
  <2> QED BY <1>1, <1>2, <2>1, <2>2 DEF Inv, WipedIsEmpty
<1>6. VectorsHaveRow'
  <2>1. Client(u) \in raced \/ rows[HeldId(u)].status = "active"
    BY <1>3 DEF Inv, OwnIsActive
  <2>2. rows'[new.id].client = new.client /\ new.client = Client(u) /\ new.id = HeldId(u)
    BY <1>1, <1>3
  <2>3. \A v \in vectors : v.client \in raced \/ (rows[v.id].client = v.client /\ rows[v.id].status = "active")
    BY DEF Inv, VectorsHaveRow
  <2>4. ASSUME NEW v \in vectors'
        PROVE  v.client \in raced \/ (rows[v.id].client = v.client /\ rows[v.id].status = "active")
    BY <1>1, <1>2, <2>1, <2>2, <2>3, <2>4
  <2> QED BY <1>1, <2>4 DEF VectorsHaveRow
<1> QED BY <1>1, <1>4, <1>5, <1>6, VectorsOnly DEF Inv

-----------------------------------------------------------------------------
(* The cleaner.                                                            *)

\* A pass that changes its own place, and rows or vectors, leaves the uploads theirs.
LEMMA PassEffect ==
  ASSUME TypeOK, NEW p \in Passes, NEW stage \in PassStages, NEW todo \in SUBSET Handle,
         pass' = [pass EXCEPT ![p] = [stage |-> stage, todo |-> todo]]
  PROVE  /\ pass' \in [Passes -> [stage : PassStages, todo : SUBSET Handle]]
         /\ pass'[p].stage = stage /\ pass'[p].todo = todo
         /\ \A q \in Passes \ {p} : pass'[q] = pass[q]
  BY DEF TypeOK

LEMMA ScanKeeps == ASSUME Inv, NEW p \in Passes, Scan(p) PROVE Inv'
<1>1. /\ TypeOK /\ UNCHANGED <<rows, vectors, upload>> /\ pass[p].stage = "idle"
      /\ raced \subseteq raced' /\ raced' \subseteq Clients
  <2>1. TypeOK /\ UNCHANGED <<rows, vectors, upload>> /\ pass[p].stage = "idle"
    BY DEF Scan, Inv
  <2>2. {Client(u) : u \in Surprised} \subseteq Clients
    BY <2>1 DEF Surprised, TypeOK, Client
  <2>3. UNCHANGED raced \/ raced' = raced \cup {Client(u) : u \in Surprised}
    BY DEF Scan
  <2> QED BY <2>1, <2>2, <2>3 DEF TypeOK
<1>2. /\ IsFiniteSet(Ids)' /\ OwnIsActive' /\ OneActiveRow' /\ HeldIsRow' /\ WritersSaved' /\ VectorsHaveRow'
  BY <1>1 DEF Inv, OwnIsActive, OneActiveRow, HeldIsRow, WritersSaved, VectorsHaveRow, HeldId, Client, Ids
<1>3. Stale \in SUBSET Handle
  BY <1>1, RowIdsKnown DEF Inv, TypeOK, Stale, Handle, Ids
<1>4. Through(Stale) \in PassStages /\ Through(Stale) # "expiring"
      /\ (Through(Stale) \in {"wiping", "expiring"} => Stale # {})
  BY DEF Through, PassStages
<1>5. CASE /\ pass' = [pass EXCEPT ![p] = [stage |-> Through(Stale), todo |-> Stale]]
           /\ alone' = alone \ Surprised
  <2>1. /\ pass' \in [Passes -> [stage : PassStages, todo : SUBSET Handle]]
        /\ pass'[p].stage = Through(Stale) /\ pass'[p].todo = Stale
        /\ \A q \in Passes \ {p} : pass'[q] = pass[q]
    BY <1>1, <1>3, <1>4, <1>5, PassEffect
  <2>2. TypeOK'
    BY <1>1, <1>4, <1>5, <2>1 DEF TypeOK, Ids, Working
  <2>3. ListedIsRow'
    <3>1. \A h \in Stale : h.id \in Ids /\ h.row = rows[h.id] /\ h.row.status = "active" /\ ~h.row.recent
      BY DEF Stale
    <3> QED BY <1>1, <2>1, <3>1 DEF Inv, ListedIsRow, OwnIsActive, Ids
  <2>4. AloneIsAlone'
    <3>1. \A u \in alone' : u \in alone /\ (InFlight(u) => \A h \in Stale : h.row.client # Client(u))
      BY <1>1, <1>5 DEF TypeOK, Surprised
    <3>2. \A u \in alone' : InFlight(u) => \A q \in Passes : ~Listed(q, Client(u))'
      BY <1>1, <2>1, <3>1 DEF Inv, AloneIsAlone, Listed, Client
    <3> QED BY <1>1, <3>1, <3>2 DEF Inv, AloneIsAlone, InFlight, Client, At, Taken, HeldId, Ids
  <2>5. WipedIsEmpty'
    BY <1>1, <1>4, <2>1 DEF Inv, WipedIsEmpty, First
  <2> QED BY <1>2, <2>2, <2>3, <2>4, <2>5 DEF Inv
<1>6. CASE pass' = [pass EXCEPT ![p].stage = "over"] /\ UNCHANGED alone
  <2>1. /\ pass' \in [Passes -> [stage : PassStages, todo : SUBSET Handle]]
        /\ pass'[p].stage = "over" /\ pass'[p].todo = pass[p].todo
        /\ \A q \in Passes \ {p} : pass'[q] = pass[q]
    BY <1>1, <1>6 DEF TypeOK, PassStages
  <2>2. TypeOK'
    BY <1>1, <1>6, <2>1 DEF TypeOK, Ids, Working
  <2>3. ListedIsRow' /\ AloneIsAlone'
    BY <1>1, <1>6, <2>1
       DEF Inv, ListedIsRow, AloneIsAlone, InFlight, Listed, Client, At, Taken, HeldId, Ids
  <2>4. WipedIsEmpty'
    BY <1>1, <2>1 DEF Inv, WipedIsEmpty, First
  <2> QED BY <1>2, <2>2, <2>3, <2>4 DEF Inv
<1> QED BY <1>5, <1>6 DEF Scan

LEMMA WipeKeeps == ASSUME Inv, NEW p \in Passes, Wipe(p) PROVE Inv'
<1> DEFINE c == First(p).row.client
<1>1. /\ TypeOK /\ UNCHANGED <<rows, upload, alone>> /\ pass[p].stage = "wiping" /\ Working(p)
      /\ pass' = [pass EXCEPT ![p].stage = "expiring"]
  BY DEF Wipe, Inv, Working
<1>2. First(p) \in pass[p].todo /\ First(p) \in Handle /\ c \in Clients
  BY <1>1, FirstIsListed DEF TypeOK, Handle, Row
<1>3. /\ pass' \in [Passes -> [stage : PassStages, todo : SUBSET Handle]]
      /\ pass'[p].stage = "expiring" /\ pass'[p].todo = pass[p].todo
      /\ \A q \in Passes \ {p} : pass'[q] = pass[q]
  BY <1>1 DEF TypeOK, PassStages
<1>4. raced \subseteq raced' /\ raced' \subseteq raced \cup {c}
  BY DEF Wipe
<1>5. vectors' \subseteq vectors /\ (c \in raced' \/ \A v \in vectors' : v.client # c)
  BY DEF Wipe
<1>6. TypeOK'
  BY <1>1, <1>2, <1>3, <1>4, <1>5 DEF TypeOK, Ids, Working
<1>7. /\ IsFiniteSet(Ids)' /\ OwnIsActive' /\ OneActiveRow' /\ HeldIsRow' /\ WritersSaved' /\ VectorsHaveRow'
  BY <1>1, <1>4, <1>5
     DEF Inv, OwnIsActive, OneActiveRow, HeldIsRow, WritersSaved, VectorsHaveRow, HeldId, Client, Ids
<1>8. ListedIsRow' /\ AloneIsAlone'
  BY <1>1, <1>3 DEF Inv, ListedIsRow, AloneIsAlone, InFlight, Listed, Client, At, Taken, HeldId, Ids
<1>9. WipedIsEmpty'
  <2>1. \A q \in Passes : First(q)' = First(q)
    BY <1>3 DEF First
  <2> QED BY <1>1, <1>3, <1>4, <1>5, <2>1 DEF Inv, WipedIsEmpty
<1> QED BY <1>6, <1>7, <1>8, <1>9 DEF Inv

LEMMA ExpireKeeps == ASSUME Inv, MeetingsAreRaced, NEW p \in Passes, Expire(p) PROVE Inv'
<1> DEFINE h    == First(p)
           left == pass[p].todo \ {h}
           c    == h.row.client
           row  == Expired(h.row)
<1>1. TypeOK /\ UNCHANGED <<vectors, upload, alone, raced>> /\ pass[p].stage = "expiring" /\ Working(p)
  BY DEF Expire, Inv, Working
<1>2. /\ h \in pass[p].todo /\ h.id \in Ids /\ h \in Handle /\ c \in Clients
      /\ rows[h.id].client = c
      /\ row \in Row /\ row.client = c /\ ~row.own /\ row.status = "expired" /\ row.recent
  <2>1. h \in pass[p].todo /\ h \in Handle
    BY <1>1, FirstIsListed DEF TypeOK
  <2> QED BY <2>1 DEF Inv, ListedIsRow, Handle, Row, Expired
<1> HIDE DEF row, h
<1>3. CASE /\ rows' = [rows EXCEPT ![h.id] = row]
           /\ pass' = [pass EXCEPT ![p] = [stage |-> Through(left), todo |-> left]]
  <2>1. /\ left \in SUBSET Handle /\ Through(left) \in PassStages /\ Through(left) # "expiring"
        /\ (Through(left) \in {"wiping", "expiring"} => left # {})
    BY <1>1 DEF TypeOK, Through, PassStages
  <2>2. /\ pass' \in [Passes -> [stage : PassStages, todo : SUBSET Handle]]
        /\ pass'[p].stage = Through(left) /\ pass'[p].todo = left
        /\ \A q \in Passes \ {p} : pass'[q] = pass[q]
    BY <1>1, <1>3, <2>1, PassEffect
  <2>3. /\ Ids' = Ids /\ IsFiniteSet(Ids)'
        /\ rows' \in [1..Cardinality(Ids)' -> Row]
        /\ rows'[h.id] = row
        /\ \A other \in Ids \ {h.id} : rows'[other] = rows[other]
    BY <1>1, <1>2, <1>3, ReplaceEffect DEF Inv
  <2>4. \A u \in Uploads : InFlight(u) /\ Client(u) = c => c \in raced'
    BY <1>1, <1>2 DEF MeetingsAreRaced, Listed
  <2>5. TypeOK'
    BY <1>1, <1>2, <2>1, <2>2, <2>3, <2>4 DEF TypeOK, Working
  <2>6. OwnIsActive' /\ OneActiveRow'
    BY <1>2, <2>3 DEF Inv, OwnIsActive, OneActiveRow
  <2>7. HeldIsRow'
    BY <1>1, <1>2, <2>3 DEF Inv, HeldIsRow, HeldId, Client
  <2>8. WritersSaved'
    <3>1. ASSUME NEW u \in Uploads, upload[u].stage \in {"deleting", "inserting"}, HeldId(u) = h.id
          PROVE  Client(u) \in raced'
      <4>1. InFlight(u) /\ Client(u) = c
        BY <1>2, <3>1 DEF Inv, HeldIsRow, InFlight
      <4> QED BY <2>4, <4>1
    <3> QED BY <1>1, <1>2, <2>3, <2>4, <3>1 DEF Inv, HeldIsRow, WritersSaved, HeldId, Client
  <2>9. ListedIsRow'
    BY <1>2, <2>2, <2>3 DEF Inv, ListedIsRow
  <2>10. AloneIsAlone'
    <3>1. \A u \in alone : InFlight(u) => Client(u) # c
      BY <1>2 DEF Inv, AloneIsAlone, Listed
    <3>2. \A u \in alone : InFlight(u) => \A q \in Passes : ~Listed(q, Client(u))'
      BY <1>1, <2>2 DEF Inv, AloneIsAlone, Listed, Client
    <3>3. \A u \in alone : At(u, "creating") => ~Taken(Client(u), 0)'
      BY <1>1, <1>2, <2>3 DEF Inv, AloneIsAlone, Taken, Client
    <3>4. \A u \in alone : At(u, "saving") => rows'[HeldId(u)].own
      <4> SUFFICES ASSUME NEW u \in alone, At(u, "saving") PROVE rows'[HeldId(u)].own
        OBVIOUS
      <4>1. u \in Uploads /\ InFlight(u)
        BY <1>1 DEF TypeOK, At, InFlight
      <4>2. HeldId(u) \in Ids /\ HeldId(u) # h.id
        BY <1>2, <3>1, <4>1 DEF Inv, HeldIsRow, At
      <4> QED BY <2>3, <4>2 DEF Inv, AloneIsAlone
    <3> QED BY <1>1, <3>2, <3>3, <3>4 DEF Inv, AloneIsAlone, InFlight, Client, At, HeldId
  <2>11. WipedIsEmpty'
    <3> SUFFICES ASSUME NEW q \in Passes, pass'[q].stage = "expiring"
                 PROVE  \/ First(q)'.row.client \in raced'
                        \/ \A v \in vectors' : v.client # First(q)'.row.client
      BY DEF WipedIsEmpty
    <3>1. q # p /\ pass'[q] = pass[q]
      BY <2>1, <2>2
    <3>2. First(q)' = First(q)
      BY <3>1 DEF First
    <3> QED BY <1>1, <3>1, <3>2 DEF Inv, WipedIsEmpty
  <2>12. VectorsHaveRow'
    <3>1. c \in raced' \/ \A v \in vectors : v.client # c
      BY <1>1 DEF Inv, WipedIsEmpty, h
    <3> SUFFICES ASSUME NEW v \in vectors, v.client \notin raced'
                 PROVE  rows'[v.id].client = v.client /\ rows'[v.id].status = "active"
      BY <1>1 DEF VectorsHaveRow
    <3>2. v.id \in Ids /\ rows[v.id].client = v.client /\ rows[v.id].status = "active"
      BY <1>1 DEF Inv, TypeOK, VectorsHaveRow
    <3> QED BY <1>2, <2>3, <3>1, <3>2
  <2> QED BY <2>3, <2>5, <2>6, <2>7, <2>8, <2>9, <2>10, <2>11, <2>12 DEF Inv
<1>4. CASE /\ pass' = [pass EXCEPT ![p] = [stage |-> "over", todo |-> {}]]
           /\ UNCHANGED rows
  <2>1. /\ pass' \in [Passes -> [stage : PassStages, todo : SUBSET Handle]]
        /\ pass'[p].stage = "over" /\ pass'[p].todo = {}
        /\ \A q \in Passes \ {p} : pass'[q] = pass[q]
    BY <1>1, <1>4 DEF TypeOK, PassStages
  <2>2. TypeOK'
    BY <1>1, <1>4, <2>1 DEF TypeOK, Ids, Working
  <2>3. /\ IsFiniteSet(Ids)' /\ OwnIsActive' /\ OneActiveRow' /\ HeldIsRow' /\ WritersSaved' /\ VectorsHaveRow'
    BY <1>1, <1>4 DEF Inv, OwnIsActive, OneActiveRow, HeldIsRow, WritersSaved, VectorsHaveRow, HeldId, Client, Ids
  <2>4. ListedIsRow' /\ AloneIsAlone'
    BY <1>1, <1>4, <2>1 DEF Inv, ListedIsRow, AloneIsAlone, InFlight, Listed, Client, At, Taken, HeldId, Ids
  <2>5. WipedIsEmpty'
    BY <1>1, <1>4, <2>1 DEF Inv, WipedIsEmpty, First
  <2> QED BY <2>2, <2>3, <2>4, <2>5 DEF Inv
<1> QED BY <1>3, <1>4 DEF Expire, h, row

-----------------------------------------------------------------------------
(* The rest.                                                               *)

LEMMA DeleteIndexKeeps == ASSUME Inv, NEW client \in Clients, DeleteIndex(client) PROVE Inv'
<1>1. vectors' \subseteq vectors /\ UNCHANGED <<rows, upload, pass, alone, raced>>
  BY DEF DeleteIndex
<1>2. /\ TypeOK' /\ IsFiniteSet(Ids)' /\ OwnIsActive' /\ OneActiveRow' /\ HeldIsRow' /\ WritersSaved'
      /\ VectorsHaveRow'
  BY <1>1 DEF Inv, TypeOK, OwnIsActive, OneActiveRow, HeldIsRow, WritersSaved, VectorsHaveRow,
              HeldId, Client, Ids, Working
<1>3. ListedIsRow' /\ AloneIsAlone'
  BY <1>1 DEF Inv, ListedIsRow, AloneIsAlone, InFlight, Listed, Client, At, Taken, HeldId, Ids
<1>4. WipedIsEmpty'
  BY <1>1 DEF Inv, WipedIsEmpty, First
<1> QED BY <1>2, <1>3, <1>4 DEF Inv

LEMMA AgeKeeps == ASSUME Inv, NEW id \in Ids, Age(id) PROVE Inv'
<1> DEFINE row == [rows[id] EXCEPT !.recent = FALSE]
<1>1. TypeOK /\ UNCHANGED <<vectors, upload, pass, alone, raced>>
  BY DEF Age, Inv
<1>2. /\ row \in Row /\ row.client = rows[id].client /\ row.own = rows[id].own
      /\ row.status = rows[id].status
  <2>1. rows[id] \in Row
    BY <1>1 DEF TypeOK, Ids
  <2> QED BY <2>1 DEF Row
<1>3. rows' = [rows EXCEPT ![id] = row]
  BY DEF Age
<1> HIDE DEF row
<1>4. /\ Ids' = Ids /\ IsFiniteSet(Ids)'
      /\ rows' \in [1..Cardinality(Ids)' -> Row]
      /\ rows'[id] = row
      /\ \A other \in Ids \ {id} : rows'[other] = rows[other]
  BY <1>1, <1>2, <1>3, ReplaceEffect DEF Inv
<1>5. /\ \A u \in Uploads : InFlight(u) => Client(u) # rows[id].client
      /\ \A p \in Passes : ~Listed(p, rows[id].client)
  BY DEF Age
<1>6. TypeOK'
  BY <1>1, <1>4 DEF TypeOK, Working
<1>7. OwnIsActive' /\ OneActiveRow' /\ HeldIsRow' /\ ListedIsRow'
  BY <1>1, <1>2, <1>4 DEF Inv, OwnIsActive, OneActiveRow, HeldIsRow, ListedIsRow, HeldId, Client
<1>8. WritersSaved'
  BY <1>1, <1>2, <1>4, <1>5 DEF Inv, HeldIsRow, WritersSaved, HeldId, Client, InFlight
<1>9. AloneIsAlone'
  <2>1. \A u \in alone : At(u, "saving") => HeldId(u) \in Ids
    BY <1>1 DEF Inv, TypeOK, HeldIsRow, At
  <2> QED BY <1>1, <1>2, <1>4, <2>1 DEF Inv, AloneIsAlone, InFlight, Listed, Client, At, Taken, HeldId
<1>10. WipedIsEmpty'
  <2>1. \A p \in Passes : First(p)' = First(p)
    BY <1>1 DEF First
  <2> QED BY <1>1, <2>1 DEF Inv, WipedIsEmpty
<1>11. VectorsHaveRow'
  BY <1>1, <1>2, <1>4 DEF Inv, TypeOK, VectorsHaveRow
<1> QED BY <1>4, <1>6, <1>7, <1>8, <1>9, <1>10, <1>11 DEF Inv

LEMMA InitInv == Init => Inv
<1> SUFFICES ASSUME Init PROVE Inv
  OBVIOUS
<1>1. Ids = {} /\ IsFiniteSet(Ids) /\ Cardinality(Ids) = 0
  BY FS_EmptySet DEF Init, Ids
<1>2. rows \in [1..Cardinality(Ids) -> Row]
  BY <1>1 DEF Init
<1>3. TypeOK
  BY <1>2 DEF Init, TypeOK, Working, UploadStages, PassStages
<1> QED BY <1>1, <1>3
        DEF Init, Inv, OwnIsActive, OneActiveRow, HeldIsRow, ListedIsRow, AloneIsAlone, WritersSaved,
            WipedIsEmpty, VectorsHaveRow, InFlight, At

LEMMA MeetingsKept == Inv /\ MeetingsAreRaced /\ [Next]_vars => MeetingsAreRaced'
<1> SUFFICES ASSUME Inv, MeetingsAreRaced, [Next]_vars PROVE MeetingsAreRaced'
  OBVIOUS
<1>0. TypeOK
  BY DEF Inv
<1> USE <1>0 DEF MeetingsAreRaced, InFlight, Listed, Client
<1>1. ASSUME NEW u \in Uploads, Begin(u) PROVE MeetingsAreRaced'
  BY <1>1 DEF Begin, Goto, TypeOK
<1>2. ASSUME NEW u \in Uploads, UploadStep(u), ~Begin(u) PROVE MeetingsAreRaced'
  <2>1. /\ UNCHANGED <<pass, raced>> /\ upload[u].stage \in {"finding", "creating", "saving", "deleting", "inserting"}
        /\ \A v \in Uploads : upload'[v].client = upload[v].client
        /\ \A v \in Uploads \ {u} : upload'[v] = upload[v]
    BY <1>2 DEF UploadStep, Find, Create, Save, DeleteOld, Insert, At, Goto, Holding, TypeOK
  <2> QED BY <2>1
<1>3. ASSUME NEW p \in Passes, Scan(p) PROVE MeetingsAreRaced'
  <2>1. /\ UNCHANGED upload /\ raced \subseteq raced'
        /\ \A q \in Passes : pass'[q].todo = pass[q].todo \/ (pass'[q].todo = Stale /\ \A u \in Surprised : Client(u) \in raced')
    <3>1. CASE /\ pass' = [pass EXCEPT ![p] = [stage |-> Through(Stale), todo |-> Stale]]
               /\ raced' = raced \cup {Client(u) : u \in Surprised}
      <4>1. \A q \in Passes : pass'[q].todo = pass[q].todo \/ pass'[q].todo = Stale
        BY <3>1 DEF TypeOK
      <4>2. \A u \in Surprised : Client(u) \in raced'
        BY <3>1
      <4> QED BY <1>3, <3>1, <4>1, <4>2 DEF Scan
    <3>2. CASE pass' = [pass EXCEPT ![p].stage = "over"] /\ UNCHANGED raced
      BY <1>3, <3>2 DEF Scan, TypeOK
    <3> QED BY <1>3, <3>1, <3>2 DEF Scan
  <2>2. ASSUME NEW u \in Uploads, InFlight(u), NEW q \in Passes, \E h \in pass'[q].todo : h.row.client = Client(u)
        PROVE  Client(u) \in raced'
    BY <2>1, <2>2 DEF Surprised
  <2> QED BY <2>1, <2>2
<1>4. ASSUME NEW p \in Passes, Wipe(p) \/ Expire(p) PROVE MeetingsAreRaced'
  <2>1. /\ UNCHANGED upload /\ raced \subseteq raced'
        /\ \A q \in Passes : pass'[q].todo \subseteq pass[q].todo
    BY <1>4 DEF Wipe, Expire, TypeOK
  <2> QED BY <2>1
<1>5. ASSUME NEW client \in Clients, DeleteIndex(client) PROVE MeetingsAreRaced'
  BY <1>5 DEF DeleteIndex
<1>6. ASSUME NEW id \in Ids, Age(id) PROVE MeetingsAreRaced'
  BY <1>6 DEF Age
<1>7. CASE UNCHANGED vars
  BY <1>7 DEF vars
<1> QED BY <1>1, <1>2, <1>3, <1>4, <1>5, <1>6, <1>7 DEF Next, PassStep

LEMMA StepInv == Inv /\ MeetingsAreRaced /\ [Next]_vars => Inv'
<1> SUFFICES ASSUME Inv, MeetingsAreRaced, [Next]_vars PROVE Inv'
  OBVIOUS
<1>1. ASSUME NEW u \in Uploads, UploadStep(u) PROVE Inv'
  BY <1>1, BeginKeeps, FindKeeps, CreateKeeps, SaveKeeps, DeleteOldKeeps, InsertKeeps DEF UploadStep
<1>2. ASSUME NEW p \in Passes, PassStep(p) PROVE Inv'
  BY <1>2, ScanKeeps, WipeKeeps, ExpireKeeps DEF PassStep
<1>3. ASSUME NEW client \in Clients, DeleteIndex(client) PROVE Inv'
  BY <1>3, DeleteIndexKeeps
<1>4. ASSUME NEW id \in Ids, Age(id) PROVE Inv'
  BY <1>4, AgeKeeps
<1>5. CASE UNCHANGED vars
  BY <1>5 DEF vars, Inv, TypeOK, OwnIsActive, OneActiveRow, HeldIsRow, ListedIsRow, AloneIsAlone,
              WritersSaved, WipedIsEmpty, VectorsHaveRow, First, InFlight, Listed, Client, At, Taken,
              HeldId, Ids, Working
<1> QED BY <1>1, <1>2, <1>3, <1>4, <1>5 DEF Next

LEMMA Invariance == Spec => []Inv
<1>1. Init => MeetingsAreRaced
  BY DEF Init, MeetingsAreRaced, InFlight
<1>2. (Inv /\ MeetingsAreRaced) /\ [Next]_vars => (Inv /\ MeetingsAreRaced)'
  BY StepInv, MeetingsKept
<1> QED BY <1>1, <1>2, InitInv, PTL DEF Spec

-----------------------------------------------------------------------------
(***************************************************************************)
(* Ids are given without gaps, everyone who writes a row writes a row, and *)
(* no vector is ever written under an id the table has not given.          *)
(***************************************************************************)
THEOREM TypeCorrect == Spec => []TypeOK
<1>1. Inv => TypeOK
  BY DEF Inv
<1> QED BY <1>1, Invariance, PTL

(***************************************************************************)
(* A codebase never has two active rows, though updateCodebaseInfo writes  *)
(* back a copy it read long ago: the unique index refuses the write when   *)
(* the client has come back in between.                                    *)
(***************************************************************************)
THEOREM OneActiveRowHolds == Spec => []OneActiveRow
<1>1. Inv => OneActiveRow
  BY DEF Inv
<1> QED BY <1>1, Invariance, PTL

(***************************************************************************)
(* An upload past initCodebaseIfNotExists works under a row of its own     *)
(* codebase, whatever became of the row since.                             *)
(***************************************************************************)
THEOREM NoRowlessWorkHolds == Spec => []NoRowlessWork
<1>1. Inv => NoRowlessWork
  BY DEF Inv, HeldIsRow, NoRowlessWork
<1> QED BY <1>1, Invariance, PTL

\* No upload that has its codebase to itself is refused for a duplicate row.
THEOREM AloneUploadsWorkHolds == Spec => []AloneUploadsWork
<1>1. Inv => AloneUploadsWork
  BY DEF Inv, AloneIsAlone, AloneUploadsWork
<1> QED BY <1>1, Invariance, PTL

(***************************************************************************)
(* Vectors without an active row exist only of codebases on which a pass   *)
(* of the cleaner met an upload, or whose vectors it could not delete.     *)
(***************************************************************************)
THEOREM VectorsHaveRowHolds == Spec => []VectorsHaveRow
<1>1. Inv => VectorsHaveRow
  BY DEF Inv
<1> QED BY <1>1, Invariance, PTL
=============================================================================
