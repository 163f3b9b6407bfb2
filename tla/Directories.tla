------------------------------ MODULE Directories ------------------------------
(***************************************************************************)
(* The calls that work on a whole directory or codebase of the vector      *)
(* store: renaming a directory (UpdateEmbeddingPath), deleting one or the  *)
(* whole index (DeleteIndex), and listing all records (the codebase tree   *)
(* and the summaries).  None of them is one step: they read a page of      *)
(* records, then look up and write objects one by one, and nothing keeps   *)
(* two of them apart.                                                      *)
(*                                                                         *)
(* A call is one of a number of slots that run at the same time; a slot    *)
(* may be used again, up to MaxCalls calls in total.                       *)
(***************************************************************************)
EXTENDS VectorStore

CONSTANTS
  Codebases,   \* the codebases clients ask for, records of client and path
  Layout,      \* the objects there are at the beginning
  Dirs,        \* what a client may name: directories, with a separator at the end or not, and files
  Slots,       \* calls that may run at the same time
  MaxCalls,    \* bound: calls in all
  Faults       \* whether Weaviate may fail

\* Names with one separator between them, and none at either end.
WellFormed(path) ==
  /\ path # <<>> /\ Head(path) # Slash /\ Last(path) # Slash
  /\ \A n \in 1..Len(path) - 1 : Slash \notin {path[n], path[n + 1]} \/ path[n] # path[n + 1]

IsPath(path) == path \in Seq(ToSet(path)) /\ WellFormed(path)

ASSUME CallsAssumption  == MaxCalls \in Nat
ASSUME LayoutAssumption ==
  /\ IsFiniteSet(Layout)
  /\ \A o \in Layout : o.id \in Nat
  /\ \A o, p \in Layout : o.id = p.id => o = p

ASSUME CodebasesAssumption ==
  \A b \in Codebases \cup {o.codebase : o \in Layout} : b = [client |-> b.client, path |-> b.path]

\* Assumed of clients; that the name of a directory is not empty their requests are checked for.
ASSUME NamesAssumption ==
  /\ \A o \in Layout : IsPath(o.path) /\ Words(o.path) # {}
  /\ \A d \in Dirs : Words(d) # {} /\ (IsPath(d) \/ (IsPath(Front(d)) /\ d = Append(Front(d), Slash)))

VARIABLES
  objects,   \* the objects of all tenants
  call,      \* what each slot does
  calls      \* calls begun

vars == <<objects, call, calls>>

Stages == {"idle", "reading", "lookup", "moving", "answering", "deleting", "listing",
           "done", "failed", "refused"}
Active == Stages \ {"idle", "done", "failed", "refused"}

Ids      == {o.id : o \in Layout}
TextOf(id) == (CHOOSE o \in Layout : o.id = id).text
CodebaseOf(id) == (CHOOSE o \in Layout : o.id = id).codebase

(***************************************************************************)
(* before and alone are history: the codebase's objects at the start of    *)
(* the call, and whether no other call for it was under way meanwhile.     *)
(***************************************************************************)
Requests ==
  [op : {"rename"}, codebase : Codebases, dir : Dirs, new : Dirs]
    \cup [op : {"delete"}, codebase : Codebases, dir : Dirs, new : {<<>>}]
    \cup [op : {"wipe", "list"}, codebase : Codebases, dir : {<<>>}, new : {<<>>}]

NoRequest == [op |-> "none", codebase |-> NoTenant, dir |-> <<>>, new |-> <<>>]

CallOf(request, stage, before, alone) ==
  [request |-> request, stage |-> stage, records |-> <<>>, ids |-> <<>>,
   before |-> before, alone |-> alone]

Stored(o) == [id |-> o.id, tenant |-> TenantOf(o.codebase), path |-> o.path, text |-> o.text]

\* The type invariant; paths never get an empty component.
TypeOK ==
  /\ \A o \in objects : /\ o.id \in Ids
                        /\ WellFormed(o.path)
                        /\ o.text \in {p.text : p \in Layout}
                        /\ o.tenant \in {TenantOf(p.codebase) : p \in Layout}
  /\ \A o, p \in objects : o.id = p.id => o = p
  /\ \A c \in Slots :
       /\ call[c].stage \in Stages
       /\ call[c].request \in Requests \cup {NoRequest}
       /\ call[c].alone \in BOOLEAN
       /\ \A i \in DOMAIN call[c].records : call[c].records[i].id \in Ids
       /\ \A i \in DOMAIN call[c].ids : call[c].ids[i] \in Ids
  /\ calls \in 0..MaxCalls

Init ==
  /\ objects = {Stored(o) : o \in Layout}
  /\ call = [c \in Slots |-> CallOf(NoRequest, "idle", {}, TRUE)]
  /\ calls = 0

-----------------------------------------------------------------------------
Op(c)     == call[c].request.op
Dir(c)    == call[c].request.dir
New(c)    == call[c].request.new
Tenant(c) == TenantOf(call[c].request.codebase)
At(c, stage) == call[c].stage = stage
Runs(c)      == call[c].stage \in Active

Rivals(c, tenant) == {d \in Slots \ {c} : Runs(d) /\ Tenant(d) = tenant}

Goto(c, stage) == call' = [call EXCEPT ![c].stage = stage]
MayFail(c)     == Faults /\ Goto(c, "failed") /\ UNCHANGED objects

\* What really is in the directory, which the code does not ask for: see VectorStore.
Below(dir, path) == IsPrefix(AsDirectory(dir), path)

\* What a client asks for by its name: the file of that name, or what is in the directory.
Named(dir, path) == path = dir \/ Below(dir, path)

(***************************************************************************)
(* A client moves directories one after the other, and not so that a file  *)
(* comes into the directory it is moved out of: assumed of rename          *)
(* requests, not enforced.                                                 *)
(***************************************************************************)
CanRename(c, request) ==
  LET tenant == TenantOf(request.codebase)
      dir    == request.dir
  IN /\ \A d \in Rivals(c, tenant) : Op(d) # "rename"
     /\ \A o \in TenantsObjects(objects, tenant) :
          Matches(AsDirectory(dir), o.path) => ~Below(dir, Moved(o.path, dir, request.new))

FirstStage(request) ==
  IF TenantOf(request.codebase) = NoTenant THEN "refused"
  ELSE CASE request.op \in {"rename", "delete"} -> "reading"
         [] request.op = "wipe"                 -> "deleting"
         [] request.op = "list"                 -> "listing"

Start(c, request) ==
  /\ ~Runs(c) /\ calls < MaxCalls
  /\ request.op = "rename" => CanRename(c, request)
  /\ calls' = calls + 1
  /\ LET tenant == TenantOf(request.codebase)
         rivals == Rivals(c, tenant)
         begun  == CallOf(request, FirstStage(request), TenantsObjects(objects, tenant), rivals = {})
     IN call' = [d \in Slots |-> IF d = c THEN begun
                                 ELSE IF d \in rivals THEN [call[d] EXCEPT !.alone = FALSE]
                                 ELSE call[d]]
  /\ UNCHANGED objects

(***************************************************************************)
(* getRecordsByPathPrefix, the first call of a rename and of a delete.     *)
(***************************************************************************)
Read(c) ==
  /\ At(c, "reading")
  /\ \/ LET found == RecordsBelow(objects, Tenant(c), Dir(c))
            next  == CASE Op(c) = "rename" -> IF found = <<>> THEN "answering" ELSE "lookup"
                       [] Op(c) = "delete" -> IF found = <<>> THEN "done" ELSE "deleting"
        IN /\ call' = [call EXCEPT ![c].records = found, ![c].stage = next]
           /\ UNCHANGED objects
     \/ MayFail(c)
  /\ UNCHANGED calls

\* UpdateCodeChunksDictionary, at its next record: the objects that are at its path now.
Lookup(c) ==
  /\ At(c, "lookup")
  /\ \/ LET found == RecordsAt(objects, Tenant(c), Head(call[c].records).path)
        IN /\ call' = [call EXCEPT ![c].ids = [i \in DOMAIN found |-> found[i].id],
                                   ![c].stage = "moving"]
           /\ UNCHANGED objects
     \/ MayFail(c)
  /\ UNCHANGED calls

\* Faulty variant: the loop ends one record early.
EndsEarly(c)   == Len(call[c].records) <= 2
LastRecord(c)  == Len(call[c].records) = 1

\* The record has no object left: on to the next one, or to the answer.
NextRecord(c) ==
  /\ At(c, "moving") /\ call[c].ids = <<>>
  /\ call' = [call EXCEPT ![c].records = Tail(@),
                          ![c].stage   = IF LastRecord(c) THEN "answering" ELSE "lookup"]
  /\ UNCHANGED <<objects, calls>>

(***************************************************************************)
(* updateObjectPath: the whole object is replaced by the record with the   *)
(* new path.  An object that has been deleted meanwhile is an error.       *)
(***************************************************************************)
Rewritten(o, record, path) == [o EXCEPT !.path = path, !.text = record.text]

Update(c) ==
  /\ At(c, "moving") /\ call[c].ids # <<>>
  /\ LET id   == Head(call[c].ids)
         rec  == Head(call[c].records)
         path == Moved(rec.path, Dir(c), New(c))
     IN \/ /\ \E o \in objects : /\ o.id = id
                                 /\ objects' = (objects \ {o}) \cup {Rewritten(o, rec, path)}
           /\ call' = [call EXCEPT ![c].ids = Tail(@)]
        \/ /\ \A o \in objects : o.id # id
           /\ Goto(c, "failed")
           /\ UNCHANGED objects
        \/ MayFail(c)
  /\ UNCHANGED calls

\* UpdateEmbeddingPath then lists what is in the new directory.
Answer(c) ==
  /\ At(c, "answering")
  /\ \/ /\ call' = [call EXCEPT ![c].records = RecordsBelow(objects, Tenant(c), New(c)),
                                ![c].stage = "done"]
        /\ UNCHANGED objects
     \/ MayFail(c)
  /\ UNCHANGED calls

(***************************************************************************)
(* The batch delete of DeleteDictionary, by the paths of the records read, *)
(* and of DeleteByCodebase.  A batch that fails may have deleted a part.   *)
(***************************************************************************)
Wiped(c) == TenantsObjects(objects, Tenant(c))

Matched(c) == IF Op(c) = "wipe" THEN Wiped(c) ELSE MatchedByPaths(objects, Tenant(c), call[c].records)

DeletePart(c) == Faults /\ Goto(c, "failed") /\ \E part \in SUBSET Matched(c) : objects' = objects \ part

Delete(c) ==
  /\ At(c, "deleting")
  /\ \/ objects' = objects \ Matched(c) /\ Goto(c, "done")
     \/ DeletePart(c)
  /\ UNCHANGED calls

\* GetCodebaseRecords: page after page, until one is not full.
List(c) ==
  /\ At(c, "listing")
  /\ \/ LET page == Page(objects, Tenant(c), Len(call[c].records))
        IN /\ call' = [call EXCEPT ![c].records = @ \o page,
                                   ![c].stage   = IF Len(page) < PageSize THEN "done" ELSE "listing"]
           /\ UNCHANGED objects
     \/ MayFail(c)
  /\ UNCHANGED calls

Step(c) == Read(c) \/ Lookup(c) \/ NextRecord(c) \/ Update(c) \/ Answer(c) \/ Delete(c) \/ List(c)

Next ==
  \/ \E c \in Slots, request \in Requests : Start(c, request)
  \/ \E c \in Slots : Step(c)

Spec == Init /\ [][Next]_vars

-----------------------------------------------------------------------------
(* Properties.                                                             *)

\* The call of slot c returns without an error in this step.
Returns(c, op) == Op(c) = op /\ Runs(c) /\ call'[c].stage = "done"
Left(c)        == TenantsObjects(objects', Tenant(c))

\* The directory's words are all in the object's path.
MatchedBy(c, o) == Matches(AsDirectory(Dir(c)), o.path)

(***************************************************************************)
(* A step changes or removes an object only for a call that is under way   *)
(* for the object's own codebase and, unless it wipes the codebase, only   *)
(* if the object's path, as it is at that step, has all the words of the   *)
(* directory asked for: though every question after the first is asked by  *)
(* the path of a record read before, and other calls come in between.      *)
(***************************************************************************)
OnlyWhatMatches ==
  [][\A o \in objects \ objects' : \E c \in Slots :
       /\ Runs(c) /\ call[c].request.codebase = CodebaseOf(o.id)
       /\ Op(c) = "wipe" \/ (Op(c) \in {"rename", "delete"} /\ MatchedBy(c, o))]_vars

(***************************************************************************)
(* A rename that had the codebase to itself and returns without an error   *)
(* leaves nothing in the directory, loses no object, leaves those alone    *)
(* that have not all of its words, and has made of every other one what it *)
(* was or a copy of an object that has them, moved; its answer lists all   *)
(* that is in the new directory.                                           *)
(***************************************************************************)
RenameIsComplete ==
  [][\A c \in Slots : Returns(c, "rename") /\ call[c].alone =>
       /\ \A o \in Left(c) : ~Below(Dir(c), o.path)
       /\ {o.id : o \in Left(c)} = {o.id : o \in call[c].before}
       /\ \A o \in call[c].before : MatchedBy(c, o) \/ o \in Left(c)
       /\ \A o \in Left(c) \ call[c].before : \E b \in call[c].before :
            MatchedBy(c, b) /\ o.path = Moved(b.path, Dir(c), New(c)) /\ o.text = b.text
       /\ {o \in Left(c) : Below(New(c), o.path)} \subseteq ToSet(call'[c].records)]_vars

(***************************************************************************)
(* A delete that had the codebase to itself and returns without an error   *)
(* leaves nothing of the file or directory named, and nothing else goes    *)
(* but what has all of its words.                                          *)
(***************************************************************************)
DeleteIsComplete ==
  [][\A c \in Slots : Returns(c, "delete") /\ call[c].alone =>
       /\ \A o \in Left(c) : ~Named(Dir(c), o.path)
       /\ Left(c) = {o \in call[c].before : ~MatchedBy(c, o)}]_vars

(***************************************************************************)
(* A listing that had the codebase to itself returns every record once,    *)
(* wherever the pages end.                                                 *)
(***************************************************************************)
ListingIsComplete ==
  [][\A c \in Slots : Returns(c, "list") /\ call[c].alone =>
       /\ ToSet(call'[c].records) = call[c].before
       /\ Len(call'[c].records) = Cardinality(call[c].before)]_vars

(***************************************************************************)
(* What the code and its documents say, and does not hold.                 *)
(***************************************************************************)

\* An object that is renamed keeps its own text ("all original properties", updateObjectPath).
RenameKeepsChunks == \A o \in objects : o.text = TextOf(o.id)

\* Calls of this kind change or remove nothing but what they were asked for by name.
OnlyNamed(op) ==
  \A o \in objects \ objects' : \E c \in Slots :
    Runs(c) /\ (Op(c) = op => Named(Dir(c), o.path))

\* A delete takes only the file or directory it names (DeleteDictionary matches "the prefix of filePath").
DeletesOnlyNamed == [][OnlyNamed("delete")]_vars

\* A rename touches only files whose paths begin with the old directory (docs/charts/put_embedding.md).
RenamesOnlyNamed == [][OnlyNamed("rename")]_vars

\* A rename that had the codebase to itself and returns has moved the file or directory named
\* (oldPath is a "file or directory", docs/api/embeddings.md).
RenamedIsGone ==
  [][\A c \in Slots : Returns(c, "rename") /\ call[c].alone =>
       \A o \in Left(c) : ~Named(Dir(c), o.path)]_vars
=============================================================================
