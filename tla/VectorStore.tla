------------------------------ MODULE VectorStore ------------------------------
(***************************************************************************)
(* The objects of the vector store and the questions the wrapper asks      *)
(* Weaviate about them, as operators over a set of objects.  An object is  *)
(* one chunk: its id (a fresh UUID), its tenant, the path of its file and  *)
(* its text, which stands for content, range and token count together.    *)
(*                                                                         *)
(* A path is text: a sequence of parts, which are the letters and marks    *)
(* there are, the separator one of the marks.  Weaviate does not compare   *)
(* paths as text.  The class declares filePath a text property and names   *)
(* no tokenization for it, so it is indexed by the words of the path, and  *)
(* a query with Equal finds every path that has all the words asked for,   *)
(* in any place.  A query with Like finds the same: the "%" it is given is *)
(* no wildcard of Weaviate's but a mark.  That words match whatever their  *)
(* case, and that very common ones are not looked for, is left out.        *)
(***************************************************************************)
EXTENDS Naturals, Sequences, FiniteSets, SequencesExt

CONSTANTS
  NoClient,    \* the empty client id
  QueryLimit,  \* QUERY_DEFAULTS_LIMIT: objects a query without a limit returns
  PageSize,    \* limit: objects GetCodebaseRecords asks for at a time
  Marks        \* the parts that are neither letters nor digits

Slash == "/"

ASSUME LimitAssumption == QueryLimit \in Nat \ {0} /\ PageSize \in Nat \ {0}
ASSUME MarksAssumption == Slash \in Marks

(***************************************************************************)
(* generateTenantName: a codebase is a client and a path on its machine,   *)
(* and the name is a hash of both, taken to be injective.  Without a       *)
(* client there is no tenant.                                              *)
(***************************************************************************)
NoTenant == <<>>
TenantOf(codebase) ==
  IF codebase.client = NoClient THEN NoTenant ELSE <<codebase.client, codebase.path>>

\* The separator a directory is completed with, so that "a" does not stand for "ab" as well.
AsDirectory(dir) == IF dir = <<>> \/ Last(dir) = Slash THEN dir ELSE Append(dir, Slash)

\* Faulty variant: the directories are exchanged as they were given.
MovedAsGiven(path, dir, new) == ReplaceFirstSubSeq(new, dir, path)

\* strings.Replace(path, dir, new, 1): at the first place the directory's name is found, wherever.
Moved(path, dir, new) == ReplaceFirstSubSeq(AsDirectory(new), AsDirectory(dir), path)

\* The words of a text, as Weaviate's default tokenization has them: what stands between marks.
Words(text) ==
  LET Places  == 1..Len(text)
      Mark(n) == n \notin Places \/ text[n] \in Marks
      Spans   == {w \in Places \X Places :
                    /\ w[1] <= w[2] /\ \A n \in w[1]..w[2] : ~Mark(n)
                    /\ Mark(w[1] - 1) /\ Mark(w[2] + 1)}
  IN {SubSeq(text, w[1], w[2]) : w \in Spans}

\* Equal and Like, for a property that is indexed by words.
Matches(query, path) == Words(query) \subseteq Words(path)

-----------------------------------------------------------------------------
\* By id, as Weaviate returns them: each at the place that so many ids come up to.
InOrder(objects) ==
  [n \in 1..Cardinality(objects) |->
     CHOOSE o \in objects : Cardinality({p \in objects : p.id <= o.id}) = n]

FirstOf(seq, n)  == SubSeq(seq, 1, IF n < Len(seq) THEN n ELSE Len(seq))

TenantsObjects(objects, tenant) == {o \in objects : o.tenant = tenant}

\* Faulty variant: not asked of the tenant.
RecordsOfAll(objects, tenant, path) ==
  FirstOf(InOrder({o \in objects : Matches(path, o.path)}), QueryLimit)

\* getRecordsByPath and getObjectIdsByPath: no limit in the query, so Weaviate's own applies.
RecordsAt(objects, tenant, path) ==
  FirstOf(InOrder({o \in TenantsObjects(objects, tenant) : Matches(path, o.path)}), QueryLimit)

\* getRecordsByPathPrefix: the same question, Like.
RecordsBelow(objects, tenant, dir) == RecordsAt(objects, tenant, AsDirectory(dir))

\* Faulty variant: the next page begins one object late.
PageSkippingOne(objects, tenant, offset) ==
  LET all == InOrder(TenantsObjects(objects, tenant))
      from == IF offset = 0 THEN 1 ELSE offset + 2
  IN SubSeq(all, from, IF offset + PageSize < Len(all) THEN offset + PageSize ELSE Len(all))

\* One round of the loop in GetCodebaseRecords.
Page(objects, tenant, offset) ==
  LET all == InOrder(TenantsObjects(objects, tenant))
  IN SubSeq(all, offset + 1, IF offset + PageSize < Len(all) THEN offset + PageSize ELSE Len(all))

\* Faulty variant: the filters joined by And.
MatchedByAllPaths(objects, tenant, records) ==
  {o \in TenantsObjects(objects, tenant) : \A i \in DOMAIN records : Matches(records[i].path, o.path)}

\* The objects a batch delete for these records matches (DeleteDictionary, DeleteCodeChunks).
MatchedByPaths(objects, tenant, records) ==
  {o \in TenantsObjects(objects, tenant) : \E i \in DOMAIN records : Matches(records[i].path, o.path)}
=============================================================================
