--------------------------- MODULE DirectoriesProofs ---------------------------
(***************************************************************************)
(* Theorems about Directories, for any codebases, objects, directories and *)
(* number of calls, in whatever order their steps come and whichever of    *)
(* them fail.                                                              *)
(***************************************************************************)
EXTENDS Directories, FiniteSetTheorems, SequenceTheorems, WellFoundedInduction, TLAPS

-----------------------------------------------------------------------------
(* The inductive invariant.                                                *)

\* The parts of names there are, and the paths made of them.
Parts   == {Slash} \cup (UNION {ToSet(o.path) : o \in Layout}) \cup (UNION {ToSet(d) : d \in Dirs})
PathSet == {path \in Seq(Parts) : WellFormed(path)}

Objects == [id : Ids, tenant : {TenantOf(o.codebase) : o \in Layout},
            path : PathSet, text : {o.text : o \in Layout}]

Calls == [request : Requests \cup {NoRequest}, stage : Stages, records : Seq(Objects),
          ids : Seq(Ids), before : SUBSET Objects, alone : BOOLEAN]

\* What the store may hold: objects told apart by their ids.
Holdings == {S \in SUBSET Objects : IsFiniteSet(S) /\ \A o, p \in S : o.id = p.id => o = p}

\* An object has the tenant of its codebase.
Owned(o) == o.tenant = TenantOf(CodebaseOf(o.id))

StoreOK(S) == S \in Holdings /\ \A o \in S : Owned(o)

\* A call is of a client, and does what it was asked for.
TenantFor(k) == TenantOf(k.request.codebase)
Working(k)   == k.stage \in Active
Renaming(k)  == k.request.op = "rename" /\ Working(k)
Moving(k)    == k.stage \in {"lookup", "moving"}

\* The objects that have all the words of the directory a call was asked for.
Answers(k, path) == Matches(AsDirectory(k.request.dir), path)

StageFits(k) ==
  Working(k) =>
    /\ k.request \in Requests /\ TenantFor(k) # NoTenant
    /\ k.stage = "reading"   => k.request.op \in {"rename", "delete"}
    /\ Moving(k)             => k.request.op = "rename" /\ k.records # <<>>
    /\ k.stage = "answering" => k.request.op = "rename"
    /\ k.stage = "deleting"  => k.request.op \in {"wipe", "delete"}
    /\ k.stage = "listing"   => k.request.op = "list"

\* Records that are to be moved or deleted answer the question for the directory.
RecordsOwn(k) ==
  Moving(k) \/ (k.stage = "deleting" /\ k.request.op = "delete") =>
    \A r \in ToSet(k.records) : Answers(k, r.path)

\* And so do the objects looked up by their paths, as long as they are not rewritten.
IdsOwn(k, S) ==
  k.stage = "moving" =>
    /\ IsInjective(k.ids)
    /\ \A id \in ToSet(k.ids) : /\ TenantOf(CodebaseOf(id)) = TenantFor(k)
                                /\ \A o \in S : o.id = id => Answers(k, o.path)

CallOK(k, S) == k \in Calls /\ StageFits(k) /\ RecordsOwn(k) /\ IdsOwn(k, S)

\* A codebase has one rename at a time.
OneRename ==
  \A c, d \in Slots : Renaming(call[c]) /\ Renaming(call[d]) /\ Tenant(c) = Tenant(d) => c = d

Inv ==
  /\ StoreOK(objects)
  /\ call \in [Slots -> Calls]
  /\ \A c \in Slots : CallOK(call[c], objects)
  /\ OneRename
  /\ calls \in 0..MaxCalls

-----------------------------------------------------------------------------
(* Queries.                                                                *)

\* In the order of their ids, objects come each once.
LEMMA OrderLists ==
  ASSUME NEW S, IsFiniteSet(S),
         \A o \in S : o.id \in Nat,
         \A o, p \in S : o.id = p.id => o = p
  PROVE  /\ Cardinality(S) \in Nat
         /\ InOrder(S) \in [1..Cardinality(S) -> S]
         /\ \A o \in S : \E n \in 1..Cardinality(S) : InOrder(S)[n] = o
         /\ \A m, n \in 1..Cardinality(S) : InOrder(S)[m] = InOrder(S)[n] => m = n
<1> DEFINE UpTo(o) == {p \in S : p.id <= o.id}
           N       == Cardinality(S)
           place   == [o \in S |-> Cardinality(UpTo(o))]
<1>1. N \in Nat
  BY FS_CardinalityType
<1>2. ASSUME NEW o \in S
      PROVE  UpTo(o) \in SUBSET S /\ IsFiniteSet(UpTo(o)) /\ Cardinality(UpTo(o)) \in 1..N
  <2>1. UpTo(o) \in SUBSET S
    OBVIOUS
  <2>2. IsFiniteSet(UpTo(o)) /\ Cardinality(UpTo(o)) <= N
    BY <2>1, FS_Subset
  <2>3. Cardinality(UpTo(o)) \in Nat
    BY <2>2, FS_CardinalityType
  <2>4. o \in UpTo(o)
    BY SMT
  <2>5. Cardinality(UpTo(o)) # 0
    BY <2>2, <2>4, FS_EmptySet
  <2> QED BY <1>1, <2>1, <2>2, <2>3, <2>5
<1>3. ASSUME NEW o \in S, NEW p \in S, o.id < p.id
      PROVE  Cardinality(UpTo(o)) # Cardinality(UpTo(p))
  <2>1. UpTo(o) \in SUBSET UpTo(p)
    BY <1>3, SMT
  <2>2. p \in UpTo(p) /\ p \notin UpTo(o)
    BY <1>3, SMT
  <2> HIDE DEF UpTo
  <2>3. IsFiniteSet(UpTo(p))
    BY <1>2
  <2> QED BY <2>1, <2>2, <2>3, FS_Subset
<1>4. place \in [S -> 1..N]
  BY <1>2
<1>5. ASSUME NEW o \in S, NEW p \in S, place[o] = place[p]
      PROVE  o = p
  <2>1. o.id \in Nat /\ p.id \in Nat /\ (o.id = p.id => o = p)
    OBVIOUS
  <2>2. Cardinality(UpTo(o)) = Cardinality(UpTo(p))
    BY <1>5
  <2> HIDE DEF UpTo, place
  <2> QED BY <1>3, <2>1, <2>2, SMT
<1>6. place \in Injection(S, 1..N)
  BY <1>4, <1>5 DEF Injection, IsInjective
<1>7. IsFiniteSet(1..N) /\ Cardinality(1..N) = N
  BY <1>1, FS_Interval
<1>8. place \in Surjection(S, 1..N)
  BY <1>6, <1>7, FS_Injection
<1>9. \A n \in 1..N : \E o \in S : place[o] = n
  BY <1>8 DEF Surjection
<1>10. \A n \in 1..N : InOrder(S)[n] \in S /\ place[InOrder(S)[n]] = n
  <2>1. ASSUME NEW n \in 1..N
        PROVE  InOrder(S)[n] \in S /\ place[InOrder(S)[n]] = n
    <3>1. InOrder(S)[n] = CHOOSE o \in S : Cardinality(UpTo(o)) = n
      BY DEF InOrder
    <3>2. \E o \in S : Cardinality(UpTo(o)) = n
      BY <1>9
    <3> HIDE DEF UpTo, N
    <3> QED BY <3>1, <3>2
  <2> QED BY <2>1
<1>11. InOrder(S) \in [1..N -> S]
  BY <1>10 DEF InOrder
<1>12. \A o \in S : \E n \in 1..N : InOrder(S)[n] = o
  <2>1. ASSUME NEW o \in S
        PROVE  \E n \in 1..N : InOrder(S)[n] = o
    <3>1. place[o] \in 1..N
      BY <1>4
    <3>2. InOrder(S)[place[o]] \in S /\ place[InOrder(S)[place[o]]] = place[o]
      BY <1>10, <3>1
    <3> HIDE DEF place, N
    <3> QED BY <1>5, <3>1, <3>2
  <2> QED BY <2>1
<1> HIDE DEF UpTo, place
<1>13. \A m, n \in 1..N : InOrder(S)[m] = InOrder(S)[n] => m = n
  BY <1>10, Zenon
<1> QED BY <1>1, <1>11, <1>12, <1>13

\* The first objects of a list are objects of the list, all of them if there are not too many.
LEMMA FirstOfList ==
  ASSUME NEW S, NEW seq \in Seq(S), NEW n \in Nat
  PROVE  /\ FirstOf(seq, n) \in Seq(S)
         /\ \A i \in DOMAIN FirstOf(seq, n) : i \in DOMAIN seq /\ FirstOf(seq, n)[i] = seq[i]
         /\ Len(seq) <= n => FirstOf(seq, n) = seq
         /\ n # 0 /\ seq # <<>> => FirstOf(seq, n) # <<>>
<1> DEFINE m == IF n < Len(seq) THEN n ELSE Len(seq)
           first == SubSeq(seq, 1, m)
<1>1. m \in Nat /\ m <= Len(seq) /\ (Len(seq) <= n => m = Len(seq)) /\ (n # 0 /\ Len(seq) # 0 => m # 0)
  OBVIOUS
<1>2. \A i \in 1..m : seq[i] \in S
  BY <1>1
<1> HIDE DEF m
<1>3. /\ first \in Seq(S) /\ Len(first) = m
      /\ \A i \in 1..m : first[i] = seq[i]
  BY <1>1, <1>2, SubSeqProperties
<1>4. \A i \in DOMAIN first : i \in 1..m
  BY <1>3
<1>5. \A i \in DOMAIN first : i \in DOMAIN seq /\ first[i] = seq[i]
  BY <1>1, <1>3, <1>4
<1>6. Len(seq) <= n => first = seq
  BY <1>1, SubSeqFull
<1>7. n # 0 /\ seq # <<>> => first # <<>>
  BY <1>1, <1>3, EmptySeq
<1> QED BY <1>3, <1>5, <1>6, <1>7 DEF FirstOf, m

LEMMA IdsAreNumbers == \A o \in Objects : o.id \in Nat
BY LayoutAssumption DEF Objects, Ids

\* A part of what the store holds, in order.
LEMMA PartInOrder ==
  ASSUME NEW S \in Holdings, NEW T \in SUBSET S
  PROVE  /\ IsFiniteSet(T) /\ Cardinality(T) \in Nat
         /\ InOrder(T) \in Seq(T) /\ InOrder(T) \in Seq(Objects)
         /\ Len(InOrder(T)) = Cardinality(T)
         /\ ToSet(InOrder(T)) = T
         /\ IsInjective(InOrder(T))
<1>1. IsFiniteSet(T)
  BY FS_Subset DEF Holdings
<1>2. T \in SUBSET Objects /\ \A o, p \in T : o.id = p.id => o = p
  BY DEF Holdings
<1>3. \A o \in T : o.id \in Nat
  BY <1>2, IdsAreNumbers
<1>4. /\ Cardinality(T) \in Nat
      /\ InOrder(T) \in [1..Cardinality(T) -> T]
      /\ \A o \in T : \E n \in 1..Cardinality(T) : InOrder(T)[n] = o
      /\ \A m, n \in 1..Cardinality(T) : InOrder(T)[m] = InOrder(T)[n] => m = n
  BY <1>1, <1>2, <1>3, OrderLists
<1>5. InOrder(T) \in Seq(T) /\ Len(InOrder(T)) = Cardinality(T)
  BY <1>4
<1>6. InOrder(T) \in Seq(Objects)
  BY <1>2, <1>5, SeqMonotonic
<1>7. DOMAIN InOrder(T) = 1..Cardinality(T)
  BY <1>4
<1>8. ToSet(InOrder(T)) = T
  BY <1>4, <1>7 DEF ToSet
<1>9. IsInjective(InOrder(T))
  BY <1>4, <1>7 DEF IsInjective
<1> QED BY <1>1, <1>4, <1>5, <1>6, <1>8, <1>9

\* A query returns objects of the tenant that have the words, each once, and all if it is not cut off.
LEMMA RecordsAtKnown ==
  ASSUME NEW S \in Holdings, NEW tenant, NEW path
  PROVE  LET found == RecordsAt(S, tenant, path)
             all   == {o \in TenantsObjects(S, tenant) : Matches(path, o.path)}
         IN  /\ found \in Seq(Objects)
             /\ \A i \in DOMAIN found : found[i] \in all
             /\ IsInjective(found)
             /\ Cardinality(S) <= QueryLimit => ToSet(found) = all
<1> DEFINE all == {o \in TenantsObjects(S, tenant) : Matches(path, o.path)}
           found == RecordsAt(S, tenant, path)
<1>1. all \in SUBSET S
  BY DEF TenantsObjects
<1>2. found = FirstOf(InOrder(all), QueryLimit)
  BY DEF RecordsAt
<1> HIDE DEF all
<1>3. /\ IsFiniteSet(all) /\ Cardinality(all) \in Nat
      /\ InOrder(all) \in Seq(all) /\ InOrder(all) \in Seq(Objects)
      /\ Len(InOrder(all)) = Cardinality(all)
      /\ ToSet(InOrder(all)) = all
      /\ IsInjective(InOrder(all))
  BY <1>1, PartInOrder
<1>4. QueryLimit \in Nat
  BY LimitAssumption
<1>5. /\ FirstOf(InOrder(all), QueryLimit) \in Seq(Objects)
      /\ \A i \in DOMAIN FirstOf(InOrder(all), QueryLimit) :
           i \in DOMAIN InOrder(all) /\ FirstOf(InOrder(all), QueryLimit)[i] = InOrder(all)[i]
      /\ Len(InOrder(all)) <= QueryLimit => FirstOf(InOrder(all), QueryLimit) = InOrder(all)
  BY <1>3, <1>4, FirstOfList
<1>6. \A i \in DOMAIN InOrder(all) : InOrder(all)[i] \in all
  BY <1>3
<1>7. IsFiniteSet(S) /\ Cardinality(all) <= Cardinality(S) /\ Cardinality(S) \in Nat
  BY <1>1, FS_Subset, FS_CardinalityType DEF Holdings
<1>8. Cardinality(S) <= QueryLimit => ToSet(found) = all
  BY <1>2, <1>3, <1>4, <1>5, <1>7
<1> HIDE DEF found
<1>9. \A i \in DOMAIN found : found[i] \in all
  BY <1>2, <1>5, <1>6
<1>10. IsInjective(found)
  BY <1>2, <1>3, <1>5 DEF IsInjective
<1>11. found \in Seq(Objects)
  BY <1>2, <1>5
<1> QED BY <1>8, <1>9, <1>10, <1>11 DEF found, all

\* A page is the objects at the places after the offset, and is not full only at the end.
LEMMA PageKnown ==
  ASSUME NEW S \in Holdings, NEW tenant, NEW offset \in Nat
  PROVE  LET page == Page(S, tenant, offset)
             all  == InOrder(TenantsObjects(S, tenant))
         IN  /\ page \in Seq(Objects)
             /\ offset <= Len(all) =>
                  /\ offset + Len(page) <= Len(all)
                  /\ \A i \in 1..Len(page) : page[i] = all[offset + i]
                  /\ Len(page) < PageSize => offset + Len(page) = Len(all)
<1> DEFINE own == TenantsObjects(S, tenant)
           all == InOrder(own)
           to  == IF offset + PageSize < Len(all) THEN offset + PageSize ELSE Len(all)
           page == SubSeq(all, offset + 1, to)
<1>1. own \in SUBSET S
  BY DEF TenantsObjects
<1> HIDE DEF own
<1>2. all \in Seq(Objects)
  BY <1>1, PartInOrder
<1> HIDE DEF all
<1>3. PageSize \in Nat /\ PageSize # 0 /\ Len(all) \in Nat
  BY <1>2, LimitAssumption
<1>4. to \in Nat /\ to <= Len(all) /\ to <= offset + PageSize /\ (to # Len(all) => to = offset + PageSize)
  BY <1>3
<1> HIDE DEF to
<1>5. \A i \in (offset + 1)..to : all[i] \in Objects
  BY <1>2, <1>3, <1>4
<1>6. /\ page \in Seq(Objects)
      /\ Len(page) = IF offset + 1 <= to THEN to - (offset + 1) + 1 ELSE 0
      /\ \A i \in 1..(to - (offset + 1) + 1) : page[i] = all[offset + 1 + i - 1]
  BY <1>4, <1>5, SubSeqProperties
<1> HIDE DEF page
<1>7. ASSUME offset <= Len(all)
      PROVE  /\ offset + Len(page) <= Len(all)
             /\ Len(page) < PageSize => offset + Len(page) = Len(all)
             /\ Len(page) = to - offset
  BY <1>3, <1>4, <1>6, <1>7
<1>8. ASSUME offset <= Len(all), NEW i \in 1..Len(page)
      PROVE  page[i] = all[offset + i]
  <2>1. i \in 1..(to - (offset + 1) + 1) /\ offset + 1 + i - 1 = offset + i
    BY <1>4, <1>7, <1>8
  <2> QED BY <1>6, <2>1
<1>9. Page(S, tenant, offset) = page
  BY DEF Page, page, to, all, own
<1>10. InOrder(TenantsObjects(S, tenant)) = all
  BY DEF all, own
<1> QED BY <1>6, <1>7, <1>8, <1>9, <1>10

-----------------------------------------------------------------------------
(* Paths.                                                                  *)

LEMMA SlashIsPart == Slash \in Parts
BY DEF Parts

\* What holds of the parts of a sequence holds of the sequence.
LEMMA PartsOfSequence ==
  ASSUME NEW path, path \in Seq(ToSet(path)), ToSet(path) \subseteq Parts
  PROVE  path \in Seq(Parts)
BY SeqMonotonic

LEMMA LayoutPaths == \A o \in Layout : o.path \in PathSet
<1> SUFFICES ASSUME NEW o \in Layout PROVE o.path \in PathSet
  OBVIOUS
<1>1. o.path \in Seq(ToSet(o.path)) /\ WellFormed(o.path)
  BY NamesAssumption DEF IsPath
<1>2. ToSet(o.path) \subseteq Parts
  BY DEF Parts
<1> QED BY <1>1, <1>2, PartsOfSequence DEF PathSet

LEMMA DirectoryParts == \A d \in Dirs : ToSet(d) \subseteq Parts
BY DEF Parts

\* A directory's name with its separator is a path and a separator.
LEMMA DirectoryForm ==
  ASSUME NEW d \in Dirs
  PROVE  \E f \in PathSet : /\ AsDirectory(d) = Append(f, Slash)
                            /\ d = f \/ d = Append(f, Slash)
<1>1. CASE IsPath(d)
  <2>1. ToSet(d) \subseteq Parts
    BY DirectoryParts
  <2>2. d \in PathSet
    BY <1>1, <2>1, PartsOfSequence DEF PathSet, IsPath
  <2>3. AsDirectory(d) = Append(d, Slash)
    BY <1>1 DEF AsDirectory, IsPath, WellFormed
  <2> QED BY <2>2, <2>3
<1>2. CASE IsPath(Front(d)) /\ d = Append(Front(d), Slash)
  <2> DEFINE f == Front(d)
  <2>1. f \in Seq(ToSet(f)) /\ WellFormed(f) /\ d = Append(f, Slash)
    BY <1>2 DEF IsPath
  <2> HIDE DEF f
  <2>2. Len(f) \in Nat /\ DOMAIN f = 1..Len(f) /\ Len(d) = Len(f) + 1 /\ d[Len(d)] = Slash
        /\ DOMAIN d = 1..Len(d) /\ \A i \in DOMAIN f : d[i] = f[i]
    BY <2>1
  <2>3. ToSet(f) \subseteq ToSet(d)
    BY <2>2 DEF ToSet
  <2>4. ToSet(d) \subseteq Parts
    BY DirectoryParts
  <2>5. f \in PathSet
    BY <2>1, <2>3, <2>4, PartsOfSequence DEF PathSet
  <2>6. AsDirectory(d) = d
    BY <2>2 DEF AsDirectory, Last
  <2> QED BY <2>1, <2>5, <2>6
<1> QED BY <1>1, <1>2, NamesAssumption

\* A path and its parts.
LEMMA PathForm ==
  ASSUME NEW path \in PathSet
  PROVE  /\ path \in Seq(Parts) /\ Len(path) \in Nat /\ Len(path) >= 1
         /\ DOMAIN path = 1..Len(path)
         /\ \A i \in 1..Len(path) : path[i] \in Parts
         /\ path[1] # Slash /\ path[Len(path)] # Slash
         /\ \A i \in 1..(Len(path) - 1) : path[i] # Slash \/ path[i + 1] # Slash
<1>1. path \in Seq(Parts) /\ WellFormed(path)
  BY DEF PathSet
<1>2. path # <<>> /\ Head(path) # Slash /\ Last(path) # Slash
  BY <1>1 DEF WellFormed
<1>3. Len(path) \in Nat /\ Len(path) >= 1 /\ DOMAIN path = 1..Len(path)
  BY <1>1, <1>2, EmptySeq
<1>4. path[1] # Slash /\ path[Len(path)] # Slash
  BY <1>1, <1>2 DEF Last
<1>5. \A i \in 1..(Len(path) - 1) : path[i] # Slash \/ path[i + 1] # Slash
  BY <1>1, <1>3 DEF WellFormed
<1> QED BY <1>1, <1>3, <1>4, <1>5

\* A path below a directory goes on after the directory's separator.
LEMMA BelowForm ==
  ASSUME NEW f \in PathSet, NEW path \in PathSet, IsPrefix(Append(f, Slash), path)
  PROVE  /\ Len(path) > Len(f) + 1
         /\ \A i \in 1..Len(f) : path[i] = f[i]
         /\ path[Len(f) + 1] = Slash
         /\ path[Len(f) + 2] # Slash
<1> DEFINE d == Append(f, Slash)
           n == Len(f)
<1>1. /\ f \in Seq(Parts) /\ n \in Nat /\ path \in Seq(Parts) /\ Len(path) \in Nat
      /\ path[Len(path)] # Slash
      /\ \A i \in 1..(Len(path) - 1) : path[i] # Slash \/ path[i + 1] # Slash
  BY PathForm
<1>2. /\ d \in Seq(Parts) /\ Len(d) = n + 1 /\ d[n + 1] = Slash
      /\ \A i \in 1..n : d[i] = f[i]
  BY <1>1, SlashIsPart, AppendProperties
<1> HIDE DEF d
<1>3. n + 1 <= Len(path) /\ SubSeq(d, 1, n + 1) = SubSeq(path, 1, n + 1)
  BY <1>2 DEF IsPrefix, d
<1>4. \A i \in 1..(n + 1) : SubSeq(d, 1, n + 1)[i] = d[i]
  <2>1. \A i \in 1..(n + 1) : d[i] \in Parts
    BY <1>1, <1>2
  <2>2. \A i \in 1..(n + 1 - 1 + 1) : SubSeq(d, 1, n + 1)[i] = d[1 + i - 1]
    BY <1>1, <2>1, SubSeqProperties
  <2> QED BY <1>1, <2>2
<1>5. \A i \in 1..(n + 1) : SubSeq(path, 1, n + 1)[i] = path[i]
  <2>1. \A i \in 1..(n + 1) : path[i] \in Parts
    BY <1>1, <1>3
  <2>2. \A i \in 1..(n + 1 - 1 + 1) : SubSeq(path, 1, n + 1)[i] = path[1 + i - 1]
    BY <1>1, <2>1, SubSeqProperties
  <2> QED BY <1>1, <2>2
<1>6. \A i \in 1..(n + 1) : path[i] = d[i]
  BY <1>3, <1>4, <1>5
<1>7. path[n + 1] = Slash /\ \A i \in 1..n : path[i] = f[i]
  BY <1>1, <1>2, <1>6
<1>8. Len(path) # n + 1
  BY <1>1, <1>7
<1>9. Len(path) > n + 1 /\ n + 1 \in 1..(Len(path) - 1)
  BY <1>1, <1>3, <1>8
<1>10. path[n + 2] # Slash
  BY <1>1, <1>7, <1>9
<1> QED BY <1>7, <1>9, <1>10

\* A file of that name, or one in the directory, has all the words of the directory.
LEMMA NamedMatches ==
  ASSUME NEW d \in Dirs, NEW path \in PathSet, Named(d, path)
  PROVE  Matches(AsDirectory(d), path)
<1>1. PICK f \in PathSet : AsDirectory(d) = Append(f, Slash) /\ (d = f \/ d = Append(f, Slash))
  BY DirectoryForm
<1> DEFINE q == Append(f, Slash)
           n == Len(f)
           l == Len(path)
<1>2. /\ f \in Seq(Parts) /\ n \in Nat /\ path \in Seq(Parts) /\ l \in Nat
      /\ \A i \in 1..l : path[i] \in Parts
  BY PathForm
<1>3. /\ q \in Seq(Parts) /\ Len(q) = n + 1 /\ q[n + 1] = Slash
      /\ \A i \in 1..n : q[i] = f[i]
      /\ \A i \in 1..(n + 1) : q[i] \in Parts
  BY <1>2, SlashIsPart, AppendProperties
<1>4. \/ l = n /\ \A i \in 1..n : path[i] = q[i]
      \/ l >= n + 1 /\ \A i \in 1..(n + 1) : path[i] = q[i]
  <2>1. CASE path = d
    <3>1. CASE d = f
      BY <1>3, <2>1, <3>1
    <3>2. CASE d = q
      BY <1>2, <1>3, <2>1, <3>2
    <3> QED BY <1>1, <3>1, <3>2
  <2>2. CASE Below(d, path)
    <3>1. l > n + 1 /\ path[n + 1] = Slash /\ \A i \in 1..n : path[i] = f[i]
      BY <1>1, <2>2, BelowForm DEF Below
    <3>2. ASSUME NEW i \in 1..(n + 1)
          PROVE  path[i] = q[i]
      <4>1. i \in 1..n \/ i = n + 1
        BY <1>2
      <4> QED BY <1>3, <3>1, <4>1
    <3> QED BY <1>2, <3>1, <3>2
  <2> QED BY <2>1, <2>2 DEF Named
<1> HIDE DEF q, n, l
<1>5. Slash \in Marks
  BY MarksAssumption
<1> DEFINE IsWord(text, w) ==
             LET Places  == 1..Len(text)
                 Mark(m) == m \notin Places \/ text[m] \in Marks
             IN /\ w[1] <= w[2] /\ \A m \in w[1]..w[2] : ~Mark(m)
                /\ Mark(w[1] - 1) /\ Mark(w[2] + 1)
<1>6. ASSUME NEW i \in 1..Len(q), NEW j \in 1..Len(q), IsWord(q, <<i, j>>)
      PROVE  /\ i \in 1..l /\ j \in 1..l /\ IsWord(path, <<i, j>>)
             /\ SubSeq(path, i, j) = SubSeq(q, i, j)
  <2>1. /\ i \in Nat /\ j \in Nat /\ 1 <= i /\ i <= j /\ j <= n + 1
        /\ \A m \in i..j : q[m] \notin Marks
        /\ i - 1 \notin 1..(n + 1) \/ q[i - 1] \in Marks
        /\ j + 1 \notin 1..(n + 1) \/ q[j + 1] \in Marks
    BY <1>2, <1>3, <1>6
  <2>2. j # n + 1
    BY <1>3, <1>5, <2>1
  <2>3. j <= n /\ j <= l
    BY <1>2, <1>4, <2>1, <2>2
  <2>4. \A m \in 1..n : path[m] = q[m]
    BY <1>2, <1>4
  <2>5. \A m \in i..j : m \in 1..l /\ path[m] = q[m] /\ path[m] \notin Marks
    BY <1>2, <2>1, <2>3, <2>4
  <2>6. i - 1 \notin 1..l \/ path[i - 1] \in Marks
    BY <1>2, <2>1, <2>3, <2>4
  <2>7. j + 1 \notin 1..l \/ path[j + 1] \in Marks
    <3>1. CASE j = n
      BY <1>2, <1>3, <1>4, <1>5, <2>1, <3>1
    <3>2. CASE j # n
      <4>1. j + 1 \in 1..n /\ j + 1 \in 1..(n + 1)
        BY <1>2, <2>1, <2>3, <3>2
      <4> QED BY <2>1, <2>4, <4>1
    <3> QED BY <3>1, <3>2
  <2>8. IsWord(path, <<i, j>>)
    BY <2>1, <2>5, <2>6, <2>7 DEF l
  <2>9. SubSeq(path, i, j) = SubSeq(q, i, j)
    <3>1. \A m \in i..j : path[m] \in Parts /\ q[m] \in Parts
      BY <1>2, <1>3, <2>1, <2>5
    <3>2. /\ SubSeq(path, i, j) \in Seq(Parts) /\ Len(SubSeq(path, i, j)) = j - i + 1
          /\ \A m \in 1..(j - i + 1) : SubSeq(path, i, j)[m] = path[i + m - 1]
      BY <2>1, <3>1, SubSeqProperties
    <3>3. /\ SubSeq(q, i, j) \in Seq(Parts) /\ Len(SubSeq(q, i, j)) = j - i + 1
          /\ \A m \in 1..(j - i + 1) : SubSeq(q, i, j)[m] = q[i + m - 1]
      BY <2>1, <3>1, SubSeqProperties
    <3>4. ASSUME NEW m \in 1..(j - i + 1)
          PROVE  SubSeq(path, i, j)[m] = SubSeq(q, i, j)[m]
      <4>1. i + m - 1 \in i..j
        BY <2>1
      <4> QED BY <2>5, <3>2, <3>3, <4>1
    <3> QED BY <3>2, <3>3, <3>4, SeqEqual
  <2> QED BY <1>2, <2>1, <2>3, <2>8, <2>9
<1>7. ASSUME NEW text
      PROVE  Words(text) = {SubSeq(text, w[1], w[2]) : w \in {w \in (1..Len(text)) \X (1..Len(text)) : IsWord(text, w)}}
  BY DEF Words
<1> HIDE DEF IsWord
<1>8. ASSUME NEW word \in Words(q)
      PROVE  word \in Words(path)
  <2>1. PICK w \in (1..Len(q)) \X (1..Len(q)) : IsWord(q, w) /\ word = SubSeq(q, w[1], w[2])
    BY <1>7, <1>8
  <2>2. w[1] \in 1..Len(q) /\ w[2] \in 1..Len(q) /\ w = <<w[1], w[2]>>
    BY <2>1
  <2>3. /\ w \in (1..Len(path)) \X (1..Len(path)) /\ IsWord(path, w)
        /\ SubSeq(path, w[1], w[2]) = SubSeq(q, w[1], w[2])
    BY <1>6, <2>1, <2>2 DEF l
  <2> QED BY <1>7, <2>1, <2>3
<1> QED BY <1>1, <1>8 DEF Matches, q

\* A set of numbers has a least one.
Less == {z \in Nat \X Nat : z[1] < z[2]}

LEMMA LeastNat ==
  ASSUME NEW S \in SUBSET Nat, S # {}
  PROVE  \E n \in S : \A m \in S : n <= m
<1>1. IsWellFoundedOn(Less, Nat)
  BY NatLessThanWellFounded DEF OpToRel, Less
<1>2. PICK n \in S : \A m \in S : ~ (<<m, n>> \in Less)
  BY <1>1, WFMin
<1>3. \A m \in S : ~ (m < n)
  BY <1>2 DEF Less
<1> QED BY <1>3

\* The parts of a text.
LEMMA SubSeqsAre ==
  ASSUME NEW s, NEW t
  PROVE  s \in SubSeqs(t) <=> \E x \in 0..Len(t) : \E y \in 0..Len(t) : s = SubSeq(t, x + 1, y)
<1>1. ASSUME s \in SubSeqs(t)
      PROVE  \E x \in 0..Len(t) : \E y \in 0..Len(t) : s = SubSeq(t, x + 1, y)
  BY <1>1, SMT DEF SubSeqs
<1>2. ASSUME NEW x \in 0..Len(t), NEW y \in 0..Len(t), s = SubSeq(t, x + 1, y)
      PROVE  s \in SubSeqs(t)
  BY <1>2, SMT DEF SubSeqs
<1> QED BY <1>1, <1>2

\* A name that occurs in a text does so at its first place.
LEMMA FirstPlace ==
  ASSUME NEW s \in Seq(Parts), NEW t \in Seq(Parts), s # <<>>, s \in SubSeqs(t)
  PROVE  /\ IndexFirstSubSeq(s, t) \in Nat /\ IndexFirstSubSeq(s, t) >= 1
         /\ IndexFirstSubSeq(s, t) + Len(s) <= Len(t) + 1
         /\ \A m \in 1..Len(s) : t[IndexFirstSubSeq(s, t) + m - 1] = s[m]
<1> DEFINE l == Len(t)
           Upto(i) == SubSeq(t, 1, i)
           Occurs(i) == s \in SubSeqs(Upto(i))
           last == CHOOSE i \in 0..l : Occurs(i) /\ \A j \in 0..(i - 1) : ~Occurs(j)
<1>1. l \in Nat /\ Len(s) \in Nat /\ Len(s) # 0 /\ \A i \in 1..l : t[i] \in Parts
  BY EmptySeq
<1>2. ASSUME NEW i \in 0..l
      PROVE  /\ Upto(i) \in Seq(Parts) /\ Len(Upto(i)) = i
             /\ \A m \in 1..i : Upto(i)[m] = t[m]
  <2>1. \A m \in 1..i : t[m] \in Parts
    BY <1>1
  <2>2. /\ Upto(i) \in Seq(Parts) /\ Len(Upto(i)) = IF 1 <= i THEN i - 1 + 1 ELSE 0
        /\ \A m \in 1..(i - 1 + 1) : Upto(i)[m] = t[1 + m - 1]
    BY <1>1, <2>1, SubSeqProperties
  <2> HIDE DEF Upto
  <2>3. \A m \in 1..i : m \in 1..(i - 1 + 1) /\ 1 + m - 1 = m
    BY <1>1
  <2> QED BY <1>1, <2>2, <2>3
<1>3. Upto(l) = t
  BY SubSeqFull
<1>4. ASSUME NEW i \in 0..l, NEW a \in 0..i, NEW b \in 0..i, s = SubSeq(Upto(i), a + 1, b)
      PROVE  /\ a < b /\ Len(s) = b - a
             /\ \A m \in 1..Len(s) : s[m] = t[a + m]
             /\ Occurs(b)
  <2>1. a \in Nat /\ b \in Nat /\ b <= l /\ i \in Nat /\ b <= i
    BY <1>1
  <2>2. \A m \in (a + 1)..b : Upto(i)[m] \in Parts /\ Upto(i)[m] = t[m] /\ m \in 1..b
    BY <1>1, <1>2, <2>1
  <2>3. /\ Len(s) = IF a + 1 <= b THEN b - (a + 1) + 1 ELSE 0
        /\ \A m \in 1..(b - (a + 1) + 1) : s[m] = Upto(i)[a + 1 + m - 1]
    BY <1>2, <1>4, <2>1, <2>2, SubSeqProperties
  <2>4. a < b /\ Len(s) = b - a
    BY <1>1, <2>1, <2>3
  <2>5. \A m \in 1..Len(s) : s[m] = t[a + m]
    <3>1. \A m \in 1..Len(s) : m \in 1..(b - (a + 1) + 1) /\ a + 1 + m - 1 = a + m /\ a + m \in (a + 1)..b
      BY <2>1, <2>4
    <3> QED BY <2>2, <2>3, <3>1
  <2>6. b \in 0..l /\ Upto(b) \in Seq(Parts) /\ Len(Upto(b)) = b /\ \A m \in 1..b : Upto(b)[m] = t[m]
    BY <1>2, <2>1
  <2> DEFINE part == SubSeq(Upto(b), a + 1, b)
  <2>7. /\ part \in Seq(Parts) /\ Len(part) = b - a
        /\ \A m \in 1..(b - a) : part[m] = t[a + m]
    <3>1. \A m \in (a + 1)..b : Upto(b)[m] \in Parts /\ Upto(b)[m] = t[m]
      BY <2>1, <2>2, <2>6
    <3>2. /\ part \in Seq(Parts) /\ Len(part) = IF a + 1 <= b THEN b - (a + 1) + 1 ELSE 0
          /\ \A m \in 1..(b - (a + 1) + 1) : part[m] = Upto(b)[a + 1 + m - 1]
      BY <2>1, <2>6, <3>1, SubSeqProperties
    <3> HIDE DEF part
    <3>3. \A m \in 1..(b - a) : m \in 1..(b - (a + 1) + 1) /\ a + 1 + m - 1 = a + m /\ a + m \in (a + 1)..b
      BY <2>1, <2>4
    <3> QED BY <2>1, <2>4, <3>1, <3>2, <3>3
  <2>8. part = s
    BY <2>4, <2>5, <2>7, SeqEqual
  <2>9. Occurs(b)
    <3>1. a \in 0..b /\ b \in 0..b /\ Len(Upto(b)) = b
      BY <2>1, <2>4, <2>6
    <3> HIDE DEF Upto
    <3> QED BY <2>8, <3>1, SubSeqsAre
  <2> QED BY <2>4, <2>5, <2>9
<1>5. IndexFirstSubSeq(s, t) = last - (Len(s) - 1)
  BY DEF IndexFirstSubSeq
<1>6. Occurs(l)
  BY <1>3
<1>7. ASSUME NEW i \in 0..l, Occurs(i)
      PROVE  \E a \in 0..i, b \in 0..i : s = SubSeq(Upto(i), a + 1, b)
  <2>1. Len(Upto(i)) = i
    BY <1>2
  <2> HIDE DEF Upto
  <2>2. \E x \in 0..Len(Upto(i)) : \E y \in 0..Len(Upto(i)) : s = SubSeq(Upto(i), x + 1, y)
    BY <1>7, SubSeqsAre
  <2> QED BY <2>1, <2>2
<1> HIDE DEF Occurs, Upto
<1>8. last \in 0..l /\ Occurs(last) /\ \A j \in 0..(last - 1) : ~Occurs(j)
  <2>1. {i \in 0..l : Occurs(i)} \in SUBSET Nat /\ {i \in 0..l : Occurs(i)} # {}
    BY <1>1, <1>6
  <2>2. PICK n \in {i \in 0..l : Occurs(i)} : \A m \in {i \in 0..l : Occurs(i)} : n <= m
    BY <2>1, LeastNat
  <2>3. \A j \in 0..(n - 1) : ~Occurs(j)
    BY <1>1, <2>2
  <2> QED BY <2>2, <2>3
<1> HIDE DEF last
<1>9. PICK a \in 0..last, b \in 0..last : s = SubSeq(Upto(last), a + 1, b)
  BY <1>7, <1>8
<1>10. /\ a < b /\ Len(s) = b - a
       /\ \A m \in 1..Len(s) : s[m] = t[a + m]
       /\ Occurs(b)
  BY <1>4, <1>8, <1>9
<1>11. b = last
  BY <1>1, <1>8, <1>9, <1>10
<1>12. IndexFirstSubSeq(s, t) = a + 1
  BY <1>1, <1>5, <1>8, <1>10, <1>11
<1>13. a \in Nat /\ a + 1 + Len(s) <= l + 1
  BY <1>1, <1>8, <1>10, <1>11
<1>14. \A m \in 1..Len(s) : t[a + 1 + m - 1] = s[m]
  <2>1. \A m \in 1..Len(s) : a + 1 + m - 1 = a + m
    BY <1>1, <1>13
  <2> QED BY <1>10, <2>1
<1> QED BY <1>12, <1>13, <1>14

\* Putting something else in a place.
LEMMA ReplacedAt ==
  ASSUME NEW path \in Seq(Parts), NEW old \in Seq(Parts), NEW new \in Seq(Parts), NEW n \in Nat
  PROVE  ReplaceSubSeqAt(n, new, old, path)
           = SubSeq(path, 1, n - 1) \o new \o SubSeq(path, n + Len(old), Len(path))
BY DEF ReplaceSubSeqAt

\* What is put in the place of a directory in a path makes a path.
LEMMA MovedForm ==
  ASSUME NEW d \in Dirs, NEW e \in Dirs, NEW path \in PathSet
  PROVE  Moved(path, d, e) \in PathSet
<1>1. PICK f \in PathSet : AsDirectory(d) = Append(f, Slash)
  BY DirectoryForm
<1>2. PICK g \in PathSet : AsDirectory(e) = Append(g, Slash)
  BY DirectoryForm
<1> DEFINE n == Len(f)
           m == Len(g)
           l == Len(path)
           old  == Append(f, Slash)
           mid  == Append(g, Slash)
           p    == IndexFirstSubSeq(old, path) - 1
           head == SubSeq(path, 1, p)
           rest == SubSeq(path, p + n + 2, l)
           new  == head \o mid \o rest
<1>3. /\ f \in Seq(Parts) /\ n \in Nat
      /\ g \in Seq(Parts) /\ m \in Nat /\ m >= 1 /\ g[1] # Slash /\ g[m] # Slash
      /\ \A i \in 1..(m - 1) : g[i] # Slash \/ g[i + 1] # Slash
      /\ path \in Seq(Parts) /\ l \in Nat /\ l >= 1 /\ path[1] # Slash /\ path[l] # Slash
      /\ \A i \in 1..(l - 1) : path[i] # Slash \/ path[i + 1] # Slash
      /\ \A i \in 1..l : path[i] \in Parts
  BY PathForm
<1>4. /\ old \in Seq(Parts) /\ Len(old) = n + 1 /\ old[n + 1] = Slash /\ old # <<>>
  <2>1. old \in Seq(Parts) /\ Len(old) = n + 1 /\ old[n + 1] = Slash
    BY <1>3, SlashIsPart, AppendProperties
  <2> QED BY <1>3, <2>1, EmptySeq
<1>5. /\ mid \in Seq(Parts) /\ Len(mid) = m + 1 /\ mid[m + 1] = Slash
      /\ \A i \in 1..m : mid[i] = g[i]
  BY <1>3, SlashIsPart, AppendProperties
<1>6. CASE old \notin SubSeqs(path)
  BY <1>1, <1>6 DEF Moved, ReplaceFirstSubSeq
<1> HIDE DEF n, m, l
<1>7. CASE old \in SubSeqs(path)
  <2>1. /\ p \in Nat /\ p + n + 1 <= l /\ IndexFirstSubSeq(old, path) = p + 1
        /\ \A i \in 1..(n + 1) : path[p + 1 + i - 1] = old[i]
    <3>1. /\ IndexFirstSubSeq(old, path) \in Nat /\ IndexFirstSubSeq(old, path) >= 1
          /\ IndexFirstSubSeq(old, path) + Len(old) <= l + 1
          /\ \A i \in 1..Len(old) : path[IndexFirstSubSeq(old, path) + i - 1] = old[i]
      BY <1>3, <1>4, <1>7, FirstPlace DEF l
    <3>2. IndexFirstSubSeq(old, path) = p + 1 /\ p \in Nat
      BY <3>1
    <3> HIDE DEF p, old
    <3> QED BY <1>3, <1>4, <3>1, <3>2
  <2>2. Moved(path, d, e) = new
    <3>1. Moved(path, d, e) = ReplaceSubSeqAt(IndexFirstSubSeq(old, path), mid, old, path)
      BY <1>1, <1>2, <1>7 DEF Moved, ReplaceFirstSubSeq
    <3> HIDE DEF p, old, mid
    <3>2. p + 1 \in Nat /\ p + 1 - 1 = p /\ p + 1 + Len(old) = p + n + 2
      BY <1>3, <1>4, <2>1
    <3>3. PICK q \in Nat : q = p + 1
      BY <3>2
    <3>4. mid \in Seq(Parts) /\ old \in Seq(Parts)
      BY <1>4, <1>5
    <3>5. ReplaceSubSeqAt(q, mid, old, path) = SubSeq(path, 1, q - 1) \o mid \o SubSeq(path, q + Len(old), Len(path))
      BY <1>3, <3>4, ReplacedAt
    <3>6. q - 1 = p /\ q + Len(old) = p + n + 2 /\ IndexFirstSubSeq(old, path) = q
      BY <2>1, <3>2, <3>3
    <3> QED BY <3>1, <3>5, <3>6 DEF l
  <2> HIDE DEF p
  <2>3. path[p + n + 1] = Slash
    <3>1. n + 1 \in 1..(n + 1) /\ p + 1 + (n + 1) - 1 = p + n + 1
      BY <1>3, <2>1
    <3> QED BY <1>4, <2>1, <3>1
  <2>4. l > p + n + 1 /\ path[p + n + 2] # Slash
    <3>1. l # p + n + 1
      BY <1>3, <2>3
    <3>2. l > p + n + 1 /\ p + n + 1 \in 1..(l - 1) /\ p + n + 1 + 1 = p + n + 2
      BY <1>3, <2>1, <3>1
    <3> QED BY <1>3, <2>3, <3>2
  <2>5. /\ head \in Seq(Parts) /\ Len(head) = p
        /\ \A i \in 1..p : head[i] = path[i]
    <3>1. \A i \in 1..p : path[i] \in Parts
      BY <1>3, <2>1
    <3>2. /\ head \in Seq(Parts) /\ Len(head) = IF 1 <= p THEN p - 1 + 1 ELSE 0
          /\ \A i \in 1..(p - 1 + 1) : head[i] = path[1 + i - 1]
      BY <2>1, <3>1, SubSeqProperties
    <3> HIDE DEF head
    <3>3. \A i \in 1..p : i \in 1..(p - 1 + 1) /\ 1 + i - 1 = i
      BY <2>1
    <3> QED BY <2>1, <3>2, <3>3
  <2>6. /\ rest \in Seq(Parts) /\ Len(rest) = l - p - n - 1
        /\ \A i \in 1..(l - p - n - 1) : rest[i] = path[p + n + 1 + i]
    <3>1. \A i \in (p + n + 2)..l : path[i] \in Parts
      BY <1>3, <2>1
    <3>2. /\ rest \in Seq(Parts)
          /\ Len(rest) = IF p + n + 2 <= l THEN l - (p + n + 2) + 1 ELSE 0
          /\ \A i \in 1..(l - (p + n + 2) + 1) : rest[i] = path[p + n + 2 + i - 1]
      BY <1>3, <2>1, <3>1, SubSeqProperties
    <3> HIDE DEF rest
    <3>3. \A i \in 1..(l - p - n - 1) : i \in 1..(l - (p + n + 2) + 1) /\ p + n + 2 + i - 1 = p + n + 1 + i
      BY <1>3, <2>1
    <3> QED BY <1>3, <2>1, <2>4, <3>2, <3>3
  <2> HIDE DEF head, mid, rest
  <2> DEFINE size == l + m - n
  <2>7. /\ new \in Seq(Parts) /\ Len(new) = size
        /\ \A i \in 1..size : new[i] = IF i <= p THEN head[i]
                                       ELSE IF i <= p + m + 1 THEN mid[i - p] ELSE rest[i - (p + m + 1)]
    <3> DEFINE front == head \o mid
    <3>1. /\ front \in Seq(Parts) /\ Len(front) = p + m + 1
          /\ \A i \in 1..(p + m + 1) : front[i] = IF i <= p THEN head[i] ELSE mid[i - p]
      <4>1. /\ front \in Seq(Parts) /\ Len(front) = Len(head) + Len(mid)
            /\ \A i \in 1..(Len(head) + Len(mid)) :
                 front[i] = IF i <= Len(head) THEN head[i] ELSE mid[i - Len(head)]
        BY <1>5, <2>5, ConcatProperties
      <4>2. Len(head) + Len(mid) = p + m + 1
        BY <1>3, <1>5, <2>1, <2>5
      <4> HIDE DEF front
      <4> QED BY <2>5, <4>1, <4>2
    <3> HIDE DEF front
    <3>2. /\ front \o rest \in Seq(Parts) /\ Len(front \o rest) = Len(front) + Len(rest)
          /\ \A i \in 1..(Len(front) + Len(rest)) :
               (front \o rest)[i] = IF i <= Len(front) THEN front[i] ELSE rest[i - Len(front)]
      BY <2>6, <3>1, ConcatProperties
    <3>3. Len(front) + Len(rest) = size
      BY <1>3, <2>1, <2>6, <3>1
    <3>4. new = front \o rest
      BY DEF front
    <3> HIDE DEF new, size
    <3>5. size \in Int /\ \A i \in 1..size : i <= p + m + 1 => i \in 1..(p + m + 1)
      BY <1>3, <2>1, <3>3 DEF size
    <3>6. \A i \in 1..size : i <= p => i <= p + m + 1
      BY <1>3, <2>1, <3>5
    <3> QED BY <3>1, <3>2, <3>3, <3>4, <3>5, <3>6
  <2> HIDE DEF new
  <2>8. /\ \A i \in 1..p : new[i] = path[i]
        /\ \A i \in 1..m : new[p + i] = g[i]
        /\ new[p + m + 1] = Slash
        /\ \A i \in (p + m + 2)..size : new[i] = path[i + n - m]
    <3>1. ASSUME NEW i \in 1..p
          PROVE  new[i] = path[i]
      <4>1. i \in 1..size
        BY <1>3, <2>1, <2>4
      <4> QED BY <2>5, <2>7, <4>1
    <3>2. ASSUME NEW i \in 1..(m + 1)
          PROVE  new[p + i] = mid[i]
      <4>1. p + i \in 1..size /\ ~(p + i <= p) /\ p + i <= p + m + 1 /\ p + i - p = i
        BY <1>3, <2>1, <2>4
      <4>2. \A j \in 1..size : ~(j <= p) /\ j <= p + m + 1 => new[j] = mid[j - p]
        BY <2>7
      <4> HIDE DEF size
      <4> DEFINE j == p + i
      <4>3. j \in 1..size /\ ~(j <= p) /\ j <= p + m + 1 /\ j - p = i
        BY <1>3, <2>1, <4>1
      <4> HIDE DEF j
      <4>4. new[j] = mid[i]
        BY <4>2, <4>3
      <4> QED BY <4>4 DEF j
    <3>3. \A i \in 1..m : i \in 1..(m + 1) /\ mid[i] = g[i]
      BY <1>3, <1>5
    <3>4. m + 1 \in 1..(m + 1) /\ p + (m + 1) = p + m + 1
      BY <1>3, <2>1
    <3>5. new[p + m + 1] = Slash
      BY <1>5, <3>2, <3>4
    <3>6. ASSUME NEW i \in (p + m + 2)..size
          PROVE  new[i] = path[i + n - m]
      <4>1. /\ i \in 1..size /\ ~(i <= p) /\ ~(i <= p + m + 1)
            /\ i - (p + m + 1) \in 1..(l - p - n - 1) /\ p + n + 1 + (i - (p + m + 1)) = i + n - m
        BY <1>3, <2>1
      <4> QED BY <2>6, <2>7, <4>1
    <3> QED BY <3>1, <3>2, <3>3, <3>5, <3>6
  <2>9. size \in Nat /\ size >= p + m + 2
    BY <1>3, <2>1, <2>4
  <2>10. new # <<>> /\ Head(new) # Slash
    <3>1. new # <<>>
      BY <2>7, <2>9, <1>3, <2>1, EmptySeq
    <3>2. new[1] # Slash
      <4>1. CASE p = 0
        <5>1. 1 \in 1..m /\ p + 1 = 1
          BY <1>3, <4>1
        <5> QED BY <1>3, <2>8, <5>1
      <4>2. CASE p # 0
        <5>1. 1 \in 1..p
          BY <2>1, <4>2
        <5> QED BY <1>3, <2>8, <5>1
      <4> QED BY <4>1, <4>2
    <3> QED BY <2>7, <3>1, <3>2
  <2>11. Last(new) # Slash
    <3>1. size \in (p + m + 2)..size /\ size + n - m = l
      BY <1>3, <2>9, <2>1
    <3> QED BY <1>3, <2>7, <2>8, <3>1 DEF Last
  <2>12. ASSUME NEW i \in 1..(Len(new) - 1)
         PROVE  new[i] # Slash \/ new[i + 1] # Slash
    <3>1. i \in Nat /\ 1 <= i /\ i < size
      BY <2>7, <2>9
    <3> HIDE DEF size
    <3>2. CASE i < p
      <4>1. i \in 1..p /\ i + 1 \in 1..p /\ i \in 1..(l - 1)
        BY <1>3, <2>1, <3>1, <3>2
      <4> QED BY <1>3, <2>8, <4>1
    <3>3. CASE i = p
      <4>1. 1 \in 1..m
        BY <1>3
      <4> QED BY <1>3, <2>8, <3>3, <4>1
    <3>4. CASE p < i /\ i <= p + m
      <4>1. i - p \in 1..m /\ p + (i - p) = i
        BY <1>3, <2>1, <3>1, <3>4
      <4>2. new[i] = g[i - p]
        BY <2>8, <4>1
      <4>3. CASE i = p + m
        BY <1>3, <2>1, <4>2, <4>3
      <4>4. CASE i # p + m
        <5>1. i - p + 1 \in 1..m /\ p + (i - p + 1) = i + 1 /\ i - p \in 1..(m - 1)
          BY <1>3, <2>1, <3>1, <3>4, <4>4
        <5>2. new[i + 1] = g[i - p + 1]
          BY <2>8, <5>1
        <5> QED BY <1>3, <4>2, <5>1, <5>2
      <4> QED BY <4>3, <4>4
    <3>5. CASE i = p + m + 1
      <4>1. i + 1 \in (p + m + 2)..size /\ i + 1 + n - m = p + n + 2
        BY <1>3, <2>1, <2>9, <3>5
      <4> QED BY <2>4, <2>8, <4>1
    <3>6. CASE i > p + m + 1
      <4>1. i \in (p + m + 2)..size /\ i + 1 \in (p + m + 2)..size
        BY <1>3, <2>1, <2>9, <3>1, <3>6
      <4>2. i + n - m \in 1..(l - 1) /\ i + 1 + n - m = i + n - m + 1
        BY <1>3, <2>1, <3>1, <3>6 DEF size
      <4> QED BY <1>3, <2>8, <4>1, <4>2
    <3> QED BY <1>3, <2>1, <3>1, <3>2, <3>3, <3>4, <3>5, <3>6
  <2>13. WellFormed(new)
    BY <2>10, <2>11, <2>12 DEF WellFormed
  <2> QED BY <2>2, <2>7, <2>13 DEF PathSet
<1> QED BY <1>6, <1>7

-----------------------------------------------------------------------------
-----------------------------------------------------------------------------
(* Tenants and files.                                                      *)

LEMMA LayoutKnown ==
  \A o \in Layout : o.id \in Ids /\ CodebaseOf(o.id) = o.codebase
BY LayoutAssumption DEF Ids, CodebaseOf

\* A tenant is of one codebase.
LEMMA TenantsApart ==
  ASSUME NEW id \in Ids, NEW b \in Codebases,
         TenantOf(b) = TenantOf(CodebaseOf(id)), TenantOf(b) # NoTenant
  PROVE  CodebaseOf(id) = b
<1>1. PICK o \in Layout : o.id = id
  BY DEF Ids
<1> DEFINE p == o.codebase
<1>2. CodebaseOf(id) = p
  BY <1>1, LayoutKnown
<1>3. p = [client |-> p.client, path |-> p.path] /\ b = [client |-> b.client, path |-> b.path]
  BY CodebasesAssumption
<1>4. TenantOf(p) = TenantOf(b) /\ TenantOf(p) # NoTenant
  BY <1>2
<1> HIDE DEF p
<1>5. <<p.client, p.path>> = <<b.client, b.path>>
  BY <1>4 DEF TenantOf
<1>6. p.client = b.client /\ p.path = b.path
  BY <1>5
<1> QED BY <1>2, <1>3, <1>6

-----------------------------------------------------------------------------
(* One call.                                                               *)

\* What is right for a store is right for one that has lost objects.
LEMMA FewerObjects ==
  ASSUME NEW S, StoreOK(S), NEW T \in SUBSET S
  PROVE  /\ StoreOK(T)
         /\ \A k : CallOK(k, S) => CallOK(k, T)
<1>1. IsFiniteSet(T)
  BY FS_Subset DEF StoreOK, Holdings
<1>2. StoreOK(T)
  BY <1>1 DEF StoreOK, Holdings
<1>3. ASSUME NEW k, CallOK(k, S)
      PROVE  CallOK(k, T)
  BY <1>3 DEF CallOK, IdsOwn
<1> QED BY <1>2, <1>3

\* A call that is over, or reads, answers or lists, keeps nothing that could be out of date.
LEMMA NothingKept ==
  ASSUME NEW k \in Calls, NEW S, StageFits(k), ~Moving(k),
         k.stage = "deleting" => k.request.op # "delete"
  PROVE  CallOK(k, S)
BY DEF CallOK, RecordsOwn, IdsOwn, Moving

LEMMA Ended ==
  ASSUME NEW k \in Calls, NEW S, k.stage \in {"done", "failed"}
  PROVE  CallOK(k, S) /\ ~Working(k)
<1>1. ~Working(k) /\ StageFits(k)
  BY DEF StageFits, Working, Active
<1> QED BY <1>1, NothingKept DEF Moving

\* The steps of a call that at most take objects away.
LEMMA CallMoves ==
  ASSUME Inv, NEW c \in Slots, NEW k \in Calls,
         call' = [call EXCEPT ![c] = k],
         k.request = call[c].request, Working(k) => Working(call[c]),
         objects' \in SUBSET objects, CallOK(k, objects), calls' = calls
  PROVE  Inv'
<1>1. StoreOK(objects') /\ \A h : CallOK(h, objects) => CallOK(h, objects')
  BY FewerObjects DEF Inv
<1>2. call' \in [Slots -> Calls]
  BY DEF Inv
<1>3. call'[c] = k /\ \A d \in Slots : d # c => call'[d] = call[d]
  BY DEF Inv
<1>4. \A d \in Slots : CallOK(call'[d], objects')
  BY <1>1, <1>3 DEF Inv
<1>5. \A d \in Slots : call'[d].request = call[d].request /\ (Renaming(call'[d]) => Renaming(call[d]))
  BY <1>3 DEF Renaming
<1>6. \A a, b \in Slots : Renaming(call'[a]) /\ Renaming(call'[b]) /\ Tenant(a)' = Tenant(b)' => a = b
  BY <1>5 DEF Inv, OneRename, Tenant
<1> QED BY <1>1, <1>2, <1>4, <1>6 DEF Inv, OneRename

LEMMA GotoMoves ==
  ASSUME Inv, NEW c \in Slots, NEW stage \in {"done", "failed"}, Goto(c, stage),
         objects' \in SUBSET objects, calls' = calls
  PROVE  Inv'
<1> DEFINE k == [call[c] EXCEPT !.stage = stage]
<1>1. call[c] \in Calls /\ call' = [call EXCEPT ![c] = k]
  BY DEF Inv, Goto
<1>2. k \in Calls /\ k.request = call[c].request /\ k.stage = stage
  BY <1>1 DEF Calls, Stages
<1> HIDE DEF k
<1>3. CallOK(k, objects) /\ ~Working(k)
  BY <1>2, Ended
<1> QED BY <1>1, <1>2, <1>3, CallMoves

LEMMA MayFailMoves ==
  ASSUME Inv, NEW c \in Slots, MayFail(c), calls' = calls
  PROVE  Inv'
<1>1. Goto(c, "failed") /\ objects' \in SUBSET objects
  BY DEF MayFail
<1> QED BY <1>1, GotoMoves

-----------------------------------------------------------------------------
(* The steps that leave the objects alone or delete some.                  *)

\* What a call is at a step, spelled out.
LEMMA CallKnown ==
  ASSUME Inv, NEW c \in Slots
  PROVE  /\ call[c] \in Calls /\ CallOK(call[c], objects) /\ objects \in Holdings
         /\ call[c].request \in Requests \cup {NoRequest} /\ call[c].stage \in Stages
         /\ call[c].records \in Seq(Objects) /\ call[c].ids \in Seq(Ids)
         /\ call[c].before \in SUBSET Objects /\ call[c].alone \in BOOLEAN
         /\ Tenant(c) = TenantFor(call[c])
         /\ Runs(c) = Working(call[c])
BY DEF Inv, StoreOK, Calls, Tenant, TenantFor, Runs, Working

LEMMA ReadKeeps ==
  ASSUME Inv, NEW c \in Slots, Read(c)
  PROVE  Inv'
<1> DEFINE found == RecordsBelow(objects, Tenant(c), Dir(c))
           next == CASE Op(c) = "rename" -> IF found = <<>> THEN "answering" ELSE "lookup"
                     [] Op(c) = "delete" -> IF found = <<>> THEN "done" ELSE "deleting"
           k == [call[c] EXCEPT !.records = found, !.stage = next]
<1>1. CASE MayFail(c)
  BY <1>1, MayFailMoves DEF Read
<1>2. CASE call' = [call EXCEPT ![c].records = found, ![c].stage = next] /\ UNCHANGED objects
  <2>1. /\ call[c] \in Calls /\ CallOK(call[c], objects) /\ objects \in Holdings
        /\ Tenant(c) = TenantFor(call[c]) /\ call[c].stage = "reading" /\ Working(call[c])
    BY CallKnown DEF Read, At, Working, Active, Stages
  <2>2. /\ found \in Seq(Objects)
        /\ \A i \in DOMAIN found : found[i] \in {o \in TenantsObjects(objects, Tenant(c)) : Matches(AsDirectory(Dir(c)), o.path)}
    BY <2>1, RecordsAtKnown DEF RecordsBelow
  <2> HIDE DEF found
  <2>3. \A r \in ToSet(found) : Answers(call[c], r.path)
    BY <2>2 DEF ToSet, Dir, Answers
  <2>4. /\ call[c].request \in Requests /\ TenantFor(call[c]) # NoTenant
        /\ Op(c) \in {"rename", "delete"}
    BY <2>1 DEF CallOK, StageFits, Op
  <2>5. /\ next \in Stages
        /\ next \in {"lookup", "answering"} => Op(c) = "rename"
        /\ next = "deleting" => Op(c) = "delete"
        /\ next \in {"lookup", "answering", "deleting", "done"}
        /\ next = "lookup" => found # <<>>
    BY <2>4 DEF Stages
  <2> HIDE DEF next
  <2>6. /\ k \in Calls /\ k.request = call[c].request /\ k.stage = next /\ k.records = found
        /\ call' = [call EXCEPT ![c] = k]
    BY <1>2, <2>1, <2>2, <2>5 DEF Calls, Inv
  <2> HIDE DEF k
  <2>7. StageFits(k)
    BY <2>4, <2>5, <2>6 DEF StageFits, Moving, TenantFor, Op
  <2>8. RecordsOwn(k)
    BY <2>3, <2>6 DEF RecordsOwn, Answers
  <2>9. IdsOwn(k, objects)
    BY <2>5, <2>6 DEF IdsOwn
  <2>10. CallOK(k, objects)
    BY <2>6, <2>7, <2>8, <2>9 DEF CallOK
  <2> QED BY <1>2, <2>1, <2>6, <2>10, CallMoves DEF Read
<1> QED BY <1>1, <1>2 DEF Read

LEMMA LookupKeeps ==
  ASSUME Inv, NEW c \in Slots, Lookup(c)
  PROVE  Inv'
<1> DEFINE rec == Head(call[c].records)
           found == RecordsAt(objects, Tenant(c), rec.path)
           ids == [i \in DOMAIN found |-> found[i].id]
           k == [call[c] EXCEPT !.ids = ids, !.stage = "moving"]
<1>1. CASE MayFail(c)
  BY <1>1, MayFailMoves DEF Lookup
<1>2. CASE call' = [call EXCEPT ![c].ids = ids, ![c].stage = "moving"] /\ UNCHANGED objects
  <2>1. /\ call[c] \in Calls /\ CallOK(call[c], objects) /\ objects \in Holdings
        /\ Tenant(c) = TenantFor(call[c]) /\ call[c].stage = "lookup" /\ Working(call[c])
        /\ call[c].records \in Seq(Objects)
    BY CallKnown DEF Lookup, At, Working, Active, Stages
  <2>2. /\ call[c].request \in Requests /\ TenantFor(call[c]) # NoTenant
        /\ call[c].request.op = "rename" /\ call[c].records # <<>>
    BY <2>1 DEF CallOK, StageFits, Moving
  <2>3. rec \in ToSet(call[c].records)
    BY <2>1, <2>2 DEF ToSet
  <2>4. /\ found \in Seq(Objects)
        /\ \A i \in DOMAIN found : /\ found[i] \in objects
                                    /\ found[i].tenant = Tenant(c)
                                    /\ Matches(rec.path, found[i].path)
        /\ IsInjective(found)
    BY <2>1, RecordsAtKnown DEF TenantsObjects
  <2> HIDE DEF found
  <2>5. /\ ids \in Seq(Ids) /\ DOMAIN ids = DOMAIN found
        /\ \A i \in DOMAIN found : ids[i] = found[i].id
    <3>1. Len(found) \in Nat /\ DOMAIN found = 1..Len(found)
      BY <2>4
    <3>2. \A i \in DOMAIN found : found[i].id \in Ids
      BY <2>1, <2>4 DEF Holdings, Objects
    <3>3. ids \in [1..Len(found) -> Ids]
      BY <3>1, <3>2
    <3> QED BY <3>1, <3>3
  <2> HIDE DEF ids, rec
  <2>6. /\ k \in Calls /\ k.request = call[c].request /\ k.stage = "moving" /\ k.records = call[c].records
        /\ k.ids = ids /\ call' = [call EXCEPT ![c] = k]
    BY <1>2, <2>1, <2>5 DEF Calls, Stages, Inv
  <2> HIDE DEF k
  <2>7. StageFits(k)
    BY <2>2, <2>6 DEF StageFits, Moving, TenantFor
  <2>8. RecordsOwn(k)
    BY <2>1, <2>6 DEF CallOK, RecordsOwn, Moving, Answers
  <2>9. Answers(call[c], rec.path)
    BY <2>1, <2>3 DEF CallOK, RecordsOwn, Moving
  <2>10. IdsOwn(k, objects)
    <3>1. IsInjective(ids)
      BY <2>1, <2>4, <2>5 DEF IsInjective, Holdings
    <3>2. ASSUME NEW i \in DOMAIN found
          PROVE  /\ TenantOf(CodebaseOf(ids[i])) = TenantFor(call[c])
                 /\ \A o \in objects : o.id = ids[i] => Answers(call[c], o.path)
      <4>1. /\ found[i] \in objects /\ found[i].tenant = TenantFor(call[c])
            /\ Matches(rec.path, found[i].path) /\ ids[i] = found[i].id
        BY <2>1, <2>4, <2>5
      <4>2. Owned(found[i])
        BY <4>1 DEF Inv, StoreOK
      <4>3. Answers(call[c], found[i].path)
        BY <2>9, <4>1 DEF Answers, Matches
      <4>4. \A o \in objects : o.id = found[i].id => o = found[i]
        BY <2>1, <4>1 DEF Holdings
      <4> QED BY <4>1, <4>2, <4>3, <4>4 DEF Owned
    <3>3. \A path : Answers(k, path) <=> Answers(call[c], path)
      BY <2>6 DEF Answers
    <3> QED BY <2>5, <2>6, <3>1, <3>2, <3>3 DEF IdsOwn, TenantFor, ToSet
  <2>11. CallOK(k, objects)
    BY <2>6, <2>7, <2>8, <2>10 DEF CallOK
  <2> QED BY <1>2, <2>1, <2>6, <2>11, CallMoves DEF Lookup
<1> QED BY <1>1, <1>2 DEF Lookup

\* What is left of a list is of the list.
LEMMA TailKeeps ==
  ASSUME NEW S, NEW seq \in Seq(S), seq # <<>>
  PROVE  /\ Tail(seq) \in Seq(S) /\ Len(Tail(seq)) = Len(seq) - 1 /\ Len(seq) \in Nat
         /\ ToSet(Tail(seq)) \subseteq ToSet(seq)
         /\ Head(seq) \in ToSet(seq) /\ Head(seq) \in S /\ Head(seq) = seq[1]
         /\ IsInjective(seq) => IsInjective(Tail(seq)) /\ Head(seq) \notin ToSet(Tail(seq))
<1>1. /\ Tail(seq) \in Seq(S) /\ Len(Tail(seq)) = Len(seq) - 1 /\ Head(seq) \in S
      /\ \A i \in 1..Len(Tail(seq)) : Tail(seq)[i] = seq[i + 1]
  BY HeadTailProperties
<1>2. Len(seq) \in Nat /\ Len(seq) # 0 /\ DOMAIN seq = 1..Len(seq) /\ DOMAIN Tail(seq) = 1..Len(Tail(seq))
  BY <1>1, EmptySeq
<1>3. \A i \in DOMAIN Tail(seq) : i + 1 \in DOMAIN seq /\ Tail(seq)[i] = seq[i + 1] /\ i \in Nat /\ i # 0
  BY <1>1, <1>2
<1>4. 1 \in DOMAIN seq /\ Head(seq) = seq[1]
  BY <1>2
<1>5. ToSet(Tail(seq)) \subseteq ToSet(seq)
  BY <1>3 DEF ToSet
<1>6. Head(seq) \in ToSet(seq)
  BY <1>4 DEF ToSet
<1>7. ASSUME IsInjective(seq)
      PROVE  IsInjective(Tail(seq)) /\ Head(seq) \notin ToSet(Tail(seq))
  <2>1. \A i, j \in DOMAIN seq : seq[i] = seq[j] => i = j
    BY <1>7 DEF IsInjective
  <2>2. ASSUME NEW i \in DOMAIN Tail(seq), NEW j \in DOMAIN Tail(seq), Tail(seq)[i] = Tail(seq)[j]
        PROVE  i = j
    <3>1. seq[i + 1] = seq[j + 1]
      BY <1>3, <2>2
    <3>2. i + 1 = j + 1
      BY <1>3, <2>1, <3>1
    <3> QED BY <1>3, <3>2
  <2>3. ASSUME NEW i \in DOMAIN Tail(seq)
        PROVE  Tail(seq)[i] # Head(seq)
    <3>1. Tail(seq)[i] = seq[i + 1] /\ i + 1 \in DOMAIN seq /\ i + 1 # 1
      BY <1>3
    <3> QED BY <1>4, <2>1, <3>1
  <2> QED BY <2>2, <2>3 DEF IsInjective, ToSet
<1> QED BY <1>1, <1>2, <1>4, <1>5, <1>6, <1>7

LEMMA NextRecordKeeps ==
  ASSUME Inv, NEW c \in Slots, NextRecord(c)
  PROVE  Inv'
<1> DEFINE next == IF LastRecord(c) THEN "answering" ELSE "lookup"
           k == [call[c] EXCEPT !.records = Tail(@), !.stage = next]
<1>1. /\ call[c] \in Calls /\ CallOK(call[c], objects)
      /\ call[c].stage = "moving" /\ Working(call[c]) /\ Moving(call[c])
      /\ call[c].records \in Seq(Objects)
  BY CallKnown DEF NextRecord, At, Working, Active, Stages, Moving
<1>2. /\ call[c].request \in Requests /\ TenantFor(call[c]) # NoTenant
      /\ call[c].request.op = "rename" /\ call[c].records # <<>>
  BY <1>1 DEF CallOK, StageFits
<1>3. /\ Tail(call[c].records) \in Seq(Objects)
      /\ ToSet(Tail(call[c].records)) \subseteq ToSet(call[c].records)
      /\ Len(Tail(call[c].records)) = Len(call[c].records) - 1 /\ Len(call[c].records) \in Nat
  BY <1>1, <1>2, TailKeeps
<1>4. next \in {"answering", "lookup"} /\ (next = "lookup" => Tail(call[c].records) # <<>>)
  <2>1. Len(call[c].records) # 0
    BY <1>1, <1>2
  <2>2. next = "lookup" => Len(Tail(call[c].records)) # 0
    BY <1>3, <2>1 DEF LastRecord
  <2>3. Len(<<>>) = 0
    OBVIOUS
  <2> QED BY <2>2, <2>3
<1> HIDE DEF next
<1>5. /\ k \in Calls /\ k.request = call[c].request /\ k.stage = next /\ k.records = Tail(call[c].records)
      /\ call' = [call EXCEPT ![c] = k]
  BY <1>1, <1>3, <1>4 DEF Calls, Stages, Inv, NextRecord, next
<1> HIDE DEF k
<1>6. StageFits(k)
  BY <1>2, <1>4, <1>5 DEF StageFits, Moving, TenantFor
<1>7. RecordsOwn(k) /\ IdsOwn(k, objects)
  BY <1>1, <1>3, <1>4, <1>5 DEF CallOK, RecordsOwn, IdsOwn, Answers
<1>8. CallOK(k, objects)
  BY <1>5, <1>6, <1>7 DEF CallOK
<1> QED BY <1>1, <1>5, <1>8, CallMoves DEF NextRecord

LEMMA AnswerKeeps ==
  ASSUME Inv, NEW c \in Slots, Answer(c)
  PROVE  Inv'
<1> DEFINE found == RecordsBelow(objects, Tenant(c), New(c))
           k == [call[c] EXCEPT !.records = found, !.stage = "done"]
<1>1. CASE MayFail(c)
  BY <1>1, MayFailMoves DEF Answer
<1>2. CASE call' = [call EXCEPT ![c].records = found, ![c].stage = "done"] /\ UNCHANGED objects
  <2>1. call[c] \in Calls /\ objects \in Holdings
    BY CallKnown
  <2>2. found \in Seq(Objects)
    BY <2>1, RecordsAtKnown DEF RecordsBelow
  <2> HIDE DEF found
  <2>3. k \in Calls /\ k.request = call[c].request /\ k.stage = "done" /\ call' = [call EXCEPT ![c] = k]
    BY <1>2, <2>1, <2>2 DEF Calls, Stages, Inv
  <2> HIDE DEF k
  <2>4. CallOK(k, objects) /\ ~Working(k)
    BY <2>3, Ended
  <2> QED BY <1>2, <2>3, <2>4, CallMoves DEF Answer
<1> QED BY <1>1, <1>2 DEF Answer

LEMMA DeleteKeeps ==
  ASSUME Inv, NEW c \in Slots, Delete(c)
  PROVE  Inv'
<1>1. CASE objects' = objects \ Matched(c) /\ Goto(c, "done")
  BY <1>1, GotoMoves DEF Delete
<1>2. CASE DeletePart(c)
  BY <1>2, GotoMoves DEF Delete, DeletePart
<1> QED BY <1>1, <1>2 DEF Delete

LEMMA ListKeeps ==
  ASSUME Inv, NEW c \in Slots, List(c)
  PROVE  Inv'
<1> DEFINE page == Page(objects, Tenant(c), Len(call[c].records))
           next == IF Len(page) < PageSize THEN "done" ELSE "listing"
           k == [call[c] EXCEPT !.records = @ \o page, !.stage = next]
<1>1. CASE MayFail(c)
  BY <1>1, MayFailMoves DEF List
<1>2. CASE call' = [call EXCEPT ![c].records = @ \o page, ![c].stage = next] /\ UNCHANGED objects
  <2>1. /\ call[c] \in Calls /\ CallOK(call[c], objects) /\ objects \in Holdings
        /\ call[c].stage = "listing" /\ Working(call[c]) /\ call[c].records \in Seq(Objects)
    BY CallKnown DEF List, At, Working, Active, Stages
  <2>2. page \in Seq(Objects)
    BY <2>1, PageKnown
  <2> HIDE DEF page
  <2>3. call[c].records \o page \in Seq(Objects)
    BY <2>1, <2>2, ConcatProperties
  <2>4. next \in {"done", "listing"}
    OBVIOUS
  <2> HIDE DEF next
  <2>5. /\ k \in Calls /\ k.request = call[c].request /\ k.stage = next /\ call' = [call EXCEPT ![c] = k]
    BY <1>2, <2>1, <2>3, <2>4 DEF Calls, Stages, Inv
  <2> HIDE DEF k
  <2>6. StageFits(k)
    BY <2>1, <2>4, <2>5 DEF CallOK, StageFits, Moving, TenantFor
  <2>7. CallOK(k, objects)
    BY <2>4, <2>5, <2>6, NothingKept DEF Moving
  <2> QED BY <1>2, <2>1, <2>5, <2>7, CallMoves DEF List
<1> QED BY <1>1, <1>2 DEF List

-----------------------------------------------------------------------------
(* The step that rewrites an object.                                       *)

\* A call of another codebase, or one that renames nothing, is not concerned.
LEMMA OthersUnmoved ==
  ASSUME NEW S, NEW T, NEW h, NEW tenant, CallOK(h, S),
         \A o \in T \ S : TenantOf(CodebaseOf(o.id)) = tenant,
         Renaming(h) => TenantFor(h) # tenant
  PROVE  CallOK(h, T)
<1>1. h.stage = "moving" => Renaming(h)
  BY DEF CallOK, StageFits, Renaming, Working, Moving, Active, Stages
<1>2. IdsOwn(h, T)
  BY <1>1 DEF CallOK, IdsOwn
<1> QED BY <1>2 DEF CallOK

LEMMA RewrittenForm ==
  ASSUME NEW o \in Objects, NEW rec \in Objects, NEW path \in PathSet
  PROVE  LET n == Rewritten(o, rec, path)
         IN n \in Objects /\ n.id = o.id /\ n.tenant = o.tenant /\ n.path = path /\ n.text = rec.text
BY DEF Rewritten, Objects

\* What Update finds and makes.
LEMMA UpdateKnown ==
  ASSUME Inv, NEW c \in Slots, At(c, "moving"), call[c].ids # <<>>
  PROVE  LET k    == call[c]
             id   == Head(k.ids)
             rec  == Head(k.records)
             path == Moved(rec.path, Dir(c), New(c))
         IN  /\ Renaming(k) /\ Moving(k) /\ k \in Calls /\ CallOK(k, objects)
             /\ k.request \in Requests /\ TenantFor(k) # NoTenant
             /\ k.request.dir \in Dirs /\ k.request.new \in Dirs
             /\ rec \in ToSet(k.records) /\ rec \in Objects /\ k.records \in Seq(Objects)
             /\ Answers(k, rec.path)
             /\ id \in Ids /\ id \in ToSet(k.ids) /\ k.ids \in Seq(Ids)
             /\ TenantOf(CodebaseOf(id)) = TenantFor(k)
             /\ path \in PathSet /\ path = Moved(rec.path, k.request.dir, k.request.new)
             /\ \A o \in objects : o.id = id =>
                  /\ o.tenant = TenantFor(k) /\ Answers(k, o.path)
                  /\ Rewritten(o, rec, path) \in Objects
<1> DEFINE k    == call[c]
           id   == Head(k.ids)
           rec  == Head(k.records)
           path == Moved(rec.path, Dir(c), New(c))
<1>1. /\ k \in Calls /\ CallOK(k, objects) /\ objects \in Holdings
      /\ k.stage = "moving" /\ Working(k) /\ Moving(k)
      /\ k.records \in Seq(Objects) /\ k.ids \in Seq(Ids)
  BY CallKnown DEF At, Working, Active, Stages, Moving
<1>2. k.request \in Requests /\ TenantFor(k) # NoTenant /\ k.request.op = "rename" /\ k.records # <<>>
  BY <1>1 DEF CallOK, StageFits
<1>3. k.request.dir \in Dirs /\ k.request.new \in Dirs
  BY <1>2 DEF Requests
<1>4. rec \in ToSet(k.records) /\ rec \in Objects
  BY <1>1, <1>2, TailKeeps
<1>5. id \in ToSet(k.ids) /\ id \in Ids
  BY <1>1, TailKeeps
<1>6. Answers(k, rec.path)
  BY <1>1, <1>4 DEF CallOK, RecordsOwn
<1>7. /\ TenantOf(CodebaseOf(id)) = TenantFor(k)
      /\ \A o \in objects : o.id = id => Answers(k, o.path)
  BY <1>1, <1>5 DEF CallOK, IdsOwn
<1>8. path = Moved(rec.path, k.request.dir, k.request.new) /\ path \in PathSet
  BY <1>3, <1>4, MovedForm DEF Objects, Dir, New
<1> HIDE DEF path, rec, id
<1>9. ASSUME NEW o \in objects, o.id = id
      PROVE  o.tenant = TenantFor(k) /\ Answers(k, o.path) /\ Rewritten(o, rec, path) \in Objects
  <2>1. o \in Objects /\ Owned(o)
    BY <1>1 DEF Inv, StoreOK, Holdings
  <2>2. o.tenant = TenantFor(k) /\ Answers(k, o.path)
    BY <1>7, <1>9, <2>1 DEF Owned
  <2>3. Rewritten(o, rec, path) \in Objects
    BY <1>4, <1>8, <2>1, RewrittenForm
  <2> QED BY <2>2, <2>3
<1> QED BY <1>1, <1>2, <1>3, <1>4, <1>5, <1>6, <1>7, <1>8, <1>9 DEF Renaming, path, rec, id

LEMMA UpdateKeeps ==
  ASSUME Inv, NEW c \in Slots, Update(c)
  PROVE  Inv'
<1> DEFINE k    == call[c]
           id   == Head(k.ids)
           rec  == Head(k.records)
           path == Moved(rec.path, Dir(c), New(c))
           h    == [k EXCEPT !.ids = Tail(@)]
<1>1. At(c, "moving") /\ k.ids # <<>> /\ calls' = calls
  BY DEF Update
<1>2. /\ Renaming(k) /\ Moving(k) /\ k \in Calls /\ CallOK(k, objects) /\ k.stage = "moving"
      /\ rec \in Objects
      /\ id \in Ids /\ id \in ToSet(k.ids) /\ k.ids \in Seq(Ids)
      /\ TenantOf(CodebaseOf(id)) = TenantFor(k)
      /\ path \in PathSet
      /\ \A o \in objects : o.id = id => o.tenant = TenantFor(k) /\ Rewritten(o, rec, path) \in Objects
  BY <1>1, UpdateKnown DEF At
<1>3. CASE MayFail(c)
  BY <1>1, <1>3, MayFailMoves
<1>4. CASE Goto(c, "failed") /\ UNCHANGED objects
  BY <1>1, <1>4, GotoMoves
<1>5. ASSUME NEW o \in objects, o.id = id,
             objects' = (objects \ {o}) \cup {Rewritten(o, rec, path)},
             call' = [call EXCEPT ![c].ids = Tail(@)]
      PROVE  Inv'
  <2> DEFINE n == Rewritten(o, rec, path)
             T == (objects \ {o}) \cup {n}
  <2>1. n \in Objects /\ n.id = id /\ n.tenant = TenantFor(k) /\ Owned(n)
    <3>1. o \in Objects
      BY DEF Inv, StoreOK, Holdings
    <3>2. n \in Objects /\ n.id = o.id /\ n.tenant = o.tenant
      BY <1>2, <3>1, RewrittenForm
    <3>3. o.tenant = TenantFor(k)
      BY <1>2, <1>5
    <3> HIDE DEF n, path, rec
    <3> QED BY <1>2, <1>5, <3>2, <3>3 DEF Owned
  <2> HIDE DEF n, path, rec, id
  <2>4. StoreOK(T)
    <3>1. IsFiniteSet(T)
      BY FS_RemoveElement, FS_AddElement DEF Inv, StoreOK, Holdings
    <3>2. T \in SUBSET Objects
      BY <2>1 DEF Inv, StoreOK, Holdings
    <3>3. \A p, q \in T : p.id = q.id => p = q
      BY <1>5, <2>1 DEF Inv, StoreOK, Holdings
    <3>4. \A p \in T : Owned(p)
      BY <2>1 DEF Inv, StoreOK
    <3> QED BY <3>1, <3>2, <3>3, <3>4 DEF StoreOK, Holdings
  <2>5. /\ Tail(k.ids) \in Seq(Ids) /\ ToSet(Tail(k.ids)) \subseteq ToSet(k.ids)
        /\ IsInjective(k.ids) => IsInjective(Tail(k.ids)) /\ id \notin ToSet(Tail(k.ids))
    BY <1>1, <1>2, TailKeeps DEF id
  <2>6. /\ h \in Calls /\ h.request = k.request /\ h.stage = "moving" /\ h.records = k.records
        /\ h.ids = Tail(k.ids) /\ call' = [call EXCEPT ![c] = h]
    BY <1>2, <1>5, <2>5 DEF Calls, Inv
  <2> HIDE DEF h
  <2>7. StageFits(h) /\ RecordsOwn(h)
    BY <1>2, <2>6 DEF CallOK, StageFits, RecordsOwn, Working, Moving, TenantFor, Answers
  <2>8. IdsOwn(h, T)
    <3>1. \A p : Answers(h, p) <=> Answers(k, p)
      BY <2>6 DEF Answers
    <3> QED BY <1>2, <2>1, <2>5, <2>6, <3>1 DEF CallOK, IdsOwn, TenantFor
  <2>10. CallOK(h, T)
    BY <2>6, <2>7, <2>8 DEF CallOK
  <2>11. ASSUME NEW d \in Slots, d # c
         PROVE  CallOK(call[d], T)
    <3>1. CallOK(call[d], objects)
      BY DEF Inv
    <3>2. \A p \in T \ objects : TenantOf(CodebaseOf(p.id)) = TenantFor(k)
      BY <1>2, <2>1
    <3>3. Renaming(call[d]) => TenantFor(call[d]) # TenantFor(k)
      BY <1>2, <2>11 DEF Inv, OneRename, Tenant, TenantFor
    <3> HIDE DEF T
    <3> QED BY <3>1, <3>2, <3>3, OthersUnmoved
  <2>12. objects' = T
    BY <1>5 DEF n, path, rec, id
  <2> HIDE DEF T
  <2>13. /\ call' \in [Slots -> Calls] /\ call'[c] = h
         /\ \A d \in Slots : d # c => call'[d] = call[d]
    BY <2>6 DEF Inv
  <2>14. \A d \in Slots : CallOK(call'[d], objects')
    BY <2>10, <2>11, <2>12, <2>13
  <2>15. \A d \in Slots : call'[d].request = call[d].request /\ (Renaming(call'[d]) => Renaming(call[d]))
    BY <1>2, <2>6, <2>13
  <2>16. \A a, b \in Slots : Renaming(call'[a]) /\ Renaming(call'[b]) /\ Tenant(a)' = Tenant(b)' => a = b
    BY <2>15 DEF Inv, OneRename, Tenant
  <2> QED BY <1>1, <2>4, <2>12, <2>13, <2>14, <2>16 DEF Inv, OneRename
<1> QED BY <1>3, <1>4, <1>5 DEF Update

-----------------------------------------------------------------------------
(* The invariant.                                                          *)

LEMMA InitInv == Init => Inv
<1> SUFFICES ASSUME Init PROVE Inv
  OBVIOUS
<1>1. \A o \in Layout :
        Stored(o) \in Objects /\ Owned(Stored(o)) /\ Stored(o).id = o.id
  BY LayoutKnown, LayoutPaths DEF Stored, Objects, Owned
<1>2. IsFiniteSet(objects)
  <2> DEFINE f == [o \in Layout |-> Stored(o)]
  <2>1. f \in Surjection(Layout, objects)
    BY DEF Init, Surjection
  <2> QED BY <2>1, LayoutAssumption, FS_Surjection
<1>3. \A o \in objects : \E p \in Layout : o = Stored(p)
  BY DEF Init
<1>4. objects \in SUBSET Objects /\ \A o \in objects : Owned(o)
  BY <1>1, <1>3
<1>5. \A o, p \in objects : o.id = p.id => o = p
  BY <1>1, <1>3, LayoutAssumption
<1>6. StoreOK(objects)
  BY <1>2, <1>4, <1>5 DEF StoreOK, Holdings
<1> DEFINE k == CallOf(NoRequest, "idle", {}, TRUE)
<1>7. /\ k \in Calls /\ k.stage = "idle" /\ k.request = NoRequest
  BY DEF CallOf, Calls, Stages
<1>8. \A c \in Slots : call[c] = k
  BY DEF Init
<1>9. call \in [Slots -> Calls]
  BY <1>7 DEF Init
<1> HIDE DEF k
<1>10. ~Working(k) /\ StageFits(k)
  BY <1>7 DEF StageFits, Working, Active
<1>11. CallOK(k, objects)
  BY <1>7, <1>10, NothingKept DEF Moving
<1>12. OneRename
  BY <1>8, <1>10 DEF OneRename, Renaming
<1>13. calls \in 0..MaxCalls
  BY CallsAssumption DEF Init
<1> QED BY <1>6, <1>8, <1>9, <1>11, <1>12, <1>13 DEF Inv

LEMMA StartKeeps ==
  ASSUME Inv, NEW c \in Slots, NEW request \in Requests, Start(c, request)
  PROVE  Inv'
<1> DEFINE tenant == TenantOf(request.codebase)
           before == TenantsObjects(objects, tenant)
           rivals == Rivals(c, tenant)
           stage  == FirstStage(request)
           begun  == CallOf(request, stage, before, rivals = {})
<1>1. /\ objects \in Holdings /\ StoreOK(objects) /\ call \in [Slots -> Calls]
      /\ objects' = objects /\ calls \in 0..MaxCalls /\ calls' = calls + 1 /\ calls < MaxCalls
      /\ ~Runs(c) /\ (request.op = "rename" => CanRename(c, request))
      /\ call' = [d \in Slots |-> IF d = c THEN begun
                                  ELSE IF d \in rivals THEN [call[d] EXCEPT !.alone = FALSE]
                                  ELSE call[d]]
  BY DEF Inv, StoreOK, Start
<1>2. calls' \in 0..MaxCalls
  BY <1>1, CallsAssumption
<1>3. before \in SUBSET Objects
  BY <1>1 DEF Holdings, TenantsObjects
<1>4. /\ request.op \in {"rename", "delete", "wipe", "list"}
      /\ stage \in {"refused", "reading", "deleting", "listing"}
      /\ stage # "refused" => tenant # NoTenant
      /\ stage = "reading" => request.op \in {"rename", "delete"}
      /\ stage = "deleting" => request.op = "wipe"
      /\ stage = "listing" => request.op = "list"
  BY DEF FirstStage, Requests
<1> HIDE DEF before, stage, rivals, tenant
<1>5. /\ begun \in Calls /\ begun.request = request /\ begun.stage = stage
  BY <1>3, <1>4 DEF CallOf, Calls, Stages
<1> HIDE DEF begun
<1>6. TenantFor(begun) = tenant
  BY <1>5 DEF TenantFor, tenant
<1>7. StageFits(begun)
  BY <1>4, <1>5, <1>6 DEF StageFits, Working, Moving, Active
<1>8. CallOK(begun, objects)
  BY <1>4, <1>5, <1>7, NothingKept DEF Moving
<1>9. ASSUME NEW d \in Slots, d # c
      PROVE  /\ call'[d] \in Calls /\ CallOK(call'[d], objects)
             /\ call'[d].request = call[d].request /\ call'[d].stage = call[d].stage
  <2>1. call[d] \in Calls /\ CallOK(call[d], objects)
    BY CallKnown
  <2>2. CASE d \notin rivals
    BY <1>1, <1>9, <2>1, <2>2
  <2>3. CASE d \in rivals
    <3> DEFINE k == call[d]
               h == [k EXCEPT !.alone = FALSE]
    <3>1. call'[d] = h
      BY <1>1, <1>9, <2>3
    <3>2. /\ h \in Calls /\ h.request = k.request /\ h.stage = k.stage
          /\ h.records = k.records /\ h.ids = k.ids
      BY <2>1 DEF Calls
    <3> HIDE DEF h, k
    <3>3. \A path : Answers(h, path) <=> Answers(k, path)
      BY <3>2 DEF Answers
    <3>4. StageFits(h) /\ RecordsOwn(h) /\ IdsOwn(h, objects)
      BY <2>1, <3>2, <3>3 DEF CallOK, StageFits, RecordsOwn, IdsOwn, Working, Moving, TenantFor, k
    <3> QED BY <3>1, <3>2, <3>4 DEF CallOK, k
  <2> QED BY <2>2, <2>3
<1>10. call'[c] = begun
  BY <1>1
<1>11. call' \in [Slots -> Calls]
  <2>1. \A d \in Slots : call'[d] \in Calls
    BY <1>5, <1>9, <1>10
  <2> QED BY <1>1, <2>1
<1>12. \A d \in Slots : CallOK(call'[d], objects')
  BY <1>1, <1>8, <1>9, <1>10
<1>13. ASSUME NEW a \in Slots, NEW b \in Slots, Renaming(call'[a]), Renaming(call'[b]), Tenant(a)' = Tenant(b)'
       PROVE  a = b
  <2>1. ASSUME NEW d \in Slots, d # c, Renaming(call'[d]), Renaming(begun)
        PROVE  TenantFor(call'[d]) # tenant
    <3>1. Renaming(call[d]) /\ TenantFor(call[d]) = TenantFor(call'[d])
      BY <1>9, <2>1 DEF Renaming, Working, TenantFor
    <3>2. Runs(d) /\ Op(d) = "rename"
      BY <3>1 DEF Renaming, Working, Runs, Op
    <3>3. d \notin Rivals(c, tenant)
      BY <1>1, <1>5, <2>1, <3>2 DEF CanRename, Renaming, tenant
    <3> QED BY <2>1, <3>1, <3>2, <3>3 DEF Rivals, Tenant, TenantFor
  <2>2. CASE a # c /\ b # c
    <3>1. Renaming(call[a]) /\ Renaming(call[b])
      BY <1>9, <1>13, <2>2 DEF Renaming, Working
    <3>2. Tenant(a) = Tenant(b)
      BY <1>9, <1>13, <2>2 DEF Tenant
    <3> QED BY <3>1, <3>2 DEF Inv, OneRename
  <2>3. CASE a = c /\ b # c
    BY <1>6, <1>10, <1>13, <2>1, <2>3 DEF Tenant, TenantFor
  <2>4. CASE a # c /\ b = c
    BY <1>6, <1>10, <1>13, <2>1, <2>4 DEF Tenant, TenantFor
  <2> QED BY <2>2, <2>3, <2>4
<1>14. StoreOK(objects)'
  BY <1>1
<1> QED BY <1>2, <1>11, <1>12, <1>13, <1>14 DEF Inv, OneRename

LEMMA StepInv == Inv /\ [Next]_vars => Inv'
<1> SUFFICES ASSUME Inv, [Next]_vars PROVE Inv'
  OBVIOUS
<1>1. ASSUME NEW c \in Slots, NEW request \in Requests, Start(c, request)
      PROVE  Inv'
  BY <1>1, StartKeeps
<1>2. ASSUME NEW c \in Slots, Step(c)
      PROVE  Inv'
  BY <1>2, ReadKeeps, LookupKeeps, NextRecordKeeps, UpdateKeeps, AnswerKeeps, DeleteKeeps, ListKeeps DEF Step
<1>3. CASE UNCHANGED vars
  BY <1>3 DEF vars, Inv, OneRename, Tenant
<1> QED BY <1>1, <1>2, <1>3 DEF Next

LEMMA Invariance == Spec => []Inv
BY InitInv, StepInv, PTL DEF Spec

-----------------------------------------------------------------------------
(* Theorems.                                                               *)

(***************************************************************************)
(* Types: what the store holds and the calls carry is of the codebases     *)
(* there were, and no move makes a malformed path (UpdateCodeChunks-       *)
(* Dictionary), whatever directories are moved into each other.            *)
(***************************************************************************)
THEOREM TypeCorrect == Spec => []TypeOK
<1>1. Inv => TypeOK
  <2> SUFFICES ASSUME Inv PROVE TypeOK
    OBVIOUS
  <2>1. ASSUME NEW o \in objects
        PROVE  /\ o.id \in Ids /\ WellFormed(o.path)
               /\ o.text \in {p.text : p \in Layout}
               /\ o.tenant \in {TenantOf(p.codebase) : p \in Layout}
    BY DEF Inv, StoreOK, Holdings, Objects, PathSet
  <2>2. \A o, p \in objects : o.id = p.id => o = p
    BY DEF Inv, StoreOK, Holdings
  <2>3. ASSUME NEW c \in Slots
        PROVE  /\ call[c].stage \in Stages
               /\ call[c].request \in Requests \cup {NoRequest}
               /\ call[c].alone \in BOOLEAN
               /\ \A i \in DOMAIN call[c].records : call[c].records[i].id \in Ids
               /\ \A i \in DOMAIN call[c].ids : call[c].ids[i] \in Ids
    <3>1. /\ call[c].request \in Requests \cup {NoRequest} /\ call[c].stage \in Stages
          /\ call[c].records \in Seq(Objects) /\ call[c].ids \in Seq(Ids)
          /\ call[c].alone \in BOOLEAN
      BY CallKnown
    <3>2. \A i \in DOMAIN call[c].records : call[c].records[i] \in Objects
      BY <3>1
    <3>3. \A i \in DOMAIN call[c].records : call[c].records[i].id \in Ids
      BY <3>2 DEF Objects
    <3>4. \A i \in DOMAIN call[c].ids : call[c].ids[i] \in Ids
      BY <3>1
    <3> QED BY <3>1, <3>3, <3>4
  <2> QED BY <2>1, <2>2, <2>3 DEF Inv, TypeOK
<1> QED BY <1>1, Invariance, PTL

(***************************************************************************)
(* A step changes or removes objects only of the codebase of a call that   *)
(* is under way and, unless the call wipes the codebase, only such as have *)
(* all the words of its directory at that step: what was read before is    *)
(* never used on an object that another call has put in its place          *)
(* (UpdateCodeChunksDictionary, DeleteDictionary).                         *)
(***************************************************************************)
THEOREM OnlyWhatMatchesHolds == Spec => OnlyWhatMatches
<1> DEFINE Touches(c, o) ==
       /\ Runs(c) /\ call[c].request.codebase = CodebaseOf(o.id)
       /\ Op(c) = "wipe" \/ (Op(c) \in {"rename", "delete"} /\ MatchedBy(c, o))
           Own == \A o \in objects \ objects' : \E c \in Slots : Touches(c, o)
<1>1. ASSUME Inv, NEW c \in Slots, NEW o \in objects, Runs(c), o.tenant = Tenant(c)
      PROVE  call[c].request.codebase = CodebaseOf(o.id)
  <2>1. o \in Objects /\ Owned(o)
    BY <1>1 DEF Inv, StoreOK, Holdings
  <2>2. call[c].request \in Requests /\ Tenant(c) # NoTenant
    BY <1>1, CallKnown DEF CallOK, StageFits
  <2>3. call[c].request.codebase \in Codebases
    BY <2>2 DEF Requests
  <2> QED BY <1>1, <2>1, <2>2, <2>3, TenantsApart DEF Objects, Owned, Tenant
<1>2. ASSUME Inv, NEW c \in Slots, Update(c), NEW o \in objects \ objects'
      PROVE  Touches(c, o)
  <2> DEFINE k  == call[c]
             id == Head(k.ids)
  <2>1. At(c, "moving") /\ k.ids # <<>>
    BY <1>2 DEF Update
  <2>2. /\ Renaming(k)
        /\ \A p \in objects : p.id = id => p.tenant = TenantFor(k) /\ Answers(k, p.path)
    BY <1>2, <2>1, UpdateKnown
  <2>3. o.id = id
    BY <1>2 DEF Update, MayFail
  <2>4. o.tenant = TenantFor(k) /\ Answers(k, o.path)
    BY <2>2, <2>3
  <2>5. Runs(c) /\ Tenant(c) = TenantFor(k)
    BY <2>2 DEF Renaming, Working, Runs, Tenant, TenantFor
  <2>6. MatchedBy(c, o) /\ Op(c) = "rename"
    BY <2>2, <2>4 DEF MatchedBy, Answers, Dir, Op, Renaming
  <2> QED BY <1>1, <1>2, <2>4, <2>5, <2>6
<1>3. ASSUME Inv, NEW c \in Slots, Delete(c), NEW o \in objects \ objects'
      PROVE  Touches(c, o)
  <2>1. o \in Matched(c) /\ At(c, "deleting")
    BY <1>3 DEF Delete, DeletePart
  <2>2. /\ Runs(c) /\ call[c].stage = "deleting" /\ Op(c) \in {"wipe", "delete"}
        /\ CallOK(call[c], objects) /\ Tenant(c) = TenantFor(call[c])
    BY <1>3, <2>1, CallKnown DEF CallOK, StageFits, Working, Active, Stages, At, Op
  <2>3. CASE Op(c) = "wipe"
    <3>1. o.tenant = Tenant(c)
      BY <2>1, <2>3 DEF Matched, Wiped, TenantsObjects
    <3> QED BY <1>1, <1>3, <2>2, <2>3, <3>1
  <2>4. CASE Op(c) = "delete"
    <3>1. PICK i \in DOMAIN call[c].records : o.tenant = Tenant(c) /\ Matches(call[c].records[i].path, o.path)
      BY <2>1, <2>4 DEF Matched, MatchedByPaths, TenantsObjects
    <3>2. Matches(AsDirectory(Dir(c)), call[c].records[i].path)
      BY <2>2, <2>4 DEF CallOK, RecordsOwn, Answers, ToSet, Op, Dir
    <3>3. MatchedBy(c, o)
      BY <3>1, <3>2 DEF Matches, MatchedBy
    <3> QED BY <1>1, <1>3, <2>2, <2>4, <3>1, <3>3
  <2> QED BY <2>2, <2>3, <2>4
<1>4. Inv /\ [Next]_vars => [Own]_vars
  <2> SUFFICES ASSUME Inv, Next PROVE Own
    OBVIOUS
  <2> SUFFICES ASSUME NEW o \in objects \ objects'
               PROVE  \E c \in Slots : Touches(c, o)
    OBVIOUS
  <2> HIDE DEF Touches
  <2>1. ASSUME NEW c \in Slots, NEW request \in Requests, Start(c, request)
        PROVE  FALSE
    BY <2>1 DEF Start
  <2>2. ASSUME NEW c \in Slots, Read(c) \/ Lookup(c) \/ NextRecord(c) \/ Answer(c) \/ List(c)
        PROVE  FALSE
    BY <2>2 DEF Read, Lookup, NextRecord, Answer, List, MayFail
  <2> QED BY <1>2, <1>3, <2>1, <2>2 DEF Next, Step
<1> QED BY <1>4, Invariance, PTL DEF OnlyWhatMatches, Spec

-----------------------------------------------------------------------------
(* Calls that have their codebase to themselves.                           *)

\* Nothing that a rename may move comes into the directory it is moved out of.
StaysOut(k) ==
  \A o \in k.before :
    Answers(k, o.path) => ~Below(k.request.dir, Moved(o.path, k.request.dir, k.request.new))

\* An object that is to be moved is a record's own, still to come, or has been looked up.
Pending(k, o) ==
  \/ k.stage = "lookup" /\ o \in ToSet(k.records)
  \/ k.stage = "moving" /\ (o.id \in ToSet(k.ids) \/ o \in ToSet(Tail(k.records)))

\* The objects are those there were, each as it was or a moved copy of one that had the words.
Progress(k, own) ==
  /\ {o.id : o \in own} = {o.id : o \in k.before}
  /\ \A o \in own : Below(k.request.dir, o.path) => Pending(k, o)
  /\ \A b \in k.before : Answers(k, b.path) \/ b \in own
  /\ \A o \in own \ k.before : \E b \in k.before :
       Answers(k, b.path) /\ o.path = Moved(b.path, k.request.dir, k.request.new) /\ o.text = b.text

\* A listing has what comes first, a delete all that has the words of the directory.
AloneOK(k, own) ==
  Working(k) /\ k.alone =>
    /\ k.before \in Holdings
    /\ k.stage \in {"reading", "deleting", "listing"} => own = k.before
    /\ k.stage = "deleting" /\ k.request.op = "delete" =>
         \A o \in k.before : Answers(k, o.path) => o \in ToSet(k.records)
    /\ k.stage = "listing" =>
         LET all == InOrder(k.before)
         IN  Len(k.records) <= Len(all) /\ \A i \in 1..Len(k.records) : k.records[i] = all[i]
    /\ k.request.op = "rename" => StaysOut(k)
    /\ Moving(k) => ToSet(k.records) \subseteq k.before
    /\ Moving(k) \/ k.stage = "answering" => Progress(k, own)

OwnOf(k, S) == TenantsObjects(S, TenantFor(k))

AloneInv ==
  /\ \A c \in Slots : AloneOK(call[c], OwnOf(call[c], objects))
  /\ \A c, d \in Slots : Runs(c) /\ call[c].alone /\ Runs(d) /\ Tenant(c) = Tenant(d) => c = d

\* A query without a limit of its own returns all there is.
NoneCut == Cardinality(Layout) <= QueryLimit

LEMMA HoldingsAreSmall ==
  ASSUME NEW S \in Holdings, NoneCut
  PROVE  Cardinality(S) <= QueryLimit
<1> DEFINE f == [o \in S |-> o.id]
           g == [o \in Layout |-> o.id]
<1>1. f \in Injection(S, Ids)
  BY DEF Holdings, Objects, Injection, IsInjective
<1>2. g \in Surjection(Layout, Ids)
  BY DEF Surjection, Ids
<1>3. IsFiniteSet(Ids) /\ Cardinality(Ids) <= Cardinality(Layout)
  BY <1>2, LayoutAssumption, FS_Surjection
<1>4. IsFiniteSet(S) /\ Cardinality(S) <= Cardinality(Ids)
  BY <1>1, <1>3, FS_Injection
<1>5. Cardinality(S) \in Nat /\ Cardinality(Ids) \in Nat /\ Cardinality(Layout) \in Nat /\ QueryLimit \in Nat
  BY <1>3, <1>4, FS_CardinalityType, LayoutAssumption, LimitAssumption
<1> QED BY <1>3, <1>4, <1>5 DEF NoneCut

LEMMA RecordsAtAll ==
  ASSUME NEW S \in Holdings, NEW tenant, NEW path, NoneCut
  PROVE  /\ RecordsAt(S, tenant, path) \in Seq(Objects)
         /\ ToSet(RecordsAt(S, tenant, path)) = {o \in TenantsObjects(S, tenant) : Matches(path, o.path)}
BY HoldingsAreSmall, RecordsAtKnown

\* A step is of one call, which goes on with what it was asked for.
LEMMA StepIsOfOne ==
  ASSUME Inv, NEW c \in Slots, Step(c)
  PROVE  /\ Runs(c)
         /\ \A d \in Slots : d # c => call'[d] = call[d]
         /\ call'[c].request = call[c].request
         /\ call'[c].alone = call[c].alone
         /\ call'[c].before = call[c].before
<1>1. call \in [Slots -> Calls] /\ call[c] \in Calls
  BY DEF Inv
<1>2. Runs(c)
  BY DEF Step, Read, Lookup, NextRecord, Update, Answer, Delete, List, At, Runs, Active, Stages
<1> DEFINE Only == /\ \A d \in Slots : d # c => call'[d] = call[d]
                   /\ call'[c].request = call[c].request
                   /\ call'[c].alone = call[c].alone
                   /\ call'[c].before = call[c].before
<1>3. ASSUME NEW stage, Goto(c, stage)
      PROVE  Only
  BY <1>1, <1>3 DEF Goto, Calls
<1>4. ASSUME NEW records, NEW stage, call' = [call EXCEPT ![c].records = records, ![c].stage = stage]
      PROVE  Only
  BY <1>1, <1>4 DEF Calls
<1>5. ASSUME NEW ids, NEW stage, call' = [call EXCEPT ![c].ids = ids, ![c].stage = stage]
      PROVE  Only
  BY <1>1, <1>5 DEF Calls
<1>6. ASSUME NEW ids, call' = [call EXCEPT ![c].ids = ids]
      PROVE  Only
  BY <1>1, <1>6 DEF Calls
<1> HIDE DEF Only
<1>7. Read(c) => Only
  BY <1>3, <1>4 DEF Read, MayFail
<1>8. Lookup(c) => Only
  BY <1>3, <1>5 DEF Lookup, MayFail
<1>9. NextRecord(c) => Only
  BY <1>4 DEF NextRecord
<1>10. Update(c) => Only
  BY <1>3, <1>6 DEF Update, MayFail
<1>11. Answer(c) => Only
  BY <1>3, <1>4 DEF Answer, MayFail
<1>12. Delete(c) => Only
  BY <1>3 DEF Delete, DeletePart
<1>13. List(c) => Only
  BY <1>3, <1>4 DEF List, MayFail
<1> QED BY <1>2, <1>7, <1>8, <1>9, <1>10, <1>11, <1>12, <1>13 DEF Step, Only

\* The objects of other codebases are as they were.
LEMMA OthersOwn ==
  ASSUME Inv, NEW c \in Slots, Step(c), NEW tenant, tenant # Tenant(c)
  PROVE  TenantsObjects(objects', tenant) = TenantsObjects(objects, tenant)
<1>1. CASE Update(c)
  <2> DEFINE k    == call[c]
             id   == Head(k.ids)
             rec  == Head(k.records)
             path == Moved(rec.path, Dir(c), New(c))
  <2>1. /\ path \in PathSet /\ rec \in Objects
        /\ \A o \in objects : o.id = id => o.tenant = Tenant(c)
    BY <1>1, UpdateKnown DEF Update, Tenant, TenantFor
  <2>2. ASSUME NEW o \in objects, o.id = id, objects' = (objects \ {o}) \cup {Rewritten(o, rec, path)}
        PROVE  TenantsObjects(objects', tenant) = TenantsObjects(objects, tenant)
    <3> DEFINE n == Rewritten(o, rec, path)
    <3>1. o.tenant = Tenant(c) /\ o \in Objects
      BY <2>1, <2>2 DEF Inv, StoreOK, Holdings
    <3>2. n.tenant = Tenant(c)
      BY <2>1, <3>1, RewrittenForm
    <3> HIDE DEF n
    <3> QED BY <2>2, <3>1, <3>2 DEF TenantsObjects, n
  <2>3. objects' = objects => TenantsObjects(objects', tenant) = TenantsObjects(objects, tenant)
    OBVIOUS
  <2> QED BY <1>1, <2>2, <2>3 DEF Update, MayFail
<1>2. CASE Delete(c)
  BY <1>2 DEF Delete, DeletePart, Matched, Wiped, MatchedByPaths, TenantsObjects
<1>3. CASE Read(c) \/ Lookup(c) \/ NextRecord(c) \/ Answer(c) \/ List(c)
  BY <1>3 DEF Read, Lookup, NextRecord, Answer, List, MayFail
<1> QED BY <1>1, <1>2, <1>3 DEF Step

\* It is enough to look at the call that takes the step.
LEMMA AloneMoves ==
  ASSUME Inv, AloneInv, NEW c \in Slots, Step(c),
         AloneOK(call'[c], OwnOf(call'[c], objects'))
  PROVE  AloneInv'
<1>1. /\ Runs(c)
      /\ \A d \in Slots : d # c => call'[d] = call[d]
      /\ call'[c].request = call[c].request
      /\ call'[c].alone = call[c].alone
  BY StepIsOfOne
<1>2. ASSUME NEW d \in Slots, d # c
      PROVE  AloneOK(call'[d], OwnOf(call'[d], objects'))
  <2>1. AloneOK(call[d], OwnOf(call[d], objects)) /\ call'[d] = call[d]
    BY <1>1, <1>2 DEF AloneInv
  <2>2. CASE Working(call[d]) /\ call[d].alone
    <3>1. TenantFor(call[d]) # Tenant(c)
      BY <1>1, <1>2, <2>2 DEF AloneInv, Runs, Working, Tenant, TenantFor
    <3>2. OwnOf(call[d], objects') = OwnOf(call[d], objects)
      BY <3>1, OthersOwn DEF OwnOf
    <3> QED BY <2>1, <3>2
  <2>3. CASE ~(Working(call[d]) /\ call[d].alone)
    BY <2>1, <2>3 DEF AloneOK
  <2> QED BY <2>2, <2>3
<1>3. \A d \in Slots : /\ call'[d].request = call[d].request /\ call'[d].alone = call[d].alone
                       /\ call'[d].stage \in Active => call[d].stage \in Active
  BY <1>1 DEF Runs
<1>4. ASSUME NEW a \in Slots, NEW b \in Slots, Runs(a)', call'[a].alone, Runs(b)', Tenant(a)' = Tenant(b)'
      PROVE  a = b
  <2>1. Runs(a) /\ Runs(b)
    BY <1>3, <1>4 DEF Runs
  <2>2. call[a].alone
    BY <1>3, <1>4, Zenon
  <2>3. Tenant(a) = Tenant(b)
    BY <1>3, <1>4 DEF Tenant
  <2> QED BY <2>1, <2>2, <2>3 DEF AloneInv
<1>5. \A d \in Slots : AloneOK(call'[d], OwnOf(call'[d], objects'))
  BY <1>2
<1> QED BY <1>4, <1>5 DEF AloneInv

\* A call that is over is not alone any more, nor with anyone.
LEMMA OverIsAlone ==
  ASSUME NEW k, NEW own, k.stage \in {"done", "failed"}
  PROVE  AloneOK(k, own)
BY DEF AloneOK, Working, Active

LEMMA GotoIsAlone ==
  ASSUME Inv, AloneInv, NEW c \in Slots, Step(c), NEW stage \in {"done", "failed"}, Goto(c, stage)
  PROVE  AloneInv'
<1>1. call'[c].stage = stage
  BY DEF Goto, Inv, Calls
<1> QED BY <1>1, OverIsAlone, AloneMoves

LEMMA ReadAlone ==
  ASSUME Inv, AloneInv, NoneCut, NEW c \in Slots, Read(c)
  PROVE  AloneInv'
<1> DEFINE found == RecordsBelow(objects, Tenant(c), Dir(c))
           next == CASE Op(c) = "rename" -> IF found = <<>> THEN "answering" ELSE "lookup"
                     [] Op(c) = "delete" -> IF found = <<>> THEN "done" ELSE "deleting"
           k == call[c]
           h == call'[c]
           own == TenantsObjects(objects, Tenant(c))
<1>1. Step(c)
  BY DEF Step
<1>2. CASE MayFail(c)
  BY <1>1, <1>2, GotoIsAlone DEF MayFail
<1>3. CASE call' = [call EXCEPT ![c].records = found, ![c].stage = next] /\ UNCHANGED objects
  <2>1. /\ k \in Calls /\ CallOK(k, objects) /\ objects \in Holdings
        /\ Tenant(c) = TenantFor(k) /\ k.stage = "reading" /\ Working(k)
    BY CallKnown DEF Read, At, Working, Active, Stages
  <2>2. h.request = k.request /\ h.alone = k.alone /\ h.before = k.before
    BY <1>1, StepIsOfOne
  <2>3. h.records = found /\ h.stage = next
    BY <1>3, <2>1 DEF Inv, Calls
  <2>4. found \in Seq(Objects) /\ ToSet(found) = {o \in own : Answers(k, o.path)}
    BY <2>1, RecordsAtAll DEF RecordsBelow, Answers, Dir
  <2>5. k.request.op \in {"rename", "delete"}
    BY <2>1 DEF CallOK, StageFits
  <2> HIDE DEF found
  <2>6. /\ next \in {"lookup", "answering", "deleting", "done"}
        /\ next = "answering" => found = <<>>
        /\ next = "deleting" => k.request.op = "delete"
    BY <2>5 DEF Op
  <2> HIDE DEF next, h
  <2>7. OwnOf(h, objects') = own
    BY <1>3, <2>1, <2>2 DEF OwnOf, TenantFor
  <2>8. CASE k.alone
    <3>7. \A path : Answers(h, path) <=> Answers(k, path)
      BY <2>2 DEF Answers
    <3>1. /\ k.before \in Holdings /\ own = k.before
          /\ k.request.op = "rename" => StaysOut(k)
      BY <2>1, <2>8 DEF AloneInv, AloneOK, OwnOf
    <3>2. StaysOut(h) <=> StaysOut(k)
      BY <2>2, <3>7 DEF StaysOut
    <3>3. ASSUME next = "deleting", NEW o \in k.before, Answers(k, o.path)
          PROVE  o \in ToSet(h.records)
      BY <2>3, <2>4, <3>1, <3>3
    <3>4. next = "lookup" => ToSet(h.records) \subseteq k.before
      BY <2>3, <2>4, <3>1
    <3>5. next \in {"lookup", "answering"} => Progress(h, own)
      <4>1. ASSUME NEW o \in own, Below(k.request.dir, o.path)
            PROVE  Answers(k, o.path)
        <5>1. k.request \in Requests /\ k.request.op \in {"rename", "delete"}
          BY <2>1, <2>5 DEF CallOK, StageFits
        <5>2. k.request.dir \in Dirs
          BY <5>1 DEF Requests
        <5>3. o.path \in PathSet
          BY <2>1 DEF Holdings, Objects, TenantsObjects
        <5> QED BY <4>1, <5>2, <5>3, NamedMatches DEF Named, Answers
      <4>2. ASSUME next = "lookup", NEW o \in own, Below(k.request.dir, o.path)
            PROVE  Pending(h, o)
        BY <2>3, <2>4, <4>1, <4>2 DEF Pending
      <4>3. ASSUME next = "answering", NEW o \in own
            PROVE  ~Below(k.request.dir, o.path)
        <5>1. ToSet(found) = {}
          BY <2>6, <4>3 DEF ToSet
        <5> QED BY <2>4, <4>1, <4>3, <5>1
      <4> QED BY <2>2, <3>1, <4>2, <4>3 DEF Progress
    <3>6. AloneOK(h, own)
      BY <2>2, <2>3, <2>6, <3>1, <3>2, <3>3, <3>4, <3>5, <3>7 DEF AloneOK, Moving
    <3> QED BY <1>1, <2>7, <3>6, AloneMoves DEF h
  <2>9. CASE ~k.alone
    <3>1. AloneOK(h, own)
      BY <2>2, <2>9 DEF AloneOK
    <3> QED BY <1>1, <2>7, <3>1, AloneMoves DEF h
  <2> QED BY <2>8, <2>9
<1> QED BY <1>2, <1>3 DEF Read

LEMMA LookupAlone ==
  ASSUME Inv, AloneInv, NoneCut, NEW c \in Slots, Lookup(c)
  PROVE  AloneInv'
<1> DEFINE k == call[c]
           h == call'[c]
           rec == Head(k.records)
           found == RecordsAt(objects, Tenant(c), rec.path)
           ids == [i \in DOMAIN found |-> found[i].id]
           own == TenantsObjects(objects, Tenant(c))
<1>1. Step(c)
  BY DEF Step
<1>2. CASE MayFail(c)
  BY <1>1, <1>2, GotoIsAlone DEF MayFail
<1>3. CASE call' = [call EXCEPT ![c].ids = ids, ![c].stage = "moving"] /\ UNCHANGED objects
  <2>1. /\ k \in Calls /\ CallOK(k, objects) /\ objects \in Holdings
        /\ Tenant(c) = TenantFor(k) /\ k.stage = "lookup" /\ Working(k) /\ Moving(k)
        /\ k.records \in Seq(Objects)
    BY CallKnown DEF Lookup, At, Working, Active, Stages, Moving
  <2>2. h.request = k.request /\ h.alone = k.alone /\ h.before = k.before
    BY <1>1, StepIsOfOne
  <2>3. h.records = k.records /\ h.ids = ids /\ h.stage = "moving"
    BY <1>3, <2>1 DEF Inv, Calls
  <2>4. ToSet(found) = {o \in own : Matches(rec.path, o.path)}
    BY <2>1, RecordsAtAll
  <2>5. ToSet(ids) = {o.id : o \in ToSet(found)}
    BY DEF ToSet
  <2>6. k.records # <<>>
    BY <2>1 DEF CallOK, StageFits
  <2>7. ToSet(k.records) \subseteq {rec} \cup ToSet(Tail(k.records))
    <3>1. /\ Len(k.records) \in Nat /\ DOMAIN k.records = 1..Len(k.records)
          /\ Tail(k.records) \in Seq(Objects) /\ Len(Tail(k.records)) = Len(k.records) - 1
          /\ \A i \in 1..Len(Tail(k.records)) : Tail(k.records)[i] = k.records[i + 1]
          /\ rec = k.records[1]
      BY <2>1, <2>6, HeadTailProperties, TailKeeps
    <3>2. ASSUME NEW i \in DOMAIN k.records, i # 1
          PROVE  k.records[i] \in ToSet(Tail(k.records))
      <4>1. i - 1 \in 1..Len(Tail(k.records)) /\ i - 1 + 1 = i
        BY <3>1, <3>2
      <4>2. i - 1 \in DOMAIN Tail(k.records) /\ Tail(k.records)[i - 1] = k.records[i]
        BY <3>1, <4>1
      <4> QED BY <4>2 DEF ToSet
    <3> QED BY <3>1, <3>2 DEF ToSet
  <2> HIDE DEF found, ids, rec, h
  <2>8. OwnOf(h, objects') = own
    BY <1>3, <2>1, <2>2 DEF OwnOf, TenantFor
  <2>9. CASE k.alone
    <3>1. /\ k.before \in Holdings /\ (k.request.op = "rename" => StaysOut(k))
          /\ ToSet(k.records) \subseteq k.before /\ Progress(k, own)
      BY <2>1, <2>9 DEF AloneInv, AloneOK, OwnOf
    <3>2. /\ \A path : Answers(h, path) <=> Answers(k, path)
          /\ StaysOut(h) <=> StaysOut(k)
      BY <2>2 DEF StaysOut, Answers
    <3>3. ASSUME NEW o \in own, Pending(k, o)
          PROVE  Pending(h, o)
      <4>1. o \in ToSet(k.records)
        BY <2>1, <3>3 DEF Pending
      <4>2. CASE o = rec
        <5>1. Matches(rec.path, o.path)
          BY <4>2 DEF Matches
        <5>2. o.id \in ToSet(ids)
          BY <2>4, <2>5, <5>1
        <5> QED BY <2>3, <5>2 DEF Pending
      <4>3. CASE o \in ToSet(Tail(k.records))
        BY <2>3, <4>3 DEF Pending
      <4> QED BY <2>7, <4>1, <4>2, <4>3
    <3>4. Progress(h, own)
      <4>1. \A o \in own : Below(h.request.dir, o.path) => Pending(h, o)
        BY <2>2, <3>1, <3>3 DEF Progress
      <4>2. /\ {o.id : o \in own} = {o.id : o \in h.before}
            /\ \A b \in h.before : Answers(h, b.path) \/ b \in own
        BY <2>2, <3>1, <3>2 DEF Progress
      <4>3. \A o \in own \ h.before : \E b \in h.before :
              Answers(h, b.path) /\ o.path = Moved(b.path, h.request.dir, h.request.new) /\ o.text = b.text
        BY <2>2, <3>1, <3>2 DEF Progress
      <4> QED BY <4>1, <4>2, <4>3 DEF Progress
    <3>5. AloneOK(h, own)
      BY <2>2, <2>3, <3>1, <3>2, <3>4 DEF AloneOK
    <3> QED BY <1>1, <2>8, <3>5, AloneMoves DEF h
  <2>10. CASE ~k.alone
    <3>1. AloneOK(h, own)
      BY <2>2, <2>10 DEF AloneOK
    <3> QED BY <1>1, <2>8, <3>1, AloneMoves DEF h
  <2> QED BY <2>9, <2>10
<1> QED BY <1>2, <1>3 DEF Lookup

LEMMA NextRecordAlone ==
  ASSUME Inv, AloneInv, NEW c \in Slots, NextRecord(c)
  PROVE  AloneInv'
<1> DEFINE k == call[c]
           h == call'[c]
           next == IF LastRecord(c) THEN "answering" ELSE "lookup"
           own == TenantsObjects(objects, Tenant(c))
<1>1. Step(c)
  BY DEF Step
<1>2. /\ k \in Calls /\ CallOK(k, objects)
      /\ Tenant(c) = TenantFor(k) /\ k.stage = "moving" /\ Working(k) /\ Moving(k)
      /\ k.records \in Seq(Objects) /\ k.ids = <<>>
  BY CallKnown DEF NextRecord, At, Working, Active, Stages, Moving
<1>3. h.request = k.request /\ h.alone = k.alone /\ h.before = k.before
  BY <1>1, StepIsOfOne
<1>4. h.records = Tail(k.records) /\ h.stage = next
  BY <1>2 DEF NextRecord, Inv, Calls
<1>5. k.records # <<>>
  BY <1>2 DEF CallOK, StageFits
<1>6. /\ ToSet(Tail(k.records)) \subseteq ToSet(k.records)
      /\ Len(Tail(k.records)) = Len(k.records) - 1 /\ Tail(k.records) \in Seq(Objects)
  BY <1>2, <1>5, TailKeeps
<1>7. next \in {"answering", "lookup"} /\ (next = "answering" => ToSet(Tail(k.records)) = {})
  <2>1. next = "answering" => Len(Tail(k.records)) = 0
    BY <1>6 DEF LastRecord
  <2>2. DOMAIN Tail(k.records) = 1..Len(Tail(k.records))
    BY <1>6, LenProperties
  <2>3. next \in {"answering", "lookup"}
    OBVIOUS
  <2> DEFINE rest == Tail(k.records)
  <2> HIDE DEF next, rest
  <2>4. ASSUME Len(rest) = 0
        PROVE  ToSet(rest) = {}
    <3>1. DOMAIN rest = 1..0
      BY <2>2, <2>4 DEF rest
    <3>2. DOMAIN rest = {}
      BY <3>1
    <3> QED BY <3>2 DEF ToSet
  <2> QED BY <2>1, <2>3, <2>4 DEF rest
<1> HIDE DEF h, next
<1>8. OwnOf(h, objects') = own
  BY <1>2, <1>3 DEF OwnOf, TenantFor, NextRecord
<1>9. CASE k.alone
  <2>1. /\ k.before \in Holdings /\ (k.request.op = "rename" => StaysOut(k))
        /\ ToSet(k.records) \subseteq k.before /\ Progress(k, own)
    BY <1>2, <1>9 DEF AloneInv, AloneOK, OwnOf
  <2>2. /\ \A path : Answers(h, path) <=> Answers(k, path)
        /\ StaysOut(h) <=> StaysOut(k)
    BY <1>3 DEF StaysOut, Answers
  <2>3. ASSUME NEW o \in own, Pending(k, o)
        PROVE  Pending(h, o)
    <3>1. o.id \notin ToSet(k.ids)
      BY <1>2 DEF ToSet
    <3>2. o \in ToSet(Tail(k.records))
      BY <1>2, <2>3, <3>1 DEF Pending
    <3> QED BY <1>4, <1>7, <3>2 DEF Pending
  <2>4. Progress(h, own)
    <3>1. \A o \in own : Below(h.request.dir, o.path) => Pending(h, o)
      BY <1>3, <2>1, <2>3 DEF Progress
    <3>2. /\ {o.id : o \in own} = {o.id : o \in h.before}
          /\ \A b \in h.before : Answers(h, b.path) \/ b \in own
      BY <1>3, <2>1, <2>2 DEF Progress
    <3>3. \A o \in own \ h.before : \E b \in h.before :
            Answers(h, b.path) /\ o.path = Moved(b.path, h.request.dir, h.request.new) /\ o.text = b.text
      BY <1>3, <2>1, <2>2 DEF Progress
    <3> QED BY <3>1, <3>2, <3>3 DEF Progress
  <2>5. AloneOK(h, own)
    BY <1>3, <1>4, <1>6, <1>7, <2>1, <2>2, <2>4 DEF AloneOK
  <2> QED BY <1>1, <1>8, <2>5, AloneMoves DEF h
<1>10. CASE ~k.alone
  <2>1. AloneOK(h, own)
    BY <1>3, <1>10 DEF AloneOK
  <2> QED BY <1>1, <1>8, <2>1, AloneMoves DEF h
<1> QED BY <1>9, <1>10

LEMMA UpdateAlone ==
  ASSUME Inv, AloneInv, NEW c \in Slots, Update(c)
  PROVE  AloneInv'
<1> DEFINE k    == call[c]
           h    == call'[c]
           id   == Head(k.ids)
           rec  == Head(k.records)
           path == Moved(rec.path, Dir(c), New(c))
           own  == TenantsObjects(objects, TenantFor(k))
<1>1. Step(c) /\ At(c, "moving") /\ k.ids # <<>>
  BY DEF Step, Update
<1>2. /\ Renaming(k) /\ Moving(k) /\ k \in Calls /\ CallOK(k, objects) /\ k.stage = "moving" /\ Working(k)
      /\ rec \in ToSet(k.records) /\ rec \in Objects
      /\ Answers(k, rec.path)
      /\ k.ids \in Seq(Ids)
      /\ path \in PathSet /\ path = Moved(rec.path, k.request.dir, k.request.new)
      /\ \A o \in objects : o.id = id => o.tenant = TenantFor(k) /\ Answers(k, o.path)
  BY <1>1, UpdateKnown DEF At, Renaming
<1>3. CASE MayFail(c)
  BY <1>1, <1>3, GotoIsAlone DEF MayFail
<1>4. CASE Goto(c, "failed")
  BY <1>1, <1>4, GotoIsAlone
<1>5. ASSUME NEW o \in objects, o.id = id,
             objects' = (objects \ {o}) \cup {Rewritten(o, rec, path)},
             call' = [call EXCEPT ![c].ids = Tail(@)]
      PROVE  AloneInv'
  <2> DEFINE n == Rewritten(o, rec, path)
  <2>1. h.request = k.request /\ h.alone = k.alone /\ h.before = k.before
    BY <1>1, StepIsOfOne
  <2>2. h.records = k.records /\ h.stage = "moving" /\ h.ids = Tail(k.ids)
    BY <1>2, <1>5 DEF Inv, Calls
  <2>3. Answers(k, o.path) /\ o.tenant = TenantFor(k) /\ o \in Objects
    BY <1>2, <1>5 DEF Inv, StoreOK, Holdings
  <2>4. n.id = id /\ n.path = path /\ n.text = rec.text /\ n.tenant = TenantFor(k)
    BY <1>2, <1>5, <2>3, RewrittenForm
  <2>5. IsInjective(k.ids)
    BY <1>2 DEF CallOK, IdsOwn
  <2>6. /\ ToSet(Tail(k.ids)) \subseteq ToSet(k.ids)
        /\ \A i \in ToSet(k.ids) : i # id => i \in ToSet(Tail(k.ids))
    <3>1. /\ Len(k.ids) \in Nat /\ DOMAIN k.ids = 1..Len(k.ids)
          /\ Tail(k.ids) \in Seq(Ids) /\ Len(Tail(k.ids)) = Len(k.ids) - 1
          /\ \A i \in 1..Len(Tail(k.ids)) : Tail(k.ids)[i] = k.ids[i + 1]
          /\ id = k.ids[1] /\ DOMAIN Tail(k.ids) = 1..Len(Tail(k.ids))
      BY <1>1, <1>2, HeadTailProperties, TailKeeps, LenProperties
    <3>2. ASSUME NEW i \in DOMAIN k.ids, k.ids[i] # id
          PROVE  k.ids[i] \in ToSet(Tail(k.ids))
      <4> HIDE DEF id
      <4>1. i # 1
        BY <3>1, <3>2
      <4>2. i - 1 \in 1..Len(Tail(k.ids)) /\ i - 1 + 1 = i
        BY <3>1, <4>1
      <4>3. i - 1 \in DOMAIN Tail(k.ids) /\ Tail(k.ids)[i - 1] = k.ids[i]
        BY <3>1, <4>2
      <4> QED BY <4>3 DEF ToSet
    <3>3. ToSet(Tail(k.ids)) \subseteq ToSet(k.ids)
      BY <1>1, <1>2, TailKeeps
    <3> QED BY <3>2, <3>3 DEF ToSet
  <2> HIDE DEF n, path, rec, id, h
  <2> DEFINE left == (own \ {o}) \cup {n}
  <2>7. OwnOf(h, objects') = left
    <3>1. TenantsObjects(objects', TenantFor(k)) = left
      BY <1>5, <2>3, <2>4 DEF TenantsObjects, n, path, rec
    <3> QED BY <2>1, <3>1 DEF OwnOf, TenantFor
  <2>8. o \in own /\ \A p \in own : p.id = o.id => p = o
    BY <2>3 DEF TenantsObjects, Inv, StoreOK, Holdings
  <2>9. CASE k.alone
    <3>1. /\ k.before \in Holdings /\ StaysOut(k)
          /\ ToSet(k.records) \subseteq k.before /\ Progress(k, own)
      BY <1>2, <2>9 DEF AloneInv, AloneOK, OwnOf, Renaming
    <3>2. /\ \A p : Answers(h, p) <=> Answers(k, p)
          /\ StaysOut(h) <=> StaysOut(k)
      BY <2>1 DEF StaysOut, Answers
    <3>3. {p.id : p \in left} = {p.id : p \in own}
      BY <1>5, <2>4, <2>8
    <3>4. rec \in k.before /\ ~Below(k.request.dir, n.path)
      BY <1>2, <2>4, <3>1 DEF StaysOut
    <3>5. ASSUME NEW p \in left, Below(k.request.dir, p.path)
          PROVE  Pending(h, p)
      <4>1. p \in own /\ p.id # id
        BY <1>5, <2>8, <3>4, <3>5
      <4>2. Pending(k, p)
        BY <3>1, <3>5, <4>1 DEF Progress
      <4>3. p.id \in ToSet(k.ids) \/ p \in ToSet(Tail(k.records))
        BY <1>2, <4>2 DEF Pending
      <4>4. p.id \in ToSet(k.ids) => p.id \in ToSet(Tail(k.ids))
        BY <2>6, <4>1
      <4> QED BY <2>2, <4>3, <4>4 DEF Pending
    <3>6. \A b \in k.before : Answers(k, b.path) \/ b \in left
      BY <2>3, <3>1 DEF Progress
    <3>7. ASSUME NEW p \in left \ k.before
          PROVE  \E b \in k.before : /\ Answers(k, b.path) /\ p.text = b.text
                                     /\ p.path = Moved(b.path, k.request.dir, k.request.new)
      <4>1. CASE p = n
        BY <1>2, <2>4, <3>4, <4>1
      <4>2. CASE p # n
        BY <3>1, <3>7, <4>2 DEF Progress
      <4> QED BY <4>1, <4>2
    <3> HIDE DEF left, own
    <3>9. Progress(h, left)
      <4>1. {p.id : p \in left} = {b.id : b \in k.before}
        BY <3>1, <3>3 DEF Progress
      <4> QED BY <2>1, <3>2, <3>5, <3>6, <3>7, <4>1 DEF Progress
    <3>10. AloneOK(h, left)
      BY <2>1, <2>2, <3>1, <3>2, <3>9 DEF AloneOK
    <3> QED BY <1>1, <2>7, <3>10, AloneMoves DEF h
  <2>10. CASE ~k.alone
    <3>1. AloneOK(h, left)
      BY <2>1, <2>10 DEF AloneOK
    <3> QED BY <1>1, <2>7, <3>1, AloneMoves DEF h
  <2> QED BY <2>9, <2>10
<1> QED BY <1>3, <1>4, <1>5 DEF Update

LEMMA AnswerAlone ==
  ASSUME Inv, AloneInv, NEW c \in Slots, Answer(c)
  PROVE  AloneInv'
<1>1. Step(c)
  BY DEF Step
<1>2. call'[c].stage \in {"done", "failed"}
  BY DEF Answer, MayFail, Goto, Inv, Calls
<1> QED BY <1>1, <1>2, OverIsAlone, AloneMoves

LEMMA DeleteAlone ==
  ASSUME Inv, AloneInv, NEW c \in Slots, Delete(c)
  PROVE  AloneInv'
<1>1. Step(c)
  BY DEF Step
<1>2. Goto(c, "done") \/ Goto(c, "failed")
  BY DEF Delete, DeletePart
<1> QED BY <1>1, <1>2, GotoIsAlone

\* The pages of a listing so far, and the next.
LEMMA ListedSoFar ==
  ASSUME Inv, NEW c \in Slots, At(c, "listing"), NEW S \in Holdings,
         TenantsObjects(objects, Tenant(c)) = S,
         Len(call[c].records) <= Len(InOrder(S)),
         \A i \in 1..Len(call[c].records) : call[c].records[i] = InOrder(S)[i]
  PROVE  LET page == Page(objects, Tenant(c), Len(call[c].records))
             list == call[c].records \o page
             all  == InOrder(S)
         IN  /\ list \in Seq(Objects) /\ Len(list) <= Len(all)
             /\ \A i \in 1..Len(list) : list[i] = all[i]
             /\ Len(page) < PageSize => Len(list) = Len(all)
<1> DEFINE old  == call[c].records
           page == Page(objects, Tenant(c), Len(old))
           list == old \o page
           all  == InOrder(S)
<1>1. old \in Seq(Objects) /\ Len(old) \in Nat /\ objects \in Holdings
  BY CallKnown, LenProperties
<1>2. /\ page \in Seq(Objects)
      /\ Len(old) + Len(page) <= Len(all)
      /\ \A i \in 1..Len(page) : page[i] = all[Len(old) + i]
      /\ Len(page) < PageSize => Len(old) + Len(page) = Len(all)
  <2> DEFINE own == InOrder(TenantsObjects(objects, Tenant(c)))
  <2>1. /\ page \in Seq(Objects)
        /\ Len(old) <= Len(own) =>
             /\ Len(old) + Len(page) <= Len(own)
             /\ \A i \in 1..Len(page) : page[i] = own[Len(old) + i]
             /\ Len(page) < PageSize => Len(old) + Len(page) = Len(own)
    BY <1>1, PageKnown
  <2>2. own = all /\ Len(old) <= Len(all)
    OBVIOUS
  <2> HIDE DEF page, own, all, old
  <2> QED BY <2>1, <2>2
<1> HIDE DEF page, all
<1>3. Len(page) \in Nat
  BY <1>2, LenProperties
<1>4. /\ list \in Seq(Objects) /\ Len(list) = Len(old) + Len(page)
      /\ \A i \in 1..(Len(old) + Len(page)) : list[i] = IF i <= Len(old) THEN old[i] ELSE page[i - Len(old)]
  BY <1>1, <1>2, ConcatProperties
<1> HIDE DEF list
<1>5. ASSUME NEW i \in 1..Len(list)
      PROVE  list[i] = all[i]
  <2>1. CASE i <= Len(old)
    <3>1. i \in 1..Len(old) /\ i \in 1..(Len(old) + Len(page))
      BY <1>1, <1>3, <1>4, <2>1
    <3> QED BY <1>4, <2>1, <3>1 DEF all
  <2>2. CASE i > Len(old)
    <3>1. /\ i \in 1..(Len(old) + Len(page)) /\ ~(i <= Len(old))
          /\ i - Len(old) \in 1..Len(page) /\ Len(old) + (i - Len(old)) = i
      BY <1>1, <1>3, <1>4, <2>2
    <3> QED BY <1>2, <1>4, <3>1
  <2> QED BY <1>1, <1>3, <1>4, <2>1, <2>2
<1> QED BY <1>2, <1>4, <1>5 DEF list, page, all

LEMMA ListAlone ==
  ASSUME Inv, AloneInv, NEW c \in Slots, List(c)
  PROVE  AloneInv'
<1> DEFINE k == call[c]
           h == call'[c]
           page == Page(objects, Tenant(c), Len(k.records))
           next == IF Len(page) < PageSize THEN "done" ELSE "listing"
           own == TenantsObjects(objects, Tenant(c))
<1>1. Step(c) /\ At(c, "listing")
  BY DEF Step, List
<1>2. CASE MayFail(c)
  BY <1>1, <1>2, GotoIsAlone DEF MayFail
<1>3. CASE call' = [call EXCEPT ![c].records = @ \o page, ![c].stage = next] /\ UNCHANGED objects
  <2>1. /\ k \in Calls /\ CallOK(k, objects) /\ Tenant(c) = TenantFor(k) /\ k.stage = "listing" /\ Working(k)
    BY <1>1, CallKnown DEF At, Working, Active, Stages
  <2>2. h.request = k.request /\ h.alone = k.alone /\ h.before = k.before
    BY <1>1, StepIsOfOne
  <2>3. h.records = k.records \o page /\ h.stage = next /\ next \in {"done", "listing"}
    BY <1>3, <2>1 DEF Inv, Calls
  <2>4. k.request.op = "list"
    BY <2>1 DEF CallOK, StageFits
  <2> HIDE DEF next, h
  <2>5. OwnOf(h, objects') = own
    BY <1>3, <2>1, <2>2 DEF OwnOf, TenantFor
  <2>6. CASE k.alone
    <3>1. /\ k.before \in Holdings /\ own = k.before
          /\ Len(k.records) <= Len(InOrder(k.before))
          /\ \A i \in 1..Len(k.records) : k.records[i] = InOrder(k.before)[i]
      BY <2>1, <2>6 DEF AloneInv, AloneOK, OwnOf
    <3>2. /\ Len(k.records \o page) <= Len(InOrder(k.before))
          /\ \A i \in 1..Len(k.records \o page) : (k.records \o page)[i] = InOrder(k.before)[i]
      BY <1>1, <3>1, ListedSoFar
    <3> HIDE DEF own, k
    <3>3. AloneOK(h, own)
      BY <2>2, <2>3, <2>4, <3>1, <3>2 DEF AloneOK, Moving
    <3> QED BY <1>1, <2>5, <3>3, AloneMoves DEF h
  <2>7. CASE ~k.alone
    <3>1. AloneOK(h, own)
      BY <2>2, <2>7 DEF AloneOK
    <3> QED BY <1>1, <2>5, <3>1, AloneMoves DEF h
  <2> QED BY <2>6, <2>7
<1> QED BY <1>2, <1>3 DEF List

LEMMA StartAlone ==
  ASSUME Inv, AloneInv, NEW c \in Slots, NEW request \in Requests, Start(c, request)
  PROVE  AloneInv'
<1> DEFINE tenant == TenantOf(request.codebase)
           before == TenantsObjects(objects, tenant)
           rivals == Rivals(c, tenant)
           stage  == FirstStage(request)
           begun  == CallOf(request, stage, before, rivals = {})
<1>1. /\ objects \in Holdings /\ call \in [Slots -> Calls] /\ objects' = objects
      /\ ~Runs(c) /\ (request.op = "rename" => CanRename(c, request))
      /\ call' = [d \in Slots |-> IF d = c THEN begun
                                  ELSE IF d \in rivals THEN [call[d] EXCEPT !.alone = FALSE]
                                  ELSE call[d]]
  BY DEF Inv, StoreOK, Start
<1>2. before \in Holdings
  <2>1. before \in SUBSET objects
    BY DEF TenantsObjects
  <2>2. IsFiniteSet(before)
    BY <1>1, <2>1, FS_Subset DEF Holdings
  <2> QED BY <1>1, <2>1, <2>2 DEF Holdings
<1>3. /\ stage \in {"refused", "reading", "deleting", "listing"}
      /\ stage = "deleting" => request.op = "wipe"
  BY DEF FirstStage, Requests
<1>4. /\ begun.request = request /\ begun.stage = stage /\ begun.before = before
      /\ begun.records = <<>> /\ begun.alone = (rivals = {})
  BY DEF CallOf
<1> HIDE DEF stage, begun
<1>5. OwnOf(begun, objects) = before /\ TenantFor(begun) = tenant
  BY <1>4 DEF OwnOf, TenantFor
<1>6. request.op = "rename" => StaysOut(begun)
  BY <1>1, <1>4 DEF StaysOut, CanRename, Answers
<1> HIDE DEF before
<1>7. AloneOK(begun, before)
  <2>1. Len(begun.records) = 0
    BY <1>4
  <2>2. Len(InOrder(before)) \in Nat
    BY <1>2, PartInOrder, LenProperties
  <2>3. Len(begun.records) <= Len(InOrder(before))
    BY <2>1, <2>2
  <2>4. \A i \in 1..Len(begun.records) : begun.records[i] = InOrder(before)[i]
    BY <2>1
  <2> QED BY <1>2, <1>3, <1>4, <1>6, <2>3, <2>4 DEF AloneOK, Moving
<1>8. ASSUME NEW d \in Slots, d # c
      PROVE  /\ call'[d].request = call[d].request /\ call'[d].stage = call[d].stage
             /\ AloneOK(call'[d], OwnOf(call'[d], objects))
             /\ call'[d].alone => call[d].alone /\ d \notin rivals
  <2>1. call[d] \in Calls /\ AloneOK(call[d], OwnOf(call[d], objects))
    BY <1>1 DEF AloneInv
  <2>2. CASE d \notin rivals
    BY <1>1, <1>8, <2>1, <2>2
  <2>3. CASE d \in rivals
    <3>1. call'[d] = [call[d] EXCEPT !.alone = FALSE]
      BY <1>1, <1>8, <2>3
    <3>2. call'[d].request = call[d].request /\ call'[d].stage = call[d].stage /\ ~call'[d].alone
      BY <2>1, <3>1 DEF Calls
    <3> QED BY <3>2 DEF AloneOK
  <2> QED BY <2>2, <2>3
<1>9. call'[c] = begun
  BY <1>1
<1>10. \A d \in Slots : AloneOK(call'[d], OwnOf(call'[d], objects'))
  BY <1>1, <1>5, <1>7, <1>8, <1>9
<1>11. ASSUME NEW a \in Slots, NEW b \in Slots, Runs(a)', call'[a].alone, Runs(b)', Tenant(a)' = Tenant(b)'
       PROVE  a = b
  <2>1. CASE a # c /\ b # c
    <3>1. Runs(a) /\ Runs(b) /\ Tenant(a) = Tenant(b)
      BY <1>8, <1>11, <2>1 DEF Runs, Tenant
    <3>2. call[a].alone
      BY <1>8, <1>11, <2>1
    <3> QED BY <3>1, <3>2 DEF AloneInv
  <2>2. CASE a = c /\ b # c
    <3>1. rivals = {}
      BY <1>4, <1>9, <1>11, <2>2
    <3>2. Runs(b) /\ Tenant(b) = tenant
      BY <1>4, <1>8, <1>9, <1>11, <2>2 DEF Runs, Tenant
    <3> QED BY <2>2, <3>1, <3>2 DEF Rivals
  <2>3. CASE a # c /\ b = c
    <3>1. a \notin rivals
      BY <1>8, <1>11, <2>3
    <3>2. Runs(a) /\ Tenant(a) = tenant
      BY <1>4, <1>8, <1>9, <1>11, <2>3 DEF Runs, Tenant
    <3> QED BY <2>3, <3>1, <3>2 DEF Rivals
  <2> QED BY <2>1, <2>2, <2>3
<1> QED BY <1>10, <1>11 DEF AloneInv

LEMMA AloneStep == NoneCut /\ Inv /\ AloneInv /\ [Next]_vars => AloneInv'
<1> SUFFICES ASSUME NoneCut, Inv, AloneInv, [Next]_vars PROVE AloneInv'
  OBVIOUS
<1>1. ASSUME NEW c \in Slots, NEW request \in Requests, Start(c, request)
      PROVE  AloneInv'
  BY <1>1, StartAlone
<1>2. ASSUME NEW c \in Slots, Step(c)
      PROVE  AloneInv'
  BY <1>2, ReadAlone, LookupAlone, NextRecordAlone, UpdateAlone, AnswerAlone, DeleteAlone, ListAlone DEF Step
<1>3. CASE UNCHANGED vars
  BY <1>3 DEF vars, AloneInv, OwnOf, Runs, Tenant
<1> QED BY <1>1, <1>2, <1>3 DEF Next

LEMMA AloneInit == Init => AloneInv
<1> SUFFICES ASSUME Init PROVE AloneInv
  OBVIOUS
<1>1. \A c \in Slots : call[c].stage = "idle"
  BY DEF Init, CallOf
<1>2. \A c \in Slots : ~Runs(c) /\ ~Working(call[c])
  BY <1>1 DEF Runs, Working, Active
<1> QED BY <1>2 DEF AloneInv, AloneOK

LEMMA AloneInvariance ==
  ASSUME NoneCut
  PROVE  Spec => [](Inv /\ AloneInv)
<1>1. Init => Inv /\ AloneInv
  BY InitInv, AloneInit
<1>2. (Inv /\ AloneInv) /\ [Next]_vars => (Inv /\ AloneInv)'
  BY StepInv, AloneStep
<1> QED BY <1>1, <1>2, PTL DEF Spec

\* The step in which a call returns is one of its own.
LEMMA ReturnIsOwn ==
  ASSUME Inv, [Next]_vars, NEW c \in Slots, NEW op, Returns(c, op)
  PROVE  Step(c)
<1>1. Runs(c) /\ call'[c].stage = "done" /\ call[c].stage # "done"
  BY DEF Returns, Runs, Active
<1>2. ASSUME NEW d \in Slots, NEW request \in Requests, Start(d, request)
      PROVE  FALSE
  <2>1. d # c
    BY <1>1, <1>2 DEF Start
  <2>2. call'[c] = call[c] \/ call'[c] = [call[c] EXCEPT !.alone = FALSE]
    BY <1>2, <2>1 DEF Start, Inv
  <2>3. call'[c].stage = call[c].stage
    BY <2>2 DEF Inv, Calls
  <2> QED BY <1>1, <2>3
<1>3. ASSUME NEW d \in Slots, Step(d), d # c
      PROVE  FALSE
  BY <1>1, <1>3, StepIsOfOne
<1>4. CASE UNCHANGED vars
  BY <1>1, <1>4 DEF vars
<1> QED BY <1>2, <1>3, <1>4 DEF Next
(***************************************************************************)
(* A delete that had the codebase to itself and returns without an error   *)
(* leaves nothing of what was named, and exactly the objects that do not   *)
(* have all of its words (DeleteDictionary).  Hypothesis: Weaviate's own   *)
(* limit of a query, which getRecordsByPathPrefix leaves in force, cuts    *)
(* nothing off.                                                            *)
(***************************************************************************)
THEOREM DeleteIsCompleteHolds ==
  ASSUME NoneCut
  PROVE  Spec => DeleteIsComplete
<1> DEFINE Complete ==
      \A c \in Slots : Returns(c, "delete") /\ call[c].alone =>
        /\ \A o \in Left(c) : ~Named(Dir(c), o.path)
        /\ Left(c) = {o \in call[c].before : ~MatchedBy(c, o)}
<1>1. (Inv /\ AloneInv) /\ [Next]_vars => [Complete]_vars
  <2> SUFFICES ASSUME Inv, AloneInv, [Next]_vars, NEW c \in Slots, Returns(c, "delete"), call[c].alone
               PROVE  /\ \A o \in Left(c) : ~Named(Dir(c), o.path)
                      /\ Left(c) = {o \in call[c].before : ~MatchedBy(c, o)}
    OBVIOUS
  <2> DEFINE k == call[c]
             own == TenantsObjects(objects, Tenant(c))
  <2>1. Step(c)
    BY ReturnIsOwn
  <2>2. /\ Working(k) /\ k.alone /\ k.request.op = "delete" /\ call'[c].stage = "done"
        /\ k \in Calls /\ CallOK(k, objects) /\ objects \in Holdings /\ Tenant(c) = TenantFor(k)
    BY CallKnown DEF Returns, Op
  <2>3. k.stage \in {"reading", "deleting"}
    BY <2>2 DEF CallOK, StageFits, Working, Active, Stages, Moving
  <2>4. own = k.before
    BY <2>2, <2>3 DEF AloneInv, AloneOK, OwnOf
  <2>5. Read(c) \/ Delete(c)
    BY <2>1, <2>3 DEF Step, Lookup, NextRecord, Update, Answer, List, At
  <2>6. ASSUME Read(c)
        PROVE  Left(c) = {o \in call[c].before : ~MatchedBy(c, o)}
    <3> DEFINE found == RecordsBelow(objects, Tenant(c), Dir(c))
    <3>1. objects' = objects
      BY <2>6 DEF Read, MayFail
    <3>2. found = <<>>
      BY <2>2, <2>6 DEF Read, MayFail, Goto, Op, Inv, Calls
    <3>3. ToSet(found) = {o \in own : MatchedBy(c, o)}
      BY <2>2, RecordsAtAll DEF RecordsBelow, MatchedBy
    <3>4. ToSet(found) = {}
      BY <3>2 DEF ToSet
    <3> QED BY <2>4, <3>1, <3>3, <3>4 DEF Left, MatchedBy
  <2>7. ASSUME Delete(c)
        PROVE  Left(c) = {o \in call[c].before : ~MatchedBy(c, o)}
    <3>1. k.stage = "deleting"
      BY <2>7 DEF Delete, At
    <3>2. objects' = objects \ Matched(c)
      BY <2>2, <2>7 DEF Delete, DeletePart, Goto, Inv, Calls
    <3>3. Matched(c) = {o \in own : \E r \in ToSet(k.records) : Matches(r.path, o.path)}
      BY <2>2 DEF Matched, MatchedByPaths, Op, ToSet
    <3>4. \A o \in own : MatchedBy(c, o) => o \in ToSet(k.records)
      BY <2>2, <2>4, <3>1 DEF AloneInv, AloneOK, MatchedBy, Answers, Dir
    <3>5. \A r \in ToSet(k.records) : Matches(AsDirectory(Dir(c)), r.path)
      BY <2>2, <3>1 DEF CallOK, RecordsOwn, Answers, Dir
    <3>6. Matched(c) = {o \in own : MatchedBy(c, o)}
      BY <3>3, <3>4, <3>5 DEF Matches, MatchedBy
    <3>7. Left(c) = own \ Matched(c)
      BY <3>2 DEF Left, TenantsObjects
    <3> QED BY <2>4, <3>6, <3>7 DEF MatchedBy
  <2>8. Left(c) = {o \in call[c].before : ~MatchedBy(c, o)}
    BY <2>5, <2>6, <2>7
  <2>9. ASSUME NEW o \in Left(c), Named(Dir(c), o.path)
        PROVE  FALSE
    <3>1. k.request \in Requests /\ Dir(c) \in Dirs
      <4>1. k.request \in Requests
        BY <2>2 DEF CallOK, StageFits
      <4> QED BY <2>2, <4>1 DEF Requests, Dir
    <3>2. o \in own
      BY <2>4, <2>8, <2>9
    <3>3. o.path \in PathSet
      BY <2>2, <3>2 DEF Holdings, Objects, TenantsObjects
    <3>4. MatchedBy(c, o)
      BY <2>9, <3>1, <3>3, NamedMatches DEF MatchedBy
    <3> QED BY <2>8, <2>9, <3>4
  <2> QED BY <2>8, <2>9
<1> QED BY <1>1, AloneInvariance, PTL DEF DeleteIsComplete, Spec

(***************************************************************************)
(* A listing that had the codebase to itself returns every record once,    *)
(* wherever the pages end: whatever the page size (GetCodebaseRecords).    *)
(***************************************************************************)
THEOREM ListingIsCompleteHolds ==
  ASSUME NoneCut
  PROVE  Spec => ListingIsComplete
<1> DEFINE Complete ==
      \A c \in Slots : Returns(c, "list") /\ call[c].alone =>
        /\ ToSet(call'[c].records) = call[c].before
        /\ Len(call'[c].records) = Cardinality(call[c].before)
<1>1. (Inv /\ AloneInv) /\ [Next]_vars => [Complete]_vars
  <2> SUFFICES ASSUME Inv, AloneInv, [Next]_vars, NEW c \in Slots, Returns(c, "list"), call[c].alone
               PROVE  /\ ToSet(call'[c].records) = call[c].before
                      /\ Len(call'[c].records) = Cardinality(call[c].before)
    OBVIOUS
  <2> DEFINE k == call[c]
             page == Page(objects, Tenant(c), Len(k.records))
             list == k.records \o page
             all  == InOrder(k.before)
  <2>1. Step(c)
    BY ReturnIsOwn
  <2>2. /\ Working(k) /\ k.alone /\ k.request.op = "list" /\ call'[c].stage = "done"
        /\ k \in Calls /\ CallOK(k, objects) /\ objects \in Holdings /\ Tenant(c) = TenantFor(k)
    BY CallKnown DEF Returns, Op
  <2>3. k.stage = "listing"
    BY <2>2 DEF CallOK, StageFits, Working, Active, Stages, Moving
  <2>4. /\ k.before \in Holdings /\ TenantsObjects(objects, Tenant(c)) = k.before
        /\ Len(k.records) <= Len(all) /\ \A i \in 1..Len(k.records) : k.records[i] = all[i]
    BY <2>2, <2>3 DEF AloneInv, AloneOK, OwnOf
  <2>5. List(c)
    BY <2>1, <2>3 DEF Step, Read, Lookup, NextRecord, Update, Answer, Delete, At
  <2>6. Len(page) < PageSize /\ call'[c].records = list
    BY <2>2, <2>3, <2>5 DEF List, MayFail, Goto, Inv, Calls
  <2>7. /\ list \in Seq(Objects) /\ \A i \in 1..Len(list) : list[i] = all[i]
        /\ Len(page) < PageSize => Len(list) = Len(all)
    BY <2>3, <2>4, ListedSoFar DEF At
  <2>8. /\ all \in Seq(Objects) /\ Len(all) = Cardinality(k.before) /\ ToSet(all) = k.before
    BY <2>4, PartInOrder
  <2> HIDE DEF page, list, all
  <2>9. list = all
    BY <2>6, <2>7, <2>8, SeqEqual
  <2> QED BY <2>6, <2>8, <2>9
<1> QED BY <1>1, AloneInvariance, PTL DEF ListingIsComplete, Spec
(***************************************************************************)
(* A rename that had the codebase to itself and returns without an error   *)
(* leaves nothing in the directory, what a failed attempt had left behind  *)
(* included; no object is lost, none is changed that has not the words of  *)
(* the directory, and the others are as they were or moved copies of such  *)
(* as have them; its answer lists all that is in the new directory         *)
(* (UpdateEmbeddingPath).  Hypothesis: as for a delete.                    *)
(***************************************************************************)
THEOREM RenameIsCompleteHolds ==
  ASSUME NoneCut
  PROVE  Spec => RenameIsComplete
<1> DEFINE Complete ==
      \A c \in Slots : Returns(c, "rename") /\ call[c].alone =>
        /\ \A o \in Left(c) : ~Below(Dir(c), o.path)
        /\ {o.id : o \in Left(c)} = {o.id : o \in call[c].before}
        /\ \A o \in call[c].before : MatchedBy(c, o) \/ o \in Left(c)
        /\ \A o \in Left(c) \ call[c].before : \E b \in call[c].before :
             MatchedBy(c, b) /\ o.path = Moved(b.path, Dir(c), New(c)) /\ o.text = b.text
        /\ {o \in Left(c) : Below(New(c), o.path)} \subseteq ToSet(call'[c].records)
<1>1. (Inv /\ AloneInv) /\ [Next]_vars => [Complete]_vars
  <2> SUFFICES ASSUME Inv, AloneInv, [Next]_vars, NEW c \in Slots, Returns(c, "rename"), call[c].alone
               PROVE  /\ \A o \in Left(c) : ~Below(Dir(c), o.path)
                      /\ {o.id : o \in Left(c)} = {o.id : o \in call[c].before}
                      /\ \A o \in call[c].before : MatchedBy(c, o) \/ o \in Left(c)
                      /\ \A o \in Left(c) \ call[c].before : \E b \in call[c].before :
                           MatchedBy(c, b) /\ o.path = Moved(b.path, Dir(c), New(c)) /\ o.text = b.text
                      /\ {o \in Left(c) : Below(New(c), o.path)} \subseteq ToSet(call'[c].records)
    OBVIOUS
  <2> DEFINE k == call[c]
             own == TenantsObjects(objects, Tenant(c))
             found == RecordsBelow(objects, Tenant(c), New(c))
  <2>1. Step(c)
    BY ReturnIsOwn
  <2>2. /\ Working(k) /\ k.alone /\ k.request.op = "rename" /\ call'[c].stage = "done"
        /\ k \in Calls /\ CallOK(k, objects) /\ objects \in Holdings /\ Tenant(c) = TenantFor(k)
    BY CallKnown DEF Returns, Op
  <2>3. Answer(c)
    <3>1. k.stage \in {"reading", "lookup", "moving", "answering"}
      BY <2>2 DEF CallOK, StageFits, Working, Active, Stages
    <3>2. ~Read(c)
      BY <2>2 DEF Read, MayFail, Goto, Op, Inv, Calls
    <3>3. ~Lookup(c)
      BY <2>2 DEF Lookup, MayFail, Goto, Inv, Calls
    <3>4. ~NextRecord(c)
      BY <2>2 DEF NextRecord, Inv, Calls
    <3>5. ~Update(c)
      BY <2>2 DEF Update, MayFail, Goto, At, Inv, Calls
    <3> QED BY <2>1, <3>1, <3>2, <3>3, <3>4, <3>5 DEF Step, Delete, List, At
  <2>4. k.stage = "answering" /\ objects' = objects /\ call'[c].records = found
    BY <2>2, <2>3 DEF Answer, MayFail, Goto, At, Inv, Calls
  <2>5. ToSet(found) = {o \in own : Matches(AsDirectory(New(c)), o.path)}
    BY <2>2, RecordsAtAll DEF RecordsBelow
  <2>6. Left(c) = own
    BY <2>4 DEF Left
  <2>7. Progress(k, own)
    BY <2>2, <2>4 DEF AloneInv, AloneOK, OwnOf
  <2>8. \A o \in own : ~Below(Dir(c), o.path)
    BY <2>4, <2>7 DEF Progress, Pending, Dir
  <2>9. ASSUME NEW o \in own, Below(New(c), o.path)
        PROVE  o \in ToSet(found)
    <3>1. New(c) \in Dirs
      <4>1. k.request \in Requests
        BY <2>2 DEF CallOK, StageFits
      <4> QED BY <2>2, <4>1 DEF Requests, New
    <3>2. o.path \in PathSet
      BY <2>2 DEF Holdings, Objects, TenantsObjects
    <3> QED BY <2>5, <2>9, <3>1, <3>2, NamedMatches DEF Named
  <2> HIDE DEF own, found
  <2>10. \A b : MatchedBy(c, b) <=> Answers(k, b.path)
    BY DEF MatchedBy, Answers, Dir
  <2>11. \A b : Moved(b.path, Dir(c), New(c)) = Moved(b.path, k.request.dir, k.request.new)
    BY DEF Dir, New
  <2> QED BY <2>4, <2>6, <2>7, <2>8, <2>9, <2>10, <2>11 DEF Progress
<1> QED BY <1>1, AloneInvariance, PTL DEF RenameIsComplete, Spec
==============================================================================
