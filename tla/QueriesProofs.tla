---------------------------- MODULE QueriesProofs ----------------------------
(***************************************************************************)
(* Theorems about Queries: the tree of any codebase, the search among any  *)
(* number of documents whatever the ranking service answers, and the       *)
(* counts of any table and any store.                                      *)
(***************************************************************************)
EXTENDS Queries, FiniteSetTheorems, WellFoundedInduction, SequenceTheorems, TLAPS

-----------------------------------------------------------------------------
(* Numbers and prefixes.                                                   *)

Less == {pair \in Nat \X Nat : pair[1] < pair[2]}

LEMMA LeastNat ==
  ASSUME NEW S \in SUBSET Nat, S # {}
  PROVE  \E n \in S : \A m \in S : n <= m
<1>1. IsWellFoundedOn(Less, Nat)
  BY NatLessThanWellFounded DEF OpToRel, Less
<1>2. PICK n \in S : \A m \in S : ~ (<<m, n>> \in Less)
  BY <1>1, WFMin
<1>3. \A m \in S : ~ (m < n)
  BY <1>2 DEF Less
<1> QED BY <1>3

LEMMA GreatestBelow ==
  ASSUME NEW n \in Nat, NEW S \in SUBSET (0..n), S # {}
  PROVE  \E k \in S : \A m \in S : m <= k
<1> DEFINE T == {m \in 0..n : n - m \in S}
<1>1. T \in SUBSET Nat /\ T # {}
  <2>1. PICK k \in S : TRUE
    OBVIOUS
  <2>2. n - k \in 0..n /\ n - (n - k) \in S
    BY <2>1
  <2>3. n - k \in T
    BY <2>2
  <2>4. T \subseteq Nat
    OBVIOUS
  <2> HIDE DEF T
  <2> QED BY <2>3, <2>4
<1> HIDE DEF T
<1>2. PICK t \in T : \A u \in T : t <= u
  BY <1>1, LeastNat
<1>3. t \in 0..n /\ n - t \in S
  BY <1>2 DEF T
<1>4. ASSUME NEW m \in S PROVE m <= n - t
  <2>1. n - m \in 0..n /\ n - (n - m) \in S
    OBVIOUS
  <2>2. t <= n - m
    BY <1>2, <2>1 DEF T
  <2> QED BY <1>3, <2>2
<1> QED BY <1>3, <1>4

\* A prefix is the same up to its end.
LEMMA PrefixByElement ==
  ASSUME NEW s \in Seq(STRING), NEW t \in Seq(STRING)
  PROVE  IsPrefix(s, t) <=> Len(s) <= Len(t) /\ \A i \in 1..Len(s) : s[i] = t[i]
<1>1. CASE Len(s) <= Len(t)
  <2>1. SubSeq(s, 1, Len(s)) = s
    BY SubSeqFull
  <2>2. SubSeq(t, 1, Len(s)) = [i \in 1..Len(s) |-> t[i]]
    BY <1>1, SubSeqProperties
  <2> QED BY <1>1, <2>1, <2>2 DEF IsPrefix
<1>2. CASE ~ (Len(s) <= Len(t))
  BY <1>2 DEF IsPrefix
<1> QED BY <1>1, <1>2

LEMMA Beginning ==
  ASSUME NEW s \in Seq(STRING), NEW n \in 0..Len(s)
  PROVE  /\ SubSeq(s, 1, n) \in Seq(STRING)
         /\ Len(SubSeq(s, 1, n)) = n
         /\ \A i \in 1..n : SubSeq(s, 1, n)[i] = s[i]
         /\ IsPrefix(SubSeq(s, 1, n), s)
<1> DEFINE b == SubSeq(s, 1, n)
<1>1. b \in Seq(STRING) /\ Len(b) = n /\ \A i \in 1..n : b[i] = s[i]
  BY SubSeqProperties
<1> HIDE DEF b
<1>2. IsPrefix(b, s)
  BY <1>1, PrefixByElement
<1> QED BY <1>1, <1>2 DEF b

-----------------------------------------------------------------------------
(* The tree.                                                               *)

\* What a request may be about.
LEMMA AskedPaths ==
  ASSUME asked \in TreeRequests
  PROVE  /\ asked.depth \in Nat
         /\ \A p \in Paths : p \in Seq(STRING) /\ p # <<>>
         /\ \A p, q \in Paths : IsPrefix(p, q) => p = q
<1> QED BY TreeAssumption DEF Paths

LEMMA CommonIsPrefix ==
  ASSUME asked \in TreeRequests, asked.records # {}
  PROVE  /\ Common \in Seq(STRING)
         /\ \A p \in Paths : IsPrefix(Common, p)
<1> DEFINE one     == CHOOSE p \in Paths : TRUE
           lengths == {n \in 0..Len(one) : \A p \in Paths : IsPrefix(SubSeq(one, 1, n), p)}
           longest == CHOOSE n \in lengths : \A m \in lengths : m <= n
<1>1. one \in Paths /\ one \in Seq(STRING)
  <2>1. Paths # {}
    BY DEF Paths
  <2> QED BY <2>1, AskedPaths
<1>2. Len(one) \in Nat
  BY <1>1
<1>3. 0 \in lengths
  <2>1. SubSeq(one, 1, 0) \in Seq(STRING) /\ Len(SubSeq(one, 1, 0)) = 0
    BY <1>1, <1>2, Beginning
  <2>2. \A p \in Paths : IsPrefix(SubSeq(one, 1, 0), p)
    <3> DEFINE none == SubSeq(one, 1, 0)
    <3> HIDE DEF none, one
    <3>1. none \in Seq(STRING) /\ Len(none) = 0 /\ \A i \in 1..Len(none) : FALSE
      BY <2>1 DEF none
    <3>2. ASSUME NEW p \in Paths PROVE IsPrefix(none, p)
      <4>1. p \in Seq(STRING) /\ Len(p) \in Nat
        BY AskedPaths
      <4>2. Len(none) <= Len(p)
        BY <3>1, <4>1
      <4> QED BY <3>1, <4>1, <4>2, PrefixByElement
    <3> QED BY <3>2 DEF none
  <2> QED BY <1>2, <2>2
<1>4. longest \in lengths
  <2>1. lengths \in SUBSET (0..Len(one)) /\ lengths # {}
    BY <1>3
  <2> HIDE DEF lengths
  <2>2. \E n \in lengths : \A m \in lengths : m <= n
    BY <1>2, <2>1, GreatestBelow
  <2> QED BY <2>2
<1>5. Common = SubSeq(one, 1, longest)
  BY DEF Common
<1>6. longest \in 0..Len(one) /\ \A p \in Paths : IsPrefix(SubSeq(one, 1, longest), p)
  <2> HIDE DEF longest
  <2> QED BY <1>4
<1> HIDE DEF one, longest
<1> QED BY <1>1, <1>5, <1>6, Beginning

\* The root is a directory all paths lie below.
LEMMA RootAbovePaths ==
  ASSUME asked \in TreeRequests, asked.records # {}
  PROVE  /\ RootPath \in Seq(STRING)
         /\ \A p \in Paths : IsPrefix(RootPath, p) /\ (p = RootPath => LoneTopFile)
<1>1. Common \in Seq(STRING) /\ \A p \in Paths : IsPrefix(Common, p)
  BY CommonIsPrefix
<1>2. CASE Len(Common) >= 2
  <2> DEFINE front == SubSeq(Common, 1, Len(Common) - 1)
  <2>1. RootPath = front
    BY <1>2 DEF RootPath, Front
  <2>2. front \in Seq(STRING) /\ Len(front) = Len(Common) - 1 /\ \A i \in 1..(Len(Common) - 1) : front[i] = Common[i]
    BY <1>1, <1>2, Beginning
  <2> HIDE DEF front
  <2> SUFFICES ASSUME NEW p \in Paths PROVE IsPrefix(front, p) /\ p # front
    BY <2>1, <2>2
  <2>3. p \in Seq(STRING)
    BY AskedPaths
  <2>4. Len(Common) <= Len(p) /\ \A i \in 1..Len(Common) : Common[i] = p[i]
    BY <1>1, <2>3, PrefixByElement
  <2>5. IsPrefix(front, p)
    <3>1. \A n \in Nat : \A i \in 1..(n - 1) : i \in 1..n
      OBVIOUS
    <3>2. Len(Common) \in Nat /\ Len(p) \in Nat
      BY <1>1, <2>3
    <3>3. \A i \in 1..Len(front) : front[i] = p[i]
      BY <2>2, <2>4, <3>1, <3>2
    <3>4. Len(front) <= Len(p)
      BY <2>2, <2>4, <3>2
    <3> QED BY <2>2, <2>3, <3>3, <3>4, PrefixByElement
  <2>6. Len(front) < Len(p)
    <3>1. Len(Common) \in Nat /\ Len(p) \in Nat
      BY <1>1, <2>3
    <3> QED BY <2>2, <2>4, <3>1
  <2> QED BY <2>5, <2>6
<1>3. CASE Len(Common) < 2
  <2>1. RootPath = Common
    BY <1>1, <1>3 DEF RootPath
  <2> SUFFICES ASSUME NEW p \in Paths, p = Common PROVE LoneTopFile
    BY <1>1, <2>1
  <2>2. \A q \in Paths : q = p
    BY <1>1, AskedPaths
  <2>3. Paths = {p}
    BY <2>2
  <2>4. Len(p) = 1
    <3>1. p \in Seq(STRING) /\ p # <<>>
      BY AskedPaths
    <3>2. Len(p) \in Nat \ {0}
      BY <3>1, EmptySeq
    <3>3. Len(p) < 2
      BY <1>3
    <3>4. \A n \in Nat \ {0} : n < 2 => n = 1
      OBVIOUS
    <3> QED BY <3>2, <3>3, <3>4
  <2>5. Cardinality({p}) = 1
    BY FS_Singleton
  <2> QED BY <2>3, <2>4, <2>5 DEF LoneTopFile
<1> QED BY <1>1, <1>2, <1>3

\* What has been put into the tree, and where a directory hangs.
Placed == {p \in Paths \ toPlace : ~Skipped(p)}
Up(d)  == IF Len(d) > 1 THEN Front(d) ELSE root

TreeShape ==
  /\ toPlace \subseteq Paths
  /\ root \in Seq(STRING)
  /\ \A p \in Paths : IsPrefix(root, p) /\ p # root
  /\ dirs = {root} \cup UNION {OnTheWay(p) : p \in Placed}
  /\ edges = {<<Up(d), d>> : d \in dirs \ {root}}
  /\ shown = Placed

TreeInv ==
  /\ served = "tree" => asked \in TreeRequests
  /\ served # "tree" => treeStage = "asked"
  /\ treeStage = "asked" => edges = {} /\ shown = {}
  /\ treeStage \in {"placing", "shown"} /\ ~LoneTopFile => TreeShape
  /\ treeStage = "shown" => toPlace = {}

LEMMA TreeInvInit == Init => TreeInv
<1> QED BY DEF Init, TreeInit, TreeInv

LEMMA TreeInvExtract ==
  ASSUME TreeInv, ServeTree, Extract PROVE TreeInv'
<1>1. asked' = asked /\ served' = served /\ served = "tree" /\ asked \in TreeRequests /\ edges = {} /\ shown = {}
  BY DEF TreeInv, ServeTree, Extract
<1>2. edges' = {} /\ shown' = {} /\ Paths' = Paths /\ LoneTopFile' = LoneTopFile
  BY <1>1 DEF Extract, Paths, LoneTopFile
<1>3. CASE asked.records = {}
  <2>1. treeStage' = "error"
    BY <1>3 DEF Extract
  <2> QED BY <1>1, <2>1 DEF TreeInv
<1>4. CASE asked.records # {}
  <2>1. treeStage' = "placing" /\ root' = RootPath /\ toPlace' = Paths /\ dirs' = {root'}
    BY <1>4 DEF Extract
  <2>2. Placed' = {}
    BY <1>2, <2>1 DEF Placed
  <2>3. ASSUME ~LoneTopFile PROVE TreeShape'
    <3>1. root' \in Seq(STRING) /\ \A p \in Paths : IsPrefix(root', p) /\ p # root'
      BY <1>1, <1>4, <2>1, <2>3, RootAbovePaths
    <3>2. {<<Up(d), d>>' : d \in (dirs \ {root})'} = {}
      BY <2>1
    <3> QED BY <1>2, <2>1, <2>2, <3>1, <3>2 DEF TreeShape
  <2> QED BY <1>1, <1>2, <2>1, <2>3 DEF TreeInv
<1> QED BY <1>3, <1>4

\* A path that is placed has the directory it is in.
LEMMA DirectoryIsThere ==
  ASSUME TreeShape, asked \in TreeRequests, NEW p \in Paths, root \in dirs
  PROVE  Front(p) \in dirs \cup OnTheWay(p)
<1>1. p \in Seq(STRING) /\ p # <<>> /\ Len(p) \in Nat /\ Len(p) >= 1
  <2>1. p \in Seq(STRING) /\ p # <<>>
    BY AskedPaths
  <2> QED BY <2>1, EmptySeq
<1>2. CASE Len(p) > 1
  <2>1. Len(p) - 1 \in 1..(Len(p) - 1)
    BY <1>1, <1>2
  <2> QED BY <2>1 DEF OnTheWay, Front
<1>3. CASE Len(p) = 1
  <2>1. Len(root) <= 1 /\ root \in Seq(STRING) /\ root # p /\ \A i \in 1..Len(root) : root[i] = p[i]
    BY <1>1, <1>3, PrefixByElement DEF TreeShape
  <2>2. Len(root) # 1
    BY <1>1, <1>3, <2>1
  <2>3. root = <<>>
    <3>1. Len(root) \in Nat
      BY <2>1
    <3>2. \A n \in Nat : n <= 1 /\ n # 1 => n = 0
      OBVIOUS
    <3>3. Len(root) = 0
      BY <2>1, <2>2, <3>1, <3>2
    <3> QED BY <2>1, <3>3, EmptySeq
  <2>4. Front(p) = <<>>
    <3>1. SubSeq(p, 1, 0) = <<>>
      BY SubSeqEmpty
    <3> QED BY <1>3, <3>1 DEF Front
  <2> QED BY <2>3, <2>4
<1>4. \A n \in Nat : n >= 1 => n > 1 \/ n = 1
  OBVIOUS
<1> QED BY <1>1, <1>2, <1>3, <1>4

LEMMA TreeInvPlace ==
  ASSUME TreeInv, ServeTree, NEW path \in toPlace, Place(path) PROVE TreeInv'
<1>1. /\ asked' = asked /\ served' = served /\ served = "tree" /\ asked \in TreeRequests
      /\ treeStage = "placing" /\ treeStage' = "placing" /\ root' = root /\ toPlace' = toPlace \ {path}
  BY DEF TreeInv, ServeTree, Place
<1>2. /\ Paths' = Paths /\ LoneTopFile' = LoneTopFile
      /\ \A p : Skipped(p)' = Skipped(p) /\ OnTheWay(p)' = OnTheWay(p) /\ Up(p)' = Up(p)
  BY <1>1 DEF Paths, LoneTopFile, Skipped, Depth, OnTheWay, Up
<1>3. ASSUME ~LoneTopFile PROVE TreeShape'
  <2>1. TreeShape /\ path \in Paths
    BY <1>1, <1>3 DEF TreeInv, TreeShape
  <2>2. Placed' = Placed \cup (IF Skipped(path) THEN {} ELSE {path})
    BY <1>1, <1>2, <2>1 DEF Placed
  <2>3. CASE Skipped(path)
    <3>1. dirs' = dirs /\ edges' = edges /\ shown' = shown /\ Placed' = Placed
      BY <2>2, <2>3 DEF Place
    <3> QED BY <1>1, <1>2, <2>1, <3>1 DEF TreeShape
  <2>4. CASE ~Skipped(path)
    <3>1. root \in dirs
      BY <2>1 DEF TreeShape
    <3>2. dirs' = dirs \cup OnTheWay(path)
      BY <2>4 DEF Place
    <3>3. shown' = Placed'
      <4>1. Front(path) \in dirs'
        BY <1>1, <2>1, <3>1, <3>2, DirectoryIsThere
      <4> QED BY <2>1, <2>2, <2>4, <4>1 DEF Place, TreeShape
    <3>4. dirs' = {root} \cup UNION {OnTheWay(p) : p \in Placed'}
      BY <2>1, <2>2, <2>4, <3>2 DEF TreeShape
    <3>5. edges' = {<<Up(d), d>> : d \in dirs' \ {root}}
      <4>1. edges' = edges \cup {<<Up(d), d>> : d \in OnTheWay(path) \ dirs}
        BY <2>4 DEF Place, Up
      <4>2. dirs' \ {root} = (dirs \ {root}) \cup (OnTheWay(path) \ dirs)
        BY <3>1, <3>2
      <4> QED BY <2>1, <4>1, <4>2 DEF TreeShape
    <3> QED BY <1>1, <1>2, <2>1, <3>3, <3>4, <3>5 DEF TreeShape
  <2> QED BY <2>3, <2>4
<1> QED BY <1>1, <1>2, <1>3 DEF TreeInv

LEMMA TreeInvUnchanged ==
  ASSUME TreeInv, UNCHANGED <<served, treeVars>> PROVE TreeInv'
<1>1. /\ served' = served /\ asked' = asked /\ treeStage' = treeStage /\ root' = root
      /\ toPlace' = toPlace /\ dirs' = dirs /\ edges' = edges /\ shown' = shown
  BY DEF treeVars
<1> QED BY <1>1 DEF TreeInv, TreeShape, Placed, Skipped, Depth, OnTheWay, Up, Paths, LoneTopFile

LEMMA TreeInvShow ==
  ASSUME TreeInv, ServeTree, Show PROVE TreeInv'
<1>1. /\ served' = served /\ served = "tree" /\ treeStage = "placing" /\ treeStage' = "shown" /\ toPlace = {}
      /\ asked' = asked /\ root' = root /\ toPlace' = toPlace /\ dirs' = dirs /\ edges' = edges /\ shown' = shown
  BY DEF ServeTree, Show
<1>2. TreeShape' <=> TreeShape
  BY <1>1 DEF TreeShape, Placed, Skipped, Depth, OnTheWay, Up, Paths
<1>3. LoneTopFile' <=> LoneTopFile
  BY <1>1 DEF LoneTopFile, Paths
<1> QED BY <1>1, <1>2, <1>3 DEF TreeInv

LEMMA TreeInvNext == TreeInv /\ [Next]_queryVars => TreeInv'
<1> SUFFICES ASSUME TreeInv, [Next]_queryVars PROVE TreeInv'
  OBVIOUS
<1>1. CASE ServeTree
  <2>1. CASE Extract
    BY <1>1, <2>1, TreeInvExtract
  <2>2. ASSUME NEW path \in toPlace, Place(path) PROVE TreeInv'
    BY <1>1, <2>2, TreeInvPlace
  <2>3. CASE Show
    BY <1>1, <2>3, TreeInvShow
  <2> QED BY <1>1, <2>1, <2>2, <2>3 DEF ServeTree, TreeNext
<1>2. CASE ServeSearch
  BY <1>2, TreeInvUnchanged DEF ServeSearch
<1>3. CASE ServeSummary
  BY <1>3, TreeInvUnchanged DEF ServeSummary
<1>4. CASE UNCHANGED queryVars
  BY <1>4, TreeInvUnchanged DEF queryVars
<1> QED BY <1>1, <1>2, <1>3, <1>4 DEF Next

\* A path that is placed is one the request wants, if it wants files.
LEMMA PlacedIsWanted ==
  ASSUME TreeShape, asked \in TreeRequests, asked.withFiles, toPlace = {}
  PROVE  Placed = Wanted
<1> SUFFICES ASSUME NEW p \in Paths
             PROVE  Skipped(p) <=> ~(asked.depth > 0 => Len(p) - Len(root) <= asked.depth + 1)
  BY DEF Placed, Wanted
<1>1. p \in Seq(STRING) /\ root \in Seq(STRING) /\ p # root /\ asked.depth \in Nat
  BY AskedPaths DEF TreeShape
<1>2. Len(p) \in Nat /\ Len(root) \in Nat
  BY <1>1
<1>3. \A l, r, d \in Nat : l - r - 1 > d <=> ~(l - r <= d + 1)
  OBVIOUS
<1>4. Len(p) - Len(root) - 1 > asked.depth <=> ~(Len(p) - Len(root) <= asked.depth + 1)
  BY <1>1, <1>2, <1>3
<1> QED BY <1>1, <1>4 DEF Skipped, Depth

\* Every directory on the way to a file from the root hangs in the one before.
LEMMA FileIsReached ==
  ASSUME TreeShape, asked \in TreeRequests,
         NEW p \in shown, NEW n \in (Len(root) + 1)..(Len(p) - 1)
  PROVE  <<SubSeq(p, 1, n - 1), SubSeq(p, 1, n)>> \in edges
<1>1. p \in Paths /\ p \in Placed /\ p \in Seq(STRING) /\ root \in Seq(STRING)
  BY AskedPaths DEF TreeShape, Placed
<1> DEFINE d == SubSeq(p, 1, n)
<1>2. Len(p) \in Nat /\ Len(root) \in Nat /\ n \in 1..(Len(p) - 1) /\ n > Len(root)
  BY <1>1
<1>3. d \in Seq(STRING) /\ Len(d) = n /\ \A i \in 1..n : d[i] = p[i]
  BY <1>1, <1>2, Beginning
<1>4. d \in OnTheWay(p)
  BY <1>2 DEF OnTheWay
<1>5. d # root
  BY <1>2, <1>3
<1>6. <<Up(d), d>> \in edges
  <2> HIDE DEF d
  <2> QED BY <1>1, <1>4, <1>5 DEF TreeShape
<1>7. Up(d) = SubSeq(p, 1, n - 1)
  <2>1. CASE n > 1
    <3> DEFINE u == SubSeq(p, 1, n - 1)
               v == SubSeq(d, 1, n - 1)
    <3>1. u \in Seq(STRING) /\ Len(u) = n - 1 /\ \A i \in 1..(n - 1) : u[i] = p[i]
      BY <1>1, <1>2, <2>1, Beginning
    <3> HIDE DEF d, u
    <3>2. v \in Seq(STRING) /\ Len(v) = n - 1 /\ \A i \in 1..(n - 1) : v[i] = d[i]
      BY <1>2, <1>3, <2>1, Beginning
    <3>3. Up(d) = v
      BY <1>3, <2>1 DEF Up, Front
    <3> HIDE DEF v
    <3>4. u = v
      BY <1>2, <1>3, <3>1, <3>2, SeqEqual
    <3> QED BY <3>3, <3>4 DEF u
  <2>2. CASE n = 1
    <3>1. Len(root) = 0
      BY <1>2, <2>2
    <3>2. root = <<>>
      BY <1>1, <3>1, EmptySeq
    <3>3. Up(d) = root
      <4> HIDE DEF d
      <4> QED BY <1>3, <2>2 DEF Up
    <3>4. SubSeq(p, 1, 0) = <<>>
      BY SubSeqEmpty
    <3>5. n - 1 = 0
      BY <2>2
    <3>6. SubSeq(p, 1, n - 1) = <<>>
      BY <3>4, <3>5
    <3> HIDE DEF d
    <3> QED BY <3>2, <3>3, <3>6
  <2> QED BY <1>2, <2>1, <2>2
<1> QED BY <1>6, <1>7

LEMMA TreeIsTrue == TreeInv => TreeShowsEveryFile
<1> SUFFICES ASSUME TreeInv, treeStage = "shown", asked.withFiles, ~LoneTopFile
             PROVE  /\ \A p \in Paths : IsPrefix(root, p) /\ p # root
                    /\ shown = Wanted
                    /\ \A p \in shown : \A n \in (Len(root) + 1)..(Len(p) - 1) :
                         <<SubSeq(p, 1, n - 1), SubSeq(p, 1, n)>> \in edges
                    /\ \A d \in dirs \ {root} :
                         /\ Cardinality({e \in edges : e[2] = d}) = 1
                         /\ IsPrefix(root, d) => \E p \in shown : IsPrefix(d, p)
                    /\ \A e \in edges : e[2] # root
  BY DEF TreeShowsEveryFile
<1>1. TreeShape /\ asked \in TreeRequests /\ toPlace = {}
  BY DEF TreeInv
<1>2. \A p \in Paths : IsPrefix(root, p) /\ p # root
  BY <1>1 DEF TreeShape
<1>3. shown = Wanted
  BY <1>1, PlacedIsWanted DEF TreeShape
<1>4. \A p \in shown : \A n \in (Len(root) + 1)..(Len(p) - 1) :
        <<SubSeq(p, 1, n - 1), SubSeq(p, 1, n)>> \in edges
  BY <1>1, FileIsReached
<1>5. ASSUME NEW d \in dirs \ {root}
      PROVE  /\ Cardinality({e \in edges : e[2] = d}) = 1
             /\ \E p \in shown : IsPrefix(d, p)
  <2>1. {e \in edges : e[2] = d} = {<<Up(d), d>>}
    BY <1>1 DEF TreeShape
  <2>2. Cardinality({<<Up(d), d>>}) = 1
    BY FS_Singleton
  <2>3. PICK p \in Placed : d \in OnTheWay(p)
    BY <1>1 DEF TreeShape
  <2>4. p \in shown /\ p \in Paths /\ p \in Seq(STRING)
    BY <1>1, <2>3, AskedPaths DEF TreeShape, Placed
  <2>5. PICK n \in 1..(Len(p) - 1) : d = SubSeq(p, 1, n)
    BY <2>3 DEF OnTheWay
  <2>6. n \in 0..Len(p)
    BY <2>4, <2>5
  <2>7. IsPrefix(d, p)
    BY <2>4, <2>5, <2>6, Beginning
  <2> QED BY <2>1, <2>2, <2>4, <2>7
<1>6. \A e \in edges : e[2] # root
  BY <1>1 DEF TreeShape
<1> QED BY <1>2, <1>3, <1>4, <1>5, <1>6

(***************************************************************************)
(* CodebaseTreeLogic, for every set of files and in whatever order they    *)
(* come out of the map: a tree with files shows exactly those that are not *)
(* too deep, each reached from the root through its directories, every     *)
(* directory once.                                                         *)
(***************************************************************************)
THEOREM TreeShowsEveryFileHolds == Spec => []TreeShowsEveryFile
<1> QED BY TreeInvInit, TreeInvNext, TreeIsTrue, PTL DEF Spec

-----------------------------------------------------------------------------
(* The search.                                                             *)

Document == [place : Places, score : Scores, text : {"stored", "fetched"}]
Result   == [index : Int, score : Scores]

SearchTypeOK ==
  /\ found \in Seq(Document)
  /\ ranking \in Seq(Result)
  /\ ranked \in Seq(Int)
  /\ filtered \in Nat
  /\ list \in Seq(Int)

Count == Len(found)

\* The first w results are written into the slots, and the rest is still empty.
Followed(w) ==
  /\ w \in 0..Count /\ w <= Len(ranking)
  /\ \A i \in 1..w : ranking[i].index \in 0..(Count - 1)
  /\ Len(ranked) = Count
  /\ \A i \in 1..Count : ranked[i] = IF i <= w THEN ranking[i].index + 1 ELSE Nobody

\* The ranking has been given up or was never there, or it is followed to its end.
GivenUp ==
  /\ ranked = <<>>
  /\ ranking # <<>> => \E i \in DOMAIN ranking : ranking[i].index >= Count

RankingIsOver == GivenUp \/ (ranking # <<>> /\ found # <<>> /\ Followed(Len(ranking)))

Passes(i) == found[i].score >= question.threshold

\* The list is what passes of the slots looked at so far.
ListFollows ==
  /\ Len(list) <= filtered
  /\ \A j \in 1..filtered : Ordered[j] \in 1..Count /\ (Passes(Ordered[j]) => InList(Ordered[j]))
  /\ \A k \in 1..Len(list) : Passes(list[k]) /\ \E j \in 1..filtered : Ordered[j] = list[k]
  /\ Usable => \A k, m \in 1..Len(list) : k < m => RankOf(list[k]) < RankOf(list[m])

SearchInv ==
  /\ served = "search" => question \in Questions
  /\ served # "search" => searchStage = "searching"
  /\ SearchTypeOK
  /\ searchStage \in {"searching", "fetching", "asking"} => ranking = <<>> /\ ranked = <<>>
  /\ searchStage \in {"searching", "fetching", "asking", "ranking"} => filtered = 0 /\ list = <<>>
  /\ searchStage = "ranking" => found # <<>> /\ ranking # <<>> /\ \E w \in Nat : Followed(w)
  /\ searchStage \in {"filtering", "answered"} => RankingIsOver /\ ListFollows
  /\ searchStage = "answered" => filtered = Len(First)
  /\ searchStage = "crashed" => ~Usable

LEMMA SearchInvInit == Init => SearchInv
<1> SUFFICES ASSUME Init PROVE SearchInv
  OBVIOUS
<1>1. /\ searchStage = "searching" /\ found = <<>> /\ ranking = <<>> /\ ranked = <<>> /\ filtered = 0 /\ list = <<>>
      /\ served = "search" => question \in Questions
  BY DEF Init, SearchInit
<1>2. SearchTypeOK
  BY <1>1 DEF SearchTypeOK
<1> QED BY <1>1, <1>2 DEF SearchInv

LEMMA SearchInvUnchanged ==
  ASSUME SearchInv, UNCHANGED <<served, searchVars>> PROVE SearchInv'
<1>1. /\ served' = served /\ question' = question /\ searchStage' = searchStage /\ found' = found
      /\ ranking' = ranking /\ ranked' = ranked /\ filtered' = filtered /\ list' = list
  BY DEF searchVars
<1>2. SearchTypeOK' /\ Count' = Count /\ (Usable' <=> Usable) /\ First' = First /\ Ordered' = Ordered
  BY <1>1 DEF SearchInv, SearchTypeOK, Count, Usable, OneForEach, First, Ordered, TopK, MinOf
<1>3. \A w : Followed(w)' <=> Followed(w)
  BY <1>1, <1>2 DEF Followed
<1>4. RankingIsOver' <=> RankingIsOver
  BY <1>1, <1>2, <1>3 DEF RankingIsOver, GivenUp
<1>5. ListFollows' <=> ListFollows
  BY <1>1, <1>2 DEF ListFollows, Passes, InList, RankOf
<1> QED BY <1>1, <1>2, <1>3, <1>4, <1>5 DEF SearchInv

\* What the store finds, and what is fetched for it, are documents.
LEMMA SearchInvFind ==
  ASSUME SearchInv, ServeSearch, SimilaritySearch \/ Fetch PROVE SearchInv'
<1>1. /\ served' = served /\ served = "search" /\ question' = question /\ question \in Questions
      /\ searchStage \in {"searching", "fetching"} /\ searchStage' \in {"fetching", "asking", "error"}
      /\ ranking' = ranking /\ ranked' = ranked /\ filtered' = filtered /\ list' = list
  BY DEF SearchInv, ServeSearch, SimilaritySearch, Fetch, Fails
<1>2. SearchTypeOK
  BY DEF SearchInv
<1>3. found' \in Seq(Document)
  <2>1. CASE found' = found
    BY <1>2, <2>1 DEF SearchTypeOK
  <2>2. CASE SimilaritySearch /\ ~Fails
    <3>1. PICK n \in 0..MaxDocuments : found' \in Answers(n)
      BY <2>2 DEF SimilaritySearch
    <3>2. found' \in [1..n -> Document]
      BY <3>1 DEF Answers, Document
    <3>3. n \in Nat
      BY SearchAssumption
    <3> QED BY <3>2, <3>3
  <2>3. CASE Fetch /\ ~Fails
    <3>1. PICK places \in SUBSET {found[i].place : i \in DOMAIN found} :
             found' = [i \in DOMAIN found |->
                         IF found[i].place \in places THEN [found[i] EXCEPT !.text = "fetched"] ELSE found[i]]
      BY <2>3 DEF Fetch
    <3>2. Len(found) \in Nat /\ DOMAIN found = 1..Len(found) /\ \A i \in 1..Len(found) : found[i] \in Document
      BY <1>2 DEF SearchTypeOK
    <3>3. \A d \in Document : [d EXCEPT !.text = "fetched"] \in Document
      BY DEF Document
    <3>4. found' \in [1..Len(found) -> Document]
      BY <3>1, <3>2, <3>3
    <3> QED BY <3>2, <3>4
  <2> QED BY <2>1, <2>2, <2>3 DEF Fails
<1>4. SearchTypeOK'
  BY <1>1, <1>2, <1>3 DEF SearchTypeOK
<1> QED BY <1>1, <1>4 DEF SearchInv

\* Nothing has been looked at.
LEMMA NothingFiltered ==
  ASSUME filtered' = 0, list' = <<>> PROVE ListFollows'
<1> QED BY DEF ListFollows

LEMMA SearchInvAsk ==
  ASSUME SearchInv, ServeSearch, AskReranker PROVE SearchInv'
<1>1. /\ served' = served /\ served = "search" /\ question' = question /\ question \in Questions
      /\ searchStage = "asking" /\ found' = found /\ filtered' = 0 /\ list' = <<>> /\ ranked = <<>>
  BY DEF SearchInv, ServeSearch, AskReranker
<1>2. SearchTypeOK /\ ListFollows'
  BY <1>1, NothingFiltered DEF SearchInv
<1>3. CASE ranking' = <<>> /\ searchStage' = "filtering" /\ UNCHANGED ranked
  <2>1. SearchTypeOK' /\ GivenUp'
    BY <1>1, <1>2, <1>3 DEF SearchTypeOK, GivenUp
  <2> QED BY <1>1, <1>2, <1>3, <2>1 DEF SearchInv, RankingIsOver
<1>4. CASE /\ found # <<>> /\ ranking' \in Results \ {<<>>}
           /\ ranked' = [i \in DOMAIN found |-> Nobody] /\ searchStage' = "ranking"
  <2>1. Count \in Nat /\ DOMAIN found = 1..Count /\ Count' = Count
    BY <1>1, <1>2 DEF SearchTypeOK, Count
  <2>2. PICK n \in 0..(Count + 1) : ranking' \in [1..n -> [index : -1..Count, score : Scores]]
    BY <1>4 DEF Results, Count
  <2>3. ranking' \in Seq(Result) /\ Len(ranking') \in Nat
    <3>1. ranking' \in [1..n -> Result]
      BY <2>1, <2>2 DEF Result
    <3>2. n \in Nat
      BY <2>1, <2>2
    <3> QED BY <3>1, <3>2
  <2>4. ranked' \in Seq(Int) /\ Len(ranked') = Count /\ \A i \in 1..Count : ranked'[i] = Nobody
    <3>1. ranked' = [i \in 1..Count |-> Nobody] /\ Nobody \in Int
      BY <1>4, <2>1 DEF Nobody
    <3> QED BY <2>1, <3>1
  <2>5. SearchTypeOK'
    BY <1>1, <1>2, <2>3, <2>4 DEF SearchTypeOK
  <2>6. Followed(0)'
    <3>1. \A i \in 1..Count : ~ (i <= 0)
      BY <2>1
    <3>2. 0 <= Len(ranking') /\ 0 \in 0..Count /\ \A i \in 1..0 : FALSE
      BY <2>1, <2>3
    <3> QED BY <2>1, <2>3, <2>4, <3>1, <3>2 DEF Followed
  <2> QED BY <1>1, <1>2, <1>4, <2>5, <2>6 DEF SearchInv
<1> QED BY <1>1, <1>3, <1>4 DEF AskReranker

\* The slots that are written are as many as the results that have been followed.
LEMMA WrittenIs ==
  ASSUME SearchTypeOK, NEW w \in Nat, Followed(w)
  PROVE  Written = w
<1>1. Count \in Nat /\ w \in 0..Count /\ DOMAIN ranked = 1..Count
  BY DEF SearchTypeOK, Followed, Count
<1>2. ASSUME NEW i \in 1..Count PROVE ranked[i] # Nobody <=> i \in 1..w
  <2>1. i <= w => ranked[i] # Nobody
    BY <1>1 DEF Followed, Nobody
  <2>2. ~(i <= w) => ranked[i] = Nobody
    BY DEF Followed
  <2> QED BY <1>1, <2>1, <2>2
<1>3. {i \in DOMAIN ranked : ranked[i] # Nobody} = 1..w
  BY <1>1, <1>2
<1>4. Cardinality(1..w) = w
  BY <1>1, FS_Interval
<1> QED BY <1>3, <1>4 DEF Written

LEMMA SearchInvRank ==
  ASSUME SearchInv, ServeSearch, RankNext PROVE SearchInv'
<1>1. /\ served' = served /\ served = "search" /\ question' = question /\ question \in Questions
      /\ searchStage = "ranking" /\ found # <<>> /\ ranking # <<>> /\ ranking' = ranking
      /\ filtered' = 0 /\ list' = <<>> /\ SearchTypeOK
  BY DEF SearchInv, ServeSearch, RankNext
<1>2. PICK w \in Nat : Followed(w)
  BY <1>1 DEF SearchInv
<1>3. Written = w
  BY <1>1, <1>2, WrittenIs
<1>4. /\ Count \in Nat /\ DOMAIN found = 1..Count /\ Len(ranking) \in Nat /\ DOMAIN ranking = 1..Len(ranking)
      /\ \A i \in 1..Len(ranking) : ranking[i] \in Result
      /\ Len(ranked) = Count /\ DOMAIN ranked = 1..Count /\ w \in 0..Count /\ w <= Len(ranking)
  BY <1>1, <1>2 DEF SearchTypeOK, Count, Followed
<1>5. ListFollows'
  BY <1>1, NothingFiltered
<1>6. CASE /\ w + 1 > Len(ranking) /\ searchStage' = "filtering" /\ UNCHANGED <<found, ranked>>
  <2>1. SearchTypeOK' /\ Count' = Count
    BY <1>1, <1>6 DEF SearchTypeOK, Count
  <2>2. w = Len(ranking)
    <3>1. \A n \in Nat : w <= n /\ w + 1 > n => w = n
      OBVIOUS
    <3> QED BY <1>4, <1>6, <3>1
  <2>3. RankingIsOver'
    BY <1>1, <1>2, <1>6, <2>1, <2>2 DEF RankingIsOver, Followed
  <2> QED BY <1>1, <1>5, <1>6, <2>1, <2>3 DEF SearchInv
<1>7. CASE /\ w + 1 <= Len(ranking) /\ ranking[w + 1].index >= Len(found)
           /\ ranked' = <<>> /\ searchStage' = "filtering" /\ UNCHANGED found
  <2>1. SearchTypeOK' /\ Count' = Count
    BY <1>1, <1>7 DEF SearchTypeOK, Count
  <2>2. w + 1 \in DOMAIN ranking
    BY <1>4, <1>7
  <2>3. GivenUp'
    BY <1>1, <1>7, <2>1, <2>2 DEF GivenUp, Count
  <2> QED BY <1>1, <1>5, <1>7, <2>1, <2>3 DEF SearchInv, RankingIsOver
<1>8. CASE /\ w + 1 <= Len(ranking) /\ ranking[w + 1].index < Len(found)
           /\ w + 1 > Len(ranked) \/ ranking[w + 1].index < 0
           /\ searchStage' = "crashed" /\ UNCHANGED <<found, ranked>>
  <2>1. SearchTypeOK' /\ Count' = Count
    BY <1>1, <1>8 DEF SearchTypeOK, Count
  <2>2. ~Usable
    <3>1. CASE w + 1 > Len(ranked)
      <4>1. \A m, n \in Nat : w + 1 > m /\ w + 1 <= n => m # n
        OBVIOUS
      <4>2. Len(ranking) # Len(found)
        BY <1>4, <1>8, <3>1, <4>1 DEF Count
      <4> QED BY <1>1, <4>2 DEF Usable, OneForEach
    <3>2. CASE ranking[w + 1].index < 0
      <4>1. w + 1 \in DOMAIN ranking
        BY <1>4, <1>8
      <4>2. ranking[w + 1].index \notin 0..(Len(found) - 1)
        BY <3>2
      <4> QED BY <1>1, <4>1, <4>2 DEF Usable, OneForEach
    <3> QED BY <1>8, <3>1, <3>2
  <2>3. ~Usable'
    BY <1>1, <1>8, <2>2 DEF Usable, OneForEach
  <2> QED BY <1>1, <1>8, <2>1, <2>3 DEF SearchInv
<1>9. CASE /\ w + 1 <= Len(ranking) /\ ranking[w + 1].index < Len(found)
           /\ ~(w + 1 > Len(ranked) \/ ranking[w + 1].index < 0)
           /\ ranked' = [ranked EXCEPT ![w + 1] = ranking[w + 1].index + 1]
           /\ found' = [found EXCEPT ![ranking[w + 1].index + 1].score = ranking[w + 1].score]
           /\ UNCHANGED searchStage
  <2> DEFINE r == ranking[w + 1]
             i == r.index + 1
  <2>1. w + 1 \in 1..Count /\ w + 1 \in 1..Len(ranking) /\ r \in Result
    BY <1>4, <1>9
  <2>2. r.index \in 0..(Count - 1) /\ i \in 1..Count /\ r.score \in Scores
    BY <1>4, <1>9, <2>1 DEF Result, Count
  <2>3. found' \in Seq(Document) /\ Len(found') = Count
    <3>1. found[i] \in Document
      BY <1>1, <1>4, <2>2 DEF SearchTypeOK
    <3>2. [found[i] EXCEPT !.score = r.score] \in Document
      BY <2>2, <3>1 DEF Document
    <3>3. found' = [found EXCEPT ![i] = [found[i] EXCEPT !.score = r.score]]
      BY <1>9
    <3> HIDE DEF i, r
    <3>4. found \in Seq(Document)
      BY <1>1 DEF SearchTypeOK
    <3> QED BY <2>2, <3>2, <3>3, <3>4, ExceptSeq DEF Count
  <2>4. ranked' \in Seq(Int) /\ Len(ranked') = Count /\ \A k \in 1..Count : ranked'[k] = IF k = w + 1 THEN i ELSE ranked[k]
    <3>1. ranked \in Seq(Int) /\ i \in Int /\ w + 1 \in 1..Len(ranked)
      BY <1>1, <1>4, <2>1, <2>2 DEF SearchTypeOK
    <3>2. ranked' = [ranked EXCEPT ![w + 1] = i]
      BY <1>9
    <3> HIDE DEF i, r
    <3> QED BY <1>4, <3>1, <3>2, ExceptSeq
  <2>5. SearchTypeOK'
    BY <1>1, <2>3, <2>4 DEF SearchTypeOK
  <2>6. Followed(w + 1)'
    <3>1. Count' = Count /\ w + 1 \in 0..Count /\ w + 1 <= Len(ranking)
      BY <1>4, <2>1, <2>3 DEF Count
    <3>2. ASSUME NEW k \in 1..(w + 1) PROVE ranking[k].index \in 0..(Count - 1)
      <4>1. CASE k = w + 1
        BY <2>2, <4>1
      <4>2. CASE k # w + 1
        <5>1. k \in 1..w
          BY <1>4, <4>2
        <5> QED BY <1>2, <5>1 DEF Followed
      <4> QED BY <4>1, <4>2
    <3>3. ASSUME NEW k \in 1..Count PROVE ranked'[k] = IF k <= w + 1 THEN ranking[k].index + 1 ELSE Nobody
      <4>1. CASE k = w + 1
        BY <2>4, <4>1
      <4>2. CASE k # w + 1
        <5>1. ranked'[k] = ranked[k]
          BY <2>4, <4>2
        <5>2. k <= w <=> k <= w + 1
          BY <1>4, <4>2
        <5> QED BY <1>2, <5>1, <5>2 DEF Followed
      <4> QED BY <4>1, <4>2
    <3> QED BY <1>1, <2>4, <3>1, <3>2, <3>3 DEF Followed
  <2>7. found' # <<>>
    <3>1. Count # 0
      BY <2>2, <1>4
    <3> QED BY <2>3, <3>1
  <2>8. w + 1 \in Nat
    OBVIOUS
  <2> QED BY <1>1, <1>9, <2>5, <2>6, <2>7, <2>8 DEF SearchInv
<1> QED BY <1>3, <1>6, <1>7, <1>8, <1>9 DEF RankNext

LEMMA CountIs ==
  ASSUME SearchTypeOK
  PROVE  /\ Count \in Nat /\ DOMAIN found = 1..Count /\ Len(found) = Count
         /\ Len(ranking) \in Nat /\ DOMAIN ranking = 1..Len(ranking)
         /\ \A i \in 1..Len(ranking) : ranking[i].index \in Int
<1>1. \A i \in 1..Len(ranking) : ranking[i] \in Result
  BY DEF SearchTypeOK
<1> QED BY <1>1 DEF SearchTypeOK, Count, Result

\* Each slot in the order of the answer is a document or empty.
LEMMA OrderedIs ==
  ASSUME SearchTypeOK, RankingIsOver
  PROVE  /\ Ordered \in Seq(Int) /\ Len(Ordered) = Count
         /\ \A j \in 1..Count : Ordered[j] = Nobody \/ Ordered[j] \in 1..Count
<1>1. Count \in Nat /\ DOMAIN found = 1..Count
  BY CountIs
<1>2. CASE GivenUp
  <2>1. Ordered = [i \in 1..Count |-> i]
    BY <1>1, <1>2 DEF GivenUp, Ordered
  <2> QED BY <1>1, <2>1
<1>3. CASE ranking # <<>> /\ found # <<>> /\ Followed(Len(ranking))
  <2>1. ranked \in Seq(Int) /\ Len(ranked) = Count
    BY <1>3 DEF SearchTypeOK, Followed
  <2>2. found \in Seq(Document)
    BY DEF SearchTypeOK
  <2>3. Count # 0
    BY <1>3, <2>2, EmptySeq DEF Count
  <2>4. Ordered = ranked
    BY <2>1, <2>3 DEF Ordered
  <2>5. ASSUME NEW j \in 1..Count PROVE ranked[j] = Nobody \/ ranked[j] \in 1..Count
    <3>1. CASE j <= Len(ranking)
      <4>1. ranking[j].index \in 0..(Count - 1)
        BY <1>3, <3>1 DEF Followed
      <4>2. ranked[j] = ranking[j].index + 1
        BY <1>3, <3>1 DEF Followed
      <4>3. \A n \in 0..(Count - 1) : n + 1 \in 1..Count
        BY <1>1
      <4> QED BY <4>1, <4>2, <4>3
    <3>2. CASE ~(j <= Len(ranking))
      BY <1>3, <3>2 DEF Followed
    <3> QED BY <3>1, <3>2
  <2> QED BY <2>1, <2>4, <2>5
<1> QED BY <1>2, <1>3 DEF RankingIsOver

\* A ranking that is no ranking, or has one result for each document, orders all of them.
LEMMA UsableOrder ==
  ASSUME SearchTypeOK, RankingIsOver, Usable
  PROVE  /\ \A j \in 1..Count : Ordered[j] \in 1..Count /\ RankOf(Ordered[j]) = j
         /\ \A i \in 1..Count : \E j \in 1..Count : Ordered[j] = i
<1>1. /\ Count \in Nat /\ DOMAIN found = 1..Count /\ Len(found) = Count
      /\ Len(ranking) \in Nat /\ DOMAIN ranking = 1..Len(ranking)
      /\ \A i \in 1..Len(ranking) : ranking[i].index \in Int
  BY CountIs
<1>2. CASE ranking = <<>>
  <2>1. ranked = <<>>
    BY <1>2 DEF RankingIsOver, GivenUp
  <2>2. Ordered = [i \in 1..Count |-> i]
    BY <1>1, <2>1 DEF Ordered
  <2> QED BY <1>2, <2>2 DEF RankOf
<1>3. CASE ranking # <<>>
  <2>1. OneForEach
    BY <1>3 DEF Usable
  <2>2. Len(ranking) = Count /\ {ranking[i].index : i \in 1..Count} = 0..(Count - 1)
    BY <1>1, <2>1 DEF OneForEach
  <2>3. \A i \in 1..Count : ranking[i].index \in 0..(Count - 1)
    BY <2>2
  <2>4. ~GivenUp
    <3>1. \A i \in 1..Count : ~ (ranking[i].index >= Count)
      BY <1>1, <2>3
    <3> QED BY <1>1, <1>3, <2>2, <3>1 DEF GivenUp
  <2>5. Followed(Count) /\ found # <<>>
    BY <2>2, <2>4 DEF RankingIsOver
  <2>6. found \in Seq(Document)
    BY DEF SearchTypeOK
  <2>7. Count # 0
    BY <2>5, <2>6, EmptySeq DEF Count
  <2>8. Ordered = ranked
    BY <2>5, <2>7 DEF Ordered, Followed
  <2>9. \A j \in 1..Count : Ordered[j] = ranking[j].index + 1
    BY <2>5, <2>8 DEF Followed
  <2> DEFINE f == [j \in 1..Count |-> ranking[j].index]
  <2>10. f \in Surjection(1..Count, 0..(Count - 1))
    <3>1. f \in [1..Count -> 0..(Count - 1)]
      BY <2>3
    <3>2. \A t \in 0..(Count - 1) : \E j \in 1..Count : f[j] = t
      BY <2>2
    <3> QED BY <3>1, <3>2 DEF Surjection
  <2>11. IsFiniteSet(1..Count) /\ Cardinality(1..Count) = Cardinality(0..(Count - 1))
    <3>1. IsFiniteSet(1..Count) /\ Cardinality(1..Count) = Count
      BY <1>1, FS_Interval
    <3>2. Cardinality(0..(Count - 1)) = Count
      BY <1>1, <2>7, FS_Interval
    <3> QED BY <3>1, <3>2
  <2>12. f \in Injection(1..Count, 0..(Count - 1))
    <3> HIDE DEF f
    <3> QED BY <2>10, <2>11, FS_SurjSameCardinalityImpliesInj
  <2>13. \A j, k \in 1..Count : ranking[j].index = ranking[k].index => j = k
    BY <2>12 DEF Injection, IsInjective
  <2>14. ASSUME NEW j \in 1..Count PROVE Ordered[j] \in 1..Count /\ RankOf(Ordered[j]) = j
    <3>1. Ordered[j] \in 1..Count
      <4>1. \A n \in 0..(Count - 1) : n + 1 \in 1..Count
        BY <1>1
      <4> QED BY <2>3, <2>9, <4>1
    <3>2. \A k \in 1..Count : ranking[k].index + 1 = ranking[j].index + 1 <=> k = j
      <4>1. \A m, n \in Int : m + 1 = n + 1 => m = n
        OBVIOUS
      <4>2. \A k \in 1..Count : ranking[k].index \in Int
        BY <1>1, <2>2
      <4> QED BY <2>13, <4>1, <4>2
    <3>3. RankOf(Ordered[j]) = CHOOSE k \in 1..Count : ranking[k].index + 1 = ranking[j].index + 1
      BY <1>1, <1>3, <2>2, <2>9 DEF RankOf
    <3> QED BY <3>1, <3>2, <3>3
  <2>15. ASSUME NEW i \in 1..Count PROVE \E j \in 1..Count : Ordered[j] = i
    <3>1. i - 1 \in 0..(Count - 1)
      BY <1>1
    <3>2. PICK j \in 1..Count : ranking[j].index = i - 1
      BY <2>2, <3>1
    <3>3. Ordered[j] = i
      BY <2>9, <3>2
    <3> QED BY <3>3
  <2> QED BY <2>14, <2>15
<1> QED BY <1>2, <1>3

LEMMA FirstIs ==
  ASSUME SearchTypeOK, RankingIsOver, question \in Questions
  PROVE  /\ TopK \in Nat \ {0}
         /\ Len(First) = IF TopK < Count THEN TopK ELSE Count
         /\ Len(First) \in 0..Count
         /\ \A j \in 1..Len(First) : First[j] = Ordered[j]
<1>1. TopK \in Nat \ {0}
  BY QuestionsAssumption, SearchAssumption DEF TopK
<1>2. Ordered \in Seq(Int) /\ Len(Ordered) = Count /\ Count \in Nat
  BY OrderedIs, CountIs
<1> DEFINE n == MinOf(TopK, Len(Ordered))
<1>3. n = (IF TopK < Count THEN TopK ELSE Count) /\ n \in 0..Count
  BY <1>1, <1>2 DEF MinOf
<1> HIDE DEF n
<1>4. \A j \in 1..n : Ordered[j] \in Int
  BY <1>2, <1>3
<1>5. Len(SubSeq(Ordered, 1, n)) = n /\ \A j \in 1..n : SubSeq(Ordered, 1, n)[j] = Ordered[j]
  BY <1>2, <1>3, <1>4, SubSeqProperties
<1>6. First = SubSeq(Ordered, 1, n)
  BY DEF First, n
<1> QED BY <1>1, <1>3, <1>5, <1>6

\* A document that passes is appended, one that does not is left out.
LEMMA ListGrows ==
  ASSUME SearchTypeOK, RankingIsOver, ListFollows, question \in Questions,
         UNCHANGED <<question, found, ranking, ranked>>,
         filtered < Len(First), filtered' = filtered + 1,
         NEW i \in 1..Count, Ordered[filtered + 1] = i,
         list' = IF Passes(i) THEN Append(list, i) ELSE list
  PROVE  list' \in Seq(Int) /\ ListFollows'
<1>1. /\ Count' = Count /\ (Usable' <=> Usable) /\ Ordered' = Ordered
      /\ \A k : (Passes(k)' <=> Passes(k)) /\ RankOf(k)' = RankOf(k)
  BY DEF Count, Usable, OneForEach, Ordered, Passes, RankOf
<1>2. /\ filtered \in Nat /\ Count \in Nat /\ filtered + 1 \in 1..Count
      /\ list \in Seq(Int) /\ Len(list) \in Nat /\ DOMAIN list = 1..Len(list)
  <2>1. Len(First) \in 0..Count /\ Count \in Nat
    BY FirstIs, CountIs
  <2>2. filtered \in Nat /\ list \in Seq(Int)
    BY DEF SearchTypeOK
  <2>3. \A n \in 0..Count : filtered < n => filtered + 1 \in 1..Count
    BY <2>1, <2>2
  <2> QED BY <2>1, <2>2, <2>3
<1>3. /\ Len(list) <= filtered
      /\ \A j \in 1..filtered : Ordered[j] \in 1..Count /\ (Passes(Ordered[j]) => InList(Ordered[j]))
      /\ \A k \in 1..Len(list) : Passes(list[k]) /\ \E j \in 1..filtered : Ordered[j] = list[k]
      /\ Usable => \A k, m \in 1..Len(list) : k < m => RankOf(list[k]) < RankOf(list[m])
  BY DEF ListFollows
<1>4. \A j \in 1..(filtered + 1) : j \in 1..filtered \/ j = filtered + 1
  BY <1>2
<1>5. 1..filtered \subseteq 1..(filtered + 1) /\ filtered + 1 \in 1..(filtered + 1)
  BY <1>2
<1>6. CASE ~Passes(i)
  <2>1. list' = list
    BY <1>6
  <2>2. \A k : InList(k)' <=> InList(k)
    BY <2>1 DEF InList
  <2>3. Len(list) <= filtered + 1
    BY <1>2, <1>3
  <2>4. \A j \in 1..(filtered + 1) : Ordered[j] \in 1..Count /\ (Passes(Ordered[j]) => InList(Ordered[j]))
    BY <1>3, <1>4, <1>6
  <2>5. \A k \in 1..Len(list) : Passes(list[k]) /\ \E j \in 1..(filtered + 1) : Ordered[j] = list[k]
    BY <1>3, <1>5
  <2> QED BY <1>1, <1>2, <1>3, <2>1, <2>2, <2>3, <2>4, <2>5 DEF ListFollows
<1>7. CASE Passes(i)
  <2> DEFINE n == Len(list)
  <2>1. /\ list' \in Seq(Int) /\ Len(list') = n + 1 /\ DOMAIN list' = 1..(n + 1)
        /\ \A k \in 1..n : list'[k] = list[k]
        /\ list'[n + 1] = i
    <3>1. list' = Append(list, i) /\ i \in Int
      BY <1>7
    <3> QED BY <1>2, <3>1
  <2>2. n \in Nat /\ n <= filtered /\ DOMAIN list = 1..n
    BY <1>2, <1>3
  <2> HIDE DEF n
  <2>3. \A k \in 1..(n + 1) : k \in 1..n \/ k = n + 1
    BY <2>2
  <2>4. n + 1 \in 1..(n + 1) /\ \A k \in 1..n : k \in 1..(n + 1)
    BY <2>2
  <2>5. InList(i)' /\ \A k : InList(k) => InList(k)'
    <3>1. InList(i)'
      BY <2>1, <2>4 DEF InList
    <3>2. ASSUME NEW k, InList(k) PROVE InList(k)'
      <4>1. PICK m \in 1..n : list[m] = k
        BY <2>2, <3>2 DEF InList
      <4>2. m \in DOMAIN list' /\ list'[m] = k
        BY <2>1, <2>4, <4>1
      <4> QED BY <4>2 DEF InList
    <3> QED BY <3>1, <3>2
  <2>6. n + 1 <= filtered + 1
    BY <1>2, <2>2
  <2>7. \A j \in 1..(filtered + 1) : Ordered[j] \in 1..Count /\ (Passes(Ordered[j]) => InList(Ordered[j])')
    BY <1>1, <1>3, <1>4, <2>5
  <2>8. \A k \in 1..(n + 1) : Passes(list'[k]) /\ \E j \in 1..(filtered + 1) : Ordered[j] = list'[k]
    <3>1. \A k \in 1..n : Passes(list'[k]) /\ \E j \in 1..filtered : Ordered[j] = list'[k]
      BY <1>3, <2>1 DEF n
    <3> QED BY <1>5, <1>7, <2>1, <2>3, <3>1
  <2>9. ASSUME Usable, NEW k \in 1..(n + 1), NEW m \in 1..(n + 1), k < m
        PROVE  RankOf(list'[k]) < RankOf(list'[m])
    <3>1. k \in 1..n
      BY <2>2, <2>9
    <3>2. CASE m \in 1..n
      BY <1>3, <2>1, <2>9, <3>1, <3>2 DEF n
    <3>3. CASE m = n + 1
      <4>1. PICK j \in 1..filtered : Ordered[j] = list[k]
        BY <1>3, <3>1 DEF n
      <4>2. j \in 1..Count /\ j < filtered + 1
        BY <1>2
      <4>3. RankOf(list[k]) = j /\ RankOf(i) = filtered + 1
        BY <1>2, <2>9, <4>1, <4>2, UsableOrder
      <4> QED BY <2>1, <3>1, <3>3, <4>2, <4>3
    <3> QED BY <2>3, <3>2, <3>3
  <2> QED BY <1>1, <2>1, <2>6, <2>7, <2>8, <2>9 DEF ListFollows
<1> QED BY <1>2, <1>6, <1>7

LEMMA SearchInvFilter ==
  ASSUME SearchInv, ServeSearch, Filter PROVE SearchInv'
<1>1. /\ served' = served /\ served = "search" /\ question' = question /\ question \in Questions
      /\ searchStage = "filtering" /\ found' = found /\ ranking' = ranking /\ ranked' = ranked
      /\ SearchTypeOK /\ RankingIsOver /\ ListFollows
  BY DEF SearchInv, ServeSearch, Filter
<1>2. /\ Count' = Count /\ (Usable' <=> Usable) /\ Ordered' = Ordered /\ First' = First
      /\ \A k : (Passes(k)' <=> Passes(k)) /\ RankOf(k)' = RankOf(k)
  BY <1>1 DEF Count, Usable, OneForEach, Ordered, Passes, RankOf, First, TopK, MinOf
<1>3. RankingIsOver'
  BY <1>1, <1>2 DEF RankingIsOver, GivenUp, Followed
<1>4. filtered \in Nat /\ Len(First) \in 0..Count /\ Count \in Nat /\ \A j \in 1..Len(First) : First[j] = Ordered[j]
  BY <1>1, FirstIs, CountIs DEF SearchTypeOK
<1>5. CASE filtered = Len(First) /\ searchStage' = "answered" /\ UNCHANGED <<filtered, list>>
  <2>1. SearchTypeOK' /\ (ListFollows' <=> ListFollows)
    BY <1>1, <1>2, <1>5 DEF SearchTypeOK, ListFollows, InList
  <2> QED BY <1>1, <1>2, <1>3, <1>5, <2>1 DEF SearchInv
<1>6. CASE filtered < Len(First)
  <2>1. filtered + 1 \in 1..Len(First) /\ filtered + 1 \in 1..Count
    <3>1. \A n \in 0..Count : filtered < n => filtered + 1 \in 1..n /\ filtered + 1 \in 1..Count
      BY <1>4
    <3> QED BY <1>4, <1>6, <3>1
  <2> DEFINE i == Ordered[filtered + 1]
  <2>2. First[filtered + 1] = i
    BY <1>4, <2>1
  <2>3. CASE i = Nobody
    <3>1. searchStage' = "crashed" /\ UNCHANGED <<filtered, list>>
      BY <1>1, <1>4, <1>6, <2>2, <2>3 DEF Filter
    <3>2. ~Usable
      <4>1. Nobody \notin 1..Count
        BY <1>4 DEF Nobody
      <4> QED BY <1>1, <2>1, <2>3, <4>1, UsableOrder
    <3>3. SearchTypeOK'
      BY <1>1, <3>1 DEF SearchTypeOK
    <3> QED BY <1>1, <1>2, <3>1, <3>2, <3>3 DEF SearchInv
  <2>4. CASE i # Nobody
    <3>1. i \in 1..Count
      BY <1>1, <2>1, <2>4, OrderedIs
    <3>2. /\ searchStage' = searchStage /\ filtered' = filtered + 1
          /\ list' = IF Passes(i) THEN Append(list, i) ELSE list
      BY <1>1, <1>4, <1>6, <2>2, <2>4 DEF Filter, Passes
    <3> HIDE DEF i
    <3>3. list' \in Seq(Int) /\ ListFollows'
      BY <1>1, <1>6, <3>1, <3>2, ListGrows DEF i
    <3>4. SearchTypeOK'
      BY <1>1, <1>4, <3>2, <3>3 DEF SearchTypeOK
    <3> QED BY <1>1, <1>2, <1>3, <3>2, <3>3, <3>4 DEF SearchInv
  <2> QED BY <2>3, <2>4
<1> QED BY <1>5, <1>6 DEF Filter

LEMMA SearchInvNext == SearchInv /\ [Next]_queryVars => SearchInv'
<1> SUFFICES ASSUME SearchInv, [Next]_queryVars PROVE SearchInv'
  OBVIOUS
<1>1. CASE ServeSearch
  <2>1. CASE SimilaritySearch \/ Fetch
    BY <1>1, <2>1, SearchInvFind
  <2>2. CASE AskReranker
    BY <1>1, <2>2, SearchInvAsk
  <2>3. CASE RankNext
    BY <1>1, <2>3, SearchInvRank
  <2>4. CASE Filter
    BY <1>1, <2>4, SearchInvFilter
  <2> QED BY <1>1, <2>1, <2>2, <2>3, <2>4 DEF ServeSearch, SearchNext
<1>2. CASE ServeTree
  BY <1>2, SearchInvUnchanged DEF ServeTree
<1>3. CASE ServeSummary
  BY <1>3, SearchInvUnchanged DEF ServeSummary
<1>4. CASE UNCHANGED queryVars
  BY <1>4, SearchInvUnchanged DEF queryVars
<1> QED BY <1>1, <1>2, <1>3, <1>4 DEF Next

\* What passes and is left out comes after topK others.
LEMMA LeftOutIsLast ==
  ASSUME SearchTypeOK, RankingIsOver, ListFollows, question \in Questions,
         filtered = Len(First), Usable,
         NEW i \in 1..Count, Passes(i), ~InList(i)
  PROVE  Cardinality({j \in DOMAIN found : RankOf(j) < RankOf(i)}) >= TopK
<1> DEFINE Before == {j \in 1..Count : RankOf(j) < RankOf(i)}
<1>1. Count \in Nat /\ DOMAIN found = 1..Count /\ TopK \in Nat \ {0}
  BY CountIs, FirstIs
<1>2. PICK r \in 1..Count : Ordered[r] = i
  BY UsableOrder
<1>3. RankOf(i) = r
  BY <1>2, UsableOrder
<1>4. r \notin 1..filtered
  BY <1>2 DEF ListFollows
<1>5. filtered = IF TopK < Count THEN TopK ELSE Count
  BY FirstIs
<1>6. TopK < r
  BY <1>1, <1>4, <1>5
<1> DEFINE f == [j \in 1..TopK |-> Ordered[j]]
<1>7. ASSUME NEW j \in 1..TopK PROVE j \in 1..Count /\ Ordered[j] \in Before /\ RankOf(Ordered[j]) = j
  <2>1. j \in 1..Count /\ j < r
    BY <1>1, <1>6
  <2>2. Ordered[j] \in 1..Count /\ RankOf(Ordered[j]) = j
    BY <2>1, UsableOrder
  <2> QED BY <1>3, <2>1, <2>2
<1>8. f \in Injection(1..TopK, Before)
  <2>1. f \in [1..TopK -> Before]
    <3> HIDE DEF Before
    <3> QED BY <1>7
  <2>2. ASSUME NEW j \in 1..TopK, NEW k \in 1..TopK, f[j] = f[k] PROVE j = k
    <3>1. Ordered[j] = Ordered[k]
      BY <2>2
    <3> QED BY <1>7, <3>1
  <2> HIDE DEF Before, f
  <2>3. DOMAIN f = 1..TopK
    BY <2>1
  <2> QED BY <2>1, <2>2, <2>3 DEF Injection, IsInjective
<1>9. IsFiniteSet(Before)
  <2>1. IsFiniteSet(1..Count)
    BY <1>1, FS_Interval
  <2>2. Before \in SUBSET (1..Count)
    OBVIOUS
  <2> HIDE DEF Before
  <2> QED BY <2>1, <2>2, FS_Subset
<1>10. Cardinality(1..TopK) <= Cardinality(Before)
  <2> HIDE DEF Before, f
  <2> QED BY <1>8, <1>9, FS_Injection
<1>11. Cardinality(1..TopK) = TopK
  BY <1>1, FS_Interval
<1>12. Cardinality(Before) \in Nat
  <2> HIDE DEF Before
  <2> QED BY <1>9, FS_CardinalityType
<1>13. \A n \in Nat : TopK <= n => n >= TopK
  BY <1>1
<1>14. Before = {j \in DOMAIN found : RankOf(j) < RankOf(i)}
  BY <1>1
<1> HIDE DEF Before
<1> QED BY <1>10, <1>11, <1>12, <1>13, <1>14

LEMMA SearchIsTrue == SearchInv => SearchKeepsDocuments
<1> SUFFICES ASSUME SearchInv PROVE SearchKeepsDocuments
  OBVIOUS
<1>1. searchStage = "crashed" => ~Usable
  BY DEF SearchInv
<1>2. ASSUME searchStage = "answered"
      PROVE  /\ Len(list) <= TopK
             /\ \A k \in DOMAIN list : list[k] \in DOMAIN found /\ found[list[k]].score >= question.threshold
             /\ Usable =>
                  /\ \A k, m \in DOMAIN list : k < m => RankOf(list[k]) < RankOf(list[m])
                  /\ \A i \in DOMAIN found :
                       found[i].score >= question.threshold /\ ~InList(i) =>
                         Cardinality({j \in DOMAIN found : RankOf(j) < RankOf(i)}) >= TopK
  <2>1. SearchTypeOK /\ RankingIsOver /\ ListFollows /\ question \in Questions /\ filtered = Len(First)
    BY <1>2 DEF SearchInv
  <2>2. Count \in Nat /\ DOMAIN found = 1..Count /\ TopK \in Nat \ {0} /\ Len(First) = IF TopK < Count THEN TopK ELSE Count
    BY <2>1, CountIs, FirstIs
  <2>3. Len(list) \in Nat /\ DOMAIN list = 1..Len(list) /\ Len(list) <= filtered
    BY <2>1 DEF SearchTypeOK, ListFollows
  <2>4. Len(list) <= TopK
    <3>1. filtered \in Nat /\ filtered <= TopK
      BY <2>1, <2>2
    <3>2. \A n \in Nat : n <= filtered => n <= TopK
      BY <2>2, <3>1
    <3> QED BY <2>3, <3>2
  <2>5. \A k \in DOMAIN list : list[k] \in DOMAIN found /\ found[list[k]].score >= question.threshold
    BY <2>1, <2>2, <2>3 DEF ListFollows, Passes
  <2>6. Usable => \A k, m \in DOMAIN list : k < m => RankOf(list[k]) < RankOf(list[m])
    BY <2>1, <2>3 DEF ListFollows
  <2>7. ASSUME Usable, NEW i \in DOMAIN found, found[i].score >= question.threshold, ~InList(i)
        PROVE  Cardinality({j \in DOMAIN found : RankOf(j) < RankOf(i)}) >= TopK
    <3>1. Passes(i)
      BY <2>7 DEF Passes
    <3> QED BY <2>1, <2>2, <2>7, <3>1, LeftOutIsLast
  <2> QED BY <2>4, <2>5, <2>6, <2>7
<1> QED BY <1>1, <1>2 DEF SearchKeepsDocuments

(***************************************************************************)
(* SemanticSearch, for any number of documents and whatever the ranking    *)
(* service answers: only what was found, at most topK and nothing below    *)
(* the threshold, the best kept in their order; the request crashes only   *)
(* when the service does not rank each document once.                      *)
(***************************************************************************)
THEOREM SearchKeepsDocumentsHolds == Spec => []SearchKeepsDocuments
<1> QED BY SearchInvInit, SearchInvNext, SearchIsTrue, PTL DEF Spec

-----------------------------------------------------------------------------
(***************************************************************************)
(* Sums.  Total is recursive on sets; that there is such a function, and   *)
(* what it computes, is shown from a smallest set for which it would not   *)
(* be so.                                                                  *)
(***************************************************************************)

\* The element a sum begins with, and what s says of S from smaller sets.
Pick(S)              == CHOOSE p \in S : TRUE
SumStep(counts, s, S) == IF S = {} THEN 0 ELSE counts[Pick(S)] + s[S \ {Pick(S)}]

UpToSize(D, n) == {S \in SUBSET D : Cardinality(S) <= n}

IsSum(counts, s, sets) == s = [S \in sets |-> SumStep(counts, s, S)]

LEMMA SmallerByOne ==
  ASSUME NEW D, IsFiniteSet(D), NEW S \in SUBSET D, S # {}
  PROVE  /\ Pick(S) \in S /\ S \ {Pick(S)} \in SUBSET D
         /\ IsFiniteSet(S) /\ Cardinality(S) \in Nat /\ Cardinality(S \ {Pick(S)}) = Cardinality(S) - 1
<1>1. Pick(S) \in S
  BY DEF Pick
<1>2. IsFiniteSet(S)
  BY FS_Subset
<1> QED BY <1>1, <1>2, FS_CardinalityType, FS_RemoveElement

LEMMA SumOfSmallSets ==
  ASSUME NEW D, IsFiniteSet(D), NEW counts, NEW n \in Nat
  PROVE  \E s : IsSum(counts, s, UpToSize(D, n))
<1> DEFINE Bad == {m \in Nat : ~\E s : IsSum(counts, s, UpToSize(D, m))}
<1> SUFFICES ASSUME Bad # {} PROVE FALSE
  OBVIOUS
<1>1. PICK m \in Bad : \A k \in Bad : m <= k
  <2>1. Bad \in SUBSET Nat
    OBVIOUS
  <2> HIDE DEF Bad
  <2> QED BY <2>1, LeastNat
<1>2. m \in Nat /\ ~\E s : IsSum(counts, s, UpToSize(D, m))
  BY <1>1
<1>3. \A S \in SUBSET D : Cardinality(S) \in Nat /\ (Cardinality(S) = 0 <=> S = {})
  BY FS_Subset, FS_CardinalityType, FS_EmptySet
<1>4. CASE m = 0
  <2>1. UpToSize(D, 0) = {{}}
    <3>1. \A S \in SUBSET D : Cardinality(S) <= 0 <=> S = {}
      BY <1>3
    <3> QED BY <3>1 DEF UpToSize
  <2> DEFINE s == [S \in UpToSize(D, 0) |-> 0]
  <2>2. s = [S \in UpToSize(D, 0) |-> SumStep(counts, s, S)]
    <3>1. \A S \in UpToSize(D, 0) : SumStep(counts, s, S) = 0
      BY <2>1 DEF SumStep
    <3> QED BY <3>1
  <2> HIDE DEF s
  <2> QED BY <1>2, <1>4, <2>2 DEF IsSum
<1>5. CASE m # 0
  <2>1. m - 1 \in Nat /\ m - 1 \notin Bad
    <3>1. m - 1 \in Nat /\ ~(m <= m - 1)
      BY <1>2, <1>5
    <3> HIDE DEF Bad
    <3> QED BY <1>1, <3>1
  <2>2. PICK t : IsSum(counts, t, UpToSize(D, m - 1))
    BY <2>1
  <2> DEFINE s == [S \in UpToSize(D, m) |-> SumStep(counts, t, S)]
  <2>3. ASSUME NEW S \in UpToSize(D, m) PROVE SumStep(counts, t, S) = SumStep(counts, s, S)
    <3>1. CASE S = {}
      BY <3>1 DEF SumStep
    <3>2. CASE S # {}
      <4> DEFINE T == S \ {Pick(S)}
      <4>1. S \in SUBSET D /\ Cardinality(S) <= m
        BY DEF UpToSize
      <4>2. T \in SUBSET D /\ Cardinality(S) \in Nat /\ Cardinality(T) = Cardinality(S) - 1
        BY <3>2, <4>1, SmallerByOne
      <4> HIDE DEF T
      <4>3. T \in UpToSize(D, m - 1) /\ T \in UpToSize(D, m)
        <5>1. \A k \in Nat : k <= m => k - 1 <= m - 1 /\ k - 1 <= m
          BY <1>2
        <5> QED BY <4>1, <4>2, <5>1 DEF UpToSize
      <4>4. t[T] = SumStep(counts, t, T)
        <5>1. t = [U \in UpToSize(D, m - 1) |-> SumStep(counts, t, U)]
          BY <2>2 DEF IsSum
        <5> QED BY <4>3, <5>1
      <4>5. s[T] = SumStep(counts, t, T)
        BY <4>3
      <4> QED BY <3>2, <4>4, <4>5 DEF SumStep, T
    <3> QED BY <3>1, <3>2
  <2>4. s = [S \in UpToSize(D, m) |-> SumStep(counts, s, S)]
    BY <2>3
  <2> HIDE DEF s
  <2> QED BY <1>2, <2>4 DEF IsSum
<1> QED BY <1>4, <1>5

\* There is a function as Total defines it.
LEMMA SumExists ==
  ASSUME NEW D, IsFiniteSet(D), NEW counts
  PROVE  \E s : IsSum(counts, s, SUBSET D)
<1>1. Cardinality(D) \in Nat
  BY FS_CardinalityType
<1>2. UpToSize(D, Cardinality(D)) = SUBSET D
  BY FS_Subset DEF UpToSize
<1>3. \E s : IsSum(counts, s, UpToSize(D, Cardinality(D)))
  BY <1>1, SumOfSmallSets
<1> QED BY <1>2, <1>3

LEMMA TotalIsSum ==
  ASSUME NEW counts, IsFiniteSet(DOMAIN counts)
  PROVE  \E s : IsSum(counts, s, SUBSET DOMAIN counts) /\ Total(counts) = s[DOMAIN counts]
<1> DEFINE sum[S \in SUBSET DOMAIN counts] ==
             IF S = {} THEN 0 ELSE LET p == CHOOSE p \in S : TRUE IN counts[p] + sum[S \ {p}]
<1>1. Total(counts) = sum[DOMAIN counts]
  BY DEF Total
<1> DEFINE Eq(s) == s = [S \in SUBSET DOMAIN counts |->
                          IF S = {} THEN 0 ELSE LET p == CHOOSE p \in S : TRUE IN counts[p] + s[S \ {p}]]
<1>2. sum = CHOOSE s : Eq(s)
  OBVIOUS
<1> HIDE DEF sum
<1>3. PICK s : IsSum(counts, s, SUBSET DOMAIN counts)
  BY SumExists
<1>4. Eq(s)
  BY <1>3 DEF IsSum, SumStep, Pick
<1>5. Eq(sum)
  <2> HIDE DEF Eq
  <2> QED BY <1>2, <1>4
<1>6. IsSum(counts, sum, SUBSET DOMAIN counts)
  BY <1>5 DEF IsSum, SumStep, Pick
<1> QED BY <1>1, <1>6

\* The groups of a set of objects by path, and the objects in some of them.
PathsOf(objects)     == {o.path : o \in objects}
GroupsOf(objects)    == [path \in PathsOf(objects) |-> Cardinality({o \in objects : o.path = path})]
ObjectsIn(objects, S) == {o \in objects : o.path \in S}

LEMMA PathsFinite ==
  ASSUME NEW objects, IsFiniteSet(objects)
  PROVE  IsFiniteSet(PathsOf(objects))
<1> DEFINE f == [o \in objects |-> o.path]
<1>1. f \in Surjection(objects, PathsOf(objects))
  BY DEF Surjection, PathsOf
<1> QED BY <1>1, FS_Surjection

\* The chunks of all files are all chunks, however they are added up.
LEMMA TotalOfGroups ==
  ASSUME NEW objects, IsFiniteSet(objects)
  PROVE  Total(GroupsOf(objects)) = Cardinality(objects)
<1> DEFINE D == PathsOf(objects)
           In(S) == ObjectsIn(objects, S)
           c == GroupsOf(objects)
<1>1. IsFiniteSet(D) /\ DOMAIN c = D
  BY PathsFinite DEF GroupsOf
<1>2. PICK s : IsSum(c, s, SUBSET D) /\ Total(c) = s[D]
  <2> HIDE DEF c, D
  <2> QED BY <1>1, TotalIsSum
<1>3. \A S \in SUBSET D : s[S] = SumStep(c, s, S)
  <2>1. s = [S \in SUBSET D |-> SumStep(c, s, S)]
    BY <1>2 DEF IsSum
  <2> HIDE DEF D, c
  <2> QED BY <2>1
<1>4. \A S : IsFiniteSet(In(S)) /\ Cardinality(In(S)) \in Nat
  <2>1. \A S : In(S) \in SUBSET objects
    BY DEF ObjectsIn
  <2> HIDE DEF In
  <2> QED BY <2>1, FS_Subset, FS_CardinalityType
<1> DEFINE Bad == {n \in Nat : \E S \in SUBSET D : Cardinality(S) = n /\ s[S] # Cardinality(In(S))}
<1>5. Bad = {}
  <2> SUFFICES ASSUME Bad # {} PROVE FALSE
    OBVIOUS
  <2>1. PICK n \in Bad : \A k \in Bad : n <= k
    <3>1. Bad \in SUBSET Nat
      OBVIOUS
    <3> HIDE DEF Bad
    <3> QED BY <3>1, LeastNat
  <2>2. n \in Nat
    BY <2>1
  <2>3. PICK S \in SUBSET D : Cardinality(S) = n /\ s[S] # Cardinality(In(S))
    BY <2>1
  <2>4. CASE S = {}
    <3>1. In(S) = {}
      BY <2>4 DEF ObjectsIn
    <3>2. Cardinality(In(S)) = 0
      BY <3>1, FS_EmptySet
    <3>3. s[S] = 0
      BY <1>3, <2>4 DEF SumStep
    <3> QED BY <2>3, <3>2, <3>3
  <2>5. CASE S # {}
    <3> DEFINE p == Pick(S)
               T == S \ {p}
    <3>1. p \in S /\ T \in SUBSET D /\ Cardinality(T) = n - 1 /\ n - 1 \in Nat
      <4>1. Pick(S) \in S /\ S \ {Pick(S)} \in SUBSET D /\ Cardinality(S \ {Pick(S)}) = Cardinality(S) - 1
        BY <1>1, <2>5, SmallerByOne
      <4>2. IsFiniteSet(S \ {Pick(S)})
        BY <1>1, <4>1, FS_Subset
      <4>3. Cardinality(S \ {Pick(S)}) \in Nat
        BY <4>2, FS_CardinalityType
      <4> QED BY <2>3, <4>1, <4>3
    <3> HIDE DEF p
    <3>2. s[T] = Cardinality(In(T))
      <4>1. n - 1 \notin Bad
        <5>1. ~(n <= n - 1)
          BY <2>2
        <5> HIDE DEF Bad
        <5> QED BY <2>1, <5>1
      <4> HIDE DEF T, D, In
      <4> QED BY <3>1, <4>1
    <3>3. s[S] = c[p] + s[T]
      BY <1>3, <2>3, <2>5 DEF SumStep, p
    <3>4. c[p] = Cardinality(In({p}))
      <4>1. p \in D
        BY <2>3, <3>1
      <4>2. c[p] = Cardinality({o \in objects : o.path = p})
        BY <4>1 DEF GroupsOf
      <4>3. {o \in objects : o.path = p} = In({p})
        BY DEF ObjectsIn
      <4> QED BY <4>2, <4>3
    <3>5. In(S) = In({p}) \cup In(T) /\ In({p}) \cap In(T) = {}
      BY <3>1 DEF ObjectsIn
    <3>6. Cardinality(In(S)) = Cardinality(In({p})) + Cardinality(In(T))
      <4> HIDE DEF In, T
      <4>1. Cardinality(In({p}) \cup In(T)) = Cardinality(In({p})) + Cardinality(In(T)) - Cardinality(In({p}) \cap In(T))
        BY <1>4, FS_Union
      <4>2. Cardinality({}) = 0
        BY FS_EmptySet
      <4>3. Cardinality(In({p}) \cap In(T)) = 0
        BY <3>5, <4>2
      <4>4. \A a, b \in Nat : a + b - 0 = a + b
        OBVIOUS
      <4>5. Cardinality(In({p})) \in Nat /\ Cardinality(In(T)) \in Nat
        BY <1>4
      <4>6. Cardinality(In(S)) = Cardinality(In({p})) + Cardinality(In(T)) - 0
        BY <3>5, <4>1, <4>3
      <4> QED BY <4>4, <4>5, <4>6
    <3> HIDE DEF In, T, c
    <3> QED BY <2>3, <3>2, <3>3, <3>4, <3>6
  <2> QED BY <2>4, <2>5
<1>6. s[D] = Cardinality(In(D))
  <2>1. Cardinality(D) \in Nat /\ D \in SUBSET D
    BY <1>1, FS_CardinalityType
  <2> HIDE DEF D, In
  <2> QED BY <1>5, <2>1
<1>7. In(D) = objects
  BY DEF ObjectsIn, PathsOf
<1> QED BY <1>2, <1>6, <1>7

-----------------------------------------------------------------------------
(* The summaries.                                                          *)

\* Each active row has its place among the items.
LEMMA ActivePlace ==
  ASSUME table \in Tables
  PROVE  /\ Cardinality(ActiveRows) \in Nat
         /\ \A r \in ActiveRows :
              LET k == Cardinality({j \in ActiveRows : j <= r})
              IN  k \in 1..Cardinality(ActiveRows) /\ Active[k] = table[r]
<1> DEFINE UpTo(r) == {j \in ActiveRows : j <= r}
<1>1. ActiveRows \in SUBSET (1..Len(table)) /\ Len(table) \in Nat
  BY TablesAssumption DEF ActiveRows
<1>2. IsFiniteSet(ActiveRows) /\ Cardinality(ActiveRows) \in Nat
  <2>1. IsFiniteSet(1..Len(table))
    BY <1>1, FS_Interval
  <2>2. IsFiniteSet(ActiveRows)
    BY <1>1, <2>1, FS_Subset
  <2> QED BY <2>2, FS_CardinalityType
<1>3. ASSUME NEW r \in ActiveRows
      PROVE  /\ UpTo(r) \in SUBSET ActiveRows /\ r \in UpTo(r) /\ IsFiniteSet(UpTo(r))
             /\ Cardinality(UpTo(r)) \in 1..Cardinality(ActiveRows)
  <2>1. r \in Nat /\ UpTo(r) \in SUBSET ActiveRows /\ r \in UpTo(r)
    BY <1>1
  <2> HIDE DEF UpTo
  <2>2. IsFiniteSet(UpTo(r)) /\ Cardinality(UpTo(r)) <= Cardinality(ActiveRows)
    BY <1>2, <2>1, FS_Subset
  <2>3. Cardinality(UpTo(r)) \in Nat /\ Cardinality(UpTo(r)) # 0
    BY <2>1, <2>2, FS_CardinalityType, FS_EmptySet
  <2> QED BY <1>2, <2>1, <2>2, <2>3
<1>4. ASSUME NEW q \in ActiveRows, NEW r \in ActiveRows, q < r
      PROVE  Cardinality(UpTo(q)) # Cardinality(UpTo(r))
  <2>1. \A j \in ActiveRows : j \in Nat
    BY <1>1
  <2>2. UpTo(q) \in SUBSET UpTo(r) /\ r \notin UpTo(q)
    BY <1>4, <2>1
  <2>3. r \in UpTo(r) /\ IsFiniteSet(UpTo(r))
    BY <1>3
  <2> HIDE DEF UpTo
  <2> QED BY <2>2, <2>3, FS_Subset
<1>5. ASSUME NEW r \in ActiveRows
      PROVE  Active[Cardinality(UpTo(r))] = table[r]
  <2> DEFINE k == Cardinality(UpTo(r))
  <2>1. k \in 1..Cardinality(ActiveRows)
    BY <1>3
  <2>2. Active[k] = table[CHOOSE i \in ActiveRows : Cardinality(UpTo(i)) = k]
    BY <2>1 DEF Active
  <2>3. \A i \in ActiveRows : Cardinality(UpTo(i)) = k => i = r
    <3>1. \A i \in ActiveRows : i \in Nat
      BY <1>1
    <3>2. \A i \in ActiveRows : i < r \/ r < i \/ i = r
      BY <3>1
    <3> HIDE DEF UpTo
    <3> QED BY <1>4, <3>2
  <2>4. (CHOOSE i \in ActiveRows : Cardinality(UpTo(i)) = k) = r
    <3> HIDE DEF UpTo
    <3> QED BY <2>3
  <2> QED BY <2>2, <2>4
<1> QED BY <1>2, <1>3, <1>5

\* The counts of one codebase are true.
LEMMA SummaryIsTrue ==
  ASSUME stored \in Stores, NEW codebase
  PROVE  TrueCount(codebase, IndexSummary(codebase))
<1> DEFINE O == {o \in stored : o.codebase = codebase /\ o.language \in Languages}
<1>1. IsFiniteSet(O)
  <2>1. IsFiniteSet(stored)
    BY StoresAssumption
  <2>2. O \in SUBSET stored
    OBVIOUS
  <2> HIDE DEF O
  <2> QED BY <2>1, <2>2, FS_Subset
<1>2. Groups(codebase) = GroupsOf(O)
  BY DEF Groups, GroupsOf, PathsOf
<1>3. Total(Groups(codebase)) = Cardinality(O)
  <2> HIDE DEF O
  <2> QED BY <1>1, <1>2, TotalOfGroups
<1>4. DOMAIN Groups(codebase) = {o.path : o \in O}
  BY DEF Groups
<1>5. Cardinality(O) \in Nat /\ (Cardinality(O) = 0 <=> O = {})
  <2> HIDE DEF O
  <2> QED BY <1>1, FS_CardinalityType, FS_EmptySet
<1> DEFINE item == IndexSummary(codebase)
<1>6. /\ item.files = Cardinality({o.path : o \in O}) /\ item.chunks = Cardinality(O)
      /\ item.status = StatusOf(Cardinality(O))
  <2> HIDE DEF O
  <2> QED BY <1>3, <1>4 DEF IndexSummary
<1>7. StatusOf(Cardinality(O)) = "success" <=> O # {} /\ kind # "query"
  <2>1. Cardinality(O) > 0 <=> O # {}
    <3> HIDE DEF O
    <3>1. \A n \in Nat : n > 0 <=> n # 0
      OBVIOUS
    <3> QED BY <1>5, <3>1
  <2> HIDE DEF O
  <2> QED BY <2>1 DEF StatusOf
<1> HIDE DEF item
<1>8. /\ item.chunks = Cardinality(O)
      /\ item.files = Cardinality({o.path : o \in O})
      /\ item.status = "success" <=> O # {} /\ kind # "query"
  BY <1>6, <1>7
<1> QED BY <1>8 DEF TrueCount, item

\* What has been counted is in its place: of each active codebase its own counts or none, or of the one asked about.
ItemsFollow ==
  /\ kind = "vectors" /\ sumStage \in {"counting", "answered"} =>
       /\ DOMAIN workers = 1..Cardinality(ActiveRows) /\ DOMAIN items = 1..Cardinality(ActiveRows)
       /\ items = [i \in DOMAIN items |-> items[i]]
       /\ \A i \in DOMAIN items : items[i] = NoCount \/ items[i] = IndexSummary(Active[i].codebase)
  /\ kind # "vectors" /\ sumStage = "answered" => items = <<IndexSummary(about)>>

SumInv ==
  /\ served = "summary" => table \in Tables /\ stored \in Stores
  /\ served # "summary" => sumStage = "checking"
  /\ ItemsFollow

LEMMA SumInvInit == Init => SumInv
<1> SUFFICES ASSUME Init PROVE SumInv
  OBVIOUS
<1>1. sumStage = "checking"
  BY DEF Init, SummaryInit
<1> QED BY <1>1 DEF Init, SummaryInit, SumInv, ItemsFollow

LEMMA SumInvUnchanged ==
  ASSUME SumInv, UNCHANGED <<served, sumVars>> PROVE SumInv'
<1>1. /\ served' = served /\ table' = table /\ stored' = stored /\ kind' = kind /\ about' = about
      /\ sumStage' = sumStage /\ workers' = workers /\ items' = items
  BY DEF sumVars
<1>2. ActiveRows' = ActiveRows /\ Active' = Active
  BY <1>1 DEF ActiveRows, Active
<1>3. \A c : IndexSummary(c)' = IndexSummary(c)
  BY <1>1 DEF IndexSummary, Groups, StatusOf, Languages
<1> QED BY <1>1, <1>2, <1>3 DEF SumInv, ItemsFollow

LEMMA SumInvNext == SumInv /\ [Next]_queryVars => SumInv'
<1> SUFFICES ASSUME SumInv, [Next]_queryVars PROVE SumInv'
  OBVIOUS
<1>1. CASE ServeSummary
  <2>1. /\ served' = served /\ served = "summary" /\ table \in Tables /\ stored \in Stores
        /\ table' = table /\ stored' = stored /\ kind' = kind /\ about' = about
    BY <1>1 DEF SumInv, ServeSummary, SummaryNext, Begin, CountOne, CountQueried, Answer, CountItem, AnswerAll
  <2>2. ActiveRows' = ActiveRows /\ Active' = Active /\ DOMAIN Active = 1..Cardinality(ActiveRows)
    BY <2>1 DEF ActiveRows, Active
  <2>3. \A c : IndexSummary(c)' = IndexSummary(c)
    BY <2>1 DEF IndexSummary, Groups, StatusOf, Languages
  <2>4. SUFFICES ItemsFollow'
    BY <2>1 DEF SumInv
  <2>5. CASE Begin
    <3>1. CASE sumStage' = "error"
      BY <3>1 DEF ItemsFollow
    <3>2. CASE sumStage' = "counting"
      <4>1. /\ items' = IF kind = "vectors" THEN [i \in DOMAIN Active |-> NoCount] ELSE <<>>
            /\ workers' = [i \in DOMAIN items' |-> "counting"]
        BY <2>5, <3>2 DEF Begin
      <4> QED BY <2>1, <2>2, <3>2, <4>1 DEF ItemsFollow
    <3> QED BY <2>5, <3>1, <3>2 DEF Begin
  <2>6. CASE CountOne \/ CountQueried
    <3>1. kind # "vectors" /\ Answer(IndexSummary(about))
      BY <2>6 DEF CountOne, CountQueried
    <3>2. sumStage' = "error" \/ items' = <<IndexSummary(about)>>
      BY <3>1 DEF Answer
    <3> QED BY <2>1, <2>3, <3>1, <3>2 DEF ItemsFollow
  <2>7. ASSUME NEW i \in DOMAIN workers, CountItem(i) PROVE ItemsFollow'
    <3>1. kind = "vectors" /\ sumStage = "counting" /\ sumStage' = sumStage
      BY <2>7 DEF CountItem
    <3>2. /\ DOMAIN workers = 1..Cardinality(ActiveRows) /\ DOMAIN items = 1..Cardinality(ActiveRows)
          /\ items = [j \in DOMAIN items |-> items[j]]
          /\ \A j \in DOMAIN items : items[j] = NoCount \/ items[j] = IndexSummary(Active[j].codebase)
      BY <3>1 DEF SumInv, ItemsFollow
    <3>3. PICK item \in {IndexSummary(Active[i].codebase), NoCount} : items' = [items EXCEPT ![i] = item]
      BY <2>7 DEF CountItem, ItemOf
    <3>4. DOMAIN workers' = DOMAIN workers
      BY <2>7 DEF CountItem
    <3>5. items' = [j \in DOMAIN items |-> IF j = i THEN item ELSE items[j]]
      BY <3>2, <3>3
    <3> QED BY <2>1, <2>2, <2>3, <3>1, <3>2, <3>3, <3>4, <3>5 DEF ItemsFollow
  <2>8. CASE AnswerAll
    <3>1. kind = "vectors" /\ sumStage = "counting" /\ workers' = workers /\ items' = items
      BY <2>8 DEF AnswerAll
    <3> QED BY <2>1, <2>2, <2>3, <3>1 DEF SumInv, ItemsFollow
  <2> QED BY <1>1, <2>5, <2>6, <2>7, <2>8 DEF ServeSummary, SummaryNext
<1>2. CASE ServeTree
  BY <1>2, SumInvUnchanged DEF ServeTree
<1>3. CASE ServeSearch
  BY <1>3, SumInvUnchanged DEF ServeSearch
<1>4. CASE UNCHANGED queryVars
  BY <1>4, SumInvUnchanged DEF queryVars
<1> QED BY <1>1, <1>2, <1>3, <1>4 DEF Next

LEMMA SummariesTrue == SumInv => SummariesAreTrue
<1> SUFFICES ASSUME SumInv, sumStage = "answered"
             PROVE  IF kind = "vectors"
                    THEN /\ Len(items) = Cardinality(ActiveRows)
                         /\ \A r \in ActiveRows :
                              LET item == items[Cardinality({j \in ActiveRows : j <= r})]
                              IN item = NoCount \/ TrueCount(table[r].codebase, item)
                    ELSE TrueCount(about, items[1])
  BY DEF SummariesAreTrue
<1>1. table \in Tables /\ stored \in Stores
  BY DEF SumInv
<1>2. CASE kind = "vectors"
  <2>1. /\ DOMAIN items = 1..Cardinality(ActiveRows) /\ items = [i \in DOMAIN items |-> items[i]]
        /\ \A i \in DOMAIN items : items[i] = NoCount \/ items[i] = IndexSummary(Active[i].codebase)
    BY <1>2 DEF SumInv, ItemsFollow
  <2>2. Cardinality(ActiveRows) \in Nat
    BY <1>1, ActivePlace
  <2>3. Len(items) = Cardinality(ActiveRows)
    <3>1. items \in [1..Cardinality(ActiveRows) -> {items[i] : i \in DOMAIN items}]
      BY <2>1
    <3> QED BY <2>2, <3>1
  <2>4. ASSUME NEW r \in ActiveRows
        PROVE  LET item == items[Cardinality({j \in ActiveRows : j <= r})]
               IN item = NoCount \/ TrueCount(table[r].codebase, item)
    <3> DEFINE k == Cardinality({j \in ActiveRows : j <= r})
    <3>1. k \in 1..Cardinality(ActiveRows) /\ Active[k] = table[r]
      BY <1>1, ActivePlace
    <3> HIDE DEF k
    <3>2. items[k] = NoCount \/ items[k] = IndexSummary(table[r].codebase)
      BY <2>1, <3>1
    <3>3. items[k] = NoCount \/ TrueCount(table[r].codebase, items[k])
      BY <1>1, <3>2, SummaryIsTrue
    <3> QED BY <3>3 DEF k
  <2> QED BY <1>2, <2>3, <2>4
<1>3. CASE kind # "vectors"
  <2>1. items[1] = IndexSummary(about)
    BY <1>3 DEF SumInv, ItemsFollow
  <2> QED BY <1>1, <1>3, <2>1, SummaryIsTrue
<1> QED BY <1>2, <1>3

(***************************************************************************)
(* The summaries, for every table of codebases, every set of stored chunks *)
(* and every order in which the counts come in: each codebase has its own  *)
(* item, with its own counts or, when its query has failed, with none.     *)
(***************************************************************************)
THEOREM SummariesAreTrueHolds == Spec => []SummariesAreTrue
<1> QED BY SumInvInit, SumInvNext, SummariesTrue, PTL DEF Spec
=============================================================================
