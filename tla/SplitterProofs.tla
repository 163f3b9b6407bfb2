---------------------------- MODULE SplitterProofs ----------------------------
(***************************************************************************)
(* Theorems about Splitter: of the sliding window, for texts, windows and  *)
(* overlaps of any length and any newlines, and of the pieces, for any     *)
(* syntax tree, outline and API.                                           *)
(***************************************************************************)
EXTENDS Splitter, FiniteSetTheorems, WellFoundedInduction, SequenceTheorems, TLAPS

-----------------------------------------------------------------------------
(* The inductive invariant.                                                *)

WindowType == [from : Nat, to : Nat, lines : Int \X Int]

WindowTypeOK ==
  /\ total \in Nat /\ newlines \in SUBSET (1..total)
  /\ limit \in Int /\ overlap \in Int /\ start \in Nat
  /\ windows \in Seq(WindowType)
  /\ cutting \in BOOLEAN

\* What the loop has found out before it cuts: an overlap that lets windows advance.
Advances == cutting \/ windows # <<>> => overlap >= 0 /\ overlap < limit

\* The next window begins inside the last one and will end after it.
NextIsAhead ==
  cutting =>
    /\ start < total
    /\ windows = <<>> => start = 0
    /\ windows # <<>> => LET last == windows[Len(windows)]
                         IN  /\ last.from < start /\ start <= last.to
                             /\ last.to < start + limit /\ last.to < total

\* The range of a window is that of its first and last unit.
LinesFollow ==
  \A i \in DOMAIN windows :
    LET w == windows[i] IN w.lines = <<FirstLine(w.from), LastLine(w.from, w.to)>>

Inv ==
  /\ options \in Options
  /\ WindowTypeOK
  /\ Advances
  /\ NextIsAhead
  /\ LinesFollow
  /\ WindowsCoverText

-----------------------------------------------------------------------------
(* Counting lines.                                                         *)

\* The newlines of a stretch of a text.
Within(breaks, from, to) == {k \in breaks : from < k /\ k <= to}

LEMMA WithinFinite ==
  ASSUME NEW n \in Nat, NEW breaks \in SUBSET (1..n), NEW S \in SUBSET breaks
  PROVE  IsFiniteSet(S) /\ Cardinality(S) \in Nat
<1>1. IsFiniteSet(1..n)
  BY FS_Interval
<1>2. IsFiniteSet(S)
  BY <1>1, FS_Subset
<1> QED BY <1>2, FS_CardinalityType

\* A stretch that is not empty has a line.
LEMMA LinesOfStretch ==
  ASSUME WindowTypeOK, NEW from \in Nat, NEW to \in Nat, from < to
  PROVE  CountLines(from, to) \in Nat /\ CountLines(from, to) >= 1
<1> DEFINE N == Within(newlines, from, to)
<1>1. IsFiniteSet(N) /\ Cardinality(N) \in Nat
  BY WithinFinite DEF Within, WindowTypeOK
<1>2. CountLines(from, to) = Cardinality(N) + (IF from < to /\ to \notin newlines THEN 1 ELSE 0)
  BY DEF CountLines, Within
<1>3. to \in newlines => Cardinality(N) # 0
  <2>1. to \in newlines => N # {}
    BY DEF Within
  <2> QED BY <1>1, <2>1, FS_EmptySet
<1> HIDE DEF N
<1> QED BY <1>1, <1>2, <1>3

\* The line a window is said to begin in is the one of its first unit or the one after.
LEMMA FirstLineIsNear ==
  ASSUME WindowTypeOK, NEW from \in Nat
  PROVE  /\ FirstLine(from) \in Nat /\ LineOf(from + 1) \in Nat
         /\ FirstLine(from) - LineOf(from + 1) \in {0, 1}
<1> DEFINE N == Within(newlines, 0, from)
<1>1. Cardinality(N) \in Nat
  BY WithinFinite DEF Within, WindowTypeOK
<1>2. N = {k \in newlines : k < from + 1}
  <2>1. \A k \in newlines : k \in Nat /\ 0 < k
    BY DEF WindowTypeOK
  <2>2. \A k \in newlines : (0 < k /\ k <= from) <=> k < from + 1
    BY <2>1
  <2> QED BY <2>2 DEF Within
<1>3. LineOf(from + 1) = Cardinality(N)
  BY <1>2 DEF LineOf
<1>4. FirstLine(from) = Cardinality(N) + (IF 0 < from /\ from \notin newlines THEN 1 ELSE 0)
  BY DEF FirstLine, CountLines, Within
<1> HIDE DEF N
<1> QED BY <1>1, <1>3, <1>4

\* A later window begins in the same line or a later one.
LEMMA FirstLineGrows ==
  ASSUME WindowTypeOK, NEW from \in Nat, NEW next \in Nat, from < next
  PROVE  FirstLine(from) <= FirstLine(next)
<1> DEFINE N == Within(newlines, 0, from)
           M == Within(newlines, 0, next)
<1>1. IsFiniteSet(N) /\ IsFiniteSet(M) /\ Cardinality(N) \in Nat /\ Cardinality(M) \in Nat
  BY WithinFinite DEF Within, WindowTypeOK
<1>2. FirstLine(from) = Cardinality(N) + (IF 0 < from /\ from \notin newlines THEN 1 ELSE 0)
  BY DEF FirstLine, CountLines, Within
<1>3. FirstLine(next) = Cardinality(M) + (IF 0 < next /\ next \notin newlines THEN 1 ELSE 0)
  BY DEF FirstLine, CountLines, Within
<1>4. N \subseteq M
  <2>1. \A k \in newlines : k \in Nat
    BY DEF WindowTypeOK
  <2>2. \A k \in newlines : k <= from => k <= next
    BY <2>1
  <2> QED BY <2>2 DEF Within
<1>5. Cardinality(N) <= Cardinality(M)
  BY <1>1, <1>4, FS_Subset
<1>6. next \in newlines => Cardinality(N) + 1 <= Cardinality(M)
  <2> SUFFICES ASSUME next \in newlines PROVE Cardinality(N) + 1 <= Cardinality(M)
    OBVIOUS
  <2>1. next \notin N /\ N \cup {next} \in SUBSET M
    BY <1>4 DEF Within
  <2>2. Cardinality(N \cup {next}) = Cardinality(N) + 1
    BY <1>1, <2>1, FS_AddElement
  <2>3. Cardinality(N \cup {next}) <= Cardinality(M)
    BY <1>1, <2>1, FS_Subset
  <2> QED BY <2>2, <2>3
<1> HIDE DEF N, M
<1> QED BY <1>1, <1>2, <1>3, <1>5, <1>6

-----------------------------------------------------------------------------
(* Steps.                                                                  *)

\* A step of Split leaves the window alone, calls it, or is one of its loop.
LEMMA StepsOfSplit ==
  ASSUME Inv, Next
  PROVE  /\ options' = options
         /\ \/ UNCHANGED windowVars
            \/ \E n \in Nat, size \in Int, shared \in Int :
                 \E breaks \in SUBSET (1..n) : Call(n, breaks, size, shared)
            \/ Window
            \/ Return
<1>1. ASSUME NEW p, Take(p)
      PROVE  \/ UNCHANGED windowVars
             \/ \E n \in Nat, size \in Int, shared \in Int :
                  \E breaks \in SUBSET (1..n) : Call(n, breaks, size, shared)
  <2>1. CASE Whole(p)
    BY <2>1 DEF Whole
  <2>2. CASE Cut(p)
    <3>1. PICK unit \in {1, 4} : \E n \in 1..MaxUnits : \E breaks \in Breaks(n) :
                 Call(n, breaks, options.max * unit, options.overlap * unit)
      BY <2>2 DEF Cut, BytesPerToken
    <3>2. options.max * unit \in Int /\ options.overlap * unit \in Int
      BY OptionsAssumption DEF Inv
    <3>3. PICK n \in 1..MaxUnits : \E breaks \in Breaks(n) :
                 Call(n, breaks, options.max * unit, options.overlap * unit)
      BY <3>1
    <3>4. n \in Nat /\ Breaks(n) \subseteq SUBSET (1..n)
      BY BoundAssumption DEF Breaks
    <3> QED BY <3>2, <3>3, <3>4
  <2> QED BY <1>1, <2>1, <2>2 DEF Take
<1>2. CASE Choose
  BY <1>2 DEF Choose
<1>3. CASE VisitNode
  BY <1>1, <1>3 DEF VisitNode, Finished
<1>4. CASE VisitHeading
  BY <1>1, <1>4 DEF VisitHeading, Finished
<1>5. CASE VisitPath
  BY <1>5 DEF VisitPath, Finished, Whole
<1>6. CASE CutOn \/ Collect
  BY <1>6 DEF CutOn, Collect, splitVars
<1> QED BY <1>2, <1>3, <1>4, <1>5, <1>6 DEF Next

LEMMA EmptyKeeps ==
  ASSUME Inv, options' = options, windows' = <<>>, total' \in Nat, newlines' \in SUBSET (1..total'),
         limit' \in Int, overlap' \in Int, start' = 0,
         cutting' \in BOOLEAN, cutting' => Cuttable(total', limit', overlap')
  PROVE  Inv'
  BY DEF Inv, WindowTypeOK, Advances, NextIsAhead, LinesFollow, WindowsCoverText, Cuttable

\* One iteration of the loop.
LEMMA WindowKeeps == ASSUME Inv, options' = options, Window PROVE Inv'
<1> DEFINE to == IF start + limit > total THEN total ELSE start + limit
           w  == [from |-> start, to |-> to, lines |-> <<FirstLine(start), LastLine(start, to)>>]
<1>1. /\ cutting /\ windows' = Append(windows, w) /\ cutting' = (to < total)
      /\ start' = (IF to < total THEN NextStart(to) ELSE start)
      /\ UNCHANGED <<total, newlines, limit, overlap>>
  BY DEF Window
<1>2. /\ WindowTypeOK
      /\ overlap >= 0 /\ overlap < limit /\ start < total
      /\ windows = <<>> => start = 0
  BY <1>1 DEF Inv, Advances, NextIsAhead
<1>3. /\ to \in Nat /\ start < to /\ to <= total /\ to - start <= limit
      /\ to < total => to = start + limit
  BY <1>2 DEF WindowTypeOK
<1>4. to < total => /\ start' \in Nat /\ start < start' /\ start' <= to
                    /\ to < start' + limit /\ start' < total
  BY <1>1, <1>2, <1>3 DEF WindowTypeOK, NextStart
<1>5. w.from = start /\ w.to = to /\ w.lines = <<FirstLine(start), LastLine(start, to)>> /\ w \in WindowType
  <2> HIDE DEF to
  <2>1. FirstLine(start) \in Int /\ CountLines(start, to) \in Int
    <3>1. start \in Nat
      BY <1>2 DEF WindowTypeOK
    <3> QED BY <1>2, <1>3, <3>1, LinesOfStretch, FirstLineIsNear
  <2>2. FirstLine(start) \in Int /\ LastLine(start, to) \in Int
    BY <2>1 DEF LastLine
  <2> QED BY <1>2, <1>3, <2>2 DEF WindowTypeOK, WindowType
<1> HIDE DEF w, to
<1>6. /\ windows' \in Seq(WindowType) /\ windows' # <<>>
      /\ Len(windows') = Len(windows) + 1
      /\ windows'[Len(windows')] = w
      /\ \A i \in 1..Len(windows) : windows'[i] = windows[i]
      /\ DOMAIN windows = 1..Len(windows) /\ DOMAIN windows' = 1..Len(windows')
      /\ Len(windows) \in Nat
  BY <1>1, <1>2, <1>5 DEF WindowTypeOK
<1>7. WindowTypeOK'
  BY <1>1, <1>2, <1>4, <1>6 DEF WindowTypeOK
<1>8. Advances' /\ NextIsAhead'
  BY <1>1, <1>2, <1>3, <1>4, <1>5, <1>6 DEF Advances, NextIsAhead
<1>9. LinesFollow'
  <2>1. \A from, end : FirstLine(from)' = FirstLine(from) /\ LastLine(from, end)' = LastLine(from, end)
    BY <1>1 DEF FirstLine, LastLine, CountLines
  <2> QED BY <1>5, <1>6, <2>1 DEF Inv, LinesFollow
<1>10. WindowsCoverText'
  <2> SUFFICES ASSUME NEW i \in DOMAIN windows'
               PROVE  /\ windows'[i].from < windows'[i].to
                      /\ windows'[i].to - windows'[i].from <= limit'
                      /\ i = 1 => windows'[i].from = 0
                      /\ i > 1 => /\ windows'[i - 1].from < windows'[i].from
                                  /\ windows'[i].from <= windows'[i - 1].to
                                  /\ windows'[i - 1].to < windows'[i].to
    <3>1. ~cutting' => ~(to < total)
      BY <1>1
    <3>2. ~cutting' => to = total
      BY <1>2, <1>3, <3>1 DEF WindowTypeOK
    <3>3. ~cutting' => windows'[Len(windows')].to = total'
      BY <1>1, <1>5, <1>6, <3>2
    <3> QED BY <3>3 DEF WindowsCoverText
  <2>1. CASE i \in 1..Len(windows)
    BY <1>1, <1>6, <2>1 DEF Inv, WindowsCoverText
  <2>2. CASE i = Len(windows')
    <3>1. i > 1 => /\ windows # <<>> /\ windows'[i - 1] = windows[Len(windows)]
      BY <1>6, <2>2
    <3>2. i = 1 => windows = <<>>
      BY <1>2, <1>6, <2>2 DEF WindowTypeOK
    <3>3. i > 1 => /\ windows[Len(windows)].from < start /\ start <= windows[Len(windows)].to
                   /\ windows[Len(windows)].to < to
      BY <1>1, <1>2, <1>3, <1>6, <3>1 DEF Inv, NextIsAhead, to
    <3> QED BY <1>1, <1>2, <1>3, <1>5, <1>6, <2>2, <3>1, <3>2, <3>3
  <2> QED BY <1>6, <2>1, <2>2
<1> QED BY <1>7, <1>8, <1>9, <1>10 DEF Inv

LEMMA InitInv == Init => Inv
<1> SUFFICES ASSUME Init PROVE Inv
  OBVIOUS
<1>1. WindowTypeOK
  <2>1. <<>> \in Seq(WindowType) /\ {} \in SUBSET (1..0)
    OBVIOUS
  <2>2. /\ total = 0 /\ newlines = {} /\ limit = 1 /\ overlap = 0
        /\ start = 0 /\ windows = <<>> /\ cutting = FALSE
    BY DEF Init, NoText
  <2>3. windows \in Seq(WindowType) /\ newlines \in SUBSET (1..total)
    BY <2>1, <2>2
  <2>4. cutting \in BOOLEAN
    BY <2>2, Zenon
  <2>5. total \in Nat /\ limit \in Int /\ overlap \in Int /\ start \in Nat
    BY <2>2
  <2> QED BY <2>3, <2>4, <2>5, Zenon DEF WindowTypeOK
<1> QED BY <1>1 DEF Init, NoText, Inv, Advances, NextIsAhead, LinesFollow, WindowsCoverText

LEMMA StepInv == Inv /\ [Next]_vars => Inv'
<1> SUFFICES ASSUME Inv, [Next]_vars PROVE Inv'
  OBVIOUS
<1>1. ASSUME options' = options, UNCHANGED windowVars PROVE Inv'
  BY <1>1 DEF windowVars, Inv, WindowTypeOK, Advances, NextIsAhead, LinesFollow, WindowsCoverText,
              FirstLine, LastLine, CountLines
<1>2. ASSUME options' = options, Return PROVE Inv'
  <2>1. total' \in Nat /\ newlines' \in SUBSET (1..total') /\ limit' \in Int /\ overlap' \in Int
    BY <1>2 DEF Return
  <2> QED BY <1>2, <2>1, EmptyKeeps DEF Return
<1>3. ASSUME options' = options, NEW n \in Nat, NEW size \in Int, NEW shared \in Int,
             NEW breaks \in SUBSET (1..n), Call(n, breaks, size, shared)
      PROVE  Inv'
  BY <1>3, EmptyKeeps DEF Call, Cuttable
<1>4. CASE UNCHANGED vars
  BY <1>1, <1>4 DEF vars, splitVars
<1> QED BY <1>1, <1>2, <1>3, <1>4, StepsOfSplit, WindowKeeps

LEMMA Invariance == Spec => []Inv
  BY InitInv, StepInv, PTL DEF Spec

-----------------------------------------------------------------------------
(***************************************************************************)
(* The windows of a text leave nothing out and all advance, so that the    *)
(* loop ends, whatever the lengths: also where the last one is moved back. *)
(***************************************************************************)
THEOREM WindowsCoverTextHolds == Spec => []WindowsCoverText
<1>1. Inv => WindowsCoverText
  BY DEF Inv
<1> QED BY <1>1, Invariance, PTL

(***************************************************************************)
(* Wherever the newlines are, the range of a window is one, begins at most *)
(* a line late, and no window begins in a line before that of the last.    *)
(***************************************************************************)
THEOREM RangesAreOrderedHolds == Spec => []RangesAreOrdered
<1>1. ASSUME Inv, NEW i \in DOMAIN windows
      PROVE  /\ windows[i].lines[1] <= windows[i].lines[2]
             /\ windows[i].lines[1] - LineOf(windows[i].from + 1) \in {0, 1}
             /\ i > 1 => windows[i - 1].lines[1] <= windows[i].lines[1]
  <2>1. /\ WindowTypeOK /\ windows[i] \in WindowType
        /\ windows[i].lines = <<FirstLine(windows[i].from), LastLine(windows[i].from, windows[i].to)>>
        /\ windows[i].from \in Nat /\ windows[i].to \in Nat /\ windows[i].from < windows[i].to
    <3>1. WindowTypeOK /\ windows[i] \in WindowType
      BY <1>1 DEF Inv, WindowTypeOK
    <3>2. /\ windows[i].lines = <<FirstLine(windows[i].from), LastLine(windows[i].from, windows[i].to)>>
          /\ windows[i].from < windows[i].to
      BY <1>1 DEF Inv, LinesFollow, WindowsCoverText
    <3> QED BY <3>1, <3>2 DEF WindowType
  <2>2. windows[i].lines[1] <= windows[i].lines[2]
    <3> DEFINE first == FirstLine(windows[i].from)
               lines == CountLines(windows[i].from, windows[i].to)
    <3>1. first \in Nat /\ lines \in Nat /\ lines >= 1
      BY <2>1, LinesOfStretch, FirstLineIsNear
    <3>2. windows[i].lines[1] = first /\ windows[i].lines[2] = first + lines - 1
      BY <2>1 DEF LastLine
    <3> QED BY <3>1, <3>2
  <2>3. windows[i].lines[1] - LineOf(windows[i].from + 1) \in {0, 1}
    BY <2>1, FirstLineIsNear
  <2>4. ASSUME i > 1 PROVE windows[i - 1].lines[1] <= windows[i].lines[1]
    <3>1. i - 1 \in DOMAIN windows /\ windows[i - 1] \in WindowType
      BY <1>1, <2>1, <2>4 DEF WindowTypeOK
    <3>2. /\ windows[i - 1].lines[1] = FirstLine(windows[i - 1].from)
          /\ windows[i - 1].from \in Nat /\ windows[i - 1].from < windows[i].from
      BY <1>1, <2>4, <3>1 DEF Inv, WindowType, LinesFollow, WindowsCoverText
    <3> QED BY <2>1, <3>2, FirstLineGrows
  <2> QED BY <2>2, <2>3, <2>4
<1>2. Inv => RangesAreOrdered
  BY <1>1 DEF RangesAreOrdered
<1> QED BY <1>2, Invariance, PTL

-----------------------------------------------------------------------------
(***************************************************************************)
(* The pieces.  First the syntax tree: what lies inside a node is a        *)
(* stretch of nodes after it, and the next node the cursor comes to once   *)
(* it has left the node is the first that begins before it.                *)
(***************************************************************************)


-----------------------------------------------------------------------------
(* Numbers and prefixes.                                                   *)

Less == {pair \in Nat \X Nat : pair[1] < pair[2]}

LEMMA LeastNat ==
  ASSUME NEW S \in SUBSET Nat, S # {}
  PROVE  \E n \in S : \A m \in S : n <= m
<1>1. IsWellFoundedOn(Less, Nat)
  BY NatLessThanWellFounded DEF OpToRel, Less
<1>2. PICK n \in S : \A m \in S : ~ (<<m, n>> \in Less)
  BY <1>1, WFMin
<1>3. \A m \in S : ~ (m < n)
  BY <1>2 DEF Less
<1> QED BY <1>3


\* What the proofs use of a tree of size nodes.
Tree(size) ==
  /\ size \in Nat \ {0} /\ Nodes = 1..size
  /\ doc.parent[1] = 0
  /\ \A n \in 1..size : doc.parent[n] \in 0..(n - 1)
  /\ \A n \in 1..size : n # 1 => doc.parent[n] # 0
  /\ \A n \in 1..size : \A k \in 1..size :
       n # 1 /\ doc.parent[n] < k /\ k < n => doc.parent[k] >= doc.parent[n]

LEMMA DocumentIsTree ==
  ASSUME doc \in Documents, doc.kind = "code"
  PROVE  /\ Tree(Len(doc.parent)) /\ doc.wanted \subseteq Nodes
         /\ \E size \in Nat : Tree(size)
<1>1. IsTree(doc.parent) /\ doc.wanted \subseteq DOMAIN doc.parent
  BY DocumentsAssumption
<1> DEFINE size == Len(doc.parent)
<1>2. size \in Nat \ {0} /\ Nodes = 1..size /\ doc.parent[1] = 0 /\ doc.wanted \subseteq Nodes
  BY <1>1 DEF IsTree, Nodes
<1>3. \A n \in 1..size : n # 1 => /\ doc.parent[n] \in 1..(n - 1)
                                  /\ \A k \in (doc.parent[n] + 1)..(n - 1) : doc.parent[k] >= doc.parent[n]
  BY <1>1 DEF IsTree
<1> HIDE DEF size
<1>4. \A n \in 1..size : doc.parent[n] \in 0..(n - 1) /\ (n # 1 => doc.parent[n] # 0)
  BY <1>2, <1>3
<1>5. ASSUME NEW n \in 1..size, NEW k \in 1..size, n # 1, doc.parent[n] < k, k < n
      PROVE  doc.parent[k] >= doc.parent[n]
  <2>1. doc.parent[n] \in Nat /\ k \in (doc.parent[n] + 1)..(n - 1)
    BY <1>3, <1>5
  <2> QED BY <1>3, <1>5, <2>1
<1>6. Tree(size)
  BY <1>2, <1>4, <1>5 DEF Tree
<1> QED BY <1>2, <1>6 DEF size

\* The nodes that begin after a node and hang in one before it, and the first of them.
Beyond(n) == {k \in Nodes : n < k /\ doc.parent[k] < n}
NextOf(n) == IF n = 0 \/ Beyond(n) = {} THEN 0 ELSE Least(Beyond(n))

LEMMA LeastIs ==
  ASSUME NEW S \in SUBSET Nat, S # {}
  PROVE  Least(S) \in S /\ \A m \in S : Least(S) <= m
  BY LeastNat DEF Least

LEMMA NextOfSibling ==
  ASSUME NEW size, Tree(size), NEW n \in 1..size, Siblings(n) # {}
  PROVE  NextOf(n) = Least(Siblings(n))
<1>1. Siblings(n) \subseteq Beyond(n) /\ Beyond(n) \in SUBSET Nat /\ n # 1
  BY DEF Siblings, Beyond, Tree
<1> DEFINE s == Least(Siblings(n))
           b == Least(Beyond(n))
<1>2. s \in Siblings(n) /\ \A m \in Siblings(n) : s <= m
  BY <1>1, LeastIs
<1>3. b \in Beyond(n) /\ \A m \in Beyond(n) : b <= m
  BY <1>1, LeastIs
<1> HIDE DEF s, b
<1>4. /\ s \in 1..size /\ n < s /\ s # 1 /\ doc.parent[s] = doc.parent[n]
      /\ b \in 1..size /\ n < b /\ b # 1 /\ doc.parent[b] < n /\ b <= s
  <2>1. size \in Nat /\ Nodes = 1..size
    BY DEF Tree
  <2>2. s \in 1..size /\ n < s /\ doc.parent[s] = doc.parent[n] /\ b <= s
    BY <1>1, <1>2, <1>3, <2>1 DEF Siblings
  <2>3. b \in 1..size /\ n < b /\ doc.parent[b] < n
    BY <1>3, <2>1 DEF Beyond
  <2> QED BY <2>1, <2>2, <2>3
<1>5. doc.parent[b] = doc.parent[n]
  <2>1. \A k \in 1..size : doc.parent[k] \in 0..(k - 1)
    BY DEF Tree
  <2>2. b # s => doc.parent[b] >= doc.parent[n]
    BY <1>4, <2>1 DEF Tree
  <2>3. doc.parent[n] >= doc.parent[b]
    BY <1>4 DEF Tree
  <2> QED BY <1>4, <2>1, <2>2, <2>3
<1>6. b \in Siblings(n)
  BY <1>1, <1>4, <1>5 DEF Siblings, Tree
<1>7. b = s
  BY <1>2, <1>4, <1>6
<1> QED BY <1>1, <1>7, <1>2, <1>4 DEF NextOf, s, b

LEMMA NextOfLast ==
  ASSUME NEW size, Tree(size), NEW n \in 1..size, Siblings(n) = {}
  PROVE  NextOf(n) = NextOf(doc.parent[n])
<1>1. /\ \A k \in 1..size : doc.parent[k] \in 0..(k - 1)
      /\ size \in Nat
  BY DEF Tree
<1>2. CASE n = 1
  <2>1. \A k \in 1..size : k > 1 => ~(doc.parent[k] < 1)
    BY <1>1 DEF Tree
  <2>2. Beyond(1) = {}
    BY <2>1 DEF Beyond, Tree
  <2>3. doc.parent[1] = 0
    BY DEF Tree
  <2> QED BY <1>2, <2>2, <2>3 DEF NextOf
<1>3. CASE n # 1
  <2> DEFINE p == doc.parent[n]
  <2>1. p \in 1..size /\ p < n
    BY <1>1, <1>3 DEF Tree
  <2>2. ASSUME NEW k \in 1..size, n < k, doc.parent[k] < n PROVE p < k /\ doc.parent[k] < p
    <3>1. doc.parent[k] # p
      BY <1>3, <2>1, <2>2 DEF Siblings, Tree
    <3>2. ~(p < doc.parent[k])
      <4> SUFFICES ASSUME p < doc.parent[k] PROVE FALSE
        OBVIOUS
      <4>1. doc.parent[k] \in 1..size
        BY <1>1, <2>1, <2>2
      <4>2. doc.parent[doc.parent[k]] \in 0..(doc.parent[k] - 1)
        BY <1>1, <4>1
      <4>3. doc.parent[n] >= doc.parent[k]
        BY <2>2, <4>1 DEF Tree
      <4> QED BY <1>1, <2>1, <4>1, <4>3
    <3>3. p < k
      BY <2>1, <2>2
    <3> QED BY <1>1, <2>1, <2>2, <3>1, <3>2, <3>3
  <2>3. ASSUME NEW k \in 1..size, p < k, doc.parent[k] < p PROVE n < k /\ doc.parent[k] < n
    <3>1. k # n
      BY <1>1, <2>3
    <3>2. ~(k < n)
      <4> SUFFICES ASSUME k < n PROVE FALSE
        OBVIOUS
      <4>1. doc.parent[k] >= doc.parent[n]
        BY <1>3, <2>3 DEF Tree
      <4> QED BY <1>1, <2>1, <2>3, <4>1
    <3>3. n < k
      BY <3>1, <3>2
    <3> QED BY <1>1, <2>1, <2>3, <3>3
  <2>4. Beyond(n) = Beyond(p)
    <3> HIDE DEF p
    <3>1. Nodes = 1..size
      BY DEF Tree
    <3> QED BY <2>2, <2>3, <3>1 DEF Beyond
  <2>5. n # 0 /\ p # 0
    BY <2>1
  <2> QED BY <2>4, <2>5 DEF NextOf
<1> QED BY <1>2, <1>3

\* What the recursion of Onward says of a node from the nodes before it.
OnwardStep(on, m) ==
  IF m = 0 THEN 0
  ELSE IF Siblings(m) # {} THEN Least(Siblings(m))
  ELSE on[doc.parent[m]]

LEMMA OnwardIsNext ==
  ASSUME NEW size, Tree(size), NEW n \in 1..size
  PROVE  Onward(n) = NextOf(n)
<1> DEFINE on[m \in 0..n] ==
             IF m = 0 THEN 0
             ELSE IF Siblings(m) # {} THEN Least(Siblings(m))
             ELSE on[doc.parent[m]]
           Eq(f) == f = [m \in 0..n |-> IF m = 0 THEN 0
                                        ELSE IF Siblings(m) # {} THEN Least(Siblings(m))
                                        ELSE f[doc.parent[m]]]
           next == [m \in 0..n |-> NextOf(m)]
<1>1. Onward(n) = on[n]
  BY DEF Onward
<1>2. on = CHOOSE f : Eq(f)
  OBVIOUS
<1> HIDE DEF on
<1>3. /\ \A m \in 1..n : m \in 1..size /\ doc.parent[m] \in 0..n /\ doc.parent[m] < m /\ doc.parent[m] \in Nat
      /\ n \in Nat /\ \A m \in 0..n : m # 0 => m \in 1..n
  BY DEF Tree
<1>4. ASSUME NEW m \in 0..n PROVE next[m] = OnwardStep(next, m)
  <2>1. CASE m = 0
    BY <2>1 DEF OnwardStep, NextOf
  <2>2. CASE m # 0
    <3>1. m \in 1..n
      BY <1>3, <2>2
    <3>2. next[m] = NextOf(m) /\ next[doc.parent[m]] = NextOf(doc.parent[m])
      BY <1>3, <3>1
    <3> HIDE DEF next
    <3> QED BY <1>3, <2>2, <3>1, <3>2, NextOfSibling, NextOfLast DEF OnwardStep
  <2> QED BY <2>1, <2>2
<1>5. Eq(next)
  <2>1. next = [m \in 0..n |-> OnwardStep(next, m)]
    BY <1>4
  <2> HIDE DEF next
  <2> QED BY <2>1 DEF OnwardStep
<1>6. Eq(on)
  <2> HIDE DEF Eq, next
  <2> QED BY <1>2, <1>5
<1>7. \A m \in 0..n : on[m] = OnwardStep(on, m)
  BY <1>6 DEF OnwardStep
<1> HIDE DEF Eq
<1>8. \A m \in 0..n : on[m] = next[m]
  <2> DEFINE Bad == {m \in 0..n : on[m] # next[m]}
  <2> SUFFICES ASSUME Bad # {} PROVE FALSE
    OBVIOUS
  <2>1. PICK m \in Bad : \A k \in Bad : m <= k
    <3>1. Bad \in SUBSET Nat
      OBVIOUS
    <3> HIDE DEF Bad
    <3> QED BY <3>1, LeastNat
  <2>2. m \in 0..n /\ on[m] # next[m]
    BY <2>1
  <2>3. m # 0 => on[doc.parent[m]] = next[doc.parent[m]]
    <3> SUFFICES ASSUME m # 0 PROVE doc.parent[m] \in 0..n /\ doc.parent[m] \notin Bad
      BY DEF Bad
    <3>1. m \in 1..n
      BY <1>3, <2>2
    <3>2. doc.parent[m] \in 0..n /\ doc.parent[m] < m
      BY <1>3, <3>1
    <3>3. ~(m <= doc.parent[m])
      BY <2>2, <3>2
    <3> HIDE DEF Bad
    <3> QED BY <2>1, <3>2, <3>3
  <2>4. OnwardStep(on, m) = OnwardStep(next, m)
    <3> HIDE DEF next, Bad
    <3> QED BY <2>3 DEF OnwardStep
  <2> HIDE DEF next, Bad
  <2> QED BY <1>4, <1>7, <2>2, <2>4
<1>9. on[n] = next[n]
  BY <1>3, <1>8
<1> QED BY <1>1, <1>9, <1>3

\* What a node is inside of: the nodes before it that no node up to it begins before.
Above(n) ==
  IF n = 0 THEN {}
  ELSE {0} \cup {w \in 1..(n - 1) : \A k \in Nodes : w < k /\ k <= n => doc.parent[k] >= w}

LEMMA AboveParent ==
  ASSUME NEW size, Tree(size), NEW n \in 1..size
  PROVE  Above(n) = {doc.parent[n]} \cup Above(doc.parent[n])
<1> DEFINE p == doc.parent[n]
<1>1. /\ p \in 0..(n - 1) /\ size \in Nat /\ Nodes = 1..size
      /\ \A k \in 1..size : doc.parent[k] \in 0..(k - 1)
  BY DEF Tree
<1>2. CASE n = 1
  <2>1. doc.parent[1] = 0
    BY DEF Tree
  <2>2. Above(1) = {0} /\ Above(0) = {}
    BY DEF Above
  <2> QED BY <1>2, <2>1, <2>2
<1>3. CASE n # 1
  <2>1. p # 0
    BY <1>3 DEF Tree
  <2>2. \A k \in 1..size : p < k /\ k < n => doc.parent[k] >= p
    BY <1>3 DEF Tree
  <2> HIDE DEF p
  <2>3. ASSUME NEW w \in 1..(n - 1), \A k \in 1..size : w < k /\ k <= n => doc.parent[k] >= w, w # p
        PROVE  w \in 1..(p - 1) /\ \A k \in 1..size : w < k /\ k <= p => doc.parent[k] >= w
    <3>1. p >= w
      BY <1>1, <2>3 DEF p
    <3> QED BY <1>1, <2>3, <3>1
  <2>4. ASSUME NEW w \in 1..(p - 1), \A k \in 1..size : w < k /\ k <= p => doc.parent[k] >= w,
               NEW k \in 1..size, w < k, k <= n
        PROVE  doc.parent[k] >= w
    <3>1. CASE k <= p
      BY <2>4, <3>1
    <3>2. CASE p < k /\ k < n
      BY <1>1, <2>2, <2>4, <3>2
    <3>3. CASE k = n
      BY <1>1, <2>4, <3>3 DEF p
    <3>4. k <= p \/ (p < k /\ k < n) \/ k = n
      <4>1. k \in Nat /\ p \in Nat /\ n \in Nat /\ k <= n
        BY <1>1, <2>4
      <4> QED BY <4>1
    <3> QED BY <3>1, <3>2, <3>3, <3>4
  <2>5. p \in 1..(n - 1) /\ \A k \in 1..size : p < k /\ k <= n => doc.parent[k] >= p
    <3>1. doc.parent[n] >= p
      BY <1>1 DEF p
    <3> QED BY <1>1, <2>1, <2>2, <3>1
  <2>6. \A w \in 1..(p - 1) : w \in 1..(n - 1)
    BY <2>5
  <2>7. n # 0
    OBVIOUS
  <2> DEFINE N == {w \in 1..(n - 1) : \A k \in 1..size : w < k /\ k <= n => doc.parent[k] >= w}
             P == {w \in 1..(p - 1) : \A k \in 1..size : w < k /\ k <= p => doc.parent[k] >= w}
  <2>8. ASSUME NEW w PROVE w \in N <=> w = p \/ w \in P
    <3>1. w \in N => w = p \/ w \in P
      BY <2>3
    <3>2. w \in P => w \in N
      BY <2>4, <2>6
    <3>3. p \in N
      BY <2>5
    <3> QED BY <3>1, <3>2, <3>3
  <2>9. Above(n) = {0} \cup N /\ Above(p) = {0} \cup P
    BY <1>1, <2>1, <2>7 DEF Above
  <2> HIDE DEF N, P
  <2> QED BY <2>8, <2>9 DEF p
<1> QED BY <1>2, <1>3

InsideStep(up, m) == IF m = 0 THEN {} ELSE {doc.parent[m]} \cup up[doc.parent[m]]

LEMMA InsideIsAbove ==
  ASSUME NEW size, Tree(size), NEW n \in 1..size
  PROVE  Inside(n) = Above(n)
<1> DEFINE up[m \in 0..n] == IF m = 0 THEN {} ELSE {doc.parent[m]} \cup up[doc.parent[m]]
           Eq(f) == f = [m \in 0..n |-> IF m = 0 THEN {} ELSE {doc.parent[m]} \cup f[doc.parent[m]]]
           above == [m \in 0..n |-> Above(m)]
<1>1. Inside(n) = up[n]
  BY DEF Inside
<1>2. up = CHOOSE f : Eq(f)
  OBVIOUS
<1> HIDE DEF up
<1>3. /\ \A m \in 1..n : m \in 1..size /\ doc.parent[m] \in 0..n /\ doc.parent[m] < m /\ doc.parent[m] \in Nat
      /\ n \in Nat /\ \A m \in 0..n : m # 0 => m \in 1..n
  BY DEF Tree
<1>4. ASSUME NEW m \in 0..n PROVE above[m] = InsideStep(above, m)
  <2>1. CASE m = 0
    BY <2>1 DEF InsideStep, Above
  <2>2. CASE m # 0
    <3>1. m \in 1..n
      BY <1>3, <2>2
    <3>2. above[m] = Above(m) /\ above[doc.parent[m]] = Above(doc.parent[m])
      BY <1>3, <3>1
    <3> HIDE DEF above
    <3> QED BY <1>3, <2>2, <3>1, <3>2, AboveParent DEF InsideStep
  <2> QED BY <2>1, <2>2
<1>5. Eq(above)
  <2>1. above = [m \in 0..n |-> InsideStep(above, m)]
    BY <1>4
  <2> HIDE DEF above
  <2> QED BY <2>1 DEF InsideStep
<1>6. Eq(up)
  <2> HIDE DEF Eq, above
  <2> QED BY <1>2, <1>5
<1>7. \A m \in 0..n : up[m] = InsideStep(up, m)
  BY <1>6 DEF InsideStep
<1> HIDE DEF Eq
<1>8. \A m \in 0..n : up[m] = above[m]
  <2> DEFINE Bad == {m \in 0..n : up[m] # above[m]}
  <2> SUFFICES ASSUME Bad # {} PROVE FALSE
    OBVIOUS
  <2>1. PICK m \in Bad : \A k \in Bad : m <= k
    <3>1. Bad \in SUBSET Nat
      OBVIOUS
    <3> HIDE DEF Bad
    <3> QED BY <3>1, LeastNat
  <2>2. m \in 0..n /\ up[m] # above[m]
    BY <2>1
  <2>3. m # 0 => up[doc.parent[m]] = above[doc.parent[m]]
    <3> SUFFICES ASSUME m # 0 PROVE doc.parent[m] \in 0..n /\ doc.parent[m] \notin Bad
      BY DEF Bad
    <3>1. m \in 1..n
      BY <1>3, <2>2
    <3>2. doc.parent[m] \in 0..n /\ doc.parent[m] < m
      BY <1>3, <3>1
    <3>3. ~(m <= doc.parent[m])
      BY <2>2, <3>2
    <3> HIDE DEF Bad
    <3> QED BY <2>1, <3>2, <3>3
  <2>4. InsideStep(up, m) = InsideStep(above, m)
    <3> HIDE DEF above, Bad
    <3> QED BY <2>3 DEF InsideStep
  <2> HIDE DEF above, Bad
  <2> QED BY <1>4, <1>7, <2>2, <2>4
<1>9. up[n] = above[n]
  BY <1>3, <1>8
<1> QED BY <1>1, <1>9, <1>3

\* Everything between a node and the next outside it is inside it, and the next is inside nothing else.
LEMMA NextLeaves ==
  ASSUME NEW size, Tree(size), NEW n \in 1..size, NEW next, next = NextOf(n)
  PROVE  /\ next = 0 \/ (next \in 1..size /\ n < next /\ Inside(next) \subseteq Inside(n))
         /\ \A k \in 1..size : n < k /\ (next = 0 \/ k < next) => n \in Inside(k)
<1>1. /\ size \in Nat /\ Nodes = 1..size
      /\ \A k \in 1..size : doc.parent[k] \in 0..(k - 1)
  BY DEF Tree
<1>2. CASE Beyond(n) = {}
  <2>1. next = 0
    BY <1>2 DEF NextOf
  <2>2. \A k \in 1..size : n < k => doc.parent[k] >= n
    BY <1>1, <1>2 DEF Beyond
  <2>3. ASSUME NEW k \in 1..size, n < k PROVE n \in Inside(k)
    <3>1. n \in Above(k)
      BY <1>1, <2>2, <2>3 DEF Above
    <3> QED BY <3>1, InsideIsAbove
  <2> QED BY <2>1, <2>3
<1>3. CASE Beyond(n) # {}
  <2>1. Beyond(n) \in SUBSET Nat /\ n # 0
    BY <1>1 DEF Beyond
  <2>2. next \in Beyond(n) /\ \A k \in Beyond(n) : next <= k
    BY <1>3, <2>1, LeastIs DEF NextOf
  <2>3. next \in 1..size /\ n < next /\ doc.parent[next] < n
    BY <1>1, <2>2 DEF Beyond
  <2>4. ASSUME NEW k \in 1..size, n < k, k < next PROVE doc.parent[k] >= n
    <3>1. k \notin Beyond(n)
      BY <2>2, <2>3, <2>4
    <3> QED BY <1>1, <2>4, <3>1 DEF Beyond
  <2>5. ASSUME NEW k \in 1..size, n < k, k < next PROVE n \in Inside(k)
    <3>1. \A m \in 1..size : n < m /\ m <= k => doc.parent[m] >= n
      BY <2>3, <2>4, <2>5
    <3>2. n \in Above(k)
      BY <1>1, <2>5, <3>1 DEF Above
    <3> QED BY <3>2, InsideIsAbove
  <2>6. ASSUME NEW w \in Above(next) PROVE w \in Above(n)
    <3>1. next # 0 /\ n # 0
      BY <2>3
    <3>2. CASE w = 0
      BY <3>1, <3>2 DEF Above
    <3>3. CASE w # 0
      <4>1. w \in 1..(next - 1) /\ \A k \in 1..size : w < k /\ k <= next => doc.parent[k] >= w
        BY <1>1, <2>6, <3>1, <3>3 DEF Above
      <4>2. doc.parent[next] >= w
        BY <2>3, <4>1
      <4>3. w \in 1..(n - 1)
        BY <1>1, <2>3, <4>1, <4>2
      <4>4. \A k \in 1..size : w < k /\ k <= n => doc.parent[k] >= w
        BY <2>3, <4>1
      <4> QED BY <1>1, <3>1, <4>3, <4>4 DEF Above
    <3> QED BY <3>2, <3>3
  <2>7. Inside(next) = Above(next) /\ Inside(n) = Above(n)
    BY <2>3, InsideIsAbove
  <2>8. next # 0
    BY <2>3
  <2> QED BY <2>3, <2>5, <2>6, <2>7, <2>8
<1> QED BY <1>2, <1>3

\* Into a node with children, and on from one without, is to the node after it.
LEMMA NextInOrder ==
  ASSUME NEW size, Tree(size), NEW n \in 1..size
  PROVE  /\ Children(n) # {} => /\ Least(Children(n)) = n + 1 /\ n + 1 \in 1..size
                                /\ Inside(n + 1) = {n} \cup Inside(n)
         /\ Children(n) = {} => NextOf(n) = n + 1 \/ (NextOf(n) = 0 /\ n = size)
<1>1. /\ size \in Nat /\ Nodes = 1..size
      /\ \A k \in 1..size : doc.parent[k] \in 0..(k - 1)
  BY DEF Tree
<1>2. ASSUME Children(n) # {}
      PROVE  /\ Least(Children(n)) = n + 1 /\ n + 1 \in 1..size
             /\ Inside(n + 1) = {n} \cup Inside(n)
  <2>1. PICK c \in 1..size : doc.parent[c] = n
    BY <1>1, <1>2 DEF Children
  <2>2. n < c /\ c # 1
    BY <1>1, <2>1
  <2>3. n + 1 \in 1..size /\ n < n + 1 /\ (n + 1 = c \/ n + 1 < c)
    BY <1>1, <2>1, <2>2
  <2>4. n + 1 < c => doc.parent[n + 1] >= n
    BY <2>1, <2>2, <2>3 DEF Tree
  <2>5. doc.parent[n + 1] = n
    <3>1. doc.parent[n + 1] \in 0..((n + 1) - 1)
      BY <1>1, <2>3
    <3> QED BY <2>1, <2>3, <2>4, <3>1
  <2>6. n + 1 \in Children(n) /\ Children(n) \in SUBSET Nat
    BY <1>1, <2>3, <2>5 DEF Children
  <2>7. \A m \in Children(n) : n + 1 <= m
    BY <1>1 DEF Children
  <2>8. Least(Children(n)) = n + 1
    <3>1. Least(Children(n)) \in Children(n) /\ Least(Children(n)) <= n + 1
      BY <2>6, LeastIs
    <3> QED BY <2>6, <2>7, <3>1
  <2>9. Inside(n + 1) = {n} \cup Inside(n)
    <3>1. Above(n + 1) = {n} \cup Above(n)
      BY <2>3, <2>5, AboveParent
    <3> QED BY <2>3, <3>1, InsideIsAbove
  <2> QED BY <2>3, <2>8, <2>9
<1>3. ASSUME Children(n) = {} PROVE NextOf(n) = n + 1 \/ (NextOf(n) = 0 /\ n = size)
  <2>1. n # size => n + 1 \in 1..size /\ doc.parent[n + 1] # n
    <3>1. n # size => n + 1 \in 1..size
      BY <1>1
    <3>2. n + 1 \in 1..size => doc.parent[n + 1] # n
      BY <1>1, <1>3 DEF Children
    <3> QED BY <3>1, <3>2
  <2>2. n # size => n + 1 \in Beyond(n)
    <3> SUFFICES ASSUME n # size PROVE n + 1 \in Beyond(n)
      OBVIOUS
    <3>1. doc.parent[n + 1] \in 0..((n + 1) - 1) /\ n + 1 \in 1..size /\ doc.parent[n + 1] # n
      BY <1>1, <2>1
    <3>2. doc.parent[n + 1] < n
      BY <3>1
    <3> QED BY <1>1, <3>1, <3>2 DEF Beyond
  <2>3. Beyond(n) \in SUBSET Nat /\ \A k \in Beyond(n) : n + 1 <= k
    BY <1>1 DEF Beyond
  <2>4. Beyond(n) # {} => /\ NextOf(n) = Least(Beyond(n)) /\ Least(Beyond(n)) \in Beyond(n)
                          /\ \A k \in Beyond(n) : Least(Beyond(n)) <= k
    BY <2>3, LeastIs DEF NextOf
  <2>5. Beyond(n) = {} => NextOf(n) = 0
    BY DEF NextOf
  <2>6. n # size => NextOf(n) = n + 1
    <3> SUFFICES ASSUME n # size PROVE NextOf(n) = n + 1
      OBVIOUS
    <3>1. Beyond(n) # {}
      BY <2>2
    <3>2. NextOf(n) \in Nat /\ n + 1 <= NextOf(n) /\ NextOf(n) <= n + 1
      BY <2>2, <2>3, <2>4, <3>1
    <3> QED BY <3>2
  <2>7. n = size => Beyond(n) = {}
    BY <1>1 DEF Beyond
  <2> QED BY <2>5, <2>6, <2>7
<1> QED BY <1>2, <1>3

-----------------------------------------------------------------------------
(* The headings.  The way back from a heading collects those it is under.  *)

\* The headings up to k that are of a smaller level than all after them, and than level.
Higher(k, level) == {g \in 1..k : doc.levels[g] < level /\ \A j \in (g + 1)..k : doc.levels[g] < doc.levels[j]}

IsPath(s, S) == s \in Seq(Nat) /\ Ascending(s) /\ Range(s) = S

LEMMA HigherStep ==
  ASSUME NEW size \in Nat, \A g \in 1..size : doc.levels[g] \in 1..6,
         NEW k \in 1..size, NEW level \in 0..6
  PROVE  Higher(k, level) = IF doc.levels[k] < level THEN Higher(k - 1, doc.levels[k]) \cup {k}
                                                     ELSE Higher(k - 1, level)
<1>1. doc.levels[k] \in Nat /\ \A g \in 1..k : doc.levels[g] \in Nat
  OBVIOUS
<1>2. ASSUME NEW g \in 1..(k - 1)
      PROVE  (\A j \in (g + 1)..k : doc.levels[g] < doc.levels[j]) <=>
               doc.levels[g] < doc.levels[k] /\ \A j \in (g + 1)..(k - 1) : doc.levels[g] < doc.levels[j]
  <2>1. \A j : j \in (g + 1)..k <=> j = k \/ j \in (g + 1)..(k - 1)
    OBVIOUS
  <2> QED BY <2>1
<1>3. \A j : j \notin (k + 1)..k
  OBVIOUS
<1>4. \A g : g \in 1..k <=> g = k \/ g \in 1..(k - 1)
  OBVIOUS
<1>5. \A g : g \in 1..(k - 1) => g # k
  OBVIOUS
<1>6. CASE doc.levels[k] < level
  <2>1. \A g \in 1..(k - 1) : doc.levels[g] < doc.levels[k] => doc.levels[g] < level
    BY <1>1, <1>6
  <2>2. \A g : g \in Higher(k, level) <=> g \in Higher(k - 1, doc.levels[k]) \/ g = k
    <3>1. k \in Higher(k, level)
      BY <1>3, <1>4, <1>6 DEF Higher
    <3>2. \A g \in 1..(k - 1) : g \in Higher(k, level) <=> g \in Higher(k - 1, doc.levels[k])
      BY <1>2, <1>4, <2>1 DEF Higher
    <3>3. \A g : (g \in Higher(k, level) => g \in 1..k) /\ (g \in Higher(k - 1, doc.levels[k]) => g \in 1..(k - 1))
      BY DEF Higher
    <3> QED BY <1>4, <3>1, <3>2, <3>3
  <2> QED BY <1>6, <2>2
<1>7. CASE ~(doc.levels[k] < level)
  <2>1. \A g \in 1..(k - 1) : doc.levels[g] < level => doc.levels[g] < doc.levels[k]
    BY <1>1, <1>7
  <2>2. \A g : g \in Higher(k, level) <=> g \in Higher(k - 1, level)
    <3>1. k \notin Higher(k, level)
      BY <1>7 DEF Higher
    <3>2. \A g \in 1..(k - 1) : g \in Higher(k, level) <=> g \in Higher(k - 1, level)
      BY <1>2, <1>4, <2>1 DEF Higher
    <3>3. \A g : (g \in Higher(k, level) => g \in 1..k) /\ (g \in Higher(k - 1, level) => g \in 1..(k - 1))
      BY DEF Higher
    <3> QED BY <1>4, <3>1, <3>2, <3>3
  <2> QED BY <1>7, <2>2
<1> QED BY <1>6, <1>7

LEMMA PathGrows ==
  ASSUME NEW k \in Nat, NEW S \in SUBSET (1..(k - 1)), NEW s, IsPath(s, S)
  PROVE  IsPath(Append(s, k), S \cup {k})
<1>1. s \in Seq(Nat) /\ Len(s) \in Nat /\ DOMAIN s = 1..Len(s)
  BY DEF IsPath
<1> DEFINE t == Append(s, k)
           n == Len(s)
<1>2. t \in Seq(Nat) /\ Len(t) = n + 1 /\ DOMAIN t = 1..(n + 1) /\ t[n + 1] = k
      /\ \A i \in 1..n : t[i] = s[i]
  BY <1>1
<1>3. \A i \in 1..n : s[i] \in S
  BY <1>1 DEF IsPath, Range
<1> HIDE DEF t
<1>4. n \in Nat
  BY <1>1
<1>5. \A i, j \in 1..n : i < j => s[i] < s[j]
  BY <1>1 DEF IsPath, Ascending
<1>6. \A i, j \in 1..(n + 1) : i < j => t[i] < t[j]
  <2> HIDE DEF n
  <2> SUFFICES ASSUME NEW i \in 1..(n + 1), NEW j \in 1..(n + 1), i < j PROVE t[i] < t[j]
    OBVIOUS
  <2>1. i \in 1..n /\ (j \in 1..n \/ j = n + 1)
    BY <1>4
  <2>2. \A m \in S : m < k
    OBVIOUS
  <2> QED BY <1>2, <1>3, <1>5, <2>1, <2>2
<1>7. Range(s) = {s[i] : i \in 1..n} /\ Range(t) = {t[i] : i \in 1..(n + 1)}
  BY <1>1, <1>2 DEF Range
<1>8. Range(t) = Range(s) \cup {k}
  <2> HIDE DEF n
  <2>1. \A i : i \in 1..(n + 1) <=> i \in 1..n \/ i = n + 1
    BY <1>4
  <2>2. \A x : x \in Range(t) <=> x \in Range(s) \/ x = k
    BY <1>2, <1>7, <2>1
  <2> QED BY <2>2
<1> QED BY <1>2, <1>6, <1>8 DEF IsPath, Ascending, t

UpStep(up, k, level) ==
  IF k = 0 THEN <<>>
  ELSE IF doc.levels[k] < level THEN Append(up[k - 1][doc.levels[k]], k)
  ELSE up[k - 1][level]

IsUp(up, n) == up = [k \in 0..n |-> [level \in 0..6 |-> UpStep(up, k, level)]]

LEMMA UpExists ==
  ASSUME NEW size \in Nat, \A g \in 1..size : doc.levels[g] \in 1..6
  PROVE  \E up : IsUp(up, size)
<1> DEFINE Bad == {m \in 0..size : ~\E up : IsUp(up, m)}
<1>0. Bad = {} => size \notin Bad
  OBVIOUS
<1> SUFFICES ASSUME Bad # {} PROVE FALSE
  BY <1>0
<1>1. PICK m \in Bad : \A k \in Bad : m <= k
  <2>1. Bad \in SUBSET Nat
    OBVIOUS
  <2> HIDE DEF Bad
  <2> QED BY <2>1, LeastNat
<1>2. m \in 0..size /\ ~\E up : IsUp(up, m)
  BY <1>1
<1>3. CASE m = 0
  <2> DEFINE f == [k \in 0..0 |-> [level \in 0..6 |-> <<>>]]
  <2>1. f = [k \in 0..0 |-> [level \in 0..6 |-> UpStep(f, k, level)]]
    <3> HIDE DEF f
    <3>1. \A k \in 0..0, level \in 0..6 : UpStep(f, k, level) = <<>>
      BY DEF UpStep
    <3> QED BY <3>1 DEF f
  <2> HIDE DEF f
  <2>2. IsUp(f, 0)
    BY <2>1 DEF IsUp
  <2> QED BY <1>2, <1>3, <2>2
<1>4. CASE m # 0
  <2>1. m - 1 \in 0..size /\ m - 1 \notin Bad
    <3>1. m - 1 \in 0..size /\ ~(m <= m - 1)
      BY <1>2, <1>4
    <3> HIDE DEF Bad
    <3> QED BY <1>1, <3>1
  <2>2. PICK g : IsUp(g, m - 1)
    BY <2>1
  <2> DEFINE f == [k \in 0..m |-> [level \in 0..6 |-> UpStep(g, k, level)]]
  <2>3. ASSUME NEW k \in 0..m, NEW level \in 0..6 PROVE UpStep(g, k, level) = UpStep(f, k, level)
    <3>1. CASE k = 0
      BY <3>1 DEF UpStep
    <3>2. CASE k # 0
      <4>1. k - 1 \in 0..(m - 1) /\ k - 1 \in 0..m /\ k \in 1..size
        BY <1>2, <3>2
      <4>2. ASSUME NEW l \in 0..6 PROVE g[k - 1][l] = f[k - 1][l]
        <5>1. g[k - 1][l] = UpStep(g, k - 1, l)
          <6>1. g = [i \in 0..(m - 1) |-> [j \in 0..6 |-> UpStep(g, i, j)]]
            BY <2>2 DEF IsUp
          <6>2. g[k - 1] = [j \in 0..6 |-> UpStep(g, k - 1, j)]
            BY <4>1, <6>1
          <6> QED BY <6>2
        <5>2. f[k - 1][l] = UpStep(g, k - 1, l)
          BY <4>1
        <5> QED BY <5>1, <5>2
      <4>3. doc.levels[k] \in 0..6
        BY <4>1
      <4> HIDE DEF f
      <4> QED BY <3>2, <4>2, <4>3 DEF UpStep
    <3> QED BY <3>1, <3>2
  <2>4. f = [k \in 0..m |-> [level \in 0..6 |-> UpStep(f, k, level)]]
    BY <2>3
  <2> HIDE DEF f
  <2>5. IsUp(f, m)
    BY <2>4 DEF IsUp
  <2> QED BY <1>2, <2>5
<1> QED BY <1>3, <1>4

LEMMA HeaderPathIsOutline ==
  ASSUME doc.levels \in Seq(1..6), NEW h \in 1..Headings
  PROVE  IsPath(HeaderPath(h), Outline(h))
<1> DEFINE size == Headings
           up[k \in 0..Headings] ==
             [level \in 0..6 |->
                IF k = 0 THEN <<>>
                ELSE IF doc.levels[k] < level THEN Append(up[k - 1][doc.levels[k]], k)
                ELSE up[k - 1][level]]
           Eq(f) == f = [k \in 0..Headings |->
                          [level \in 0..6 |->
                             IF k = 0 THEN <<>>
                             ELSE IF doc.levels[k] < level THEN Append(f[k - 1][doc.levels[k]], k)
                             ELSE f[k - 1][level]]]
<1>1. size \in Nat /\ \A g \in 1..size : doc.levels[g] \in 1..6
  BY DEF Headings
<1>2. HeaderPath(h) = Append(up[h - 1][doc.levels[h]], h)
  BY DEF HeaderPath
<1>3. up = CHOOSE f : Eq(f)
  OBVIOUS
<1> HIDE DEF up, size
<1>4. PICK f : IsUp(f, size)
  BY <1>1, UpExists
<1>5. Eq(f)
  BY <1>4 DEF IsUp, UpStep, size
<1>6. Eq(up)
  <2> HIDE DEF Eq
  <2> QED BY <1>3, <1>5
<1>7. \A k \in 0..size, level \in 0..6 : up[k][level] = UpStep(up, k, level)
  <2>1. up = [k \in 0..size |-> [level \in 0..6 |-> UpStep(up, k, level)]]
    BY <1>6 DEF UpStep, size
  <2> HIDE DEF Eq
  <2>2. \A k \in 0..size : up[k] = [level \in 0..6 |-> UpStep(up, k, level)]
    BY <2>1
  <2> QED BY <2>2
<1> HIDE DEF Eq
<1>8. \A k \in 0..size : \A level \in 0..6 : IsPath(up[k][level], Higher(k, level))
  <2> DEFINE Bad == {k \in 0..size : ~\A level \in 0..6 : IsPath(up[k][level], Higher(k, level))}
  <2> SUFFICES ASSUME Bad # {} PROVE FALSE
    OBVIOUS
  <2>1. PICK m \in Bad : \A k \in Bad : m <= k
    <3>1. Bad \in SUBSET Nat
      OBVIOUS
    <3> HIDE DEF Bad
    <3> QED BY <3>1, LeastNat
  <2>2. m \in 0..size /\ ~\A level \in 0..6 : IsPath(up[m][level], Higher(m, level))
    BY <2>1
  <2>3. CASE m = 0
    <3>1. ASSUME NEW level \in 0..6 PROVE IsPath(up[0][level], Higher(0, level))
      <4>1. up[0][level] = <<>>
        BY <1>1, <1>7 DEF UpStep
      <4>2. Higher(0, level) = {}
        BY DEF Higher
      <4>3. <<>> \in Seq(Nat) /\ DOMAIN <<>> = {}
        OBVIOUS
      <4> QED BY <4>1, <4>2, <4>3 DEF IsPath, Ascending, Range
    <3> QED BY <2>2, <2>3, <3>1
  <2>4. CASE m # 0
    <3>1. m - 1 \in 0..size /\ m - 1 \notin Bad /\ m \in 1..size
      <4>1. m - 1 \in 0..size /\ ~(m <= m - 1) /\ m \in 1..size
        BY <1>1, <2>2, <2>4
      <4> HIDE DEF Bad
      <4> QED BY <2>1, <4>1
    <3>2. \A level \in 0..6 : IsPath(up[m - 1][level], Higher(m - 1, level))
      BY <3>1
    <3>3. ASSUME NEW level \in 0..6 PROVE IsPath(up[m][level], Higher(m, level))
      <4> HIDE DEF Bad
      <4>1. up[m][level] = UpStep(up, m, level)
        BY <1>7, <2>2
      <4>2. doc.levels[m] \in 0..6 /\ m \in Nat
        BY <1>1, <3>1
      <4>3. Higher(m, level) = IF doc.levels[m] < level THEN Higher(m - 1, doc.levels[m]) \cup {m}
                                                        ELSE Higher(m - 1, level)
        BY <1>1, <3>1, HigherStep
      <4>4. CASE doc.levels[m] < level
        <5>1. up[m][level] = Append(up[m - 1][doc.levels[m]], m)
          BY <2>4, <4>1, <4>4 DEF UpStep
        <5>2. Higher(m - 1, doc.levels[m]) \in SUBSET (1..(m - 1))
          BY DEF Higher
        <5>3. IsPath(Append(up[m - 1][doc.levels[m]], m), Higher(m - 1, doc.levels[m]) \cup {m})
          BY <3>2, <4>2, <5>2, PathGrows
        <5> QED BY <4>3, <4>4, <5>1, <5>3
      <4>5. CASE ~(doc.levels[m] < level)
        BY <2>4, <3>2, <4>1, <4>3, <4>5 DEF UpStep
      <4> QED BY <4>4, <4>5
    <3> QED BY <2>2, <3>3
  <2> QED BY <2>3, <2>4
<1>9. h \in 1..size /\ h \in Nat /\ h - 1 \in 0..size /\ doc.levels[h] \in 0..6
  BY <1>1 DEF size
<1>10. IsPath(up[h - 1][doc.levels[h]], Higher(h - 1, doc.levels[h]))
  BY <1>8, <1>9
<1>11. Higher(h - 1, doc.levels[h]) \in SUBSET (1..(h - 1))
  BY DEF Higher
<1>12. Outline(h) = Higher(h - 1, doc.levels[h]) \cup {h}
  <2>1. ASSUME NEW g \in 1..(h - 1)
        PROVE  (\A j \in (g + 1)..h : doc.levels[g] < doc.levels[j]) <=>
                 doc.levels[g] < doc.levels[h] /\ \A j \in (g + 1)..(h - 1) : doc.levels[g] < doc.levels[j]
    <3>1. \A j : j \in (g + 1)..h <=> j = h \/ j \in (g + 1)..(h - 1)
      BY <1>9
    <3> QED BY <3>1
  <2>2. \A g : g \in 1..h <=> g = h \/ g \in 1..(h - 1)
    BY <1>9
  <2>3. \A j : j \notin (h + 1)..h
    BY <1>9
  <2>4. \A g : g \in Outline(h) <=> g = h \/ g \in Higher(h - 1, doc.levels[h])
    BY <2>1, <2>2, <2>3 DEF Outline, Higher
  <2> QED BY <2>4
<1> QED BY <1>2, <1>9, <1>10, <1>11, <1>12, PathGrows

-----------------------------------------------------------------------------
(* The inductive invariant for the pieces.                                 *)

\* How pieces are told apart: by the number of their node or heading, or by their path of the API.
Ids   == IF doc.kind = "openapi" THEN doc.paths ELSE Nat
Piece == [id : Ids, path : Seq(Ids)]
Chunk == [piece : Piece, part : Nat]

Before(a, b) == IF doc.kind = "openapi" THEN a # b ELSE a < b

\* What the split has come past, and so should have taken.
Due == CASE doc.kind = "code"     -> {n \in Outermost : node = 0 \/ n < node}
         [] doc.kind = "markdown" -> {h \in Parts : h < node /\ (h = 0 => 1 < node)}
         [] doc.kind = "openapi"  -> doc.paths \ left

\* Where the split stands.  The node of the cursor is inside no node that has become a chunk.
PlaceOK ==
  /\ doc.kind = "code" => node \in Nodes \cup {0} /\ (node # 0 => Inside(node) \cap doc.wanted = {})
  /\ doc.kind = "markdown" => node \in Nat \ {0}
  /\ doc.kind = "openapi" => left \subseteq doc.paths /\ title \in Seq(doc.paths)

\* The chunks so far: whose pieces they are, that they are in order, and how windows follow.
ChunksOK ==
  /\ chunks \in Seq(Chunk)
  /\ \A i \in Firsts : chunks[i].piece.id \in Due
  /\ \A i, j \in Firsts : i < j => Before(chunks[i].piece.id, chunks[j].piece.id)
  /\ \A i \in DOMAIN chunks :
       /\ PathIsTrue(chunks[i].piece)
       /\ i \notin Firsts => i - 1 \in DOMAIN chunks /\ chunks[i] = [chunks[i - 1] EXCEPT !.part = @ + 1]

\* A piece that is being cut comes after all others.
PendingOK ==
  stage = "cutting" =>
    /\ doc.kind # "openapi"
    /\ piece \in Piece /\ piece.id \in Due /\ PathIsTrue(piece)
    /\ \A i \in Firsts : Before(chunks[i].piece.id, piece.id)

Overlapping == options.overlap \in 0..(options.max - 1)

\* Nothing is lost, unless the windows do not advance: a piece has a chunk or is about to get its windows.
NothingLost ==
  Overlapping =>
    /\ \A d \in Due : (\E i \in Firsts : chunks[i].piece.id = d) \/ (stage = "cutting" /\ piece.id = d)
    /\ stage = "cutting" => cutting \/ windows # <<>>

PiecesInv ==
  /\ doc \in Documents
  /\ stage = "start" => node = 1 /\ chunks = <<>> /\ title = <<>>
  /\ stage \in {"splitting", "cutting", "done"} => PlaceOK /\ ChunksOK /\ PendingOK /\ NothingLost
  /\ stage = "done" => Due = Parts

\* What depends on the document and the options only.
LEMMA SameDocument ==
  ASSUME doc' = doc, options' = options
  PROVE  /\ Ids' = Ids /\ Piece' = Piece /\ Chunk' = Chunk /\ Parts' = Parts /\ Outermost' = Outermost
         /\ Nodes' = Nodes /\ Headings' = Headings /\ Overlapping' = Overlapping
         /\ \A i, j : Before(chunks[i].piece.id, chunks[j].piece.id)' <=> Before(chunks'[i].piece.id, chunks'[j].piece.id)
         /\ \A i : Before(chunks[i].piece.id, piece.id)' <=> Before(chunks'[i].piece.id, piece'.id)
         /\ \A i : PathIsTrue(chunks[i].piece)' <=> PathIsTrue(chunks'[i].piece)
         /\ PathIsTrue(piece)' <=> PathIsTrue(piece')
         /\ \A n : Inside(n)' = Inside(n)
<1>1. \A n : Inside(n)' = Inside(n)
  BY DEF Inside
<1>2. Outermost' = Outermost
  BY DEF Outermost, Inside
<1>3. Headings' = Headings /\ Nodes' = Nodes /\ Overlapping' = Overlapping
  BY DEF Headings, Nodes, Overlapping
<1>4. \A h : Outline(h)' = Outline(h)
  BY DEF Outline
<1>5. /\ \A i : PathIsTrue(chunks[i].piece)' <=> PathIsTrue(chunks'[i].piece)
      /\ PathIsTrue(piece)' <=> PathIsTrue(piece')
  BY <1>4 DEF PathIsTrue, Outline, Ascending, Range, NoPiece
<1>6. Parts' = Parts
  BY <1>2, <1>3 DEF Parts
<1>7. Ids' = Ids /\ Piece' = Piece /\ Chunk' = Chunk
  BY DEF Ids, Piece, Chunk
<1> QED BY <1>1, <1>2, <1>3, <1>5, <1>6, <1>7 DEF Before

LEMMA ChunksTyped ==
  ASSUME ChunksOK
  PROVE  /\ Len(chunks) \in Nat /\ DOMAIN chunks = 1..Len(chunks)
         /\ Firsts = {i \in 1..Len(chunks) : chunks[i].part <= 1}
         /\ \A i \in 1..Len(chunks) : chunks[i] \in Chunk
<1>1. Len(chunks) \in Nat /\ DOMAIN chunks = 1..Len(chunks)
  BY DEF ChunksOK
<1>2. Firsts = {i \in 1..Len(chunks) : chunks[i].part <= 1}
  BY <1>1 DEF Firsts
<1>3. \A i \in 1..Len(chunks) : chunks[i] \in Chunk
  BY <1>1 DEF ChunksOK
<1> QED BY <1>1, <1>2, <1>3

\* A step that takes nothing.
LEMMA NothingTaken ==
  ASSUME ChunksOK, NothingLost, doc' = doc, options' = options, chunks' = chunks, Due' = Due,
         stage # "cutting", stage' # "cutting"
  PROVE  ChunksOK' /\ PendingOK' /\ NothingLost'
<1>1. Firsts' = Firsts
  BY DEF Firsts
<1>2. ChunksOK'
  BY <1>1, SameDocument DEF ChunksOK
<1>3. NothingLost'
  BY <1>1, SameDocument DEF NothingLost
<1> QED BY <1>2, <1>3 DEF PendingOK

\* One chunk more, with a piece or its beginning.
LEMMA ChunkAdded ==
  ASSUME ChunksOK, doc' = doc, options' = options, NEW p \in Piece, PathIsTrue(p),
         Due' = Due \cup {p.id}, \A i \in Firsts : Before(chunks[i].piece.id, p.id),
         NEW part \in {0, 1}, chunks' = Append(chunks, [piece |-> p, part |-> part])
  PROVE  /\ ChunksOK'
         /\ \A d : (\E i \in Firsts : chunks[i].piece.id = d) \/ d = p.id => \E i \in Firsts' : chunks'[i].piece.id = d
<1> DEFINE n == Len(chunks)
           c == [piece |-> p, part |-> part]
<1>1. /\ n \in Nat /\ DOMAIN chunks = 1..n
      /\ Firsts = {i \in 1..n : chunks[i].part <= 1}
      /\ chunks \in Seq(Chunk) /\ c \in Chunk
  BY ChunksTyped DEF ChunksOK, Chunk
<1>2. /\ chunks' \in Seq(Chunk) /\ Len(chunks') = n + 1 /\ DOMAIN chunks' = 1..(n + 1)
      /\ chunks'[n + 1] = c /\ \A i \in 1..n : chunks'[i] = chunks[i]
  BY <1>1
<1>3. c.piece = p /\ c.part = part /\ part <= 1
  OBVIOUS
<1> HIDE DEF n, c
<1>4. \A i : i \in 1..(n + 1) <=> i \in 1..n \/ i = n + 1
  BY <1>1
<1>5. Firsts' = Firsts \cup {n + 1}
  <2>1. Firsts' = {i \in 1..(n + 1) : chunks'[i].part <= 1}
    BY <1>2 DEF Firsts
  <2>2. \A i \in 1..n : i \in Firsts' <=> i \in Firsts
    BY <1>1, <1>2, <1>4, <2>1
  <2>3. n + 1 \in Firsts'
    BY <1>2, <1>3, <1>4, <2>1
  <2>4. \A i : (i \in Firsts' => i \in 1..(n + 1)) /\ (i \in Firsts => i \in 1..n)
    BY <1>1, <2>1
  <2> QED BY <1>4, <2>2, <2>3, <2>4
<1>6. ASSUME NEW i \in Firsts PROVE i \in 1..n /\ chunks'[i] = chunks[i] /\ i # n + 1 /\ i < n + 1
  BY <1>1, <1>2
<1>7. \A i \in Firsts' : chunks'[i].piece.id \in Due'
  BY <1>2, <1>3, <1>5, <1>6 DEF ChunksOK
<1>8. \A i, j \in Firsts' : i < j => Before(chunks[i].piece.id, chunks[j].piece.id)'
  <2> SUFFICES ASSUME NEW i \in Firsts', NEW j \in Firsts', i < j
               PROVE  Before(chunks'[i].piece.id, chunks'[j].piece.id)
    BY SameDocument
  <2>1. i \in Firsts
    BY <1>1, <1>5, <1>6, n + 1 \in Nat
  <2>2. CASE j \in Firsts
    BY <1>6, <2>1, <2>2 DEF ChunksOK
  <2>3. CASE j = n + 1
    BY <1>2, <1>3, <1>6, <2>1, <2>3
  <2> QED BY <1>5, <2>2, <2>3
<1>9. ASSUME NEW i \in DOMAIN chunks'
      PROVE  /\ PathIsTrue(chunks[i].piece)'
             /\ i \notin Firsts' => i - 1 \in DOMAIN chunks' /\ chunks'[i] = [chunks'[i - 1] EXCEPT !.part = @ + 1]
  <2>1. CASE i \in 1..n
    <3>1. PathIsTrue(chunks[i].piece)'
      BY <1>1, <1>2, <2>1, SameDocument DEF ChunksOK
    <3>2. i \notin Firsts => i - 1 \in 1..n /\ chunks[i] = [chunks[i - 1] EXCEPT !.part = @ + 1]
      BY <1>1, <2>1 DEF ChunksOK
    <3>3. i \notin Firsts' => i - 1 \in 1..n /\ chunks'[i] = [chunks'[i - 1] EXCEPT !.part = @ + 1]
      BY <1>2, <1>5, <2>1, <3>2
    <3> QED BY <1>2, <1>4, <3>1, <3>3
  <2>2. CASE i = n + 1
    BY <1>2, <1>3, <1>5, <2>2, SameDocument
  <2> QED BY <1>2, <1>4, <2>1, <2>2
<1>10. ChunksOK'
  BY <1>2, <1>7, <1>8, <1>9, SameDocument DEF ChunksOK
<1>11. ASSUME NEW d, (\E i \in Firsts : chunks[i].piece.id = d) \/ d = p.id
       PROVE  \E i \in Firsts' : chunks'[i].piece.id = d
  BY <1>2, <1>3, <1>5, <1>6, <1>11
<1> QED BY <1>10, <1>11

\* A piece is taken, whole or to be cut.
LEMMA TakeKeeps ==
  ASSUME Inv, ChunksOK, NothingLost, stage = "splitting", doc' = doc, options' = options,
         NEW p \in Piece, PathIsTrue(p), Due' = Due \cup {p.id}, \A d \in Due : Before(d, p.id),
         Whole(p) \/ (Cut(p) /\ doc.kind # "openapi")
  PROVE  stage' # "done" /\ ChunksOK' /\ PendingOK' /\ NothingLost'
<1>0. \A i \in Firsts : Before(chunks[i].piece.id, p.id)
  BY DEF ChunksOK
<1>1. CASE Whole(p)
  <2>1. chunks' = Append(chunks, [piece |-> p, part |-> 0]) /\ stage' = "splitting"
    BY <1>1 DEF Whole
  <2>2. /\ ChunksOK'
        /\ \A d : (\E i \in Firsts : chunks[i].piece.id = d) \/ d = p.id => \E i \in Firsts' : chunks'[i].piece.id = d
    BY <1>0, <2>1, ChunkAdded
  <2>3. NothingLost'
    BY <2>1, <2>2, SameDocument DEF NothingLost
  <2> QED BY <2>1, <2>2, <2>3 DEF PendingOK
<1>2. CASE Cut(p) /\ doc.kind # "openapi"
  <2>1. chunks' = chunks /\ piece' = p /\ stage' = "cutting" /\ Firsts' = Firsts
    BY <1>2 DEF Cut, Firsts
  <2>2. Overlapping => cutting'
    <3> SUFFICES ASSUME Overlapping PROVE cutting'
      OBVIOUS
    <3> DEFINE unit == IF doc.kind = "code" THEN 1 ELSE 4
    <3>1. PICK n \in 1..MaxUnits : \E breaks \in Breaks(n) :
                 Call(n, breaks, options.max * unit, options.overlap * unit)
      BY <1>2 DEF Cut, BytesPerToken
    <3>2. cutting' = Cuttable(n, options.max * unit, options.overlap * unit)
      BY <3>1 DEF Call
    <3>3. options.max \in Int /\ options.overlap \in Int
      BY OptionsAssumption DEF Inv
    <3>4. options.overlap >= 0 /\ options.overlap < options.max /\ n > 0
      BY <3>1, <3>3, BoundAssumption DEF Overlapping
    <3>5. unit = 1 \/ unit = 4
      OBVIOUS
    <3> HIDE DEF unit
    <3>6. Cuttable(n, options.max * unit, options.overlap * unit)
      BY <3>3, <3>4, <3>5 DEF Cuttable
    <3> QED BY <3>2, <3>6
  <2>3. ChunksOK'
    <3>1. \A i \in Firsts : chunks[i].piece.id \in Due'
      BY DEF ChunksOK
    <3> QED BY <2>1, <3>1, SameDocument DEF ChunksOK
  <2>4. PendingOK'
    <3>1. Piece' = Piece /\ PathIsTrue(piece)' /\ doc'.kind # "openapi"
      BY <1>2, <2>1, SameDocument
    <3>2. \A i \in Firsts' : Before(chunks[i].piece.id, piece.id)'
      BY <1>0, <2>1, SameDocument
    <3> QED BY <2>1, <3>1, <3>2 DEF PendingOK
  <2>5. NothingLost'
    BY <2>1, <2>2, SameDocument DEF NothingLost
  <2> QED BY <2>1, <2>3, <2>4, <2>5
<1> QED BY <1>1, <1>2

\* The windows of a piece become its chunks.
LEMMA CollectKeeps ==
  ASSUME Inv, ChunksOK, PendingOK, NothingLost, Collect, Due' = Due
  PROVE  ChunksOK' /\ PendingOK' /\ NothingLost'
<1> DEFINE n == Len(chunks)
           k == Len(windows)
           W == [i \in DOMAIN windows |-> [piece |-> piece, part |-> i]]
<1>1. /\ chunks' = chunks \o W /\ stage' = "splitting" /\ stage = "cutting" /\ ~cutting
      /\ doc' = doc /\ options' = options
  BY DEF Collect
<1>2. /\ n \in Nat /\ DOMAIN chunks = 1..n /\ chunks \in Seq(Chunk)
      /\ Firsts = {i \in 1..n : chunks[i].part <= 1}
  BY ChunksTyped DEF ChunksOK
<1>3. k \in Nat /\ DOMAIN windows = 1..k
  BY DEF Inv, WindowTypeOK
<1>4. /\ piece \in Piece /\ piece.id \in Due /\ PathIsTrue(piece)
      /\ \A i \in Firsts : Before(chunks[i].piece.id, piece.id)
  BY <1>1 DEF PendingOK
<1>5. W = [i \in 1..k |-> [piece |-> piece, part |-> i]]
  BY <1>3
<1>6. W \in Seq(Chunk) /\ Len(W) = k
  <2>1. \A i \in 1..k : [piece |-> piece, part |-> i] \in Chunk
    BY <1>3, <1>4 DEF Chunk
  <2> HIDE DEF W
  <2> QED BY <1>3, <1>5, <2>1
<1>7. \A i \in 1..k : W[i].piece = piece /\ W[i].part = i
  <2> HIDE DEF W
  <2> QED BY <1>5
<1> HIDE DEF W
<1>8. /\ chunks' \in Seq(Chunk) /\ Len(chunks') = n + k /\ DOMAIN chunks' = 1..(n + k)
      /\ \A i \in 1..n : chunks'[i] = chunks[i]
      /\ \A i \in 1..k : chunks'[n + i] = W[i]
  BY <1>1, <1>2, <1>3, <1>6
<1> HIDE DEF n, k
<1>9. \A i : i \in 1..(n + k) <=> i \in 1..n \/ (\E j \in 1..k : i = n + j)
  <2>1. \A i : i \in 1..(n + k) /\ i \notin 1..n => i - n \in 1..k /\ i = n + (i - n)
    BY <1>2, <1>3
  <2>2. \A j \in 1..k : n + j \in 1..(n + k)
    BY <1>2, <1>3
  <2>3. \A i \in 1..n : i \in 1..(n + k)
    BY <1>2, <1>3
  <2> QED BY <2>1, <2>2, <2>3
<1>10. ASSUME NEW i \in Firsts' PROVE i \in Firsts \/ (k # 0 /\ i = n + 1 /\ chunks'[i].piece = piece)
  <2>1. i \in 1..(n + k) /\ chunks'[i].part <= 1
    BY <1>8 DEF Firsts
  <2>2. CASE i \in 1..n
    BY <1>2, <1>8, <2>1, <2>2
  <2>3. ASSUME NEW j \in 1..k, i = n + j PROVE k # 0 /\ i = n + 1 /\ chunks'[i].piece = piece
    <3>1. chunks'[i].piece = piece /\ chunks'[i].part = j
      BY <1>7, <1>8, <2>3
    <3>2. j = 1 /\ k # 0
      BY <1>3, <2>1, <3>1
    <3> QED BY <2>3, <3>1, <3>2
  <2> QED BY <1>9, <2>1, <2>2, <2>3
<1>11. ASSUME NEW i \in Firsts PROVE i \in Firsts' /\ chunks'[i] = chunks[i] /\ i \in 1..n
  BY <1>2, <1>8, <1>9 DEF Firsts
<1>12. k # 0 => n + 1 \in Firsts' /\ chunks'[n + 1].piece = piece
  <2> SUFFICES ASSUME k # 0 PROVE n + 1 \in Firsts' /\ chunks'[n + 1].piece = piece
    OBVIOUS
  <2>1. 1 \in 1..k
    BY <1>3
  <2>2. chunks'[n + 1].piece = piece /\ chunks'[n + 1].part = 1
    BY <1>7, <1>8, <2>1
  <2> QED BY <1>8, <1>9, <2>1, <2>2 DEF Firsts
<1>13. \A i \in Firsts' : chunks'[i].piece.id \in Due'
  BY <1>4, <1>10, <1>11 DEF ChunksOK
<1>14. \A i, j \in Firsts' : i < j => Before(chunks[i].piece.id, chunks[j].piece.id)'
  <2> SUFFICES ASSUME NEW i \in Firsts', NEW j \in Firsts', i < j
               PROVE  Before(chunks'[i].piece.id, chunks'[j].piece.id)
    BY <1>1, SameDocument
  <2>1. i \in Firsts
    <3>1. i = n + 1 => FALSE
      <4>1. j \in 1..n \/ j = n + 1
        BY <1>10, <1>11
      <4> QED BY <1>2, <4>1
    <3> QED BY <1>10, <3>1
  <2>2. CASE j \in Firsts
    BY <1>11, <2>1, <2>2 DEF ChunksOK
  <2>3. CASE j \notin Firsts
    BY <1>4, <1>10, <1>11, <2>1, <2>3
  <2> QED BY <2>2, <2>3
<1>15. ASSUME NEW i \in DOMAIN chunks'
       PROVE  /\ PathIsTrue(chunks[i].piece)'
              /\ i \notin Firsts' => i - 1 \in DOMAIN chunks' /\ chunks'[i] = [chunks'[i - 1] EXCEPT !.part = @ + 1]
  <2>1. CASE i \in 1..n
    <3>1. PathIsTrue(chunks[i].piece)'
      BY <1>1, <1>2, <1>8, <2>1, SameDocument DEF ChunksOK
    <3>2. i \notin Firsts => i - 1 \in 1..n /\ chunks[i] = [chunks[i - 1] EXCEPT !.part = @ + 1]
      BY <1>2, <2>1 DEF ChunksOK
    <3>3. i \notin Firsts' => i - 1 \in 1..n /\ chunks'[i] = [chunks'[i - 1] EXCEPT !.part = @ + 1]
      BY <1>8, <1>11, <2>1, <3>2
    <3> QED BY <1>8, <1>9, <3>1, <3>3
  <2>2. ASSUME NEW j \in 1..k, i = n + j
        PROVE  /\ PathIsTrue(chunks[i].piece)'
               /\ i \notin Firsts' => i - 1 \in DOMAIN chunks' /\ chunks'[i] = [chunks'[i - 1] EXCEPT !.part = @ + 1]
    <3>1. chunks'[i] = W[j] /\ W[j].piece = piece
      BY <1>7, <1>8, <2>2
    <3>2. PathIsTrue(chunks[i].piece)'
      BY <1>1, <1>4, <3>1, SameDocument
    <3>3. ASSUME i \notin Firsts' PROVE i - 1 \in DOMAIN chunks' /\ chunks'[i] = [chunks'[i - 1] EXCEPT !.part = @ + 1]
      <4>1. j # 1
        BY <1>3, <1>12, <2>2, <3>3
      <4>2. j - 1 \in 1..k /\ i - 1 = n + (j - 1) /\ (j - 1) + 1 = j
        BY <1>2, <1>3, <2>2, <4>1
      <4>3. chunks'[i - 1] = W[j - 1] /\ i - 1 \in DOMAIN chunks'
        BY <1>8, <1>9, <4>2
      <4>4. W[j] = [piece |-> piece, part |-> j] /\ W[j - 1] = [piece |-> piece, part |-> j - 1]
        BY <1>5, <4>2
      <4>5. [[piece |-> piece, part |-> j - 1] EXCEPT !.part = @ + 1] = [piece |-> piece, part |-> j]
        BY <4>2
      <4> QED BY <3>1, <4>3, <4>4, <4>5
    <3> QED BY <3>2, <3>3
  <2> QED BY <1>8, <1>9, <2>1, <2>2
<1>16. ChunksOK'
  BY <1>1, <1>8, <1>13, <1>14, <1>15, SameDocument DEF ChunksOK
<1>17. NothingLost'
  <2> SUFFICES ASSUME Overlapping PROVE \A d \in Due : \E i \in Firsts' : chunks'[i].piece.id = d
    BY <1>1, SameDocument DEF NothingLost
  <2>1. k # 0
    BY <1>1, <1>3 DEF NothingLost, k
  <2>2. \A d \in Due : (\E i \in Firsts : chunks[i].piece.id = d) \/ piece.id = d
    BY DEF NothingLost
  <2> QED BY <1>11, <1>12, <2>1, <2>2
<1> QED BY <1>1, <1>16, <1>17 DEF PendingOK

LEMMA CutOnKeeps ==
  ASSUME Inv, ChunksOK, PendingOK, NothingLost, stage = "cutting", UNCHANGED splitVars, Window, Due' = Due
  PROVE  ChunksOK' /\ PendingOK' /\ NothingLost'
<1>1. doc' = doc /\ options' = options /\ chunks' = chunks /\ piece' = piece /\ stage' = stage /\ Firsts' = Firsts
  BY DEF splitVars, Firsts
<1>2. windows' # <<>>
  BY DEF Window, Inv, WindowTypeOK
<1>3. ChunksOK'
  BY <1>1, SameDocument DEF ChunksOK
<1>4. PendingOK'
  BY <1>1, SameDocument DEF PendingOK
<1>5. NothingLost'
  BY <1>1, <1>2, SameDocument DEF NothingLost
<1> QED BY <1>3, <1>4, <1>5

PiecesStep == PlaceOK' /\ ChunksOK' /\ PendingOK' /\ NothingLost' /\ (stage' = "done" => Due' = Parts')

LEMMA KindOfDocument ==
  ASSUME doc \in Documents
  PROVE  /\ doc.kind \in {"code", "markdown", "openapi"}
         /\ doc.kind = "markdown" => doc.levels \in Seq(1..6) /\ Headings \in Nat
  BY DocumentsAssumption DEF Headings

LEMMA PiecesChoose ==
  ASSUME PiecesInv, Choose, stage' = "splitting"
  PROVE  PiecesStep
<1>1. /\ stage = "start" /\ node = 1 /\ chunks = <<>> /\ title = <<>> /\ doc \in Documents
      /\ node' = node /\ chunks' = chunks /\ title' = title /\ doc' = doc /\ options' = options
      /\ left' = IF doc.kind = "openapi" THEN doc.paths ELSE {}
  BY DEF Choose, PiecesInv
<1>2. Firsts' = {}
  BY <1>1 DEF Firsts
<1>3. Due' = {} /\ PlaceOK'
  <2>1. CASE doc.kind = "code"
    <3>1. PICK size \in Nat : Tree(size)
      BY <1>1, <2>1, DocumentIsTree
    <3>2. Nodes = 1..size /\ 1 \in 1..size /\ doc.wanted \subseteq Nodes
      BY <1>1, <2>1, <3>1, DocumentIsTree DEF Tree
    <3>3. Inside(1) = {0}
      <4>1. Above(1) = {0}
        BY DEF Above
      <4> QED BY <3>1, <3>2, <4>1, InsideIsAbove
    <3>4. PlaceOK'
      <4>1. Inside(1) \cap doc.wanted = {}
        BY <3>2, <3>3
      <4> QED BY <1>1, <2>1, <3>2, <4>1, SameDocument DEF PlaceOK
    <3>5. \A n \in Outermost : ~(n < 1)
      BY <3>2 DEF Outermost
    <3>6. Due' = {n \in Outermost : node' = 0 \/ n < node'}
      BY <1>1, <2>1, SameDocument DEF Due
    <3> QED BY <1>1, <3>4, <3>5, <3>6
  <2>2. CASE doc.kind = "markdown"
    <3>1. Due' = {h \in Parts : h < 1 /\ (h = 0 => 1 < 1)}
      BY <1>1, <2>2, SameDocument DEF Due
    <3>2. \A h \in Parts : h \in Nat
      BY <1>1, <2>2, KindOfDocument DEF Parts
    <3>3. Due' = {}
      BY <3>1, <3>2
    <3> QED BY <1>1, <2>2, <3>3 DEF PlaceOK
  <2>3. CASE doc.kind = "openapi"
    <3>1. Due' = {}
      BY <1>1, <2>3, SameDocument DEF Due
    <3>2. <<>> \in Seq(doc.paths)
      OBVIOUS
    <3> QED BY <1>1, <2>3, <3>1, <3>2 DEF PlaceOK
  <2> QED BY <1>1, <2>1, <2>2, <2>3, KindOfDocument
<1>4. ChunksOK'
  <2>1. chunks' \in Seq(Chunk) /\ DOMAIN chunks' = {}
    BY <1>1
  <2> QED BY <1>1, <1>2, <2>1, SameDocument DEF ChunksOK
<1>5. NothingLost'
  BY <1>3 DEF NothingLost
<1> QED BY <1>3, <1>4, <1>5 DEF PendingOK, PiecesStep

LEMMA PiecesVisitNode ==
  ASSUME Inv, PiecesInv, VisitNode
  PROVE  PiecesStep
<1>1. /\ doc.kind = "code" /\ stage = "splitting" /\ doc \in Documents
      /\ PlaceOK /\ ChunksOK /\ NothingLost
      /\ doc' = doc /\ options' = options /\ doc'.kind = "code"
  BY DEF VisitNode, PiecesInv
<1>2. PICK size \in Nat : Tree(size)
  BY <1>1, DocumentIsTree
<1>3. Nodes = 1..size /\ doc.wanted \subseteq 1..size /\ node \in 0..size
  <2>1. Nodes = 1..size /\ doc.wanted \subseteq Nodes
    BY <1>1, <1>2, DocumentIsTree DEF Tree
  <2>2. node \in Nodes \cup {0}
    BY <1>1 DEF PlaceOK
  <2> QED BY <2>1, <2>2
<1>4. Due = {n \in Outermost : node = 0 \/ n < node} /\ Due' = {n \in Outermost : node' = 0 \/ n < node'}
  BY <1>1, SameDocument DEF Due
<1>5. \A n \in Outermost : n \in 1..size /\ n \in doc.wanted /\ Inside(n) \cap doc.wanted = {}
  BY <1>3 DEF Outermost
<1>6. /\ Parts' = Outermost
      /\ PlaceOK' <=> node' \in 0..size /\ (node' # 0 => Inside(node') \cap doc.wanted = {})
  <2>1. Parts' = Outermost
    BY <1>1, SameDocument DEF Parts
  <2>2. Nodes \cup {0} = 0..size
    BY <1>3
  <2>3. Nodes' = Nodes /\ (Inside(node)') = Inside(node')
    BY <1>1, SameDocument DEF Inside
  <2> QED BY <1>1, <2>1, <2>2, <2>3 DEF PlaceOK
<1>7. CASE node = 0 /\ Finished /\ UNCHANGED node
  <2>1. chunks' = chunks /\ stage' = "done" /\ node' = 0 /\ Due' = Due /\ Due' = Parts' /\ PlaceOK'
    BY <1>4, <1>6, <1>7 DEF Finished
  <2> QED BY <1>1, <2>1, NothingTaken DEF PiecesStep
<1>8. CASE MakesChunk(node) /\ Take([id |-> node, path |-> <<>>]) /\ node' = AfterChunk(node)
  <2>1. node \in 1..size /\ node \in doc.wanted /\ node # 0 /\ node \in Outermost
    <3>1. node \in 1..size /\ node \in doc.wanted /\ node # 0
      BY <1>3, <1>8 DEF MakesChunk
    <3> QED BY <1>1, <3>1 DEF Outermost, PlaceOK
  <2>2. node' = NextOf(node)
    BY <1>2, <1>8, <2>1, OnwardIsNext DEF AfterChunk
  <2>3. /\ node' = 0 \/ (node' \in 1..size /\ node < node' /\ Inside(node') \subseteq Inside(node))
        /\ \A k \in 1..size : node < k /\ (node' = 0 \/ k < node') => node \in Inside(k)
    <3>1. PICK next : next = node'
      OBVIOUS
    <3> HIDE <2>2
    <3>2. /\ next = 0 \/ (next \in 1..size /\ node < next /\ Inside(next) \subseteq Inside(node))
          /\ \A k \in 1..size : node < k /\ (next = 0 \/ k < next) => node \in Inside(k)
      BY <1>2, <2>1, <2>2, <3>1, NextLeaves
    <3> QED BY <3>1, <3>2
  <2>4. PlaceOK'
    <3>1. Inside(node) \cap doc.wanted = {}
      BY <1>1, <2>1 DEF PlaceOK
    <3>2. node' \in 0..size
      BY <2>3
    <3> QED BY <1>6, <2>3, <3>1, <3>2
  <2>5. Due' = Due \cup {node}
    <3>1. ASSUME NEW n \in Outermost, node' = 0 \/ n < node', n # node PROVE n < node
      <4>1. ~(node < n)
        BY <1>5, <2>1, <2>3, <3>1
      <4>2. n \in Nat /\ node \in Nat
        BY <1>5, <2>1
      <4> QED BY <3>1, <4>1, <4>2
    <3>2. ASSUME NEW n \in Outermost, n < node PROVE node' = 0 \/ n < node'
      BY <1>5, <2>1, <2>3, <3>2
    <3>3. node' = 0 \/ node < node'
      BY <2>3
    <3> QED BY <1>4, <2>1, <3>1, <3>2, <3>3
  <2>6. PICK p : p = [id |-> node, path |-> <<>>]
    OBVIOUS
  <2>7. p.id = node /\ p.path = <<>> /\ p \in Piece /\ PathIsTrue(p)
    <3>1. Piece = [id : Nat, path : Seq(Nat)]
      BY <1>1 DEF Piece, Ids
    <3>2. p.id = node /\ p.path = <<>> /\ p \in Piece
      BY <2>1, <2>6, <3>1
    <3> QED BY <1>1, <3>2 DEF PathIsTrue
  <2>8. \A d \in Due : Before(d, p.id)
    BY <1>1, <1>4, <2>1, <2>7 DEF Before
  <2>9. Whole(p) \/ Cut(p)
    BY <1>8, <2>6 DEF Take
  <2>10. stage' # "done" /\ ChunksOK' /\ PendingOK' /\ NothingLost'
    BY <1>1, <2>5, <2>7, <2>8, <2>9, TakeKeeps
  <2> QED BY <2>4, <2>10 DEF PiecesStep
<1>9. CASE /\ node # 0 /\ ~MakesChunk(node)
           /\ node' = IF Children(node) # {} THEN Least(Children(node)) ELSE Onward(node)
           /\ UNCHANGED <<stage, chunks, piece, windowVars>>
  <2>1. node \in 1..size /\ node \notin doc.wanted /\ Inside(node) \cap doc.wanted = {}
    BY <1>1, <1>3, <1>9 DEF MakesChunk, PlaceOK
  <2>2. /\ Children(node) # {} => node' = node + 1 /\ node + 1 \in 1..size /\ Inside(node + 1) = {node} \cup Inside(node)
        /\ Children(node) = {} => node' = NextOf(node) /\ (node' = node + 1 \/ (node' = 0 /\ node = size))
    BY <1>2, <1>9, <2>1, NextInOrder, OnwardIsNext
  <2>3. PlaceOK'
    <3>1. CASE Children(node) # {}
      BY <1>6, <2>1, <2>2, <3>1
    <3>2. CASE Children(node) = {}
      <4>1. PICK next : next = node'
        OBVIOUS
      <4>2. next = 0 \/ (next \in 1..size /\ node < next /\ Inside(next) \subseteq Inside(node))
        BY <1>2, <2>1, <2>2, <3>2, <4>1, NextLeaves
      <4>3. next \in 0..size
        BY <4>2
      <4> QED BY <1>6, <2>1, <4>1, <4>2, <4>3
    <3> QED BY <3>1, <3>2
  <2>4. Due' = Due
    <3>1. node' = node + 1 \/ (node' = 0 /\ node = size)
      BY <2>2
    <3>2. ASSUME NEW n \in Outermost PROVE (node = 0 \/ n < node) <=> (node' = 0 \/ n < node')
      <4>1. n \in 1..size /\ n # node
        BY <1>5, <2>1
      <4> QED BY <2>1, <3>1, <4>1
    <3> QED BY <1>4, <3>2
  <2>5. chunks' = chunks /\ stage' = "splitting"
    BY <1>1, <1>9
  <2> QED BY <1>1, <2>3, <2>4, <2>5, NothingTaken DEF PiecesStep
<1> QED BY <1>7, <1>8, <1>9 DEF VisitNode

LEMMA PiecesVisitHeading ==
  ASSUME Inv, PiecesInv, VisitHeading
  PROVE  PiecesStep
<1>1. /\ doc.kind = "markdown" /\ stage = "splitting" /\ doc \in Documents
      /\ PlaceOK /\ ChunksOK /\ NothingLost
      /\ doc' = doc /\ options' = options /\ doc'.kind = "markdown" /\ node' = node + 1
  BY DEF VisitHeading, PiecesInv
<1>2. Headings \in Nat /\ doc.levels \in Seq(1..6) /\ node \in Nat \ {0} /\ PlaceOK'
  <2>1. Headings \in Nat /\ doc.levels \in Seq(1..6) /\ node \in Nat \ {0}
    BY <1>1, KindOfDocument DEF PlaceOK
  <2> QED BY <1>1, <2>1 DEF PlaceOK
<1>3. Parts = (IF Headings = 0 THEN {0} ELSE 1..Headings) /\ Parts' = Parts
  BY <1>1, SameDocument DEF Parts
<1>4. /\ Due = {h \in Parts : h < node /\ (h = 0 => 1 < node)}
      /\ Due' = {h \in Parts : h < node + 1 /\ (h = 0 => 1 < node + 1)}
  BY <1>1, SameDocument DEF Due
<1>5. Piece = [id : Nat, path : Seq(Nat)] /\ \A a, b : Before(a, b) <=> a < b
  BY <1>1 DEF Piece, Ids, Before
<1>6. CASE Headings = 0 /\ node = 1 /\ Take(NoPiece)
  <2>1. NoPiece.id = 0 /\ NoPiece \in Piece /\ PathIsTrue(NoPiece)
    BY <1>1, <1>5 DEF NoPiece, PathIsTrue
  <2>2. Due = {} /\ Due' = {0}
    BY <1>3, <1>4, <1>6
  <2>3. stage' # "done" /\ ChunksOK' /\ PendingOK' /\ NothingLost'
    BY <1>1, <1>6, <2>1, <2>2, TakeKeeps DEF Take
  <2> QED BY <1>2, <2>3 DEF PiecesStep
<1>7. CASE node <= Headings /\ Take([id |-> node, path |-> HeaderPath(node)])
  <2>1. node \in 1..Headings /\ Headings # 0 /\ node # 0
    BY <1>2, <1>7
  <2>2. PICK p : p = [id |-> node, path |-> HeaderPath(node)]
    OBVIOUS
  <2>3. p.id = node /\ IsPath(p.path, Outline(node))
    BY <1>2, <2>1, <2>2, HeaderPathIsOutline
  <2>4. p \in Piece /\ PathIsTrue(p)
    <3>1. p.path \in Seq(Nat) /\ p.path = HeaderPath(node)
      BY <2>2, <2>3 DEF IsPath
    <3>2. p \in Piece
      BY <1>5, <2>1, <2>2, <3>1
    <3> QED BY <1>1, <2>1, <2>3, <3>2 DEF PathIsTrue, IsPath
  <2>5. Due' = Due \cup {p.id}
    <3>1. \A h \in 1..Headings :
            (h < node + 1 /\ (h = 0 => 1 < node + 1)) <=> ((h < node /\ (h = 0 => 1 < node)) \/ h = node)
      BY <2>1
    <3> QED BY <1>3, <1>4, <2>1, <2>3, <3>1
  <2>6. \A d \in Due : Before(d, p.id)
    BY <1>4, <1>5, <2>3
  <2>7. Whole(p) \/ Cut(p)
    BY <1>7, <2>2 DEF Take
  <2>8. stage' # "done" /\ ChunksOK' /\ PendingOK' /\ NothingLost'
    BY <1>1, <2>4, <2>5, <2>6, <2>7, TakeKeeps
  <2> QED BY <1>2, <2>8 DEF PiecesStep
<1>8. CASE node > Headings /\ (Headings = 0 => node > 1) /\ Finished
  <2>1. chunks' = chunks /\ stage' = "done"
    BY <1>8 DEF Finished
  <2>2. \A h \in Parts : h < node /\ (h = 0 => 1 < node) /\ h < node + 1 /\ (h = 0 => 1 < node + 1)
    BY <1>2, <1>3, <1>8
  <2>3. Due' = Due /\ Due' = Parts'
    BY <1>3, <1>4, <2>2
  <2> QED BY <1>1, <1>2, <2>1, <2>3, NothingTaken DEF PiecesStep
<1> QED BY <1>6, <1>7, <1>8 DEF VisitHeading

LEMMA PiecesVisitPath ==
  ASSUME Inv, PiecesInv, VisitPath
  PROVE  PiecesStep
<1>1. /\ doc.kind = "openapi" /\ stage = "splitting" /\ doc \in Documents
      /\ PlaceOK /\ ChunksOK /\ NothingLost
      /\ doc' = doc /\ options' = options /\ doc'.kind = "openapi"
  BY DEF VisitPath, PiecesInv
<1>2. left \subseteq doc.paths /\ title \in Seq(doc.paths)
  BY <1>1 DEF PlaceOK
<1>3. Due = doc.paths \ left /\ Due' = doc.paths \ left' /\ Parts' = doc.paths
  BY <1>1, SameDocument DEF Due, Parts
<1>4. CASE left = {} /\ Finished /\ UNCHANGED <<left, title>>
  <2>1. chunks' = chunks /\ stage' = "done" /\ left' = left /\ title' = title
    BY <1>4 DEF Finished
  <2>2. Due' = Due /\ Due' = Parts' /\ PlaceOK'
    BY <1>1, <1>2, <1>3, <1>4, <2>1 DEF PlaceOK
  <2> QED BY <1>1, <2>1, <2>2, NothingTaken DEF PiecesStep
<1>5. ASSUME NEW path \in left, left' = OthersLeft(path), title' = TitleFor(path),
             Whole([id |-> path, path |-> title'])
      PROVE  PiecesStep
  <2>1. title' \in Seq(doc.paths) /\ Last(title') = path
    <3>1. path \in doc.paths
      BY <1>2
    <3>2. CASE title' = Append(title, path)
      BY <1>2, <3>1, <3>2 DEF Last
    <3>3. CASE title' = <<path>>
      <4>1. \A S : \A x \in S : <<x>> \in Seq(S)
        OBVIOUS
      <4>2. Len(<<path>>) = 1 /\ <<path>>[1] = path
        OBVIOUS
      <4>3. <<path>> \in Seq(doc.paths)
        BY <3>1, <4>1, Zenon
      <4>4. Last(<<path>>) = path
        BY <4>2 DEF Last
      <4> QED BY <3>3, <4>3, <4>4, Zenon
    <3>4. title' = Append(title, path) \/ title' = <<path>>
      BY <1>5 DEF TitleFor
    <3> QED BY <3>2, <3>3, <3>4
  <2>2. PICK p : p = [id |-> path, path |-> title']
    OBVIOUS
  <2>3. p.id = path /\ p \in Piece /\ PathIsTrue(p)
    <3>1. Piece = [id : doc.paths, path : Seq(doc.paths)]
      BY <1>1 DEF Piece, Ids
    <3>2. p.id = path /\ p.path = title' /\ p \in Piece
      BY <1>2, <2>1, <2>2, <3>1
    <3> QED BY <1>1, <2>1, <3>2 DEF PathIsTrue
  <2>4. Due' = Due \cup {p.id} /\ \A d \in Due : Before(d, p.id)
    BY <1>1, <1>2, <1>3, <1>5, <2>3 DEF OthersLeft, Before
  <2>5. Whole(p)
    BY <1>5, <2>2
  <2>6. stage' # "done" /\ ChunksOK' /\ PendingOK' /\ NothingLost'
    BY <1>1, <2>3, <2>4, <2>5, TakeKeeps
  <2>7. PlaceOK'
    BY <1>1, <1>2, <1>5, <2>1 DEF PlaceOK, OthersLeft
  <2> QED BY <2>6, <2>7 DEF PiecesStep
<1> QED BY <1>4, <1>5 DEF VisitPath

\* Due and PlaceOK depend on nothing else.
LEMMA SamePlace ==
  ASSUME PlaceOK, doc' = doc, options' = options, node' = node, left' = left, title' = title
  PROVE  PlaceOK' /\ Due' = Due
<1>1. Due' = Due
  BY SameDocument DEF Due
<1>2. (Inside(node)') = Inside(node)
  BY DEF Inside
<1> QED BY <1>1, <1>2, SameDocument DEF PlaceOK

LEMMA PiecesInvNext ==
  ASSUME Inv, PiecesInv, [Next]_vars
  PROVE  PiecesInv'
<1>1. ASSUME PiecesStep, doc' = doc, stage' \in {"splitting", "cutting", "done"}
      PROVE  PiecesInv'
  BY <1>1 DEF PiecesStep, PiecesInv
<1>2. CASE UNCHANGED vars
  <2>1. /\ options' = options /\ doc' = doc /\ stage' = stage /\ node' = node /\ left' = left /\ title' = title
        /\ piece' = piece /\ chunks' = chunks /\ cutting' = cutting /\ windows' = windows
    BY <1>2 DEF vars, splitVars, windowVars
  <2>2. Firsts' = Firsts
    BY <2>1 DEF Firsts
  <2>3. stage \in {"splitting", "cutting", "done"} => PlaceOK' /\ Due' = Due
    BY <2>1, SamePlace DEF PiecesInv
  <2>4. stage \in {"splitting", "cutting", "done"} => ChunksOK' /\ PendingOK' /\ NothingLost'
    BY <2>1, <2>2, <2>3, SameDocument DEF PiecesInv, ChunksOK, PendingOK, NothingLost
  <2> QED BY <2>1, <2>3, <2>4, SameDocument DEF PiecesInv
<1>3. CASE Choose
  <2>1. doc' = doc /\ stage' \in {"refused", "splitting"}
    BY <1>3 DEF Choose
  <2>2. CASE stage' = "refused"
    BY <2>1, <2>2 DEF PiecesInv
  <2>3. CASE stage' = "splitting"
    BY <1>1, <1>3, <2>1, <2>3, PiecesChoose
  <2> QED BY <2>1, <2>2, <2>3
<1>4. CASE VisitNode \/ VisitHeading \/ VisitPath
  <2>1. doc' = doc /\ stage' \in {"splitting", "cutting", "done"}
    BY <1>4 DEF VisitNode, VisitHeading, VisitPath, Take, Whole, Cut, Finished
  <2> QED BY <1>1, <1>4, <2>1, PiecesVisitNode, PiecesVisitHeading, PiecesVisitPath
<1>5. CASE CutOn
  <2>1. /\ stage = "cutting" /\ UNCHANGED splitVars /\ Window
        /\ options' = options /\ doc' = doc /\ stage' = stage /\ node' = node /\ left' = left /\ title' = title
    BY <1>5 DEF CutOn, splitVars
  <2>2. PlaceOK' /\ Due' = Due
    BY <2>1, SamePlace DEF PiecesInv
  <2>3. ChunksOK' /\ PendingOK' /\ NothingLost'
    BY <2>1, <2>2, CutOnKeeps DEF PiecesInv
  <2> QED BY <1>1, <2>1, <2>2, <2>3 DEF PiecesStep
<1>6. CASE Collect
  <2>1. /\ stage = "cutting" /\ stage' = "splitting"
        /\ options' = options /\ doc' = doc /\ node' = node /\ left' = left /\ title' = title
    BY <1>6 DEF Collect
  <2>2. PlaceOK' /\ Due' = Due
    BY <2>1, SamePlace DEF PiecesInv
  <2>3. ChunksOK' /\ PendingOK' /\ NothingLost'
    BY <1>6, <2>1, <2>2, CollectKeeps DEF PiecesInv
  <2> QED BY <1>1, <2>1, <2>2, <2>3 DEF PiecesStep
<1> QED BY <1>2, <1>3, <1>4, <1>5, <1>6 DEF Next

LEMMA PiecesInvariance == Spec => []PiecesInv
<1>1. Init => PiecesInv
  BY DEF Init, PiecesInv
<1> QED BY <1>1, PiecesInvNext, Invariance, PTL DEF Spec

(***************************************************************************)
(* Whatever the tree, the headings or the paths of an API: a split that is *)
(* done has taken each piece there is, once and in order, none of what is  *)
(* inside another, and each with its true path, also where pieces are cut. *)
(***************************************************************************)
THEOREM PiecesAreTrueHolds == Spec => []PiecesAreTrue
<1>1. ASSUME PiecesInv PROVE PiecesAreTrue
  <2> SUFFICES ASSUME stage = "done", Overlapping
               PROVE  /\ {chunks[i].piece.id : i \in Firsts} = Parts
                      /\ \A i, j \in Firsts : i < j =>
                           IF doc.kind = "openapi" THEN chunks[i].piece.id # chunks[j].piece.id
                                                   ELSE chunks[i].piece.id < chunks[j].piece.id
                      /\ \A i \in DOMAIN chunks :
                           /\ PathIsTrue(chunks[i].piece)
                           /\ i \notin Firsts => i - 1 \in DOMAIN chunks /\ chunks[i] = [chunks[i - 1] EXCEPT !.part = @ + 1]
    BY DEF PiecesAreTrue, Overlapping
  <2>1. ChunksOK /\ NothingLost /\ Due = Parts
    BY <1>1 DEF PiecesInv
  <2>2. \A i \in Firsts : chunks[i].piece.id \in Parts
    BY <2>1 DEF ChunksOK
  <2>3. \A d \in Parts : \E i \in Firsts : chunks[i].piece.id = d
    BY <2>1 DEF NothingLost
  <2> QED BY <2>1, <2>2, <2>3 DEF ChunksOK, Before
<1> QED BY <1>1, PiecesInvariance, PTL
=============================================================================
