------------------------------- MODULE Splitter -------------------------------
(***************************************************************************)
(* CodeSplitter.Split: from a file to its chunks.  A file of code is       *)
(* walked along its syntax tree, a markdown file is cut at its headings,   *)
(* an OpenAPI file at its paths; a piece with more tokens than a chunk may *)
(* have goes through the sliding window.                                   *)
(*                                                                         *)
(* A document is what the parsers make of a file.  Code: the parent of     *)
(* each node of the tree, nodes numbered as they begin in the file, and    *)
(* the nodes of a kind that makes a chunk.  Markdown: the level of each    *)
(* heading, in order.  OpenAPI: its version and its paths.  How long a     *)
(* piece is, and where its lines end, is chosen when it is cut.            *)
(***************************************************************************)
EXTENDS SlidingWindow, SequencesExt

CONSTANTS
  Options,     \* the SplitOptions it may be configured with
  Documents,   \* the files to split
  MaxUnits,    \* bound: units of a piece that is cut
  MaxBreaks,   \* bound: newlines in it
  MaxCuts      \* bound: pieces of a file that are cut

ASSUME OptionsAssumption ==
  \A o \in Options : o.max \in Int /\ o.overlap \in Int
ASSUME BoundAssumption == MaxUnits \in Nat

\* Nodes are numbered as they begin: none between a node and its parent has a parent before that one.
IsTree(parent) ==
  /\ Len(parent) \in Nat \ {0} /\ DOMAIN parent = 1..Len(parent)
  /\ parent[1] = 0
  /\ \A n \in DOMAIN parent \ {1} :
       /\ parent[n] \in 1..(n - 1)
       /\ \A k \in (parent[n] + 1)..(n - 1) : parent[k] >= parent[n]

ASSUME DocumentsAssumption ==
  \A d \in Documents :
    /\ d.kind \in {"code", "markdown", "openapi"}
    /\ d.kind = "code" => IsTree(d.parent) /\ d.wanted \subseteq DOMAIN d.parent
    /\ d.kind = "markdown" => d.levels \in Seq(1..6)

BytesPerToken == 4

VARIABLES
  options,   \* SplitOptions
  doc,       \* the file
  stage,     \* "start", "splitting", "cutting", "done" or "refused"
  node,      \* the node of the cursor or the number of the heading
  left,      \* the paths of the API that are still to come
  title,     \* what the path loop has appended to the title of the API so far
  piece,     \* the piece that is being cut
  chunks     \* the chunks so far: a piece, and its window or 0

splitVars == <<options, doc, stage, node, left, title, piece, chunks>>
vars      == <<splitVars, windowVars>>

NoPiece == [id |-> 0, path |-> <<>>]

Init ==
  /\ options \in Options /\ doc \in Documents
  /\ stage = "start" /\ node = 1 /\ left = {} /\ title = <<>>
  /\ piece = NoPiece /\ chunks = <<>>
  /\ NoText

-----------------------------------------------------------------------------
\* Languages and documents Split does not take: it returns an error.
Refused ==
  CASE doc.kind = "markdown" -> ~options.markdown
    [] doc.kind = "openapi"  -> ~options.openapi \/ doc.version = "unknown"
    [] OTHER                 -> ~doc.configured

Choose ==
  /\ stage = "start"
  /\ stage' = IF Refused THEN "refused" ELSE "splitting"
  /\ left' = IF doc.kind = "openapi" THEN doc.paths ELSE {}
  /\ UNCHANGED <<options, doc, node, title, piece, chunks, windowVars>>

Breaks(n) == {b \in SUBSET (1..n) : Cardinality(b) <= MaxBreaks}

(***************************************************************************)
(* A piece becomes one chunk, or is cut if it has more tokens than a chunk *)
(* may have: code by tokens, a document by bytes.  A document without      *)
(* headings is measured in bytes as well; the text under a heading in      *)
(* tokens, and too many of them may have any number of bytes.              *)
(***************************************************************************)
Whole(p) ==
  /\ chunks' = Append(chunks, [piece |-> p, part |-> 0])
  /\ UNCHANGED <<piece, windowVars>>
  /\ stage' = stage

Cut(p) ==
  /\ Cardinality({i \in DOMAIN chunks : chunks[i].part = 1}) < MaxCuts
  /\ piece' = p
  /\ stage' = "cutting"
  /\ LET unit == IF doc.kind = "code" THEN 1 ELSE BytesPerToken
         size == options.max * unit
     IN \E n \in 1..MaxUnits : \E breaks \in Breaks(n) :
          /\ doc.kind = "code" \/ p = NoPiece => n > size
          /\ Call(n, breaks, size, options.overlap * unit)
  /\ UNCHANGED chunks

Take(p) == Whole(p) \/ Cut(p)

Finished == stage' = "done" /\ UNCHANGED <<chunks, piece, windowVars>>

-----------------------------------------------------------------------------
(* Code: the cursor over the syntax tree.                                  *)

Nodes       == DOMAIN doc.parent
Children(n) == {m \in Nodes : doc.parent[m] = n}
Siblings(n) == {m \in Nodes : n # 1 /\ m > n /\ doc.parent[m] = doc.parent[n]}
Least(S)    == CHOOSE n \in S : \A m \in S : n <= m

\* The next sibling of the node or, if it has none, of the nearest ancestor that has one; 0 at the end.
Onward(n) ==
  LET on[m \in 0..n] ==
        IF m = 0 THEN 0
        ELSE IF Siblings(m) # {} THEN Least(Siblings(m))
        ELSE on[doc.parent[m]]
  IN on[n]

\* Faulty variant: the children of a node that became a chunk are visited.
OnwardIntoChildren(n) == IF Children(n) = {} THEN Onward(n) ELSE Least(Children(n))

\* Past a node that became a chunk, with everything below it.
AfterChunk(n) == Onward(n)

\* languageChunkNodeKind: the node is of a kind that makes a chunk in its language.
MakesChunk(n) == n \in doc.wanted

VisitNode ==
  /\ doc.kind = "code" /\ stage = "splitting"
  /\ \/ /\ node = 0
        /\ Finished
        /\ UNCHANGED node
     \/ /\ MakesChunk(node)
        /\ Take([id |-> node, path |-> <<>>])
        /\ node' = AfterChunk(node)
     \/ /\ node # 0 /\ ~MakesChunk(node)
        /\ node' = IF Children(node) # {} THEN Least(Children(node)) ELSE Onward(node)
        /\ UNCHANGED <<stage, chunks, piece, windowVars>>
  /\ UNCHANGED <<options, doc, left, title>>

-----------------------------------------------------------------------------
(* Markdown: from heading to heading.                                      *)

Headings == Len(doc.levels)

\* getHeaderPath: back from the heading, each time to the next one of a smaller level.
HeaderPath(h) ==
  LET up[k \in 0..Headings] ==
        [level \in 0..6 |->
           IF k = 0 THEN <<>>
           ELSE IF doc.levels[k] < level THEN Append(up[k - 1][doc.levels[k]], k)
           ELSE up[k - 1][level]]
  IN Append(up[h - 1][doc.levels[h]], h)

\* Each heading with the text up to the next; without headings the whole text.
VisitHeading ==
  /\ doc.kind = "markdown" /\ stage = "splitting"
  /\ \/ /\ Headings = 0 /\ node = 1
        /\ Take(NoPiece)
     \/ /\ node <= Headings
        /\ Take([id |-> node, path |-> HeaderPath(node)])
     \/ /\ node > Headings /\ (Headings = 0 => node > 1)
        /\ Finished
  /\ node' = node + 1
  /\ UNCHANGED <<options, doc, left, title>>

-----------------------------------------------------------------------------
(***************************************************************************)
(* OpenAPI: a document of its own for each path.  The copies made of an    *)
(* OpenAPI 3 document share their Info, so that its title grows from path  *)
(* to path; those of a Swagger 2 document have one each.                   *)
(***************************************************************************)
TitleFor(path) == IF doc.version = "openapi3" THEN Append(title, path) ELSE <<path>>

OthersLeft(path) == left \ {path}

VisitPath ==
  /\ doc.kind = "openapi" /\ stage = "splitting"
  /\ \/ left = {} /\ Finished /\ UNCHANGED <<left, title>>
     \/ \E path \in left :
          /\ left' = OthersLeft(path)
          /\ title' = TitleFor(path)
          /\ Whole([id |-> path, path |-> title'])
  /\ UNCHANGED <<options, doc, node>>

-----------------------------------------------------------------------------
CutOn ==
  /\ stage = "cutting"
  /\ Window
  /\ UNCHANGED splitVars

\* The windows become chunks of the piece.
Collect ==
  /\ stage = "cutting" /\ ~cutting
  /\ chunks' = chunks \o [i \in DOMAIN windows |-> [piece |-> piece, part |-> i]]
  /\ stage' = "splitting"
  /\ piece' = NoPiece
  /\ Return
  /\ UNCHANGED <<options, doc, node, left, title>>

Next == Choose \/ VisitNode \/ VisitHeading \/ VisitPath \/ CutOn \/ Collect

Spec == Init /\ [][Next]_vars

-----------------------------------------------------------------------------
(* Properties.                                                             *)

\* The chunks that are a piece or the beginning of one.
Firsts == {i \in DOMAIN chunks : chunks[i].part <= 1}

Inside(n) == LET up[m \in 0..n] == IF m = 0 THEN {} ELSE {doc.parent[m]} \cup up[doc.parent[m]] IN up[n]

\* The nodes that make chunks and are inside no other such node.
Outermost == {n \in doc.wanted : Inside(n) \cap doc.wanted = {}}

\* The headings a heading is under, itself included: those before it that all between them are below.
Outline(h) == {g \in 1..h : \A k \in (g + 1)..h : doc.levels[g] < doc.levels[k]}

Ascending(s) == \A i, j \in DOMAIN s : i < j => s[i] < s[j]

PathIsTrue(p) ==
  CASE doc.kind = "code"     -> p.path = <<>>
    [] doc.kind = "markdown" -> IF p.id = 0 THEN p = NoPiece
                                ELSE Ascending(p.path) /\ Range(p.path) = Outline(p.id)
    [] doc.kind = "openapi"  -> Last(p.path) = p.id

\* What there is to be a piece: a text without headings is one, without a number.
Parts == CASE doc.kind = "code"     -> Outermost
           [] doc.kind = "markdown" -> IF Headings = 0 THEN {0} ELSE 1..Headings
           [] doc.kind = "openapi"  -> doc.paths

(***************************************************************************)
(* What a finished split returns, when the overlap is not negative and     *)
(* smaller than a chunk: of code the outermost nodes of the wanted kinds,  *)
(* each once and in order; of markdown each heading with the headings it   *)
(* is under; of an API each path once, with its own name at the end of its *)
(* title.  The windows of a piece that was cut follow one another.         *)
(***************************************************************************)
PiecesAreTrue ==
  stage = "done" /\ options.overlap \in 0..(options.max - 1) =>
    /\ {chunks[i].piece.id : i \in Firsts} = Parts
    /\ \A i, j \in Firsts : i < j => IF doc.kind = "openapi" THEN chunks[i].piece.id # chunks[j].piece.id
                                                           ELSE chunks[i].piece.id < chunks[j].piece.id
    /\ \A i \in DOMAIN chunks :
         /\ PathIsTrue(chunks[i].piece)
         /\ i \notin Firsts => i - 1 \in DOMAIN chunks /\ chunks[i] = [chunks[i - 1] EXCEPT !.part = @ + 1]
=============================================================================
