----------------------------- MODULE CodebaseTree -----------------------------
(***************************************************************************)
(* CodebaseTreeLogic: from the records of a codebase to the tree of its    *)
(* directories and files.  The records come grouped by path out of a map,  *)
(* so in any order; the root is the directory the paths have in common,    *)
(* and the files are put under it one by one, each after the directories   *)
(* on its way that are not there yet.                                      *)
(*                                                                         *)
(* A path is the sequence of its components, as normalizePath leaves it;   *)
(* the empty one is ".".                                                   *)
(***************************************************************************)
EXTENDS Naturals, FiniteSets, SequencesExt

CONSTANTS
  TreeRequests   \* the records' paths, maxDepth and includeFiles

\* A file has a name, and none lies below another file: they come from one file system.
ASSUME TreeAssumption ==
  \A request \in TreeRequests :
    /\ request.depth \in Nat /\ request.withFiles \in BOOLEAN
    /\ \A record \in request.records : record.path \in Seq(STRING) /\ record.path # <<>>
    /\ \A r, s \in request.records : IsPrefix(r.path, s.path) => r.path = s.path

VARIABLES
  asked,      \* the request
  treeStage,  \* "asked", "placing", "error" or "shown"
  root,       \* rootPath
  toPlace,    \* the paths that are still to come
  dirs,       \* pathMap: the directories there are nodes for
  edges,      \* Children: from a directory to one in it
  shown       \* the files that have become nodes, each under its directory

treeVars == <<asked, treeStage, root, toPlace, dirs, edges, shown>>

TreeInit(requests) ==
  /\ asked \in requests
  /\ treeStage = "asked"
  /\ root = <<>> /\ toPlace = {} /\ dirs = {} /\ edges = {} /\ shown = {}

\* mergeRecordsByFilePath: however many records a file has, its path comes once.
Paths == {record.path : record \in asked.records}

\* findCommonPrefix of all of them.
Common == LET one == CHOOSE p \in Paths : TRUE
              lengths == {n \in 0..Len(one) : \A p \in Paths : IsPrefix(SubSeq(one, 1, n), p)}
          IN SubSeq(one, 1, CHOOSE n \in lengths : \A m \in lengths : m <= n)

\* Faulty variant: what the paths have in common is not cut at its last separator.
RootUncut == Common

\* extractRootPath: what comes before the last separator of it; without one, all of it.
RootPath == IF Len(Common) >= 2 THEN Front(Common) ELSE Common

\* Records there must be.
Extract ==
  /\ treeStage = "asked"
  /\ \/ /\ asked.records = {}
        /\ treeStage' = "error"
        /\ UNCHANGED <<root, toPlace, dirs>>
     \/ /\ asked.records # {}
        /\ treeStage' = "placing"
        /\ root' = RootPath
        /\ toPlace' = Paths
        /\ dirs' = {root'}
  /\ UNCHANGED <<asked, edges, shown>>

\* Separators in the path relative to the root, whether or not the path is the root itself.
Depth(path) == IF path = root THEN 0 ELSE Len(path) - Len(root) - 1

Skipped(path) == ~asked.withFiles \/ (asked.depth > 0 /\ Depth(path) > asked.depth)

\* The directories on the way to a file, from the top and not from the root.
OnTheWay(path) == {SubSeq(path, 1, n) : n \in 1..(Len(path) - 1)}

\* A directory is hung up in the one it is in, and at the root if it is at the top.
Place(path) ==
  /\ treeStage = "placing" /\ path \in toPlace
  /\ toPlace' = toPlace \ {path}
  /\ IF Skipped(path)
     THEN UNCHANGED <<dirs, edges, shown>>
     ELSE /\ dirs' = dirs \cup OnTheWay(path)
          /\ edges' = edges \cup {<<IF Len(d) > 1 THEN Front(d) ELSE root, d>> : d \in OnTheWay(path) \ dirs}
          /\ shown' = IF Front(path) \in dirs' THEN shown \cup {path} ELSE shown
  /\ UNCHANGED <<asked, treeStage, root>>

Show ==
  /\ treeStage = "placing" /\ toPlace = {}
  /\ treeStage' = "shown"
  /\ UNCHANGED <<asked, root, toPlace, dirs, edges, shown>>

TreeNext == Extract \/ (\E path \in toPlace : Place(path)) \/ Show

-----------------------------------------------------------------------------
(***************************************************************************)
(* In whatever order the paths came: a tree with files shows all of them   *)
(* that are not too deep, and each is reached from the root through the    *)
(* directories it is in; every directory hangs in one place, and one below *)
(* the root is there for a file that is shown.  Left out is a codebase of  *)
(* one file at its top: it is taken for the root, and the tree shows       *)
(* nothing.                                                                *)
(***************************************************************************)
LoneTopFile == Cardinality(Paths) = 1 /\ \A p \in Paths : Len(p) = 1

Wanted == {p \in Paths : asked.depth > 0 => Len(p) - Len(root) <= asked.depth + 1}

TreeShowsEveryFile ==
  treeStage = "shown" /\ asked.withFiles /\ ~LoneTopFile =>
    /\ \A p \in Paths : IsPrefix(root, p) /\ p # root
    /\ shown = Wanted
    /\ \A p \in shown : \A n \in (Len(root) + 1)..(Len(p) - 1) :
         <<SubSeq(p, 1, n - 1), SubSeq(p, 1, n)>> \in edges
    /\ \A d \in dirs \ {root} :
         /\ Cardinality({e \in edges : e[2] = d}) = 1
         /\ IsPrefix(root, d) => \E p \in shown : IsPrefix(d, p)
    /\ \A e \in edges : e[2] # root

(***************************************************************************)
(* A tree of any depth, with files or of directories only, has a node for  *)
(* every directory of the codebase.  Not so: without includeFiles a file   *)
(* is skipped before the directories on its way are made.                  *)
(***************************************************************************)
TreeShowsDirectories ==
  treeStage = "shown" /\ asked.depth = 0 =>
    \A p \in Paths : {d \in OnTheWay(p) : Len(d) > Len(root)} \subseteq dirs
=============================================================================
