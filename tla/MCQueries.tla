------------------------------- MODULE MCQueries -------------------------------
(* An instance of Queries for TLC: trees of every set of at most four of the paths *)
(* below, one of them with two records, searches that find at most two documents,  *)
(* and summaries of three codebases of which two are active.                       *)
EXTENDS Queries, FiniteSetsExt

TreePaths == {<<"a">>, <<"b">>, <<"s", "a">>, <<"s", "b">>, <<"s", "t", "a">>,
              <<"s", "t", "b">>, <<"s", "t", "u", "a">>, <<"s", "t", "u", "b">>, <<"v", "a">>}

RecordsOf(paths) == {[path |-> p, chunk |-> 1] : p \in paths} \cup {[path |-> p, chunk |-> 2] : p \in paths \cap {<<"s", "a">>}}

MCTreeRequests ==
  [records : {RecordsOf(paths) : paths \in UNION {kSubset(n, TreePaths) : n \in 0..4}},
   depth : 0..2, withFiles : BOOLEAN]

MCQuestions == [topK : 0..3, threshold : 1..2, fetch : BOOLEAN]

MCTables == {<<[codebase |-> "c1", status |-> "active"], [codebase |-> "c2", status |-> "expired"],
               [codebase |-> "c3", status |-> "active"]>>}

MCStores == LET chunks == [codebase : {"c1", "c3"}, path : {"f", "g"}, language : {"code", "doc"}, id : {1}]
                            \cup {[codebase |-> "c1", path |-> "f", language |-> "code", id |-> 2]}
            IN {{}} \cup UNION {kSubset(n, chunks) : n \in {2, 4, 8, 9}}
=============================================================================
