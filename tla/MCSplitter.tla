------------------------------ MODULE MCSplitter ------------------------------
(* An instance of Splitter for TLC: every syntax tree of at most four nodes with *)
(* every choice of wanted nodes, every sequence of at most four headings of      *)
(* three levels, and APIs of two paths; windows of one to three tokens, one of   *)
(* the configurations with an overlap as long as a window.                       *)
EXTENDS Splitter

Option(max, shared, parsed) == [max |-> max, overlap |-> shared, markdown |-> parsed, openapi |-> parsed]

MCOptions == {Option(3, 1, TRUE), Option(3, 2, FALSE), Option(1, 0, TRUE), Option(2, 1, TRUE), Option(2, 2, TRUE)}

Trees == UNION {{parent \in [1..n -> 0..(n - 1)] : IsTree(parent)} : n \in 1..4}

MCDocuments ==
  UNION {[kind : {"code"}, configured : {TRUE}, parent : {parent}, wanted : SUBSET DOMAIN parent] : parent \in Trees}
    \cup {[kind |-> "code", configured |-> FALSE, parent |-> <<0>>, wanted |-> {}]}
    \cup [kind : {"markdown"}, levels : UNION {[1..n -> 1..3] : n \in 0..4}]
    \cup [kind : {"openapi"}, version : {"openapi3", "swagger2", "unknown"}, paths : {{"/a", "/b"}}]
=============================================================================
