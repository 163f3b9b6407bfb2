---------------------------- MODULE MCDirectories ----------------------------
(* An instance of Directories for TLC: a client with a file of two chunks, a   *)
(* sibling directory whose name begins alike and one with the same word in its *)
(* name, and another client with the same path.                                *)
EXTENDS Directories, TLC

Ours    == [client |-> "c1", path |-> "p"]
Theirs  == [client |-> "c2", path |-> "p"]
Unnamed == [client |-> NoClient, path |-> "p"]

MCCodebases == {Ours, Unnamed}

Object(id, codebase, path, text) == [id |-> id, codebase |-> codebase, path |-> path, text |-> text]

MCLayout ==
  {Object(1, Ours, <<"c", ".", "a", "/", "x">>, "w"),
   Object(2, Ours, <<"a", "/", "x">>, "x1"),
   Object(3, Ours, <<"a", "/", "x">>, "x2"),
   Object(4, Ours, <<"a", "b", "/", "x">>, "z"),
   Object(5, Theirs, <<"a", "/", "x">>, "other")}

\* One chunk for each file, where calls meet each other.
MCFiles == {o \in MCLayout : o.text # "x2"}

\* A directory, a place to move to, and a file.
MCDirs == {<<"a", "/">>, <<"d">>, <<"a", "/", "x">>}

Symmetry == Permutations(Slots)
=============================================================================
