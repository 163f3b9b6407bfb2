----------------------------- MODULE MCIndexTask -----------------------------
(* Instances of IndexTask for TLC: the uploads may list any operation and     *)
(* the splitter answer anything, or only what a run is about.  Symmetry is    *)
(* used by the run that checks no liveness and has several uploads.           *)
EXTENDS IndexTask, TLC

WriteOnly      == {"write"}
WriteOrNot     == {"none", "write"}
WriteOrRename  == {"write", "rename"}

\* Each file by itself, or one whose name finds all others, as main.go finds cmd/main.go.
NoneAlike      == [f \in Files |-> {f}]
OneFindsAll    == LET first == CHOOSE f \in Files : TRUE
                  IN  [f \in Files |-> IF f = first THEN Files ELSE {f}]

ChunkedOnly    == {"chunked"}

DatabaseOnly        == {"db"}
EmbedOnly           == {"embed"}
DatabaseAndDeadline == {"db", "deadline"}

UploadSymmetry == Permutations(Requests)
=============================================================================
