----------------------------- MODULE MCFullLoad -----------------------------
(***************************************************************************)
(* Instance of FullLoad for TLC.                                           *)
(***************************************************************************)
EXTENDS FullLoad

ThreeRows == 1 .. 3
OneDropped == {2}
BothSinks == {"postgres", "elasticsearch"}
BothLoops == {"sql", "tasks"}

=============================================================================
