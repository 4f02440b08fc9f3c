------------------------------- MODULE MCLoad -------------------------------
(***************************************************************************)
(* Instances of IncrementalLoad for TLC.                                   *)
(***************************************************************************)
EXTENDS IncrementalLoad, TLC

CONSTANTS e1, e2

OneExecutor == {e1}
TwoExecutors == {e1, e2}
ExecutorSymmetry == Permutations(TwoExecutors)
ThreeRows == {1, 2, 3}
TwoRows == {1, 2}
AnyOfTwo == SUBSET TwoRows
AnyRows == SUBSET ThreeRows
RowByRow == {{i} : i \in ThreeRows}
MiddleDropped == {2}
NothingDropped == {}
BothSinks == {"postgres", "elasticsearch"}
PostgresOnly == {"postgres"}

=============================================================================
