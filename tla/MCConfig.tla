------------------------------ MODULE MCConfig ------------------------------
(***************************************************************************)
(* An instance of PipelineConfig for TLC: two queries over three rows, two *)
(* key columns that order them differently, three targets of which one is  *)
(* not supported, a plan of two tasks.                                     *)
(***************************************************************************)
EXTENDS PipelineConfig, TLC

CONSTANTS c1, c2

TwoClients == {c1, c2}
ClientSymmetry == Permutations(TwoClients)

Tables == {"film_dim"}
Indexes == {"film_dim"}
Dim == [sink |-> "postgres", name |-> "film_dim"]
Index == [sink |-> "elasticsearch", name |-> "film_dim"]
Other == [sink |-> "postgres", name |-> "other"]
AllTargets == {Dim, Index, Other}

\* The second query filters by updated_at and does not return it.
QueryText == [q \in {"films", "ratings"} |-> {"film_id", "updated_at", "created_at"}]
QueryColumns ==
  [films   |-> {"film_id", "updated_at", "created_at"},
   ratings |-> {"film_id", "created_at"}]
QueryRows == [films |-> {1, 2}, ratings |-> {2, 3}]
KeyRank == [updated_at |-> [r \in 1 .. 3 |-> r], created_at |-> [r \in 1 .. 3 |-> 4 - r]]

Incrementally ==
  [type |-> "SQL", mode |-> "incremental", enabled |-> TRUE, source_query |-> "films",
   target_table |-> Dim, python_module |-> Null, description |-> Null,
   incremental_key |-> "updated_at", incremental_id_key |-> "film_id"]

Fully == [Incrementally EXCEPT !.mode = "full", !.type = "PYTHON", !.python_module = "titles"]

Refused == [Incrementally EXCEPT !.target_table = Other]

\* Accepted, although no batch of it can be read.
Unreadable == [Incrementally EXCEPT !.source_query = "ratings"]

SomeCreations == {Incrementally, Fully, Unreadable, Refused}

SomePatches ==
  {[mode |-> "incremental"],
   [incremental_key |-> Null], [incremental_key |-> "created_at"],
   [source_query |-> "ratings"], [source_query |-> Null],
   [target_table |-> Index], [target_table |-> Other], [target_table |-> Dim],
   [type |-> "PYTHON", python_module |-> "titles"],
   [python_module |-> Null], [type |-> Null],
   [enabled |-> FALSE], [enabled |-> TRUE]}

Task(type, what, where) == [task_type |-> type, body |-> what, target_table |-> where]

SomeTasks ==
  {<<1, Task("SQL", "films", Null)>>, <<2, Task("PYTHON", "titles", Null)>>,
   <<2, Task("PYTHON", "titles", Index)>>, <<1, Task("SQL", "films", Empty)>>}

=============================================================================
