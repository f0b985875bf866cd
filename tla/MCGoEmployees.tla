--------------------------- MODULE MCGoEmployees ---------------------------
(***************************************************************************)
(* An instance of GoEmployees for TLC.                                     *)
(***************************************************************************)
EXTENDS GoEmployees

CONSTANTS a, b

On(kind, i, email) == [kind |-> kind, id |-> i, email |-> email, middle |-> Nil,
                       sel |-> {"id"}, valid |-> TRUE]

\* Creations, which may meet on the id, and are more than a channel holds; and each
\* other call, on the employee a creation may be announcing.
BrokerInputs ==
    {On("createEmployee", 1, a), On("createEmployee", 2, b), On("updateEmployee", 1, b),
     On("deleteEmployee", 1, Nil), On("employee", 1, Nil),
     [kind |-> "employees", search |-> Emails, offset |-> Nil, limit |-> Nil,
      sel |-> {"id"}, valid |-> TRUE],
     [kind |-> "hello", valid |-> TRUE]}

NoRows == {[i \in {} |-> Nil]}
=============================================================================
