---------------------------- MODULE MCGoGraphQL ----------------------------
(***************************************************************************)
(* An instance of GoGraphQL for TLC: two operations of up to two fields.   *)
(***************************************************************************)
EXTENDS GoGraphQL, TLC

CONSTANTS a, b, n1, n2

All == {"id", "email", "middle", "fullName"}
On(kind, i, email, middle, ok) ==
    [kind |-> kind, id |-> i, email |-> email, middle |-> middle, sel |-> All, valid |-> ok]
New(i, email, middle) == On("createEmployee", i, email, middle, TRUE)
Set(i, email, middle) == On("updateEmployee", i, email, middle, TRUE)
Drop(i) == On("deleteEmployee", i, Nil, Nil, TRUE)
Get(i) == On("employee", i, Nil, Nil, TRUE)
Bad(kind) == On(kind, 1, a, Nil, FALSE)
List(offset, limit) ==
    [kind |-> "employees", search |-> Emails, offset |-> offset, limit |-> limit,
     sel |-> {"id", "fullName"}, valid |-> TRUE]
Search(found, offset, limit) ==
    [kind |-> "searchEmployees", search |-> found, offset |-> offset, limit |-> limit,
     sel |-> {"email"}, valid |-> TRUE]
Hi == [kind |-> "hello", valid |-> TRUE]

Mutation(fields) == [type |-> "mutation", fields |-> fields]
Query(fields) == [type |-> "query", fields |-> fields]

\* Fields that meet on an id or an e-mail, within a document and between two.
AllDocs ==
    {Mutation(<<New(2, b, n1), New(2, a, Nil)>>),
     Mutation(<<Drop(1), New(1, b, Nil)>>),
     Mutation(<<Set(1, Nil, n2), Set(1, b, Nil)>>),
     Mutation(<<Set(1, b, Blank), Bad("deleteEmployee")>>),
     Mutation(<<Bad("createEmployee"), Drop(2)>>),
     Query(<<List(Nil, Nil), Get(1)>>),
     Query(<<Search({b}, -1, 1), Hi>>),
     Query(<<List(1, 0)>>)}

AllFields == Ops \X (1 .. 2)
AllInputs == UNION {ToSet(d.fields) : d \in AllDocs}
OneRow == {[i \in {} |-> Nil], [i \in {1} |-> [id |-> 1, email |-> a, middle |-> n1]]}
Symmetry == Permutations(Ops)
=============================================================================
