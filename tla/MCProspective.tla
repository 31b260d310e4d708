---------------------------- MODULE MCProspective ----------------------------
(* Instances of ProspectiveEvaluation: the registrations offered to TLC.   *)
EXTENDS ProspectiveEvaluation

Days1(from, to) == [from |-> from, to |-> to]

\* Validation and holdout of one claim.
Whole == [id |-> "a", kind |-> "campaign", claims |-> <<"c1">>, supersedes |-> None,
          parts |-> [validation |-> Days1(1, 3), holdout |-> Days1(4, 5)]]
\* The same claim and another, in the lineage of the first.
Revised == [id |-> "b", kind |-> "campaign", claims |-> <<"c1", "c2">>,
            supersedes |-> "a", parts |-> [validation |-> Days1(4, 5)]]
\* A Truffle registration of the same period.
Truffle == [id |-> "t", kind |-> "truffle", claims |-> <<"h1">>,
            supersedes |-> None, parts |-> [validation |-> Days1(4, 5)]]

Found(verdict, low, high) == [verdict |-> verdict, adjusted |-> <<low, high>>]
\* The data may speak for or against a claim; adjusted, h1's interval holds zero.
Shown ==
    [c1 |-> {Found("positive_evidence", 1, 2), Found("negative_evidence", -2, -1)},
     c2 |-> {Found("positive_evidence", 1, 2)},
     h1 |-> {Found("positive_evidence", 1, 2), Found("negative_evidence", -2, 1)}]

Some == {Whole, Revised, Truffle}
Symmetric == Permutations(Evaluators)
Single == {Whole}
=============================================================================
