----------------------------- MODULE MCMcDonalds -----------------------------
(* Instances of McDonalds for TLC.                                         *)
EXTENDS McDonalds, TLC

CONSTANTS bigmac, cheese, c1, c2, k1, k2

\* One burger, and two different ones.
OneOrTwo == {<<bigmac>>, <<bigmac, cheese>>}
OnlyOne == {<<bigmac>>}
OnlyTwo == {<<bigmac, cheese>>}
\* Three burgers, two of them alike: a first name and two appended ones.
Three == {<<bigmac, cheese, bigmac>>}

\* Kitchen threads are interchangeable, and so are connections.
Symmetry == Permutations(Kitchen) \cup Permutations(Customer)
=============================================================================
