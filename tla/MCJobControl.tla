---------------------------- MODULE MCJobControl ----------------------------
(* Model-checking instance of JobControl. *)
EXTENDS JobControl, TLC

CONSTANTS sCpu, sGpu

MCClassOf == [s \in Specs |-> IF s = sCpu THEN "cpu" ELSE "expensive"]
MCNeeds == [s \in Specs |-> IF s = sCpu THEN 1 ELSE 2]

(* A small policy, one that admits more, and one that admits less. *)
Small == [limit |-> [k \in Classes |-> 1], ceiling |-> 2]
Large == [limit |-> [k \in Classes |-> 2], ceiling |-> 2]
Strict == [limit |-> [k \in Classes |-> 1], ceiling |-> 1]

MCPoliciesSmall == {Small}
MCPoliciesTwo == {Small, Large}
MCPoliciesStrict == {Small, Strict}

MCSymmetry == Permutations(Runs) \cup Permutations(Clients) \cup Permutations(Keys)
=============================================================================
