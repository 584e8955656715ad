--------------------------- MODULE MCLoadGenerator ---------------------------
(* Small instances of LoadGenerator for TLC. *)
EXTENDS LoadGenerator

Entry(s, n) == [scenario |-> s, turn |-> n]

\* No plan, one script, two scripts.
ShortPlans == {<<>>, <<Entry("API1", 1)>>, <<Entry("API1", 1), Entry("API2", 2)>>}

OnePlan == {<<Entry("API1", 1), Entry("API2", 2)>>}

\* Three entries, as a plan that goes back to its first script has.
LongPlans == {<<Entry("API1", 1), Entry("API2", 1), Entry("API1", 2)>>}

=============================================================================
