------------------------------ MODULE MCClient ------------------------------
(* Instance of Client for TLC: two plain requests, or one that makes a     *)
(* remark and asks for an approval.                                         *)
EXTENDS Client

MCTasks == {1, 2}

MCInit == /\ Init
          /\ \/ spoke = Tasks /\ asked = Tasks /\ \A t \in Tasks : chat[t] = "unsent"
             \/ spoke = {2} /\ asked = {2} /\ chat = [t \in Tasks |-> IF t = 1 THEN "unsent" ELSE "never"]

MCSpec     == MCInit /\ [][Next]_vars
MCFairSpec == MCSpec /\ Fairness
=============================================================================
