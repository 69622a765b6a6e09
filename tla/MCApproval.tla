------------------------------ MODULE MCApproval ------------------------------
(***************************************************************************)
(* Small instances of the approval engine and of the recommendations over  *)
(* it.  In a behaviour either the engine is used by itself, with two flows *)
(* that compete for one code and chains of zero to two nodes, or one       *)
(* recommendation is moved by two requests at the same time, over one flow *)
(* of one node that is defined once.                                       *)
(***************************************************************************)
EXTENDS PmsRecommendation, TLC

CONSTANTS f1, i1, s1, s2

VARIABLE focus

MCChains == {<<>>, <<1>>, <<1, 1>>}
OneNode == {<<1>>}
TwoSessions == {s1, s2}
OneSession == {s1}
Symmetry == Permutations(TwoSessions)

MCInit ==
    /\ focus \in {"engine", "recommendations"}
    /\ RecInit

\* The engine's own requests when recommendations are looked at.
OneFlow ==
    /\ \A f \in Flows \ {f1} : flow'[f] = NoFlow
    /\ flow'[f1] # NoFlow => flow'[f1].nodes \in OneNode /\ flow'[f1].version <= 1
    /\ \A i \in Instances \ {i1} : instance'[i] = NoInstance

MCNext ==
    /\ UNCHANGED focus
    /\ IF focus = "engine" THEN Next /\ UNCHANGED recVars ELSE RecNext /\ OneFlow

MCSpec == MCInit /\ [][MCNext]_<<focus, vars, recVars>>
=============================================================================
