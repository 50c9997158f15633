--------------------------- MODULE MCDecisionLoop ---------------------------
(* Instances of DecisionLoop for TLC.                                      *)
EXTENDS DecisionLoop, TLC

\* What an evaluation can say, one content per way the code can treat it: a
\* gated action on a usable forecast, a healthy store, a technical error.
Extend == [action |-> "EXTEND_INTERVENTION", status |-> "AVAILABLE"]
Healthy == [action |-> "CONTINUE", status |-> "AVAILABLE"]
Broken == [action |-> "NEEDS_REVIEW", status |-> "ERROR"]

MCContents == {Extend, Healthy, Broken}
MCTwoContents == {Extend, Healthy}
MCOneContent == {Extend}

Gated == {"EXTEND_INTERVENTION", "ESCALATE", "NEEDS_REVIEW"}
MCOneRuleSet == {Gated}
\* A deployment that drops one action from the gate and adds another.
MCRuleSets == {Gated, {"CONTINUE", "ESCALATE", "NEEDS_REVIEW"}}

MCNothing == {}
MCTable == {"table"}

MCSymmetry ==
    Permutations(Requests) \cup Permutations(Sweeps) \cup Permutations(Workers)
=============================================================================
