---------------------------- MODULE MCSelection ----------------------------
(* Selection for TLC: two skills, one on the other; problems for the first *)
(* alone and for both, short ones and long ones.                           *)
EXTENDS Selection, TLC

CONSTANTS values, strings, short, long, distant, joined, other

MCPrerequisites == [s \in Skills |-> IF s = strings THEN {values} ELSE {}]
MCDepth == [s \in Skills |-> IF s = strings THEN 1 ELSE 0]
MCRequires ==
    [p \in Problems |->
        Skills \cap IF p \in {short, long, distant} THEN {values} ELSE {values, strings}]
MCSeconds ==
    [p \in Problems |-> IF p = short THEN 1 ELSE IF p \in {long, joined} THEN 2 ELSE 3]

(* A gate that asks for anything, and one whose families and tiers are     *)
(* narrower than its band.                                                 *)
Anything == [band |-> Problems, tier |-> Problems, family |-> Problems]
Narrow ==
    [band   |-> Problems \ {distant, other},
     tier   |-> Problems \ {short},
     family |-> Problems \ {short, long}]
MCGates == {Anything, Narrow}
MCOpenGate == {Anything}

=============================================================================
