--------------------------- MODULE MCSkillReplay ---------------------------
(* SkillReplay for TLC: a chain of two skills, and a problem for each.     *)
EXTENDS SkillReplay, TLC

CONSTANTS values, strings, first, second

MCPrerequisites == (values :> {}) @@ (strings :> {values})
MCDepth == (values :> 0) @@ (strings :> 1)
MCRequires == (first :> {values}) @@ (second :> {values, strings})

=============================================================================
