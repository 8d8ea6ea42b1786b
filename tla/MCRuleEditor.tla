---------------------------- MODULE MCRuleEditor ----------------------------
(***************************************************************************)
(* RuleEditor with the names a and b, of which the keys are sorted as      *)
(* "" < "**New**" < a < b.                                                 *)
(***************************************************************************)
EXTENDS RuleEditor, TLC

CONSTANTS a, b, Group, HD, SD, Odd

MCDetail(resolution) == [subgroup |-> Group, resolution |-> resolution]
MCDefault == MCDetail(HD)
Other == MCDetail(SD)
Misfitting == MCDetail(Odd)

Symmetry == Permutations(Dialog)
MCKeyOrder == SelectSeq(<<Empty, New, a, b>>, LAMBDA key : key \in Text)

BasicRule(name, detail) == [type |-> "basic", name |-> name, detail |-> detail]
AdvancedRule(name) == [type |-> "advanced", name |-> name, detail |-> Default]

\* No rules, one, two basic ones, one of each kind, the unnamed rules that
\* "OK" and a change of the row may leave, and rules whose resolution the
\* box does not have.
MCOldRules ==
    {<<>>,
     a :> BasicRule(a, Other),
     (a :> BasicRule(a, Other)) @@ (b :> BasicRule(b, Default)),
     (a :> AdvancedRule(a)) @@ (b :> BasicRule(b, Other)),
     (Empty :> BasicRule(Empty, Default)) @@ (New :> BasicRule(Empty, Other))
        @@ (a :> BasicRule(a, Default)),
     (a :> BasicRule(a, Misfitting)) @@ (b :> BasicRule(b, Other))}
TwoRules == {(a :> BasicRule(a, Other)) @@ (b :> BasicRule(b, Default))}

=============================================================================
