-------------------------- MODULE MCPricingEditor --------------------------
(* The instance of PricingEditor that TLC explores. *)
EXTENDS PricingEditor

Flat(p) == Text(Tiers(<<[conds |-> {}, price |-> p]>>))
TwoTiers(p, q) == Tiers(<<[conds |-> {"len"}, price |-> p], [conds |-> {}, price |-> q]>>)
Factor(atom) == [atoms |-> <<atom>>, mult |-> 2]
WithRule(text, atom) == [text EXCEPT !.layers = <<<<Factor(atom)>>>>]
Preset(base, gs) == [base |-> base, groups |-> gs]
EqGroup == <<[conds |-> <<"eq">>, mult |-> 2]>>

\* Texts the form can show, with and without tiers and rules.
PlainTexts == {NoText, Flat(1), Text(TwoTiers(1, 2)), WithRule(Flat(1), "exists")}

\* Texts it cannot: another expression, a parameter that must contain a value,
\* rules around rules, and factors without parentheses around the tiers.
OtherTexts ==
  {Text(Custom),
   [Flat(1) EXCEPT !.layers = <<<<[atoms |-> <<"exists", "has">>, mult |-> 2]>>>>],
   [Flat(1) EXCEPT !.layers = <<<<Factor("eq")>>, <<Factor("exists")>>>>],
   [WithRule(Text(TwoTiers(1, 2)), "eq") EXCEPT !.loose = TRUE]}

AllTexts == PlainTexts \cup OtherTexts
MCPresets == {Preset(TwoTiers(2, 1), <<>>), Preset(Flat(1).base, EqGroup)}
=============================================================================
