--------------------------- MODULE PricingEditor ---------------------------
(***************************************************************************)
(* The tiered pricing editor of the web console: the text of a model's     *)
(* billing expression is split into a base expression and request rules,   *)
(* edited as a form or as text, kept in agreement by React effects, put    *)
(* together again and saved.                                               *)
(*                                                                         *)
(* Three copies of the price exist at a time: the sheet's bill and rule    *)
(* (what Save would store), the form (config, groups) and the text (raw).  *)
(* A render's effects all read the state it rendered; one of them re-reads *)
(* the sheet into the form when initRef is false.                          *)
(*                                                                         *)
(* A text is a base with layers of rule factors around it, innermost       *)
(* first: ((base) * f1 * f2) * f3. A base is a list of tiers, the zero     *)
(* price the editor writes for no configuration, a custom expression, or   *)
(* nothing. A loose text has no parentheses around its base, so that the   *)
(* factors of its first layer multiply the last tier alone. Labels, cache  *)
(* and media prices, the version prefix and white space are left out.      *)
(***************************************************************************)
EXTENDS Integers, Sequences, FiniteSets, SequencesExt

CONSTANTS
  Prices,      \* the unit prices the form can enter
  Mults,       \* the multipliers of a rule
  CondKinds,   \* the conditions of a rule the form can enter
  MaxTiers,    \* bound: the tiers of a form
  MaxTierConds,\* the conditions of a tier: 2 in the code, fewer as a bound
  MaxGroups,   \* bound: the rule groups of a form
  MaxConds,    \* bound: the conditions of a rule group
  Stored,      \* the texts a model may have when the console is opened
  Typed,       \* the texts typed in the text mode
  Presets      \* the presets: a base and rule groups

VARIABLES
  isNew,       \* the sheet is open for a model that has no expression yet
  bill, rule,  \* the sheet's billingExpr and requestRuleExpr
  mode,        \* editorMode
  config,      \* visualConfig; no tiers stand for null
  raw,         \* rawExpr
  groups,      \* requestRuleGroups
  fresh,       \* initRef is false: the next change of the sheet is re-read
  seen,        \* bill and rule at the last render whose effects ran
  due,         \* what the next render brings: a mount, a new name, or neither
  meant,       \* history: the text last written by the user
  lost         \* history: how the editor lost a part of that text, of Losses

vars == <<isNew, bill, rule, mode, config, raw, groups, fresh, seen, due, meant, lost>>
sheet == <<bill, rule>>
form == <<mode, config, raw, groups>>

TierVars == {"len", "c"}
Atoms == {"eq", "exists", "has"}
NoMult == 0

-----------------------------------------------------------------------------
(* Texts *)

Tiers(arms) == [kind |-> "tiers", arms |-> arms]
Zero == [kind |-> "zero", arms |-> <<>>]
Custom == [kind |-> "custom", arms |-> <<>>]
Text(base) == [base |-> base, layers |-> <<>>, loose |-> FALSE]
NoText == Text([kind |-> "none", arms |-> <<>>])

\* The condition of the last of several tiers is not written; a tier without
\* a condition before it is, and makes the text malformed.
generateExpr(cfg) ==
  IF cfg = <<>> THEN Zero
  ELSE Tiers(IF Len(cfg) = 1 THEN cfg ELSE [cfg EXCEPT ![Len(cfg)].conds = {}])

\* Only what generateExpr writes is read back; null is no tiers.
tryParseVisualConfig(text) ==
  IF text.layers = <<>> /\ text.base.kind = "tiers" THEN text.base.arms ELSE <<>>

\* createDefaultVisualConfig, and the text the sheet starts a new model with
DefaultConfig == <<[conds |-> {}, price |-> 0]>>

normalizeVisualConfig(cfg) == IF cfg = <<>> THEN DefaultConfig ELSE cfg

\* A condition is written as one test, or, when a parameter must contain or be
\* compared with a value, as two joined by &&; a blank one is left out.
buildRequestCondition(kind) ==
  CASE kind = "blank" -> <<>>
    [] kind = "contains" -> <<"exists", "has">>
    [] OTHER -> <<kind>>

buildRuleGroupFactor(g) ==
  LET tests[i \in 0..Len(g.conds)] ==
        IF i = 0 THEN <<>> ELSE tests[i - 1] \o buildRequestCondition(g.conds[i])
  IN  [atoms |-> tests[Len(g.conds)], mult |-> g.mult]

\* A group without a multiplier or without a test is left out.
buildRequestRuleExpr(gs) ==
  LET factors[i \in 0..Len(gs)] ==
        IF i = 0 THEN <<>>
        ELSE LET f == buildRuleGroupFactor(gs[i])
             IN  IF f.mult # NoMult /\ f.atoms # <<>> THEN Append(factors[i - 1], f)
                 ELSE factors[i - 1]
  IN  factors[Len(gs)]

\* A factor is read test by test, and the second of two joined tests is not a
\* condition by itself.
ParsesRule(fs) == \A i \in DOMAIN fs : "has" \notin ToSet(fs[i].atoms)

tryParseRequestRuleExpr(fs) ==
  IF ParsesRule(fs)
  THEN [i \in DOMAIN fs |-> [conds |-> fs[i].atoms, mult |-> fs[i].mult]]
  ELSE <<>>

\* The factors of the outermost layer are rules if all of them can be read;
\* otherwise the whole text is the base.
splitBillingExpr(text) ==
  IF text.layers # <<>> /\ ParsesRule(Last(text.layers))
  THEN [bill |-> [base |-> text.base, layers |-> Front(text.layers),
                  loose |-> text.loose /\ Len(text.layers) > 1],
        rule |-> Last(text.layers)]
  ELSE [bill |-> text, rule |-> <<>>]

\* Mutant of combineBillingExpr: an empty rule is appended too.
combineAlways(b, r) ==
  IF b.base.kind = "none" THEN NoText ELSE [b EXCEPT !.layers = Append(b.layers, r)]

combineBillingExpr(b, r) ==
  IF b.base.kind = "none" THEN NoText
  ELSE IF r = <<>> THEN b
  ELSE [b EXCEPT !.layers = Append(b.layers, r)]

-----------------------------------------------------------------------------
(* What the editor is given *)

Tier == [conds : SUBSET TierVars, price : Nat]
Group == [conds : Seq({"eq", "exists", "contains", "blank"}), mult : Nat]
RuleFactor == [atoms : Seq(Atoms) \ {<<>>}, mult : Nat \ {NoMult}]
Rules == Seq(RuleFactor)
Base == [kind : {"tiers", "zero", "custom", "none"}, arms : Seq(Tier)]

\* The tiers of a text are such as generateExpr writes; anything else is custom,
\* and so is an unparenthesized text after whose only tier a zero price stands.
IsText(t) ==
  /\ t \in [base : Base, layers : Seq(Rules \ {<<>>}), loose : BOOLEAN]
  /\ t.base.kind = "tiers" <=> t.base.arms # <<>>
  /\ t.base.kind = "tiers" => generateExpr(t.base.arms) = t.base
  /\ t.base.kind = "none" => t.layers = <<>>
  /\ t.loose => /\ t.layers # <<>> /\ t.base.kind = "tiers"
                /\ t.base.arms[Len(t.base.arms)].conds = {}

\* The form can show every preset of PRESET_GROUPS, tiers and rules.
IsPreset(p) ==
  /\ IsText(Text(p.base)) /\ p.base.kind = "tiers"
  /\ p.groups \in Seq(Group)
  /\ ParsesRule(buildRequestRuleExpr(p.groups))

ASSUME PricingEditorAssumption ==
  /\ Prices \subseteq Nat
  /\ Mults \subseteq Nat \ {NoMult}
  /\ CondKinds \subseteq {"eq", "exists", "contains", "blank"}
  /\ MaxTiers \in Nat \ {0} /\ MaxTierConds \in 0..2
  /\ MaxGroups \in Nat /\ MaxConds \in Nat
  /\ \A t \in Stored \cup Typed : IsText(t)
  /\ \A p \in Presets : IsPreset(p)

-----------------------------------------------------------------------------
(* What a request is charged *)

Requests == [short : BOOLEAN, few : BOOLEAN, holds : SUBSET Atoms]

MeetsTier(arm, q) == ("len" \in arm.conds => q.short) /\ ("c" \in arm.conds => q.few)

\* The first tier whose conditions hold; 0 when the only tier's do not.
TierOf(arms, q) ==
  LET met == {i \in DOMAIN arms : MeetsTier(arms[i], q)}
  IN  IF met = {} THEN 0 ELSE CHOOSE i \in met : \A j \in met : i <= j

Malformed(arms) == \E i \in 1..Len(arms) - 1 : arms[i].conds = {}

BasePrice(base, q) ==
  CASE base.kind = "custom" -> 7
    [] base.kind = "tiers" /\ Malformed(base.arms) -> -1
    [] base.kind = "tiers" /\ TierOf(base.arms, q) # 0 ->
         base.arms[TierOf(base.arms, q)].price
    [] OTHER -> 0

Product(fs, q) ==
  FoldLeft(LAMBDA m, f : IF ToSet(f.atoms) \subseteq q.holds THEN m * f.mult ELSE m, 1, fs)

Charge(text, q) ==
  LET whole == ~text.loose \/ TierOf(text.base.arms, q) = Len(text.base.arms)
  IN  BasePrice(text.base, q)
        * Product(FlattenSeq(IF whole THEN text.layers ELSE Tail(text.layers)), q)

SamePrice(t, u) == \A q \in Requests : Charge(t, q) = Charge(u, q)

-----------------------------------------------------------------------------
(* What the editor loses *)

\* A text or a rule that the form cannot show; a rule it cannot read, entered
\* as the first edit; a first edit of base and rule at once, with rules left in
\* the base or not; parentheses put in; a rule it cannot read, shown as text.
Losses == {"unread", "dropped", "reverted", "stacked", "parentheses", "twice"}

\* The reasons of which the condition holds.
When(condition, reasons) == IF condition THEN reasons ELSE {}

\* Splitting the text puts parentheses around its base.
Parenthesised(text) == text.loose /\ ~splitBillingExpr(text).bill.loose

\* The editor is mounted in the visual mode, and what its form makes of the
\* sheet's b and r is written to the sheet, and then read again as text.
MountLosses(b, r) ==
  When(\/ Text(generateExpr(tryParseVisualConfig(b))) # b
       \/ buildRequestRuleExpr(tryParseRequestRuleExpr(r)) # r, {"unread"})

\* A text or a preset that changes both the base and the rule before anything
\* else was edited: the rule reaches the sheet first, its change is re-read, and
\* the editor gets the sheet's old base back. The rules of that base, if it has
\* any, are shown as the text's rule, but the sheet is not given them.
RevertLosses(text) ==
  LET parts == splitBillingExpr(text)
      reverts == fresh /\ bill # parts.bill /\ rule # parts.rule
  IN  When(reverts, {"reverted"}) \cup When(reverts /\ bill.layers # <<>>, {"stacked"})

-----------------------------------------------------------------------------
(* The sheet: opening, switching its tabs, renaming, saving *)

\* A sheet without an expression starts with a tier of price zero.
OrDefault(text) == IF text = NoText THEN Text(Tiers(DefaultConfig)) ELSE text

Init ==
  \E text \in Stored :
    LET parts == splitBillingExpr(OrDefault(text))
    IN  /\ isNew = (text = NoText)
        /\ bill = parts.bill /\ rule = parts.rule
        /\ mode = "visual"
        /\ config = tryParseVisualConfig(bill)
        /\ raw = combineBillingExpr(bill, rule)
        /\ groups = tryParseRequestRuleExpr(rule)
        /\ fresh = TRUE /\ due = "mount" /\ seen = <<bill, rule>>
        /\ meant = OrDefault(text)
        /\ lost = When(Parenthesised(meant), {"parentheses"}) \cup MountLosses(bill, rule)

\* The editor is mounted anew on the sheet's b and r.
Mount(b, r) ==
  /\ bill' = b /\ rule' = r
  /\ mode' = "visual"
  /\ config' = tryParseVisualConfig(b)
  /\ raw' = combineBillingExpr(b, r)
  /\ groups' = tryParseRequestRuleExpr(r)
  /\ fresh' = TRUE /\ due' = "mount" /\ seen' = <<b, r>>

effectiveExpr ==
  IF mode = "visual" THEN Text(generateExpr(config)) ELSE splitBillingExpr(raw).bill

\* The effects of another render would change nothing. The user acts only
\* then: the renders that follow an edit take no time beside the next one.
Settled ==
  /\ due = "none"
  /\ seen = <<bill, rule>>
  /\ bill = effectiveExpr
  /\ mode = "visual" => rule = buildRequestRuleExpr(groups)

\* Leaving the tab unmounts the editor; the sheet keeps bill and rule.
SwitchTab ==
  /\ Settled
  /\ Mount(OrDefault(bill), rule)
  /\ meant' = OrDefault(meant)
  /\ lost' = lost \cup MountLosses(bill', rule')
  /\ UNCHANGED isNew

\* Only the name of a new model can be edited.
Rename ==
  /\ Settled /\ isNew
  /\ due' = "rename"
  /\ UNCHANGED <<isNew, sheet, form, fresh, seen, meant, lost>>

\* The text is put together and stored, and the sheet opened with it again.
Save ==
  /\ Settled
  /\ LET text == combineBillingExpr(bill, rule)
         parts == splitBillingExpr(OrDefault(text))
     IN  /\ Mount(parts.bill, parts.rule)
         /\ meant' = OrDefault(text)
         /\ lost' = When(Parenthesised(meant'), {"parentheses"}) \cup MountLosses(bill', rule')
         /\ isNew' = (text = NoText)

-----------------------------------------------------------------------------
(* The effects of one render *)

\* The first effect: its dependencies changed and initRef is false.
Rereads == fresh /\ (due = "mount" \/ seen # <<bill, rule>>)

Reread ==
  LET parsed == tryParseVisualConfig(bill)
  IN  /\ config' = IF parsed = <<>> /\ bill = NoText THEN DefaultConfig ELSE parsed
      /\ mode' = CASE parsed # <<>> -> "visual"
                   [] parsed = <<>> /\ bill # NoText -> "raw"
                   [] OTHER -> mode
      /\ raw' = combineBillingExpr(bill, rule)
      /\ groups' = tryParseRequestRuleExpr(rule)

\* Mutant of Effects: initRef is set only where the base could be parsed.
EffectsInitLate ==
  /\ ~Settled
  /\ IF Rereads THEN Reread ELSE UNCHANGED form
  /\ fresh' = (due # "none" \/ (fresh /\ (~Rereads \/ tryParseVisualConfig(bill) = <<>>)))
  /\ bill' = effectiveExpr
  /\ rule' = IF mode = "visual" THEN buildRequestRuleExpr(groups) ELSE rule
  /\ seen' = <<bill, rule>>
  /\ due' = "none"
  /\ UNCHANGED <<isNew, meant, lost>>

Effects ==
  /\ ~Settled
  /\ IF Rereads THEN Reread ELSE UNCHANGED form
  /\ fresh' = (due # "none" \/ (fresh /\ ~Rereads))
  /\ bill' = effectiveExpr
  /\ rule' = IF mode = "visual" THEN buildRequestRuleExpr(groups) ELSE rule
  /\ seen' = <<bill, rule>>
  /\ due' = "none"
  /\ UNCHANGED <<isNew, meant, lost>>

-----------------------------------------------------------------------------
(* The form *)

\* The form now holds cfg and gs, and this is what its user means. If it is the
\* first edit, its rule is read back from the sheet.
Draw(cfg, gs) ==
  /\ Settled /\ mode = "visual"
  /\ config' = cfg /\ groups' = gs
  /\ meant' = combineBillingExpr(Text(generateExpr(cfg)), buildRequestRuleExpr(gs))
  /\ lost' = When(fresh /\ ~ParsesRule(buildRequestRuleExpr(gs)), {"dropped"})
  /\ UNCHANGED <<isNew, sheet, mode, raw, fresh, seen, due>>

shown == normalizeVisualConfig(config)

handleTierChange ==
  \E i \in DOMAIN shown :
    \/ \E p \in Prices : Draw([shown EXCEPT ![i].price = p], groups)
    \/ \E v \in shown[i].conds :
         Draw([shown EXCEPT ![i].conds = shown[i].conds \ {v}], groups)

\* The tier that was the last gets the condition len < 200000.
handleAddTier ==
  /\ Len(shown) < MaxTiers
  /\ LET last == shown[Len(shown)]
         bounded == [last EXCEPT !.conds = IF last.conds = {} THEN {"len"} ELSE last.conds]
     IN  Draw(Append([shown EXCEPT ![Len(shown)] = bounded], [conds |-> {}, price |-> 0]),
              groups)

handleRemoveTier ==
  /\ Len(shown) > 1
  /\ \E i \in DOMAIN shown : Draw(RemoveAt(shown, i), groups)

handleAddCondition ==
  \E i \in DOMAIN shown :
    /\ Cardinality(shown[i].conds) < MaxTierConds
    /\ Draw([shown EXCEPT ![i].conds =
               shown[i].conds \cup {IF "len" \in shown[i].conds THEN "c" ELSE "len"}],
            groups)

\* The rule cards are shown when the sheet's rule can be read.
handleRuleGroupsChange ==
  /\ ParsesRule(rule)
  /\ \/ /\ Len(groups) < MaxGroups
        /\ Draw(config, Append(groups, [conds |-> <<"blank">>, mult |-> NoMult]))
     \/ \E g \in DOMAIN groups :
          \/ Draw(config, RemoveAt(groups, g))
          \/ \E m \in Mults : Draw(config, [groups EXCEPT ![g].mult = m])
          \/ /\ Len(groups[g].conds) < MaxConds
             /\ Draw(config, [groups EXCEPT ![g].conds = Append(groups[g].conds, "blank")])
          \/ \E i \in DOMAIN groups[g].conds :
               \/ \E k \in CondKinds : Draw(config, [groups EXCEPT ![g].conds[i] = k])
               \/ Draw(config, [groups EXCEPT ![g].conds = RemoveAt(groups[g].conds, i)])

-----------------------------------------------------------------------------
(* The text, the mode and the presets *)

\* Mutant of handleRawChange: the sheet's rule is not set.
RawChangeKeepsRule ==
  \E t \in Typed :
    /\ Settled /\ mode = "raw"
    /\ raw' = t
    /\ meant' = t
    /\ lost' = RevertLosses(t) \cup When(Parenthesised(t), {"parentheses"})
    /\ UNCHANGED <<isNew, sheet, mode, config, groups, fresh, seen, due>>

handleRawChange ==
  \E t \in Typed :
    /\ Settled /\ mode = "raw"
    /\ raw' = t
    /\ rule' = splitBillingExpr(t).rule
    /\ meant' = t
    /\ lost' = RevertLosses(t) \cup When(Parenthesised(t), {"parentheses"})
    /\ UNCHANGED <<isNew, bill, mode, config, groups, fresh, seen, due>>

\* A base the form cannot show is replaced by the price the sheet starts with.
ToVisualLosses ==
  LET b == splitBillingExpr(raw).bill
  IN  When(Text(generateExpr(normalizeVisualConfig(tryParseVisualConfig(b)))) # OrDefault(b),
           {"unread"})

\* Mutant of toVisual: the rule groups of the form are not replaced.
toVisualKeepsGroups ==
  /\ Settled /\ mode = "raw"
  /\ LET parts == splitBillingExpr(raw)
     IN  /\ config' = normalizeVisualConfig(tryParseVisualConfig(parts.bill))
         /\ rule' = parts.rule
  /\ mode' = "visual"
  /\ lost' = lost \cup ToVisualLosses
  /\ UNCHANGED <<isNew, bill, raw, groups, fresh, seen, due, meant>>

toVisual ==
  /\ Settled /\ mode = "raw"
  /\ LET parts == splitBillingExpr(raw)
     IN  /\ config' = normalizeVisualConfig(tryParseVisualConfig(parts.bill))
         /\ groups' = tryParseRequestRuleExpr(parts.rule)
         /\ rule' = parts.rule
  /\ mode' = "visual"
  /\ lost' = lost \cup ToVisualLosses
  /\ UNCHANGED <<isNew, bill, raw, fresh, seen, due, meant>>

\* The sheet keeps its rule; one that cannot be read becomes a part of the base
\* as well.
toRaw ==
  /\ Settled /\ mode = "visual"
  /\ raw' = combineBillingExpr(Text(generateExpr(config)), buildRequestRuleExpr(groups))
  /\ mode' = "raw"
  /\ lost' = lost \cup When(~ParsesRule(rule), {"twice"})
  /\ UNCHANGED <<isNew, sheet, config, groups, fresh, seen, due, meant>>

handleModeChange == toVisual \/ toRaw

applyPreset ==
  \E p \in Presets :
    /\ Settled
    /\ raw' = combineBillingExpr(Text(p.base), buildRequestRuleExpr(p.groups))
    /\ config' = tryParseVisualConfig(Text(p.base))
    /\ mode' = IF config' = <<>> THEN "raw" ELSE "visual"
    /\ groups' = p.groups
    /\ rule' = buildRequestRuleExpr(p.groups)
    /\ meant' = raw' /\ lost' = RevertLosses(raw')
    /\ UNCHANGED <<isNew, bill, fresh, seen, due>>

Next ==
  \/ SwitchTab \/ Rename \/ Save \/ Effects
  \/ handleTierChange \/ handleAddTier \/ handleRemoveTier \/ handleAddCondition
  \/ handleRuleGroupsChange
  \/ handleRawChange \/ handleModeChange \/ applyPreset

Spec == Init /\ [][Next]_vars

\* React runs the effects of every render it commits.
FairSpec == Spec /\ WF_vars(Effects)

-----------------------------------------------------------------------------
(* Properties *)

\* The sheet, the form and the text hold texts, rules, tiers and groups that
\* the editor can write, and the form has tiers once its effects have run.
TypeOK ==
  /\ IsText(bill) /\ IsText(raw) /\ IsText(meant)
  /\ rule \in Rules
  /\ mode \in {"visual", "raw"}
  /\ config \in Seq(Tier) /\ groups \in Seq(Group)
  /\ mode = "visual" /\ due # "mount" => config # <<>>
  /\ isNew \in BOOLEAN /\ fresh \in BOOLEAN
  /\ lost \subseteq Losses
  /\ due \in {"mount", "rename", "none"}

\* What was last written in the form, as text or with a preset is what the
\* sheet would save: every request is charged what that text says, whatever the
\* effects re-read, and whatever tabs and modes were switched since. It fails
\* exactly in the ways that Losses lists: the editor is mounted on, or its form
\* is given, an expression or a rule the form cannot show; a condition written
\* as two tests is entered as the first edit; a first edit changes base and
\* rule at once; a text without parentheses; a rule of two tests shown as text.
WhatIsWrittenIsCharged ==
  Settled /\ lost = {} => SamePrice(combineBillingExpr(bill, rule), meant)

\* The copies agree when the effects have come to rest: in the text mode the
\* text on the screen is the one Save would store, also when the editor has lost
\* what was written. The exceptions are a text whose base gets parentheses, a
\* rule of two tests that the form entered, which is stored once more than it
\* is shown, and a base with rules of its own that was brought back.
ShownIsSaved ==
  Settled /\ mode = "raw" /\ ~Parenthesised(raw) /\ lost \cap {"twice", "stacked"} = {}
    => SamePrice(combineBillingExpr(bill, rule), raw)

\* The effects write to each other's dependencies, and yet the editor comes to
\* rest after every edit: initRef keeps them from exchanging two texts for ever.
Settles == []<>Settled

=============================================================================
