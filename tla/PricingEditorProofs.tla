------------------------ MODULE PricingEditorProofs ------------------------
(***************************************************************************)
(* The pricing editor, for any prices, multipliers, conditions and bounds, *)
(* and for all texts: what was written last is what the sheet saves, but   *)
(* for the losses the model names. Reading undoes writing, for tiers, for  *)
(* the rules that can be read and for the text that joins them, so that    *)
(* re-reading the sheet loses nothing else.                                *)
(***************************************************************************)
EXTENDS PricingEditor, SequenceTheorems, FiniteSetTheorems, WellFoundedInduction, TLAPS

\* A set of natural numbers has a least element.
LEMMA LeastNumber ==
  ASSUME NEW T \in SUBSET Nat, T # {}
  PROVE  \E x \in T : \A y \in T : x <= y
<1> DEFINE U == {0..n : n \in T}
<1>1. U \subseteq FiniteSubsetsOf(Nat)
  <2>1. ASSUME NEW n \in T PROVE 0..n \in FiniteSubsetsOf(Nat)
    BY FS_Interval DEF FiniteSubsetsOf
  <2> QED BY <2>1
<1>2. U # {} OBVIOUS
<1>3. PICK u \in U : \A y \in U : ~ (<<y, u>> \in StrictSubsetOrdering(Nat))
  <2> HIDE DEF U
  <2> QED BY <1>1, <1>2, WFMin, FS_StrictSubsetOrderingWellFounded
<1>4. PICK n \in T : u = 0..n OBVIOUS
<1>5. ASSUME NEW m \in T, m < n PROVE FALSE
  <2>1. <<0..m, u>> \in StrictSubsetOrdering(Nat)
    BY <1>4, <1>5 DEF StrictSubsetOrdering
  <2> QED BY <1>3, <2>1
<1> QED BY <1>5

\* What holds of 0, and of each number if of the one before, holds of all up to n.
LEMMA UpTo ==
  ASSUME NEW n \in Nat, NEW T \in SUBSET Nat, 0 \in T,
         \A i \in 1..n : i - 1 \in T => i \in T
  PROVE  0..n \subseteq T
<1> DEFINE Bad == (0..n) \ T
<1>1. CASE Bad # {}
  <2>1. Bad \in SUBSET Nat OBVIOUS
  <2>2. PICK k \in Bad : \A y \in Bad : k <= y
    <3> HIDE DEF Bad
    <3> QED BY <1>1, <2>1, LeastNumber
  <2>3. k \in 1..n /\ k - 1 \in 0..n /\ ~(k <= k - 1) /\ k \notin T
    BY <2>2
  <2>4. k - 1 \notin Bad
    <3> HIDE DEF Bad
    <3> QED BY <2>2, <2>3
  <2> QED BY <2>3, <2>4
<1> QED BY <1>1

Solves(w, n, S, e, F) ==
  w \in [0..n -> S] /\ w[0] = e /\ \A i \in 1..n : w[i] = F[<<i, w[i - 1]>>]

\* A recursion of a given step has a solution.
LEMMA RecursionExists ==
  ASSUME NEW n \in Nat, NEW S, NEW e \in S, NEW F \in [(1..n) \X S -> S]
  PROVE  \E w : Solves(w, n, S, e, F)
<1> DEFINE T == {k \in Nat : k <= n => \E w \in [0..k -> S] :
                   w[0] = e /\ \A i \in 1..k : w[i] = F[<<i, w[i - 1]>>]}
<1>1. 0 \in T
  <2> DEFINE w == [i \in 0..0 |-> e]
  <2>1. w \in [0..0 -> S] /\ w[0] = e /\ \A i \in 1..0 : w[i] = F[<<i, w[i - 1]>>]
    OBVIOUS
  <2> QED BY <2>1
<1>2. ASSUME NEW k \in 1..n, k - 1 \in T PROVE k \in T
  <2>1. PICK v \in [0..(k - 1) -> S] :
          v[0] = e /\ \A i \in 1..(k - 1) : v[i] = F[<<i, v[i - 1]>>]
    BY <1>2
  <2> DEFINE w == [i \in 0..k |-> IF i = k THEN F[<<k, v[k - 1]>>] ELSE v[i]]
  <2>2. k - 1 \in 0..(k - 1) /\ \A i \in 0..k : i # k => i \in 0..(k - 1)
    OBVIOUS
  <2>3. v[k - 1] \in S BY <2>2
  <2>4. w \in [0..k -> S]
    BY <2>2, <2>3
  <2>5. w[0] = e
    BY <2>1, <2>2
  <2>6. ASSUME NEW i \in 1..k PROVE w[i] = F[<<i, w[i - 1]>>]
    <3>1. i - 1 \in 0..k /\ i - 1 # k /\ w[i - 1] = v[i - 1] BY <2>2
    <3>2. CASE i = k BY <3>1, <3>2
    <3>3. CASE i # k
      <4>1. i \in 1..(k - 1) BY <3>3
      <4> QED BY <2>1, <3>1, <3>3, <4>1
    <3> QED BY <3>2, <3>3
  <2> HIDE DEF w
  <2> QED BY <2>4, <2>5, <2>6
<1>3. 0..n \subseteq T
  <2> HIDE DEF T
  <2> QED BY <1>1, <1>2, UpTo DEF T
<1>4. n \in T BY <1>3
<1> QED BY <1>4 DEF Solves

-----------------------------------------------------------------------------
(* Rules: what the form writes, and what it reads back                     *)

Kinds == {"eq", "exists", "contains", "blank"}
Tests == {"eq", "exists"}

TestsStep(g, w) ==
  [i \in 0..Len(g.conds) |->
     IF i = 0 THEN <<>> ELSE w[i - 1] \o buildRequestCondition(g.conds[i])]

\* A condition is written as one test, as two or as none.
LEMMA ConditionTests ==
  ASSUME NEW k \in Kinds
  PROVE  /\ buildRequestCondition(k) \in Seq(Atoms)
         /\ k \in Tests => buildRequestCondition(k) = <<k>>
<1>1. CASE k = "contains"
  <2>1. buildRequestCondition(k) = <<"exists", "has">> BY <1>1 DEF buildRequestCondition
  <2>2. "exists" \in Atoms /\ "has" \in Atoms BY DEF Atoms
  <2>3. <<"exists", "has">> \in Seq(Atoms) BY <2>2
  <2>4. k \notin Tests BY <1>1 DEF Tests
  <2> QED BY <2>1, <2>3, <2>4
<1>2. CASE k = "blank"
  <2>1. buildRequestCondition(k) = <<>> BY <1>2 DEF buildRequestCondition
  <2>2. <<>> \in Seq(Atoms) OBVIOUS
  <2>3. k \notin Tests BY <1>2 DEF Tests
  <2> QED BY <2>1, <2>2, <2>3
<1>3. CASE k \in Tests
  <2>1. buildRequestCondition(k) = <<k>> BY <1>3 DEF buildRequestCondition, Tests
  <2>2. k \in Atoms BY <1>3 DEF Tests, Atoms
  <2> QED BY <2>1, <2>2
<1> QED BY <1>1, <1>2, <1>3 DEF Kinds, Tests

\* The recursion in buildRuleGroupFactor has a solution, whose values are tests.
LEMMA TestsExist ==
  ASSUME NEW g \in Group
  PROVE  \E w \in [0..Len(g.conds) -> Seq(Atoms)] :
           /\ w = TestsStep(g, w)
           /\ buildRuleGroupFactor(g) = [atoms |-> w[Len(g.conds)], mult |-> g.mult]
<1> DEFINE n == Len(g.conds)
<1> DEFINE S == Seq(Atoms)
<1> DEFINE F == [p \in (1..n) \X S |-> p[2] \o buildRequestCondition(g.conds[p[1]])]
<1> DEFINE w == CHOOSE w : w = TestsStep(g, w)
<1>1. n \in Nat /\ \A i \in 1..n : g.conds[i] \in Kinds
  BY LenProperties, ElementOfSeq DEF Group, Kinds
<1>2. \A i \in 1..n : buildRequestCondition(g.conds[i]) \in S
  BY <1>1, ConditionTests
<1>3. F \in [(1..n) \X S -> S]
  BY <1>2, ConcatProperties
<1>0. <<>> \in S OBVIOUS
<1>4. PICK v \in [0..n -> S] : v[0] = <<>> /\ \A i \in 1..n : v[i] = F[<<i, v[i - 1]>>]
  <2> DEFINE e == <<>>
  <2>1. e \in S /\ n \in Nat BY <1>0, <1>1
  <2> HIDE DEF n, S, F, e
  <2>2. \E v : Solves(v, n, S, e, F)
    BY <1>3, <2>1, RecursionExists
  <2> QED BY <2>2 DEF e, Solves
<1>5. ASSUME NEW i \in 1..n PROVE v[i] = v[i - 1] \o buildRequestCondition(g.conds[i])
  <2>1. i - 1 \in 0..n /\ v[i - 1] \in S BY <1>1
  <2> QED BY <1>4, <2>1
<1>6. v = TestsStep(g, v)
  <2>1. v = [i \in 0..n |-> v[i]] OBVIOUS
  <2>2. ASSUME NEW i \in 0..n
        PROVE  v[i] = IF i = 0 THEN <<>> ELSE v[i - 1] \o buildRequestCondition(g.conds[i])
    <3>1. CASE i = 0 BY <1>4, <3>1
    <3>2. CASE i # 0
      <4>1. i \in 1..n BY <1>1, <3>2
      <4> QED BY <1>5, <3>2, <4>1
    <3> QED BY <3>1, <3>2
  <2> HIDE DEF S, F
  <2> QED BY <2>1, <2>2 DEF TestsStep
<1>7. w = TestsStep(g, w)
  BY <1>6
<1>8. buildRuleGroupFactor(g) = [atoms |-> w[n], mult |-> g.mult]
  BY DEF buildRuleGroupFactor, TestsStep
<1> HIDE DEF w, F
<1>9. w \in [0..n -> S]
  <2> DEFINE T == {i \in Nat : w[i] \in S}
  <2>1. /\ w[0] = <<>>
        /\ \A i \in 1..n : w[i] = w[i - 1] \o buildRequestCondition(g.conds[i])
        /\ w = [i \in 0..n |-> w[i]]
    <3>1. w = [i \in 0..n |->
                IF i = 0 THEN <<>> ELSE w[i - 1] \o buildRequestCondition(g.conds[i])]
      BY <1>7 DEF TestsStep
    <3>2. 0 \in 0..n /\ \A i \in 1..n : i \in 0..n /\ i # 0 BY <1>1
    <3> HIDE DEF n, S
    <3> QED BY <3>1, <3>2
  <2>2. 0 \in T
    <3> HIDE DEF S
    <3> QED BY <1>0, <2>1
  <2>3. ASSUME NEW i \in 1..n, i - 1 \in T PROVE i \in T
    <3>1. w[i - 1] \in S /\ i \in Nat BY <2>3, <1>1
    <3>2. w[i - 1] \o buildRequestCondition(g.conds[i]) \in S
      BY <3>1, <1>2, ConcatProperties
    <3> HIDE DEF S
    <3> QED BY <3>1, <3>2, <2>1
  <2>4. 0..n \subseteq T
    <3>1. T \in SUBSET Nat OBVIOUS
    <3> HIDE DEF T, n
    <3> QED BY <1>1, <2>2, <2>3, <3>1, UpTo
  <2> QED BY <2>1, <2>4
<1> QED BY <1>7, <1>8, <1>9

\* A group is written as tests and its multiplier.
LEMMA FactorOfGroup ==
  ASSUME NEW g \in Group
  PROVE  buildRuleGroupFactor(g) \in [atoms : Seq(Atoms), mult : Nat]
<1>1. PICK w \in [0..Len(g.conds) -> Seq(Atoms)] :
        buildRuleGroupFactor(g) = [atoms |-> w[Len(g.conds)], mult |-> g.mult]
  BY TestsExist
<1>2. Len(g.conds) \in 0..Len(g.conds) /\ g.mult \in Nat
  BY LenProperties DEF Group
<1> QED BY <1>1, <1>2

FactorsStep(gs, w) ==
  [i \in 0..Len(gs) |->
     IF i = 0 THEN <<>>
     ELSE LET f == buildRuleGroupFactor(gs[i])
          IN  IF f.mult # NoMult /\ f.atoms # <<>> THEN Append(w[i - 1], f) ELSE w[i - 1]]

\* The recursion in buildRequestRuleExpr has a solution, whose values are rules.
LEMMA FactorsExist ==
  ASSUME NEW gs \in Seq(Group)
  PROVE  \E w \in [0..Len(gs) -> Seq(RuleFactor)] :
           w = FactorsStep(gs, w) /\ buildRequestRuleExpr(gs) = w[Len(gs)]
<1> DEFINE n == Len(gs)
<1> DEFINE S == Seq(RuleFactor)
<1> DEFINE next(i, x) == LET f == buildRuleGroupFactor(gs[i])
                         IN  IF f.mult # NoMult /\ f.atoms # <<>> THEN Append(x, f) ELSE x
<1> DEFINE F == [p \in (1..n) \X S |-> next(p[1], p[2])]
<1> DEFINE w == CHOOSE w : w = FactorsStep(gs, w)
<1>1. n \in Nat /\ \A i \in 1..n : gs[i] \in Group
  BY LenProperties, ElementOfSeq
<1>2. ASSUME NEW i \in 1..n, NEW x \in S PROVE next(i, x) \in S
  <2> DEFINE f == buildRuleGroupFactor(gs[i])
  <2>1. f \in [atoms : Seq(Atoms), mult : Nat]
    BY <1>1, FactorOfGroup
  <2>2. f.mult # NoMult /\ f.atoms # <<>> => f \in RuleFactor
    <3> HIDE DEF f
    <3> QED BY <2>1 DEF RuleFactor
  <2>3. f \in RuleFactor => Append(x, f) \in S
    <3> HIDE DEF f
    <3> QED BY <1>2, AppendProperties
  <2> HIDE DEF f, S
  <2> QED BY <1>2, <2>2, <2>3 DEF f
<1> HIDE DEF next
<1>3. F \in [(1..n) \X S -> S]
  <2> HIDE DEF S, n
  <2> QED BY <1>2
<1>0. <<>> \in S OBVIOUS
<1>4. PICK v \in [0..n -> S] : v[0] = <<>> /\ \A i \in 1..n : v[i] = F[<<i, v[i - 1]>>]
  <2> DEFINE e == <<>>
  <2>1. e \in S /\ n \in Nat BY <1>0, <1>1
  <2> HIDE DEF n, S, F, e
  <2>2. \E v : Solves(v, n, S, e, F)
    BY <1>3, <2>1, RecursionExists
  <2> QED BY <2>2 DEF e, Solves
<1>5. ASSUME NEW i \in 1..n PROVE v[i] = next(i, v[i - 1])
  <2>0. i - 1 \in 0..n BY <1>1
  <2> HIDE DEF S
  <2>1. v[i - 1] \in S BY <2>0
  <2> QED BY <1>4, <2>1
<1>6. v = FactorsStep(gs, v)
  <2>1. v = [i \in 0..n |-> v[i]] OBVIOUS
  <2>2. ASSUME NEW i \in 0..n
        PROVE  v[i] = IF i = 0 THEN <<>> ELSE next(i, v[i - 1])
    <3>1. CASE i = 0 BY <1>4, <3>1
    <3>2. CASE i # 0
      <4>1. i \in 1..n BY <1>1, <3>2
      <4> QED BY <1>5, <3>2, <4>1
    <3> QED BY <3>1, <3>2
  <2> HIDE DEF S, F
  <2> QED BY <2>1, <2>2 DEF FactorsStep, next
<1>7. w = FactorsStep(gs, w)
  BY <1>6
<1>8. buildRequestRuleExpr(gs) = w[n]
  BY DEF buildRequestRuleExpr, FactorsStep
<1> HIDE DEF w, F
<1>9. w \in [0..n -> S]
  <2> DEFINE T == {i \in Nat : w[i] \in S}
  <2>1. /\ w[0] = <<>>
        /\ \A i \in 1..n : w[i] = next(i, w[i - 1])
        /\ w = [i \in 0..n |-> w[i]]
    <3>1. w = [i \in 0..n |-> IF i = 0 THEN <<>> ELSE next(i, w[i - 1])]
      BY <1>7 DEF FactorsStep, next
    <3>2. 0 \in 0..n /\ \A i \in 1..n : i \in 0..n /\ i # 0 BY <1>1
    <3> HIDE DEF n, S
    <3> QED BY <3>1, <3>2
  <2>2. 0 \in T
    <3> HIDE DEF S
    <3> QED BY <1>0, <2>1
  <2>3. ASSUME NEW i \in 1..n, i - 1 \in T PROVE i \in T
    <3>1. w[i - 1] \in S /\ i \in Nat BY <2>3, <1>1
    <3> HIDE DEF S
    <3> QED BY <3>1, <1>2, <2>1
  <2>4. 0..n \subseteq T
    <3>1. T \in SUBSET Nat OBVIOUS
    <3> HIDE DEF T, n
    <3> QED BY <1>1, <2>2, <2>3, <3>1, UpTo
  <2> QED BY <2>1, <2>4
<1> QED BY <1>7, <1>8, <1>9

\* What the form writes is a rule.
LEMMA RuleOfGroups ==
  ASSUME NEW gs \in Seq(Group)
  PROVE  buildRequestRuleExpr(gs) \in Rules
<1>1. PICK w \in [0..Len(gs) -> Seq(RuleFactor)] : buildRequestRuleExpr(gs) = w[Len(gs)]
  BY FactorsExist
<1>2. Len(gs) \in 0..Len(gs)
  BY LenProperties
<1> QED BY <1>1, <1>2 DEF Rules

\* A sequence is the last of its prefixes.
LEMMA PrefixLaws ==
  ASSUME NEW S, NEW s \in Seq(S)
  PROVE  /\ SubSeq(s, 1, 0) = <<>> /\ SubSeq(s, 1, Len(s)) = s
         /\ \A i \in 1..Len(s) : SubSeq(s, 1, i) = SubSeq(s, 1, i - 1) \o <<s[i]>>
<1>1. SubSeq(s, 1, 0) = <<>>
  BY SubSeqEmpty
<1>2. SubSeq(s, 1, Len(s)) = s
  BY SubSeqFull
<1>3. ASSUME NEW i \in 1..Len(s)
      PROVE  SubSeq(s, 1, i) = SubSeq(s, 1, i - 1) \o <<s[i]>>
  <2>1. 1 \in 1..Len(s) /\ i \in 1..Len(s) BY LenProperties
  <2> QED BY <2>1, SubSeqRecursiveSecond
<1> QED BY <1>1, <1>2, <1>3

\* The tests of a factor, read as conditions, are written as the same factor.
LEMMA FactorAgain ==
  ASSUME NEW a \in Seq(Tests), NEW m \in Nat
  PROVE  buildRuleGroupFactor([conds |-> a, mult |-> m]) = [atoms |-> a, mult |-> m]
<1> DEFINE g == [conds |-> a, mult |-> m]
<1> DEFINE n == Len(a)
<1>1. g \in Group /\ g.conds = a /\ g.mult = m
  <2>1. Tests \subseteq Kinds BY DEF Tests, Kinds
  <2>2. a \in Seq(Kinds) BY <2>1, SeqMonotonic
  <2> QED BY <2>2 DEF Group, Kinds
<1> HIDE DEF g
<1>2. PICK w : w = TestsStep(g, w) /\ buildRuleGroupFactor(g) = [atoms |-> w[n], mult |-> m]
  BY <1>1, TestsExist
<1>3. n \in Nat /\ \A i \in 1..n : a[i] \in Tests
  BY LenProperties, ElementOfSeq
<1>4. w[0] = <<>> /\ \A i \in 1..n : w[i] = w[i - 1] \o <<a[i]>>
  <2>0. w = [i \in 0..n |->
              IF i = 0 THEN <<>> ELSE w[i - 1] \o buildRequestCondition(a[i])]
    BY <1>1, <1>2 DEF TestsStep
  <2>1. w[0] = <<>> /\ \A i \in 1..n : w[i] = w[i - 1] \o buildRequestCondition(a[i])
    <3>1. 0 \in 0..n /\ \A i \in 1..n : i \in 0..n /\ i # 0 BY <1>3
    <3> HIDE DEF n
    <3> QED BY <2>0, <3>1
  <2>2. Tests \subseteq Kinds BY DEF Tests, Kinds
  <2> QED BY <1>3, <2>1, <2>2, ConditionTests
<1> DEFINE T == {i \in Nat : w[i] = SubSeq(a, 1, i)}
<1>5. 0 \in T
  BY <1>4, PrefixLaws
<1>6. ASSUME NEW i \in 1..n, i - 1 \in T PROVE i \in T
  <2>1. w[i - 1] = SubSeq(a, 1, i - 1) BY <1>6
  <2>2. SubSeq(a, 1, i) = SubSeq(a, 1, i - 1) \o <<a[i]>> BY <1>6, PrefixLaws
  <2>3. w[i] = w[i - 1] \o <<a[i]>> BY <1>4
  <2>4. w[i] = SubSeq(a, 1, i) BY <2>1, <2>2, <2>3, Zenon
  <2> QED BY <1>3, <2>4
<1>7. 0..n \subseteq T
  <2>1. T \in SUBSET Nat OBVIOUS
  <2> HIDE DEF T, n
  <2> QED BY <1>3, <1>5, <1>6, <2>1, UpTo
<1>8. w[n] = SubSeq(a, 1, n)
  <2>1. n \in T BY <1>3, <1>7
  <2> QED BY <2>1
<1>9. w[n] = a
  BY <1>8, PrefixLaws
<1> QED BY <1>2, <1>9 DEF g

\* A rule that was read and written again is the same rule.
LEMMA RuleAgain ==
  ASSUME NEW r \in Rules, ParsesRule(r)
  PROVE  /\ tryParseRequestRuleExpr(r) \in Seq(Group)
         /\ buildRequestRuleExpr(tryParseRequestRuleExpr(r)) = r
<1> DEFINE n == Len(r)
<1> DEFINE gs == [i \in 1..n |-> [conds |-> r[i].atoms, mult |-> r[i].mult]]
<1>1. /\ r \in Seq(RuleFactor) /\ n \in Nat /\ DOMAIN r = 1..n
      /\ \A i \in 1..n : r[i] \in RuleFactor
  <2>1. r \in Seq(RuleFactor) BY DEF Rules
  <2> QED BY <2>1, LenProperties, ElementOfSeq
<1>2. ASSUME NEW i \in 1..n
      PROVE  /\ r[i].atoms \in Seq(Tests) /\ r[i].atoms # <<>>
             /\ r[i].mult \in Nat /\ r[i].mult # NoMult
             /\ r[i] = [atoms |-> r[i].atoms, mult |-> r[i].mult]
  <2>1. r[i] \in RuleFactor BY <1>1
  <2>2. /\ r[i].atoms \in Seq(Atoms) /\ r[i].atoms # <<>>
        /\ r[i].mult \in Nat /\ r[i].mult # NoMult
        /\ r[i] = [atoms |-> r[i].atoms, mult |-> r[i].mult]
    BY <2>1 DEF RuleFactor
  <2>3. "has" \notin ToSet(r[i].atoms) BY <1>1 DEF ParsesRule
  <2>4. \A j \in 1..Len(r[i].atoms) : r[i].atoms[j] \in Tests
    BY <2>2, <2>3 DEF ToSet, Tests, Atoms
  <2>5. r[i].atoms \in Seq(Tests) BY <2>2, <2>4
  <2> QED BY <2>2, <2>5
<1>5. tryParseRequestRuleExpr(r) = gs
  BY <1>1 DEF tryParseRequestRuleExpr
<1>6. ASSUME NEW i \in 1..n
      PROVE  gs[i] = [conds |-> r[i].atoms, mult |-> r[i].mult] /\ gs[i] \in Group
  <2>1. gs[i] = [conds |-> r[i].atoms, mult |-> r[i].mult] OBVIOUS
  <2>2. ASSUME NEW c \in Seq(Tests), NEW m \in Nat
        PROVE [conds |-> c, mult |-> m] \in Group
    <3>1. Tests \subseteq Kinds BY DEF Tests, Kinds
    <3>2. c \in Seq(Kinds) BY <3>1, SeqMonotonic
    <3> QED BY <3>2 DEF Group, Kinds
  <2> HIDE DEF gs
  <2> QED BY <1>2, <2>1, <2>2
<1>7. gs \in Seq(Group) /\ Len(gs) = n
  <2>1. gs \in [1..n -> Group] BY <1>6
  <2> HIDE DEF gs, n
  <2> QED BY <1>1, <2>1
<1>8. ASSUME NEW i \in 1..n PROVE buildRuleGroupFactor(gs[i]) = r[i]
  BY <1>2, <1>6, FactorAgain
<1> HIDE DEF gs
<1>9. PICK w : w = FactorsStep(gs, w) /\ buildRequestRuleExpr(gs) = w[n]
  BY <1>7, FactorsExist
<1>10. w[0] = <<>> /\ \A i \in 1..n : w[i] = Append(w[i - 1], r[i])
  <2>1. w[0] = <<>> BY <1>1, <1>7, <1>9 DEF FactorsStep
  <2>2. ASSUME NEW i \in 1..n PROVE w[i] = Append(w[i - 1], r[i])
    <3>1. i \in 0..n /\ i # 0 BY <1>1
    <3>2. w[i] = LET f == buildRuleGroupFactor(gs[i])
                 IN  IF f.mult # NoMult /\ f.atoms # <<>> THEN Append(w[i - 1], f) ELSE w[i - 1]
      BY <1>7, <1>9, <3>1 DEF FactorsStep
    <3> QED BY <1>2, <1>8, <3>2
  <2> QED BY <2>1, <2>2
<1> DEFINE T == {i \in Nat : w[i] = SubSeq(r, 1, i)}
<1>11. 0 \in T
  BY <1>1, <1>10, PrefixLaws
<1>12. ASSUME NEW i \in 1..n, i - 1 \in T PROVE i \in T
  <2>1. w[i - 1] = SubSeq(r, 1, i - 1) BY <1>12
  <2>2. SubSeq(r, 1, i) = SubSeq(r, 1, i - 1) \o <<r[i]>> BY <1>1, <1>12, PrefixLaws
  <2>3. SubSeq(r, 1, i - 1) \in Seq(RuleFactor)
    <3>1. 1 \in Int /\ i - 1 \in Int /\ \A j \in 1..(i - 1) : r[j] \in RuleFactor BY <1>1
    <3> QED BY <3>1, SubSeqProperties
  <2>4. Append(SubSeq(r, 1, i - 1), r[i]) = SubSeq(r, 1, i - 1) \o <<r[i]>>
    BY <1>1, <2>3, AppendIsConcat
  <2>5. w[i] = Append(w[i - 1], r[i]) BY <1>10
  <2>6. w[i] = SubSeq(r, 1, i) BY <2>1, <2>2, <2>4, <2>5, Zenon
  <2> QED BY <1>1, <2>6
<1>13. 0..n \subseteq T
  <2>1. T \in SUBSET Nat OBVIOUS
  <2> HIDE DEF T, n
  <2> QED BY <1>1, <1>11, <1>12, <2>1, UpTo
<1>14. w[n] = SubSeq(r, 1, n)
  <2>1. n \in T BY <1>1, <1>13
  <2> QED BY <2>1
<1>15. w[n] = r
  BY <1>1, <1>14, PrefixLaws
<1> QED BY <1>5, <1>7, <1>9, <1>15

\* A rule that cannot be read is read as no groups, and these are no rule.
LEMMA RuleUnread ==
  /\ <<>> \in Rules /\ ParsesRule(<<>>) /\ <<>> \in Seq(Group)
  /\ buildRequestRuleExpr(<<>>) = <<>>
  /\ \A r : ~ParsesRule(r) => tryParseRequestRuleExpr(r) = <<>>
<1>1. <<>> \in Rules /\ <<>> \in Seq(Group) BY DEF Rules
<1>2. ParsesRule(<<>>) BY DEF ParsesRule
<1>3. tryParseRequestRuleExpr(<<>>) = <<>>
  BY <1>2 DEF tryParseRequestRuleExpr
<1>4. buildRequestRuleExpr(<<>>) = <<>>
  BY <1>1, <1>2, <1>3, RuleAgain
<1> QED BY <1>1, <1>2, <1>4 DEF tryParseRequestRuleExpr

\* What the form makes of a rule can be read.
LEMMA RuleRead ==
  ASSUME NEW r \in Rules
  PROVE  LET gs == tryParseRequestRuleExpr(r) IN
         /\ gs \in Seq(Group)
         /\ buildRequestRuleExpr(gs) \in Rules /\ ParsesRule(buildRequestRuleExpr(gs))
         /\ ParsesRule(r) <=> buildRequestRuleExpr(gs) = r
         /\ ~ParsesRule(r) => buildRequestRuleExpr(gs) = <<>>
<1>1. CASE ParsesRule(r) BY <1>1, RuleAgain
<1>2. CASE ~ParsesRule(r) BY <1>2, RuleUnread
<1> QED BY <1>1, <1>2


-----------------------------------------------------------------------------
(* Texts                                                                   *)

Config == {c \in Seq(Tier) : c # <<>>}
Layers == Seq(Rules \ {<<>>})

\* Tiers without rules.
Based(b) == IsText(b) /\ b.base.kind = "tiers" /\ b.layers = <<>>

\* What precedes the last element of a sequence to which it was appended.
LEMMA AppendParts ==
  ASSUME NEW S, NEW u \in Seq(S), NEW e \in S
  PROVE  /\ Front(Append(u, e)) = u /\ Last(Append(u, e)) = e
         /\ Append(u, e) \in Seq(S) /\ Append(u, e) # <<>>
         /\ Len(Append(u, e)) = Len(u) + 1
<1> DEFINE a == Append(u, e)
<1>1. /\ a \in Seq(S) /\ a # <<>> /\ Len(a) = Len(u) + 1
      /\ \A i \in 1..Len(u) : a[i] = u[i] /\ a[Len(u) + 1] = e
  BY AppendProperties
<1>2. a[Len(u) + 1] = e BY AppendProperties
<1>3. Len(u) \in Nat /\ Len(a) - 1 = Len(u)
  <2>1. Len(u) \in Nat BY LenProperties
  <2> HIDE DEF a
  <2> QED BY <1>1, <2>1
<1>4. SubSeq(a, 1, Len(a)) = SubSeq(a, 1, Len(a) - 1) \o <<a[Len(a)]>> /\ SubSeq(a, 1, Len(a)) = a
  <2>1. Len(a) \in 1..Len(a)
    <3> HIDE DEF a
    <3> QED BY <1>1, <1>3
  <2> HIDE DEF a
  <2> QED BY <1>1, <2>1, PrefixLaws
<1>5. SubSeq(a, 1, Len(u)) = u
  <2>1. SubSeq(a, 1, Len(u)) = [i \in 1..Len(u) |-> a[i]]
    <3> HIDE DEF a
    <3> QED BY <1>1, <1>3
  <2>2. u = [i \in 1..Len(u) |-> u[i]] BY LenProperties
  <2> HIDE DEF a
  <2> QED BY <1>1, <2>1, <2>2
<1> HIDE DEF a
<1>6. Front(a) = u BY <1>3, <1>5 DEF Front
<1>7. Last(a) = e BY <1>1, <1>2 DEF Last
<1> QED BY <1>1, <1>6, <1>7 DEF a

\* A sequence is what precedes its last element, and that element.
LEMMA FrontLast ==
  ASSUME NEW S, NEW s \in Seq(S)
  PROVE  /\ \A e \in S : Front(Append(s, e)) = s /\ Last(Append(s, e)) = e
                         /\ Append(s, e) \in Seq(S) /\ Append(s, e) # <<>>
                         /\ Len(Append(s, e)) = Len(s) + 1
         /\ s # <<>> => /\ Front(s) \in Seq(S) /\ Last(s) \in S
                        /\ Append(Front(s), Last(s)) = s
                        /\ Len(Front(s)) = Len(s) - 1
<1>1. ASSUME NEW u \in Seq(S), NEW e \in S
      PROVE  /\ Front(Append(u, e)) = u /\ Last(Append(u, e)) = e
             /\ Append(u, e) \in Seq(S) /\ Append(u, e) # <<>>
             /\ Len(Append(u, e)) = Len(u) + 1
  BY <1>1, AppendParts
<1>2. ASSUME s # <<>>
      PROVE  /\ Front(s) \in Seq(S) /\ Last(s) \in S
             /\ Append(Front(s), Last(s)) = s
             /\ Len(Front(s)) = Len(s) - 1
  <2>1. PICK u \in Seq(S), e \in S : s = Append(u, e) BY <1>2, SequenceEmptyOrAppend
  <2>2. Front(s) = u /\ Last(s) = e /\ Len(s) = Len(u) + 1 BY <1>1, <2>1
  <2>3. Len(u) \in Nat BY LenProperties
  <2> QED BY <2>1, <2>2, <2>3
<1> QED BY <1>1, <1>2

\* The parts of a text; only the empty text has no base.
LEMMA TextParts ==
  ASSUME NEW t, IsText(t)
  PROVE  /\ t = [base |-> t.base, layers |-> t.layers, loose |-> t.loose]
         /\ t.base \in Base /\ t.layers \in Layers /\ t.loose \in BOOLEAN
         /\ t.base.kind = "none" <=> t = NoText
<1>1. t \in [base : Base, layers : Layers, loose : BOOLEAN]
  BY DEF IsText, Layers
<1>2. /\ t = [base |-> t.base, layers |-> t.layers, loose |-> t.loose]
      /\ t.base \in Base /\ t.layers \in Layers /\ t.loose \in BOOLEAN
  BY <1>1
<1>3. ASSUME t.base.kind = "none" PROVE t = NoText
  <2>1. t.base.arms = <<>> /\ t.layers = <<>> /\ ~t.loose BY <1>3 DEF IsText
  <2>2. t.base = [kind |-> t.base.kind, arms |-> t.base.arms] BY <1>2 DEF Base
  <2>3. t.loose = FALSE BY <1>2, <2>1
  <2>4. t = [base |-> [kind |-> "none", arms |-> <<>>], layers |-> <<>>, loose |-> FALSE]
    BY <1>2, <1>3, <2>1, <2>2, <2>3
  <2> QED BY <2>4 DEF NoText, Text
<1>4. NoText.base.kind = "none" BY DEF NoText, Text
<1> QED BY <1>2, <1>3, <1>4

\* The empty text is a text, and so is the zero price.
LEMMA EmptyTexts ==
  /\ IsText(NoText) /\ NoText.layers = <<>> /\ NoText.base.kind = "none" /\ ~NoText.loose
  /\ IsText(Text(Zero)) /\ Text(Zero) # NoText /\ Text(Zero).layers = <<>>
  /\ tryParseVisualConfig(NoText) = <<>> /\ tryParseVisualConfig(Text(Zero)) = <<>>
<1>1. <<>> \in Seq(Tier) /\ <<>> \in Layers BY DEF Layers
<1>2. [kind |-> "none", arms |-> <<>>] \in Base /\ Zero \in Base
  BY <1>1 DEF Base, Zero
<1>3. /\ NoText = [base |-> [kind |-> "none", arms |-> <<>>], layers |-> <<>>, loose |-> FALSE]
      /\ Text(Zero) = [base |-> Zero, layers |-> <<>>, loose |-> FALSE]
      /\ Zero.kind = "zero" /\ Zero.arms = <<>>
  BY DEF NoText, Text, Zero
<1>4. IsText(NoText) BY <1>1, <1>2, <1>3 DEF IsText, Layers
<1>5. IsText(Text(Zero)) BY <1>1, <1>2, <1>3 DEF IsText, Layers
<1>6. Text(Zero) # NoText BY <1>3
<1> QED BY <1>3, <1>4, <1>5, <1>6 DEF tryParseVisualConfig

\* Tiers as they are written are written the same again.
LEMMA ArmsAgain ==
  ASSUME NEW a \in Config, Len(a) = 1 \/ a[Len(a)].conds = {}
  PROVE  generateExpr(a) = Tiers(a)
<1> DEFINE n == Len(a)
<1>1. a \in Seq(Tier) /\ a # <<>> /\ n \in 1..n
  BY LenProperties, EmptySeq DEF Config
<1>2. CASE n = 1
  BY <1>1, <1>2 DEF generateExpr
<1>3. CASE n # 1
  <2>1. a[n] \in Tier /\ a[n].conds = {} BY <1>1, <1>3, ElementOfSeq
  <2>2. [a[n] EXCEPT !.conds = {}] = a[n] BY <2>1 DEF Tier
  <2>3. [a EXCEPT ![n] = a[n]] = a BY <1>1
  <2>4. generateExpr(a) = Tiers([a EXCEPT ![n] = [a[n] EXCEPT !.conds = {}]])
    BY <1>1, <1>3 DEF generateExpr
  <2> QED BY <2>2, <2>3, <2>4
<1> QED BY <1>2, <1>3

\* Tiers that are written the same are a text.
LEMMA TiersText ==
  ASSUME NEW a \in Config, generateExpr(a) = Tiers(a)
  PROVE  Based(Text(Tiers(a)))
<1>1. a \in Seq(Tier) /\ a # <<>> BY DEF Config
<1>2. /\ Text(Tiers(a)) = [base |-> Tiers(a), layers |-> <<>>, loose |-> FALSE]
      /\ Tiers(a) = [kind |-> "tiers", arms |-> a]
      /\ Tiers(a).kind = "tiers" /\ Tiers(a).arms = a
  BY DEF Text, Tiers
<1>3. Tiers(a) \in Base BY <1>1, <1>2 DEF Base
<1>4. <<>> \in Seq(Rules \ {<<>>}) OBVIOUS
<1> QED BY <1>1, <1>2, <1>3, <1>4 DEF Based, IsText

\* The form's tiers are written as a text.
LEMMA ConfigWritten ==
  ASSUME NEW c \in Config
  PROVE  Based(Text(generateExpr(c)))
<1> DEFINE n == Len(c)
<1> DEFINE e == [c[n] EXCEPT !.conds = {}]
<1> DEFINE a == [c EXCEPT ![n] = e]
<1>1. c \in Seq(Tier) /\ c # <<>> /\ n \in Nat /\ n # 0 /\ n \in 1..n
  BY LenProperties, EmptySeq DEF Config
<1>2. CASE n = 1
  <2>1. generateExpr(c) = Tiers(c) BY <1>1, <1>2 DEF generateExpr
  <2> QED BY <2>1, TiersText
<1>3. CASE n # 1
  <2>1. generateExpr(c) = Tiers(a) BY <1>1, <1>3 DEF generateExpr
  <2>2. c[n] \in Tier BY <1>1, ElementOfSeq
  <2>3. e \in Tier /\ e.conds = {}
    BY <2>2 DEF Tier
  <2> HIDE DEF e
  <2>4. a \in Seq(Tier) /\ Len(a) = n /\ a[n] = e
    <3>1. /\ a \in Seq(Tier) /\ Len(a) = Len(c)
          /\ \A j \in 1..Len(c) : a[j] = IF j = n THEN e ELSE c[j]
      <4> HIDE DEF n
      <4> QED BY <1>1, <2>3, ExceptSeq DEF n
    <3> QED BY <1>1, <3>1
  <2>5. a \in Config /\ a[Len(a)].conds = {}
    <3> HIDE DEF a
    <3>1. a # <<>> BY <1>1, <2>4, EmptySeq
    <3> QED BY <2>3, <2>4, <3>1 DEF Config
  <2> HIDE DEF a
  <2> QED BY <2>1, <2>5, ArmsAgain, TiersText
<1> QED BY <1>2, <1>3

\* Tiers that were read and written again are the same text; nothing else is read.
LEMMA BaseAgain ==
  ASSUME NEW b, IsText(b)
  PROVE  /\ Based(b) => /\ tryParseVisualConfig(b) \in Config
                        /\ Text(generateExpr(tryParseVisualConfig(b))) = b
                        /\ b # NoText /\ b # Text(Zero)
         /\ tryParseVisualConfig(b) = <<>> <=> ~Based(b)
         /\ ~Based(b) => Text(generateExpr(tryParseVisualConfig(b))) = Text(Zero)
<1>1. CASE Based(b)
  <2> DEFINE a == b.base.arms
  <2>1. /\ b = [base |-> b.base, layers |-> <<>>, loose |-> b.loose] /\ b.base \in Base
        /\ a # <<>> /\ generateExpr(a) = b.base /\ b.base.kind = "tiers"
    BY <1>1, TextParts DEF Based, IsText
  <2>2. b.loose = FALSE BY <1>1, TextParts DEF Based, IsText
  <2>3. a \in Config BY <2>1 DEF Base, Config
  <2>4. tryParseVisualConfig(b) = a BY <1>1 DEF tryParseVisualConfig, Based
  <2>5. Text(generateExpr(a)) = b BY <2>1, <2>2 DEF Text
  <2>6. NoText.base.kind = "none" /\ Text(Zero).base.kind = "zero"
    BY DEF NoText, Text, Zero
  <2> HIDE DEF a
  <2> QED BY <1>1, <2>1, <2>3, <2>4, <2>5, <2>6
<1>2. CASE ~Based(b)
  <2>1. tryParseVisualConfig(b) = <<>> BY <1>2 DEF tryParseVisualConfig, Based
  <2>2. generateExpr(<<>>) = Zero BY DEF generateExpr
  <2> QED BY <1>2, <2>1, <2>2
<1> QED BY <1>1, <1>2

\* A rule is put around a text.
LEMMA CombineText ==
  ASSUME NEW b, IsText(b), NEW r \in Rules
  PROVE  /\ IsText(combineBillingExpr(b, r))
         /\ r = <<>> => combineBillingExpr(b, r) = b
         /\ b = NoText => combineBillingExpr(b, r) = NoText
         /\ b # NoText => combineBillingExpr(b, r) # NoText
         /\ b # NoText /\ r # <<>> => combineBillingExpr(b, r)
              = [base |-> b.base, layers |-> Append(b.layers, r), loose |-> b.loose]
<1>0. /\ b = [base |-> b.base, layers |-> b.layers, loose |-> b.loose]
      /\ b.base \in Base /\ b.layers \in Layers /\ b.loose \in BOOLEAN
      /\ b.base.kind = "none" <=> b = NoText
  BY TextParts
<1>1. CASE b = NoText
  BY <1>0, <1>1 DEF combineBillingExpr
<1>2. CASE b # NoText /\ r = <<>>
  BY <1>0, <1>2 DEF combineBillingExpr
<1>3. CASE b # NoText /\ r # <<>>
  <2> DEFINE t == [base |-> b.base, layers |-> Append(b.layers, r), loose |-> b.loose]
  <2>1. combineBillingExpr(b, r) = t
    BY <1>0, <1>3 DEF combineBillingExpr
  <2>2. Append(b.layers, r) \in Seq(Rules \ {<<>>}) /\ Append(b.layers, r) # <<>>
    <3>1. r \in Rules \ {<<>>} BY <1>3
    <3> QED BY <1>0, <3>1, AppendProperties DEF Layers
  <2>3. t.base = b.base /\ t.layers = Append(b.layers, r) /\ t.loose = b.loose
    OBVIOUS
  <2>4. t \in [base : Base, layers : Seq(Rules \ {<<>>}), loose : BOOLEAN]
    BY <1>0, <2>2
  <2>5. IsText(t)
    <3> HIDE DEF t
    <3> QED BY <1>0, <1>3, <2>2, <2>3, <2>4 DEF IsText
  <2>6. t # NoText BY <1>0, <1>3, <2>3, <2>5, TextParts
  <2> QED BY <1>3, <2>1, <2>5, <2>6
<1> QED BY <1>1, <1>2, <1>3

\* Splitting a text gives a text and a rule that can be read. Combining undoes
\* it, unless parentheses were put in.
LEMMA SplitText ==
  ASSUME NEW t, IsText(t)
  PROVE  LET parts == splitBillingExpr(t) IN
         /\ IsText(parts.bill) /\ parts.rule \in Rules /\ ParsesRule(parts.rule)
         /\ parts.rule = <<>> => parts.bill = t
         /\ parts.bill = NoText <=> t = NoText
         /\ t = NoText => parts.rule = <<>>
         /\ t.layers = <<>> => parts.rule = <<>>
         /\ ~Parenthesised(t) => combineBillingExpr(parts.bill, parts.rule) = t
<1>0. /\ t = [base |-> t.base, layers |-> t.layers, loose |-> t.loose]
      /\ t.base \in Base /\ t.layers \in Layers /\ t.loose \in BOOLEAN
      /\ t.base.kind = "none" <=> t = NoText
      /\ NoText.layers = <<>>
  BY TextParts, EmptyTexts
<1>1. CASE ~(t.layers # <<>> /\ ParsesRule(Last(t.layers)))
  <2>1. splitBillingExpr(t) = [bill |-> t, rule |-> <<>>] BY <1>1 DEF splitBillingExpr
  <2>2. combineBillingExpr(t, <<>>) = t BY RuleUnread, CombineText
  <2> QED BY <2>1, <2>2, RuleUnread
<1>2. CASE t.layers # <<>> /\ ParsesRule(Last(t.layers))
  <2> DEFINE r == Last(t.layers)
  <2> DEFINE ls == Front(t.layers)
  <2> DEFINE lo == t.loose /\ Len(t.layers) > 1
  <2> DEFINE b == [base |-> t.base, layers |-> ls, loose |-> lo]
  <2>1. splitBillingExpr(t) = [bill |-> b, rule |-> r] BY <1>2 DEF splitBillingExpr
  <2>2. /\ r \in Rules \ {<<>>} /\ ls \in Seq(Rules \ {<<>>}) /\ Append(ls, r) = t.layers
        /\ Len(ls) = Len(t.layers) - 1
    BY <1>0, <1>2, FrontLast DEF Layers
  <2>3. lo => ls # <<>>
    <3>1. Len(<<>>) = 0 OBVIOUS
    <3>2. Len(t.layers) \in Nat BY <1>0, LenProperties DEF Layers
    <3> HIDE DEF ls
    <3> QED BY <2>2, <3>1, <3>2
  <2>4. t # NoText BY <1>0, <1>2
  <2>5. b.base = t.base /\ b.layers = ls /\ b.loose = lo OBVIOUS
  <2>6. b \in [base : Base, layers : Seq(Rules \ {<<>>}), loose : BOOLEAN]
    <3> HIDE DEF ls
    <3> QED BY <1>0, <2>2
  <2>7. IsText(b)
    <3>1. lo => t.loose OBVIOUS
    <3> HIDE DEF b, lo, ls
    <3> QED BY <1>0, <2>3, <2>4, <2>5, <2>6, <3>1 DEF IsText
  <2>8. b # NoText BY <1>0, <2>4, <2>5, <2>7, TextParts
  <2>9. ASSUME ~Parenthesised(t) PROVE combineBillingExpr(b, r) = t
    <3>1. splitBillingExpr(t).bill = b BY <2>1
    <3>2. ~t.loose \/ lo BY <2>5, <2>9, <3>1 DEF Parenthesised
    <3>3. lo = t.loose BY <1>0, <3>2
    <3>4. combineBillingExpr(b, r) = [base |-> t.base, layers |-> Append(ls, r), loose |-> lo]
      <4> HIDE DEF b, r, ls, lo
      <4> QED BY <2>2, <2>5, <2>7, <2>8, CombineText
    <3> HIDE DEF ls, lo, r, b
    <3> QED BY <1>0, <2>2, <3>3, <3>4
  <2> HIDE DEF b
  <2> QED BY <1>2, <2>1, <2>2, <2>4, <2>7, <2>8, <2>9
<1> QED BY <1>1, <1>2

\* Splitting undoes combining with a rule that can be read.
LEMMA SplitCombined ==
  ASSUME NEW b, IsText(b), b # NoText, NEW r \in Rules, ParsesRule(r),
         r # <<>> \/ b.layers = <<>>
  PROVE  /\ splitBillingExpr(combineBillingExpr(b, r)).bill = b
         /\ splitBillingExpr(combineBillingExpr(b, r)).rule = r
<1>0. /\ b = [base |-> b.base, layers |-> b.layers, loose |-> b.loose]
      /\ b.base \in Base /\ b.layers \in Layers /\ b.loose \in BOOLEAN
  BY TextParts
<1>1. CASE r = <<>>
  <2>1. combineBillingExpr(b, r) = b BY <1>1, CombineText
  <2> QED BY <1>1, <2>1, SplitText
<1>2. CASE r # <<>>
  <2> DEFINE ls == Append(b.layers, r)
  <2> DEFINE t == [base |-> b.base, layers |-> ls, loose |-> b.loose]
  <2>1. combineBillingExpr(b, r) = t BY <1>2, CombineText
  <2>2. /\ ls # <<>> /\ Front(ls) = b.layers /\ Last(ls) = r
        /\ Len(ls) = Len(b.layers) + 1 /\ Len(b.layers) \in Nat
    <3> DEFINE S == Rules \ {<<>>}
    <3>1. r \in S /\ b.layers \in Seq(S) BY <1>0, <1>2 DEF Layers
    <3> HIDE DEF S
    <3>2. Len(b.layers) \in Nat BY <3>1, LenProperties
    <3> DEFINE u == b.layers
    <3>3. u \in Seq(S) BY <3>1
    <3> HIDE DEF u
    <3>4. /\ Append(u, r) # <<>> /\ Front(Append(u, r)) = u /\ Last(Append(u, r)) = r
          /\ Len(Append(u, r)) = Len(u) + 1
      BY <3>1, <3>3, AppendParts
    <3> QED BY <3>2, <3>4 DEF u
  <2>3. (b.loose /\ Len(ls) > 1) = b.loose
    <3>1. CASE ~b.loose BY <1>0, <3>1
    <3>2. CASE b.loose
      <4>1. b.layers # <<>> BY <3>2 DEF IsText
      <4>2. Len(b.layers) # 0 BY <1>0, <4>1, EmptySeq DEF Layers
      <4> HIDE DEF ls
      <4>3. Len(ls) > 1 BY <2>2, <4>2
      <4> QED BY <1>0, <3>2, <4>3
    <3> QED BY <3>1, <3>2
  <2> HIDE DEF ls
  <2>4. splitBillingExpr(t) = [bill |-> [base |-> b.base, layers |-> b.layers,
                                         loose |-> b.loose /\ Len(ls) > 1], rule |-> r]
    BY <2>2 DEF splitBillingExpr
  <2>5. splitBillingExpr(t) = [bill |-> b, rule |-> r]
    BY <1>0, <2>3, <2>4
  <2> QED BY <2>1, <2>5
<1> QED BY <1>1, <1>2

\* The price the sheet starts with replaces the empty text only.
LEMMA OrDefaultLaws ==
  /\ DefaultConfig \in Config /\ Text(generateExpr(DefaultConfig)) = OrDefault(NoText)
  /\ Based(OrDefault(NoText))
  /\ \A t : t # NoText => OrDefault(t) = t
  /\ \A t : OrDefault(t) # NoText /\ OrDefault(OrDefault(t)) = OrDefault(t)
  /\ \A t : IsText(t) => IsText(OrDefault(t))
<1>1. [conds |-> {}, price |-> 0] \in Tier
  BY DEF Tier
<1>2. DefaultConfig \in Seq(Tier) /\ Len(DefaultConfig) = 1 /\ DefaultConfig # <<>>
  BY <1>1 DEF DefaultConfig
<1>3. DefaultConfig \in Config BY <1>2 DEF Config
<1>4. generateExpr(DefaultConfig) = Tiers(DefaultConfig) BY <1>2, <1>3, ArmsAgain
<1>5. Based(Text(Tiers(DefaultConfig))) BY <1>3, <1>4, TiersText
<1>6. Text(Tiers(DefaultConfig)) # NoText /\ IsText(Text(Tiers(DefaultConfig)))
  BY <1>5, BaseAgain DEF Based
<1> QED BY <1>3, <1>4, <1>5, <1>6 DEF OrDefault

-----------------------------------------------------------------------------
(* The editor                                                              *)

\* The rule the effects are going to write, as effectiveExpr is the base.
effectiveRule == IF mode = "visual" THEN buildRequestRuleExpr(groups) ELSE rule

Forms ==
  /\ mode \in {"visual", "raw"}
  /\ config \in Seq(Tier) /\ groups \in Seq(Group)
  /\ mode = "visual" /\ due # "mount" => config \in Config
  /\ IsText(raw) /\ IsText(meant) /\ IsText(bill) /\ rule \in Rules
  /\ isNew \in BOOLEAN /\ fresh \in BOOLEAN /\ lost \subseteq Losses
  /\ due \in {"mount", "rename", "none"}

\* The form is what was read from the sheet.
OnMount ==
  due = "mount" => /\ mode = "visual" /\ fresh /\ seen = <<bill, rule>> /\ bill # NoText
                   /\ config = tryParseVisualConfig(bill)
                   /\ groups = tryParseRequestRuleExpr(rule)
                   /\ lost = {} => MountLosses(bill, rule) = {}

\* A name is edited at rest.
OnRename ==
  due = "rename" => seen = <<bill, rule>> /\ bill = effectiveExpr /\ rule = effectiveRule

\* The sheet's rule r beside the text t: it is the text's rule, but for losses.
Fits(r, t, l) ==
  \/ r = splitBillingExpr(t).rule
  \/ l \cap {"twice", "stacked"} # {}
  \/ t = NoText /\ l # {}

\* In the text mode the sheet has the text's rule.
RuleOfText == mode = "raw" /\ ~Rereads => Fits(rule, raw, lost)

\* A rule that cannot be read is in the text mode only when it came from the form.
UnreadInText == mode = "raw" /\ ~ParsesRule(rule) => "twice" \in lost

\* The first edit of the form, if nothing of it is lost, can be read back.
FirstEdit ==
  /\ mode = "visual" /\ due # "mount" /\ fresh /\ lost = {}
  /\ bill # effectiveExpr \/ rule # effectiveRule
  => ParsesRule(effectiveRule)

\* When the sheet is re-read, its rule fits the text that is made of it; and if
\* nothing is lost, the sheet already has what the form or the text says.
RereadsTheSame ==
  Rereads /\ due # "mount" =>
    /\ ~Based(bill) => /\ ParsesRule(effectiveRule) \/ "twice" \in lost
                       /\ Fits(effectiveRule, combineBillingExpr(bill, rule), lost)
    /\ lost = {} => bill = effectiveExpr /\ rule = effectiveRule /\ ParsesRule(rule)

\* What the effects are going to write is what was meant.
MeantIsWritten ==
  lost = {} => OrDefault(meant) = OrDefault(combineBillingExpr(effectiveExpr, effectiveRule))

EditorInv ==
  /\ Forms /\ OnMount /\ OnRename /\ RuleOfText /\ UnreadInText
  /\ FirstEdit /\ RereadsTheSame /\ MeantIsWritten

\* A reason is given exactly when its condition holds.
LEMMA WhenLaws ==
  ASSUME NEW c, NEW s
  PROVE  /\ c => When(c, s) = s
         /\ When(c, s) \subseteq s
         /\ s # {} => (When(c, s) = {} <=> ~c)
BY DEF When

\* What is lost by a mount.
LEMMA MountLossesLaws ==
  ASSUME NEW b, IsText(b), NEW r \in Rules
  PROVE  /\ MountLosses(b, r) \subseteq Losses
         /\ MountLosses(b, r) = {}
              => Text(generateExpr(tryParseVisualConfig(b))) = b /\ ParsesRule(r)
<1>1. MountLosses(b, r) \subseteq {"unread"}
  BY DEF MountLosses, When
<1>2. MountLosses(b, r) = {} =>
        /\ Text(generateExpr(tryParseVisualConfig(b))) = b
        /\ buildRequestRuleExpr(tryParseRequestRuleExpr(r)) = r
  BY DEF MountLosses, When
<1> QED BY <1>1, <1>2, RuleRead DEF Losses

\* What a first edit of base and rule loses.
LEMMA RevertLossesLaws ==
  ASSUME NEW t
  PROVE  LET parts == splitBillingExpr(t)
             reverts == fresh /\ bill # parts.bill /\ rule # parts.rule
         IN  /\ RevertLosses(t) \subseteq Losses
             /\ reverts <=> RevertLosses(t) # {}
             /\ reverts /\ bill.layers # <<>> => "stacked" \in RevertLosses(t)
BY DEF RevertLosses, When, Losses

\* What the effects are going to write is again a text and a rule.
LEMMA EffectiveFacts ==
  ASSUME Forms
  PROVE  /\ IsText(effectiveExpr) /\ effectiveRule \in Rules
         /\ mode = "visual" /\ due # "mount" => Based(effectiveExpr)
         /\ effectiveExpr = NoText => mode = "raw" /\ raw = NoText
<1>1. CASE mode = "visual"
  <2>1. /\ effectiveExpr = Text(generateExpr(config))
        /\ effectiveRule = buildRequestRuleExpr(groups)
    BY <1>1 DEF effectiveExpr, effectiveRule
  <2>2. config \in Config => Based(effectiveExpr) BY <2>1, ConfigWritten
  <2>3. config \notin Config => effectiveExpr = Text(Zero)
    BY <2>1 DEF Forms, Config, generateExpr
  <2>4. IsText(effectiveExpr) /\ effectiveExpr # NoText
    BY <2>2, <2>3, EmptyTexts, BaseAgain DEF Based
  <2>5. effectiveRule \in Rules BY <2>1, RuleOfGroups DEF Forms
  <2> QED BY <1>1, <2>2, <2>4, <2>5 DEF Forms
<1>2. CASE mode = "raw"
  <2>1. effectiveExpr = splitBillingExpr(raw).bill /\ effectiveRule = rule
    BY <1>2 DEF effectiveExpr, effectiveRule
  <2> QED BY <1>2, <2>1, SplitText DEF Forms
<1> QED BY <1>1, <1>2 DEF Forms

\* At rest the sheet has what the form or the text says.
LEMMA SettledFacts ==
  ASSUME Settled
  PROVE  /\ bill = effectiveExpr /\ rule = effectiveRule /\ due = "none"
         /\ seen = <<bill, rule>> /\ ~Rereads
BY DEF Settled, effectiveRule, Rereads

\* An empty text has no rule, unless something is lost.
LEMMA EmptyHasNoRule ==
  ASSUME EditorInv, ~Rereads, lost = {}, effectiveExpr = NoText
  PROVE  effectiveRule = <<>> /\ rule = <<>>
<1>1. mode = "raw" /\ raw = NoText
  BY EffectiveFacts DEF EditorInv
<1>2. rule = <<>>
  BY <1>1, EmptyTexts, SplitText DEF EditorInv, RuleOfText, Fits
<1> QED BY <1>1, <1>2 DEF effectiveRule

\* A rule that can be read fits the text it is put around.
LEMMA FitsCombined ==
  ASSUME NEW b, IsText(b), NEW r \in Rules, ParsesRule(r), NEW l,
         b = NoText => l # {} \/ r = <<>>,
         r = <<>> => splitBillingExpr(b).rule = <<>> \/ "stacked" \in l
  PROVE  Fits(r, combineBillingExpr(b, r), l)
<1>1. CASE r = <<>>
  <2>1. combineBillingExpr(b, r) = b BY <1>1, CombineText
  <2> QED BY <1>1, <2>1 DEF Fits
<1>2. CASE b = NoText /\ r # <<>>
  <2>1. combineBillingExpr(b, r) = NoText BY <1>2, CombineText
  <2> QED BY <1>2, <2>1 DEF Fits
<1>3. CASE b # NoText /\ r # <<>>
  BY <1>3, SplitCombined DEF Fits
<1> QED BY <1>1, <1>2, <1>3

\* The parts of a text fit together.
LEMMA FitsSplit ==
  ASSUME NEW t, IsText(t), NEW r, NEW l, Fits(r, t, l)
  PROVE  LET b == splitBillingExpr(t).bill IN Fits(r, combineBillingExpr(b, r), l)
<1> DEFINE b == splitBillingExpr(t).bill
<1> DEFINE s == splitBillingExpr(t).rule
<1>1. /\ IsText(b) /\ s \in Rules /\ ParsesRule(s)
      /\ s = <<>> => b = t
      /\ b = NoText <=> t = NoText
      /\ t = NoText => s = <<>>
  BY SplitText
<1>2. CASE r = s
  <2>1. s = <<>> => splitBillingExpr(b).rule = <<>> BY <1>1
  <2> HIDE DEF b, s
  <2>2. Fits(s, combineBillingExpr(b, s), l) BY <1>1, <2>1, FitsCombined
  <2> QED BY <1>2, <2>2 DEF b, s
<1>3. CASE l \cap {"twice", "stacked"} # {}
  BY <1>3 DEF Fits
<1>4. CASE t = NoText /\ l # {}
  <2>1. b = NoText BY <1>1, <1>4
  <2>2. NoText.base.kind = "none" BY EmptyTexts
  <2>3. combineBillingExpr(b, r) = NoText BY <2>1, <2>2 DEF combineBillingExpr
  <2> QED BY <1>4, <2>3 DEF Fits
<1> QED BY <1>2, <1>3, <1>4 DEF Fits

-----------------------------------------------------------------------------

\* An editor mounted on a text and a rule, with what is meant by them.
LEMMA MountInd ==
  ASSUME NEW b, IsText(b), b # NoText, NEW r \in Rules, Mount(b, r),
         IsText(meant'), isNew' \in BOOLEAN, lost' \subseteq Losses,
         lost' = {} => /\ MountLosses(b, r) = {}
                       /\ OrDefault(meant') = OrDefault(combineBillingExpr(b, r))
  PROVE  EditorInv'
<1>1. /\ bill' = b /\ rule' = r /\ mode' = "visual"
      /\ config' = tryParseVisualConfig(b) /\ raw' = combineBillingExpr(b, r)
      /\ groups' = tryParseRequestRuleExpr(r)
      /\ fresh' = TRUE /\ due' = "mount" /\ seen' = <<b, r>>
  BY DEF Mount
<1>2. config' \in Seq(Tier) /\ groups' \in Seq(Group) /\ IsText(raw')
  <2>1. tryParseVisualConfig(b) \in Seq(Tier)
    <3>1. tryParseVisualConfig(b) \in Config \/ tryParseVisualConfig(b) = <<>> BY BaseAgain
    <3>2. <<>> \in Seq(Tier) OBVIOUS
    <3> QED BY <3>1, <3>2 DEF Config
  <2>2. tryParseRequestRuleExpr(r) \in Seq(Group) BY RuleRead
  <2>3. IsText(combineBillingExpr(b, r)) BY CombineText
  <2> QED BY <1>1, <2>1, <2>2, <2>3
<1>3. Forms'
  BY <1>1, <1>2 DEF Forms
<1>4. OnMount' BY <1>1 DEF OnMount
<1>5. MeantIsWritten'
  <2> SUFFICES ASSUME lost' = {}
               PROVE  OrDefault(meant')
                        = OrDefault(combineBillingExpr(effectiveExpr', effectiveRule'))
    BY DEF MeantIsWritten
  <2>1. /\ effectiveExpr' = Text(generateExpr(tryParseVisualConfig(b)))
        /\ effectiveRule' = buildRequestRuleExpr(tryParseRequestRuleExpr(r))
    BY <1>1 DEF effectiveExpr, effectiveRule
  <2>2. effectiveExpr' = b /\ effectiveRule' = r
    BY <2>1, MountLossesLaws, RuleRead
  <2> QED BY <2>2
<1>6. OnRename' /\ RuleOfText' /\ UnreadInText' /\ FirstEdit' /\ RereadsTheSame'
  BY <1>1 DEF OnRename, RuleOfText, UnreadInText, FirstEdit, RereadsTheSame
<1> QED BY <1>3, <1>4, <1>5, <1>6 DEF EditorInv

\* The sheet is opened with the text that is meant.
LEMMA InitEditorInv == Init => EditorInv
<1> SUFFICES ASSUME Init PROVE EditorInv OBVIOUS
<1>1. PICK text \in Stored :
        LET parts == splitBillingExpr(OrDefault(text))
        IN  /\ isNew = (text = NoText)
            /\ bill = parts.bill /\ rule = parts.rule
            /\ mode = "visual"
            /\ config = tryParseVisualConfig(bill)
            /\ raw = combineBillingExpr(bill, rule)
            /\ groups = tryParseRequestRuleExpr(rule)
            /\ fresh = TRUE /\ due = "mount" /\ seen = <<bill, rule>>
            /\ meant = OrDefault(text)
            /\ lost = When(Parenthesised(meant), {"parentheses"}) \cup MountLosses(bill, rule)
  BY DEF Init
<1> DEFINE t == OrDefault(text)
<1>2. IsText(t) /\ t # NoText
  BY PricingEditorAssumption, OrDefaultLaws DEF PricingEditorAssumption
<1>3. /\ IsText(bill) /\ bill # NoText /\ rule \in Rules
      /\ ~Parenthesised(t) => combineBillingExpr(bill, rule) = t
  <2> HIDE DEF t
  <2> QED BY <1>1, <1>2, SplitText DEF t
<1> HIDE DEF t
<1>4. /\ lost \subseteq Losses
      /\ lost = {} => ~Parenthesised(t) /\ MountLosses(bill, rule) = {}
  <2>1. MountLosses(bill, rule) \subseteq Losses BY <1>3, MountLossesLaws
  <2>2. lost = When(Parenthesised(t), {"parentheses"}) \cup MountLosses(bill, rule)
    BY <1>1 DEF t
  <2>3. "parentheses" \in Losses BY DEF Losses
  <2>4. /\ When(Parenthesised(t), {"parentheses"}) \subseteq Losses
        /\ When(Parenthesised(t), {"parentheses"}) = {} => ~Parenthesised(t)
    BY <2>3 DEF When
  <2> QED BY <2>1, <2>2, <2>4
<1>5. config \in Seq(Tier) /\ groups \in Seq(Group) /\ IsText(raw)
  <2>1. tryParseVisualConfig(bill) \in Seq(Tier)
    <3>1. tryParseVisualConfig(bill) \in Config \/ tryParseVisualConfig(bill) = <<>>
      BY <1>3, BaseAgain
    <3>2. <<>> \in Seq(Tier) OBVIOUS
    <3> QED BY <3>1, <3>2 DEF Config
  <2>2. tryParseRequestRuleExpr(rule) \in Seq(Group) BY <1>3, RuleRead
  <2>3. IsText(combineBillingExpr(bill, rule)) BY <1>3, CombineText
  <2> QED BY <1>1, <2>1, <2>2, <2>3
<1>6. /\ mode = "visual" /\ due = "mount" /\ meant = t /\ isNew \in BOOLEAN /\ fresh = TRUE
      /\ seen = <<bill, rule>>
      /\ config = tryParseVisualConfig(bill) /\ groups = tryParseRequestRuleExpr(rule)
  BY <1>1 DEF t
<1>7. Forms
  BY <1>2, <1>3, <1>4, <1>5, <1>6 DEF Forms
<1>8. OnMount BY <1>3, <1>4, <1>6 DEF OnMount
<1>9. MeantIsWritten
  <2> SUFFICES ASSUME lost = {}
               PROVE  OrDefault(meant)
                        = OrDefault(combineBillingExpr(effectiveExpr, effectiveRule))
    BY DEF MeantIsWritten
  <2>1. effectiveExpr = bill /\ effectiveRule = rule
    <3>1. /\ effectiveExpr = Text(generateExpr(tryParseVisualConfig(bill)))
          /\ effectiveRule = buildRequestRuleExpr(tryParseRequestRuleExpr(rule))
      BY <1>6 DEF effectiveExpr, effectiveRule
    <3> QED BY <1>3, <1>4, <3>1, MountLossesLaws, RuleRead
  <2> QED BY <1>3, <1>4, <1>6, <2>1
<1>10. OnRename /\ RuleOfText /\ UnreadInText /\ FirstEdit /\ RereadsTheSame
  BY <1>6 DEF OnRename, RuleOfText, UnreadInText, FirstEdit, RereadsTheSame
<1> QED BY <1>7, <1>8, <1>9, <1>10 DEF EditorInv

\* Leaving the tab and coming back.
LEMMA SwitchTabInd ==
  ASSUME EditorInv, SwitchTab
  PROVE  EditorInv'
<1> DEFINE b == OrDefault(bill)
<1>1. /\ Settled /\ Mount(b, rule) /\ meant' = OrDefault(meant) /\ isNew' = isNew
      /\ lost' = lost \cup MountLosses(b, rule)
  BY DEF SwitchTab, Mount
<1>2. bill = effectiveExpr /\ rule = effectiveRule /\ ~Rereads
  BY <1>1, SettledFacts
<1>3. IsText(b) /\ b # NoText /\ rule \in Rules /\ IsText(meant') /\ IsText(bill)
  BY <1>1, OrDefaultLaws DEF EditorInv, Forms
<1>4. ASSUME lost = {} PROVE OrDefault(meant') = OrDefault(combineBillingExpr(b, rule))
  <2>1. OrDefault(meant') = OrDefault(combineBillingExpr(bill, rule))
    BY <1>1, <1>2, <1>4, OrDefaultLaws DEF EditorInv, MeantIsWritten
  <2>2. CASE bill = NoText
    <3>1. rule = <<>> BY <1>2, <1>4, <2>2, EmptyHasNoRule
    <3>2. combineBillingExpr(bill, rule) = bill /\ combineBillingExpr(b, rule) = b
      BY <1>3, <3>1, CombineText
    <3> QED BY <2>1, <3>2, OrDefaultLaws
  <2>3. CASE bill # NoText
    <3>1. b = bill BY <2>3, OrDefaultLaws
    <3> QED BY <2>1, <3>1
  <2> QED BY <2>2, <2>3
<1>5. isNew' \in BOOLEAN BY <1>1 DEF EditorInv, Forms
<1> HIDE DEF b
<1>6. lost' \subseteq Losses /\ (lost' = {} => lost = {} /\ MountLosses(b, rule) = {})
  BY <1>1, <1>3, MountLossesLaws DEF EditorInv, Forms
<1> QED BY <1>1, <1>3, <1>4, <1>5, <1>6, MountInd

\* Saving, and opening the sheet with what was saved.
LEMMA SaveInd ==
  ASSUME EditorInv, Save
  PROVE  EditorInv'
<1> DEFINE text == combineBillingExpr(bill, rule)
<1> DEFINE t == OrDefault(text)
<1> DEFINE b == splitBillingExpr(t).bill
<1> DEFINE r == splitBillingExpr(t).rule
<1>1. /\ Mount(b, r) /\ meant' = t /\ isNew' = (text = NoText)
      /\ lost' = When(Parenthesised(t), {"parentheses"}) \cup MountLosses(b, r)
  BY DEF Save, Mount
<1>2. IsText(t) /\ t # NoText
  BY CombineText, OrDefaultLaws DEF EditorInv, Forms
<1>3. /\ IsText(b) /\ b # NoText /\ r \in Rules
      /\ ~Parenthesised(t) => combineBillingExpr(b, r) = t
  <2> HIDE DEF t
  <2> QED BY <1>2, SplitText
<1>4. isNew' \in BOOLEAN BY <1>1
<1> HIDE DEF b, r, t
<1>5. /\ lost' \subseteq Losses
      /\ lost' = {} => ~Parenthesised(t) /\ MountLosses(b, r) = {}
  <2>1. MountLosses(b, r) \subseteq Losses BY <1>3, MountLossesLaws
  <2>2. "parentheses" \in Losses BY DEF Losses
  <2>3. /\ When(Parenthesised(t), {"parentheses"}) \subseteq Losses
        /\ When(Parenthesised(t), {"parentheses"}) = {} => ~Parenthesised(t)
    BY <2>2 DEF When
  <2> QED BY <1>1, <2>1, <2>3
<1>6. IsText(meant') BY <1>1, <1>2
<1>7. lost' = {} => OrDefault(meant') = OrDefault(combineBillingExpr(b, r))
  BY <1>1, <1>3, <1>5
<1> QED BY <1>1, <1>3, <1>4, <1>5, <1>6, <1>7, MountInd

\* A new name makes the next change be re-read, and changes nothing by itself.
LEMMA RenameInd ==
  ASSUME EditorInv, Rename
  PROVE  EditorInv'
<1>1. /\ due' = "rename" /\ Settled
      /\ bill' = bill /\ rule' = rule /\ mode' = mode /\ config' = config
      /\ raw' = raw /\ groups' = groups /\ fresh' = fresh /\ seen' = seen
      /\ isNew' = isNew /\ meant' = meant /\ lost' = lost
  BY DEF Rename, sheet, form
<1>2. bill = effectiveExpr /\ rule = effectiveRule /\ due = "none"
      /\ seen = <<bill, rule>> /\ ~Rereads
  BY <1>1, SettledFacts
<1>3. effectiveExpr' = effectiveExpr /\ effectiveRule' = effectiveRule
  BY <1>1 DEF effectiveExpr, effectiveRule
<1>4. ~Rereads'
  BY <1>1, <1>2 DEF Rereads
<1>5. Forms'
  BY <1>1, <1>2 DEF EditorInv, Forms
<1>6. RuleOfText' /\ UnreadInText' /\ OnMount' /\ OnRename'
  BY <1>1, <1>2, <1>3 DEF EditorInv, RuleOfText, UnreadInText, OnMount, OnRename
<1>7. MeantIsWritten' /\ RereadsTheSame' /\ FirstEdit'
  BY <1>1, <1>2, <1>3, <1>4 DEF EditorInv, MeantIsWritten, RereadsTheSame, FirstEdit
<1> QED BY <1>5, <1>6, <1>7 DEF EditorInv

\* The effects, when none re-reads the sheet: the sheet gets what the form or
\* the text says.
LEMMA WriteInd ==
  ASSUME EditorInv, Effects, ~Rereads
  PROVE  EditorInv'
<1>1. /\ mode' = mode /\ config' = config /\ raw' = raw /\ groups' = groups
      /\ bill' = effectiveExpr /\ rule' = effectiveRule /\ seen' = <<bill, rule>>
      /\ due' = "none" /\ isNew' = isNew /\ meant' = meant /\ lost' = lost
      /\ fresh' = (due # "none" \/ fresh)
  BY DEF Effects, form, effectiveRule
<1>2. effectiveExpr' = effectiveExpr /\ effectiveRule' = effectiveRule
  BY <1>1 DEF effectiveExpr, effectiveRule
<1>3. mode = "raw" => rule' = rule
  BY <1>1 DEF effectiveRule
<1>4. due # "mount"
  BY DEF EditorInv, OnMount, Rereads
<1>5. Forms'
  BY <1>1, <1>4, EffectiveFacts DEF EditorInv, Forms
<1>6. RuleOfText' /\ UnreadInText'
  BY <1>1, <1>3 DEF EditorInv, RuleOfText, UnreadInText
<1>7. MeantIsWritten' /\ FirstEdit' /\ OnMount' /\ OnRename'
  BY <1>1, <1>2 DEF EditorInv, MeantIsWritten, FirstEdit, OnMount, OnRename
<1>8. RereadsTheSame'
  <2> SUFFICES ASSUME Rereads'
        PROVE  /\ ~Based(bill') => /\ ParsesRule(effectiveRule') \/ "twice" \in lost'
                                   /\ Fits(effectiveRule', combineBillingExpr(bill', rule'), lost')
               /\ lost' = {} => /\ bill' = effectiveExpr' /\ rule' = effectiveRule'
                                /\ ParsesRule(rule')
    BY DEF RereadsTheSame
  <2>1. fresh' /\ <<bill, rule>> # <<effectiveExpr, effectiveRule>>
    BY <1>1 DEF Rereads
  <2>2. due = "none" /\ fresh
    BY <1>1, <1>4, <2>1 DEF EditorInv, OnRename, Forms
  <2>3. CASE mode = "visual"
    <3>1. Based(effectiveExpr) BY <1>4, <2>3, EffectiveFacts DEF EditorInv
    <3>2. lost = {} => ParsesRule(effectiveRule)
      BY <1>4, <2>1, <2>2, <2>3 DEF EditorInv, FirstEdit
    <3> QED BY <1>1, <1>2, <3>1, <3>2
  <2>4. CASE mode = "raw"
    <3>1. effectiveExpr = splitBillingExpr(raw).bill /\ effectiveRule = rule
      BY <2>4 DEF effectiveExpr, effectiveRule
    <3>2. ParsesRule(rule) \/ "twice" \in lost
      BY <2>4 DEF EditorInv, UnreadInText
    <3>3. Fits(rule, raw, lost) /\ IsText(raw)
      BY <2>4 DEF EditorInv, RuleOfText, Forms
    <3>4. Fits(rule, combineBillingExpr(splitBillingExpr(raw).bill, rule), lost)
      BY <3>3, FitsSplit
    <3> QED BY <1>1, <1>2, <3>1, <3>2, <3>4
  <2> QED BY <2>3, <2>4 DEF EditorInv, Forms
<1> QED BY <1>5, <1>6, <1>7, <1>8 DEF EditorInv

\* What the form or the text shows when the sheet was re-read.
LEMMA RereadFacts ==
  ASSUME Forms, Reread
  PROVE  /\ config' \in Seq(Tier) /\ groups' = tryParseRequestRuleExpr(rule)
         /\ groups' \in Seq(Group)
         /\ raw' = combineBillingExpr(bill, rule) /\ IsText(raw')
         /\ Based(bill) => /\ mode' = "visual" /\ config' \in Config
                           /\ Text(generateExpr(config')) = bill
         /\ ~Based(bill) /\ bill # NoText => mode' = "raw"
         /\ bill = NoText => mode' = mode /\ raw' = NoText /\ config' \in Config
<1>1. raw' = combineBillingExpr(bill, rule) /\ groups' = tryParseRequestRuleExpr(rule)
  BY DEF Reread
<1>2. IsText(bill) /\ rule \in Rules BY DEF Forms
<1>3. groups' \in Seq(Group) /\ IsText(raw')
  <2>1. tryParseRequestRuleExpr(rule) \in Seq(Group) BY <1>2, RuleRead
  <2>2. IsText(combineBillingExpr(bill, rule)) BY <1>2, CombineText
  <2> QED BY <1>1, <2>1, <2>2
<1>4. CASE Based(bill)
  <2>1. tryParseVisualConfig(bill) # <<>> /\ bill # NoText
    BY <1>2, <1>4, BaseAgain
  <2>2. config' = tryParseVisualConfig(bill) /\ mode' = "visual"
    BY <2>1 DEF Reread
  <2> QED BY <1>1, <1>2, <1>3, <1>4, <2>1, <2>2, BaseAgain DEF Config
<1>5. CASE ~Based(bill) /\ bill # NoText
  <2>1. tryParseVisualConfig(bill) = <<>> BY <1>2, <1>5, BaseAgain
  <2>2. config' = <<>> /\ mode' = "raw" BY <1>5, <2>1 DEF Reread
  <2> QED BY <1>1, <1>3, <1>5, <2>2
<1>6. CASE bill = NoText
  <2>1. tryParseVisualConfig(bill) = <<>> BY <1>6, EmptyTexts
  <2>2. config' = DefaultConfig /\ mode' = mode BY <1>6, <2>1 DEF Reread
  <2>3. raw' = NoText BY <1>1, <1>2, <1>6, CombineText
  <2>4. ~Based(bill) BY <1>2, <1>6, BaseAgain
  <2>5. DefaultConfig \in Config BY OrDefaultLaws
  <2> QED BY <1>1, <1>3, <1>6, <2>2, <2>3, <2>4, <2>5 DEF Config
<1> QED BY <1>4, <1>5, <1>6

\* The effects of the first render: the form and the sheet get what the form
\* makes of the sheet, and an expression it cannot show is shown as text.
LEMMA FirstRenderInd ==
  ASSUME EditorInv, Effects, due = "mount"
  PROVE  EditorInv'
<1>0. /\ mode = "visual" /\ fresh /\ seen = <<bill, rule>> /\ bill # NoText
      /\ config = tryParseVisualConfig(bill) /\ groups = tryParseRequestRuleExpr(rule)
      /\ lost = {} => MountLosses(bill, rule) = {}
      /\ Forms /\ IsText(bill) /\ rule \in Rules
  BY DEF EditorInv, OnMount, Forms
<1>1. /\ Reread
      /\ bill' = effectiveExpr /\ rule' = effectiveRule /\ seen' = <<bill, rule>>
      /\ due' = "none" /\ isNew' = isNew /\ meant' = meant /\ lost' = lost
      /\ fresh' = TRUE
  BY <1>0 DEF Effects, effectiveRule, Rereads
<1>2. /\ config' \in Seq(Tier) /\ groups' = groups /\ groups' \in Seq(Group)
      /\ raw' = combineBillingExpr(bill, rule) /\ IsText(raw')
      /\ Based(bill) => mode' = "visual" /\ config' \in Config
                        /\ Text(generateExpr(config')) = bill
      /\ ~Based(bill) => mode' = "raw"
  BY <1>0, <1>1, RereadFacts
<1>3. /\ bill' = Text(generateExpr(tryParseVisualConfig(bill)))
      /\ rule' = buildRequestRuleExpr(groups)
      /\ rule' \in Rules /\ ParsesRule(rule')
      /\ ParsesRule(rule) => rule' = rule
      /\ IsText(bill')
  <2>1. bill' = Text(generateExpr(tryParseVisualConfig(bill)))
        /\ rule' = buildRequestRuleExpr(groups)
    BY <1>0, <1>1 DEF effectiveExpr, effectiveRule
  <2>2. IsText(effectiveExpr) BY <1>0, EffectiveFacts
  <2>3. /\ buildRequestRuleExpr(groups) \in Rules /\ ParsesRule(buildRequestRuleExpr(groups))
        /\ ParsesRule(rule) => buildRequestRuleExpr(groups) = rule
    BY <1>0, RuleRead
  <2> QED BY <1>1, <2>1, <2>2, <2>3
<1>4. Forms'
  <2>1. mode' \in {"visual", "raw"} /\ (mode' = "visual" => config' \in Config) BY <1>2
  <2> QED BY <1>1, <1>2, <1>3, <2>1 DEF EditorInv, Forms
<1>5. lost = {} => /\ bill' = bill /\ rule' = rule /\ ParsesRule(rule)
                   /\ OrDefault(meant) = OrDefault(combineBillingExpr(bill, rule))
  <2> SUFFICES ASSUME lost = {}
               PROVE  /\ bill' = bill /\ rule' = rule /\ ParsesRule(rule)
                      /\ OrDefault(meant) = OrDefault(combineBillingExpr(bill, rule))
    OBVIOUS
  <2>1. bill' = bill /\ rule' = rule /\ ParsesRule(rule)
    BY <1>0, <1>3, MountLossesLaws
  <2> QED BY <1>1, <2>1 DEF EditorInv, MeantIsWritten
<1>6. OnMount' /\ OnRename' BY <1>1 DEF OnMount, OnRename
<1>7. CASE Based(bill)
  <2>1. mode' = "visual" /\ bill' = bill
    BY <1>0, <1>2, <1>3, <1>7, BaseAgain
  <2>2. effectiveExpr' = bill' /\ effectiveRule' = rule'
    BY <1>2, <1>3, <1>7, <2>1 DEF effectiveExpr, effectiveRule
  <2>3. RuleOfText' /\ UnreadInText' /\ FirstEdit'
    BY <2>1, <2>2 DEF RuleOfText, UnreadInText, FirstEdit
  <2>4. RereadsTheSame'
    BY <1>3, <1>7, <2>1, <2>2 DEF RereadsTheSame
  <2>5. MeantIsWritten'
    BY <1>1, <1>5, <2>1, <2>2 DEF MeantIsWritten
  <2> QED BY <1>4, <1>6, <2>3, <2>4, <2>5 DEF EditorInv
<1>8. CASE ~Based(bill)
  <2>1. mode' = "raw" /\ bill' = Text(Zero)
    BY <1>0, <1>2, <1>3, <1>8, BaseAgain
  <2>2. effectiveExpr' = splitBillingExpr(raw').bill /\ effectiveRule' = rule'
    BY <2>1 DEF effectiveExpr, effectiveRule
  <2>3. splitBillingExpr(combineBillingExpr(Text(Zero), rule')).bill = Text(Zero)
        /\ splitBillingExpr(combineBillingExpr(Text(Zero), rule')).rule = rule'
    BY <1>3, EmptyTexts, SplitCombined
  <2>4. ~Rereads' => bill' = bill /\ rule' = rule
    BY <1>1 DEF Rereads
  <2>5. bill' = bill /\ rule' = rule => /\ raw' = combineBillingExpr(Text(Zero), rule')
                                        /\ effectiveExpr' = Text(Zero)
                                        /\ splitBillingExpr(raw').rule = rule'
    BY <1>2, <2>1, <2>2, <2>3
  <2>6. RuleOfText' /\ UnreadInText'
    BY <1>3, <2>4, <2>5 DEF RuleOfText, UnreadInText, Fits
  <2>7. FirstEdit' BY <2>1 DEF FirstEdit
  <2>8. RereadsTheSame'
    <3>1. Fits(rule', combineBillingExpr(bill', rule'), lost')
      BY <2>1, <2>3 DEF Fits
    <3>2. lost' = {} => bill' = effectiveExpr' /\ rule' = effectiveRule'
      BY <1>1, <1>5, <2>1, <2>2, <2>5
    <3> QED BY <1>3, <2>2, <3>1, <3>2 DEF RereadsTheSame
  <2>9. MeantIsWritten'
    BY <1>1, <1>5, <2>1, <2>2, <2>5 DEF MeantIsWritten
  <2> QED BY <1>4, <1>6, <2>6, <2>7, <2>8, <2>9 DEF EditorInv
<1> QED BY <1>7, <1>8

\* The effects of a later render, when one re-reads the sheet while the others
\* write to it.
LEMMA RereadInd ==
  ASSUME EditorInv, Effects, Rereads, due # "mount"
  PROVE  EditorInv'
<1>0. /\ due = "none" /\ Forms /\ IsText(bill) /\ rule \in Rules
      /\ ~Based(bill) => /\ ParsesRule(effectiveRule) \/ "twice" \in lost
                         /\ Fits(effectiveRule, combineBillingExpr(bill, rule), lost)
      /\ lost = {} => bill = effectiveExpr /\ rule = effectiveRule /\ ParsesRule(rule)
  BY DEF EditorInv, OnRename, Rereads, Forms, RereadsTheSame
<1>1. /\ Reread
      /\ bill' = effectiveExpr /\ rule' = effectiveRule /\ seen' = <<bill, rule>>
      /\ due' = "none" /\ isNew' = isNew /\ meant' = meant /\ lost' = lost
      /\ fresh' = FALSE
  BY <1>0 DEF Effects, effectiveRule
<1>2. /\ config' \in Seq(Tier) /\ groups' = tryParseRequestRuleExpr(rule)
      /\ groups' \in Seq(Group)
      /\ raw' = combineBillingExpr(bill, rule) /\ IsText(raw')
      /\ Based(bill) => /\ mode' = "visual" /\ config' \in Config
                        /\ Text(generateExpr(config')) = bill
      /\ ~Based(bill) /\ bill # NoText => mode' = "raw"
      /\ bill = NoText => mode' = mode /\ raw' = NoText /\ config' \in Config
  BY <1>0, <1>1, RereadFacts
<1>3. Forms'
  <2>1. IsText(effectiveExpr) /\ effectiveRule \in Rules BY <1>0, EffectiveFacts
  <2>2. mode' \in {"visual", "raw"} /\ (mode' = "visual" => config' \in Config)
    BY <1>0, <1>2 DEF Forms
  <2> QED BY <1>0, <1>1, <1>2, <2>1, <2>2 DEF Forms
<1>4. ~Rereads' BY <1>1 DEF Rereads
<1>5. OnMount' /\ OnRename' /\ FirstEdit' /\ RereadsTheSame'
  BY <1>1, <1>4 DEF OnMount, OnRename, FirstEdit, RereadsTheSame
<1>6. ~Based(bill) => RuleOfText' /\ UnreadInText'
  BY <1>0, <1>1, <1>2 DEF RuleOfText, UnreadInText
<1>7. Based(bill) => RuleOfText' /\ UnreadInText'
  BY <1>2 DEF RuleOfText, UnreadInText
<1>8. MeantIsWritten'
  <2> SUFFICES ASSUME lost = {}
               PROVE  OrDefault(meant')
                        = OrDefault(combineBillingExpr(effectiveExpr', effectiveRule'))
    BY <1>1 DEF MeantIsWritten
  <2>1. /\ bill = effectiveExpr /\ rule = effectiveRule /\ ParsesRule(rule)
        /\ rule' = rule
        /\ OrDefault(meant) = OrDefault(combineBillingExpr(bill, rule))
    <3>1. bill = effectiveExpr /\ rule = effectiveRule /\ ParsesRule(rule) BY <1>0
    <3> QED BY <1>1, <3>1 DEF EditorInv, MeantIsWritten
  <2>2. CASE Based(bill)
    <3>1. effectiveExpr' = bill /\ effectiveRule' = rule
      BY <1>0, <1>2, <2>1, <2>2, RuleAgain DEF effectiveExpr, effectiveRule
    <3> QED BY <1>1, <2>1, <3>1
  <2>3. CASE ~Based(bill) /\ bill # NoText
    <3>1. effectiveExpr' = splitBillingExpr(raw').bill /\ effectiveRule' = rule
      BY <1>2, <2>1, <2>3 DEF effectiveExpr, effectiveRule
    <3>2. rule = splitBillingExpr(raw').rule
      BY <1>0, <1>2, <2>1, <2>3 DEF Fits
    <3>3. splitBillingExpr(raw').bill = bill
      <4>1. CASE rule = <<>>
        <5>1. raw' = bill BY <1>0, <1>2, <4>1, CombineText
        <5> QED BY <1>0, <3>2, <4>1, <5>1, SplitText
      <4>2. CASE rule # <<>>
        BY <1>0, <1>2, <2>1, <2>3, <4>2, SplitCombined
      <4> QED BY <4>1, <4>2
    <3> QED BY <1>1, <2>1, <3>1, <3>3
  <2>4. CASE bill = NoText
    <3>1. mode = "raw" BY <1>0, <2>1, <2>4, EffectiveFacts
    <3>2. mode' = "raw" /\ raw' = NoText BY <1>2, <2>4, <3>1
    <3>3. effectiveExpr' = NoText /\ effectiveRule' = rule
      BY <2>1, <3>2, EmptyTexts, SplitText DEF effectiveExpr, effectiveRule
    <3> QED BY <1>1, <2>1, <2>4, <3>3
  <2> QED BY <2>2, <2>3, <2>4
<1> QED BY <1>3, <1>5, <1>6, <1>7, <1>8 DEF EditorInv

\* The form holds other tiers or rules.
LEMMA DrawInd ==
  ASSUME EditorInv, NEW cfg \in Config, NEW gs \in Seq(Group), Draw(cfg, gs)
  PROVE  EditorInv'
<1>1. /\ mode = "visual" /\ mode' = "visual" /\ config' = cfg /\ groups' = gs
      /\ raw' = raw /\ bill' = bill /\ rule' = rule /\ fresh' = fresh /\ seen' = seen
      /\ due' = due /\ isNew' = isNew
      /\ lost' = When(fresh /\ ~ParsesRule(buildRequestRuleExpr(gs)), {"dropped"})
      /\ meant' = combineBillingExpr(Text(generateExpr(cfg)), buildRequestRuleExpr(gs))
      /\ due = "none" /\ seen = <<bill, rule>>
  BY DEF Draw, sheet, Settled
<1>2. /\ effectiveExpr' = Text(generateExpr(cfg))
      /\ effectiveRule' = buildRequestRuleExpr(gs)
  BY <1>1 DEF effectiveExpr, effectiveRule
<1>3. IsText(meant')
  <2>1. IsText(Text(generateExpr(cfg))) BY ConfigWritten DEF Based
  <2>2. buildRequestRuleExpr(gs) \in Rules BY RuleOfGroups
  <2> QED BY <1>1, <2>1, <2>2, CombineText
<1>4. ~Rereads'
  BY <1>1 DEF Rereads
<1>5. /\ lost' \subseteq Losses
      /\ lost' = {} => ~fresh \/ ParsesRule(buildRequestRuleExpr(gs))
  BY <1>1 DEF When, Losses
<1>6. Forms'
  <2>1. cfg \in Seq(Tier) BY DEF Config
  <2> QED BY <1>1, <1>3, <1>5, <2>1 DEF EditorInv, Forms
<1>7. MeantIsWritten' /\ FirstEdit'
  BY <1>1, <1>2, <1>5 DEF MeantIsWritten, FirstEdit
<1>8. OnMount' /\ OnRename' /\ RuleOfText' /\ UnreadInText' /\ RereadsTheSame'
  BY <1>1, <1>4 DEF OnMount, OnRename, RuleOfText, UnreadInText, RereadsTheSame
<1> QED BY <1>6, <1>7, <1>8 DEF EditorInv

\* Changing, adding and removing an element of a sequence.
LEMMA SeqEdits ==
  ASSUME NEW S, NEW s \in Seq(S)
  PROVE  /\ \A i \in DOMAIN s, e \in S : [s EXCEPT ![i] = e] \in Seq(S) /\ Len([s EXCEPT ![i] = e]) = Len(s)
         /\ \A e \in S : Append(s, e) \in Seq(S) /\ Len(Append(s, e)) = Len(s) + 1
         /\ \A i \in DOMAIN s : RemoveAt(s, i) \in Seq(S) /\ Len(RemoveAt(s, i)) = Len(s) - 1
         /\ DOMAIN s = 1..Len(s) /\ Len(s) \in Nat
<1>1. DOMAIN s = 1..Len(s) /\ Len(s) \in Nat
  BY LenProperties
<1>2. ASSUME NEW i \in 1..Len(s), NEW e \in S
      PROVE  [s EXCEPT ![i] = e] \in Seq(S) /\ Len([s EXCEPT ![i] = e]) = Len(s)
  BY <1>2, ExceptSeq
<1>3. ASSUME NEW e \in S
      PROVE  Append(s, e) \in Seq(S) /\ Len(Append(s, e)) = Len(s) + 1
  BY <1>3, AppendProperties
<1>4. ASSUME NEW i \in 1..Len(s)
      PROVE  RemoveAt(s, i) \in Seq(S) /\ Len(RemoveAt(s, i)) = Len(s) - 1
  <2> DEFINE u == SubSeq(s, 1, i - 1)
  <2> DEFINE v == SubSeq(s, i + 1, Len(s))
  <2>1. RemoveAt(s, i) = u \o v BY DEF RemoveAt
  <2>2. \A j \in 1..Len(s) : s[j] \in S BY ElementOfSeq
  <2>3. u \in Seq(S) /\ Len(u) = i - 1
    <3>1. 1 \in Int /\ i - 1 \in Int /\ \A j \in 1..(i - 1) : s[j] \in S BY <1>1, <2>2
    <3>2. 1..(i - 1) \subseteq 1..Len(s) BY <1>1
    <3>3. u \in Seq(S) /\ Len(u) = IF 1 <= i - 1 THEN (i - 1) - 1 + 1 ELSE 0
      BY <3>1, SubSeqProperties
    <3> QED BY <1>1, <3>3
  <2>4. v \in Seq(S) /\ Len(v) = Len(s) - i
    <3>1. i + 1 \in Int /\ Len(s) \in Int /\ \A j \in (i + 1)..Len(s) : s[j] \in S BY <1>1, <2>2
    <3>3. v \in Seq(S) /\ Len(v) = IF i + 1 <= Len(s) THEN Len(s) - (i + 1) + 1 ELSE 0
      BY <3>1, SubSeqProperties
    <3>4. ASSUME NEW n \in Nat, NEW k \in 1..n
          PROVE  n - k = IF k + 1 <= n THEN n - (k + 1) + 1 ELSE 0
      OBVIOUS
    <3>5. Len(s) - i = IF i + 1 <= Len(s) THEN Len(s) - (i + 1) + 1 ELSE 0
      BY <1>1, <3>4
    <3> HIDE DEF v
    <3> QED BY <3>3, <3>5
  <2> HIDE DEF u, v
  <2>5. u \o v \in Seq(S) /\ Len(u \o v) = Len(u) + Len(v)
    BY <2>3, <2>4, ConcatProperties
  <2> QED BY <1>1, <2>1, <2>3, <2>4, <2>5
<1> QED BY <1>1, <1>2, <1>3, <1>4

\* Every change of the tiers that the form offers leaves tiers.
LEMMA ConfigEdits ==
  ASSUME NEW c \in Config, NEW i \in DOMAIN c
  PROVE  /\ c[i] \in Tier
         /\ \A p \in Nat : [c EXCEPT ![i].price = p] \in Config
         /\ \A v \in SUBSET TierVars : [c EXCEPT ![i].conds = v] \in Config
         /\ Len(c) > 1 => RemoveAt(c, i) \in Config
<1>1. c \in Seq(Tier) /\ c # <<>>
  BY DEF Config
<1>2. DOMAIN c = 1..Len(c) /\ Len(c) \in Nat
  BY <1>1, LenProperties
<1>3. c[i] \in Tier BY <1>1, <1>2, ElementOfSeq
<1>4. ASSUME NEW e \in Tier PROVE [c EXCEPT ![i] = e] \in Config
  <2> DEFINE d == [c EXCEPT ![i] = e]
  <2>1. d \in Seq(Tier) /\ Len(d) = Len(c)
    BY <1>1, SeqEdits
  <2> HIDE DEF d
  <2>2. d # <<>> BY <1>1, <1>2, <2>1, EmptySeq
  <2>3. d \in Config BY <1>1, <2>1, <2>2 DEF Config
  <2> QED BY <2>3 DEF d
<1>5. ASSUME NEW p \in Nat PROVE [c EXCEPT ![i].price = p] \in Config
  <2>1. [c[i] EXCEPT !.price = p] \in Tier BY <1>3 DEF Tier
  <2> QED BY <1>4, <2>1
<1>6. ASSUME NEW v \in SUBSET TierVars PROVE [c EXCEPT ![i].conds = v] \in Config
  <2>1. [c[i] EXCEPT !.conds = v] \in Tier BY <1>3 DEF Tier
  <2> QED BY <1>4, <2>1
<1>7. ASSUME Len(c) > 1 PROVE RemoveAt(c, i) \in Config
  <2> DEFINE d == RemoveAt(c, i)
  <2>1. d \in Seq(Tier) /\ Len(d) = Len(c) - 1
    BY <1>1, SeqEdits
  <2> HIDE DEF d
  <2>2. d # <<>> BY <1>2, <1>7, <2>1, EmptySeq
  <2>3. d \in Config BY <1>1, <1>2, <2>1, <2>2 DEF Config
  <2> QED BY <2>3 DEF d
<1> QED BY <1>3, <1>5, <1>6, <1>7

\* At rest the form never shows tiers other than its own.
LEMMA ShownIsConfig ==
  ASSUME EditorInv, Settled, mode = "visual"
  PROVE  shown = config /\ config \in Config /\ groups \in Seq(Group)
BY DEF EditorInv, Forms, Settled, shown, normalizeVisualConfig, Config

LEMMA handleTierChangeInd ==
  ASSUME EditorInv, handleTierChange
  PROVE  EditorInv'
<1>1. shown \in Config /\ groups \in Seq(Group)
  BY ShownIsConfig DEF handleTierChange, Draw
<1>2. PICK i \in DOMAIN shown :
        \/ \E p \in Prices : Draw([shown EXCEPT ![i].price = p], groups)
        \/ \E v \in shown[i].conds :
             Draw([shown EXCEPT ![i].conds = shown[i].conds \ {v}], groups)
  BY DEF handleTierChange
<1>3. ASSUME NEW p \in Prices, Draw([shown EXCEPT ![i].price = p], groups)
      PROVE EditorInv'
  <2>1. p \in Nat BY PricingEditorAssumption DEF PricingEditorAssumption
  <2>2. [shown EXCEPT ![i].price = p] \in Config BY <1>1, <2>1, ConfigEdits
  <2> QED BY <1>1, <1>3, <2>2, DrawInd
<1>4. ASSUME NEW v \in shown[i].conds,
             Draw([shown EXCEPT ![i].conds = shown[i].conds \ {v}], groups)
      PROVE  EditorInv'
  <2>1. shown[i] \in Tier BY <1>1, ConfigEdits
  <2>2. shown[i].conds \ {v} \in SUBSET TierVars BY <2>1 DEF Tier
  <2>3. [shown EXCEPT ![i].conds = shown[i].conds \ {v}] \in Config
    BY <1>1, <2>2, ConfigEdits
  <2> QED BY <1>1, <1>4, <2>3, DrawInd
<1> QED BY <1>2, <1>3, <1>4

LEMMA handleAddTierInd ==
  ASSUME EditorInv, handleAddTier
  PROVE  EditorInv'
<1> DEFINE n == Len(shown)
<1> DEFINE last == shown[n]
<1> DEFINE bounded == [last EXCEPT !.conds = IF last.conds = {} THEN {"len"} ELSE last.conds]
<1> DEFINE zero == [conds |-> {}, price |-> 0]
<1> DEFINE c == [shown EXCEPT ![n] = bounded]
<1>1. shown \in Config /\ groups \in Seq(Group)
  BY ShownIsConfig DEF handleAddTier, Draw
<1>2. Draw(Append(c, zero), groups)
  BY DEF handleAddTier
<1>3. shown \in Seq(Tier) /\ n \in DOMAIN shown /\ n \in Nat
  BY <1>1, LenProperties, EmptySeq DEF Config
<1>4. last \in Tier BY <1>1, <1>3, ConfigEdits
<1>5. bounded \in Tier /\ zero \in Tier
  <2> HIDE DEF last
  <2> QED BY <1>4 DEF Tier, TierVars
<1> HIDE DEF bounded, zero
<1>6. c \in Seq(Tier) /\ Len(c) = n
  <2> HIDE DEF n
  <2> QED BY <1>3, <1>5, SeqEdits DEF n
<1> HIDE DEF c
<1>7. Append(c, zero) \in Seq(Tier) /\ Len(Append(c, zero)) = n + 1
  BY <1>5, <1>6, SeqEdits
<1> DEFINE d == Append(c, zero)
<1>8. d \in Config
  <2>1. d \in Seq(Tier) /\ Len(d) = n + 1 BY <1>7
  <2> HIDE DEF d
  <2>2. d # <<>> BY <1>3, <2>1, EmptySeq
  <2> QED BY <1>2, <1>3, <2>1, <2>2 DEF Config
<1> QED BY <1>1, <1>2, <1>8, DrawInd

LEMMA handleRemoveTierInd ==
  ASSUME EditorInv, handleRemoveTier
  PROVE  EditorInv'
<1>1. shown \in Config /\ groups \in Seq(Group)
  BY ShownIsConfig DEF handleRemoveTier, Draw
<1>2. PICK i \in DOMAIN shown : Len(shown) > 1 /\ Draw(RemoveAt(shown, i), groups)
  BY DEF handleRemoveTier
<1>3. RemoveAt(shown, i) \in Config BY <1>1, <1>2, ConfigEdits
<1> QED BY <1>1, <1>2, <1>3, DrawInd

LEMMA handleAddConditionInd ==
  ASSUME EditorInv, handleAddCondition
  PROVE  EditorInv'
<1>1. shown \in Config /\ groups \in Seq(Group)
  BY ShownIsConfig DEF handleAddCondition, Draw
<1>2. PICK i \in DOMAIN shown :
        Draw([shown EXCEPT ![i].conds =
               shown[i].conds \cup {IF "len" \in shown[i].conds THEN "c" ELSE "len"}], groups)
  BY DEF handleAddCondition
<1> DEFINE v == shown[i].conds \cup {IF "len" \in shown[i].conds THEN "c" ELSE "len"}
<1>3. shown[i] \in Tier BY <1>1, ConfigEdits
<1>4. v \in SUBSET TierVars BY <1>3 DEF Tier, TierVars
<1>5. [shown EXCEPT ![i].conds = v] \in Config
  <2> HIDE DEF v
  <2> QED BY <1>1, <1>4, ConfigEdits
<1> QED BY <1>1, <1>2, <1>5, DrawInd

\* Every change of a rule group that the form offers leaves a group.
LEMMA GroupEdits ==
  ASSUME NEW gs \in Seq(Group), NEW g \in DOMAIN gs
  PROVE  /\ gs[g] \in Group
         /\ \A m \in Nat : [gs EXCEPT ![g].mult = m] \in Seq(Group)
         /\ \A c \in Seq(Kinds) : [gs EXCEPT ![g].conds = c] \in Seq(Group)
         /\ RemoveAt(gs, g) \in Seq(Group)
<1>1. DOMAIN gs = 1..Len(gs)
  BY LenProperties
<1>2. gs[g] \in Group
  BY <1>1, ElementOfSeq
<1>3. ASSUME NEW m \in Nat PROVE [gs EXCEPT ![g].mult = m] \in Seq(Group)
  <2>1. [gs[g] EXCEPT !.mult = m] \in Group BY <1>2 DEF Group
  <2> QED BY <2>1, SeqEdits
<1>4. ASSUME NEW c \in Seq(Kinds)
      PROVE  [gs EXCEPT ![g].conds = c] \in Seq(Group)
  <2>1. [gs[g] EXCEPT !.conds = c] \in Group BY <1>2 DEF Group, Kinds
  <2> QED BY <2>1, SeqEdits
<1>5. RemoveAt(gs, g) \in Seq(Group)
  BY SeqEdits
<1> QED BY <1>2, <1>3, <1>4, <1>5

LEMMA handleRuleGroupsChangeInd ==
  ASSUME EditorInv, handleRuleGroupsChange
  PROVE  EditorInv'
<1>1. config \in Config /\ groups \in Seq(Group)
  BY ShownIsConfig DEF handleRuleGroupsChange, Draw
<1>2. CASE Draw(config, Append(groups, [conds |-> <<"blank">>, mult |-> NoMult]))
  <2>1. [conds |-> <<"blank">>, mult |-> NoMult] \in Group BY DEF Group, NoMult, Kinds
  <2>2. Append(groups, [conds |-> <<"blank">>, mult |-> NoMult]) \in Seq(Group)
    BY <1>1, <2>1, SeqEdits
  <2> QED BY <1>1, <1>2, <2>2, DrawInd
<1>3. ASSUME NEW g \in DOMAIN groups, Draw(config, RemoveAt(groups, g)) PROVE EditorInv'
  <2>1. RemoveAt(groups, g) \in Seq(Group) BY <1>1, GroupEdits
  <2> QED BY <1>1, <1>3, <2>1, DrawInd
<1>4. ASSUME NEW g \in DOMAIN groups, NEW m \in Mults, Draw(config, [groups EXCEPT ![g].mult = m])
      PROVE  EditorInv'
  <2>1. m \in Nat BY PricingEditorAssumption DEF PricingEditorAssumption
  <2>2. [groups EXCEPT ![g].mult = m] \in Seq(Group) BY <1>1, <2>1, GroupEdits
  <2> QED BY <1>1, <1>4, <2>2, DrawInd
<1>5. ASSUME NEW g \in DOMAIN groups, NEW c \in Seq(Kinds),
             Draw(config, [groups EXCEPT ![g].conds = c])
      PROVE  EditorInv'
  <2>1. [groups EXCEPT ![g].conds = c] \in Seq(Group) BY <1>1, GroupEdits
  <2> QED BY <1>1, <1>5, <2>1, DrawInd
<1>6. ASSUME NEW g \in DOMAIN groups PROVE groups[g].conds \in Seq(Kinds)
  <2>1. groups[g] \in Group BY <1>1, GroupEdits
  <2> QED BY <2>1 DEF Group, Kinds
<1>7. ASSUME NEW g \in DOMAIN groups,
             Draw(config, [groups EXCEPT ![g].conds = Append(groups[g].conds, "blank")])
      PROVE  EditorInv'
  <2>1. "blank" \in Kinds BY DEF Kinds
  <2>2. Append(groups[g].conds, "blank") \in Seq(Kinds)
    BY <1>6, <2>1, SeqEdits
  <2> QED BY <1>5, <1>7, <2>2
<1>8. ASSUME NEW g \in DOMAIN groups, NEW i \in DOMAIN groups[g].conds,
             Draw(config, [groups EXCEPT ![g].conds = RemoveAt(groups[g].conds, i)])
      PROVE  EditorInv'
  <2>1. RemoveAt(groups[g].conds, i) \in Seq(Kinds)
    BY <1>6, SeqEdits
  <2> QED BY <1>5, <1>8, <2>1
<1>9. ASSUME NEW g \in DOMAIN groups, NEW i \in DOMAIN groups[g].conds, NEW k \in CondKinds,
             Draw(config, [groups EXCEPT ![g].conds[i] = k])
      PROVE  EditorInv'
  <2> DEFINE c == [groups[g].conds EXCEPT ![i] = k]
  <2>1. k \in Kinds BY PricingEditorAssumption DEF PricingEditorAssumption, Kinds
  <2>2. c \in Seq(Kinds)
    BY <1>6, <2>1, SeqEdits
  <2>3. [groups EXCEPT ![g].conds[i] = k] = [groups EXCEPT ![g].conds = c]
    OBVIOUS
  <2> HIDE DEF c
  <2> QED BY <1>5, <1>9, <2>2, <2>3
<1> QED BY <1>2, <1>3, <1>4, <1>7, <1>8, <1>9 DEF handleRuleGroupsChange

\* The text's rule reaches the sheet before its base does.
LEMMA handleRawChangeInd ==
  ASSUME EditorInv, handleRawChange
  PROVE  EditorInv'
<1>1. PICK t \in Typed :
        /\ Settled /\ mode = "raw" /\ raw' = t /\ rule' = splitBillingExpr(t).rule
        /\ meant' = t
        /\ lost' = RevertLosses(t) \cup When(Parenthesised(t), {"parentheses"})
        /\ isNew' = isNew /\ bill' = bill /\ mode' = mode /\ config' = config
        /\ groups' = groups /\ fresh' = fresh /\ seen' = seen /\ due' = due
  BY DEF handleRawChange
<1> DEFINE b == splitBillingExpr(t).bill
<1> DEFINE r == splitBillingExpr(t).rule
<1>2. IsText(t) BY PricingEditorAssumption DEF PricingEditorAssumption
<1>3. /\ IsText(b) /\ r \in Rules /\ ParsesRule(r)
      /\ r = <<>> => b = t
      /\ b = NoText => r = <<>>
      /\ ~Parenthesised(t) => combineBillingExpr(b, r) = t
  BY <1>2, SplitText
<1>4. /\ lost' \subseteq Losses
      /\ fresh /\ bill # b /\ rule # r => lost' # {}
      /\ fresh /\ bill # b /\ rule # r /\ bill.layers # <<>> => "stacked" \in lost'
      /\ lost' = {} => ~Parenthesised(t)
  <2>1. /\ RevertLosses(t) \subseteq Losses
        /\ fresh /\ bill # b /\ rule # r => RevertLosses(t) # {}
        /\ fresh /\ bill # b /\ rule # r /\ bill.layers # <<>>
             => "stacked" \in RevertLosses(t)
    BY RevertLossesLaws
  <2>2. /\ When(Parenthesised(t), {"parentheses"}) \subseteq Losses
        /\ When(Parenthesised(t), {"parentheses"}) = {} => ~Parenthesised(t)
    BY DEF When, Losses
  <2> HIDE DEF b, r
  <2> QED BY <1>1, <2>1, <2>2
<1>5. effectiveExpr' = b /\ effectiveRule' = r
  BY <1>1 DEF effectiveExpr, effectiveRule
<1>6. due = "none" /\ seen = <<bill, rule>> /\ IsText(bill)
  BY <1>1, SettledFacts DEF EditorInv, Forms
<1>7. rule' = splitBillingExpr(raw').rule BY <1>1
<1> HIDE DEF b, r
<1>8. rule' = r BY <1>1 DEF r
<1>9. Forms'
  BY <1>1, <1>2, <1>3, <1>4, <1>6, <1>8 DEF EditorInv, Forms
<1>10. MeantIsWritten'
  BY <1>1, <1>3, <1>4, <1>5 DEF MeantIsWritten
<1>11. OnMount' /\ OnRename' /\ RuleOfText' /\ UnreadInText' /\ FirstEdit'
  BY <1>1, <1>3, <1>6, <1>7, <1>8 DEF OnMount, OnRename, RuleOfText, Fits, UnreadInText, FirstEdit
<1>12. RereadsTheSame'
  <2> SUFFICES ASSUME Rereads'
        PROVE  /\ ~Based(bill') => /\ ParsesRule(effectiveRule') \/ "twice" \in lost'
                                   /\ Fits(effectiveRule', combineBillingExpr(bill', rule'), lost')
               /\ lost' = {} => /\ bill' = effectiveExpr' /\ rule' = effectiveRule'
                                /\ ParsesRule(rule')
    BY DEF RereadsTheSame
  <2>1. fresh /\ rule # r
    BY <1>1, <1>6, <1>8 DEF Rereads
  <2>2. bill = NoText => lost' # {} \/ r = <<>>
    BY <1>3, <1>4, <2>1
  <2>3. r = <<>> => splitBillingExpr(bill).rule = <<>> \/ "stacked" \in lost'
    <3>1. CASE bill = b
      BY <1>3, <3>1 DEF r
    <3>2. CASE bill # b /\ bill.layers = <<>>
      BY <1>6, <3>2, SplitText
    <3>3. CASE bill # b /\ bill.layers # <<>>
      BY <1>4, <2>1, <3>3
    <3> QED BY <3>1, <3>2, <3>3
  <2>4. Fits(r, combineBillingExpr(bill, r), lost')
    BY <1>3, <1>6, <2>2, <2>3, FitsCombined
  <2>5. lost' = {} => bill = b
    BY <1>4, <2>1
  <2> QED BY <1>1, <1>3, <1>5, <1>8, <2>4, <2>5
<1> QED BY <1>9, <1>10, <1>11, <1>12 DEF EditorInv

\* From the text to the form: the empty text becomes the price the sheet starts with.
LEMMA toVisualInd ==
  ASSUME EditorInv, toVisual
  PROVE  EditorInv'
<1> DEFINE b == splitBillingExpr(raw).bill
<1> DEFINE r == splitBillingExpr(raw).rule
<1>1. /\ Settled /\ mode = "raw" /\ mode' = "visual"
      /\ config' = normalizeVisualConfig(tryParseVisualConfig(b))
      /\ groups' = tryParseRequestRuleExpr(r) /\ rule' = r
      /\ isNew' = isNew /\ bill' = bill /\ raw' = raw /\ fresh' = fresh /\ seen' = seen
      /\ due' = due /\ meant' = meant /\ lost' = lost \cup ToVisualLosses
  BY DEF toVisual
<1>2. /\ IsText(b) /\ r \in Rules /\ ParsesRule(r)
      /\ b = NoText => r = <<>>
  BY SplitText DEF EditorInv, Forms
<1>3. effectiveExpr = b /\ effectiveRule = rule /\ bill = b
      /\ due = "none" /\ seen = <<bill, rule>> /\ ~Rereads
  BY <1>1, SettledFacts DEF effectiveExpr, effectiveRule
<1>4. /\ lost' \subseteq Losses
      /\ lost' = {} => /\ lost = {}
                       /\ Text(generateExpr(config')) = OrDefault(b)
  <2>1. /\ ToVisualLosses \subseteq {"unread"}
        /\ ToVisualLosses = {} => Text(generateExpr(config')) = OrDefault(b)
    BY <1>1 DEF ToVisualLosses, When
  <2> HIDE DEF b
  <2> QED BY <1>1, <2>1 DEF Losses, EditorInv, Forms
<1>5. lost = {} => rule = r
  BY <1>1, <1>3 DEF EditorInv, RuleOfText, Fits
<1>6. Fits(r, combineBillingExpr(b, r), lost')
  <2>1. Fits(r, raw, lost') /\ IsText(raw) BY DEF Fits, EditorInv, Forms
  <2>2. \A x : Fits(x, raw, lost') => Fits(x, combineBillingExpr(b, x), lost')
    BY <2>1, FitsSplit
  <2> HIDE DEF b, r
  <2> QED BY <2>1, <2>2
<1> HIDE DEF b, r
<1>7. groups' \in Seq(Group) /\ buildRequestRuleExpr(groups') = r
  BY <1>1, <1>2, RuleRead, RuleAgain
<1>8. config' \in Config
  <2>1. CASE Based(b)
    <3>1. config' = tryParseVisualConfig(b)
      BY <1>1, <1>2, <2>1, BaseAgain DEF normalizeVisualConfig
    <3> QED BY <1>2, <2>1, <3>1, BaseAgain
  <2>2. CASE ~Based(b)
    <3>1. config' = DefaultConfig
      BY <1>1, <1>2, <2>2, BaseAgain DEF normalizeVisualConfig
    <3> QED BY <3>1, OrDefaultLaws
  <2> QED BY <2>1, <2>2
<1>9. effectiveExpr' = Text(generateExpr(config')) /\ effectiveRule' = r
  BY <1>1, <1>7 DEF effectiveExpr, effectiveRule
<1>10. Forms'
  <2>1. config' \in Seq(Tier) BY <1>8 DEF Config
  <2> QED BY <1>1, <1>2, <1>4, <1>7, <1>8, <2>1 DEF EditorInv, Forms
<1>11. OnMount' /\ OnRename' /\ RuleOfText' /\ UnreadInText' /\ FirstEdit'
  BY <1>1, <1>2, <1>3, <1>9 DEF OnMount, OnRename, RuleOfText, UnreadInText, FirstEdit
<1>12. RereadsTheSame'
  <2>1. Rereads' => rule # r BY <1>1, <1>3 DEF Rereads
  <2>2. Rereads' => lost' # {} BY <1>4, <1>5, <2>1
  <2> QED BY <1>1, <1>2, <1>3, <1>6, <1>9, <2>2 DEF RereadsTheSame
<1>13. MeantIsWritten'
  <2> SUFFICES ASSUME lost' = {}
               PROVE  OrDefault(meant')
                        = OrDefault(combineBillingExpr(effectiveExpr', effectiveRule'))
    BY DEF MeantIsWritten
  <2>1. lost = {} /\ effectiveExpr' = OrDefault(b) /\ rule = r
    BY <1>4, <1>5, <1>9
  <2>2. OrDefault(meant') = OrDefault(combineBillingExpr(b, r))
    BY <1>1, <1>3, <2>1 DEF EditorInv, MeantIsWritten
  <2>3. CASE b = NoText
    <3>1. r = <<>> /\ IsText(OrDefault(b)) BY <1>2, <2>3, OrDefaultLaws
    <3>2. combineBillingExpr(b, r) = b /\ combineBillingExpr(OrDefault(b), r) = OrDefault(b)
      BY <1>2, <3>1, CombineText
    <3> QED BY <1>9, <2>1, <2>2, <3>2, OrDefaultLaws
  <2>4. CASE b # NoText
    BY <1>9, <2>1, <2>2, <2>4, OrDefaultLaws
  <2> QED BY <2>3, <2>4
<1> QED BY <1>10, <1>11, <1>12, <1>13 DEF EditorInv

\* From the form to the text.
LEMMA toRawInd ==
  ASSUME EditorInv, toRaw
  PROVE  EditorInv'
<1>1. /\ Settled /\ mode = "visual" /\ mode' = "raw"
      /\ raw' = combineBillingExpr(effectiveExpr, effectiveRule)
      /\ isNew' = isNew /\ bill' = bill /\ rule' = rule /\ config' = config /\ groups' = groups
      /\ fresh' = fresh /\ seen' = seen /\ due' = due /\ meant' = meant
      /\ lost' = lost \cup When(~ParsesRule(rule), {"twice"})
  BY DEF toRaw, effectiveExpr, effectiveRule, sheet
<1>2. bill = effectiveExpr /\ rule = effectiveRule /\ due = "none" /\ seen = <<bill, rule>>
  BY <1>1, SettledFacts
<1>3. /\ Based(bill) /\ IsText(bill) /\ bill # NoText /\ bill.layers = <<>> /\ rule \in Rules
  BY <1>1, <1>2, EffectiveFacts, BaseAgain DEF EditorInv, Forms, Based
<1>4. /\ lost' \subseteq Losses
      /\ ~ParsesRule(rule) => "twice" \in lost'
      /\ lost' = {} => lost = {}
  BY <1>1 DEF When, Losses, EditorInv, Forms
<1>5. IsText(raw') BY <1>1, <1>2, <1>3, CombineText
<1>6. ParsesRule(rule) => splitBillingExpr(raw').bill = bill /\ splitBillingExpr(raw').rule = rule
  BY <1>1, <1>2, <1>3, SplitCombined
<1>7. Forms' BY <1>1, <1>4, <1>5 DEF EditorInv, Forms
<1>8. ~Rereads' BY <1>1, <1>2 DEF Rereads
<1>9. RuleOfText' /\ UnreadInText'
  BY <1>1, <1>4, <1>6 DEF RuleOfText, UnreadInText, Fits
<1>10. OnMount' /\ OnRename' /\ FirstEdit' /\ RereadsTheSame'
  BY <1>1, <1>2, <1>8 DEF OnMount, OnRename, FirstEdit, RereadsTheSame
<1>11. MeantIsWritten'
  <2> SUFFICES ASSUME lost' = {}
               PROVE  OrDefault(meant')
                        = OrDefault(combineBillingExpr(effectiveExpr', effectiveRule'))
    BY DEF MeantIsWritten
  <2>1. lost = {} /\ ParsesRule(rule) BY <1>4
  <2>2. effectiveExpr' = bill /\ effectiveRule' = rule
    BY <1>1, <1>6, <2>1 DEF effectiveExpr, effectiveRule
  <2> QED BY <1>1, <1>2, <2>1, <2>2 DEF EditorInv, MeantIsWritten
<1> QED BY <1>7, <1>9, <1>10, <1>11 DEF EditorInv

\* A preset replaces the form, the text and the rule.
LEMMA applyPresetInd ==
  ASSUME EditorInv, applyPreset
  PROVE  EditorInv'
<1>1. PICK p \in Presets :
        /\ Settled
        /\ raw' = combineBillingExpr(Text(p.base), buildRequestRuleExpr(p.groups))
        /\ config' = tryParseVisualConfig(Text(p.base))
        /\ mode' = IF config' = <<>> THEN "raw" ELSE "visual"
        /\ groups' = p.groups
        /\ rule' = buildRequestRuleExpr(p.groups)
        /\ meant' = raw' /\ lost' = RevertLosses(raw')
        /\ isNew' = isNew /\ bill' = bill /\ fresh' = fresh /\ seen' = seen /\ due' = due
  BY DEF applyPreset
<1> DEFINE b == Text(p.base)
<1> DEFINE r == buildRequestRuleExpr(p.groups)
<1>2. Based(b) /\ p.groups \in Seq(Group) /\ r \in Rules /\ ParsesRule(r)
  <2>1. IsPreset(p) BY PricingEditorAssumption DEF PricingEditorAssumption
  <2>2. IsText(b) /\ p.base.kind = "tiers" /\ p.groups \in Seq(Group) /\ ParsesRule(r)
    BY <2>1 DEF IsPreset
  <2>3. b.base = p.base /\ b.layers = <<>> BY DEF Text
  <2>4. r \in Rules BY <2>2, RuleOfGroups
  <2> QED BY <2>2, <2>3, <2>4 DEF Based
<1>3. raw' = combineBillingExpr(b, r) /\ rule' = r /\ config' = tryParseVisualConfig(b)
  BY <1>1
<1> HIDE DEF b, r
<1>4. IsText(b) /\ b # NoText /\ b.layers = <<>> BY <1>2, BaseAgain DEF Based
<1>5. config' \in Config /\ Text(generateExpr(config')) = b /\ mode' = "visual"
  BY <1>1, <1>2, <1>3, <1>4, BaseAgain
<1>6. effectiveExpr' = b /\ effectiveRule' = r
  BY <1>1, <1>5 DEF effectiveExpr, effectiveRule, r
<1>7. splitBillingExpr(raw').bill = b /\ splitBillingExpr(raw').rule = r /\ IsText(raw')
  BY <1>2, <1>3, <1>4, SplitCombined, CombineText
<1>8. /\ lost' \subseteq Losses
      /\ fresh /\ bill # b /\ rule # r => lost' # {}
      /\ fresh /\ bill # b /\ rule # r /\ bill.layers # <<>> => "stacked" \in lost'
  BY <1>1, <1>7, RevertLossesLaws
<1>9. due = "none" /\ seen = <<bill, rule>> /\ IsText(bill)
  BY <1>1, SettledFacts DEF EditorInv, Forms
<1>10. Forms'
  <2>1. config' \in Seq(Tier) BY <1>5 DEF Config
  <2> QED BY <1>1, <1>2, <1>3, <1>5, <1>7, <1>8, <2>1 DEF EditorInv, Forms
<1>11. OnMount' /\ OnRename' /\ RuleOfText' /\ UnreadInText' /\ FirstEdit' /\ MeantIsWritten'
  BY <1>1, <1>2, <1>3, <1>5, <1>6, <1>9
     DEF OnMount, OnRename, RuleOfText, UnreadInText, FirstEdit, MeantIsWritten
<1>12. RereadsTheSame'
  <2> SUFFICES ASSUME Rereads'
        PROVE  /\ ~Based(bill') => /\ ParsesRule(effectiveRule') \/ "twice" \in lost'
                                   /\ Fits(effectiveRule', combineBillingExpr(bill', rule'), lost')
               /\ lost' = {} => /\ bill' = effectiveExpr' /\ rule' = effectiveRule'
                                /\ ParsesRule(rule')
    BY DEF RereadsTheSame
  <2>1. fresh /\ rule # r BY <1>1, <1>3, <1>9 DEF Rereads
  <2>2. lost' = {} => bill = b BY <1>8, <2>1
  <2>3. ASSUME ~Based(bill) PROVE Fits(r, combineBillingExpr(bill, r), lost')
    <3>1. bill # b BY <1>2, <2>3
    <3>2. lost' # {} BY <1>8, <2>1, <3>1
    <3>3. splitBillingExpr(bill).rule = <<>> \/ "stacked" \in lost'
      <4>1. CASE bill.layers = <<>> BY <1>9, <4>1, SplitText
      <4>2. CASE bill.layers # <<>> BY <1>8, <2>1, <3>1, <4>2
      <4> QED BY <4>1, <4>2
    <3> QED BY <1>2, <1>9, <3>2, <3>3, FitsCombined
  <2> QED BY <1>1, <1>2, <1>3, <1>6, <2>2, <2>3
<1> QED BY <1>10, <1>11, <1>12 DEF EditorInv

LEMMA NextEditorInv == EditorInv /\ [Next]_vars => EditorInv'
<1> SUFFICES ASSUME EditorInv, [Next]_vars PROVE EditorInv' OBVIOUS
<1>1. CASE UNCHANGED vars
  BY <1>1 DEF vars, EditorInv, Forms, OnMount, OnRename, RuleOfText, UnreadInText, FirstEdit,
              RereadsTheSame, MeantIsWritten, Rereads, effectiveExpr, effectiveRule
<1>2. CASE Effects
  <2>1. due = "mount" \/ ~Rereads \/ (Rereads /\ due # "mount") OBVIOUS
  <2> QED BY <1>2, <2>1, WriteInd, FirstRenderInd, RereadInd
<1>3. CASE handleModeChange BY <1>3, toVisualInd, toRawInd DEF handleModeChange
<1> QED
  BY <1>1, <1>2, <1>3, SwitchTabInd, RenameInd, SaveInd, handleTierChangeInd, handleAddTierInd,
     handleRemoveTierInd, handleAddConditionInd, handleRuleGroupsChangeInd,
     handleRawChangeInd, applyPresetInd DEF Next

\* Nothing is written that the sheet does not get, but for the losses named.
LEMMA EditorInvariant == Spec => []EditorInv
BY InitEditorInv, NextEditorInv, PTL DEF Spec

\* Nothing is charged by a sheet without a text, as by the price it starts with.
LEMMA DefaultIsFree == SamePrice(NoText, Text(Tiers(DefaultConfig)))
<1> SUFFICES ASSUME NEW q \in Requests
             PROVE  Charge(NoText, q) = Charge(Text(Tiers(DefaultConfig)), q)
  BY DEF SamePrice
<1> DEFINE d == Text(Tiers(DefaultConfig))
<1>1. /\ ~NoText.loose /\ NoText.layers = <<>> /\ NoText.base.kind = "none"
      /\ ~d.loose /\ d.layers = <<>> /\ d.base.kind = "tiers" /\ d.base.arms = DefaultConfig
  BY DEF NoText, Text, Tiers
<1>2. BasePrice(NoText.base, q) = 0
  BY <1>1 DEF BasePrice
<1>3. DOMAIN DefaultConfig = {1} /\ Len(DefaultConfig) = 1
      /\ DefaultConfig[1].conds = {} /\ DefaultConfig[1].price = 0
  BY DEF DefaultConfig
<1>4. ~Malformed(DefaultConfig)
  BY <1>3 DEF Malformed
<1>5. TierOf(DefaultConfig, q) = 1
  <2> DEFINE met == {i \in DOMAIN DefaultConfig : MeetsTier(DefaultConfig[i], q)}
  <2>1. met = {1} BY <1>3 DEF MeetsTier
  <2>2. TierOf(DefaultConfig, q)
          = IF met = {} THEN 0 ELSE CHOOSE i \in met : \A j \in met : i <= j
    BY DEF TierOf
  <2> HIDE DEF met
  <2> QED BY <2>1, <2>2
<1>6. BasePrice(d.base, q) = 0
  BY <1>1, <1>3, <1>4, <1>5 DEF BasePrice
<1> HIDE DEF d
<1>7. Charge(NoText, q) = 0 * Product(FlattenSeq(<<>>), q)
  BY <1>1, <1>2 DEF Charge
<1>8. Charge(d, q) = 0 * Product(FlattenSeq(<<>>), q)
  BY <1>1, <1>6 DEF Charge
<1> QED BY <1>7, <1>8 DEF d

\* Texts that agree but for the price the sheet starts with charge the same.
LEMMA AgreedPrice ==
  ASSUME NEW t, NEW u, OrDefault(t) = OrDefault(u)
  PROVE  SamePrice(t, u)
<1>1. t = u \/ (t = NoText /\ u = Text(Tiers(DefaultConfig)))
            \/ (u = NoText /\ t = Text(Tiers(DefaultConfig)))
  BY DEF OrDefault
<1> QED BY <1>1, DefaultIsFree DEF SamePrice

\* What the invariant says of the editor at rest.
LEMMA Conclusions == EditorInv => TypeOK /\ ShownIsSaved /\ WhatIsWrittenIsCharged
<1> SUFFICES ASSUME EditorInv
      PROVE TypeOK /\ ShownIsSaved /\ WhatIsWrittenIsCharged OBVIOUS
<1>1. TypeOK
  BY DEF EditorInv, Forms, TypeOK, Config
<1>2. ASSUME Settled, mode = "raw", ~Parenthesised(raw), lost \cap {"twice", "stacked"} = {}
      PROVE  SamePrice(combineBillingExpr(bill, rule), raw)
  <2>1. bill = splitBillingExpr(raw).bill /\ ~Rereads
    BY <1>2, SettledFacts DEF effectiveExpr
  <2>2. IsText(raw) /\ IsText(bill) /\ rule \in Rules BY DEF EditorInv, Forms
  <2>3. combineBillingExpr(bill, rule) = raw
    <3>1. CASE rule = splitBillingExpr(raw).rule
      BY <1>2, <2>1, <2>2, <3>1, SplitText
    <3>2. CASE raw = NoText
      <4>1. bill = NoText BY <2>1, <2>2, <3>2, SplitText
      <4> QED BY <2>2, <3>2, <4>1, CombineText
    <3> QED BY <1>2, <2>1, <3>1, <3>2 DEF EditorInv, RuleOfText, Fits
  <2> QED BY <2>3 DEF SamePrice
<1>3. ASSUME Settled, lost = {} PROVE SamePrice(combineBillingExpr(bill, rule), meant)
  <2>1. OrDefault(combineBillingExpr(bill, rule)) = OrDefault(meant)
    BY <1>3, SettledFacts DEF EditorInv, MeantIsWritten
  <2> QED BY <2>1, AgreedPrice
<1> QED BY <1>1, <1>2, <1>3 DEF ShownIsSaved, WhatIsWrittenIsCharged

-----------------------------------------------------------------------------

\* Whatever is typed, entered or opened, the sheet, the form and the text hold
\* texts, rules, tiers and groups that the editor can write, and the form has
\* tiers once its effects have run.
THEOREM EditorTypeCorrect == Spec => []TypeOK
BY EditorInvariant, Conclusions, PTL

\* In the text mode Save stores the text on the screen, whatever was re-read or
\* lost, but for a rule of two tests that came from the form, a base with rules
\* that was brought back, and a text that gets parentheses.
THEOREM EditorShownIsSaved == Spec => []ShownIsSaved
BY EditorInvariant, Conclusions, PTL

\* For every text, rule and order of edits, the sheet saves the price that was
\* last written, unless the editor lost it in one of the ways Losses lists.
THEOREM EditorCharges == Spec => []WhatIsWrittenIsCharged
BY EditorInvariant, Conclusions, PTL
=============================================================================
