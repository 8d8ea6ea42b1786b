--------------------------- MODULE SettingsProofs ---------------------------
(***************************************************************************)
(* Theorems about two pages of the settings dialogs: the torrent rules,    *)
(* which are RuleEditor, and the relations, which are RelationEditor, here *)
(* the instance R.  For any rules and relations, any number of dialogs at  *)
(* a time and any number of actions, what is entered arrives in rules.json *)
(* and relations.json, what is left alone stays there, and a dialog fails  *)
(* only where it is known to.                                              *)
(***************************************************************************)
EXTENDS RuleEditor, SequenceTheorems, WellFoundedInduction, TLAPS

-----------------------------------------------------------------------------
(* Numbers and sequences.                                                   *)

\* A non-empty set of numbers has a least one.
LEMMA Least ==
    ASSUME NEW S \in SUBSET Nat, S # {}
    PROVE  \E m \in S : \A n \in S : m <= n
<1>1. IsWellFoundedOn({ss \in Nat \X Nat : ss[1] < ss[2]}, Nat)
  BY NatLessThanWellFounded DEF OpToRel
<1>2. PICK m \in S : \A n \in S : ~ (<<n, m>> \in {ss \in Nat \X Nat : ss[1] < ss[2]})
  BY <1>1, WFMin
<1>3. \A n \in S : ~ (n < m)
  BY <1>2
<1> QED BY <1>3

LEMMA MinIsInSet ==
    ASSUME NEW S \in SUBSET Nat, S # {}
    PROVE  Min(S) \in S
BY Least DEF Min

LEMMA MinIsLeast ==
    ASSUME NEW S \in SUBSET Nat, NEW n \in S
    PROVE  Min(S) <= n
BY Least DEF Min

\* A row of several, and the one before it.
LEMMA AboutRows ==
    ASSUME NEW n \in Nat, n # 1, NEW r \in 0..n, r # 0
    PROVE  r \in 1..n /\ n > 1 /\ (IF r > 1 THEN r - 1 ELSE 1) \in 1..n - 1
OBVIOUS

LEMMA WithoutOne ==
    ASSUME NEW X, NEW s \in Seq(X), NEW i \in 1..Len(s)
    PROVE  /\ RemoveAt(s, i) \in Seq(X) /\ Len(RemoveAt(s, i)) = Len(s) - 1
           /\ \A k \in 1..Len(s) - 1 :
                 RemoveAt(s, i)[k] = IF k < i THEN s[k] ELSE s[k + 1]
<1> DEFINE below == SubSeq(s, 1, i - 1)
           above == SubSeq(s, i + 1, Len(s))
<1>1. below \in Seq(X) /\ Len(below) = i - 1 /\ \A k \in 1..i - 1 : below[k] = s[k]
  OBVIOUS
<1>2. above \in Seq(X) /\ Len(above) = Len(s) - i
      /\ \A k \in 1..Len(s) - i : above[k] = s[i + k]
  OBVIOUS
<1>3. RemoveAt(s, i) = below \o above
  BY DEF RemoveAt
<1>4. Len(s) \in Nat /\ i \in Nat
  OBVIOUS
<1> HIDE DEF below, above
<1>5. below \o above \in Seq(X) /\ Len(below \o above) = Len(below) + Len(above)
  BY <1>1, <1>2, ConcatProperties
<1>6. ASSUME NEW k \in 1..Len(s) - 1
      PROVE  (below \o above)[k] = IF k < i THEN s[k] ELSE s[k + 1]
  <2>1. CASE k < i
    <3>1. (below \o above)[k] = below[k]
      BY <1>1, <1>2, <1>4, <2>1
    <3> QED BY <1>1, <1>4, <2>1, <3>1
  <2>2. CASE ~(k < i)
    <3>1. (below \o above)[k] = above[k - (i - 1)]
      BY <1>1, <1>2, <1>4, <2>2
    <3>2. k - (i - 1) \in 1..Len(s) - i /\ i + (k - (i - 1)) = k + 1
      BY <1>4, <2>2
    <3> QED BY <1>2, <2>2, <3>1, <3>2
  <2> QED BY <2>1, <2>2
<1> QED BY <1>1, <1>2, <1>3, <1>4, <1>5, <1>6

LEMMA Appending ==
    ASSUME NEW X, NEW s \in Seq(X), NEW x \in X
    PROVE  /\ Append(s, x) \in Seq(X) /\ Len(Append(s, x)) = Len(s) + 1
           /\ Append(s, x)[Len(s) + 1] = x
           /\ ToSet(Append(s, x)) = ToSet(s) \cup {x}
<1>1. /\ Append(s, x) \in Seq(X) /\ Len(Append(s, x)) = Len(s) + 1
      /\ \A i \in 1..Len(s) : Append(s, x)[i] = s[i]
      /\ Append(s, x)[Len(s) + 1] = x
  BY AppendProperties
<1> DEFINE t == Append(s, x)
<1>2. Len(s) \in Nat
  OBVIOUS
<1>3. DOMAIN s = 1..Len(s) /\ DOMAIN t = 1..Len(s) + 1
  BY <1>1
<1> HIDE DEF t
<1>4. t[Len(s) + 1] = x /\ \A i \in 1..Len(s) : t[i] = s[i]
  BY <1>1 DEF t
<1>5. ToSet(t) = ToSet(s) \cup {x}
  <2>1. ASSUME NEW y \in ToSet(t) PROVE y \in ToSet(s) \cup {x}
    <3>1. PICK i \in 1..Len(s) + 1 : y = t[i]
      BY <1>3 DEF ToSet
    <3>2. i = Len(s) + 1 \/ i \in 1..Len(s)
      BY <1>2
    <3> QED BY <1>3, <1>4, <3>1, <3>2 DEF ToSet
  <2>2. ASSUME NEW i \in DOMAIN s PROVE s[i] \in ToSet(t)
    BY <1>2, <1>3, <1>4 DEF ToSet
  <2>3. x \in ToSet(t)
    BY <1>2, <1>3, <1>4 DEF ToSet
  <2> QED BY <2>1, <2>2, <2>3 DEF ToSet
<1> QED BY <1>1, <1>5 DEF t

LEMMA Replacing ==
    ASSUME NEW X, NEW s \in Seq(X), NEW i \in 1..Len(s), NEW x \in X
    PROVE  LET t == [s EXCEPT ![i] = x] IN
           /\ t \in Seq(X) /\ Len(t) = Len(s) /\ t[i] = x
           /\ \A k \in 1..Len(s) : k # i => t[k] = s[k]
           /\ x \in ToSet(t) /\ ToSet(s) \subseteq ToSet(t) \cup {s[i]}
<1> DEFINE t == [s EXCEPT ![i] = x]
<1>1. s \in [1..Len(s) -> X] /\ Len(s) \in Nat
  OBVIOUS
<1>2. t \in [1..Len(s) -> X] /\ t[i] = x /\ \A k \in 1..Len(s) : k # i => t[k] = s[k]
  BY <1>1
<1> HIDE DEF t
<1>3. t \in Seq(X) /\ Len(t) = Len(s)
  BY <1>1, <1>2
<1>4. DOMAIN s = 1..Len(s) /\ DOMAIN t = 1..Len(s)
  BY <1>1, <1>2
<1>5. x \in ToSet(t) /\ ToSet(s) \subseteq ToSet(t) \cup {s[i]}
  BY <1>2, <1>4 DEF ToSet
<1> QED BY <1>2, <1>3, <1>5 DEF t

LEMMA Removing ==
    ASSUME NEW X, NEW s \in Seq(X), NEW i \in 1..Len(s)
    PROVE  /\ ToSet(s) \subseteq ToSet(RemoveAt(s, i)) \cup {s[i]}
           /\ ToSet(RemoveAt(s, i)) \subseteq ToSet(s)
<1> DEFINE t == RemoveAt(s, i)
<1>1. /\ t \in Seq(X) /\ Len(t) = Len(s) - 1
      /\ \A k \in 1..Len(s) - 1 : t[k] = IF k < i THEN s[k] ELSE s[k + 1]
  BY WithoutOne
<1> HIDE DEF t
<1>2. Len(s) \in Nat /\ DOMAIN s = 1..Len(s) /\ DOMAIN t = 1..Len(s) - 1
  BY <1>1
<1>3. ASSUME NEW k \in 1..Len(s), k # i PROVE s[k] \in ToSet(t)
  <2>1. CASE k < i
    <3>1. k \in 1..Len(s) - 1
      BY <1>2, <2>1
    <3> QED BY <1>1, <1>2, <2>1, <3>1 DEF ToSet
  <2>2. CASE k > i
    <3>1. k - 1 \in 1..Len(s) - 1 /\ ~ (k - 1 < i) /\ (k - 1) + 1 = k
      BY <1>2, <2>2
    <3>2. t[k - 1] = s[k]
      BY <1>1, <3>1
    <3> QED BY <1>2, <3>1, <3>2 DEF ToSet
  <2> QED BY <1>2, <1>3, <2>1, <2>2
<1>4. ASSUME NEW k \in 1..Len(s) - 1 PROVE t[k] \in ToSet(s)
  <2>1. k \in 1..Len(s) /\ k + 1 \in 1..Len(s)
    BY <1>2
  <2> QED BY <1>1, <1>2, <2>1 DEF ToSet
<1>5. ToSet(s) \subseteq ToSet(t) \cup {s[i]}
  BY <1>2, <1>3 DEF ToSet
<1>6. ToSet(t) \subseteq ToSet(s)
  BY <1>2, <1>4 DEF ToSet
<1> QED BY <1>5, <1>6 DEF t

LEMMA Joining ==
    ASSUME NEW X, NEW s \in Seq(X), NEW t \in Seq(X)
    PROVE  s \o t \in Seq(X) /\ Len(s \o t) = Len(s) + Len(t)
BY ConcatProperties

\* What f reads of the sequence s, part by part: those keep says.
Reads(f, s, keep, n) ==
    f = [m \in 0..n |->
            IF m = 0 THEN <<>>
            ELSE IF keep[m] THEN Append(f[m - 1], s[m]) ELSE f[m - 1]]

LEMMA Reading ==
    ASSUME NEW s, NEW keep, NEW n \in Nat
    PROVE  \E f : Reads(f, s, keep, n)
<1> DEFINE Bad == {m \in Nat : ~ \E f : Reads(f, s, keep, m)}
           After(f, m) == IF keep[m] THEN Append(f[m - 1], s[m]) ELSE f[m - 1]
<1>1. SUFFICES ASSUME Bad # {} PROVE FALSE
  OBVIOUS
<1>2. PICK m \in Bad : \A k \in Bad : m <= k
  BY <1>1, Least
<1>3. CASE m = 0
  <2>1. Reads([k \in 0..m |-> <<>>], s, keep, m)
    BY <1>3 DEF Reads
  <2> QED BY <2>1
<1>4. CASE m > 0
  <2>1. m - 1 \in Nat /\ m - 1 \notin Bad
    BY <1>2, <1>4
  <2>2. PICK f : Reads(f, s, keep, m - 1)
    BY <2>1
  <2> DEFINE g == [k \in 0..m |-> IF k = m THEN After(f, m) ELSE f[k]]
             h == [k \in 0..m |-> IF k = 0 THEN <<>> ELSE After(g, k)]
  <2>3. ASSUME NEW k \in 0..m PROVE g[k] = h[k]
    <3>1. CASE k = m
      <4>1. g[k - 1] = f[k - 1]
        BY <1>4, <3>1
      <4> QED BY <1>4, <3>1, <4>1
    <3>2. CASE k # m
      <4>1. k \in 0..m - 1 /\ (k # 0 => k - 1 \in 0..m - 1)
        BY <3>2
      <4>2. f[k] = IF k = 0 THEN <<>> ELSE After(f, k)
        BY <2>2, <4>1 DEF Reads
      <4>3. g[k] = f[k] /\ (k # 0 => g[k - 1] = f[k - 1])
        BY <3>2, <4>1
      <4> QED BY <4>2, <4>3
    <3> QED BY <3>1, <3>2
  <2>4. g = h
    BY <2>3
  <2>5. Reads(g, s, keep, m)
    BY <2>4 DEF Reads
  <2> QED BY <2>5
<1> QED BY <1>3, <1>4

\* What has been read after m parts.
HasRead(f, X, s, keep, m) ==
    /\ f[m] \in Seq(X)
    /\ ToSet(f[m]) = {s[i] : i \in {j \in 1..m : keep[j]}}

LEMMA ReadIs ==
    ASSUME NEW X, NEW s \in Seq(X), NEW keep, NEW f, Reads(f, s, keep, Len(s)),
           NEW n \in 0..Len(s)
    PROVE  HasRead(f, X, s, keep, n)
<1> DEFINE Taken(m) == {s[i] : i \in {j \in 1..m : keep[j]}}
           Bad == {m \in 0..Len(s) : ~HasRead(f, X, s, keep, m)}
<1>1. Len(s) \in Nat /\ Bad \in SUBSET Nat
  OBVIOUS
<1>2. ASSUME Bad # {} PROVE FALSE
  <2>1. PICK m \in Bad : \A k \in Bad : m <= k
    BY <1>1, <1>2, Least, Zenon
  <2>2. m \in 0..Len(s) /\ ~HasRead(f, X, s, keep, m)
    BY <2>1
  <2>3. CASE m = 0
    <3>1. f[m] = <<>>
      BY <1>1, <2>3 DEF Reads
    <3>2. ToSet(f[m]) = {} /\ Taken(m) = {}
      BY <2>3, <3>1 DEF ToSet
    <3>3. <<>> \in Seq(X)
      OBVIOUS
    <3> HIDE DEF Taken, Bad
    <3>4. ToSet(f[m]) = {s[i] : i \in {j \in 1..m : keep[j]}}
      BY <3>2 DEF Taken
    <3> QED BY <2>2, <3>1, <3>3, <3>4 DEF HasRead
  <2>4. CASE m # 0
    <3>1. m \in 1..Len(s) /\ m - 1 \in 0..Len(s) /\ m - 1 \notin Bad
      BY <1>1, <2>1, <2>4
    <3>2. HasRead(f, X, s, keep, m - 1)
      BY <3>1
    <3> HIDE DEF Bad
    <3>3. f[m - 1] \in Seq(X) /\ ToSet(f[m - 1]) = Taken(m - 1)
      BY <3>2 DEF HasRead
    <3>4. f[m] = IF keep[m] THEN Append(f[m - 1], s[m]) ELSE f[m - 1]
      BY <1>1, <2>2, <2>4 DEF Reads
    <3>5. \A j : j \in 1..m <=> j \in 1..m - 1 \/ j = m
      BY <1>1, <3>1
    <3>6. CASE ~keep[m]
      <4>1. {j \in 1..m : keep[j]} = {j \in 1..m - 1 : keep[j]}
        BY <3>5, <3>6
      <4>2. Taken(m) = Taken(m - 1)
        BY <4>1
      <4> QED BY <2>2, <3>3, <3>4, <3>6, <4>2 DEF HasRead, Taken
    <3>7. CASE keep[m]
      <4>1. {j \in 1..m : keep[j]} = {j \in 1..m - 1 : keep[j]} \cup {m}
        BY <3>5, <3>7
      <4>2. Taken(m) = Taken(m - 1) \cup {s[m]}
        BY <4>1
      <4>3. s[m] \in X
        BY <3>1
      <4> HIDE DEF Taken
      <4>4. f[m] \in Seq(X) /\ ToSet(f[m]) = ToSet(f[m - 1]) \cup {s[m]}
        BY <3>3, <3>4, <3>7, <4>3, Appending
      <4>5. ToSet(f[m]) = Taken(m)
        BY <3>3, <4>2, <4>4
      <4> QED BY <2>2, <4>4, <4>5 DEF HasRead, Taken
    <3> QED BY <3>6, <3>7
  <2> QED BY <2>3, <2>4
<1> QED BY <1>2

-----------------------------------------------------------------------------
(* The map of rules.                                                        *)

LEMMA PutIs ==
    ASSUME NEW rules, NEW key, NEW rule
    PROVE  /\ DOMAIN Put(rules, key, rule) = DOMAIN rules \cup {key}
           /\ Put(rules, key, rule)[key] = rule
           /\ \A k \in DOMAIN rules : k # key => Put(rules, key, rule)[k] = rules[k]
BY DEF Put

LEMMA WithoutIs ==
    ASSUME NEW rules, NEW keys
    PROVE  /\ DOMAIN Without(rules, keys) = DOMAIN rules \ keys
           /\ \A k \in DOMAIN rules : k \notin keys => Without(rules, keys)[k] = rules[k]
BY DEF Without, Restrict

LEMMA RulesAre ==
    ASSUME NEW rules \in Rules
    PROVE  /\ DOMAIN rules \subseteq Text
           /\ \A k \in DOMAIN rules : rules[k] \in RuleValue
<1>1. PICK S \in SUBSET Text : rules \in [S -> RuleValue]
  BY DEF Rules
<1> QED BY <1>1

LEMMA AreRules ==
    ASSUME NEW S \in SUBSET Text, NEW f \in [S -> RuleValue]
    PROVE  f \in Rules
BY DEF Rules

LEMMA NoRules == <<>> \in Rules
BY DEF Rules

LEMMA PutRule ==
    ASSUME NEW rules \in Rules, NEW key \in Text, NEW rule \in RuleValue
    PROVE  Put(rules, key, rule) \in Rules
<1>1. DOMAIN rules \cup {key} \in SUBSET Text
  BY RulesAre
<1>2. Put(rules, key, rule) \in [DOMAIN rules \cup {key} -> RuleValue]
  BY RulesAre DEF Put
<1> QED BY <1>1, <1>2, AreRules

LEMMA WithoutRules ==
    ASSUME NEW rules \in Rules, NEW keys
    PROVE  Without(rules, keys) \in Rules
<1>1. DOMAIN rules \ keys \in SUBSET Text
  BY RulesAre
<1>2. Without(rules, keys) \in [DOMAIN rules \ keys -> RuleValue]
  BY RulesAre DEF Without, Restrict
<1> QED BY <1>1, <1>2, AreRules

-----------------------------------------------------------------------------
(* The keys of the rules, by recursion over KeyOrder.                       *)

AreKeys(f, rules, n) ==
    f = [m \in 0..n |->
            IF m = 0 THEN <<>>
            ELSE IF KeyOrder[m] \in DOMAIN rules THEN Append(f[m - 1], KeyOrder[m])
            ELSE f[m - 1]]

LEMMA KeysAreRead ==
    ASSUME NEW rules, NEW n \in Nat, NEW f
    PROVE  AreKeys(f, rules, n)
             <=> Reads(f, KeyOrder, [m \in 1..n |-> KeyOrder[m] \in DOMAIN rules], n)
<1> DEFINE keep == [m \in 1..n |-> KeyOrder[m] \in DOMAIN rules]
           g == [m \in 0..n |->
                   IF m = 0 THEN <<>>
                   ELSE IF KeyOrder[m] \in DOMAIN rules THEN Append(f[m - 1], KeyOrder[m])
                   ELSE f[m - 1]]
           h == [m \in 0..n |->
                   IF m = 0 THEN <<>>
                   ELSE IF keep[m] THEN Append(f[m - 1], KeyOrder[m]) ELSE f[m - 1]]
<1>1. ASSUME NEW m \in 0..n PROVE g[m] = h[m]
  <2>1. m # 0 => keep[m] = (KeyOrder[m] \in DOMAIN rules)
    OBVIOUS
  <2> HIDE DEF keep
  <2> QED BY <2>1
<1>2. g = h
  BY <1>1
<1> QED BY <1>2 DEF AreKeys, Reads

LEMMA KeysAreTexts ==
    ASSUME NEW rules
    PROVE  Keys(rules) \in Seq(Text)
<1> DEFINE n == Len(KeyOrder)
           keep == [m \in 1..n |-> KeyOrder[m] \in DOMAIN rules]
           keys == CHOOSE f : AreKeys(f, rules, n)
<1>1. KeyOrder \in Seq(Text) /\ n \in Nat
  BY RuleEditorAssumption
<1>2. Keys(rules) = keys[n]
  BY DEF Keys, AreKeys
<1>3. \E f : AreKeys(f, rules, n)
  <2>1. \E f : Reads(f, KeyOrder, keep, n)
    BY <1>1, Reading
  <2> QED BY <1>1, <2>1, KeysAreRead
<1>4. Reads(keys, KeyOrder, keep, n)
  <2>1. AreKeys(keys, rules, n)
    BY <1>3
  <2> HIDE DEF keys
  <2> QED BY <1>1, <2>1, KeysAreRead
<1> HIDE DEF keys, keep
<1>5. HasRead(keys, Text, KeyOrder, keep, n)
  BY <1>1, <1>4, ReadIs
<1> QED BY <1>2, <1>5 DEF HasRead

-----------------------------------------------------------------------------
(* A dialog.                                                                *)

\* What the widgets of a rule can show.
BoxDetail == {detail \in Detail : Offered(detail)}

LEMMA DefaultIsOffered == Default \in BoxDetail
BY RuleEditorAssumption DEF BoxDetail

DialogState ==
    [state : {"closed", "open", "accepted", "rejected"}, list : Seq(Text), row : Nat,
     torrent_rules : Rules, current_rule : Text, title : Typed, regex : Typed,
     detail : BoxDetail, basic : BOOLEAN]

Proper(D) == D \in DialogState /\ WellNamed(D.torrent_rules)

LEMMA BoxIs ==
    ASSUME NEW D \in DialogState, NEW detail \in Detail
    PROVE  /\ InBox(D, detail) \in BoxDetail
           /\ Offered(detail) => InBox(D, detail) = detail
<1>1. D.detail \in Detail /\ D.detail.resolution \in Items
  BY DEF DialogState, BoxDetail, Offered
<1>2. CASE Offered(detail)
  BY <1>2 DEF InBox, BoxDetail
<1>3. CASE ~Offered(detail)
  <2>1. InBox(D, detail) = [detail EXCEPT !.resolution = D.detail.resolution]
    BY <1>3 DEF InBox
  <2>2. InBox(D, detail) \in Detail /\ InBox(D, detail).resolution = D.detail.resolution
    BY <1>1, <2>1 DEF Detail
  <2> QED BY <1>1, <1>3, <2>2 DEF BoxDetail, Offered
<1> QED BY <1>2, <1>3

\* The key of the rule in the fields when it is put back.
Key(D) == IF FieldName(D) = Empty THEN New ELSE FieldName(D)

LEMMA FieldsAre ==
    ASSUME NEW D \in DialogState
    PROVE  /\ Key(D) \in Text /\ FieldName(D) \in Text /\ FieldName(D) \in Typed
           /\ FieldRule(D) \in RuleValue
           /\ FieldRule(D).detail = IF D.basic THEN D.detail ELSE Default
           /\ FieldRule(D).name = FieldName(D)
           /\ FieldRule(D).type = IF D.basic THEN "basic" ELSE "advanced"
<1>1. /\ D.title \in Typed /\ D.regex \in Typed /\ D.detail \in Detail
      /\ D.basic \in BOOLEAN /\ Default \in Detail
  BY DefaultIsOffered DEF DialogState, BoxDetail
<1>2. FieldName(D) \in Typed
  BY <1>1 DEF FieldName
<1>3. Typed \subseteq Text /\ New \in Text
  BY DEF Typed, Text
<1>4. CASE D.basic
  <2>1. FieldRule(D) = [type |-> "basic", name |-> D.title, detail |-> D.detail]
    BY <1>4 DEF FieldRule
  <2>2. FieldRule(D) \in RuleValue
    BY <1>1, <2>1 DEF RuleValue, Typed
  <2> QED BY <1>2, <1>3, <1>4, <2>1, <2>2 DEF Key, FieldName
<1>5. CASE ~D.basic
  <2>1. FieldRule(D) = [type |-> "advanced", name |-> D.regex, detail |-> Default]
    BY <1>5 DEF FieldRule
  <2>2. FieldRule(D) \in RuleValue
    BY <1>1, <2>1 DEF RuleValue, Typed
  <2> QED BY <1>2, <1>3, <1>5, <2>1, <2>2 DEF Key, FieldName
<1> QED BY <1>4, <1>5

\* A rule is put where one of its name belongs.
LEMMA PutIsWellNamed ==
    ASSUME NEW D \in DialogState, NEW rules \in Rules, WellNamed(rules),
           NEW key \in Text, key = FieldName(D) \/ key = Key(D)
    PROVE  WellNamed(Put(rules, key, FieldRule(D)))
<1> DEFINE rule == FieldRule(D)
           after == Put(rules, key, rule)
<1>1. rule.name = FieldName(D) /\ FieldName(D) \in Typed
  <2> HIDE DEF rule
  <2>1. FieldName(D) \in Typed
    BY FieldsAre
  <2>2. FieldRule(D).name = FieldName(D)
    BY FieldsAre
  <2> QED BY <2>1, <2>2 DEF rule
<1>2. rule.name = IF key \in Name THEN key ELSE Empty
  <2> HIDE DEF rule
  <2>1. Empty \notin Name /\ New \notin Name
    BY RuleEditorAssumption
  <2>2. CASE FieldName(D) = Empty
    BY <1>1, <2>1, <2>2 DEF Key
  <2>3. CASE FieldName(D) # Empty
    <3>1. key = FieldName(D) /\ key \in Name
      BY <1>1, <2>3 DEF Key, Typed
    <3> QED BY <1>1, <3>1
  <2> QED BY <2>2, <2>3
<1> HIDE DEF rule
<1>3. /\ DOMAIN after = DOMAIN rules \cup {key}
      /\ after[key] = rule
      /\ \A k \in DOMAIN rules : k # key => after[k] = rules[k]
  BY DEF Put
<1> HIDE DEF after
<1>4. ASSUME NEW k \in DOMAIN after, after[k].type = "basic"
      PROVE  after[k].name = IF k \in Name THEN k ELSE Empty
  <2>1. CASE k = key
    BY <1>2, <1>3, <2>1
  <2>2. CASE k # key
    <3>1. k \in DOMAIN rules /\ after[k] = rules[k]
      BY <1>3, <2>2
    <3>2. rules[k].type = "basic"
      BY <1>4, <3>1
    <3> QED BY <3>1, <3>2 DEF WellNamed
  <2> QED BY <2>1, <2>2
<1>5. WellNamed(after)
  BY <1>4 DEF WellNamed
<1> QED BY <1>5 DEF after, rule

LEMMA WithoutIsWellNamed ==
    ASSUME NEW rules, WellNamed(rules), NEW keys
    PROVE  WellNamed(Without(rules, keys))
<1> DEFINE after == Without(rules, keys)
<1>1. /\ DOMAIN after = DOMAIN rules \ keys
      /\ \A k \in DOMAIN rules : k \notin keys => after[k] = rules[k]
  BY WithoutIs
<1> HIDE DEF after
<1>2. WellNamed(after)
  BY <1>1 DEF WellNamed
<1> QED BY <1>2 DEF after

LEMMA CommittedIs ==
    ASSUME NEW D, Proper(D)
    PROVE  LET E == Committed(D) IN
           /\ Proper(E)
           /\ E.state = D.state /\ E.row = D.row /\ E.current_rule = D.current_rule
           /\ E.title = D.title /\ E.regex = D.regex /\ E.detail = D.detail
           /\ E.basic = D.basic
           /\ Len(E.list) = Len(D.list)
           /\ E.torrent_rules =
                IF D.current_rule = Empty THEN D.torrent_rules
                ELSE Put(Without(D.torrent_rules, {D.current_rule}), Key(D), FieldRule(D))
<1>1. D \in DialogState /\ D.torrent_rules \in Rules /\ WellNamed(D.torrent_rules)
      /\ D.list \in Seq(Text)
  BY DEF Proper, DialogState
<1>2. CASE D.current_rule = Empty
  BY <1>2 DEF Committed
<1>3. CASE D.current_rule # Empty
  <2> DEFINE rules == Put(Without(D.torrent_rules, {D.current_rule}), Key(D), FieldRule(D))
             list == [D.list EXCEPT ![Found(D)] = Key(D)]
  <2>1. Key(D) \in Text /\ FieldRule(D) \in RuleValue
    BY <1>1, FieldsAre
  <2>2. rules \in Rules
    BY <1>1, <2>1, PutRule, WithoutRules
  <2>3. WellNamed(rules)
    <3> DEFINE others == Without(D.torrent_rules, {D.current_rule})
    <3>1. WellNamed(others)
      BY <1>1, WithoutIsWellNamed
    <3>2. others \in Rules
      BY <1>1, WithoutRules
    <3> HIDE DEF others
    <3>3. WellNamed(Put(others, Key(D), FieldRule(D)))
      BY <1>1, <2>1, <3>1, <3>2, PutIsWellNamed
    <3> QED BY <3>3 DEF others
  <2>4. list \in Seq(Text) /\ Len(list) = Len(D.list)
    <3>1. D.list \in [1..Len(D.list) -> Text] /\ Len(D.list) \in Nat
      BY <1>1
    <3>2. list \in [1..Len(D.list) -> Text]
      BY <2>1, <3>1
    <3> HIDE DEF list
    <3>3. list \in Seq(Text)
      BY <3>1, <3>2
    <3> QED BY <3>1, <3>2, <3>3
  <2>5. Committed(D) = [D EXCEPT !.torrent_rules = rules, !.list = list]
    BY <1>1, <1>3 DEF Committed, Key, DialogState
  <2> HIDE DEF rules, list
  <2>6. Committed(D) \in DialogState
    BY <1>1, <2>2, <2>4, <2>5 DEF DialogState
  <2>7. Committed(D).torrent_rules = rules /\ Committed(D).list = list
    BY <1>1, <2>5 DEF DialogState
  <2>8. LET E == Committed(D) IN
        /\ E.state = D.state /\ E.row = D.row /\ E.current_rule = D.current_rule
        /\ E.title = D.title /\ E.regex = D.regex /\ E.detail = D.detail
        /\ E.basic = D.basic
    BY <1>1, <2>5 DEF DialogState
  <2> QED BY <1>3, <2>3, <2>4, <2>6, <2>7, <2>8 DEF rules, Proper
<1> QED BY <1>2, <1>3

\* Rules that a dialog must not lose, by name: all are basic.
AreBasic(kept) ==
    \A name \in DOMAIN kept :
        /\ name \in Name /\ kept[name] \in RuleValue
        /\ kept[name].type = "basic" /\ kept[name].name = name

Stored(rules, kept) ==
    \A name \in DOMAIN kept : name \in DOMAIN rules /\ rules[name] = kept[name]

\* Each is in the map, or in the fields and about to be put there; and what
\* is in the fields cannot be put in its place.
Held(D, kept) ==
    /\ D.title \in DOMAIN kept => D.detail = kept[D.title].detail
    /\ D.current_rule \in DOMAIN kept => D.basic /\ D.title = D.current_rule
    /\ ~D.basic => D.regex \notin DOMAIN kept
    /\ \A name \in DOMAIN kept :
          \/ name \in DOMAIN D.torrent_rules /\ D.torrent_rules[name] = kept[name]
          \/ D.current_rule # Empty /\ D.basic /\ D.title = name

\* What is put back is what was to be kept.
LEMMA PutBackKeeps ==
    ASSUME NEW D \in DialogState, D.current_rule # Empty,
           NEW kept, AreBasic(kept), Held(D, kept),
           NEW key, key = FieldName(D) \/ key = Key(D)
    PROVE  Stored(Put(Without(D.torrent_rules, {D.current_rule}), key, FieldRule(D)), kept)
<1> DEFINE others == Without(D.torrent_rules, {D.current_rule})
           after == Put(others, key, FieldRule(D))
<1>1. ASSUME NEW name \in DOMAIN kept
      PROVE  name \in DOMAIN after /\ after[name] = kept[name]
  <2>1. name \in Name /\ kept[name] \in RuleValue
        /\ kept[name].type = "basic" /\ kept[name].name = name
    BY <1>1 DEF AreBasic
  <2>2. name # Empty /\ name # New
    BY <2>1, RuleEditorAssumption
  <2>3. CASE name = key
    <3>1. FieldName(D) = name
      BY <2>2, <2>3 DEF Key
    <3>2. D.basic
      BY <3>1, <1>1 DEF Held, FieldName
    <3>3. D.title = name /\ D.detail = kept[name].detail
      BY <1>1, <3>1, <3>2 DEF Held, FieldName
    <3>4. FieldRule(D) = [type |-> "basic", name |-> name, detail |-> kept[name].detail]
      BY <3>2, <3>3 DEF FieldRule
    <3>5. kept[name] = [type |-> "basic", name |-> name, detail |-> kept[name].detail]
      BY <2>1 DEF RuleValue
    <3>6. key \in DOMAIN after /\ after[key] = FieldRule(D)
      BY DEF Put
    <3> QED BY <2>3, <3>4, <3>5, <3>6
  <2>4. CASE name # key
    <3>1. ~(D.basic /\ D.title = name)
      BY <2>2, <2>4 DEF Key, FieldName
    <3>2. name # D.current_rule
      BY <1>1, <3>1 DEF Held
    <3>3. name \in DOMAIN D.torrent_rules /\ D.torrent_rules[name] = kept[name]
      BY <1>1, <3>1 DEF Held
    <3>4. name \in DOMAIN others /\ others[name] = D.torrent_rules[name]
      BY <3>2, <3>3 DEF Without, Restrict
    <3> HIDE DEF others
    <3>5. name \in DOMAIN after /\ after[name] = others[name]
      BY <2>4, <3>4 DEF Put
    <3> QED BY <3>3, <3>4, <3>5
  <2> QED BY <2>3, <2>4
<1> HIDE DEF after
<1>2. Stored(after, kept)
  BY <1>1 DEF Stored
<1> QED BY <1>2 DEF after

LEMMA CommittedKeeps ==
    ASSUME NEW D, Proper(D), NEW kept, AreBasic(kept), Held(D, kept)
    PROVE  /\ Stored(Committed(D).torrent_rules, kept)
           /\ D.title \in DOMAIN kept => D.detail = kept[D.title].detail
<1>1. D \in DialogState
  BY DEF Proper
<1>2. CASE D.current_rule = Empty
  <2>1. Committed(D).torrent_rules = D.torrent_rules
    BY <1>2 DEF Committed
  <2> QED BY <1>2, <2>1 DEF Held, Stored
<1>3. CASE D.current_rule # Empty
  <2>1. Stored(Put(Without(D.torrent_rules, {D.current_rule}), Key(D), FieldRule(D)), kept)
    BY <1>1, <1>3, PutBackKeeps
  <2>2. Committed(D).torrent_rules
          = Put(Without(D.torrent_rules, {D.current_rule}), Key(D), FieldRule(D))
    BY <1>3, CommittedIs
  <2> QED BY <2>1, <2>2 DEF Held
<1> QED BY <1>2, <1>3

\* The rule that a row shows.
RuleOf(D, key) == IF key \in DOMAIN D.torrent_rules THEN D.torrent_rules[key] ELSE NewRule

LEMMA ShownIs ==
    ASSUME NEW D, Proper(D), NEW row \in 1..Len(D.list)
    PROVE  LET E == Shown(D, row) IN
           /\ Proper(E)
           /\ E.state = D.state /\ E.list = D.list /\ E.torrent_rules = D.torrent_rules
           /\ E.row = row /\ E.current_rule = D.list[row] /\ E.basic
           /\ E.title = IF RuleOf(D, D.list[row]).type = "basic"
                        THEN RuleOf(D, D.list[row]).name ELSE D.title
           /\ E.detail = IF RuleOf(D, D.list[row]).type = "basic"
                         THEN InBox(D, RuleOf(D, D.list[row]).detail) ELSE D.detail
<1> DEFINE key == D.list[row]
           rule == RuleOf(D, key)
           title == IF rule.type = "basic" THEN rule.name ELSE D.title
           detail == IF rule.type = "basic" THEN InBox(D, rule.detail) ELSE D.detail
           regex == IF rule.type = "advanced" THEN rule.name
                    ELSE IF rule.type = "basic" THEN D.regex ELSE Empty
<1>1. D \in DialogState /\ D.torrent_rules \in Rules /\ WellNamed(D.torrent_rules)
      /\ D.list \in Seq(Text) /\ D.title \in Typed /\ D.regex \in Typed
      /\ D.detail \in BoxDetail
  BY DEF Proper, DialogState
<1>2. row \in Nat /\ key \in Text
  BY <1>1
<1>3. rule.type \in {"basic", "advanced"} => rule.name \in Typed /\ rule.detail \in Detail
  <2>1. CASE key \in DOMAIN D.torrent_rules
    <3>1. rule \in RuleValue
      BY <1>1, <2>1, RulesAre DEF RuleOf
    <3> HIDE DEF rule
    <3> QED BY <3>1 DEF RuleValue, Typed
  <2>2. CASE key \notin DOMAIN D.torrent_rules
    <3>1. rule.type = "none"
      BY <2>2 DEF RuleOf, NewRule
    <3> HIDE DEF rule
    <3> QED BY <3>1
  <2> QED BY <2>1, <2>2
<1>4. Shown(D, row) = [D EXCEPT !.row = row, !.current_rule = key, !.basic = TRUE,
                                !.title = title, !.detail = detail, !.regex = regex]
  BY <1>1 DEF Shown, RuleOf, DialogState
<1> HIDE DEF rule, key
<1>5. title \in Typed /\ detail \in BoxDetail /\ regex \in Typed
  BY <1>1, <1>3, BoxIs DEF Typed
<1> HIDE DEF title, detail, regex
<1>6. Shown(D, row) \in DialogState
  BY <1>1, <1>2, <1>4, <1>5 DEF DialogState
<1>7. LET E == Shown(D, row) IN
      /\ E.state = D.state /\ E.list = D.list /\ E.torrent_rules = D.torrent_rules
      /\ E.row = row /\ E.current_rule = key /\ E.basic
      /\ E.title = title /\ E.detail = detail
  BY <1>1, <1>4 DEF DialogState
<1>8. Proper(Shown(D, row))
  BY <1>1, <1>6, <1>7 DEF Proper
<1> QED BY <1>7, <1>8 DEF title, detail, rule, key

AllOffered(kept) == \A name \in DOMAIN kept : Offered(kept[name].detail)

\* The rule that E shows is one that the box has, if it must not be lost.
Fits(E, kept) == AllOffered(kept) \/ Misfit(E) \cap DOMAIN kept = {}

LEMMA ShownKeeps ==
    ASSUME NEW D, Proper(D), NEW row \in 1..Len(D.list),
           NEW kept, AreBasic(kept), Stored(D.torrent_rules, kept),
           D.title \in DOMAIN kept => D.detail = kept[D.title].detail,
           Fits(Shown(D, row), kept)
    PROVE  Held(Shown(D, row), kept)
<1> DEFINE E == Shown(D, row)
           key == D.list[row]
           rule == RuleOf(D, key)
<1>1. /\ E.torrent_rules = D.torrent_rules /\ E.current_rule = key /\ E.basic
      /\ E.title = IF rule.type = "basic" THEN rule.name ELSE D.title
      /\ E.detail = IF rule.type = "basic" THEN InBox(D, rule.detail) ELSE D.detail
      /\ Fits(E, kept)
  BY ShownIs
<1> HIDE DEF E
<1>2. ASSUME key \in DOMAIN kept
      PROVE  /\ rule = kept[key] /\ rule.type = "basic" /\ rule.name = key
             /\ InBox(D, rule.detail) = rule.detail
  <2>1. key \in DOMAIN D.torrent_rules /\ D.torrent_rules[key] = kept[key]
    BY <1>2 DEF Stored
  <2>2. Offered(kept[key].detail)
    <3>1. ~Offered(kept[key].detail) => key \in Misfit(E)
      BY <1>1, <2>1 DEF Misfit
    <3> QED BY <1>1, <1>2, <3>1 DEF Fits, AllOffered
  <2>3. kept[key].detail \in Detail /\ D \in DialogState
    BY <1>2 DEF AreBasic, RuleValue, Proper
  <2>4. InBox(D, kept[key].detail) = kept[key].detail
    BY <2>2, <2>3, BoxIs
  <2> QED BY <1>2, <2>1, <2>4 DEF AreBasic, RuleOf
<1>3. ASSUME E.title \in DOMAIN kept PROVE E.detail = kept[E.title].detail
  <2>1. CASE rule.type = "basic"
    <3>1. key \in DOMAIN D.torrent_rules /\ rule = D.torrent_rules[key]
      BY <2>1 DEF RuleOf, NewRule
    <3>2. rule.name = IF key \in Name THEN key ELSE Empty
      BY <2>1, <3>1 DEF Proper, WellNamed
    <3>3. E.title \in Name /\ Empty \notin Name
      BY <1>3, RuleEditorAssumption DEF AreBasic
    <3>4. E.title = key
      BY <1>1, <2>1, <3>2, <3>3
    <3> QED BY <1>1, <1>2, <1>3, <2>1, <3>4
  <2>2. CASE rule.type # "basic"
    BY <1>1, <1>3, <2>2
  <2> QED BY <2>1, <2>2
<1>4. ASSUME E.current_rule \in DOMAIN kept PROVE E.basic /\ E.title = E.current_rule
  BY <1>1, <1>2, <1>4
<1>5. \A name \in DOMAIN kept :
          name \in DOMAIN E.torrent_rules /\ E.torrent_rules[name] = kept[name]
  BY <1>1 DEF Stored
<1>6. Held(E, kept)
  BY <1>1, <1>3, <1>4, <1>5 DEF Held
<1> QED BY <1>6 DEF E

\* A row is the current one, and the rule it names.
InRow(D) ==
    D.row \in 1..Len(D.list) /\ D.current_rule = D.list[D.row] /\ D.basic

Keeps(D, kept) == Held(D, kept) /\ Stored(D.torrent_rules, kept)

LEMMA ChangedIs ==
    ASSUME NEW D, Proper(D), NEW row \in 1..Len(D.list)
    PROVE  LET E == Changed(D, row) IN
           /\ Proper(E) /\ InRow(E)
           /\ E.state = D.state /\ E.row = row /\ Len(E.list) = Len(D.list)
           /\ E.torrent_rules = Committed(D).torrent_rules
           /\ E.list = Committed(D).list
<1> DEFINE C == Committed(D)
           E == Shown(C, row)
<1>1. Proper(C) /\ C.state = D.state /\ Len(C.list) = Len(D.list)
  BY CommittedIs
<1>2. Changed(D, row) = E
  BY DEF Changed
<1> HIDE DEF C
<1>3. row \in 1..Len(C.list)
  BY <1>1
<1>4. /\ Proper(E) /\ E.state = C.state /\ E.list = C.list /\ E.row = row /\ E.basic
      /\ E.current_rule = C.list[row] /\ E.torrent_rules = C.torrent_rules
  BY <1>1, <1>3, ShownIs
<1> HIDE DEF E
<1>5. InRow(E)
  BY <1>3, <1>4 DEF InRow
<1> QED BY <1>1, <1>2, <1>4, <1>5 DEF C

LEMMA ChangedKeeps ==
    ASSUME NEW D, Proper(D), NEW row \in 1..Len(D.list),
           NEW kept, AreBasic(kept), Held(D, kept), Fits(Changed(D, row), kept)
    PROVE  Keeps(Changed(D, row), kept)
<1> DEFINE C == Committed(D)
<1>1. Proper(C) /\ C.title = D.title /\ C.detail = D.detail /\ Len(C.list) = Len(D.list)
  BY CommittedIs
<1>2. Stored(C.torrent_rules, kept) /\ (D.title \in DOMAIN kept => D.detail = kept[D.title].detail)
  BY CommittedKeeps
<1>3. Changed(D, row) = Shown(C, row)
  BY DEF Changed
<1>4. Changed(D, row).torrent_rules = C.torrent_rules
  BY ChangedIs
<1> HIDE DEF C
<1>5. row \in 1..Len(C.list) /\ (C.title \in DOMAIN kept => C.detail = kept[C.title].detail)
  BY <1>1, <1>2
<1>6. Held(Shown(C, row), kept)
  BY <1>1, <1>2, <1>3, <1>5, ShownKeeps
<1> QED BY <1>2, <1>3, <1>4, <1>6 DEF Keeps

\* Fields that neither keep a rule nor lose one.
LEMMA KeepsIn ==
    ASSUME NEW D, NEW E, NEW kept, Keeps(D, kept),
           E.torrent_rules = D.torrent_rules, E.current_rule = D.current_rule,
           E.title = D.title, E.detail = D.detail, E.regex = D.regex, E.basic = D.basic
    PROVE  Keeps(E, kept)
BY DEF Keeps, Held

LEMMA RemovedIs ==
    ASSUME NEW D, Proper(D), D.row \in 1..Len(D.list), Len(D.list) > 1
    PROVE  LET E == Removed(D) IN
           /\ Proper(E) /\ InRow(E) /\ E.state = D.state /\ Len(E.list) = Len(D.list) - 1
           /\ \A kept : AreBasic(kept) /\ Held(D, kept) /\ Fits(E, kept) => Keeps(E, kept)
<1> DEFINE next == Neighbour(D)
           C == Changed(D, next)
           list == RemoveAt(C.list, D.row)
           row == IF next > D.row THEN next - 1 ELSE next
           E == [C EXCEPT !.list = list, !.row = row]
<1>1. D.list \in Seq(Text) /\ Len(D.list) \in Nat /\ D.row \in Nat
  BY DEF Proper, DialogState
<1>2. next \in 1..Len(D.list) /\ row \in 1..Len(D.list) - 1
      /\ next = IF row < D.row THEN row ELSE row + 1
  BY <1>1 DEF Neighbour
<1>3. Proper(C) /\ InRow(C) /\ C.state = D.state /\ C.row = next /\ Len(C.list) = Len(D.list)
  BY <1>2, ChangedIs
<1>4. \A kept : AreBasic(kept) /\ Held(D, kept) /\ Fits(C, kept) => Keeps(C, kept)
  BY <1>2, ChangedKeeps
<1>5. C \in DialogState /\ C.list \in Seq(Text)
  BY <1>3 DEF Proper, DialogState
<1>6. Removed(D) = [C EXCEPT !.list = RemoveAt(@, D.row),
!.row = IF next > D.row THEN next - 1 ELSE next]
  BY DEF Removed
<1> HIDE DEF C, next
<1>7. Removed(D) = E
  BY <1>5, <1>6 DEF DialogState
<1>8. list \in Seq(Text) /\ Len(list) = Len(D.list) - 1 /\ list[row] = C.list[next]
  <2>1. D.row \in 1..Len(C.list)
    BY <1>3
  <2>2. list \in Seq(Text) /\ Len(list) = Len(C.list) - 1
    BY <1>5, <2>1, WithoutOne
  <2>3. \A k \in 1..Len(C.list) - 1 :
            list[k] = IF k < D.row THEN C.list[k] ELSE C.list[k + 1]
    BY <1>5, <2>1, WithoutOne
  <2> HIDE DEF list
  <2> QED BY <1>2, <1>3, <2>2, <2>3
<1> HIDE DEF list, row
<1>9. E \in DialogState
  <2>1. row \in Nat
    BY <1>1, <1>2
  <2> QED BY <1>5, <1>8, <2>1 DEF DialogState
<1>10. /\ E.list = list /\ E.row = row /\ E.state = C.state /\ E.basic = C.basic
       /\ E.torrent_rules = C.torrent_rules /\ E.current_rule = C.current_rule
       /\ E.title = C.title /\ E.detail = C.detail /\ E.regex = C.regex
  BY <1>5 DEF DialogState
<1> HIDE DEF E
<1>11. Proper(E) /\ InRow(E) /\ E.state = D.state /\ Len(E.list) = Len(D.list) - 1
  BY <1>2, <1>3, <1>8, <1>9, <1>10 DEF Proper, InRow
<1>12. ASSUME NEW kept, AreBasic(kept), Held(D, kept), Fits(E, kept) PROVE Keeps(E, kept)
  <2>1. Fits(C, kept)
    BY <1>10, <1>12 DEF Fits, Misfit
  <2> QED BY <1>4, <1>10, <1>12, <2>1, KeepsIn
<1> QED BY <1>7, <1>11, <1>12

\* The first row with the name of the current rule.
LEMMA FoundIs ==
    ASSUME NEW D \in DialogState
    PROVE  /\ Found(D) \in 0..Len(D.list)
           /\ Found(D) # 0 => D.list[Found(D)] = D.current_rule
           /\ \A r \in 1..Len(D.list) : D.list[r] = D.current_rule =>
                 Found(D) # 0 /\ Found(D) <= r
<1> DEFINE rows == {r \in 1..Len(D.list) : D.list[r] = D.current_rule}
<1>1. D.list \in Seq(Text) /\ Len(D.list) \in Nat
  BY DEF DialogState
<1>2. Found(D) = IF rows # {} THEN Min(rows) ELSE 0
  BY DEF Found, SelectInSeq
<1>3. rows \in SUBSET Nat
  BY <1>1
<1>4. rows # {} => Min(rows) \in rows
  <2> HIDE DEF rows
  <2> QED BY <1>3, MinIsInSet
<1>5. \A r \in rows : Min(rows) <= r
  <2> HIDE DEF rows
  <2> QED BY <1>3, MinIsLeast
<1>6. CASE rows = {}
  BY <1>1, <1>2, <1>6
<1>7. CASE rows # {}
  <2>1. Found(D) = Min(rows) /\ Found(D) \in rows
    BY <1>2, <1>4, <1>7
  <2>2. \A r \in rows : Found(D) <= r
    BY <1>5, <2>1
  <2>3. Found(D) \in 1..Len(D.list) /\ D.list[Found(D)] = D.current_rule
    BY <2>1
  <2>4. ASSUME NEW r \in 1..Len(D.list), D.list[r] = D.current_rule PROVE Found(D) <= r
    BY <2>2, <2>4
  <2> QED BY <1>1, <2>3, <2>4
<1> QED BY <1>6, <1>7

LEMMA WithRowIs ==
    ASSUME NEW D, Proper(D)
    PROVE  LET A == WithRow(D) IN
           /\ Proper(A) /\ Len(D.list) \in Nat /\ Len(A.list) = Len(D.list) + 1
           /\ A.list[Len(D.list) + 1] = New
           /\ \A r \in 1..Len(D.list) : A.list[r] = D.list[r]
           /\ A.state = D.state /\ A.torrent_rules = D.torrent_rules /\ A.row = D.row
           /\ A.current_rule = D.current_rule /\ A.title = D.title
           /\ A.detail = D.detail /\ A.regex = D.regex /\ A.basic = D.basic
<1> DEFINE list == Append(D.list, New)
<1>1. D \in DialogState /\ D.list \in Seq(Text) /\ WellNamed(D.torrent_rules)
  BY DEF Proper, DialogState
<1>2. New \in Text
  BY DEF Text
<1>3. /\ list \in Seq(Text) /\ Len(list) = Len(D.list) + 1 /\ Len(D.list) \in Nat
      /\ list[Len(D.list) + 1] = New
      /\ \A r \in 1..Len(D.list) : list[r] = D.list[r]
  BY <1>1, <1>2, AppendProperties
<1>4. WithRow(D) = [D EXCEPT !.list = list]
  BY <1>1 DEF WithRow, DialogState
<1> HIDE DEF list
<1>5. WithRow(D) \in DialogState
  BY <1>1, <1>3, <1>4 DEF DialogState
<1>6. LET A == WithRow(D) IN
      /\ A.list = list /\ A.state = D.state /\ A.torrent_rules = D.torrent_rules
      /\ A.row = D.row /\ A.current_rule = D.current_rule /\ A.title = D.title
      /\ A.detail = D.detail /\ A.regex = D.regex /\ A.basic = D.basic
  BY <1>1, <1>4 DEF DialogState
<1> QED BY <1>1, <1>3, <1>5, <1>6 DEF Proper

\* The new row has the text of a new rule, or of the rule that takes it.
LEMMA NewRowIs ==
    ASSUME NEW D, Proper(D)
    PROVE  LET n == Len(D.list) + 1
               text == Committed(WithRow(D)).list[n]
           IN  /\ ~TakesRow(D) => text = New
               /\ text \in {New, Key(D)}
               /\ D.current_rule = Empty => text = New
<1> DEFINE A == WithRow(D)
           n == Len(D.list) + 1
           C == Committed(A)
<1>1. /\ Proper(A) /\ Len(D.list) \in Nat /\ Len(A.list) = n
      /\ A.list[n] = New /\ A.current_rule = D.current_rule
      /\ \A r \in 1..Len(D.list) : A.list[r] = D.list[r]
      /\ A.title = D.title /\ A.regex = D.regex /\ A.basic = D.basic
  BY WithRowIs
<1> HIDE DEF A
<1>2. CASE D.current_rule = Empty
  <2>1. C = A
    BY <1>1, <1>2 DEF Committed
  <2> QED BY <1>1, <2>1 DEF A
<1>3. CASE D.current_rule # Empty
  <2>1. A \in DialogState /\ D \in DialogState
    BY <1>1 DEF Proper
  <2>2. Key(A) = Key(D)
    BY <1>1 DEF Key, FieldName
  <2>3. C.list = [A.list EXCEPT ![Found(A)] = Key(D)]
    BY <1>1, <1>3, <2>1, <2>2 DEF Committed, Key, DialogState
  <2>4. A.list \in Seq(Text) /\ n \in DOMAIN A.list
    BY <1>1, <2>1 DEF DialogState
  <2>5. C.list[n] = IF Found(A) = n THEN Key(D) ELSE New
    BY <1>1, <2>3, <2>4
  <2>6. ASSUME Found(A) = n PROVE TakesRow(D)
    <3>1. A.list[n] = A.current_rule
      BY <1>1, <2>1, <2>6, FoundIs
    <3>2. D.current_rule = New
      BY <1>1, <3>1
    <3>3. ASSUME Found(D) # 0 PROVE FALSE
      <4>1. Found(D) \in 1..Len(D.list) /\ D.list[Found(D)] = D.current_rule
        BY <1>1, <2>1, <3>3, FoundIs
      <4>2. Found(D) \in 1..Len(A.list) /\ A.list[Found(D)] = A.current_rule
        BY <1>1, <4>1
      <4>3. Found(A) <= Found(D)
        BY <2>1, <4>2, FoundIs
      <4> QED BY <1>1, <2>6, <4>1, <4>3
    <3> QED BY <3>2, <3>3 DEF TakesRow
  <2> QED BY <1>3, <2>5, <2>6 DEF A
<1> QED BY <1>2, <1>3

LEMMA AddedIs ==
    ASSUME NEW D, Proper(D)
    PROVE  LET E == Added(D) IN
           /\ Proper(E) /\ InRow(E) /\ E.state = D.state
           /\ D.current_rule = Empty => E.current_rule = New
           /\ \A kept :
                /\ AreBasic(kept) /\ Held(D, kept) /\ Fits(E, kept)
                /\ TakesRow(D) => FieldName(D) \notin DOMAIN kept
                => Keeps(E, kept)
<1> DEFINE A == WithRow(D)
           n == Len(D.list) + 1
           C == Changed(A, n)
           E == [C EXCEPT !.title = Empty, !.regex = Empty, !.detail = Default]
<1>1. /\ Proper(A) /\ Len(A.list) = n /\ n \in 1..Len(A.list) /\ A.state = D.state
      /\ A.torrent_rules = D.torrent_rules /\ A.current_rule = D.current_rule
      /\ A.title = D.title /\ A.detail = D.detail /\ A.regex = D.regex /\ A.basic = D.basic
  BY WithRowIs
<1>2. /\ ~TakesRow(D) => Committed(A).list[n] = New
      /\ Committed(A).list[n] \in {New, Key(D)}
      /\ D.current_rule = Empty => Committed(A).list[n] = New
  BY NewRowIs
<1>3. Added(D) = E
  BY DEF Added
<1> HIDE DEF A, n
<1>4. /\ Proper(C) /\ InRow(C) /\ C.state = D.state /\ C.row = n
      /\ C.list = Committed(A).list
  BY <1>1, ChangedIs
<1>5. \A kept : AreBasic(kept) /\ Held(A, kept) /\ Fits(C, kept) => Keeps(C, kept)
  BY <1>1, ChangedKeeps
<1> HIDE DEF C
<1>6. C \in DialogState /\ Empty \in Typed /\ Default \in BoxDetail
  BY <1>4, DefaultIsOffered DEF Proper, Typed
<1>7. /\ E \in DialogState /\ E.list = C.list /\ E.row = C.row /\ E.basic = C.basic
      /\ E.state = C.state /\ E.torrent_rules = C.torrent_rules
      /\ E.current_rule = C.current_rule /\ E.title = Empty
  BY <1>6 DEF DialogState
<1> HIDE DEF E
<1>8. Proper(E) /\ InRow(E) /\ E.state = D.state
  BY <1>4, <1>7 DEF Proper, InRow
<1>9. E.current_rule = Committed(A).list[n]
  BY <1>4, <1>7 DEF InRow
<1>10. ASSUME NEW kept, AreBasic(kept), Held(D, kept), Fits(E, kept),
              TakesRow(D) => FieldName(D) \notin DOMAIN kept
       PROVE  Keeps(E, kept)
  <2>1. Held(A, kept) /\ Fits(C, kept)
    BY <1>1, <1>7, <1>10 DEF Held, Fits, Misfit
  <2>2. Keeps(C, kept)
    BY <1>5, <1>10, <2>1
  <2>3. Empty \notin DOMAIN kept /\ New \notin DOMAIN kept
    BY <1>10, RuleEditorAssumption DEF AreBasic
  <2>4. E.current_rule \notin DOMAIN kept
    BY <1>2, <1>9, <1>10, <2>3 DEF Key
  <2>5. E.basic /\ Stored(E.torrent_rules, kept)
    BY <1>7, <1>8, <2>2 DEF InRow, Keeps
  <2> QED BY <1>7, <2>3, <2>4, <2>5 DEF Keeps, Held, Stored
<1> QED BY <1>2, <1>3, <1>8, <1>9, <1>10

\* Only a dialog with a current row has a current rule.
InBounds(D) ==
    D.row \in 0..Len(D.list) /\ (D.row = 0 => D.current_rule = Empty)

\* The rule of the last row is saved: see accept.
LastRow(D) == D.current_rule # Empty /\ Found(D) = D.row /\ Len(D.list) = 1

LEMMA SavedIs ==
    ASSUME NEW D, Proper(D), InBounds(D), ~LastRow(D)
    PROVE  /\ Saved(D) \in Rules /\ WellNamed(Saved(D))
           /\ D.current_rule # Empty => Remaining(D) \in DialogState
           /\ \A kept : /\ AreBasic(kept) /\ Held(D, kept)
                       /\ (D.current_rule # Empty => Fits(Remaining(D), kept))
                       => Stored(Saved(D), kept)
<1>1. D \in DialogState /\ D.torrent_rules \in Rules /\ WellNamed(D.torrent_rules)
  BY DEF Proper, DialogState
<1>2. CASE D.current_rule = Empty
  <2>1. Saved(D) = D.torrent_rules
    BY <1>2 DEF Saved
  <2> QED BY <1>1, <1>2, <2>1 DEF Held, Stored
<1>3. CASE D.current_rule # Empty
  <2> DEFINE others == Without(D.torrent_rules, {D.current_rule})
             W == [D EXCEPT !.torrent_rules = others]
             E == IF Found(D) = D.row THEN Removed(W) ELSE W
             after == Put(E.torrent_rules, FieldName(E), FieldRule(E))
  <2>1. Saved(D) = after /\ Remaining(D) = E
    <3>1. [D EXCEPT !.torrent_rules = Without(@, {D.current_rule})] = W
      BY <1>1 DEF DialogState
    <3> QED BY <1>3, <3>1 DEF Saved, Remaining
  <2>2. others \in Rules /\ WellNamed(others)
    BY <1>1, WithoutRules, WithoutIsWellNamed
  <2>3. /\ DOMAIN others = DOMAIN D.torrent_rules \ {D.current_rule}
        /\ \A k \in DOMAIN others : others[k] = D.torrent_rules[k]
    BY DEF Without, Restrict
  <2> HIDE DEF others
  <2>4. /\ W \in DialogState /\ W.torrent_rules = others /\ W.list = D.list
        /\ W.row = D.row /\ W.current_rule = D.current_rule /\ W.title = D.title
        /\ W.detail = D.detail /\ W.regex = D.regex /\ W.basic = D.basic
    BY <1>1, <2>2 DEF DialogState
  <2> HIDE DEF W
  <2>5. Proper(W)
    BY <2>2, <2>4 DEF Proper
  <2>6. ASSUME NEW kept, AreBasic(kept), Held(D, kept) PROVE Held(W, kept)
    <3>1. ASSUME NEW name \in DOMAIN kept
          PROVE  \/ name \in DOMAIN W.torrent_rules /\ W.torrent_rules[name] = kept[name]
                 \/ W.current_rule # Empty /\ W.basic /\ W.title = name
      <4>1. CASE name = D.current_rule
        BY <1>3, <2>4, <2>6, <3>1, <4>1 DEF Held
      <4>2. CASE name # D.current_rule
        BY <2>3, <2>4, <2>6, <3>1, <4>2 DEF Held
      <4> QED BY <4>1, <4>2
    <3> QED BY <2>4, <2>6, <3>1 DEF Held
  <2>7. CASE Found(D) = D.row
    <3>1. D.list \in Seq(Text) /\ Len(D.list) \in Nat
      BY <1>1 DEF DialogState
    <3>2. D.row \in 1..Len(D.list) /\ Len(D.list) > 1
      <4>1. D.row \in 0..Len(D.list) /\ D.row # 0
        BY <1>3 DEF InBounds
      <4>2. Len(D.list) # 1
        BY <1>3, <2>7 DEF LastRow
      <4> QED BY <3>1, <4>1, <4>2, AboutRows
    <3> DEFINE R == Removed(W)
    <3>3. Proper(R) /\ InRow(R)
      BY <2>4, <2>5, <3>2, RemovedIs
    <3>4. \A kept : AreBasic(kept) /\ Held(W, kept) /\ Fits(R, kept) => Keeps(R, kept)
      BY <2>4, <2>5, <3>2, RemovedIs
    <3>5. E = R
      BY <2>7
    <3> HIDE DEF E, R
    <3>6. R \in DialogState /\ R.torrent_rules \in Rules /\ WellNamed(R.torrent_rules)
      BY <3>3 DEF Proper, DialogState
    <3>7. FieldName(R) \in Text /\ FieldRule(R) \in RuleValue
      BY <3>6, FieldsAre
    <3>8. after \in Rules
      BY <3>5, <3>6, <3>7, PutRule
    <3>9. WellNamed(after)
      BY <3>5, <3>6, <3>7, PutIsWellNamed
    <3>10. ASSUME NEW kept, AreBasic(kept), Held(D, kept), Fits(E, kept)
           PROVE  Stored(after, kept)
      <4>1. Held(R, kept) /\ Stored(R.torrent_rules, kept)
        BY <2>6, <3>4, <3>5, <3>10 DEF Keeps
      <4>2. FieldName(R) = R.title
            /\ FieldRule(R) = [type |-> "basic", name |-> R.title, detail |-> R.detail]
        BY <3>3 DEF InRow, FieldName, FieldRule
      <4>3. ASSUME NEW name \in DOMAIN kept
            PROVE  name \in DOMAIN after /\ after[name] = kept[name]
        <5>1. CASE name = R.title
          <6>1. R.detail = kept[name].detail
            BY <4>1, <4>3, <5>1 DEF Held
          <6>2. kept[name] = [type |-> "basic", name |-> name, detail |-> kept[name].detail]
            BY <3>10, <4>3 DEF AreBasic, RuleValue
          <6>3. name \in DOMAIN after /\ after[name] = FieldRule(R)
            BY <3>5, <4>2, <5>1 DEF Put
          <6> QED BY <4>2, <5>1, <6>1, <6>2, <6>3
        <5>2. CASE name # R.title
          <6>1. name \in DOMAIN R.torrent_rules /\ R.torrent_rules[name] = kept[name]
            BY <4>1, <4>3 DEF Stored
          <6> QED BY <3>5, <4>2, <5>2, <6>1 DEF Put
        <5> QED BY <5>1, <5>2
      <4> QED BY <4>3 DEF Stored
    <3> QED BY <1>3, <2>1, <3>5, <3>6, <3>8, <3>9, <3>10
  <2>8. CASE Found(D) # D.row
    <3>1. E = W
      BY <2>8
    <3> HIDE DEF E
    <3>2. FieldName(W) = FieldName(D) /\ FieldRule(W) = FieldRule(D)
      BY <2>4 DEF FieldName, FieldRule
    <3>3. after = Put(others, FieldName(D), FieldRule(D))
      BY <2>4, <3>1, <3>2
    <3>4. FieldName(D) \in Text /\ FieldRule(D) \in RuleValue
      BY <1>1, FieldsAre
    <3> HIDE DEF after
    <3>5. after \in Rules
      BY <2>2, <3>3, <3>4, PutRule
    <3>6. WellNamed(after)
      BY <1>1, <2>2, <3>3, <3>4, PutIsWellNamed
    <3>7. ASSUME NEW kept, AreBasic(kept), Held(D, kept) PROVE Stored(after, kept)
      BY <1>1, <1>3, <3>3, <3>7, PutBackKeeps DEF others
    <3> QED BY <2>1, <2>4, <3>1, <3>5, <3>6, <3>7
  <2> QED BY <2>7, <2>8
<1> QED BY <1>2, <1>3

LEMMA LoadedIs ==
    ASSUME rules_json \in Rules, WellNamed(rules_json)
    PROVE  /\ Proper(Loaded) /\ Loaded.state = "open" /\ Loaded.row = 0
           /\ Loaded.current_rule = Empty /\ Loaded.title = Empty /\ Loaded.basic
           /\ Loaded.torrent_rules = rules_json
<1>1. Keys(rules_json) \in Seq(Text)
  BY KeysAreTexts
<1>2. Empty \in Typed /\ Empty \in Text /\ Default \in BoxDetail
  BY DefaultIsOffered DEF Typed, Text
<1>3. Closed \in DialogState
  BY <1>2 DEF Closed, DialogState, Rules
<1> DEFINE keys == Keys(rules_json)
<1>4. Loaded = [Closed EXCEPT !.state = "open", !.torrent_rules = rules_json, !.list = keys]
  BY DEF Loaded
<1> HIDE DEF keys
<1>5. /\ Loaded.state = "open" /\ Loaded.row = 0
      /\ Loaded.current_rule = Empty /\ Loaded.title = Empty /\ Loaded.basic
      /\ Loaded.torrent_rules = rules_json
  BY <1>4 DEF Closed
<1>6. Loaded \in DialogState
  BY <1>1, <1>3, <1>4 DEF DialogState, keys
<1> QED BY <1>5, <1>6 DEF Proper

-----------------------------------------------------------------------------
(* The invariant, for one dialog.                                           *)

\* The basic rules of old that the user has had nothing to do with.
Left(old, keys) ==
    [name \in {n \in Name \cap DOMAIN old : old[n].type = "basic" /\ n \notin keys}
        |-> old[name]]

\* A row shows another text than its rule only if the user has typed it.
RenamedByUser(D, keys) ==
    IsRenamed(D) /\ D.current_rule # Empty => FieldName(D) \in keys

\* Rules that the user may have entered.
AreEntered(new) == AreBasic(new) /\ AllOffered(new)

\* A dialog that was opened with the rules old, in which the user has had to
\* do with keys and has entered the rules new.
Right(D, old, keys, new) ==
    /\ Proper(D)
    /\ old \in Rules /\ WellNamed(old)
    /\ keys \in SUBSET Text
    /\ new \in Rules /\ AreEntered(new)
    /\ D.state = "closed" => DOMAIN new = {}
    /\ D.state = "open" =>
          /\ InBounds(D)
          /\ D.row = 0 => DOMAIN new = {}
          /\ RenamedByUser(D, keys)
          /\ Held(D, new)
          /\ Keeps(D, Left(old, keys))

LEMMA LeftIs ==
    ASSUME NEW old \in Rules, WellNamed(old), NEW keys
    PROVE  /\ AreBasic(Left(old, keys))
           /\ \A name \in DOMAIN Left(old, keys) :
                 name \in Name /\ name \notin keys /\ name \in DOMAIN old
                 /\ Left(old, keys)[name] = old[name]
<1> DEFINE kept == Left(old, keys)
<1>1. /\ DOMAIN kept = {n \in Name \cap DOMAIN old : old[n].type = "basic" /\ n \notin keys}
      /\ \A name \in DOMAIN kept : kept[name] = old[name]
  BY DEF Left
<1> HIDE DEF kept
<1>2. ASSUME NEW name \in DOMAIN kept
      PROVE  /\ name \in Name /\ name \notin keys /\ name \in DOMAIN old
             /\ kept[name] = old[name] /\ old[name].type = "basic"
  BY <1>1, <1>2
<1>3. ASSUME NEW name \in DOMAIN kept
      PROVE  kept[name] \in RuleValue /\ kept[name].name = name
  BY <1>2, <1>3, RulesAre DEF WellNamed
<1>4. AreBasic(kept)
  BY <1>2, <1>3 DEF AreBasic
<1> QED BY <1>2, <1>4 DEF kept

\* A dialog that keeps rules keeps some of them.
LEMMA KeepsFewer ==
    ASSUME NEW D, NEW kept, NEW fewer, DOMAIN fewer \subseteq DOMAIN kept,
           \A name \in DOMAIN fewer : fewer[name] = kept[name]
    PROVE  /\ Held(D, kept) => Held(D, fewer)
           /\ Keeps(D, kept) => Keeps(D, fewer)
           /\ AreBasic(kept) => AreBasic(fewer)
           /\ AreEntered(kept) => AreEntered(fewer)
<1>1. Held(D, kept) => Held(D, fewer)
  BY DEF Held
<1>2. Stored(D.torrent_rules, kept) => Stored(D.torrent_rules, fewer)
  BY DEF Stored
<1>3. AreBasic(kept) => AreBasic(fewer)
  BY DEF AreBasic
<1>4. AllOffered(kept) => AllOffered(fewer)
  BY DEF AllOffered
<1> QED BY <1>1, <1>2, <1>3, <1>4 DEF Keeps, AreEntered

LEMMA LeftFewer ==
    ASSUME NEW old, NEW keys, NEW more, keys \subseteq more
    PROVE  /\ DOMAIN Left(old, more) \subseteq DOMAIN Left(old, keys)
           /\ \A name \in DOMAIN Left(old, more) : Left(old, more)[name] = Left(old, keys)[name]
BY DEF Left

LEMMA LeftKeeps ==
    ASSUME NEW D, NEW old, NEW keys, NEW more, keys \subseteq more,
           Keeps(D, Left(old, keys))
    PROVE  Keeps(D, Left(old, more))
BY LeftFewer, KeepsFewer

LEMMA NoneHeld ==
    ASSUME NEW D, NEW none, DOMAIN none = {}
    PROVE  Held(D, none) /\ AreEntered(none)
BY DEF Held, AreBasic, AreEntered, AllOffered

\* A rule that is not among those the user had to do with fits.
LEMMA LeftFits ==
    ASSUME NEW E, NEW old \in Rules, WellNamed(old), NEW keys,
           Misfit(E) \cap Name \subseteq keys
    PROVE  Fits(E, Left(old, keys))
<1>1. \A name \in DOMAIN Left(old, keys) : name \in Name /\ name \notin keys
  BY LeftIs
<1> QED BY <1>1 DEF Fits

LEMMA OpenedIsRight ==
    ASSUME rules_json \in Rules, WellNamed(rules_json),
           NEW keys \in SUBSET Text, NEW new \in Rules, DOMAIN new = {}
    PROVE  Right(Loaded, rules_json, keys, new)
<1> DEFINE D == Loaded
           kept == Left(rules_json, keys)
<1>1. /\ Proper(D) /\ D.state = "open" /\ D.row = 0
      /\ D.current_rule = Empty /\ D.title = Empty /\ D.basic
      /\ D.torrent_rules = rules_json
  BY LoadedIs
<1> HIDE DEF D
<1>2. D.list \in Seq(Text)
  BY <1>1 DEF Proper, DialogState
<1>3. InBounds(D) /\ RenamedByUser(D, keys)
  BY <1>1, <1>2 DEF InBounds, RenamedByUser, IsRenamed
<1>4. AreEntered(new) /\ Held(D, new)
  BY NoneHeld
<1>5. AreBasic(kept) /\ Stored(rules_json, kept)
  BY LeftIs DEF Stored
<1>6. Empty \notin DOMAIN kept
  BY <1>5, RuleEditorAssumption DEF AreBasic
<1> HIDE DEF kept
<1>7. Keeps(D, kept)
  BY <1>1, <1>5, <1>6 DEF Keeps, Held, Stored
<1> QED BY <1>1, <1>3, <1>4, <1>7 DEF Right, D, kept

LEMMA ChangedIsRight ==
    ASSUME NEW D, NEW old, NEW keys, NEW new, Right(D, old, keys, new),
           D.state = "open", NEW row \in 1..Len(D.list),
           NEW more \in SUBSET Text, keys \subseteq more,
           Misfit(Changed(D, row)) \cap Name \subseteq more
    PROVE  Right(Changed(D, row), old, more, new)
<1> DEFINE E == Changed(D, row)
           kept == Left(old, more)
<1>1. /\ Proper(D) /\ old \in Rules /\ WellNamed(old)
      /\ new \in Rules /\ AreEntered(new) /\ Held(D, new) /\ Keeps(D, Left(old, keys))
  BY DEF Right
<1>2. Proper(E) /\ InRow(E) /\ E.state = D.state
  BY <1>1, ChangedIs
<1>3. Held(E, new)
  BY <1>1, ChangedKeeps DEF Keeps, AreEntered, Fits
<1>4. AreBasic(kept) /\ Fits(E, kept) /\ Keeps(D, kept)
  BY <1>1, LeftIs, LeftFits, LeftKeeps
<1> HIDE DEF kept
<1>5. Keeps(E, kept)
  BY <1>1, <1>4, ChangedKeeps DEF Keeps
<1> HIDE DEF E
<1>6. E.row # 0 /\ InBounds(E) /\ RenamedByUser(E, more)
  BY <1>2 DEF InRow, InBounds, RenamedByUser, IsRenamed
<1>7. Right(E, old, more, new)
  BY <1>1, <1>2, <1>3, <1>5, <1>6 DEF Right, kept
<1> QED BY <1>7 DEF E

LEMMA AddedIsRight ==
    ASSUME NEW D, NEW old, NEW keys, NEW new, Right(D, old, keys, new), D.state = "open",
           NEW after \in Rules,
           DOMAIN after \subseteq DOMAIN new,
           \A name \in DOMAIN after : after[name] = new[name],
           TakesRow(D) => FieldName(D) \notin DOMAIN after,
           NEW more \in SUBSET Text, keys \subseteq more,
           Misfit(Added(D)) \cap Name \subseteq more
    PROVE  Right(Added(D), old, more, after)
<1> DEFINE E == Added(D)
           kept == Left(old, more)
<1>1. /\ Proper(D) /\ old \in Rules /\ WellNamed(old)
      /\ new \in Rules /\ AreEntered(new) /\ Held(D, new) /\ Keeps(D, Left(old, keys))
      /\ InBounds(D) /\ RenamedByUser(D, keys)
  BY DEF Right
<1>2. AreEntered(after) /\ Held(D, after)
  BY <1>1, KeepsFewer
<1>3. /\ Proper(E) /\ InRow(E) /\ E.state = D.state
  BY <1>1, AddedIs
<1>4. \A some : AreBasic(some) /\ Held(D, some) /\ Fits(E, some)
                /\ (TakesRow(D) => FieldName(D) \notin DOMAIN some) => Keeps(E, some)
  BY <1>1, AddedIs
<1>5. Keeps(E, after)
  BY <1>2, <1>4 DEF AreEntered, Fits
<1>6. ASSUME TakesRow(D) PROVE FieldName(D) \in more
  <2>1. D \in DialogState /\ D.list \in Seq(Text) /\ Len(D.list) \in Nat
    BY <1>1 DEF Proper, DialogState
  <2>2. D.current_rule = New /\ New # Empty
    BY <1>6, RuleEditorAssumption DEF TakesRow
  <2>3. D.row \in 1..Len(D.list)
    BY <1>1, <2>1, <2>2 DEF InBounds
  <2>4. D.list[D.row] # D.current_rule
    BY <1>6, <2>1, <2>3, FoundIs DEF TakesRow
  <2> QED BY <1>1, <2>2, <2>3, <2>4 DEF RenamedByUser, IsRenamed
<1>7. /\ AreBasic(kept) /\ \A name \in DOMAIN kept : name \notin more
      /\ Fits(E, kept) /\ Keeps(D, kept)
  BY <1>1, LeftIs, LeftFits, LeftKeeps
<1> HIDE DEF kept, E
<1>8. Keeps(E, kept)
  BY <1>1, <1>4, <1>6, <1>7 DEF Keeps
<1>9. E.row # 0 /\ InBounds(E) /\ RenamedByUser(E, more)
  BY <1>3 DEF InRow, InBounds, RenamedByUser, IsRenamed
<1>10. Right(E, old, more, after)
  BY <1>1, <1>2, <1>3, <1>5, <1>8, <1>9 DEF Right, kept, Keeps
<1> QED BY <1>10 DEF E

LEMMA RemovedIsRight ==
    ASSUME NEW D, NEW old, NEW keys, NEW new, Right(D, old, keys, new), D.state = "open",
           D.row \in 1..Len(D.list), Len(D.list) > 1,
           NEW more \in SUBSET Text, keys \subseteq more, NEW after \in Rules,
           DOMAIN after \subseteq DOMAIN new,
           \A name \in DOMAIN after : after[name] = new[name],
           Misfit(Removed(D)) \cap Name \subseteq more
    PROVE  Right(Removed(D), old, more, after)
<1> DEFINE E == Removed(D)
           kept == Left(old, more)
<1>1. /\ Proper(D) /\ old \in Rules /\ WellNamed(old)
      /\ new \in Rules /\ AreEntered(new) /\ Held(D, new) /\ Keeps(D, Left(old, keys))
  BY DEF Right
<1>2. AreEntered(after) /\ Held(D, after)
  BY <1>1, KeepsFewer
<1>3. /\ Proper(E) /\ InRow(E) /\ E.state = D.state
      /\ \A some : AreBasic(some) /\ Held(D, some) /\ Fits(E, some) => Keeps(E, some)
  BY <1>1, RemovedIs
<1>4. Keeps(D, kept)
  BY <1>1, LeftKeeps
<1>5. AreBasic(kept) /\ Fits(E, kept)
  BY <1>1, LeftIs, LeftFits
<1> HIDE DEF kept, E
<1>6. Keeps(E, after) /\ Keeps(E, kept)
  BY <1>2, <1>3, <1>4, <1>5 DEF Keeps, AreEntered, Fits
<1>7. E.row # 0 /\ InBounds(E) /\ RenamedByUser(E, more)
  BY <1>3 DEF InRow, InBounds, RenamedByUser, IsRenamed
<1>8. Right(E, old, more, after)
  BY <1>1, <1>2, <1>3, <1>6, <1>7 DEF Right, kept, Keeps
<1> QED BY <1>8 DEF E

\* What the user has entered, when D is entered where the title was another.
EnteredIn(new, title, D) ==
    LET others == Without(new, {title, FieldName(D)})
    IN  IF D.basic /\ D.title # Empty /\ D.current_rule # Empty
        THEN Put(others, D.title, FieldRule(D)) ELSE others

LEMMA EnteredIs ==
    ASSUME NEW new \in Rules, AreEntered(new), NEW title, NEW E \in DialogState
    PROVE  LET after == EnteredIn(new, title, E)
           IN  /\ after \in Rules /\ AreEntered(after)
               /\ \A name \in DOMAIN after :
                     \/ /\ name \in DOMAIN new /\ after[name] = new[name]
                        /\ name # title /\ name # FieldName(E)
                     \/ /\ E.basic /\ E.current_rule # Empty
                        /\ name = E.title /\ after[name].detail = E.detail
<1> DEFINE others == Without(new, {title, FieldName(E)})
           after == EnteredIn(new, title, E)
<1>1. others \in Rules
  BY WithoutRules
<1>2. \A name \in DOMAIN others :
        name \in DOMAIN new /\ others[name] = new[name] /\ name # title /\ name # FieldName(E)
  BY DEF Without, Restrict
<1>3. AreBasic(others) /\ AllOffered(others)
  <2> HIDE DEF others
  <2> QED BY <1>2 DEF AreBasic, AllOffered, AreEntered
<1>4. /\ E.title \in Typed /\ FieldRule(E) \in RuleValue /\ E.title \in Text
      /\ Offered(E.detail)
  BY FieldsAre DEF DialogState, Typed, Text, BoxDetail
<1> HIDE DEF others
<1>5. CASE E.basic /\ E.title # Empty /\ E.current_rule # Empty
  <2>1. after = Put(others, E.title, FieldRule(E))
    BY <1>5 DEF EnteredIn, others
  <2>2. after \in Rules
    BY <1>1, <1>4, <2>1, PutRule
  <2>3. FieldRule(E).type = "basic" /\ FieldRule(E).name = E.title
        /\ FieldRule(E).detail = E.detail /\ E.title \in Name
    BY <1>4, <1>5 DEF FieldRule, Typed
  <2>4. \A name \in DOMAIN after :
           \/ name = E.title /\ after[name] = FieldRule(E)
           \/ name \in DOMAIN others /\ after[name] = others[name]
    BY <2>1 DEF Put
  <2> HIDE DEF after
  <2>5. AreBasic(after) /\ AllOffered(after)
    BY <1>3, <1>4, <2>3, <2>4 DEF AreBasic, AllOffered
  <2> QED BY <1>2, <1>5, <2>2, <2>3, <2>4, <2>5 DEF after, AreEntered
<1>6. CASE ~(E.basic /\ E.title # Empty /\ E.current_rule # Empty)
  <2>1. after = others
    BY <1>6 DEF EnteredIn, others
  <2> HIDE DEF after
  <2> QED BY <1>1, <1>2, <1>3, <2>1 DEF after, AreEntered
<1> QED BY <1>5, <1>6

\* The user has typed, chosen a detail or another kind of rule.
LEMMA EnteredIsRight ==
    ASSUME NEW D, NEW old, NEW keys, NEW new, Right(D, old, keys, new), D.state = "open",
           D.row # 0,
           NEW E \in DialogState, E.state = "open", E.torrent_rules = D.torrent_rules,
           E.current_rule = D.current_rule, E.row = D.row, Len(E.list) = Len(D.list),
           (D.basic /\ E.basic) \/ (E.title = D.title /\ E.detail = D.detail),
           NEW more \in SUBSET Text, keys \subseteq more,
           E.current_rule \in more, FieldName(E) \in more
    PROVE  Right(E, old, more, EnteredIn(new, D.title, E))
<1> DEFINE after == EnteredIn(new, D.title, E)
           kept == Left(old, more)
<1>1. /\ Proper(D) /\ old \in Rules /\ WellNamed(old)
      /\ new \in Rules /\ AreEntered(new) /\ Held(D, new) /\ Keeps(D, Left(old, keys))
      /\ InBounds(D)
  BY DEF Right
<1>2. /\ after \in Rules /\ AreEntered(after)
      /\ \A name \in DOMAIN after :
            \/ /\ name \in DOMAIN new /\ after[name] = new[name]
               /\ name # D.title /\ name # FieldName(E)
            \/ /\ E.basic /\ E.current_rule # Empty
               /\ name = E.title /\ after[name].detail = E.detail
  BY <1>1, EnteredIs
<1> HIDE DEF after
<1>3. Held(E, after)
  <2>1. ASSUME E.title \in DOMAIN after PROVE E.detail = after[E.title].detail
    <3>1. CASE E.basic
      BY <1>2, <2>1, <3>1 DEF FieldName
    <3>2. CASE ~E.basic
      BY <1>2, <2>1, <3>2
    <3> QED BY <3>1, <3>2
  <2>2. ASSUME E.current_rule \in DOMAIN after PROVE E.basic /\ E.title = E.current_rule
    BY <1>1, <1>2, <2>2 DEF Held
  <2>3. ASSUME ~E.basic PROVE E.regex \notin DOMAIN after
    BY <1>2, <2>3 DEF FieldName
  <2>4. ASSUME NEW name \in DOMAIN after
        PROVE  \/ name \in DOMAIN E.torrent_rules /\ E.torrent_rules[name] = after[name]
               \/ E.current_rule # Empty /\ E.basic /\ E.title = name
    BY <1>1, <1>2, <2>4 DEF Held
  <2> QED BY <2>1, <2>2, <2>3, <2>4 DEF Held
<1>4. Keeps(D, kept) /\ \A name \in DOMAIN kept : name \notin more
  BY <1>1, LeftKeeps, LeftIs
<1> HIDE DEF kept
<1>5. Keeps(E, kept)
  <2>1. ASSUME E.title \in DOMAIN kept PROVE E.detail = kept[E.title].detail
    <3>1. CASE E.basic
      BY <1>4, <2>1, <3>1 DEF FieldName
    <3>2. CASE ~E.basic
      BY <1>4, <2>1, <3>2 DEF Keeps, Held
    <3> QED BY <3>1, <3>2
  <2>2. E.current_rule \notin DOMAIN kept
    BY <1>4
  <2>3. ASSUME ~E.basic PROVE E.regex \notin DOMAIN kept
    BY <1>4, <2>3 DEF FieldName
  <2>4. Stored(E.torrent_rules, kept)
    BY <1>4 DEF Keeps
  <2> QED BY <2>1, <2>2, <2>3, <2>4 DEF Keeps, Held, Stored
<1>6. Proper(E) /\ InBounds(E) /\ RenamedByUser(E, more)
  BY <1>1 DEF Proper, InBounds, RenamedByUser
<1>7. Right(E, old, more, after)
  BY <1>1, <1>2, <1>3, <1>5, <1>6 DEF Right, kept
<1> QED BY <1>7 DEF after

\* The same without a current row, where nothing is put into a rule.
LEMMA SetIsRight ==
    ASSUME NEW D, NEW old, NEW keys, NEW new, Right(D, old, keys, new), D.state = "open",
           D.row = 0,
           NEW E \in DialogState, E.state = "open", E.torrent_rules = D.torrent_rules,
           E.current_rule = D.current_rule, E.row = D.row, Len(E.list) = Len(D.list),
           (D.basic /\ E.basic) \/ (E.title = D.title /\ E.detail = D.detail),
           NEW more \in SUBSET Text, keys \subseteq more,
           E.current_rule \in more, FieldName(E) \in more
    PROVE  Right(E, old, more, new)
<1> DEFINE kept == Left(old, more)
<1>1. /\ Proper(D) /\ old \in Rules /\ WellNamed(old)
      /\ new \in Rules /\ AreEntered(new) /\ DOMAIN new = {} /\ Keeps(D, Left(old, keys))
      /\ InBounds(D)
  BY DEF Right
<1>2. Keeps(D, kept) /\ \A name \in DOMAIN kept : name \notin more
  BY <1>1, LeftKeeps, LeftIs
<1> HIDE DEF kept
<1>3. Keeps(E, kept)
  <2>1. ASSUME E.title \in DOMAIN kept PROVE E.detail = kept[E.title].detail
    <3>1. CASE E.basic
      BY <1>2, <2>1, <3>1 DEF FieldName
    <3>2. CASE ~E.basic
      BY <1>2, <2>1, <3>2 DEF Keeps, Held
    <3> QED BY <3>1, <3>2
  <2>2. E.current_rule \notin DOMAIN kept
    BY <1>2
  <2>3. ASSUME ~E.basic PROVE E.regex \notin DOMAIN kept
    BY <1>2, <2>3 DEF FieldName
  <2>4. Stored(E.torrent_rules, kept)
    BY <1>2 DEF Keeps
  <2> QED BY <2>1, <2>2, <2>3, <2>4 DEF Keeps, Held, Stored
<1>4. Proper(E) /\ InBounds(E) /\ RenamedByUser(E, more)
  BY <1>1 DEF Proper, InBounds, RenamedByUser
<1>5. Held(E, new)
  BY <1>1, NoneHeld
<1> QED BY <1>1, <1>3, <1>4, <1>5 DEF Right, kept

\* A dialog opened to create a rule: the rule is entered in its new row.
LEMMA CreatedIsRight ==
    ASSUME rules_json \in Rules, WellNamed(rules_json),
           NEW keys \in SUBSET Text, NEW new \in Rules, DOMAIN new = {},
           NEW title \in Name, NEW detail \in Detail, NEW file \in Name, NEW before
    PROVE  LET E == Added(Loaded)
               D == [E EXCEPT !.title = title, !.detail = InBox(E, detail), !.regex = file,
                              !.list[E.row] = title]
           IN  Right(D, rules_json, keys \cup {title}, EnteredIn(new, before, D))
<1> DEFINE E == Added(Loaded)
           box == InBox(E, detail)
           list == [E.list EXCEPT ![E.row] = title]
           D == [E EXCEPT !.title = title, !.detail = box, !.regex = file, !.list = list]
           more == keys \cup {title}
           kept == Left(rules_json, more)
           after == EnteredIn(new, before, D)
<1>1. /\ Right(Loaded, rules_json, keys, new) /\ Proper(Loaded)
      /\ Loaded.state = "open" /\ Loaded.current_rule = Empty
  BY OpenedIsRight, LoadedIs
<1>2. ~TakesRow(Loaded) /\ title # Empty /\ title # New /\ New # Empty
  BY <1>1, RuleEditorAssumption DEF TakesRow
<1>3. Proper(E) /\ InRow(E) /\ E.state = "open" /\ E.current_rule = New
  BY <1>1, AddedIs
<1>4. Right(E, rules_json, keys, new)
  <2>1. Misfit(E) \cap Name \subseteq keys
    BY <1>3, RuleEditorAssumption DEF Misfit
  <2> QED BY <1>1, <1>2, <2>1, AddedIsRight
<1> HIDE DEF E
<1>5. /\ E \in DialogState /\ E.list \in Seq(Text) /\ Len(E.list) \in Nat
      /\ title \in Text /\ title \in Typed /\ file \in Typed /\ box \in BoxDetail
  BY <1>3, BoxIs DEF Proper, DialogState, Text, Typed
<1> HIDE DEF box
<1>6. list \in Seq(Text) /\ Len(list) = Len(E.list)
  <2>1. E.list \in [1..Len(E.list) -> Text]
    BY <1>5
  <2>2. list \in [1..Len(E.list) -> Text]
    BY <1>5, <2>1
  <2> HIDE DEF list
  <2> QED BY <1>5, <2>2
<1>7. [E EXCEPT !.title = title, !.detail = box, !.regex = file, !.list[E.row] = title] = D
  BY <1>5 DEF DialogState, box
<1> HIDE DEF list
<1>8. /\ D \in DialogState /\ D.list = list /\ D.row = E.row /\ D.state = E.state
      /\ D.torrent_rules = E.torrent_rules /\ D.current_rule = New /\ D.basic = E.basic
      /\ D.title = title /\ D.detail = box /\ D.regex = file
  BY <1>3, <1>5, <1>6 DEF DialogState
<1> HIDE DEF D
<1>9. D.basic /\ D.row # 0 /\ InBounds(D)
  BY <1>3, <1>5, <1>6, <1>8 DEF InRow, InBounds
<1>10. FieldName(D) = title
  BY <1>8, <1>9 DEF FieldName
<1>11. AreEntered(new)
  BY NoneHeld
<1>12. /\ after \in Rules /\ AreEntered(after)
       /\ \A name \in DOMAIN after : name = title /\ after[name].detail = box
  BY <1>8, <1>11, EnteredIs
<1> HIDE DEF after
<1>13. Held(D, after)
  BY <1>2, <1>8, <1>9, <1>12 DEF Held
<1>14. Keeps(E, kept) /\ AreBasic(kept) /\ title \notin DOMAIN kept
  <2>1. keys \subseteq more /\ title \in more
    OBVIOUS
  <2>2. Keeps(E, Left(rules_json, keys))
    BY <1>3, <1>4 DEF Right
  <2> HIDE DEF more
  <2> QED BY <2>1, <2>2, LeftKeeps, LeftIs
<1> HIDE DEF kept
<1>15. New \notin DOMAIN kept
  BY <1>14, RuleEditorAssumption DEF AreBasic
<1>16. Keeps(D, kept)
  BY <1>8, <1>9, <1>14, <1>15 DEF Keeps, Held, Stored
<1>17. Proper(D) /\ D.state = "open" /\ RenamedByUser(D, more) /\ more \in SUBSET Text
  BY <1>3, <1>5, <1>8, <1>10 DEF Proper, RenamedByUser
<1>18. Right(D, rules_json, more, after)
  BY <1>9, <1>12, <1>13, <1>16, <1>17 DEF Right, kept
<1> QED BY <1>7, <1>18 DEF after, E, box

LEMMA ClosedIsRight ==
    ASSUME NEW D, NEW old, NEW keys, NEW new, Right(D, old, keys, new),
           NEW state \in {"accepted", "rejected"}, NEW more \in SUBSET Text
    PROVE  Right([Closed EXCEPT !.state = state], old, more, new)
<1> DEFINE E == [Closed EXCEPT !.state = state]
<1>1. Empty \in Typed /\ Empty \in Text /\ Default \in BoxDetail
  BY DefaultIsOffered DEF Typed, Text
<1>2. Closed \in DialogState /\ Closed.torrent_rules = <<>>
  BY <1>1, NoRules DEF Closed, DialogState
<1>3. E \in DialogState /\ E.state = state /\ E.torrent_rules = <<>>
  BY <1>2 DEF DialogState
<1> HIDE DEF E
<1>4. Proper(E)
  BY <1>3 DEF Proper, WellNamed
<1> QED BY <1>3, <1>4 DEF Right, E

\* The defaults empty the list and the fields.
LEMMA ClearedIsRight ==
    ASSUME NEW D, NEW old, NEW keys, NEW new, Right(D, old, keys, new), D.state = "open",
           D.row = 0
    PROVE  Right([D EXCEPT !.list = <<>>, !.title = Empty, !.regex = Empty,
                           !.detail = Default], old, keys, new)
<1> DEFINE none == <<>>
           E == [D EXCEPT !.list = none, !.title = Empty, !.regex = Empty,
           !.detail = Default]
           kept == Left(old, keys)
<1>1. /\ Proper(D) /\ old \in Rules /\ WellNamed(old) /\ keys \in SUBSET Text
      /\ new \in Rules /\ AreEntered(new) /\ DOMAIN new = {} /\ Keeps(D, kept)
      /\ D.current_rule = Empty
  BY DEF Right, InBounds
<1>2. D \in DialogState /\ Empty \in Typed /\ Default \in BoxDetail /\ none \in Seq(Text)
      /\ Len(none) = 0
  BY <1>1, DefaultIsOffered DEF Proper, Typed
<1> HIDE DEF none
<1>3. /\ E \in DialogState /\ E.list = none /\ E.row = 0 /\ E.state = "open"
      /\ E.torrent_rules = D.torrent_rules /\ E.current_rule = Empty
      /\ E.title = Empty /\ E.regex = Empty
  BY <1>1, <1>2 DEF DialogState
<1> HIDE DEF E
<1>4. AreBasic(kept)
  BY <1>1, LeftIs
<1>5. Empty \notin DOMAIN kept
  BY <1>4, RuleEditorAssumption DEF AreBasic
<1> HIDE DEF kept
<1>6. Keeps(E, kept)
  BY <1>1, <1>3, <1>5 DEF Keeps, Held, Stored
<1>7. Proper(E) /\ InBounds(E) /\ RenamedByUser(E, keys) /\ Held(E, new)
  BY <1>1, <1>2, <1>3, NoneHeld DEF Proper, InBounds, RenamedByUser, IsRenamed
<1>8. Right(E, old, keys, new)
  BY <1>1, <1>3, <1>6, <1>7 DEF Right, kept
<1> QED BY <1>8 DEF E, none

-----------------------------------------------------------------------------
(* The invariant.                                                           *)

Sound ==
    /\ rules_json \in Rules /\ WellNamed(rules_json)
    /\ dialog \in [Dialog -> DialogState] /\ loaded \in [Dialog -> Rules]
    /\ touched \in [Dialog -> SUBSET Text] /\ entered \in [Dialog -> Rules]
    /\ \A d \in Dialog : Right(dialog[d], loaded[d], touched[d], entered[d])

\* Until an item that does not exist is used.
RuleInv == ~corrupt => Sound

\* A step of one dialog that leaves it right.
LEMMA OneDialog ==
    ASSUME Sound, NEW d \in Dialog,
           rules_json' \in Rules, WellNamed(rules_json)',
           NEW D \in DialogState, dialog' = [dialog EXCEPT ![d] = D],
           NEW old \in Rules, loaded' = [loaded EXCEPT ![d] = old],
           NEW keys \in SUBSET Text, touched' = [touched EXCEPT ![d] = keys],
           NEW new \in Rules, entered' = [entered EXCEPT ![d] = new],
           Right(D, old, keys, new)
    PROVE  Sound'
<1>1. /\ dialog \in [Dialog -> DialogState] /\ loaded \in [Dialog -> Rules]
      /\ touched \in [Dialog -> SUBSET Text] /\ entered \in [Dialog -> Rules]
  BY DEF Sound
<1>2. /\ dialog' \in [Dialog -> DialogState] /\ loaded' \in [Dialog -> Rules]
      /\ touched' \in [Dialog -> SUBSET Text] /\ entered' \in [Dialog -> Rules]
  BY <1>1
<1>3. ASSUME NEW e \in Dialog
      PROVE  Right(dialog'[e], loaded'[e], touched'[e], entered'[e])
  <2>1. CASE e = d
    <3>1. dialog'[e] = D /\ loaded'[e] = old /\ touched'[e] = keys /\ entered'[e] = new
      BY <1>1, <2>1
    <3> QED BY <3>1
  <2>2. CASE e # d
    <3>1. dialog'[e] = dialog[e] /\ loaded'[e] = loaded[e]
          /\ touched'[e] = touched[e] /\ entered'[e] = entered[e]
      BY <1>1, <2>2
    <3>2. Right(dialog[e], loaded[e], touched[e], entered[e])
      BY DEF Sound
    <3> QED BY <3>1, <3>2
  <2> QED BY <2>1, <2>2
<1> QED BY <1>2, <1>3 DEF Sound

\* What Sound says of one dialog, and that what it leaves as it is, is a
\* step of it too.
LEMMA SoundIs ==
    ASSUME Sound, NEW d \in Dialog
    PROVE  /\ dialog[d] \in DialogState /\ loaded[d] \in Rules
           /\ touched[d] \in SUBSET Text /\ entered[d] \in Rules
           /\ Right(dialog[d], loaded[d], touched[d], entered[d])
           /\ dialog = [dialog EXCEPT ![d] = dialog[d]]
           /\ loaded = [loaded EXCEPT ![d] = loaded[d]]
           /\ touched = [touched EXCEPT ![d] = touched[d]]
           /\ entered = [entered EXCEPT ![d] = entered[d]]
           /\ rules_json \in Rules /\ WellNamed(rules_json)
           /\ entered \in [Dialog -> Rules] /\ touched \in [Dialog -> SUBSET Text]
           /\ dialog \in [Dialog -> DialogState]
BY DEF Sound

LEMMA InitIsSound ==
    ASSUME Init PROVE Sound
<1>1. rules_json \in Rules /\ WellNamed(rules_json)
  BY RuleEditorAssumption DEF Init
<1>2. Empty \in Typed /\ Empty \in Text /\ Default \in BoxDetail
  BY DefaultIsOffered DEF Typed, Text
<1>3. <<>> \in Rules /\ {} \in SUBSET Text
  BY DEF Rules
<1>4. Closed \in DialogState /\ Closed.state = "closed" /\ Closed.torrent_rules = <<>>
  BY <1>2, <1>3 DEF Closed, DialogState
<1>5. Right(Closed, <<>>, {}, <<>>)
  BY <1>3, <1>4 DEF Right, Proper, WellNamed, AreBasic, AreEntered, AllOffered
<1>6. /\ dialog = [d \in Dialog |-> Closed] /\ loaded = [d \in Dialog |-> <<>>]
      /\ touched = [d \in Dialog |-> {}] /\ entered = [d \in Dialog |-> <<>>]
  BY DEF Init
<1> HIDE DEF Init
<1>7. /\ dialog \in [Dialog -> DialogState] /\ touched \in [Dialog -> SUBSET Text]
  BY <1>3, <1>4, <1>6
<1>8. loaded \in [Dialog -> Rules] /\ entered \in [Dialog -> Rules]
  BY <1>3, <1>6
<1>9. ASSUME NEW d \in Dialog PROVE Right(dialog[d], loaded[d], touched[d], entered[d])
  <2>1. dialog[d] = Closed /\ loaded[d] = <<>> /\ touched[d] = {} /\ entered[d] = <<>>
    BY <1>6
  <2> QED BY <1>5, <2>1
<1> QED BY <1>1, <1>7, <1>8, <1>9 DEF Sound

LEMMA ShowStep ==
    ASSUME Sound, NEW d \in Dialog, showSettings(d)
    PROVE  Sound'
<1>1. /\ dialog' = [dialog EXCEPT ![d] = Loaded] /\ dialog[d].state = "closed"
      /\ loaded' = [loaded EXCEPT ![d] = rules_json]
      /\ rules_json' = rules_json /\ touched' = touched /\ entered' = entered
  BY DEF showSettings
<1>2. rules_json \in Rules /\ WellNamed(rules_json) /\ WellNamed(rules_json)'
  BY <1>1, SoundIs DEF WellNamed
<1>3. DOMAIN entered[d] = {} /\ entered[d] \in Rules /\ touched[d] \in SUBSET Text
  BY <1>1, SoundIs DEF Right
<1>4. Right(Loaded, rules_json, touched[d], entered[d])
  BY <1>2, <1>3, OpenedIsRight
<1>5. Loaded \in DialogState
  BY <1>2, LoadedIs DEF Proper
<1>6. touched' = [touched EXCEPT ![d] = touched[d]] /\ entered' = [entered EXCEPT ![d] = entered[d]]
  BY <1>1, SoundIs
<1> QED BY <1>1, <1>2, <1>3, <1>4, <1>5, <1>6, OneDialog

LEMMA CreateStep ==
    ASSUME Sound, NEW d \in Dialog, NEW title \in Name, NEW file \in Name,
    NEW detail \in Detail,
           showTorrentRules(d, title, detail, file)
    PROVE  Sound'
<1> DEFINE E == Added(Loaded)
           D == [E EXCEPT !.title = title, !.detail = InBox(E, detail), !.regex = file,
                          !.list[E.row] = title]
           keys == touched[d] \cup {title}
           new == EnteredIn(entered[d], dialog[d].title, D)
<1>1. /\ dialog' = [dialog EXCEPT ![d] = D] /\ dialog[d].state = "closed"
      /\ loaded' = [loaded EXCEPT ![d] = rules_json]
      /\ rules_json' = rules_json
      /\ touched' = [touched EXCEPT ![d] = @ \cup {title}]
      /\ Enter(d, D)
  BY DEF showTorrentRules, Touch
<1>2. rules_json \in Rules /\ WellNamed(rules_json) /\ WellNamed(rules_json)'
  BY <1>1, SoundIs DEF WellNamed
<1>3. DOMAIN entered[d] = {} /\ entered[d] \in Rules /\ touched[d] \in SUBSET Text
  BY <1>1, SoundIs DEF Right
<1>4. Right(D, rules_json, keys, new)
  BY <1>2, <1>3, CreatedIsRight
<1>5. entered' = [entered EXCEPT ![d] = new]
  BY <1>1 DEF Enter, EnteredIn
<1>6. touched' = [touched EXCEPT ![d] = keys]
  BY <1>1
<1> HIDE DEF D, keys, new
<1>7. D \in DialogState /\ keys \in SUBSET Text /\ new \in Rules
  BY <1>4 DEF Right, Proper
<1> QED BY <1>1, <1>2, <1>4, <1>5, <1>6, <1>7, OneDialog

\* A step of one dialog that writes nothing.
LEMMA EditStep ==
    ASSUME Sound, NEW d \in Dialog, rules_json' = rules_json, loaded' = loaded,
           NEW D, dialog' = [dialog EXCEPT ![d] = D],
           NEW keys, touched' = [touched EXCEPT ![d] = keys],
           NEW new, entered' = [entered EXCEPT ![d] = new],
           Right(D, loaded[d], keys, new)
    PROVE  Sound'
<1>1. rules_json' \in Rules /\ WellNamed(rules_json)'
  BY SoundIs DEF WellNamed
<1>2. loaded[d] \in Rules /\ loaded' = [loaded EXCEPT ![d] = loaded[d]]
  BY SoundIs
<1>3. D \in DialogState /\ keys \in SUBSET Text /\ new \in Rules
  BY DEF Right, Proper
<1> QED BY <1>1, <1>2, <1>3, OneDialog

\* Misfits are keys.
LEMMA MisfitIs ==
    ASSUME NEW D \in DialogState
    PROVE  Misfit(D) \in SUBSET Text
BY DEF Misfit, DialogState

LEMMA SelectStep ==
    ASSUME Sound, NEW d \in Dialog, NEW row \in DOMAIN dialog[d].list,
    Select(d, row), ~corrupt'
    PROVE  Sound'
<1> DEFINE D == Changed(dialog[d], row)
           keys == touched[d] \cup Misfit(D)
<1>1. /\ dialog' = [dialog EXCEPT ![d] = D] /\ dialog[d].state = "open"
      /\ rules_json' = rules_json /\ loaded' = loaded
      /\ touched' = [touched EXCEPT ![d] = keys] /\ entered' = entered
  BY DEF Select, ChangeTo, IsOpen, Touch
<1>2. Right(dialog[d], loaded[d], touched[d], entered[d]) /\ dialog[d] \in DialogState
      /\ touched[d] \in SUBSET Text
  BY SoundIs
<1>3. row \in 1..Len(dialog[d].list)
  BY <1>2 DEF DialogState
<1>4. keys \in SUBSET Text
  BY <1>2, <1>3, ChangedIs, MisfitIs DEF Right, Proper
<1>5. Right(D, loaded[d], keys, entered[d])
  BY <1>1, <1>2, <1>3, <1>4, ChangedIsRight
<1>6. entered' = [entered EXCEPT ![d] = entered[d]]
  BY <1>1, SoundIs
<1> HIDE DEF D, keys
<1> QED BY <1>1, <1>5, <1>6, EditStep

LEMMA NewStep ==
    ASSUME Sound, NEW d \in Dialog, newTorrentRule(d), ~corrupt'
    PROVE  Sound'
<1> DEFINE D == dialog[d]
           E == Added(D)
           new == IF TakesRow(D) THEN Without(entered[d], {FieldName(D)}) ELSE entered[d]
           keys == touched[d] \cup Misfit(E)
<1>1. /\ dialog' = [dialog EXCEPT ![d] = E] /\ D.state = "open"
      /\ rules_json' = rules_json /\ loaded' = loaded
      /\ touched' = [touched EXCEPT ![d] = keys]
  BY DEF newTorrentRule, ChangeTo, IsOpen, Touch
<1>2. entered' = [entered EXCEPT ![d] = new]
  <2>1. entered' = IF TakesRow(D)
                   THEN [entered EXCEPT ![d] = Without(@, {FieldName(D)})] ELSE entered
    BY DEF newTorrentRule
  <2> QED BY <2>1, SoundIs
<1>3. Right(D, loaded[d], touched[d], entered[d]) /\ entered[d] \in Rules
      /\ touched[d] \in SUBSET Text
  BY SoundIs
<1>4. new \in Rules
  BY <1>3, WithoutRules
<1>5. DOMAIN new \subseteq DOMAIN entered[d] /\ \A name \in DOMAIN new : new[name] = entered[d][name]
  BY DEF Without, Restrict
<1>6. TakesRow(D) => FieldName(D) \notin DOMAIN new
  BY DEF Without, Restrict
<1>7. keys \in SUBSET Text
  BY <1>3, AddedIs, MisfitIs DEF Right, Proper
<1> HIDE DEF D, new
<1>8. Right(E, loaded[d], keys, new)
  BY <1>1, <1>3, <1>4, <1>5, <1>6, <1>7, AddedIsRight
<1> HIDE DEF E, keys
<1> QED BY <1>1, <1>2, <1>8, EditStep

LEMMA DeleteStep ==
    ASSUME Sound, NEW d \in Dialog, deleteTorrentRule(d), ~corrupt'
    PROVE  Sound'
<1> DEFINE D == dialog[d]
           E == Removed(D)
           row == IF D.row > 1 THEN D.row - 1 ELSE 1
           F == IF E.row = row THEN E ELSE Changed(E, row)
           own == {D.current_rule, D.list[D.row]}
           keys == touched[d] \cup (own \cup Misfit(E) \cup Misfit(F))
           new == Without(entered[d], {D.title})
<1>1. /\ dialog' = [dialog EXCEPT ![d] = F] /\ D.state = "open" /\ D.row # 0
      /\ Len(D.list) # 1
      /\ rules_json' = rules_json /\ loaded' = loaded
  BY DEF deleteTorrentRule, ChangeTo, IsOpen
<1>2. touched' = [touched EXCEPT ![d] = keys]
  BY DEF deleteTorrentRule, ChangeTo, Touch
<1>3. entered' = [entered EXCEPT ![d] = new]
  BY DEF deleteTorrentRule
<1>4. /\ Right(D, loaded[d], touched[d], entered[d]) /\ D \in DialogState
      /\ touched[d] \in SUBSET Text /\ entered[d] \in Rules
  BY SoundIs
<1>5. D.list \in Seq(Text) /\ Len(D.list) \in Nat /\ D.row \in 0..Len(D.list)
  BY <1>1, <1>4 DEF DialogState, Right, InBounds
<1>6. D.row \in 1..Len(D.list) /\ Len(D.list) > 1 /\ row \in 1..Len(D.list) - 1
  <2> HIDE DEF D
  <2>1. Len(D.list) \in Nat /\ Len(D.list) # 1 /\ D.row \in 0..Len(D.list) /\ D.row # 0
    BY <1>1, <1>5
  <2> QED BY <2>1, AboutRows
<1>7. /\ keys \in SUBSET Text /\ touched[d] \subseteq keys
      /\ Misfit(E) \subseteq keys /\ Misfit(F) \subseteq keys
  <2>1. Proper(D)
    BY <1>4 DEF Right
  <2>2. own \in SUBSET Text
    BY <1>4, <1>5, <1>6 DEF DialogState
  <2> HIDE DEF D, own, row
  <2>3. Proper(E) /\ Len(E.list) = Len(D.list) - 1
    BY <1>6, <2>1, RemovedIs
  <2> HIDE DEF E
  <2>4. Proper(F)
    BY <1>6, <2>3, ChangedIs
  <2> HIDE DEF F
  <2>5. Misfit(E) \in SUBSET Text /\ Misfit(F) \in SUBSET Text
    BY <2>3, <2>4, MisfitIs DEF Proper
  <2> QED BY <1>4, <2>2, <2>5
<1>8. new \in Rules /\ DOMAIN new \subseteq DOMAIN entered[d]
      /\ \A name \in DOMAIN new : new[name] = entered[d][name]
  <2>1. new \in Rules
    BY <1>4, WithoutRules
  <2> QED BY <2>1 DEF Without, Restrict
<1> HIDE DEF D, keys, new, row, own
<1>9. Right(E, loaded[d], keys, new)
  BY <1>1, <1>4, <1>6, <1>7, <1>8, RemovedIsRight
<1>10. Len(E.list) = Len(D.list) - 1 /\ E.state = D.state
  BY <1>4, <1>6, RemovedIs DEF Right
<1> HIDE DEF E
<1>11. Right(F, loaded[d], keys, new)
  <2>1. CASE E.row = row
    BY <1>9, <2>1
  <2>2. CASE E.row # row
    <3>1. row \in 1..Len(E.list)
      BY <1>6, <1>10
    <3>2. keys \in SUBSET Text /\ Misfit(Changed(E, row)) \cap Name \subseteq keys
      BY <1>7, <2>2
    <3>3. E.state = "open"
      BY <1>1, <1>10
    <3> HIDE DEF F
    <3>4. Right(Changed(E, row), loaded[d], keys, new)
      BY <1>9, <3>1, <3>2, <3>3, ChangedIsRight
    <3> QED BY <2>2, <3>4 DEF F
  <2> QED BY <2>1, <2>2
<1> HIDE DEF F
<1> QED BY <1>1, <1>2, <1>3, <1>11, EditStep

\* What the fields of D may be when the user has changed one of another's.
IsEditOf(D, before) ==
    /\ D \in DialogState
    /\ D.state = before.state /\ D.list = before.list /\ D.row = before.row
    /\ D.torrent_rules = before.torrent_rules /\ D.current_rule = before.current_rule
    /\ (before.basic /\ D.basic) \/ (D.title = before.title /\ D.detail = before.detail)

LEMMA EnterIs ==
    ASSUME Sound, NEW d \in Dialog, NEW D, Enter(d, D)
    PROVE  entered' = [entered EXCEPT ![d] = EnteredIn(entered[d], dialog[d].title, D)]
BY DEF Enter, EnteredIn

LEMMA TypeStep ==
    ASSUME Sound, NEW d \in Dialog, NEW D, IsEditOf(D, dialog[d]), NEW name \in Typed,
           FieldName(D) = name, Type(d, D, name), ~corrupt'
    PROVE  Sound'
<1> DEFINE list == [D.list EXCEPT ![D.row] = name]
           E == [D EXCEPT !.list = list]
           keys == touched[d] \cup {D.current_rule, name}
           new == EnteredIn(entered[d], dialog[d].title, D)
<1>1. /\ dialog[d].state = "open" /\ D.row # 0
      /\ rules_json' = rules_json /\ loaded' = loaded
      /\ touched' = [touched EXCEPT ![d] = keys]
  BY DEF Type, IsOpen, Touch
<1>2. entered' = [entered EXCEPT ![d] = new]
  BY EnterIs DEF Type
<1>3. dialog' = [dialog EXCEPT ![d] = [D EXCEPT !.list[D.row] = name]]
  BY <1>1 DEF Type
<1>4. /\ D \in DialogState /\ D.list \in Seq(Text) /\ D.current_rule \in Text /\ name \in Text
      /\ Len(D.list) \in Nat
  BY DEF IsEditOf, DialogState, Typed, Text
<1>5. [D EXCEPT !.list[D.row] = name] = E
  BY <1>4 DEF DialogState
<1>6. list \in Seq(Text) /\ Len(list) = Len(D.list)
  <2>1. D.list \in [1..Len(D.list) -> Text]
    BY <1>4
  <2>2. list \in [1..Len(D.list) -> Text]
    BY <1>4, <2>1
  <2> HIDE DEF list
  <2> QED BY <1>4, <2>2
<1> HIDE DEF list
<1>7. /\ E \in DialogState /\ E.list = list /\ E.row = D.row /\ E.state = D.state
      /\ E.torrent_rules = D.torrent_rules /\ E.current_rule = D.current_rule
      /\ E.title = D.title /\ E.regex = D.regex /\ E.detail = D.detail /\ E.basic = D.basic
  BY <1>4, <1>6 DEF DialogState
<1> HIDE DEF E
<1>8. FieldName(E) = name /\ FieldRule(E) = FieldRule(D)
  BY <1>7 DEF FieldName, FieldRule
<1>9. new = EnteredIn(entered[d], dialog[d].title, E)
  BY <1>7, <1>8 DEF EnteredIn
<1>10. /\ Right(dialog[d], loaded[d], touched[d], entered[d]) /\ touched[d] \in SUBSET Text
  BY SoundIs
<1>11. keys \in SUBSET Text /\ touched[d] \subseteq keys
       /\ E.current_rule \in keys /\ FieldName(E) \in keys
  BY <1>4, <1>7, <1>8, <1>10
<1> HIDE DEF keys, new
<1>12. /\ dialog[d].row # 0 /\ E.state = "open" /\ E.torrent_rules = dialog[d].torrent_rules
       /\ E.current_rule = dialog[d].current_rule /\ E.row = dialog[d].row
       /\ Len(E.list) = Len(dialog[d].list)
       /\ (dialog[d].basic /\ E.basic) \/ (E.title = dialog[d].title /\ E.detail = dialog[d].detail)
  BY <1>1, <1>6, <1>7 DEF IsEditOf
<1>13. Right(E, loaded[d], keys, new)
  BY <1>1, <1>7, <1>9, <1>10, <1>11, <1>12, EnteredIsRight
<1> QED BY <1>1, <1>2, <1>3, <1>5, <1>13, EditStep

LEMMA SetStep ==
    ASSUME Sound, NEW d \in Dialog, NEW D, IsEditOf(D, dialog[d]), Set(d, D)
    PROVE  Sound'
<1> DEFINE keys == touched[d] \cup {D.current_rule, FieldName(D)}
           new == IF D.row # 0 THEN EnteredIn(entered[d], dialog[d].title,
           D) ELSE entered[d]
<1>1. /\ dialog[d].state = "open" /\ dialog' = [dialog EXCEPT ![d] = D]
      /\ rules_json' = rules_json /\ loaded' = loaded
      /\ touched' = [touched EXCEPT ![d] = keys]
  BY DEF Set, IsOpen, Touch
<1>2. entered' = [entered EXCEPT ![d] = new]
  <2>1. CASE D.row # 0
    BY <2>1, EnterIs DEF Set
  <2>2. CASE D.row = 0
    BY <2>2, SoundIs DEF Set
  <2> QED BY <2>1, <2>2
<1>3. /\ D \in DialogState /\ D.current_rule \in Text /\ FieldName(D) \in Text
  BY FieldsAre DEF IsEditOf, DialogState
<1>4. Right(dialog[d], loaded[d], touched[d], entered[d]) /\ touched[d] \in SUBSET Text
  BY SoundIs
<1>5. keys \in SUBSET Text /\ touched[d] \subseteq keys
      /\ D.current_rule \in keys /\ FieldName(D) \in keys
  BY <1>3, <1>4
<1> HIDE DEF keys
<1>6. /\ D.row = dialog[d].row /\ D.state = "open"
      /\ D.torrent_rules = dialog[d].torrent_rules
      /\ D.current_rule = dialog[d].current_rule /\ Len(D.list) = Len(dialog[d].list)
      /\ (dialog[d].basic /\ D.basic) \/ (D.title = dialog[d].title /\ D.detail = dialog[d].detail)
  BY <1>1 DEF IsEditOf
<1>7. Right(D, loaded[d], keys, new)
  <2>1. CASE D.row # 0
    BY <1>1, <1>3, <1>4, <1>5, <1>6, <2>1, EnteredIsRight
  <2>2. CASE D.row = 0
    BY <1>1, <1>3, <1>4, <1>5, <1>6, <2>2, SetIsRight
  <2> QED BY <2>1, <2>2
<1> HIDE DEF new
<1> QED BY <1>1, <1>2, <1>7, EditStep

\* Each edit of a field is one.
LEMMA EditsAre ==
    ASSUME NEW D \in DialogState
    PROVE  /\ \A title \in Typed : D.basic =>
                 /\ IsEditOf([D EXCEPT !.title = title], D)
                 /\ FieldName([D EXCEPT !.title = title]) = title
           /\ \A regex \in Typed : ~D.basic =>
                 /\ IsEditOf([D EXCEPT !.regex = regex], D)
                 /\ FieldName([D EXCEPT !.regex = regex]) = regex
           /\ \A detail \in BoxDetail : D.basic => IsEditOf([D EXCEPT !.detail = detail], D)
           /\ IsEditOf([D EXCEPT !.basic = ~@], D)
<1>1. ASSUME NEW title \in Typed, D.basic
      PROVE  /\ IsEditOf([D EXCEPT !.title = title], D)
             /\ FieldName([D EXCEPT !.title = title]) = title
  BY <1>1 DEF IsEditOf, FieldName, DialogState
<1>2. ASSUME NEW regex \in Typed, ~D.basic
      PROVE  /\ IsEditOf([D EXCEPT !.regex = regex], D)
             /\ FieldName([D EXCEPT !.regex = regex]) = regex
  BY <1>2 DEF IsEditOf, FieldName, DialogState
<1>3. ASSUME NEW detail \in BoxDetail,
D.basic PROVE IsEditOf([D EXCEPT !.detail = detail], D)
  BY <1>3 DEF IsEditOf, DialogState
<1>4. IsEditOf([D EXCEPT !.basic = ~@], D)
  BY DEF IsEditOf, DialogState
<1> QED BY <1>1, <1>2, <1>3, <1>4

LEMMA AcceptIs ==
    ASSUME Sound, NEW d \in Dialog, accept(d), ~corrupt'
    PROVE  /\ Proper(dialog[d]) /\ InBounds(dialog[d]) /\ ~LastRow(dialog[d])
           /\ rules_json' = Saved(dialog[d])
           /\ Touch(d, IF dialog[d].current_rule = Empty THEN {}
                       ELSE Misfit(Remaining(dialog[d])))
<1> DEFINE D == dialog[d]
           last == D.current_rule # Empty /\ Found(D) = D.row /\ Len(D.list) = 1
<1>1. /\ corrupt' \in {last} \cup (IF Fails(D) THEN BOOLEAN ELSE {})
      /\ rules_json' = (IF corrupt' THEN rules_json ELSE Saved(D))
      /\ D.state = "open"
      /\ Touch(d, IF corrupt' \/ D.current_rule = Empty THEN {} ELSE Misfit(Remaining(D)))
  BY DEF accept, IsOpen
<1>2. Proper(D) /\ InBounds(D)
  BY <1>1, SoundIs DEF Right
<1>3. rules_json' = Saved(D)
  BY <1>1
<1>4. ASSUME LastRow(D) PROVE FALSE
  <2>1. D.row # 0 /\ Found(D) # 0
    BY <1>2, <1>4 DEF LastRow, InBounds
  <2>2. ~Fails(D)
    BY <2>1 DEF Fails
  <2>3. last = TRUE
    BY <1>4 DEF LastRow
  <2> HIDE DEF last
  <2>4. corrupt' = TRUE
    BY <1>1, <2>2, <2>3
  <2> QED BY <2>4
<1>5. Touch(d, IF D.current_rule = Empty THEN {} ELSE Misfit(Remaining(D)))
  BY <1>1
<1> QED BY <1>2, <1>3, <1>4, <1>5

LEMMA AcceptStep ==
    ASSUME Sound, NEW d \in Dialog, accept(d), ~corrupt'
    PROVE  Sound'
<1> DEFINE E == [Closed EXCEPT !.state = "accepted"]
           D == dialog[d]
           keys == touched[d] \cup (IF D.current_rule = Empty THEN {} ELSE Misfit(Remaining(D)))
<1>1. /\ dialog' = [dialog EXCEPT ![d] = E] /\ loaded' = loaded /\ entered' = entered
      /\ touched' = [touched EXCEPT ![d] = keys]
  BY AcceptIs DEF accept, Touch
<1>2. rules_json' = Saved(dialog[d])
  BY AcceptIs
<1>3. Saved(dialog[d]) \in Rules /\ WellNamed(Saved(dialog[d]))
  BY AcceptIs, SavedIs
<1>4. rules_json' \in Rules /\ WellNamed(rules_json)'
  BY <1>2, <1>3 DEF WellNamed
<1>5. keys \in SUBSET Text
  <2>1. touched[d] \in SUBSET Text
    BY SoundIs
  <2>2. D.current_rule # Empty => Misfit(Remaining(D)) \in SUBSET Text
    BY AcceptIs, SavedIs, MisfitIs
  <2> QED BY <2>1, <2>2
<1>6. Right(E, loaded[d], keys, entered[d])
  BY <1>5, SoundIs, ClosedIsRight
<1> HIDE DEF E, keys
<1>7. E \in DialogState
  BY <1>6 DEF Right, Proper
<1>8. /\ loaded[d] \in Rules /\ entered[d] \in Rules
      /\ loaded' = [loaded EXCEPT ![d] = loaded[d]]
      /\ entered' = [entered EXCEPT ![d] = entered[d]]
  BY <1>1, SoundIs
<1> QED BY <1>1, <1>4, <1>5, <1>6, <1>7, <1>8, OneDialog

LEMMA RejectStep ==
    ASSUME Sound, NEW d \in Dialog, reject(d)
    PROVE  Sound'
<1> DEFINE E == [Closed EXCEPT !.state = "rejected"]
<1>1. /\ dialog' = [dialog EXCEPT ![d] = E] /\ loaded' = loaded /\ rules_json' = rules_json
      /\ touched' = touched /\ entered' = entered
  BY DEF reject, historyVars
<1>2. Right(E, loaded[d], touched[d], entered[d])
  BY SoundIs, ClosedIsRight
<1> HIDE DEF E
<1>3. /\ touched' = [touched EXCEPT ![d] = touched[d]]
      /\ entered' = [entered EXCEPT ![d] = entered[d]]
  BY <1>1, SoundIs
<1> QED BY <1>1, <1>2, <1>3, EditStep

LEMMA DefaultIs ==
    ASSUME Sound, NEW d \in Dialog, defaultSettings(d), ~corrupt'
    PROVE  /\ dialog[d].state = "open" /\ dialog[d].row = 0
           /\ rules_json' = dialog[d].torrent_rules
           /\ dialog' = [dialog EXCEPT
                            ![d] = [dialog[d] EXCEPT !.list = <<>>, !.title = Empty,
                                             !.regex = Empty, !.detail = Default]]
BY DEF defaultSettings, IsOpen

LEMMA DefaultStep ==
    ASSUME Sound, NEW d \in Dialog, defaultSettings(d), ~corrupt'
    PROVE  Sound'
<1> DEFINE D == dialog[d]
           E == [D EXCEPT !.list = <<>>, !.title = Empty, !.regex = Empty, !.detail = Default]
<1>1. /\ D.state = "open" /\ D.row = 0 /\ rules_json' = D.torrent_rules
      /\ dialog' = [dialog EXCEPT ![d] = E]
  BY DefaultIs
<1>2. loaded' = loaded /\ touched' = touched /\ entered' = entered
  BY DEF defaultSettings, historyVars
<1>3. Right(D, loaded[d], touched[d], entered[d])
  BY SoundIs
<1>4. rules_json' \in Rules /\ WellNamed(rules_json)'
  BY <1>1, <1>3 DEF Right, Proper, DialogState, WellNamed
<1>5. Right(E, loaded[d], touched[d], entered[d])
  BY <1>1, <1>3, ClearedIsRight
<1> HIDE DEF E
<1>6. E \in DialogState
  BY <1>5 DEF Right, Proper
<1>7. /\ loaded[d] \in Rules /\ touched[d] \in SUBSET Text /\ entered[d] \in Rules
      /\ loaded' = [loaded EXCEPT ![d] = loaded[d]]
      /\ touched' = [touched EXCEPT ![d] = touched[d]]
      /\ entered' = [entered EXCEPT ![d] = entered[d]]
  BY <1>2, SoundIs
<1> QED BY <1>1, <1>4, <1>5, <1>6, <1>7, OneDialog

LEMMA StepIsSound ==
    ASSUME Sound, NEW d \in Dialog, Step(d), ~corrupt'
    PROVE  Sound'
<1>1. dialog[d] \in DialogState
  BY SoundIs
<1>2. CASE showSettings(d)
  BY <1>2, ShowStep
<1>3. CASE \E title, file \in Name, detail \in Detail : showTorrentRules(d,
title, detail, file)
  BY <1>3, CreateStep
<1>4. CASE \E row \in DOMAIN dialog[d].list : Select(d, row)
  BY <1>4, SelectStep
<1>5. CASE newTorrentRule(d)
  BY <1>5, NewStep
<1>6. CASE deleteTorrentRule(d)
  BY <1>6, DeleteStep
<1>7. CASE \E text \in Typed : animeTitleEdited(d, text)
  <2>1. PICK text \in Typed : animeTitleEdited(d, text)
    BY <1>7
  <2> DEFINE D == [dialog[d] EXCEPT !.title = text]
  <2>2. Type(d, D, text) /\ dialog[d].basic
    BY <2>1 DEF animeTitleEdited
  <2>3. IsEditOf(D, dialog[d]) /\ FieldName(D) = text
    BY <1>1, <2>2, EditsAre
  <2> HIDE DEF D
  <2> QED BY <2>2, <2>3, TypeStep
<1>8. CASE \E text \in Typed : fileRegexEdited(d, text)
  <2>1. PICK text \in Typed : fileRegexEdited(d, text)
    BY <1>8
  <2> DEFINE D == [dialog[d] EXCEPT !.regex = text]
  <2>2. Type(d, D, text) /\ ~dialog[d].basic
    BY <2>1 DEF fileRegexEdited
  <2>3. IsEditOf(D, dialog[d]) /\ FieldName(D) = text
    BY <1>1, <2>2, EditsAre
  <2> HIDE DEF D
  <2> QED BY <2>2, <2>3, TypeStep
<1>9. CASE \E detail \in Detail : SetDetail(d, detail)
  <2>1. PICK detail \in Detail : SetDetail(d, detail)
    BY <1>9
  <2> DEFINE D == [dialog[d] EXCEPT !.detail = detail]
  <2>2. Set(d, D) /\ dialog[d].basic /\ detail \in BoxDetail
    BY <2>1 DEF SetDetail, BoxDetail
  <2>3. IsEditOf(D, dialog[d])
    BY <1>1, <2>2, EditsAre
  <2> HIDE DEF D
  <2> QED BY <2>2, <2>3, SetStep
<1>10. CASE toggleBasic(d)
  <2> DEFINE D == [dialog[d] EXCEPT !.basic = ~@]
  <2>1. Set(d, D)
    BY <1>10 DEF toggleBasic
  <2>2. IsEditOf(D, dialog[d])
    BY <1>1, EditsAre
  <2> HIDE DEF D
  <2> QED BY <2>1, <2>2, SetStep
<1>11. CASE accept(d)
  BY <1>11, AcceptStep
<1>12. CASE reject(d)
  BY <1>12, RejectStep
<1>13. CASE defaultSettings(d)
  BY <1>13, DefaultStep
<1> QED BY <1>2, <1>3, <1>4, <1>5, <1>6, <1>7, <1>8, <1>9, <1>10, <1>11, <1>12,
<1>13 DEF Step

(* The invariant of the specification: until something fails, every dialog  *)
(* has, in its map or in its fields, what its user entered and every basic  *)
(* rule its user left alone, and cannot write over one by putting back the  *)
(* rule of another row.                                                     *)
THEOREM RulesAreKept == Spec => []RuleInv
<1>1. Init => RuleInv
  BY InitIsSound DEF RuleInv
<1>2. RuleInv /\ [Next]_vars => RuleInv'
  <2> SUFFICES ASSUME RuleInv, [Next]_vars, ~corrupt' PROVE Sound'
    BY DEF RuleInv
  <2>1. CASE Next
    <3>1. ~corrupt /\ \E d \in Dialog : Step(d)
      BY <2>1 DEF Next
    <3>2. Sound
      BY <3>1 DEF RuleInv
    <3> QED BY <3>1, <3>2, StepIsSound
  <2>2. CASE UNCHANGED vars
    <3>1. /\ corrupt' = corrupt /\ rules_json' = rules_json /\ dialog' = dialog
          /\ loaded' = loaded /\ touched' = touched /\ entered' = entered
      BY <2>2 DEF vars, historyVars
    <3>2. Sound
      BY <3>1 DEF RuleInv
    <3> QED BY <3>1, <3>2 DEF Sound, WellNamed
  <2> QED BY <2>1, <2>2
<1> QED BY <1>1, <1>2, PTL DEF Spec

-----------------------------------------------------------------------------
(* When a dialog fails.                                                     *)

LEMMA FailsIs ==
    ASSUME Sound, NEW d \in Dialog, IsOpen(d),
           Fails(dialog[d]) \/ Fails(WithRow(dialog[d]))
    PROVE  IsRenamed(dialog[d])
<1> DEFINE D == dialog[d]
           A == WithRow(D)
<1>1. Proper(D) /\ InBounds(D)
  BY SoundIs DEF IsOpen, Right
<1>2. D \in DialogState /\ Len(D.list) \in Nat
  BY <1>1 DEF Proper, DialogState
<1>3. /\ A \in DialogState /\ A.current_rule = D.current_rule /\ Len(A.list) = Len(D.list) + 1
      /\ \A r \in 1..Len(D.list) : A.list[r] = D.list[r]
  BY <1>1, WithRowIs DEF Proper
<1> HIDE DEF D, A
<1>4. D.current_rule # Empty /\ (Found(D) = 0 \/ Found(A) = 0)
  BY <1>3 DEF Fails, D, A
<1>5. D.row \in 1..Len(D.list)
  BY <1>1, <1>2, <1>4 DEF InBounds
<1>6. D.list[D.row] # D.current_rule
  <2>1. CASE Found(D) = 0
    BY <1>2, <1>5, <2>1, FoundIs
  <2>2. CASE Found(A) = 0
    <3>1. D.row \in 1..Len(A.list) /\ A.list[D.row] = D.list[D.row]
      BY <1>2, <1>3, <1>5
    <3> QED BY <1>3, <2>2, <3>1, FoundIs
  <2> QED BY <1>4, <2>1, <2>2
<1> QED BY <1>5, <1>6 DEF IsRenamed, D

KnownFailure(d) ==
    IsOpen(d) /\
        \/ Len(dialog[d].list) = 1
        \/ IsRenamed(dialog[d])
        \/ defaultSettings(d)
        \/ dialog[d].row = 0 /\ \E text \in Typed :
               animeTitleEdited(d, text) \/ fileRegexEdited(d, text)

LEMMA FailureIsKnown ==
    ASSUME Sound, ~corrupt, NEW d \in Dialog, Step(d), corrupt'
    PROVE  KnownFailure(d)
<1>1. CASE showSettings(d)
  BY <1>1 DEF showSettings
<1>2. CASE \E title, file \in Name, detail \in Detail : showTorrentRules(d,
title, detail, file)
  BY <1>2 DEF showTorrentRules
<1>3. CASE \E row \in DOMAIN dialog[d].list : Select(d, row)
  BY <1>3, FailsIs DEF Select, ChangeTo, KnownFailure
<1>4. CASE newTorrentRule(d)
  BY <1>4, FailsIs DEF newTorrentRule, ChangeTo, KnownFailure
<1>5. CASE deleteTorrentRule(d)
  BY <1>5, FailsIs DEF deleteTorrentRule, ChangeTo, KnownFailure
<1>6. CASE \E text \in Typed : animeTitleEdited(d, text) \/ fileRegexEdited(d, text)
  <2>1. PICK text \in Typed : animeTitleEdited(d, text) \/ fileRegexEdited(d, text)
    BY <1>6
  <2>2. dialog[d] \in DialogState
    BY SoundIs
  <2>3. ASSUME NEW D, D.row = dialog[d].row, Type(d, D, text)
        PROVE  IsOpen(d) /\ dialog[d].row = 0
    BY <2>3 DEF Type
  <2>4. CASE animeTitleEdited(d, text)
    <3>1. [dialog[d] EXCEPT !.title = text].row = dialog[d].row
      BY <2>2 DEF DialogState
    <3> QED BY <2>1, <2>3, <2>4, <3>1 DEF animeTitleEdited, KnownFailure
  <2>5. CASE fileRegexEdited(d, text)
    <3>1. [dialog[d] EXCEPT !.regex = text].row = dialog[d].row
      BY <2>2 DEF DialogState
    <3> QED BY <2>1, <2>3, <2>5, <3>1 DEF fileRegexEdited, KnownFailure
  <2> QED BY <2>1, <2>4, <2>5
<1>7. CASE \E detail \in Detail : SetDetail(d, detail)
  BY <1>7 DEF SetDetail, Set
<1>8. CASE toggleBasic(d)
  BY <1>8 DEF toggleBasic, Set
<1>9. CASE accept(d)
  <2>1. CASE Fails(dialog[d])
    BY <1>9, <2>1, FailsIs DEF accept, KnownFailure
  <2>2. CASE ~Fails(dialog[d])
    <3> DEFINE last == dialog[d].current_rule # Empty /\ Found(dialog[d]) = dialog[d].row
                       /\ Len(dialog[d].list) = 1
    <3>1. corrupt' \in {last} \cup {} /\ IsOpen(d)
      BY <1>9, <2>2 DEF accept
    <3> HIDE DEF last
    <3>2. last
      BY <3>1
    <3> QED BY <3>1, <3>2 DEF last, KnownFailure
  <2> QED BY <2>1, <2>2
<1>10. CASE reject(d)
  BY <1>10 DEF reject
<1>11. CASE defaultSettings(d)
  BY <1>11 DEF defaultSettings, KnownFailure
<1> QED BY <1>1, <1>2, <1>3, <1>4, <1>5, <1>6, <1>7, <1>8, <1>9, <1>10, <1>11 DEF Step

(* FailsOnlyAsKnown: a dialog of any rules uses an item that does not exist *)
(* only in the ways that are named there.                                   *)
THEOREM Failures == Spec => FailsOnlyAsKnown
<1>1. RuleInv /\ [Next]_vars => [corrupt' => \E d \in Dialog : KnownFailure(d)]_vars
  <2> SUFFICES ASSUME RuleInv, Next, corrupt' PROVE \E d \in Dialog : KnownFailure(d)
    OBVIOUS
  <2>1. ~corrupt /\ \E d \in Dialog : Step(d)
    BY DEF Next
  <2>2. Sound
    BY <2>1 DEF RuleInv
  <2> QED BY <2>1, <2>2, FailureIsKnown
<1>2. RuleInv /\ [Next]_vars =>
        [corrupt' => \E d \in Dialog : IsOpen(d) /\
            \/ Len(dialog[d].list) = 1
            \/ IsRenamed(dialog[d])
            \/ defaultSettings(d)
            \/ dialog[d].row = 0 /\ \E text \in Typed :
                   animeTitleEdited(d, text) \/ fileRegexEdited(d, text)]_vars
  BY <1>1 DEF KnownFailure
<1> QED BY <1>2, RulesAreKept, PTL DEF Spec, FailsOnlyAsKnown

-----------------------------------------------------------------------------
(* What a step writes.                                                      *)

LEMMA WritesAre ==
    ASSUME Sound, NEW d \in Dialog, Step(d)
    PROVE  \/ rules_json' = rules_json
           \/ accept(d) /\ ~corrupt'
           \/ defaultSettings(d) /\ ~corrupt'
<1>1. CASE showSettings(d)
  BY <1>1 DEF showSettings
<1>2. CASE \E title, file \in Name, detail \in Detail : showTorrentRules(d,
title, detail, file)
  BY <1>2 DEF showTorrentRules
<1>3. CASE \E row \in DOMAIN dialog[d].list : Select(d, row)
  BY <1>3 DEF Select, ChangeTo
<1>4. CASE newTorrentRule(d)
  BY <1>4 DEF newTorrentRule, ChangeTo
<1>5. CASE deleteTorrentRule(d)
  BY <1>5 DEF deleteTorrentRule, ChangeTo
<1>6. CASE \E text \in Typed : animeTitleEdited(d, text) \/ fileRegexEdited(d, text)
  BY <1>6 DEF animeTitleEdited, fileRegexEdited, Type
<1>7. CASE \E detail \in Detail : SetDetail(d, detail)
  BY <1>7 DEF SetDetail, Set
<1>8. CASE toggleBasic(d)
  BY <1>8 DEF toggleBasic, Set
<1>9. CASE accept(d)
  BY <1>9 DEF accept
<1>10. CASE reject(d)
  BY <1>10 DEF reject
<1>11. CASE defaultSettings(d)
  <2>1. corrupt' = (dialog[d].row # 0)
        /\ rules_json' = IF dialog[d].row # 0 THEN rules_json ELSE dialog[d].torrent_rules
    BY <1>11 DEF defaultSettings
  <2> QED BY <1>11, <2>1
<1> QED BY <1>1, <1>2, <1>3, <1>4, <1>5, <1>6, <1>7, <1>8, <1>9, <1>10, <1>11 DEF Step

\* Whatever is written holds what the dialog's user left alone.
LEMMA WritesWhatIsLeft ==
    ASSUME Sound, NEW d \in Dialog,
           (accept(d) \/ defaultSettings(d)) /\ ~corrupt'
    PROVE  IsOpen(d) /\ Stored(rules_json', Left(loaded[d], touched'[d]))
<1> DEFINE kept == Left(loaded[d], touched'[d])
<1>1. IsOpen(d)
  BY DEF accept, defaultSettings
<1>2. /\ Keeps(dialog[d], kept) /\ loaded[d] \in Rules /\ WellNamed(loaded[d])
  <2>1. /\ Keeps(dialog[d], Left(loaded[d], touched[d]))
        /\ loaded[d] \in Rules /\ WellNamed(loaded[d])
    BY <1>1, SoundIs DEF Right, IsOpen
  <2>2. touched[d] \subseteq touched'[d]
    BY SoundIs DEF accept, defaultSettings, historyVars, Touch
  <2> QED BY <2>1, <2>2, LeftKeeps
<1>3. AreBasic(kept)
  BY <1>2, LeftIs
<1> HIDE DEF kept
<1>4. Stored(rules_json', kept)
  <2>1. CASE accept(d)
    <3>1. /\ Proper(dialog[d]) /\ InBounds(dialog[d]) /\ ~LastRow(dialog[d])
          /\ rules_json' = Saved(dialog[d])
      BY <2>1, AcceptIs
    <3>2. dialog[d].current_rule # Empty
            => Fits(Remaining(dialog[d]), Left(loaded[d], touched'[d]))
      <4>1. dialog[d].current_rule # Empty => Misfit(Remaining(dialog[d])) \subseteq touched'[d]
        BY <2>1, SoundIs, AcceptIs DEF Touch
      <4> QED BY <1>2, <4>1, LeftFits
    <3> QED BY <1>2, <1>3, <3>1, <3>2, SavedIs DEF Keeps, kept
  <2>2. CASE defaultSettings(d)
    BY <1>2, <2>2, DefaultIs DEF Keeps
  <2> QED BY <2>1, <2>2
<1> QED BY <1>1, <1>4 DEF kept

LEMMA UntouchedStay ==
    ASSUME Sound, NEW d \in Dialog, Step(d), NEW name \in Name \cap DOMAIN rules_json
    PROVE  \/ rules_json[name].type # "basic"
           \/ name \in DOMAIN rules_json' /\ rules_json'[name] = rules_json[name]
           \/ \E e \in Dialog : IsOpen(e) /\ (name \in touched'[e] \/ rules_json # loaded[e])
<1> SUFFICES ASSUME rules_json[name].type = "basic",
                    \A e \in Dialog : IsOpen(e) => name \notin touched'[e] /\ rules_json = loaded[e]
             PROVE  name \in DOMAIN rules_json' /\ rules_json'[name] = rules_json[name]
  OBVIOUS
<1>1. CASE rules_json' = rules_json
  BY <1>1
<1>2. CASE (accept(d) \/ defaultSettings(d)) /\ ~corrupt'
  <2>1. IsOpen(d) /\ Stored(rules_json', Left(loaded[d], touched'[d]))
    BY <1>2, WritesWhatIsLeft
  <2>2. name \notin touched'[d] /\ rules_json = loaded[d]
    BY <2>1
  <2>3. name \in DOMAIN Left(loaded[d], touched'[d])
        /\ Left(loaded[d], touched'[d])[name] = loaded[d][name]
    BY <2>2 DEF Left
  <2> QED BY <2>1, <2>2, <2>3 DEF Stored
<1> QED BY <1>1, <1>2, WritesAre

(* UntouchedRulesSurvive: for any rules and any number of dialogs, a basic  *)
(* rule that no user of an open dialog has to do with is the same after     *)
(* every save, unless the dialogs overlap.                                  *)
THEOREM Untouched == Spec => UntouchedRulesSurvive
<1>1. RuleInv /\ [Next]_vars =>
        [\A name \in Name \cap DOMAIN rules_json :
           \/ rules_json[name].type # "basic"
           \/ name \in DOMAIN rules_json' /\ rules_json'[name] = rules_json[name]
           \/ \E d \in Dialog :
                 IsOpen(d) /\ (name \in touched'[d] \/ rules_json # loaded[d])]_vars
  <2> SUFFICES ASSUME RuleInv, Next, NEW name \in Name \cap DOMAIN rules_json
               PROVE  \/ rules_json[name].type # "basic"
                      \/ name \in DOMAIN rules_json' /\ rules_json'[name] = rules_json[name]
                      \/ \E d \in Dialog :
                            IsOpen(d) /\ (name \in touched'[d] \/ rules_json # loaded[d])
    OBVIOUS
  <2>1. ~corrupt /\ \E d \in Dialog : Step(d)
    BY DEF Next
  <2>2. Sound
    BY <2>1 DEF RuleInv
  <2> QED BY <2>1, <2>2, UntouchedStay
<1> QED BY <1>1, RulesAreKept, PTL DEF Spec, UntouchedRulesSurvive

-----------------------------------------------------------------------------
(* What was entered arrives.                                                *)

\* A step that leaves its dialog open, or lets go of it.
Unsaved(d) ==
    \E E \in DialogState : E.state # "accepted" /\ dialog' = [dialog EXCEPT ![d] = E]

LEMMA OnlyAcceptSaves ==
    ASSUME Sound, NEW d \in Dialog, Step(d), ~corrupt', ~accept(d)
    PROVE  Unsaved(d)
<1>1. Sound'
  BY StepIsSound
<1>2. /\ Right(dialog[d], loaded[d], touched[d], entered[d]) /\ dialog[d] \in DialogState
      /\ Proper(dialog[d]) /\ rules_json \in Rules /\ WellNamed(rules_json)
  BY SoundIs DEF Right
<1>3. CASE showSettings(d)
  <2>1. Loaded \in DialogState /\ Loaded.state = "open"
    BY <1>2, LoadedIs DEF Proper
  <2> QED BY <1>3, <2>1 DEF showSettings, Unsaved
<1>4. CASE \E title, file \in Name, detail \in Detail : showTorrentRules(d,
title, detail, file)
  <2>1. PICK title \in Name, file \in Name,
  detail \in Detail : showTorrentRules(d, title, detail, file)
    BY <1>4
  <2> DEFINE E == Added(Loaded)
             D == [E EXCEPT !.title = title, !.detail = InBox(E, detail), !.regex = file,
                            !.list[E.row] = title]
  <2>2. E \in DialogState /\ E.state = "open"
    BY <1>2, LoadedIs, AddedIs DEF Proper
  <2>3. dialog' = [dialog EXCEPT ![d] = D]
    BY <2>1 DEF showTorrentRules
  <2> HIDE DEF E
  <2>4. D.state = "open"
    BY <2>2 DEF DialogState
  <2>5. D \in DialogState
    <3>1. dialog' \in [Dialog -> DialogState] /\ dialog'[d] = D
      BY <1>1, <1>2, <2>3, SoundIs DEF Sound
    <3> QED BY <3>1
  <2> QED BY <2>3, <2>4, <2>5 DEF Unsaved
<1>5. CASE \E row \in DOMAIN dialog[d].list : Select(d, row)
  <2>1. PICK row \in DOMAIN dialog[d].list : Select(d, row)
    BY <1>5
  <2>2. row \in 1..Len(dialog[d].list)
    BY <1>2 DEF DialogState
  <2> DEFINE E == Changed(dialog[d], row)
  <2>3. E \in DialogState /\ E.state = dialog[d].state
    BY <1>2, <2>2, ChangedIs DEF Proper
  <2>4. dialog' = [dialog EXCEPT ![d] = E] /\ dialog[d].state = "open"
    BY <2>1 DEF Select, ChangeTo, IsOpen
  <2> HIDE DEF E
  <2> QED BY <2>3, <2>4 DEF Unsaved
<1>6. CASE newTorrentRule(d)
  <2> DEFINE E == Added(dialog[d])
  <2>1. E \in DialogState /\ E.state = dialog[d].state
    BY <1>2, AddedIs DEF Proper
  <2>2. dialog' = [dialog EXCEPT ![d] = E] /\ dialog[d].state = "open"
    BY <1>6 DEF newTorrentRule, ChangeTo, IsOpen
  <2> HIDE DEF E
  <2> QED BY <2>1, <2>2 DEF Unsaved
<1>7. CASE deleteTorrentRule(d)
  <2> DEFINE D == dialog[d]
             E == Removed(D)
             row == IF D.row > 1 THEN D.row - 1 ELSE 1
             F == IF E.row = row THEN E ELSE Changed(E, row)
  <2>1. /\ dialog' = [dialog EXCEPT ![d] = F] /\ D.state = "open" /\ D.row # 0
        /\ Len(D.list) # 1
    BY <1>7 DEF deleteTorrentRule, ChangeTo, IsOpen
  <2>2. Len(D.list) \in Nat /\ D.row \in 0..Len(D.list)
    BY <1>2, <2>1 DEF DialogState, Right, InBounds
  <2>3. D.row \in 1..Len(D.list) /\ Len(D.list) > 1 /\ row \in 1..Len(D.list) - 1
    <3> HIDE DEF D
    <3> QED BY <2>1, <2>2, AboutRows
  <2>4. Proper(E) /\ E.state = "open" /\ Len(E.list) = Len(D.list) - 1
    BY <1>2, <2>1, <2>3, RemovedIs
  <2> HIDE DEF D, E, row
  <2>5. F \in DialogState /\ F.state = "open"
    <3>1. CASE E.row = row
      BY <2>4, <3>1 DEF Proper
    <3>2. CASE E.row # row
      BY <2>3, <2>4, <3>2, ChangedIs DEF Proper
    <3> QED BY <3>1, <3>2
  <2> HIDE DEF F
  <2> QED BY <2>1, <2>5 DEF Unsaved
<1>8. CASE \E text \in Typed : animeTitleEdited(d, text) \/ fileRegexEdited(d, text)
  <2>1. PICK text \in Typed : animeTitleEdited(d, text) \/ fileRegexEdited(d, text)
    BY <1>8
  <2>2. ASSUME NEW D \in DialogState, D.state = dialog[d].state, Type(d, D, text)
        PROVE  Unsaved(d)
    <3> DEFINE E == [D EXCEPT !.list[D.row] = text]
    <3>1. dialog' = [dialog EXCEPT ![d] = E] /\ D.state = "open"
      BY <2>2 DEF Type, IsOpen
    <3>2. E.state = "open"
      BY <2>2, <3>1 DEF DialogState
    <3>3. E \in DialogState
      <4>1. dialog' \in [Dialog -> DialogState] /\ dialog'[d] = E
        BY <1>1, <3>1, SoundIs DEF Sound
      <4> QED BY <4>1
    <3> QED BY <3>1, <3>2, <3>3 DEF Unsaved
  <2>3. CASE animeTitleEdited(d, text)
    <3> DEFINE D == [dialog[d] EXCEPT !.title = text]
    <3>1. D \in DialogState /\ D.state = dialog[d].state
      BY <1>2 DEF DialogState
    <3> QED BY <2>2, <2>3, <3>1 DEF animeTitleEdited
  <2>4. CASE fileRegexEdited(d, text)
    <3> DEFINE D == [dialog[d] EXCEPT !.regex = text]
    <3>1. D \in DialogState /\ D.state = dialog[d].state
      BY <1>2 DEF DialogState
    <3> QED BY <2>2, <2>4, <3>1 DEF fileRegexEdited
  <2> QED BY <2>1, <2>3, <2>4
<1>9. ASSUME NEW D \in DialogState, D.state = dialog[d].state, Set(d, D)
      PROVE  Unsaved(d)
  BY <1>9 DEF Set, IsOpen, Unsaved
<1>10. CASE \E detail \in Detail : SetDetail(d, detail)
  <2>1. PICK detail \in Detail : SetDetail(d, detail)
    BY <1>10
  <2>2. [dialog[d] EXCEPT !.detail = detail] \in DialogState
        /\ [dialog[d] EXCEPT !.detail = detail].state = dialog[d].state
    BY <1>2, <2>1 DEF DialogState, SetDetail, BoxDetail
  <2> QED BY <1>9, <2>1, <2>2 DEF SetDetail
<1>11. CASE toggleBasic(d)
  <2>1. [dialog[d] EXCEPT !.basic = ~@] \in DialogState
        /\ [dialog[d] EXCEPT !.basic = ~@].state = dialog[d].state
    BY <1>2 DEF DialogState
  <2> QED BY <1>9, <1>11, <2>1 DEF toggleBasic
<1>12. CASE reject(d)
  <2> DEFINE E == [Closed EXCEPT !.state = "rejected"]
  <2>1. E \in DialogState
    BY <1>2, ClosedIsRight DEF Right, Proper
  <2>2. E.state = "rejected"
    BY DEF Closed
  <2>3. dialog' = [dialog EXCEPT ![d] = E]
    BY <1>12 DEF reject
  <2> HIDE DEF E
  <2> QED BY <2>1, <2>2, <2>3 DEF Unsaved
<1>13. CASE defaultSettings(d)
  <2> DEFINE D == dialog[d]
             E == [D EXCEPT !.list = <<>>, !.title = Empty, !.regex = Empty, !.detail = Default]
  <2>1. dialog' = [dialog EXCEPT ![d] = E] /\ D.state = "open" /\ D.row = 0
    BY <1>13, DefaultIs
  <2>2. E \in DialogState
    BY <1>2, <2>1, ClearedIsRight DEF Right, Proper
  <2>3. E.state = D.state
    BY <1>2 DEF DialogState
  <2> HIDE DEF E
  <2> QED BY <2>1, <2>2, <2>3 DEF Unsaved
<1> QED BY <1>3, <1>4, <1>5, <1>6, <1>7, <1>8, <1>10, <1>11, <1>12, <1>13 DEF Step

LEMMA EnteredIsSaved ==
    ASSUME Sound, NEW e \in Dialog, Step(e), NEW d \in Dialog, Saves(d),
           NEW name \in DOMAIN entered[d]
    PROVE  name \in DOMAIN rules_json' /\ rules_json'[name] = entered[d][name]
<1>1. dialog[d].state = "open" /\ dialog'[d].state = "accepted" /\ ~corrupt'
  BY DEF Saves, IsOpen
<1>2. dialog \in [Dialog -> DialogState] /\ Right(dialog[d], loaded[d], touched[d], entered[d])
  BY SoundIs
<1>3. accept(e)
  <2> SUFFICES ASSUME ~accept(e) PROVE FALSE
    OBVIOUS
  <2>1. Unsaved(e)
    BY <1>1, OnlyAcceptSaves
  <2>2. PICK E \in DialogState : E.state # "accepted" /\ dialog' = [dialog EXCEPT ![e] = E]
    BY <2>1 DEF Unsaved
  <2> QED BY <1>1, <1>2, <2>2
<1>4. e = d
  <2>1. dialog' = [dialog EXCEPT ![e] = [Closed EXCEPT !.state = "accepted"]]
    BY <1>3 DEF accept
  <2> QED BY <1>1, <1>2, <2>1
<1>5. /\ Proper(dialog[d]) /\ InBounds(dialog[d]) /\ ~LastRow(dialog[d])
      /\ rules_json' = Saved(dialog[d])
  BY <1>1, <1>3, <1>4, AcceptIs
<1>6. /\ AreBasic(entered[d]) /\ Held(dialog[d], entered[d])
      /\ Fits(Remaining(dialog[d]), entered[d])
  BY <1>1, <1>2 DEF Right, AreEntered, Fits
<1>7. Stored(rules_json', entered[d])
  BY <1>5, <1>6, SavedIs
<1> QED BY <1>7 DEF Stored

(* EditsArrive: for any rules, and after any number of rows visited, what   *)
(* was entered for a basic rule is in rules.json when "OK" returns.         *)
THEOREM Edits == Spec => EditsArrive
<1>1. RuleInv /\ [Next]_vars =>
        [\A d \in Dialog : Saves(d) =>
            \A name \in DOMAIN entered[d] :
               name \in DOMAIN rules_json' /\ rules_json'[name] = entered[d][name]]_vars
  <2> SUFFICES ASSUME RuleInv, Next, NEW d \in Dialog, Saves(d),
  NEW name \in DOMAIN entered[d]
               PROVE  name \in DOMAIN rules_json' /\ rules_json'[name] = entered[d][name]
    OBVIOUS
  <2>1. ~corrupt /\ \E e \in Dialog : Step(e)
    BY DEF Next
  <2>2. Sound
    BY <2>1 DEF RuleInv
  <2> QED BY <2>1, <2>2, EnteredIsSaved
<1> QED BY <1>1, RulesAreKept, PTL DEF Spec, EditsArrive

-----------------------------------------------------------------------------
(* The page of relations: RelationEditor with state of its own.  The        *)
(* assumption of that module is a hypothesis of the theorems about it.      *)

CONSTANTS Alias, Title, FirstTitle, TypedText, MaxOffset, OldRelations
VARIABLES relations_json, rel_dialog, rel_acts, rel_corrupt,
          rel_loaded, rel_touched, rel_entered

R == INSTANCE RelationEditor WITH
    Typed <- TypedText, dialog <- rel_dialog, acts <- rel_acts, corrupt <- rel_corrupt,
    loaded <- rel_loaded, touched <- rel_touched, entered <- rel_entered

Part == Alias \cup Title \cup {FirstTitle, TypedText, Empty, New, 0} \cup R!Offset

\* R has its own names for what it takes from SequencesExt.
LEMMA SameOperators ==
    \A s, i : R!ToSet(s) = ToSet(s) /\ R!RemoveAt(s, i) = RemoveAt(s, i)
BY DEF ToSet, RemoveAt, R!ToSet, R!RemoveAt

\* The texts of the box with the titles, and the rows of the list.
BoxText == {text \in Seq(Part) : Len(text) \in {1, 2}}
Row == {row \in Seq(Part) : Len(row) \in {1, 3, 4}}
WholeRow == {row \in Row : Len(row) = 4}

RelationPage ==
    [state : {"closed", "open", "accepted", "rejected"}, list : Seq(Row), row : Nat,
     alias : Part, titles : SUBSET Title, text : BoxText, index : BoxText, offset : Part,
     disturbed : SUBSET Row, free : BOOLEAN]

\* Without a text that has no id, no row has only one.
Complete(D) ==
    ~D.free => /\ D.titles # {} /\ Len(D.text) = 2
               /\ \A row \in ToSet(D.list) : Len(row) # 3

LEMMA AboutLines ==
    ASSUME NEW n, n \in {1, 2}
    PROVE  (1 + n) + 1 = n + 2 /\ n + 2 \in {1, 3, 4} /\ (n = 2 => n + 2 = 4) /\ n + 2 >= 3
OBVIOUS

LEMMA LineIs ==
    ASSUME NEW D \in RelationPage
    PROVE  /\ R!LineText(D) \in Row /\ Len(R!LineText(D)) >= 3
           /\ Len(D.text) = 2 => Len(R!LineText(D)) = 4
<1>1. /\ D.alias \in Part /\ D.offset \in Part
      /\ D.text \in Seq(Part) /\ Len(D.text) \in {1, 2}
  BY DEF RelationPage, BoxText
<1> DEFINE first == <<D.alias>>
           last == <<D.offset>>
<1>2. /\ first \in Seq(Part) /\ Len(first) = 1
      /\ last \in Seq(Part) /\ Len(last) = 1
  BY <1>1
<1>3. R!LineText(D) = first \o D.text \o last
  BY DEF R!LineText
<1> HIDE DEF first, last
<1>4. first \o D.text \in Seq(Part) /\ Len(first \o D.text) = 1 + Len(D.text)
  BY <1>1, <1>2, Joining
<1>5. R!LineText(D) \in Seq(Part) /\ Len(R!LineText(D)) = (1 + Len(D.text)) + 1
  BY <1>2, <1>3, <1>4, Joining
<1>6. (1 + Len(D.text)) + 1 = Len(D.text) + 2 /\ Len(D.text) + 2 \in {1, 3, 4}
  BY <1>1, AboutLines
<1>7. Len(D.text) + 2 >= 3 /\ (Len(D.text) = 2 => Len(D.text) + 2 = 4)
  BY <1>1, AboutLines
<1> QED BY <1>5, <1>6, <1>7 DEF Row

\* A row may be written by the fields: it is, and no other is.
Written(D, E) ==
    /\ E \in RelationPage /\ Len(E.list) = Len(D.list)
    /\ \A k \in 1..Len(D.list) : k # D.row => E.list[k] = D.list[k]
    /\ ToSet(D.list) \subseteq ToSet(E.list) \cup {D.list[k] : k \in {D.row} \ {0}}
    /\ D.row # 0 => E.list[D.row] = R!LineText(E) /\ R!LineText(E) \in ToSet(E.list)
    /\ Complete(D) => Complete(E)
    /\ E.state = D.state /\ E.row = D.row /\ E.alias = D.alias /\ E.titles = D.titles
    /\ E.text = D.text /\ E.index = D.index /\ E.disturbed = D.disturbed
    /\ E.free = D.free

LEMMA UpdateIs ==
    ASSUME NEW D \in RelationPage, D.row \in 0..Len(D.list)
    PROVE  LET E == R!updateSmartTitleName(D) IN Written(D, E) /\ E.offset = D.offset
<1> DEFINE E == R!updateSmartTitleName(D)
           line == R!LineText(D)
           list == [D.list EXCEPT ![D.row] = line]
<1>1. D.list \in Seq(Row) /\ Len(D.list) \in Nat
  BY DEF RelationPage
<1>2. line \in Row /\ (Len(D.text) = 2 => Len(line) = 4)
  BY LineIs
<1>3. CASE D.row = 0
  BY <1>3 DEF R!updateSmartTitleName, Written
<1>4. CASE D.row # 0
  <2>1. D.row \in 1..Len(D.list)
    BY <1>1, <1>4
  <2>2. E = [D EXCEPT !.list = list]
    BY <1>4 DEF R!updateSmartTitleName, RelationPage
  <2>3. /\ list \in Seq(Row) /\ Len(list) = Len(D.list) /\ list[D.row] = line
        /\ \A k \in 1..Len(D.list) : k # D.row => list[k] = D.list[k]
        /\ line \in ToSet(list) /\ ToSet(D.list) \subseteq ToSet(list) \cup {D.list[D.row]}
    BY <1>1, <1>2, <2>1, Replacing
  <2>4. ToSet(list) \subseteq ToSet(D.list) \cup {line}
    <3>1. DOMAIN list = 1..Len(D.list) /\ DOMAIN D.list = 1..Len(D.list)
      BY <1>1, <2>3
    <3> HIDE DEF list
    <3> QED BY <2>3, <3>1 DEF ToSet
  <2> HIDE DEF list, E, line
  <2>5. E \in RelationPage
    BY <2>2, <2>3 DEF RelationPage
  <2>6. /\ E.state = D.state /\ E.row = D.row /\ E.alias = D.alias /\ E.titles = D.titles
        /\ E.text = D.text /\ E.index = D.index /\ E.disturbed = D.disturbed
        /\ E.free = D.free /\ E.offset = D.offset /\ E.list = list
    BY <2>2 DEF RelationPage
  <2>7. R!LineText(E) = line
    BY <2>6 DEF R!LineText, line
  <2>8. Complete(D) => Complete(E)
    <3>1. ASSUME Complete(D), ~D.free, NEW r \in ToSet(E.list) PROVE Len(r) # 3
      <4>1. r \in ToSet(D.list) \/ r = line
        BY <2>4, <2>6
      <4>2. Len(D.text) = 2 /\ \A row \in ToSet(D.list) : Len(row) # 3
        BY <3>1 DEF Complete
      <4>3. Len(line) = 4 /\ 4 # 3
        BY <1>2, <4>2
      <4> QED BY <4>1, <4>2, <4>3
    <3> QED BY <2>6, <3>1 DEF Complete
  <2>9. {D.list[k] : k \in {D.row} \ {0}} = {D.list[D.row]}
    BY <1>4
  <2> QED BY <2>3, <2>5, <2>6, <2>7, <2>8, <2>9 DEF Written, E
<1> QED BY <1>3, <1>4

LEMMA SetOffsetIs ==
    ASSUME NEW D \in RelationPage, D.row \in 0..Len(D.list), NEW offset \in Part
    PROVE  LET E == R!SetOffset(D, offset) IN
           /\ E.offset = offset
           /\ offset # D.offset => Written(D, E)
           /\ offset = D.offset => E = D
<1> DEFINE F == [D EXCEPT !.offset = offset]
<1>1. CASE offset = D.offset
  BY <1>1 DEF R!SetOffset
<1>2. CASE offset # D.offset
  <2>1. F \in RelationPage
    BY DEF RelationPage
  <2>2. /\ F.state = D.state /\ F.row = D.row /\ F.alias = D.alias /\ F.titles = D.titles
        /\ F.text = D.text /\ F.index = D.index /\ F.disturbed = D.disturbed
        /\ F.free = D.free /\ F.offset = offset /\ F.list = D.list
    BY DEF RelationPage
  <2>3. R!SetOffset(D, offset) = R!updateSmartTitleName(F)
    BY <1>2 DEF R!SetOffset
  <2> HIDE DEF F
  <2>4. LET E == R!updateSmartTitleName(F) IN Written(F, E) /\ E.offset = F.offset
    BY <2>1, <2>2, UpdateIs
  <2>5. Complete(D) => Complete(F)
    BY <2>2 DEF Complete
  <2> DEFINE E == R!updateSmartTitleName(F)
  <2> HIDE DEF E
  <2>6. Written(F, E) /\ E.offset = offset
    BY <2>2, <2>4 DEF E
  <2>7. Written(D, E)
    BY <2>2, <2>5, <2>6 DEF Written
  <2> QED BY <1>2, <2>3, <2>6, <2>7 DEF E
<1> QED BY <1>1, <1>2

\* Showing a row loses no other, and what it loses is disturbed.
LEMMA ChangedRow ==
    ASSUME NEW D \in RelationPage, NEW row \in 1..Len(D.list)
    PROVE  LET E == R!Changed(D, row) IN
           /\ E \in RelationPage /\ E.row = row /\ Len(E.list) = Len(D.list)
           /\ \A k \in 1..Len(D.list) : k # row => E.list[k] = D.list[k]
           /\ ToSet(D.list) \cup D.disturbed \subseteq ToSet(E.list) \cup E.disturbed
           /\ Complete(D) => Complete(E)
           /\ E.state = D.state
<1> DEFINE text == D.list[row]
           alias == text[1]
           offset == R!toInt(R!Last(text))
           F == [D EXCEPT !.row = row, !.alias = alias]
           G == R!SetOffset(F, offset)
           shown == IF Len(text) > 2 THEN <<text[2], text[3]>> ELSE G.text
           disturbed == IF G.list[row] = text THEN G.disturbed ELSE G.disturbed \cup {text}
           E == [G EXCEPT !.text = shown, !.disturbed = disturbed]
<1>1. /\ D.list \in Seq(Row) /\ Len(D.list) \in Nat /\ row \in Nat
      /\ D.disturbed \in SUBSET Row
  BY DEF RelationPage
<1>2. text \in Row /\ text \in ToSet(D.list)
  BY <1>1 DEF ToSet
<1>3. text \in Seq(Part) /\ Len(text) \in {1, 3, 4}
  BY <1>2 DEF Row
<1>4. alias \in Part /\ (Len(text) > 2 => text[2] \in Part /\ text[3] \in Part)
  BY <1>3
<1>5. offset \in Part
  BY DEF R!toInt, Part
<1>6. R!Changed(D, row) =
        [G EXCEPT !.text = IF Len(text) > 2 THEN <<text[2], text[3]>> ELSE @,
                  !.disturbed = IF G.list[row] = text THEN @ ELSE @ \cup {text}]
  BY DEF R!Changed
<1> HIDE DEF text, alias, offset
<1>7. /\ F \in RelationPage /\ F.row = row /\ F.list = D.list /\ F.state = D.state
      /\ F.titles = D.titles /\ F.text = D.text /\ F.disturbed = D.disturbed /\ F.free = D.free
  BY <1>1, <1>4 DEF RelationPage
<1> HIDE DEF F
<1>8. Complete(D) => Complete(F)
  BY <1>7 DEF Complete
<1>9. (Written(F, G) \/ G = F)
  BY <1>1, <1>5, <1>7, SetOffsetIs
<1> HIDE DEF G
<1>10. /\ G \in RelationPage /\ Len(G.list) = Len(D.list) /\ G.row = row
       /\ \A k \in 1..Len(D.list) : k # row => G.list[k] = D.list[k]
       /\ ToSet(D.list) \subseteq ToSet(G.list) \cup {text}
       /\ Complete(D) => Complete(G)
       /\ G.state = D.state /\ G.disturbed = D.disturbed
  <2>1. CASE G = F
    BY <1>7, <1>8, <2>1
  <2>2. CASE Written(F, G)
    <3>1. {F.list[k] : k \in {F.row} \ {0}} = {text}
      BY <1>1, <1>7 DEF text
    <3> QED BY <1>7, <1>8, <2>2, <3>1 DEF Written
  <2> QED BY <1>9, <2>1, <2>2
<1>18. R!Changed(D, row) = E
  BY <1>6, <1>10 DEF RelationPage
<1>11. G.text \in BoxText /\ G.list \in Seq(Row)
  BY <1>10 DEF RelationPage
<1>12. shown \in BoxText /\ (Len(G.text) = 2 => Len(shown) = 2)
  <2>1. CASE Len(text) > 2
    <3>1. <<text[2], text[3]>> \in Seq(Part) /\ Len(<<text[2], text[3]>>) = 2
      BY <1>4, <2>1
    <3> QED BY <2>1, <3>1 DEF BoxText
  <2>2. CASE ~(Len(text) > 2)
    BY <1>11, <2>2
  <2> QED BY <2>1, <2>2
<1>13. disturbed \in SUBSET Row /\ D.disturbed \subseteq disturbed
  BY <1>1, <1>2, <1>10
<1>14. text \in ToSet(G.list) \cup disturbed
  <2>1. CASE G.list[row] = text
    <3>1. row \in DOMAIN G.list
      BY <1>10, <1>11
    <3> QED BY <2>1, <3>1 DEF ToSet
  <2>2. CASE G.list[row] # text
    BY <2>2
  <2> QED BY <2>1, <2>2
<1> HIDE DEF shown, disturbed
<1>15. /\ E \in RelationPage /\ E.row = G.row /\ E.list = G.list /\ E.state = G.state
       /\ E.titles = G.titles /\ E.text = shown /\ E.disturbed = disturbed /\ E.free = G.free
  BY <1>10, <1>12, <1>13 DEF RelationPage
<1> HIDE DEF E
<1>16. Complete(G) => Complete(E)
  BY <1>12, <1>15 DEF Complete
<1>17. ToSet(D.list) \cup D.disturbed \subseteq ToSet(E.list) \cup E.disturbed
  BY <1>10, <1>13, <1>14, <1>15
<1> QED BY <1>10, <1>15, <1>16, <1>17, <1>18

LEMMA AboutNeighbours ==
    ASSUME NEW n \in Nat, n # 1, NEW r \in 1..n
    PROVE  LET next == IF r < n THEN r + 1 ELSE r - 1
               row == IF next > r THEN next - 1 ELSE next
           IN  next \in 1..n /\ row \in 0..n - 1 /\ row \in Nat /\ next # r
OBVIOUS

LEMMA RemovedRow ==
    ASSUME NEW D \in RelationPage, D.row \in 1..Len(D.list)
    PROVE  LET E == R!Removed(D) IN
           /\ E \in RelationPage /\ Len(E.list) = Len(D.list) - 1
           /\ E.row \in 0..Len(E.list)
           /\ ToSet(D.list) \cup D.disturbed
                \subseteq ToSet(E.list) \cup E.disturbed \cup {D.list[D.row]}
           /\ Complete(D) => Complete(E)
           /\ E.state = D.state
<1> DEFINE E == R!Removed(D)
           text == D.list[D.row]
<1>1. D.list \in Seq(Row) /\ Len(D.list) \in Nat /\ D.row \in Nat
  BY DEF RelationPage
<1>2. CASE Len(D.list) = 1
  <2>1. E = [D EXCEPT !.list = <<>>, !.row = 0]
    BY <1>2 DEF R!Removed
  <2>2. <<>> \in Seq(Row) /\ Len(<<>>) = 0 /\ ToSet(<<>>) = {}
    BY DEF ToSet
  <2> DEFINE none == <<>>
  <2>3. none \in Seq(Row) /\ Len(none) = 0 /\ ToSet(none) = {} /\ E = [D EXCEPT !.list = none, !.row = 0]
    BY <2>1, <2>2
  <2> HIDE DEF none, E
  <2>4. /\ E \in RelationPage /\ E.list = none /\ E.row = 0 /\ E.state = D.state
        /\ E.titles = D.titles /\ E.text = D.text /\ E.disturbed = D.disturbed
        /\ E.free = D.free
    BY <2>3 DEF RelationPage
  <2>5. Complete(D) => Complete(E)
    BY <2>3, <2>4 DEF Complete
  <2>6. ToSet(D.list) \subseteq {text}
    <3>1. DOMAIN D.list = {1} /\ D.row = 1
      BY <1>1, <1>2
    <3> QED BY <3>1 DEF ToSet
  <2>7. Len(E.list) = Len(D.list) - 1 /\ E.row \in 0..Len(E.list)
    BY <1>2, <2>3, <2>4
  <2> QED BY <2>4, <2>5, <2>6, <2>7 DEF E
<1>3. CASE Len(D.list) # 1
  <2> DEFINE next == R!Neighbour(D)
             C == R!Changed(D, next)
             list == RemoveAt(C.list, D.row)
             row == IF next > D.row THEN next - 1 ELSE next
  <2>1. next \in 1..Len(D.list) /\ row \in 0..Len(D.list) - 1 /\ row \in Nat /\ next # D.row
    BY <1>1, <1>3, AboutNeighbours DEF R!Neighbour
  <2>2. /\ C \in RelationPage /\ Len(C.list) = Len(D.list)
        /\ \A k \in 1..Len(D.list) : k # next => C.list[k] = D.list[k]
        /\ ToSet(D.list) \cup D.disturbed \subseteq ToSet(C.list) \cup C.disturbed
        /\ Complete(D) => Complete(C)
        /\ C.state = D.state
    BY <2>1, ChangedRow
  <2>3. E = IF Len(D.list) = 1 THEN [D EXCEPT !.list = <<>>, !.row = 0]
            ELSE [C EXCEPT !.list = R!RemoveAt(@, D.row),
                           !.row = IF next > D.row THEN next - 1 ELSE next]
    BY DEF R!Removed
  <2> HIDE DEF C, next, E
  <2>4. E = [C EXCEPT !.list = list, !.row = row]
    BY <1>3, <2>2, <2>3, SameOperators DEF RelationPage
  <2>5. C.list \in Seq(Row) /\ D.row \in 1..Len(C.list) /\ C.list[D.row] = text
    BY <2>1, <2>2 DEF RelationPage
  <2>6. list \in Seq(Row) /\ Len(list) = Len(C.list) - 1
    BY <2>5, WithoutOne
  <2>7. ToSet(C.list) \subseteq ToSet(list) \cup {text} /\ ToSet(list) \subseteq ToSet(C.list)
    BY <2>5, Removing
  <2> HIDE DEF list, row, text
  <2>8. /\ E \in RelationPage /\ E.list = list /\ E.row = row /\ E.state = C.state
        /\ E.titles = C.titles /\ E.text = C.text /\ E.disturbed = C.disturbed
        /\ E.free = C.free
    BY <2>1, <2>2, <2>4, <2>6 DEF RelationPage
  <2>9. Complete(C) => Complete(E)
    BY <2>7, <2>8 DEF Complete
  <2>10. Len(E.list) = Len(D.list) - 1 /\ E.row \in 0..Len(E.list)
    BY <2>1, <2>2, <2>6, <2>8
  <2> QED BY <2>2, <2>7, <2>8, <2>9, <2>10 DEF E, text
<1> QED BY <1>2, <1>3

-----------------------------------------------------------------------------
(* What is saved.                                                           *)

\* What f has of the list after each row: see R!Saved.
Writes(f, list) ==
    f = [n \in 0..Len(list) |->
            IF n = 0 THEN <<>>
            ELSE IF Len(list[n]) >= 3 THEN Append(f[n - 1], list[n])
            ELSE f[n - 1]]

LEMMA WritesReads ==
    ASSUME NEW list, Len(list) \in Nat, NEW f
    PROVE  Writes(f, list) <=> Reads(f, list,
    [m \in 1..Len(list) |-> Len(list[m]) >= 3], Len(list))
<1> DEFINE keep == [m \in 1..Len(list) |-> Len(list[m]) >= 3]
           g == [n \in 0..Len(list) |->
                   IF n = 0 THEN <<>>
                   ELSE IF Len(list[n]) >= 3 THEN Append(f[n - 1], list[n])
                   ELSE f[n - 1]]
           h == [n \in 0..Len(list) |->
                   IF n = 0 THEN <<>>
                   ELSE IF keep[n] THEN Append(f[n - 1], list[n]) ELSE f[n - 1]]
<1>1. ASSUME NEW n \in 0..Len(list) PROVE g[n] = h[n]
  <2>1. n # 0 => keep[n] = (Len(list[n]) >= 3)
    OBVIOUS
  <2> HIDE DEF keep
  <2> QED BY <2>1
<1>2. g = h
  BY <1>1
<1> QED BY <1>2 DEF Writes, Reads

LEMMA SavedRows ==
    ASSUME NEW D \in RelationPage
    PROVE  /\ R!Saved(D) \in Seq(Row)
           /\ ToSet(R!Saved(D)) = {row \in ToSet(D.list) : Len(row) >= 3}
<1> DEFINE list == D.list
           n == Len(list)
           keep == [m \in 1..n |-> Len(list[m]) >= 3]
           arr == CHOOSE f : Writes(f, list)
<1>1. list \in Seq(Row) /\ n \in Nat
  BY DEF RelationPage
<1>2. R!Saved(D) = arr[n]
  BY DEF R!Saved, Writes
<1> HIDE DEF list
<1>3. \E f : Writes(f, list)
  <2>1. \E f : Reads(f, list, keep, n)
    BY <1>1, Reading
  <2> QED BY <1>1, <2>1, WritesReads
<1>4. Reads(arr, list, keep, n)
  <2>1. Writes(arr, list)
    BY <1>3
  <2> HIDE DEF arr
  <2> QED BY <1>1, <2>1, WritesReads
<1> HIDE DEF arr, keep
<1>5. HasRead(arr, Row, list, keep, n)
  BY <1>1, <1>4, ReadIs
<1>6. {list[i] : i \in {j \in 1..n : keep[j]}} = {row \in ToSet(list) : Len(row) >= 3}
  <2>1. \A j \in 1..n : keep[j] <=> Len(list[j]) >= 3
    BY DEF keep
  <2>2. DOMAIN list = 1..n
    BY <1>1
  <2> HIDE DEF n
  <2> QED BY <2>1, <2>2 DEF ToSet
<1> QED BY <1>2, <1>5, <1>6 DEF HasRead, list

LEMMA WholeRows ==
    ASSUME NEW s \in Seq(Row), \A row \in ToSet(s) : Len(row) = 4
    PROVE  s \in Seq(WholeRow)
<1>1. s \in [1..Len(s) -> Row] /\ Len(s) \in Nat /\ DOMAIN s = 1..Len(s)
  OBVIOUS
<1>2. ASSUME NEW i \in 1..Len(s) PROVE s[i] \in WholeRow
  BY <1>1 DEF ToSet, WholeRow
<1>3. s \in [1..Len(s) -> WholeRow]
  BY <1>1, <1>2
<1> QED BY <1>1, <1>3

LEMMA RowsAreWhole ==
    ASSUME NEW s \in Seq(WholeRow)
    PROVE  s \in Seq(Row) /\ \A row \in ToSet(s) : row \in Row /\ Len(row) = 4
<1>1. s \in [1..Len(s) -> WholeRow] /\ Len(s) \in Nat /\ DOMAIN s = 1..Len(s)
  OBVIOUS
<1>2. WholeRow \subseteq Row
  BY DEF WholeRow
<1>3. s \in [1..Len(s) -> Row]
  BY <1>1, <1>2
<1>4. s \in Seq(Row)
  BY <1>1, <1>3
<1> QED BY <1>1, <1>4 DEF ToSet, WholeRow

LEMMA WhatIsSaved ==
    ASSUME NEW D \in RelationPage
    PROVE  /\ ~R!Fails(D) => R!Saved(D) \in Seq(WholeRow)
           /\ <<>> \in Seq(WholeRow)
<1>1. D.list \in Seq(Row) /\ DOMAIN D.list = 1..Len(D.list)
  BY DEF RelationPage
<1>2. ASSUME ~R!Fails(D), NEW row \in ToSet(R!Saved(D)) PROVE Len(row) = 4
  <2>1. row \in ToSet(D.list) /\ Len(row) >= 3
    BY SavedRows
  <2>2. PICK i \in 1..Len(D.list) : row = D.list[i]
    BY <1>1, <2>1 DEF ToSet
  <2>3. Len(row) # 3
    BY <1>1, <1>2, <2>2 DEF R!Fails
  <2>4. Len(row) \in {1, 3, 4}
    BY <1>1, <2>2 DEF Row
  <2> QED BY <2>1, <2>3, <2>4
<1> QED BY <1>2, SavedRows, WholeRows

\* Such a dialog does not fail.
LEMMA CompleteDoesNotFail ==
    ASSUME NEW D \in RelationPage, Complete(D), ~D.free
    PROVE  ~R!Fails(D)
<1>1. DOMAIN D.list = 1..Len(D.list) /\ \A row \in ToSet(D.list) : Len(row) # 3
  BY DEF RelationPage, Complete
<1> QED BY <1>1 DEF R!Fails, ToSet

-----------------------------------------------------------------------------
(* The relations are kept.                                                  *)

\* A page that was opened with the relations old, of whose rows the user has
\* edited, deleted or reset keys, and has entered the rows new.
PageRight(D, old, keys, new) ==
    /\ D \in RelationPage /\ old \in Seq(WholeRow)
    /\ keys \in SUBSET Row /\ new \in SUBSET Row
    /\ D.state = "closed" => new = {}
    /\ D.state = "open" =>
          /\ D.row \in 0..Len(D.list) /\ Complete(D)
          /\ ToSet(old) \subseteq ToSet(D.list) \cup D.disturbed \cup keys
          /\ new \subseteq ToSet(D.list) \cup D.disturbed
          /\ \A row \in new : Len(row) >= 3

RelationInv ==
    /\ relations_json \in Seq(WholeRow)
    /\ rel_dialog \in [Dialog -> RelationPage] /\ rel_loaded \in [Dialog -> Seq(WholeRow)]
    /\ rel_touched \in [Dialog -> SUBSET Row] /\ rel_entered \in [Dialog -> SUBSET Row]
    /\ \A d \in Dialog : PageRight(rel_dialog[d], rel_loaded[d], rel_touched[d], rel_entered[d])

\* A step of one page that leaves it right.
LEMMA OnePage ==
    ASSUME RelationInv, NEW d \in Dialog, relations_json' \in Seq(WholeRow),
           NEW D, rel_dialog' = [rel_dialog EXCEPT ![d] = D],
           NEW old, rel_loaded' = [rel_loaded EXCEPT ![d] = old],
           NEW keys, rel_touched' = [rel_touched EXCEPT ![d] = keys],
           NEW new, rel_entered' = [rel_entered EXCEPT ![d] = new],
           PageRight(D, old, keys, new)
    PROVE  RelationInv'
<1>1. /\ rel_dialog \in [Dialog -> RelationPage] /\ rel_loaded \in [Dialog -> Seq(WholeRow)]
      /\ rel_touched \in [Dialog -> SUBSET Row] /\ rel_entered \in [Dialog -> SUBSET Row]
  BY DEF RelationInv
<1>2. /\ D \in RelationPage /\ old \in Seq(WholeRow)
      /\ keys \in SUBSET Row /\ new \in SUBSET Row
  BY DEF PageRight
<1>3. /\ rel_dialog' \in [Dialog -> RelationPage] /\ rel_loaded' \in [Dialog -> Seq(WholeRow)]
      /\ rel_touched' \in [Dialog -> SUBSET Row] /\ rel_entered' \in [Dialog -> SUBSET Row]
  BY <1>1, <1>2
<1>4. ASSUME NEW e \in Dialog
      PROVE  PageRight(rel_dialog'[e], rel_loaded'[e], rel_touched'[e], rel_entered'[e])
  <2>1. CASE e = d
    <3>1. /\ rel_dialog'[e] = D /\ rel_loaded'[e] = old
          /\ rel_touched'[e] = keys /\ rel_entered'[e] = new
      BY <1>1, <2>1
    <3> QED BY <3>1
  <2>2. CASE e # d
    <3>1. /\ rel_dialog'[e] = rel_dialog[e] /\ rel_loaded'[e] = rel_loaded[e]
          /\ rel_touched'[e] = rel_touched[e] /\ rel_entered'[e] = rel_entered[e]
      BY <1>1, <2>2
    <3>2. PageRight(rel_dialog[e], rel_loaded[e], rel_touched[e], rel_entered[e])
      BY DEF RelationInv
    <3> QED BY <3>1, <3>2
  <2> QED BY <2>1, <2>2
<1> QED BY <1>3, <1>4 DEF RelationInv

\* A step that leaves its dialog open, or lets go of it.
NotAccepted(d) ==
    \E E : E.state # "accepted" /\ rel_dialog' = [rel_dialog EXCEPT ![d] = E]

LEMMA PageIsRight ==
    ASSUME RelationInv, NEW d \in Dialog
    PROVE  /\ PageRight(rel_dialog[d], rel_loaded[d], rel_touched[d], rel_entered[d])
           /\ relations_json \in Seq(WholeRow) /\ rel_dialog[d] \in RelationPage
           /\ rel_loaded[d] \in Seq(WholeRow)
           /\ rel_touched[d] \in SUBSET Row /\ rel_entered[d] \in SUBSET Row
           /\ rel_dialog = [rel_dialog EXCEPT ![d] = rel_dialog[d]]
           /\ rel_loaded = [rel_loaded EXCEPT ![d] = rel_loaded[d]]
           /\ rel_touched = [rel_touched EXCEPT ![d] = rel_touched[d]]
           /\ rel_entered = [rel_entered EXCEPT ![d] = rel_entered[d]]
BY DEF RelationInv

LEMMA SingleTexts ==
    ASSUME NEW part \in Part
    PROVE  <<part>> \in BoxText /\ <<part, part>> \in BoxText
           /\ Len(<<part, part>>) = 2 /\ Len(<<part>>) = 1
BY DEF BoxText

LEMMA FirstTextIs ==
    ASSUME NEW titles
    PROVE  /\ R!FirstText(titles) \in BoxText
           /\ titles # {} => Len(R!FirstText(titles)) = 2
<1>1. Empty \in Part /\ FirstTitle \in Part
  BY DEF Part
<1>2. R!FirstText(titles) = IF titles = {} THEN <<Empty>> ELSE <<FirstTitle, FirstTitle>>
  BY DEF R!FirstText, R!TitleText
<1> QED BY <1>1, <1>2, SingleTexts

LEMMA ClosedPage ==
    R!Closed \in RelationPage /\ R!Closed.state = "closed"
<1> DEFINE rows == <<>>
           text == <<Empty>>
<1>1. rows \in Seq(Row) /\ Empty \in Part /\ 0 \in Part
  BY DEF Part
<1>3. text \in BoxText
  BY <1>1, SingleTexts
<1>2. R!Closed = [state |-> "closed", list |-> rows, row |-> 0, alias |-> Empty,
                  titles |-> {}, text |-> text, index |-> text, offset |-> 0,
                  disturbed |-> {}, free |-> FALSE]
  BY DEF R!Closed
<1> HIDE DEF rows, text
<1> QED BY <1>1, <1>2, <1>3 DEF RelationPage

\* A dialog that is closed after it was open.
LEMMA ClosedAgain ==
    ASSUME NEW state \in {"accepted", "rejected"}, NEW old \in Seq(WholeRow),
           NEW keys \in SUBSET Row, NEW new \in SUBSET Row
    PROVE  PageRight([R!Closed EXCEPT !.state = state], old, keys, new)
<1> DEFINE C == R!Closed
           E == [C EXCEPT !.state = state]
<1>1. C \in RelationPage
  BY ClosedPage
<1> HIDE DEF C
<1>2. E \in RelationPage /\ E.state = state
  BY <1>1 DEF RelationPage
<1> HIDE DEF E
<1> QED BY <1>2 DEF PageRight, C, E

LEMMA OpenedPage ==
    ASSUME NEW list \in Seq(WholeRow), relations_json = list, NEW titles \in SUBSET Title
    PROVE  LET D == R!Loaded(titles) IN
           /\ D \in RelationPage /\ Complete(D)
           /\ D.state = "open" /\ D.row = 0 /\ D.list = list
<1> DEFINE C == R!Closed
           text == R!FirstText(titles)
           D == [C EXCEPT !.state = "open", !.list = list, !.titles = titles,
                          !.text = text, !.index = text, !.free = (titles = {})]
<1>1. C \in RelationPage /\ C.row = 0
  BY ClosedPage DEF R!Closed
<1>2. R!Loaded(titles) = D
  BY DEF R!Loaded
<1>3. text \in BoxText /\ (titles # {} => Len(text) = 2)
  BY FirstTextIs
<1>4. list \in Seq(Row) /\ \A row \in ToSet(list) : Len(row) = 4
  BY RowsAreWhole
<1> HIDE DEF C, text
<1>5. /\ D \in RelationPage /\ D.state = "open" /\ D.row = 0 /\ D.list = list
      /\ D.titles = titles /\ D.text = text
  BY <1>1, <1>3, <1>4 DEF RelationPage
<1>6. D.free <=> titles = {}
  BY <1>1 DEF RelationPage
<1> HIDE DEF D
<1>7. ASSUME NEW row \in ToSet(D.list) PROVE Len(row) # 3
  <2>1. Len(row) = 4
    BY <1>4, <1>5
  <2> QED BY <2>1
<1>8. Complete(D)
  <2>1. ~D.free => Len(D.text) = 2 /\ D.titles # {}
    BY <1>3, <1>5, <1>6
  <2> QED BY <1>7, <2>1 DEF Complete
<1> QED BY <1>2, <1>5, <1>8

LEMMA InitIsRight ==
    ASSUME R!RelationEditorAssumption, R!Init
    PROVE  RelationInv
<1>1. relations_json \in Seq(WholeRow)
  <2>1. relations_json \in Seq(R!Relation)
    BY DEF R!RelationEditorAssumption, R!Init
  <2>2. R!Relation \subseteq WholeRow
    <3>1. ASSUME NEW alias \in Alias, NEW t \in Title, NEW offset \in R!Offset
          PROVE  <<alias>> \o R!TitleText(t) \o <<offset>> \in WholeRow
      <4> DEFINE first == <<alias>>
                 title == <<t, t>>
                 last == <<offset>>
      <4>1. alias \in Part /\ t \in Part /\ offset \in Part
        BY DEF Part
      <4>2. /\ first \in Seq(Part) /\ Len(first) = 1 /\ title \in Seq(Part) /\ Len(title) = 2
            /\ last \in Seq(Part) /\ Len(last) = 1
        BY <4>1
      <4>3. R!TitleText(t) = title
        BY DEF R!TitleText
      <4> HIDE DEF first, title, last
      <4>4. /\ first \o title \in Seq(Part)
            /\ Len(first \o title) = Len(first) + Len(title)
        BY <4>2, Joining
      <4>5. Len(first \o title) = 3
        BY <4>2, <4>4
      <4>6. /\ first \o title \o last \in Seq(Part)
            /\ Len(first \o title \o last) = Len(first \o title) + Len(last)
        BY <4>2, <4>4, Joining
      <4>7. Len(first \o title \o last) = 4
        BY <4>2, <4>5, <4>6
      <4>8. first \o title \o last \in WholeRow
        BY <4>6, <4>7 DEF WholeRow, Row
      <4> QED BY <4>3, <4>8 DEF first, last
    <3> DEFINE Line(alias, t, offset) == <<alias>> \o R!TitleText(t) \o <<offset>>
    <3>2. R!Relation = {Line(alias, t, offset) :
                          alias \in Alias, t \in Title, offset \in R!Offset}
      BY DEF R!Relation
    <3>3. \A alias \in Alias, t \in Title, offset \in R!Offset :
            Line(alias, t, offset) \in WholeRow
      BY <3>1
    <3> HIDE DEF Line
    <3> QED BY <3>2, <3>3
  <2> HIDE DEF WholeRow
  <2>3. \A s \in Seq(R!Relation) : s \in Seq(WholeRow)
    BY <2>2
  <2> QED BY <2>1, <2>3
<1>2. <<>> \in Seq(WholeRow)
  OBVIOUS
<1>3. /\ rel_dialog = [d \in Dialog |-> R!Closed] /\ rel_loaded = [d \in Dialog |-> <<>>]
      /\ rel_touched = [d \in Dialog |-> {}] /\ rel_entered = [d \in Dialog |-> {}]
  BY DEF R!Init
<1>4. \A d \in Dialog : PageRight(R!Closed, <<>>, {}, {})
  BY <1>2, ClosedPage DEF PageRight
<1>5. R!Closed \in RelationPage
  BY ClosedPage
<1> QED BY <1>1, <1>2, <1>3, <1>4, <1>5 DEF RelationInv

-----------------------------------------------------------------------------
(* One lemma for each action.                                               *)

\* Another row is shown.
LEMMA ChangedPage ==
    ASSUME NEW D, NEW old, NEW keys, NEW new, PageRight(D, old, keys, new),
           D.state = "open", NEW row \in 1..Len(D.list)
    PROVE  /\ PageRight(R!Changed(D, row), old, keys, new)
           /\ R!Changed(D, row).state = "open"
<1> DEFINE E == R!Changed(D, row)
<1>1. D \in RelationPage
  BY DEF PageRight
<1>2. /\ E \in RelationPage /\ E.row = row /\ Len(E.list) = Len(D.list)
      /\ ToSet(D.list) \cup D.disturbed \subseteq ToSet(E.list) \cup E.disturbed
      /\ Complete(D) => Complete(E)
      /\ E.state = D.state
  BY <1>1, ChangedRow
<1> HIDE DEF E
<1>3. E.row \in 0..Len(E.list)
  BY <1>2
<1> QED BY <1>2, <1>3 DEF PageRight, E

LEMMA OpenPage ==
    ASSUME RelationInv, NEW d \in Dialog, NEW titles \in SUBSET Title,
           R!showSettings(d, titles) \/ R!showSmartTitles(d, titles)
    PROVE  RelationInv' /\ NotAccepted(d)
<1> DEFINE D == R!Loaded(titles)
           list == relations_json
<1>1. /\ list \in Seq(WholeRow) /\ rel_touched[d] \in SUBSET Row
      /\ PageRight(rel_dialog[d], rel_loaded[d], rel_touched[d], rel_entered[d])
      /\ rel_touched = [rel_touched EXCEPT ![d] = rel_touched[d]]
      /\ rel_entered = [rel_entered EXCEPT ![d] = rel_entered[d]]
  BY PageIsRight
<1>2. /\ D \in RelationPage /\ Complete(D)
      /\ D.state = "open" /\ D.row = 0 /\ D.list = list
  BY <1>1, OpenedPage
<1>3. PICK E : R!Open(d, E) /\ E \in {D} \cup {R!Changed(D, row) : row \in 1..Len(D.list)}
  <2>1. D.list # <<>> => 1 \in 1..Len(D.list)
    BY <1>1, <1>2
  <2> HIDE DEF D
  <2>2. CASE R!showSettings(d, titles)
    BY <2>2 DEF R!showSettings, D
  <2>3. CASE R!showSmartTitles(d, titles)
    <3>1. R!Open(d, IF D.list = <<>> THEN D ELSE R!Changed(D, 1))
      BY <2>3 DEF R!showSmartTitles, D
    <3> QED BY <2>1, <3>1
  <2> QED BY <2>2, <2>3
<1> HIDE DEF D
<1>4. /\ rel_dialog[d].state = "closed" /\ rel_dialog' = [rel_dialog EXCEPT ![d] = E]
      /\ rel_loaded' = [rel_loaded EXCEPT ![d] = list]
      /\ relations_json' = relations_json
      /\ rel_touched' = rel_touched /\ rel_entered' = rel_entered
  BY <1>3 DEF R!Open
<1>5. rel_entered[d] = {}
  BY <1>1, <1>4 DEF PageRight
<1>6. PageRight(D, list, rel_touched[d], {})
  <2>1. D.row \in 0..Len(D.list)
    BY <1>1, <1>2
  <2> QED BY <1>1, <1>2, <2>1 DEF PageRight
<1>7. PageRight(E, list, rel_touched[d], {}) /\ E.state = "open"
  BY <1>2, <1>3, <1>6, ChangedPage
<1>8. relations_json' \in Seq(WholeRow) /\ rel_touched' = [rel_touched EXCEPT ![d] = rel_touched[d]]
      /\ rel_entered' = [rel_entered EXCEPT ![d] = {}]
  BY <1>1, <1>4, <1>5
<1>9. NotAccepted(d)
  BY <1>4, <1>7 DEF NotAccepted
<1> QED BY <1>4, <1>7, <1>8, <1>9, OnePage

LEMMA SelectRow ==
    ASSUME RelationInv, NEW d \in Dialog, NEW row \in DOMAIN rel_dialog[d].list,
           R!Select(d, row)
    PROVE  RelationInv' /\ NotAccepted(d)
<1>1. /\ relations_json \in Seq(WholeRow) /\ rel_dialog[d] \in RelationPage
      /\ PageRight(rel_dialog[d], rel_loaded[d], rel_touched[d], rel_entered[d])
      /\ rel_loaded = [rel_loaded EXCEPT ![d] = rel_loaded[d]]
      /\ rel_touched = [rel_touched EXCEPT ![d] = rel_touched[d]]
      /\ rel_entered = [rel_entered EXCEPT ![d] = rel_entered[d]]
  BY PageIsRight
<1>2. /\ rel_dialog[d].state = "open"
      /\ rel_dialog' = [rel_dialog EXCEPT ![d] = R!Changed(rel_dialog[d], row)]
      /\ relations_json' = relations_json /\ rel_loaded' = rel_loaded
      /\ rel_touched' = rel_touched /\ rel_entered' = rel_entered
  BY DEF R!Select, R!IsOpen, R!Show
<1>3. row \in 1..Len(rel_dialog[d].list)
  BY <1>1 DEF RelationPage
<1>4. /\ PageRight(R!Changed(rel_dialog[d], row), rel_loaded[d], rel_touched[d], rel_entered[d])
      /\ R!Changed(rel_dialog[d], row).state = "open"
  BY <1>1, <1>2, <1>3, ChangedPage
<1>5. NotAccepted(d)
  BY <1>2, <1>4 DEF NotAccepted
<1> QED BY <1>1, <1>2, <1>4, <1>5, OnePage

LEMMA NewRow ==
    ASSUME RelationInv, NEW d \in Dialog, R!newTitle(d)
    PROVE  RelationInv' /\ NotAccepted(d)
<1> DEFINE C == rel_dialog[d]
           row == <<New>>
           list == Append(C.list, row)
           D == [C EXCEPT !.list = list]
<1>1. /\ relations_json \in Seq(WholeRow) /\ C \in RelationPage
      /\ PageRight(C, rel_loaded[d], rel_touched[d], rel_entered[d])
      /\ rel_loaded = [rel_loaded EXCEPT ![d] = rel_loaded[d]]
      /\ rel_touched = [rel_touched EXCEPT ![d] = rel_touched[d]]
      /\ rel_entered = [rel_entered EXCEPT ![d] = rel_entered[d]]
  BY PageIsRight
<1>2. /\ C.state = "open"
      /\ rel_dialog' = [rel_dialog EXCEPT ![d] = R!Changed([C EXCEPT !.list = Append(@, <<New>>)],
                                                  Len([C EXCEPT !.list = Append(@, <<New>>)].list))]
      /\ relations_json' = relations_json /\ rel_loaded' = rel_loaded
      /\ rel_touched' = rel_touched /\ rel_entered' = rel_entered
  BY DEF R!newTitle, R!IsOpen, R!Show
<1>3. [C EXCEPT !.list = Append(@, <<New>>)] = D
  BY <1>1 DEF RelationPage
<1>4. C.list \in Seq(Row) /\ Len(C.list) \in Nat
  BY <1>1 DEF RelationPage
<1>5. row \in Row /\ Len(row) = 1
  BY DEF Row, Part
<1> HIDE DEF C, row
<1>6. /\ list \in Seq(Row) /\ Len(list) = Len(C.list) + 1
      /\ ToSet(list) = ToSet(C.list) \cup {row}
  BY <1>4, <1>5, Appending
<1> HIDE DEF list
<1>7. /\ D \in RelationPage /\ D.state = C.state /\ D.list = list /\ D.row = C.row
      /\ D.titles = C.titles /\ D.text = C.text /\ D.disturbed = C.disturbed
      /\ D.free = C.free
  BY <1>1, <1>6 DEF RelationPage
<1> HIDE DEF D
<1>8. Complete(C) => Complete(D)
  <2>1. ASSUME NEW r \in ToSet(D.list), \A q \in ToSet(C.list) : Len(q) # 3 PROVE Len(r) # 3
    <3>1. r \in ToSet(C.list) \/ (r = row /\ 1 # 3)
      BY <1>6, <1>7
    <3> QED BY <1>5, <2>1, <3>1
  <2> QED BY <1>7, <2>1 DEF Complete
<1>9. Len(D.list) \in 1..Len(D.list) /\ (C.row \in 0..Len(C.list) => C.row \in 0..Len(D.list))
  BY <1>4, <1>6, <1>7
<1>10. PageRight(D, rel_loaded[d], rel_touched[d], rel_entered[d])
  BY <1>1, <1>2, <1>6, <1>7, <1>8, <1>9 DEF PageRight
<1>11. /\ PageRight(R!Changed(D, Len(D.list)), rel_loaded[d], rel_touched[d], rel_entered[d])
       /\ R!Changed(D, Len(D.list)).state = "open"
  BY <1>2, <1>7, <1>9, <1>10, ChangedPage
<1>12. rel_dialog' = [rel_dialog EXCEPT ![d] = R!Changed(D, Len(D.list))]
  BY <1>2, <1>3
<1>13. NotAccepted(d)
  BY <1>11, <1>12 DEF NotAccepted
<1> QED BY <1>1, <1>2, <1>11, <1>12, <1>13, OnePage

LEMMA DeleteRow ==
    ASSUME RelationInv, NEW d \in Dialog, R!deleteTitle(d)
    PROVE  RelationInv' /\ NotAccepted(d)
<1> DEFINE C == rel_dialog[d]
           E == R!Removed(C)
           row == IF C.row > 1 THEN C.row - 1 ELSE 1
           F == IF E.list = <<>> \/ E.row = row THEN E ELSE R!Changed(E, row)
           text == C.list[C.row]
           keys == rel_touched[d] \cup {text}
           new == rel_entered[d] \ {text}
<1>1. /\ relations_json \in Seq(WholeRow) /\ C \in RelationPage
      /\ PageRight(C, rel_loaded[d], rel_touched[d], rel_entered[d])
      /\ rel_loaded = [rel_loaded EXCEPT ![d] = rel_loaded[d]]
      /\ rel_touched[d] \in SUBSET Row /\ rel_entered[d] \in SUBSET Row
  BY PageIsRight
<1>2. /\ C.state = "open" /\ C.row # 0
      /\ rel_dialog' = [rel_dialog EXCEPT ![d] = F]
      /\ relations_json' = relations_json /\ rel_loaded' = rel_loaded
  BY DEF R!deleteTitle, R!IsOpen, R!Show
<1>3. /\ rel_touched' = [rel_touched EXCEPT ![d] = keys]
      /\ rel_entered' = [rel_entered EXCEPT ![d] = new]
  <2>1. /\ rel_touched \in [Dialog -> SUBSET Row] /\ rel_entered \in [Dialog -> SUBSET Row]
    BY DEF RelationInv
  <2>2. /\ rel_touched' = [rel_touched EXCEPT ![d] = @ \cup {text}]
        /\ rel_entered' = [rel_entered EXCEPT ![d] = @ \ {text}]
    BY DEF R!deleteTitle
  <2> QED BY <2>1, <2>2
<1>4. C.row \in 1..Len(C.list) /\ C.list \in Seq(Row) /\ Len(C.list) \in Nat
  BY <1>1, <1>2 DEF PageRight, RelationPage
<1>5. text \in Row
  BY <1>4
<1>6. /\ E \in RelationPage /\ Len(E.list) = Len(C.list) - 1
      /\ E.row \in 0..Len(E.list)
      /\ ToSet(C.list) \cup C.disturbed \subseteq ToSet(E.list) \cup E.disturbed \cup {text}
      /\ Complete(C) => Complete(E)
      /\ E.state = C.state
  BY <1>1, <1>4, RemovedRow
<1> HIDE DEF C, E, text
<1>7. PageRight(E, rel_loaded[d], keys, new)
  BY <1>1, <1>2, <1>5, <1>6 DEF PageRight
<1>8. E.list # <<>> => row \in 1..Len(E.list)
  <2>1. E.list # <<>> => Len(C.list) # 1
    <3>1. E.list \in Seq(Row)
      BY <1>6 DEF RelationPage
    <3>2. E.list # <<>> => Len(E.list) # 0
      BY <3>1, EmptySeq
    <3>3. Len(C.list) = 1 => Len(E.list) = 1 - 1
      BY <1>6
    <3> QED BY <3>2, <3>3
  <2>2. Len(C.list) # 1 => row \in 1..Len(C.list) - 1
    <3>1. C.row \in 0..Len(C.list)
      BY <1>4
    <3> QED BY <1>2, <1>4, <3>1, AboutRows
  <2> QED BY <1>6, <2>1, <2>2
<1> HIDE DEF keys, new, row
<1>9. PageRight(F, rel_loaded[d], keys, new) /\ F.state = "open"
  BY <1>2, <1>6, <1>7, <1>8, ChangedPage
<1> HIDE DEF F
<1>10. NotAccepted(d)
  BY <1>2, <1>9 DEF NotAccepted
<1> QED BY <1>1, <1>2, <1>3, <1>9, <1>10, OnePage

\* A change of the fields, which are F then: what the page D is.
Edited(C, D, heard) ==
    /\ D \in RelationPage /\ Len(D.list) = Len(C.list)
    /\ D.state = C.state /\ D.row = C.row /\ D.disturbed = C.disturbed
    /\ Complete(C) => Complete(D)
    /\ ToSet(C.list) \subseteq ToSet(D.list) \cup {C.list[k] : k \in {C.row} \ {0}}
    /\ heard => (D.row # 0 => R!LineText(D) \in ToSet(D.list))
    /\ ~heard => D.list = C.list

LEMMA HeardIsEdited ==
    ASSUME NEW C \in RelationPage, NEW F \in RelationPage, NEW D, Written(F, D),
           Complete(C) => Complete(F), F.state = C.state, F.row = C.row,
           F.list = C.list, F.disturbed = C.disturbed
    PROVE  Edited(C, D, TRUE)
BY DEF Written, Edited

LEMMA EditRow ==
    ASSUME RelationInv, NEW d \in Dialog, NEW D, NEW heard \in BOOLEAN,
           R!Edit(d, D, heard),
           rel_dialog[d].state = "open" => Edited(rel_dialog[d], D, heard)
    PROVE  RelationInv' /\ NotAccepted(d)
<1> DEFINE C == rel_dialog[d]
           text == C.list[C.row]
<1>1. /\ relations_json \in Seq(WholeRow) /\ C \in RelationPage
      /\ PageRight(C, rel_loaded[d], rel_touched[d], rel_entered[d])
      /\ rel_loaded = [rel_loaded EXCEPT ![d] = rel_loaded[d]]
      /\ rel_touched = [rel_touched EXCEPT ![d] = rel_touched[d]]
      /\ rel_entered = [rel_entered EXCEPT ![d] = rel_entered[d]]
      /\ rel_touched[d] \in SUBSET Row /\ rel_entered[d] \in SUBSET Row
  BY PageIsRight
<1>2. /\ rel_touched \in [Dialog -> SUBSET Row] /\ rel_entered \in [Dialog -> SUBSET Row]
  BY DEF RelationInv
<1>3. /\ C.state = "open"
      /\ rel_dialog' = [rel_dialog EXCEPT ![d] = D]
      /\ relations_json' = relations_json /\ rel_loaded' = rel_loaded
  BY DEF R!Edit, R!IsOpen, R!Show
<1>4. Edited(C, D, heard)
  BY <1>3
<1>5. C.row \in 0..Len(C.list) /\ C.list \in Seq(Row) /\ Len(C.list) \in Nat
      /\ D.row \in 0..Len(D.list)
  BY <1>1, <1>3, <1>4 DEF PageRight, RelationPage, Edited
<1>6. ASSUME C.row = 0 PROVE RelationInv'
  <2>1. rel_touched' = rel_touched /\ rel_entered' = rel_entered
    <3>1. D.row = 0
      BY <1>4, <1>6 DEF Edited
    <3> QED BY <3>1 DEF R!Edit
  <2>2. {C.list[k] : k \in {C.row} \ {0}} = {}
    BY <1>6
  <2> HIDE DEF C
  <2>3. PageRight(D, rel_loaded[d], rel_touched[d], rel_entered[d])
    BY <1>1, <1>3, <1>4, <1>5, <2>2 DEF PageRight, Edited
  <2> QED BY <1>1, <1>3, <2>1, <2>3, OnePage
<1>7. ASSUME C.row # 0 PROVE RelationInv'
  <2> DEFINE keys == rel_touched[d] \cup {text}
             new == IF heard THEN (rel_entered[d] \ {text}) \cup {R!LineText(D)}
                    ELSE rel_entered[d]
  <2>1. D.row = C.row
    BY <1>4 DEF Edited
  <2>2. /\ rel_touched' = [rel_touched EXCEPT ![d] = @ \cup {C.list[D.row]}]
        /\ rel_entered' = IF heard THEN [rel_entered EXCEPT
                                          ![d] = (@ \ {C.list[D.row]}) \cup {R!LineText(D)}]
                          ELSE rel_entered
    BY <1>7, <2>1 DEF R!Edit
  <2>3. /\ rel_touched' = [rel_touched EXCEPT ![d] = keys]
        /\ rel_entered' = [rel_entered EXCEPT ![d] = new]
    <3>1. rel_touched' = [rel_touched EXCEPT ![d] = keys]
      BY <1>2, <2>1, <2>2
    <3>2. rel_entered' = [rel_entered EXCEPT ![d] = new]
      BY <1>1, <1>2, <2>1, <2>2
    <3> QED BY <3>1, <3>2
  <2>4. text \in Row /\ {C.list[k] : k \in {C.row} \ {0}} = {text}
    BY <1>5, <1>7
  <2>5. R!LineText(D) \in Row /\ Len(R!LineText(D)) >= 3
    BY <1>4, LineIs DEF Edited
  <2>6. heard => R!LineText(D) \in ToSet(D.list)
    BY <1>4, <1>7, <2>1 DEF Edited
  <2> HIDE DEF C, text
  <2>7. keys \in SUBSET Row /\ new \in SUBSET Row
    BY <1>1, <2>4, <2>5
  <2>8. ToSet(rel_loaded[d]) \subseteq ToSet(D.list) \cup D.disturbed \cup keys
    BY <1>1, <1>3, <1>4, <2>4 DEF PageRight, Edited
  <2>9. new \subseteq ToSet(D.list) \cup D.disturbed
    <3>1. CASE heard
      BY <1>1, <1>3, <1>4, <2>4, <2>6, <3>1 DEF PageRight, Edited
    <3>2. CASE ~heard
      BY <1>1, <1>3, <1>4, <3>2 DEF PageRight, Edited
    <3> QED BY <3>1, <3>2
  <2>10. \A row \in new : Len(row) >= 3
    BY <1>1, <1>3, <2>5 DEF PageRight
  <2> HIDE DEF keys, new
  <2>11. PageRight(D, rel_loaded[d], keys, new)
    BY <1>1, <1>3, <1>4, <1>5, <2>7, <2>8, <2>9, <2>10 DEF PageRight, Edited
  <2> QED BY <1>1, <1>3, <2>3, <2>11, OnePage
<1>8. NotAccepted(d)
  <2>1. D.state = "open"
    BY <1>3, <1>4 DEF Edited
  <2> QED BY <1>3, <2>1 DEF NotAccepted
<1> QED BY <1>6, <1>7, <1>8

LEMMA EditFields ==
    ASSUME RelationInv, NEW d \in Dialog,
           \/ \E alias \in Alias \cup {Empty} : R!aliasEdited(d, alias)
           \/ \E offset \in R!Offset : R!offsetEdited(d, offset)
    PROVE  RelationInv' /\ NotAccepted(d)
<1> DEFINE C == rel_dialog[d]
<1>1. C \in RelationPage /\ (C.state = "open" => C.row \in 0..Len(C.list))
  BY PageIsRight DEF PageRight
<1>2. ASSUME NEW alias \in Alias \cup {Empty}, R!aliasEdited(d, alias) PROVE RelationInv' /\ NotAccepted(d)
  <2> DEFINE F == [C EXCEPT !.alias = alias]
             D == R!updateSmartTitleName(F)
  <2>1. R!Edit(d, D, TRUE)
    BY <1>2 DEF R!aliasEdited
  <2>2. /\ F \in RelationPage /\ F.state = C.state /\ F.row = C.row /\ F.list = C.list
        /\ F.disturbed = C.disturbed /\ F.text = C.text /\ F.titles = C.titles
        /\ F.free = C.free
    <3>1. alias \in Part
      BY DEF Part
    <3> QED BY <1>1, <3>1 DEF RelationPage
  <2> HIDE DEF F
  <2>3. Complete(C) => Complete(F)
    BY <2>2 DEF Complete
  <2>4. C.state = "open" => Edited(C, D, TRUE)
    BY <1>1, <2>2, <2>3, UpdateIs, HeardIsEdited
  <2> HIDE DEF D
  <2> QED BY <2>1, <2>4, EditRow
<1>3. ASSUME NEW offset \in R!Offset, R!offsetEdited(d, offset) PROVE RelationInv' /\ NotAccepted(d)
  <2> DEFINE D == R!SetOffset(C, offset)
  <2>1. R!Edit(d, D, TRUE) /\ offset # C.offset
    BY <1>3 DEF R!offsetEdited
  <2>2. offset \in Part
    BY DEF Part
  <2>3. C.state = "open" => Edited(C, D, TRUE)
    BY <1>1, <2>1, <2>2, SetOffsetIs, HeardIsEdited
  <2> HIDE DEF D
  <2> QED BY <2>1, <2>3, EditRow
<1> QED BY <1>2, <1>3

LEMMA EditTitle ==
    ASSUME RelationInv, NEW d \in Dialog,
           \/ \E t \in Title : R!ChooseTitle(d, t)
           \/ \E text \in {TypedText, Empty} : R!TypeTitle(d, text)
           \/ R!EnterTitle(d)
    PROVE  RelationInv' /\ NotAccepted(d)
<1> DEFINE C == rel_dialog[d]
<1>1. C \in RelationPage /\ (C.state = "open" => C.row \in 0..Len(C.list))
  BY PageIsRight DEF PageRight
<1>2. ASSUME NEW t \in Title, R!ChooseTitle(d, t) PROVE RelationInv' /\ NotAccepted(d)
  <2> DEFINE text == <<t, t>>
             F == [C EXCEPT !.text = text]
             G == [F EXCEPT !.index = F.text]
             D == R!updateSmartTitleName(G)
  <2>1. \/ R!Edit(d, F, FALSE)
        \/ R!Edit(d, D, TRUE)
    BY <1>2 DEF R!ChooseTitle, R!TitleText
  <2>2. text \in BoxText /\ Len(text) = 2
    <3>1. t \in Part
      BY DEF Part
    <3> QED BY <3>1, SingleTexts
  <2> HIDE DEF text, C
  <2>3. /\ F \in RelationPage /\ F.state = C.state /\ F.row = C.row /\ F.list = C.list
        /\ F.disturbed = C.disturbed /\ F.text = text /\ F.titles = C.titles
        /\ F.free = C.free
    BY <1>1, <2>2 DEF RelationPage
  <2> HIDE DEF F
  <2>4. /\ G \in RelationPage /\ G.state = C.state /\ G.row = C.row /\ G.list = C.list
        /\ G.disturbed = C.disturbed /\ G.text = text /\ G.titles = C.titles
        /\ G.free = C.free
    BY <2>2, <2>3 DEF RelationPage
  <2> HIDE DEF G
  <2>5. Complete(C) => Complete(F) /\ Complete(G)
    BY <2>2, <2>3, <2>4 DEF Complete
  <2>6. C.state = "open" => Edited(C, F, FALSE)
    BY <2>3, <2>5 DEF Edited
  <2>7. C.state = "open" => Edited(C, D, TRUE)
    BY <1>1, <2>4, <2>5, UpdateIs, HeardIsEdited
  <2> HIDE DEF D
  <2> QED BY <2>1, <2>6, <2>7, EditRow DEF C
<1>3. ASSUME NEW text \in {TypedText, Empty}, R!TypeTitle(d, text) PROVE RelationInv' /\ NotAccepted(d)
  <2> DEFINE box == <<text>>
             D == [C EXCEPT !.text = box, !.free = TRUE]
  <2>1. R!Edit(d, D, FALSE)
    BY <1>3 DEF R!TypeTitle
  <2>2. box \in BoxText
    <3>1. text \in Part
      BY DEF Part
    <3> QED BY <3>1, SingleTexts
  <2> HIDE DEF box, C
  <2>3. /\ D \in RelationPage /\ D.state = C.state /\ D.row = C.row /\ D.list = C.list
        /\ D.disturbed = C.disturbed
    BY <1>1, <2>2 DEF RelationPage
  <2>4. D.free
    BY <1>1 DEF RelationPage
  <2> HIDE DEF D
  <2>5. Complete(D)
    BY <2>4 DEF Complete
  <2>6. C.state = "open" => Edited(C, D, FALSE)
    BY <2>3, <2>5 DEF Edited
  <2> QED BY <2>1, <2>6, EditRow DEF C
<1>4. ASSUME R!EnterTitle(d) PROVE RelationInv' /\ NotAccepted(d)
  <2> DEFINE F == [C EXCEPT !.index = C.text]
             D == R!updateSmartTitleName(F)
  <2>1. R!Edit(d, D, TRUE)
    BY <1>4 DEF R!EnterTitle
  <2> HIDE DEF C
  <2>2. /\ F \in RelationPage /\ F.state = C.state /\ F.row = C.row /\ F.list = C.list
        /\ F.disturbed = C.disturbed /\ F.text = C.text /\ F.titles = C.titles
        /\ F.free = C.free
    BY <1>1 DEF RelationPage
  <2> HIDE DEF F
  <2>3. Complete(C) => Complete(F)
    BY <2>2 DEF Complete
  <2>4. C.state = "open" => Edited(C, D, TRUE)
    BY <1>1, <2>2, <2>3, UpdateIs, HeardIsEdited
  <2> HIDE DEF D
  <2> QED BY <2>1, <2>4, EditRow DEF C
<1> QED BY <1>2, <1>3, <1>4

LEMMA ClosePage ==
    ASSUME RelationInv, NEW d \in Dialog, R!accept(d) \/ R!reject(d)
    PROVE  RelationInv' /\ (R!accept(d) \/ NotAccepted(d))
<1>1. /\ relations_json \in Seq(WholeRow) /\ rel_dialog[d] \in RelationPage
      /\ rel_loaded[d] \in Seq(WholeRow)
      /\ rel_touched[d] \in SUBSET Row /\ rel_entered[d] \in SUBSET Row
      /\ rel_loaded = [rel_loaded EXCEPT ![d] = rel_loaded[d]]
      /\ rel_touched = [rel_touched EXCEPT ![d] = rel_touched[d]]
      /\ rel_entered = [rel_entered EXCEPT ![d] = rel_entered[d]]
  BY PageIsRight
<1>2. /\ rel_loaded' = rel_loaded /\ rel_touched' = rel_touched /\ rel_entered' = rel_entered
  BY DEF R!accept, R!reject, R!historyVars
<1>3. \E state \in {"accepted", "rejected"} :
         rel_dialog' = [rel_dialog EXCEPT ![d] = [R!Closed EXCEPT !.state = state]]
  BY DEF R!accept, R!reject
<1>4. relations_json' \in Seq(WholeRow)
  <2>1. CASE R!accept(d)
    BY <1>1, <2>1, WhatIsSaved DEF R!accept
  <2>2. CASE R!reject(d)
    BY <1>1, <2>2 DEF R!reject
  <2> QED BY <2>1, <2>2
<1>5. PICK state \in {"accepted", "rejected"} :
         rel_dialog' = [rel_dialog EXCEPT ![d] = [R!Closed EXCEPT !.state = state]]
  BY <1>3
<1>6. PageRight([R!Closed EXCEPT !.state = state], rel_loaded[d],
rel_touched[d], rel_entered[d])
  BY <1>1, ClosedAgain
<1>7. R!reject(d) => NotAccepted(d)
  <2>1. R!Closed \in RelationPage
    BY ClosedPage
  <2>2. [R!Closed EXCEPT !.state = "rejected"].state = "rejected"
    BY <2>1 DEF RelationPage
  <2>3. SUFFICES ASSUME R!reject(d) PROVE NotAccepted(d)
    OBVIOUS
  <2>4. rel_dialog' = [rel_dialog EXCEPT ![d] = [R!Closed EXCEPT !.state = "rejected"]]
    BY <2>3 DEF R!reject
  <2> QED BY <2>2, <2>4 DEF NotAccepted
<1> QED BY <1>1, <1>2, <1>4, <1>5, <1>6, <1>7, OnePage

LEMMA ResetPage ==
    ASSUME RelationInv, NEW d \in Dialog, R!defaultSettings(d)
    PROVE  RelationInv' /\ NotAccepted(d)
<1> DEFINE C == rel_dialog[d]
           none == <<>>
           text == R!FirstText(C.titles)
           D == [C EXCEPT !.list = none, !.row = 0, !.alias = Empty,
                          !.text = text, !.index = text, !.offset = 0]
           keys == rel_touched[d] \cup ToSet(rel_loaded[d])
<1>1. /\ C \in RelationPage /\ rel_loaded[d] \in Seq(WholeRow)
      /\ PageRight(C, rel_loaded[d], rel_touched[d], rel_entered[d])
      /\ rel_touched[d] \in SUBSET Row
      /\ rel_loaded = [rel_loaded EXCEPT ![d] = rel_loaded[d]]
  BY PageIsRight
<1>2. /\ C.state = "open" /\ relations_json' = none /\ rel_loaded' = rel_loaded
      /\ rel_dialog' = [rel_dialog EXCEPT ![d] = [@ EXCEPT
            !.list = none, !.row = 0, !.alias = Empty, !.text = text,
            !.index = text, !.offset = 0]]
      /\ rel_touched' = [rel_touched EXCEPT ![d] = @ \cup R!ToSet(rel_loaded[d])]
      /\ rel_entered' = [rel_entered EXCEPT ![d] = {}]
  BY DEF R!defaultSettings, R!IsOpen
<1>3. none \in Seq(Row) /\ none \in Seq(WholeRow) /\ Len(none) = 0 /\ ToSet(none) = {}
  BY DEF ToSet
<1>4. text \in BoxText /\ (C.titles # {} => Len(text) = 2)
  BY FirstTextIs
<1>5. keys \in SUBSET Row
  BY <1>1, RowsAreWhole
<1> HIDE DEF none, text
<1>6. rel_dialog' = [rel_dialog EXCEPT ![d] = D]
  BY <1>2 DEF RelationInv
<1>7. rel_touched' = [rel_touched EXCEPT ![d] = keys]
  BY <1>2, SameOperators DEF RelationInv
<1> HIDE DEF C, keys
<1>8. /\ D \in RelationPage /\ D.state = C.state /\ D.row = 0 /\ D.list = none
      /\ D.titles = C.titles /\ D.text = text /\ D.free = C.free
  <2>1. Empty \in Part /\ 0 \in Part
    BY DEF Part
  <2> QED BY <1>1, <1>3, <1>4, <2>1 DEF RelationPage
<1> HIDE DEF D
<1>9. Complete(C) => Complete(D)
  BY <1>3, <1>4, <1>8 DEF Complete
<1>10. D.row \in 0..Len(D.list)
  BY <1>3, <1>8
<1>11. ToSet(rel_loaded[d]) \subseteq keys
  BY DEF keys
<1>12. PageRight(D, rel_loaded[d], keys, {})
  BY <1>1, <1>2, <1>5, <1>8, <1>9, <1>10, <1>11 DEF PageRight
<1>13. relations_json' \in Seq(WholeRow) /\ rel_loaded' = [rel_loaded EXCEPT ![d] = rel_loaded[d]]
  BY <1>1, <1>2, <1>3
<1>14. NotAccepted(d)
  BY <1>2, <1>6, <1>8 DEF NotAccepted
<1> QED BY <1>2, <1>6, <1>7, <1>12, <1>13, <1>14, OnePage

LEMMA RelationStep ==
    ASSUME RelationInv, NEW d \in Dialog, R!Step(d)
    PROVE  RelationInv' /\ (R!accept(d) \/ NotAccepted(d))
<1>1. CASE \E titles \in {{}, Title} : R!showSettings(d, titles) \/ R!showSmartTitles(d, titles)
  BY <1>1, OpenPage
<1>2. CASE \E row \in DOMAIN rel_dialog[d].list : R!Select(d, row)
  BY <1>2, SelectRow
<1>3. CASE R!newTitle(d)
  BY <1>3, NewRow
<1>4. CASE R!deleteTitle(d)
  BY <1>4, DeleteRow
<1>5. CASE \/ \E alias \in Alias \cup {Empty} : R!aliasEdited(d, alias)
           \/ \E offset \in R!Offset : R!offsetEdited(d, offset)
  BY <1>5, EditFields
<1>6. CASE \/ \E t \in Title : R!ChooseTitle(d, t)
           \/ \E text \in {TypedText, Empty} : R!TypeTitle(d, text)
           \/ R!EnterTitle(d)
  BY <1>6, EditTitle
<1>7. CASE R!accept(d) \/ R!reject(d)
  BY <1>7, ClosePage
<1>8. CASE R!defaultSettings(d)
  BY <1>8, ResetPage
<1> QED BY <1>1, <1>2, <1>3, <1>4, <1>5, <1>6, <1>7, <1>8 DEF R!Step

\* The invariant of the relations: every page has, in its list or among the
\* rows that showing them has written over, what its user has entered and all
\* that the file had when it was opened and its user has left alone; and as
\* long as no text without an id was in the box, no row can stop the saving.
THEOREM RelationsAreKept == R!RelationEditorAssumption => (R!Spec => []RelationInv)
<1> SUFFICES ASSUME R!RelationEditorAssumption PROVE R!Spec => []RelationInv
  OBVIOUS
<1>1. R!Init => RelationInv
  BY InitIsRight
<1>2. RelationInv /\ [R!Next]_(R!vars) => RelationInv'
  <2> SUFFICES ASSUME RelationInv, [R!Next]_(R!vars) PROVE RelationInv'
    OBVIOUS
  <2>1. CASE R!Next
    BY <2>1, RelationStep DEF R!Next
  <2>2. CASE UNCHANGED R!vars
    BY <2>2 DEF RelationInv, PageRight, R!vars, R!historyVars
  <2> QED BY <2>1, <2>2
<1> QED BY <1>1, <1>2, PTL DEF R!Spec

LEMMA WritesRelations ==
    ASSUME NEW d \in Dialog, R!Step(d)
    PROVE  relations_json' = relations_json \/ R!accept(d) \/ R!defaultSettings(d)
<1>1. ASSUME NEW D, R!Open(d, D) \/ R!Show(d, D) PROVE relations_json' = relations_json
  BY <1>1 DEF R!Open, R!Show
<1>2. ASSUME NEW D, NEW heard, R!Edit(d, D, heard) PROVE relations_json' = relations_json
  BY <1>1, <1>2 DEF R!Edit
<1>3. CASE \E titles \in {{}, Title} : R!showSettings(d, titles) \/ R!showSmartTitles(d, titles)
  BY <1>1, <1>3 DEF R!showSettings, R!showSmartTitles
<1>4. CASE \E row \in DOMAIN rel_dialog[d].list : R!Select(d, row)
  BY <1>1, <1>4 DEF R!Select
<1>5. CASE R!newTitle(d)
  BY <1>1, <1>5 DEF R!newTitle
<1>6. CASE R!deleteTitle(d)
  BY <1>1, <1>6 DEF R!deleteTitle
<1>7. CASE \E alias \in Alias \cup {Empty} : R!aliasEdited(d, alias)
  BY <1>2, <1>7 DEF R!aliasEdited
<1>8. CASE \E offset \in R!Offset : R!offsetEdited(d, offset)
  BY <1>2, <1>8 DEF R!offsetEdited
<1>9. CASE \E t \in Title : R!ChooseTitle(d, t)
  BY <1>2, <1>9 DEF R!ChooseTitle
<1>10. CASE \E text \in {TypedText, Empty} : R!TypeTitle(d, text)
  BY <1>2, <1>10 DEF R!TypeTitle
<1>11. CASE R!EnterTitle(d)
  BY <1>2, <1>11 DEF R!EnterTitle
<1>12. CASE R!reject(d)
  BY <1>12 DEF R!reject
<1> QED BY <1>3, <1>4, <1>5, <1>6, <1>7, <1>8, <1>9, <1>10, <1>11, <1>12 DEF R!Step

-----------------------------------------------------------------------------
(* What is in relations.json after a save.                                  *)

\* A relation that may be lost.
MayGo(relation) ==
    \E d \in Dialog : R!IsOpen(d) /\
        \/ relation \in rel_touched'[d] \cup rel_dialog[d].disturbed
        \/ rel_dialog[d].free
        \/ relations_json # rel_loaded[d]

LEMMA RelationStays ==
    ASSUME RelationInv, NEW d \in Dialog, R!Step(d),
           NEW relation \in ToSet(relations_json), ~MayGo(relation)
    PROVE  relation \in ToSet(relations_json')
<1> DEFINE D == rel_dialog[d]
<1>1. /\ PageRight(D, rel_loaded[d], rel_touched[d], rel_entered[d])
      /\ D \in RelationPage /\ relations_json \in Seq(WholeRow)
  BY PageIsRight
<1>2. CASE relations_json' = relations_json
  BY <1>2
<1>3. CASE R!accept(d)
  <2>1. R!IsOpen(d) /\ D.state = "open" /\ rel_touched' = rel_touched
    BY <1>3 DEF R!accept, R!IsOpen, R!historyVars
  <2>2. /\ relation \notin rel_touched[d] \cup D.disturbed
        /\ ~D.free /\ relations_json = rel_loaded[d]
    BY <2>1 DEF MayGo
  <2>3. relation \in ToSet(D.list) /\ Complete(D)
    BY <1>1, <2>1, <2>2 DEF PageRight
  <2>4. ~R!Fails(D)
    BY <1>1, <2>2, <2>3, CompleteDoesNotFail
  <2>5. relations_json' = R!Saved(D)
    BY <1>3, <2>4 DEF R!accept
  <2>6. Len(relation) >= 3
    <3>1. Len(relation) = 4
      BY <1>1, RowsAreWhole
    <3> QED BY <3>1
  <2> QED BY <1>1, <2>3, <2>5, <2>6, SavedRows
<1>4. CASE R!defaultSettings(d)
  <2>1. R!IsOpen(d) /\ rel_touched' = [rel_touched EXCEPT ![d] = @ \cup R!ToSet(rel_loaded[d])]
    BY <1>4 DEF R!defaultSettings
  <2>2. ToSet(rel_loaded[d]) \subseteq rel_touched'[d]
    BY <2>1, SameOperators DEF RelationInv
  <2> QED BY <2>1, <2>2 DEF MayGo
<1> QED BY <1>2, <1>3, <1>4, WritesRelations

(* RelationsSurvive: for any relations and any number of dialogs and rows,  *)
(* a relation that the user has not edited, deleted or reset is still in    *)
(* relations.json after every save, but for the ways that are named there.  *)
THEOREM Survive == R!RelationEditorAssumption => (R!Spec => R!RelationsSurvive)
<1> SUFFICES ASSUME R!RelationEditorAssumption PROVE R!Spec => R!RelationsSurvive
  OBVIOUS
<1> DEFINE Stays == \A relation \in R!ToSet(relations_json) :
                       \/ relation \in R!ToSet(relations_json')
                       \/ \E d \in Dialog : R!IsOpen(d) /\
                             \/ relation \in rel_touched'[d] \cup rel_dialog[d].disturbed
                             \/ rel_dialog[d].free
                             \/ relations_json # rel_loaded[d]
<1>1. ASSUME RelationInv, [R!Next]_(R!vars) PROVE [Stays]_(R!vars)
  <2>1. CASE UNCHANGED R!vars
    BY <2>1
  <2>2. CASE R!Next
    BY <1>1, <2>2, RelationStays, SameOperators DEF R!Next, MayGo
  <2> QED BY <1>1, <2>1, <2>2
<1>2. RelationInv /\ [R!Next]_(R!vars) => [Stays]_(R!vars)
  BY <1>1
<1>3. R!Spec => []RelationInv
  BY RelationsAreKept
<1> QED BY <1>2, <1>3, PTL DEF R!Spec, R!RelationsSurvive

LEMMA OnlyAcceptSavesRelations ==
    ASSUME RelationInv, NEW d \in Dialog, NEW e \in Dialog, R!Step(e), R!Saves(d)
    PROVE  e = d /\ R!accept(d)
<1>1. rel_dialog \in [Dialog -> RelationPage] /\ rel_dialog[d].state = "open"
      /\ rel_dialog'[d].state = "accepted"
  BY DEF RelationInv, R!Saves, R!IsOpen
<1>2. ASSUME NEW E, rel_dialog' = [rel_dialog EXCEPT ![e] = E] PROVE e = d /\ E.state = "accepted"
  <2>1. e # d => rel_dialog'[d] = rel_dialog[d]
    BY <1>1, <1>2
  <2>2. e = d
    BY <1>1, <2>1
  <2>3. rel_dialog'[d] = E
    BY <1>1, <1>2, <2>2
  <2> QED BY <1>1, <2>2, <2>3
<1>3. ~NotAccepted(e)
  BY <1>2 DEF NotAccepted
<1>4. R!accept(e)
  BY <1>3, RelationStep
<1>5. e = d
  BY <1>2, <1>4 DEF R!accept
<1> QED BY <1>4, <1>5

LEMMA EntryArrives ==
    ASSUME RelationInv, NEW d \in Dialog, R!accept(d), ~rel_corrupt'
    PROVE  rel_entered[d] \ rel_dialog[d].disturbed \subseteq ToSet(relations_json')
<1> DEFINE D == rel_dialog[d]
<1>1. /\ PageRight(D, rel_loaded[d], rel_touched[d], rel_entered[d]) /\ D \in RelationPage
      /\ D.state = "open" /\ relations_json' = R!Saved(D)
  BY PageIsRight DEF R!accept, R!IsOpen
<1>2. /\ rel_entered[d] \subseteq ToSet(D.list) \cup D.disturbed
      /\ \A row \in rel_entered[d] : Len(row) >= 3
  BY <1>1 DEF PageRight
<1>3. ToSet(R!Saved(D)) = {row \in ToSet(D.list) : Len(row) >= 3}
  BY <1>1, SavedRows
<1> QED BY <1>1, <1>2, <1>3

(* EntriesArrive: for any relations and any number of rows visited, made    *)
(* and deleted, what the user has entered last for a row is in              *)
(* relations.json when "OK" returns, unless showing the row wrote it over.  *)
THEOREM Entries == R!RelationEditorAssumption => (R!Spec => R!EntriesArrive)
<1> SUFFICES ASSUME R!RelationEditorAssumption PROVE R!Spec => R!EntriesArrive
  OBVIOUS
<1> DEFINE Arrive == \A d \in Dialog : R!Saves(d) =>
                rel_entered[d] \ rel_dialog[d].disturbed \subseteq R!ToSet(relations_json')
<1>1. ASSUME RelationInv, [R!Next]_(R!vars) PROVE [Arrive]_(R!vars)
  <2>1. CASE UNCHANGED R!vars
    BY <2>1
  <2>2. ASSUME R!Next, NEW d \in Dialog, R!Saves(d)
        PROVE  rel_entered[d] \ rel_dialog[d].disturbed \subseteq R!ToSet(relations_json')
    <3>1. R!accept(d) /\ ~rel_corrupt'
      BY <1>1, <2>2, OnlyAcceptSavesRelations DEF R!Next, R!Saves
    <3> QED BY <1>1, <3>1, EntryArrives, SameOperators
  <2> QED BY <1>1, <2>1, <2>2
<1>2. RelationInv /\ [R!Next]_(R!vars) => [Arrive]_(R!vars)
  BY <1>1
<1>3. R!Spec => []RelationInv
  BY RelationsAreKept
<1> QED BY <1>2, <1>3, PTL DEF R!Spec, R!EntriesArrive

=============================================================================
