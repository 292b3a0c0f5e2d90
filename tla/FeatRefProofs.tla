---------------------------- MODULE FeatRefProofs ----------------------------
(***************************************************************************)
(* Proofs about the lookups of a table and the references to them, for     *)
(* every value of the constants: no label is defined twice, every          *)
(* reference finds its definition in its own table, and a lookup keeps one *)
(* table, type and flag.  All three hold of files whose blocks and         *)
(* features have rules and whose lookup blocks leave script and language   *)
(* alone; the theorems name the forms of file they leave out.              *)
(***************************************************************************)
EXTENDS FeatLabelProofs

USE DEF parserVars, loopVars, globalVars, scopeVars, labelVars, runVars

-----------------------------------------------------------------------------
(* The invariant, with its parts named.  lay is a layout and p a value of  *)
(* prev, the state of the rule or reference whose lookup is open.          *)

\* A subtable of table tbl has label b.
Def(lay, tbl, b) == \E k \in 1 .. Len(lay[tbl].subtables) : lay[tbl].subtables[k].label = b

\* ... or will have it once the lookup of p has ended.
Has(lay, p, tbl, b) == Def(lay, tbl, b) \/ (p.tbl = tbl /\ p.label = b)

\* A state, or an element of lookup, can be referred to.
Carried(lay, p, c) == c.tbl \in Tables /\ Has(lay, p, c.tbl, BaseLab(c.label))
SeqCarried(lay, p, s) == \A k \in 1 .. Len(s) : Carried(lay, p, s[k])
NamesCarried(lay, p, names, open) ==
    \A i \in 1 .. Len(names) : open # i - 1 => Carried(lay, p, names[i].state)

\* The references of the tables find their definitions.
RefsDefined(lay) ==
    \A tbl \in Tables : \A k \in 1 .. Len(lay[tbl].subtables) :
        IsRefLab(lay[tbl].subtables[k].label) => Def(lay, tbl, BaseLab(lay[tbl].subtables[k].label))

\* No two definitions have the same label, in whatever tables they are.
Distinct(lay) ==
    \A t, u \in Tables :
        \A i \in 1 .. Len(lay[t].subtables), k \in 1 .. Len(lay[u].subtables) :
            /\ lay[t].subtables[i].label = lay[u].subtables[k].label
            /\ ~IsRefLab(lay[t].subtables[i].label)
            => t = u /\ i = k

\* The lookup that is open has the label of the last rule, and no subtable has it yet; while
\* registration runs, some subtable has it already.
OpenLabel ==
    prev.tbl # UNDEF =>
        IF pc = "register" THEN Def(layout, prev.tbl, prev.label)
        ELSE /\ layout[prev.tbl].new.label = prev.label
             /\ ~IsRefLab(prev.label) => \A tbl \in Tables : ~Def(layout, tbl, prev.label)

\* The rules of a lookup block are one run, and before the first of them its label is new.
BlockRun ==
    InBlock =>
        IF curr.label = currNamedLkp
        THEN /\ prev.script = curr.script /\ prev.language = curr.language
             /\ prev.feature = curr.feature /\ ~EntersLangSysMode
        ELSE \A tbl \in Tables : ~Def(layout, tbl, currNamedLkp)

RefInv ==
    /\ OpenLabel /\ BlockRun
    /\ prev.tbl # UNDEF => Carried(layout, prev, prev)
    /\ SeqCarried(layout, prev, DFLTLkps) /\ SeqCarried(layout, prev, lookup)
    /\ NamesCarried(layout, prev, namedLkp, currNamedLkp)
    /\ RefsDefined(layout)

RefRunInv == Distinct(layout) /\ (~hadError => RefInv)

-----------------------------------------------------------------------------
(* Subtables that stay, and one that is added *)

SameSubs(a, b) == \A tbl \in Tables : b[tbl].subtables = a[tbl].subtables

Appended(a, b, tbl, s) ==
    /\ b[tbl].subtables = Append(a[tbl].subtables, s)
    /\ \A t \in Tables : t # tbl => b[t].subtables = a[t].subtables

\* What is said of subtables stays true while they stay.
LEMMA SameSubsKeep ==
    ASSUME NEW a, NEW b, SameSubs(a, b)
    PROVE  /\ \A tbl \in Tables : \A x : Def(b, tbl, x) <=> Def(a, tbl, x)
           /\ Distinct(a) => Distinct(b)
           /\ RefsDefined(a) => RefsDefined(b)
<1>1. \A tbl \in Tables : \A x : Def(b, tbl, x) <=> Def(a, tbl, x)
  <2> SUFFICES ASSUME NEW tbl \in Tables, NEW x PROVE Def(b, tbl, x) <=> Def(a, tbl, x)
    OBVIOUS
  <2>1. b[tbl].subtables = a[tbl].subtables
    BY DEF SameSubs
  <2> QED
    BY <2>1 DEF Def
<1>2. ASSUME Distinct(a) PROVE Distinct(b)
  <2> SUFFICES ASSUME NEW t \in Tables, NEW u \in Tables,
                      NEW i \in 1 .. Len(b[t].subtables), NEW k \in 1 .. Len(b[u].subtables),
                      b[t].subtables[i].label = b[u].subtables[k].label,
                      ~IsRefLab(b[t].subtables[i].label)
               PROVE  t = u /\ i = k
    BY DEF Distinct
  <2>1. b[t].subtables = a[t].subtables /\ b[u].subtables = a[u].subtables
    BY DEF SameSubs
  <2> QED
    BY <1>2, <2>1 DEF Distinct
<1>3. ASSUME RefsDefined(a) PROVE RefsDefined(b)
  <2> SUFFICES ASSUME NEW t \in Tables, NEW i \in 1 .. Len(b[t].subtables),
                      IsRefLab(b[t].subtables[i].label)
               PROVE  Def(b, t, BaseLab(b[t].subtables[i].label))
    BY DEF RefsDefined
  <2>1. b[t].subtables = a[t].subtables
    BY DEF SameSubs
  <2> QED
    BY <1>1, <1>3, <2>1 DEF RefsDefined
<1> QED
  BY <1>1, <1>2, <1>3

\* A subtable that is added brings its label.
LEMMA AppendedDef ==
    ASSUME NEW a \in LayoutType, NEW b, NEW tbl \in Tables, NEW s \in SubtableType,
           Appended(a, b, tbl, s), NEW t \in Tables, NEW x
    PROVE  Def(b, t, x) <=> Def(a, t, x) \/ (t = tbl /\ x = s.label)
<1>1. CASE t # tbl
  BY <1>1 DEF Appended, Def
<1>2. CASE t = tbl
  <2> DEFINE subs == a[tbl].subtables
  <2>1. subs \in Seq(SubtableType)
    BY DEF LayoutType
  <2>2. b[t].subtables = Append(subs, s)
    BY <1>2 DEF Appended
  <2> HIDE DEF subs
  <2>3. /\ Len(Append(subs, s)) = Len(subs) + 1 /\ Len(subs) \in Nat
        /\ \A k \in 1 .. Len(subs) : Append(subs, s)[k] = subs[k]
        /\ Append(subs, s)[Len(subs) + 1] = s
    BY <2>1, AppendProperties, LenProperties
  <2>4. (\E k \in 1 .. Len(Append(subs, s)) : Append(subs, s)[k].label = x)
        <=> (\E k \in 1 .. Len(subs) : subs[k].label = x) \/ x = s.label
    BY <2>3
  <2> QED
    BY <1>2, <2>2, <2>4 DEF Def, subs
<1> QED
  BY <1>1, <1>2

\* Labels stay distinct if the new subtable is a reference or its label is new.
LEMMA AppendedDistinct ==
    ASSUME NEW a \in LayoutType, NEW b, NEW tbl \in Tables, NEW s \in SubtableType,
           Appended(a, b, tbl, s), Distinct(a),
           IsRefLab(s.label) \/ \A t \in Tables : ~Def(a, t, s.label)
    PROVE  Distinct(b)
<1> SUFFICES ASSUME NEW t \in Tables, NEW u \in Tables,
                    NEW i \in 1 .. Len(b[t].subtables), NEW k \in 1 .. Len(b[u].subtables),
                    b[t].subtables[i].label = b[u].subtables[k].label,
                    ~IsRefLab(b[t].subtables[i].label)
             PROVE  t = u /\ i = k
  BY DEF Distinct
<1> DEFINE Old(v, j) == j \in 1 .. Len(a[v].subtables) /\ b[v].subtables[j] = a[v].subtables[j]
           New(v, j) == v = tbl /\ j = Len(a[tbl].subtables) + 1 /\ b[v].subtables[j] = s
<1>1. ASSUME NEW v \in Tables, NEW j \in 1 .. Len(b[v].subtables) PROVE Old(v, j) \/ New(v, j)
  <2>1. CASE v # tbl
    BY <2>1 DEF Appended
  <2>2. CASE v = tbl
    <3>1. a[tbl].subtables \in Seq(SubtableType) /\ b[v].subtables = Append(a[tbl].subtables, s)
      BY <2>2 DEF LayoutType, Appended
    <3> QED
      BY <2>2, <3>1, AppendShape
  <2> QED
    BY <2>1, <2>2
<1>2. ASSUME NEW v \in Tables, NEW j \in 1 .. Len(b[v].subtables), Old(v, j)
      PROVE  Def(a, v, b[v].subtables[j].label)
  BY <1>2 DEF Def
<1>3. CASE Old(t, i) /\ Old(u, k)
  BY <1>3 DEF Distinct
<1>4. CASE New(t, i) /\ Old(u, k)
  BY <1>2, <1>4
<1>5. CASE Old(t, i) /\ New(u, k)
  BY <1>2, <1>5
<1>6. CASE New(t, i) /\ New(u, k)
  BY <1>6
<1> QED
  BY <1>1, <1>3, <1>4, <1>5, <1>6

\* References stay resolved if the new subtable is a definition or refers to one.
LEMMA AppendedRefs ==
    ASSUME NEW a \in LayoutType, NEW b, NEW tbl \in Tables, NEW s \in SubtableType,
           Appended(a, b, tbl, s), RefsDefined(a),
           IsRefLab(s.label) => Def(a, tbl, BaseLab(s.label))
    PROVE  RefsDefined(b)
<1> SUFFICES ASSUME NEW t \in Tables, NEW i \in 1 .. Len(b[t].subtables),
                    IsRefLab(b[t].subtables[i].label)
             PROVE  Def(b, t, BaseLab(b[t].subtables[i].label))
  BY DEF RefsDefined
<1>1. \/ i \in 1 .. Len(a[t].subtables) /\ b[t].subtables[i] = a[t].subtables[i]
      \/ t = tbl /\ b[t].subtables[i] = s
  <2>1. CASE t # tbl
    BY <2>1 DEF Appended
  <2>2. CASE t = tbl
    <3>1. a[tbl].subtables \in Seq(SubtableType) /\ b[t].subtables = Append(a[tbl].subtables, s)
      BY <2>2 DEF LayoutType, Appended
    <3> QED
      BY <2>2, <3>1, AppendShape
  <2> QED
    BY <2>1, <2>2
<1>2. Def(a, t, BaseLab(b[t].subtables[i].label))
  BY <1>1 DEF RefsDefined
<1> QED
  BY <1>2, AppendedDef

-----------------------------------------------------------------------------
(* Lookups that end *)

\* GSUBLookupEnd and GPOSLookupEnd add the accumulator to the subtables, unless an error
\* was reported: then only a reference is added.
LEMMA LookupEndAppends ==
    ASSUME NEW lay \in LayoutType, NEW tbl \in Tables, NEW err \in BOOLEAN
    PROVE  LET r == LookupEnd(lay, tbl, err)
           IN  IF err /\ ~IsRefLab(lay[tbl].new.label) THEN r = lay
               ELSE Appended(lay, r, tbl, lay[tbl].new)
<1> DEFINE new == lay[tbl].new
           done == [new EXCEPT !.rules = IF tbl = "GSUB" THEN {} ELSE @]
           a == [lay EXCEPT ![tbl].subtables = Append(@, new)]
           b == [lay EXCEPT ![tbl] = [new |-> done, subtables |-> Append(@.subtables, new)]]
<1>1. IF err /\ ~IsRefLab(new.label) THEN LookupEnd(lay, tbl, err) = lay
      ELSE LookupEnd(lay, tbl, err) \in {a, b}
  BY DEF LookupEnd
<1>2. Appended(lay, a, tbl, new)
  BY DEF LayoutType, Appended
<1>3. Appended(lay, b, tbl, new)
  BY DEF LayoutType, Appended
<1> HIDE DEF a, b
<1> QED
  BY <1>1, <1>2, <1>3

\* Ending the open lookup defines its label: whatever could be referred to is defined then.
LEMMA CloseRunRef ==
    ASSUME TypeOK, ~hadError, pc # "register", RefInv, Distinct(layout)
    PROVE  LET lay == CloseRun(prev)
           IN  /\ Distinct(lay) /\ RefsDefined(lay)
               /\ \A tbl \in Tables : \A x : Def(lay, tbl, x) <=> Has(layout, prev, tbl, x)
<1> DEFINE lay == CloseRun(prev)
<1>0. /\ layout \in LayoutType /\ hadError \in BOOLEAN /\ prev \in StateType
      /\ RefsDefined(layout)
  BY DEF TypeOK, LayoutType, RefInv
<1>1. CASE prev.tbl = UNDEF
  <2>1. lay = layout
    BY <1>1 DEF CloseRun
  <2>2. \A tbl \in Tables : \A x : Has(layout, prev, tbl, x) <=> Def(layout, tbl, x)
    BY <1>1 DEF Has, Tables, UNDEF
  <2> QED
    BY <1>0, <2>1, <2>2
<1>2. CASE prev.tbl # UNDEF
  <2> DEFINE new == layout[prev.tbl].new
  <2>1. prev.tbl \in Tables
    BY <1>0, <1>2 DEF StateType
  <2>2. new \in SubtableType
    BY <1>0, <2>1 DEF LayoutType
  <2>3. /\ new.label = prev.label
        /\ ~IsRefLab(prev.label) => \A tbl \in Tables : ~Def(layout, tbl, prev.label)
    BY <1>2 DEF RefInv, OpenLabel
  <2>4. IsRefLab(prev.label) => Def(layout, prev.tbl, BaseLab(prev.label))
    <3>1. Has(layout, prev, prev.tbl, BaseLab(prev.label))
      BY <1>2 DEF RefInv, Carried
    <3>2. IsRefLab(prev.label) => BaseLab(prev.label) # prev.label
      BY <1>0, LabelAssumption DEF IsRefLab, BaseLab, StateType, Label, LAB_UNDEF
    <3> QED
      BY <3>1, <3>2 DEF Has
  <2>5. Appended(layout, lay, prev.tbl, new)
    BY <1>0, <1>2, <2>1, LookupEndAppends DEF CloseRun
  <2> HIDE DEF lay, new
  <2>6. Distinct(lay)
    BY <1>0, <2>1, <2>2, <2>3, <2>5, AppendedDistinct
  <2>7. RefsDefined(lay)
    BY <1>0, <2>1, <2>2, <2>3, <2>4, <2>5, AppendedRefs
  <2>8. \A tbl \in Tables : \A x :
           Def(lay, tbl, x) <=> Def(layout, tbl, x) \/ (tbl = prev.tbl /\ x = prev.label)
    BY <1>0, <2>1, <2>2, <2>3, <2>5, AppendedDef
  <2> QED
    BY <2>6, <2>7, <2>8 DEF Has, lay
<1> QED
  BY <1>1, <1>2

\* What can be referred to is defined, or its definition is open.
LEMMA CarriedGrows ==
    ASSUME NEW a, NEW b, NEW p, NEW q,
           \A tbl \in Tables : \A x : Has(a, p, tbl, x) => Has(b, q, tbl, x)
    PROVE  /\ \A c : Carried(a, p, c) => Carried(b, q, c)
           /\ \A s : SeqCarried(a, p, s) => SeqCarried(b, q, s)
           /\ \A names, open : NamesCarried(a, p, names, open) => NamesCarried(b, q, names, open)
<1>1. \A c : Carried(a, p, c) => Carried(b, q, c)
  BY DEF Carried
<1> QED
  BY <1>1 DEF SeqCarried, NamesCarried

-----------------------------------------------------------------------------
(* The steps *)

\* prepRule: the lookup of the previous rule may end and that of state st may begin.
LEMMA PrepRuleRef ==
    ASSUME TypeOK, RefInv, Distinct(layout), ~hadError, pc # "register", pc' # "register",
           UNCHANGED <<hadError, gFlags, namedLkp, currNamedLkp>>,
           NEW st \in StateType, NEW named, NEW rules,
           st.tbl \in Tables, st.label # LAB_UNDEF, PrepRule(st, named, rules),
           IsRefLab(st.label) => Has(layout, prev, st.tbl, BaseLab(st.label)),
           ~IsRefLab(st.label) /\ StartsRun(st) =>
               \A tbl \in Tables : ~Has(layout, prev, tbl, st.label),
           InBlock' => st.label = currNamedLkp
    PROVE  RefRunInv'
<1>0. /\ layout \in LayoutType /\ hadError \in BOOLEAN /\ prev \in StateType
      /\ DFLTLkps \in Seq(StateType) /\ lookup \in Seq(LookupInfoType) /\ st.tbl # UNDEF
  BY DEF TypeOK, LayoutType, Tables, UNDEF
<1>1. curr' = st /\ prev' = st
  BY DEF PrepRule
<1>2. SameSubs(OpenRun(st), layout') /\ layout'[st.tbl].new.label = OpenRun(st)[st.tbl].new.label
  <2>1. OpenRun(st) \in LayoutType
    BY <1>0, CloseRunType, LookupBeginType DEF OpenRun, StateType
  <2>2. layout' \in {OpenRun(st), RuleAdd(OpenRun(st), st.tbl, ruleCnt + 1, hadError)}
    BY DEF PrepRule
  <2> DEFINE r == RuleAdd(OpenRun(st), st.tbl, ruleCnt + 1, hadError)
  <2>3. \A t \in Tables : r[t].subtables = OpenRun(st)[t].subtables
                          /\ r[t].new.label = OpenRun(st)[t].new.label
    BY <1>0, <2>1, RuleAddShape
  <2> HIDE DEF r
  <2> QED
    BY <2>2, <2>3 DEF SameSubs, r
<1>3. /\ Distinct(layout') /\ RefsDefined(layout')
      /\ layout'[st.tbl].new.label = st.label
      /\ ~IsRefLab(st.label) => \A tbl \in Tables : ~Def(layout', tbl, st.label)
      /\ \A tbl \in Tables : \A x : Has(layout, prev, tbl, x) => Has(layout', st, tbl, x)
  <2>1. CASE StartsRun(st)
    <3> DEFINE lay == CloseRun(prev)
    <3>1. /\ lay \in LayoutType /\ Distinct(lay) /\ RefsDefined(lay)
          /\ \A tbl \in Tables : \A x : Def(lay, tbl, x) <=> Has(layout, prev, tbl, x)
      BY <1>0, CloseRunType, CloseRunRef
    <3>2. OpenRun(st) = LookupBegin(lay, st.tbl, st.script, st.language, st.feature,
                                    st.lkpType, st.lkpFlag, st.label)
      BY <1>0, <2>1 DEF OpenRun
    <3> HIDE DEF lay
    <3>3. SameSubs(lay, OpenRun(st)) /\ OpenRun(st)[st.tbl].new.label = st.label
      BY <3>1, <3>2, LookupBeginShape DEF SameSubs
    <3>4. SameSubs(lay, layout') /\ layout'[st.tbl].new.label = st.label
      BY <1>2, <3>3 DEF SameSubs
    <3>5. /\ Distinct(layout') /\ RefsDefined(layout')
          /\ \A tbl \in Tables : \A x : Def(layout', tbl, x) <=> Has(layout, prev, tbl, x)
      BY <3>1, <3>4, SameSubsKeep
    <3>6. \A tbl \in Tables : \A x : Has(layout, prev, tbl, x) => Has(layout', st, tbl, x)
      BY <3>5 DEF Has
    <3>7. ~IsRefLab(st.label) => \A tbl \in Tables : ~Def(layout', tbl, st.label)
      BY <2>1, <3>5
    <3> QED
      BY <3>4, <3>5, <3>6, <3>7
  <2>2. CASE ~StartsRun(st)
    <3>1. OpenRun(st) = layout /\ prev.tbl = st.tbl /\ prev.label = st.label
      BY <2>2 DEF OpenRun, StartsRun, InRun
    <3>2. /\ Distinct(layout') /\ RefsDefined(layout')
          /\ \A tbl \in Tables : \A x : Def(layout', tbl, x) <=> Def(layout, tbl, x)
      BY <1>2, <3>1, SameSubsKeep DEF RefInv
    <3>3. /\ layout[st.tbl].new.label = st.label
          /\ ~IsRefLab(st.label) => \A tbl \in Tables : ~Def(layout, tbl, st.label)
      BY <1>0, <3>1 DEF RefInv, OpenLabel
    <3>4. \A tbl \in Tables : \A x : Has(layout, prev, tbl, x) => Has(layout', st, tbl, x)
      BY <3>1, <3>2 DEF Has
    <3> QED
      BY <1>2, <3>1, <3>2, <3>3, <3>4
  <2> QED
    BY <2>1, <2>2
<1>4. Carried(layout', st, st)
  <2>1. CASE IsRefLab(st.label)
    BY <1>3, <2>1 DEF Carried
  <2>2. CASE ~IsRefLab(st.label)
    <3>1. BaseLab(st.label) = st.label
      BY <2>2, LabelAssumption DEF IsRefLab, BaseLab, StateType, Label, LAB_UNDEF
    <3> QED
      BY <3>1 DEF Carried, Has
  <2> QED
    BY <2>1, <2>2
<1>5. /\ SeqCarried(layout', st, DFLTLkps) /\ SeqCarried(layout', st, lookup)
      /\ NamesCarried(layout', st, namedLkp, currNamedLkp)
  BY <1>3, CarriedGrows DEF RefInv
<1>6. SeqCarried(layout', st, DFLTLkps')
  <2> DEFINE kept == IF st.feature = prev.feature /\ st.script = prev.script
                     THEN DFLTLkps ELSE <<>>
  <2>1. DFLTLkps' \in {kept, Append(kept, st)}
    BY DEF PrepRule
  <2>2. kept \in Seq(StateType) /\ SeqCarried(layout', st, kept)
    BY <1>0, <1>5 DEF SeqCarried
  <2> HIDE DEF kept
  <2>3. SeqCarried(layout', st, Append(kept, st))
    BY <1>4, <2>2, AppendShape DEF SeqCarried
  <2> QED
    BY <2>1, <2>2, <2>3
<1>7. SeqCarried(layout', st, lookup')
  <2> DEFINE info == [tbl |-> st.tbl, lkpType |-> st.lkpType, lkpFlag |-> st.lkpFlag,
                      label |-> st.label]
  <2>1. lookup' \in {lookup, Append(lookup, info)}
    BY DEF PrepRule
  <2>2. info \in LookupInfoType /\ Carried(layout', st, info)
    BY <1>4 DEF StateType, LookupInfoType, Carried
  <2> HIDE DEF info
  <2>3. SeqCarried(layout', st, Append(lookup, info))
    BY <1>0, <1>5, <2>2, AppendShape DEF SeqCarried
  <2> QED
    BY <1>5, <2>1, <2>3
<1>8. ~EntersLangSysMode'
  BY DEF PrepRule, EntersLangSysMode
<1>9. BlockRun'
  BY <1>1, <1>8 DEF BlockRun
<1>10. OpenLabel'
  BY <1>0, <1>1, <1>3 DEF OpenLabel
<1> QED
  BY <1>1, <1>3, <1>4, <1>5, <1>6, <1>7, <1>9, <1>10 DEF RefRunInv, RefInv

\* A step that opens and ends no lookup keeps the invariant.
LEMMA FrameRef ==
    ASSUME RefRunInv, layout' = layout,
           ~hadError' =>
               /\ ~hadError /\ UNCHANGED <<prev, namedLkp, currNamedLkp>>
               /\ pc' = "register" <=> pc = "register"
               /\ DFLTLkps' \in {DFLTLkps, <<>>} /\ lookup' \in {lookup, <<>>}
               /\ InBlock' => /\ InBlock /\ UNCHANGED <<fFlags, gFlags>>
                              /\ curr'.label = curr.label /\ curr'.script = curr.script
                              /\ curr'.language = curr.language /\ curr'.feature = curr.feature
    PROVE  RefRunInv'
<1>1. Distinct(layout')
  BY DEF RefRunInv
<1> SUFFICES ASSUME ~hadError' PROVE RefInv'
  BY <1>1 DEF RefRunInv
<1>2. RefInv
  BY DEF RefRunInv
<1>3. SeqCarried(layout, prev, DFLTLkps') /\ SeqCarried(layout, prev, lookup')
  BY <1>2 DEF RefInv, SeqCarried
<1>4. OpenLabel'
  BY <1>2 DEF RefInv, OpenLabel
<1>5. BlockRun'
  <2>1. BlockRun
    BY <1>2 DEF RefInv
  <2>2. InBlock' => (EntersLangSysMode' <=> EntersLangSysMode)
    BY DEF EntersLangSysMode
  <2> QED
    BY <2>1, <2>2 DEF BlockRun
<1>6. prev'.tbl # UNDEF => Carried(layout', prev', prev')
  BY <1>2 DEF RefInv
<1>7. NamesCarried(layout', prev', namedLkp', currNamedLkp') /\ RefsDefined(layout')
  BY <1>2 DEF RefInv
<1>8. SeqCarried(layout', prev', DFLTLkps') /\ SeqCarried(layout', prev', lookup')
  BY <1>3
<1> QED
  BY <1>4, <1>5, <1>6, <1>7, <1>8 DEF RefInv

\* The label of a lookup block that begins is in no table, and is not that of the last rule.
LEMMA NewLabelUnused ==
    ASSUME TypeOK, IssuedInv, ~(Len(namedLkp) >= FEAT_NAMED_LKP_END)
    PROVE  /\ curr.label # Len(namedLkp)
           /\ \A tbl \in Tables : ~Def(layout, tbl, Len(namedLkp))
<1>0. /\ namedLkp \in Seq(NamedLkpType) /\ Len(namedLkp) \in Nat
      /\ anonLabelCnt \in FEAT_ANON_LKP_BEG .. FEAT_ANON_LKP_END + 1
  BY DEF TypeOK
<1>1. Len(namedLkp) # LAB_UNDEF /\ BaseLab(Len(namedLkp)) \notin Allocated
  BY <1>0, LabelAssumption DEF Allocated, BaseLab, LAB_UNDEF, FEAT_ANON_LKP_BEG
<1>2. ~In(Allocated, Len(namedLkp))
  BY <1>1 DEF In
<1>3. In(Allocated, curr.label) /\ LayoutIn(Allocated, layout)
  BY DEF IssuedInv, RunIn
<1>4. ASSUME NEW tbl \in Tables, Def(layout, tbl, Len(namedLkp)) PROVE FALSE
  <2>1. PICK k \in 1 .. Len(layout[tbl].subtables) :
           layout[tbl].subtables[k].label = Len(namedLkp)
    BY <1>4 DEF Def
  <2> QED
    BY <1>2, <1>3, <2>1 DEF LayoutIn
<1> QED
  BY <1>2, <1>3, <1>4

\* So the block that begins keeps the invariant.
LEMMA NewRef ==
    ASSUME TypeOK, IssuedInv, NamedInv, RefRunInv,
           NEW n \in Names, NEW isTopLevel \in BOOLEAN,
           ~(Len(namedLkp) >= FEAT_NAMED_LKP_END), ~InBlock, pc = "stmt",
           NewNamedLkp(n, isTopLevel), UNCHANGED <<pc, hadError, prev, layout>>,
           curr'.label = curr.label,
           DFLTLkps' \in {DFLTLkps, <<>>}, lookup' \in {lookup, <<>>}
    PROVE  RefRunInv'
<1> DEFINE new == [name |-> n, isTopLevel |-> isTopLevel, state |-> NoState]
<1>1. namedLkp' = Append(namedLkp, new) /\ currNamedLkp' = Len(namedLkp)
  BY DEF NewNamedLkp
<1>2. namedLkp \in Seq(NamedLkpType) /\ new \in NamedLkpType
  <2>1. LAB_UNDEF \in Label
    BY LabelAssumption DEF Label, LAB_UNDEF
  <2>2. NoState \in StateType
    BY <2>1 DEF NoState, StateType, LkpTypes, UNDEF
  <2> QED
    BY <2>2 DEF TypeOK, NamedLkpType
<1> HIDE DEF new
<1>3. Distinct(layout')
  BY DEF RefRunInv
<1> SUFFICES ASSUME ~hadError PROVE RefInv'
  BY <1>3 DEF RefRunInv
<1>4. RefInv /\ currNamedLkp = LAB_UNDEF
  BY DEF RefRunInv, NamedInv, BlockInv
<1>5. BlockRun'
  <2>1. curr'.label # currNamedLkp' /\ \A tbl \in Tables : ~Def(layout', tbl, currNamedLkp')
    BY <1>1, NewLabelUnused
  <2> QED
    BY <2>1 DEF BlockRun
<1>6. NamesCarried(layout', prev', namedLkp', currNamedLkp')
  <2> SUFFICES ASSUME NEW i \in 1 .. Len(namedLkp'), currNamedLkp' # i - 1
               PROVE  Carried(layout, prev, namedLkp'[i].state)
    BY DEF NamesCarried
  <2>1. i \in 1 .. Len(namedLkp) /\ namedLkp'[i] = namedLkp[i]
    BY <1>1, <1>2, AppendShape
  <2>2. currNamedLkp # i - 1
    BY <1>4, <2>1, NamedNotUndef
  <2> QED
    BY <1>4, <2>1, <2>2 DEF RefInv, NamesCarried
<1>7. SeqCarried(layout', prev', DFLTLkps') /\ SeqCarried(layout', prev', lookup')
  BY <1>4 DEF RefInv, SeqCarried
<1>8. OpenLabel' /\ RefsDefined(layout') /\ (prev'.tbl # UNDEF => Carried(layout', prev', prev'))
  BY <1>4 DEF RefInv, OpenLabel
<1> QED
  BY <1>5, <1>6, <1>7, <1>8 DEF RefInv

\* The state a block leaves behind can be referred to if that of its last rule can.
LEMMA CloseNames ==
    ASSUME TypeOK, NamedInv, ~hadError, InBlock, CloseNamedLkp,
           NEW lay, NEW p, Carried(lay, p, curr), NamesCarried(lay, p, namedLkp, currNamedLkp)
    PROVE  NamesCarried(lay, p, namedLkp', currNamedLkp')
<1> DEFINE m == BaseLab(currNamedLkp) + 1
<1>1. namedLkp \in Seq(NamedLkpType) /\ Len(namedLkp) \in Nat
  BY DEF TypeOK
<1>2. namedLkp # <<>> /\ currNamedLkp = Len(namedLkp) - 1
  BY DEF NamedInv, BlockInv
<1>3. Len(namedLkp) \in 1 .. Len(namedLkp)
  BY <1>1, <1>2
<1>4. m = Len(namedLkp)
  BY <1>1, <1>2, <1>3, NamedNotUndef
<1>5. namedLkp' = [namedLkp EXCEPT ![m].state = curr]
  BY DEF CloseNamedLkp
<1> HIDE DEF m
<1> SUFFICES ASSUME NEW i \in 1 .. Len(namedLkp') PROVE Carried(lay, p, namedLkp'[i].state)
  BY DEF NamesCarried
<1>6. i \in 1 .. Len(namedLkp)
  BY <1>1, <1>5
<1>7. namedLkp[i] \in NamedLkpType
  BY <1>1, <1>6, ElementOfSeq
<1>8. namedLkp'[i] = IF i = m THEN [namedLkp[i] EXCEPT !.state = curr] ELSE namedLkp[i]
  BY <1>1, <1>5, <1>6
<1>9. CASE i = m
  <2>1. namedLkp'[i].state = curr
    BY <1>7, <1>8, <1>9 DEF NamedLkpType
  <2> QED
    BY <2>1
<1>10. CASE i # m
  BY <1>1, <1>2, <1>4, <1>6, <1>8, <1>10 DEF NamesCarried
<1> QED
  BY <1>9, <1>10

\* The other fields that prepRule gives a rule or reference: outside of the first rule of a
\* feature, script and language are the current ones.
LEMMA PreparedFields ==
    ASSUME TypeOK, NEW tbl, NEW typ, NEW flag, NEW named
    PROVE  LET st == Prepared(tbl, typ, flag, named)
           IN  /\ st.tbl = tbl /\ st.lkpType = typ /\ st.feature = curr.feature
               /\ st.lkpFlag = flag
               /\ ~EntersLangSysMode => st.script = curr.script /\ st.language = curr.language
               /\ EntersLangSysMode => <<st.script, st.language>> =
                      <<FirstOf(DOMAIN langSysMap)[1], FirstOf(DOMAIN langSysMap)[2]>>
<1> DEFINE first == FirstOf(DOMAIN langSysMap)
           st == [curr EXCEPT !.tbl = tbl, !.lkpType = typ, !.lkpFlag = flag,
                              !.script = IF EntersLangSysMode THEN first[1] ELSE @,
                              !.language = IF EntersLangSysMode THEN first[2] ELSE @]
           lab == IF named # LAB_UNDEF THEN named
                  ELSE IF NeedsAnonLabel(st, named) THEN anonLabelCnt ELSE prev.label
           done == [st EXCEPT !.label = lab]
<1>1. Prepared(tbl, typ, flag, named) = done
  BY DEF Prepared
<1>2. curr \in StateType
  BY DEF TypeOK
<1>3. /\ st.tbl = tbl /\ st.lkpType = typ /\ st.lkpFlag = flag /\ st.feature = curr.feature
      /\ st.script = IF EntersLangSysMode THEN first[1] ELSE curr.script
      /\ st.language = IF EntersLangSysMode THEN first[2] ELSE curr.language
      /\ DOMAIN st = DOMAIN curr
  BY <1>2 DEF StateType
<1>4. {"script", "language", "feature", "tbl", "lkpType", "lkpFlag"} \subseteq DOMAIN st
  BY <1>2, <1>3 DEF StateType
<1> HIDE DEF st, lab
<1>5. /\ done.tbl = st.tbl /\ done.script = st.script
      /\ done.language = st.language /\ done.feature = st.feature
      /\ done.lkpType = st.lkpType /\ done.lkpFlag = st.lkpFlag
  BY <1>4
<1> HIDE DEF done
<1> QED
  BY <1>1, <1>3, <1>5

\* A rule: it goes on with its lookup, or begins one whose label is new.
LEMMA RuleRef ==
    ASSUME NEW k \in RuleKinds, IInv, IssuedInv, NamedInv, OpenRunInv, RefRunInv, ~hadError,
           RuleStmt(k[1], k[2])
    PROVE  RefRunInv'
<1> DEFINE tbl == k[1]
           typ == k[2]
           st == Prepared(tbl, typ, curr.lkpFlag, currNamedLkp)
<1>0. /\ curr \in StateType /\ prev \in StateType /\ currNamedLkp \in Label
      /\ TypeOK /\ LangSysSeen /\ tbl \in Tables /\ typ \in LkpTypes
      /\ namedLkp \in Seq(NamedLkpType)
      /\ anonLabelCnt \in FEAT_ANON_LKP_BEG .. FEAT_ANON_LKP_END + 1
      /\ OpenInv /\ BlockInv /\ RefInv /\ Distinct(layout)
  BY FeatAssumption DEF IInv, TypeOK, LkpTypes, OpenRunInv, NamedInv, RefRunInv
<1>1. curr.lkpFlag \in Nat /\ tbl # UNDEF
  BY <1>0 DEF StateType, Tables, UNDEF
<1> HIDE DEF tbl, typ
<1>2. /\ st \in StateType /\ st.tbl = tbl
      /\ st.label = IF currNamedLkp # LAB_UNDEF THEN currNamedLkp
                    ELSE IF NeedsAnonLabel(st, currNamedLkp) THEN anonLabelCnt
                    ELSE prev.label
  BY <1>0, <1>1, PreparedType, PreparedLabel
<1>3. /\ st.lkpType = typ /\ st.feature = curr.feature
      /\ ~EntersLangSysMode => st.script = curr.script /\ st.language = curr.language
  BY <1>0, PreparedFields
<1> HIDE DEF st
<1>4. \/ Fatal
      \/ UNCHANGED <<nest, pc, labelVars, scopeVars, globalVars, runVars, hadError>> /\ pc = "stmt"
      \/ /\ PrepRule(st, currNamedLkp, {ruleCnt + 1}) /\ pc = "stmt"
         /\ ~PrepFails(st, currNamedLkp)
         /\ UNCHANGED <<pc, hadError, nest, globalVars, namedLkp, currNamedLkp>>
  BY DEF RuleStmt, tbl, typ, st
<1>5. CASE Fatal
  <2>1. pc # "register"
    BY DEF RuleStmt
  <2> QED
    BY <1>5, <2>1, FrameRef DEF Fatal, InBlock
<1>6. CASE UNCHANGED <<nest, pc, labelVars, scopeVars, globalVars, runVars, hadError>>
  BY <1>6, FrameRef DEF InBlock
<1>7. CASE /\ PrepRule(st, currNamedLkp, {ruleCnt + 1}) /\ pc = "stmt"
           /\ ~PrepFails(st, currNamedLkp)
           /\ UNCHANGED <<pc, hadError, nest, globalVars, namedLkp, currNamedLkp>>
  <2>1. ~NeedsAnonLabel(st, currNamedLkp) => currNamedLkp # LAB_UNDEF \/ InRun(st)
    BY DEF NeedsAnonLabel
  <2>2. InRun(st) => prev.tbl = tbl /\ prev.tbl # UNDEF
    BY <1>1, <1>2 DEF InRun
  <2>3. st.label # LAB_UNDEF
    <3>1. anonLabelCnt # LAB_UNDEF
      BY <1>0, LabelAssumption DEF LAB_UNDEF, FEAT_ANON_LKP_BEG
    <3> QED
      BY <1>0, <1>2, <2>1, <2>2, <3>1 DEF OpenInv
  <2>4. CASE currNamedLkp # LAB_UNDEF
    <3>1. InBlock /\ st.label = currNamedLkp /\ BlockRun
      BY <1>0, <1>2, <2>4 DEF BlockInv, RefInv
    <3>2. IsNamedLab(currNamedLkp) /\ ~IsRefLab(currNamedLkp)
      <4>1. currNamedLkp = Len(namedLkp) - 1 /\ namedLkp # <<>>
        BY <1>0, <3>1 DEF BlockInv
      <4>2. Len(namedLkp) \in 1 .. Len(namedLkp) /\ Len(namedLkp) <= FEAT_NAMED_LKP_END
        BY <1>0, <4>1 DEF NamedInv
      <4> QED
        BY <4>1, <4>2, LabelAssumption DEF IsNamedLab, IsRefLab, BaseLab
    <3>3. CASE curr.label = currNamedLkp
      <4>1. /\ prev.label = st.label /\ ~EntersLangSysMode /\ prev.script = curr.script
            /\ prev.language = curr.language /\ prev.feature = curr.feature
        BY <1>0, <3>1, <3>3 DEF BlockRun, OpenInv
      <4>2. <<st.tbl, st.lkpType, st.lkpFlag>> = <<prev.tbl, prev.lkpType, prev.lkpFlag>>
        BY <1>7, <2>4, <3>1, <3>2, <4>1 DEF PrepFails
      <4>3. ~StartsRun(st)
        BY <1>3, <4>1, <4>2 DEF StartsRun, InRun
      <4> QED
        BY <1>0, <1>2, <1>7, <2>3, <3>1, <3>2, <4>3, PrepRuleRef
    <3>4. CASE curr.label # currNamedLkp
      <4>1. prev.label # st.label /\ \A t \in Tables : ~Def(layout, t, st.label)
        BY <1>0, <3>1, <3>4 DEF BlockRun, OpenInv
      <4>2. \A t \in Tables : ~Has(layout, prev, t, st.label)
        BY <4>1 DEF Has
      <4> QED
        BY <1>0, <1>2, <1>7, <2>3, <3>1, <3>2, <4>2, PrepRuleRef
    <3> QED
      BY <3>3, <3>4
  <2>5. CASE currNamedLkp = LAB_UNDEF
    <3>1. ~InBlock
      <4>1. InBlock => Len(namedLkp) \in 1 .. Len(namedLkp) /\ currNamedLkp = Len(namedLkp) - 1
        BY <1>0 DEF BlockInv
      <4> QED
        BY <1>0, <2>5, <4>1, NamedNotUndef
    <3>2. ~InBlock'
      BY <1>7, <3>1 DEF InBlock
    <3>3. CASE NeedsAnonLabel(st, currNamedLkp)
      <4>0. ~(anonLabelCnt > FEAT_ANON_LKP_END)
        BY <1>7, <3>3 DEF PrepFails
      <4>1. st.label = anonLabelCnt /\ anonLabelCnt <= FEAT_ANON_LKP_END
        BY <1>0, <1>2, <2>5, <3>3, <4>0, LabelAssumption DEF FEAT_ANON_LKP_BEG
      <4>2. BaseLab(anonLabelCnt) = anonLabelCnt /\ ~IsRefLab(anonLabelCnt)
            /\ anonLabelCnt # LAB_UNDEF
        BY <1>0, <4>1, LabelAssumption DEF BaseLab, IsRefLab, FEAT_ANON_LKP_BEG, LAB_UNDEF
      <4>3. anonLabelCnt \notin Allocated
        BY <1>0, <4>1, <4>2, LabelAssumption DEF Allocated, FEAT_ANON_LKP_BEG, TypeOK, NamedInv
      <4>4. ~In(Allocated, st.label)
        BY <4>1, <4>2, <4>3 DEF In
      <4>5. In(Allocated, prev.label) /\ LayoutIn(Allocated, layout)
        BY DEF IssuedInv, RunIn
      <4>6. \A t \in Tables : ~Has(layout, prev, t, st.label)
        BY <4>4, <4>5 DEF Has, Def, LayoutIn
      <4> QED
        BY <1>0, <1>2, <1>7, <2>3, <3>2, <4>1, <4>2, <4>6, PrepRuleRef
    <3>4. CASE ~NeedsAnonLabel(st, currNamedLkp)
      <4>1. InRun(st) /\ st.label = prev.label /\ prev.tbl = st.tbl /\ prev.tbl # UNDEF
        BY <1>2, <2>1, <2>2, <2>5, <3>4
      <4>2. ~StartsRun(st)
        BY <4>1 DEF StartsRun
      <4>3. Has(layout, prev, st.tbl, BaseLab(st.label))
        BY <1>0, <4>1 DEF RefInv, Carried
      <4> QED
        BY <1>0, <1>2, <1>7, <2>3, <3>2, <4>2, <4>3, PrepRuleRef
    <3> QED
      BY <3>3, <3>4
  <2> QED
    BY <2>4, <2>5
<1> QED
  BY <1>4, <1>5, <1>6, <1>7

\* A reference to what can be referred to.
LEMMA CallLkpRef ==
    ASSUME IInv, NamedInv, RefRunInv, ~hadError, NEW st \in StateType, CallLkp(st),
           pc # "register", nest = "feature",
           In(Allocated, st.label), st.label # LAB_UNDEF, Carried(layout, prev, st)
    PROVE  RefRunInv'
<1> DEFINE ref == Reference(st)
           named == RefLab(st.label)
<1>0. /\ TypeOK /\ LangSysSeen /\ st.label \in Label /\ RefInv /\ Distinct(layout)
      /\ currNamedLkp = LAB_UNDEF
  BY DEF IInv, StateType, RefRunInv, NamedInv, BlockInv, InBlock
<1>1. /\ named # LAB_UNDEF /\ IsRefLab(named) /\ named \in Label
      /\ BaseLab(named) = BaseLab(st.label)
  <2>1. named # LAB_UNDEF /\ IsRefLab(named) /\ named \in Label
    BY <1>0, RefIsRef, RefLabProperties
  <2>2. BaseLab(named) = BaseLab(st.label)
    BY <1>0, LabelAssumption DEF RefLab, BaseLab, Label, LAB_UNDEF
  <2> QED
    BY <2>1, <2>2
<1>2. ref.label = named /\ ref.tbl = st.tbl
  BY <1>0, <1>1, PreparedLabel DEF Reference
<1>3. PrepRule(ref, named, {}) /\ UNCHANGED <<pc, nest, hadError, gFlags, namedLkp, currNamedLkp>>
  BY <1>0 DEF CallLkp
<1>4. ~InBlock'
  BY <1>3 DEF InBlock
<1>5. ref \in StateType
  BY <1>0, <1>1, PreparedType DEF Reference, StateType
<1>6. ref.tbl \in Tables /\ Has(layout, prev, ref.tbl, BaseLab(ref.label))
  BY <1>1, <1>2 DEF Carried
<1> HIDE DEF ref, named
<1> QED
  BY <1>0, <1>1, <1>2, <1>3, <1>4, <1>5, <1>6, PrepRuleRef

\* includeDFLT and lookup statements refer to such states.
LEMMA ReferenceRef ==
    ASSUME IInv, IssuedInv, NamedInv, OpenRunInv, RefRunInv, ~hadError,
           IncludeNext \/ \E n \in Names : UseLookup(n)
    PROVE  RefRunInv'
<1>0. /\ DFLTLkps \in Seq(StateType) /\ namedLkp \in Seq(NamedLkpType)
      /\ iter \in Nat /\ iterEnd \in Nat
      /\ SeqIn(Allocated, DFLTLkps) /\ NamesIn(Allocated, namedLkp) /\ TypeOK
      /\ OpenInv /\ BlockInv /\ RefInv
  BY DEF IInv, TypeOK, IssuedInv, RunIn, OpenRunInv, NamedInv, RefRunInv
<1>1. ASSUME Fatal, pc # "register" PROVE RefRunInv'
  BY <1>1, FrameRef DEF Fatal, InBlock
<1>2. CASE IncludeNext
  <2> DEFINE st == DFLTLkps[iter + 1]
  <2>1. iter + 1 \in 1 .. Len(DFLTLkps) /\ pc = "include"
    BY <1>0, <1>2 DEF IncludeNext, IInv, IncludePosition
  <2>2. st \in StateType /\ In(Allocated, st.label) /\ Carried(layout, prev, st)
    BY <1>0, <2>1, ElementOfSeq DEF SeqIn, RefInv, SeqCarried
  <2>3. st.label # LAB_UNDEF /\ nest = "feature"
    BY <1>0, <2>1 DEF OpenInv, Real, BlockInv
  <2>4. CallLkp(st) \/ Fatal
    BY <1>2 DEF IncludeNext
  <2> HIDE DEF st
  <2> QED
    BY <1>1, <2>1, <2>2, <2>3, <2>4, CallLkpRef
<1>3. ASSUME NEW n \in Names, UseLookup(n) PROVE RefRunInv'
  <2> DEFINE i == CHOOSE i \in 1 .. Len(namedLkp) : namedLkp[i].name = n
             st == namedLkp[i].state
  <2>1. pc = "stmt" /\ nest = "feature"
    BY <1>3 DEF UseLookup, Ready
  <2>2. \/ NameTaken(n) /\ CallLkp(st)
        \/ Fatal
        \/ hadError' = TRUE /\ layout' = layout
    BY <1>3 DEF UseLookup
  <2>3. ASSUME NameTaken(n)
        PROVE  /\ st \in StateType /\ In(Allocated, st.label) /\ st.label # LAB_UNDEF
               /\ Carried(layout, prev, st)
    <3>1. i \in 1 .. Len(namedLkp)
      BY <2>3 DEF NameTaken
    <3> HIDE DEF i
    <3>2. namedLkp[i] \in NamedLkpType /\ i - 1 # LAB_UNDEF
      BY <1>0, <3>1, ElementOfSeq, NamedNotUndef
    <3>3. NamesRight /\ currNamedLkp = LAB_UNDEF
      BY <1>0, <2>1 DEF BlockInv, InBlock
    <3>4. st.label = i - 1 /\ Carried(layout, prev, st)
      BY <1>0, <3>1, <3>2, <3>3 DEF NamesRight, RefInv, NamesCarried
    <3> QED
      BY <1>0, <3>1, <3>2, <3>4 DEF NamedLkpType, NamesIn
  <2> HIDE DEF st
  <2>4. CASE hadError' = TRUE /\ layout' = layout
    BY <2>4, FrameRef
  <2> QED
    BY <1>1, <2>1, <2>2, <2>3, <2>4, CallLkpRef
<1> QED
  BY <1>2, <1>3

\* A lookup block that begins.
LEMMA StartRef ==
    ASSUME NEW n \in Names, IInv, IssuedInv, NamedInv, RefRunInv,
           StartStandAlone(n) \/ StartLookup(n)
    PROVE  RefRunInv'
<1>0. TypeOK /\ curr \in StateType
  BY DEF IInv, TypeOK
<1>1. CASE StartStandAlone(n)
  <2>1. CASE Fatal
    BY <1>1, <2>1, FrameRef DEF StartStandAlone, Ready, Fatal, InBlock
  <2>2. CASE ~Fatal
    <3>1. /\ ~(Len(namedLkp) >= FEAT_NAMED_LKP_END)
          /\ EnterFeature(STAND_ALONE) /\ NewNamedLkp(n, TRUE)
          /\ curr' = [curr EXCEPT !.feature = STAND_ALONE, !.script = STAND_ALONE,
                                  !.language = "dflt", !.lkpFlag = 0]
          /\ pc = "stmt" /\ nest = "file" /\ UNCHANGED <<pc, hadError, prev, layout>>
      BY <1>1, <2>2 DEF StartStandAlone, Ready
    <3>2. curr'.label = curr.label
      BY <1>0, <3>1 DEF StateType
    <3> QED
      BY <1>0, <3>1, <3>2, NewRef DEF EnterFeature, InBlock
  <2> QED
    BY <2>1, <2>2
<1>2. CASE StartLookup(n)
  <2>1. /\ pc = "stmt" /\ nest = "feature" /\ UNCHANGED runVars
        /\ \/ hadError' = TRUE
           \/ pc' = "fatal" /\ UNCHANGED <<hadError, nest, labelVars>>
           \/ /\ ~(Len(namedLkp) >= FEAT_NAMED_LKP_END)
              /\ NewNamedLkp(n, FALSE) /\ UNCHANGED <<pc, hadError>>
    BY <1>2 DEF StartLookup, Ready
  <2>2. CASE hadError' = TRUE
    BY <2>1, <2>2, FrameRef
  <2>3. CASE pc' = "fatal" /\ UNCHANGED <<hadError, nest, labelVars>>
    BY <2>1, <2>3, FrameRef DEF InBlock
  <2>4. CASE ~(Len(namedLkp) >= FEAT_NAMED_LKP_END) /\ NewNamedLkp(n, FALSE)
             /\ UNCHANGED <<pc, hadError>>
    BY <1>0, <2>1, <2>4, NewRef DEF InBlock
  <2> QED
    BY <2>1, <2>2, <2>3, <2>4
<1> QED
  BY <1>1, <1>2

\* Blocks end their lookup, and registration refers to the lookups collected.
LEMMA EndRef ==
    ASSUME "emptyBlock" \notin Forms, "emptyFeature" \notin Forms,
           IInv, IssuedInv, NamedInv, OpenRunInv, RefRunInv, ~hadError,
           EndLookup \/ EndFeature \/ RegisterLookup \/ RegisterNextLangSys \/ RegisterDone
    PROVE  RefRunInv'
<1>0. /\ TypeOK /\ curr \in StateType /\ prev \in StateType /\ namedLkp \in Seq(NamedLkpType)
      /\ layout \in LayoutType /\ hadError \in BOOLEAN
      /\ SeqIn(Allocated, lookup)
      /\ lookup \in Seq(LookupInfoType) /\ regPos \in Nat \ {0}
      /\ OpenInv /\ BlockInv /\ RefInv /\ Distinct(layout)
  BY DEF IInv, TypeOK, LayoutType, IssuedInv, RunIn, OpenRunInv, NamedInv, RefRunInv
<1>1. ASSUME BeginRegister, pc = "stmt", prev.tbl # UNDEF, InBlock => curr.label = currNamedLkp
      PROVE  RefRunInv'
  <2>1. /\ layout' = CloseRun(curr) /\ pc' = "register"
        /\ UNCHANGED <<nest, hadError, labelVars, curr, prev, DFLTLkps, lookup, fFlags, gFlags>>
    BY <1>1 DEF BeginRegister
  <2>2. curr.tbl = prev.tbl
    BY <1>0, <1>1 DEF OpenInv
  <2>3. layout' = CloseRun(prev)
    BY <2>1, <2>2 DEF CloseRun
  <2>4. /\ Distinct(layout') /\ RefsDefined(layout')
        /\ \A tbl \in Tables : \A x : Def(layout', tbl, x) <=> Has(layout, prev, tbl, x)
    BY <1>0, <1>1, <2>3, CloseRunRef
  <2>5. \A tbl \in Tables : \A x : Has(layout, prev, tbl, x) => Has(layout', prev, tbl, x)
    BY <2>4 DEF Has
  <2>6. /\ Carried(layout', prev, prev)
        /\ SeqCarried(layout', prev, DFLTLkps) /\ SeqCarried(layout', prev, lookup)
        /\ NamesCarried(layout', prev, namedLkp, currNamedLkp)
    BY <1>0, <1>1, <2>5, CarriedGrows DEF RefInv
  <2>7. OpenLabel'
    <3>1. prev.tbl \in Tables
      BY <1>0, <1>1 DEF StateType
    <3> QED
      BY <2>1, <2>4, <3>1 DEF OpenLabel, Has
  <2>8. BlockRun'
    BY <1>0, <1>1, <2>1 DEF RefInv, BlockRun, InBlock, EntersLangSysMode
  <2> QED
    BY <2>1, <2>4, <2>6, <2>7, <2>8 DEF RefRunInv, RefInv
<1>2. CASE EndLookup
  <2>1. pc = "stmt" /\ InBlock /\ MayEnd
    BY <1>2 DEF EndLookup
  <2>2. /\ namedLkp # <<>> /\ currNamedLkp = Len(namedLkp) - 1 /\ curr.feature \notin Restricted
    BY <1>0, <2>1 DEF BlockInv
  <2>3. Len(namedLkp) \in 1 .. Len(namedLkp)
    BY <1>0, <2>2
  <2>4. currNamedLkp # LAB_UNDEF
    BY <1>0, <2>2, <2>3, NamedNotUndef
  <2>5. curr.label = currNamedLkp
    BY <2>1, <2>2, <2>4 DEF MayEnd, BlockHasRule
  <2>6. prev.tbl # UNDEF /\ curr.tbl = prev.tbl /\ curr.label = prev.label
    BY <1>0, <2>1, <2>5 DEF OpenInv
  <2>7. CASE BeginRegister
    BY <1>1, <2>1, <2>5, <2>6, <2>7
  <2>8. CASE Fatal
    BY <2>1, <2>8, FrameRef DEF Fatal, InBlock
  <2>9. CASE /\ CloseNamedLkp /\ nest' = "feature"
             /\ UNCHANGED <<pc, hadError, stmts, ruleCnt, loopVars, globalVars, scopeVars, runVars>>
    <3>1. Carried(layout, prev, curr)
      BY <1>0, <2>6 DEF RefInv, Carried
    <3>2. NamesCarried(layout', prev', namedLkp', currNamedLkp')
      BY <1>0, <2>1, <2>9, <3>1, CloseNames DEF RefInv
    <3>3. ~InBlock'
      BY <2>9 DEF InBlock
    <3>4. OpenLabel' /\ BlockRun' /\ RefsDefined(layout') /\ Distinct(layout')
      BY <1>0, <2>9, <3>3 DEF RefInv, OpenLabel, BlockRun
    <3>5. /\ prev'.tbl # UNDEF => Carried(layout', prev', prev')
          /\ SeqCarried(layout', prev', DFLTLkps') /\ SeqCarried(layout', prev', lookup')
      BY <1>0, <2>9 DEF RefInv
    <3> QED
      BY <3>2, <3>4, <3>5 DEF RefRunInv, RefInv
  <2> QED
    BY <1>2, <2>2, <2>7, <2>8, <2>9 DEF EndLookup
<1>3. CASE EndFeature
  <2>1. pc = "stmt" /\ nest = "feature" /\ MayEnd
    BY <1>3 DEF EndFeature
  <2>2. CASE curr.feature = "aalt"
    BY <1>3, <2>1, <2>2, FrameRef DEF EndFeature, InBlock
  <2>3. CASE curr.feature # "aalt"
    <3>1. prev.tbl # UNDEF /\ ~InBlock
      BY <2>1, <2>3 DEF MayEnd, BlockHasRule, InBlock
    <3> QED
      BY <1>1, <1>3, <2>1, <2>3, <3>1 DEF EndFeature
  <2> QED
    BY <2>2, <2>3
<1>4. CASE RegisterLookup
  <2> DEFINE ls == FirstOf(regTodo)
             lkp == lookup[regPos]
             tbl == RegTable(lkp)
             begun == LookupBegin(layout, tbl, ls[1], ls[2], curr.feature,
                                  lkp.lkpType, lkp.lkpFlag, RefLab(lkp.label))
  <2>1. regPos \in 1 .. Len(lookup)
    BY <1>0, <1>4 DEF RegisterLookup
  <2>2. /\ lkp \in LookupInfoType /\ In(Allocated, lkp.label) /\ Carried(layout, prev, lkp)
        /\ lkp.label # LAB_UNDEF
    BY <1>0, <2>1, ElementOfSeq DEF SeqIn, RefInv, SeqCarried, OpenInv, Real
  <2>3. tbl = lkp.tbl /\ tbl \in Tables
    BY <2>2 DEF RegTable, Tables, Carried
  <2>4. /\ layout' = LookupEnd(begun, tbl, hadError) /\ pc = "register"
        /\ UNCHANGED <<pc, nest, hadError, scopeVars, gFlags, labelVars, curr, prev, DFLTLkps, lookup>>
    BY <1>4 DEF RegisterLookup
  <2>5. ls[1] \in Scripts /\ ls[2] \in Langs
    <3>1. regTodo \subseteq LangSys /\ regTodo # {}
      BY <1>4 DEF RegisterLookup, IInv, TypeOK
    <3>2. FirstOf(regTodo) \in Scripts \X Langs
      BY <3>1, FirstOfMember DEF LangSys
    <3> QED
      BY <3>2
  <2>6. /\ RefLab(lkp.label) \in Label /\ lkp.lkpType \in LkpTypes /\ lkp.lkpFlag \in Nat
        /\ IsRefLab(RefLab(lkp.label)) /\ BaseLab(RefLab(lkp.label)) = BaseLab(lkp.label)
    <3>1. lkp.label \in Label
      BY <2>2 DEF LookupInfoType
    <3>2. BaseLab(RefLab(lkp.label)) = BaseLab(lkp.label)
      BY <2>2, <3>1, LabelAssumption DEF RefLab, BaseLab, Label, LAB_UNDEF
    <3>3. RefLab(lkp.label) \in Label /\ IsRefLab(RefLab(lkp.label))
      BY <1>0, <2>2, <3>1, RefLabProperties, RefIsRef
    <3> QED
      BY <2>2, <3>2, <3>3 DEF LookupInfoType
  <2>7. curr.feature \in Features \cup {UNDEF, STAND_ALONE}
    BY <1>0 DEF StateType
  <2>8. Has(layout, prev, tbl, BaseLab(lkp.label))
    BY <2>2, <2>3 DEF Carried
  <2>9. Def(layout, tbl, BaseLab(lkp.label))
    <3>1. prev.tbl = tbl => Def(layout, tbl, prev.label)
      BY <1>0, <2>3, <2>4 DEF RefInv, OpenLabel, Tables, UNDEF
    <3> QED
      BY <2>8, <3>1 DEF Has
  <2> HIDE DEF ls, lkp, tbl
  <2>10. begun \in LayoutType /\ SameSubs(layout, begun) /\ begun[tbl].new.label = RefLab(lkp.label)
    <3>1. begun \in LayoutType
      BY <1>0, <2>3, <2>5, <2>6, <2>7, LookupBeginType
    <3>2. begun[tbl].new.label = RefLab(lkp.label) /\ SameSubs(layout, begun)
      BY <1>0, <2>3, LookupBeginShape DEF SameSubs
    <3> QED
      BY <3>1, <3>2
  <2> HIDE DEF begun
  <2> DEFINE new == begun[tbl].new
  <2>11. Appended(begun, layout', tbl, new) /\ new \in SubtableType
    BY <1>0, <2>3, <2>4, <2>10, LookupEndAppends DEF LayoutType
  <2>12. /\ Distinct(begun) /\ RefsDefined(begun)
         /\ \A t \in Tables : \A x : Def(begun, t, x) <=> Def(layout, t, x)
    BY <1>0, <2>10, SameSubsKeep DEF RefInv
  <2>13. /\ IsRefLab(new.label) /\ Def(begun, tbl, BaseLab(new.label))
    BY <2>3, <2>6, <2>9, <2>10, <2>12
  <2> HIDE DEF new
  <2>14. Distinct(layout') /\ RefsDefined(layout')
    BY <2>3, <2>10, <2>11, <2>12, <2>13, AppendedDistinct, AppendedRefs
  <2>15. \A t \in Tables : \A x : Def(layout, t, x) => Def(layout', t, x)
    BY <2>3, <2>10, <2>11, <2>12, AppendedDef
  <2>16. \A t \in Tables : \A x : Has(layout, prev, t, x) => Has(layout', prev, t, x)
    BY <2>15 DEF Has
  <2>17. /\ prev.tbl # UNDEF => Carried(layout', prev, prev)
         /\ SeqCarried(layout', prev, DFLTLkps) /\ SeqCarried(layout', prev, lookup)
         /\ NamesCarried(layout', prev, namedLkp, currNamedLkp)
    BY <1>0, <2>16, CarriedGrows DEF RefInv
  <2>18. OpenLabel'
    <3>1. prev.tbl # UNDEF => prev.tbl \in Tables
      BY <1>0 DEF StateType
    <3> QED
      BY <1>0, <2>4, <2>15, <3>1 DEF RefInv, OpenLabel
  <2>19. BlockRun'
    <3>1. InBlock => curr.label = currNamedLkp
      BY <1>0, <2>4 DEF BlockInv
    <3> QED
      BY <1>0, <2>4, <3>1 DEF RefInv, BlockRun, InBlock, EntersLangSysMode
  <2> QED
    BY <2>4, <2>14, <2>17, <2>18, <2>19 DEF RefRunInv, RefInv
<1>5. CASE RegisterNextLangSys
  BY <1>5, FrameRef DEF RegisterNextLangSys, InBlock
<1>6. CASE RegisterDone
  <2>1. prev'.label = prev.label /\ prev'.tbl = UNDEF
    BY <1>0, <1>6 DEF RegisterDone, Closed, StateType
  <2>2. /\ pc = "register" /\ nest' = "file" /\ ~InBlock'
        /\ UNCHANGED <<hadError, curr, DFLTLkps, lookup, layout>>
    BY <1>6 DEF RegisterDone, InBlock
  <2>3. \A t \in Tables : \A x : Has(layout, prev, t, x) => Has(layout', prev', t, x)
    BY <1>0, <2>2 DEF Has, RefInv, OpenLabel, Tables, UNDEF
  <2>4. SeqCarried(layout', prev', DFLTLkps) /\ SeqCarried(layout', prev', lookup)
    BY <1>0, <2>3, CarriedGrows DEF RefInv
  <2>5. NamesCarried(layout', prev', namedLkp', currNamedLkp')
    <3>1. NamesCarried(layout', prev', namedLkp, currNamedLkp)
      BY <1>0, <2>3, CarriedGrows DEF RefInv
    <3>2. CASE nest = "alone"
      <4>1. CloseNamedLkp /\ InBlock
        BY <1>6, <3>2 DEF RegisterDone, InBlock
      <4>2. prev.tbl # UNDEF /\ curr.tbl = prev.tbl /\ curr.label = prev.label
        BY <1>0, <2>2, <4>1 DEF BlockInv, OpenInv
      <4>3. Carried(layout', prev', curr)
        BY <1>0, <2>3, <4>2 DEF RefInv, Carried
      <4> QED
        BY <1>0, <3>1, <4>1, <4>3, CloseNames
    <3>3. CASE nest # "alone"
      BY <1>6, <3>1, <3>3 DEF RegisterDone
    <3> QED
      BY <3>2, <3>3
  <2>6. OpenLabel' /\ BlockRun' /\ RefsDefined(layout') /\ Distinct(layout')
    BY <1>0, <2>1, <2>2 DEF OpenLabel, BlockRun, RefInv
  <2> QED
    BY <2>1, <2>2, <2>4, <2>5, <2>6 DEF RefRunInv, RefInv
<1> QED
  BY <1>2, <1>3, <1>4, <1>5, <1>6

\* Once an error was reported, only references are added to the tables.
LEMMA ErrorRef ==
    ASSUME IInv, hadError, Distinct(layout), [Next]_vars
    PROVE  Distinct(layout')
<1>0. /\ TypeOK /\ layout \in LayoutType /\ prev \in StateType /\ curr \in StateType
      /\ hadError \in BOOLEAN /\ LangSysSeen
  BY DEF IInv, TypeOK, LayoutType
<1>1. ASSUME NEW lay \in LayoutType, Distinct(lay), NEW tbl \in Tables
      PROVE  Distinct(LookupEnd(lay, tbl, hadError))
  <2> DEFINE new == lay[tbl].new
             r == LookupEnd(lay, tbl, hadError)
  <2>1. IF ~IsRefLab(new.label) THEN r = lay ELSE Appended(lay, r, tbl, new)
    BY <1>1, LookupEndAppends
  <2>2. new \in SubtableType
    BY <1>1 DEF LayoutType
  <2> HIDE DEF new, r
  <2>3. Distinct(r)
    BY <1>1, <2>1, <2>2, AppendedDistinct
  <2> QED
    BY <2>3 DEF r
<1>2. ASSUME NEW st \in StateType PROVE Distinct(CloseRun(st)) /\ CloseRun(st) \in LayoutType
  <2>1. CloseRun(st) \in LayoutType
    BY <1>0, CloseRunType
  <2>2. CASE st.tbl = UNDEF
    BY <2>1, <2>2 DEF CloseRun
  <2>3. CASE st.tbl # UNDEF
    <3>1. st.tbl \in Tables
      BY <2>3 DEF StateType
    <3> QED
      BY <1>0, <1>1, <2>1, <2>3, <3>1 DEF CloseRun
  <2> QED
    BY <2>2, <2>3
<1>3. ASSUME NEW st \in StateType, NEW named, NEW rules, PrepRule(st, named, rules),
             rules # {} => st.tbl \in Tables
      PROVE  Distinct(layout')
  <2> DEFINE r == OpenRun(st)
  <2>1. Distinct(r)
    <3>1. CASE StartsRun(st) /\ st.tbl # UNDEF
      <4> DEFINE lay == CloseRun(prev)
                 b == LookupBegin(lay, st.tbl, st.script, st.language, st.feature,
                                  st.lkpType, st.lkpFlag, st.label)
      <4>1. r = b /\ st.tbl \in Tables /\ lay \in LayoutType /\ Distinct(lay)
        BY <1>0, <1>2, <3>1 DEF OpenRun, StateType
      <4> HIDE DEF lay
      <4>2. SameSubs(lay, b)
        BY <4>1, LookupBeginShape DEF SameSubs
      <4> HIDE DEF r, b
      <4> QED
        BY <4>1, <4>2, SameSubsKeep
    <3>2. CASE ~StartsRun(st) \/ st.tbl = UNDEF
      BY <1>0, <1>2, <3>2 DEF OpenRun
    <3> QED
      BY <3>1, <3>2
  <2>2. layout' \in {r, RuleAdd(r, st.tbl, ruleCnt + 1, hadError)}
    BY <1>3 DEF PrepRule
  <2>3. RuleAdd(r, st.tbl, ruleCnt + 1, hadError) = r
    BY <1>0 DEF RuleAdd
  <2> HIDE DEF r
  <2> QED
    BY <2>1, <2>2, <2>3
<1>4. CASE layout' = layout
  BY <1>4
<1>5. ASSUME NEW st \in StateType, CallLkp(st) PROVE Distinct(layout')
  <2>1. RefLab(st.label) \in Label /\ st.tbl \in Tables \cup {UNDEF} /\ st.lkpType \in LkpTypes
        /\ st.lkpFlag \in Nat
    BY RefLabProperties DEF StateType
  <2>2. Reference(st) \in StateType
    BY <1>0, <2>1, PreparedType DEF Reference
  <2> QED
    BY <1>3, <1>5, <2>2 DEF CallLkp
<1>6. ASSUME NEW k \in RuleKinds, RuleStmt(k[1], k[2]) PROVE Distinct(layout')
  <2> DEFINE st == Prepared(k[1], k[2], curr.lkpFlag, currNamedLkp)
  <2>0. k[1] \in Tables /\ k[2] \in LkpTypes
    BY FeatAssumption DEF LkpTypes
  <2>1. /\ k[1] \in Tables /\ k[2] \in LkpTypes /\ curr.lkpFlag \in Nat /\ currNamedLkp \in Label
    BY <1>0, <2>0 DEF TypeOK, StateType
  <2>2. st \in StateType /\ st.tbl = k[1]
    BY <1>0, <2>1, PreparedType, PreparedLabel
  <2>3. layout' = layout \/ PrepRule(st, currNamedLkp, {ruleCnt + 1})
    BY <1>6 DEF RuleStmt, Fatal
  <2> HIDE DEF st
  <2> QED
    BY <1>3, <1>4, <2>1, <2>2, <2>3
<1>7. CASE IncludeNext
  <2>1. iter + 1 \in 1 .. Len(DFLTLkps) /\ DFLTLkps \in Seq(StateType)
    BY <1>0, <1>7 DEF IncludeNext, IInv, IncludePosition, TypeOK
  <2>2. DFLTLkps[iter + 1] \in StateType
    BY <2>1, ElementOfSeq
  <2>3. layout' = layout \/ CallLkp(DFLTLkps[iter + 1])
    BY <1>7 DEF IncludeNext, Fatal
  <2> QED
    BY <1>4, <1>5, <2>2, <2>3
<1>8. ASSUME NEW n \in Names, UseLookup(n) PROVE Distinct(layout')
  <2> DEFINE i == CHOOSE i \in 1 .. Len(namedLkp) : namedLkp[i].name = n
             st == namedLkp[i].state
  <2>1. (NameTaken(n) /\ CallLkp(st)) \/ Fatal \/ layout' = layout
    BY <1>8 DEF UseLookup
  <2>2. Fatal => layout' = layout
    BY DEF Fatal
  <2>3. NameTaken(n) => st \in StateType
    <3>1. NameTaken(n) => i \in 1 .. Len(namedLkp)
      BY DEF NameTaken
    <3> HIDE DEF i
    <3>2. namedLkp \in Seq(NamedLkpType)
      BY <1>0 DEF TypeOK
    <3>3. NameTaken(n) => namedLkp[i] \in NamedLkpType
      BY <3>1, <3>2, ElementOfSeq
    <3> QED
      BY <3>3 DEF NamedLkpType
  <2> HIDE DEF i, st
  <2> QED
    BY <1>4, <1>5, <2>1, <2>2, <2>3
<1>9. CASE EndLookup \/ EndFeature
  <2>1. layout' = layout \/ layout' = CloseRun(curr)
    BY <1>9 DEF EndLookup, EndFeature, BeginRegister, Fatal
  <2> QED
    BY <1>0, <1>2, <1>4, <2>1
<1>10. CASE RegisterLookup
  <2> DEFINE ls == FirstOf(regTodo)
             lkp == lookup[regPos]
             tbl == RegTable(lkp)
             begun == LookupBegin(layout, tbl, ls[1], ls[2], curr.feature,
                                  lkp.lkpType, lkp.lkpFlag, RefLab(lkp.label))
  <2>1. tbl \in Tables /\ layout' = LookupEnd(begun, tbl, hadError)
    BY <1>10 DEF RegisterLookup, RegTable, Tables
  <2>2. ls[1] \in Scripts /\ ls[2] \in Langs
    <3>1. regTodo \subseteq LangSys /\ regTodo # {}
      BY <1>10 DEF RegisterLookup, IInv, TypeOK
    <3>2. FirstOf(regTodo) \in Scripts \X Langs
      BY <3>1, FirstOfMember DEF LangSys
    <3> QED
      BY <3>2
  <2>3. lkp \in LookupInfoType
    <3>1. regPos \in 1 .. Len(lookup) /\ lookup \in Seq(LookupInfoType)
      BY <1>0, <1>10 DEF RegisterLookup, TypeOK
    <3> QED
      BY <3>1, ElementOfSeq
  <2>4. /\ RefLab(lkp.label) \in Label /\ lkp.lkpType \in LkpTypes /\ lkp.lkpFlag \in Nat
        /\ curr.feature \in Features \cup {UNDEF, STAND_ALONE}
    BY <1>0, <2>3, RefLabProperties DEF LookupInfoType, StateType
  <2> HIDE DEF ls, lkp, tbl
  <2>5. begun \in LayoutType
    BY <1>0, <2>1, <2>2, <2>4, LookupBeginType
  <2>6. SameSubs(layout, begun)
    BY <1>0, <2>1, LookupBeginShape DEF SameSubs
  <2> HIDE DEF begun
  <2> QED
    BY <1>1, <2>1, <2>5, <2>6, SameSubsKeep
<1>11. CASE \/ UNCHANGED vars \/ IncludeInvalidated \/ IncludeDone \/ EndOfFile \/ Finished
            \/ RegisterNextLangSys \/ RegisterDone
            \/ \E s \in Scripts, l \in Langs : LangSystem(s, l)
            \/ \E f \in Features : StartFeature(f)
            \/ \E s \in Scripts : ScriptStmt(s)
            \/ \E l \in Langs, incl \in BOOLEAN : LanguageStmt(l, incl)
            \/ \E v \in Flags : LookupFlagStmt(v)
            \/ \E n \in Names : StartStandAlone(n) \/ StartLookup(n)
  <2>1. layout' = layout
    BY <1>11 DEF vars, IncludeInvalidated, IncludeDone, EndOfFile, Finished, Fatal,
                 RegisterNextLangSys, RegisterDone, LangSystem, StartFeature, ScriptStmt,
                 LanguageStmt, LookupFlagStmt, StartStandAlone, StartLookup
  <2> QED
    BY <1>4, <2>1
<1> QED
  BY <1>6, <1>7, <1>8, <1>9, <1>10, <1>11 DEF Next

\* Every step keeps the invariant, in files whose blocks and features have rules and whose
\* lookup blocks leave script and language alone.
LEMMA NextRef ==
    ASSUME "blockLang" \notin Forms, "emptyBlock" \notin Forms, "emptyFeature" \notin Forms,
           IInv, IssuedInv, NamedInv, OpenRunInv, RefRunInv, [Next]_vars
    PROVE  RefRunInv'
<1>0. curr \in StateType /\ hadError \in BOOLEAN
  BY DEF IInv, TypeOK
<1>1. CASE hadError
  <2>1. hadError' = TRUE
    BY <1>0, <1>1 DEF Next, vars, IncludeInvalidated, IncludeDone, EndOfFile, Finished, Fatal,
                 RegisterNextLangSys, RegisterDone, LangSystem, StartFeature, ScriptStmt,
                 LanguageStmt, LookupFlagStmt, StartStandAlone, StartLookup, RegisterLookup,
                 EndLookup, EndFeature, BeginRegister, UseLookup, CallLkp, IncludeNext, RuleStmt
  <2> QED
    BY <1>1, <2>1, ErrorRef DEF RefRunInv
<1>2. CASE ~hadError
  <2>1. CASE UNCHANGED vars
    BY <2>1, FrameRef DEF vars, InBlock
  <2>2. ASSUME NEW s \in Scripts, NEW l \in Langs, LangSystem(s, l) PROVE RefRunInv'
    <3>1. nest = "file" /\ nest' = "file" /\ pc = "stmt" /\ UNCHANGED <<pc, scopeVars, labelVars, runVars>>
      BY <2>2 DEF LangSystem, Ready
    <3> QED
      BY <1>2, <3>1, FrameRef DEF InBlock
  <2>3. CASE EndOfFile \/ IncludeInvalidated \/ IncludeDone \/ Finished
    BY <2>1, <2>3, FrameRef DEF EndOfFile, IncludeInvalidated, IncludeDone, Finished, Fatal, InBlock
  <2>4. ASSUME NEW k \in RuleKinds, RuleStmt(k[1], k[2]) PROVE RefRunInv'
    BY <1>2, <2>4, RuleRef
  <2>5. ASSUME NEW n \in Names, StartStandAlone(n) \/ StartLookup(n) PROVE RefRunInv'
    BY <2>5, StartRef
  <2>6. ASSUME NEW f \in Features, StartFeature(f) PROVE RefRunInv'
    <3>1. ~InBlock' /\ pc = "stmt" /\ DFLTLkps' = <<>> /\ lookup' = <<>>
          /\ UNCHANGED <<pc, hadError, labelVars, prev, layout>>
      BY <2>6 DEF StartFeature, EnterFeature, Ready, InBlock
    <3> QED
      BY <1>2, <3>1, FrameRef
  <2>7. ASSUME NEW s \in Scripts, ScriptStmt(s) PROVE RefRunInv'
    <3>1. ~InBlock /\ UNCHANGED nest /\ pc = "stmt" /\ DFLTLkps' \in {DFLTLkps, <<>>}
          /\ UNCHANGED <<pc, labelVars, prev, lookup, layout>>
      BY <2>7 DEF ScriptStmt, Ready, AllowedScope
    <3> QED
      BY <1>2, <3>1, FrameRef DEF InBlock
  <2>8. ASSUME NEW l \in Langs, NEW incl \in BOOLEAN, LanguageStmt(l, incl) PROVE RefRunInv'
    <3>1. ~InBlock /\ UNCHANGED nest /\ pc = "stmt" /\ pc' \in {"stmt", "include"}
          /\ UNCHANGED <<labelVars, prev, DFLTLkps, lookup, layout>>
      BY <2>8 DEF LanguageStmt, Ready, AllowedScope
    <3> QED
      BY <1>2, <3>1, FrameRef DEF InBlock
  <2>9. ASSUME NEW v \in Flags, LookupFlagStmt(v) PROVE RefRunInv'
    <3>1. curr' = [curr EXCEPT !.lkpFlag = v]
          /\ UNCHANGED <<pc, nest, globalVars, scopeVars, labelVars, prev, DFLTLkps, lookup, layout>>
      BY <2>9 DEF LookupFlagStmt
    <3>2. curr'.label = curr.label /\ curr'.script = curr.script
          /\ curr'.language = curr.language /\ curr'.feature = curr.feature
      BY <1>0, <3>1 DEF StateType
    <3> QED
      BY <1>2, <3>1, <3>2, FrameRef DEF InBlock
  <2>10. CASE IncludeNext \/ \E n \in Names : UseLookup(n)
    BY <1>2, <2>10, ReferenceRef
  <2>11. CASE EndLookup \/ EndFeature \/ RegisterLookup \/ RegisterNextLangSys \/ RegisterDone
    BY <1>2, <2>11, EndRef
  <2> QED
    BY <2>1, <2>2, <2>3, <2>4, <2>5, <2>6, <2>7, <2>8, <2>9, <2>10, <2>11 DEF Next
<1> QED
  BY <1>1, <1>2

\* A label without the reference bit is the label of a definition.
LEMMA BaseIsDefinition ==
    ASSUME NEW lab \in Label, lab # LAB_UNDEF
    PROVE  ~IsRefLab(BaseLab(lab))
  BY LabelAssumption DEF IsRefLab, BaseLab, Label, LAB_UNDEF

\* The labels handed out leave room for the value that stands for none, reference bit or not.
LEMMA AllocatedBelow ==
    ASSUME IInv, NamedInv
    PROVE  BaseLab(LAB_UNDEF) \notin Allocated
<1>1. BaseLab(LAB_UNDEF) = REF_LAB - 1 /\ REF_LAB \in Nat /\ LAB_UNDEF # REF_LAB - 1
  BY LabelAssumption DEF BaseLab, LAB_UNDEF
<1>2. Len(namedLkp) \in Nat /\ Len(namedLkp) <= FEAT_NAMED_LKP_END
  BY LenProperties DEF NamedInv, IInv, TypeOK
<1>3. anonLabelCnt \in FEAT_ANON_LKP_BEG .. FEAT_ANON_LKP_END + 1
  BY DEF IInv, TypeOK
<1> QED
  BY <1>1, <1>2, <1>3, LabelAssumption DEF Allocated, FEAT_ANON_LKP_BEG

\* At the beginning no lookup has been read.
LEMMA InitRef == Init => RefRunInv
<1> SUFFICES ASSUME Init PROVE RefRunInv
  OBVIOUS
<1>1. /\ prev = NoState /\ DFLTLkps = <<>> /\ lookup = <<>> /\ namedLkp = <<>>
      /\ layout = EmptyLayout /\ nest = "file"
  BY DEF Init
<1>2. NoState.tbl = UNDEF
  BY DEF NoState
<1>3. \A tbl \in Tables : layout[tbl].subtables = <<>>
  BY <1>1 DEF EmptyLayout
<1>4. Distinct(layout) /\ RefsDefined(layout)
  BY <1>3 DEF Distinct, RefsDefined
<1>5. OpenLabel /\ BlockRun
  BY <1>1, <1>2 DEF OpenLabel, BlockRun, InBlock
<1>6. SeqCarried(layout, prev, DFLTLkps) /\ SeqCarried(layout, prev, lookup)
      /\ NamesCarried(layout, prev, namedLkp, currNamedLkp)
  BY <1>1 DEF SeqCarried, NamesCarried
<1> QED
  BY <1>1, <1>2, <1>4, <1>5, <1>6 DEF RefRunInv, RefInv

\* Everything the theorems below rest on is an invariant.
LEMMA RefInvariant ==
    ASSUME "blockLang" \notin Forms, "emptyBlock" \notin Forms, "emptyFeature" \notin Forms
    PROVE  Spec => [](IInv /\ IssuedInv /\ NamedInv /\ OpenRunInv /\ RefRunInv)
<1>1. Init => OpenRunInv
  <2> SUFFICES ASSUME Init PROVE OpenRunInv
    OBVIOUS
  <2>1. /\ curr = NoState /\ prev = NoState /\ DFLTLkps = <<>> /\ lookup = <<>>
        /\ layout = EmptyLayout /\ nest = "file"
    BY DEF Init
  <2>2. NoState.tbl = UNDEF
    BY DEF NoState
  <2>3. \A tbl \in Tables : layout[tbl].subtables = <<>>
    BY <2>1 DEF EmptyLayout
  <2> QED
    BY <2>1, <2>2, <2>3 DEF OpenRunInv, OpenInv, InBlock, Real, Filled
<1>2. IInv /\ IssuedInv /\ NamedInv /\ OpenRunInv /\ RefRunInv /\ [Next]_vars
      => IssuedInv' /\ NamedInv' /\ OpenRunInv' /\ RefRunInv'
  BY NextIssued, NextNamed, NextOpen, NextRef
<1> QED
  BY <1>1, <1>2, InitIInv, NextIInv, InitIssued, InitNamed, InitRef, PTL DEF Spec

-----------------------------------------------------------------------------
(* What follows from the invariant *)

\* Labels that are all different follow each other.
LEMMA DistinctContiguous == IInv /\ Distinct(layout) => LabelsContiguous
<1> SUFFICES ASSUME IInv, Distinct(layout), NEW tbl \in Tables,
                    NEW i \in 1 .. Len(layout[tbl].subtables),
                    NEW j \in 1 .. Len(layout[tbl].subtables),
                    NEW k \in 1 .. Len(layout[tbl].subtables),
                    i < j, j < k,
                    layout[tbl].subtables[i].label = layout[tbl].subtables[k].label,
                    ~IsRefLab(layout[tbl].subtables[i].label)
             PROVE  FALSE
  BY DEF LabelsContiguous
<1>1. i = k
  BY DEF Distinct
<1> QED
  BY <1>1

\* A reference finds its definition.
LEMMA DefinedResolve == IInv /\ RefsDefined(layout) => RefsResolve
<1> SUFFICES ASSUME IInv, RefsDefined(layout), NEW tbl \in Tables, NEW r \in References(tbl)
             PROVE  \E d \in Definitions(tbl) : d.label = BaseLab(r.label)
  BY DEF RefsResolve
<1> DEFINE subs == layout[tbl].subtables
<1>1. PICK i \in 1 .. Len(subs) : subs[i] = r
  BY DEF References, Subtables
<1>2. IsRefLab(r.label)
  BY DEF References, Definitions
<1>3. PICK k \in 1 .. Len(subs) : subs[k].label = BaseLab(r.label)
  BY <1>1, <1>2 DEF RefsDefined, Def
<1>4. r \in SubtableType
  BY <1>1, ElementOfSeq DEF IInv, TypeOK
<1>5. ~IsRefLab(BaseLab(r.label))
  BY <1>2, <1>4, BaseIsDefinition DEF SubtableType, IsRefLab
<1> QED
  BY <1>3, <1>5 DEF Definitions, Subtables

\* No lookup is defined or referred to in two tables, and its definition is one subtable.
LEMMA DistinctUniform ==
    ASSUME IInv, IssuedInv, NamedInv, Distinct(layout), RefsDefined(layout)
    PROVE  LookupUniform
<1>1. ASSUME NEW tbl \in Tables, NEW a \in Definitions(tbl), NEW b \in Definitions(tbl),
             a.label = b.label
      PROVE  a = b
  <2> DEFINE subs == layout[tbl].subtables
  <2>1. PICK i \in 1 .. Len(subs) : subs[i] = a
    BY DEF Definitions, Subtables
  <2>2. PICK k \in 1 .. Len(subs) : subs[k] = b
    BY DEF Definitions, Subtables
  <2>3. ~IsRefLab(subs[i].label)
    BY <2>1 DEF Definitions
  <2>4. i = k
    BY <1>1, <2>1, <2>2, <2>3 DEF Distinct
  <2> QED
    BY <2>1, <2>2, <2>4
<1>2. ASSUME NEW tbl \in Tables, NEW s \in Subtables(tbl)
      PROVE  \E k \in 1 .. Len(layout[tbl].subtables) :
                LET lab == layout[tbl].subtables[k].label
                IN  ~IsRefLab(lab) /\ lab = IF s.label = LAB_UNDEF THEN s.label ELSE BaseLab(s.label)
  <2> DEFINE subs == layout[tbl].subtables
  <2>1. PICK i \in 1 .. Len(subs) : subs[i] = s
    BY DEF Subtables
  <2>2. s \in SubtableType
    BY <2>1, ElementOfSeq DEF IInv, TypeOK
  <2>3. s.label \in Label
    BY <2>2 DEF SubtableType
  <2>4. CASE IsRefLab(s.label)
    <3>1. PICK k \in 1 .. Len(subs) : subs[k].label = BaseLab(s.label)
      BY <2>1, <2>4 DEF RefsDefined, Def
    <3> QED
      BY <2>3, <2>4, <3>1, BaseIsDefinition DEF IsRefLab
  <2>5. CASE ~IsRefLab(s.label)
    <3>1. s.label = LAB_UNDEF \/ s.label = BaseLab(s.label)
      BY <2>3, <2>5 DEF IsRefLab, BaseLab
    <3> QED
      BY <2>1, <2>5, <3>1
  <2> QED
    BY <2>4, <2>5
<1>3. ASSUME NEW tbl \in Tables, NEW s \in Subtables(tbl), s.label # LAB_UNDEF
      PROVE  BaseLab(s.label) # BaseLab(LAB_UNDEF)
  <2>1. PICK i \in 1 .. Len(layout[tbl].subtables) : layout[tbl].subtables[i] = s
    BY DEF Subtables
  <2>2. Issued(s.label)
    BY <2>1, IssuedInvIs DEF LabelsIssued
  <2> QED
    BY <1>3, <2>2, AllocatedBelow DEF Issued
<1>4. ASSUME NEW a \in Subtables("GSUB"), NEW b \in Subtables("GPOS"),
             BaseLab(a.label) = BaseLab(b.label)
      PROVE  FALSE
  <2> DEFINE A == layout["GSUB"].subtables
             B == layout["GPOS"].subtables
  <2>0. "GSUB" \in Tables /\ "GPOS" \in Tables
    BY DEF Tables
  <2>1. a.label = LAB_UNDEF <=> b.label = LAB_UNDEF
    BY <1>3, <1>4, <2>0
  <2>2. PICK i \in 1 .. Len(A) :
            ~IsRefLab(A[i].label) /\ A[i].label = IF a.label = LAB_UNDEF THEN a.label ELSE BaseLab(a.label)
    BY <1>2, <2>0
  <2>3. PICK k \in 1 .. Len(B) :
            ~IsRefLab(B[k].label) /\ B[k].label = IF b.label = LAB_UNDEF THEN b.label ELSE BaseLab(b.label)
    BY <1>2, <2>0
  <2>4. A[i].label = B[k].label
    BY <1>4, <2>1, <2>2, <2>3
  <2>5. "GSUB" # "GPOS"
    OBVIOUS
  <2> QED
    BY <2>0, <2>2, <2>4, <2>5 DEF Distinct
<1> QED
  BY <1>1, <1>4 DEF LookupUniform

-----------------------------------------------------------------------------
(* The theorems *)

\* calcLookupListIndexes takes a change of label for a new lookup: in every file whose blocks
\* and features have rules, and whose lookup blocks leave script and language alone, the
\* definitions with one label follow each other, whatever errors were reported.
THEOREM LookupsAreContiguous ==
    ASSUME "blockLang" \notin Forms, "emptyBlock" \notin Forms, "emptyFeature" \notin Forms
    PROVE  Spec => []LabelsContiguous
<1>1. IInv /\ RefRunInv => LabelsContiguous
  BY DistinctContiguous DEF RefRunInv
<1> QED
  BY <1>1, RefInvariant, PTL

\* otlLabel2LookupIndex finds every lookup that is referred to: in the same files, between
\* blocks and until an error is reported, each reference has its definition in its own table.
THEOREM ReferencesResolve ==
    ASSUME "blockLang" \notin Forms, "emptyBlock" \notin Forms, "emptyFeature" \notin Forms
    PROVE  Spec => []RefsResolve
<1>1. IInv /\ RefRunInv => RefsResolve
  <2> SUFFICES ASSUME IInv, RefRunInv, ~hadError PROVE RefsResolve
    BY DEF RefsResolve, AtFileLevel
  <2> QED
    BY DefinedResolve DEF RefRunInv, RefInv
<1> QED
  BY <1>1, RefInvariant, PTL

\* fillLookupList takes the type and the flag of a lookup from its first subtable: in the same
\* files and until an error is reported, all definitions of a lookup agree on them, and no
\* lookup is defined or referred to in two tables.
THEOREM LookupsAreUniform ==
    ASSUME "blockLang" \notin Forms, "emptyBlock" \notin Forms, "emptyFeature" \notin Forms
    PROVE  Spec => [](~hadError => LookupUniform)
<1>1. IInv /\ IssuedInv /\ NamedInv /\ RefRunInv => (~hadError => LookupUniform)
  BY DistinctUniform DEF RefRunInv, RefInv
<1> QED
  BY <1>1, RefInvariant, PTL

=============================================================================
