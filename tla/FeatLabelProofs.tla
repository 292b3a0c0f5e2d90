---------------------------- MODULE FeatLabelProofs ----------------------------
(***************************************************************************)
(* Proofs about lookup labels and the lookups that carry them, for every   *)
(* value of the constants: labels are handed out before they are used; a   *)
(* name stands for the lookup of its block; and a lookup that ends has     *)
(* rules.  The last two hold of files without an error so far, and not of  *)
(* every form of file: the theorems name the forms they leave out.         *)
(***************************************************************************)
EXTENDS FeatCtxProofs

USE DEF parserVars, loopVars, globalVars, scopeVars, labelVars, runVars

-----------------------------------------------------------------------------
(* The operators of LayoutTables *)

\* Beginning a lookup changes the accumulator of its table only.
LEMMA LookupBeginShape ==
    ASSUME NEW lay \in LayoutType, NEW tbl \in Tables, NEW s, NEW l, NEW f, NEW typ,
           NEW flag, NEW lab
    PROVE  LET r == LookupBegin(lay, tbl, s, l, f, typ, flag, lab)
           IN  /\ \A t \in Tables : r[t].subtables = lay[t].subtables
               /\ \A t \in Tables : t # tbl => r[t] = lay[t]
               /\ r[tbl].new.label = lab
  BY DEF LookupBegin, LayoutType, SubtableType

\* Adding a rule leaves the accumulator with one, and changes nothing else.
LEMMA RuleAddShape ==
    ASSUME NEW lay \in LayoutType, NEW tbl \in Tables, NEW rule, NEW err \in BOOLEAN
    PROVE  LET r == RuleAdd(lay, tbl, rule, err)
           IN  /\ \A t \in Tables : /\ r[t].subtables = lay[t].subtables
                                    /\ r[t].new.label = lay[t].new.label
               /\ ~err => r[tbl].new.rules # {}
<1>1. CASE err
  BY <1>1 DEF RuleAdd
<1>2. CASE ~err
  <2> DEFINE r == [lay EXCEPT ![tbl].new.rules = @ \cup {rule}]
  <2>1. RuleAdd(lay, tbl, rule, err) = r
    BY <1>2 DEF RuleAdd
  <2>2. \A t \in Tables : /\ r[t].subtables = lay[t].subtables
                          /\ r[t].new.label = lay[t].new.label
    BY DEF LayoutType, SubtableType
  <2>3. r[tbl].new.rules = lay[tbl].new.rules \cup {rule}
    BY DEF LayoutType, SubtableType
  <2> HIDE DEF r
  <2> QED
    BY <2>1, <2>2, <2>3
<1> QED
  BY <1>1, <1>2

\* Ending a lookup appends the accumulator, or nothing.
LEMMA LookupEndShape ==
    ASSUME NEW lay \in LayoutType, NEW tbl \in Tables, NEW err \in BOOLEAN
    PROVE  LET r == LookupEnd(lay, tbl, err)
           IN  /\ \A t \in Tables : r[t].new.label = lay[t].new.label
               /\ \A t \in Tables : t # tbl => r[t] = lay[t]
               /\ r[tbl].subtables \in {lay[tbl].subtables,
                                        Append(lay[tbl].subtables, lay[tbl].new)}
<1> DEFINE new == lay[tbl].new
           done == [new EXCEPT !.rules = IF tbl = "GSUB" THEN {} ELSE @]
           subs == lay[tbl].subtables
           a == [lay EXCEPT ![tbl].subtables = Append(@, new)]
           b == [lay EXCEPT ![tbl] = [new |-> done, subtables |-> Append(@.subtables, new)]]
<1>1. LookupEnd(lay, tbl, err) \in {a, lay, b}
  BY DEF LookupEnd
<1>2. /\ \A t \in Tables : t # tbl => a[t] = lay[t] /\ b[t] = lay[t]
      /\ a[tbl].new = new /\ a[tbl].subtables = Append(subs, new)
      /\ b[tbl].new = done /\ b[tbl].subtables = Append(subs, new)
  BY DEF LayoutType
<1>3. done.label = new.label
  <2>1. new \in SubtableType
    BY DEF LayoutType
  <2> QED
    BY <2>1 DEF SubtableType
<1> HIDE DEF a, b, done
<1> QED
  BY <1>1, <1>2, <1>3

\* Appending adds the last element.
LEMMA AppendShape ==
    ASSUME NEW T, NEW s \in Seq(T), NEW x \in T
    PROVE  /\ Len(Append(s, x)) = Len(s) + 1 /\ Len(s) \in Nat
           /\ \A k \in 1 .. Len(Append(s, x)) :
                 \/ k \in 1 .. Len(s) /\ Append(s, x)[k] = s[k]
                 \/ k = Len(s) + 1 /\ Append(s, x)[k] = x
<1>1. Len(s) \in Nat /\ Len(Append(s, x)) = Len(s) + 1
  BY AppendProperties, LenProperties
<1>2. ASSUME NEW k \in 1 .. Len(s) + 1
      PROVE  \/ k \in 1 .. Len(s) /\ Append(s, x)[k] = s[k]
             \/ k = Len(s) + 1 /\ Append(s, x)[k] = x
  <2>1. k \in 1 .. Len(s) \/ k = Len(s) + 1
    BY <1>1
  <2> QED
    BY <1>1, <2>1, AppendProperties
<1> QED
  BY <1>1, <1>2

-----------------------------------------------------------------------------
(* Labels that were handed out.  A is the set of them. *)

In(A, lab) == lab = LAB_UNDEF \/ BaseLab(lab) \in A
SeqIn(A, s) == \A k \in 1 .. Len(s) : In(A, s[k].label)
NamesIn(A, s) == \A k \in 1 .. Len(s) : In(A, s[k].state.label)
LayoutIn(A, lay) ==
    \A tbl \in Tables :
        /\ In(A, lay[tbl].new.label)
        /\ \A k \in 1 .. Len(lay[tbl].subtables) : In(A, lay[tbl].subtables[k].label)

\* Labels stay handed out.
LEMMA InGrows ==
    ASSUME NEW A, NEW B, A \subseteq B
    PROVE  /\ \A lab : In(A, lab) => In(B, lab)
           /\ \A s : SeqIn(A, s) => SeqIn(B, s)
           /\ \A s : NamesIn(A, s) => NamesIn(B, s)
           /\ \A lay : LayoutIn(A, lay) => LayoutIn(B, lay)
<1>1. \A lab : In(A, lab) => In(B, lab)
  BY DEF In
<1> QED
  BY <1>1 DEF SeqIn, NamesIn, LayoutIn

\* Beginning a lookup with a label that was handed out keeps the tables' labels so.
LEMMA BeginIn ==
    ASSUME NEW A, NEW lay \in LayoutType, NEW tbl \in Tables, NEW s, NEW l, NEW f, NEW typ,
           NEW flag, NEW lab, LayoutIn(A, lay), In(A, lab)
    PROVE  LayoutIn(A, LookupBegin(lay, tbl, s, l, f, typ, flag, lab))
<1> DEFINE r == LookupBegin(lay, tbl, s, l, f, typ, flag, lab)
<1>1. /\ \A t \in Tables : r[t].subtables = lay[t].subtables
      /\ \A t \in Tables : t # tbl => r[t] = lay[t]
      /\ r[tbl].new.label = lab
  BY LookupBeginShape
<1> HIDE DEF r
<1> QED
  BY <1>1 DEF LayoutIn, r

\* Adding a rule keeps them so.
LEMMA AddIn ==
    ASSUME NEW A, NEW lay \in LayoutType, NEW tbl \in Tables, NEW rule, NEW err \in BOOLEAN,
           LayoutIn(A, lay)
    PROVE  LayoutIn(A, RuleAdd(lay, tbl, rule, err))
<1> DEFINE r == RuleAdd(lay, tbl, rule, err)
<1>1. \A t \in Tables : r[t].subtables = lay[t].subtables /\ r[t].new.label = lay[t].new.label
  BY RuleAddShape
<1> HIDE DEF r
<1> QED
  BY <1>1 DEF LayoutIn, r

\* Ending a lookup keeps them so.
LEMMA EndIn ==
    ASSUME NEW A, NEW lay \in LayoutType, NEW tbl \in Tables, NEW err \in BOOLEAN,
           LayoutIn(A, lay)
    PROVE  LayoutIn(A, LookupEnd(lay, tbl, err))
<1> DEFINE r == LookupEnd(lay, tbl, err)
           subs == lay[tbl].subtables
           new == lay[tbl].new
<1>1. /\ \A t \in Tables : r[t].new.label = lay[t].new.label
      /\ \A t \in Tables : t # tbl => r[t] = lay[t]
      /\ r[tbl].subtables \in {subs, Append(subs, new)}
  BY LookupEndShape
<1>2. subs \in Seq(SubtableType) /\ new \in SubtableType
  BY DEF LayoutType
<1>3. In(A, new.label) /\ \A k \in 1 .. Len(subs) : In(A, subs[k].label)
  BY DEF LayoutIn
<1> HIDE DEF r, subs, new
<1>4. \A k \in 1 .. Len(Append(subs, new)) : In(A, Append(subs, new)[k].label)
  BY <1>2, <1>3, AppendShape
<1>5. \A k \in 1 .. Len(r[tbl].subtables) : In(A, r[tbl].subtables[k].label)
  BY <1>1, <1>3, <1>4
<1> QED
  BY <1>1, <1>5 DEF LayoutIn, r

\* Closing the lookup that a state has open keeps them so.
LEMMA CloseIn ==
    ASSUME NEW A, TypeOK, NEW st \in StateType, LayoutIn(A, layout)
    PROVE  LayoutIn(A, CloseRun(st))
<1>1. layout \in LayoutType /\ hadError \in BOOLEAN /\ (st.tbl # UNDEF => st.tbl \in Tables)
  BY DEF TypeOK, LayoutType, StateType
<1> QED
  BY <1>1, EndIn DEF CloseRun

\* A sequence stays one of labels that were handed out when such an element is added.
LEMMA AppendIn ==
    ASSUME NEW A, NEW T, NEW s \in Seq(T), NEW x \in T, SeqIn(A, s), In(A, x.label)
    PROVE  SeqIn(A, Append(s, x))
  BY AppendShape DEF SeqIn

-----------------------------------------------------------------------------
(* The invariant, with its parts named *)

RunIn(A, c, p, dflts, lkps, lay) ==
    In(A, c.label) /\ In(A, p.label) /\ SeqIn(A, dflts) /\ SeqIn(A, lkps) /\ LayoutIn(A, lay)

IssuedInv ==
    /\ RunIn(Allocated, curr, prev, DFLTLkps, lookup, layout)
    /\ NamesIn(Allocated, namedLkp)
    /\ In(Allocated, currNamedLkp)

\* IssuedInv is LabelsIssued.
LEMMA IssuedInvIs == IssuedInv <=> LabelsIssued
  BY Zenon DEF IssuedInv, LabelsIssued, Issued, In, RunIn, SeqIn, NamesIn, LayoutIn

\* What stays within A stays within any larger set.
LEMMA RunGrows ==
    ASSUME NEW A, NEW B, A \subseteq B, NEW c, NEW p, NEW d, NEW l, NEW lay,
           RunIn(A, c, p, d, l, lay)
    PROVE  RunIn(B, c, p, d, l, lay)
  BY InGrows DEF RunIn

\* A reference to a label is as good as the label.
LEMMA RefIn ==
    ASSUME NEW A, NEW lab \in Label, In(A, lab)
    PROVE  In(A, RefLab(lab))
<1>1. CASE lab = LAB_UNDEF
  BY <1>1, LabelAssumption DEF In, RefLab, LAB_UNDEF
<1>2. CASE lab # LAB_UNDEF
  BY <1>2, RefLabProperties DEF In
<1> QED
  BY <1>1, <1>2

\* Setting the label of a state leaves its other fields alone.
LEMMA LabelSet ==
    ASSUME NEW r, NEW lab,
           {"script", "language", "feature", "tbl", "lkpType", "label"} \subseteq DOMAIN r
    PROVE  LET done == [r EXCEPT !.label = lab]
           IN  /\ done.label = lab /\ done.tbl = r.tbl /\ done.script = r.script
               /\ done.language = r.language /\ done.feature = r.feature
               /\ done.lkpType = r.lkpType
  OBVIOUS

\* The label that prepRule gives a rule or reference.
LEMMA PreparedLabel ==
    ASSUME TypeOK, NEW tbl, NEW typ, NEW flag, NEW named
    PROVE  LET st == Prepared(tbl, typ, flag, named)
           IN  /\ st.label = IF named # LAB_UNDEF THEN named
                             ELSE IF NeedsAnonLabel(st, named) THEN anonLabelCnt
                             ELSE prev.label
               /\ st.tbl = tbl
<1> DEFINE first == FirstOf(DOMAIN langSysMap)
           st == [curr EXCEPT !.tbl = tbl, !.lkpType = typ, !.lkpFlag = flag,
                              !.script = IF EntersLangSysMode THEN first[1] ELSE @,
                              !.language = IF EntersLangSysMode THEN first[2] ELSE @]
           lab == IF named # LAB_UNDEF THEN named
                  ELSE IF NeedsAnonLabel(st, named) THEN anonLabelCnt ELSE prev.label
           done == [st EXCEPT !.label = lab]
<1>1. Prepared(tbl, typ, flag, named) = done
  BY DEF Prepared
<1>2. curr \in StateType
  BY DEF TypeOK
<1>3. st.tbl = tbl /\ DOMAIN st = DOMAIN curr
  BY <1>2 DEF StateType
<1>4. {"script", "language", "feature", "tbl", "lkpType", "label"} \subseteq DOMAIN st
  BY <1>2, <1>3 DEF StateType
<1> HIDE DEF st, lab
<1>5. /\ done.label = lab /\ done.tbl = st.tbl /\ done.script = st.script
      /\ done.language = st.language /\ done.feature = st.feature
      /\ done.lkpType = st.lkpType
  BY <1>4, LabelSet
<1> HIDE DEF done
<1>6. NeedsAnonLabel(done, named) = NeedsAnonLabel(st, named)
  BY <1>5 DEF NeedsAnonLabel, InRun
<1>7. done.label = IF named # LAB_UNDEF THEN named
                   ELSE IF NeedsAnonLabel(done, named) THEN anonLabelCnt ELSE prev.label
  BY <1>5, <1>6 DEF lab
<1> QED
  BY <1>1, <1>3, <1>5, <1>7

\* That label was handed out before, or is handed out now.
LEMMA PreparedIssued ==
    ASSUME TypeOK, IssuedInv, NEW tbl, NEW typ, NEW flag, NEW named \in Label,
           In(Allocated, named), UNCHANGED namedLkp,
           anonLabelCnt' = AnonLabelsAfter(Prepared(tbl, typ, flag, named), named)
    PROVE  /\ Allocated \subseteq Allocated'
           /\ In(Allocated', Prepared(tbl, typ, flag, named).label)
<1> DEFINE st == Prepared(tbl, typ, flag, named)
<1>1. st.label = IF named # LAB_UNDEF THEN named
                 ELSE IF NeedsAnonLabel(st, named) THEN anonLabelCnt ELSE prev.label
  BY PreparedLabel
<1>2. anonLabelCnt \in FEAT_ANON_LKP_BEG .. FEAT_ANON_LKP_END + 1
  BY DEF TypeOK
<1>3. anonLabelCnt' = IF NeedsAnonLabel(st, named) THEN anonLabelCnt + 1 ELSE anonLabelCnt
  BY DEF AnonLabelsAfter
<1> HIDE DEF st
<1>4. Allocated \subseteq Allocated'
  BY <1>2, <1>3, LabelAssumption DEF Allocated, FEAT_ANON_LKP_BEG
<1>5. CASE NeedsAnonLabel(st, named)
  <2>1. named = LAB_UNDEF /\ st.label = anonLabelCnt
    BY <1>1, <1>5 DEF NeedsAnonLabel
  <2>2. BaseLab(anonLabelCnt) = anonLabelCnt
    BY <1>2, LabelAssumption DEF BaseLab, FEAT_ANON_LKP_BEG
  <2>3. anonLabelCnt \in Allocated'
    BY <1>2, <1>3, <1>5, LabelAssumption DEF Allocated, FEAT_ANON_LKP_BEG
  <2> QED
    BY <1>4, <2>1, <2>2, <2>3 DEF In, st
<1>6. CASE ~NeedsAnonLabel(st, named)
  <2>1. In(Allocated, st.label)
    BY <1>1, <1>6 DEF IssuedInv, RunIn
  <2> QED
    BY <1>4, <2>1, InGrows DEF st
<1> QED
  BY <1>5, <1>6

\* The variables that prepRule assigns to hold labels of a set that has theirs and the
\* label of the rule.
LEMMA PrepRuleIn ==
    ASSUME TypeOK, NEW st \in StateType, NEW named \in Label, NEW rules, NEW B,
           rules # {} => st.tbl \in Tables,
           RunIn(B, curr, prev, DFLTLkps, lookup, layout), In(B, st.label),
           PrepRule(st, named, rules)
    PROVE  RunIn(B, curr', prev', DFLTLkps', lookup', layout')
<1>0. /\ layout \in LayoutType /\ hadError \in BOOLEAN /\ prev \in StateType
      /\ DFLTLkps \in Seq(StateType) /\ lookup \in Seq(LookupInfoType) /\ ruleCnt \in Nat
  BY DEF TypeOK, LayoutType
<1>1. curr' = st /\ prev' = st
  BY DEF PrepRule
<1>2. SeqIn(B, DFLTLkps')
  <2> DEFINE kept == IF st.feature = prev.feature /\ st.script = prev.script
                     THEN DFLTLkps ELSE <<>>
  <2>1. DFLTLkps' \in {kept, Append(kept, st)}
    BY DEF PrepRule
  <2>2. kept \in Seq(StateType) /\ SeqIn(B, kept)
    BY <1>0 DEF RunIn, SeqIn
  <2> HIDE DEF kept
  <2>3. SeqIn(B, Append(kept, st))
    BY <2>2, AppendIn
  <2> QED
    BY <2>1, <2>2, <2>3
<1>3. SeqIn(B, lookup')
  <2> DEFINE info == [tbl |-> st.tbl, lkpType |-> st.lkpType, lkpFlag |-> st.lkpFlag,
                      label |-> st.label]
  <2>1. lookup' \in {lookup, Append(lookup, info)}
    BY DEF PrepRule
  <2>2. info \in LookupInfoType /\ info.label = st.label
    BY DEF StateType, LookupInfoType
  <2> HIDE DEF info
  <2>3. SeqIn(B, lookup)
    BY DEF RunIn
  <2>4. SeqIn(B, Append(lookup, info))
    BY <1>0, <2>2, <2>3, AppendIn
  <2> QED
    BY <2>1, <2>3, <2>4
<1>4. LayoutIn(B, layout')
  <2>1. LayoutIn(B, layout)
    BY DEF RunIn
  <2>2. CloseRun(prev) \in LayoutType /\ LayoutIn(B, CloseRun(prev))
    BY <1>0, <2>1, CloseIn, CloseRunType
  <2>3. OpenRun(st) \in LayoutType /\ LayoutIn(B, OpenRun(st))
    BY <1>0, <2>1, <2>2, BeginIn, LookupBeginType DEF OpenRun, StateType
  <2>4. rules # {} => LayoutIn(B, RuleAdd(OpenRun(st), st.tbl, ruleCnt + 1, hadError))
    BY <1>0, <2>3, AddIn
  <2> QED
    BY <2>3, <2>4 DEF PrepRule
<1> QED
  BY <1>1, <1>2, <1>3, <1>4 DEF RunIn

\* A reference to a lookup whose label was handed out keeps the invariant.
LEMMA CallLkpIssued ==
    ASSUME IInv, IssuedInv, NEW st \in StateType, In(Allocated, st.label), CallLkp(st)
    PROVE  IssuedInv'
<1> DEFINE named == RefLab(st.label)
           ref == Prepared(st.tbl, st.lkpType, st.lkpFlag, named)
<1>1. named \in Label /\ In(Allocated, named)
  BY RefLabProperties, RefIn DEF StateType
<1>2. /\ ref \in StateType /\ TypeOK
  BY <1>1, PreparedType DEF IInv, StateType
<1>3. /\ PrepRule(ref, named, {}) /\ namedLkp' = namedLkp /\ currNamedLkp' = LAB_UNDEF
  BY DEF CallLkp, Reference
<1>4. anonLabelCnt' = AnonLabelsAfter(ref, named)
  BY <1>3 DEF PrepRule
<1>5. Allocated \subseteq Allocated' /\ In(Allocated', ref.label)
  BY <1>1, <1>2, <1>3, <1>4, PreparedIssued
<1> HIDE DEF named, ref
<1>6. RunIn(Allocated', curr, prev, DFLTLkps, lookup, layout)
  BY <1>5, RunGrows DEF IssuedInv
<1>7. RunIn(Allocated', curr', prev', DFLTLkps', lookup', layout')
  BY <1>1, <1>2, <1>3, <1>5, <1>6, PrepRuleIn
<1>8. NamesIn(Allocated', namedLkp')
  BY <1>3, <1>5, InGrows DEF IssuedInv
<1> QED
  BY <1>3, <1>7, <1>8 DEF IssuedInv, In

\* A step that issues no label, and gives none to a rule or reference, keeps it.
LEMMA QuietIssued ==
    ASSUME IssuedInv, UNCHANGED <<namedLkp, anonLabelCnt, currNamedLkp, layout>>,
           curr'.label = curr.label, prev'.label = prev.label,
           DFLTLkps' \in {DFLTLkps, <<>>}, lookup' \in {lookup, <<>>}
    PROVE  IssuedInv'
<1>1. Allocated' = Allocated
  BY DEF Allocated
<1>2. SeqIn(Allocated, DFLTLkps') /\ SeqIn(Allocated, lookup')
  BY DEF IssuedInv, RunIn, SeqIn
<1> QED
  BY <1>1, <1>2 DEF IssuedInv, RunIn, In, NamesIn

\* The label of a new lookup block is handed out with it.
LEMMA NewNamedLkpIssued ==
    ASSUME IInv, IssuedInv, NEW n \in Names, NEW isTopLevel \in BOOLEAN,
           Len(namedLkp) < FEAT_NAMED_LKP_END,
           NewNamedLkp(n, isTopLevel), UNCHANGED <<anonLabelCnt, prev, layout>>,
           curr'.label = curr.label,
           DFLTLkps' \in {DFLTLkps, <<>>}, lookup' \in {lookup, <<>>}
    PROVE  IssuedInv'
<1> DEFINE new == [name |-> n, isTopLevel |-> isTopLevel, state |-> NoState]
<1>1. namedLkp \in Seq(NamedLkpType) /\ new \in NamedLkpType /\ new.state.label = LAB_UNDEF
  <2>1. NoState \in StateType
    <3>1. LAB_UNDEF \in Label
      BY LabelAssumption DEF Label, LAB_UNDEF
    <3> QED
      BY <3>1 DEF NoState, StateType, LkpTypes, UNDEF
  <2>2. NoState.label = LAB_UNDEF
    BY DEF NoState
  <2> QED
    BY <2>1, <2>2 DEF IInv, TypeOK, NamedLkpType
<1>2. namedLkp' = Append(namedLkp, new) /\ currNamedLkp' = Len(namedLkp)
  BY DEF NewNamedLkp
<1> HIDE DEF new
<1>3. Len(namedLkp') = Len(namedLkp) + 1 /\ Len(namedLkp) \in Nat
  BY <1>1, <1>2, AppendShape
<1>4. Allocated \subseteq Allocated' /\ Len(namedLkp) \in Allocated'
  BY <1>3 DEF Allocated
<1>5. NamesIn(Allocated', namedLkp')
  <2>1. NamesIn(Allocated', namedLkp)
    BY <1>4, InGrows DEF IssuedInv
  <2>2. In(Allocated', new.state.label)
    BY <1>1 DEF In
  <2>3. \A k \in 1 .. Len(namedLkp') : \/ k \in 1 .. Len(namedLkp) /\ namedLkp'[k] = namedLkp[k]
                                       \/ namedLkp'[k] = new
    BY <1>1, <1>2, AppendShape
  <2>4. \A k \in 1 .. Len(namedLkp') : In(Allocated', namedLkp'[k].state.label)
    BY <2>1, <2>2, <2>3 DEF NamesIn
  <2> QED
    BY <2>4 DEF NamesIn
<1>6. In(Allocated', currNamedLkp')
  <2>1. BaseLab(Len(namedLkp)) = Len(namedLkp)
    BY <1>3, LabelAssumption DEF BaseLab
  <2> QED
    BY <1>2, <1>4, <2>1 DEF In
<1>7. RunIn(Allocated', curr, prev, DFLTLkps, lookup, layout)
  BY <1>4, RunGrows DEF IssuedInv
<1>8. SeqIn(Allocated', DFLTLkps') /\ SeqIn(Allocated', lookup')
  BY <1>7 DEF RunIn, SeqIn
<1>9. RunIn(Allocated', curr', prev', DFLTLkps', lookup', layout')
  BY <1>7, <1>8 DEF RunIn
<1> QED
  BY <1>5, <1>6, <1>9 DEF IssuedInv

\* The state that a block leaves behind has a label that was handed out.
LEMMA CloseNamedLkpIssued ==
    ASSUME IInv, IssuedInv, CloseNamedLkp, curr' = curr, prev'.label = prev.label,
           UNCHANGED <<DFLTLkps, lookup, layout>>
    PROVE  IssuedInv'
<1> DEFINE i == BaseLab(currNamedLkp) + 1
<1>1. namedLkp \in Seq(NamedLkpType) /\ curr \in StateType
  BY DEF IInv, TypeOK
<1>2. /\ namedLkp' = [namedLkp EXCEPT ![i].state = curr]
      /\ currNamedLkp' = LAB_UNDEF /\ anonLabelCnt' = anonLabelCnt
  BY DEF CloseNamedLkp
<1> HIDE DEF i
<1>3. /\ Len(namedLkp') = Len(namedLkp)
      /\ \A k \in 1 .. Len(namedLkp) :
            namedLkp'[k].state \in {namedLkp[k].state, curr}
  <2>1. Len(namedLkp') = Len(namedLkp)
    BY <1>1, <1>2
  <2>2. ASSUME NEW k \in 1 .. Len(namedLkp)
        PROVE  namedLkp'[k].state \in {namedLkp[k].state, curr}
    <3>1. namedLkp[k] \in NamedLkpType
      BY <1>1, ElementOfSeq
    <3>2. namedLkp'[k] = IF k = i THEN [namedLkp[k] EXCEPT !.state = curr] ELSE namedLkp[k]
      BY <1>1, <1>2
    <3> QED
      BY <3>1, <3>2 DEF NamedLkpType
  <2> QED
    BY <2>1, <2>2
<1>4. Allocated' = Allocated
  BY <1>2, <1>3 DEF Allocated
<1>5. NamesIn(Allocated, namedLkp')
  <2>1. In(Allocated, curr.label) /\ NamesIn(Allocated, namedLkp)
    BY DEF IssuedInv, RunIn
  <2>2. \A k \in 1 .. Len(namedLkp') : In(Allocated, namedLkp'[k].state.label)
    BY <1>3, <2>1 DEF NamesIn
  <2> QED
    BY <2>2 DEF NamesIn
<1>6. RunIn(Allocated, curr', prev', DFLTLkps', lookup', layout')
  BY DEF IssuedInv, RunIn
<1> QED
  BY <1>2, <1>4, <1>5, <1>6 DEF IssuedInv, In

-----------------------------------------------------------------------------
(* The steps *)

\* A step that changes the layout only, and keeps its labels handed out, keeps the invariant.
LEMMA LayoutIssued ==
    ASSUME IssuedInv, LayoutIn(Allocated, layout'),
           UNCHANGED <<labelVars, curr, prev, DFLTLkps, lookup>>
    PROVE  IssuedInv'
<1>1. Allocated' = Allocated
  BY DEF Allocated
<1> QED
  BY <1>1 DEF IssuedInv, RunIn, In, SeqIn, NamesIn

\* Statements that only move between scopes.
LEMMA ScopeIssued ==
    ASSUME IInv, IssuedInv,
           \/ \E f \in Features : StartFeature(f)
           \/ \E s \in Scripts : ScriptStmt(s)
           \/ \E l \in Langs, incl \in BOOLEAN : LanguageStmt(l, incl)
           \/ \E v \in Flags : LookupFlagStmt(v)
    PROVE  IssuedInv'
<1>0. curr \in StateType
  BY DEF IInv, TypeOK
<1>1. ASSUME NEW f \in Features, StartFeature(f) PROVE IssuedInv'
  <2>1. curr'.label = curr.label
    BY <1>0, <1>1 DEF StartFeature, StateType
  <2> QED
    BY <1>1, <2>1, QuietIssued DEF StartFeature, EnterFeature
<1>2. ASSUME NEW s \in Scripts, ScriptStmt(s) PROVE IssuedInv'
  <2>1. curr'.label = curr.label
    BY <1>0, <1>2 DEF ScriptStmt, StateType
  <2> QED
    BY <1>2, <2>1, QuietIssued DEF ScriptStmt
<1>3. ASSUME NEW l \in Langs, NEW incl \in BOOLEAN, LanguageStmt(l, incl) PROVE IssuedInv'
  <2>1. curr'.label = curr.label
    BY <1>0, <1>3 DEF LanguageStmt, StateType
  <2> QED
    BY <1>3, <2>1, QuietIssued DEF LanguageStmt
<1>4. ASSUME NEW v \in Flags, LookupFlagStmt(v) PROVE IssuedInv'
  <2>1. curr'.label = curr.label
    BY <1>0, <1>4 DEF LookupFlagStmt, StateType
  <2> QED
    BY <1>4, <2>1, QuietIssued DEF LookupFlagStmt
<1> QED
  BY <1>1, <1>2, <1>3, <1>4

\* A rule's label is that of its block, that of the rule before, or a new one.
LEMMA RuleIssued ==
    ASSUME NEW k \in RuleKinds, IInv, IssuedInv, RuleStmt(k[1], k[2])
    PROVE  IssuedInv'
<1> DEFINE tbl == k[1]
           typ == k[2]
           st == Prepared(tbl, typ, curr.lkpFlag, currNamedLkp)
<1>0. /\ curr \in StateType /\ currNamedLkp \in Label /\ TypeOK /\ LangSysSeen
      /\ tbl \in Tables /\ typ \in LkpTypes
  BY FeatAssumption DEF IInv, TypeOK, LkpTypes
<1>1. curr.lkpFlag \in Nat
  BY <1>0 DEF StateType
<1> HIDE DEF tbl, typ
<1>2. st \in StateType /\ st.tbl = tbl
  BY <1>0, <1>1, PreparedType, PreparedLabel
<1>3. CASE UNCHANGED <<labelVars, runVars>>
  BY <1>3, QuietIssued
<1>4. CASE /\ PrepRule(st, currNamedLkp, {ruleCnt + 1})
           /\ UNCHANGED <<namedLkp, currNamedLkp>>
  <2>1. anonLabelCnt' = AnonLabelsAfter(st, currNamedLkp) /\ In(Allocated, currNamedLkp)
    BY <1>4 DEF PrepRule, IssuedInv
  <2>2. Allocated \subseteq Allocated' /\ In(Allocated', st.label)
    BY <1>0, <1>4, <2>1, PreparedIssued
  <2> HIDE DEF st
  <2>3. RunIn(Allocated', curr, prev, DFLTLkps, lookup, layout)
    BY <2>2, RunGrows DEF IssuedInv
  <2>4. RunIn(Allocated', curr', prev', DFLTLkps', lookup', layout')
    BY <1>0, <1>2, <1>4, <2>2, <2>3, PrepRuleIn
  <2>5. NamesIn(Allocated', namedLkp') /\ In(Allocated', currNamedLkp')
    BY <1>4, <2>1, <2>2, InGrows DEF IssuedInv
  <2> QED
    BY <2>4, <2>5 DEF IssuedInv
<1> QED
  BY <1>3, <1>4 DEF RuleStmt, Fatal, tbl, typ

\* References: those of includeDFLT and those a file makes.
LEMMA ReferenceIssued ==
    ASSUME IInv, IssuedInv, IncludeNext \/ \E n \in Names : UseLookup(n)
    PROVE  IssuedInv'
<1>0. /\ DFLTLkps \in Seq(StateType) /\ namedLkp \in Seq(NamedLkpType)
      /\ iter \in Nat /\ iterEnd \in Nat
      /\ SeqIn(Allocated, DFLTLkps) /\ NamesIn(Allocated, namedLkp)
  BY DEF IInv, TypeOK, IssuedInv, RunIn
<1>1. CASE UNCHANGED <<labelVars, runVars>>
  BY <1>1, QuietIssued
<1>2. CASE IncludeNext
  <2> DEFINE st == DFLTLkps[iter + 1]
  <2>1. iter + 1 \in 1 .. Len(DFLTLkps)
    BY <1>0, <1>2 DEF IncludeNext, IInv, IncludePosition
  <2>2. st \in StateType /\ In(Allocated, st.label)
    BY <1>0, <2>1, ElementOfSeq DEF SeqIn
  <2>3. CallLkp(st) \/ UNCHANGED <<labelVars, runVars>>
    BY <1>2 DEF IncludeNext, Fatal
  <2> HIDE DEF st
  <2> QED
    BY <1>1, <2>2, <2>3, CallLkpIssued
<1>3. ASSUME NEW n \in Names, UseLookup(n) PROVE IssuedInv'
  <2> DEFINE i == CHOOSE i \in 1 .. Len(namedLkp) : namedLkp[i].name = n
             st == namedLkp[i].state
  <2>1. \/ NameTaken(n) /\ CallLkp(st)
        \/ UNCHANGED <<labelVars, runVars>>
    BY <1>3 DEF UseLookup, Fatal
  <2>2. ASSUME NameTaken(n) PROVE st \in StateType /\ In(Allocated, st.label)
    <3>1. i \in 1 .. Len(namedLkp)
      BY <2>2 DEF NameTaken
    <3> HIDE DEF i
    <3>2. namedLkp[i] \in NamedLkpType
      BY <1>0, <3>1, ElementOfSeq
    <3> QED
      BY <1>0, <3>1, <3>2 DEF NamedLkpType, NamesIn
  <2> HIDE DEF st
  <2> QED
    BY <1>1, <2>1, <2>2, CallLkpIssued
<1> QED
  BY <1>2, <1>3

\* The beginnings of lookup blocks.
LEMMA StartIssued ==
    ASSUME NEW n \in Names, IInv, IssuedInv, StartStandAlone(n) \/ StartLookup(n)
    PROVE  IssuedInv'
<1>0. curr \in StateType /\ namedLkp \in Seq(NamedLkpType)
  BY DEF IInv, TypeOK
<1>1. CASE UNCHANGED <<labelVars, runVars>>
  BY <1>1, QuietIssued
<1>2. CASE StartStandAlone(n) /\ ~UNCHANGED <<labelVars, runVars>>
  <2>1. /\ ~(Len(namedLkp) >= FEAT_NAMED_LKP_END)
        /\ EnterFeature(STAND_ALONE) /\ NewNamedLkp(n, TRUE)
        /\ curr' = [curr EXCEPT !.feature = STAND_ALONE, !.script = STAND_ALONE,
                                !.language = "dflt", !.lkpFlag = 0]
        /\ UNCHANGED <<anonLabelCnt, prev, layout>>
    BY <1>2 DEF StartStandAlone, Fatal
  <2>2. curr'.label = curr.label
    BY <1>0, <2>1 DEF StateType
  <2>3. Len(namedLkp) < FEAT_NAMED_LKP_END
    BY <1>0, <2>1, LabelAssumption
  <2> QED
    BY <2>1, <2>2, <2>3, NewNamedLkpIssued DEF EnterFeature
<1>3. CASE StartLookup(n) /\ ~UNCHANGED <<labelVars, runVars>>
  <2>1. /\ ~(Len(namedLkp) >= FEAT_NAMED_LKP_END)
        /\ NewNamedLkp(n, FALSE)
        /\ UNCHANGED <<anonLabelCnt, runVars>>
    BY <1>3 DEF StartLookup
  <2>2. Len(namedLkp) < FEAT_NAMED_LKP_END
    BY <1>0, <2>1, LabelAssumption
  <2> QED
    BY <2>1, <2>2, NewNamedLkpIssued
<1> QED
  BY <1>1, <1>2, <1>3

\* The ends of blocks, and the registration that follows them.
LEMMA EndIssued ==
    ASSUME IInv, IssuedInv,
           EndLookup \/ EndFeature \/ RegisterLookup \/ RegisterNextLangSys \/ RegisterDone
    PROVE  IssuedInv'
<1>0. /\ TypeOK /\ curr \in StateType /\ prev \in StateType
      /\ layout \in LayoutType /\ hadError \in BOOLEAN
      /\ LayoutIn(Allocated, layout) /\ SeqIn(Allocated, lookup)
      /\ lookup \in Seq(LookupInfoType) /\ regPos \in Nat \ {0}
  BY DEF IInv, TypeOK, LayoutType, IssuedInv, RunIn
<1>1. CASE UNCHANGED <<labelVars, runVars>>
  BY <1>1, QuietIssued
<1>2. CASE BeginRegister
  <2>1. layout' = CloseRun(curr) /\ UNCHANGED <<labelVars, curr, prev, DFLTLkps, lookup>>
    BY <1>2 DEF BeginRegister
  <2> QED
    BY <1>0, <2>1, CloseIn, LayoutIssued
<1>3. CASE CloseNamedLkp /\ UNCHANGED runVars
  BY <1>3, CloseNamedLkpIssued
<1>4. CASE EndLookup \/ EndFeature
  BY <1>1, <1>2, <1>3, <1>4 DEF EndLookup, EndFeature, Fatal
<1>5. CASE RegisterLookup
  <2> DEFINE ls == FirstOf(regTodo)
             lkp == lookup[regPos]
             tbl == RegTable(lkp)
             begun == LookupBegin(layout, tbl, ls[1], ls[2], curr.feature,
                                  lkp.lkpType, lkp.lkpFlag, RefLab(lkp.label))
  <2>1. regPos \in 1 .. Len(lookup)
    BY <1>0, <1>5 DEF RegisterLookup
  <2>2. lkp \in LookupInfoType /\ In(Allocated, lkp.label)
    BY <1>0, <2>1, ElementOfSeq DEF SeqIn
  <2>3. tbl \in Tables
    BY DEF RegTable, Tables
  <2>4. layout' = LookupEnd(begun, tbl, hadError)
        /\ UNCHANGED <<labelVars, curr, prev, DFLTLkps, lookup>>
    BY <1>5 DEF RegisterLookup
  <2>5. ls[1] \in Scripts /\ ls[2] \in Langs
    <3>1. regTodo \subseteq LangSys /\ regTodo # {}
      BY <1>5 DEF RegisterLookup, IInv, TypeOK
    <3>2. FirstOf(regTodo) \in Scripts \X Langs
      BY <3>1, FirstOfMember DEF LangSys
    <3> QED
      BY <3>2
  <2>6. /\ RefLab(lkp.label) \in Label /\ lkp.lkpType \in LkpTypes /\ lkp.lkpFlag \in Nat
        /\ In(Allocated, RefLab(lkp.label))
    BY <2>2, RefLabProperties, RefIn DEF LookupInfoType
  <2>7. curr.feature \in Features \cup {UNDEF, STAND_ALONE}
    BY <1>0 DEF StateType
  <2> HIDE DEF ls, lkp, tbl
  <2>8. begun \in LayoutType /\ LayoutIn(Allocated, begun)
    BY <1>0, <2>3, <2>5, <2>6, <2>7, BeginIn, LookupBeginType
  <2> HIDE DEF begun
  <2>9. LayoutIn(Allocated, LookupEnd(begun, tbl, hadError))
    BY <1>0, <2>3, <2>8, EndIn
  <2> QED
    BY <2>4, <2>9, LayoutIssued
<1>6. CASE RegisterNextLangSys
  BY <1>1, <1>6 DEF RegisterNextLangSys
<1>7. CASE RegisterDone
  <2>1. prev'.label = prev.label /\ curr' = curr /\ UNCHANGED <<DFLTLkps, lookup, layout>>
    BY <1>0, <1>7 DEF RegisterDone, Closed, StateType
  <2>2. CloseNamedLkp \/ UNCHANGED labelVars
    BY <1>7 DEF RegisterDone
  <2> QED
    BY <2>1, <2>2, QuietIssued, CloseNamedLkpIssued
<1> QED
  BY <1>4, <1>5, <1>6, <1>7

\* Every step keeps the invariant.
LEMMA NextIssued == IInv /\ IssuedInv /\ [Next]_vars => IssuedInv'
<1> SUFFICES ASSUME IInv, IssuedInv, [Next]_vars PROVE IssuedInv'
  OBVIOUS
<1>1. CASE UNCHANGED <<labelVars, runVars>>
  BY <1>1, QuietIssued
<1>2. ASSUME NEW s \in Scripts, NEW l \in Langs, LangSystem(s, l) PROVE IssuedInv'
  BY <1>1, <1>2 DEF LangSystem
<1>3. CASE EndOfFile \/ IncludeInvalidated \/ IncludeDone \/ Finished \/ UNCHANGED vars
  BY <1>1, <1>3 DEF EndOfFile, IncludeInvalidated, IncludeDone, Finished, Fatal, vars
<1>4. ASSUME NEW k \in RuleKinds, RuleStmt(k[1], k[2]) PROVE IssuedInv'
  BY <1>4, RuleIssued
<1>5. ASSUME NEW n \in Names, StartStandAlone(n) \/ StartLookup(n) PROVE IssuedInv'
  BY <1>5, StartIssued
<1>6. CASE \/ \E f \in Features : StartFeature(f)
           \/ \E s \in Scripts : ScriptStmt(s)
           \/ \E l \in Langs, incl \in BOOLEAN : LanguageStmt(l, incl)
           \/ \E v \in Flags : LookupFlagStmt(v)
  BY <1>6, ScopeIssued
<1>7. CASE IncludeNext \/ \E n \in Names : UseLookup(n)
  BY <1>7, ReferenceIssued
<1>8. CASE EndLookup \/ EndFeature \/ RegisterLookup \/ RegisterNextLangSys \/ RegisterDone
  BY <1>8, EndIssued
<1> QED
  BY <1>2, <1>3, <1>4, <1>5, <1>6, <1>7, <1>8 DEF Next

\* In the beginning there are no labels.
LEMMA InitIssued == Init => IssuedInv
<1> SUFFICES ASSUME Init PROVE IssuedInv
  OBVIOUS
<1>1. /\ curr = NoState /\ prev = NoState /\ DFLTLkps = <<>> /\ lookup = <<>>
      /\ namedLkp = <<>> /\ currNamedLkp = LAB_UNDEF /\ layout = EmptyLayout
  BY DEF Init
<1>2. NoState.label = LAB_UNDEF
  BY DEF NoState
<1>3. \A tbl \in Tables : layout[tbl].new.label = LAB_UNDEF /\ layout[tbl].subtables = <<>>
  BY <1>1 DEF EmptyLayout, NoLookup
<1>4. LayoutIn(Allocated, layout)
  BY <1>3 DEF LayoutIn, In
<1> QED
  BY <1>1, <1>2, <1>4 DEF IssuedInv, RunIn, NamesIn, SeqIn, In

\* getNextAnonLabel and getNextNamedLkpLabel never return a label that something refers to
\* already: whatever the file and its errors, every label in use was handed out before.
THEOREM LabelsAreIssued == Spec => []LabelsIssued
  BY InitIssued, InitIInv, NextIInv, NextIssued, IssuedInvIs, PTL DEF Spec

-----------------------------------------------------------------------------
(* Names.  The lookup block that is open is the last one, and nothing that *)
(* files without errors have in a block takes its label away.              *)

NamesRight == \A i \in 1 .. Len(namedLkp) : currNamedLkp # i - 1 => namedLkp[i].state.label = i - 1

BlockInv ==
    /\ InBlock => /\ namedLkp # <<>> /\ currNamedLkp = Len(namedLkp) - 1
                  /\ namedLkp[Len(namedLkp)].isTopLevel = (nest = "alone")
                  /\ curr.feature \notin Restricted
    /\ ~InBlock => currNamedLkp = LAB_UNDEF
    /\ pc = "include" => nest = "feature"
    /\ pc = "register" /\ InBlock => nest = "alone" /\ curr.label = currNamedLkp
    /\ NamesRight

NamedInv == Len(namedLkp) <= FEAT_NAMED_LKP_END /\ (~hadError => BlockInv)

\* A step that neither opens nor closes a block keeps the invariant.
LEMMA FrameNamed ==
    ASSUME NamedInv, UNCHANGED namedLkp,
           ~hadError' => /\ ~hadError
                         /\ UNCHANGED <<currNamedLkp, InBlock>>
                         /\ InBlock => nest' = nest /\ curr'.feature = curr.feature
                         /\ pc' = "include" => nest' = "feature"
                         /\ pc' = "register" /\ InBlock => pc = "register" /\ curr' = curr
    PROVE  NamedInv'
<1>1. ASSUME ~hadError' PROVE BlockInv'
  <2>1. BlockInv /\ NamesRight
    BY <1>1 DEF NamedInv, BlockInv
  <2>2. NamesRight'
    BY <1>1, <2>1 DEF NamesRight
  <2> QED
    BY <1>1, <2>1, <2>2 DEF BlockInv
<1> QED
  BY <1>1 DEF NamedInv

\* The label of a name is not LAB_UNDEF.
LEMMA NamedNotUndef ==
    ASSUME TypeOK, NamedInv, NEW i \in 1 .. Len(namedLkp)
    PROVE  i - 1 # LAB_UNDEF /\ BaseLab(i - 1) = i - 1
<1>1. Len(namedLkp) \in Nat /\ Len(namedLkp) <= FEAT_NAMED_LKP_END
  BY DEF TypeOK, NamedInv
<1> QED
  BY <1>1, LabelAssumption DEF LAB_UNDEF, BaseLab

\* A block that begins is the last one of namedLkp.
LEMMA NewNamed ==
    ASSUME TypeOK, NamedInv, NEW n \in Names, NEW isTopLevel \in BOOLEAN,
           ~(Len(namedLkp) >= FEAT_NAMED_LKP_END), ~InBlock, pc' = "stmt",
           NewNamedLkp(n, isTopLevel), UNCHANGED hadError,
           nest' = IF isTopLevel THEN "alone" ELSE "block",
           curr'.feature \notin Restricted
    PROVE  NamedInv'
<1> DEFINE new == [name |-> n, isTopLevel |-> isTopLevel, state |-> NoState]
<1>1. namedLkp \in Seq(NamedLkpType) /\ new \in NamedLkpType /\ new.isTopLevel = isTopLevel
  <2>1. LAB_UNDEF \in Label
    BY LabelAssumption DEF Label, LAB_UNDEF
  <2>2. NoState \in StateType
    BY <2>1 DEF NoState, StateType, LkpTypes, UNDEF
  <2> QED
    BY <2>2 DEF TypeOK, NamedLkpType
<1>2. namedLkp' = Append(namedLkp, new) /\ currNamedLkp' = Len(namedLkp)
  BY DEF NewNamedLkp
<1> HIDE DEF new
<1>3. /\ Len(namedLkp') = Len(namedLkp) + 1 /\ Len(namedLkp) \in Nat
      /\ namedLkp'[Len(namedLkp) + 1] = new
      /\ \A k \in 1 .. Len(namedLkp) : namedLkp'[k] = namedLkp[k]
  BY <1>1, <1>2, AppendProperties, LenProperties
<1>4. Len(namedLkp') <= FEAT_NAMED_LKP_END
  BY <1>3, LabelAssumption
<1>5. ASSUME ~hadError PROVE NamesRight'
  <2>1. NamesRight /\ currNamedLkp = LAB_UNDEF
    BY <1>5 DEF NamedInv, BlockInv
  <2>2. ASSUME NEW i \in 1 .. Len(namedLkp'), currNamedLkp' # i - 1
        PROVE  namedLkp'[i].state.label = i - 1
    <3>1. i \in 1 .. Len(namedLkp)
      BY <1>2, <1>3, <2>2
    <3>2. currNamedLkp # i - 1
      BY <2>1, <3>1, NamedNotUndef
    <3> QED
      BY <1>3, <2>1, <3>1, <3>2 DEF NamesRight
  <2> QED
    BY <2>2 DEF NamesRight
<1>6. ASSUME ~hadError PROVE BlockInv'
  <2>1. namedLkp' # <<>>
    BY <1>3
  <2>2. namedLkp'[Len(namedLkp')].isTopLevel = (nest' = "alone")
    BY <1>1, <1>3
  <2>3. currNamedLkp' = Len(namedLkp') - 1 /\ InBlock'
    BY <1>2, <1>3 DEF InBlock
  <2> QED
    BY <1>5, <1>6, <2>1, <2>2, <2>3 DEF BlockInv
<1> QED
  BY <1>4, <1>6 DEF NamedInv

\* A block that ends leaves its label in namedLkp.
LEMMA CloseNamed ==
    ASSUME TypeOK, NamedInv, CloseNamedLkp, UNCHANGED hadError, pc' = "stmt",
           nest' \in {"file", "feature"},
           ~hadError => InBlock /\ curr.label = currNamedLkp
    PROVE  NamedInv'
<1> DEFINE m == BaseLab(currNamedLkp) + 1
<1>1. namedLkp \in Seq(NamedLkpType) /\ curr \in StateType
  BY DEF TypeOK
<1>2. namedLkp' = [namedLkp EXCEPT ![m].state = curr] /\ currNamedLkp' = LAB_UNDEF
  BY DEF CloseNamedLkp
<1> HIDE DEF m
<1>3. Len(namedLkp') = Len(namedLkp) /\ Len(namedLkp) \in Nat
  BY <1>1, <1>2
<1>4. ASSUME ~hadError PROVE NamesRight'
  <2>1. /\ namedLkp # <<>> /\ currNamedLkp = Len(namedLkp) - 1
        /\ NamesRight /\ curr.label = currNamedLkp
    BY <1>4 DEF NamedInv, BlockInv
  <2>2. Len(namedLkp) \in 1 .. Len(namedLkp)
    BY <1>1, <1>3, <2>1
  <2>3. m = Len(namedLkp)
    BY <1>3, <2>1, <2>2, NamedNotUndef DEF m
  <2>4. ASSUME NEW i \in 1 .. Len(namedLkp) PROVE namedLkp'[i].state.label = i - 1
    <3>1. namedLkp[i] \in NamedLkpType
      BY <1>1, ElementOfSeq
    <3>2. namedLkp'[i] = IF i = m THEN [namedLkp[i] EXCEPT !.state = curr] ELSE namedLkp[i]
      BY <1>1, <1>2
    <3>3. CASE i = m
      <4>1. namedLkp'[i].state = curr
        BY <3>1, <3>2, <3>3 DEF NamedLkpType
      <4> QED
        BY <2>1, <2>3, <3>3, <4>1
    <3>4. CASE i # m
      BY <1>3, <2>1, <2>3, <3>2, <3>4 DEF NamesRight
    <3> QED
      BY <3>3, <3>4
  <2> QED
    BY <1>3, <2>4 DEF NamesRight
<1>5. ASSUME ~hadError PROVE BlockInv'
  BY <1>2, <1>4, <1>5 DEF BlockInv, InBlock
<1> QED
  BY <1>3, <1>5 DEF NamedInv

\* Every step keeps the invariant, in files whose blocks have rules and leave the script
\* and the language alone.
LEMMA NextNamed ==
    ASSUME "blockLang" \notin Forms, "emptyBlock" \notin Forms,
           IInv, NamedInv, [Next]_vars
    PROVE  NamedInv'
<1>0. /\ TypeOK /\ curr \in StateType /\ hadError \in BOOLEAN
      /\ nest \in {"file", "feature", "block", "alone"}
  BY DEF IInv, TypeOK
<1>1. CASE UNCHANGED vars
  <2>1. ~hadError => (pc = "include" => nest = "feature")
    BY DEF NamedInv, BlockInv
  <2> QED
    BY <1>1, <2>1, FrameNamed DEF vars, InBlock
<1>2. CASE Fatal
  BY <1>2, FrameNamed DEF Fatal, InBlock
<1>3. ASSUME NEW s \in Scripts, NEW l \in Langs, LangSystem(s, l) PROVE NamedInv'
  <2>1. ~hadError' => ~hadError
    BY <1>3 DEF LangSystem
  <2> QED
    BY <1>3, <2>1, FrameNamed DEF LangSystem, Ready, InBlock
<1>4. ASSUME NEW f \in Features, StartFeature(f) PROVE NamedInv'
  BY <1>4, FrameNamed DEF StartFeature, Ready, InBlock
<1>5. ASSUME NEW n \in Names, StartStandAlone(n) PROVE NamedInv'
  <2>1. CASE Fatal
    BY <1>2, <2>1
  <2>2. CASE ~Fatal
    <3>1. /\ ~(Len(namedLkp) >= FEAT_NAMED_LKP_END) /\ NewNamedLkp(n, TRUE)
          /\ curr' = [curr EXCEPT !.feature = STAND_ALONE, !.script = STAND_ALONE,
                                  !.language = "dflt", !.lkpFlag = 0]
          /\ nest = "file" /\ nest' = "alone" /\ pc' = "stmt" /\ UNCHANGED hadError
      BY <1>5, <2>2 DEF StartStandAlone, Ready
    <3>2. curr'.feature = STAND_ALONE
      BY <1>0, <3>1 DEF StateType
    <3>3. curr'.feature \notin Restricted
      BY <3>2 DEF STAND_ALONE, Restricted
    <3> QED
      BY <1>0, <3>1, <3>3, NewNamed DEF InBlock
  <2> QED
    BY <2>1, <2>2
<1>6. ASSUME NEW s \in Scripts, ScriptStmt(s) PROVE NamedInv'
  <2>1. (~hadError' => ~hadError) /\ ~InBlock
    BY <1>6 DEF ScriptStmt, AllowedScope
  <2> QED
    BY <1>6, <2>1, FrameNamed DEF ScriptStmt, Ready, InBlock
<1>7. ASSUME NEW l \in Langs, NEW incl \in BOOLEAN, LanguageStmt(l, incl) PROVE NamedInv'
  <2>1. (~hadError' => ~hadError) /\ ~InBlock /\ nest # "file" /\ pc = "stmt"
    BY <1>7 DEF LanguageStmt, AllowedScope, Ready
  <2>2. nest = "feature" /\ pc' \in {"stmt", "include"} /\ UNCHANGED <<nest, namedLkp, currNamedLkp>>
    BY <1>0, <1>7, <2>1 DEF LanguageStmt, InBlock
  <2> QED
    BY <2>1, <2>2, FrameNamed DEF InBlock
<1>8. ASSUME NEW st, CallLkp(st), ~hadError => nest = "feature", pc \in {"stmt", "include"}
      PROVE  NamedInv'
  <2>1. /\ currNamedLkp' = LAB_UNDEF /\ UNCHANGED <<pc, nest, hadError, namedLkp>>
    BY <1>8 DEF CallLkp
  <2>2. ~hadError => currNamedLkp = LAB_UNDEF
    BY <1>8 DEF NamedInv, BlockInv, InBlock
  <2> QED
    BY <1>8, <2>1, <2>2, FrameNamed DEF InBlock
<1>9. CASE IncludeNext
  <2>1. pc = "include" /\ (~hadError => nest = "feature")
    BY <1>9 DEF IncludeNext, NamedInv, BlockInv
  <2> QED
    BY <1>2, <1>8, <1>9, <2>1 DEF IncludeNext
<1>10. CASE IncludeInvalidated
  BY <1>2, <1>10 DEF IncludeInvalidated
<1>11. CASE IncludeDone \/ EndOfFile \/ Finished
  BY <1>1, <1>11, FrameNamed DEF IncludeDone, EndOfFile, Finished, InBlock
<1>12. ASSUME NEW v \in Flags, LookupFlagStmt(v) PROVE NamedInv'
  <2>1. curr'.feature = curr.feature
    BY <1>0, <1>12 DEF LookupFlagStmt, StateType
  <2>2. ~hadError' => ~hadError
    BY <1>12 DEF LookupFlagStmt
  <2> QED
    BY <1>12, <2>1, <2>2, FrameNamed DEF LookupFlagStmt, Ready, InBlock
<1>13. ASSUME NEW k \in RuleKinds, RuleStmt(k[1], k[2]) PROVE NamedInv'
  <2> DEFINE st == Prepared(k[1], k[2], curr.lkpFlag, currNamedLkp)
  <2>1. st.feature = curr.feature
    BY <1>0, PreparedFeature
  <2>2. \/ Fatal
        \/ curr' \in {curr, st} /\ pc = "stmt"
           /\ UNCHANGED <<pc, hadError, nest, namedLkp, currNamedLkp>>
    BY <1>13 DEF RuleStmt, PrepRule
  <2> HIDE DEF st
  <2> QED
    BY <1>2, <2>1, <2>2, FrameNamed DEF InBlock
<1>14. ASSUME NEW n \in Names, StartLookup(n) PROVE NamedInv'
  <2>1. nest = "feature" /\ pc = "stmt" /\ curr' = curr
    BY <1>14 DEF StartLookup, Ready
  <2>2. CASE curr.feature \in Restricted
    BY <1>14, <2>2, FrameNamed DEF StartLookup
  <2>3. CASE curr.feature \notin Restricted
             /\ (NameTaken(n) \/ Len(namedLkp) >= FEAT_NAMED_LKP_END)
    BY <1>14, <2>1, <2>3, FrameNamed DEF StartLookup, InBlock
  <2>4. CASE curr.feature \notin Restricted
             /\ ~(NameTaken(n) \/ Len(namedLkp) >= FEAT_NAMED_LKP_END)
    <3>1. NewNamedLkp(n, FALSE) /\ nest' = "block" /\ UNCHANGED <<pc, hadError>>
      BY <1>14, <2>4 DEF StartLookup
    <3> QED
      BY <1>0, <2>1, <2>4, <3>1, NewNamed DEF InBlock
  <2> QED
    BY <2>2, <2>3, <2>4
<1>15. CASE EndLookup
  <2>1. pc = "stmt" /\ InBlock /\ MayEnd
    BY <1>15 DEF EndLookup
  <2>2. ASSUME ~hadError
        PROVE  /\ curr.feature \notin Restricted /\ curr.label = currNamedLkp
               /\ namedLkp[BaseLab(currNamedLkp) + 1].isTopLevel = (nest = "alone")
    <3>1. /\ curr.feature \notin Restricted /\ namedLkp # <<>>
          /\ currNamedLkp = Len(namedLkp) - 1
          /\ namedLkp[Len(namedLkp)].isTopLevel = (nest = "alone")
      BY <2>1, <2>2 DEF NamedInv, BlockInv
    <3>2. Len(namedLkp) \in 1 .. Len(namedLkp) /\ Len(namedLkp) \in Nat
      BY <1>0, <3>1 DEF TypeOK
    <3>3. currNamedLkp # LAB_UNDEF /\ BaseLab(currNamedLkp) + 1 = Len(namedLkp)
      BY <1>0, <3>1, <3>2, NamedNotUndef
    <3> QED
      BY <2>1, <3>1, <3>3 DEF MayEnd, BlockHasRule
  <2>3. CASE curr.feature \in Restricted
    <3>1. hadError' = hadError /\ UNCHANGED namedLkp
      BY <1>15, <2>3 DEF EndLookup
    <3> QED
      BY <2>2, <2>3, <3>1, FrameNamed
  <2>4. CASE curr.feature \notin Restricted /\ ~HasNamedLkp(currNamedLkp)
    BY <1>2, <1>15, <2>4 DEF EndLookup
  <2>5. CASE BeginRegister /\ namedLkp[BaseLab(currNamedLkp) + 1].isTopLevel
    <3>1. /\ pc' = "register"
          /\ UNCHANGED <<nest, hadError, namedLkp, currNamedLkp, curr>>
      BY <2>5 DEF BeginRegister
    <3>2. ASSUME ~hadError' PROVE BlockInv'
      <4>1. BlockInv /\ NamesRight /\ nest = "alone" /\ curr.label = currNamedLkp
        BY <2>2, <2>5, <3>1, <3>2 DEF NamedInv, BlockInv
      <4>2. NamesRight'
        BY <3>1, <4>1 DEF NamesRight
      <4> QED
        BY <2>1, <3>1, <4>1, <4>2 DEF BlockInv, InBlock
    <3> QED
      BY <3>1, <3>2 DEF NamedInv
  <2>6. CASE CloseNamedLkp /\ nest' = "feature" /\ UNCHANGED <<pc, hadError>>
    BY <1>0, <2>1, <2>2, <2>6, CloseNamed
  <2> QED
    BY <1>15, <2>3, <2>4, <2>5, <2>6 DEF EndLookup
<1>16. ASSUME NEW n \in Names, UseLookup(n) PROVE NamedInv'
  <2>1. nest = "feature" /\ pc = "stmt"
    BY <1>16 DEF UseLookup, Ready
  <2>2. CASE hadError' = TRUE /\ UNCHANGED namedLkp
    BY <2>2, FrameNamed
  <2> QED
    BY <1>2, <1>8, <1>16, <2>1, <2>2 DEF UseLookup
<1>17. CASE EndFeature
  <2>1. nest = "feature" /\ pc = "stmt"
    BY <1>17 DEF EndFeature
  <2>2. /\ nest' \in {"file", "feature"} /\ pc' \in {"stmt", "register"}
        /\ UNCHANGED <<hadError, namedLkp, currNamedLkp>>
    BY <1>17, <2>1 DEF EndFeature, BeginRegister
  <2> QED
    BY <2>1, <2>2, FrameNamed DEF InBlock
<1>18. CASE RegisterLookup \/ RegisterNextLangSys
  BY <1>18, FrameNamed DEF RegisterLookup, RegisterNextLangSys, InBlock
<1>19. CASE RegisterDone
  <2>1. pc = "register" /\ pc' = "stmt" /\ nest' = "file" /\ UNCHANGED hadError
    BY <1>19 DEF RegisterDone
  <2>2. CASE nest = "alone"
    <3>1. CloseNamedLkp /\ InBlock
      BY <1>19, <2>2 DEF RegisterDone, InBlock
    <3>2. ~hadError => curr.label = currNamedLkp
      BY <2>1, <3>1 DEF NamedInv, BlockInv
    <3> QED
      BY <1>0, <2>1, <3>1, <3>2, CloseNamed
  <2>3. CASE nest # "alone"
    <3>1. UNCHANGED labelVars
      BY <1>19, <2>3 DEF RegisterDone
    <3>2. ~hadError => ~InBlock
      BY <2>1, <2>3 DEF NamedInv, BlockInv
    <3> QED
      BY <2>1, <3>1, <3>2, FrameNamed DEF InBlock
  <2> QED
    BY <2>2, <2>3
<1> QED
  BY <1>1, <1>3, <1>4, <1>5, <1>6, <1>7, <1>9, <1>10, <1>11, <1>12, <1>13, <1>14, <1>15,
     <1>16, <1>17, <1>18, <1>19 DEF Next

\* In the beginning there are no lookup blocks.
LEMMA InitNamed == Init => NamedInv
<1> SUFFICES ASSUME Init PROVE NamedInv
  OBVIOUS
<1>1. namedLkp = <<>> /\ currNamedLkp = LAB_UNDEF /\ nest = "file" /\ pc = "stmt"
  BY DEF Init
<1> QED
  BY <1>1, LabelAssumption DEF NamedInv, BlockInv, NamesRight, InBlock

\* Named lookups are found again: in files whose blocks have rules and leave the script
\* and the language alone, a name stands for the label that the rules of its block were
\* given, whatever was read since.
THEOREM NamesAreKept ==
    ASSUME "blockLang" \notin Forms, "emptyBlock" \notin Forms
    PROVE  Spec => []NamedRefersToItself
<1>1. IInv /\ NamedInv /\ [Next]_vars => NamedInv'
  BY NextNamed
<1>2. NamedInv => NamedRefersToItself
  BY DEF NamedInv, BlockInv, NamesRight, NamedRefersToItself
<1> QED
  BY <1>1, <1>2, InitNamed, InitIInv, NextIInv, PTL DEF Spec

-----------------------------------------------------------------------------
(* Rules of lookups.  The lookup of the last rule is open and has one, or  *)
(* is a reference.                                                         *)

HasContent(s) == IsRefLab(s.label) \/ s.rules # {}
Filled(lay) ==
    \A tbl \in Tables : \A k \in 1 .. Len(lay[tbl].subtables) : HasContent(lay[tbl].subtables[k])
Real(s) == \A k \in 1 .. Len(s) : s[k].label # LAB_UNDEF

OpenInv ==
    /\ prev.tbl \in {curr.tbl, UNDEF} /\ prev.label = curr.label
    /\ prev.tbl # UNDEF => prev.label # LAB_UNDEF
    /\ InBlock /\ curr.label = currNamedLkp => prev.tbl # UNDEF
    /\ pc # "register" /\ prev.tbl # UNDEF => HasContent(layout[prev.tbl].new)
    /\ Real(DFLTLkps) /\ Real(lookup)
    /\ Filled(layout)

OpenRunInv == ~hadError => OpenInv

\* OpenRunInv is stronger than NoEmptyLookup.
LEMMA OpenRunInvImplies == OpenRunInv => NoEmptyLookup
<1> SUFFICES ASSUME OpenRunInv, ~hadError, NEW tbl \in Tables, NEW d \in Definitions(tbl)
             PROVE  d.rules # {}
  BY DEF NoEmptyLookup
<1>1. PICK k \in 1 .. Len(layout[tbl].subtables) : d = layout[tbl].subtables[k]
  BY DEF Definitions, Subtables
<1>2. ~IsRefLab(d.label)
  BY DEF Definitions
<1> QED
  BY <1>1, <1>2 DEF OpenRunInv, OpenInv, Filled, HasContent

\* Beginning a lookup adds none to the table.
LEMMA BeginFilled ==
    ASSUME NEW lay \in LayoutType, NEW tbl \in Tables, NEW s, NEW l, NEW f, NEW typ,
           NEW flag, NEW lab, Filled(lay)
    PROVE  Filled(LookupBegin(lay, tbl, s, l, f, typ, flag, lab))
<1> DEFINE r == LookupBegin(lay, tbl, s, l, f, typ, flag, lab)
<1>1. \A t \in Tables : r[t].subtables = lay[t].subtables
  BY LookupBeginShape
<1> HIDE DEF r
<1> QED
  BY <1>1 DEF Filled, r

\* Adding a rule adds none either, and the accumulator has that rule.
LEMMA AddFilled ==
    ASSUME NEW lay \in LayoutType, NEW tbl \in Tables, NEW rule, NEW err \in BOOLEAN, ~err,
           Filled(lay)
    PROVE  /\ Filled(RuleAdd(lay, tbl, rule, err))
           /\ HasContent(RuleAdd(lay, tbl, rule, err)[tbl].new)
<1> DEFINE r == RuleAdd(lay, tbl, rule, err)
<1>1. (\A t \in Tables : r[t].subtables = lay[t].subtables) /\ r[tbl].new.rules # {}
  BY RuleAddShape
<1> HIDE DEF r
<1> QED
  BY <1>1 DEF Filled, HasContent, r

\* Ending a lookup that has content adds a lookup that has content.
LEMMA EndFilled ==
    ASSUME NEW lay \in LayoutType, NEW tbl \in Tables, NEW err \in BOOLEAN,
           Filled(lay), HasContent(lay[tbl].new)
    PROVE  Filled(LookupEnd(lay, tbl, err))
<1> DEFINE r == LookupEnd(lay, tbl, err)
           subs == lay[tbl].subtables
           new == lay[tbl].new
<1>1. /\ \A t \in Tables : t # tbl => r[t] = lay[t]
      /\ r[tbl].subtables \in {subs, Append(subs, new)}
  BY LookupEndShape
<1>2. subs \in Seq(SubtableType) /\ new \in SubtableType
  BY DEF LayoutType
<1>3. HasContent(new) /\ \A k \in 1 .. Len(subs) : HasContent(subs[k])
  BY DEF Filled
<1> HIDE DEF r, subs, new
<1>4. \A k \in 1 .. Len(Append(subs, new)) : HasContent(Append(subs, new)[k])
  BY <1>2, <1>3, AppendShape
<1>5. \A k \in 1 .. Len(r[tbl].subtables) : HasContent(r[tbl].subtables[k])
  BY <1>1, <1>3, <1>4
<1> QED
  BY <1>1, <1>5 DEF Filled, r

\* A reference to a label that was handed out is told apart from a definition.
LEMMA RefIsRef ==
    ASSUME TypeOK, NamedInv, NEW lab \in Label, In(Allocated, lab), lab # LAB_UNDEF
    PROVE  RefLab(lab) # LAB_UNDEF /\ IsRefLab(RefLab(lab))
<1>1. /\ anonLabelCnt \in FEAT_ANON_LKP_BEG .. FEAT_ANON_LKP_END + 1
      /\ Len(namedLkp) \in Nat /\ Len(namedLkp) <= FEAT_NAMED_LKP_END
  BY DEF TypeOK, NamedInv
<1>2. BaseLab(lab) \in Allocated
  BY DEF In
<1>3. BaseLab(lab) = LAB_UNDEF \/ BaseLab(lab) <= FEAT_ANON_LKP_END
  BY <1>1, <1>2, LabelAssumption DEF Allocated, FEAT_ANON_LKP_BEG
<1> QED
  BY <1>3, LabelAssumption DEF BaseLab, RefLab, IsRefLab, Label, LAB_UNDEF

\* A step that opens and ends no lookup keeps the invariant.
LEMMA FrameOpen ==
    ASSUME OpenRunInv,
           ~hadError' =>
               /\ ~hadError /\ layout' = layout
               /\ curr'.tbl = curr.tbl /\ curr'.label = curr.label
               /\ prev'.tbl \in {prev.tbl, UNDEF} /\ prev'.label = prev.label
               /\ DFLTLkps' \in {DFLTLkps, <<>>} /\ lookup' \in {lookup, <<>>}
               /\ InBlock' => \/ curr'.label # currNamedLkp'
                              \/ InBlock /\ currNamedLkp' = currNamedLkp /\ prev' = prev
               /\ pc' # "register" => pc # "register" \/ prev'.tbl = UNDEF
    PROVE  OpenRunInv'
<1> SUFFICES ASSUME ~hadError' PROVE OpenInv'
  BY DEF OpenRunInv
<1>1. OpenInv
  BY DEF OpenRunInv
<1>2. Real(DFLTLkps') /\ Real(lookup')
  BY <1>1 DEF OpenInv, Real
<1> QED
  BY <1>1, <1>2 DEF OpenInv, Filled

\* prepRule ends a lookup that has content, if it ends one, and the one that is open when
\* wrapUpRule returns has content.
LEMMA PrepRuleOpen ==
    ASSUME TypeOK, OpenInv, ~hadError, NEW st \in StateType, NEW named, NEW rules,
           PrepRule(st, named, rules), UNCHANGED hadError,
           pc # "register", pc' # "register",
           st.label # LAB_UNDEF,
           IF rules = {} THEN IsRefLab(st.label) /\ ~InBlock' ELSE st.tbl \in Tables
    PROVE  OpenRunInv'
<1>0. /\ layout \in LayoutType /\ hadError \in BOOLEAN /\ prev \in StateType
      /\ DFLTLkps \in Seq(StateType) /\ lookup \in Seq(LookupInfoType)
  BY DEF TypeOK, LayoutType
<1>1. curr' = st /\ prev' = st
  BY DEF PrepRule
<1>2. Real(DFLTLkps')
  <2> DEFINE kept == IF st.feature = prev.feature /\ st.script = prev.script
                     THEN DFLTLkps ELSE <<>>
  <2>1. DFLTLkps' \in {kept, Append(kept, st)}
    BY DEF PrepRule
  <2>2. kept \in Seq(StateType) /\ Real(kept)
    BY <1>0 DEF OpenInv, Real
  <2> HIDE DEF kept
  <2>3. Real(Append(kept, st))
    BY <2>2, AppendShape DEF Real
  <2> QED
    BY <2>1, <2>2, <2>3
<1>3. Real(lookup')
  <2> DEFINE info == [tbl |-> st.tbl, lkpType |-> st.lkpType, lkpFlag |-> st.lkpFlag,
                      label |-> st.label]
  <2>1. lookup' \in {lookup, Append(lookup, info)}
    BY DEF PrepRule
  <2>2. info \in LookupInfoType /\ info.label = st.label
    BY DEF StateType, LookupInfoType
  <2> HIDE DEF info
  <2>3. Real(lookup)
    BY DEF OpenInv
  <2>4. Real(Append(lookup, info))
    BY <1>0, <2>2, <2>3, AppendShape DEF Real
  <2> QED
    BY <2>1, <2>3, <2>4
<1>4. CloseRun(prev) \in LayoutType /\ Filled(CloseRun(prev))
  <2>1. CASE prev.tbl = UNDEF
    BY <1>0, <2>1 DEF CloseRun, OpenInv
  <2>2. CASE prev.tbl # UNDEF
    <3>1. prev.tbl \in Tables /\ HasContent(layout[prev.tbl].new) /\ Filled(layout)
      BY <1>0, <2>2 DEF StateType, OpenInv
    <3> QED
      BY <1>0, <2>2, <3>1, EndFilled, CloseRunType DEF CloseRun
  <2> QED
    BY <2>1, <2>2
<1>5. OpenRun(st) \in LayoutType /\ Filled(OpenRun(st))
  BY <1>0, <1>4, BeginFilled, LookupBeginType DEF OpenRun, StateType, OpenInv
<1>6. CASE rules = {}
  <2>1. layout' = OpenRun(st)
    BY <1>6 DEF PrepRule
  <2>2. ASSUME st.tbl # UNDEF PROVE HasContent(OpenRun(st)[st.tbl].new)
    <3>1. CASE StartsRun(st)
      <4> DEFINE r == LookupBegin(CloseRun(prev), st.tbl, st.script, st.language, st.feature,
                                  st.lkpType, st.lkpFlag, st.label)
      <4>1. OpenRun(st) = r /\ st.tbl \in Tables
        BY <2>2, <3>1 DEF OpenRun, StateType
      <4>2. r[st.tbl].new.label = st.label
        BY <1>4, <4>1, LookupBeginShape
      <4> HIDE DEF r
      <4> QED
        BY <1>6, <4>1, <4>2 DEF HasContent
    <3>2. CASE ~StartsRun(st)
      <4>1. OpenRun(st) = layout /\ prev.tbl = st.tbl
        BY <3>2 DEF OpenRun, StartsRun, InRun
      <4> QED
        BY <2>2, <4>1 DEF OpenInv
    <3> QED
      BY <3>1, <3>2
  <2> QED
    BY <1>1, <1>2, <1>3, <1>5, <1>6, <2>1, <2>2 DEF OpenRunInv, OpenInv
<1>7. CASE rules # {}
  <2>1. layout' = RuleAdd(OpenRun(st), st.tbl, ruleCnt + 1, hadError) /\ st.tbl \in Tables
    BY <1>7 DEF PrepRule
  <2>2. Filled(layout') /\ HasContent(layout'[st.tbl].new)
    BY <1>0, <1>5, <2>1, AddFilled
  <2>3. st.tbl # UNDEF
    BY <2>1 DEF Tables, UNDEF
  <2> QED
    BY <1>1, <1>2, <1>3, <2>2, <2>3 DEF OpenRunInv, OpenInv
<1> QED
  BY <1>6, <1>7

\* So do references.
LEMMA CallLkpOpen ==
    ASSUME IInv, NamedInv, OpenInv, ~hadError, NEW st \in StateType, CallLkp(st),
           pc # "register", nest = "feature",
           In(Allocated, st.label), st.label # LAB_UNDEF
    PROVE  OpenRunInv'
<1> DEFINE ref == Reference(st)
           named == RefLab(st.label)
<1>0. TypeOK /\ LangSysSeen /\ st.label \in Label
  BY DEF IInv, StateType
<1>1. named # LAB_UNDEF /\ IsRefLab(named) /\ named \in Label
  BY <1>0, RefIsRef, RefLabProperties
<1>2. ref.label = named
  BY <1>0, <1>1, PreparedLabel DEF Reference
<1>3. PrepRule(ref, named, {}) /\ UNCHANGED <<pc, nest, hadError>>
  BY DEF CallLkp
<1>4. ~InBlock'
  BY <1>3 DEF InBlock
<1>5. ref \in StateType
  BY <1>0, <1>1, PreparedType DEF Reference, StateType
<1> HIDE DEF ref, named
<1> QED
  BY <1>0, <1>1, <1>2, <1>3, <1>4, <1>5, PrepRuleOpen

\* A statement that only moves between scopes ends no lookup.
LEMMA ScopeOpen ==
    ASSUME IInv, OpenRunInv,
           \/ \E f \in Features : StartFeature(f)
           \/ \E s \in Scripts : ScriptStmt(s)
           \/ \E l \in Langs, incl \in BOOLEAN : LanguageStmt(l, incl)
           \/ \E v \in Flags : LookupFlagStmt(v)
    PROVE  OpenRunInv'
<1>0. curr \in StateType
  BY DEF IInv, TypeOK
<1>1. ASSUME NEW f \in Features, StartFeature(f) PROVE OpenRunInv'
  <2>1. curr'.label = curr.label /\ curr'.tbl = curr.tbl
    BY <1>0, <1>1 DEF StartFeature, StateType
  <2> QED
    BY <1>1, <2>1, FrameOpen DEF StartFeature, EnterFeature, Ready, InBlock
<1>2. ASSUME NEW s \in Scripts, ScriptStmt(s) PROVE OpenRunInv'
  <2>1. curr'.label = curr.label /\ curr'.tbl = curr.tbl
    BY <1>0, <1>2 DEF ScriptStmt, StateType
  <2>2. ~hadError' => ~hadError
    BY <1>2 DEF ScriptStmt
  <2>3. DFLTLkps' \in {DFLTLkps, <<>>} /\ pc = "stmt"
        /\ UNCHANGED <<nest, currNamedLkp, prev, lookup, layout>>
    BY <1>2 DEF ScriptStmt, Ready
  <2> QED
    BY <2>1, <2>2, <2>3, FrameOpen DEF InBlock
<1>3. ASSUME NEW l \in Langs, NEW incl \in BOOLEAN, LanguageStmt(l, incl) PROVE OpenRunInv'
  <2>1. curr'.label = curr.label /\ curr'.tbl = curr.tbl
    BY <1>0, <1>3 DEF LanguageStmt, StateType
  <2>2. ~hadError' => ~hadError
    BY <1>3 DEF LanguageStmt
  <2>3. pc = "stmt" /\ UNCHANGED <<nest, currNamedLkp, prev, DFLTLkps, lookup, layout>>
    BY <1>3 DEF LanguageStmt, Ready
  <2> QED
    BY <2>1, <2>2, <2>3, FrameOpen DEF InBlock
<1>4. ASSUME NEW v \in Flags, LookupFlagStmt(v) PROVE OpenRunInv'
  <2>1. curr'.label = curr.label /\ curr'.tbl = curr.tbl
    BY <1>0, <1>4 DEF LookupFlagStmt, StateType
  <2>2. ~hadError' => ~hadError
    BY <1>4 DEF LookupFlagStmt
  <2>3. pc = "stmt" /\ UNCHANGED <<nest, currNamedLkp, prev, DFLTLkps, lookup, layout>>
    BY <1>4 DEF LookupFlagStmt, Ready
  <2> QED
    BY <2>1, <2>2, <2>3, FrameOpen DEF InBlock
<1> QED
  BY <1>1, <1>2, <1>3, <1>4

\* A rule leaves its lookup open, with that rule.
LEMMA RuleOpen ==
    ASSUME NEW k \in RuleKinds, IInv, OpenRunInv, RuleStmt(k[1], k[2])
    PROVE  OpenRunInv'
<1> DEFINE tbl == k[1]
           typ == k[2]
           st == Prepared(tbl, typ, curr.lkpFlag, currNamedLkp)
<1>0. /\ curr \in StateType /\ currNamedLkp \in Label /\ TypeOK /\ LangSysSeen
      /\ tbl \in Tables /\ typ \in LkpTypes
      /\ anonLabelCnt \in FEAT_ANON_LKP_BEG .. FEAT_ANON_LKP_END + 1
  BY FeatAssumption DEF IInv, TypeOK, LkpTypes
<1>1. curr.lkpFlag \in Nat /\ tbl # UNDEF
  BY <1>0 DEF StateType, Tables, UNDEF
<1> HIDE DEF tbl, typ
<1>2. /\ st \in StateType /\ st.tbl = tbl
      /\ st.label = IF currNamedLkp # LAB_UNDEF THEN currNamedLkp
                    ELSE IF NeedsAnonLabel(st, currNamedLkp) THEN anonLabelCnt
                    ELSE prev.label
  BY <1>0, <1>1, PreparedType, PreparedLabel
<1>3. CASE UNCHANGED <<nest, labelVars, runVars, hadError>> /\ pc = "stmt"
  BY <1>3, FrameOpen DEF InBlock
<1>4. CASE /\ PrepRule(st, currNamedLkp, {ruleCnt + 1}) /\ pc = "stmt"
           /\ UNCHANGED <<pc, hadError>>
  <2> HIDE DEF st
  <2>1. CASE hadError
    BY <1>4, <2>1 DEF OpenRunInv
  <2>2. CASE ~hadError
    <3>1. OpenInv
      BY <2>2 DEF OpenRunInv
    <3>2. anonLabelCnt # LAB_UNDEF
      BY <1>0, LabelAssumption DEF LAB_UNDEF, FEAT_ANON_LKP_BEG
    <3>3. currNamedLkp = LAB_UNDEF /\ ~NeedsAnonLabel(st, currNamedLkp) => prev.tbl = tbl
      BY <1>2 DEF NeedsAnonLabel, InRun
    <3>4. st.label # LAB_UNDEF
      BY <1>1, <1>2, <3>1, <3>2, <3>3 DEF OpenInv
    <3> QED
      BY <1>0, <1>2, <1>4, <2>2, <3>1, <3>4, PrepRuleOpen
  <2> QED
    BY <2>1, <2>2
<1> QED
  BY <1>3, <1>4 DEF RuleStmt, Fatal, tbl, typ

\* References follow what has content.
LEMMA ReferenceOpen ==
    ASSUME IInv, IssuedInv, NamedInv, OpenRunInv,
           IncludeNext \/ \E n \in Names : UseLookup(n)
    PROVE  OpenRunInv'
<1>0. /\ DFLTLkps \in Seq(StateType) /\ namedLkp \in Seq(NamedLkpType)
      /\ iter \in Nat /\ iterEnd \in Nat
      /\ SeqIn(Allocated, DFLTLkps) /\ NamesIn(Allocated, namedLkp) /\ TypeOK
  BY DEF IInv, TypeOK, IssuedInv, RunIn
<1>1. ASSUME UNCHANGED <<nest, labelVars, runVars>>, ~hadError' => ~hadError,
             pc # "register"
      PROVE  OpenRunInv'
  BY <1>1, FrameOpen DEF InBlock
<1>2. CASE IncludeNext
  <2> DEFINE st == DFLTLkps[iter + 1]
  <2>1. iter + 1 \in 1 .. Len(DFLTLkps) /\ pc = "include"
    BY <1>0, <1>2 DEF IncludeNext, IInv, IncludePosition
  <2>2. st \in StateType /\ In(Allocated, st.label)
    BY <1>0, <2>1, ElementOfSeq DEF SeqIn
  <2>3. ~hadError => st.label # LAB_UNDEF /\ nest = "feature" /\ OpenInv
    BY <2>1 DEF OpenRunInv, OpenInv, Real, NamedInv, BlockInv
  <2>4. CallLkp(st) \/ Fatal
    BY <1>2 DEF IncludeNext
  <2> HIDE DEF st
  <2>5. CASE Fatal
    BY <1>1, <2>1, <2>5 DEF Fatal
  <2>6. CASE CallLkp(st) /\ hadError
    BY <2>6 DEF CallLkp, OpenRunInv
  <2>7. CASE CallLkp(st) /\ ~hadError
    BY <2>1, <2>2, <2>3, <2>7, CallLkpOpen
  <2> QED
    BY <2>4, <2>5, <2>6, <2>7
<1>3. ASSUME NEW n \in Names, UseLookup(n) PROVE OpenRunInv'
  <2> DEFINE i == CHOOSE i \in 1 .. Len(namedLkp) : namedLkp[i].name = n
             st == namedLkp[i].state
  <2>1. pc = "stmt" /\ nest = "feature"
    BY <1>3 DEF UseLookup, Ready
  <2>2. \/ NameTaken(n) /\ CallLkp(st)
        \/ Fatal
        \/ hadError' = TRUE
    BY <1>3 DEF UseLookup
  <2>3. ASSUME NameTaken(n)
        PROVE  st \in StateType /\ In(Allocated, st.label) /\ (~hadError => st.label # LAB_UNDEF)
    <3>1. i \in 1 .. Len(namedLkp)
      BY <2>3 DEF NameTaken
    <3> HIDE DEF i
    <3>2. namedLkp[i] \in NamedLkpType /\ i - 1 # LAB_UNDEF
      BY <1>0, <3>1, ElementOfSeq, NamedNotUndef
    <3>3. ~hadError => NamesRight /\ currNamedLkp = LAB_UNDEF
      BY <2>1 DEF NamedInv, BlockInv, InBlock
    <3>4. ~hadError => st.label = i - 1
      BY <3>1, <3>2, <3>3 DEF NamesRight
    <3> QED
      BY <1>0, <3>1, <3>2, <3>4 DEF NamedLkpType, NamesIn
  <2> HIDE DEF st
  <2>4. CASE Fatal
    BY <1>1, <2>1, <2>4 DEF Fatal
  <2>5. CASE hadError'
    BY <2>5 DEF OpenRunInv
  <2>6. CASE NameTaken(n) /\ CallLkp(st) /\ ~hadError'
    <3>1. ~hadError /\ OpenInv
      BY <2>6 DEF CallLkp, OpenRunInv
    <3> QED
      BY <2>1, <2>3, <2>6, <3>1, CallLkpOpen
  <2> QED
    BY <2>2, <2>4, <2>5, <2>6
<1> QED
  BY <1>2, <1>3

\* A lookup block that begins has no rule yet, so its label is not that of the last rule.
LEMMA StartOpen ==
    ASSUME NEW n \in Names, IInv, IssuedInv, OpenRunInv, StartStandAlone(n) \/ StartLookup(n)
    PROVE  OpenRunInv'
<1>0. curr \in StateType /\ namedLkp \in Seq(NamedLkpType)
      /\ anonLabelCnt \in FEAT_ANON_LKP_BEG .. FEAT_ANON_LKP_END + 1
  BY DEF IInv, TypeOK
<1>1. ASSUME NewNamedLkp(n, TRUE) \/ NewNamedLkp(n, FALSE),
             ~(Len(namedLkp) >= FEAT_NAMED_LKP_END)
      PROVE  curr.label # currNamedLkp'
  <2>1. currNamedLkp' = Len(namedLkp) /\ Len(namedLkp) \in Nat
    BY <1>0, <1>1 DEF NewNamedLkp
  <2>2. curr.label = LAB_UNDEF \/ BaseLab(curr.label) \in Allocated
    BY DEF IssuedInv, RunIn, In
  <2>3. Len(namedLkp) # LAB_UNDEF /\ BaseLab(Len(namedLkp)) \notin Allocated
    BY <1>0, <1>1, <2>1, LabelAssumption
       DEF Allocated, BaseLab, LAB_UNDEF, FEAT_ANON_LKP_BEG
  <2> QED
    BY <2>1, <2>2, <2>3
<1>2. CASE StartStandAlone(n)
  <2>1. CASE Fatal
    BY <1>2, <2>1, FrameOpen DEF StartStandAlone, Ready, Fatal, InBlock
  <2>2. CASE ~Fatal
    <3>1. /\ ~(Len(namedLkp) >= FEAT_NAMED_LKP_END)
          /\ EnterFeature(STAND_ALONE) /\ NewNamedLkp(n, TRUE)
          /\ curr' = [curr EXCEPT !.feature = STAND_ALONE, !.script = STAND_ALONE,
                                  !.language = "dflt", !.lkpFlag = 0]
          /\ pc = "stmt" /\ UNCHANGED <<pc, hadError, prev, layout>>
      BY <1>2, <2>2 DEF StartStandAlone, Ready
    <3>2. curr'.label = curr.label /\ curr'.tbl = curr.tbl
      BY <1>0, <3>1 DEF StateType
    <3>3. curr'.label # currNamedLkp'
      BY <1>1, <3>1, <3>2
    <3> QED
      BY <3>1, <3>2, <3>3, FrameOpen DEF EnterFeature
  <2> QED
    BY <2>1, <2>2
<1>3. CASE StartLookup(n)
  <2>1. /\ pc = "stmt" /\ nest = "feature" /\ UNCHANGED runVars
        /\ \/ hadError' = TRUE
           \/ UNCHANGED <<hadError, nest>>
           \/ /\ ~(Len(namedLkp) >= FEAT_NAMED_LKP_END)
              /\ NewNamedLkp(n, FALSE) /\ UNCHANGED <<pc, hadError>>
    BY <1>3 DEF StartLookup, Ready
  <2>2. CASE hadError' = TRUE
    BY <2>2, FrameOpen
  <2>3. CASE UNCHANGED <<hadError, nest>>
    BY <2>1, <2>3, FrameOpen DEF InBlock
  <2>4. CASE ~(Len(namedLkp) >= FEAT_NAMED_LKP_END) /\ NewNamedLkp(n, FALSE)
             /\ UNCHANGED <<pc, hadError>>
    <3>1. curr.label # currNamedLkp'
      BY <1>1, <2>4
    <3> QED
      BY <2>1, <2>4, <3>1, FrameOpen
  <2> QED
    BY <2>1, <2>2, <2>3, <2>4
<1> QED
  BY <1>2, <1>3

\* Blocks end with the lookup of their last rule, which has content, and registration adds
\* references.
LEMMA EndOpen ==
    ASSUME "emptyBlock" \notin Forms, "emptyFeature" \notin Forms,
           IInv, IssuedInv, NamedInv, OpenRunInv,
           EndLookup \/ EndFeature \/ RegisterLookup \/ RegisterNextLangSys \/ RegisterDone
    PROVE  OpenRunInv'
<1>0. /\ TypeOK /\ curr \in StateType /\ prev \in StateType
      /\ layout \in LayoutType /\ hadError \in BOOLEAN
      /\ SeqIn(Allocated, lookup)
      /\ lookup \in Seq(LookupInfoType) /\ regPos \in Nat \ {0}
  BY DEF IInv, TypeOK, LayoutType, IssuedInv, RunIn
<1>1. ASSUME BeginRegister, pc = "stmt", ~hadError => prev.tbl # UNDEF PROVE OpenRunInv'
  <2>1. /\ layout' = CloseRun(curr) /\ pc' = "register"
        /\ UNCHANGED <<nest, hadError, currNamedLkp, curr, prev, DFLTLkps, lookup>>
    BY <1>1 DEF BeginRegister
  <2>2. ASSUME ~hadError PROVE Filled(layout')
    <3>1. /\ curr.tbl = prev.tbl /\ curr.tbl \in Tables /\ curr.tbl # UNDEF
          /\ HasContent(layout[curr.tbl].new) /\ Filled(layout)
      BY <1>0, <1>1, <2>2 DEF OpenRunInv, OpenInv, StateType
    <3> QED
      BY <1>0, <2>1, <3>1, EndFilled DEF CloseRun
  <2>3. ASSUME ~hadError PROVE OpenInv'
    <3>1. OpenInv
      BY <2>3 DEF OpenRunInv
    <3> QED
      BY <2>1, <2>2, <2>3, <3>1 DEF OpenInv, InBlock, Real
  <2> QED
    BY <2>1, <2>3 DEF OpenRunInv
<1>2. CASE EndLookup
  <2>1. pc = "stmt" /\ InBlock /\ MayEnd
    BY <1>2 DEF EndLookup
  <2>2. ASSUME ~hadError PROVE prev.tbl # UNDEF
    <3>1. namedLkp # <<>> /\ currNamedLkp = Len(namedLkp) - 1 /\ curr.feature \notin Restricted
      BY <2>1, <2>2 DEF NamedInv, BlockInv
    <3>2. Len(namedLkp) \in 1 .. Len(namedLkp)
      BY <1>0, <3>1 DEF TypeOK
    <3>3. currNamedLkp # LAB_UNDEF
      BY <1>0, <3>1, <3>2, NamedNotUndef
    <3>4. curr.label = currNamedLkp
      BY <2>1, <3>1, <3>3 DEF MayEnd, BlockHasRule
    <3> QED
      BY <2>1, <2>2, <3>4 DEF OpenRunInv, OpenInv
  <2>3. \/ BeginRegister
        \/ UNCHANGED <<nest, hadError, labelVars, runVars>>
        \/ nest' = "feature" /\ UNCHANGED <<pc, hadError, runVars>>
    BY <1>2 DEF EndLookup, Fatal
  <2> QED
    BY <1>1, <2>1, <2>2, <2>3, FrameOpen DEF InBlock
<1>3. CASE EndFeature
  <2>1. pc = "stmt" /\ nest = "feature" /\ MayEnd
    BY <1>3 DEF EndFeature
  <2>2. CASE curr.feature = "aalt"
    BY <1>3, <2>1, <2>2, FrameOpen DEF EndFeature, InBlock
  <2>3. CASE curr.feature # "aalt"
    <3>1. prev.tbl # UNDEF
      BY <2>1, <2>3 DEF MayEnd, BlockHasRule, InBlock
    <3> QED
      BY <1>1, <1>3, <2>1, <2>3, <3>1 DEF EndFeature
  <2> QED
    BY <2>2, <2>3
<1>4. CASE RegisterLookup
  <2> DEFINE ls == FirstOf(regTodo)
             lkp == lookup[regPos]
             tbl == RegTable(lkp)
             begun == LookupBegin(layout, tbl, ls[1], ls[2], curr.feature,
                                  lkp.lkpType, lkp.lkpFlag, RefLab(lkp.label))
  <2>1. regPos \in 1 .. Len(lookup)
    BY <1>0, <1>4 DEF RegisterLookup
  <2>2. lkp \in LookupInfoType /\ In(Allocated, lkp.label)
    BY <1>0, <2>1, ElementOfSeq DEF SeqIn
  <2>3. tbl \in Tables
    BY DEF RegTable, Tables
  <2>4. /\ layout' = LookupEnd(begun, tbl, hadError) /\ pc = "register"
        /\ UNCHANGED <<pc, nest, hadError, labelVars, curr, prev, DFLTLkps, lookup>>
    BY <1>4 DEF RegisterLookup
  <2>5. ls[1] \in Scripts /\ ls[2] \in Langs
    <3>1. regTodo \subseteq LangSys /\ regTodo # {}
      BY <1>4 DEF RegisterLookup, IInv, TypeOK
    <3>2. FirstOf(regTodo) \in Scripts \X Langs
      BY <3>1, FirstOfMember DEF LangSys
    <3> QED
      BY <3>2
  <2>6. RefLab(lkp.label) \in Label /\ lkp.lkpType \in LkpTypes /\ lkp.lkpFlag \in Nat
    BY <2>2, RefLabProperties DEF LookupInfoType
  <2>7. curr.feature \in Features \cup {UNDEF, STAND_ALONE}
    BY <1>0 DEF StateType
  <2>8. ASSUME ~hadError PROVE IsRefLab(RefLab(lkp.label)) /\ Filled(layout) /\ OpenInv
    <3>1. OpenInv
      BY <2>8 DEF OpenRunInv
    <3>2. lkp.label # LAB_UNDEF /\ lkp.label \in Label
      BY <2>1, <2>2, <3>1 DEF OpenInv, Real, LookupInfoType
    <3> QED
      BY <1>0, <2>2, <3>1, <3>2, RefIsRef DEF OpenInv
  <2> HIDE DEF ls, lkp, tbl
  <2>9. begun \in LayoutType /\ (~hadError => Filled(begun))
        /\ begun[tbl].new.label = RefLab(lkp.label)
    <3>1. begun \in LayoutType
      BY <1>0, <2>3, <2>5, <2>6, <2>7, LookupBeginType
    <3>2. begun[tbl].new.label = RefLab(lkp.label)
      BY <1>0, <2>3, LookupBeginShape
    <3>3. ~hadError => Filled(begun)
      BY <1>0, <2>3, <2>8, BeginFilled
    <3> QED
      BY <3>1, <3>2, <3>3
  <2> HIDE DEF begun
  <2>10. ~hadError => Filled(LookupEnd(begun, tbl, hadError))
    BY <1>0, <2>3, <2>8, <2>9, EndFilled DEF HasContent
  <2> QED
    BY <2>4, <2>8, <2>10 DEF OpenRunInv, OpenInv, InBlock, Real
<1>5. CASE RegisterNextLangSys
  BY <1>5, FrameOpen DEF RegisterNextLangSys, InBlock
<1>6. CASE RegisterDone
  <2>1. prev'.label = prev.label /\ prev'.tbl = UNDEF
    BY <1>0, <1>6 DEF RegisterDone, Closed, StateType
  <2>2. nest' = "file" /\ UNCHANGED <<hadError, curr, DFLTLkps, lookup, layout>>
    BY <1>6 DEF RegisterDone
  <2> QED
    BY <2>1, <2>2, FrameOpen DEF InBlock
<1> QED
  BY <1>2, <1>3, <1>4, <1>5, <1>6

\* Every step keeps the invariant, in files without empty blocks and features.
LEMMA NextOpen ==
    ASSUME "emptyBlock" \notin Forms, "emptyFeature" \notin Forms,
           IInv, IssuedInv, NamedInv, OpenRunInv, [Next]_vars
    PROVE  OpenRunInv'
<1>1. CASE UNCHANGED vars
  BY <1>1, FrameOpen DEF vars, InBlock
<1>2. ASSUME NEW s \in Scripts, NEW l \in Langs, LangSystem(s, l) PROVE OpenRunInv'
  <2>1. ~hadError' => ~hadError
    BY <1>2 DEF LangSystem
  <2> QED
    BY <1>2, <2>1, FrameOpen DEF LangSystem, Ready, InBlock
<1>3. CASE EndOfFile \/ IncludeInvalidated \/ IncludeDone \/ Finished
  BY <1>1, <1>3, FrameOpen DEF EndOfFile, IncludeInvalidated, IncludeDone, Finished, Fatal, InBlock
<1>4. ASSUME NEW k \in RuleKinds, RuleStmt(k[1], k[2]) PROVE OpenRunInv'
  BY <1>4, RuleOpen
<1>5. ASSUME NEW n \in Names, StartStandAlone(n) \/ StartLookup(n) PROVE OpenRunInv'
  BY <1>5, StartOpen
<1>6. CASE \/ \E f \in Features : StartFeature(f)
           \/ \E s \in Scripts : ScriptStmt(s)
           \/ \E l \in Langs, incl \in BOOLEAN : LanguageStmt(l, incl)
           \/ \E v \in Flags : LookupFlagStmt(v)
  BY <1>6, ScopeOpen
<1>7. CASE IncludeNext \/ \E n \in Names : UseLookup(n)
  BY <1>7, ReferenceOpen
<1>8. CASE EndLookup \/ EndFeature \/ RegisterLookup \/ RegisterNextLangSys \/ RegisterDone
  BY <1>8, EndOpen
<1> QED
  BY <1>1, <1>2, <1>3, <1>4, <1>5, <1>6, <1>7, <1>8 DEF Next

\* GSUB.c and GPOS.c rely on it that a lookup that ends has rules, and in files whose
\* blocks and features have rules, and whose lookup blocks leave script and language alone,
\* every lookup does.
THEOREM LookupsHaveRules ==
    ASSUME "blockLang" \notin Forms, "emptyBlock" \notin Forms, "emptyFeature" \notin Forms
    PROVE  Spec => []NoEmptyLookup
<1>1. Init => IssuedInv /\ NamedInv /\ OpenRunInv
  <2> SUFFICES ASSUME Init PROVE IssuedInv /\ NamedInv /\ OpenRunInv
    OBVIOUS
  <2>1. IssuedInv
    BY InitIssued
  <2>2. NamedInv
    BY InitNamed
  <2>3. /\ curr = NoState /\ prev = NoState /\ DFLTLkps = <<>> /\ lookup = <<>>
        /\ layout = EmptyLayout /\ nest = "file"
    BY DEF Init
  <2>4. NoState.tbl = UNDEF
    BY DEF NoState
  <2>5. \A tbl \in Tables : layout[tbl].subtables = <<>>
    BY <2>3 DEF EmptyLayout
  <2>6. OpenInv
    BY <2>3, <2>4, <2>5 DEF OpenInv, InBlock, Real, Filled
  <2> QED
    BY <2>1, <2>2, <2>6 DEF OpenRunInv
<1>2. IInv /\ IssuedInv /\ NamedInv /\ OpenRunInv /\ [Next]_vars
      => IssuedInv' /\ NamedInv' /\ OpenRunInv'
  BY NextIssued, NextNamed, NextOpen
<1> QED
  BY <1>1, <1>2, InitIInv, NextIInv, OpenRunInvImplies, PTL DEF Spec

=============================================================================
