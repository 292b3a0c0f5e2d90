----------------------- MODULE FeatRegistrationProofs -----------------------
(***************************************************************************)
(* Proof that every rule is in one place, for every value of the constants *)
(* (RulesConserved). The history variables of FeatRegistration depend on   *)
(* FeatCtx and not the other way round, so what is an invariant of FeatCtx *)
(* is one here. FeatLangSysProofs goes on from here.                       *)
(***************************************************************************)
EXTENDS FeatRegistration, FeatRefProofs, FiniteSetTheorems

USE DEF parserVars, loopVars, globalVars, scopeVars, labelVars, runVars

\* A step of FeatRegistration is a step of FeatCtx, or leaves its variables alone.
LEMMA StepOfFeatCtx == [HNext]_allVars => [Next]_vars
<1>1. CASE UNCHANGED allVars
  BY <1>1 DEF allVars
<1>2. CASE HNext
  <2>1. CASE HEndBlock \/ Internal
    BY <2>1 DEF HEndBlock, Internal, Next
  <2>2. CASE \E k \in RuleKinds : HRule(k[1], k[2])
    BY <2>2 DEF HRule, Next
  <2> QED
    BY <1>2, <2>1, <2>2 DEF HNext, Next
<1> QED
  BY <1>1, <1>2

\* So every behaviour of FeatRegistration is one of FeatCtx.
LEMMA SpecOfFeatCtx == HSpec => Spec
<1>1. HInit => Init
  BY DEF HInit
<1> QED
  BY <1>1, StepOfFeatCtx, PTL DEF HSpec, Spec

-----------------------------------------------------------------------------
(* Where the rules are *)

\* Rule r is in a subtable.
HeldAt(lay, tbl, k, r) == r \in lay[tbl].subtables[k].rules
Held(lay, r) == \E tbl \in Tables : \E k \in 1 .. Len(lay[tbl].subtables) : HeldAt(lay, tbl, k, r)

\* No rule is in two.
HeldOnce(lay) ==
    \A t, u \in Tables : \A i \in 1 .. Len(lay[t].subtables), k \in 1 .. Len(lay[u].subtables) :
        \A r : HeldAt(lay, t, i, r) /\ HeldAt(lay, u, k, r) => t = u /\ i = k

\* The first n rules are where they should be: those of W in the lookup that is open, the
\* others in one subtable.
Conserved(lay, W, n) ==
    /\ HeldOnce(lay)
    /\ \A r \in W : ~Held(lay, r)
    /\ \A r : Held(lay, r) \/ r \in W <=> r \in 1 .. n

\* The rules of the lookup that state p has open
OpenRules(lay, p) == IF p.tbl = UNDEF THEN {} ELSE lay[p.tbl].new.rules

ConservedRun ==
    ~hadError => Conserved(layout, IF pc = "register" THEN {} ELSE OpenRules(layout, prev), ruleCnt)

\* What is said of rules stays true while the subtables stay.
LEMMA SameSubsConserved ==
    ASSUME NEW a, NEW b, NEW W, NEW n, SameSubs(a, b), Conserved(a, W, n)
    PROVE  Conserved(b, W, n)
<1>1. \A tbl \in Tables : b[tbl].subtables = a[tbl].subtables
  BY DEF SameSubs
<1>2. \A r : Held(b, r) <=> Held(a, r)
  <2> SUFFICES ASSUME NEW r PROVE Held(b, r) <=> Held(a, r)
    OBVIOUS
  <2> QED
    BY <1>1 DEF Held, HeldAt
<1>3. HeldOnce(b)
  <2> SUFFICES ASSUME NEW t \in Tables, NEW u \in Tables,
                      NEW i \in 1 .. Len(b[t].subtables), NEW k \in 1 .. Len(b[u].subtables),
                      NEW r, HeldAt(b, t, i, r), HeldAt(b, u, k, r)
               PROVE  t = u /\ i = k
    BY DEF HeldOnce
  <2>1. b[t].subtables = a[t].subtables /\ b[u].subtables = a[u].subtables
    BY <1>1
  <2>2. HeldOnce(a)
    BY DEF Conserved
  <2>3. HeldAt(a, t, i, r) /\ HeldAt(a, u, k, r)
    BY <2>1 DEF HeldAt
  <2> QED
    BY <2>1, <2>2, <2>3 DEF HeldOnce
<1> QED
  BY <1>2, <1>3 DEF Conserved

\* A subtable that is added has rules that were open until then.
LEMMA AppendedConserved ==
    ASSUME NEW a \in LayoutType, NEW b, NEW tbl \in Tables, NEW s \in SubtableType,
           Appended(a, b, tbl, s), NEW W, NEW n, Conserved(a, W, n), s.rules \subseteq W
    PROVE  Conserved(b, W \ s.rules, n)
<1> DEFINE subs == a[tbl].subtables
<1>1. subs \in Seq(SubtableType)
  BY DEF LayoutType
<1>2. b[tbl].subtables = Append(subs, s) /\ \A t \in Tables : t # tbl => b[t].subtables = a[t].subtables
  BY DEF Appended
<1>3. /\ Len(Append(subs, s)) = Len(subs) + 1 /\ Len(subs) \in Nat
      /\ \A k \in 1 .. Len(subs) : Append(subs, s)[k] = subs[k]
      /\ Append(subs, s)[Len(subs) + 1] = s
  BY <1>1, AppendProperties, LenProperties
<1> HIDE DEF subs
<1>4. \A k \in 1 .. Len(Append(subs, s)) :
         \A r : HeldAt(b, tbl, k, r) <=> IF k = Len(subs) + 1 THEN r \in s.rules ELSE r \in subs[k].rules
  BY <1>2, <1>3 DEF HeldAt
<1>5. \A r : Held(b, r) <=> Held(a, r) \/ r \in s.rules
  <2> SUFFICES ASSUME NEW r PROVE Held(b, r) <=> Held(a, r) \/ r \in s.rules
    OBVIOUS
  <2>1. (\E k \in 1 .. Len(Append(subs, s)) : HeldAt(b, tbl, k, r))
        <=> (\E k \in 1 .. Len(subs) : HeldAt(a, tbl, k, r)) \/ r \in s.rules
    BY <1>3, <1>4 DEF HeldAt, subs
  <2>2. ASSUME NEW t \in Tables, t # tbl
        PROVE  (\E k \in 1 .. Len(b[t].subtables) : HeldAt(b, t, k, r))
               <=> (\E k \in 1 .. Len(a[t].subtables) : HeldAt(a, t, k, r))
    <3>1. b[t].subtables = a[t].subtables
      BY <1>2, <2>2
    <3> QED
      BY <3>1 DEF HeldAt
  <2> QED
    BY <1>2, <2>1, <2>2 DEF Held, subs
<1>6. HeldOnce(b)
  <2> SUFFICES ASSUME NEW t \in Tables, NEW u \in Tables,
                      NEW i \in 1 .. Len(b[t].subtables), NEW k \in 1 .. Len(b[u].subtables),
                      NEW r, HeldAt(b, t, i, r), HeldAt(b, u, k, r)
               PROVE  t = u /\ i = k
    BY DEF HeldOnce
  <2>1. ASSUME NEW v \in Tables, NEW j \in 1 .. Len(b[v].subtables), HeldAt(b, v, j, r)
        PROVE  IF v = tbl /\ j = Len(subs) + 1 THEN r \in s.rules /\ ~Held(a, r)
               ELSE j \in 1 .. Len(a[v].subtables) /\ HeldAt(a, v, j, r) /\ Held(a, r)
    <3>1. CASE v # tbl
      <4>1. b[v].subtables = a[v].subtables
        BY <1>2, <3>1
      <4> QED
        BY <2>1, <3>1, <4>1 DEF HeldAt, Held
    <3>2. CASE v = tbl /\ j = Len(subs) + 1
      <4>1. r \in s.rules
        BY <1>2, <1>3, <1>4, <2>1, <3>2
      <4> QED
        BY <3>2, <4>1 DEF Conserved
    <3>3. CASE v = tbl /\ j # Len(subs) + 1
      <4>1. j \in 1 .. Len(subs) /\ r \in subs[j].rules
        BY <1>2, <1>3, <1>4, <2>1, <3>3
      <4> QED
        BY <3>3, <4>1 DEF HeldAt, Held, subs
    <3> QED
      BY <3>1, <3>2, <3>3
  <2>2. HeldOnce(a)
    BY DEF Conserved
  <2> QED
    BY <2>1, <2>2 DEF HeldOnce
<1>7. \A r : Held(b, r) \/ r \in W \ s.rules <=> r \in 1 .. n
  BY <1>5 DEF Conserved
<1>8. \A r \in W \ s.rules : ~Held(b, r)
  BY <1>5 DEF Conserved
<1> QED
  BY <1>6, <1>7, <1>8 DEF Conserved

\* Ending the open lookup puts its rules into a subtable.
LEMMA CloseConserved ==
    ASSUME TypeOK, ~hadError, Conserved(layout, OpenRules(layout, prev), ruleCnt)
    PROVE  Conserved(CloseRun(prev), {}, ruleCnt)
<1>0. layout \in LayoutType /\ hadError \in BOOLEAN /\ prev \in StateType
  BY DEF TypeOK, LayoutType
<1>1. CASE prev.tbl = UNDEF
  BY <1>1 DEF CloseRun, OpenRules
<1>2. CASE prev.tbl # UNDEF
  <2> DEFINE new == layout[prev.tbl].new
             lay == CloseRun(prev)
  <2>1. prev.tbl \in Tables
    BY <1>0, <1>2 DEF StateType
  <2>2. new \in SubtableType /\ OpenRules(layout, prev) = new.rules
    BY <1>0, <1>2, <2>1 DEF LayoutType, OpenRules
  <2>3. Appended(layout, lay, prev.tbl, new)
    BY <1>0, <1>2, <2>1, LookupEndAppends DEF CloseRun
  <2> HIDE DEF new, lay
  <2>4. Conserved(lay, new.rules \ new.rules, ruleCnt)
    BY <1>0, <2>1, <2>2, <2>3, AppendedConserved
  <2>5. new.rules \ new.rules = {}
    OBVIOUS
  <2> QED
    BY <2>4, <2>5 DEF lay
<1> QED
  BY <1>1, <1>2

\* A lookup that begins has no rules, and a rule that is added is the only change.
LEMMA BeginRules ==
    ASSUME NEW lay \in LayoutType, NEW tbl \in Tables, NEW s, NEW l, NEW f, NEW typ,
           NEW flag, NEW lab
    PROVE  LookupBegin(lay, tbl, s, l, f, typ, flag, lab)[tbl].new.rules = {}
  BY DEF LookupBegin, LayoutType, SubtableType

\* A rule that is added is in the accumulator, in addition to those before it.
LEMMA AddRules ==
    ASSUME NEW lay \in LayoutType, NEW tbl \in Tables, NEW rule, NEW err, ~err
    PROVE  RuleAdd(lay, tbl, rule, err)[tbl].new.rules = lay[tbl].new.rules \cup {rule}
  BY DEF RuleAdd, LayoutType, SubtableType

\* prepRule and wrapUpRule: the rules added are new, and no rule before them is lost.
LEMMA PrepRuleConserved ==
    ASSUME TypeOK, ConservedRun, ~hadError, pc # "register", pc' # "register",
           NEW st \in StateType, NEW named, NEW rules, st.tbl \in Tables,
           PrepRule(st, named, rules),
           IF rules = {} THEN ruleCnt' = ruleCnt
           ELSE rules = {ruleCnt + 1} /\ ruleCnt' = ruleCnt + 1
    PROVE  ConservedRun'
<1>0. /\ layout \in LayoutType /\ hadError = FALSE /\ prev \in StateType /\ ruleCnt \in Nat
      /\ st.tbl # UNDEF
  BY DEF TypeOK, LayoutType, Tables, UNDEF
<1>1. prev' = st
  BY DEF PrepRule
<1>2. /\ OpenRun(st) \in LayoutType
      /\ Conserved(OpenRun(st), OpenRun(st)[st.tbl].new.rules, ruleCnt)
  <2>1. CASE StartsRun(st)
    <3> DEFINE lay == CloseRun(prev)
    <3>1. lay \in LayoutType /\ Conserved(lay, {}, ruleCnt)
      BY <1>0, CloseRunType, CloseConserved DEF ConservedRun
    <3>2. OpenRun(st) = LookupBegin(lay, st.tbl, st.script, st.language, st.feature,
                                    st.lkpType, st.lkpFlag, st.label)
      BY <1>0, <2>1 DEF OpenRun
    <3> HIDE DEF lay
    <3>3. OpenRun(st) \in LayoutType /\ OpenRun(st)[st.tbl].new.rules = {}
      <4>1. OpenRun(st) \in LayoutType
        BY <3>1, <3>2, LookupBeginType DEF StateType
      <4> QED
        BY <3>1, <3>2, <4>1, BeginRules
    <3>4. SameSubs(lay, OpenRun(st))
      BY <3>1, <3>2, LookupBeginShape DEF SameSubs
    <3> QED
      BY <3>1, <3>3, <3>4, SameSubsConserved
  <2>2. CASE ~StartsRun(st)
    <3>1. OpenRun(st) = layout /\ prev.tbl = st.tbl
      BY <2>2 DEF OpenRun, StartsRun, InRun
    <3> QED
      BY <1>0, <3>1 DEF ConservedRun, OpenRules
  <2> QED
    BY <2>1, <2>2
<1>3. CASE rules = {}
  <2>1. layout' = OpenRun(st) /\ ruleCnt' = ruleCnt
    BY <1>3 DEF PrepRule
  <2> QED
    BY <1>0, <1>1, <1>2, <2>1 DEF ConservedRun, OpenRules
<1>4. CASE rules # {}
  <2> DEFINE lay == OpenRun(st)
             r == RuleAdd(lay, st.tbl, ruleCnt + 1, hadError)
  <2>1. layout' = r /\ ruleCnt' = ruleCnt + 1
    BY <1>4 DEF PrepRule
  <2>2. Conserved(lay, lay[st.tbl].new.rules, ruleCnt)
    BY <1>2
  <2>3. lay \in LayoutType /\ hadError \in BOOLEAN
    BY <1>0, <1>2
  <2>4. \A t \in Tables : r[t].subtables = lay[t].subtables
    <3> HIDE DEF lay
    <3> QED
      BY <2>3, RuleAddShape
  <2>5. r[st.tbl].new.rules = lay[st.tbl].new.rules \cup {ruleCnt + 1}
    <3> HIDE DEF lay
    <3> QED
      BY <1>0, <2>3, AddRules
  <2> HIDE DEF r, lay
  <2>6. SameSubs(lay, r)
    BY <2>4 DEF SameSubs
  <2>7. Conserved(r, lay[st.tbl].new.rules, ruleCnt)
    BY <2>2, <2>6, SameSubsConserved
  <2>8. 1 .. ruleCnt + 1 = (1 .. ruleCnt) \cup {ruleCnt + 1} /\ ruleCnt + 1 \notin 1 .. ruleCnt
    BY <1>0
  <2>9. Conserved(r, r[st.tbl].new.rules, ruleCnt + 1)
    BY <2>5, <2>7, <2>8 DEF Conserved
  <2> QED
    BY <1>0, <1>1, <2>1, <2>9 DEF ConservedRun, OpenRules
<1> QED
  BY <1>3, <1>4

\* A step that leaves the tables and the open lookup alone keeps the rules where they are.
LEMMA FrameConserved ==
    ASSUME ConservedRun, ~hadError' => ~hadError /\ UNCHANGED <<layout, prev, ruleCnt>>
                                       /\ (pc' = "register" <=> pc = "register")
    PROVE  ConservedRun'
  BY DEF ConservedRun, OpenRules, Conserved, HeldOnce, Held, HeldAt

\* The end of a block begins the registration and ends the lookup that is open, if there is
\* anything to register.
LEMMA EndCloses ==
    ASSUME "emptyBlock" \notin Forms, "emptyFeature" \notin Forms,
           IInv, NamedInv, OpenRunInv, ~hadError, EndLookup \/ EndFeature
    PROVE  \/ /\ BeginRegister /\ pc = "stmt" /\ prev.tbl # UNDEF /\ layout' = CloseRun(prev)
              /\ nest \in {"feature", "block", "alone"} /\ curr.feature # "aalt"
           \/ Fatal
           \/ UNCHANGED <<layout, prev, ruleCnt, pc, hadError>>
<1>0. namedLkp \in Seq(NamedLkpType) /\ TypeOK /\ OpenInv /\ BlockInv
  BY DEF IInv, TypeOK, OpenRunInv, NamedInv
<1>1. BeginRegister /\ prev.tbl # UNDEF => layout' = CloseRun(prev)
  BY <1>0 DEF BeginRegister, OpenInv, CloseRun
<1>2. CASE EndLookup
  <2>1. pc = "stmt" /\ InBlock /\ MayEnd
    BY <1>2 DEF EndLookup
  <2>2. /\ namedLkp # <<>> /\ currNamedLkp = Len(namedLkp) - 1 /\ curr.feature \notin Restricted
    BY <1>0, <2>1 DEF BlockInv
  <2>3. Len(namedLkp) \in 1 .. Len(namedLkp)
    BY <1>0, <2>2
  <2>4. currNamedLkp # LAB_UNDEF
    BY <1>0, <2>2, <2>3, NamedNotUndef
  <2>5. curr.label = currNamedLkp
    BY <2>1, <2>2, <2>4 DEF MayEnd, BlockHasRule
  <2>6. prev.tbl # UNDEF
    BY <1>0, <2>1, <2>5 DEF OpenInv
  <2>7. BeginRegister \/ Fatal \/ UNCHANGED <<layout, prev, ruleCnt, pc, hadError>>
    BY <1>2, <2>2 DEF EndLookup
  <2> QED
    BY <1>1, <2>1, <2>2, <2>6, <2>7 DEF InBlock, Restricted
<1>3. CASE EndFeature
  <2>1. pc = "stmt" /\ nest = "feature" /\ MayEnd
    BY <1>3 DEF EndFeature
  <2>2. CASE curr.feature = "aalt"
    BY <1>3, <2>2 DEF EndFeature
  <2>3. CASE curr.feature # "aalt"
    <3>1. prev.tbl # UNDEF
      BY <2>1, <2>3 DEF MayEnd, BlockHasRule, InBlock
    <3> QED
      BY <1>1, <1>3, <2>1, <2>3, <3>1 DEF EndFeature
  <2> QED
    BY <2>2, <2>3
<1> QED
  BY <1>2, <1>3

\* Registration takes the rules of the last lookup into a subtable and adds subtables without
\* rules.
LEMMA EndConserved ==
    ASSUME "emptyBlock" \notin Forms, "emptyFeature" \notin Forms,
           IInv, NamedInv, OpenRunInv, RefRunInv, ConservedRun, ~hadError,
           EndLookup \/ EndFeature \/ RegisterLookup \/ RegisterNextLangSys \/ RegisterDone
    PROVE  ConservedRun'
<1>0. /\ TypeOK /\ curr \in StateType /\ prev \in StateType /\ namedLkp \in Seq(NamedLkpType)
      /\ layout \in LayoutType /\ hadError = FALSE
      /\ lookup \in Seq(LookupInfoType) /\ regPos \in Nat \ {0}
      /\ OpenInv /\ BlockInv
  BY DEF IInv, TypeOK, LayoutType, OpenRunInv, NamedInv
<1>1. CASE EndLookup \/ EndFeature
  <2>1. ASSUME BeginRegister, pc = "stmt", layout' = CloseRun(prev) PROVE ConservedRun'
    <3>1. pc' = "register" /\ UNCHANGED <<ruleCnt, hadError>>
      BY <2>1 DEF BeginRegister
    <3>2. Conserved(CloseRun(prev), {}, ruleCnt)
      BY <1>0, <2>1, CloseConserved DEF ConservedRun
    <3> QED
      BY <2>1, <3>1, <3>2 DEF ConservedRun
  <2>2. \/ BeginRegister /\ pc = "stmt" /\ layout' = CloseRun(prev)
        \/ Fatal
        \/ UNCHANGED <<layout, prev, ruleCnt, pc, hadError>>
    BY <1>1, EndCloses
  <2>3. Fatal => pc # "register"
    <3>1. pc = "stmt"
      BY <1>1 DEF EndLookup, EndFeature
    <3> QED
      BY <3>1
  <2>4. Fatal \/ UNCHANGED <<layout, prev, ruleCnt, pc, hadError>> => ConservedRun'
    BY <2>3, FrameConserved DEF Fatal
  <2> QED
    BY <2>1, <2>2, <2>4
<1>2. CASE RegisterLookup
  <2> DEFINE ls == FirstOf(regTodo)
             lkp == lookup[regPos]
             tbl == RegTable(lkp)
             begun == LookupBegin(layout, tbl, ls[1], ls[2], curr.feature,
                                  lkp.lkpType, lkp.lkpFlag, RefLab(lkp.label))
  <2>1. regPos \in 1 .. Len(lookup)
    BY <1>0, <1>2 DEF RegisterLookup
  <2>2. lkp \in LookupInfoType /\ tbl \in Tables
    BY <1>0, <2>1, ElementOfSeq DEF RegTable, Tables
  <2>3. /\ layout' = LookupEnd(begun, tbl, hadError) /\ pc = "register"
        /\ UNCHANGED <<pc, hadError, ruleCnt>>
    BY <1>2 DEF RegisterLookup
  <2>4. ls[1] \in Scripts /\ ls[2] \in Langs
    <3>1. regTodo \subseteq LangSys /\ regTodo # {}
      BY <1>2 DEF RegisterLookup, IInv, TypeOK
    <3>2. FirstOf(regTodo) \in Scripts \X Langs
      BY <3>1, FirstOfMember DEF LangSys
    <3> QED
      BY <3>2
  <2>5. RefLab(lkp.label) \in Label /\ lkp.lkpType \in LkpTypes /\ lkp.lkpFlag \in Nat
    BY <2>2, RefLabProperties DEF LookupInfoType
  <2>6. curr.feature \in Features \cup {UNDEF, STAND_ALONE}
    BY <1>0 DEF StateType
  <2> HIDE DEF ls, lkp, tbl
  <2>7. begun \in LayoutType /\ SameSubs(layout, begun) /\ begun[tbl].new.rules = {}
    <3>1. begun \in LayoutType
      BY <1>0, <2>2, <2>4, <2>5, <2>6, LookupBeginType
    <3>2. SameSubs(layout, begun) /\ begun[tbl].new.rules = {}
      BY <1>0, <2>2, LookupBeginShape, BeginRules DEF SameSubs
    <3> QED
      BY <3>1, <3>2
  <2> HIDE DEF begun
  <2> DEFINE new == begun[tbl].new
  <2>8. Appended(begun, layout', tbl, new) /\ new \in SubtableType
    BY <1>0, <2>2, <2>3, <2>7, LookupEndAppends DEF LayoutType
  <2>9. Conserved(begun, {}, ruleCnt)
    BY <1>0, <2>3, <2>7, SameSubsConserved DEF ConservedRun
  <2> HIDE DEF new
  <2>10. new.rules = {}
    BY <2>7 DEF new
  <2>11. Conserved(layout', {} \ new.rules, ruleCnt)
    BY <2>2, <2>7, <2>8, <2>9, <2>10, AppendedConserved
  <2> QED
    BY <2>3, <2>10, <2>11 DEF ConservedRun
<1>3. CASE RegisterNextLangSys
  BY <1>3, FrameConserved DEF RegisterNextLangSys
<1>4. CASE RegisterDone
  <2>1. prev'.tbl = UNDEF
    BY <1>0, <1>4 DEF RegisterDone, Closed, StateType
  <2> QED
    BY <1>4, <2>1 DEF RegisterDone, ConservedRun, OpenRules
<1> QED
  BY <1>1, <1>2, <1>3, <1>4

-----------------------------------------------------------------------------
(* The steps *)

\* An error is not forgotten.
LEMMA ErrorStays ==
    ASSUME TypeOK, hadError, [Next]_vars
    PROVE  hadError'
BY DEF TypeOK, Next, vars, IncludeInvalidated, IncludeDone, EndOfFile, Finished, Fatal,
       RegisterNextLangSys, RegisterDone, LangSystem, StartFeature, ScriptStmt,
       LanguageStmt, LookupFlagStmt, StartStandAlone, StartLookup, RegisterLookup,
       EndLookup, EndFeature, BeginRegister, UseLookup, CallLkp, IncludeNext, RuleStmt

\* A reference to the lookup of state st
RefStep(st) ==
    /\ pc \in {"stmt", "include"} /\ nest = "feature" /\ currNamedLkp = LAB_UNDEF
    /\ st \in StateType /\ st.tbl \in Tables /\ st.label # LAB_UNDEF
    /\ In(Allocated, st.label) /\ Carried(layout, prev, st)
    /\ CallLkp(st) /\ ~CallFails(st)

\* A reference is made to a lookup of one of the tables.
LEMMA ReferenceSteps ==
    ASSUME IInv, IssuedInv, NamedInv, OpenRunInv, RefRunInv, ~hadError, ~hadError',
           IncludeNext \/ \E n \in Names : UseLookup(n)
    PROVE  \/ Fatal /\ pc \in {"stmt", "include"}
           \/ IncludeNext /\ RefStep(DFLTLkps[iter + 1])
           \/ \E n \in Names : \E i \in 1 .. Len(namedLkp) :
                 UseLookup(n) /\ namedLkp[i].state.label = i - 1 /\ RefStep(namedLkp[i].state)
<1>0. /\ DFLTLkps \in Seq(StateType) /\ namedLkp \in Seq(NamedLkpType)
      /\ iter \in Nat /\ iterEnd \in Nat
      /\ SeqIn(Allocated, DFLTLkps) /\ NamesIn(Allocated, namedLkp) /\ TypeOK
      /\ OpenInv /\ BlockInv /\ RefInv
  BY DEF IInv, TypeOK, IssuedInv, RunIn, OpenRunInv, NamedInv, RefRunInv
<1>1. CASE IncludeNext
  <2> DEFINE st == DFLTLkps[iter + 1]
  <2>1. iter + 1 \in 1 .. Len(DFLTLkps) /\ pc = "include"
    BY <1>0, <1>1 DEF IncludeNext, IInv, IncludePosition
  <2>2. st \in StateType /\ In(Allocated, st.label) /\ Carried(layout, prev, st)
    BY <1>0, <2>1, ElementOfSeq DEF SeqIn, RefInv, SeqCarried
  <2>3. st.label # LAB_UNDEF /\ nest = "feature"
    BY <1>0, <2>1 DEF OpenInv, Real, BlockInv
  <2>4. (CallLkp(st) /\ ~CallFails(st)) \/ Fatal
    BY <1>1 DEF IncludeNext
  <2>5. currNamedLkp = LAB_UNDEF
    BY <1>0, <2>3 DEF BlockInv, InBlock
  <2> QED
    BY <1>1, <2>1, <2>2, <2>3, <2>4, <2>5 DEF RefStep, Carried
<1>2. ASSUME NEW n \in Names, UseLookup(n)
      PROVE  \/ Fatal /\ pc = "stmt"
             \/ \E i \in 1 .. Len(namedLkp) :
                   namedLkp[i].state.label = i - 1 /\ RefStep(namedLkp[i].state)
  <2> DEFINE i == CHOOSE i \in 1 .. Len(namedLkp) : namedLkp[i].name = n
             st == namedLkp[i].state
  <2>1. pc = "stmt" /\ nest = "feature"
    BY <1>2 DEF UseLookup, Ready
  <2>2. \/ NameTaken(n) /\ CallLkp(st) /\ ~CallFails(st)
        \/ Fatal
    BY <1>2 DEF UseLookup
  <2>3. ASSUME NameTaken(n)
        PROVE  /\ i \in 1 .. Len(namedLkp) /\ st.label = i - 1
               /\ st \in StateType /\ In(Allocated, st.label) /\ st.label # LAB_UNDEF
               /\ Carried(layout, prev, st)
    <3>1. i \in 1 .. Len(namedLkp)
      BY <2>3 DEF NameTaken
    <3> HIDE DEF i
    <3>2. namedLkp[i] \in NamedLkpType /\ i - 1 # LAB_UNDEF
      BY <1>0, <3>1, ElementOfSeq, NamedNotUndef
    <3>3. NamesRight /\ currNamedLkp = LAB_UNDEF
      BY <1>0, <2>1 DEF BlockInv, InBlock
    <3>4. st.label = i - 1 /\ Carried(layout, prev, st)
      BY <1>0, <3>1, <3>2, <3>3 DEF NamesRight, RefInv, NamesCarried
    <3> QED
      BY <1>0, <3>1, <3>2, <3>4 DEF NamedLkpType, NamesIn
  <2>4. currNamedLkp = LAB_UNDEF
    BY <1>0, <2>1 DEF BlockInv, InBlock
  <2> HIDE DEF i
  <2> QED
    BY <2>1, <2>2, <2>3, <2>4 DEF RefStep, Carried
<1> QED
  BY <1>1, <1>2

\* The state of a reference
LEMMA ReferenceState ==
    ASSUME IInv, NamedInv, NEW st, RefStep(st)
    PROVE  LET ref == Reference(st)
           IN  /\ ref \in StateType /\ ref.tbl = st.tbl /\ ref.label = RefLab(st.label)
               /\ IsRefLab(ref.label) /\ BaseLab(ref.label) = BaseLab(st.label)
               /\ ref.lkpType = st.lkpType /\ ref.lkpFlag = st.lkpFlag
               /\ ref.feature = curr.feature
               /\ ~EntersLangSysMode => ref.script = curr.script /\ ref.language = curr.language
               /\ EntersLangSysMode => <<ref.script, ref.language>> =
                      <<FirstOf(DOMAIN langSysMap)[1], FirstOf(DOMAIN langSysMap)[2]>>
               /\ PrepRule(ref, ref.label, {}) /\ ~PrepFails(ref, ref.label)
<1> DEFINE named == RefLab(st.label)
           ref == Reference(st)
<1>0. /\ TypeOK /\ LangSysSeen /\ st \in StateType /\ st.label \in Label /\ st.label # LAB_UNDEF
      /\ In(Allocated, st.label) /\ st.lkpType \in LkpTypes /\ st.lkpFlag \in Nat
      /\ st.tbl \in Tables
  BY DEF IInv, StateType, RefStep
<1>1. /\ named # LAB_UNDEF /\ IsRefLab(named) /\ named \in Label
      /\ BaseLab(named) = BaseLab(st.label)
  <2>1. named # LAB_UNDEF /\ IsRefLab(named) /\ named \in Label
    BY <1>0, RefIsRef, RefLabProperties
  <2>2. BaseLab(named) = BaseLab(st.label)
    BY <1>0, LabelAssumption DEF RefLab, BaseLab, Label, LAB_UNDEF
  <2> QED
    BY <2>1, <2>2
<1> HIDE DEF named
<1>2. ref = Prepared(st.tbl, st.lkpType, st.lkpFlag, named)
  BY DEF Reference, named
<1>3. ref.label = named
  BY <1>0, <1>1, <1>2, PreparedLabel
<1>4. ref \in StateType
  BY <1>0, <1>1, <1>2, PreparedType
<1>5. /\ ref.tbl = st.tbl /\ ref.lkpType = st.lkpType /\ ref.feature = curr.feature
      /\ ref.lkpFlag = st.lkpFlag
      /\ ~EntersLangSysMode => ref.script = curr.script /\ ref.language = curr.language
      /\ EntersLangSysMode => <<ref.script, ref.language>> =
             <<FirstOf(DOMAIN langSysMap)[1], FirstOf(DOMAIN langSysMap)[2]>>
  BY <1>0, <1>2, PreparedFields
<1>6. PrepRule(ref, named, {}) /\ ~PrepFails(ref, named)
  BY DEF RefStep, CallLkp, CallFails, named
<1> HIDE DEF ref
<1> QED
  BY <1>1, <1>3, <1>4, <1>5, <1>6 DEF ref, named

\* Every step keeps the rules, in files whose blocks and features have rules and whose lookup
\* blocks leave script and language alone.
LEMMA NextConserved ==
    ASSUME "emptyBlock" \notin Forms, "emptyFeature" \notin Forms,
           IInv, IssuedInv, NamedInv, OpenRunInv, RefRunInv, ConservedRun, [Next]_vars
    PROVE  ConservedRun'
<1> SUFFICES ASSUME ~hadError' PROVE ConservedRun'
  BY DEF ConservedRun
<1>0. TypeOK /\ LangSysSeen /\ curr \in StateType /\ currNamedLkp \in Label
  BY DEF IInv, TypeOK
<1>1. ~hadError
  BY <1>0, ErrorStays
<1>2. CASE UNCHANGED vars
  BY <1>1, <1>2, FrameConserved DEF vars
<1>3. CASE IncludeNext \/ \E n \in Names : UseLookup(n)
  <2>1. CASE Fatal /\ pc \in {"stmt", "include"}
    BY <1>1, <2>1, FrameConserved DEF Fatal
  <2>2. ASSUME NEW st, RefStep(st) PROVE ConservedRun'
    <3> DEFINE ref == Reference(st)
    <3>1. ref \in StateType /\ ref.tbl \in Tables /\ PrepRule(ref, ref.label, {})
      BY <2>2, ReferenceState DEF RefStep
    <3> HIDE DEF ref
    <3>2. pc # "register" /\ pc' = pc /\ ruleCnt' = ruleCnt
      BY <2>2 DEF RefStep, CallLkp
    <3> QED
      BY <1>0, <1>1, <3>1, <3>2, PrepRuleConserved
  <2> QED
    BY <1>1, <1>3, <2>1, <2>2, ReferenceSteps
<1>4. ASSUME NEW k \in RuleKinds, RuleStmt(k[1], k[2]) PROVE ConservedRun'
  <2> DEFINE st == Prepared(k[1], k[2], curr.lkpFlag, currNamedLkp)
  <2>0. k[1] \in Tables /\ k[2] \in LkpTypes /\ curr.lkpFlag \in Nat
    <3>1. k[1] \in Tables /\ k[2] \in LkpTypes
      BY FeatAssumption DEF LkpTypes
    <3> QED
      BY <1>0, <3>1 DEF StateType
  <2>1. st \in StateType /\ st.tbl = k[1]
    BY <1>0, <2>0, PreparedType, PreparedLabel
  <2>2. \/ Fatal
        \/ UNCHANGED <<pc, hadError, ruleCnt, runVars>>
        \/ PrepRule(st, currNamedLkp, {ruleCnt + 1}) /\ UNCHANGED pc /\ ruleCnt' = ruleCnt + 1
    BY <1>4 DEF RuleStmt
  <2>3. pc = "stmt"
    BY <1>4 DEF RuleStmt
  <2> HIDE DEF st
  <2>4. CASE Fatal \/ UNCHANGED <<pc, hadError, ruleCnt, runVars>>
    BY <1>1, <2>3, <2>4, FrameConserved DEF Fatal
  <2>5. CASE PrepRule(st, currNamedLkp, {ruleCnt + 1}) /\ UNCHANGED pc /\ ruleCnt' = ruleCnt + 1
    BY <1>0, <1>1, <2>0, <2>1, <2>3, <2>5, PrepRuleConserved
  <2> QED
    BY <2>2, <2>4, <2>5
<1>5. CASE EndLookup \/ EndFeature \/ RegisterLookup \/ RegisterNextLangSys \/ RegisterDone
  BY <1>1, <1>5, EndConserved
<1>6. CASE \/ IncludeInvalidated \/ IncludeDone \/ EndOfFile \/ Finished
           \/ \E s \in Scripts, l \in Langs : LangSystem(s, l)
           \/ \E f \in Features : StartFeature(f)
           \/ \E s \in Scripts : ScriptStmt(s)
           \/ \E l \in Langs, incl \in BOOLEAN : LanguageStmt(l, incl)
           \/ \E v \in Flags : LookupFlagStmt(v)
           \/ \E n \in Names : StartStandAlone(n) \/ StartLookup(n)
  <2> DEFINE frame == /\ UNCHANGED <<layout, prev, ruleCnt>>
                      /\ (pc # "register" /\ pc' # "register") \/ UNCHANGED pc
  <2>1. CASE IncludeInvalidated
    <3>1. frame
      BY <2>1 DEF IncludeInvalidated, Fatal
    <3> QED
      BY <1>1, <3>1, FrameConserved
  <2>2. CASE IncludeDone
    <3>1. frame
      BY <2>2 DEF IncludeDone
    <3> QED
      BY <1>1, <3>1, FrameConserved
  <2>3. CASE EndOfFile
    <3>1. frame
      BY <2>3 DEF EndOfFile
    <3> QED
      BY <1>1, <3>1, FrameConserved
  <2>4. CASE Finished
    <3>1. frame
      BY <2>4 DEF Finished, vars
    <3> QED
      BY <1>1, <3>1, FrameConserved
  <2>5. CASE \E s \in Scripts, l \in Langs : LangSystem(s, l)
    <3>1. frame
      BY <2>5 DEF LangSystem, Ready
    <3> QED
      BY <1>1, <3>1, FrameConserved
  <2>6. CASE \E f \in Features : StartFeature(f)
    <3>1. frame
      BY <2>6 DEF StartFeature, Ready
    <3> QED
      BY <1>1, <3>1, FrameConserved
  <2>7. CASE \E s \in Scripts : ScriptStmt(s)
    <3>1. frame
      BY <2>7 DEF ScriptStmt, Ready
    <3> QED
      BY <1>1, <3>1, FrameConserved
  <2>8. CASE \E l \in Langs, incl \in BOOLEAN : LanguageStmt(l, incl)
    <3>1. frame
      BY <2>8 DEF LanguageStmt, Ready
    <3> QED
      BY <1>1, <3>1, FrameConserved
  <2>9. CASE \E v \in Flags : LookupFlagStmt(v)
    <3>1. frame
      BY <2>9 DEF LookupFlagStmt, Ready
    <3> QED
      BY <1>1, <3>1, FrameConserved
  <2>10. CASE \E n \in Names : StartStandAlone(n)
    <3>1. frame
      BY <2>10 DEF StartStandAlone, Ready, Fatal
    <3> QED
      BY <1>1, <3>1, FrameConserved
  <2>11. CASE \E n \in Names : StartLookup(n)
    <3>1. frame
      BY <2>11 DEF StartLookup, Ready
    <3> QED
      BY <1>1, <3>1, FrameConserved
  <2> QED
    BY <1>6, <2>1, <2>2, <2>3, <2>4, <2>5, <2>6, <2>7, <2>8, <2>9, <2>10, <2>11
<1> QED
  BY <1>2, <1>3, <1>4, <1>5, <1>6 DEF Next

\* The places of a rule are the subtables that hold it.
LEMMA PlacesAre ==
    ASSUME IInv, NEW r
    PROVE  \A p : p \in Places(r) <=>
                  \E tbl \in Tables : \E k \in 1 .. Len(layout[tbl].subtables) :
                      p = <<tbl, k>> /\ HeldAt(layout, tbl, k, r)
<1>1. \A tbl \in Tables : DOMAIN layout[tbl].subtables = 1 .. Len(layout[tbl].subtables)
  <2> SUFFICES ASSUME NEW tbl \in Tables
               PROVE  DOMAIN layout[tbl].subtables = 1 .. Len(layout[tbl].subtables)
    OBVIOUS
  <2>1. layout[tbl].subtables \in Seq(SubtableType)
    BY DEF IInv, TypeOK
  <2> QED
    BY <2>1, LenProperties
<1> QED
  BY <1>1 DEF Places, HeldAt

\* What ConservedRun says, counted.
LEMMA ConservedCounts ==
    ASSUME IInv, ConservedRun
    PROVE  RulesConserved
<1> SUFFICES ASSUME AtStatement, NEW r \in 1 .. ruleCnt
             PROVE  Cardinality(Places(r)) = IF Pending(r) THEN 0 ELSE 1
  BY DEF RulesConserved
<1>1. layout \in LayoutType /\ prev \in StateType
  BY DEF IInv, TypeOK, LayoutType
<1>2. /\ HeldOnce(layout)
      /\ \A q \in OpenRules(layout, prev) : ~Held(layout, q)
      /\ Held(layout, r) \/ r \in OpenRules(layout, prev)
  BY DEF AtStatement, ConservedRun, Conserved
<1>3. Pending(r) <=> r \in OpenRules(layout, prev)
  BY DEF Pending, OpenRules
<1>4. \A p : p \in Places(r) <=> \E tbl \in Tables : \E k \in 1 .. Len(layout[tbl].subtables) :
                                    p = <<tbl, k>> /\ HeldAt(layout, tbl, k, r)
  BY PlacesAre
<1>5. CASE Pending(r)
  <2>1. Places(r) = {}
    BY <1>2, <1>3, <1>4, <1>5 DEF Held
  <2> QED
    BY <1>5, <2>1, FS_EmptySet
<1>6. CASE ~Pending(r)
  <2>1. PICK tbl \in Tables : \E k \in 1 .. Len(layout[tbl].subtables) : HeldAt(layout, tbl, k, r)
    BY <1>2, <1>3, <1>6 DEF Held
  <2>2. PICK k \in 1 .. Len(layout[tbl].subtables) : HeldAt(layout, tbl, k, r)
    BY <2>1
  <2>3. Places(r) = {<<tbl, k>>}
    BY <1>2, <1>4, <2>2 DEF HeldOnce
  <2> QED
    BY <1>6, <2>3, FS_Singleton
<1> QED
  BY <1>5, <1>6

\* Every step conserves the rules.
LEMMA RulesAreKept ==
    ASSUME "blockLang" \notin Forms, "emptyBlock" \notin Forms, "emptyFeature" \notin Forms
    PROVE  Spec => []ConservedRun
<1>1. Init => ConservedRun
  <2> SUFFICES ASSUME Init PROVE ConservedRun
    OBVIOUS
  <2>1. /\ prev.tbl = UNDEF /\ ruleCnt = 0
        /\ \A tbl \in Tables : layout[tbl].subtables = <<>>
    BY DEF Init, NoState, EmptyLayout
  <2>2. HeldOnce(layout) /\ \A r : ~Held(layout, r)
    BY <2>1 DEF HeldOnce, Held
  <2> QED
    BY <2>1, <2>2 DEF ConservedRun, Conserved, OpenRules
<1>2. IInv /\ IssuedInv /\ NamedInv /\ OpenRunInv /\ RefRunInv /\ ConservedRun /\ [Next]_vars
      => ConservedRun'
  BY NextConserved
<1> QED
  BY <1>1, <1>2, RefInvariant, PTL DEF Spec

\* GSUBLookupBegin and GPOSLookupBegin empty the accumulator and LookupEnd turns it into a
\* subtable: in files whose blocks and features have rules, and whose lookup blocks leave
\* script and language alone, every rule is in exactly one finished subtable or in the lookup
\* being accumulated, so no rule is lost or repeated before the first error.
THEOREM RulesAreConserved ==
    ASSUME "blockLang" \notin Forms, "emptyBlock" \notin Forms, "emptyFeature" \notin Forms
    PROVE  HSpec => []RulesConserved
<1>1. Spec => []ConservedRun
  BY RulesAreKept
<1>2. IInv /\ ConservedRun => RulesConserved
  BY ConservedCounts
<1> QED
  BY <1>1, <1>2, RefInvariant, SpecOfFeatCtx, PTL

=============================================================================
