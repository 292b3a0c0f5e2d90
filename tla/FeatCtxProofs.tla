---------------------------- MODULE FeatCtxProofs ----------------------------
(***************************************************************************)
(* The type invariant of the feature-file compiler, for every value of the *)
(* constants. First what the operators of LayoutTables and the helpers of  *)
(* FeatCtx return, then one step per action. Two results about script and  *)
(* language statements follow: exclude_dflt ends with its feature, and the *)
(* list that includeDFLT iterates over does not change meanwhile.          *)
(* FeatLabelProofs builds on the first part.                               *)
(***************************************************************************)
EXTENDS FeatCtx, TLAPS, WellFoundedInduction, NaturalsInduction, SequenceTheorems

-----------------------------------------------------------------------------
(* The first language system *)

\* A nonempty set of natural numbers has a least element.
LEMMA LeastNatural ==
    ASSUME NEW T, T \subseteq Nat, T # {}
    PROVE  \E x \in T : \A y \in T : x <= y
<1>1. PICK x \in T : \A y \in T : ~ (<<y, x>> \in OpToRel(<, Nat))
  BY NatLessThanWellFounded, WFMin, Zenon
<1>2. \A y \in T : ~ (y < x)
  BY <1>1, Zenon DEF OpToRel
<1> QED
  BY <1>2

\* langSysMap.begin() is one of the language systems of the map: LangSys::operator< has
\* a least element in every nonempty set, so the CHOOSE of FirstOf has a candidate.
LEMMA FirstOfMember ==
    ASSUME NEW S, S \subseteq LangSys, S # {}
    PROVE  FirstOf(S) \in S
<1> DEFINE R1 == {TagRank[ls[1]] : ls \in S}
<1>1. PICK r1 \in R1 : \A r \in R1 : r1 <= r
  <2>1. R1 \subseteq Nat /\ R1 # {}
    BY FeatAssumption DEF LangSys
  <2> QED
    BY <2>1, LeastNatural, Zenon
<1> DEFINE S1 == {ls \in S : TagRank[ls[1]] = r1}
<1> DEFINE R2 == {TagRank[ls[2]] : ls \in S1}
<1>2. PICK r2 \in R2 : \A r \in R2 : r2 <= r
  <2>1. R2 \subseteq Nat /\ R2 # {}
    BY FeatAssumption DEF LangSys
  <2> HIDE DEF R2
  <2> QED
    BY <2>1, LeastNatural, Zenon
<1>3. PICK m \in S1 : TagRank[m[2]] = r2
  OBVIOUS
<1>4. ASSUME NEW other \in S \ {m} PROVE Before(m, other)
  <2>0. /\ m \in Scripts \X Langs /\ other \in Scripts \X Langs
        /\ TagRank[m[1]] = r1
        /\ TagRank[m[1]] \in Nat /\ TagRank[other[1]] \in Nat
    BY <1>3, FeatAssumption DEF LangSys
  <2>1. CASE other \notin S1
    <3>1. r1 <= TagRank[other[1]] /\ TagRank[other[1]] # r1
      BY <1>1, <2>1
    <3> QED
      BY <2>0, <3>1 DEF Before
  <2>2. CASE other \in S1
    <3>1. m[1] = other[1]
      BY <1>3, <2>2, FeatAssumption DEF LangSys
    <3>2. TagRank[m[2]] <= TagRank[other[2]]
      BY <1>2, <1>3, <2>2
    <3>3. m[2] # other[2]
      BY <1>4, <3>1 DEF LangSys
    <3> QED
      BY <3>1, <3>2, <3>3, <2>2, <1>3, FeatAssumption DEF Before, LangSys
  <2> QED
    BY <2>1, <2>2
<1>5. \E ls \in S : \A other \in S \ {ls} : Before(ls, other)
  BY <1>3, <1>4
<1> QED
  BY <1>5 DEF FirstOf

-----------------------------------------------------------------------------
(* Labels *)

\* Setting and clearing the reference bit stays within an unsigned short, and clearing it
\* undoes setting it.
LEMMA RefLabProperties ==
    ASSUME NEW lab \in Label
    PROVE  /\ RefLab(lab) \in Label
           /\ BaseLab(lab) \in Label
           /\ BaseLab(RefLab(lab)) = BaseLab(lab)
           /\ RefLab(lab) = LAB_UNDEF => lab \in {LAB_UNDEF, REF_LAB - 1}
  BY LabelAssumption DEF RefLab, BaseLab, Label, LAB_UNDEF

-----------------------------------------------------------------------------
(* The tables *)

LayoutType == [Tables -> [new : SubtableType, subtables : Seq(SubtableType)]]

\* Beginning a lookup leaves both tables well formed.
LEMMA LookupBeginType ==
    ASSUME NEW lay \in LayoutType, NEW tbl \in Tables,
           NEW s \in Scripts \cup {UNDEF, STAND_ALONE}, NEW l \in Langs \cup {UNDEF},
           NEW f \in Features \cup {UNDEF, STAND_ALONE}, NEW typ \in LkpTypes,
           NEW flag \in Nat, NEW lab \in Label
    PROVE  LookupBegin(lay, tbl, s, l, f, typ, flag, lab) \in LayoutType
  BY DEF LookupBegin, LayoutType, SubtableType

\* Adding a rule does, too.
LEMMA RuleAddType ==
    ASSUME NEW lay \in LayoutType, NEW tbl \in Tables, NEW rule \in Nat, NEW err \in BOOLEAN
    PROVE  RuleAdd(lay, tbl, rule, err) \in LayoutType
  BY DEF RuleAdd, LayoutType, SubtableType

\* So does ending a lookup, which appends at most one subtable.
LEMMA LookupEndType ==
    ASSUME NEW lay \in LayoutType, NEW tbl \in Tables, NEW err \in BOOLEAN
    PROVE  LookupEnd(lay, tbl, err) \in LayoutType
<1> DEFINE new == lay[tbl].new
           done == [new EXCEPT !.rules = IF tbl = "GSUB" THEN {} ELSE @]
           subs == lay[tbl].subtables
<1>1. new \in SubtableType /\ done \in SubtableType /\ subs \in Seq(SubtableType)
  BY DEF LayoutType, SubtableType
<1>2. Append(subs, new) \in Seq(SubtableType)
  BY <1>1
<1>3. [lay EXCEPT ![tbl].subtables = Append(@, new)] \in LayoutType
  BY <1>2 DEF LayoutType
<1>4. [lay EXCEPT ![tbl] = [new |-> done, subtables |-> Append(@.subtables, new)]] \in LayoutType
  BY <1>1, <1>2 DEF LayoutType
<1> QED
  BY <1>3, <1>4 DEF LookupEnd

\* So does closing the lookup that a state has open.
LEMMA CloseRunType ==
    ASSUME TypeOK, NEW st \in StateType
    PROVE  CloseRun(st) \in LayoutType
<1>1. layout \in LayoutType /\ hadError \in BOOLEAN
  BY DEF TypeOK, LayoutType
<1>2. st.tbl # UNDEF => st.tbl \in Tables
  BY DEF StateType
<1> QED
  BY <1>1, <1>2, LookupEndType DEF CloseRun

-----------------------------------------------------------------------------
(* The inductive invariant behind the type invariant.  A handler that loops *)
(* indexes DFLTLkps with positions computed when its loop began, so the     *)
(* type invariant alone is not inductive.                                   *)

\* prepRule takes the first element of langSysMap when language systems were seen.
LangSysSeen == "seenLangSys" \in gFlags => DOMAIN langSysMap # {}

\* prepRule empties DFLTLkps when feature and script are not those of the last rule.
DefaultsOfScript == DFLTLkps # <<>> => prev.feature = curr.feature /\ prev.script = curr.script

\* The positions of includeDFLT's loop lie in DFLTLkps.
IncludePosition ==
    pc = "include" => /\ "seenScriptLang" \in fFlags
                      /\ iter <= iterEnd /\ iterEnd <= Len(DFLTLkps)

IInv == TypeOK /\ LangSysSeen /\ DefaultsOfScript /\ IncludePosition

\* curr is well formed after prepRule has set its fields.
LEMMA PreparedType ==
    ASSUME TypeOK, LangSysSeen,
           NEW tbl \in Tables \cup {UNDEF}, NEW typ \in LkpTypes, NEW flag \in Nat,
           NEW named \in Label
    PROVE  /\ Prepared(tbl, typ, flag, named) \in StateType
           /\ EntersLangSysMode => /\ Prepared(tbl, typ, flag, named).script \in Scripts
                                   /\ Prepared(tbl, typ, flag, named).language \in Langs
<1> DEFINE first == FirstOf(DOMAIN langSysMap)
           st == [curr EXCEPT !.tbl = tbl, !.lkpType = typ, !.lkpFlag = flag,
                              !.script = IF EntersLangSysMode THEN first[1] ELSE @,
                              !.language = IF EntersLangSysMode THEN first[2] ELSE @]
           lab == IF named # LAB_UNDEF THEN named
                  ELSE IF NeedsAnonLabel(st, named) THEN anonLabelCnt ELSE prev.label
<1>1. EntersLangSysMode => first[1] \in Scripts /\ first[2] \in Langs
  BY FirstOfMember DEF EntersLangSysMode, LangSysSeen, TypeOK, LangSys
<1>2. curr \in StateType /\ prev \in StateType
  BY DEF TypeOK
<1>3. /\ st \in StateType
      /\ EntersLangSysMode => st.script \in Scripts /\ st.language \in Langs
  BY <1>1, <1>2 DEF StateType
<1>4. lab \in Label
  <2>0. anonLabelCnt \in FEAT_ANON_LKP_BEG .. FEAT_ANON_LKP_END + 1
    BY DEF TypeOK
  <2>1. anonLabelCnt \in Label
    BY <2>0, LabelAssumption DEF Label, LAB_UNDEF, FEAT_ANON_LKP_BEG
  <2> QED
    BY <1>2, <2>1 DEF StateType
<1>5. Prepared(tbl, typ, flag, named) = [st EXCEPT !.label = lab]
  BY DEF Prepared
<1> HIDE DEF st, lab
<1> QED
  BY <1>3, <1>4, <1>5 DEF StateType

\* The variables that prepRule assigns to keep their types, and the defaults are those of
\* the feature and script of the rule.
LEMMA PrepRuleType ==
    ASSUME TypeOK, NEW st \in StateType, NEW named \in Label, NEW rules,
           EntersLangSysMode => st.script \in Scripts /\ st.language \in Langs,
           rules # {} => st.tbl \in Tables,
           ~PrepFails(st, named),
           PrepRule(st, named, rules)
    PROVE  /\ fFlags' \subseteq {"langSysMode", "seenScriptLang"}
           /\ script' \subseteq Scripts \cup {STAND_ALONE}
           /\ language' \subseteq Langs
           /\ include_dflt' \in BOOLEAN
           /\ anonLabelCnt' \in FEAT_ANON_LKP_BEG .. FEAT_ANON_LKP_END + 1
           /\ DFLTLkps' \in Seq(StateType)
           /\ layout' \in LayoutType
           /\ lookup' \in Seq(LookupInfoType)
           /\ curr' \in StateType /\ prev' \in StateType
           /\ curr' = prev'
           /\ fFlags \subseteq fFlags'
           /\ st.feature = prev.feature /\ st.script = prev.script
              => Len(DFLTLkps') >= Len(DFLTLkps)
<1>1. /\ fFlags' \subseteq {"langSysMode", "seenScriptLang"}
      /\ fFlags \subseteq fFlags'
      /\ script' \subseteq Scripts \cup {STAND_ALONE}
      /\ language' \subseteq Langs
      /\ include_dflt' \in BOOLEAN
      /\ curr' \in StateType /\ prev' \in StateType /\ curr' = prev'
  <2>1. /\ fFlags \subseteq {"langSysMode", "seenScriptLang"}
        /\ script \subseteq Scripts \cup {STAND_ALONE}
        /\ language \subseteq Langs
        /\ include_dflt \in BOOLEAN
    BY DEF TypeOK
  <2> QED
    BY <2>1 DEF PrepRule
<1>2. anonLabelCnt' \in FEAT_ANON_LKP_BEG .. FEAT_ANON_LKP_END + 1
  <2>1. anonLabelCnt \in FEAT_ANON_LKP_BEG .. FEAT_ANON_LKP_END + 1
    BY DEF TypeOK
  <2>2. NeedsAnonLabel(st, named) => ~(anonLabelCnt > FEAT_ANON_LKP_END)
    BY DEF PrepFails
  <2>3. anonLabelCnt' = IF NeedsAnonLabel(st, named) THEN anonLabelCnt + 1 ELSE anonLabelCnt
    BY DEF PrepRule, AnonLabelsAfter
  <2> QED
    BY <2>1, <2>2, <2>3, LabelAssumption DEF FEAT_ANON_LKP_BEG
<1>3. /\ DFLTLkps' \in Seq(StateType)
      /\ st.feature = prev.feature /\ st.script = prev.script
         => Len(DFLTLkps') >= Len(DFLTLkps)
  BY DEF PrepRule, TypeOK
<1>4. lookup' \in Seq(LookupInfoType)
  <2>1. [tbl |-> st.tbl, lkpType |-> st.lkpType, lkpFlag |-> st.lkpFlag, label |-> st.label]
           \in LookupInfoType
    BY DEF StateType, LookupInfoType
  <2> QED
    BY <2>1 DEF PrepRule, TypeOK
<1>5. layout' \in LayoutType
  <2>1. CloseRun(prev) \in LayoutType /\ layout \in LayoutType /\ hadError \in BOOLEAN
        /\ ruleCnt + 1 \in Nat
    BY CloseRunType DEF TypeOK, LayoutType
  <2>2. OpenRun(st) \in LayoutType
    BY <2>1, LookupBeginType DEF OpenRun, StateType
  <2>3. rules # {} => RuleAdd(OpenRun(st), st.tbl, ruleCnt + 1, hadError) \in LayoutType
    BY <2>1, <2>2, RuleAddType
  <2> QED
    BY <2>2, <2>3 DEF PrepRule
<1> QED
  BY <1>1, <1>2, <1>3, <1>4, <1>5
\* A reference to a lookup keeps all types.
LEMMA CallLkpType ==
    ASSUME IInv, NEW st \in StateType, ~CallFails(st), CallLkp(st), UNCHANGED iterEnd,
           iter' \in Nat, stmts' \in Nat
    PROVE  /\ TypeOK' /\ LangSysSeen' /\ DefaultsOfScript'
           /\ pc' = pc /\ fFlags \subseteq fFlags'
           /\ "seenScriptLang" \in fFlags /\ DFLTLkps # <<>> => Len(DFLTLkps') >= Len(DFLTLkps)
<1> DEFINE ref == Reference(st)
           named == RefLab(st.label)
<1>1. named \in Label
  BY RefLabProperties DEF StateType
<1>2. /\ ref \in StateType
      /\ EntersLangSysMode => ref.script \in Scripts /\ ref.language \in Langs
  BY <1>1, PreparedType DEF IInv, Reference, StateType
<1>3. ~PrepFails(ref, named) /\ PrepRule(ref, named, {})
  BY DEF CallFails, CallLkp
<1>4. /\ pc' = pc /\ nest' = nest /\ ruleCnt' = ruleCnt /\ hadError' = hadError
      /\ gFlags' = gFlags /\ langSysMap' = langSysMap /\ feature' = feature
      /\ namedLkp' = namedLkp /\ regTodo' = regTodo /\ regPos' = regPos
      /\ currNamedLkp' = LAB_UNDEF /\ endOfNamedLkpOrRef' = TRUE
  BY DEF CallLkp, globalVars
<1>5. LAB_UNDEF \in Label
  BY LabelAssumption DEF Label, LAB_UNDEF
<1>6. "seenScriptLang" \in fFlags => ref.script = curr.script /\ ref.feature = curr.feature
  BY DEF Reference, Prepared, EntersLangSysMode, IInv, TypeOK, StateType
<1> HIDE DEF ref, named
<1>7. /\ fFlags' \subseteq {"langSysMode", "seenScriptLang"}
      /\ script' \subseteq Scripts \cup {STAND_ALONE}
      /\ language' \subseteq Langs
      /\ include_dflt' \in BOOLEAN
      /\ anonLabelCnt' \in FEAT_ANON_LKP_BEG .. FEAT_ANON_LKP_END + 1
      /\ DFLTLkps' \in Seq(StateType)
      /\ layout' \in LayoutType
      /\ lookup' \in Seq(LookupInfoType)
      /\ curr' \in StateType /\ prev' \in StateType
      /\ curr' = prev'
      /\ fFlags \subseteq fFlags'
      /\ ref.feature = prev.feature /\ ref.script = prev.script
         => Len(DFLTLkps') >= Len(DFLTLkps)
  BY <1>1, <1>2, <1>3, PrepRuleType DEF IInv
<1>8. TypeOK'
  BY <1>4, <1>5, <1>7 DEF IInv, TypeOK, LayoutType
<1>9. LangSysSeen' /\ DefaultsOfScript'
  BY <1>4, <1>7 DEF IInv, LangSysSeen, DefaultsOfScript
<1> QED
  BY <1>4, <1>6, <1>7, <1>8, <1>9 DEF IInv, DefaultsOfScript

-----------------------------------------------------------------------------
(* The steps *)

USE DEF parserVars, loopVars, globalVars, scopeVars, labelVars, runVars

\* The initial state is well formed.
LEMMA InitIInv == Init => IInv
<1> SUFFICES ASSUME Init PROVE IInv
  OBVIOUS
<1>0. LAB_UNDEF \in Label
  BY LabelAssumption DEF Label, LAB_UNDEF
<1>1. NoState \in StateType /\ NoLookup \in SubtableType
  BY <1>0 DEF NoState, NoLookup, StateType, SubtableType, LkpTypes, UNDEF
<1>2. layout \in [Tables -> [new : SubtableType, subtables : Seq(SubtableType)]]
  BY <1>1 DEF Init, EmptyLayout
<1>3. anonLabelCnt \in FEAT_ANON_LKP_BEG .. FEAT_ANON_LKP_END + 1
  BY LabelAssumption DEF Init, FEAT_ANON_LKP_BEG
<1>4. /\ DOMAIN langSysMap = {}
      /\ langSysMap \in [DOMAIN langSysMap -> BOOLEAN]
      /\ regTodo \subseteq DOMAIN langSysMap
  BY DEF Init
<1>5. curr \in StateType /\ prev \in StateType /\ currNamedLkp \in Label
  BY <1>0, <1>1 DEF Init
<1>6. /\ gFlags = {} /\ fFlags = {} /\ feature = {} /\ script = {} /\ language = {}
      /\ DFLTLkps = <<>> /\ lookup = <<>> /\ namedLkp = <<>>
      /\ nest = "file" /\ pc = "stmt" /\ stmts = 0 /\ ruleCnt = 0
      /\ iter = 0 /\ iterEnd = 0 /\ regPos = 1
      /\ hadError = FALSE /\ include_dflt = TRUE /\ endOfNamedLkpOrRef = FALSE
  BY DEF Init
<1>7. /\ DOMAIN langSysMap \subseteq LangSys
      /\ DFLTLkps \in Seq(StateType) /\ lookup \in Seq(LookupInfoType)
      /\ namedLkp \in Seq(NamedLkpType)
      /\ regPos \in Nat \ {0}
  BY <1>4, <1>6
<1>8. TypeOK
  BY <1>2, <1>3, <1>4, <1>5, <1>6, <1>7, Zenon DEF TypeOK
<1> QED
  BY <1>8 DEF Init, IInv, LangSysSeen, DefaultsOfScript, IncludePosition

\* The step that gives up the translation, and the ones that only change a variable or two
LEMMA FatalIInv == IInv /\ Fatal => IInv'
  BY DEF Fatal, IInv, TypeOK, LangSysSeen, DefaultsOfScript, IncludePosition

\* A languagesystem statement keeps the invariant.
LEMMA LangSystemIInv ==
    ASSUME NEW s \in Scripts, NEW l \in Langs, IInv, LangSystem(s, l)
    PROVE  IInv'
<1>0. /\ DOMAIN langSysMap \subseteq LangSys /\ langSysMap \in [DOMAIN langSysMap -> BOOLEAN]
      /\ gFlags \subseteq {"seenFeature", "seenLangSys", "seenNonDFLTScriptLang"}
      /\ hadError \in BOOLEAN /\ stmts \in Nat
  BY DEF IInv, TypeOK
<1>1. /\ DOMAIN langSysMap' \subseteq LangSys
      /\ DOMAIN langSysMap \subseteq DOMAIN langSysMap'
      /\ langSysMap' \in [DOMAIN langSysMap' -> BOOLEAN]
      /\ gFlags' # gFlags => DOMAIN langSysMap' # {}
  <2>1. CASE langSysMap' = langSysMap /\ gFlags' = gFlags
    BY <1>0, <2>1
  <2>2. CASE langSysMap' = [ls \in DOMAIN langSysMap \cup {<<s, l>>} |->
                               IF ls \in DOMAIN langSysMap THEN langSysMap[ls] ELSE FALSE]
    <3>1. <<s, l>> \in LangSys
      BY DEF LangSys
    <3>2. DOMAIN langSysMap' = DOMAIN langSysMap \cup {<<s, l>>}
      BY <2>2
    <3>3. \A ls \in DOMAIN langSysMap' : langSysMap'[ls] \in BOOLEAN
      BY <1>0, <2>2
    <3> QED
      BY <1>0, <2>2, <3>1, <3>2, <3>3
  <2> QED
    BY <2>1, <2>2 DEF LangSystem
<1>2. /\ gFlags' \subseteq {"seenFeature", "seenLangSys", "seenNonDFLTScriptLang"}
      /\ hadError' \in BOOLEAN /\ stmts' \in Nat
  <2>1. stmts' \in Nat
    BY <1>0 DEF LangSystem, Read
  <2>3. hadError' \in BOOLEAN
    BY <1>0, Zenon DEF LangSystem
  <2>2. gFlags' \subseteq gFlags \cup {"seenLangSys", "seenNonDFLTScriptLang"}
    BY DEF LangSystem
  <2> QED
    BY <1>0, <2>1, <2>2, <2>3
<1>3. pc = "stmt" /\ UNCHANGED <<pc, nest, ruleCnt, loopVars, feature, scopeVars, labelVars, runVars>>
  BY DEF LangSystem, Ready
<1>4. TypeOK'
  BY <1>1, <1>2, <1>3 DEF IInv, TypeOK
<1> QED
  BY <1>1, <1>3, <1>4 DEF IInv, LangSysSeen, DefaultsOfScript, IncludePosition

\* Entering a feature: there is at least one language system from then on.
LEMMA EnterFeatureType ==
    ASSUME TypeOK, NEW f \in Features \cup {STAND_ALONE}, EnterFeature(f)
    PROVE  /\ gFlags' \subseteq {"seenFeature", "seenLangSys", "seenNonDFLTScriptLang"}
           /\ feature' \subseteq Features \cup {STAND_ALONE}
           /\ lookup' = <<>> /\ DFLTLkps' = <<>> /\ include_dflt' = TRUE
           /\ DOMAIN langSysMap' \subseteq LangSys /\ DOMAIN langSysMap' # {}
           /\ langSysMap' \in [DOMAIN langSysMap' -> BOOLEAN]
           /\ DOMAIN langSysMap \subseteq DOMAIN langSysMap'
<1>1. <<"DFLT", "dflt">> \in LangSys
  BY FeatAssumption DEF LangSys
<1> QED
  BY <1>1 DEF EnterFeature, TypeOK

\* The beginning of a feature block keeps it: langSysMap is not empty then.
LEMMA StartFeatureIInv ==
    ASSUME NEW f \in Features, IInv, StartFeature(f)
    PROVE  IInv'
<1>1. /\ gFlags' \subseteq {"seenFeature", "seenLangSys", "seenNonDFLTScriptLang"}
      /\ feature' \subseteq Features \cup {STAND_ALONE}
      /\ lookup' = <<>> /\ DFLTLkps' = <<>> /\ include_dflt' = TRUE
      /\ DOMAIN langSysMap' \subseteq LangSys /\ DOMAIN langSysMap' # {}
      /\ langSysMap' \in [DOMAIN langSysMap' -> BOOLEAN]
      /\ DOMAIN langSysMap \subseteq DOMAIN langSysMap'
  BY EnterFeatureType DEF StartFeature, IInv
<1> DEFINE first == FirstOf(DOMAIN langSysMap')
<1>2. first \in LangSys
  BY <1>1, FirstOfMember, Zenon
<1>3. /\ script' \subseteq Scripts \cup {STAND_ALONE} /\ language' \subseteq Langs
      /\ curr' \in StateType
      /\ fFlags' = {} /\ nest' = "feature" /\ stmts' \in Nat
  <2>1. first[1] \in Scripts /\ first[2] \in Langs
    BY <1>2 DEF LangSys
  <2>2. curr \in StateType /\ stmts \in Nat
    BY DEF IInv, TypeOK
  <2> HIDE DEF first
  <2>3. [curr EXCEPT !.feature = f, !.script = first[1], !.language = first[2], !.lkpFlag = 0]
          \in StateType
    BY <2>1, <2>2 DEF StateType
  <2> QED
    BY <2>1, <2>2, <2>3 DEF StartFeature, Read, first
<1>4. /\ pc = "stmt"
      /\ UNCHANGED <<pc, hadError, ruleCnt, loopVars, labelVars, prev, layout>>
  BY DEF StartFeature, Ready
<1>5. TypeOK'
  BY <1>1, <1>3, <1>4 DEF IInv, TypeOK
<1> QED
  BY <1>1, <1>4, <1>5 DEF IInv, LangSysSeen, DefaultsOfScript, IncludePosition

\* The end of the file keeps it.
LEMMA EndOfFileIInv == IInv /\ EndOfFile => IInv'
  BY DEF EndOfFile, IInv, TypeOK, LangSysSeen, DefaultsOfScript, IncludePosition

\* A script statement keeps it: the defaults go when the script changes.
LEMMA ScriptStmtIInv ==
    ASSUME NEW s \in Scripts, IInv, ScriptStmt(s)
    PROVE  IInv'
<1>1. /\ curr \in StateType /\ hadError \in BOOLEAN /\ stmts \in Nat
      /\ fFlags \subseteq {"langSysMode", "seenScriptLang"}
      /\ script \subseteq Scripts \cup {STAND_ALONE} /\ language \subseteq Langs
      /\ include_dflt \in BOOLEAN /\ DFLTLkps \in Seq(StateType)
  BY DEF IInv, TypeOK
<1>2. "dflt" \in Langs
  BY FeatAssumption
<1>3. /\ curr' \in StateType /\ hadError' \in BOOLEAN /\ stmts' \in Nat
      /\ fFlags' \subseteq {"langSysMode", "seenScriptLang"}
      /\ script' \subseteq Scripts \cup {STAND_ALONE} /\ language' \subseteq Langs
      /\ include_dflt' \in BOOLEAN /\ DFLTLkps' \in Seq(StateType)
      /\ curr'.feature = curr.feature
      /\ DFLTLkps' # <<>> => DFLTLkps' = DFLTLkps /\ curr'.script = curr.script
  <2>1. CASE curr.feature \in Restricted
    BY <1>1, <2>1 DEF ScriptStmt, Read
  <2>2. CASE curr.feature \notin Restricted /\ s = curr.script /\ curr.language = "dflt"
    BY <1>1, <2>2 DEF ScriptStmt, Read
  <2>3. CASE curr.feature \notin Restricted /\ ~(s = curr.script /\ curr.language = "dflt")
    <3>1. /\ curr' = [curr EXCEPT !.script = IF s # curr.script /\ s \in script THEN @ ELSE s,
                                  !.language = "dflt", !.lkpFlag = 0]
          /\ fFlags' = {"seenScriptLang"}
          /\ script' = script \cup {s}
          /\ language' \subseteq language \cup {"dflt"}
          /\ DFLTLkps' = IF s # curr.script THEN <<>> ELSE DFLTLkps
          /\ include_dflt' = TRUE /\ stmts' = stmts + 1 /\ hadError' \in BOOLEAN
      BY <1>1, <2>3 DEF ScriptStmt, Read
    <3>2. /\ curr' \in StateType /\ curr'.feature = curr.feature
          /\ s = curr.script => curr'.script = curr.script
      BY <1>1, <1>2, <3>1 DEF StateType
    <3> QED
      BY <1>1, <1>2, <3>1, <3>2
  <2> QED
    BY <2>1, <2>2, <2>3
<1>4. /\ pc = "stmt"
      /\ UNCHANGED <<pc, nest, ruleCnt, loopVars, globalVars, labelVars, prev, lookup, layout>>
  BY DEF ScriptStmt, Ready
<1>5. TypeOK'
  BY <1>3, <1>4 DEF IInv, TypeOK
<1> QED
  BY <1>3, <1>4, <1>5 DEF IInv, LangSysSeen, DefaultsOfScript, IncludePosition

\* A language statement keeps it: includeDFLT's loop begins within DFLTLkps.
LEMMA LanguageStmtIInv ==
    ASSUME NEW l \in Langs, NEW incl \in BOOLEAN, IInv, LanguageStmt(l, incl)
    PROVE  IInv'
<1>1. /\ curr \in StateType /\ hadError \in BOOLEAN /\ stmts \in Nat
      /\ fFlags \subseteq {"langSysMode", "seenScriptLang"}
      /\ script \subseteq Scripts \cup {STAND_ALONE} /\ language \subseteq Langs
      /\ include_dflt \in BOOLEAN
      /\ iter \in Nat /\ iterEnd \in Nat /\ DFLTLkps \in Seq(StateType)
      /\ langSysMap \in [DOMAIN langSysMap -> BOOLEAN]
  BY DEF IInv, TypeOK
<1>2. /\ pc = "stmt"
      /\ UNCHANGED <<nest, ruleCnt, regTodo, regPos, gFlags, feature, labelVars,
                     prev, DFLTLkps, lookup, layout>>
      /\ stmts' \in Nat
  BY <1>1 DEF LanguageStmt, Ready, Read
<1>3. hadError' \in BOOLEAN
  BY <1>1, Zenon DEF LanguageStmt
<1>4. /\ curr' \in StateType /\ curr'.feature = curr.feature /\ curr'.script = curr.script
  BY <1>1 DEF LanguageStmt, StateType
<1>5. /\ fFlags' \subseteq {"langSysMode", "seenScriptLang"}
      /\ script' = script /\ language' \subseteq Langs
      /\ include_dflt' \in BOOLEAN
  BY <1>1 DEF LanguageStmt
<1>6. langSysMap' \in [DOMAIN langSysMap -> BOOLEAN]
  BY <1>1 DEF LanguageStmt
<1>7. \/ pc' = "stmt" /\ iter' = iter /\ iterEnd' = iterEnd
      \/ /\ pc' = "include" /\ iter' = 0 /\ iterEnd' = Len(DFLTLkps)
         /\ "seenScriptLang" \in fFlags'
  BY <1>2 DEF LanguageStmt
<1>8. TypeOK'
  <2>1. pc' \in {"stmt", "include"} /\ iter' \in Nat /\ iterEnd' \in Nat
    BY <1>1, <1>7
  <2>2. DOMAIN langSysMap' = DOMAIN langSysMap
    BY <1>6
  <2> QED
    BY <1>1, <1>2, <1>3, <1>4, <1>5, <1>6, <2>1, <2>2 DEF IInv, TypeOK
<1>9. LangSysSeen' /\ DefaultsOfScript'
  BY <1>2, <1>4, <1>6 DEF IInv, LangSysSeen, DefaultsOfScript
<1>10. IncludePosition'
  <2>1. DFLTLkps' = DFLTLkps /\ Len(DFLTLkps) \in Nat
    BY <1>1, <1>2
  <2> QED
    BY <1>7, <2>1 DEF IncludePosition
<1> QED
  BY <1>8, <1>9, <1>10 DEF IInv

\* An iteration of includeDFLT keeps it: callLkp may append to DFLTLkps but not shorten it.
LEMMA IncludeNextIInv ==
    ASSUME IInv, IncludeNext
    PROVE  IInv'
<1> DEFINE st == DFLTLkps[iter + 1]
<1>1. /\ pc = "include" /\ iter \in Nat /\ iterEnd \in Nat /\ iter < iterEnd
      /\ DFLTLkps \in Seq(StateType) /\ stmts \in Nat
      /\ "seenScriptLang" \in fFlags /\ iterEnd <= Len(DFLTLkps)
  BY DEF IncludeNext, IInv, TypeOK, IncludePosition
<1>2. st \in StateType /\ DFLTLkps # <<>>
  BY <1>1, ElementOfSeq
<1>3. CASE CallFails(st)
  BY <1>3, FatalIInv DEF IncludeNext
<1>4. CASE ~CallFails(st)
  <2>1. CallLkp(st) /\ iter' = iter + 1 /\ iterEnd' = iterEnd /\ stmts' = stmts
    BY <1>4 DEF IncludeNext
  <2> HIDE DEF st
  <2>2. iter' \in Nat /\ stmts' \in Nat
    BY <1>1, <2>1
  <2>3. TypeOK' /\ LangSysSeen' /\ DefaultsOfScript'
        /\ pc' = pc /\ fFlags \subseteq fFlags' /\ Len(DFLTLkps') >= Len(DFLTLkps)
    BY <1>1, <1>2, <1>4, <2>1, <2>2, CallLkpType
  <2>4. Len(DFLTLkps) \in Nat /\ Len(DFLTLkps') \in Nat
    BY <1>1, <2>3 DEF TypeOK
  <2>5. IncludePosition'
    BY <1>1, <2>1, <2>3, <2>4 DEF IncludePosition
  <2> QED
    BY <2>3, <2>5 DEF IInv
<1> QED
  BY <1>3, <1>4

\* The end of includeDFLT's loop keeps it.
LEMMA IncludeDoneIInv == IInv /\ IncludeDone => IInv'
  BY DEF IncludeDone, IInv, TypeOK, LangSysSeen, DefaultsOfScript, IncludePosition

\* So does the crash on an invalid iterator.
LEMMA IncludeInvalidatedIInv == IInv /\ IncludeInvalidated => IInv'
  BY FatalIInv DEF IncludeInvalidated

\* A lookupflag statement keeps it.
LEMMA LookupFlagStmtIInv ==
    ASSUME NEW v \in Flags, IInv, LookupFlagStmt(v)
    PROVE  IInv'
<1>1. curr \in StateType /\ hadError \in BOOLEAN /\ stmts \in Nat /\ v \in Nat
  BY FeatAssumption DEF IInv, TypeOK
<1>2. /\ curr' \in StateType /\ curr'.feature = curr.feature /\ curr'.script = curr.script
      /\ stmts' \in Nat
  BY <1>1 DEF LookupFlagStmt, StateType, Read
<1>3. hadError' \in BOOLEAN
  BY <1>1, Zenon DEF LookupFlagStmt
<1>4. /\ pc = "stmt"
      /\ UNCHANGED <<pc, nest, ruleCnt, loopVars, globalVars, scopeVars, labelVars,
                     prev, DFLTLkps, lookup, layout>>
  BY DEF LookupFlagStmt, Ready
<1>5. TypeOK'
  BY <1>2, <1>3, <1>4 DEF IInv, TypeOK
<1> QED
  BY <1>2, <1>4, <1>5 DEF IInv, LangSysSeen, DefaultsOfScript, IncludePosition

\* A rule keeps it, through prepRule.
LEMMA RuleStmtIInv ==
    ASSUME NEW k \in RuleKinds, IInv, RuleStmt(k[1], k[2])
    PROVE  IInv'
<1> DEFINE tbl == k[1]
           typ == k[2]
           st == Prepared(tbl, typ, curr.lkpFlag, currNamedLkp)
<1>1. /\ curr \in StateType /\ stmts \in Nat /\ ruleCnt \in Nat /\ currNamedLkp \in Label
      /\ TypeOK /\ LangSysSeen
  BY DEF IInv, TypeOK
<1>2. tbl \in Tables /\ typ \in LkpTypes /\ curr.lkpFlag \in Nat
  BY <1>1, FeatAssumption DEF LkpTypes, StateType
<1>3. /\ st \in StateType /\ st.tbl \in Tables
      /\ EntersLangSysMode => st.script \in Scripts /\ st.language \in Langs
  <2>1. st.tbl = tbl
    BY <1>1 DEF Prepared, StateType
  <2> HIDE DEF tbl, typ
  <2> QED
    BY <1>1, <1>2, <2>1, PreparedType
<1>4. pc = "stmt"
  BY DEF RuleStmt
<1>5. CASE curr.feature = "aalt" /\ tbl = "GSUB"
  <2>1. /\ stmts' \in Nat
        /\ UNCHANGED <<pc, hadError, nest, ruleCnt, loopVars, globalVars, scopeVars,
                       labelVars, runVars>>
    BY <1>1, <1>5 DEF RuleStmt, Read
  <2>2. TypeOK'
    BY <1>1, <2>1 DEF TypeOK
  <2> QED
    BY <2>1, <2>2, <1>4 DEF IInv, LangSysSeen, DefaultsOfScript, IncludePosition
<1>6. CASE ~(curr.feature = "aalt" /\ tbl = "GSUB") /\ PrepFails(st, currNamedLkp)
  BY <1>6, FatalIInv DEF RuleStmt
<1>7. CASE ~(curr.feature = "aalt" /\ tbl = "GSUB") /\ ~PrepFails(st, currNamedLkp)
  <2>1. /\ PrepRule(st, currNamedLkp, {ruleCnt + 1})
        /\ stmts' = IF stmts < MaxStmts THEN stmts + 1 ELSE stmts
        /\ ruleCnt' = ruleCnt + 1
        /\ endOfNamedLkpOrRef' = FALSE
        /\ UNCHANGED <<pc, hadError, nest, loopVars, globalVars, namedLkp, currNamedLkp>>
    BY <1>7 DEF RuleStmt
  <2> HIDE DEF st
  <2>2. /\ fFlags' \subseteq {"langSysMode", "seenScriptLang"}
        /\ script' \subseteq Scripts \cup {STAND_ALONE}
        /\ language' \subseteq Langs
        /\ include_dflt' \in BOOLEAN
        /\ anonLabelCnt' \in FEAT_ANON_LKP_BEG .. FEAT_ANON_LKP_END + 1
        /\ DFLTLkps' \in Seq(StateType)
        /\ layout' \in LayoutType
        /\ lookup' \in Seq(LookupInfoType)
        /\ curr' \in StateType /\ prev' \in StateType /\ curr' = prev'
    BY <1>1, <1>3, <1>7, <2>1, PrepRuleType
  <2>3. stmts' \in Nat /\ ruleCnt' \in Nat
    BY <1>1, <2>1
  <2>4. TypeOK'
    BY <1>1, <2>1, <2>2, <2>3 DEF TypeOK, LayoutType
  <2> QED
    BY <1>1, <1>4, <2>1, <2>2, <2>4 DEF IInv, LangSysSeen, DefaultsOfScript, IncludePosition
<1> QED
  BY <1>5, <1>6, <1>7

\* A lookup block gets the next label of its range.
LEMMA NewNamedLkpType ==
    ASSUME TypeOK, NEW n \in Names, NEW isTopLevel \in BOOLEAN,
           Len(namedLkp) < FEAT_NAMED_LKP_END, NewNamedLkp(n, isTopLevel)
    PROVE  namedLkp' \in Seq(NamedLkpType) /\ currNamedLkp' \in Label
<1>1. LAB_UNDEF \in Label
  BY LabelAssumption DEF Label, LAB_UNDEF
<1>2. NoState \in StateType
  BY <1>1 DEF NoState, StateType, LkpTypes, UNDEF
<1>3. [name |-> n, isTopLevel |-> isTopLevel, state |-> NoState] \in NamedLkpType
  BY <1>2 DEF NamedLkpType
<1>4. namedLkp \in Seq(NamedLkpType)
  BY DEF TypeOK
<1>5. Len(namedLkp) \in Label
  BY <1>4, LabelAssumption DEF Label, LAB_UNDEF
<1> QED
  BY <1>3, <1>4, <1>5 DEF NewNamedLkp

\* The beginning of a top-level lookup block keeps it.
LEMMA StartStandAloneIInv ==
    ASSUME NEW n \in Names, IInv, StartStandAlone(n)
    PROVE  IInv'
<1>1. CASE NameTaken(n) \/ Len(namedLkp) >= FEAT_NAMED_LKP_END
  BY <1>1, FatalIInv DEF StartStandAlone
<1>2. CASE ~(NameTaken(n) \/ Len(namedLkp) >= FEAT_NAMED_LKP_END)
  <2> DEFINE first == FirstOf(DOMAIN langSysMap')
  <2>1. /\ EnterFeature(STAND_ALONE) /\ NewNamedLkp(n, TRUE)
        /\ fFlags' = {"seenScriptLang"}
        /\ script' = {first[1], STAND_ALONE}
        /\ language' = IF first[2] = "dflt" THEN {} ELSE {"dflt"}
        /\ curr' = [curr EXCEPT !.feature = STAND_ALONE, !.script = STAND_ALONE,
                                !.language = "dflt", !.lkpFlag = 0]
        /\ nest' = "alone" /\ stmts' = stmts + 1
        /\ UNCHANGED <<pc, hadError, ruleCnt, loopVars, endOfNamedLkpOrRef, anonLabelCnt,
                       prev, layout>>
    BY <1>2 DEF StartStandAlone, Read
  <2>2. /\ gFlags' \subseteq {"seenFeature", "seenLangSys", "seenNonDFLTScriptLang"}
        /\ feature' \subseteq Features \cup {STAND_ALONE}
        /\ lookup' = <<>> /\ DFLTLkps' = <<>> /\ include_dflt' = TRUE
        /\ DOMAIN langSysMap' \subseteq LangSys /\ DOMAIN langSysMap' # {}
        /\ langSysMap' \in [DOMAIN langSysMap' -> BOOLEAN]
        /\ DOMAIN langSysMap \subseteq DOMAIN langSysMap'
    BY <2>1, EnterFeatureType DEF IInv
  <2>3. first \in LangSys
    BY <2>2, FirstOfMember, Zenon
  <2>4. first[1] \in Scripts /\ "dflt" \in Langs
    BY <2>3, FeatAssumption DEF LangSys
  <2> HIDE DEF first
  <2>5. script' \subseteq Scripts \cup {STAND_ALONE} /\ language' \subseteq Langs
    BY <2>1, <2>4
  <2>6. curr \in StateType /\ stmts \in Nat /\ TypeOK /\ namedLkp \in Seq(NamedLkpType)
    BY DEF IInv, TypeOK
  <2>7. curr' \in StateType /\ stmts' \in Nat
    <3>1. [curr EXCEPT !.feature = STAND_ALONE, !.script = STAND_ALONE,
                       !.language = "dflt", !.lkpFlag = 0] \in StateType
      BY <2>4, <2>6 DEF StateType
    <3> QED
      BY <2>1, <2>6, <3>1
  <2>8. namedLkp' \in Seq(NamedLkpType) /\ currNamedLkp' \in Label
    <3>1. Len(namedLkp) < FEAT_NAMED_LKP_END
      BY <1>2, <2>6, LabelAssumption
    <3> QED
      BY <2>1, <2>6, <3>1, NewNamedLkpType
  <2>9. TypeOK'
    BY <2>1, <2>2, <2>5, <2>6, <2>7, <2>8 DEF TypeOK
  <2>10. pc = "stmt"
    BY DEF StartStandAlone, Ready
  <2> QED
    BY <2>1, <2>2, <2>9, <2>10 DEF IInv, LangSysSeen, DefaultsOfScript, IncludePosition
<1> QED
  BY <1>1, <1>2

\* The beginning of a lookup block in a feature keeps it.
LEMMA StartLookupIInv ==
    ASSUME NEW n \in Names, IInv, StartLookup(n)
    PROVE  IInv'
<1>1. /\ pc = "stmt" /\ stmts \in Nat /\ TypeOK /\ namedLkp \in Seq(NamedLkpType)
      /\ UNCHANGED <<ruleCnt, loopVars, globalVars, scopeVars, runVars>>
  BY DEF IInv, TypeOK, StartLookup, Ready
<1>2. CASE curr.feature \in Restricted
  <2>1. /\ stmts' \in Nat /\ hadError' = TRUE /\ nest' = "block"
        /\ UNCHANGED <<pc, labelVars>>
    BY <1>1, <1>2 DEF StartLookup, Read
  <2>2. TypeOK'
    BY <1>1, <2>1 DEF TypeOK
  <2> QED
    BY <1>1, <2>1, <2>2 DEF IInv, LangSysSeen, DefaultsOfScript, IncludePosition
<1>3. CASE curr.feature \notin Restricted /\ (NameTaken(n) \/ Len(namedLkp) >= FEAT_NAMED_LKP_END)
  <2>1. pc' = "fatal" /\ UNCHANGED <<hadError, stmts, nest, labelVars>>
    BY <1>3 DEF StartLookup
  <2>2. TypeOK'
    BY <1>1, <2>1 DEF TypeOK
  <2> QED
    BY <1>1, <2>1, <2>2 DEF IInv, LangSysSeen, DefaultsOfScript, IncludePosition
<1>4. CASE curr.feature \notin Restricted /\ ~(NameTaken(n) \/ Len(namedLkp) >= FEAT_NAMED_LKP_END)
  <2>1. /\ stmts' \in Nat /\ NewNamedLkp(n, FALSE) /\ nest' = "block"
        /\ UNCHANGED <<pc, hadError, endOfNamedLkpOrRef, anonLabelCnt>>
    <3>1. /\ Read /\ NewNamedLkp(n, FALSE) /\ nest' = "block"
          /\ UNCHANGED <<pc, hadError, endOfNamedLkpOrRef, anonLabelCnt>>
      BY <1>4 DEF StartLookup
    <3>2. stmts' \in Nat
      BY <1>1, <3>1 DEF Read
    <3> QED
      BY <3>1, <3>2, Zenon
  <2>2. Len(namedLkp) < FEAT_NAMED_LKP_END
    BY <1>1, <1>4, LabelAssumption
  <2>3. namedLkp' \in Seq(NamedLkpType) /\ currNamedLkp' \in Label
    BY <1>1, <2>1, <2>2, NewNamedLkpType
  <2>4. TypeOK'
    BY <1>1, <2>1, <2>3 DEF TypeOK
  <2> QED
    BY <1>1, <2>1, <2>4 DEF IInv, LangSysSeen, DefaultsOfScript, IncludePosition
<1> QED
  BY <1>2, <1>3, <1>4

\* The end of a lookup block: its state is stored under its label.
LEMMA CloseNamedLkpType ==
    ASSUME TypeOK, CloseNamedLkp
    PROVE  /\ namedLkp' \in Seq(NamedLkpType) /\ currNamedLkp' \in Label
           /\ endOfNamedLkpOrRef' \in BOOLEAN /\ anonLabelCnt' = anonLabelCnt
<1> DEFINE i == BaseLab(currNamedLkp) + 1
<1>1. curr \in StateType /\ namedLkp \in Seq(NamedLkpType)
  BY DEF TypeOK
<1>2. namedLkp' = [namedLkp EXCEPT ![i] = [namedLkp[i] EXCEPT !.state = curr]]
  BY DEF CloseNamedLkp
<1> HIDE DEF i
<1>3. namedLkp' \in Seq(NamedLkpType)
  <2>1. CASE i \in 1 .. Len(namedLkp)
    <3>1. namedLkp[i] \in NamedLkpType
      BY <1>1, <2>1, ElementOfSeq
    <3>2. [namedLkp[i] EXCEPT !.state = curr] \in NamedLkpType
      BY <1>1, <3>1 DEF NamedLkpType
    <3> QED
      BY <1>1, <1>2, <2>1, <3>2, ExceptSeq
  <2>2. CASE i \notin 1 .. Len(namedLkp)
    <3>1. namedLkp' = namedLkp
      BY <1>1, <1>2, <2>2, LenProperties
    <3> QED
      BY <1>1, <3>1
  <2> QED
    BY <2>1, <2>2
<1>4. LAB_UNDEF \in Label
  BY LabelAssumption DEF Label, LAB_UNDEF
<1> QED
  BY <1>3, <1>4 DEF CloseNamedLkp

\* The part of endFeature before its loop keeps it.
LEMMA BeginRegisterIInv == IInv /\ BeginRegister => IInv'
<1> SUFFICES ASSUME IInv, BeginRegister PROVE IInv'
  OBVIOUS
<1>1. TypeOK /\ prev \in StateType /\ curr \in StateType
  BY DEF IInv, TypeOK
<1>2. layout' \in LayoutType
  BY <1>1, CloseRunType DEF BeginRegister
<1>3. /\ pc' = "register" /\ regTodo' = DOMAIN langSysMap /\ regPos' = 1
      /\ UNCHANGED <<stmts, ruleCnt, nest, iter, iterEnd, hadError, globalVars, scopeVars,
                     labelVars, curr, prev, DFLTLkps, lookup>>
  BY DEF BeginRegister
<1>4. TypeOK'
  BY <1>1, <1>2, <1>3 DEF TypeOK, LayoutType
<1> QED
  BY <1>3, <1>4 DEF IInv, LangSysSeen, DefaultsOfScript, IncludePosition

\* The end of a lookup block keeps it, in a feature or at the top level.
LEMMA EndLookupIInv ==
    ASSUME IInv, EndLookup
    PROVE  IInv'
<1>1. CASE curr.feature \in Restricted
  <2>1. /\ nest' = "feature"
        /\ UNCHANGED <<pc, hadError, stmts, ruleCnt, loopVars, globalVars, scopeVars,
                       labelVars, runVars>>
    BY <1>1 DEF EndLookup
  <2>2. TypeOK'
    BY <2>1 DEF IInv, TypeOK
  <2> QED
    BY <2>1, <2>2 DEF IInv, LangSysSeen, DefaultsOfScript, IncludePosition
<1>2. CASE /\ curr.feature \notin Restricted /\ HasNamedLkp(currNamedLkp)
           /\ ~namedLkp[BaseLab(currNamedLkp) + 1].isTopLevel
  <2>1. /\ CloseNamedLkp /\ nest' = "feature"
        /\ UNCHANGED <<pc, hadError, stmts, ruleCnt, loopVars, globalVars, scopeVars, runVars>>
    BY <1>2 DEF EndLookup
  <2>2. TypeOK'
    BY <2>1, CloseNamedLkpType DEF IInv, TypeOK
  <2> QED
    BY <2>1, <2>2 DEF IInv, LangSysSeen, DefaultsOfScript, IncludePosition
<1>3. CASE /\ curr.feature \notin Restricted
           /\ ~HasNamedLkp(currNamedLkp) \/ namedLkp[BaseLab(currNamedLkp) + 1].isTopLevel
  BY <1>3, FatalIInv, BeginRegisterIInv DEF EndLookup
<1> QED
  BY <1>1, <1>2, <1>3

\* A reference by name keeps it, through callLkp.
LEMMA UseLookupIInv ==
    ASSUME NEW n \in Names, IInv, UseLookup(n)
    PROVE  IInv'
<1>1. /\ pc = "stmt" /\ stmts \in Nat /\ TypeOK /\ namedLkp \in Seq(NamedLkpType)
      /\ iter \in Nat
  BY DEF IInv, TypeOK, UseLookup, Ready
<1>2. CASE curr.feature \in Restricted \/ ~NameTaken(n)
  <2>1. /\ hadError' = TRUE /\ stmts' \in Nat
        /\ UNCHANGED <<pc, nest, ruleCnt, loopVars, globalVars, scopeVars, labelVars, runVars>>
    BY <1>1, <1>2 DEF UseLookup, Read
  <2>2. TypeOK'
    BY <1>1, <2>1 DEF TypeOK
  <2> QED
    BY <2>1, <2>2, <1>1 DEF IInv, LangSysSeen, DefaultsOfScript, IncludePosition
<1>3. CASE ~(curr.feature \in Restricted \/ ~NameTaken(n))
  <2> DEFINE i == CHOOSE i \in 1 .. Len(namedLkp) : namedLkp[i].name = n
             st == namedLkp[i].state
  <2>1. i \in 1 .. Len(namedLkp)
    BY <1>3 DEF NameTaken
  <2>2. st \in StateType
    <3> HIDE DEF i
    <3>1. namedLkp[i] \in NamedLkpType
      BY <1>1, <2>1, ElementOfSeq
    <3> QED
      BY <3>1 DEF NamedLkpType
  <2>3. \/ CallFails(st) /\ Fatal
        \/ ~CallFails(st) /\ CallLkp(st) /\ stmts' = stmts + 1 /\ UNCHANGED <<iter, iterEnd>>
    BY <1>3 DEF UseLookup, Read
  <2> HIDE DEF st
  <2>4. CASE ~CallFails(st) /\ CallLkp(st) /\ stmts' = stmts + 1 /\ UNCHANGED <<iter, iterEnd>>
    <3>1. iter' \in Nat /\ stmts' \in Nat
      BY <1>1, <2>4
    <3>2. TypeOK' /\ LangSysSeen' /\ DefaultsOfScript' /\ pc' = pc
      BY <2>2, <2>4, <3>1, CallLkpType
    <3> QED
      BY <1>1, <3>2 DEF IInv, IncludePosition
  <2> QED
    BY <2>3, <2>4, FatalIInv
<1> QED
  BY <1>2, <1>3

\* The end of a feature block keeps it.
LEMMA EndFeatureIInv ==
    ASSUME IInv, EndFeature
    PROVE  IInv'
<1>1. CASE curr.feature = "aalt"
  <2>1. /\ nest' = "file"
        /\ UNCHANGED <<pc, hadError, stmts, ruleCnt, loopVars, globalVars, scopeVars,
                       labelVars, runVars>>
    BY <1>1 DEF EndFeature
  <2>2. TypeOK'
    BY <2>1 DEF IInv, TypeOK
  <2> QED
    BY <2>1, <2>2 DEF IInv, LangSysSeen, DefaultsOfScript, IncludePosition
<1>2. CASE curr.feature # "aalt"
  BY <1>2, BeginRegisterIInv DEF EndFeature
<1> QED
  BY <1>1, <1>2

\* An inner iteration of registerFeatureLangSys keeps it.
LEMMA RegisterLookupIInv ==
    ASSUME IInv, RegisterLookup
    PROVE  IInv'
<1> DEFINE ls == FirstOf(regTodo)
           lkp == lookup[regPos]
           begun == LookupBegin(layout, RegTable(lkp), ls[1], ls[2], curr.feature,
                                lkp.lkpType, lkp.lkpFlag, RefLab(lkp.label))
<1>1. /\ TypeOK /\ layout \in LayoutType /\ hadError \in BOOLEAN /\ curr \in StateType
      /\ regTodo \subseteq LangSys /\ regTodo # {} /\ pc = "register"
      /\ lookup \in Seq(LookupInfoType) /\ regPos \in Nat \ {0} /\ regPos <= Len(lookup)
  BY DEF IInv, TypeOK, RegisterLookup, LayoutType
<1>2. ls[1] \in Scripts /\ ls[2] \in Langs
  <2>1. ls \in LangSys
    BY <1>1, FirstOfMember
  <2> QED
    BY <2>1 DEF LangSys
<1>3. lkp \in LookupInfoType
  BY <1>1, ElementOfSeq
<1>4. layout' = LookupEnd(begun, RegTable(lkp), hadError)
  BY DEF RegisterLookup
<1> HIDE DEF ls, lkp
<1>5. RegTable(lkp) \in Tables
  BY DEF RegTable, Tables
<1>6. begun \in LayoutType
  <2>1. RefLab(lkp.label) \in Label /\ lkp.lkpType \in LkpTypes /\ lkp.lkpFlag \in Nat
    BY <1>3, RefLabProperties DEF LookupInfoType
  <2>2. curr.feature \in Features \cup {UNDEF, STAND_ALONE}
    BY <1>1 DEF StateType
  <2> QED
    BY <1>1, <1>2, <1>5, <2>1, <2>2, LookupBeginType
<1>7. layout' \in LayoutType
  <2> HIDE DEF begun
  <2> QED
    BY <1>1, <1>4, <1>5, <1>6, LookupEndType
<1>8. /\ regPos' = regPos + 1
      /\ UNCHANGED <<pc, hadError, parserVars, iter, iterEnd, regTodo, globalVars, scopeVars,
                     labelVars, curr, prev, DFLTLkps, lookup>>
  BY DEF RegisterLookup
<1>9. TypeOK'
  BY <1>1, <1>7, <1>8 DEF TypeOK, LayoutType
<1> QED
  BY <1>1, <1>8, <1>9 DEF IInv, LangSysSeen, DefaultsOfScript, IncludePosition

\* An outer iteration of registerFeatureLangSys keeps it.
LEMMA RegisterNextLangSysIInv ==
    ASSUME IInv, RegisterNextLangSys
    PROVE  IInv'
<1>1. /\ TypeOK /\ pc = "register" /\ regTodo' \subseteq regTodo /\ regPos' = 1
      /\ langSysMap' = [langSysMap EXCEPT ![FirstOf(regTodo)] = FALSE]
      /\ UNCHANGED <<pc, hadError, parserVars, iter, iterEnd, gFlags, feature, scopeVars,
                     labelVars, runVars>>
  BY DEF IInv, RegisterNextLangSys, Included
<1>2. /\ DOMAIN langSysMap' = DOMAIN langSysMap
      /\ langSysMap' \in [DOMAIN langSysMap' -> BOOLEAN]
  BY <1>1 DEF TypeOK
<1>3. TypeOK'
  BY <1>1, <1>2 DEF TypeOK
<1> QED
  BY <1>1, <1>2, <1>3 DEF IInv, LangSysSeen, DefaultsOfScript, IncludePosition

\* The end of registerFeatureLangSys keeps it.
LEMMA RegisterDoneIInv ==
    ASSUME IInv, RegisterDone
    PROVE  IInv'
<1>1. /\ TypeOK /\ pc = "register" /\ pc' = "stmt" /\ nest' = "file"
      /\ prev' = [prev EXCEPT !.tbl = UNDEF]
      /\ CloseNamedLkp \/ UNCHANGED labelVars
      /\ UNCHANGED <<hadError, stmts, ruleCnt, loopVars, globalVars, scopeVars,
                     curr, DFLTLkps, lookup, layout>>
  BY DEF IInv, RegisterDone, Closed
<1>2. prev \in StateType
  BY <1>1 DEF TypeOK
<1>3. prev' \in StateType /\ prev'.feature = prev.feature /\ prev'.script = prev.script
  BY <1>1, <1>2 DEF StateType
<1>4. /\ namedLkp' \in Seq(NamedLkpType) /\ currNamedLkp' \in Label
      /\ endOfNamedLkpOrRef' \in BOOLEAN /\ anonLabelCnt' = anonLabelCnt
  BY <1>1, CloseNamedLkpType DEF TypeOK
<1>5. TypeOK'
  BY <1>1, <1>3, <1>4 DEF TypeOK
<1> QED
  BY <1>1, <1>3, <1>5 DEF IInv, LangSysSeen, DefaultsOfScript, IncludePosition

\* So does a step that changes nothing.
LEMMA StutterIInv == IInv /\ UNCHANGED vars => IInv'
  BY DEF vars, IInv, TypeOK, LangSysSeen, DefaultsOfScript, IncludePosition

\* Every step of the compiler keeps the invariant.
LEMMA NextIInv == IInv /\ [Next]_vars => IInv'
<1> SUFFICES ASSUME IInv, [Next]_vars PROVE IInv'
  OBVIOUS
<1>1. ASSUME NEW s \in Scripts, NEW l \in Langs, LangSystem(s, l) PROVE IInv'
  BY <1>1, LangSystemIInv
<1>2. ASSUME NEW f \in Features, StartFeature(f) PROVE IInv'
  BY <1>2, StartFeatureIInv
<1>3. ASSUME NEW n \in Names, StartStandAlone(n) PROVE IInv'
  BY <1>3, StartStandAloneIInv
<1>4. ASSUME NEW s \in Scripts, ScriptStmt(s) PROVE IInv'
  BY <1>4, ScriptStmtIInv
<1>5. ASSUME NEW l \in Langs, NEW incl \in BOOLEAN, LanguageStmt(l, incl) PROVE IInv'
  BY <1>5, LanguageStmtIInv
<1>6. CASE IncludeNext \/ IncludeInvalidated \/ IncludeDone
  BY <1>6, IncludeNextIInv, IncludeInvalidatedIInv, IncludeDoneIInv
<1>7. ASSUME NEW v \in Flags, LookupFlagStmt(v) PROVE IInv'
  BY <1>7, LookupFlagStmtIInv
<1>8. ASSUME NEW k \in RuleKinds, RuleStmt(k[1], k[2]) PROVE IInv'
  BY <1>8, RuleStmtIInv
<1>9. ASSUME NEW n \in Names, StartLookup(n) \/ UseLookup(n) PROVE IInv'
  BY <1>9, StartLookupIInv, UseLookupIInv
<1>10. CASE EndLookup \/ EndFeature \/ EndOfFile
  BY <1>10, EndLookupIInv, EndFeatureIInv, EndOfFileIInv
<1>11. CASE RegisterLookup \/ RegisterNextLangSys \/ RegisterDone
  BY <1>11, RegisterLookupIInv, RegisterNextLangSysIInv, RegisterDoneIInv
<1>12. CASE Finished \/ UNCHANGED vars
  BY <1>12, StutterIInv DEF Finished
<1> QED
  BY <1>1, <1>2, <1>3, <1>4, <1>5, <1>6, <1>7, <1>8, <1>9, <1>10, <1>11, <1>12 DEF Next

\* The variables of FeatCtx.h and of GSUB and GPOS keep their types; in particular the
\* label counters stay within the ranges of feat.h, and includeDFLT's loop never reads
\* past the end of DFLTLkps.
THEOREM TypeCorrect == Spec => []TypeOK
<1>1. IInv => TypeOK
  BY DEF IInv
<1> QED
  BY InitIInv, NextIInv, <1>1, PTL DEF Spec

-----------------------------------------------------------------------------
(* exclude_dflt does not outlive its feature. *)

NoneExcluded == \A ls \in DOMAIN langSysMap : ~langSysMap[ls]

\* Only a language statement excludes, and the loop of registerFeatureLangSys takes every
\* exclusion back.  The feature aalt ends without that loop, but a language statement
\* in it is an error and excludes nothing.
ExclInv ==
    /\ nest = "file" /\ pc \in {"stmt", "done"} => NoneExcluded
    /\ curr.feature \in Restricted /\ pc \in {"stmt", "include"} => NoneExcluded
    /\ pc \in {"include", "register"} => nest # "file"
    /\ pc = "register" => \A ls \in DOMAIN langSysMap \ regTodo : ~langSysMap[ls]

\* prepRule leaves the current feature alone.
LEMMA PreparedFeature ==
    ASSUME TypeOK, NEW tbl, NEW typ, NEW flag, NEW named
    PROVE  Prepared(tbl, typ, flag, named).feature = curr.feature
  BY DEF Prepared, TypeOK, StateType

\* A reference excludes nothing, and stays in its feature.
LEMMA CallLkpExcl ==
    ASSUME TypeOK, NEW st, CallLkp(st)
    PROVE  /\ curr'.feature = curr.feature
           /\ UNCHANGED <<pc, nest, langSysMap, regTodo>>
<1>1. curr' = Reference(st)
  BY DEF CallLkp, PrepRule
<1> QED
  BY <1>1, PreparedFeature DEF CallLkp, Reference

\* Every step preserves ExclInv.
LEMMA NextExcl == IInv /\ ExclInv /\ [Next]_vars => ExclInv'
<1> SUFFICES ASSUME IInv, ExclInv, [Next]_vars PROVE ExclInv'
  OBVIOUS
<1>0. /\ TypeOK /\ curr \in StateType
      /\ langSysMap \in [DOMAIN langSysMap -> BOOLEAN]
  BY DEF IInv, TypeOK
<1>1. ASSUME NEW s \in Scripts, NEW l \in Langs, LangSystem(s, l) PROVE ExclInv'
  <2>1. NoneExcluded /\ nest = "file" /\ pc = "stmt"
    BY <1>1 DEF LangSystem, Ready, ExclInv
  <2>2. NoneExcluded'
    BY <1>0, <1>1, <2>1 DEF LangSystem, NoneExcluded
  <2> QED
    BY <1>1, <2>1, <2>2 DEF LangSystem, ExclInv
<1>2. ASSUME NEW f \in Features \cup {STAND_ALONE}, EnterFeature(f), pc = "stmt", nest = "file"
      PROVE  NoneExcluded'
  BY <1>0, <1>2 DEF EnterFeature, ExclInv, NoneExcluded
<1>3. ASSUME NEW f \in Features, StartFeature(f) PROVE ExclInv'
  <2>1. NoneExcluded'
    BY <1>2, <1>3 DEF StartFeature, Ready
  <2> QED
    BY <1>3, <2>1 DEF StartFeature, Ready, ExclInv
<1>4. ASSUME NEW n \in Names, StartStandAlone(n) PROVE ExclInv'
  <2>1. CASE Fatal
    BY <2>1 DEF Fatal, ExclInv
  <2>2. CASE ~Fatal
    <3>1. EnterFeature(STAND_ALONE) /\ nest' = "alone" /\ pc' = pc /\ pc = "stmt" /\ nest = "file"
      BY <1>4, <2>2 DEF StartStandAlone, Ready
    <3>2. NoneExcluded'
      BY <1>2, <3>1
    <3> QED
      BY <3>1, <3>2 DEF ExclInv
  <2> QED
    BY <2>1, <2>2
<1>5. ASSUME NEW s \in Scripts, ScriptStmt(s) PROVE ExclInv'
  <2>1. curr'.feature = curr.feature
    BY <1>0, <1>5 DEF ScriptStmt, StateType
  <2> QED
    BY <1>5, <2>1 DEF ScriptStmt, Ready, ExclInv, NoneExcluded
<1>6. ASSUME NEW l \in Langs, NEW incl \in BOOLEAN, LanguageStmt(l, incl) PROVE ExclInv'
  <2>1. /\ curr'.feature = curr.feature /\ nest' = nest /\ nest # "file"
        /\ pc' \in {"stmt", "include"}
    BY <1>0, <1>6 DEF LanguageStmt, Ready, StateType
  <2>2. curr.feature \in Restricted => langSysMap' = langSysMap /\ pc' = pc /\ pc = "stmt"
    BY <1>6 DEF LanguageStmt, Ready
  <2> QED
    BY <2>1, <2>2 DEF ExclInv, NoneExcluded
<1>7. CASE IncludeNext \/ IncludeInvalidated \/ IncludeDone
  <2>1. pc = "include"
    BY <1>7 DEF IncludeNext, IncludeInvalidated, IncludeDone
  <2>2. CASE Fatal
    BY <2>2 DEF Fatal, ExclInv
  <2>3. CASE CallLkp(DFLTLkps[iter + 1])
    BY <1>0, <2>1, <2>3, CallLkpExcl DEF ExclInv, NoneExcluded
  <2>4. CASE IncludeDone
    BY <2>4 DEF IncludeDone, ExclInv, NoneExcluded
  <2> QED
    BY <1>7, <2>2, <2>3, <2>4 DEF IncludeNext, IncludeInvalidated
<1>8. ASSUME NEW v \in Flags, LookupFlagStmt(v) PROVE ExclInv'
  <2>1. curr'.feature = curr.feature
    BY <1>0, <1>8 DEF LookupFlagStmt, StateType
  <2> QED
    BY <1>8, <2>1 DEF LookupFlagStmt, ExclInv, NoneExcluded
<1>9. ASSUME NEW k \in RuleKinds, RuleStmt(k[1], k[2]) PROVE ExclInv'
  <2> DEFINE st == Prepared(k[1], k[2], curr.lkpFlag, currNamedLkp)
  <2>1. CASE Fatal
    BY <2>1 DEF Fatal, ExclInv
  <2>2. CASE curr' = curr /\ UNCHANGED <<pc, nest, regTodo, langSysMap>>
    BY <2>2 DEF ExclInv, NoneExcluded
  <2>3. CASE curr' = st /\ UNCHANGED <<pc, nest, regTodo, langSysMap>>
    <3>1. curr'.feature = curr.feature
      BY <1>0, <2>3, PreparedFeature
    <3> QED
      BY <2>3, <3>1 DEF ExclInv, NoneExcluded
  <2> QED
    BY <1>9, <2>1, <2>2, <2>3 DEF RuleStmt, PrepRule
<1>10. ASSUME NEW n \in Names, StartLookup(n) PROVE ExclInv'
  BY <1>10 DEF StartLookup, Ready, ExclInv, NoneExcluded
<1>11. ASSUME NEW n \in Names, UseLookup(n) PROVE ExclInv'
  <2>1. pc = "stmt" /\ nest = "feature"
    BY <1>11 DEF UseLookup, Ready
  <2>2. CASE Fatal
    BY <2>2 DEF Fatal, ExclInv
  <2>3. CASE UNCHANGED <<pc, nest, curr, regTodo, langSysMap>>
    BY <2>3 DEF ExclInv, NoneExcluded
  <2>4. CASE CallLkp(namedLkp[CHOOSE i \in 1 .. Len(namedLkp) : namedLkp[i].name = n].state)
    BY <1>0, <2>1, <2>4, CallLkpExcl DEF ExclInv, NoneExcluded
  <2> QED
    BY <1>11, <2>2, <2>3, <2>4 DEF UseLookup
<1>12. ASSUME BeginRegister, nest # "file" PROVE ExclInv'
  BY <1>12 DEF BeginRegister, ExclInv
<1>13. CASE EndLookup
  <2>1. pc = "stmt" /\ nest # "file"
    BY <1>13 DEF EndLookup, InBlock
  <2>2. CASE Fatal
    BY <2>2 DEF Fatal, ExclInv
  <2>3. CASE nest' = "feature" /\ UNCHANGED <<pc, curr, regTodo, langSysMap>>
    BY <2>1, <2>3 DEF ExclInv, NoneExcluded
  <2> QED
    BY <1>12, <1>13, <2>1, <2>2, <2>3 DEF EndLookup
<1>14. CASE EndFeature
  <2>1. pc = "stmt" /\ nest # "file"
    BY <1>14 DEF EndFeature
  <2>2. CASE curr.feature = "aalt"
    <3>1. NoneExcluded /\ nest' = "file" /\ UNCHANGED <<pc, curr, langSysMap>>
      BY <1>14, <2>1, <2>2 DEF EndFeature, ExclInv, Restricted
    <3> QED
      BY <2>1, <3>1 DEF ExclInv, NoneExcluded
  <2>3. CASE curr.feature # "aalt"
    BY <1>12, <1>14, <2>1, <2>3 DEF EndFeature
  <2> QED
    BY <2>2, <2>3
<1>15. CASE RegisterLookup \/ EndOfFile
  BY <1>15 DEF RegisterLookup, EndOfFile, ExclInv, NoneExcluded
<1>16. CASE RegisterNextLangSys
  <2>1. /\ pc = "register" /\ pc' = pc /\ nest' = nest
        /\ langSysMap' = [langSysMap EXCEPT ![FirstOf(regTodo)] = FALSE]
        /\ regTodo' = regTodo \ {FirstOf(regTodo)}
    BY <1>16 DEF RegisterNextLangSys, Included
  <2>2. \A ls \in DOMAIN langSysMap' \ regTodo' : ~langSysMap'[ls]
    BY <1>0, <2>1 DEF ExclInv
  <2> QED
    BY <2>1, <2>2 DEF ExclInv
<1>17. CASE RegisterDone
  <2>1. pc = "register" /\ regTodo = {} /\ langSysMap' = langSysMap
    BY <1>17 DEF RegisterDone
  <2>2. NoneExcluded'
    BY <2>1 DEF ExclInv, NoneExcluded
  <2> QED
    BY <1>17, <2>2 DEF RegisterDone, ExclInv
<1>18. CASE Finished \/ UNCHANGED vars
  BY <1>18 DEF Finished, vars, ExclInv, NoneExcluded
<1> QED
  BY <1>1, <1>3, <1>4, <1>5, <1>6, <1>7, <1>8, <1>9, <1>10, <1>11, <1>13, <1>14, <1>15,
     <1>16, <1>17, <1>18 DEF Next

\* exclude_dflt holds for the rest of its feature only: between blocks no language system
\* is excluded, however many blocks of whatever kind and error came before.
THEOREM ExclusionsAreReset == Spec => []ExclusionsReset
<1>1. Init => ExclInv
  BY DEF Init, ExclInv, NoneExcluded, NoState, Restricted, UNDEF
<1>2. ExclInv => ExclusionsReset
  BY DEF ExclInv, ExclusionsReset, AtFileLevel, NoneExcluded
<1> QED
  BY <1>1, <1>2, InitIInv, NextIInv, NextExcl, PTL DEF Spec

-----------------------------------------------------------------------------
(* includeDFLT's loop and the vector it iterates over *)

\* Until the loop ends the vector has as many elements as when the loop began.  While it
\* runs, rules do not become defaults: the language is not dflt, and naming dflt once more
\* only starts a loop over no elements.
InclInv ==
    pc = "include" /\ ~hadError =>
        /\ Len(DFLTLkps) = iterEnd
        /\ "seenScriptLang" \in fFlags
        /\ curr.language = "dflt" => iterEnd = 0

\* A reference made under another language than dflt leaves the defaults alone.
LEMMA CallLkpIncl ==
    ASSUME IInv, NEW st \in StateType, CallLkp(st), "seenScriptLang" \in fFlags,
           curr.language # "dflt", DFLTLkps # <<>>
    PROVE  DFLTLkps' = DFLTLkps /\ curr'.language = curr.language /\ fFlags' = fFlags
<1> DEFINE named == RefLab(st.label)
           ref == Reference(st)
<1>1. /\ ref.script = curr.script /\ ref.language = curr.language
      /\ ref.feature = curr.feature
  BY DEF Reference, Prepared, EntersLangSysMode, IInv, TypeOK, StateType
<1>2. curr.script = prev.script /\ curr.feature = prev.feature
  BY DEF IInv, DefaultsOfScript
<1> HIDE DEF ref, named
<1>3. ~Accumulates(ref, named)
  BY <1>1 DEF Accumulates
<1>4. PrepRule(ref, named, {})
  BY DEF CallLkp, ref, named
<1>5. curr' = ref
  BY <1>4 DEF PrepRule
<1>6. DFLTLkps' = DFLTLkps
  BY <1>1, <1>2, <1>3, <1>4 DEF PrepRule
<1>7. fFlags' = fFlags
  BY <1>4 DEF PrepRule, EntersLangSysMode
<1> QED
  BY <1>1, <1>5, <1>6, <1>7

\* Every step preserves InclInv, in files that name the language dflt again only while there
\* are no defaults.
LEMMA NextIncl ==
    ASSUME "again" \notin Forms, IInv, InclInv, [Next]_vars
    PROVE  InclInv'
<1>1. ASSUME NEW l \in Langs, NEW incl \in BOOLEAN, LanguageStmt(l, incl) PROVE InclInv'
  <2> SUFFICES ASSUME pc' = "include", ~hadError' PROVE InclInv'
    BY DEF InclInv
  <2>1. curr.feature \notin Restricted /\ pc = "stmt"
    BY <1>1 DEF LanguageStmt, Ready
  <2>2. /\ iterEnd' = Len(DFLTLkps) /\ DFLTLkps' = DFLTLkps
        /\ "seenScriptLang" \in fFlags'
    BY <1>1, <2>1 DEF LanguageStmt
  <2>3. CASE l = curr.language
    <3>1. DFLTLkps = <<>>
      BY <1>1, <2>3 DEF LanguageStmt, AllowedScope
    <3> QED
      BY <2>2, <3>1 DEF InclInv
  <2>4. CASE l # curr.language
    <3>1. l # "dflt" /\ curr' = [curr EXCEPT !.language = l]
      BY <1>1, <2>1, <2>4 DEF LanguageStmt
    <3>2. curr'.language = l
      BY <3>1 DEF IInv, TypeOK, StateType
    <3> QED
      BY <2>2, <3>1, <3>2 DEF InclInv
  <2> QED
    BY <2>3, <2>4
<1>2. CASE IncludeNext
  <2> DEFINE st == DFLTLkps[iter + 1]
  <2> SUFFICES ASSUME pc' = "include", ~hadError' PROVE InclInv'
    BY DEF InclInv
  <2>1. /\ pc = "include" /\ CallLkp(st) /\ iterEnd' = iterEnd
        /\ iter < iterEnd /\ hadError' = hadError
    BY <1>2 DEF IncludeNext, Fatal, CallLkp
  <2>2. /\ Len(DFLTLkps) = iterEnd /\ "seenScriptLang" \in fFlags
        /\ curr.language = "dflt" => iterEnd = 0
    BY <2>1 DEF InclInv
  <2>3. iter \in Nat /\ iterEnd \in Nat /\ DFLTLkps \in Seq(StateType)
    BY DEF IInv, TypeOK
  <2>4. iter + 1 \in 1 .. Len(DFLTLkps) /\ curr.language # "dflt" /\ DFLTLkps # <<>>
    BY <2>1, <2>2, <2>3
  <2>5. st \in StateType
    BY <2>3, <2>4, ElementOfSeq
  <2> HIDE DEF st
  <2>6. DFLTLkps' = DFLTLkps /\ curr'.language = curr.language /\ fFlags' = fFlags
    BY <2>1, <2>2, <2>4, <2>5, CallLkpIncl
  <2> QED
    BY <2>1, <2>2, <2>6 DEF InclInv
<1>3. ASSUME NEW n \in Names, UseLookup(n) PROVE InclInv'
  BY <1>3 DEF UseLookup, Ready, Fatal, CallLkp, InclInv
<1>4. CASE UNCHANGED vars
  BY <1>4 DEF vars, InclInv
<1>5. ASSUME NEW k \in RuleKinds, RuleStmt(k[1], k[2]) PROVE InclInv'
  BY <1>5 DEF RuleStmt, Fatal, InclInv
<1>6. CASE \/ \E s \in Scripts, l \in Langs : LangSystem(s, l)
           \/ \E f \in Features : StartFeature(f)
           \/ \E n \in Names : StartStandAlone(n) \/ StartLookup(n)
           \/ \E s \in Scripts : ScriptStmt(s)
  BY <1>6 DEF LangSystem, StartFeature, StartStandAlone, StartLookup, ScriptStmt, Ready, Fatal,
              InclInv
<1>7. CASE \/ EndOfFile \/ IncludeInvalidated \/ IncludeDone \/ Finished
           \/ EndLookup \/ EndFeature \/ RegisterLookup \/ RegisterNextLangSys \/ RegisterDone
  <2>1. CASE EndOfFile \/ IncludeInvalidated \/ IncludeDone \/ Finished
    BY <1>4, <2>1 DEF EndOfFile, IncludeInvalidated, IncludeDone, Finished, Fatal, InclInv
  <2>2. CASE EndLookup \/ EndFeature
    BY <2>2 DEF EndLookup, EndFeature, BeginRegister, Fatal, InclInv
  <2>3. CASE RegisterLookup \/ RegisterNextLangSys \/ RegisterDone
    BY <2>3 DEF RegisterLookup, RegisterNextLangSys, RegisterDone, InclInv
  <2> QED
    BY <1>7, <2>1, <2>2, <2>3
<1>8. ASSUME NEW v \in Flags, LookupFlagStmt(v) PROVE InclInv'
  <2>1. curr'.language = curr.language
    BY <1>8 DEF LookupFlagStmt, IInv, TypeOK, StateType
  <2> QED
    BY <1>8, <2>1 DEF LookupFlagStmt, Ready, InclInv
<1> QED
  BY <1>1, <1>2, <1>3, <1>4, <1>5, <1>6, <1>7, <1>8 DEF Next

\* includeDFLT iterates over DFLTLkps while callLkp runs prepRule, which may append to it:
\* until an error is reported, and in files that do not name the language dflt again once it
\* has defaults, no element is added or removed before the loop ends.
THEOREM IncludeListIsStable ==
    ASSUME "again" \notin Forms
    PROVE  Spec => [](~hadError => IncludeListStable)
<1>1. Init => InclInv
  BY DEF Init, InclInv
<1>2. InclInv => (~hadError => IncludeListStable)
  BY DEF InclInv, IncludeListStable
<1> QED
  BY <1>1, <1>2, InitIInv, NextIInv, NextIncl, PTL DEF Spec

=============================================================================
