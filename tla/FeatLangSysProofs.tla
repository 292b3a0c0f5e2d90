-------------------------- MODULE FeatLangSysProofs --------------------------
(***************************************************************************)
(* Proofs that relate FeatCtx to what the statements of a file say, for    *)
(* every value of the constants, in files of the usual forms whose first   *)
(* language system is the default one of its script: the defaults of a     *)
(* script are complete; every lookup is registered where FeatLangSys says  *)
(* (FeatCtx implements it, step by step); and a lookup holds the rules of  *)
(* one scope.                                                              *)
(*                                                                         *)
(* The block of FeatLangSys and the state of FeatCtx are kept side by side *)
(* (SideInv): the flags of FeatCtx say where the block is, DFLTLkps holds  *)
(* its defaults, and what the tables hold beyond the finished blocks, with *)
(* what is still to come, is what the block has been told.                 *)
(***************************************************************************)
EXTENDS FeatRegistrationProofs

USE DEF parserVars, loopVars, globalVars, scopeVars, labelVars, runVars

-----------------------------------------------------------------------------
(* The block of FeatLangSys: the records that its statements make *)

BlockType == [open : {TRUE}, feature : Features, script : Scripts, language : Langs,
              atTop : BOOLEAN, top : SUBSET Label, deflt : SUBSET Label,
              explicit : SUBSET (Scripts \X Langs \X Label), excl : SUBSET LangSys]

\* A new block, field by field.
LEMMA NewBlockFields ==
    ASSUME NEW f \in Features, NEW ls \in LangSys
    PROVE  LET b == Abs!NewBlock(f, ls)
           IN  /\ b \in BlockType
               /\ b.feature = f /\ b.script = ls[1] /\ b.language = ls[2] /\ b.atTop = TRUE
               /\ b.top = {} /\ b.deflt = {} /\ b.explicit = {} /\ b.excl = {}
BY DEF Abs!NewBlock, BlockType, LangSys

\* A script statement changes these fields of the block.
LEMMA AfterScriptFields ==
    ASSUME NEW b \in BlockType, NEW s \in Scripts
    PROVE  LET c == Abs!AfterScript(b, s)
           IN  /\ c \in BlockType
               /\ c.feature = b.feature /\ c.script = s /\ c.language = "dflt" /\ c.atTop = FALSE
               /\ c.top = b.top /\ c.explicit = b.explicit /\ c.excl = b.excl
               /\ c.deflt = IF s = b.script THEN b.deflt ELSE {}
BY FeatAssumption DEF Abs!AfterScript, BlockType

\* A language statement changes these.
LEMMA AfterLanguageFields ==
    ASSUME NEW b \in BlockType, NEW l \in Langs, NEW incl \in BOOLEAN
    PROVE  LET c == Abs!AfterLanguage(b, l, incl)
           IN  /\ c \in BlockType
               /\ c.feature = b.feature /\ c.script = b.script /\ c.language = l /\ c.atTop = FALSE
               /\ c.top = b.top /\ c.deflt = b.deflt
               /\ incl => /\ c.explicit = b.explicit \cup ({b.script} \X {l} \X b.deflt)
                          /\ c.excl = b.excl
               /\ ~incl => c.explicit = b.explicit /\ c.excl = b.excl \cup {<<b.script, l>>}
<1>1. /\ b.script \in Scripts /\ b.deflt \subseteq Label
      /\ b.explicit \subseteq Scripts \X Langs \X Label /\ b.excl \subseteq LangSys
  BY DEF BlockType
<1>2. b.explicit \cup ({b.script} \X {l} \X b.deflt) \subseteq Scripts \X Langs \X Label
  BY <1>1
<1>3. b.excl \cup {<<b.script, l>>} \subseteq LangSys
  BY <1>1 DEF LangSys
<1> QED
  BY <1>2, <1>3 DEF Abs!AfterLanguage, BlockType

\* Rules or a reference change these.
LEMMA AfterLookupFields ==
    ASSUME NEW b \in BlockType, NEW k \in Label
    PROVE  LET c == Abs!AfterLookup(b, k)
           IN  /\ c \in BlockType
               /\ c.feature = b.feature /\ c.script = b.script /\ c.language = b.language
               /\ c.atTop = b.atTop /\ c.excl = b.excl
               /\ c.top = IF b.atTop THEN b.top \cup {k} ELSE b.top
               /\ c.explicit = IF b.atTop THEN b.explicit
                               ELSE b.explicit \cup {<<b.script, b.language, k>>}
               /\ c.deflt = IF b.atTop \/ b.language = "dflt" THEN b.deflt \cup {k} ELSE b.deflt
<1>1. /\ b.script \in Scripts /\ b.language \in Langs
      /\ b.explicit \subseteq Scripts \X Langs \X Label
  BY DEF BlockType
<1>2. b.explicit \cup {<<b.script, b.language, k>>} \subseteq Scripts \X Langs \X Label
  BY <1>1
<1> QED
  BY <1>2 DEF Abs!AfterLookup, BlockType

-----------------------------------------------------------------------------
(* What the block that is open has registered so far *)

\* Where a state, or a subtable, registers its lookup
Where(s) == <<s.script, s.language, s.feature, BaseLab(s.label)>>

\* The first sl[tbl] subtables of each table belong to blocks that have ended.
SealedIn(lay, sl) == \A tbl \in Tables : sl[tbl] \in Nat /\ sl[tbl] <= Len(lay[tbl].subtables)

\* A later subtable registers d.
Fresh(lay, sl, d) ==
    \E tbl \in Tables : \E i \in sl[tbl] + 1 .. Len(lay[tbl].subtables) :
        Where(lay[tbl].subtables[i]) = d

\* The accumulator holds what state p, which has its lookup open, says of it.
OpenAs(lay, p) ==
    p.tbl # UNDEF =>
        /\ Where(lay[p.tbl].new) = Where(p)
        /\ lay[p.tbl].new.lkpType = p.lkpType /\ lay[p.tbl].new.lkpFlag = p.lkpFlag

\* The subtables alone decide what is fresh.
LEMMA SameSubsFresh ==
    ASSUME NEW a, NEW b, NEW sl, SameSubs(a, b)
    PROVE  /\ \A d : Fresh(b, sl, d) <=> Fresh(a, sl, d)
           /\ SealedIn(a, sl) => SealedIn(b, sl)
<1>1. \A tbl \in Tables : b[tbl].subtables = a[tbl].subtables
  BY DEF SameSubs
<1>2. ASSUME NEW d PROVE Fresh(b, sl, d) <=> Fresh(a, sl, d)
  BY <1>1 DEF Fresh
<1> QED
  BY <1>1, <1>2 DEF SealedIn

\* A subtable that is added is fresh.
LEMMA AppendedFresh ==
    ASSUME NEW a \in LayoutType, NEW b, NEW tbl \in Tables, NEW s \in SubtableType,
           Appended(a, b, tbl, s), NEW sl, SealedIn(a, sl)
    PROVE  /\ \A d : Fresh(b, sl, d) <=> Fresh(a, sl, d) \/ d = Where(s)
           /\ SealedIn(b, sl)
<1> DEFINE subs == a[tbl].subtables
<1>1. subs \in Seq(SubtableType)
  BY DEF LayoutType
<1>2. b[tbl].subtables = Append(subs, s) /\ \A t \in Tables : t # tbl => b[t].subtables = a[t].subtables
  BY DEF Appended
<1>3. /\ Len(Append(subs, s)) = Len(subs) + 1 /\ Len(subs) \in Nat
      /\ \A k \in 1 .. Len(subs) : Append(subs, s)[k] = subs[k]
      /\ Append(subs, s)[Len(subs) + 1] = s
  BY <1>1, AppendProperties, LenProperties
<1>4. sl[tbl] \in Nat /\ sl[tbl] <= Len(subs)
  BY DEF SealedIn
<1> HIDE DEF subs
<1>5. ASSUME NEW d PROVE Fresh(b, sl, d) <=> Fresh(a, sl, d) \/ d = Where(s)
  <2>1. ASSUME NEW t \in Tables, t # tbl
        PROVE  (\E i \in sl[t] + 1 .. Len(b[t].subtables) : Where(b[t].subtables[i]) = d)
               <=> (\E i \in sl[t] + 1 .. Len(a[t].subtables) : Where(a[t].subtables[i]) = d)
    <3>1. b[t].subtables = a[t].subtables
      BY <1>2, <2>1
    <3> QED
      BY <3>1
  <2>2. (\E i \in sl[tbl] + 1 .. Len(Append(subs, s)) : Where(Append(subs, s)[i]) = d)
        <=> (\E i \in sl[tbl] + 1 .. Len(subs) : Where(subs[i]) = d) \/ d = Where(s)
    <3>1. ASSUME NEW i \in sl[tbl] + 1 .. Len(Append(subs, s)), Where(Append(subs, s)[i]) = d
          PROVE  (\E k \in sl[tbl] + 1 .. Len(subs) : Where(subs[k]) = d) \/ d = Where(s)
      <4>1. i = Len(subs) + 1 \/ (i \in 1 .. Len(subs) /\ i \in sl[tbl] + 1 .. Len(subs))
        BY <1>3, <1>4
      <4> QED
        BY <1>3, <3>1, <4>1
    <3>2. ASSUME NEW i \in sl[tbl] + 1 .. Len(subs), Where(subs[i]) = d
          PROVE  i \in sl[tbl] + 1 .. Len(Append(subs, s)) /\ Where(Append(subs, s)[i]) = d
      <4>1. i \in 1 .. Len(subs)
        BY <1>3, <1>4
      <4> QED
        BY <1>3, <1>4, <3>2, <4>1
    <3>3. Len(subs) + 1 \in sl[tbl] + 1 .. Len(Append(subs, s))
      BY <1>3, <1>4
    <3> QED
      BY <1>3, <3>1, <3>2, <3>3
  <2>3. b[tbl].subtables = Append(subs, s) /\ a[tbl].subtables = subs
    BY <1>2 DEF subs
  <2> QED
    BY <2>1, <2>2, <2>3 DEF Fresh
<1>6. SealedIn(b, sl)
  <2> SUFFICES ASSUME NEW t \in Tables PROVE sl[t] \in Nat /\ sl[t] <= Len(b[t].subtables)
    BY DEF SealedIn
  <2>1. CASE t = tbl
    BY <1>2, <1>3, <1>4, <2>1
  <2>2. CASE t # tbl
    BY <1>2, <2>2 DEF SealedIn
  <2> QED
    BY <2>1, <2>2
<1> QED
  BY <1>5, <1>6

\* A lookup that is begun is the one the accumulator describes.
LEMMA BeginAs ==
    ASSUME NEW lay \in LayoutType, NEW st \in StateType, st.tbl \in Tables
    PROVE  OpenAs(LookupBegin(lay, st.tbl, st.script, st.language, st.feature,
                              st.lkpType, st.lkpFlag, st.label), st)
<1> DEFINE r == LookupBegin(lay, st.tbl, st.script, st.language, st.feature,
                            st.lkpType, st.lkpFlag, st.label)
<1>1. r[st.tbl].new = [script |-> st.script, language |-> st.language, feature |-> st.feature,
                       lkpType |-> st.lkpType, lkpFlag |-> st.lkpFlag, label |-> st.label,
                       rules |-> {}]
  BY DEF LookupBegin, LayoutType
<1>2. /\ r[st.tbl].new.script = st.script /\ r[st.tbl].new.language = st.language
      /\ r[st.tbl].new.feature = st.feature /\ r[st.tbl].new.label = st.label
      /\ r[st.tbl].new.lkpType = st.lkpType /\ r[st.tbl].new.lkpFlag = st.lkpFlag
  BY <1>1
<1> HIDE DEF r
<1>3. OpenAs(r, st)
  BY <1>2 DEF OpenAs, Where
<1> QED
  BY <1>3 DEF r

\* Adding a rule changes nothing of that.
LEMMA AddAs ==
    ASSUME NEW lay \in LayoutType, NEW st, st.tbl \in Tables, NEW rule, NEW err \in BOOLEAN,
           OpenAs(lay, st)
    PROVE  OpenAs(RuleAdd(lay, st.tbl, rule, err), st)
<1> DEFINE new == lay[st.tbl].new
           r == RuleAdd(lay, st.tbl, rule, err)
           added == [new EXCEPT !.rules = @ \cup {rule}]
<1>1. new \in SubtableType
  BY DEF LayoutType
<1>2. r[st.tbl].new \in {new, added}
  BY DEF RuleAdd, LayoutType
<1> HIDE DEF new
<1>3. /\ added.script = new.script /\ added.language = new.language
      /\ added.feature = new.feature /\ added.label = new.label
      /\ added.lkpType = new.lkpType /\ added.lkpFlag = new.lkpFlag
  BY <1>1 DEF SubtableType
<1> HIDE DEF added, r
<1> QED
  BY <1>2, <1>3 DEF OpenAs, Where, r, new

\* Without an error, ending the lookup that is open registers it.
LEMMA CloseFresh ==
    ASSUME TypeOK, ~hadError, NEW sl, SealedIn(layout, sl), NEW st \in StateType,
           st.tbl # UNDEF => OpenAs(layout, st)
    PROVE  /\ \A d : Fresh(CloseRun(st), sl, d)
                     <=> Fresh(layout, sl, d) \/ (st.tbl # UNDEF /\ d = Where(st))
           /\ SealedIn(CloseRun(st), sl)
<1>0. layout \in LayoutType /\ hadError = FALSE
  BY DEF TypeOK, LayoutType
<1>1. CASE st.tbl = UNDEF
  <2>1. CloseRun(st) = layout
    BY <1>1 DEF CloseRun
  <2> QED
    BY <1>1, <2>1
<1>2. CASE st.tbl # UNDEF
  <2>1. st.tbl \in Tables
    BY <1>2 DEF StateType
  <2>2. CloseRun(st) = LookupEnd(layout, st.tbl, hadError)
    BY <1>2 DEF CloseRun
  <2> DEFINE new == layout[st.tbl].new
  <2>3. Appended(layout, CloseRun(st), st.tbl, new) /\ new \in SubtableType
    BY <1>0, <2>1, <2>2, LookupEndAppends DEF LayoutType
  <2>4. Where(new) = Where(st)
    BY <1>2 DEF OpenAs
  <2> HIDE DEF new
  <2>5. /\ \A d : Fresh(CloseRun(st), sl, d) <=> Fresh(layout, sl, d) \/ d = Where(new)
        /\ SealedIn(CloseRun(st), sl)
    BY <1>0, <2>1, <2>3, AppendedFresh
  <2> QED
    BY <1>2, <2>4, <2>5
<1> QED
  BY <1>1, <1>2

\* prepRule and wrapUpRule: what was open or fresh still is, and so is the new state.
LEMMA PrepRuleFresh ==
    ASSUME TypeOK, ~hadError, NEW sl, SealedIn(layout, sl), OpenAs(layout, prev),
           NEW st \in StateType, NEW named, NEW rules, st.tbl \in Tables,
           PrepRule(st, named, rules), ~PrepFails(st, named)
    PROVE  /\ OpenAs(layout', st) /\ SealedIn(layout', sl)
           /\ \A d : Fresh(layout', sl, d) \/ d = Where(st)
                     <=> \/ Fresh(layout, sl, d) \/ d = Where(st)
                         \/ (prev.tbl # UNDEF /\ d = Where(prev))
           /\ \A d : Fresh(layout', sl, d) => \/ Fresh(layout, sl, d)
                                              \/ (prev.tbl # UNDEF /\ d = Where(prev))
<1>0. /\ layout \in LayoutType /\ hadError = FALSE /\ prev \in StateType /\ ruleCnt \in Nat
      /\ st.tbl # UNDEF
  BY DEF TypeOK, LayoutType, Tables, UNDEF
<1> DEFINE lay == OpenRun(st)
<1>1. /\ lay \in LayoutType /\ OpenAs(lay, st) /\ SealedIn(lay, sl)
      /\ \A d : Fresh(lay, sl, d) \/ d = Where(st)
                <=> \/ Fresh(layout, sl, d) \/ d = Where(st)
                    \/ (prev.tbl # UNDEF /\ d = Where(prev))
      /\ \A d : Fresh(lay, sl, d) => \/ Fresh(layout, sl, d)
                                     \/ (prev.tbl # UNDEF /\ d = Where(prev))
  <2>1. CASE StartsRun(st)
    <3> DEFINE closed == CloseRun(prev)
    <3>1. /\ closed \in LayoutType /\ SealedIn(closed, sl)
          /\ \A d : Fresh(closed, sl, d)
                    <=> Fresh(layout, sl, d) \/ (prev.tbl # UNDEF /\ d = Where(prev))
      BY <1>0, CloseRunType, CloseFresh
    <3>2. lay = LookupBegin(closed, st.tbl, st.script, st.language, st.feature,
                            st.lkpType, st.lkpFlag, st.label)
      BY <1>0, <2>1 DEF OpenRun
    <3> HIDE DEF closed, lay
    <3>3. lay \in LayoutType
      BY <3>1, <3>2, LookupBeginType DEF StateType
    <3>4. OpenAs(lay, st)
      BY <3>1, <3>2, BeginAs
    <3>5. SameSubs(closed, lay)
      BY <3>1, <3>2, LookupBeginShape DEF SameSubs
    <3>6. SealedIn(lay, sl) /\ \A d : Fresh(lay, sl, d) <=> Fresh(closed, sl, d)
      BY <3>1, <3>5, SameSubsFresh
    <3> QED
      BY <3>1, <3>3, <3>4, <3>6
  <2>2. CASE ~StartsRun(st)
    <3>1. /\ lay = layout /\ prev.tbl = st.tbl /\ prev.script = st.script
          /\ prev.language = st.language /\ prev.feature = st.feature
          /\ prev.lkpType = st.lkpType /\ prev.label = st.label
      BY <2>2 DEF OpenRun, StartsRun, InRun
    <3>2. prev.lkpFlag = st.lkpFlag
      BY <2>2 DEF PrepFails
    <3>3. Where(prev) = Where(st) /\ OpenAs(layout, st)
      BY <3>1, <3>2 DEF Where, OpenAs
    <3> HIDE DEF lay
    <3> QED
      BY <1>0, <3>1, <3>3
  <2> QED
    BY <2>1, <2>2
<1> HIDE DEF lay
<1>2. CASE rules = {}
  <2>1. layout' = lay
    BY <1>2 DEF PrepRule, lay
  <2> QED
    BY <1>1, <2>1
<1>3. CASE rules # {}
  <2>1. layout' = RuleAdd(lay, st.tbl, ruleCnt + 1, hadError)
    BY <1>3 DEF PrepRule, lay
  <2>2. SameSubs(lay, layout')
    <3>1. lay \in LayoutType /\ hadError \in BOOLEAN /\ layout' = RuleAdd(lay, st.tbl, ruleCnt + 1, hadError)
      BY <1>0, <1>1, <2>1
    <3>2. \A t \in Tables : layout'[t].subtables = lay[t].subtables
      BY <3>1, RuleAddShape
    <3> QED
      BY <3>2 DEF SameSubs
  <2>3. OpenAs(layout', st)
    BY <1>0, <1>1, <2>1, AddAs
  <2> QED
    BY <1>1, <2>2, <2>3, SameSubsFresh
<1> QED
  BY <1>2, <1>3

-----------------------------------------------------------------------------
(* The tables only grow *)

Grows(a, b) ==
    \A tbl \in Tables :
        /\ Len(a[tbl].subtables) <= Len(b[tbl].subtables)
        /\ \A k \in 1 .. Len(a[tbl].subtables) : b[tbl].subtables[k] = a[tbl].subtables[k]

\* Tables with the same subtables have grown, by nothing.
LEMMA SameGrows ==
    ASSUME NEW a \in LayoutType, NEW b, SameSubs(a, b)
    PROVE  Grows(a, b)
<1> SUFFICES ASSUME NEW tbl \in Tables
             PROVE  /\ Len(a[tbl].subtables) <= Len(b[tbl].subtables)
                    /\ \A k \in 1 .. Len(a[tbl].subtables) :
                           b[tbl].subtables[k] = a[tbl].subtables[k]
  BY DEF Grows
<1>1. b[tbl].subtables = a[tbl].subtables
  BY DEF SameSubs
<1>2. a[tbl].subtables \in Seq(SubtableType)
  BY DEF LayoutType
<1>3. Len(a[tbl].subtables) \in Nat
  BY <1>2, LenProperties
<1> QED
  BY <1>1, <1>3

\* What has grown twice has grown.
LEMMA GrowsOn ==
    ASSUME NEW a \in LayoutType, NEW b \in LayoutType, NEW c, Grows(a, b), Grows(b, c),
           \A tbl \in Tables : Len(c[tbl].subtables) \in Nat
    PROVE  Grows(a, c)
<1> SUFFICES ASSUME NEW tbl \in Tables
             PROVE  /\ Len(a[tbl].subtables) <= Len(c[tbl].subtables)
                    /\ \A k \in 1 .. Len(a[tbl].subtables) :
                           c[tbl].subtables[k] = a[tbl].subtables[k]
  BY DEF Grows
<1>1. a[tbl].subtables \in Seq(SubtableType) /\ b[tbl].subtables \in Seq(SubtableType)
  BY DEF LayoutType
<1>2. Len(a[tbl].subtables) \in Nat /\ Len(b[tbl].subtables) \in Nat
  BY <1>1, LenProperties
<1>3. /\ Len(a[tbl].subtables) <= Len(b[tbl].subtables)
      /\ Len(b[tbl].subtables) <= Len(c[tbl].subtables)
      /\ \A k \in 1 .. Len(a[tbl].subtables) : b[tbl].subtables[k] = a[tbl].subtables[k]
      /\ \A k \in 1 .. Len(b[tbl].subtables) : c[tbl].subtables[k] = b[tbl].subtables[k]
  BY DEF Grows
<1> HIDE DEF Grows
<1>4. \A k \in 1 .. Len(a[tbl].subtables) : k \in 1 .. Len(b[tbl].subtables)
  BY <1>2, <1>3
<1> QED
  BY <1>2, <1>3, <1>4

\* A table to which a subtable is added has grown.
LEMMA AppendedGrows ==
    ASSUME NEW a \in LayoutType, NEW b, NEW tbl \in Tables, NEW s \in SubtableType,
           Appended(a, b, tbl, s)
    PROVE  Grows(a, b)
<1> SUFFICES ASSUME NEW t \in Tables
             PROVE  /\ Len(a[t].subtables) <= Len(b[t].subtables)
                    /\ \A k \in 1 .. Len(a[t].subtables) :
                           b[t].subtables[k] = a[t].subtables[k]
  BY DEF Grows
<1> DEFINE subs == a[t].subtables
<1>1. subs \in Seq(SubtableType)
  BY DEF LayoutType
<1>2. b[t].subtables = IF t = tbl THEN Append(subs, s) ELSE subs
  BY DEF Appended
<1>3. /\ Len(Append(subs, s)) = Len(subs) + 1 /\ Len(subs) \in Nat
      /\ \A k \in 1 .. Len(subs) : Append(subs, s)[k] = subs[k]
  BY <1>1, AppendProperties, LenProperties
<1> HIDE DEF subs
<1>4. /\ Len(subs) <= Len(b[t].subtables)
      /\ \A k \in 1 .. Len(subs) : b[t].subtables[k] = subs[k]
  BY <1>2, <1>3
<1> QED
  BY <1>4 DEF subs

\* No step removes or changes a subtable, whether there was an error or not.
LEMMA NextGrows ==
    ASSUME IInv, [Next]_vars, TypeOK'
    PROVE  Grows(layout, layout')
<1>0. /\ TypeOK /\ layout \in LayoutType /\ prev \in StateType /\ curr \in StateType
      /\ hadError \in BOOLEAN /\ LangSysSeen /\ layout' \in LayoutType
      /\ \A tbl \in Tables : Len(layout'[tbl].subtables) \in Nat
  <2>1. /\ TypeOK /\ layout \in LayoutType /\ prev \in StateType /\ curr \in StateType
        /\ hadError \in BOOLEAN /\ LangSysSeen /\ layout' \in LayoutType
    BY DEF IInv, TypeOK, LayoutType
  <2>2. \A tbl \in Tables : layout'[tbl].subtables \in Seq(SubtableType)
    BY <2>1 DEF LayoutType
  <2> QED
    BY <2>1, <2>2, LenProperties
<1>1. ASSUME NEW lay \in LayoutType, NEW tbl \in Tables
      PROVE  Grows(lay, LookupEnd(lay, tbl, hadError))
  <2> DEFINE new == lay[tbl].new
             r == LookupEnd(lay, tbl, hadError)
  <2>1. r = lay \/ Appended(lay, r, tbl, new)
    <3>1. IF hadError /\ ~IsRefLab(new.label) THEN r = lay ELSE Appended(lay, r, tbl, new)
      BY <1>0, LookupEndAppends
    <3> QED
      BY <3>1
  <2>2. new \in SubtableType
    BY DEF LayoutType
  <2> HIDE DEF new, r
  <2>3. Grows(lay, r)
    BY <2>1, <2>2, AppendedGrows, SameGrows DEF SameSubs
  <2> QED
    BY <2>3 DEF r
<1>2. ASSUME NEW st \in StateType
      PROVE  Grows(layout, CloseRun(st)) /\ CloseRun(st) \in LayoutType
  <2>1. CloseRun(st) \in LayoutType
    BY <1>0, CloseRunType
  <2>2. CASE st.tbl = UNDEF
    <3>1. CloseRun(st) = layout
      BY <2>2 DEF CloseRun
    <3> QED
      BY <1>0, <2>1, <3>1, SameGrows DEF SameSubs
  <2>3. CASE st.tbl # UNDEF
    <3>1. st.tbl \in Tables
      BY <2>3 DEF StateType
    <3> QED
      BY <1>0, <1>1, <2>1, <2>3, <3>1 DEF CloseRun
  <2> QED
    BY <2>2, <2>3
<1>3. ASSUME NEW st \in StateType, NEW named, NEW rules, PrepRule(st, named, rules),
             rules # {} => st.tbl \in Tables
      PROVE  Grows(layout, layout')
  <2> DEFINE r == OpenRun(st)
  <2>1. r \in LayoutType /\ Grows(layout, r)
    <3>1. CASE StartsRun(st) /\ st.tbl # UNDEF
      <4> DEFINE lay == CloseRun(prev)
                 b == LookupBegin(lay, st.tbl, st.script, st.language, st.feature,
                                  st.lkpType, st.lkpFlag, st.label)
      <4>1. r = b /\ st.tbl \in Tables /\ lay \in LayoutType /\ Grows(layout, lay)
        BY <1>0, <1>2, <3>1 DEF OpenRun, StateType
      <4> HIDE DEF lay
      <4>2. b \in LayoutType
        BY <4>1, LookupBeginType DEF StateType
      <4>3. SameSubs(lay, b)
        BY <4>1, LookupBeginShape DEF SameSubs
      <4> HIDE DEF r, b
      <4>4. Grows(lay, b) /\ \A tbl \in Tables : Len(b[tbl].subtables) \in Nat
        <5>1. \A tbl \in Tables : b[tbl].subtables \in Seq(SubtableType)
          BY <4>2 DEF LayoutType
        <5> QED
          BY <4>1, <4>3, <5>1, SameGrows, LenProperties
      <4> QED
        BY <1>0, <4>1, <4>2, <4>4, GrowsOn
    <3>2. CASE ~StartsRun(st) \/ st.tbl = UNDEF
      <4>1. r = layout \/ r = CloseRun(prev)
        BY <3>2 DEF OpenRun
      <4> HIDE DEF r
      <4> QED
        BY <1>0, <1>2, <4>1, SameGrows DEF SameSubs
    <3> QED
      BY <3>1, <3>2
  <2>2. layout' = r \/ (layout' = RuleAdd(r, st.tbl, ruleCnt + 1, hadError) /\ st.tbl \in Tables)
    BY <1>3 DEF PrepRule
  <2> HIDE DEF r
  <2>3. CASE layout' = RuleAdd(r, st.tbl, ruleCnt + 1, hadError) /\ st.tbl \in Tables
    <3>1. \A tbl \in Tables : layout'[tbl].subtables = r[tbl].subtables
      BY <1>0, <2>1, <2>3, RuleAddShape
    <3>2. Grows(r, layout')
      BY <2>1, <3>1, SameGrows DEF SameSubs
    <3> QED
      BY <1>0, <2>1, <3>2, GrowsOn
  <2> QED
    BY <2>1, <2>2, <2>3
<1>4. CASE layout' = layout
  BY <1>0, <1>4, SameGrows DEF SameSubs
<1>5. ASSUME NEW st \in StateType, CallLkp(st) PROVE Grows(layout, layout')
  <2>1. RefLab(st.label) \in Label /\ st.tbl \in Tables \cup {UNDEF} /\ st.lkpType \in LkpTypes
        /\ st.lkpFlag \in Nat
    BY RefLabProperties DEF StateType
  <2>2. Reference(st) \in StateType
    BY <1>0, <2>1, PreparedType DEF Reference
  <2> QED
    BY <1>3, <1>5, <2>2 DEF CallLkp
<1>6. ASSUME NEW k \in RuleKinds, RuleStmt(k[1], k[2]) PROVE Grows(layout, layout')
  <2> DEFINE st == Prepared(k[1], k[2], curr.lkpFlag, currNamedLkp)
  <2>0. k[1] \in Tables /\ k[2] \in LkpTypes
    BY FeatAssumption DEF LkpTypes
  <2>1. /\ k[1] \in Tables /\ k[2] \in LkpTypes /\ curr.lkpFlag \in Nat /\ currNamedLkp \in Label
    BY <1>0, <2>0 DEF TypeOK, StateType
  <2>2. st \in StateType /\ st.tbl = k[1]
    BY <1>0, <2>1, PreparedType, PreparedLabel
  <2>3. layout' = layout \/ PrepRule(st, currNamedLkp, {ruleCnt + 1})
    BY <1>6 DEF RuleStmt, Fatal
  <2> HIDE DEF st
  <2> QED
    BY <1>3, <1>4, <2>1, <2>2, <2>3
<1>7. CASE IncludeNext
  <2>1. iter + 1 \in 1 .. Len(DFLTLkps) /\ DFLTLkps \in Seq(StateType)
    <3>1. iter \in Nat /\ iterEnd \in Nat /\ DFLTLkps \in Seq(StateType)
      BY <1>0 DEF TypeOK
    <3>2. iter < iterEnd /\ iterEnd <= Len(DFLTLkps)
      BY <1>7 DEF IncludeNext, IInv, IncludePosition
    <3> QED
      BY <3>1, <3>2, LenProperties
  <2>2. DFLTLkps[iter + 1] \in StateType
    BY <2>1, ElementOfSeq
  <2>3. layout' = layout \/ CallLkp(DFLTLkps[iter + 1])
    BY <1>7 DEF IncludeNext, Fatal
  <2> QED
    BY <1>4, <1>5, <2>2, <2>3
<1>8. ASSUME NEW n \in Names, UseLookup(n) PROVE Grows(layout, layout')
  <2> DEFINE i == CHOOSE i \in 1 .. Len(namedLkp) : namedLkp[i].name = n
             st == namedLkp[i].state
  <2>1. (NameTaken(n) /\ CallLkp(st)) \/ Fatal \/ layout' = layout
    BY <1>8 DEF UseLookup
  <2>2. Fatal => layout' = layout
    BY DEF Fatal
  <2>3. NameTaken(n) => st \in StateType
    <3>1. NameTaken(n) => i \in 1 .. Len(namedLkp)
      BY DEF NameTaken
    <3> HIDE DEF i
    <3>2. namedLkp \in Seq(NamedLkpType)
      BY <1>0 DEF TypeOK
    <3>3. NameTaken(n) => namedLkp[i] \in NamedLkpType
      BY <3>1, <3>2, ElementOfSeq
    <3> QED
      BY <3>3 DEF NamedLkpType
  <2> HIDE DEF i, st
  <2> QED
    BY <1>4, <1>5, <2>1, <2>2, <2>3
<1>9. CASE EndLookup \/ EndFeature
  <2>1. layout' = layout \/ layout' = CloseRun(curr)
    BY <1>9 DEF EndLookup, EndFeature, BeginRegister, Fatal
  <2> QED
    BY <1>0, <1>2, <1>4, <2>1
<1>10. CASE RegisterLookup
  <2> DEFINE ls == FirstOf(regTodo)
             lkp == lookup[regPos]
             tbl == RegTable(lkp)
             begun == LookupBegin(layout, tbl, ls[1], ls[2], curr.feature,
                                  lkp.lkpType, lkp.lkpFlag, RefLab(lkp.label))
  <2>1. tbl \in Tables /\ layout' = LookupEnd(begun, tbl, hadError)
    BY <1>10 DEF RegisterLookup, RegTable, Tables
  <2>2. ls[1] \in Scripts /\ ls[2] \in Langs
    <3>1. regTodo \subseteq LangSys /\ regTodo # {}
      BY <1>10 DEF RegisterLookup, IInv, TypeOK
    <3>2. FirstOf(regTodo) \in Scripts \X Langs
      BY <3>1, FirstOfMember DEF LangSys
    <3> QED
      BY <3>2
  <2>3. lkp \in LookupInfoType
    <3>1. regPos \in 1 .. Len(lookup) /\ lookup \in Seq(LookupInfoType)
      BY <1>0, <1>10 DEF RegisterLookup, TypeOK
    <3> QED
      BY <3>1, ElementOfSeq
  <2>4. /\ RefLab(lkp.label) \in Label /\ lkp.lkpType \in LkpTypes /\ lkp.lkpFlag \in Nat
        /\ curr.feature \in Features \cup {UNDEF, STAND_ALONE}
    BY <1>0, <2>3, RefLabProperties DEF LookupInfoType, StateType
  <2> HIDE DEF ls, lkp, tbl
  <2>5. begun \in LayoutType
    BY <1>0, <2>1, <2>2, <2>4, LookupBeginType
  <2>6. SameSubs(layout, begun)
    BY <1>0, <2>1, LookupBeginShape DEF SameSubs
  <2> HIDE DEF begun
  <2>7. Grows(layout, begun) /\ Grows(begun, layout')
    BY <1>0, <1>1, <2>1, <2>5, <2>6, SameGrows
  <2> QED
    BY <1>0, <2>5, <2>7, GrowsOn
<1>11. CASE \/ UNCHANGED vars \/ IncludeInvalidated \/ IncludeDone \/ EndOfFile \/ Finished
            \/ RegisterNextLangSys \/ RegisterDone
            \/ \E s \in Scripts, l \in Langs : LangSystem(s, l)
            \/ \E f \in Features : StartFeature(f)
            \/ \E s \in Scripts : ScriptStmt(s)
            \/ \E l \in Langs, incl \in BOOLEAN : LanguageStmt(l, incl)
            \/ \E v \in Flags : LookupFlagStmt(v)
            \/ \E n \in Names : StartStandAlone(n) \/ StartLookup(n)
  <2>1. layout' = layout
    BY <1>11 DEF vars, IncludeInvalidated, IncludeDone, EndOfFile, Finished, Fatal,
                 RegisterNextLangSys, RegisterDone, LangSystem, StartFeature, ScriptStmt,
                 LanguageStmt, LookupFlagStmt, StartStandAlone, StartLookup
  <2> QED
    BY <1>4, <2>1
<1> QED
  BY <1>6, <1>7, <1>8, <1>9, <1>10, <1>11 DEF Next

-----------------------------------------------------------------------------
(* The history variables, errors or not *)

HistInv ==
    /\ blk = Abs!NoBlock \/ blk \in BlockType
    /\ blk.open => "seenFeature" \in gFlags /\ DOMAIN langSysMap # {}
    /\ DOMAIN langSysMap # {} => "seenLangSys" \in gFlags
    /\ SealedIn(layout, sealed)

\* No flag of the file and no language system is ever forgotten, and one that is added is
\* noted.
LEMMA GlobalsGrow ==
    ASSUME TypeOK, [Next]_vars
    PROVE  /\ gFlags \subseteq gFlags' /\ DOMAIN langSysMap \subseteq DOMAIN langSysMap'
           /\ DOMAIN langSysMap' = DOMAIN langSysMap \/ "seenLangSys" \in gFlags'
<1>1. CASE UNCHANGED <<gFlags, langSysMap>>
  BY <1>1
<1>2. CASE \E f \in Features \cup {STAND_ALONE} : EnterFeature(f)
  BY <1>2 DEF EnterFeature
<1>3. CASE \E s \in Scripts, l \in Langs : LangSystem(s, l)
  BY <1>3 DEF LangSystem
<1>4. ASSUME NEW l \in Langs, NEW incl \in BOOLEAN, LanguageStmt(l, incl)
      PROVE  gFlags' = gFlags /\ DOMAIN langSysMap' = DOMAIN langSysMap
  <2>1. \A ls : DOMAIN [langSysMap EXCEPT ![ls] = TRUE] = DOMAIN langSysMap
    OBVIOUS
  <2>2. gFlags' = gFlags
    BY <1>4 DEF LanguageStmt
  <2>3. \/ langSysMap' = langSysMap
        \/ \E ls : langSysMap' = [langSysMap EXCEPT ![ls] = TRUE]
    BY <1>4 DEF LanguageStmt
  <2> QED
    BY <2>1, <2>2, <2>3
<1>5. CASE RegisterNextLangSys
  BY <1>5 DEF RegisterNextLangSys, Included
<1>6. CASE \/ UNCHANGED vars \/ IncludeInvalidated \/ IncludeDone \/ EndOfFile \/ Finished
           \/ RegisterDone \/ RegisterLookup \/ EndLookup \/ EndFeature \/ IncludeNext
           \/ \E n \in Names : UseLookup(n)
           \/ \E s \in Scripts : ScriptStmt(s)
           \/ \E v \in Flags : LookupFlagStmt(v)
           \/ \E n \in Names : StartLookup(n)
           \/ \E k \in RuleKinds : RuleStmt(k[1], k[2])
  <2>1. UNCHANGED <<gFlags, langSysMap>>
    BY <1>6 DEF vars, IncludeInvalidated, IncludeDone, EndOfFile, Finished, Fatal,
                RegisterDone, RegisterLookup, EndLookup, EndFeature, BeginRegister, IncludeNext,
                CallLkp, UseLookup, ScriptStmt, LookupFlagStmt, StartLookup, RuleStmt
  <2> QED
    BY <1>1, <2>1
<1>7. CASE \E n \in Names : StartStandAlone(n)
  <2>1. UNCHANGED <<gFlags, langSysMap>> \/ EnterFeature(STAND_ALONE)
    BY <1>7 DEF StartStandAlone, Fatal
  <2> QED
    BY <1>1, <1>2, <2>1
<1>8. CASE \E f \in Features : StartFeature(f)
  BY <1>2, <1>8 DEF StartFeature
<1> QED
  BY <1>3, <1>4, <1>5, <1>6, <1>7, <1>8 DEF Next

\* Every step keeps the history in shape.
LEMMA NextHist ==
    ASSUME IInv, HistInv, IInv', [HNext]_allVars
    PROVE  HistInv'
<1>0. /\ TypeOK /\ TypeOK' /\ layout \in LayoutType /\ curr' \in StateType
      /\ BaseLab(curr'.label) \in Label
      /\ [Next]_vars
  <2>1. curr' \in StateType /\ layout \in LayoutType /\ TypeOK /\ TypeOK'
    BY DEF IInv, TypeOK, LayoutType
  <2> QED
    BY <2>1, StepOfFeatCtx, RefLabProperties DEF StateType
<1>1. /\ Grows(layout, layout')
      /\ gFlags \subseteq gFlags' /\ DOMAIN langSysMap \subseteq DOMAIN langSysMap'
      /\ DOMAIN langSysMap' # {} => "seenLangSys" \in gFlags'
  <2>1. /\ Grows(layout, layout')
        /\ gFlags \subseteq gFlags' /\ DOMAIN langSysMap \subseteq DOMAIN langSysMap'
        /\ DOMAIN langSysMap' = DOMAIN langSysMap \/ "seenLangSys" \in gFlags'
    BY <1>0, NextGrows, GlobalsGrow
  <2> QED
    BY <2>1 DEF HistInv
<1>2. \A tbl \in Tables : Len(layout[tbl].subtables) \in Nat /\ Len(layout'[tbl].subtables) \in Nat
  <2>1. layout' \in LayoutType
    BY <1>0 DEF TypeOK, LayoutType
  <2>2. \A tbl \in Tables : /\ layout[tbl].subtables \in Seq(SubtableType)
                            /\ layout'[tbl].subtables \in Seq(SubtableType)
    BY <1>0, <2>1 DEF LayoutType
  <2> QED
    BY <2>2, LenProperties
<1>3. blk.open => blk \in BlockType
  BY DEF HistInv, Abs!NoBlock
<1>4. CASE UNCHANGED <<blk, sealed>>
  <2>1. SealedIn(layout', sealed)
    BY <1>1, <1>2 DEF HistInv, SealedIn, Grows
  <2> QED
    BY <1>1, <1>4, <2>1 DEF HistInv
<1>5. ASSUME NEW b, NEW flag, Becomes(b, flag), blk.open => b \in BlockType PROVE HistInv'
  <2>1. blk' = blk \/ (blk.open /\ blk' = b)
    BY <1>5 DEF Becomes
  <2>2. blk' = Abs!NoBlock \/ blk' \in BlockType
    BY <1>5, <2>1 DEF HistInv
  <2>3. blk'.open => blk.open
    BY <2>1
  <2>4. SealedIn(layout', sealed')
    BY <1>1, <1>2, <1>5 DEF HistInv, SealedIn, Grows, Becomes
  <2> QED
    BY <1>1, <2>2, <2>3, <2>4 DEF HistInv, Abs!NoBlock
<1>6. ASSUME NEW f \in Features, StartFeature(f), UNCHANGED sealed,
             blk' = IF Ok THEN Abs!NewBlock(f, FirstOf(DOMAIN langSysMap')) ELSE blk
      PROVE  HistInv'
  <2>1. /\ EnterFeature(f) /\ f \in Features \cup {STAND_ALONE}
    BY <1>6 DEF StartFeature
  <2>2. DOMAIN langSysMap' # {} /\ DOMAIN langSysMap' \subseteq LangSys
    BY <1>0, <2>1, EnterFeatureType
  <2>3. "seenFeature" \in gFlags'
    BY <2>1 DEF EnterFeature
  <2>4. FirstOf(DOMAIN langSysMap') \in LangSys
    BY <2>2, FirstOfMember
  <2>5. Abs!NewBlock(f, FirstOf(DOMAIN langSysMap')) \in BlockType
    BY <2>4, NewBlockFields
  <2>6. SealedIn(layout', sealed')
    BY <1>1, <1>2, <1>6 DEF HistInv, SealedIn, Grows
  <2> QED
    BY <1>1, <1>6, <2>2, <2>3, <2>5, <2>6 DEF HistInv
<1>7. CASE HEndBlock
  <2>1. layout' = layout
    BY <1>7 DEF HEndBlock, RegisterDone, EndFeature, BeginRegister
  <2>2. SealedIn(layout', sealed')
    BY <1>2, <1>7, <2>1 DEF HEndBlock, SealedIn, HistInv
  <2>3. blk' = blk \/ blk' = Abs!NoBlock
    BY <1>7 DEF HEndBlock
  <2> QED
    BY <1>1, <2>2, <2>3 DEF HistInv, Abs!NoBlock
<1>8. CASE UNCHANGED allVars \/ (Internal /\ UNCHANGED histVars)
  BY <1>4, <1>8 DEF allVars, histVars
<1>9. ASSUME NEW k \in RuleKinds, HRule(k[1], k[2]) PROVE HistInv'
  <2>1. \/ UNCHANGED <<blk, sealed>>
        \/ Becomes(Abs!AfterLookup(blk, BaseLab(curr'.label)), saidFlag)
    BY <1>9 DEF HRule, histVars
  <2>2. blk.open => Abs!AfterLookup(blk, BaseLab(curr'.label)) \in BlockType
    BY <1>0, <1>3, AfterLookupFields
  <2> QED
    BY <1>4, <1>5, <2>1, <2>2
<1>10. ASSUME Becomes(Abs!AfterLookup(blk, BaseLab(curr'.label)), curr'.lkpFlag)
       PROVE  HistInv'
  <2>1. blk.open => Abs!AfterLookup(blk, BaseLab(curr'.label)) \in BlockType
    BY <1>0, <1>3, AfterLookupFields
  <2> QED
    BY <1>5, <1>10, <2>1
<1>11. ASSUME NEW s \in Scripts, Becomes(Abs!AfterScript(blk, s), 0) PROVE HistInv'
  BY <1>3, <1>5, <1>11, AfterScriptFields
<1>12. ASSUME NEW l \in Langs, NEW incl \in BOOLEAN,
              Becomes(Abs!AfterLanguage(blk, l, incl), saidFlag)
       PROVE  HistInv'
  BY <1>3, <1>5, <1>12, AfterLanguageFields
<1>13. ASSUME NEW v, Becomes(blk, v) PROVE HistInv'
  BY <1>3, <1>5, <1>13
<1> QED
  BY <1>6, <1>7, <1>8, <1>9, <1>10, <1>11, <1>12, <1>13 DEF HNext

-----------------------------------------------------------------------------
(* The invariant of a feature block: FeatCtx and FeatLangSys side by side *)

\* The file goes on, without an error so far.
Going == ~hadError /\ pc # "fatal"

First == FirstOf(DOMAIN langSysMap)

\* The flags and tags of FeatCtx say of the open block what blk says.  No statement excludes
\* the default language of a script.
BlockScope ==
    /\ blk.feature = curr.feature /\ blk.script = curr.script /\ blk.language = curr.language
    /\ "seenLangSys" \in gFlags /\ curr.script \in script
    /\ blk.atTop <=> "seenScriptLang" \notin fFlags
    /\ blk.atTop => curr.script = First[1] /\ curr.language = First[2]
    /\ "langSysMode" \in fFlags <=> blk.atTop /\ prev.tbl # UNDEF
    /\ prev.tbl # UNDEF <=> prev.feature = curr.feature
    /\ prev.tbl # UNDEF => prev.script \in script /\ (blk.atTop => prev.script = curr.script)
    /\ curr.language = "dflt" => include_dflt
    /\ \A e \in blk.excl : e[2] # "dflt"

ScopeInv ==
    Going =>
        /\ blk.open <=> nest \in {"feature", "block"}
        /\ curr.feature \in feature \cup {UNDEF} /\ prev.feature \in feature \cup {UNDEF}
        /\ nest = "file" \/ curr.feature = "aalt" => prev.tbl = UNDEF
        /\ nest = "alone" => /\ curr.feature = STAND_ALONE
                             /\ prev.tbl # UNDEF => prev.feature = STAND_ALONE
                             /\ "seenScriptLang" \in fFlags /\ "langSysMode" \notin fFlags
        /\ pc = "include" => curr.feature \notin Restricted
        /\ blk.open => BlockScope

\* DFLTLkps has the defaults, and the lookup of the last rule is among them whenever the
\* next rule could go on with it.
Defaults ==
    /\ \A k : k \in blk.deflt <=> \E i \in 1 .. Len(DFLTLkps) : BaseLab(DFLTLkps[i].label) = k
    /\ prev.tbl = UNDEF => blk.deflt = {} /\ blk.top = {} /\ blk.explicit = {}
    /\ prev.tbl # UNDEF /\ prev.script = curr.script /\ curr.language = "dflt" =>
           prev.language = "dflt" /\ BaseLab(prev.label) \in blk.deflt
    /\ prev.tbl # UNDEF /\ blk.atTop => BaseLab(prev.label) \in blk.top

DefaultInv == Going /\ blk.open => Defaults

\* includeDFLT will register d.
Todo(d) ==
    /\ pc = "include"
    /\ \E i \in iter + 1 .. iterEnd :
          d = <<curr.script, curr.language, curr.feature, BaseLab(DFLTLkps[i].label)>>

\* The lookup that is open will be registered as d.
Opened(d) == prev.tbl # UNDEF /\ d = Where(prev)

\* The block says that d is registered, language systems aside.
Stated(d) ==
    \/ \E k \in blk.top : d = <<First[1], First[2], blk.feature, k>>
    \/ \E e \in blk.explicit : d = <<e[1], e[2], blk.feature, e[3]>>

\* registerFeatureLangSys has registered d.
Done(d) ==
    \/ \E ls \in DOMAIN langSysMap \ regTodo :
          ls \notin blk.excl /\ \E k \in blk.top : d = <<ls[1], ls[2], blk.feature, k>>
    \/ /\ regTodo # {}
       /\ \E i \in 1 .. regPos - 1 :
             d = <<FirstOf(regTodo)[1], FirstOf(regTodo)[2], blk.feature, BaseLab(lookup[i].label)>>

\* What the tables hold of the open block is what it says.
Recorded ==
    /\ \A d : Fresh(layout, sealed, d) \/ (pc # "register" /\ (Opened(d) \/ Todo(d)))
              <=> Stated(d) \/ (pc = "register" /\ Done(d))
    /\ \A k : k \in blk.top <=> \E i \in 1 .. Len(lookup) : BaseLab(lookup[i].label) = k
    /\ \A ls \in DOMAIN langSysMap :
          (pc = "register" => ls \in regTodo) => (langSysMap[ls] <=> ls \in blk.excl)

RecordInv ==
    Going =>
        /\ pc # "register" => OpenAs(layout, prev)
        /\ blk.open => Recorded
        /\ ~blk.open => \A d : Fresh(layout, sealed, d) => d[3] = STAND_ALONE /\ nest # "file"
        /\ pc = "register" /\ regTodo # {} =>
               regPos <= Len(lookup) + 1 /\ (langSysMap[FirstOf(regTodo)] => regPos = 1)

\* The invariants of FeatCtx that all this rests on
CtxInv == IInv /\ IssuedInv /\ NamedInv /\ OpenRunInv /\ RefRunInv /\ ExclInv /\ InclInv
SideInv == HistInv /\ ScopeInv /\ DefaultInv /\ RecordInv

\* An error stays, and so does giving up.
LEMMA GoingOn ==
    ASSUME TypeOK, Going', [HNext]_allVars
    PROVE  Going
<1>1. ~hadError
  BY StepOfFeatCtx, ErrorStays DEF Going
<1>2. CASE pc = "fatal"
  <2>1. [Next]_vars /\ hadError \in BOOLEAN
    BY StepOfFeatCtx DEF TypeOK
  <2>2. UNCHANGED vars
    BY <1>2, <2>1 DEF Next, LangSystem, StartFeature, StartStandAlone, EndOfFile, ScriptStmt,
                      LanguageStmt, IncludeNext, IncludeInvalidated, IncludeDone, LookupFlagStmt,
                      RuleStmt, StartLookup, EndLookup, UseLookup, EndFeature, RegisterLookup,
                      RegisterNextLangSys, RegisterDone, Finished, Ready
  <2> QED
    BY <1>2, <2>2 DEF Going, vars
<1> QED
  BY <1>1, <1>2 DEF Going

-----------------------------------------------------------------------------
(* A rule or a reference: the state st is begun or gone on with. *)

Adds(st, named, rules) ==
    /\ st \in StateType /\ st.tbl \in Tables /\ st.feature = curr.feature
    /\ PrepRule(st, named, rules) /\ ~PrepFails(st, named)
    /\ named # LAB_UNDEF => st.label = named
    /\ named = LAB_UNDEF /\ ~NeedsAnonLabel(st, named) => st.label = prev.label
    /\ IF EntersLangSysMode THEN st.script = First[1] /\ st.language = First[2]
       ELSE st.script = curr.script /\ st.language = curr.language
    /\ nest # "file" /\ curr.feature # "aalt"
    /\ UNCHANGED <<pc, nest, hadError, gFlags, langSysMap, feature, regTodo, regPos, sealed>>
    /\ IF pc = "include"
       THEN /\ iter < iterEnd /\ BaseLab(st.label) = BaseLab(DFLTLkps[iter + 1].label)
            /\ iter' = iter + 1 /\ UNCHANGED <<iterEnd, blk>>
       ELSE /\ pc = "stmt"
            /\ blk' = IF blk.open THEN Abs!AfterLookup(blk, BaseLab(st.label)) ELSE blk

\* The aalt feature keeps its substitutions to itself, and has no other rules.
NoAaltRules == "aalt" \in Features => \A k \in RuleKinds : k[1] # "GPOS"

\* The rule that is read is made with state st.
AddsRule(st, tbl, lkpType) ==
    /\ Adds(st, currNamedLkp, {ruleCnt + 1})
    /\ st.tbl = tbl /\ st.lkpType = lkpType /\ st.lkpFlag = curr.lkpFlag
    /\ (currNamedLkp = LAB_UNDEF /\ NeedsAnonLabel(st, currNamedLkp)) => st.label = anonLabelCnt
    /\ pc = "stmt" /\ ruleCnt' = ruleCnt + 1
    /\ ~endOfNamedLkpOrRef' /\ UNCHANGED currNamedLkp

\* A rule adds to a lookup, or the program gives up or leaves it all to aalt.
LEMMA RuleAdds ==
    ASSUME CtxInv, ScopeInv, Going, Going', NoAaltRules,
           NEW k \in RuleKinds, HRule(k[1], k[2])
    PROVE  \/ \E st : AddsRule(st, k[1], k[2])
           \/ UNCHANGED <<pc, hadError, nest, ruleCnt, loopVars, globalVars, scopeVars,
                          labelVars, runVars, histVars>>
<1> DEFINE st == Prepared(k[1], k[2], curr.lkpFlag, currNamedLkp)
<1>0. /\ TypeOK /\ LangSysSeen /\ curr \in StateType /\ currNamedLkp \in Label
      /\ ruleCnt \in Nat
  BY DEF CtxInv, IInv, TypeOK
<1>1. k[1] \in Tables /\ k[2] \in LkpTypes /\ curr.lkpFlag \in Nat
  <2>1. k[1] \in Tables /\ k[2] \in LkpTypes
    BY FeatAssumption DEF LkpTypes
  <2> QED
    BY <1>0, <2>1 DEF StateType
<1>2. /\ st \in StateType
      /\ st.label = IF currNamedLkp # LAB_UNDEF THEN currNamedLkp
                    ELSE IF NeedsAnonLabel(st, currNamedLkp) THEN anonLabelCnt ELSE prev.label
      /\ st.tbl = k[1]
  BY <1>0, <1>1, PreparedType, PreparedLabel
<1>3. /\ st.feature = curr.feature /\ st.lkpType = k[2] /\ st.lkpFlag = curr.lkpFlag
      /\ ~EntersLangSysMode => st.script = curr.script /\ st.language = curr.language
      /\ EntersLangSysMode => <<st.script, st.language>> = <<First[1], First[2]>>
  BY <1>0, PreparedFields DEF First
<1>4. pc = "stmt" /\ nest # "file" /\ RuleStmt(k[1], k[2])
  BY DEF HRule, RuleStmt
<1>5. CASE curr.feature = "aalt" /\ k[1] = "GSUB"
  <2>1. UNCHANGED <<pc, hadError, nest, ruleCnt, loopVars, globalVars, scopeVars,
                    labelVars, runVars>>
    BY <1>4, <1>5 DEF RuleStmt
  <2> QED
    BY <2>1 DEF HRule
<1>6. CASE ~(curr.feature = "aalt" /\ k[1] = "GSUB")
  <2>1. ~PrepFails(st, currNamedLkp)
    BY <1>4, <1>6 DEF RuleStmt, Fatal, Going
  <2>2. /\ PrepRule(st, currNamedLkp, {ruleCnt + 1}) /\ ruleCnt' = ruleCnt + 1
        /\ UNCHANGED <<pc, hadError, nest, loopVars, globalVars, namedLkp, currNamedLkp>>
    BY <1>4, <1>6, <2>1 DEF RuleStmt
  <2>3. Becomes(Abs!AfterLookup(blk, BaseLab(curr'.label)), saidFlag)
    BY <1>0, <2>2 DEF HRule
  <2>4. curr' = st
    BY <2>2 DEF PrepRule
  <2>5. blk' = (IF blk.open THEN Abs!AfterLookup(blk, BaseLab(st.label)) ELSE blk) /\ sealed' = sealed
    BY <2>3, <2>4 DEF Becomes, Ok, Going
  <2>6. curr.feature # "aalt"
    <3>1. k[1] \in {"GSUB", "GPOS"}
      BY <1>1 DEF Tables
    <3>2. curr.feature \in Features \cup {UNDEF, STAND_ALONE}
      BY <1>0 DEF StateType
    <3> QED
      BY <1>6, <3>1, <3>2 DEF NoAaltRules, UNDEF, STAND_ALONE
  <2> HIDE DEF st
  <2>7. Adds(st, currNamedLkp, {ruleCnt + 1})
    BY <1>1, <1>2, <1>3, <1>4, <2>1, <2>2, <2>5, <2>6 DEF Adds
  <2>8. ~endOfNamedLkpOrRef' /\ UNCHANGED currNamedLkp
    BY <1>4, <1>6, <2>1 DEF RuleStmt, st
  <2> QED
    BY <1>2, <1>3, <1>4, <2>2, <2>7, <2>8 DEF AddsRule
<1> QED
  BY <1>5, <1>6

\* A reference of a lookup statement or of includeDFLT adds to one, too.
LEMMA ReferenceAdds ==
    ASSUME CtxInv, ScopeInv, Going, Going',
           \/ IncludeNext /\ UNCHANGED histVars
           \/ \E n \in Names :
                UseLookup(n) /\ Becomes(Abs!AfterLookup(blk, BaseLab(curr'.label)), curr'.lkpFlag)
    PROVE  \E st, named, rules : Adds(st, named, rules)
<1>0. /\ IInv /\ IssuedInv /\ NamedInv /\ OpenRunInv /\ RefRunInv /\ ~hadError /\ ~hadError'
      /\ hadError \in BOOLEAN /\ hadError' = hadError
      /\ pc' # "fatal"
  <2>1. hadError \in BOOLEAN
    BY DEF CtxInv, IInv, TypeOK
  <2>2. /\ IInv /\ IssuedInv /\ NamedInv /\ OpenRunInv /\ RefRunInv /\ ~hadError /\ ~hadError'
        /\ pc' # "fatal"
    BY DEF CtxInv, Going
  <2>3. hadError' = hadError
    BY <2>2 DEF IncludeNext, UseLookup, CallLkp, Fatal
  <2> QED
    BY <2>1, <2>2, <2>3
<1>1. ASSUME NEW st, RefStep(st),
             UNCHANGED sealed,
             IF pc = "include"
             THEN iter < iterEnd /\ st = DFLTLkps[iter + 1] /\ iter' = iter + 1 /\ UNCHANGED <<iterEnd, blk>>
             ELSE /\ blk' = IF blk.open THEN Abs!AfterLookup(blk, BaseLab(curr'.label)) ELSE blk
                  /\ curr.feature \notin Restricted
      PROVE  \E ref, named, rules : Adds(ref, named, rules)
  <2> DEFINE ref == Reference(st)
  <2>1. /\ ref \in StateType /\ ref.tbl = st.tbl /\ ref.label = RefLab(st.label)
        /\ IsRefLab(ref.label) /\ BaseLab(ref.label) = BaseLab(st.label)
        /\ ref.feature = curr.feature
        /\ ~EntersLangSysMode => ref.script = curr.script /\ ref.language = curr.language
        /\ EntersLangSysMode => <<ref.script, ref.language>> = <<First[1], First[2]>>
        /\ PrepRule(ref, ref.label, {}) /\ ~PrepFails(ref, ref.label)
    BY <1>0, <1>1, ReferenceState DEF First
  <2>2. /\ nest = "feature" /\ st.tbl \in Tables /\ pc \in {"stmt", "include"}
        /\ UNCHANGED <<pc, nest, gFlags, langSysMap, feature, regTodo, regPos>>
    BY <1>1 DEF RefStep, CallLkp
  <2>3. curr.feature # "aalt"
    BY <1>1 DEF ScopeInv, Restricted
  <2> HIDE DEF ref
  <2>4. curr' = ref
    BY <2>1 DEF PrepRule
  <2>5. ref.label # LAB_UNDEF
    BY <2>1 DEF IsRefLab
  <2>6. Adds(ref, ref.label, {})
    BY <1>0, <1>1, <2>1, <2>2, <2>3, <2>4, <2>5 DEF Adds
  <2> QED
    BY <2>6
<1>2. CASE IncludeNext /\ UNCHANGED histVars
  <2>1. RefStep(DFLTLkps[iter + 1])
    <3>1. \/ Fatal /\ pc \in {"stmt", "include"}
          \/ IncludeNext /\ RefStep(DFLTLkps[iter + 1])
          \/ \E n \in Names : \E i \in 1 .. Len(namedLkp) :
                UseLookup(n) /\ namedLkp[i].state.label = i - 1 /\ RefStep(namedLkp[i].state)
      BY <1>0, <1>2, ReferenceSteps
    <3>2. pc = "include"
      BY <1>2 DEF IncludeNext
    <3> QED
      BY <1>0, <3>1, <3>2 DEF Fatal, UseLookup, Ready
  <2>2. pc = "include" /\ iter < iterEnd /\ iter' = iter + 1 /\ UNCHANGED <<iterEnd, blk, sealed>>
    BY <1>0, <1>2 DEF IncludeNext, Fatal, histVars
  <2> QED
    BY <1>1, <2>1, <2>2
<1>3. ASSUME NEW n \in Names, UseLookup(n),
             Becomes(Abs!AfterLookup(blk, BaseLab(curr'.label)), curr'.lkpFlag)
      PROVE  \E st, named, rules : Adds(st, named, rules)
  <2>1. \/ Fatal /\ pc \in {"stmt", "include"}
        \/ IncludeNext /\ RefStep(DFLTLkps[iter + 1])
        \/ \E m \in Names : \E i \in 1 .. Len(namedLkp) :
              UseLookup(m) /\ namedLkp[i].state.label = i - 1 /\ RefStep(namedLkp[i].state)
    BY <1>0, <1>3, ReferenceSteps
  <2>2. pc = "stmt" /\ curr.feature \notin Restricted
    BY <1>0, <1>3 DEF UseLookup, Ready
  <2>3. PICK i \in 1 .. Len(namedLkp) : RefStep(namedLkp[i].state)
    BY <1>0, <2>1, <2>2 DEF Fatal, IncludeNext
  <2>4. /\ sealed' = sealed
        /\ blk' = IF blk.open THEN Abs!AfterLookup(blk, BaseLab(curr'.label)) ELSE blk
    BY <1>0, <1>3 DEF Becomes, Ok
  <2> QED
    BY <1>1, <2>2, <2>3, <2>4
<1> QED
  BY <1>2, <1>3

\* In a block, a rule is made for the script and language that are current.
LEMMA AddsWhere ==
    ASSUME TypeOK, Going, ScopeInv, NEW st, NEW named, NEW rules, Adds(st, named, rules)
    PROVE  /\ st.script = curr.script /\ st.language = curr.language
           /\ blk.open => (EntersLangSysMode <=> blk.atTop /\ prev.tbl = UNDEF)
           /\ ~blk.open => nest = "alone" /\ ~EntersLangSysMode
<1>1. nest \in {"feature", "block", "alone"}
  BY DEF Adds, TypeOK
<1>2. CASE nest = "alone"
  BY <1>2 DEF ScopeInv, Adds, EntersLangSysMode
<1>3. CASE nest \in {"feature", "block"}
  <2>1. blk.open /\ BlockScope
    BY <1>3 DEF ScopeInv
  <2>2. EntersLangSysMode <=> blk.atTop /\ prev.tbl = UNDEF
    BY <2>1 DEF BlockScope, EntersLangSysMode
  <2>3. EntersLangSysMode => st.script = curr.script /\ st.language = curr.language
    BY <2>1, <2>2 DEF BlockScope, Adds
  <2> QED
    BY <2>1, <2>2, <2>3 DEF Adds
<1> QED
  BY <1>1, <1>2, <1>3

\* ... and the block changes accordingly.
LEMMA AddsBlock ==
    ASSUME TypeOK, HistInv, NEW st, NEW named, NEW rules, Adds(st, named, rules)
    PROVE  /\ blk'.open = blk.open
           /\ blk.open => /\ blk' \in BlockType /\ blk \in BlockType
                          /\ blk'.feature = blk.feature /\ blk'.script = blk.script
                          /\ blk'.language = blk.language /\ blk'.atTop = blk.atTop
                          /\ blk'.excl = blk.excl
           /\ blk.open /\ pc = "stmt" =>
                 LET k == BaseLab(st.label)
                 IN  /\ blk'.top = IF blk.atTop THEN blk.top \cup {k} ELSE blk.top
                     /\ blk'.explicit = IF blk.atTop THEN blk.explicit
                                        ELSE blk.explicit \cup {<<blk.script, blk.language, k>>}
                     /\ blk'.deflt = IF blk.atTop \/ blk.language = "dflt"
                                     THEN blk.deflt \cup {k} ELSE blk.deflt
           /\ pc # "stmt" => blk' = blk /\ pc = "include"
<1>1. BaseLab(st.label) \in Label
  BY RefLabProperties DEF Adds, StateType
<1>2. blk.open => blk \in BlockType
  BY DEF HistInv, Abs!NoBlock
<1>3. pc = "stmt" => blk' = IF blk.open THEN Abs!AfterLookup(blk, BaseLab(st.label)) ELSE blk
  BY DEF Adds
<1>4. pc # "stmt" => blk' = blk /\ pc = "include"
  BY DEF Adds
<1>5. CASE pc # "stmt" \/ ~blk.open
  BY <1>2, <1>3, <1>4, <1>5
<1>6. CASE pc = "stmt" /\ blk.open
  <2>1. blk' = Abs!AfterLookup(blk, BaseLab(st.label)) /\ blk \in BlockType
    BY <1>2, <1>3, <1>6
  <2>2. blk' \in BlockType /\ blk'.open = blk.open
    BY <1>1, <2>1, AfterLookupFields DEF BlockType
  <2> QED
    BY <1>1, <1>6, <2>1, <2>2, AfterLookupFields
<1> QED
  BY <1>5, <1>6

\* A rule or reference keeps the flags and tags in step with the block.
LEMMA AddsScope ==
    ASSUME TypeOK, Going, HistInv, ScopeInv, NEW st, NEW named, NEW rules, Adds(st, named, rules)
    PROVE  ScopeInv'
<1>1. /\ st.script = curr.script /\ st.language = curr.language /\ st.feature = curr.feature
      /\ st.tbl # UNDEF
  BY AddsWhere DEF Adds, Tables, UNDEF
<1>2. /\ curr' = st /\ prev' = st /\ include_dflt' = include_dflt
      /\ fFlags' = IF EntersLangSysMode THEN fFlags \cup {"langSysMode"} ELSE fFlags
      /\ script' = IF EntersLangSysMode THEN script \cup {st.script} ELSE script
  BY DEF Adds, PrepRule
<1>3. /\ nest' = nest /\ gFlags' = gFlags /\ feature' = feature /\ langSysMap' = langSysMap
      /\ pc' = pc /\ nest # "file" /\ curr.feature # "aalt"
  BY DEF Adds
<1>4. nest' = "alone" => /\ curr'.feature = STAND_ALONE /\ prev'.feature = STAND_ALONE
                         /\ "seenScriptLang" \in fFlags' /\ "langSysMode" \notin fFlags'
  <2>1. nest = "alone" => ~EntersLangSysMode
    BY DEF ScopeInv, EntersLangSysMode
  <2> QED
    BY <1>1, <1>2, <1>3, <2>1 DEF ScopeInv
<1>5. ASSUME blk.open PROVE BlockScope'
  <2>1. BlockScope
    BY <1>5 DEF ScopeInv
  <2>2. EntersLangSysMode <=> blk.atTop /\ prev.tbl = UNDEF
    BY <1>5, AddsWhere
  <2>3. /\ blk'.feature = blk.feature /\ blk'.script = blk.script
        /\ blk'.language = blk.language /\ blk'.atTop = blk.atTop /\ blk'.excl = blk.excl
    BY <1>5, AddsBlock
  <2>4. "langSysMode" \in fFlags' <=> blk'.atTop
    BY <1>2, <2>1, <2>2, <2>3 DEF BlockScope
  <2>5. "seenScriptLang" \in fFlags' <=> "seenScriptLang" \in fFlags
    BY <1>2
  <2>6. First' = First
    BY <1>3 DEF First
  <2> QED
    BY <1>1, <1>2, <1>3, <2>1, <2>3, <2>4, <2>5, <2>6 DEF BlockScope
<1> QED
  BY <1>1, <1>2, <1>3, <1>4, <1>5, AddsBlock DEF ScopeInv

\* The lookup of a rule under the default language is a default, and includeDFLT accumulates
\* nothing while it includes.
LEMMA AddsDefaults ==
    ASSUME CtxInv, Going, HistInv, ScopeInv, DefaultInv, DefaultFirst, blk.open,
           NEW st, NEW named, NEW rules, Adds(st, named, rules),
           pc = "include" => DFLTLkps' = DFLTLkps /\ curr.language # "dflt"
    PROVE  Defaults'
<1>0. /\ TypeOK /\ DFLTLkps \in Seq(StateType) /\ st \in StateType /\ st.tbl # UNDEF
      /\ prev.label = curr.label
  BY DEF CtxInv, IInv, TypeOK, OpenRunInv, OpenInv, Going, Adds, Tables, UNDEF
<1>1. /\ st.script = curr.script /\ st.language = curr.language /\ st.feature = curr.feature
      /\ curr' = st /\ prev' = st
  BY <1>0, AddsWhere DEF Adds, PrepRule
<1>2. Defaults /\ BlockScope
  BY DEF DefaultInv, ScopeInv
<1>3. blk.atTop => curr.language = "dflt"
  <2>1. DOMAIN langSysMap # {}
    BY DEF HistInv
  <2> QED
    BY <1>2, <2>1 DEF BlockScope, DefaultFirst, First
<1> DEFINE k == BaseLab(st.label)
<1>4. DFLTLkps' = IF Accumulates(st, named) THEN Append(DFLTLkps, st) ELSE DFLTLkps
  <2>1. ~(st.feature = prev.feature /\ st.script = prev.script) => DFLTLkps = <<>>
    BY <1>1 DEF CtxInv, IInv, DefaultsOfScript
  <2>2. DFLTLkps' = LET kept == IF st.feature = prev.feature /\ st.script = prev.script
                                THEN DFLTLkps ELSE <<>>
                    IN  IF Accumulates(st, named) THEN Append(kept, st) ELSE kept
    BY DEF Adds, PrepRule
  <2> QED
    BY <2>1, <2>2
<1>5. st.language = "dflt" /\ ~Accumulates(st, named) => k \in blk.deflt
  <2> SUFFICES ASSUME st.language = "dflt", ~Accumulates(st, named) PROVE k \in blk.deflt
    OBVIOUS
  <2>1. CASE named # LAB_UNDEF
    <3>1. st.label = prev.label /\ st.script = prev.script /\ st.feature = prev.feature
      BY <1>0, <2>1 DEF Adds, Accumulates
    <3>2. prev.tbl # UNDEF
      BY <1>1, <1>2, <3>1 DEF BlockScope
    <3> QED
      BY <1>1, <1>2, <3>1, <3>2 DEF Defaults
  <2>2. CASE named = LAB_UNDEF
    <3>1. st.label = prev.label /\ InRun(st)
      BY <2>2 DEF Adds, Accumulates, NeedsAnonLabel
    <3> QED
      BY <1>0, <1>1, <1>2, <3>1 DEF Defaults, InRun
  <2> QED
    BY <2>1, <2>2
<1>6. ASSUME NEW x
      PROVE  (\E i \in 1 .. Len(DFLTLkps') : BaseLab(DFLTLkps'[i].label) = x)
             <=> x \in blk.deflt \/ (Accumulates(st, named) /\ x = k)
  <2>1. x \in blk.deflt <=> \E i \in 1 .. Len(DFLTLkps) : BaseLab(DFLTLkps[i].label) = x
    BY <1>2 DEF Defaults
  <2>2. CASE ~Accumulates(st, named)
    BY <1>4, <2>1, <2>2
  <2>3. CASE Accumulates(st, named)
    <3>1. DFLTLkps' = Append(DFLTLkps, st)
      BY <1>4, <2>3
    <3>2. /\ Len(DFLTLkps') = Len(DFLTLkps) + 1 /\ Len(DFLTLkps) \in Nat
          /\ \A i \in 1 .. Len(DFLTLkps) : DFLTLkps'[i] = DFLTLkps[i]
          /\ DFLTLkps'[Len(DFLTLkps) + 1] = st
      BY <1>0, <3>1, AppendProperties, LenProperties
    <3> QED
      BY <2>1, <2>3, <3>2
  <2> QED
    BY <2>2, <2>3
<1>7. CASE pc = "include"
  <2>1. blk' = blk /\ DFLTLkps' = DFLTLkps /\ curr'.language # "dflt"
    BY <1>0, <1>1, <1>7, AddsBlock
  <2>2. ~blk.atTop
    BY <1>3, <1>7
  <2> QED
    BY <1>0, <1>1, <1>2, <2>1, <2>2 DEF Defaults
<1>8. CASE pc # "include"
  <2>1. /\ blk'.deflt = IF blk.atTop \/ blk.language = "dflt" THEN blk.deflt \cup {k} ELSE blk.deflt
        /\ blk'.top = IF blk.atTop THEN blk.top \cup {k} ELSE blk.top
        /\ blk'.atTop = blk.atTop
    BY <1>0, <1>8, AddsBlock DEF Adds
  <2>2. blk'.deflt = IF st.language = "dflt" THEN blk.deflt \cup {k} ELSE blk.deflt
    BY <1>1, <1>2, <1>3, <2>1 DEF BlockScope
  <2>3. Accumulates(st, named) => st.language = "dflt"
    BY DEF Accumulates
  <2>4. \A x : x \in blk'.deflt <=> \E i \in 1 .. Len(DFLTLkps') : BaseLab(DFLTLkps'[i].label) = x
    BY <1>5, <1>6, <2>2, <2>3
  <2> QED
    BY <1>0, <1>1, <2>1, <2>2, <2>4 DEF Defaults
<1> QED
  BY <1>7, <1>8

\* What a rule or reference leaves in the tables, or open, is what the block says.
LEMMA AddsRecord ==
    ASSUME CtxInv, Going, HistInv, ScopeInv, DefaultInv, RecordInv,
           NEW st, NEW named, NEW rules, Adds(st, named, rules),
           pc = "include" => DFLTLkps' = DFLTLkps /\ curr.language # "dflt"
    PROVE  RecordInv'
<1>0. /\ TypeOK /\ st \in StateType /\ st.tbl \in Tables /\ st.tbl # UNDEF /\ pc \in {"stmt", "include"}
      /\ lookup \in Seq(LookupInfoType)
  BY DEF CtxInv, IInv, TypeOK, Adds, Tables, UNDEF
<1>1. /\ st.script = curr.script /\ st.language = curr.language /\ st.feature = curr.feature
      /\ blk.open => (EntersLangSysMode <=> blk.atTop /\ prev.tbl = UNDEF)
      /\ ~blk.open => nest = "alone" /\ ~EntersLangSysMode
  BY <1>0, AddsWhere DEF Adds
<1>2. /\ curr' = st /\ prev' = st
      /\ fFlags' = IF EntersLangSysMode THEN fFlags \cup {"langSysMode"} ELSE fFlags
      /\ lookup' = IF StartsRun(st) /\ "langSysMode" \in fFlags'
                   THEN Append(lookup, [tbl |-> st.tbl, lkpType |-> st.lkpType,
                                        lkpFlag |-> st.lkpFlag, label |-> st.label])
                   ELSE lookup
      /\ PrepRule(st, named, rules) /\ ~PrepFails(st, named)
  BY DEF Adds, PrepRule
<1>3. /\ UNCHANGED <<pc, nest, hadError, langSysMap, regTodo, regPos, sealed>>
      /\ First' = First
  BY DEF Adds, First
<1>4. /\ OpenAs(layout', st) /\ SealedIn(layout', sealed)
      /\ \A d : Fresh(layout', sealed, d) \/ d = Where(st)
                <=> \/ Fresh(layout, sealed, d) \/ d = Where(st)
                    \/ (prev.tbl # UNDEF /\ d = Where(prev))
      /\ \A d : Fresh(layout', sealed, d) => \/ Fresh(layout, sealed, d)
                                             \/ (prev.tbl # UNDEF /\ d = Where(prev))
  <2>1. SealedIn(layout, sealed) /\ OpenAs(layout, prev) /\ ~hadError
    BY <1>0 DEF HistInv, RecordInv, Going
  <2> QED
    BY <1>0, <1>2, <2>1, PrepRuleFresh
<1>5. /\ blk'.open = blk.open
      /\ blk.open => blk \in BlockType /\ blk' \in BlockType
      /\ blk.open => blk'.feature = blk.feature /\ blk'.atTop = blk.atTop /\ blk'.excl = blk.excl
  BY <1>0, AddsBlock
<1> DEFINE k == BaseLab(st.label)
<1>6. CASE ~blk.open
  <2>1. nest = "alone"
    BY <1>1, <1>6
  <2>2. ASSUME NEW d, Fresh(layout', sealed, d) PROVE d[3] = STAND_ALONE
    <3>1. CASE Fresh(layout, sealed, d)
      BY <1>6, <3>1 DEF RecordInv
    <3>2. CASE prev.tbl # UNDEF /\ d = Where(prev)
      <4>1. prev.feature = STAND_ALONE
        BY <2>1, <3>2 DEF ScopeInv
      <4> QED
        BY <3>2, <4>1 DEF Where
    <3> QED
      BY <1>4, <2>2, <3>1, <3>2
  <2> QED
    BY <1>0, <1>2, <1>3, <1>4, <1>5, <1>6, <2>1, <2>2 DEF RecordInv
<1>7. CASE blk.open
  <2>0. BlockScope /\ Recorded /\ Defaults
    BY <1>7 DEF ScopeInv, RecordInv, DefaultInv
  <2>1. Where(st) = <<blk.script, blk.language, blk.feature, k>>
    BY <1>1, <2>0 DEF Where, BlockScope
  \* what the tables and the rest of the loop hold
  <2>2. ASSUME NEW d
        PROVE  Fresh(layout', sealed', d) \/ Opened(d)' \/ Todo(d)'
               <=> Fresh(layout, sealed, d) \/ Opened(d) \/ Todo(d) \/ d = Where(st)
    <3>1. Opened(d)' <=> d = Where(st)
      BY <1>0, <1>2 DEF Opened, Where
    <3>2. Todo(d)' \/ d = Where(st) <=> Todo(d) \/ d = Where(st)
      <4>1. CASE pc = "stmt"
        BY <1>3, <4>1 DEF Todo
      <4>2. CASE pc = "include"
        <5>1. /\ iter \in Nat /\ iterEnd \in Nat /\ iter < iterEnd /\ iter' = iter + 1
              /\ iterEnd' = iterEnd /\ DFLTLkps' = DFLTLkps
              /\ k = BaseLab(DFLTLkps[iter + 1].label)
          BY <1>0, <4>2 DEF Adds, TypeOK
        <5>2. /\ curr'.script = curr.script /\ curr'.language = curr.language
              /\ curr'.feature = curr.feature
          BY <1>1, <1>2
        <5>3. Todo(d)' <=> \E i \in iter + 2 .. iterEnd :
                 d = <<curr.script, curr.language, curr.feature, BaseLab(DFLTLkps[i].label)>>
          BY <1>3, <4>2, <5>1, <5>2 DEF Todo
        <5>4. iter + 1 .. iterEnd = {iter + 1} \cup (iter + 2 .. iterEnd)
          BY <5>1
        <5>5. Where(st) = <<curr.script, curr.language, curr.feature, BaseLab(DFLTLkps[iter + 1].label)>>
          BY <1>1, <5>1 DEF Where
        <5> QED
          BY <4>2, <5>3, <5>4, <5>5 DEF Todo
      <4> QED
        BY <1>0, <4>1, <4>2
    <3> QED
      BY <1>3, <1>4, <3>1, <3>2 DEF Opened
  \* what the block says
  <2>3. ASSUME NEW d
        PROVE  Stated(d)' <=> Stated(d) \/ d = Where(st)
    <3>1. CASE pc = "include"
      <4>1. blk' = blk
        BY <1>0, <3>1, AddsBlock
      <4>2. Stated(d)' <=> Stated(d)
        BY <1>3, <4>1 DEF Stated
      <4>3. Stated(Where(st))
        <5>1. /\ iter \in Nat /\ iterEnd \in Nat /\ iter < iterEnd
              /\ k = BaseLab(DFLTLkps[iter + 1].label)
          BY <1>0, <3>1 DEF Adds, TypeOK
        <5>2. Todo(Where(st))
          BY <1>1, <3>1, <5>1 DEF Todo, Where
        <5> QED
          BY <1>0, <2>0, <5>2 DEF Recorded
      <4> QED
        BY <4>2, <4>3
    <3>2. CASE pc = "stmt"
      <4>1. /\ blk'.top = IF blk.atTop THEN blk.top \cup {k} ELSE blk.top
            /\ blk'.explicit = IF blk.atTop THEN blk.explicit
                               ELSE blk.explicit \cup {<<blk.script, blk.language, k>>}
        BY <1>0, <1>7, <3>2, AddsBlock
      <4>2. CASE blk.atTop
        <5>1. First[1] = blk.script /\ First[2] = blk.language
          BY <2>0, <4>2 DEF BlockScope
        <5>2. (\E x \in blk'.top : d = <<First[1], First[2], blk.feature, x>>)
              <=> (\E x \in blk.top : d = <<First[1], First[2], blk.feature, x>>) \/ d = Where(st)
          BY <2>1, <4>1, <4>2, <5>1
        <5> QED
          BY <1>3, <1>5, <1>7, <4>1, <4>2, <5>2 DEF Stated
      <4>3. CASE ~blk.atTop
        <5>1. (\E e \in blk'.explicit : d = <<e[1], e[2], blk.feature, e[3]>>)
              <=> (\E e \in blk.explicit : d = <<e[1], e[2], blk.feature, e[3]>>) \/ d = Where(st)
          <6> DEFINE new == <<blk.script, blk.language, k>>
          <6>1. blk'.explicit = blk.explicit \cup {new}
            BY <4>1, <4>3
          <6>2. <<new[1], new[2], blk.feature, new[3]>> = Where(st)
            BY <2>1
          <6> HIDE DEF new
          <6> QED
            BY <6>1, <6>2
        <5> QED
          BY <1>3, <1>5, <1>7, <4>1, <4>3, <5>1 DEF Stated
      <4> QED
        BY <4>2, <4>3
    <3> QED
      BY <1>0, <3>1, <3>2
  <2>4. "langSysMode" \in fFlags' <=> blk.atTop
    BY <1>1, <1>2, <1>7, <2>0 DEF BlockScope
  \* the lookups to register under the other language systems
  <2>5. ASSUME NEW x
        PROVE  x \in blk'.top <=> \E i \in 1 .. Len(lookup') : BaseLab(lookup'[i].label) = x
    <3>1. x \in blk.top <=> \E i \in 1 .. Len(lookup) : BaseLab(lookup[i].label) = x
      BY <2>0 DEF Recorded
    <3>2. CASE ~blk.atTop
      <4>1. lookup' = lookup /\ blk'.top = blk.top
        BY <1>0, <1>2, <1>7, <2>4, <3>2, AddsBlock
      <4> QED
        BY <3>1, <4>1
    <3>3. CASE blk.atTop /\ ~StartsRun(st)
      <4>1. lookup' = lookup /\ prev.label = st.label /\ prev.tbl # UNDEF
        BY <1>0, <1>2, <3>3 DEF StartsRun, InRun
      <4>2. k \in blk.top
        BY <2>0, <3>3, <4>1 DEF Defaults
      <4>3. blk'.top = blk.top
        BY <1>0, <1>7, <3>3, <4>2, AddsBlock
      <4> QED
        BY <3>1, <4>1, <4>3
    <3>4. CASE blk.atTop /\ StartsRun(st)
      <4> DEFINE info == [tbl |-> st.tbl, lkpType |-> st.lkpType,
                          lkpFlag |-> st.lkpFlag, label |-> st.label]
      <4>1. lookup' = Append(lookup, info) /\ info.label = st.label
        BY <1>2, <2>4, <3>4
      <4>2. info \in LookupInfoType
        BY <1>0 DEF StateType, LookupInfoType
      <4> HIDE DEF info
      <4>3. /\ Len(lookup') = Len(lookup) + 1 /\ Len(lookup) \in Nat
            /\ \A i \in 1 .. Len(lookup) : lookup'[i] = lookup[i]
            /\ lookup'[Len(lookup) + 1] = info
        BY <1>0, <4>1, <4>2, AppendProperties, LenProperties
      <4>4. pc = "stmt"
        <5>1. pc # "include"
          BY <2>0, <3>4 DEF BlockScope, CtxInv, InclInv, Going
        <5> QED
          BY <1>0, <5>1
      <4>5. blk'.top = blk.top \cup {k}
        BY <1>0, <1>7, <3>4, <4>4, AddsBlock
      <4>6. (\E i \in 1 .. Len(lookup') : BaseLab(lookup'[i].label) = x)
            <=> (\E i \in 1 .. Len(lookup) : BaseLab(lookup[i].label) = x) \/ x = k
        BY <4>1, <4>3
      <4> QED
        BY <3>1, <4>5, <4>6
    <3> QED
      BY <3>2, <3>3, <3>4
  <2>6. ASSUME NEW ls \in DOMAIN langSysMap' PROVE langSysMap'[ls] <=> ls \in blk'.excl
    BY <1>0, <1>3, <1>5, <1>7, <2>0 DEF Recorded
  <2>7. Recorded'
    <3>1. pc' # "register" /\ pc # "register"
      BY <1>0, <1>3
    <3>2. \A d : Fresh(layout', sealed', d) \/ Opened(d)' \/ Todo(d)' <=> Stated(d)'
      BY <2>0, <2>2, <2>3, <3>1 DEF Recorded
    <3> QED
      BY <2>5, <2>6, <3>1, <3>2 DEF Recorded
  <2> QED
    BY <1>0, <1>2, <1>3, <1>4, <1>5, <1>7, <2>7 DEF RecordInv
<1> QED
  BY <1>6, <1>7

\* While includeDFLT runs, its references leave DFLTLkps alone.
LEMMA AddsIncluding ==
    ASSUME CtxInv, Going, ScopeInv, NEW st, NEW named, NEW rules, Adds(st, named, rules),
           pc = "include"
    PROVE  DFLTLkps' = DFLTLkps /\ curr.language # "dflt"
<1>0. /\ TypeOK /\ iter \in Nat /\ iter < iterEnd
      /\ DFLTLkps # <<>> => prev.feature = curr.feature /\ prev.script = curr.script
  BY DEF CtxInv, IInv, TypeOK, Adds, DefaultsOfScript
<1>1. curr.language # "dflt"
  BY <1>0 DEF CtxInv, InclInv, Going
<1>2. st.script = curr.script /\ st.language = curr.language /\ st.feature = curr.feature
  BY <1>0, AddsWhere DEF Adds
<1>3. ~Accumulates(st, named)
  BY <1>1, <1>2 DEF Accumulates
<1>4. DFLTLkps' = IF st.feature = prev.feature /\ st.script = prev.script THEN DFLTLkps ELSE <<>>
  BY <1>3 DEF Adds, PrepRule
<1> QED
  BY <1>0, <1>1, <1>2, <1>4

\* A rule or reference keeps the block and FeatCtx side by side.
LEMMA AddsStep ==
    ASSUME CtxInv, Going, SideInv, DefaultFirst,
           NEW st, NEW named, NEW rules, Adds(st, named, rules)
    PROVE  ScopeInv' /\ DefaultInv' /\ RecordInv'
<1>1. TypeOK /\ HistInv /\ ScopeInv /\ DefaultInv /\ RecordInv
  BY DEF CtxInv, IInv, SideInv
<1>2. pc = "include" => DFLTLkps' = DFLTLkps /\ curr.language # "dflt"
  BY <1>1, AddsIncluding
<1>3. ScopeInv' /\ RecordInv'
  BY <1>1, <1>2, AddsScope, AddsRecord
<1>4. blk.open => Defaults'
  BY <1>1, <1>2, AddsDefaults
<1>5. blk'.open = blk.open
  BY <1>1, AddsBlock
<1> QED
  BY <1>3, <1>4, <1>5 DEF DefaultInv

-----------------------------------------------------------------------------
(* The other statements *)

\* A step that leaves the block, the tables and the scope alone
Quiet ==
    /\ UNCHANGED <<prev, layout, blk, sealed, feature, lookup, scopeVars, DFLTLkps, regTodo, regPos>>
    /\ curr'.script = curr.script /\ curr'.language = curr.language
    /\ curr'.feature = curr.feature
    /\ pc' = "register" <=> pc = "register"
    /\ pc' = "include" => pc = "include"
    /\ nest' = "file" <=> nest = "file"
    /\ nest' = "alone" <=> nest = "alone"
    /\ nest' \in {"feature", "block"} <=> nest \in {"feature", "block"}
    /\ nest # "file" => UNCHANGED <<gFlags, langSysMap>> /\ \A d : Todo(d)' <=> Todo(d)

\* It keeps the block and FeatCtx side by side.
LEMMA QuietStep ==
    ASSUME Going, SideInv, Quiet, pc = "register" => nest # "file"
    PROVE  ScopeInv' /\ DefaultInv' /\ RecordInv'
<1>1. HistInv /\ ScopeInv /\ DefaultInv /\ RecordInv
  BY DEF SideInv
<1>2. blk.open <=> nest \in {"feature", "block"}
  BY <1>1 DEF ScopeInv
<1>3. ASSUME blk.open PROVE BlockScope' /\ Defaults' /\ Recorded'
  <2>1. UNCHANGED <<gFlags, langSysMap>> /\ \A d : Todo(d)' <=> Todo(d)
    BY <1>2, <1>3 DEF Quiet
  <2>2. BlockScope /\ Defaults /\ Recorded
    BY <1>1, <1>3 DEF ScopeInv, DefaultInv, RecordInv
  <2>3. First' = First
    BY <2>1 DEF First
  <2>4. BlockScope'
    BY <2>1, <2>2, <2>3 DEF Quiet, BlockScope
  <2>5. Defaults'
    BY <2>2 DEF Quiet, Defaults
  <2>6. \A d : /\ Opened(d)' <=> Opened(d)
               /\ Stated(d)' <=> Stated(d)
               /\ Done(d)' <=> Done(d)
               /\ Fresh(layout', sealed', d) <=> Fresh(layout, sealed, d)
    BY <2>1, <2>3 DEF Quiet, Opened, Stated, Done
  <2>7. Recorded'
    BY <2>1, <2>2, <2>6 DEF Quiet, Recorded
  <2> QED
    BY <2>4, <2>5, <2>7
<1>4. ScopeInv'
  <2>1. blk.open => BlockScope'
    BY <1>3
  <2>2. /\ blk.open <=> nest \in {"feature", "block"}
        /\ curr.feature \in feature \cup {UNDEF} /\ prev.feature \in feature \cup {UNDEF}
        /\ nest = "file" \/ curr.feature = "aalt" => prev.tbl = UNDEF
        /\ nest = "alone" => /\ curr.feature = STAND_ALONE
                             /\ prev.tbl # UNDEF => prev.feature = STAND_ALONE
                             /\ "seenScriptLang" \in fFlags /\ "langSysMode" \notin fFlags
        /\ pc = "include" => curr.feature \notin Restricted
    BY <1>1 DEF ScopeInv
  <2> QED
    BY <2>1, <2>2 DEF ScopeInv, Quiet
<1>5. DefaultInv'
  BY <1>3 DEF DefaultInv, Quiet
<1>6. RecordInv'
  <2>1. blk.open => Recorded'
    BY <1>3
  <2>2. /\ pc # "register" => OpenAs(layout, prev)
        /\ ~blk.open => \A d : Fresh(layout, sealed, d) => d[3] = STAND_ALONE /\ nest # "file"
        /\ pc = "register" /\ regTodo # {} =>
               regPos <= Len(lookup) + 1 /\ (langSysMap[FirstOf(regTodo)] => regPos = 1)
    BY <1>1 DEF RecordInv
  <2> QED
    BY <2>1, <2>2 DEF RecordInv, Quiet
<1> QED
  BY <1>4, <1>5, <1>6

\* The beginning of a feature opens the block.
LEMMA StartFeatureStep ==
    ASSUME "reopen" \notin Forms, CtxInv, Going, SideInv, NEW f \in Features, StartFeature(f),
           sealed' = sealed, blk' = Abs!NewBlock(f, FirstOf(DOMAIN langSysMap'))
    PROVE  ScopeInv' /\ DefaultInv' /\ RecordInv'
<1>0. /\ TypeOK /\ ExclInv /\ HistInv /\ ScopeInv /\ DefaultInv /\ RecordInv
      /\ curr \in StateType /\ prev \in StateType
  BY DEF CtxInv, IInv, TypeOK, SideInv
<1>1. /\ EnterFeature(f) /\ f \notin feature /\ nest = "file" /\ pc = "stmt" /\ pc' = "stmt"
      /\ nest' = "feature" /\ fFlags' = {} /\ script' = {First'[1]}
      /\ curr' = [curr EXCEPT !.feature = f, !.script = First'[1],
                              !.language = First'[2], !.lkpFlag = 0]
      /\ prev' = prev /\ layout' = layout
  BY DEF StartFeature, Ready, First
<1>2. /\ lookup' = <<>> /\ DFLTLkps' = <<>> /\ include_dflt' = TRUE
      /\ DOMAIN langSysMap' \subseteq LangSys /\ DOMAIN langSysMap' # {}
      /\ feature' = feature \cup {f}
      /\ "seenLangSys" \in gFlags'
      /\ \A ls \in DOMAIN langSysMap' : ~langSysMap'[ls]
  <2>1. f \in Features \cup {STAND_ALONE}
    OBVIOUS
  <2>2. /\ lookup' = <<>> /\ DFLTLkps' = <<>> /\ include_dflt' = TRUE
        /\ DOMAIN langSysMap' \subseteq LangSys /\ DOMAIN langSysMap' # {}
    BY <1>0, <1>1, <2>1, EnterFeatureType
  <2>3. feature' = feature \cup {f} /\ "seenLangSys" \in gFlags'
    BY <1>0, <1>1 DEF EnterFeature, HistInv
  <2>4. NoneExcluded
    BY <1>0, <1>1 DEF ExclInv
  <2>5. \A ls \in DOMAIN langSysMap' : ~langSysMap'[ls]
    BY <1>1, <2>4 DEF EnterFeature, NoneExcluded
  <2> QED
    BY <2>2, <2>3, <2>5
<1>3. First' \in LangSys
  BY <1>2, FirstOfMember DEF First
<1>4. /\ curr'.feature = f /\ curr'.script = First'[1] /\ curr'.language = First'[2]
  BY <1>0, <1>1 DEF StateType
<1>5. /\ blk'.open = TRUE /\ blk'.feature = f /\ blk'.script = First'[1]
      /\ blk'.language = First'[2] /\ blk'.atTop = TRUE
      /\ blk'.top = {} /\ blk'.deflt = {} /\ blk'.explicit = {} /\ blk'.excl = {}
  <2>1. PICK ls \in LangSys : ls = First' /\ blk' = Abs!NewBlock(f, ls)
    BY <1>3 DEF First
  <2> DEFINE b == Abs!NewBlock(f, ls)
  <2>2. /\ b \in BlockType
        /\ b.feature = f /\ b.script = ls[1] /\ b.language = ls[2] /\ b.atTop = TRUE
        /\ b.top = {} /\ b.deflt = {} /\ b.explicit = {} /\ b.excl = {}
    BY NewBlockFields
  <2> HIDE DEF b
  <2>3. b.open = TRUE
    BY <2>2 DEF BlockType
  <2>4. blk' = b
    BY <2>1 DEF b
  <2> QED
    BY <2>1, <2>2, <2>3, <2>4
<1>6. prev.tbl = UNDEF /\ prev.feature # f /\ f # UNDEF /\ f # STAND_ALONE
  BY <1>0, <1>1, FeatAssumption DEF ScopeInv
<1>7. ScopeInv'
  <2>1. BlockScope'
    BY <1>1, <1>2, <1>4, <1>5, <1>6 DEF BlockScope
  <2> QED
    BY <1>0, <1>1, <1>2, <1>4, <1>5, <1>6, <2>1 DEF ScopeInv, Going
<1>8. DefaultInv'
  <2>1. Len(DFLTLkps') = 0
    BY <1>2
  <2>2. Defaults'
    BY <1>1, <1>5, <1>6, <2>1 DEF Defaults
  <2> QED
    BY <2>2 DEF DefaultInv
<1>9. RecordInv'
  <2>1. \A d : ~Fresh(layout', sealed', d)
    BY <1>0, <1>1 DEF RecordInv, ScopeInv
  <2>2. \A d : ~Opened(d)' /\ ~Todo(d)' /\ ~Stated(d)'
    BY <1>1, <1>5, <1>6 DEF Opened, Todo, Stated
  <2>3. Len(lookup') = 0
    BY <1>2
  <2>4. Recorded'
    BY <1>1, <1>2, <1>5, <2>1, <2>2, <2>3 DEF Recorded
  <2> QED
    BY <1>1, <1>5, <1>6, <2>4 DEF RecordInv, OpenAs
<1> QED
  BY <1>7, <1>8, <1>9

\* These actions are of that kind.
LEMMA QuietActions ==
    ASSUME CtxInv, Going, Going', UNCHANGED <<blk, sealed>>,
           \/ UNCHANGED vars \/ Finished \/ EndOfFile \/ IncludeDone \/ IncludeInvalidated
           \/ \E s \in Scripts, l \in Langs : LangSystem(s, l)
           \/ EndLookup /\ pc' = "stmt"
           \/ \E n \in Names : StartLookup(n)
           \/ \E v \in Flags : LookupFlagStmt(v)
           \/ UNCHANGED <<pc, hadError, nest, ruleCnt, loopVars, globalVars, scopeVars,
                          labelVars, runVars>>
    PROVE  Quiet /\ (pc = "register" => nest # "file")
<1>0. TypeOK /\ ExclInv /\ curr \in StateType
  BY DEF CtxInv, IInv, TypeOK
<1>1. pc = "register" => nest # "file"
  BY <1>0 DEF ExclInv
<1>2. CASE UNCHANGED vars \/ Finished
           \/ UNCHANGED <<pc, hadError, nest, ruleCnt, loopVars, globalVars, scopeVars,
                          labelVars, runVars>>
  <2>1. UNCHANGED <<pc, nest, curr, prev, layout, feature, lookup, scopeVars, DFLTLkps,
                    loopVars, gFlags, langSysMap>>
    BY <1>2 DEF vars, Finished
  <2> QED
    BY <1>1, <2>1 DEF Quiet, Todo
<1>3. CASE IncludeInvalidated
  BY <1>3 DEF IncludeInvalidated, Fatal, Going
<1>4. CASE EndOfFile
  BY <1>4 DEF EndOfFile, Quiet
<1>5. CASE IncludeDone
  <2>1. iter \in Nat /\ iter + 1 .. iterEnd = {}
    BY <1>0, <1>5 DEF IncludeDone, TypeOK
  <2>2. \A d : ~Todo(d) /\ ~Todo(d)'
    BY <1>5, <2>1 DEF IncludeDone, Todo
  <2> QED
    BY <1>1, <1>5, <2>2 DEF IncludeDone, Quiet
<1>6. CASE \E s \in Scripts, l \in Langs : LangSystem(s, l)
  BY <1>6 DEF LangSystem, Ready, Quiet
<1>7. CASE EndLookup /\ pc' = "stmt"
  <2>1. /\ pc = "stmt" /\ nest \in {"block", "alone"}
        /\ \/ nest' = "feature" /\ curr.feature \in Restricted /\ UNCHANGED labelVars
           \/ nest' = "feature" /\ ~namedLkp[BaseLab(currNamedLkp) + 1].isTopLevel
        /\ UNCHANGED <<stmts, ruleCnt, loopVars, globalVars, scopeVars, runVars>>
    BY <1>7 DEF EndLookup, InBlock, BeginRegister, Fatal
  <2>2. nest = "block"
    <3>1. BlockInv /\ InBlock
      BY <2>1 DEF CtxInv, NamedInv, Going, InBlock
    <3>2. Len(namedLkp) \in 1 .. Len(namedLkp) /\ Len(namedLkp) \in Nat
      <4>1. namedLkp \in Seq(NamedLkpType) /\ namedLkp # <<>>
        BY <1>0, <3>1 DEF TypeOK, BlockInv
      <4> QED
        BY <4>1, LenProperties, EmptySeq
    <3>3. BaseLab(currNamedLkp) + 1 = Len(namedLkp)
      BY <1>0, <3>1, <3>2, NamedNotUndef DEF CtxInv, BlockInv
    <3> QED
      BY <2>1, <3>1, <3>3 DEF BlockInv
  <2> QED
    BY <1>7, <2>1, <2>2 DEF Quiet, Todo
<1>8. CASE \E n \in Names : StartLookup(n)
  <2>1. /\ pc = "stmt" /\ pc' = "stmt" /\ nest = "feature" /\ nest' = "block"
        /\ UNCHANGED <<loopVars, globalVars, scopeVars, runVars>>
    BY <1>8 DEF StartLookup, Ready, Going
  <2> QED
    BY <2>1 DEF Quiet, Todo
<1>9. ASSUME NEW v \in Flags, LookupFlagStmt(v) PROVE Quiet
  <2>1. /\ pc = "stmt" /\ pc' = "stmt" /\ nest' = nest
        /\ curr' = [curr EXCEPT !.lkpFlag = v]
        /\ UNCHANGED <<loopVars, globalVars, scopeVars, prev, DFLTLkps, lookup, layout>>
    BY <1>9 DEF LookupFlagStmt, Ready
  <2>2. /\ curr'.script = curr.script /\ curr'.language = curr.language
        /\ curr'.feature = curr.feature
    BY <1>0, <2>1 DEF StateType
  <2> QED
    BY <2>1, <2>2 DEF Quiet, Todo
<1> QED
  BY <1>1, <1>2, <1>3, <1>4, <1>5, <1>6, <1>7, <1>8, <1>9

\* The beginning of a lookup block outside of features opens no block of FeatLangSys.
LEMMA StartStandAloneStep ==
    ASSUME CtxInv, Going, Going', SideInv, NEW n \in Names, StartStandAlone(n),
           UNCHANGED <<blk, sealed>>
    PROVE  ScopeInv' /\ DefaultInv' /\ RecordInv'
<1>0. /\ TypeOK /\ ScopeInv /\ RecordInv /\ curr \in StateType
  BY DEF CtxInv, IInv, TypeOK, SideInv
<1>1. /\ EnterFeature(STAND_ALONE) /\ nest = "file" /\ pc = "stmt" /\ pc' = "stmt"
      /\ nest' = "alone" /\ fFlags' = {"seenScriptLang"}
      /\ curr' = [curr EXCEPT !.feature = STAND_ALONE, !.script = STAND_ALONE,
                              !.language = "dflt", !.lkpFlag = 0]
      /\ prev' = prev /\ layout' = layout
  BY DEF StartStandAlone, Ready, Going, Fatal
<1>2. curr'.feature = STAND_ALONE /\ STAND_ALONE \in feature' /\ feature \subseteq feature'
  BY <1>0, <1>1 DEF StateType, EnterFeature
<1>3. ~blk.open /\ ~blk'.open /\ prev.tbl = UNDEF /\ \A d : ~Fresh(layout, sealed, d)
  BY <1>0, <1>1 DEF ScopeInv, RecordInv
<1>4. ScopeInv'
  BY <1>0, <1>1, <1>2, <1>3 DEF ScopeInv
<1>5. DefaultInv' /\ RecordInv'
  BY <1>1, <1>3 DEF DefaultInv, RecordInv, OpenAs
<1> QED
  BY <1>4, <1>5

\* What a script or language statement needs of the state before it
LEMMA ScopeStatement ==
    ASSUME Forms = {}, CtxInv, Going, SideInv, nest # "file", pc = "stmt",
           NEW again, AllowedScope(again)
    PROVE  /\ nest = "feature" /\ blk.open /\ blk \in BlockType /\ BlockScope /\ Defaults
           /\ Recorded /\ OpenAs(layout, prev) /\ curr \in StateType /\ ~again
           /\ curr.feature \in feature \cup {UNDEF} /\ prev.feature \in feature \cup {UNDEF}
           /\ curr.feature = "aalt" => prev.tbl = UNDEF
<1>0. /\ TypeOK /\ curr \in StateType /\ nest \in {"file", "feature", "block", "alone"}
      /\ HistInv /\ ScopeInv /\ DefaultInv /\ RecordInv
  BY DEF CtxInv, IInv, TypeOK, SideInv
<1>1. nest = "feature" /\ ~again
  BY <1>0 DEF AllowedScope, InBlock
<1>2. blk.open
  BY <1>0, <1>1 DEF ScopeInv
<1>3. blk \in BlockType
  BY <1>0, <1>2 DEF HistInv, Abs!NoBlock
<1>4. BlockScope /\ Defaults /\ Recorded /\ OpenAs(layout, prev)
  BY <1>0, <1>2 DEF ScopeInv, DefaultInv, RecordInv
<1>5. /\ curr.feature \in feature \cup {UNDEF} /\ prev.feature \in feature \cup {UNDEF}
      /\ curr.feature = "aalt" => prev.tbl = UNDEF
  BY <1>0 DEF ScopeInv
<1> QED
  BY <1>0, <1>1, <1>2, <1>3, <1>4, <1>5

\* A script statement moves both to the default language of the script.
LEMMA ScriptStmtStep ==
    ASSUME Forms = {}, CtxInv, Going, Going', SideInv, NEW s \in Scripts, ScriptStmt(s),
           UNCHANGED sealed, blk' = IF blk.open THEN Abs!AfterScript(blk, s) ELSE blk
    PROVE  ScopeInv' /\ DefaultInv' /\ RecordInv'
<1> DEFINE same == s = curr.script /\ curr.language = "dflt"
           known == s # curr.script /\ s \in script
           again == s = curr.script /\ prev.tbl # UNDEF
<1>1. /\ pc = "stmt" /\ pc' = "stmt" /\ nest # "file" /\ nest' = nest /\ AllowedScope(again)
      /\ UNCHANGED <<gFlags, langSysMap, feature, prev, lookup, layout, regTodo, regPos>>
  BY DEF ScriptStmt, Ready
<1>2. /\ nest = "feature" /\ blk.open /\ blk \in BlockType /\ BlockScope /\ Defaults
      /\ Recorded /\ OpenAs(layout, prev) /\ curr \in StateType /\ ~again
      /\ curr.feature \in feature \cup {UNDEF} /\ prev.feature \in feature \cup {UNDEF}
      /\ curr.feature = "aalt" => prev.tbl = UNDEF
  BY <1>1, ScopeStatement
<1>3. /\ ~known /\ curr.feature \notin Restricted
      /\ fFlags' = IF same THEN fFlags \cup {"seenScriptLang"} ELSE {"seenScriptLang"}
      /\ script' = IF same THEN script ELSE script \cup {s}
      /\ DFLTLkps' = IF s # curr.script THEN <<>> ELSE DFLTLkps
      /\ include_dflt' = IF same THEN include_dflt ELSE TRUE
      /\ curr' = IF same THEN curr
                 ELSE [curr EXCEPT !.script = IF known THEN @ ELSE s,
                                   !.language = "dflt", !.lkpFlag = 0]
  BY DEF ScriptStmt, Going
<1>4. curr'.script = s /\ curr'.language = "dflt" /\ curr'.feature = curr.feature
  <2>1. curr' = IF same THEN curr
                ELSE [curr EXCEPT !.script = s, !.language = "dflt", !.lkpFlag = 0]
    BY <1>3
  <2> QED
    BY <1>2, <2>1 DEF StateType
<1>5. /\ blk'.open /\ blk'.feature = blk.feature /\ blk'.script = s /\ blk'.language = "dflt"
      /\ blk'.atTop = FALSE
      /\ blk'.top = blk.top /\ blk'.explicit = blk.explicit /\ blk'.excl = blk.excl
      /\ blk'.deflt = IF s = blk.script THEN blk.deflt ELSE {}
  <2> DEFINE b == Abs!AfterScript(blk, s)
  <2>1. /\ b \in BlockType
        /\ b.feature = blk.feature /\ b.script = s /\ b.language = "dflt" /\ b.atTop = FALSE
        /\ b.top = blk.top /\ b.explicit = blk.explicit /\ b.excl = blk.excl
        /\ b.deflt = IF s = blk.script THEN blk.deflt ELSE {}
    BY <1>2, AfterScriptFields
  <2>2. blk' = b
    BY <1>2
  <2> HIDE DEF b
  <2>3. b.open
    BY <2>1 DEF BlockType
  <2> QED
    BY <2>1, <2>2, <2>3
<1>6. First' = First
  BY <1>1 DEF First
<1>7. ScopeInv'
  <2>1. same => prev.tbl = UNDEF
    BY <1>2
  <2>2. "seenScriptLang" \in fFlags' /\ "langSysMode" \notin fFlags'
    BY <1>2, <1>3, <2>1 DEF BlockScope
  <2>3. /\ curr'.script \in script' /\ (prev.tbl # UNDEF => prev.script \in script')
        /\ include_dflt'
    BY <1>2, <1>3, <1>4 DEF BlockScope
  <2>4. BlockScope'
    BY <1>1, <1>2, <1>4, <1>5, <2>2, <2>3 DEF BlockScope
  <2> QED
    BY <1>1, <1>2, <1>4, <1>5, <2>4 DEF ScopeInv
<1>8. DefaultInv'
  <2>1. ~(prev.tbl # UNDEF /\ prev.script = s)
    <3> SUFFICES ASSUME prev.tbl # UNDEF, prev.script = s PROVE FALSE
      OBVIOUS
    <3>1. s \in script
      BY <1>2 DEF BlockScope
    <3> QED
      BY <1>2, <1>3, <3>1
  <2>2. \A k : k \in blk'.deflt <=> \E i \in 1 .. Len(DFLTLkps') : BaseLab(DFLTLkps'[i].label) = k
    <3>1. blk.script = curr.script
      BY <1>2 DEF BlockScope
    <3>2. CASE s = curr.script
      BY <1>2, <1>3, <1>5, <3>1, <3>2 DEF Defaults
    <3>3. CASE s # curr.script
      <4>1. blk'.deflt = {} /\ DFLTLkps' = <<>>
        BY <1>3, <1>5, <3>1, <3>3
      <4>2. Len(DFLTLkps') = 0
        BY <4>1
      <4> QED
        BY <4>1, <4>2
    <3> QED
      BY <3>2, <3>3
  <2>3. prev.tbl = UNDEF => blk'.deflt = {} /\ blk'.top = {} /\ blk'.explicit = {}
    BY <1>2, <1>5 DEF Defaults
  <2>4. Defaults'
    BY <1>1, <1>4, <1>5, <2>1, <2>2, <2>3 DEF Defaults
  <2> QED
    BY <2>4 DEF DefaultInv
<1>9. RecordInv'
  <2>1. \A d : /\ ~Todo(d) /\ ~Todo(d)' /\ (Opened(d)' <=> Opened(d))
               /\ (Stated(d)' <=> Stated(d))
               /\ (Fresh(layout', sealed', d) <=> Fresh(layout, sealed, d))
    BY <1>1, <1>5, <1>6 DEF Todo, Opened, Stated
  <2>2. Recorded'
    BY <1>1, <1>2, <1>5, <2>1 DEF Recorded
  <2> QED
    BY <1>1, <1>2, <1>5, <2>2 DEF RecordInv
<1> QED
  BY <1>7, <1>8, <1>9

\* A language statement moves both to the language; includeDFLT starts, or the language is
\* excluded from what came before the first statement.
LEMMA LanguageStmtStep ==
    ASSUME Forms = {}, CtxInv, Going, Going', SideInv, NEW l \in Langs, NEW incl \in BOOLEAN,
           LanguageStmt(l, incl),
           UNCHANGED sealed, blk' = IF blk.open THEN Abs!AfterLanguage(blk, l, incl) ELSE blk
    PROVE  ScopeInv' /\ DefaultInv' /\ RecordInv'
<1> DEFINE same == l = curr.language
           changes == ~same /\ l \notin language
           again == same /\ DFLTLkps # <<>>
           ls == <<curr'.script, curr'.language>>
<1>0. TypeOK /\ DFLTLkps \in Seq(StateType) /\ langSysMap \in [DOMAIN langSysMap -> BOOLEAN]
  BY DEF CtxInv, IInv, TypeOK
<1>1. /\ pc = "stmt" /\ nest # "file" /\ nest' = nest /\ AllowedScope(again)
      /\ UNCHANGED <<gFlags, feature, prev, DFLTLkps, lookup, layout, regTodo, regPos>>
  BY DEF LanguageStmt, Ready
<1>2. /\ nest = "feature" /\ blk.open /\ blk \in BlockType /\ BlockScope /\ Defaults
      /\ Recorded /\ OpenAs(layout, prev) /\ curr \in StateType /\ ~again
      /\ curr.feature \in feature \cup {UNDEF} /\ prev.feature \in feature \cup {UNDEF}
      /\ curr.feature = "aalt" => prev.tbl = UNDEF
  BY <1>1, ScopeStatement
<1>3. /\ curr.feature \notin Restricted
      /\ IF same THEN incl = include_dflt ELSE l # "dflt" /\ changes
      /\ fFlags' = (IF l = "dflt" THEN fFlags ELSE fFlags \ {"langSysMode"}) \cup {"seenScriptLang"}
      /\ script' = script
      /\ curr' = IF changes THEN [curr EXCEPT !.language = l] ELSE curr
      /\ include_dflt' = IF same THEN include_dflt ELSE incl
      /\ IF incl
         THEN pc' = "include" /\ iter' = 0 /\ iterEnd' = Len(DFLTLkps) /\ langSysMap' = langSysMap
         ELSE /\ langSysMap' = IF ls \in DOMAIN langSysMap
                               THEN [langSysMap EXCEPT ![ls] = TRUE] ELSE langSysMap
              /\ pc' = pc
  BY DEF LanguageStmt, Going
<1>4. curr'.script = curr.script /\ curr'.language = l /\ curr'.feature = curr.feature
  BY <1>2, <1>3 DEF StateType
<1>5. l = "dflt" => same /\ incl /\ include_dflt
  <2> SUFFICES ASSUME l = "dflt" PROVE same /\ incl /\ include_dflt
    OBVIOUS
  <2>1. same /\ incl = include_dflt
    BY <1>3
  <2> QED
    BY <1>2, <2>1 DEF BlockScope
<1>6. /\ blk'.open /\ blk'.feature = blk.feature /\ blk'.script = blk.script
      /\ blk'.language = l /\ blk'.atTop = FALSE
      /\ blk'.top = blk.top /\ blk'.deflt = blk.deflt
      /\ blk'.explicit = IF incl THEN blk.explicit \cup ({blk.script} \X {l} \X blk.deflt)
                         ELSE blk.explicit
      /\ blk'.excl = IF incl THEN blk.excl ELSE blk.excl \cup {<<blk.script, l>>}
  <2>1. blk \in BlockType /\ incl \in BOOLEAN
    BY <1>2
  <2>2. blk' = Abs!AfterLanguage(blk, l, incl)
    BY <1>2
  <2>3. /\ blk'.open = blk.open /\ blk'.feature = blk.feature /\ blk'.script = blk.script
        /\ blk'.language = l /\ blk'.atTop = FALSE /\ blk'.top = blk.top /\ blk'.deflt = blk.deflt
    BY <2>1, <2>2 DEF Abs!AfterLanguage, BlockType
  <2>4. blk'.explicit = IF incl THEN blk.explicit \cup ({blk.script} \X {l} \X blk.deflt)
                        ELSE blk.explicit
    BY <2>1, <2>2 DEF Abs!AfterLanguage, BlockType
  <2>5. blk'.excl = IF incl THEN blk.excl ELSE blk.excl \cup {<<blk.script, l>>}
    BY <2>1, <2>2 DEF Abs!AfterLanguage, BlockType
  <2> QED
    BY <1>2, <2>3, <2>4, <2>5
<1>7. DOMAIN langSysMap' = DOMAIN langSysMap /\ First' = First
  <2>1. \A x : DOMAIN [langSysMap EXCEPT ![x] = TRUE] = DOMAIN langSysMap
    OBVIOUS
  <2>2. langSysMap' = langSysMap \/ \E x : langSysMap' = [langSysMap EXCEPT ![x] = TRUE]
    BY <1>3
  <2>3. DOMAIN langSysMap' = DOMAIN langSysMap
    BY <2>1, <2>2
  <2> QED
    BY <2>3 DEF First
<1>8. ScopeInv'
  <2>1. same => ~(blk.atTop /\ prev.tbl # UNDEF /\ l = "dflt")
    <3> SUFFICES ASSUME same, blk.atTop, prev.tbl # UNDEF, l = "dflt" PROVE FALSE
      OBVIOUS
    <3>1. prev.script = curr.script /\ curr.language = "dflt"
      BY <1>2 DEF BlockScope
    <3>2. BaseLab(prev.label) \in blk.deflt
      BY <1>2, <3>1 DEF Defaults
    <3>3. PICK i \in 1 .. Len(DFLTLkps) : TRUE
      BY <1>2, <3>2 DEF Defaults
    <3> QED
      BY <1>0, <1>2, <3>3
  <2>2. "seenScriptLang" \in fFlags' /\ "langSysMode" \notin fFlags'
    BY <1>2, <1>3, <1>5, <2>1 DEF BlockScope
  <2>3. curr'.language = "dflt" => include_dflt'
    BY <1>3, <1>4, <1>5
  <2>4. \A e \in blk'.excl : e[2] # "dflt"
    <3>1. \A e \in blk.excl : e[2] # "dflt"
      BY <1>2 DEF BlockScope
    <3>2. ~incl => <<blk.script, l>>[2] # "dflt"
      BY <1>5
    <3> QED
      BY <1>6, <3>1, <3>2
  <2>5. BlockScope'
    BY <1>1, <1>2, <1>3, <1>4, <1>6, <2>2, <2>3, <2>4 DEF BlockScope
  <2> QED
    BY <1>1, <1>2, <1>3, <1>4, <1>6, <2>5 DEF ScopeInv
<1>9. DefaultInv'
  <2>1. prev.tbl = UNDEF => blk'.deflt = {} /\ blk'.top = {} /\ blk'.explicit = {}
    <3> SUFFICES ASSUME prev.tbl = UNDEF
                 PROVE  blk'.deflt = {} /\ blk'.top = {} /\ blk'.explicit = {}
      OBVIOUS
    <3>1. blk.deflt = {} /\ blk.top = {} /\ blk.explicit = {}
      BY <1>2 DEF Defaults
    <3>2. {blk.script} \X {l} \X {} = {}
      OBVIOUS
    <3> QED
      BY <1>6, <3>1, <3>2
  <2>2. curr'.language = "dflt" => curr.language = "dflt"
    BY <1>4, <1>5
  <2>3. Defaults'
    BY <1>1, <1>2, <1>4, <1>6, <2>1, <2>2 DEF Defaults
  <2> QED
    BY <2>3 DEF DefaultInv
<1>10. RecordInv'
  <2>1. \A d : /\ ~Todo(d) /\ (Opened(d)' <=> Opened(d))
               /\ (Fresh(layout', sealed', d) <=> Fresh(layout, sealed, d))
    BY <1>1 DEF Todo, Opened
  <2>2. ASSUME NEW d
        PROVE  (Todo(d)' <=> incl /\ \E k \in blk.deflt : d = <<blk.script, l, blk.feature, k>>)
    <3>1. CASE incl
      <4>1. \A i : i \in iter' + 1 .. iterEnd' <=> i \in 1 .. Len(DFLTLkps)
        BY <1>3, <3>1
      <4>2. Todo(d)' <=> \E i \in 1 .. Len(DFLTLkps) :
                            d = <<curr'.script, curr'.language, curr'.feature,
                                  BaseLab(DFLTLkps[i].label)>>
        BY <1>1, <1>3, <3>1, <4>1 DEF Todo
      <4>3. curr'.script = blk.script /\ curr'.language = l /\ curr'.feature = blk.feature
        BY <1>2, <1>4 DEF BlockScope
      <4> QED
        BY <1>2, <3>1, <4>2, <4>3 DEF Defaults
    <3>2. CASE ~incl
      BY <1>1, <1>3, <3>2 DEF Todo
    <3> QED
      BY <3>1, <3>2
  <2>3. ASSUME NEW d
        PROVE  Stated(d)' <=> \/ Stated(d)
                              \/ incl /\ \E k \in blk.deflt : d = <<blk.script, l, blk.feature, k>>
    <3>1. CASE ~incl
      BY <1>6, <1>7, <3>1 DEF Stated
    <3>2. CASE incl
      <4> DEFINE new == {blk.script} \X {l} \X blk.deflt
      <4>1. (\E e \in new : d = <<e[1], e[2], blk.feature, e[3]>>)
            <=> \E k \in blk.deflt : d = <<blk.script, l, blk.feature, k>>
        <5>1. ASSUME NEW e \in new, d = <<e[1], e[2], blk.feature, e[3]>>
              PROVE  \E k \in blk.deflt : d = <<blk.script, l, blk.feature, k>>
          <6>1. e[1] = blk.script /\ e[2] = l /\ e[3] \in blk.deflt
            OBVIOUS
          <6> QED
            BY <5>1, <6>1
        <5>2. ASSUME NEW k \in blk.deflt, d = <<blk.script, l, blk.feature, k>>
              PROVE  \E e \in new : d = <<e[1], e[2], blk.feature, e[3]>>
          <6> DEFINE e == <<blk.script, l, k>>
          <6>1. e \in new /\ e[1] = blk.script /\ e[2] = l /\ e[3] = k
            OBVIOUS
          <6> HIDE DEF e, new
          <6> QED
            BY <5>2, <6>1
        <5> QED
          BY <5>1, <5>2
      <4>2. blk'.explicit = blk.explicit \cup new
        BY <1>6, <3>2
      <4> HIDE DEF new
      <4>3. Stated(d) <=> \/ \E k \in blk.top : d = <<First[1], First[2], blk.feature, k>>
                          \/ \E e \in blk.explicit : d = <<e[1], e[2], blk.feature, e[3]>>
        BY DEF Stated
      <4>4. Stated(d)' <=> \/ \E k \in blk.top : d = <<First[1], First[2], blk.feature, k>>
                           \/ \E e \in blk'.explicit : d = <<e[1], e[2], blk.feature, e[3]>>
        BY <1>6, <1>7 DEF Stated
      <4>5. (\E e \in blk'.explicit : d = <<e[1], e[2], blk.feature, e[3]>>)
            <=> \/ \E e \in blk.explicit : d = <<e[1], e[2], blk.feature, e[3]>>
                \/ \E e \in new : d = <<e[1], e[2], blk.feature, e[3]>>
        BY <4>2
      <4> QED
        BY <3>2, <4>1, <4>3, <4>4, <4>5
    <3> QED
      BY <3>1, <3>2
  <2>4. pc' # "register" /\ pc # "register"
    BY <1>1, <1>3
  <2>5. ASSUME NEW x \in DOMAIN langSysMap' PROVE langSysMap'[x] <=> x \in blk'.excl
    <3>1. x \in DOMAIN langSysMap /\ (langSysMap[x] <=> x \in blk.excl)
      BY <1>2, <1>7, <2>4 DEF Recorded
    <3>2. CASE incl
      BY <1>3, <1>6, <3>1, <3>2
    <3>3. CASE ~incl
      <4>1. ls = <<blk.script, l>>
        BY <1>2, <1>4 DEF BlockScope
      <4>2. langSysMap' = IF ls \in DOMAIN langSysMap
                          THEN [langSysMap EXCEPT ![ls] = TRUE] ELSE langSysMap
        BY <1>3, <3>3
      <4> HIDE DEF ls
      <4>3. \A y : [langSysMap EXCEPT ![y] = TRUE][x] = IF x = y THEN TRUE ELSE langSysMap[x]
        BY <3>1
      <4>4. langSysMap'[x] = IF x = ls THEN TRUE ELSE langSysMap[x]
        BY <3>1, <4>2, <4>3
      <4> QED
        BY <1>6, <3>1, <3>3, <4>1, <4>4
    <3> QED
      BY <3>2, <3>3
  <2>6. \A k : k \in blk'.top <=> \E i \in 1 .. Len(lookup') : BaseLab(lookup'[i].label) = k
    BY <1>1, <1>2, <1>6 DEF Recorded
  <2>7. Recorded'
    BY <1>2, <2>1, <2>2, <2>3, <2>4, <2>5, <2>6 DEF Recorded
  <2> QED
    BY <1>1, <1>2, <1>6, <2>4, <2>7 DEF RecordInv
<1> QED
  BY <1>8, <1>9, <1>10

-----------------------------------------------------------------------------
(* The end of a block *)

\* The last lookup of a block is ended, and its registration begins.
LEMMA BeginRegisterStep ==
    ASSUME CtxInv, Going, SideInv, BeginRegister, pc = "stmt", prev.tbl # UNDEF,
           layout' = CloseRun(prev), nest \in {"feature", "block", "alone"},
           UNCHANGED <<blk, sealed>>
    PROVE  ScopeInv' /\ DefaultInv' /\ RecordInv'
<1>0. /\ TypeOK /\ prev \in StateType /\ HistInv /\ ScopeInv /\ DefaultInv /\ RecordInv
      /\ ~hadError /\ lookup \in Seq(LookupInfoType)
  BY DEF CtxInv, IInv, TypeOK, SideInv, Going
<1>1. /\ pc' = "register" /\ regTodo' = DOMAIN langSysMap /\ regPos' = 1
      /\ UNCHANGED <<nest, hadError, gFlags, langSysMap, feature, scopeVars, curr, prev,
                     DFLTLkps, lookup>>
  BY DEF BeginRegister
<1>2. \A d : Fresh(layout', sealed', d) <=> Fresh(layout, sealed, d) \/ Opened(d)
  <2>1. SealedIn(layout, sealed) /\ OpenAs(layout, prev)
    BY <1>0 DEF HistInv, RecordInv
  <2>2. \A d : Fresh(CloseRun(prev), sealed, d)
               <=> Fresh(layout, sealed, d) \/ (prev.tbl # UNDEF /\ d = Where(prev))
    BY <1>0, <2>1, CloseFresh
  <2> QED
    BY <2>2 DEF Opened
<1>3. First' = First
  BY <1>1 DEF First
<1>4. ScopeInv' /\ DefaultInv'
  <2>1. blk.open => BlockScope'
    BY <1>0, <1>1, <1>3 DEF ScopeInv, BlockScope
  <2>2. blk.open => Defaults'
    BY <1>0, <1>1 DEF DefaultInv, Defaults
  <2> QED
    BY <1>0, <1>1, <2>1, <2>2 DEF ScopeInv, DefaultInv
<1>5. blk.open => Recorded'
  <2> SUFFICES ASSUME blk.open PROVE Recorded'
    OBVIOUS
  <2>1. Recorded
    BY <1>0 DEF RecordInv
  <2>2. \A d : ~Todo(d)
    BY DEF Todo
  <2>3. \A d : ~Done(d)'
    <3>1. regPos' - 1 = 0 /\ DOMAIN langSysMap' \ regTodo' = {}
      BY <1>1
    <3> QED
      BY <3>1 DEF Done
  <2>4. \A d : Stated(d)' <=> Stated(d)
    BY <1>3 DEF Stated
  <2>5. \A d : Fresh(layout', sealed', d) <=> Stated(d)'
    BY <1>2, <2>1, <2>2, <2>4 DEF Recorded
  <2>6. \A k : k \in blk'.top <=> \E i \in 1 .. Len(lookup') : BaseLab(lookup'[i].label) = k
    BY <1>1, <2>1 DEF Recorded
  <2>7. \A x \in DOMAIN langSysMap' : langSysMap'[x] <=> x \in blk'.excl
    BY <1>1, <2>1 DEF Recorded
  <2> QED
    BY <1>1, <2>3, <2>5, <2>6, <2>7 DEF Recorded
<1>6. ~blk.open => \A d : Fresh(layout', sealed', d) => d[3] = STAND_ALONE
  <2>1. ~blk.open => nest = "alone"
    BY <1>0 DEF ScopeInv
  <2>2. nest = "alone" => prev.feature = STAND_ALONE
    BY <1>0 DEF ScopeInv
  <2>3. nest = "alone" => \A d : Opened(d) => d[3] = STAND_ALONE
    BY <2>2 DEF Opened, Where
  <2> QED
    BY <1>0, <1>2, <2>1, <2>3 DEF RecordInv
<1>7. Len(lookup) \in Nat
  BY <1>0, LenProperties
<1> QED
  BY <1>1, <1>4, <1>5, <1>6, <1>7 DEF RecordInv

\* One lookup is registered under one language system.
LEMMA RegisterLookupStep ==
    ASSUME CtxInv, Going, SideInv, RegisterLookup, UNCHANGED <<blk, sealed>>
    PROVE  ScopeInv' /\ DefaultInv' /\ RecordInv'
<1> DEFINE ls == FirstOf(regTodo)
           lkp == lookup[regPos]
           tbl == RegTable(lkp)
           begun == LookupBegin(layout, tbl, ls[1], ls[2], curr.feature,
                                lkp.lkpType, lkp.lkpFlag, RefLab(lkp.label))
           d0 == <<ls[1], ls[2], curr.feature, BaseLab(lkp.label)>>
<1>0. /\ TypeOK /\ curr \in StateType /\ HistInv /\ ScopeInv /\ DefaultInv /\ RecordInv
      /\ lookup \in Seq(LookupInfoType) /\ layout \in LayoutType /\ hadError = FALSE
      /\ regPos \in Nat \ {0} /\ ExclInv
      /\ nest \in {"file", "feature", "block", "alone"}
  BY DEF CtxInv, IInv, TypeOK, SideInv, Going, LayoutType
<1>1. /\ pc = "register" /\ regTodo # {} /\ ~langSysMap[ls] /\ regPos <= Len(lookup)
      /\ layout' = LookupEnd(begun, tbl, hadError) /\ regPos' = regPos + 1
      /\ UNCHANGED <<pc, hadError, nest, iter, iterEnd, regTodo, gFlags, langSysMap, feature,
                     scopeVars, curr, prev, DFLTLkps, lookup>>
  BY DEF RegisterLookup
<1>2. regPos \in 1 .. Len(lookup) /\ Len(lookup) \in Nat
  BY <1>0, <1>1, LenProperties
<1>3. lkp \in LookupInfoType /\ tbl \in Tables
  BY <1>0, <1>2, ElementOfSeq DEF RegTable, Tables
<1>4. ls[1] \in Scripts /\ ls[2] \in Langs
  <2>1. regTodo \subseteq LangSys
    BY <1>0 DEF TypeOK
  <2>2. FirstOf(regTodo) \in Scripts \X Langs
    BY <1>1, <2>1, FirstOfMember DEF LangSys
  <2> QED
    BY <2>2
<1>5. /\ RefLab(lkp.label) \in Label /\ lkp.lkpType \in LkpTypes /\ lkp.lkpFlag \in Nat
      /\ BaseLab(RefLab(lkp.label)) = BaseLab(lkp.label)
      /\ curr.feature \in Features \cup {UNDEF, STAND_ALONE}
  BY <1>0, <1>3, RefLabProperties DEF LookupInfoType, StateType
<1> HIDE DEF ls, lkp, tbl, d0
<1>6. /\ \A d : Fresh(layout', sealed, d) <=> Fresh(layout, sealed, d) \/ d = d0
      /\ SealedIn(layout', sealed)
  <2>1. begun \in LayoutType
    BY <1>0, <1>3, <1>4, <1>5, LookupBeginType
  <2>2. SameSubs(layout, begun)
    BY <1>0, <1>3, LookupBeginShape DEF SameSubs
  <2>3. Where(begun[tbl].new) = d0
    <3>1. begun[tbl].new = [script |-> ls[1], language |-> ls[2], feature |-> curr.feature,
                            lkpType |-> lkp.lkpType, lkpFlag |-> lkp.lkpFlag,
                            label |-> RefLab(lkp.label), rules |-> {}]
      BY <1>0, <1>3 DEF LookupBegin, LayoutType
    <3>2. /\ begun[tbl].new.script = ls[1] /\ begun[tbl].new.language = ls[2]
          /\ begun[tbl].new.feature = curr.feature /\ begun[tbl].new.label = RefLab(lkp.label)
      BY <3>1
    <3> HIDE DEF begun
    <3> QED
      BY <1>5, <3>2 DEF Where, d0
  <2> HIDE DEF begun
  <2> DEFINE new == begun[tbl].new
  <2>4. Appended(begun, layout', tbl, new) /\ new \in SubtableType
    BY <1>0, <1>1, <1>3, <2>1, LookupEndAppends DEF LayoutType
  <2>5. /\ \A d : Fresh(begun, sealed, d) <=> Fresh(layout, sealed, d)
        /\ SealedIn(begun, sealed)
    BY <1>0, <2>2, SameSubsFresh DEF HistInv
  <2>6. Where(new) = d0
    BY <2>3
  <2> HIDE DEF new
  <2>7. /\ \A d : Fresh(layout', sealed, d) <=> Fresh(begun, sealed, d) \/ d = Where(new)
        /\ SealedIn(layout', sealed)
    BY <1>3, <2>1, <2>4, <2>5, AppendedFresh
  <2> QED
    BY <2>5, <2>6, <2>7
<1>7. First' = First
  BY <1>1 DEF First
<1>8. ScopeInv' /\ DefaultInv'
  <2>1. blk.open => BlockScope'
    BY <1>0, <1>1, <1>7 DEF ScopeInv, BlockScope
  <2>2. blk.open => Defaults'
    BY <1>0, <1>1 DEF DefaultInv, Defaults
  <2> QED
    BY <1>0, <1>1, <2>1, <2>2 DEF ScopeInv, DefaultInv
<1>9. blk.open => Recorded'
  <2> SUFFICES ASSUME blk.open PROVE Recorded'
    OBVIOUS
  <2>1. Recorded /\ blk.feature = curr.feature
    BY <1>0 DEF RecordInv, ScopeInv, BlockScope
  <2>2. ASSUME NEW d PROVE Done(d)' <=> Done(d) \/ d = d0
    <3> DEFINE early == \E x \in DOMAIN langSysMap \ regTodo :
                          x \notin blk.excl /\ \E k \in blk.top : d = <<x[1], x[2], blk.feature, k>>
               D(i) == <<ls[1], ls[2], blk.feature, BaseLab(lookup[i].label)>>
    <3>1. Done(d) <=> early \/ \E i \in 1 .. regPos - 1 : d = D(i)
      BY <1>1 DEF Done, ls
    <3>2. Done(d)' <=> early \/ \E i \in 1 .. regPos' - 1 : d = D(i)
      BY <1>1 DEF Done, ls
    <3>3. D(regPos) = d0
      BY <2>1 DEF d0, lkp
    <3> HIDE DEF early, D
    <3>4. 1 .. regPos' - 1 = (1 .. regPos - 1) \cup {regPos}
      BY <1>0, <1>1
    <3> QED
      BY <3>1, <3>2, <3>3, <3>4
  <2>3. \A d : Stated(d)' <=> Stated(d)
    BY <1>7 DEF Stated
  <2>4. \A d : Fresh(layout', sealed', d) <=> Stated(d)' \/ Done(d)'
    BY <1>1, <1>6, <2>1, <2>2, <2>3 DEF Recorded
  <2> QED
    BY <1>1, <2>1, <2>4 DEF Recorded
<1>10. ~blk.open => (\A d : Fresh(layout', sealed', d) => d[3] = STAND_ALONE) /\ nest # "file"
  <2>1. nest # "file"
    BY <1>0, <1>1 DEF ExclInv
  <2>2. ~blk.open => curr.feature = STAND_ALONE
    BY <1>0, <2>1 DEF ScopeInv
  <2>3. d0[3] = curr.feature
    BY DEF d0
  <2> QED
    BY <1>0, <1>6, <2>1, <2>2, <2>3 DEF RecordInv
<1>11. regPos' <= Len(lookup') + 1 /\ ~langSysMap'[FirstOf(regTodo')]
  BY <1>0, <1>1, <1>2 DEF ls
<1> QED
  BY <1>1, <1>8, <1>9, <1>10, <1>11 DEF RecordInv

\* All lookups are registered under one language system, or it is excluded.
LEMMA RegisterNextLangSysStep ==
    ASSUME CtxInv, Going, SideInv, RegisterNextLangSys, UNCHANGED <<blk, sealed>>
    PROVE  ScopeInv' /\ DefaultInv' /\ RecordInv'
<1> DEFINE ls == FirstOf(regTodo)
<1>0. /\ TypeOK /\ HistInv /\ ScopeInv /\ DefaultInv /\ RecordInv
      /\ lookup \in Seq(LookupInfoType) /\ regPos \in Nat \ {0} /\ ExclInv
      /\ langSysMap \in [DOMAIN langSysMap -> BOOLEAN] /\ regTodo \subseteq DOMAIN langSysMap
      /\ DOMAIN langSysMap \subseteq LangSys
  BY DEF CtxInv, IInv, TypeOK, SideInv
<1>1. /\ pc = "register" /\ regTodo # {} /\ (langSysMap[ls] \/ regPos > Len(lookup))
      /\ langSysMap' = [langSysMap EXCEPT ![ls] = FALSE] /\ regTodo' = regTodo \ {ls}
      /\ regPos' = 1
      /\ UNCHANGED <<pc, hadError, nest, iter, iterEnd, gFlags, feature, scopeVars, runVars>>
  BY DEF RegisterNextLangSys, Included
<1>2. ls \in regTodo /\ ls \in DOMAIN langSysMap
  BY <1>0, <1>1, FirstOfMember
<1>3. DOMAIN langSysMap' = DOMAIN langSysMap /\ First' = First
  <2>1. DOMAIN langSysMap' = DOMAIN langSysMap
    BY <1>0, <1>1
  <2> QED
    BY <2>1 DEF First
<1>4. ScopeInv' /\ DefaultInv'
  <2>1. blk.open => BlockScope'
    BY <1>0, <1>1, <1>3 DEF ScopeInv, BlockScope
  <2>2. blk.open => Defaults'
    BY <1>0, <1>1 DEF DefaultInv, Defaults
  <2> QED
    BY <1>0, <1>1, <2>1, <2>2 DEF ScopeInv, DefaultInv
<1>5. blk.open => Recorded'
  <2> SUFFICES ASSUME blk.open PROVE Recorded'
    OBVIOUS
  <2>1. Recorded
    BY <1>0 DEF RecordInv
  <2>2. langSysMap[ls] <=> ls \in blk.excl
    BY <1>1, <1>2, <2>1 DEF Recorded
  <2>3. ASSUME NEW d PROVE Done(d)' <=> Done(d)
    <3> DEFINE At(x) == \E k \in blk.top : d = <<x[1], x[2], blk.feature, k>>
               D(i) == <<ls[1], ls[2], blk.feature, BaseLab(lookup[i].label)>>
    <3>1. Done(d) <=> \/ \E x \in DOMAIN langSysMap \ regTodo : x \notin blk.excl /\ At(x)
                      \/ \E i \in 1 .. regPos - 1 : d = D(i)
      BY <1>1 DEF Done
    <3>2. Done(d)' <=> \E x \in DOMAIN langSysMap \ regTodo' : x \notin blk.excl /\ At(x)
      <4>1. 1 .. regPos' - 1 = {}
        BY <1>1
      <4> QED
        BY <1>3, <4>1 DEF Done
    <3>3. DOMAIN langSysMap \ regTodo' = (DOMAIN langSysMap \ regTodo) \cup {ls}
      BY <1>0, <1>1, <1>2
    <3>4. (\E i \in 1 .. regPos - 1 : d = D(i)) <=> ls \notin blk.excl /\ At(ls)
      <4>1. CASE langSysMap[ls]
        <5>1. regPos = 1
          BY <1>0, <1>1, <4>1 DEF RecordInv
        <5>2. 1 .. regPos - 1 = {}
          BY <5>1
        <5> QED
          BY <2>2, <4>1, <5>2
      <4>2. CASE ~langSysMap[ls]
        <5>1. regPos = Len(lookup) + 1 /\ Len(lookup) \in Nat
          <6>1. Len(lookup) \in Nat
            BY <1>0, LenProperties
          <6> QED
            BY <1>0, <1>1, <4>2, <6>1 DEF RecordInv
        <5>2. regPos - 1 = Len(lookup)
          BY <5>1
        <5>3. \A k : k \in blk.top <=> \E i \in 1 .. Len(lookup) : BaseLab(lookup[i].label) = k
          BY <2>1 DEF Recorded
        <5>4. (\E i \in 1 .. Len(lookup) : d = D(i)) <=> At(ls)
          BY <5>3
        <5> QED
          BY <2>2, <4>2, <5>2, <5>4
      <4> QED
        BY <4>1, <4>2
    <3> HIDE DEF ls, At, D
    <3> QED
      BY <3>1, <3>2, <3>3, <3>4
  <2>4. \A d : /\ Stated(d)' <=> Stated(d)
               /\ Fresh(layout', sealed', d) <=> Fresh(layout, sealed, d)
    BY <1>1, <1>3 DEF Stated
  <2>5. \A x \in DOMAIN langSysMap' : x \in regTodo' => (langSysMap'[x] <=> x \in blk'.excl)
    <3> SUFFICES ASSUME NEW x \in DOMAIN langSysMap', x \in regTodo'
                 PROVE  langSysMap'[x] <=> x \in blk'.excl
      OBVIOUS
    <3>1. x # ls /\ x \in regTodo /\ x \in DOMAIN langSysMap
      BY <1>1, <1>3
    <3>2. langSysMap'[x] = langSysMap[x]
      BY <1>1, <3>1
    <3> QED
      BY <1>1, <2>1, <3>1, <3>2 DEF Recorded
  <2>6. \A d : Fresh(layout', sealed', d) <=> Stated(d)' \/ Done(d)'
    BY <1>1, <2>1, <2>3, <2>4 DEF Recorded
  <2>7. \A k : k \in blk'.top <=> \E i \in 1 .. Len(lookup') : BaseLab(lookup'[i].label) = k
    BY <1>1, <2>1 DEF Recorded
  <2> QED
    BY <1>1, <2>5, <2>6, <2>7 DEF Recorded
<1>6. ~blk.open => \A d : Fresh(layout', sealed', d) => d[3] = STAND_ALONE /\ nest # "file"
  BY <1>0, <1>1 DEF RecordInv
<1>7. Len(lookup) \in Nat
  BY <1>0, LenProperties
<1> QED
  BY <1>1, <1>4, <1>5, <1>6, <1>7 DEF RecordInv

\* A block that has ended leaves nothing open, and what it registered is sealed.
LEMMA EndBlockStep ==
    ASSUME CtxInv, Going, Going', SideInv, HEndBlock
    PROVE  ScopeInv' /\ DefaultInv' /\ RecordInv'
<1>0. /\ TypeOK /\ prev \in StateType /\ ScopeInv /\ RecordInv
  BY DEF CtxInv, IInv, TypeOK, SideInv
<1>1. /\ sealed' = [tbl \in Tables |-> Len(layout[tbl].subtables)] /\ blk' = Abs!NoBlock
      /\ layout' = layout /\ nest' = "file" /\ pc' = "stmt"
      /\ UNCHANGED <<curr, feature>>
      /\ prev'.tbl = UNDEF /\ prev'.feature = prev.feature
  <2>1. sealed' = [tbl \in Tables |-> Len(layout[tbl].subtables)] /\ blk' = Abs!NoBlock
    BY DEF HEndBlock, Ok, Going
  <2>2. CASE RegisterDone
    <3>1. /\ prev' = [prev EXCEPT !.tbl = UNDEF] /\ layout' = layout /\ nest' = "file"
          /\ pc' = "stmt" /\ UNCHANGED <<curr, feature>>
      BY <2>2 DEF RegisterDone, Closed
    <3>2. prev'.tbl = UNDEF /\ prev'.feature = prev.feature
      BY <1>0, <3>1 DEF StateType
    <3> QED
      BY <2>1, <3>1, <3>2
  <2>3. CASE EndFeature /\ nest' = "file"
    <3>1. /\ curr.feature = "aalt" /\ pc = "stmt"
          /\ UNCHANGED <<pc, layout, curr, prev, feature>>
      BY <2>3 DEF EndFeature, BeginRegister
    <3> QED
      BY <1>0, <2>1, <2>3, <3>1 DEF ScopeInv
  <2> QED
    BY <2>1, <2>2, <2>3 DEF HEndBlock
<1>2. ~blk'.open
  BY <1>1 DEF Abs!NoBlock
<1>3. \A d : ~Fresh(layout', sealed', d)
  <2>1. layout' \in LayoutType
    BY <1>0, <1>1 DEF TypeOK, LayoutType
  <2>2. \A tbl \in Tables : layout'[tbl].subtables \in Seq(SubtableType)
    BY <2>1 DEF LayoutType
  <2>3. \A tbl \in Tables : /\ Len(layout'[tbl].subtables) \in Nat
                            /\ sealed'[tbl] = Len(layout'[tbl].subtables)
    BY <1>1, <2>2, LenProperties
  <2>4. \A tbl \in Tables : sealed'[tbl] + 1 .. Len(layout'[tbl].subtables) = {}
    BY <2>3
  <2> QED
    BY <2>4 DEF Fresh
<1>4. ScopeInv'
  BY <1>0, <1>1, <1>2 DEF ScopeInv
<1> QED
  BY <1>1, <1>2, <1>3, <1>4 DEF DefaultInv, RecordInv, OpenAs

-----------------------------------------------------------------------------
(* Every step *)

\* A step of the program that the history has nothing to say about
LEMMA InternalStep ==
    ASSUME Forms = {}, NoAaltRules, CtxInv, SideInv, DefaultFirst, Going, Going',
           Internal, UNCHANGED histVars
    PROVE  ScopeInv' /\ DefaultInv' /\ RecordInv'
<1>0. /\ TypeOK /\ IInv /\ NamedInv /\ OpenRunInv /\ ~hadError /\ UNCHANGED <<blk, sealed>>
      /\ ScopeInv
  BY DEF CtxInv, IInv, SideInv, Going, histVars
<1>1. CASE EndLookup \/ (EndFeature /\ nest' # "file")
  <2>1. \/ /\ BeginRegister /\ pc = "stmt" /\ prev.tbl # UNDEF /\ layout' = CloseRun(prev)
           /\ nest \in {"feature", "block", "alone"} /\ curr.feature # "aalt"
        \/ Fatal
        \/ UNCHANGED <<layout, prev, ruleCnt, pc, hadError>>
    BY <1>0, <1>1, EndCloses
  <2>2. ~Fatal
    BY DEF Fatal, Going
  <2>3. CASE BeginRegister /\ pc = "stmt" /\ prev.tbl # UNDEF /\ layout' = CloseRun(prev)
             /\ nest \in {"feature", "block", "alone"}
    BY <1>0, <2>3, BeginRegisterStep
  <2>4. CASE pc' = pc
    <3>1. pc = "stmt"
      BY <1>1 DEF EndLookup, EndFeature
    <3>2. EndFeature => nest' = "file" \/ pc' = "register"
      BY DEF EndFeature, BeginRegister
    <3>3. EndLookup /\ pc' = "stmt"
      BY <1>1, <2>4, <3>1, <3>2
    <3> QED
      BY <1>0, <3>3, QuietActions, QuietStep
  <2> QED
    BY <2>1, <2>2, <2>3, <2>4
<1>2. CASE RegisterLookup
  BY <1>0, <1>2, RegisterLookupStep
<1>3. CASE RegisterNextLangSys
  BY <1>0, <1>3, RegisterNextLangSysStep
<1>4. CASE IncludeNext
  <2>1. PICK st, named, rules : Adds(st, named, rules)
    BY <1>0, <1>4, ReferenceAdds
  <2> QED
    BY <2>1, AddsStep
<1>5. CASE \/ EndOfFile \/ Finished \/ IncludeDone \/ IncludeInvalidated
           \/ \E s \in Scripts, l \in Langs : LangSystem(s, l)
  BY <1>0, <1>5, QuietActions, QuietStep
<1> QED
  BY <1>1, <1>2, <1>3, <1>4, <1>5 DEF Internal

\* Every step keeps the block and FeatCtx side by side.
LEMMA NextSide ==
    ASSUME Forms = {}, NoAaltRules, CtxInv, SideInv, DefaultFirst, IInv', [HNext]_allVars
    PROVE  SideInv'
<1>1. HistInv'
  BY NextHist DEF CtxInv, SideInv
<1>2. CASE ~Going'
  BY <1>1, <1>2 DEF SideInv, ScopeInv, DefaultInv, RecordInv
<1>3. CASE Going'
  <2>0. /\ Going /\ Ok /\ ScopeInv /\ HistInv
        /\ hadError' = FALSE /\ pc' # "fatal" /\ hadError = FALSE
    <3>1. TypeOK /\ TypeOK'
      BY DEF CtxInv, IInv
    <3>2. Going
      BY <1>3, <3>1, GoingOn
    <3> QED
      BY <1>3, <3>1, <3>2 DEF Going, Ok, SideInv, TypeOK
  <2> SUFFICES ScopeInv' /\ DefaultInv' /\ RecordInv'
    BY <1>1 DEF SideInv
  <2>1. \A b, flag : Becomes(b, flag) => sealed' = sealed /\ blk' = IF blk.open THEN b ELSE blk
    BY <2>0 DEF Becomes
  <2>2. CASE UNCHANGED allVars
    <3>1. UNCHANGED vars /\ UNCHANGED <<blk, sealed>>
      BY <2>2 DEF allVars, histVars
    <3> QED
      BY <1>3, <2>0, <3>1, QuietActions, QuietStep
  <2>3. ASSUME NEW f \in Features, StartFeature(f),
               blk' = IF Ok THEN Abs!NewBlock(f, FirstOf(DOMAIN langSysMap')) ELSE blk,
               UNCHANGED <<sealed, ruleLog>>
        PROVE  ScopeInv' /\ DefaultInv' /\ RecordInv'
    BY <2>0, <2>3, StartFeatureStep
  <2>4. ASSUME NEW n \in Names, StartStandAlone(n) \/ StartLookup(n), Becomes(blk, 0)
        PROVE  ScopeInv' /\ DefaultInv' /\ RecordInv'
    <3>1. UNCHANGED <<blk, sealed>>
      BY <2>1, <2>4
    <3>2. CASE StartStandAlone(n)
      BY <1>3, <2>0, <3>1, <3>2, StartStandAloneStep
    <3>3. CASE StartLookup(n)
      BY <1>3, <2>0, <3>1, <3>3, QuietActions, QuietStep
    <3> QED
      BY <2>4, <3>2, <3>3
  <2>5. ASSUME NEW s \in Scripts, ScriptStmt(s), Becomes(Abs!AfterScript(blk, s), 0)
        PROVE  ScopeInv' /\ DefaultInv' /\ RecordInv'
    BY <1>3, <2>0, <2>1, <2>5, ScriptStmtStep
  <2>6. ASSUME NEW l \in Langs, NEW incl \in BOOLEAN, LanguageStmt(l, incl),
               Becomes(Abs!AfterLanguage(blk, l, incl), saidFlag)
        PROVE  ScopeInv' /\ DefaultInv' /\ RecordInv'
    BY <1>3, <2>0, <2>1, <2>6, LanguageStmtStep
  <2>7. ASSUME NEW v \in Flags, LookupFlagStmt(v), Becomes(blk, v)
        PROVE  ScopeInv' /\ DefaultInv' /\ RecordInv'
    <3>1. UNCHANGED <<blk, sealed>>
      BY <2>1, <2>7
    <3> QED
      BY <1>3, <2>0, <2>7, <3>1, QuietActions, QuietStep
  <2>8. ASSUME NEW k \in RuleKinds, HRule(k[1], k[2])
        PROVE  ScopeInv' /\ DefaultInv' /\ RecordInv'
    <3>1. \/ \E st, named, rules : Adds(st, named, rules)
          \/ UNCHANGED <<pc, hadError, nest, ruleCnt, loopVars, globalVars, scopeVars,
                         labelVars, runVars, histVars>>
      BY <1>3, <2>0, <2>8, RuleAdds DEF AddsRule
    <3>2. CASE \E st, named, rules : Adds(st, named, rules)
      BY <2>0, <3>2, AddsStep
    <3>3. CASE UNCHANGED <<pc, hadError, nest, ruleCnt, loopVars, globalVars, scopeVars,
                           labelVars, runVars, histVars>>
      <4>1. /\ UNCHANGED <<pc, hadError, nest, ruleCnt, loopVars, globalVars, scopeVars,
                           labelVars, runVars>>
            /\ UNCHANGED <<blk, sealed>>
        BY <3>3 DEF histVars
      <4> QED
        BY <1>3, <2>0, <4>1, QuietActions, QuietStep
    <3> QED
      BY <3>1, <3>2, <3>3
  <2>9. ASSUME NEW n \in Names, UseLookup(n),
               Becomes(Abs!AfterLookup(blk, BaseLab(curr'.label)), curr'.lkpFlag)
        PROVE  ScopeInv' /\ DefaultInv' /\ RecordInv'
    <3>1. CASE curr.feature \in Restricted \/ ~NameTaken(n)
      BY <2>0, <2>9, <3>1 DEF UseLookup
    <3>2. CASE ~(curr.feature \in Restricted \/ ~NameTaken(n))
      BY <1>3, <2>0, <2>9, ReferenceAdds, AddsStep
    <3> QED
      BY <3>1, <3>2
  <2>10. CASE HEndBlock
    BY <1>3, <2>0, <2>10, EndBlockStep
  <2>11. CASE Internal /\ UNCHANGED histVars
    BY <1>3, <2>0, <2>11, InternalStep
  <2> QED
    BY <2>2, <2>3, <2>4, <2>5, <2>6, <2>7, <2>8, <2>9, <2>10, <2>11 DEF HNext
<1> QED
  BY <1>2, <1>3

-----------------------------------------------------------------------------
(* The invariant, and what follows from it *)

\* A file begins with both in step.
LEMMA InitSide == HInit => SideInv
<1> SUFFICES ASSUME HInit PROVE SideInv
  OBVIOUS
<1>1. /\ nest = "file" /\ pc = "stmt" /\ prev.tbl = UNDEF /\ curr.feature = UNDEF
      /\ prev.feature = UNDEF /\ langSysMap = [ls \in {} |-> FALSE]
      /\ blk = Abs!NoBlock /\ sealed = [tbl \in Tables |-> 0]
      /\ \A tbl \in Tables : layout[tbl].subtables = <<>>
  BY DEF HInit, Init, NoState, EmptyLayout
<1>2. ~blk.open /\ DOMAIN langSysMap = {}
  BY <1>1 DEF Abs!NoBlock
<1>3. \A tbl \in Tables : sealed[tbl] = 0 /\ Len(layout[tbl].subtables) = 0
  BY <1>1
<1>4. \A d : ~Fresh(layout, sealed, d)
  BY <1>3 DEF Fresh
<1>5. HistInv
  BY <1>1, <1>2, <1>3 DEF HistInv, SealedIn
<1>6. curr.feature # "aalt" \/ prev.tbl = UNDEF
  BY <1>1
<1>7. ScopeInv /\ DefaultInv /\ RecordInv
  BY <1>1, <1>2, <1>4 DEF ScopeInv, DefaultInv, RecordInv, OpenAs
<1> QED
  BY <1>5, <1>7 DEF SideInv

\* The invariants of FeatCtx, taken together
LEMMA CtxInvariant ==
    ASSUME Forms = {}
    PROVE  Spec => []CtxInv
<1>1. /\ "blockLang" \notin Forms /\ "emptyBlock" \notin Forms /\ "emptyFeature" \notin Forms
      /\ "again" \notin Forms
  OBVIOUS
<1>2. Init => ExclInv /\ InclInv
  BY DEF Init, ExclInv, InclInv, NoneExcluded, NoState, Restricted, UNDEF
<1>3. IInv /\ ExclInv /\ InclInv /\ [Next]_vars => ExclInv' /\ InclInv'
  BY <1>1, NextExcl, NextIncl
<1>4. Spec => [](IInv /\ IssuedInv /\ NamedInv /\ OpenRunInv /\ RefRunInv)
  BY <1>1, RefInvariant
<1>5. IInv /\ IssuedInv /\ NamedInv /\ OpenRunInv /\ RefRunInv /\ ExclInv /\ InclInv => CtxInv
  BY DEF CtxInv
<1> QED
  BY <1>2, <1>3, <1>4, <1>5, PTL DEF Spec

\* The block and FeatCtx stay side by side.
LEMMA SideInvariant ==
    ASSUME Forms = {}, NoAaltRules
    PROVE  HSpec /\ []DefaultFirst => [](CtxInv /\ SideInv)
<1>1. CtxInv /\ SideInv /\ DefaultFirst /\ CtxInv' /\ [HNext]_allVars => SideInv'
  BY NextSide DEF CtxInv
<1> QED
  BY <1>1, InitSide, CtxInvariant, SpecOfFeatCtx, PTL DEF HSpec

\* DFLTLkps, which a language statement includes, holds exactly the defaults of the current
\* script: no lookup is missed because its label or the state it was made in looked familiar.
\* It is so in files of the usual forms, without positioning rules in aalt, in which the
\* first language system is the default one of its script.
THEOREM DefaultsAreComplete ==
    ASSUME Forms = {}, NoAaltRules
    PROVE  HSpec /\ []DefaultFirst => []DefaultsComplete
<1>1. SideInv => DefaultsComplete
  <2> SUFFICES ASSUME DefaultInv, AtStatement, blk.open
               PROVE  {BaseLab(DFLTLkps[i].label) : i \in 1 .. Len(DFLTLkps)} = blk.deflt
    BY DEF SideInv, DefaultsComplete
  <2>1. \A k : k \in blk.deflt <=> \E i \in 1 .. Len(DFLTLkps) : BaseLab(DFLTLkps[i].label) = k
    BY DEF DefaultInv, Going, AtStatement, Defaults
  <2> QED
    BY <2>1
<1> QED
  BY <1>1, SideInvariant, PTL

-----------------------------------------------------------------------------
(* FeatCtx implements FeatLangSys *)

RegSet == UNION {Registered(tbl) : tbl \in Tables}

\* A finished feature block has registered d.
Sealed(lay, sl, d) ==
    /\ d[3] # STAND_ALONE
    /\ \E tbl \in Tables : \E i \in 1 .. sl[tbl] : Where(lay[tbl].subtables[i]) = d

\* What is registered, subtable by subtable, before and after a step
LEMMA RegSetIs ==
    \A d : /\ d \in RegSet <=> Sealed(layout, sealed, d)
           /\ d \in RegSet' <=> Sealed(layout', sealed', d)
<1>1. \A s : Where(s)[3] = s.feature
  BY DEF Where
<1>2. ASSUME NEW d PROVE d \in RegSet <=> Sealed(layout, sealed, d)
  <2>1. d \in RegSet <=> \E tbl \in Tables : \E i \in 1 .. sealed[tbl] :
                            /\ d = Where(layout[tbl].subtables[i])
                            /\ layout[tbl].subtables[i].feature # STAND_ALONE
    BY DEF RegSet, Registered, Where
  <2> QED
    BY <1>1, <2>1 DEF Sealed
<1>3. ASSUME NEW d PROVE d \in RegSet' <=> Sealed(layout', sealed', d)
  <2>1. d \in RegSet' <=> \E tbl \in Tables : \E i \in 1 .. sealed'[tbl] :
                             /\ d = Where(layout'[tbl].subtables[i])
                             /\ layout'[tbl].subtables[i].feature # STAND_ALONE
    BY DEF RegSet, Registered, Where
  <2> QED
    BY <1>1, <2>1 DEF Sealed
<1> QED
  BY <1>2, <1>3

\* Until the next block ends, nothing is added to it.
LEMMA RegStays ==
    ASSUME IInv, HistInv, [Next]_vars, IInv', sealed' = sealed
    PROVE  RegSet' = RegSet
<1>1. Grows(layout, layout') /\ SealedIn(layout, sealed)
  <2>1. TypeOK'
    BY DEF IInv
  <2> QED
    BY <2>1, NextGrows DEF HistInv
<1>2. ASSUME NEW tbl \in Tables, NEW i \in 1 .. sealed[tbl]
      PROVE  layout'[tbl].subtables[i] = layout[tbl].subtables[i]
  <2>1. layout \in LayoutType
    BY DEF IInv, TypeOK, LayoutType
  <2>2. Len(layout[tbl].subtables) \in Nat
    <3>1. layout[tbl].subtables \in Seq(SubtableType)
      BY <2>1 DEF LayoutType
    <3> QED
      BY <3>1, LenProperties
  <2>3. i \in 1 .. Len(layout[tbl].subtables)
    BY <1>1, <2>2 DEF SealedIn
  <2> QED
    BY <1>1, <2>3 DEF Grows
<1>3. \A d : Sealed(layout', sealed', d) <=> Sealed(layout, sealed, d)
  BY <1>2 DEF Sealed
<1> QED
  BY <1>3, RegSetIs DEF RegSet

\* The end of a block adds what the block registered.
LEMMA RegAdds ==
    ASSUME TypeOK, HistInv, layout' = layout,
           sealed' = [tbl \in Tables |-> Len(layout[tbl].subtables)]
    PROVE  \A d : d \in RegSet' <=> \/ d \in RegSet
                                    \/ Fresh(layout, sealed, d) /\ d[3] # STAND_ALONE
<1>1. ASSUME NEW tbl \in Tables
      PROVE  /\ Len(layout[tbl].subtables) \in Nat /\ sealed[tbl] \in Nat
             /\ sealed[tbl] <= Len(layout[tbl].subtables)
             /\ sealed'[tbl] = Len(layout[tbl].subtables)
  <2>1. layout \in LayoutType
    BY DEF TypeOK, LayoutType
  <2>2. Len(layout[tbl].subtables) \in Nat
    <3>1. layout[tbl].subtables \in Seq(SubtableType)
      BY <2>1 DEF LayoutType
    <3> QED
      BY <3>1, LenProperties
  <2> QED
    BY <2>2 DEF HistInv, SealedIn
<1>2. ASSUME NEW tbl \in Tables
      PROVE  1 .. sealed'[tbl] = (1 .. sealed[tbl])
                                 \cup (sealed[tbl] + 1 .. Len(layout[tbl].subtables))
  BY <1>1
<1>3. ASSUME NEW d
      PROVE  Sealed(layout', sealed', d) <=> \/ Sealed(layout, sealed, d)
                                             \/ Fresh(layout, sealed, d) /\ d[3] # STAND_ALONE
  BY <1>2 DEF Sealed, Fresh
<1> QED
  BY <1>3, RegSetIs

\* The steps that leave the language systems as they are: all but languagesystem and the
\* beginning of a feature or of a lookup block outside of one.
KeepsLangSys ==
    \/ UNCHANGED vars \/ IncludeNext \/ IncludeInvalidated \/ IncludeDone
    \/ EndLookup \/ EndFeature \/ RegisterLookup \/ RegisterNextLangSys \/ RegisterDone
    \/ EndOfFile \/ Finished
    \/ \E s \in Scripts : ScriptStmt(s)
    \/ \E l \in Langs, incl \in BOOLEAN : LanguageStmt(l, incl)
    \/ \E v \in Flags : LookupFlagStmt(v)
    \/ \E n \in Names : StartLookup(n) \/ UseLookup(n)
    \/ \E k \in RuleKinds : RuleStmt(k[1], k[2])

\* Such a step neither adds a language system to langSysMap nor takes one away.
LEMMA SameLangSys ==
    ASSUME KeepsLangSys
    PROVE  DOMAIN langSysMap' = DOMAIN langSysMap
<1>1. ASSUME NEW l \in Langs, NEW incl \in BOOLEAN, LanguageStmt(l, incl)
      PROVE  DOMAIN langSysMap' = DOMAIN langSysMap
  <2>1. \A ls : DOMAIN [langSysMap EXCEPT ![ls] = TRUE] = DOMAIN langSysMap
    OBVIOUS
  <2>2. \/ langSysMap' = langSysMap
        \/ \E ls : langSysMap' = [langSysMap EXCEPT ![ls] = TRUE]
    BY <1>1 DEF LanguageStmt
  <2> QED
    BY <2>1, <2>2
<1>2. CASE RegisterNextLangSys
  BY <1>2 DEF RegisterNextLangSys, Included
<1>3. CASE \/ UNCHANGED vars \/ IncludeInvalidated \/ IncludeDone \/ EndOfFile \/ Finished
           \/ RegisterDone \/ RegisterLookup \/ EndLookup \/ EndFeature
  <2>1. UNCHANGED <<gFlags, langSysMap>>
    BY <1>3 DEF vars, IncludeInvalidated, IncludeDone, EndOfFile, Finished, Fatal,
                RegisterDone, RegisterLookup, EndLookup, EndFeature, BeginRegister
  <2> QED
    BY <2>1
<1>4. ASSUME IncludeNext PROVE UNCHANGED globalVars
  <2>1. ASSUME NEW st, CallLkp(st) PROVE UNCHANGED globalVars
    BY <2>1, Zenon DEF CallLkp
  <2> QED
    BY <1>4, <2>1, Zenon DEF IncludeNext, Fatal
<1>5. ASSUME NEW n \in Names, StartLookup(n) \/ UseLookup(n) PROVE UNCHANGED globalVars
  <2>1. CASE StartLookup(n)
    BY <2>1, Zenon DEF StartLookup
  <2>2. CASE UseLookup(n)
    <3>1. ASSUME NEW st, CallLkp(st) PROVE UNCHANGED globalVars
      BY <3>1, Zenon DEF CallLkp
    <3> QED
      BY <2>2, <3>1 DEF UseLookup, Fatal
  <2> QED
    BY <1>5, <2>1, <2>2
<1>6. ASSUME NEW s \in Scripts, ScriptStmt(s) PROVE UNCHANGED globalVars
  BY <1>6, Zenon DEF ScriptStmt
<1>7. ASSUME NEW v \in Flags, LookupFlagStmt(v) PROVE UNCHANGED globalVars
  BY <1>7, Zenon DEF LookupFlagStmt
<1>8. ASSUME NEW k \in RuleKinds, RuleStmt(k[1], k[2]) PROVE UNCHANGED globalVars
  BY <1>8, Zenon DEF RuleStmt, Fatal
<1>9. CASE \/ IncludeNext
           \/ \E n \in Names : StartLookup(n) \/ UseLookup(n)
           \/ \E s \in Scripts : ScriptStmt(s)
           \/ \E v \in Flags : LookupFlagStmt(v)
           \/ \E k \in RuleKinds : RuleStmt(k[1], k[2])
  <2>1. UNCHANGED globalVars
    BY <1>4, <1>5, <1>6, <1>7, <1>8, <1>9, Zenon
  <2> QED
    BY <2>1
<1> QED
  BY <1>1, <1>2, <1>3, <1>9 DEF KeepsLangSys

\* A statement of the block is the one of FeatLangSys.
LEMMA BlockStatementImplements ==
    ASSUME CtxInv, IInv', HistInv, [HNext]_allVars, DOMAIN langSysMap' = DOMAIN langSysMap,
           NEW b, NEW flag, Becomes(b, flag),
           \/ b = blk
           \/ \E s \in Scripts : b = Abs!AfterScript(blk, s)
           \/ \E l \in Langs, incl \in BOOLEAN : b = Abs!AfterLanguage(blk, l, incl)
           \/ \E k \in Label : b = Abs!AfterLookup(blk, k)
    PROVE  [Abs!Next]_<<DOMAIN langSysMap, RegSet, blk>>
<1>1. sealed' = sealed /\ (blk' = blk \/ (blk.open /\ blk' = b))
  BY DEF Becomes
<1>2. RegSet' = RegSet
  BY <1>1, StepOfFeatCtx, RegStays DEF CtxInv
<1>3. CASE blk' = blk
  BY <1>2, <1>3
<1>4. CASE blk.open /\ \E s \in Scripts : blk' = Abs!AfterScript(blk, s)
  BY <1>2, <1>4 DEF Abs!Next, Abs!Script, RegSet
<1>5. CASE blk.open /\ \E l \in Langs, incl \in BOOLEAN : blk' = Abs!AfterLanguage(blk, l, incl)
  BY <1>2, <1>5 DEF Abs!Next, Abs!Language, RegSet
<1>6. CASE blk.open /\ \E k \in Label : blk' = Abs!AfterLookup(blk, k)
  BY <1>2, <1>6 DEF Abs!Next, Abs!Lookup, RegSet
<1> QED
  BY <1>1, <1>3, <1>4, <1>5, <1>6

\* The beginning of a feature, or of a lookup block outside of one, assumes DFLT dflt in a
\* file without language systems; a feature opens a block.
LEMMA StartImplements ==
    ASSUME CtxInv, IInv', SideInv, [HNext]_allVars, UNCHANGED sealed,
           \/ \E f \in Features :
                /\ StartFeature(f)
                /\ blk' = IF Ok THEN Abs!NewBlock(f, FirstOf(DOMAIN langSysMap')) ELSE blk
           \/ \E n \in Names : StartStandAlone(n) /\ blk' = blk
    PROVE  [Abs!Next]_<<DOMAIN langSysMap, RegSet, blk>>
<1>0. TypeOK /\ TypeOK' /\ HistInv /\ ScopeInv /\ IInv
  BY DEF CtxInv, IInv, SideInv
<1>1. RegSet' = RegSet
  BY <1>0, StepOfFeatCtx, RegStays
<1>2. ASSUME NEW f, EnterFeature(f)
      PROVE  DOMAIN langSysMap' = IF DOMAIN langSysMap = {} THEN {<<"DFLT", "dflt">>}
                                  ELSE DOMAIN langSysMap
  BY <1>2 DEF EnterFeature
<1>3. ASSUME NEW f, EnterFeature(f), blk' = blk
      PROVE  [Abs!Next]_<<DOMAIN langSysMap, RegSet, blk>>
  <2>1. CASE DOMAIN langSysMap = {}
    <3>1. ~blk.open
      BY <1>0, <2>1 DEF HistInv
    <3> QED
      BY <1>1, <1>2, <1>3, <3>1 DEF Abs!Next, Abs!BeginStandAlone, RegSet
  <2>2. CASE DOMAIN langSysMap # {}
    BY <1>1, <1>2, <1>3, <2>2
  <2> QED
    BY <2>1, <2>2
<1>4. ASSUME NEW f \in Features, StartFeature(f),
             blk' = IF Ok THEN Abs!NewBlock(f, FirstOf(DOMAIN langSysMap')) ELSE blk
      PROVE  [Abs!Next]_<<DOMAIN langSysMap, RegSet, blk>>
  <2>0. StartFeature(f)
    BY <1>4
  <2>1. EnterFeature(f) /\ nest = "file"
    BY <2>0, Zenon DEF StartFeature
  <2>2. CASE Ok
    <3>1. ~blk.open
      <4>1. Going
        BY <1>0, <2>2, GoingOn DEF Ok, Going
      <4> QED
        BY <1>0, <2>1, <4>1 DEF ScopeInv
    <3>2. Abs!Begin(f)
      BY <1>1, <1>2, <1>4, <2>1, <2>2, <3>1 DEF Abs!Begin, RegSet
    <3> QED
      BY <3>2 DEF Abs!Next
  <2>3. CASE ~Ok
    BY <1>3, <1>4, <2>1, <2>3
  <2> QED
    BY <2>2, <2>3
<1>5. ASSUME NEW n \in Names, StartStandAlone(n), blk' = blk
      PROVE  [Abs!Next]_<<DOMAIN langSysMap, RegSet, blk>>
  <2>1. EnterFeature(STAND_ALONE) \/ langSysMap' = langSysMap
    BY <1>5 DEF StartStandAlone, Fatal
  <2> QED
    BY <1>1, <1>3, <1>5, <2>1
<1> QED
  BY <1>4, <1>5

\* What a block registers, in the words of Recorded
LEMMA RegistersIs ==
    \A d : d \in Abs!Registers(blk) <=>
              \/ \E ls \in DOMAIN langSysMap :
                    ls \notin blk.excl /\ \E k \in blk.top : d = <<ls[1], ls[2], blk.feature, k>>
              \/ \E e \in blk.explicit : d = <<e[1], e[2], blk.feature, e[3]>>
BY DEF Abs!Registers

\* The end of a feature block registers what FeatLangSys says.
LEMMA EndImplements ==
    ASSUME CtxInv, SideInv, IInv', DefaultFirst, [HNext]_allVars, HEndBlock
    PROVE  [Abs!Next]_<<DOMAIN langSysMap, RegSet, blk>>
<1>0. TypeOK /\ TypeOK' /\ IInv /\ HistInv /\ ScopeInv /\ DefaultInv /\ RecordInv
  BY DEF CtxInv, IInv, SideInv
<1>1. UNCHANGED <<layout, langSysMap>> /\ (RegisterDone \/ (EndFeature /\ nest' = "file"))
  BY DEF HEndBlock, RegisterDone, EndFeature, BeginRegister
<1>2. CASE ~Ok
  <2>1. sealed' = sealed /\ blk' = blk
    BY <1>2 DEF HEndBlock
  <2>2. RegSet' = RegSet
    BY <1>0, <2>1, StepOfFeatCtx, RegStays
  <2> QED
    BY <1>1, <2>1, <2>2
<1>3. CASE Ok
  <2>0. Going
    BY <1>0, <1>3, GoingOn DEF Ok, Going
  <2>1. blk' = Abs!NoBlock /\ sealed' = [tbl \in Tables |-> Len(layout[tbl].subtables)]
    BY <1>3 DEF HEndBlock
  <2>2. \A d : d \in RegSet' <=> d \in RegSet \/ (Fresh(layout, sealed, d) /\ d[3] # STAND_ALONE)
    BY <1>0, <1>1, <2>1, RegAdds
  <2>3. CASE ~blk.open
    <3>1. blk = Abs!NoBlock
      BY <1>0, <2>3 DEF HistInv, BlockType
    <3>2. \A d : Fresh(layout, sealed, d) => d[3] = STAND_ALONE
      BY <1>0, <2>0, <2>3 DEF RecordInv
    <3>3. RegSet' = RegSet
      BY <2>2, <3>2 DEF RegSet
    <3> QED
      BY <1>1, <2>1, <3>1, <3>3
  <2>4. CASE blk.open
    <3>1. blk \in BlockType /\ blk.feature # STAND_ALONE
      <4>1. blk \in BlockType
        BY <1>0, <2>4 DEF HistInv, Abs!NoBlock
      <4>2. blk.feature \in Features
        BY <4>1 DEF BlockType
      <4> QED
        BY <4>1, <4>2, FeatAssumption
    <3>2. Recorded /\ Defaults /\ BlockScope
      BY <1>0, <2>0, <2>4 DEF RecordInv, DefaultInv, ScopeInv
    <3>3. First \in DOMAIN langSysMap /\ First \notin blk.excl
      <4>1. DOMAIN langSysMap # {} /\ DOMAIN langSysMap \subseteq LangSys
        BY <1>0, <2>4 DEF HistInv, TypeOK
      <4>2. First \in DOMAIN langSysMap /\ First[2] = "dflt"
        BY <4>1, FirstOfMember DEF First, DefaultFirst
      <4> QED
        BY <3>2, <4>2 DEF BlockScope
    <3>4. ASSUME NEW d PROVE d \in Abs!Registers(blk) <=> Fresh(layout, sealed, d)
      <4>1. CASE RegisterDone
        <5>1. pc = "register" /\ regTodo = {}
          BY <4>1 DEF RegisterDone
        <5>2. Fresh(layout, sealed, d) <=> Stated(d) \/ Done(d)
          BY <3>2, <5>1 DEF Recorded
        <5>3. Done(d) <=> \E ls \in DOMAIN langSysMap :
                              /\ ls \notin blk.excl
                              /\ \E k \in blk.top : d = <<ls[1], ls[2], blk.feature, k>>
          BY <5>1 DEF Done
        <5>4. Stated(d) => Done(d) \/ \E e \in blk.explicit : d = <<e[1], e[2], blk.feature, e[3]>>
          BY <3>3, <5>3 DEF Stated
        <5> QED
          BY <5>2, <5>3, <5>4, RegistersIs DEF Stated
      <4>2. CASE EndFeature /\ nest' = "file"
        <5>1. curr.feature = "aalt" /\ pc = "stmt"
          BY <4>2 DEF EndFeature, BeginRegister
        <5>2. prev.tbl = UNDEF
          BY <1>0, <2>0, <5>1 DEF ScopeInv
        <5>3. blk.top = {} /\ blk.explicit = {}
          BY <3>2, <5>2 DEF Defaults
        <5>4. ~Stated(d)
          BY <5>3 DEF Stated
        <5>5. ~Fresh(layout, sealed, d)
          BY <3>2, <5>1, <5>4 DEF Recorded
        <5> QED
          BY <5>3, <5>5, RegistersIs
      <4> QED
        BY <1>1, <4>1, <4>2
    <3>5. \A d : d \in Abs!Registers(blk) => d[3] # STAND_ALONE
      BY <3>1, RegistersIs
    <3>6. RegSet' = RegSet \cup Abs!Registers(blk)
      <4>1. \A d : d \in RegSet' <=> d \in RegSet \/ d \in Abs!Registers(blk)
        BY <2>2, <3>4, <3>5
      <4>2. \A d : d \in RegSet' <=> d \in RegSet \cup Abs!Registers(blk)
        BY <4>1
      <4> QED
        BY <4>2 DEF RegSet
    <3>7. Abs!End
      BY <1>1, <2>1, <2>4, <3>6 DEF Abs!End, RegSet
    <3> QED
      BY <3>7 DEF Abs!Next
  <2> QED
    BY <2>3, <2>4
<1> QED
  BY <1>2, <1>3

\* A step that the history has nothing to say about adds a language system or is a stutter.
LEMMA InternalImplements ==
    ASSUME CtxInv, SideInv, IInv', [HNext]_allVars,
           \/ Internal
           \/ UNCHANGED vars
           \/ \E k \in RuleKinds : RuleStmt(k[1], k[2]),
           UNCHANGED histVars
    PROVE  [Abs!Next]_<<DOMAIN langSysMap, RegSet, blk>>
<1>0. TypeOK /\ IInv /\ HistInv /\ UNCHANGED <<blk, sealed>>
  BY DEF CtxInv, IInv, SideInv, histVars
<1>1. RegSet' = RegSet
  BY <1>0, StepOfFeatCtx, RegStays
<1>2. ASSUME NEW s \in Scripts, NEW l \in Langs, LangSystem(s, l)
      PROVE  [Abs!Next]_<<DOMAIN langSysMap, RegSet, blk>>
  <2>1. CASE "seenFeature" \in gFlags
    <3>1. UNCHANGED langSysMap
      BY <1>2, <2>1 DEF LangSystem
    <3> QED
      BY <1>0, <1>1, <3>1
  <2>2. CASE "seenFeature" \notin gFlags
    <3>1. ~blk.open
      BY <1>0, <2>2 DEF HistInv
    <3>2. DOMAIN langSysMap' = DOMAIN langSysMap \cup {<<s, l>>}
      BY <1>2, <2>2 DEF LangSystem
    <3>3. Abs!AddLangSys(s, l)
      BY <1>0, <1>1, <3>1, <3>2 DEF Abs!AddLangSys, RegSet
    <3> QED
      BY <3>3 DEF Abs!Next
  <2> QED
    BY <2>1, <2>2
<1>3. CASE KeepsLangSys
  BY <1>0, <1>1, <1>3, SameLangSys
<1> QED
  BY <1>2, <1>3 DEF Internal, KeepsLangSys

\* Every step is one of FeatLangSys, or none.
LEMMA StepImplements ==
    ASSUME CtxInv, SideInv, DefaultFirst, IInv', [HNext]_allVars
    PROVE  [Abs!Next]_<<DOMAIN langSysMap, RegSet, blk>>
<1>0. BaseLab(curr'.label) \in Label
  <2>1. curr'.label \in Label
    BY DEF IInv, TypeOK, StateType
  <2> QED
    BY <2>1, RefLabProperties
<1>1. CASE UNCHANGED allVars
  <2>1. UNCHANGED vars /\ UNCHANGED histVars
    BY <1>1 DEF allVars
  <2> QED
    BY <2>1, InternalImplements
<1>2. ASSUME NEW f \in Features, StartFeature(f),
             blk' = IF Ok THEN Abs!NewBlock(f, FirstOf(DOMAIN langSysMap')) ELSE blk,
             UNCHANGED <<sealed, ruleLog>>
      PROVE  [Abs!Next]_<<DOMAIN langSysMap, RegSet, blk>>
  BY <1>2, StartImplements
<1>3. ASSUME NEW n \in Names, StartStandAlone(n), Becomes(blk, 0)
      PROVE  [Abs!Next]_<<DOMAIN langSysMap, RegSet, blk>>
  <2>1. blk' = blk /\ UNCHANGED sealed
    BY <1>3 DEF Becomes
  <2> QED
    BY <1>3, <2>1, StartImplements
<1>4. ASSUME KeepsLangSys, NEW b, NEW flag, Becomes(b, flag),
             \/ b = blk
             \/ \E s \in Scripts : b = Abs!AfterScript(blk, s)
             \/ \E l \in Langs, incl \in BOOLEAN : b = Abs!AfterLanguage(blk, l, incl)
             \/ b = Abs!AfterLookup(blk, BaseLab(curr'.label))
      PROVE  [Abs!Next]_<<DOMAIN langSysMap, RegSet, blk>>
  <2>1. HistInv /\ DOMAIN langSysMap' = DOMAIN langSysMap
    BY <1>4, SameLangSys DEF SideInv
  <2> QED
    BY <1>0, <1>4, <2>1, BlockStatementImplements
<1>5. ASSUME NEW k \in RuleKinds, HRule(k[1], k[2])
      PROVE  [Abs!Next]_<<DOMAIN langSysMap, RegSet, blk>>
  <2>1. RuleStmt(k[1], k[2])
    BY <1>5 DEF HRule
  <2>2. CASE UNCHANGED histVars
    BY <2>1, <2>2, InternalImplements
  <2>3. CASE Becomes(Abs!AfterLookup(blk, BaseLab(curr'.label)), saidFlag)
    <3>1. KeepsLangSys
      BY <2>1 DEF KeepsLangSys
    <3> QED
      BY <1>4, <2>3, <3>1
  <2> QED
    BY <1>5, <2>2, <2>3 DEF HRule
<1>6. CASE \E n \in Names : StartLookup(n) /\ Becomes(blk, 0)
  BY <1>4, <1>6 DEF KeepsLangSys
<1>7. CASE \E s \in Scripts : ScriptStmt(s) /\ Becomes(Abs!AfterScript(blk, s), 0)
  BY <1>4, <1>7 DEF KeepsLangSys
<1>8. CASE \E l \in Langs, incl \in BOOLEAN :
               LanguageStmt(l, incl) /\ Becomes(Abs!AfterLanguage(blk, l, incl), saidFlag)
  BY <1>4, <1>8 DEF KeepsLangSys
<1>9. CASE \E v \in Flags : LookupFlagStmt(v) /\ Becomes(blk, v)
  BY <1>4, <1>9 DEF KeepsLangSys
<1>10. CASE \E n \in Names :
                /\ UseLookup(n)
                /\ Becomes(Abs!AfterLookup(blk, BaseLab(curr'.label)), curr'.lkpFlag)
  BY <1>4, <1>10 DEF KeepsLangSys
<1>11. CASE HEndBlock
  BY <1>11, EndImplements
<1>12. CASE Internal /\ UNCHANGED histVars
  BY <1>12, InternalImplements
<1> QED
  BY <1>1, <1>2, <1>3, <1>5, <1>6, <1>7, <1>8, <1>9, <1>10, <1>11, <1>12 DEF HNext

\* Every lookup is registered where the statements say, through labels, runs, references
\* and the loops of includeDFLT and registerFeatureLangSys: FeatCtx implements FeatLangSys,
\* for every set of features, scripts, languages and names, in files of the usual forms,
\* without positioning rules in aalt, in which the first language system is the default one
\* of its script.
THEOREM ImplementsFeatLangSys ==
    ASSUME Forms = {}, NoAaltRules
    PROVE  HSpec /\ []DefaultFirst => ImplementsLangSys
<1>1. HInit => Abs!Init
  <2> SUFFICES ASSUME HInit PROVE Abs!Init
    OBVIOUS
  <2>1. /\ blk = Abs!NoBlock /\ langSysMap = [ls \in {} |-> FALSE]
        /\ sealed = [tbl \in Tables |-> 0]
    BY DEF HInit, Init
  <2>2. \A tbl \in Tables : 1 .. sealed[tbl] = {}
    BY <2>1
  <2>3. \A d : ~Sealed(layout, sealed, d)
    BY <2>2 DEF Sealed
  <2>4. RegSet = {} /\ DOMAIN langSysMap = {}
    BY <2>1, <2>3, RegSetIs
  <2> QED
    BY <2>1, <2>4 DEF Abs!Init, RegSet
<1>2. CtxInv /\ SideInv /\ DefaultFirst /\ CtxInv' /\ [HNext]_allVars
          => [Abs!Next]_<<DOMAIN langSysMap, RegSet, blk>>
  BY StepImplements DEF CtxInv
<1> QED
  BY <1>1, <1>2, SideInvariant, PTL DEF HSpec, ImplementsLangSys, Abs!Spec, RegSet

-----------------------------------------------------------------------------
(* The lookup that a rule is in *)

\* What a lookup, open or finished, says of its rules
HomeOf(tbl, s) == [tbl |-> tbl, lkpType |-> s.lkpType, lkpFlag |-> s.lkpFlag,
                   label |-> BaseLab(s.label)]

\* Rule r is in a subtable of the lookup h, or the lookup of state p, which is open, is h.
InTable(lay, r, h) ==
    \E tbl \in Tables : \E k \in 1 .. Len(lay[tbl].subtables) :
        r \in lay[tbl].subtables[k].rules /\ h = HomeOf(tbl, lay[tbl].subtables[k])

Lives(lay, p, r, h) ==
    InTable(lay, r, h) \/ (p.tbl # UNDEF /\ r \in lay[p.tbl].new.rules /\ h = HomeOf(p.tbl, p))

\* The subtables alone decide what is in the tables.
LEMMA SameSubsHomes ==
    ASSUME NEW a, NEW b, SameSubs(a, b)
    PROVE  \A r, h : InTable(b, r, h) <=> InTable(a, r, h)
<1>1. \A tbl \in Tables : b[tbl].subtables = a[tbl].subtables
  BY DEF SameSubs
<1> QED
  BY <1>1 DEF InTable

\* A subtable that is added brings its rules.
LEMMA AppendedHomes ==
    ASSUME NEW a \in LayoutType, NEW b, NEW tbl \in Tables, NEW s \in SubtableType,
           Appended(a, b, tbl, s)
    PROVE  \A r, h : InTable(b, r, h) <=> \/ InTable(a, r, h)
                                          \/ r \in s.rules /\ h = HomeOf(tbl, s)
<1> DEFINE subs == a[tbl].subtables
<1>1. subs \in Seq(SubtableType)
  BY DEF LayoutType
<1>2. b[tbl].subtables = Append(subs, s) /\ \A t \in Tables : t # tbl => b[t].subtables = a[t].subtables
  BY DEF Appended
<1>3. /\ Len(Append(subs, s)) = Len(subs) + 1 /\ Len(subs) \in Nat
      /\ \A k \in 1 .. Len(subs) : Append(subs, s)[k] = subs[k]
      /\ Append(subs, s)[Len(subs) + 1] = s
  BY <1>1, AppendProperties, LenProperties
<1> SUFFICES ASSUME NEW r, NEW h
             PROVE  InTable(b, r, h) <=> InTable(a, r, h) \/ (r \in s.rules /\ h = HomeOf(tbl, s))
  OBVIOUS
<1>4. (\E k \in 1 .. Len(b[tbl].subtables) :
          r \in b[tbl].subtables[k].rules /\ h = HomeOf(tbl, b[tbl].subtables[k]))
      <=> \/ \E k \in 1 .. Len(subs) : r \in subs[k].rules /\ h = HomeOf(tbl, subs[k])
          \/ r \in s.rules /\ h = HomeOf(tbl, s)
  <2> HIDE DEF subs
  <2> QED
    BY <1>2, <1>3
<1>5. ASSUME NEW t \in Tables, t # tbl
      PROVE  (\E k \in 1 .. Len(b[t].subtables) :
                 r \in b[t].subtables[k].rules /\ h = HomeOf(t, b[t].subtables[k]))
             <=> \E k \in 1 .. Len(a[t].subtables) :
                    r \in a[t].subtables[k].rules /\ h = HomeOf(t, a[t].subtables[k])
  <2>1. b[t].subtables = a[t].subtables
    BY <1>2, <1>5
  <2> QED
    BY <2>1
<1> QED
  BY <1>4, <1>5 DEF InTable

\* The rules of the lookup that ends stay in it.
LEMMA CloseHomes ==
    ASSUME TypeOK, ~hadError, OpenAs(layout, prev), NEW r, NEW h,
           InTable(CloseRun(prev), r, h)
    PROVE  Lives(layout, prev, r, h)
<1>0. layout \in LayoutType /\ hadError \in BOOLEAN /\ prev \in StateType
  BY DEF TypeOK, LayoutType
<1>1. CASE prev.tbl = UNDEF
  BY <1>1 DEF CloseRun, Lives
<1>2. CASE prev.tbl # UNDEF
  <2> DEFINE new == layout[prev.tbl].new
             lay == CloseRun(prev)
  <2>1. prev.tbl \in Tables
    BY <1>0, <1>2 DEF StateType
  <2>2. new \in SubtableType
    BY <1>0, <2>1 DEF LayoutType
  <2>3. Appended(layout, lay, prev.tbl, new)
    BY <1>0, <1>2, <2>1, LookupEndAppends DEF CloseRun
  <2>4. HomeOf(prev.tbl, new) = HomeOf(prev.tbl, prev)
    BY <1>2 DEF OpenAs, Where, HomeOf
  <2> HIDE DEF lay
  <2>5. InTable(layout, r, h) \/ (r \in new.rules /\ h = HomeOf(prev.tbl, new))
    <3> HIDE DEF new
    <3>1. InTable(lay, r, h)
      BY DEF lay
    <3> QED
      BY <1>0, <2>1, <2>2, <2>3, <3>1, AppendedHomes
  <2> QED
    BY <1>2, <2>4, <2>5 DEF Lives
<1> QED
  BY <1>1, <1>2

\* prepRule and wrapUpRule: the rules that are added are in the lookup of the new state, and
\* the rules before them stay where they are.
LEMMA PrepRuleHomes ==
    ASSUME TypeOK, ~hadError, OpenAs(layout, prev), NEW st \in StateType, NEW named,
           NEW rules, st.tbl \in Tables, PrepRule(st, named, rules), ~PrepFails(st, named),
           NEW r, NEW h, Lives(layout', prev', r, h)
    PROVE  \/ Lives(layout, prev, r, h)
           \/ rules # {} /\ r = ruleCnt + 1 /\ h = HomeOf(st.tbl, st)
<1>0. /\ layout \in LayoutType /\ hadError = FALSE /\ prev \in StateType /\ ruleCnt \in Nat
      /\ st.tbl # UNDEF /\ prev' = st
  BY DEF TypeOK, LayoutType, Tables, UNDEF, PrepRule
<1> DEFINE lay == OpenRun(st)
<1>1. lay \in LayoutType /\ (Lives(lay, st, r, h) => Lives(layout, prev, r, h))
  <2>1. CASE StartsRun(st)
    <3> DEFINE closed == CloseRun(prev)
    <3>1. closed \in LayoutType
      BY <1>0, CloseRunType
    <3>2. lay = LookupBegin(closed, st.tbl, st.script, st.language, st.feature,
                            st.lkpType, st.lkpFlag, st.label)
      BY <1>0, <2>1 DEF OpenRun
    <3>3. InTable(closed, r, h) => Lives(layout, prev, r, h)
      BY CloseHomes
    <3> HIDE DEF closed, lay
    <3>4. lay \in LayoutType
      BY <3>1, <3>2, LookupBeginType DEF StateType
    <3>5. lay[st.tbl].new.rules = {}
      BY <3>1, <3>2, BeginRules
    <3>6. SameSubs(closed, lay)
      BY <3>1, <3>2, LookupBeginShape DEF SameSubs
    <3>7. InTable(lay, r, h) => InTable(closed, r, h)
      BY <3>6, SameSubsHomes
    <3> QED
      BY <3>3, <3>4, <3>5, <3>7 DEF Lives
  <2>2. CASE ~StartsRun(st)
    <3>1. /\ lay = layout /\ prev.tbl = st.tbl /\ prev.lkpType = st.lkpType
          /\ prev.label = st.label /\ prev.lkpFlag = st.lkpFlag
      BY <2>2 DEF OpenRun, StartsRun, InRun, PrepFails
    <3>2. HomeOf(st.tbl, st) = HomeOf(prev.tbl, prev)
      BY <3>1 DEF HomeOf
    <3> HIDE DEF lay
    <3> QED
      BY <1>0, <3>1, <3>2 DEF Lives
  <2> QED
    BY <2>1, <2>2
<1> HIDE DEF lay
<1>2. CASE rules = {}
  <2>1. layout' = lay
    BY <1>2 DEF PrepRule, lay
  <2> QED
    BY <1>0, <1>1, <2>1
<1>3. CASE rules # {}
  <2>1. layout' = RuleAdd(lay, st.tbl, ruleCnt + 1, hadError)
    BY <1>3 DEF PrepRule, lay
  <2>2. lay \in LayoutType /\ hadError \in BOOLEAN
    BY <1>0, <1>1
  <2>3. SameSubs(lay, layout')
    <3>1. \A t \in Tables : layout'[t].subtables = lay[t].subtables
      BY <2>1, <2>2, RuleAddShape
    <3> QED
      BY <3>1 DEF SameSubs
  <2>4. layout'[st.tbl].new.rules = lay[st.tbl].new.rules \cup {ruleCnt + 1}
    BY <1>0, <2>1, <2>2, AddRules
  <2>5. InTable(layout', r, h) => InTable(lay, r, h)
    BY <2>3, SameSubsHomes
  <2>6. Lives(layout', st, r, h)
    BY <1>0
  <2>7. Lives(lay, st, r, h) \/ (r = ruleCnt + 1 /\ h = HomeOf(st.tbl, st))
    BY <2>4, <2>5, <2>6 DEF Lives
  <2> QED
    BY <1>1, <1>3, <2>7
<1> QED
  BY <1>2, <1>3

-----------------------------------------------------------------------------
(* The invariant *)

\* While registration runs, no lookup is open.
Housed(r, h) == Lives(layout, IF pc = "register" THEN NoState ELSE prev, r, h)

\* What ruleLog holds of a rule
LogType == [tbl : Tables, lkpType : LkpTypes, lkpFlag : Nat,
            scope : {<<>>} \cup {<<lab>> : lab \in Label}
                    \cup (Features \X Scripts \X Langs \X BOOLEAN)]

\* A rule is in a lookup of its table, type and flag, and in the lookup of its named block.
AsSaid(e, h) ==
    /\ e.tbl = h.tbl /\ e.lkpType = h.lkpType /\ e.lkpFlag = h.lkpFlag
    /\ h.label < FEAT_ANON_LKP_BEG => e.scope = <<h.label>>

\* Log entry e was made under the feature, script and language of prev, before the first
\* script or language statement (top) or after it.  Where the next rule would go on with the
\* lookup of prev, top is still what the block says.
OfRun(e) ==
    \E top \in BOOLEAN :
        /\ e.scope = <<prev.feature, prev.script, prev.language, top>>
        /\ top => prev.language = "dflt"
        /\ prev.script = curr.script /\ prev.language = curr.language => (top <=> blk.atTop)

\* If the next rule may go on with the lookup of prev, its rules are those of one run.
RunScope ==
    prev.tbl # UNDEF /\ pc # "register" /\ ~endOfNamedLkpOrRef /\ currNamedLkp = LAB_UNDEF =>
        /\ BaseLab(prev.label) \in FEAT_ANON_LKP_BEG .. anonLabelCnt - 1
        /\ \A r, h : Housed(r, h) /\ h.label = BaseLab(prev.label) => OfRun(ruleLog[r])

LogInv ==
    /\ ruleLog \in Seq(LogType) /\ Len(ruleLog) = ruleCnt
    /\ \A r, h : Housed(r, h) => /\ r \in 1 .. ruleCnt
                                 /\ h.label \in 0 .. anonLabelCnt - 1
                                 /\ AsSaid(ruleLog[r], h)
    /\ \A q, r, g, h : Housed(q, g) /\ Housed(r, h) /\ g.label = h.label =>
                           ruleLog[q].scope = ruleLog[r].scope

MixInv == Going => LogInv /\ RunScope

\* A step that moves no rule to another lookup
LEMMA FrameMix ==
    ASSUME MixInv, TypeOK, TypeOK', Going, UNCHANGED <<ruleLog, ruleCnt>>,
           anonLabelCnt <= anonLabelCnt', \A r, h : Housed(r, h)' => Housed(r, h), RunScope'
    PROVE  MixInv'
<1>1. anonLabelCnt \in Nat /\ anonLabelCnt' \in Nat
  <2>1. /\ anonLabelCnt \in FEAT_ANON_LKP_BEG .. FEAT_ANON_LKP_END + 1
        /\ anonLabelCnt' \in FEAT_ANON_LKP_BEG .. FEAT_ANON_LKP_END + 1
    BY DEF TypeOK
  <2> QED
    BY <2>1, LabelAssumption DEF FEAT_ANON_LKP_BEG
<1>2. LogInv
  BY DEF MixInv
<1>3. \A r, h : Housed(r, h)' => Housed(r, h)
  OBVIOUS
<1>4. ruleLog' = ruleLog /\ ruleCnt' = ruleCnt
  OBVIOUS
<1>5. \A r, h : Housed(r, h)' => /\ r \in 1 .. ruleCnt
                                 /\ h.label \in 0 .. anonLabelCnt' - 1
                                 /\ AsSaid(ruleLog[r], h)
  <2> SUFFICES ASSUME NEW r, NEW h, Housed(r, h)'
               PROVE  /\ r \in 1 .. ruleCnt /\ h.label \in 0 .. anonLabelCnt' - 1
                      /\ AsSaid(ruleLog[r], h)
    OBVIOUS
  <2>1. r \in 1 .. ruleCnt /\ h.label \in 0 .. anonLabelCnt - 1 /\ AsSaid(ruleLog[r], h)
    BY <1>2, <1>3 DEF LogInv
  <2> QED
    BY <1>1, <2>1
<1>6. \A q, r, g, h : Housed(q, g)' /\ Housed(r, h)' /\ g.label = h.label =>
                          ruleLog[q].scope = ruleLog[r].scope
  BY <1>2, <1>3, Zenon DEF LogInv
<1>7. LogInv'
  BY <1>2, <1>4, <1>5, <1>6 DEF LogInv
<1> QED
  BY <1>7 DEF MixInv

\* ... and that leaves the run as it is
LEMMA FrameRun ==
    ASSUME RunScope, \A r, h : Housed(r, h)' => Housed(r, h),
           prev'.tbl # UNDEF /\ pc' # "register" /\ ~endOfNamedLkpOrRef' /\ currNamedLkp' = LAB_UNDEF =>
               /\ pc # "register" /\ currNamedLkp = LAB_UNDEF
               /\ UNCHANGED <<prev, endOfNamedLkpOrRef, anonLabelCnt, ruleLog, blk>>
               /\ curr'.script = curr.script /\ curr'.language = curr.language
    PROVE  RunScope'
<1> SUFFICES ASSUME prev'.tbl # UNDEF, pc' # "register", ~endOfNamedLkpOrRef',
                    currNamedLkp' = LAB_UNDEF
             PROVE  /\ BaseLab(prev'.label) \in FEAT_ANON_LKP_BEG .. anonLabelCnt' - 1
                    /\ \A r, h : Housed(r, h)' /\ h.label = BaseLab(prev'.label) => OfRun(ruleLog[r])'
  BY DEF RunScope
<1>1. /\ UNCHANGED <<prev, anonLabelCnt, ruleLog, blk>>
      /\ curr'.script = curr.script /\ curr'.language = curr.language
  OBVIOUS
<1>2. /\ BaseLab(prev.label) \in FEAT_ANON_LKP_BEG .. anonLabelCnt - 1
      /\ \A r, h : Housed(r, h) /\ h.label = BaseLab(prev.label) => OfRun(ruleLog[r])
  BY DEF RunScope
<1>3. \A r : OfRun(ruleLog[r]) => OfRun(ruleLog[r])'
  BY <1>1 DEF OfRun
<1> QED
  BY <1>1, <1>2, <1>3

-----------------------------------------------------------------------------
(* No step but a rule puts a rule into a lookup. *)

\* Where no lookup is open, the tables say it all.
LEMMA NotOpen == \A lay, r, h : Lives(lay, NoState, r, h) => InTable(lay, r, h)
  BY DEF Lives, NoState

\* The end of a block puts the rules of the open lookup into the table.
LEMMA BeginRegisterHomes ==
    ASSUME TypeOK, ~hadError, OpenAs(layout, prev), BeginRegister, pc = "stmt",
           layout' = CloseRun(prev), NEW r, NEW h, Housed(r, h)'
    PROVE  Housed(r, h)
<1>1. pc' = "register"
  BY DEF BeginRegister
<1>2. Lives(layout', NoState, r, h)
  BY <1>1 DEF Housed
<1>3. InTable(CloseRun(prev), r, h)
  BY <1>2, NotOpen
<1> QED
  BY <1>3, CloseHomes DEF Housed

\* Registration refers to lookups and moves no rule.
LEMMA RegisterLookupHomes ==
    ASSUME IInv, ~hadError, RegisterLookup, NEW r, NEW h, Housed(r, h)'
    PROVE  Housed(r, h)
<1> DEFINE ls == FirstOf(regTodo)
           lkp == lookup[regPos]
           tbl == RegTable(lkp)
           begun == LookupBegin(layout, tbl, ls[1], ls[2], curr.feature,
                                lkp.lkpType, lkp.lkpFlag, RefLab(lkp.label))
<1>0. /\ TypeOK /\ curr \in StateType /\ lookup \in Seq(LookupInfoType)
      /\ layout \in LayoutType /\ hadError = FALSE /\ regPos \in Nat \ {0}
  BY DEF IInv, TypeOK, LayoutType
<1>1. regPos \in 1 .. Len(lookup)
  BY <1>0 DEF RegisterLookup
<1>2. lkp \in LookupInfoType /\ tbl \in Tables
  BY <1>0, <1>1, ElementOfSeq DEF RegTable, Tables
<1>3. layout' = LookupEnd(begun, tbl, hadError) /\ pc = "register" /\ pc' = "register"
  BY DEF RegisterLookup
<1>4. ls[1] \in Scripts /\ ls[2] \in Langs
  <2>1. regTodo \subseteq LangSys /\ regTodo # {}
    BY DEF RegisterLookup, IInv, TypeOK
  <2>2. FirstOf(regTodo) \in Scripts \X Langs
    BY <2>1, FirstOfMember DEF LangSys
  <2> QED
    BY <2>2
<1>5. /\ RefLab(lkp.label) \in Label /\ lkp.lkpType \in LkpTypes /\ lkp.lkpFlag \in Nat
      /\ curr.feature \in Features \cup {UNDEF, STAND_ALONE}
  BY <1>0, <1>2, RefLabProperties DEF LookupInfoType, StateType
<1> HIDE DEF ls, lkp, tbl
<1>6. begun \in LayoutType
  BY <1>0, <1>2, <1>4, <1>5, LookupBeginType
<1>7. SameSubs(layout, begun) /\ begun[tbl].new.rules = {}
  BY <1>0, <1>2, LookupBeginShape, BeginRules DEF SameSubs
<1> HIDE DEF begun
<1> DEFINE new == begun[tbl].new
<1>8. Appended(begun, layout', tbl, new) /\ new \in SubtableType
  BY <1>0, <1>2, <1>3, <1>6, LookupEndAppends DEF LayoutType
<1>9. new.rules = {}
  BY <1>7
<1> HIDE DEF new
<1>10. InTable(layout', r, h)
  <2>1. Lives(layout', NoState, r, h)
    BY <1>3 DEF Housed
  <2> QED
    BY <2>1, NotOpen
<1>11. InTable(begun, r, h)
  BY <1>2, <1>6, <1>8, <1>9, <1>10, AppendedHomes
<1>12. InTable(layout, r, h)
  BY <1>7, <1>11, SameSubsHomes
<1> QED
  BY <1>12 DEF Housed, Lives

\* A reference adds no rule, and ends the run.
LEMMA RefStepHomes ==
    ASSUME IInv, NamedInv, ~hadError, OpenAs(layout, prev), NEW st, RefStep(st)
    PROVE  /\ \A r, h : Housed(r, h)' => Housed(r, h)
           /\ endOfNamedLkpOrRef' = TRUE /\ ruleCnt' = ruleCnt
           /\ anonLabelCnt' = anonLabelCnt
<1> DEFINE ref == Reference(st)
<1>1. /\ ref \in StateType /\ ref.tbl = st.tbl /\ IsRefLab(ref.label)
      /\ PrepRule(ref, ref.label, {}) /\ ~PrepFails(ref, ref.label)
  BY ReferenceState
<1>2. /\ st.tbl \in Tables /\ pc \in {"stmt", "include"} /\ pc' = pc
      /\ endOfNamedLkpOrRef' = TRUE /\ ruleCnt' = ruleCnt
  BY DEF RefStep, CallLkp
<1> HIDE DEF ref
<1>3. ASSUME NEW r, NEW h, Housed(r, h)' PROVE Housed(r, h)
  <2>1. TypeOK
    BY DEF IInv
  <2>2. Lives(layout', prev', r, h)
    BY <1>2, <1>3 DEF Housed
  <2>3. Lives(layout, prev, r, h)
    BY <1>1, <1>2, <2>1, <2>2, PrepRuleHomes
  <2> QED
    BY <1>2, <2>3 DEF Housed
<1>4. anonLabelCnt' = anonLabelCnt
  BY <1>1 DEF PrepRule, AnonLabelsAfter, NeedsAnonLabel, IsRefLab
<1> QED
  BY <1>2, <1>3, <1>4

-----------------------------------------------------------------------------
(* The statements between rules *)

\* Without another rule, a run is gone on with only under its own script and language, and
\* never across the first script or language statement.
LEMMA ScopeRun ==
    ASSUME RunScope, UNCHANGED <<prev, endOfNamedLkpOrRef, currNamedLkp, anonLabelCnt, ruleLog>>,
           pc # "register", \A r, h : Housed(r, h)' => Housed(r, h), blk'.atTop = FALSE,
           prev.tbl # UNDEF /\ prev.script = curr'.script => curr'.language # "dflt"
    PROVE  RunScope'
<1> SUFFICES ASSUME prev'.tbl # UNDEF, pc' # "register", ~endOfNamedLkpOrRef',
                    currNamedLkp' = LAB_UNDEF
             PROVE  /\ BaseLab(prev'.label) \in FEAT_ANON_LKP_BEG .. anonLabelCnt' - 1
                    /\ \A r, h : Housed(r, h)' /\ h.label = BaseLab(prev'.label) => OfRun(ruleLog[r])'
  BY DEF RunScope
<1>1. /\ BaseLab(prev.label) \in FEAT_ANON_LKP_BEG .. anonLabelCnt - 1
      /\ \A r, h : Housed(r, h) /\ h.label = BaseLab(prev.label) => OfRun(ruleLog[r])
  BY DEF RunScope
<1>2. ASSUME NEW r, OfRun(ruleLog[r]) PROVE OfRun(ruleLog[r])'
  <2>1. PICK top \in BOOLEAN :
           /\ ruleLog[r].scope = <<prev.feature, prev.script, prev.language, top>>
           /\ top => prev.language = "dflt"
    BY <1>2 DEF OfRun
  <2>2. ruleLog'[r].scope = <<prev'.feature, prev'.script, prev'.language, top>>
    BY <2>1
  <2>3. top => prev'.language = "dflt"
    BY <2>1
  <2>4. prev'.script = curr'.script /\ prev'.language = curr'.language => ~top
    BY <2>1
  <2> QED
    BY <2>2, <2>3, <2>4 DEF OfRun
<1> QED
  BY <1>1, <1>2

\* A script statement names another script.
LEMMA ScriptMix ==
    ASSUME Forms = {}, CtxInv, TypeOK', Going, Going', SideInv, MixInv,
           NEW s \in Scripts, ScriptStmt(s), UNCHANGED ruleLog,
           blk' = IF blk.open THEN Abs!AfterScript(blk, s) ELSE blk
    PROVE  MixInv'
<1> DEFINE again == s = curr.script /\ prev.tbl # UNDEF
<1>0. TypeOK /\ RunScope
  BY DEF CtxInv, IInv, MixInv
<1>1. /\ pc = "stmt" /\ pc' = "stmt" /\ nest # "file" /\ AllowedScope(again)
      /\ UNCHANGED <<prev, layout, endOfNamedLkpOrRef, currNamedLkp, anonLabelCnt, ruleCnt>>
  BY DEF ScriptStmt, Ready
<1>2. /\ blk.open /\ blk \in BlockType /\ BlockScope /\ curr \in StateType /\ ~again
  BY <1>1, ScopeStatement
<1>3. \A r, h : Housed(r, h)' => Housed(r, h)
  BY <1>1 DEF Housed
<1>4. prev.tbl # UNDEF => prev.script # curr'.script
  <2> SUFFICES ASSUME prev.tbl # UNDEF PROVE prev.script # curr'.script
    OBVIOUS
  <2>1. s # curr.script
    BY <1>2
  <2>2. s \notin script /\ curr' = [curr EXCEPT !.script = s, !.language = "dflt", !.lkpFlag = 0]
    BY <2>1 DEF ScriptStmt, Going
  <2>3. curr'.script = s
    BY <1>2, <2>2 DEF StateType
  <2> QED
    BY <1>2, <2>2, <2>3 DEF BlockScope
<1>5. blk'.atTop = FALSE
  BY <1>2, AfterScriptFields
<1>6. RunScope'
  BY <1>0, <1>1, <1>3, <1>4, <1>5, ScopeRun
<1>7. anonLabelCnt <= anonLabelCnt'
  <2>1. anonLabelCnt \in FEAT_ANON_LKP_BEG .. FEAT_ANON_LKP_END + 1
    BY <1>0 DEF TypeOK
  <2>2. anonLabelCnt' = anonLabelCnt
    BY <1>1
  <2> QED
    BY <2>1, <2>2, LabelAssumption DEF FEAT_ANON_LKP_BEG
<1> QED
  BY <1>0, <1>1, <1>3, <1>6, <1>7, FrameMix

\* A language statement leaves the default language, unless nothing was said of it yet.
LEMMA LanguageMix ==
    ASSUME Forms = {}, CtxInv, TypeOK', Going, Going', SideInv, MixInv,
           NEW l \in Langs, NEW incl \in BOOLEAN, LanguageStmt(l, incl), UNCHANGED ruleLog,
           blk' = IF blk.open THEN Abs!AfterLanguage(blk, l, incl) ELSE blk
    PROVE  MixInv'
<1> DEFINE same == l = curr.language
           again == same /\ DFLTLkps # <<>>
<1>0. TypeOK /\ RunScope /\ DFLTLkps \in Seq(StateType)
  BY DEF CtxInv, IInv, MixInv, TypeOK
<1>1. /\ pc = "stmt" /\ pc' # "register" /\ nest # "file" /\ AllowedScope(again)
      /\ UNCHANGED <<prev, layout, endOfNamedLkpOrRef, currNamedLkp, anonLabelCnt, ruleCnt>>
  BY DEF LanguageStmt, Ready
<1>2. /\ blk.open /\ blk \in BlockType /\ Defaults /\ curr \in StateType /\ ~again
  BY <1>1, ScopeStatement
<1>3. \A r, h : Housed(r, h)' => Housed(r, h)
  BY <1>1 DEF Housed
<1>4. prev.tbl # UNDEF /\ prev.script = curr'.script => curr'.language # "dflt"
  <2>1. IF same THEN curr' = curr ELSE l # "dflt" /\ curr' = [curr EXCEPT !.language = l]
    BY DEF LanguageStmt, Going
  <2>2. CASE ~same
    <3>1. curr'.language = l
      BY <1>2, <2>1, <2>2 DEF StateType
    <3> QED
      BY <2>1, <2>2, <3>1
  <2>3. CASE same
    <3>1. DFLTLkps = <<>>
      BY <1>2, <2>3
    <3>2. Len(DFLTLkps) = 0
      BY <3>1
    <3>3. ~(prev.tbl # UNDEF /\ prev.script = curr.script /\ curr.language = "dflt")
      BY <1>2, <3>2 DEF Defaults
    <3> QED
      BY <2>1, <2>3, <3>3
  <2> QED
    BY <2>2, <2>3
<1>5. blk'.atTop = FALSE
  <2>1. blk' = Abs!AfterLanguage(blk, l, incl)
    BY <1>2
  <2>2. Abs!AfterLanguage(blk, l, incl).atTop = FALSE
    BY <1>2 DEF Abs!AfterLanguage, BlockType
  <2> QED
    BY <2>1, <2>2
<1>6. RunScope'
  BY <1>0, <1>1, <1>3, <1>4, <1>5, ScopeRun
<1>7. anonLabelCnt <= anonLabelCnt'
  <2>1. anonLabelCnt \in FEAT_ANON_LKP_BEG .. FEAT_ANON_LKP_END + 1
    BY <1>0 DEF TypeOK
  <2>2. anonLabelCnt' = anonLabelCnt
    BY <1>1
  <2> QED
    BY <2>1, <2>2, LabelAssumption DEF FEAT_ANON_LKP_BEG
<1> QED
  BY <1>0, <1>1, <1>3, <1>6, <1>7, FrameMix

-----------------------------------------------------------------------------
(* Rules *)

\* A rule outside of lookup blocks is in the feature, script and language of the block.
LEMMA AnonScope ==
    ASSUME CtxInv, Going, SideInv, NEW st, NEW named, NEW rules, Adds(st, named, rules),
           currNamedLkp = LAB_UNDEF
    PROVE  /\ blk.open /\ blk \in BlockType /\ BlockScope
           /\ blk.feature = st.feature /\ blk.script = st.script /\ blk.language = st.language
<1>0. TypeOK /\ HistInv /\ ScopeInv /\ NamedInv /\ BlockInv
  BY DEF CtxInv, IInv, SideInv, NamedInv, Going
<1>1. ~InBlock
  <2> SUFFICES ASSUME InBlock PROVE FALSE
    OBVIOUS
  <2>1. namedLkp # <<>> /\ currNamedLkp = Len(namedLkp) - 1
    BY <1>0 DEF BlockInv
  <2>2. namedLkp \in Seq(NamedLkpType)
    BY <1>0 DEF TypeOK
  <2>3. Len(namedLkp) \in 1 .. Len(namedLkp)
    BY <2>1, <2>2
  <2>4. Len(namedLkp) - 1 # LAB_UNDEF
    BY <1>0, <2>3, NamedNotUndef
  <2> QED
    BY <2>1, <2>4
<1>2. nest = "feature"
  BY <1>0, <1>1 DEF TypeOK, InBlock, Adds
<1>3. blk.open /\ BlockScope
  BY <1>0, <1>2 DEF ScopeInv
<1>4. blk \in BlockType
  BY <1>0, <1>3 DEF HistInv, Abs!NoBlock
<1>5. st.script = curr.script /\ st.language = curr.language /\ st.feature = curr.feature
  BY <1>0, AddsWhere DEF Adds
<1> QED
  BY <1>3, <1>4, <1>5 DEF BlockScope

\* The label of a rule: that of its block, a new one, or that of a run of its own scope.
LEMMA RuleLabel ==
    ASSUME CtxInv, Going, SideInv, MixInv, NEW tbl \in Tables, NEW lkpType, NEW st,
           AddsRule(st, tbl, lkpType)
    PROVE  LET lab == BaseLab(st.label)
               said == Said(tbl, lkpType).scope
           IN  /\ lab \in 0 .. anonLabelCnt' - 1
               /\ IF currNamedLkp # LAB_UNDEF THEN lab < FEAT_ANON_LKP_BEG /\ said = <<lab>>
                  ELSE /\ lab \in FEAT_ANON_LKP_BEG .. anonLabelCnt' - 1
                       /\ said = <<st.feature, st.script, st.language, blk.atTop>>
               /\ \A r, h : Housed(r, h) /\ h.label = lab => ruleLog[r].scope = said
<1> DEFINE lab == BaseLab(st.label)
           said == Said(tbl, lkpType).scope
<1>0. /\ TypeOK /\ NamedInv /\ BlockInv /\ LogInv /\ RunScope
      /\ Adds(st, currNamedLkp, {ruleCnt + 1})
      /\ currNamedLkp = LAB_UNDEF /\ NeedsAnonLabel(st, currNamedLkp) => st.label = anonLabelCnt
  BY DEF CtxInv, IInv, SideInv, NamedInv, Going, MixInv, AddsRule
<1>1. /\ PrepRule(st, currNamedLkp, {ruleCnt + 1}) /\ ~PrepFails(st, currNamedLkp)
      /\ currNamedLkp # LAB_UNDEF => st.label = currNamedLkp
      /\ currNamedLkp = LAB_UNDEF /\ ~NeedsAnonLabel(st, currNamedLkp) => st.label = prev.label
      /\ st.tbl \in Tables
  BY <1>0 DEF Adds
<1>2. anonLabelCnt \in Nat /\ FEAT_ANON_LKP_BEG \in Nat /\ anonLabelCnt >= FEAT_ANON_LKP_BEG
  <2>1. anonLabelCnt \in FEAT_ANON_LKP_BEG .. FEAT_ANON_LKP_END + 1
    BY <1>0 DEF TypeOK
  <2> QED
    BY <2>1, LabelAssumption DEF FEAT_ANON_LKP_BEG
<1>3. anonLabelCnt' = IF NeedsAnonLabel(st, currNamedLkp) THEN anonLabelCnt + 1 ELSE anonLabelCnt
  BY <1>1 DEF PrepRule, AnonLabelsAfter
<1>4. CASE currNamedLkp # LAB_UNDEF
  <2>1. namedLkp # <<>> /\ currNamedLkp = Len(namedLkp) - 1 /\ Len(namedLkp) <= FEAT_NAMED_LKP_END
    BY <1>0, <1>4 DEF BlockInv, NamedInv
  <2>2. Len(namedLkp) \in Nat \ {0}
    <3>1. namedLkp \in Seq(NamedLkpType)
      BY <1>0 DEF TypeOK
    <3> QED
      BY <2>1, <3>1
  <2>3. BaseLab(Len(namedLkp) - 1) = Len(namedLkp) - 1
    BY <1>0, <2>2, NamedNotUndef
  <2>4. lab = currNamedLkp
    BY <1>1, <1>4, <2>1, <2>3
  <2>5. lab \in 0 .. FEAT_NAMED_LKP_END /\ lab < FEAT_ANON_LKP_BEG
    BY <2>1, <2>2, <2>4, LabelAssumption DEF FEAT_ANON_LKP_BEG
  <2>6. ~NeedsAnonLabel(st, currNamedLkp)
    BY <1>4 DEF NeedsAnonLabel
  <2>7. said = <<lab>>
    BY <1>4, <2>4 DEF Said
  <2> HIDE DEF lab, said
  <2>8. ASSUME NEW r, NEW h, Housed(r, h), h.label = lab PROVE ruleLog[r].scope = said
    <3>1. AsSaid(ruleLog[r], h)
      BY <1>0, <2>8, Zenon DEF LogInv
    <3>2. ruleLog[r].scope = <<h.label>>
      BY <2>5, <2>8, <3>1 DEF AsSaid
    <3> QED
      BY <2>7, <2>8, <3>2
  <2> QED
    BY <1>2, <1>3, <1>4, <2>5, <2>6, <2>7, <2>8, LabelAssumption DEF FEAT_ANON_LKP_BEG, lab, said
<1>5. CASE currNamedLkp = LAB_UNDEF
  <2>1. /\ blk.open /\ blk.feature = st.feature /\ blk.script = st.script
        /\ blk.language = st.language
    BY <1>0, <1>5, AnonScope
  <2>2. said = <<st.feature, st.script, st.language, blk.atTop>>
    BY <1>5, <2>1 DEF Said
  <2>3. CASE NeedsAnonLabel(st, currNamedLkp)
    <3>1. st.label = anonLabelCnt /\ ~(anonLabelCnt > FEAT_ANON_LKP_END)
      BY <1>0, <1>1, <1>5, <2>3 DEF PrepFails
    <3>2. lab = anonLabelCnt
      BY <1>2, <3>1, LabelAssumption DEF BaseLab
    <3>3. anonLabelCnt' = anonLabelCnt + 1
      BY <1>3, <2>3
    <3>4. \A r, h : Housed(r, h) => h.label \in 0 .. anonLabelCnt - 1
      BY <1>0, Zenon DEF LogInv
    <3> HIDE DEF lab, said
    <3>5. \A r, h : ~(Housed(r, h) /\ h.label = lab)
      BY <1>2, <3>2, <3>4
    <3>6. lab \in 0 .. anonLabelCnt' - 1 /\ lab \in FEAT_ANON_LKP_BEG .. anonLabelCnt' - 1
      BY <1>2, <3>2, <3>3
    <3> QED
      BY <1>5, <2>2, <3>5, <3>6 DEF lab, said
  <2>4. CASE ~NeedsAnonLabel(st, currNamedLkp)
    <3>1. st.label = prev.label /\ ~endOfNamedLkpOrRef /\ InRun(st)
      BY <1>1, <1>5, <2>4 DEF NeedsAnonLabel
    <3>2. /\ prev.tbl # UNDEF /\ prev.feature = st.feature /\ prev.script = st.script
          /\ prev.language = st.language
      BY <1>1, <3>1 DEF InRun, Tables, UNDEF
    <3>3. pc # "register" /\ st.script = curr.script /\ st.language = curr.language
      <4>1. ScopeInv
        BY DEF SideInv
      <4> QED
        BY <1>0, <4>1, AddsWhere DEF AddsRule
    <3>4. /\ lab \in FEAT_ANON_LKP_BEG .. anonLabelCnt - 1
          /\ \A r, h : Housed(r, h) /\ h.label = lab => OfRun(ruleLog[r])
      BY <1>0, <1>5, <3>1, <3>2, <3>3 DEF RunScope
    <3>5. ASSUME NEW r, OfRun(ruleLog[r]) PROVE ruleLog[r].scope = said
      <4>1. PICK top \in BOOLEAN :
               /\ ruleLog[r].scope = <<prev.feature, prev.script, prev.language, top>>
               /\ prev.script = curr.script /\ prev.language = curr.language => (top <=> blk.atTop)
        BY <3>5 DEF OfRun
      <4>2. blk.atTop \in BOOLEAN
        <5>1. blk \in BlockType
          BY <1>0, <1>5, AnonScope
        <5> QED
          BY <5>1 DEF BlockType
      <4>3. top = blk.atTop
        BY <3>2, <3>3, <4>1, <4>2
      <4> QED
        BY <2>2, <3>2, <4>1, <4>3
    <3> HIDE DEF lab, said
    <3>6. lab \in 0 .. anonLabelCnt' - 1 /\ lab \in FEAT_ANON_LKP_BEG .. anonLabelCnt' - 1
      BY <1>2, <1>3, <2>4, <3>4
    <3>7. \A r, h : Housed(r, h) /\ h.label = lab => ruleLog[r].scope = said
      BY <3>4, <3>5
    <3> QED
      BY <1>5, <2>2, <3>6, <3>7 DEF lab, said
  <2> QED
    BY <2>3, <2>4
<1> QED
  BY <1>4, <1>5

\* What is logged of a rule has the type of the log.
LEMMA SaidType ==
    ASSUME TypeOK, HistInv, NEW tbl \in Tables, NEW lkpType \in LkpTypes
    PROVE  Said(tbl, lkpType) \in LogType
<1>1. curr \in StateType /\ currNamedLkp \in Label
  BY DEF TypeOK
<1>2. curr.lkpFlag \in Nat
  BY <1>1 DEF StateType
<1>3. blk.open => blk \in BlockType
  BY DEF HistInv, Abs!NoBlock
<1>4. blk.open => <<blk.feature, blk.script, blk.language, blk.atTop>>
                      \in Features \X Scripts \X Langs \X BOOLEAN
  BY <1>3 DEF BlockType
<1> QED
  BY <1>1, <1>2, <1>4 DEF Said, LogType

\* A rule goes into a lookup of its scope.
LEMMA RuleMix ==
    ASSUME CtxInv, TypeOK', Going, SideInv, MixInv, DefaultFirst,
           NEW k \in RuleKinds, HRule(k[1], k[2]), NEW st, AddsRule(st, k[1], k[2])
    PROVE  MixInv'
<1> DEFINE n == ruleCnt + 1
           said == Said(k[1], k[2])
           own == HomeOf(st.tbl, st)
<1>0. /\ TypeOK /\ HistInv /\ ScopeInv /\ LogInv /\ RunScope /\ OpenAs(layout, prev)
      /\ Adds(st, currNamedLkp, {n}) /\ pc = "stmt" /\ ruleCnt' = n /\ ruleCnt \in Nat
  <2>1. TypeOK /\ HistInv /\ ScopeInv /\ RecordInv /\ LogInv /\ RunScope
    BY DEF CtxInv, IInv, SideInv, MixInv
  <2>2. /\ Adds(st, currNamedLkp, {n}) /\ pc = "stmt" /\ ruleCnt' = n
    BY DEF AddsRule
  <2> QED
    BY <2>1, <2>2 DEF RecordInv, TypeOK
<1>1. k[1] \in Tables /\ k[2] \in LkpTypes
  BY FeatAssumption DEF LkpTypes
<1>2. said \in LogType
  BY <1>0, <1>1, SaidType
<1>3. ruleLog \in Seq(LogType) /\ Len(ruleLog) = ruleCnt /\ ruleLog' = Append(ruleLog, said)
  BY <1>0 DEF LogInv, HRule
<1>4. /\ st \in StateType /\ st.tbl \in Tables /\ PrepRule(st, currNamedLkp, {n})
      /\ ~PrepFails(st, currNamedLkp) /\ pc' = pc /\ st.feature = curr.feature
      /\ st.script = curr.script /\ st.language = curr.language
  BY <1>0, AddsWhere DEF Adds
<1>5. own.tbl = k[1] /\ own.lkpType = k[2] /\ own.lkpFlag = curr.lkpFlag /\ own.label = BaseLab(st.label)
  BY DEF AddsRule, HomeOf
<1>6. /\ own.label \in 0 .. anonLabelCnt' - 1
      /\ IF currNamedLkp # LAB_UNDEF
         THEN own.label < FEAT_ANON_LKP_BEG /\ said.scope = <<own.label>>
         ELSE /\ own.label \in FEAT_ANON_LKP_BEG .. anonLabelCnt' - 1
              /\ said.scope = <<st.feature, st.script, st.language, blk.atTop>>
      /\ \A r, h : Housed(r, h) /\ h.label = own.label => ruleLog[r].scope = said.scope
  BY <1>1, <1>5, RuleLabel
<1>7. said.tbl = k[1] /\ said.lkpType = k[2] /\ said.lkpFlag = curr.lkpFlag
  BY DEF Said
<1>8. anonLabelCnt \in Nat /\ anonLabelCnt' \in Nat /\ anonLabelCnt <= anonLabelCnt'
      /\ FEAT_ANON_LKP_BEG \in Nat
  <2>1. anonLabelCnt \in FEAT_ANON_LKP_BEG .. FEAT_ANON_LKP_END + 1
    BY <1>0 DEF TypeOK
  <2>2. anonLabelCnt' \in {anonLabelCnt, anonLabelCnt + 1}
    BY <1>4 DEF PrepRule, AnonLabelsAfter
  <2> QED
    BY <2>1, <2>2, LabelAssumption DEF FEAT_ANON_LKP_BEG
<1>9. prev' = st /\ curr' = st
  BY <1>4 DEF PrepRule
<1> HIDE DEF said, own
<1>10. /\ ruleLog' \in Seq(LogType) /\ Len(ruleLog') = n /\ ruleLog'[n] = said
       /\ \A r \in 1 .. ruleCnt : ruleLog'[r] = ruleLog[r]
  BY <1>0, <1>2, <1>3, AppendProperties
<1>11. ASSUME NEW r, NEW h, Housed(r, h)' PROVE Housed(r, h) \/ (r = n /\ h = own)
  <2>1. Lives(layout', prev', r, h)
    BY <1>0, <1>4, <1>11 DEF Housed
  <2>2. Lives(layout, prev, r, h) \/ (r = n /\ h = own)
    BY <1>0, <1>4, <2>1, PrepRuleHomes DEF Going, own
  <2> QED
    BY <1>0, <2>2 DEF Housed
<1>12. ASSUME NEW r, NEW h, Housed(r, h)
       PROVE  /\ r \in 1 .. ruleCnt /\ h.label \in 0 .. anonLabelCnt - 1
              /\ AsSaid(ruleLog[r], h) /\ ruleLog'[r] = ruleLog[r]
  <2>1. r \in 1 .. ruleCnt /\ h.label \in 0 .. anonLabelCnt - 1 /\ AsSaid(ruleLog[r], h)
    BY <1>0, <1>12, Zenon DEF LogInv
  <2> QED
    BY <1>10, <2>1
<1>13. AsSaid(said, own)
  BY <1>5, <1>6, <1>7, <1>8 DEF AsSaid
<1>14. ASSUME NEW r, NEW h, Housed(r, h)'
       PROVE  r \in 1 .. n /\ h.label \in 0 .. anonLabelCnt' - 1 /\ AsSaid(ruleLog'[r], h)
  <2>1. CASE Housed(r, h)
    <3>1. /\ r \in 1 .. ruleCnt /\ h.label \in 0 .. anonLabelCnt - 1
          /\ AsSaid(ruleLog[r], h) /\ ruleLog'[r] = ruleLog[r]
      BY <1>12, <2>1
    <3> QED
      BY <1>0, <1>8, <3>1
  <2>2. CASE r = n /\ h = own
    <3>1. ruleLog'[r] = said
      BY <1>10, <2>2
    <3> QED
      BY <1>0, <1>6, <1>13, <2>2, <3>1
  <2> QED
    BY <1>11, <1>14, <2>1, <2>2
<1>15. ASSUME NEW r, NEW h, Housed(r, h)', h.label = own.label
       PROVE  ruleLog'[r].scope = said.scope
  <2>1. CASE Housed(r, h)
    BY <1>6, <1>12, <1>15, <2>1
  <2>2. CASE r = n
    BY <1>10, <2>2
  <2> QED
    BY <1>11, <1>15, <2>1, <2>2
<1>16. ASSUME NEW q, NEW r, NEW g, NEW h, Housed(q, g)', Housed(r, h)', g.label = h.label
       PROVE  ruleLog'[q].scope = ruleLog'[r].scope
  <2>1. CASE g.label = own.label
    BY <1>15, <1>16, <2>1
  <2>2. CASE g.label # own.label
    <3>1. Housed(q, g) /\ Housed(r, h)
      BY <1>11, <1>16, <2>2
    <3>2. ruleLog[q].scope = ruleLog[r].scope
      BY <1>0, <1>16, <3>1, Zenon DEF LogInv
    <3> QED
      BY <1>12, <3>1, <3>2
  <2> QED
    BY <2>1, <2>2
<1>17. LogInv'
  BY <1>0, <1>10, <1>14, <1>16, Zenon DEF LogInv
<1>18. RunScope'
  <2> SUFFICES ASSUME currNamedLkp' = LAB_UNDEF
               PROVE  /\ BaseLab(prev'.label) \in FEAT_ANON_LKP_BEG .. anonLabelCnt' - 1
                      /\ \A r, h : Housed(r, h)' /\ h.label = BaseLab(prev'.label) => OfRun(ruleLog[r])'
    BY DEF RunScope
  <2>1. currNamedLkp = LAB_UNDEF /\ BaseLab(prev'.label) = own.label
    BY <1>5, <1>9 DEF AddsRule
  <2>2. /\ own.label \in FEAT_ANON_LKP_BEG .. anonLabelCnt' - 1
        /\ said.scope = <<st.feature, st.script, st.language, blk.atTop>>
    BY <1>6, <2>1
  <2>3. blk.open /\ blk \in BlockType /\ BlockScope
    BY <1>0, <2>1, AnonScope
  <2>4. blk'.atTop = blk.atTop /\ blk.atTop \in BOOLEAN
    BY <1>0, <2>3, AddsBlock DEF BlockType
  <2>5. blk.atTop => st.language = "dflt"
    <3>1. DOMAIN langSysMap # {}
      BY <1>0, <2>3 DEF HistInv
    <3>2. First[2] = "dflt"
      BY <3>1 DEF DefaultFirst, First
    <3> QED
      BY <1>4, <2>3, <3>2 DEF BlockScope
  <2>6. ASSUME NEW r, ruleLog'[r].scope = said.scope PROVE OfRun(ruleLog[r])'
    <3>1. ruleLog'[r].scope = <<prev'.feature, prev'.script, prev'.language, blk.atTop>>
      BY <1>9, <2>2, <2>6
    <3>2. blk.atTop => prev'.language = "dflt"
      BY <1>9, <2>5
    <3> QED
      BY <2>4, <3>1, <3>2 DEF OfRun
  <2> QED
    BY <1>15, <2>1, <2>2, <2>6
<1> QED
  BY <1>17, <1>18 DEF MixInv

-----------------------------------------------------------------------------
(* The other steps *)

\* A step that leaves the tables and the open lookup alone, and the scope as well where a
\* rule may follow that goes on with that lookup
StaysMix ==
    /\ UNCHANGED <<layout, prev, ruleCnt, ruleLog, anonLabelCnt>>
    /\ pc' = "register" <=> pc = "register"
    /\ prev.tbl # UNDEF /\ pc # "register" /\ ~endOfNamedLkpOrRef' /\ currNamedLkp' = LAB_UNDEF =>
          /\ currNamedLkp = LAB_UNDEF /\ UNCHANGED <<endOfNamedLkpOrRef, blk>>
          /\ curr'.script = curr.script /\ curr'.language = curr.language

\* Such a step keeps the invariant.
LEMMA StayMix ==
    ASSUME MixInv, TypeOK, TypeOK', Going, StaysMix
    PROVE  MixInv'
<1>1. \A r, h : Housed(r, h)' => Housed(r, h)
  BY DEF StaysMix, Housed
<1>2. UNCHANGED <<ruleLog, ruleCnt, prev, anonLabelCnt>>
  BY DEF StaysMix
<1>3. RunScope
  BY DEF MixInv
<1>4. RunScope'
  BY <1>1, <1>2, <1>3, FrameRun DEF StaysMix
<1>5. anonLabelCnt <= anonLabelCnt'
  <2>1. anonLabelCnt \in FEAT_ANON_LKP_BEG .. FEAT_ANON_LKP_END + 1
    BY DEF TypeOK
  <2> QED
    BY <1>2, <2>1, LabelAssumption DEF FEAT_ANON_LKP_BEG
<1> QED
  BY <1>1, <1>2, <1>4, <1>5, FrameMix

\* The steps that stay
LEMMA StayingSteps ==
    ASSUME CtxInv, ScopeInv, Going, Going', UNCHANGED ruleLog,
           \/ /\ blk' = blk
              /\ \/ UNCHANGED vars \/ Finished \/ EndOfFile \/ IncludeDone \/ IncludeInvalidated
                 \/ \E s \in Scripts, l \in Langs : LangSystem(s, l)
                 \/ EndLookup /\ pc' = "stmt"
                 \/ \E n \in Names : StartLookup(n)
                 \/ \E v \in Flags : LookupFlagStmt(v)
                 \/ UNCHANGED <<pc, hadError, nest, ruleCnt, loopVars, globalVars, scopeVars,
                                labelVars, runVars>>
           \/ \E f \in Features : StartFeature(f)
           \/ \E n \in Names : StartStandAlone(n)
           \/ EndFeature /\ nest' = "file"
           \/ RegisterNextLangSys
    PROVE  StaysMix
<1>0. TypeOK /\ BlockInv /\ curr \in StateType
  BY DEF CtxInv, IInv, NamedInv, Going, TypeOK
<1>1. CASE blk' = blk /\ (UNCHANGED vars \/ Finished
                          \/ UNCHANGED <<pc, hadError, nest, ruleCnt, loopVars, globalVars,
                                         scopeVars, labelVars, runVars>>)
  <2>1. UNCHANGED <<layout, prev, ruleCnt, anonLabelCnt, pc, currNamedLkp, endOfNamedLkpOrRef, curr>>
    BY <1>1 DEF vars, Finished
  <2> QED
    BY <1>1, <2>1 DEF StaysMix
<1>2. CASE blk' = blk /\ EndOfFile
  BY <1>2 DEF EndOfFile, StaysMix
<1>3. CASE blk' = blk /\ IncludeDone
  BY <1>3 DEF IncludeDone, StaysMix
<1>4. CASE IncludeInvalidated
  BY <1>4 DEF IncludeInvalidated, Fatal, Going
<1>5. CASE blk' = blk /\ \E s \in Scripts, l \in Langs : LangSystem(s, l)
  BY <1>5 DEF LangSystem, Ready, StaysMix
<1>6. CASE blk' = blk /\ EndLookup /\ pc' = "stmt"
  <2>1. /\ pc = "stmt" /\ UNCHANGED <<layout, prev, ruleCnt, curr, anonLabelCnt>>
        /\ endOfNamedLkpOrRef' \/ UNCHANGED labelVars
    BY <1>6 DEF EndLookup, BeginRegister, Fatal, CloseNamedLkp
  <2> QED
    BY <1>6, <2>1 DEF StaysMix
<1>7. ASSUME blk' = blk, NEW n \in Names, StartLookup(n) PROVE StaysMix
  <2>1. /\ pc = "stmt" /\ pc' = "stmt" /\ nest = "feature"
        /\ UNCHANGED <<runVars, ruleCnt, endOfNamedLkpOrRef, anonLabelCnt>>
    BY <1>7 DEF StartLookup, Ready, Going
  <2>2. currNamedLkp = LAB_UNDEF
    BY <1>0, <2>1 DEF BlockInv, InBlock
  <2> QED
    BY <1>7, <2>1, <2>2 DEF StaysMix
<1>8. ASSUME blk' = blk, NEW v \in Flags, LookupFlagStmt(v) PROVE StaysMix
  <2>1. /\ pc = "stmt" /\ pc' = "stmt" /\ curr' = [curr EXCEPT !.lkpFlag = v]
        /\ UNCHANGED <<layout, prev, ruleCnt, labelVars>>
    BY <1>8 DEF LookupFlagStmt, Ready
  <2>2. curr'.script = curr.script /\ curr'.language = curr.language
    BY <1>0, <2>1 DEF StateType
  <2> QED
    BY <1>8, <2>1, <2>2 DEF StaysMix
<1>9. ASSUME NEW f \in Features, StartFeature(f) PROVE StaysMix
  <2>1. pc = "stmt" /\ nest = "file" /\ UNCHANGED <<pc, layout, prev, ruleCnt, labelVars>>
    BY <1>9, Zenon DEF StartFeature, Ready
  <2>2. prev.tbl = UNDEF
    BY <2>1 DEF ScopeInv
  <2> QED
    BY <2>1, <2>2 DEF StaysMix
<1>10. ASSUME NEW n \in Names, StartStandAlone(n) PROVE StaysMix
  <2>1. /\ pc = "stmt" /\ pc' = "stmt" /\ nest = "file"
        /\ UNCHANGED <<layout, prev, ruleCnt, anonLabelCnt>>
    BY <1>10 DEF StartStandAlone, Ready, Fatal, Going
  <2>2. prev.tbl = UNDEF
    BY <2>1 DEF ScopeInv
  <2> QED
    BY <2>1, <2>2 DEF StaysMix
<1>11. CASE EndFeature /\ nest' = "file"
  <2>1. /\ pc = "stmt" /\ pc' = "stmt" /\ curr.feature = "aalt"
        /\ UNCHANGED <<layout, prev, ruleCnt, labelVars>>
    BY <1>11 DEF EndFeature, BeginRegister
  <2>2. prev.tbl = UNDEF
    BY <2>1 DEF ScopeInv
  <2> QED
    BY <2>1, <2>2 DEF StaysMix
<1>12. CASE RegisterNextLangSys
  BY <1>12 DEF RegisterNextLangSys, StaysMix
<1> QED
  BY <1>1, <1>2, <1>3, <1>4, <1>5, <1>6, <1>7, <1>8, <1>9, <1>10, <1>11, <1>12

\* A step after which no rule goes on with the open lookup
LEMMA EndsRun ==
    ASSUME MixInv, TypeOK, TypeOK', Going, UNCHANGED <<ruleLog, ruleCnt, anonLabelCnt>>,
           \A r, h : Housed(r, h)' => Housed(r, h),
           endOfNamedLkpOrRef' = TRUE \/ pc' = "register" \/ prev'.tbl = UNDEF
    PROVE  MixInv'
<1>1. RunScope'
  BY DEF RunScope
<1>2. anonLabelCnt <= anonLabelCnt'
  <2>1. anonLabelCnt \in FEAT_ANON_LKP_BEG .. FEAT_ANON_LKP_END + 1 /\ anonLabelCnt' = anonLabelCnt
    BY DEF TypeOK
  <2> QED
    BY <2>1, LabelAssumption DEF FEAT_ANON_LKP_BEG
<1>3. UNCHANGED <<ruleLog, ruleCnt>>
  OBVIOUS
<1> QED
  BY <1>1, <1>2, <1>3, FrameMix

\* Lookup statements and language statements that include the defaults
LEMMA ReferenceMix ==
    ASSUME CtxInv, TypeOK', Going, Going', SideInv, MixInv, UNCHANGED ruleLog,
           IncludeNext \/ \E n \in Names : UseLookup(n)
    PROVE  MixInv'
<1>0. /\ IInv /\ IssuedInv /\ NamedInv /\ OpenRunInv /\ RefRunInv /\ ~hadError /\ ~hadError'
      /\ TypeOK
  BY DEF CtxInv, Going, IInv
<1>1. pc \in {"stmt", "include"}
  BY DEF IncludeNext, UseLookup, Ready
<1>2. \E st : RefStep(st)
  <2>1. \/ Fatal
        \/ RefStep(DFLTLkps[iter + 1])
        \/ \E i \in 1 .. Len(namedLkp) : RefStep(namedLkp[i].state)
    BY <1>0, ReferenceSteps
  <2>2. ~Fatal
    BY DEF Fatal, Going
  <2> QED
    BY <2>1, <2>2
<1>3. OpenAs(layout, prev)
  BY <1>1 DEF SideInv, RecordInv
<1>4. /\ \A r, h : Housed(r, h)' => Housed(r, h)
      /\ endOfNamedLkpOrRef' = TRUE /\ ruleCnt' = ruleCnt /\ anonLabelCnt' = anonLabelCnt
  BY <1>0, <1>2, <1>3, RefStepHomes
<1> QED
  BY <1>0, <1>4, EndsRun

\* The end of a block
LEMMA EndMix ==
    ASSUME Forms = {}, CtxInv, TypeOK', Going, Going', SideInv, MixInv, UNCHANGED ruleLog,
           \/ blk' = blk /\ (EndLookup \/ (EndFeature /\ nest' # "file"))
           \/ RegisterLookup
           \/ RegisterDone
    PROVE  MixInv'
<1>0. /\ IInv /\ NamedInv /\ OpenRunInv /\ ~hadError /\ TypeOK /\ ScopeInv /\ prev \in StateType
  BY DEF CtxInv, Going, IInv, SideInv, TypeOK
<1>1. CASE blk' = blk /\ (EndLookup \/ (EndFeature /\ nest' # "file"))
  <2>1. \/ BeginRegister /\ pc = "stmt" /\ layout' = CloseRun(prev)
        \/ Fatal
        \/ UNCHANGED <<layout, prev, ruleCnt, pc, hadError>>
    BY <1>0, <1>1, EndCloses
  <2>2. ~Fatal
    BY DEF Fatal, Going
  <2>3. CASE BeginRegister /\ pc = "stmt" /\ layout' = CloseRun(prev)
    <3>1. OpenAs(layout, prev)
      BY <2>3 DEF SideInv, RecordInv
    <3>2. \A r, h : Housed(r, h)' => Housed(r, h)
      BY <1>0, <2>3, <3>1, BeginRegisterHomes
    <3>3. pc' = "register" /\ UNCHANGED <<ruleCnt, anonLabelCnt>>
      BY <2>3 DEF BeginRegister
    <3> QED
      BY <1>0, <3>2, <3>3, EndsRun
  <2>4. CASE pc' = pc
    <3>1. pc = "stmt"
      BY <1>1 DEF EndLookup, EndFeature
    <3>2. EndFeature => nest' = "file" \/ pc' = "register"
      BY DEF EndFeature, BeginRegister
    <3>3. EndLookup /\ pc' = "stmt"
      BY <1>1, <2>4, <3>1, <3>2
    <3> QED
      BY <1>0, <1>1, <3>3, StayingSteps, StayMix
  <2> QED
    BY <2>1, <2>2, <2>3, <2>4
<1>2. CASE RegisterLookup
  <2>1. \A r, h : Housed(r, h)' => Housed(r, h)
    BY <1>0, <1>2, RegisterLookupHomes
  <2>2. pc' = "register" /\ UNCHANGED <<ruleCnt, anonLabelCnt>>
    BY <1>2 DEF RegisterLookup
  <2> QED
    BY <1>0, <2>1, <2>2, EndsRun
<1>3. CASE RegisterDone
  <2>1. /\ pc = "register" /\ pc' = "stmt" /\ prev' = [prev EXCEPT !.tbl = UNDEF]
        /\ UNCHANGED <<layout, ruleCnt, anonLabelCnt>>
    BY <1>3 DEF RegisterDone, Closed, CloseNamedLkp
  <2>2. prev'.tbl = UNDEF
    BY <1>0, <2>1 DEF StateType
  <2>3. \A r, h : Housed(r, h)' => Housed(r, h)
    BY <2>1, <2>2 DEF Housed, Lives
  <2> QED
    BY <1>0, <2>1, <2>2, <2>3, EndsRun
<1> QED
  BY <1>1, <1>2, <1>3

-----------------------------------------------------------------------------
(* The theorem *)

\* Every step keeps the log and the lookups together.
LEMMA NextMix ==
    ASSUME Forms = {}, NoAaltRules, CtxInv, SideInv, DefaultFirst, MixInv, IInv',
           [HNext]_allVars
    PROVE  MixInv'
<1>1. CASE ~Going'
  BY <1>1 DEF MixInv
<1>2. CASE Going'
  <2>0. TypeOK /\ TypeOK' /\ Going /\ Ok /\ ScopeInv
    <3>1. TypeOK /\ TypeOK'
      BY DEF CtxInv, IInv
    <3>2. Going
      BY <1>2, <3>1, GoingOn
    <3> QED
      BY <1>2, <3>1, <3>2 DEF Going, Ok, SideInv, TypeOK
  <2>1. \A b, flag : Becomes(b, flag) => blk' = IF blk.open THEN b ELSE blk
    BY <2>0 DEF Becomes
  <2>2. CASE UNCHANGED allVars
    <3>1. UNCHANGED vars /\ blk' = blk /\ UNCHANGED ruleLog
      BY <2>2 DEF allVars, histVars
    <3> QED
      BY <1>2, <2>0, <3>1, StayingSteps, StayMix
  <2>3. ASSUME NEW f \in Features, StartFeature(f), UNCHANGED ruleLog PROVE MixInv'
    BY <1>2, <2>0, <2>3, StayingSteps, StayMix
  <2>4. ASSUME NEW n \in Names, StartStandAlone(n) \/ StartLookup(n), Becomes(blk, 0),
               UNCHANGED ruleLog
        PROVE  MixInv'
    <3>1. blk' = blk
      BY <2>1, <2>4
    <3> QED
      BY <1>2, <2>0, <2>4, <3>1, StayingSteps, StayMix
  <2>5. ASSUME NEW s \in Scripts, ScriptStmt(s), Becomes(Abs!AfterScript(blk, s), 0),
               UNCHANGED ruleLog
        PROVE  MixInv'
    BY <1>2, <2>0, <2>1, <2>5, ScriptMix
  <2>6. ASSUME NEW l \in Langs, NEW incl \in BOOLEAN, LanguageStmt(l, incl),
               Becomes(Abs!AfterLanguage(blk, l, incl), saidFlag), UNCHANGED ruleLog
        PROVE  MixInv'
    BY <1>2, <2>0, <2>1, <2>6, LanguageMix
  <2>7. ASSUME NEW v \in Flags, LookupFlagStmt(v), Becomes(blk, v), UNCHANGED ruleLog
        PROVE  MixInv'
    <3>1. blk' = blk
      BY <2>1, <2>7
    <3> QED
      BY <1>2, <2>0, <2>7, <3>1, StayingSteps, StayMix
  <2>8. ASSUME NEW k \in RuleKinds, HRule(k[1], k[2]) PROVE MixInv'
    <3>1. \/ \E st : AddsRule(st, k[1], k[2])
          \/ UNCHANGED <<pc, hadError, nest, ruleCnt, loopVars, globalVars, scopeVars,
                         labelVars, runVars, histVars>>
      BY <1>2, <2>0, <2>8, RuleAdds
    <3>2. CASE \E st : AddsRule(st, k[1], k[2])
      BY <2>0, <2>8, <3>2, RuleMix
    <3>3. CASE UNCHANGED <<pc, hadError, nest, ruleCnt, loopVars, globalVars, scopeVars,
                           labelVars, runVars, histVars>>
      <4>1. /\ UNCHANGED <<pc, hadError, nest, ruleCnt, loopVars, globalVars, scopeVars,
                           labelVars, runVars>>
            /\ blk' = blk /\ UNCHANGED ruleLog
        BY <3>3 DEF histVars
      <4> QED
        BY <1>2, <2>0, <4>1, StayingSteps, StayMix
    <3> QED
      BY <3>1, <3>2, <3>3
  <2>9. ASSUME NEW n \in Names, UseLookup(n), UNCHANGED ruleLog PROVE MixInv'
    BY <1>2, <2>0, <2>9, ReferenceMix
  <2>10. CASE HEndBlock
    <3>1. UNCHANGED ruleLog /\ (RegisterDone \/ (EndFeature /\ nest' = "file"))
      BY <2>10 DEF HEndBlock
    <3>2. CASE RegisterDone
      BY <1>2, <2>0, <3>1, <3>2, EndMix
    <3>3. CASE EndFeature /\ nest' = "file"
      BY <1>2, <2>0, <3>1, <3>3, StayingSteps, StayMix
    <3> QED
      BY <3>1, <3>2, <3>3
  <2>11. CASE Internal /\ UNCHANGED histVars
    <3>0. blk' = blk /\ UNCHANGED ruleLog
      BY <2>11 DEF histVars
    <3>1. CASE IncludeNext
      BY <1>2, <2>0, <3>0, <3>1, ReferenceMix
    <3>2. CASE EndLookup \/ (EndFeature /\ nest' # "file") \/ RegisterLookup
      BY <1>2, <2>0, <3>0, <3>2, EndMix
    <3>3. CASE \/ EndOfFile \/ Finished \/ IncludeDone \/ IncludeInvalidated
               \/ RegisterNextLangSys
               \/ \E s \in Scripts, l \in Langs : LangSystem(s, l)
      BY <1>2, <2>0, <3>0, <3>3, StayingSteps, StayMix
    <3> QED
      BY <2>11, <3>1, <3>2, <3>3 DEF Internal
  <2> QED
    BY <2>2, <2>3, <2>4, <2>5, <2>6, <2>7, <2>8, <2>9, <2>10, <2>11 DEF HNext
<1> QED
  BY <1>1, <1>2

\* At the beginning there are no rules.
LEMMA InitMix == HInit => MixInv
<1> SUFFICES ASSUME HInit PROVE MixInv
  OBVIOUS
<1>1. /\ prev.tbl = UNDEF /\ ruleLog = <<>> /\ ruleCnt = 0
      /\ \A tbl \in Tables : layout[tbl].subtables = <<>>
  BY DEF HInit, Init, NoState, EmptyLayout
<1>2. \A r, h : ~Housed(r, h)
  BY <1>1 DEF Housed, Lives, InTable, NoState
<1>3. RunScope
  BY <1>1 DEF RunScope
<1>4. ruleLog \in Seq(LogType) /\ Len(ruleLog) = ruleCnt
  BY <1>1, EmptySeq
<1> QED
  BY <1>2, <1>3, <1>4 DEF MixInv, LogInv

\* Between blocks, the home of a rule is the lookup it is in.
LEMMA HousedAtHome ==
    ASSUME IInv, ConservedRun, ScopeInv, AtFileLevel, NEW r \in 1 .. ruleCnt
    PROVE  Housed(r, HomeOf(Home(r).tbl, Home(r).sub))
<1>1. pc # "register" /\ prev.tbl = UNDEF /\ ~hadError
  BY DEF AtFileLevel, ScopeInv, Going
<1>2. Held(layout, r)
  BY <1>1 DEF ConservedRun, Conserved, OpenRules
<1>3. \A p : p \in Places(r) <=> \E tbl \in Tables : \E k \in 1 .. Len(layout[tbl].subtables) :
                                    p = <<tbl, k>> /\ HeldAt(layout, tbl, k, r)
  BY PlacesAre
<1>4. Places(r) # {}
  BY <1>2, <1>3 DEF Held
<1> DEFINE p == CHOOSE p \in Places(r) : TRUE
<1>5. p \in Places(r)
  BY <1>4
<1> HIDE DEF p
<1>6. PICK tbl \in Tables : \E k \in 1 .. Len(layout[tbl].subtables) :
               p = <<tbl, k>> /\ HeldAt(layout, tbl, k, r)
  BY <1>3, <1>5
<1>7. PICK k \in 1 .. Len(layout[tbl].subtables) : p = <<tbl, k>> /\ HeldAt(layout, tbl, k, r)
  BY <1>6
<1>8. Home(r) = [tbl |-> p[1], sub |-> layout[p[1]].subtables[p[2]]]
  BY DEF Home, p
<1>9. Home(r).tbl = tbl /\ Home(r).sub = layout[tbl].subtables[k]
  BY <1>7, <1>8
<1>10. InTable(layout, r, HomeOf(Home(r).tbl, Home(r).sub))
  BY <1>7, <1>9 DEF InTable, HeldAt
<1> QED
  BY <1>1, <1>10 DEF Housed, Lives

\* The invariant says what the property asks.
LEMMA NotMixed ==
    ASSUME CtxInv, SideInv, ConservedRun, MixInv
    PROVE  NoMixedLookup
<1> SUFFICES ASSUME AtFileLevel PROVE NoMixedLookup
  BY DEF NoMixedLookup
<1>1. LogInv /\ ScopeInv /\ IInv
  BY DEF AtFileLevel, MixInv, Going, SideInv, CtxInv
<1>2. ASSUME NEW q \in 1 .. ruleCnt
      PROVE  LET h == Home(q)
             IN  /\ ruleLog[q].tbl = h.tbl
                 /\ ruleLog[q].lkpType = h.sub.lkpType /\ ruleLog[q].lkpFlag = h.sub.lkpFlag
                 /\ \A r \in 1 .. ruleCnt :
                       BaseLab(Home(r).sub.label) = BaseLab(h.sub.label) =>
                           ruleLog[q].scope = ruleLog[r].scope
  <2> DEFINE own(r) == HomeOf(Home(r).tbl, Home(r).sub)
  <2>1. \A r \in 1 .. ruleCnt : Housed(r, own(r))
    BY <1>1, HousedAtHome
  <2>2. \A r : /\ own(r).tbl = Home(r).tbl /\ own(r).label = BaseLab(Home(r).sub.label)
               /\ own(r).lkpType = Home(r).sub.lkpType /\ own(r).lkpFlag = Home(r).sub.lkpFlag
    BY DEF HomeOf
  <2> HIDE DEF own
  <2>3. AsSaid(ruleLog[q], own(q))
    BY <1>1, <2>1, Zenon DEF LogInv
  <2>4. ASSUME NEW r \in 1 .. ruleCnt, own(r).label = own(q).label
        PROVE  ruleLog[q].scope = ruleLog[r].scope
    <3>1. Housed(q, own(q)) /\ Housed(r, own(r)) /\ own(q).label = own(r).label
      BY <2>1, <2>4
    <3> QED
      BY <1>1, <3>1, Zenon DEF LogInv
  <2> QED
    BY <2>2, <2>3, <2>4 DEF AsSaid
<1> QED
  BY <1>2 DEF NoMixedLookup

\* Rules that differ in table, type or lookupflag, in the lookup block, or in feature, script
\* and language never share a lookup, nor do the rules before the first script or language
\* statement of a feature and those after it.  prepRule decides this rule by rule from the
\* state of the rule before; a lookup is only complete when the table is written.  For files
\* of the usual forms whose first language system is a default one, without positioning rules
\* in aalt.
THEOREM LookupsAreNotMixed ==
    ASSUME Forms = {}, NoAaltRules
    PROVE  HSpec /\ []DefaultFirst => []NoMixedLookup
<1>1. HInit => MixInv
  BY InitMix
<1>2. /\ CtxInv /\ SideInv /\ DefaultFirst /\ MixInv /\ [HNext]_allVars /\ CtxInv'
      => MixInv'
  BY NextMix DEF CtxInv
<1>3. HSpec /\ []DefaultFirst => [](CtxInv /\ SideInv)
  BY SideInvariant
<1>4. HSpec /\ []DefaultFirst => []MixInv
  BY <1>1, <1>2, <1>3, PTL DEF HSpec
<1>5. Spec => []ConservedRun
  BY RulesAreKept
<1>6. CtxInv /\ SideInv /\ ConservedRun /\ MixInv => NoMixedLookup
  BY NotMixed
<1> QED
  BY <1>3, <1>4, <1>5, <1>6, SpecOfFeatCtx, PTL

=============================================================================
