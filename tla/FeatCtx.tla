------------------------------- MODULE FeatCtx -------------------------------
(***************************************************************************)
(* The feature-file compiler (FeatCtx.cpp) at the level of statements: the *)
(* parser (FeatVisitor.cpp) hands it one statement at a time and it groups *)
(* rules into lookups, labels them, and registers the lookups under        *)
(* scripts and languages by driving GSUB and GPOS (LayoutTables).          *)
(*                                                                         *)
(* One action per statement.  The two handlers that loop, includeDFLT and  *)
(* registerFeatureLangSys, are one action per iteration: while they run,   *)
(* pc says so and no statement can be read.  useExtension and              *)
(* markSetIndex are left out: the first only selects a format, the second  *)
(* is treated exactly like lkpFlag, which stands for the pair.             *)
(***************************************************************************)
EXTENDS LayoutTables, FiniteSets

CONSTANTS
    Scripts,      \* script tags, "DFLT" among them
    Langs,        \* language tags, "dflt" among them
    Features,     \* feature tags
    Names,        \* names of lookup blocks
    RuleKinds,    \* pairs <<table, lookup type>> of the rules a file may hold
    Flags,        \* values of lookupflag statements
    TagRank,      \* the numeric order of script and language tags; dflt is four
                  \* spaces (otl.h) and sorts first
    Forms,        \* which unusual forms the files may take, see AllForms
    MaxStmts      \* bound: statements in a file

AllForms == {"emptyBlock",    \* a lookup block without a rule
             "emptyFeature",  \* a feature block without a rule or reference
             "blockLang",     \* script and language statements in lookup blocks
             "reopen",        \* several feature blocks with the same tag
             "again"}         \* naming the current script or language once more
                              \* after rules or defaults

STAND_ALONE == "STAND_ALONE"          \* TAG_STAND_ALONE
Restricted == {"aalt", "size"}        \* features with special treatment
LangSys == Scripts \X Langs

ASSUME FeatAssumption ==
    /\ "DFLT" \in Scripts /\ "dflt" \in Langs
    /\ STAND_ALONE \notin Scripts \cup Features
    /\ UNDEF \notin Scripts \cup Langs \cup Features
    /\ RuleKinds \subseteq Tables \X STRING
    /\ Flags \subseteq Nat
    /\ TagRank \in [Scripts \cup Langs -> Nat]
    /\ \A a, b \in Scripts \cup Langs : TagRank[a] = TagRank[b] => a = b
    /\ \A l \in Langs : TagRank["dflt"] =< TagRank[l]
    /\ Forms \subseteq AllForms
    /\ MaxStmts \in Nat

VARIABLES
    \* the parser, and the handler in progress
    nest,         \* "file" | "feature" | "block" (in a feature) | "alone" (top-level lookup)
    pc,           \* "stmt" | "include" | "register" | "done" | "fatal"
    stmts,        \* statements read
    ruleCnt,      \* rules read
    iter,         \* includeDFLT: position in DFLTLkps ...
    iterEnd,      \* ... and the end iterator the range-for loop computed at its start
    regTodo,      \* registerFeatureLangSys: language systems not yet done ...
    regPos,       \* ... and position in lookup for the first of them
    \* FeatCtx.h
    hadError,     \* g->hadError
    gFlags, fFlags,
    feature, script, language,    \* TagArrays: tags seen
    langSysMap,   \* language system -> "excluded from this feature" flag
    include_dflt,
    curr, prev,   \* State
    DFLTLkps,     \* the defaults of the current script
    lookup,       \* lookups to register under the other language systems
    namedLkp,     \* the lookup block with label i is element i + 1
    currNamedLkp, endOfNamedLkpOrRef, anonLabelCnt,
    layout        \* GSUB and GPOS

parserVars == <<nest, stmts, ruleCnt>>
loopVars == <<iter, iterEnd, regTodo, regPos>>
globalVars == <<gFlags, langSysMap, feature>>
scopeVars == <<fFlags, script, language, include_dflt>>
labelVars == <<namedLkp, currNamedLkp, endOfNamedLkpOrRef, anonLabelCnt>>
runVars == <<curr, prev, DFLTLkps, lookup, layout>>

vars == <<pc, hadError, parserVars, loopVars, globalVars, scopeVars, labelVars, runVars>>

-----------------------------------------------------------------------------
(* State *)

NoState == [script |-> UNDEF, language |-> UNDEF, feature |-> UNDEF, tbl |-> UNDEF,
            lkpType |-> UNDEF, lkpFlag |-> 0, label |-> LAB_UNDEF]

Init ==
    /\ nest = "file" /\ pc = "stmt" /\ stmts = 0 /\ ruleCnt = 0
    /\ iter = 0 /\ iterEnd = 0 /\ regTodo = {} /\ regPos = 1
    /\ hadError = FALSE
    /\ gFlags = {} /\ fFlags = {}
    /\ feature = {} /\ script = {} /\ language = {}
    /\ langSysMap = [ls \in {} |-> FALSE]
    /\ include_dflt = TRUE
    /\ curr = NoState /\ prev = NoState
    /\ DFLTLkps = <<>> /\ lookup = <<>> /\ namedLkp = <<>>
    /\ currNamedLkp = LAB_UNDEF /\ endOfNamedLkpOrRef = FALSE
    /\ anonLabelCnt = FEAT_ANON_LKP_BEG
    /\ layout = EmptyLayout

\* LangSys::operator<, the order of langSysMap
Before(a, b) == \/ TagRank[a[1]] < TagRank[b[1]]
                \/ a[1] = b[1] /\ TagRank[a[2]] < TagRank[b[2]]

FirstOf(S) == CHOOSE ls \in S : \A other \in S \ {ls} : Before(ls, other)

\* featMsg(hotFATAL, ...) does not return.
Fatal == /\ pc' = "fatal"
         /\ UNCHANGED <<hadError, parserVars, loopVars, globalVars, scopeVars, labelVars, runVars>>

Ready == pc = "stmt" /\ stmts < MaxStmts
Read == stmts' = stmts + 1

-----------------------------------------------------------------------------
(* closeFeatScriptLang: end the lookup that state st has open. *)

\* mutant: the lookup is never ended
CloseRun_Forgotten(st) == layout

CloseRun(st) == IF st.tbl = UNDEF THEN layout ELSE LookupEnd(layout, st.tbl, hadError)

(* prepRule for a rule or reference.  named is the value of currNamedLkp.   *)

\* mutant: script and language statements do not matter
EntersLangSysMode_Always == "langSysMode" \notin fFlags /\ "seenLangSys" \in gFlags

\* The first rule of a feature without script and language statements.
EntersLangSysMode == /\ "langSysMode" \notin fFlags
                     /\ "seenLangSys" \in gFlags
                     /\ "seenScriptLang" \notin fFlags

\* mutant: a language statement does not end a run
InRun_AnyLanguage(st) == /\ prev.script = st.script
                         /\ prev.feature = st.feature
                         /\ prev.tbl = st.tbl
                         /\ prev.lkpType = st.lkpType

InRun(st) == /\ prev.script = st.script
             /\ prev.language = st.language
             /\ prev.feature = st.feature
             /\ prev.tbl = st.tbl
             /\ prev.lkpType = st.lkpType

NeedsAnonLabel(st, named) == named = LAB_UNDEF /\ (endOfNamedLkpOrRef \/ ~InRun(st))

\* mutant: the counter is not advanced
AnonLabelsAfter_Stuck(st, named) == anonLabelCnt

\* getNextAnonLabel
AnonLabelsAfter(st, named) ==
    IF NeedsAnonLabel(st, named) THEN anonLabelCnt + 1 ELSE anonLabelCnt

\* curr once the fields and the label of the new rule are set
Prepared(tbl, lkpType, lkpFlag, named) ==
    LET first == FirstOf(DOMAIN langSysMap)
        st == [curr EXCEPT !.tbl = tbl, !.lkpType = lkpType, !.lkpFlag = lkpFlag,
                           !.script = IF EntersLangSysMode THEN first[1] ELSE @,
                           !.language = IF EntersLangSysMode THEN first[2] ELSE @]
    IN  [st EXCEPT !.label = IF named # LAB_UNDEF THEN named
                             ELSE IF NeedsAnonLabel(st, named) THEN anonLabelCnt
                             ELSE prev.label]

\* mutant: a label is a default once in a file, not once per script and feature
Accumulates_OncePerLabel(st, named) ==
    /\ st.language = "dflt"
    /\ IF named # LAB_UNDEF THEN curr.label # named ELSE NeedsAnonLabel(st, named)

\* mutant: rules under any language become defaults
Accumulates_AnyLanguage(st, named) ==
    IF named # LAB_UNDEF
    THEN curr.label # named \/ st.script # prev.script \/ st.feature # prev.feature
    ELSE NeedsAnonLabel(st, named)

\* accumDFLTLkps
Accumulates(st, named) ==
    /\ st.language = "dflt"
    /\ IF named # LAB_UNDEF
       THEN curr.label # named \/ st.script # prev.script \/ st.feature # prev.feature
       ELSE NeedsAnonLabel(st, named)

StartsRun(st) == ~InRun(st) \/ prev.label # st.label

\* lab2NamedLkp finds a lookup block
HasNamedLkp(lab) == IsNamedLab(lab) /\ BaseLab(lab) < Len(namedLkp)

\* mutant: one label too many
PrepFails_OffByOne(st, named) ==
    \/ NeedsAnonLabel(st, named) /\ anonLabelCnt > FEAT_ANON_LKP_END + 1
    \/ ~StartsRun(st) /\ st.lkpFlag # prev.lkpFlag

\* mutant: the rules of a lookup block are not compared
PrepFails_BlockUnchecked(st, named) ==
    \/ NeedsAnonLabel(st, named) /\ anonLabelCnt > FEAT_ANON_LKP_END
    \/ ~StartsRun(st) /\ st.lkpFlag # prev.lkpFlag

\* mutant: the flag may change in the middle of a lookup
PrepFails_AnyFlag(st, named) ==
    \/ NeedsAnonLabel(st, named) /\ anonLabelCnt > FEAT_ANON_LKP_END
    \/ /\ named # LAB_UNDEF /\ prev.label = st.label
       /\ <<st.tbl, st.lkpType>> # <<prev.tbl, prev.lkpType>>

\* the checks of prepRule that end the program
PrepFails(st, named) ==
    \/ NeedsAnonLabel(st, named) /\ anonLabelCnt > FEAT_ANON_LKP_END
    \/ /\ named # LAB_UNDEF /\ IsNamedLab(st.label) /\ ~IsRefLab(st.label)
       /\ prev.label = st.label
       /\ <<st.tbl, st.lkpType, st.lkpFlag>> # <<prev.tbl, prev.lkpType, prev.lkpFlag>>
    \/ StartsRun(st) /\ named # LAB_UNDEF /\ IsNamedLab(st.label) /\ ~HasNamedLkp(named)
    \/ ~StartsRun(st) /\ st.lkpFlag # prev.lkpFlag

\* the lookup that rules of state st go into, begun if st starts a run
OpenRun(st) ==
    IF ~StartsRun(st) THEN layout
    ELSE IF st.tbl = UNDEF THEN CloseRun(prev)
    ELSE LookupBegin(CloseRun(prev), st.tbl, st.script, st.language, st.feature,
                     st.lkpType, st.lkpFlag, st.label)

\* prepRule and wrapUpRule around adding the rules (none for a reference)
PrepRule(st, named, rules) ==
    /\ fFlags' = IF EntersLangSysMode THEN fFlags \cup {"langSysMode"} ELSE fFlags
    /\ script' = IF EntersLangSysMode THEN script \cup {st.script} ELSE script
    /\ language' = IF EntersLangSysMode THEN language \cup {st.language} ELSE language
    /\ anonLabelCnt' = AnonLabelsAfter(st, named)
    /\ DFLTLkps' = LET kept == IF st.feature = prev.feature /\ st.script = prev.script
                               THEN DFLTLkps ELSE <<>>
                   IN  IF Accumulates(st, named) THEN Append(kept, st) ELSE kept
    /\ layout' = IF rules = {} THEN OpenRun(st)
                 ELSE RuleAdd(OpenRun(st), st.tbl, ruleCnt + 1, hadError)
    /\ lookup' = IF StartsRun(st) /\ "langSysMode" \in fFlags'
                 THEN Append(lookup, [tbl |-> st.tbl, lkpType |-> st.lkpType,
                                      lkpFlag |-> st.lkpFlag, label |-> st.label])
                 ELSE lookup
    /\ curr' = st
    /\ prev' = st
    /\ UNCHANGED include_dflt

\* callLkp: a reference to the lookup whose first rule left state st, made under the
\* script, language and feature that are current
Reference(st) == Prepared(st.tbl, st.lkpType, st.lkpFlag, RefLab(st.label))

CallFails(st) == PrepFails(Reference(st), RefLab(st.label))

CallLkp(st) ==
    /\ PrepRule(Reference(st), RefLab(st.label), {})
    /\ currNamedLkp' = LAB_UNDEF
    /\ endOfNamedLkpOrRef' = TRUE
    /\ UNCHANGED <<pc, nest, ruleCnt, hadError, globalVars, namedLkp, regTodo, regPos>>

-----------------------------------------------------------------------------
(* Statements at the top level of the file *)

\* languagesystem s l;
LangSystem(s, l) ==
    /\ Ready /\ nest = "file" /\ Read
    /\ IF "seenFeature" \in gFlags
       THEN hadError' = TRUE /\ UNCHANGED <<gFlags, langSysMap>>
       ELSE /\ gFlags' = gFlags \cup (IF "seenLangSys" \notin gFlags THEN {"seenLangSys"}
                                      ELSE IF s # "DFLT" THEN {"seenNonDFLTScriptLang"}
                                      ELSE {})
            /\ hadError' = (hadError \/ (s = "DFLT" /\ "seenNonDFLTScriptLang" \in gFlags))
            /\ langSysMap' = [ls \in DOMAIN langSysMap \cup {<<s, l>>} |->
                                 IF ls \in DOMAIN langSysMap THEN langSysMap[ls] ELSE FALSE]
    /\ UNCHANGED <<pc, nest, ruleCnt, loopVars, feature, scopeVars, labelVars, runVars>>

\* startFeature: without languagesystem statements, DFLT dflt is assumed.
EnterFeature(f) ==
    /\ feature' = feature \cup {f}
    /\ gFlags' = gFlags \cup {"seenFeature"}
                        \cup (IF DOMAIN langSysMap = {} THEN {"seenLangSys"} ELSE {})
    /\ langSysMap' = IF DOMAIN langSysMap = {}
                     THEN [ls \in {<<"DFLT", "dflt">>} |-> FALSE] ELSE langSysMap
    /\ include_dflt' = TRUE
    /\ lookup' = <<>> /\ DFLTLkps' = <<>>

\* feature f {
StartFeature(f) ==
    /\ Ready /\ nest = "file" /\ Read
    /\ f \notin feature \/ "reopen" \in Forms
    /\ EnterFeature(f)
    /\ LET first == FirstOf(DOMAIN langSysMap')
       IN  /\ fFlags' = {}
           /\ script' = {first[1]} /\ language' = {first[2]}
           /\ curr' = [curr EXCEPT !.feature = f, !.script = first[1],
                                   !.language = first[2], !.lkpFlag = 0]
    /\ nest' = "feature"
    /\ UNCHANGED <<pc, hadError, ruleCnt, loopVars, labelVars, prev, layout>>

\* startLookup, the part after its checks of the feature
NameTaken(n) == \E i \in 1 .. Len(namedLkp) : namedLkp[i].name = n

\* mutant: the label is that of the block before
NewNamedLkp_OffByOne(n, isTopLevel) ==
    /\ namedLkp' = Append(namedLkp, [name |-> n, isTopLevel |-> isTopLevel, state |-> NoState])
    /\ currNamedLkp' = IF namedLkp = <<>> THEN 0 ELSE Len(namedLkp) - 1

NewNamedLkp(n, isTopLevel) ==
    /\ namedLkp' = Append(namedLkp, [name |-> n, isTopLevel |-> isTopLevel, state |-> NoState])
    /\ currNamedLkp' = Len(namedLkp)

\* lookup n {   outside of feature blocks: startFeature and a script statement, both
\* with TAG_STAND_ALONE
StartStandAlone(n) ==
    /\ Ready /\ nest = "file"
    /\ IF NameTaken(n) \/ Len(namedLkp) >= FEAT_NAMED_LKP_END THEN Fatal
       ELSE /\ Read
            /\ EnterFeature(STAND_ALONE)
            /\ LET first == FirstOf(DOMAIN langSysMap')
               IN  /\ fFlags' = {"seenScriptLang"}
                   /\ script' = {first[1], STAND_ALONE}
                   /\ language' = IF first[2] = "dflt" THEN {} ELSE {"dflt"}
            /\ curr' = [curr EXCEPT !.feature = STAND_ALONE, !.script = STAND_ALONE,
                                    !.language = "dflt", !.lkpFlag = 0]
            /\ NewNamedLkp(n, TRUE)
            /\ nest' = "alone"
            /\ UNCHANGED <<pc, hadError, ruleCnt, loopVars, endOfNamedLkpOrRef, anonLabelCnt,
                           prev, layout>>

\* The end of the file: the translation is over.
EndOfFile ==
    /\ pc = "stmt" /\ nest = "file"
    /\ pc' = "done"
    /\ UNCHANGED <<hadError, parserVars, loopVars, globalVars, scopeVars, labelVars, runVars>>

-----------------------------------------------------------------------------
(* Statements of blocks *)

InBlock == nest \in {"block", "alone"}

\* Whether a file may have a script or language statement here, given whether it names the
\* script or language that is current and has been used.
AllowedScope(again) ==
    /\ InBlock => "blockLang" \in Forms
    /\ again => "again" \in Forms

\* script s;
ScriptStmt(s) ==
    LET same == s = curr.script /\ curr.language = "dflt"
        known == s # curr.script /\ s \in script
    IN
    /\ Ready /\ nest # "file" /\ Read
    /\ AllowedScope(s = curr.script /\ prev.tbl # UNDEF)
    /\ IF curr.feature \in Restricted
       THEN hadError' = TRUE /\ UNCHANGED <<scopeVars, curr, DFLTLkps>>
       ELSE IF same
       THEN /\ hadError' = (hadError \/ curr.feature = STAND_ALONE)
            /\ fFlags' = fFlags \cup {"seenScriptLang"}
            /\ UNCHANGED <<script, language, include_dflt, curr, DFLTLkps>>
       ELSE /\ hadError' = (hadError \/ curr.feature = STAND_ALONE \/ known)
            /\ fFlags' = {"seenScriptLang"}
            /\ script' = script \cup {s}
            /\ language' = (IF s # curr.script THEN {} ELSE language)
                           \cup (IF curr.language # "dflt" THEN {"dflt"} ELSE {})
            /\ DFLTLkps' = IF s # curr.script THEN <<>> ELSE DFLTLkps
            /\ include_dflt' = TRUE
            /\ curr' = [curr EXCEPT !.script = IF known THEN @ ELSE s,
                                    !.language = "dflt", !.lkpFlag = 0]
    /\ UNCHANGED <<pc, nest, ruleCnt, loopVars, globalVars, labelVars, prev, lookup, layout>>

\* language l [exclude_dflt];   startScriptOrLang, then the beginning of includeDFLT
LanguageStmt(l, incl) ==
    LET same == l = curr.language
        changes == ~same /\ l \notin language
        ls == <<curr'.script, curr'.language>>
    IN
    /\ Ready /\ nest # "file" /\ Read
    /\ AllowedScope(same /\ DFLTLkps # <<>>)
    /\ IF curr.feature \in Restricted
       THEN /\ hadError' = TRUE
            /\ UNCHANGED <<pc, iter, iterEnd, scopeVars, curr, langSysMap>>
       ELSE /\ fFlags' = (IF l = "dflt" THEN fFlags ELSE fFlags \ {"langSysMode"})
                         \cup {"seenScriptLang"}
            /\ hadError' = (\/ hadError
                            \/ curr.feature = STAND_ALONE
                            \/ IF same THEN incl # include_dflt ELSE l = "dflt" \/ ~changes)
            /\ language' = IF same THEN language ELSE language \cup {l}
            /\ curr' = IF changes THEN [curr EXCEPT !.language = l] ELSE curr
            /\ include_dflt' = IF same THEN include_dflt ELSE incl
            /\ IF incl
               THEN pc' = "include" /\ iter' = 0 /\ iterEnd' = Len(DFLTLkps) /\ UNCHANGED langSysMap
               ELSE /\ langSysMap' = IF ls \in DOMAIN langSysMap
                                     THEN [langSysMap EXCEPT ![ls] = TRUE] ELSE langSysMap
                    /\ UNCHANGED <<pc, iter, iterEnd>>
            /\ UNCHANGED script
    /\ UNCHANGED <<nest, ruleCnt, regTodo, regPos, gFlags, feature, labelVars,
                   prev, DFLTLkps, lookup, layout>>

\* mutant: the iterator is not advanced
IncludeNext_Stays ==
    /\ pc = "include" /\ iter < iterEnd
    /\ LET st == DFLTLkps[iter + 1]
       IN  IF CallFails(st) THEN Fatal
           ELSE CallLkp(st) /\ UNCHANGED <<iter, iterEnd, stmts>>

\* includeDFLT:  for (auto &i : DFLTLkps) callLkp(i);
IncludeNext ==
    /\ pc = "include" /\ iter < iterEnd
    /\ LET st == DFLTLkps[iter + 1]
       IN  IF CallFails(st) THEN Fatal
           ELSE CallLkp(st) /\ iter' = iter + 1 /\ UNCHANGED <<iterEnd, stmts>>

\* callLkp appended to the vector being iterated over: the iterators may be invalid and
\* the program may crash.
IncludeInvalidated ==
    /\ pc = "include" /\ iter < iterEnd /\ Len(DFLTLkps) # iterEnd
    /\ Fatal

IncludeDone ==
    /\ pc = "include" /\ iter = iterEnd
    /\ pc' = "stmt"
    /\ UNCHANGED <<hadError, parserVars, loopVars, globalVars, scopeVars, labelVars, runVars>>

\* lookupflag v;
LookupFlagStmt(v) ==
    /\ Ready /\ nest # "file" /\ Read
    /\ hadError' = (hadError \/ curr.feature \in Restricted)
    /\ curr' = [curr EXCEPT !.lkpFlag = v]
    /\ UNCHANGED <<pc, nest, ruleCnt, loopVars, globalVars, scopeVars, labelVars,
                   prev, DFLTLkps, lookup, layout>>

\* Whether the innermost block has had a rule or reference: every one sets prev.
BlockHasRule == IF InBlock THEN curr.label = currNamedLkp ELSE prev.tbl # UNDEF

\* The parser asks for some statement in a block, not for a rule; whether files may have
\* blocks without one is a matter of their forms.
MayEnd ==
    \/ BlockHasRule
    \/ IF InBlock THEN \/ "emptyBlock" \in Forms
                       \/ curr.feature \in Restricted
                       \/ currNamedLkp = LAB_UNDEF
                  ELSE \/ "emptyFeature" \in Forms
                       \/ curr.feature = "aalt"

\* A rule: addGSUB or addGPOS.  Substitutions in the aalt feature are kept for
\* aaltCreate.  The bound on statements leaves room for a rule in an empty block.
RuleStmt(tbl, lkpType) ==
    LET st == Prepared(tbl, lkpType, curr.lkpFlag, currNamedLkp)
    IN
    /\ pc = "stmt" /\ nest # "file"
    /\ stmts < MaxStmts \/ ~MayEnd
    /\ IF curr.feature = "aalt" /\ tbl = "GSUB"
       THEN /\ stmts < MaxStmts /\ Read
            /\ UNCHANGED <<pc, hadError, nest, ruleCnt, loopVars, globalVars, scopeVars,
                           labelVars, runVars>>
       ELSE IF PrepFails(st, currNamedLkp) THEN Fatal
       ELSE /\ PrepRule(st, currNamedLkp, {ruleCnt + 1})
            /\ stmts' = IF stmts < MaxStmts THEN stmts + 1 ELSE stmts
            /\ ruleCnt' = ruleCnt + 1
            /\ endOfNamedLkpOrRef' = FALSE
            /\ UNCHANGED <<pc, hadError, nest, loopVars, globalVars, namedLkp, currNamedLkp>>

\* lookup n {   in a feature block
StartLookup(n) ==
    /\ Ready /\ nest = "feature"
    /\ IF curr.feature \in Restricted
       THEN Read /\ hadError' = TRUE /\ nest' = "block" /\ UNCHANGED <<pc, labelVars>>
       ELSE IF NameTaken(n) \/ Len(namedLkp) >= FEAT_NAMED_LKP_END
       THEN pc' = "fatal" /\ UNCHANGED <<hadError, stmts, nest, labelVars>>
       ELSE /\ Read /\ NewNamedLkp(n, FALSE) /\ nest' = "block"
            /\ UNCHANGED <<pc, hadError, endOfNamedLkpOrRef, anonLabelCnt>>
    /\ UNCHANGED <<ruleCnt, loopVars, globalVars, scopeVars, runVars>>

\* endLookup after endFeature: "Store state for future lookup references to it"
CloseNamedLkp ==
    /\ endOfNamedLkpOrRef' = TRUE
    /\ namedLkp' = [namedLkp EXCEPT ![BaseLab(currNamedLkp) + 1].state = curr]
    /\ currNamedLkp' = LAB_UNDEF
    /\ UNCHANGED anonLabelCnt

\* endFeature up to its loop
BeginRegister ==
    /\ layout' = CloseRun(curr)
    /\ pc' = "register"
    /\ regTodo' = DOMAIN langSysMap
    /\ regPos' = 1
    /\ UNCHANGED <<stmts, ruleCnt, nest, iter, iterEnd, hadError, globalVars, scopeVars,
                   labelVars, curr, prev, DFLTLkps, lookup>>

\* } n;
EndLookup ==
    /\ pc = "stmt" /\ InBlock
    /\ MayEnd
    /\ IF curr.feature \in Restricted
       THEN /\ nest' = "feature"
            /\ UNCHANGED <<pc, hadError, stmts, ruleCnt, loopVars, globalVars, scopeVars,
                           labelVars, runVars>>
       ELSE IF ~HasNamedLkp(currNamedLkp) THEN Fatal
       ELSE IF namedLkp[BaseLab(currNamedLkp) + 1].isTopLevel THEN BeginRegister
       ELSE /\ CloseNamedLkp
            /\ nest' = "feature"
            /\ UNCHANGED <<pc, hadError, stmts, ruleCnt, loopVars, globalVars, scopeVars, runVars>>

\* lookup n;
UseLookup(n) ==
    /\ Ready /\ nest = "feature"
    /\ IF curr.feature \in Restricted \/ ~NameTaken(n)
       THEN /\ hadError' = TRUE /\ Read
            /\ UNCHANGED <<pc, nest, ruleCnt, loopVars, globalVars, scopeVars, labelVars, runVars>>
       ELSE LET st == namedLkp[CHOOSE i \in 1 .. Len(namedLkp) : namedLkp[i].name = n].state
            IN  IF CallFails(st) THEN Fatal
                ELSE CallLkp(st) /\ Read /\ UNCHANGED <<iter, iterEnd>>

\* } f;
EndFeature ==
    /\ pc = "stmt" /\ nest = "feature"
    /\ MayEnd
    /\ IF curr.feature = "aalt"
       THEN /\ nest' = "file"
            /\ UNCHANGED <<pc, hadError, stmts, ruleCnt, loopVars, globalVars, scopeVars,
                           labelVars, runVars>>
       ELSE BeginRegister

-----------------------------------------------------------------------------
(* registerFeatureLangSys: the lookups collected in language-system mode   *)
(* are referred to under every language system that was not excluded.      *)

\* mutant: every lookup is registered in GSUB
RegTable_GSUB(lkp) == "GSUB"

RegTable(lkp) == IF lkp.tbl = "GSUB" THEN "GSUB" ELSE "GPOS"

\* one iteration of the inner loop
RegisterLookup ==
    /\ pc = "register" /\ regTodo # {}
    /\ LET ls == FirstOf(regTodo)
           lkp == lookup[regPos]
           begun == LookupBegin(layout, RegTable(lkp), ls[1], ls[2], curr.feature,
                                lkp.lkpType, lkp.lkpFlag, RefLab(lkp.label))
           ended == LookupEnd(begun, RegTable(lkp), hadError)
       IN  /\ ~langSysMap[ls] /\ regPos <= Len(lookup)
           /\ layout' = ended
    /\ regPos' = regPos + 1
    /\ UNCHANGED <<pc, hadError, parserVars, iter, iterEnd, regTodo, globalVars, scopeVars,
                   labelVars, curr, prev, DFLTLkps, lookup>>

\* mutant: the exclusion stays
Included_Kept(ls) == langSysMap

\* the map once ls is no longer excluded
Included(ls) == [langSysMap EXCEPT ![ls] = FALSE]

\* the end of an iteration of the outer loop; the exclusion holds for one feature only
RegisterNextLangSys ==
    /\ pc = "register" /\ regTodo # {}
    /\ LET ls == FirstOf(regTodo)
       IN  /\ langSysMap[ls] \/ regPos > Len(lookup)
           /\ langSysMap' = Included(ls)
           /\ regTodo' = regTodo \ {ls}
    /\ regPos' = 1
    /\ UNCHANGED <<pc, hadError, parserVars, iter, iterEnd, gFlags, feature, scopeVars,
                   labelVars, runVars>>

\* mutant: the lookup will be ended once more
Closed_Not(st) == st

\* a state whose lookup must not be ended again
Closed(st) == [st EXCEPT !.tbl = UNDEF]

\* the end of endFeature and, for a top-level lookup, of endLookup
RegisterDone ==
    /\ pc = "register" /\ regTodo = {}
    /\ prev' = Closed(prev)
    /\ IF nest = "alone" THEN CloseNamedLkp ELSE UNCHANGED labelVars
    /\ pc' = "stmt"
    /\ nest' = "file"
    /\ UNCHANGED <<hadError, stmts, ruleCnt, loopVars, globalVars, scopeVars,
                   curr, DFLTLkps, lookup, layout>>

\* The translation has ended or was given up.
Finished == pc \in {"done", "fatal"} /\ UNCHANGED vars

-----------------------------------------------------------------------------
Next ==
    \/ \E s \in Scripts, l \in Langs : LangSystem(s, l)
    \/ \E f \in Features : StartFeature(f)
    \/ \E n \in Names : StartStandAlone(n)
    \/ EndOfFile
    \/ \E s \in Scripts : ScriptStmt(s)
    \/ \E l \in Langs, incl \in BOOLEAN : LanguageStmt(l, incl)
    \/ IncludeNext
    \/ IncludeInvalidated
    \/ IncludeDone
    \/ \E v \in Flags : LookupFlagStmt(v)
    \/ \E k \in RuleKinds : RuleStmt(k[1], k[2])
    \/ \E n \in Names : StartLookup(n)
    \/ EndLookup
    \/ \E n \in Names : UseLookup(n)
    \/ EndFeature
    \/ RegisterLookup
    \/ RegisterNextLangSys
    \/ RegisterDone
    \/ Finished

Spec == Init /\ [][Next]_vars

-----------------------------------------------------------------------------
(* Properties *)

LkpTypes == {k[2] : k \in RuleKinds} \cup {UNDEF}

StateType == [script : Scripts \cup {UNDEF, STAND_ALONE}, language : Langs \cup {UNDEF},
              feature : Features \cup {UNDEF, STAND_ALONE}, tbl : Tables \cup {UNDEF},
              lkpType : LkpTypes, lkpFlag : Nat, label : Label]

SubtableType == [script : Scripts \cup {UNDEF, STAND_ALONE}, language : Langs \cup {UNDEF},
                 feature : Features \cup {UNDEF, STAND_ALONE},
                 lkpType : LkpTypes, lkpFlag : Nat, label : Label, rules : SUBSET Nat]

LookupInfoType == [tbl : Tables \cup {UNDEF}, lkpType : LkpTypes, lkpFlag : Nat, label : Label]

NamedLkpType == [name : Names, isTopLevel : BOOLEAN, state : StateType]

\* Type invariant: the variables of FeatCtx.h and of GSUB and GPOS keep their types.
TypeOK ==
    /\ nest \in {"file", "feature", "block", "alone"}
    /\ pc \in {"stmt", "include", "register", "done", "fatal"}
    /\ stmts \in Nat /\ ruleCnt \in Nat
    /\ iter \in Nat /\ iterEnd \in Nat /\ regPos \in Nat \ {0}
    /\ regTodo \subseteq DOMAIN langSysMap
    /\ hadError \in BOOLEAN
    /\ gFlags \subseteq {"seenFeature", "seenLangSys", "seenNonDFLTScriptLang"}
    /\ fFlags \subseteq {"langSysMode", "seenScriptLang"}
    /\ feature \subseteq Features \cup {STAND_ALONE}
    /\ script \subseteq Scripts \cup {STAND_ALONE}
    /\ language \subseteq Langs
    /\ DOMAIN langSysMap \subseteq LangSys
    /\ langSysMap \in [DOMAIN langSysMap -> BOOLEAN]
    /\ include_dflt \in BOOLEAN
    /\ curr \in StateType /\ prev \in StateType
    /\ DFLTLkps \in Seq(StateType)
    /\ lookup \in Seq(LookupInfoType)
    /\ namedLkp \in Seq(NamedLkpType)
    /\ currNamedLkp \in Label
    /\ endOfNamedLkpOrRef \in BOOLEAN
    /\ anonLabelCnt \in FEAT_ANON_LKP_BEG .. FEAT_ANON_LKP_END + 1
    /\ layout \in [Tables -> [new : SubtableType, subtables : Seq(SubtableType)]]

\* The labels handed out so far
Allocated == {LAB_UNDEF} \cup (0 .. Len(namedLkp) - 1) \cup (FEAT_ANON_LKP_BEG .. anonLabelCnt - 1)

Issued(lab) == lab = LAB_UNDEF \/ BaseLab(lab) \in Allocated

\* getNextAnonLabel and getNextNamedLkpLabel return labels that nothing refers to yet:
\* every label in use, in FeatCtx or in a table, was handed out before.
LabelsIssued ==
    /\ Issued(currNamedLkp) /\ Issued(curr.label) /\ Issued(prev.label)
    /\ \A i \in 1 .. Len(DFLTLkps) : Issued(DFLTLkps[i].label)
    /\ \A i \in 1 .. Len(lookup) : Issued(lookup[i].label)
    /\ \A i \in 1 .. Len(namedLkp) : Issued(namedLkp[i].state.label)
    /\ \A tbl \in Tables :
          /\ Issued(layout[tbl].new.label)
          /\ \A i \in 1 .. Len(layout[tbl].subtables) : Issued(layout[tbl].subtables[i].label)

Subtables(tbl) == {layout[tbl].subtables[i] : i \in 1 .. Len(layout[tbl].subtables)}
Definitions(tbl) == {s \in Subtables(tbl) : ~IsRefLab(s.label)}
References(tbl) == Subtables(tbl) \ Definitions(tbl)

AtFileLevel == nest = "file" /\ pc \in {"stmt", "done"} /\ ~hadError

\* otlLabel2LookupIndex finds every lookup that is referred to: between blocks, a
\* reference in a table has its definition in the same table.  Otherwise the font
\* fails with "label not found" long after the statement that caused it.
RefsResolve ==
    AtFileLevel =>
        \A tbl \in Tables : \A r \in References(tbl) :
            \E d \in Definitions(tbl) : d.label = BaseLab(r.label)

\* calcLookupListIndexes takes a change of label for a new lookup: the definitions with
\* one label follow each other, or it stops at a duplicate label.
LabelsContiguous ==
    \A tbl \in Tables :
        LET subs == layout[tbl].subtables
        IN  \A i, j, k \in 1 .. Len(subs) :
                /\ i < j /\ j < k
                /\ subs[i].label = subs[k].label
                /\ ~IsRefLab(subs[i].label) /\ ~IsRefLab(subs[j].label)
                => subs[j].label = subs[i].label

\* fillLookupList takes the type and the flag of a lookup from its first subtable: all
\* definitions of a lookup agree on them, and no lookup is defined or referred to in two
\* tables.  Only prepRule's comparison with the previous rule stands in the way.
LookupUniform ==
    /\ \A tbl \in Tables : \A a, b \in Definitions(tbl) :
          a.label = b.label => a.lkpType = b.lkpType /\ a.lkpFlag = b.lkpFlag
    /\ \A a \in Subtables("GSUB"), b \in Subtables("GPOS") : BaseLab(a.label) # BaseLab(b.label)

\* includeDFLT iterates over DFLTLkps while callLkp runs prepRule, which may append to
\* it: no element is added or removed before the loop ends.
IncludeListStable == pc = "include" => Len(DFLTLkps) = iterEnd

\* Named lookups are found again: once its block has ended, a name stands for the label
\* that its rules were given, whatever was read since.
NamedRefersToItself ==
    ~hadError =>
        \A i \in 1 .. Len(namedLkp) :
            currNamedLkp # i - 1 => namedLkp[i].state.label = i - 1

\* GSUB.c and GPOS.c rely on it that a lookup that ends has rules: their fill functions
\* read the first rule without looking.
NoEmptyLookup ==
    ~hadError => \A tbl \in Tables : \A d \in Definitions(tbl) : d.rules # {}

\* exclude_dflt holds for the rest of its feature only: the next feature starts with
\* no language system excluded.
ExclusionsReset == AtFileLevel => \A ls \in DOMAIN langSysMap : ~langSysMap[ls]

=============================================================================
