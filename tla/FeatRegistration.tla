--------------------------- MODULE FeatRegistration ---------------------------
(***************************************************************************)
(* FeatCtx with history variables, its correctness properties, and the     *)
(* mapping under which it implements FeatLangSys.  The history variables   *)
(* record what the statements said; nothing of FeatCtx depends on them.    *)
(* They stop at the first error: a file with an error produces no font     *)
(* (hotQuitOnError).                                                       *)
(***************************************************************************)
EXTENDS FeatCtx

VARIABLES
    saidFlag,  \* the lookupflag in force, as the statements say
    blk,       \* the feature block as FeatLangSys describes it
    sealed,    \* how many subtables of each table belong to finished blocks
    ruleLog    \* for each rule, what the statements before it said

histVars == <<saidFlag, blk, sealed, ruleLog>>
allVars == <<vars, histVars>>

\* The registrations that finished feature blocks have left in a table
Registered(tbl) ==
    {<<s.script, s.language, s.feature, BaseLab(s.label)>> :
        s \in {x \in {layout[tbl].subtables[i] : i \in 1 .. sealed[tbl]} :
                  x.feature # STAND_ALONE}}

Abs == INSTANCE FeatLangSys WITH
         Lookups <- Label,
         FirstOf <- FirstOf,
         langsys <- DOMAIN langSysMap,
         reg <- UNION {Registered(tbl) : tbl \in Tables}

-----------------------------------------------------------------------------
HInit == Init /\ saidFlag = 0 /\ blk = Abs!NoBlock /\ sealed = [tbl \in Tables |-> 0] /\ ruleLog = <<>>

\* A step that goes on without an error
Ok == ~hadError' /\ pc' # "fatal"

\* What was said of a rule: its table, type and flag, and the named block or the feature,
\* script and language it is in.
Said(tbl, lkpType) ==
    [tbl |-> tbl, lkpType |-> lkpType, lkpFlag |-> curr.lkpFlag,
     scope |-> IF currNamedLkp # LAB_UNDEF THEN <<currNamedLkp>>
               ELSE IF blk.open
               THEN <<blk.feature, blk.script, blk.language, blk.atTop>> ELSE <<>>]

\* A block statement that leaves the block as b and puts flag in force
Becomes(b, flag) ==
    /\ blk' = IF Ok /\ blk.open THEN b ELSE blk
    /\ saidFlag' = flag
    /\ UNCHANGED sealed

HRule(tbl, lkpType) ==
    /\ RuleStmt(tbl, lkpType)
    /\ IF ruleCnt' = ruleCnt THEN UNCHANGED histVars
       ELSE /\ ruleLog' = Append(ruleLog, Said(tbl, lkpType))
            /\ Becomes(Abs!AfterLookup(blk, BaseLab(curr'.label)), saidFlag)

\* The end of a block: what it left behind is sealed.
HEndBlock ==
    /\ RegisterDone \/ (EndFeature /\ nest' = "file")
    /\ sealed' = IF Ok THEN [tbl \in Tables |-> Len(layout[tbl].subtables)] ELSE sealed
    /\ blk' = IF Ok THEN Abs!NoBlock ELSE blk
    /\ UNCHANGED <<saidFlag, ruleLog>>

\* The steps that tell the history nothing new
Internal ==
    \/ \E s \in Scripts, l \in Langs : LangSystem(s, l)
    \/ IncludeNext \/ IncludeInvalidated \/ IncludeDone
    \/ RegisterLookup \/ RegisterNextLangSys
    \/ EndLookup \/ (EndFeature /\ nest' # "file")
    \/ EndOfFile \/ Finished

HNext ==
    \/ \E f \in Features :
         /\ StartFeature(f)
         /\ blk' = IF Ok THEN Abs!NewBlock(f, FirstOf(DOMAIN langSysMap')) ELSE blk
         /\ saidFlag' = 0
         /\ UNCHANGED <<sealed, ruleLog>>
    \/ \E n \in Names :
         (StartStandAlone(n) \/ StartLookup(n)) /\ Becomes(blk, 0) /\ UNCHANGED ruleLog
    \/ \E s \in Scripts :
         ScriptStmt(s) /\ Becomes(Abs!AfterScript(blk, s), 0) /\ UNCHANGED ruleLog
    \/ \E l \in Langs, incl \in BOOLEAN :
         /\ LanguageStmt(l, incl)
         /\ Becomes(Abs!AfterLanguage(blk, l, incl), saidFlag)
         /\ UNCHANGED ruleLog
    \/ \E v \in Flags : LookupFlagStmt(v) /\ Becomes(blk, v) /\ UNCHANGED ruleLog
    \/ \E k \in RuleKinds : HRule(k[1], k[2])
    \/ \E n \in Names :
         /\ UseLookup(n)
         /\ Becomes(Abs!AfterLookup(blk, BaseLab(curr'.label)), curr'.lkpFlag)
         /\ UNCHANGED ruleLog
    \/ HEndBlock
    \/ Internal /\ UNCHANGED histVars

HSpec == HInit /\ [][HNext]_allVars

\* The loops of a handler go on: nothing else runs in the program.
HandlerStep == pc \in {"include", "register"} /\ HNext
HFairSpec == HSpec /\ WF_allVars(HandlerStep)

-----------------------------------------------------------------------------
(* Properties *)

\* No statement is in progress and the file has no error.
AtStatement == pc \in {"stmt", "done"} /\ ~hadError

\* Every rule of the file is in exactly one place: one finished subtable or the lookup
\* being accumulated.  GSUBLookupBegin and GPOSLookupBegin empty the accumulator and
\* LookupEnd turns it into a subtable, so a lookup begun before the last was ended would
\* lose its rules and one ended twice would repeat them.
Places(r) ==
    {p \in UNION {{tbl} \X DOMAIN layout[tbl].subtables : tbl \in Tables} :
        r \in layout[p[1]].subtables[p[2]].rules}

Pending(r) == prev.tbl # UNDEF /\ r \in layout[prev.tbl].new.rules

RulesConserved ==
    AtStatement =>
        \A r \in 1 .. ruleCnt : Cardinality(Places(r)) = IF Pending(r) THEN 0 ELSE 1

\* A lookup holds the rules of one named block, or of one run: rules that differ in
\* table, type, flag, or in feature, script and language never share a lookup, and
\* neither do the rules before the first script statement and those after it.  And the
\* subtable a rule ends in has the type and flag that were in force for the rule.
Home(r) == LET p == CHOOSE p \in Places(r) : TRUE
           IN  [tbl |-> p[1], sub |-> layout[p[1]].subtables[p[2]]]

NoMixedLookup ==
    AtFileLevel =>
        \A q \in 1 .. ruleCnt :
            LET h == Home(q)
            IN  /\ ruleLog[q].tbl = h.tbl
                /\ ruleLog[q].lkpType = h.sub.lkpType /\ ruleLog[q].lkpFlag = h.sub.lkpFlag
                /\ \A r \in 1 .. ruleCnt :
                      BaseLab(Home(r).sub.label) = BaseLab(h.sub.label) =>
                          ruleLog[q].scope = ruleLog[r].scope

\* DFLTLkps, which a language statement includes, holds exactly the defaults of the
\* current script: no lookup is missed because its label or state looked familiar.
DefaultsComplete ==
    AtStatement /\ blk.open =>
        {BaseLab(DFLTLkps[i].label) : i \in 1 .. Len(DFLTLkps)} = blk.deflt

\* The lookupflag that the next rule gets is the one the statements put in force.
FlagAsSaid == AtStatement /\ nest # "file" => curr.lkpFlag = saidFlag

\* The loops of includeDFLT and registerFeatureLangSys come to an end.
HandlersReturn == pc \in {"include", "register"} ~> pc \in {"stmt", "fatal"}

\* The language system that comes first in tag order is the default one of its script.
\* (startFeature begins a feature under it; DefaultsComplete needs this of a file.)
DefaultFirst == DOMAIN langSysMap # {} => FirstOf(DOMAIN langSysMap)[2] = "dflt"

\* Every lookup is registered where the statements say: FeatCtx implements FeatLangSys.
ImplementsLangSys == Abs!Spec

=============================================================================
