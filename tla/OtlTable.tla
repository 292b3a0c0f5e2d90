------------------------------- MODULE OtlTable -------------------------------
(***************************************************************************)
(* otl.c: the subtables that GSUB or GPOS recorded become the ScriptList,  *)
(* the FeatureList and the LookupList of the table.  otlTableFill sorts    *)
(* the one array of subtables four times, numbers runs of equal elements   *)
(* and makes an entry of a list of each.  qsort leaves elements that       *)
(* compare equal in any order, and the fields of an element that nothing   *)
(* has set yet hold whatever its memory held.                              *)
(*                                                                         *)
(* The client, GSUBFill or GPOSFill, adds any list of subtables that the   *)
(* feature compiler may leave: the definitions of a lookup follow each     *)
(* other, anonymous lookups come last.  An offset is the identity of a     *)
(* subtable; lookup types and flags, formats, sizes and the coverage and   *)
(* class tables are left out.                                              *)
(***************************************************************************)
EXTENDS LayoutTables, FiniteSets

CONSTANTS
    Regular,        \* the <<script, language, feature>> that files may register lookups under
    TagRank,        \* the numeric order of all tags
    UninitIndexes,  \* what the index.feature of a new element may hold
    Forms,          \* which unusual lists the client may add, see AllForms
    MaxSubtables    \* bound: subtables of the client

AllForms == {"dangling",       \* a reference to a lookup without rules, which has no definition
             "manyAnonymous"}  \* more anonymous than stand-alone subtables, and some of these

STAND_ALONE == "STAND_ALONE"   \* TAG_STAND_ALONE
None == -2                     \* no feature parameters

Alone == <<STAND_ALONE, "dflt", STAND_ALONE>>
Anonymous == <<UNDEF, UNDEF, UNDEF>>

Tags == UNION {{s[1], s[2], s[3]} : s \in Regular \cup {Alone, Anonymous}}

ASSUME OtlAssumption ==
    /\ \A s \in Regular :
          s = <<s[1], s[2], s[3]>> /\ {s[1], s[2], s[3]} \cap {STAND_ALONE, UNDEF} = {}
    /\ TagRank \in [Tags -> Nat]
    /\ \A a, b \in Tags : TagRank[a] = TagRank[b] => a = b
    /\ \A t \in Tags : TagRank[t] =< TagRank[UNDEF]
    /\ UninitIndexes \subseteq Int /\ UninitIndexes # {}
    /\ Forms \subseteq AllForms
    /\ MaxSubtables \in Nat

VARIABLES
    pc,         \* "adding" | "filled" | "resolved" | "checked" | "fatal"
    subtable,   \* t->subtable
    label,      \* t->label: base label -> lookup index and whether something refers to it
    tbl,        \* t->tbl, the three lists
    called,     \* the lookup records of chaining rules: base label -> lookup index
    warned      \* lookups reported as never used

vars == <<pc, subtable, label, tbl, called, warned>>

Empty == [x \in {} |-> 0]

Init ==
    /\ pc = "adding" /\ subtable = <<>>
    /\ label = Empty /\ called = Empty
    /\ tbl = [langSys |-> {}, feature |-> Empty, lookup |-> Empty]
    /\ warned = {}

-----------------------------------------------------------------------------
(* Counters of otlSubtableAdd *)

Scope(sub) == <<sub.script, sub.language, sub.feature>>

nRefLookups(s) == Cardinality({i \in DOMAIN s : IsRefLab(s[i].label)})
nFeatParams(s) == Cardinality({i \in DOMAIN s : s[i].isFeatParam /\ ~IsRefLab(s[i].label)})
nAnonSubtables(s) == Cardinality({i \in DOMAIN s : s[i].script = UNDEF})
nStandAlone(s) == Cardinality({i \in DOMAIN s : s[i].feature = STAND_ALONE})

\* The spans of prepScriptList and prepFeatureList leave out as many elements as there are
\* anonymous ones, the lists that are filled also as many as there are stand-alone ones.
SpanLimit(s) == Len(s) - nAnonSubtables(s)
ListLimit(s) == Len(s) - (nAnonSubtables(s) + nStandAlone(s))

-----------------------------------------------------------------------------
(* The client *)

Definitions == {subtable[i] : i \in {j \in DOMAIN subtable : ~IsRefLab(subtable[j].label)}}
References == {subtable[i] : i \in DOMAIN subtable} \ Definitions

NextLabel == Cardinality({BaseLab(subtable[i].label) : i \in DOMAIN subtable})

HasParam(scope) == \E i \in DOMAIN subtable : subtable[i].isFeatParam /\ Scope(subtable[i]) = scope

\* With stand-alone subtables, no more anonymous ones than these, unless the list may
AnonymousAllowed ==
    \/ "manyAnonymous" \in Forms
    \/ nStandAlone(subtable) = 0
    \/ nAnonSubtables(subtable) < nStandAlone(subtable)

\* otlSubtableAdd
Add(scope, lab, isFeatParam) ==
    /\ pc = "adding" /\ Len(subtable) < MaxSubtables
    /\ BaseLab(lab) =< FEAT_ANON_LKP_END  \* the feature compiler hands out no others
    /\ IF scope = Anonymous THEN AnonymousAllowed ELSE nAnonSubtables(subtable) = 0
    /\ \E v \in UninitIndexes :
          subtable' = Append(subtable,
              [script |-> scope[1], language |-> scope[2], feature |-> scope[3],
               label |-> lab, isFeatParam |-> isFeatParam, offset |-> Len(subtable),
               index |-> [feature |-> v, lookup |-> v]])
    /\ UNCHANGED <<pc, label, tbl, called, warned>>

\* The first subtable of a lookup
AddLookup ==
    \E scope \in Regular \cup {Alone, Anonymous} : Add(scope, NextLabel, FALSE)

\* Feature parameters, once in each feature of a language system
AddParam ==
    \E scope \in Regular : ~HasParam(scope) /\ Add(scope, NextLabel, TRUE)

\* A further subtable of the lookup that was added last
AddMore ==
    /\ subtable # <<>>
    /\ LET last == subtable[Len(subtable)]
       IN  ~IsRefLab(last.label) /\ Add(Scope(last), last.label, last.isFeatParam)

\* A reference under some feature: to a lookup, or to parameters of the same feature
AddReference ==
    \E scope \in Regular, sub \in Definitions :
        /\ sub.script # UNDEF
        /\ sub.isFeatParam => ~HasParam(scope) /\ sub.feature = scope[3]
        /\ Add(scope, RefLab(sub.label), sub.isFeatParam)

AddDangling ==
    /\ "dangling" \in Forms
    /\ \E scope \in Regular : Add(scope, RefLab(NextLabel), FALSE)

-----------------------------------------------------------------------------
(* Sorting.  A key is a sequence of numbers, compared from its first one on. *)

Precedes(a, b) == \E i \in DOMAIN a : a[i] < b[i] /\ \A j \in 1 .. i - 1 : a[j] = b[j]

Rearrangements ==
    [n \in 0 .. MaxSubtables |->
        {p \in [1 .. n -> 1 .. n] : \A i, j \in 1 .. n : p[i] = p[j] => i = j}]

\* The orders in which qsort may leave s
Orders(s, key) ==
    {[i \in DOMAIN s |-> s[p[i]]] :
        p \in {q \in Rearrangements[Len(s)] :
                  \A i \in 1 .. Len(s) - 1 : ~Precedes(key[q[i + 1]], key[q[i]])}}

Ord(condition) == IF condition THEN 1 ELSE 0

\* mutant: aalt is not moved to the front
LookupOrder_AaltAsAny(s) ==
    [i \in DOMAIN s |-> IF IsRefLab(s[i].label) THEN <<2, 0>>
                        ELSE <<Ord(s[i].isFeatParam), s[i].offset>>]

\* mutant: parameters are sorted among the lookups
LookupOrder_ParamsAsAny(s) ==
    [i \in DOMAIN s |->
        IF IsRefLab(s[i].label) THEN <<2, 0>> ELSE <<Ord(s[i].feature # "aalt"), s[i].offset>>]

\* cmpLookupList: lookups, those of aalt first, then parameters, then references
LookupOrder(s) ==
    [i \in DOMAIN s |->
        IF IsRefLab(s[i].label) THEN <<2, 0, 0>>
        ELSE <<Ord(s[i].isFeatParam), Ord(s[i].feature # "aalt"), s[i].offset>>]

\* cmpFeatTmp
ScopeOrder(s) ==
    [i \in DOMAIN s |-> <<Ord(s[i].feature = STAND_ALONE), TagRank[s[i].script],
                          TagRank[s[i].language], TagRank[s[i].feature]>>]

\* cmpFeatureList
FeatureOrder(s) ==
    [i \in DOMAIN s |->
        <<Ord(s[i].feature = STAND_ALONE), TagRank[s[i].feature]>>
        \o IF s[i].feature = UNDEF THEN <<0, 0>>
           ELSE <<s[i].index.feature, s[i].index.lookup>>]

\* cmpScriptList
ScriptOrder(s) ==
    [i \in DOMAIN s |->
        <<Ord(s[i].feature = STAND_ALONE), TagRank[s[i].script]>>
        \o IF s[i].script = UNDEF THEN <<0, 0>>
           ELSE <<TagRank[s[i].language], TagRank[s[i].feature]>>]

\* Where the runs of equal keys begin in lo .. hi, how many have begun up to i, and where the
\* run that begins at i ends
RunStarts(key, lo, hi) == {i \in lo .. hi : i = lo \/ key[i] # key[i - 1]}
RunOf(key, lo, i) == Cardinality(RunStarts(key, lo, i)) - 1
RunEnd(key, i, hi) == CHOOSE j \in i .. hi : /\ \A k \in i .. j : key[k] = key[i]
                                             /\ j = hi \/ key[j + 1] # key[i]

\* The run starts as a sequence
InOrder(starts) ==
    [n \in 1 .. Cardinality(starts) |->
        CHOOSE i \in starts : Cardinality({j \in starts : j < i}) = n - 1]

-----------------------------------------------------------------------------
(* calcLookupListIndexes, for s in the order of cmpLookupList *)

LookupStarts(s) == RunStarts([i \in DOMAIN s |-> s[i].label], 1, Len(s) - nRefLookups(s))

\* The lookup index of element i, which is no reference
RegularIndex(s, i) ==
    IF i \in LookupStarts(s) /\ s[i].isFeatParam THEN -1
    ELSE Cardinality({j \in LookupStarts(s) : j =< i /\ ~s[j].isFeatParam}) - 1

Labels(s) ==
    [lab \in {s[i].label : i \in LookupStarts(s)} |->
        [lookupInx |-> RegularIndex(s, CHOOSE i \in LookupStarts(s) : s[i].label = lab),
         used |-> \E i \in DOMAIN s : s[i].label = RefLab(lab)]]

\* "duplicate subtable label" or "label not found"
LookupsFail(s) ==
    \/ \E i, j \in LookupStarts(s) : i # j /\ s[i].label = s[j].label
    \/ \E i \in DOMAIN s : IsRefLab(s[i].label) /\ BaseLab(s[i].label) \notin DOMAIN Labels(s)

WithLookupIndexes(s) ==
    [i \in DOMAIN s |->
        [s[i] EXCEPT !.index.lookup =
            IF IsRefLab(s[i].label) THEN Labels(s)[BaseLab(s[i].label)].lookupInx
            ELSE RegularIndex(s, i)]]

(* calcFeatureListIndexes: numbers by script, language and feature, and then the final ones *)

Numbered(s, key) ==
    [i \in DOMAIN s |->
        IF i =< SpanLimit(s) THEN [s[i] EXCEPT !.index.feature = RunOf(key, 1, i)] ELSE s[i]]

\* mutant: the languages of a script share their features
FeatureRuns_AnyLanguage(s) == [i \in DOMAIN s |-> <<s[i].script, s[i].feature>>]

FeatureRuns(s) == [i \in DOMAIN s |-> Scope(s[i])]

IndexRuns(s) == [i \in DOMAIN s |-> s[i].index.feature]

\* s in the order in which the elements were added: the order is forgotten, since another sort follows
Unsorted(s) == [i \in DOMAIN s |-> s[CHOOSE j \in DOMAIN s : s[j].offset = i - 1]]

ByScope(s) == {Unsorted(Numbered(t, FeatureRuns(t))) : t \in Orders(s, ScopeOrder(s))}

WithFeatureIndexes(s) ==
    UNION {{Unsorted(Numbered(t, IndexRuns(t))) : t \in Orders(u, FeatureOrder(u))} :
           u \in ByScope(s)}

-----------------------------------------------------------------------------
(* The three lists *)

\* prepScriptList, fillScriptList and fillLangSysRecord, for s in the order of
\* cmpScriptList: one record per script and language, the default language being one.
LangSysList(s) ==
    LET hi == SpanLimit(s)
        lang == [i \in DOMAIN s |-> <<s[i].script, s[i].language>>]
        scripts == {s[i].script : i \in 1 .. ListLimit(s)}
    IN  {[script |-> s[i].script, language |-> s[i].language,
          features |-> {s[j].index.feature : j \in RunStarts(IndexRuns(s), i, RunEnd(lang, i, hi))}] :
            i \in {k \in RunStarts(lang, 1, hi) : s[k].script \in scripts}}

\* mutant: the parameters of a reference are not looked for
ParamOf_Direct(s, sub) == sub.offset

\* the parameters that sub stands for: findFeatParamOffset looks for those a reference names
ParamOf(s, sub) ==
    IF ~IsRefLab(sub.label) THEN sub.offset
    ELSE LET found == {i \in 1 .. ListLimit(s) :
                         s[i].feature = sub.feature /\ s[i].label = BaseLab(sub.label)}
         IN  s[CHOOSE i \in found : \A j \in found : i =< j].offset

\* The runs of one lookup in the run of a feature that begins at i
LookupRuns(s, i) ==
    LET end == RunEnd(IndexRuns(s), i, SpanLimit(s))
    IN  RunStarts([j \in DOMAIN s |-> s[j].index.lookup], i, end)

ParamRuns(s, i) == {j \in LookupRuns(s, i) : s[j].isFeatParam}

\* prepFeatureList: where the features begin
FeatureStarts(s) == RunStarts(IndexRuns(s), 1, SpanLimit(s))

FeatureCount(s) ==
    IF ListLimit(s) = 0 THEN 0 ELSE s[ListLimit(s)].index.feature + 1

\* "more than one FeatureParameter subtable"
FeaturesFail(s) ==
    \E n \in 1 .. FeatureCount(s) : Cardinality(ParamRuns(s, InOrder(FeatureStarts(s))[n])) > 1

\* fillFeatureList, for s in the order of cmpFeatureList
FeatureList(s) ==
    [n \in 0 .. FeatureCount(s) - 1 |->
        LET i == InOrder(FeatureStarts(s))[n + 1]
            lookups == InOrder(LookupRuns(s, i) \ ParamRuns(s, i))
            params == ParamRuns(s, i)
        IN  [tag |-> s[i].feature,
             lookups |-> [k \in DOMAIN lookups |-> s[lookups[k]].index.lookup],
             param |-> IF params = {} THEN None ELSE ParamOf(s, s[CHOOSE j \in params : TRUE])]]

\* prepLookupList and fillLookupList, for s in the order of cmpLookupList
LookupList(s) ==
    LET hi == Len(s) - (nRefLookups(s) + nFeatParams(s))
        index == [i \in DOMAIN s |-> s[i].index.lookup]
        starts == InOrder(RunStarts(index, 1, hi))
    IN  [n \in 0 .. Len(starts) - 1 |->
            {s[i].offset : i \in starts[n + 1] .. RunEnd(index, starts[n + 1], hi)}]

-----------------------------------------------------------------------------
\* calcLookupListIndexes and prepLookupList leave only the order of references open ("Don't
\* bother sorting references"), which nothing looks at.
Sorted(s) == CHOOSE t \in Orders(s, LookupOrder(s)) : TRUE

\* hotMsg(hotFATAL, ...)
GiveUp == pc' = "fatal" /\ UNCHANGED <<subtable, label, tbl>>

\* otlTableFill
Fill ==
    /\ pc = "adding" /\ subtable # <<>>
    /\ UNCHANGED <<called, warned>>
    /\ LET s == Sorted(subtable)
       IN  IF LookupsFail(s) THEN GiveUp
           ELSE \E t \in WithFeatureIndexes(WithLookupIndexes(s)) :
                LET sorted == Sorted(t)
                    scriptLists == {LangSysList(u) : u \in Orders(t, ScriptOrder(t))}
                    lookupList == LookupList(sorted)
                IN  \E byFeature \in Orders(t, FeatureOrder(t)) :
                       IF FeaturesFail(byFeature) THEN GiveUp
                       ELSE /\ \E scriptList \in scriptLists :
                                  tbl' = [langSys |-> scriptList, feature |-> FeatureList(byFeature),
                                          lookup |-> lookupList]
                            /\ subtable' = sorted
                            /\ label' = Labels(s)
                            /\ pc' = "filled"

\* the labels once the lookups that chaining rules call are marked
Marked(calls) ==
    [lab \in DOMAIN label |-> [label[lab] EXCEPT !.used = @ \/ lab \in calls]]

\* setAnonLookupIndices of GSUB and GPOS: chaining rules call every anonymous lookup, and
\* any others.
SetAnonLookupIndices ==
    /\ pc = "filled"
    /\ \E calls \in SUBSET {d.label : d \in {x \in Definitions : ~x.isFeatParam}} :
          /\ {d.label : d \in {x \in Definitions : x.script = UNDEF}} \subseteq calls
          /\ called' = [lab \in calls |-> label[lab].lookupInx]
          /\ label' = Marked(calls)
    /\ pc' = "resolved"
    /\ UNCHANGED <<subtable, tbl, warned>>

\* findSeenRef
SeenRef(inx) == \E lab \in DOMAIN label : label[lab].lookupInx = inx /\ label[lab].used

\* mutant: as many elements are left out at the end as there are references and stand-alone ones
Checked_TooFew == 1 .. Len(subtable) - (nStandAlone(subtable) + nRefLookups(subtable))

\* the elements that are looked at
Checked == 1 .. Len(subtable) - (nAnonSubtables(subtable) + nRefLookups(subtable))

\* checkStandAloneTablRefs
CheckStandAloneTablRefs ==
    /\ pc = "resolved"
    /\ warned' = {inx \in {subtable[i].index.lookup :
                              i \in {j \in Checked : subtable[j].feature = STAND_ALONE}} :
                     ~SeenRef(inx)}
    /\ pc' = "checked"
    /\ UNCHANGED <<subtable, label, tbl, called>>

\* The table has been built or given up.
Finished == pc \in {"checked", "fatal"} /\ UNCHANGED vars

Next ==
    \/ AddLookup \/ AddParam \/ AddMore \/ AddReference \/ AddDangling
    \/ Fill \/ SetAnonLookupIndices \/ CheckStandAloneTablRefs
    \/ Finished

Spec == Init /\ [][Next]_vars

-----------------------------------------------------------------------------
(* Properties *)

Filled == pc \in {"filled", "resolved", "checked"}

\* The subtables that a text shaper finds under a script, language and feature tag
Found(script, language, f) ==
    UNION {tbl.lookup[k] :
        k \in UNION {{tbl.feature[n].lookups[i] : i \in DOMAIN tbl.feature[n].lookups} :
            n \in {m \in UNION {r.features : r \in {x \in tbl.langSys :
                                     x.script = script /\ x.language = language}} :
                      tbl.feature[m].tag = f}}}

\* The subtables of the lookups that the client registered under them
RegisteredUnder(scope) ==
    LET labels == {BaseLab(sub.label) :
                     sub \in {x \in Definitions \cup References : Scope(x) = scope /\ ~x.isFeatParam}}
    IN  {d.offset : d \in {x \in Definitions : x.label \in labels}}

\* Four sorts and three passes over spans of indexes later, a text shaper finds under each
\* script, language and feature exactly the lookups that were registered there: no
\* index is out of its list, none leads to the lookup of another feature or to a stand-alone
\* or anonymous one, and no other script, language or feature is in the table.
AppliesRegistered ==
    Filled =>
        /\ \A r \in tbl.langSys : r.features \subseteq DOMAIN tbl.feature
        /\ UNION {{<<r.script, r.language, tbl.feature[n].tag>> : n \in r.features} : r \in tbl.langSys}
           = {Scope(d) : d \in {x \in Definitions \cup References : Scope(x) \in Regular}}
        /\ \A scope \in Regular : Found(scope[1], scope[2], scope[3]) = RegisteredUnder(scope)

\* "We want the lookups indices to be ordered in the order that they were created by feature
\* file definitions" (calcLookupListIndexes), those of aalt before all others, and a feature lists its
\* lookups in that order: this is the order in which a text shaper applies them.
InFileOrder ==
    Filled =>
        /\ \A j, k \in DOMAIN tbl.lookup : j < k =>
              \A a, b \in Definitions :
                 a.offset \in tbl.lookup[j] /\ b.offset \in tbl.lookup[k] =>
                    \/ a.feature = "aalt" /\ b.feature # "aalt"
                    \/ (a.feature = "aalt" <=> b.feature = "aalt") /\ a.offset < b.offset
        /\ \A n \in DOMAIN tbl.feature :
              LET lookups == tbl.feature[n].lookups
              IN  \A i, j \in DOMAIN lookups : i < j => lookups[i] < lookups[j]

\* The parameters of a feature, which are recorded once and referred to from every other
\* language system, are found from each of them, and from no other feature.
ParamsFound ==
    Filled =>
        \A r \in tbl.langSys : \A n \in r.features :
            LET labels == {BaseLab(sub.label) : sub \in {x \in Definitions \cup References :
                              x.isFeatParam /\ Scope(x) = <<r.script, r.language, tbl.feature[n].tag>>}}
            IN  IF labels = {} THEN tbl.feature[n].param = None
                ELSE \E d \in Definitions : d.label \in labels /\ d.offset = tbl.feature[n].param

\* A chaining rule calls the lookup whose label it was given when the rule was read: the
\* index it ends up with is that of the subtables with this label and no others.
ChainRulesCall ==
    pc \in {"resolved", "checked"} =>
        \A lab \in DOMAIN called :
            /\ called[lab] \in DOMAIN tbl.lookup
            /\ tbl.lookup[called[lab]] = {d.offset : d \in {x \in Definitions : x.label = lab}}

\* A stand-alone lookup is reported as unused exactly if no reference and no chaining rule
\* leads to it.
UnusedReported ==
    pc = "checked" =>
        warned = {k \in DOMAIN tbl.lookup :
                    \E d \in Definitions :
                        /\ d.offset \in tbl.lookup[k] /\ d.feature = STAND_ALONE
                        /\ d.label \notin DOMAIN called
                        /\ \A r \in References : BaseLab(r.label) # d.label}

=============================================================================
