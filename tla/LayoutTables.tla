---------------------------- MODULE LayoutTables ----------------------------
(***************************************************************************)
(* What the feature-file compiler records while it reads a feature file:   *)
(* lookup labels (feat.h) and, for each of GSUB and GPOS, the lookup being *)
(* accumulated (h->new) and the list of subtables it has produced          *)
(* (h->subtables).  The operators below are the calls FeatCtx makes on     *)
(* GSUB.c and GPOS.c.  The contents of a rule (its glyphs) are abstracted  *)
(* to an identifier of the rule; the format of a subtable is left out.     *)
(***************************************************************************)
EXTENDS Integers, Sequences

CONSTANTS
    FEAT_NAMED_LKP_END,   \* last label of a named lookup (0x1FFF in feat.h)
    FEAT_ANON_LKP_END,    \* last label of an anonymous lookup (0x7FFE)
    REF_LAB               \* the reference bit of a label (1 << 15)

ASSUME LabelAssumption ==
    /\ FEAT_NAMED_LKP_END \in Nat
    /\ FEAT_ANON_LKP_END \in Nat
    /\ REF_LAB \in Nat
    /\ FEAT_NAMED_LKP_END < FEAT_ANON_LKP_END
    /\ FEAT_ANON_LKP_END < REF_LAB - 1

-----------------------------------------------------------------------------
(* Labels.  A label is an unsigned short; the top bit marks a reference.   *)

FEAT_ANON_LKP_BEG == FEAT_NAMED_LKP_END + 1
LAB_UNDEF == 2 * REF_LAB - 1

Label == 0 .. LAB_UNDEF

\* mutant: the reference bit is not set
RefLab_NoBit(lab) == lab

\* lab | REF_LAB: LAB_UNDEF and labels that are references already keep their value.
RefLab(lab) == IF lab >= REF_LAB THEN lab ELSE lab + REF_LAB

\* lab & ~REF_LAB
BaseLab(lab) == IF lab >= REF_LAB THEN lab - REF_LAB ELSE lab

IsRefLab(lab) == lab # LAB_UNDEF /\ lab >= REF_LAB
IsNamedLab(lab) == BaseLab(lab) \in 0 .. FEAT_NAMED_LKP_END
IsAnonLab(lab) == BaseLab(lab) \in FEAT_ANON_LKP_BEG .. FEAT_ANON_LKP_END

-----------------------------------------------------------------------------
(* The two tables.  UNDEF is TAG_UNDEF, and also an unset lookup type.     *)

UNDEF == "UNDEF"
Tables == {"GSUB", "GPOS"}

\* h->new before any lookup was begun.
NoLookup == [script |-> UNDEF, language |-> UNDEF, feature |-> UNDEF,
             lkpType |-> UNDEF, lkpFlag |-> 0, label |-> LAB_UNDEF, rules |-> {}]

EmptyLayout == [tbl \in Tables |-> [new |-> NoLookup, subtables |-> <<>>]]

\* GSUBFeatureBegin / GPOSFeatureBegin followed by GSUBLookupBegin / GPOSLookupBegin,
\* which every caller does together: the accumulator is emptied whatever it held.
LookupBegin(layout, tbl, script, language, feature, lkpType, lkpFlag, label) ==
    [layout EXCEPT ![tbl].new =
        [script |-> script, language |-> language, feature |-> feature,
         lkpType |-> lkpType, lkpFlag |-> lkpFlag, label |-> label, rules |-> {}]]

\* GSUBRuleAdd / GPOSRuleAdd: rules are dropped once an error was reported.
RuleAdd(layout, tbl, rule, hadError) ==
    IF hadError THEN layout
    ELSE [layout EXCEPT ![tbl].new.rules = @ \cup {rule}]

\* GSUBLookupEnd / GPOSLookupEnd.  A reference always leaves a subtable record; a
\* definition leaves one (or several, one here) unless an error was reported.  Only
\* GSUB empties its accumulator afterwards.
LookupEnd(layout, tbl, hadError) ==
    LET new == layout[tbl].new
        done == [new EXCEPT !.rules = IF tbl = "GSUB" THEN {} ELSE @]
    IN  IF IsRefLab(new.label)
        THEN [layout EXCEPT ![tbl].subtables = Append(@, new)]
        ELSE IF hadError
        THEN layout
        ELSE [layout EXCEPT ![tbl] = [new |-> done, subtables |-> Append(@.subtables, new)]]

=============================================================================
