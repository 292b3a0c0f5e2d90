----------------------------- MODULE FeatLangSys -----------------------------
(***************************************************************************)
(* What a feature block promises: under which script and language each of  *)
(* its lookups ends up.  This is the abstract specification that FeatCtx   *)
(* implements (see FeatRegistration).  It knows nothing of labels, runs of *)
(* rules, references or modes; a lookup is a value.                        *)
(***************************************************************************)
EXTENDS Naturals

CONSTANTS
    Scripts, Langs, Features,
    Lookups,          \* the lookups a file may define
    FirstOf(_)        \* the language system that comes first in tag order

VARIABLES
    langsys,   \* the language systems of the languagesystem statements
    reg,       \* <<script, language, feature, lookup>>: registered so far
    blk        \* the feature block being read, or NoBlock

NoBlock == [open |-> FALSE]

\* A block being read: where its next lookup goes, the lookups before its first script
\* or language statement (top), the defaults of the current script (deflt), what is
\* registered explicitly, and the language systems that exclude the top lookups.
NewBlock(f, ls) ==
    [open |-> TRUE, feature |-> f, script |-> ls[1], language |-> ls[2], atTop |-> TRUE,
     top |-> {}, deflt |-> {}, explicit |-> {}, excl |-> {}]

Init == langsys = {} /\ reg = {} /\ blk = NoBlock

AddLangSys(s, l) ==
    /\ ~blk.open
    /\ langsys' = langsys \cup {<<s, l>>}
    /\ UNCHANGED <<reg, blk>>

\* Without languagesystem statements the file behaves as if it had: DFLT dflt.
Begin(f) ==
    /\ ~blk.open
    /\ langsys' = IF langsys = {} THEN {<<"DFLT", "dflt">>} ELSE langsys
    /\ blk' = NewBlock(f, FirstOf(langsys'))
    /\ UNCHANGED reg

\* A lookup block is met outside of feature blocks: only the default language system.
BeginStandAlone ==
    /\ ~blk.open
    /\ langsys' = IF langsys = {} THEN {<<"DFLT", "dflt">>} ELSE langsys
    /\ UNCHANGED <<reg, blk>>

\* The block after a script statement
AfterScript(b, s) ==
    [b EXCEPT !.script = s, !.language = "dflt", !.atTop = FALSE,
              !.deflt = IF s = b.script THEN @ ELSE {}]

\* ... after a language statement: the defaults of the script are included, unless the
\* statement excludes them; then neither they nor the top lookups apply.
AfterLanguage(b, l, incl) ==
    [b EXCEPT !.language = l, !.atTop = FALSE,
              !.explicit = IF incl THEN @ \cup ({b.script} \X {l} \X b.deflt) ELSE @,
              !.excl = IF incl THEN @ ELSE @ \cup {<<b.script, l>>}]

\* ... after rules that form lookup k, or a reference to it
AfterLookup(b, k) ==
    [b EXCEPT !.top = IF b.atTop THEN @ \cup {k} ELSE @,
              !.explicit = IF b.atTop THEN @ ELSE @ \cup {<<b.script, b.language, k>>},
              !.deflt = IF b.atTop \/ b.language = "dflt" THEN @ \cup {k} ELSE @]

Script(s) == blk.open /\ blk' = AfterScript(blk, s) /\ UNCHANGED <<langsys, reg>>

Language(l, incl) ==
    blk.open /\ blk' = AfterLanguage(blk, l, incl) /\ UNCHANGED <<langsys, reg>>

Lookup(k) == blk.open /\ blk' = AfterLookup(blk, k) /\ UNCHANGED <<langsys, reg>>

\* What the whole block registers
Registers(b) ==
    {<<ls[1], ls[2], b.feature, k>> : ls \in langsys \ b.excl, k \in b.top}
    \cup {<<e[1], e[2], b.feature, e[3]>> : e \in b.explicit}

End ==
    /\ blk.open
    /\ reg' = reg \cup Registers(blk)
    /\ blk' = NoBlock
    /\ UNCHANGED langsys

Next ==
    \/ \E s \in Scripts, l \in Langs : AddLangSys(s, l)
    \/ \E f \in Features : Begin(f)
    \/ BeginStandAlone
    \/ \E s \in Scripts : Script(s)
    \/ \E l \in Langs, incl \in BOOLEAN : Language(l, incl)
    \/ \E k \in Lookups : Lookup(k)
    \/ End

Spec == Init /\ [][Next]_<<langsys, reg, blk>>

=============================================================================
