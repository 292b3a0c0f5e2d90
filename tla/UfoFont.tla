------------------------------ MODULE UfoFont ------------------------------
(***************************************************************************)
(* A UFO font on disk and the programs that change it outside a hinting    *)
(* run: the user's editor and checkoutlinesufo.  src/python/afdko/         *)
(* ufotools.py, checkoutlinesufo.py, makeotf.py.                           *)
(*                                                                         *)
(* An outline is a value that stands for the drawing operators of a glyph; *)
(* its hash is itself.  A glyph file holds an outline and the outline its  *)
(* hints were made for (the "id" of the hint data), so an edit leaves the  *)
(* hints in the file and makes them wrong.  A file of the processed layer  *)
(* holds the source outline it was made from.                              *)
(***************************************************************************)
EXTENDS FiniteSets, Sequences

CONSTANTS
    Fonts,          \* the fonts of a family, hinted together
    Glyphs,         \* glyph names
    Outlines,       \* what a glyph may look like
    None,           \* no glyph, no file, no hints or no entry
    Uses            \* uses of the programs that are modelled, of AllUses

\* Uses under which the promises of the hash map are not kept:
\*   undo            a glyph is edited back to the outline its entry names
\*   check_some      checkoutlinesufo corrects some glyphs of a font in which
\*                   others were edited
\*   check_killed    checkoutlinesufo is killed
\*   edit_checked    otfautohint is run on a glyph edited after it was checked
\*   default_later   otfautohint first writes the processed layer and later,
\*                   in another run, the default layer
AllUses == {"undo", "check_some", "check_killed", "edit_checked",
            "default_later"}

ASSUME UsesAssumption == Uses \subseteq AllUses

CheckOutlines == "checkOutlines"
Autohint == "autohint"
Programs == {CheckOutlines, Autohint}

File == [of : Outlines, hints : Outlines \union {None}]
Entry == [hash : Outlines, history : SUBSET Programs]
Layer == [Glyphs -> File \union {None}]
HashMap == [Glyphs -> Entry \union {None}]

ASSUME NoneAssumption == None \notin Outlines \union File \union Entry

VARIABLES
    default,        \* the default layer of each font
    processed,      \* the glyph files in the processed layer's directory
    listed,         \* the glyphs its contents.plist names
    entries         \* the hash map in the font's data directory

disk == <<default, processed, listed, entries>>

DiskTypeOK ==
    /\ default \in [Fonts -> Layer]
    /\ processed \in [Fonts -> Layer]
    /\ listed \in [Fonts -> SUBSET Glyphs]
    /\ entries \in [Fonts -> HashMap]

\* A font no AFDKO program has touched, sparse or not.
DiskInit ==
    /\ default \in [Fonts -> [Glyphs -> [of : Outlines, hints : {None}] \union {None}]]
    /\ processed = [f \in Fonts |-> [g \in Glyphs |-> None]]
    /\ listed = [f \in Fonts |-> {}]
    /\ entries = [f \in Fonts |-> [g \in Glyphs |-> None]]

-----------------------------------------------------------------------------
(***************************************************************************)
(* What a reader of the font finds.                                        *)
(***************************************************************************)

\* One value of one font is replaced.
Put(values, f, g, x) == [values EXCEPT ![f] = [values[f] EXCEPT ![g] = x]]

\* An entry with another program in its history, or with another hash.
WithProgram(e, p) == [e EXCEPT !.history = @ \union {p}]
WithHash(e, h) == [e EXCEPT !.hash = h]

Same(e, h) == e # None /\ e.hash = h

\* The glyphs a font has.
Present(f) == {g \in Glyphs : default[f][g] # None}

\* The hash of an entry is that of the glyph in the default layer.
Matches(e, f, g) == Same(e, default[f][g].of)

InHistory(p, e) == e # None /\ p \in e.history

\* The file a reader that trusts the processed layer takes.
Seen(f, g) == IF g \in listed[f] /\ processed[f][g] # None
              THEN processed[f][g] ELSE default[f][g]

\* What the reader takes is drawn as the source is, with hints made for it.
Hinted(f, g) ==
    /\ Seen(f, g).of = default[f][g].of
    /\ Seen(f, g).hints = default[f][g].of

-----------------------------------------------------------------------------
(***************************************************************************)
(* The user's editor changes the outline of a glyph in the default layer.  *)
(***************************************************************************)

Edit(f, g) ==
    /\ g \in Present(f)
    /\ \E o \in Outlines \ {default[f][g].of} :
          /\ "undo" \in Uses \/ ~ Same(entries[f][g], o)
          /\ default' = Put(default, f, g, [of |-> o, hints |-> default[f][g].hints])
    /\ UNCHANGED <<processed, listed, entries>>

-----------------------------------------------------------------------------
(***************************************************************************)
(* checkoutlinesufo.  A glyph it has checked and that did not change since *)
(* is skipped; any other gets a new entry that names this program alone,   *)
(* and its processed file is removed at once.  With -e the glyphs whose    *)
(* outlines it corrects are written, to the processed layer or, if it is   *)
(* asked to, to the default layer; the hash map is written at the end.     *)
(***************************************************************************)

\* validateLayers: files and contents.plist name the same glyphs.
Valid(f) == {g \in listed[f] : processed[f][g] # None}

ToCheck(f, selected, all) ==
    {g \in selected \intersect Present(f) :
        all \/ ~ (/\ Matches(entries[f][g], f, g)
                  /\ InHistory(CheckOutlines, entries[f][g]))}

\* Mutant: a processed file stays when its glyph is checked anew.
KeptAll(f, checked) ==
    [g \in Glyphs |-> IF g \in Valid(f) THEN processed[f][g] ELSE None]

\* The processed files that are not removed.
Kept(f, checked) ==
    [g \in Glyphs |-> IF g \in Valid(f) \ checked THEN processed[f][g] ELSE None]

CheckedEntries(f, checked) ==
    [g \in Glyphs |->
        IF g \in checked
        THEN [hash |-> default[f][g].of, history |-> {CheckOutlines}]
        ELSE entries[f][g]]

\* Mutant: the glyph is stored in place of its hash.
RegeneratedGlyph(map, layer) ==
    [g \in Glyphs |->
        IF map[g] = None THEN None ELSE WithHash(map[g], layer[g])]

\* regenerate_glyph_hashes: every entry takes the hash its glyph has now.
Regenerated(map, layer) ==
    [g \in Glyphs |->
        IF map[g] = None THEN None
        ELSE WithHash(map[g], layer[g].of)]

\* The files of the corrected glyphs: drawn as the source, without hints.
Corrected(f, fixed, files) ==
    [g \in Glyphs |-> IF g \in fixed
                      THEN [of |-> default[f][g].of, hints |-> None]
                      ELSE files[g]]

\* The default layer after the corrected outlines were written over it.
Redrawn(f, fixed, o) ==
    [g \in Glyphs |-> IF g \in fixed
                      THEN [of |-> o[g], hints |-> default[f][g].hints]
                      ELSE default[f][g]]

\* A run that corrects nothing: the report of problems, without -e, leaves
\* contents.plist as it was even where it removed a file.
CheckOnly(f, selected, all, fix) ==
    LET checked == ToCheck(f, selected, all)
        kept == Kept(f, checked)
    IN  /\ processed' = [processed EXCEPT ![f] = kept]
        /\ listed' = [listed EXCEPT ![f] =
                         IF fix THEN {g \in Glyphs : kept[g] # None} ELSE Valid(f)]
        /\ entries' = [entries EXCEPT ![f] = CheckedEntries(f, checked)]
        /\ UNCHANGED default

\* A run with -e that corrects the outlines of the glyphs "fixed".
CheckAndFix(f, selected, all, fixed) ==
    LET checked == ToCheck(f, selected, all)
        files == Corrected(f, fixed, Kept(f, checked))
    IN  /\ fixed # {}
        /\ fixed \subseteq checked
        /\ \/ "check_some" \in Uses
           \/ \A g \in Present(f) \ selected :
                 entries[f][g] # None => Matches(entries[f][g], f, g)
        /\ processed' = [processed EXCEPT ![f] = files]
        /\ listed' = [listed EXCEPT ![f] = {g \in Glyphs : files[g] # None}]
        /\ entries' = [entries EXCEPT ![f] =
                          Regenerated(CheckedEntries(f, checked), default[f])]
        /\ UNCHANGED default

CheckAndFixDefault(f, selected, all, fixed) ==
    LET checked == ToCheck(f, selected, all)
        kept == Kept(f, checked)
    IN  /\ fixed # {}
        /\ fixed \subseteq checked
        /\ \/ "check_some" \in Uses
           \/ \A g \in Present(f) \ selected :
                 entries[f][g] # None => Matches(entries[f][g], f, g)
        /\ \E o \in [fixed -> Outlines] :
              LET layer == Redrawn(f, fixed, o)
              IN  /\ default' = [default EXCEPT ![f] = layer]
                  /\ entries' = [entries EXCEPT ![f] =
                                    Regenerated(CheckedEntries(f, checked), layer)]
        /\ processed' = [processed EXCEPT ![f] = kept]
        /\ listed' = [listed EXCEPT ![f] = {g \in Glyphs : kept[g] # None}]

\* A killed run has removed files of glyphs whose entries it did not write.
CheckKilled(f, selected, all) ==
    /\ "check_killed" \in Uses
    /\ \E checked \in SUBSET ToCheck(f, selected, all) :
          processed' = [processed EXCEPT ![f] = Kept(f, checked)]
    /\ listed' = [listed EXCEPT ![f] = Valid(f)]
    /\ UNCHANGED <<default, entries>>

RunCheckOutlines(f) ==
    \E selected \in SUBSET Present(f), all \in BOOLEAN :
        /\ selected # {}
        /\ \/ \E fix \in BOOLEAN : CheckOnly(f, selected, all, fix)
           \/ \E fixed \in SUBSET selected :
                 \/ CheckAndFix(f, selected, all, fixed)
                 \/ CheckAndFixDefault(f, selected, all, fixed)
           \/ CheckKilled(f, selected, all)
=============================================================================
