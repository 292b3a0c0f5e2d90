------------------------------ MODULE Autohint ------------------------------
(***************************************************************************)
(* otfautohint on a family of UFO fonts: src/python/afdko/otfautohint/     *)
(* autohint.py and ufoFont.py.                                             *)
(*                                                                         *)
(* Two threads of the program share its fonts.  The thread that feeds the  *)
(* pool runs glyphiter.__next__: it reads a glyph from every font, decides *)
(* by the hash map whether to skip it, and changes the map in memory.  The *)
(* main thread takes the results, in any order, and stores them with       *)
(* updateFromGlyph.  A worker owns no state: what it returns is chosen     *)
(* when it is received.  When all results are in, the fonts are saved one  *)
(* after the other: layer contents, glyph files, contents.plist, hash map. *)
(* The program may be killed between any two steps.                        *)
(***************************************************************************)
EXTENDS UfoFont

CONSTANTS
    Reference       \* the first font, whose glyph list is used

ASSUME ReferenceAssumption == Reference \in Fonts

VARIABLES
    pc,             \* what the main thread does; "idle" when nothing runs
    ended,          \* how the last run ended; "none" when the font changed since
    all,            \* options.hintAll
    toDefault,      \* options.writeToDefaultLayer
    unread,         \* names the glyph iterator has still to deliver
    tasks,          \* names given to the pool whose results are not in
    given,          \* the fonts whose glyph was sent under a name
    hashMap,        \* UFOFontData.hashMap of each font
    hashMapChanged,
    processedMap,   \* the keys of UFOFontData.processedLayerGlyphMap
    newGlyphs,      \* UFOFontData.newGlyphMap
    hintedAny,
    unsaved,        \* the fonts still to save
    saving,         \* the font being saved
    unwritten       \* its glyph files still to write

options == <<all, toDefault>>
memory == <<hashMap, hashMapChanged, processedMap, newGlyphs>>
pool == <<unread, tasks, given>>
save == <<unsaved, saving, unwritten>>
vars == <<disk, pc, ended, options, pool, memory, hintedAny, save>>

Steps == {"idle", "hinting", "layers", "glyphs", "map"}
Ends == {"none", "saved", "closed", "failed", "killed"}

TypeOK ==
    /\ DiskTypeOK
    /\ pc \in Steps
    /\ ended \in Ends
    /\ all \in BOOLEAN
    /\ toDefault \in BOOLEAN
    /\ unread \subseteq Glyphs
    /\ tasks \subseteq Glyphs
    /\ given \in [Glyphs -> SUBSET Fonts]
    /\ hashMap \in [Fonts -> HashMap]
    /\ hashMapChanged \in [Fonts -> BOOLEAN]
    /\ processedMap \in [Fonts -> SUBSET Glyphs]
    /\ newGlyphs \in [Fonts -> Layer]
    /\ hintedAny \in BOOLEAN
    /\ unsaved \subseteq Fonts
    /\ saving \in Fonts
    /\ unwritten \subseteq Glyphs

NoGlyphs == [f \in Fonts |-> [g \in Glyphs |-> None]]

\* The program is not running: whatever it held is gone.
Idle(how) ==
    /\ pc' = "idle"
    /\ ended' = how
    /\ all' = FALSE
    /\ toDefault' = FALSE
    /\ unread' = {}
    /\ tasks' = {}
    /\ given' = [g \in Glyphs |-> {}]
    /\ hashMap' = NoGlyphs
    /\ hashMapChanged' = [f \in Fonts |-> FALSE]
    /\ processedMap' = [f \in Fonts |-> {}]
    /\ newGlyphs' = NoGlyphs
    /\ hintedAny' = FALSE
    /\ unsaved' = {}
    /\ saving' = Reference
    /\ unwritten' = {}

Init ==
    /\ DiskInit
    /\ Present(Reference) # {}
    /\ pc = "idle"
    /\ ended = "none"
    /\ all = FALSE
    /\ toDefault = FALSE
    /\ unread = {}
    /\ tasks = {}
    /\ given = [g \in Glyphs |-> {}]
    /\ hashMap = NoGlyphs
    /\ hashMapChanged = [f \in Fonts |-> FALSE]
    /\ processedMap = [f \in Fonts |-> {}]
    /\ newGlyphs = NoGlyphs
    /\ hintedAny = FALSE
    /\ unsaved = {}
    /\ saving = Reference
    /\ unwritten = {}

-----------------------------------------------------------------------------
(***************************************************************************)
(* The decision of checkSkipGlyph, for an entry e of a glyph whose source  *)
(* has the hash h.                                                         *)
(***************************************************************************)

\* The source changed after checkoutlinesufo: an error, and the glyph is skipped.
Refused(e, h) == ~ Same(e, h) /\ InHistory(CheckOutlines, e)

\* Mutant: skips only what checkOutlines left, not what is hinted already.
SkipNothing(e, h) == Refused(e, h)

Skip(e, h) == \/ Same(e, h) /\ InHistory(Autohint, e) /\ ~ all
              \/ Refused(e, h)

\* Mutant: the old hash stays in the entry of an edited glyph.
CheckedOldHash(e, h) ==
    IF e # None THEN WithProgram(e, Autohint)
                ELSE [hash |-> h, history |-> {Autohint}]

\* The entry it leaves, whether or not the glyph is skipped.
Checked(e, h) ==
    IF Same(e, h) THEN WithProgram(e, Autohint)
                  ELSE [hash |-> h, history |-> {Autohint}]

-----------------------------------------------------------------------------
(***************************************************************************)
(* hint().                                                                 *)
(***************************************************************************)

\* The hash maps and the contents of the processed layers are read.
Start(names, doAll, writeToDefaultLayer) ==
    /\ pc = "idle"
    /\ names # {}
    /\ names \subseteq Present(Reference)
    /\ \/ "edit_checked" \in Uses
       \/ \A f \in Fonts : \A g \in names \intersect Present(f) :
             ~ Refused(entries[f][g], default[f][g].of)
    /\ \/ "default_later" \in Uses
       \/ ~ writeToDefaultLayer
       \/ \A f \in Fonts : listed[f] = {}
    /\ pc' = "hinting"
    /\ ended' = "none"
    /\ all' = doAll
    /\ toDefault' = writeToDefaultLayer
    /\ unread' = names
    /\ hashMap' = entries
    /\ processedMap' = listed
    /\ UNCHANGED <<disk, tasks, given, hashMapChanged, newGlyphs, hintedAny, save>>

\* The layer a glyph's outline is read from, and its file.
Source(f, g) == IF g \in processedMap[f] THEN processed[f][g] ELSE default[f][g]

\* The processed outlines of a glyph whose source changed are forgotten.
StillProcessed(f, g) ==
    IF Same(hashMap[f][g], default[f][g].of)
    THEN processedMap[f] ELSE processedMap[f] \ {g}

\* glyphiter.__next__, in the thread that feeds the pool.
Read(g) ==
    LET have == {f \in Fonts : g \in Present(f)}
        sent == {f \in have : ~ Skip(hashMap[f][g], default[f][g].of)}
    IN  /\ pc = "hinting"
        /\ g \in unread
        /\ unread' = unread \ {g}
        /\ hashMap' = [f \in Fonts |-> [n \in Glyphs |->
              IF n = g /\ f \in have
              THEN Checked(hashMap[f][g], default[f][g].of) ELSE hashMap[f][n]]]
        /\ hashMapChanged' = [f \in Fonts |->
              \/ hashMapChanged[f]
              \/ f \in have /\ ~ Same(hashMap[f][g], default[f][g].of)]
        /\ processedMap' = [f \in Fonts |->
              IF f \in have THEN StillProcessed(f, g) ELSE processedMap[f]]
        /\ \A f \in have : g \in StillProcessed(f, g) => processed[f][g] # None
        /\ tasks' = IF sent = {} THEN tasks ELSE tasks \union {g}
        /\ given' = [given EXCEPT ![g] = sent]
        /\ UNCHANGED <<disk, pc, ended, options, newGlyphs, hintedAny, save>>

\* contents.plist names a file that is gone: the exception ends the run.
ReadFails(g) ==
    /\ pc = "hinting"
    /\ g \in unread
    /\ \E f \in Fonts : /\ g \in Present(f)
                        /\ g \in StillProcessed(f, g)
                        /\ processed[f][g] = None
    /\ Idle("failed")
    /\ UNCHANGED disk

\* Mutant: a glyph that could not be hinted keeps its entry.
StoredAnyway(e, hinted) == IF hinted THEN WithProgram(e, Autohint) ELSE e

\* updateHashEntry of a glyph that was hinted, removeHashEntry of any other.
Stored(e, hinted) == IF hinted THEN WithProgram(e, Autohint) ELSE None

\* updateFromGlyph for the fonts that got a glyph back, and removeHashEntry for
\* the others.  The outline written to the default layer may be a rounded one.
Receive(g, back, hints) ==
    /\ pc = "hinting"
    /\ g \in tasks
    /\ \A f \in Fonts \ back : hashMap[f][g] # None
    /\ tasks' = tasks \ {g}
    /\ hintedAny' = (hintedAny \/ (hints /\ back # {}))
    /\ \E o \in [back -> Outlines] :
          /\ toDefault \/ \A f \in back : o[f] = Source(f, g).of
          /\ newGlyphs' = [f \in Fonts |-> [n \in Glyphs |->
                IF n = g /\ f \in back
                THEN [of |-> o[f], hints |-> o[f]] ELSE newGlyphs[f][n]]]
    /\ hashMap' = [f \in Fonts |-> [n \in Glyphs |->
          IF n = g THEN Stored(hashMap[f][g], f \in back) ELSE hashMap[f][n]]]
    /\ hashMapChanged' = [f \in Fonts |-> TRUE]
    /\ given' = [given EXCEPT ![g] = {}]
    /\ UNCHANGED <<disk, pc, ended, options, unread, processedMap, save>>

\* A worker returns all the glyphs it was given, or could not hint them.
ReceiveGlyphs(g) == \E hints \in BOOLEAN : Receive(g, given[g], hints)
ReceiveNothing(g) == Receive(g, {}, FALSE)

\* removeHashEntry of a glyph a sparse font does not have: the KeyError ends
\* the run.
ReceiveFails(g) ==
    /\ pc = "hinting"
    /\ g \in tasks
    /\ \E f \in Fonts : hashMap[f][g] = None
    /\ Idle("failed")
    /\ UNCHANGED disk

HintEnds ==
    /\ pc = "hinting"
    /\ unread = {}
    /\ tasks = {}
    /\ IF hintedAny
       THEN /\ pc' = "layers"
            /\ unsaved' = Fonts
            /\ UNCHANGED <<ended, options, pool, memory, hintedAny, saving, unwritten>>
       ELSE Idle("closed")
    /\ UNCHANGED disk

-----------------------------------------------------------------------------
(***************************************************************************)
(* save() of each font in turn.                                            *)
(***************************************************************************)

\* Layer contents: a run for the default layer deletes the processed one.
SaveLayers(f) ==
    /\ pc = "layers"
    /\ f \in unsaved
    /\ pc' = "glyphs"
    /\ saving' = f
    /\ unwritten' = {g \in Glyphs : newGlyphs[f][g] # None}
    /\ IF toDefault
       THEN /\ processed' = [processed EXCEPT ![f] = [g \in Glyphs |-> None]]
            /\ listed' = [listed EXCEPT ![f] = {}]
       ELSE UNCHANGED <<processed, listed>>
    /\ UNCHANGED <<default, entries, ended, options, pool, memory, hintedAny, unsaved>>

\* Mutant: the entry keeps the hash of the outline that was overwritten.
NotRecalculated(f, g) == hashMap

\* recalcHashEntry: the default layer now holds another outline.
Recalculated(f, g) ==
    Put(hashMap, f, g, WithHash(hashMap[f][g], newGlyphs[f][g].of))

SaveGlyph(g) ==
    /\ pc = "glyphs"
    /\ g \in unwritten
    /\ unwritten' = unwritten \ {g}
    /\ IF toDefault
       THEN /\ default' = Put(default, saving, g, newGlyphs[saving][g])
            /\ hashMap' = Recalculated(saving, g)
            /\ UNCHANGED processed
       ELSE /\ processed' = Put(processed, saving, g, newGlyphs[saving][g])
            /\ UNCHANGED <<default, hashMap>>
    /\ UNCHANGED <<listed, entries, pc, ended, options, pool, hashMapChanged,
                   processedMap, newGlyphs, hintedAny, unsaved, saving>>

\* Mutant: contents.plist names the new files only.
ContentsNew(f) == {g \in Glyphs : newGlyphs[f][g] # None}

\* What contents.plist names: what it named before and the new files.
Contents(f) == listed[f] \union {g \in Glyphs : newGlyphs[f][g] # None}

SaveContents ==
    /\ pc = "glyphs"
    /\ unwritten = {}
    /\ pc' = "map"
    /\ listed' = IF toDefault THEN listed
                 ELSE [listed EXCEPT ![saving] = Contents(saving)]
    /\ UNCHANGED <<default, processed, entries, ended, options, pool, memory,
                   hintedAny, save>>

\* Mutant: the hash maps of all fonts are written with the first one.
RememberedAll(f) == hashMap

\* The hash maps on disk when that of a font is written, if it changed.
Remembered(f) ==
    IF hashMapChanged[f] THEN [entries EXCEPT ![f] = hashMap[f]] ELSE entries

\* Mutant: a saved font is saved again.
RestAll(f) == unsaved

\* The fonts still to save after one.
Rest(f) == unsaved \ {f}

SaveMap ==
    /\ pc = "map"
    /\ entries' = Remembered(saving)
    /\ IF Rest(saving) = {}
       THEN Idle("saved")
       ELSE /\ pc' = "layers"
            /\ unsaved' = Rest(saving)
            /\ UNCHANGED <<ended, options, pool, memory, hintedAny, saving, unwritten>>
    /\ UNCHANGED <<default, processed, listed>>

Kill == pc # "idle" /\ Idle("killed") /\ UNCHANGED disk

-----------------------------------------------------------------------------

\* Nothing else runs while the user edits or checkoutlinesufo works.
Others(f) ==
    /\ pc = "idle"
    /\ RunCheckOutlines(f) \/ \E g \in Glyphs : Edit(f, g)
    /\ ended' = "none"
    /\ UNCHANGED <<pc, options, pool, memory, hintedAny, save>>

Run ==
    \/ \E g \in Glyphs : \/ Read(g) \/ ReadFails(g)
                         \/ ReceiveGlyphs(g) \/ ReceiveFails(g)
                         \/ SaveGlyph(g)
    \/ \E f \in Fonts : SaveLayers(f)
    \/ HintEnds \/ SaveContents \/ SaveMap

Next ==
    \/ \E f \in Fonts : Others(f)
    \/ \E names \in SUBSET Glyphs, a, d \in BOOLEAN : Start(names, a, d)
    \/ Run
    \/ \E g \in Glyphs : ReceiveNothing(g)
    \/ Kill

\* Once started, the program's threads run, its workers answer and every step
\* of a save is taken, unless the program is killed.
Fairness == WF_vars(Run)

Spec == Init /\ [][Next]_vars /\ Fairness

-----------------------------------------------------------------------------
(***************************************************************************)
(* Properties.                                                             *)
(***************************************************************************)

\* An entry that names otfautohint and has the hash of the source tells the
\* truth, whatever was killed and edited: the glyph file a reader takes is
\* drawn as the source and has hints made for it (ufoFont.py: "The glyph has
\* already been autohinted, and there have been no changes since").
EntriesTruthful ==
    \A f \in Fonts : \A g \in Present(f) :
        /\ Matches(entries[f][g], f, g)
        /\ InHistory(Autohint, entries[f][g])
        => Hinted(f, g)

\* makeotf takes a font when no entry differs from its source.  A processed
\* file whose entry does not differ was made from the source's outline, also
\* when the entry names checkoutlinesufo alone.
ProcessedFresh ==
    \A f \in Fonts : \A g \in listed[f] :
        Matches(entries[f][g], f, g) /\ processed[f][g] # None
            => processed[f][g].of = default[f][g].of

\* No step of a hinting run, a kill at any point included, takes the hints
\* from a glyph that had them.
HintsSurvive ==
    [][\A f \in Fonts : \A g \in Glyphs :
          pc # "idle" /\ g \in Present(f) /\ Hinted(f, g) => Hinted(f, g)']_vars

\* The next run skips the glyph.
UpToDate(f, g) ==
    Matches(entries[f][g], f, g) /\ InHistory(Autohint, entries[f][g])

\* When a font is saved, what its workers hinted is on disk and its entry
\* makes the next run skip it: its hash is that of the default layer as it is
\* after the save.
SavedIsRemembered ==
    [][\A f \in Fonts : \A g \in Glyphs :
          f \in unsaved /\ f \notin unsaved' /\ ended' # "killed"
                /\ newGlyphs[f][g] # None
             => UpToDate(f, g)' /\ Hinted(f, g)']_vars

\* With one font, a run makes no glyph need hinting again: what was up to date
\* stays so, unless the run was told to hint everything.
UpToDateStays ==
    [][\A f \in Fonts : \A g \in Present(f) :
          pc # "idle" /\ ~ all /\ UpToDate(f, g) => UpToDate(f, g)']_vars

\* The processed file of a glyph whose source changed is deleted (ufoFont.py:
\* "If the source hash has changed, we need to delete the processed layer
\* glyph"), for its readers trust it: when a font's glyphs are written, the
\* glyphs that were dropped from the processed layer's map are gone from the
\* layer or were made anew.  NOT so: a glyph that could not be hinted stays.
ForgottenIsReplaced ==
    pc = "map" => \A g \in listed[saving] \ processedMap[saving] :
                      g \in Present(saving)
                         => processed[saving][g].of = default[saving][g].of

\* Every run ends: saved, closed, failed or killed.
RunEnds == (pc # "idle") ~> (pc = "idle")
=============================================================================
