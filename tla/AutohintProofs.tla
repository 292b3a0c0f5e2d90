--------------------------- MODULE AutohintProofs ---------------------------
(***************************************************************************)
(* Proofs about Autohint, for every family of fonts, every set of glyphs   *)
(* and of outlines: the types, and that an entry of the hash map on disk   *)
(* tells the truth after any sequence of edits, checks, hinting runs and   *)
(* kills outside the uses that AllUses names.                              *)
(*                                                                         *)
(* The map in memory runs ahead of the disk: an entry names otfautohint as *)
(* soon as its glyph is read. What must hold is that the entries of the    *)
(* glyphs that are neither unread nor in the pool are covered, by hints on *)
(* disk or by a glyph still to be written (Covered), and that the glyph is *)
(* on disk before the entry is.                                            *)
(*                                                                         *)
(* Two results about a hinting run follow: no step of it takes hints away, *)
(* and when a font is saved its glyphs are on disk and remembered.         *)
(***************************************************************************)
EXTENDS Autohint, TLAPS

\* Entries are of glyphs that exist.
EntriesPresent ==
    \A f \in Fonts : \A g \in Glyphs : entries[f][g] # None => default[f][g] # None

\* The types, and what they rest on.
TypeInv ==
    /\ TypeOK
    /\ EntriesPresent
    /\ \A f \in Fonts : \A g \in Glyphs :
          /\ hashMap[f][g] # None => default[f][g] # None
          /\ newGlyphs[f][g] # None => hashMap[f][g] # None
          /\ newGlyphs[f][g] # None => g \notin unread \union tasks
    /\ \A g \in tasks : \A f \in given[g] : hashMap[f][g] # None
    /\ unread \intersect tasks = {}
    /\ pc # "hinting" => unread = {} /\ tasks = {}
    /\ pc = "idle" => /\ \A f \in Fonts : \A g \in Glyphs :
                             hashMap[f][g] = None /\ newGlyphs[f][g] = None
                      /\ unsaved = {}
                      /\ toDefault = FALSE
    /\ \A g \in unwritten : newGlyphs[saving][g] # None

\* The processed file of a glyph that readers take, if any.
Trusted(f, g) == IF g \in listed[f] THEN processed[f][g] ELSE None

\* An entry e is honest about a glyph with the source d and the processed file
\* p: if it has the hash of the source, the file was made from the source, and
\* if it names otfautohint what is seen has hints for it.
Honest(e, d, p) ==
    Same(e, d.of) =>
        /\ p # None => p.of = d.of
        /\ Autohint \in e.history => (IF p # None THEN p ELSE d).hints = d.of

\* So is every entry on disk.
DiskHonest ==
    \A f \in Fonts : \A g \in Glyphs :
        default[f][g] # None =>
            Honest(entries[f][g], default[f][g], Trusted(f, g))

\* While a run writes the default layer there is no processed one.
OneLayer == \A f \in Fonts : toDefault => listed[f] = {}

\* A new glyph has hints for its outline, which is the source's.
NewHinted ==
    \A f \in Fonts : \A g \in Glyphs : newGlyphs[f][g] # None =>
        /\ newGlyphs[f][g].hints = newGlyphs[f][g].of
        /\ ~ toDefault => newGlyphs[f][g].of = default[f][g].of

\* Entries of unread glyphs are those on disk, and not of edited glyphs.
UnreadAsOnDisk ==
    \A f \in Fonts : \A g \in unread :
        /\ hashMap[f][g] = entries[f][g]
        /\ g \in processedMap[f] => g \in listed[f]
        /\ default[f][g] # None => ~ Refused(hashMap[f][g], default[f][g].of)

\* The outline a worker got is that of the source.
SentFresh ==
    \A g \in tasks : \A f \in given[g] :
        /\ default[f][g] # None
        /\ g \in processedMap[f] => processed[f][g].of = default[f][g].of

\* An entry in memory is honest or its glyph is to be written.
Covered ==
    \A f \in Fonts : \A g \in Glyphs :
        /\ pc = "hinting" \/ f \in unsaved
        /\ default[f][g] # None
        /\ g \notin unread \union tasks
        /\ newGlyphs[f][g] = None
        => Honest(hashMap[f][g], default[f][g], Trusted(f, g))

\* Of the font being saved, what is not still to write is in its layer.
Written ==
    pc = "glyphs" => \A g \in Glyphs \ unwritten :
        newGlyphs[saving][g] # None =>
            IF toDefault THEN default[saving][g] = newGlyphs[saving][g]
                         ELSE processed[saving][g] = newGlyphs[saving][g]

\* Its map is written when every entry in it is honest.
MapHonest ==
    pc = "map" => \A g \in Glyphs :
        default[saving][g] # None =>
            Honest(hashMap[saving][g], default[saving][g], Trusted(saving, g))

SavingUnsaved == pc \in {"glyphs", "map"} => saving \in unsaved

TruthInv ==
    /\ DiskHonest
    /\ OneLayer
    /\ NewHinted
    /\ UnreadAsOnDisk
    /\ SentFresh
    /\ Covered
    /\ Written
    /\ MapHonest
    /\ SavingUnsaved

-----------------------------------------------------------------------------
(* Values and cells. *)

\* Put changes one cell and keeps the type of the layers.
LEMMA PutFile ==
    ASSUME NEW v, NEW f \in Fonts, NEW g \in Glyphs, NEW x,
           v \in [Fonts -> Layer], x \in File
    PROVE  /\ Put(v, f, g, x) \in [Fonts -> Layer]
           /\ Put(v, f, g, x)[f][g] = x
           /\ \A k \in Fonts : \A n \in Glyphs :
                 ~ (k = f /\ n = g) => Put(v, f, g, x)[k][n] = v[k][n]
<1>1. x \in File \union {None} /\ v \in [Fonts -> [Glyphs -> File \union {None}]]
  BY DEF Layer
<1> QED  BY <1>1 DEF Put, Layer

\* The same for the hash maps.
LEMMA PutEntry ==
    ASSUME NEW v, NEW f \in Fonts, NEW g \in Glyphs, NEW x,
           v \in [Fonts -> HashMap], x \in Entry
    PROVE  /\ Put(v, f, g, x) \in [Fonts -> HashMap]
           /\ Put(v, f, g, x)[f][g] = x
           /\ \A k \in Fonts : \A n \in Glyphs :
                 ~ (k = f /\ n = g) => Put(v, f, g, x)[k][n] = v[k][n]
<1>1. x \in Entry \union {None} /\ v \in [Fonts -> [Glyphs -> Entry \union {None}]]
  BY DEF HashMap
<1> QED  BY <1>1 DEF Put, HashMap

\* None is no file and no entry.
LEMMA NoneIsNoValue ==
    /\ \A x \in File : x # None
    /\ \A x \in Entry : x # None
BY NoneAssumption

\* The ways in which entries are made.
LEMMA NewEntry ==
    ASSUME NEW h \in Outlines
    PROVE  /\ [hash |-> h, history |-> {Autohint}] \in Entry
           /\ [hash |-> h, history |-> {CheckOutlines}] \in Entry
BY DEF Entry, Programs, Autohint, CheckOutlines

\* Adding otfautohint's name to an entry leaves an entry with the same hash.
LEMMA EntryWithAutohint ==
    ASSUME NEW e \in Entry
    PROVE  /\ WithProgram(e, Autohint) \in Entry
           /\ WithProgram(e, Autohint).hash = e.hash
           /\ WithProgram(e, Autohint).history = e.history \union {Autohint}
BY DEF Entry, Programs, Autohint, WithProgram

\* Replacing the hash of an entry leaves an entry with the same history.
LEMMA EntryWithHash ==
    ASSUME NEW e \in Entry, NEW h \in Outlines
    PROVE  /\ WithHash(e, h) \in Entry
           /\ WithHash(e, h).hash = h
           /\ WithHash(e, h).history = e.history
BY DEF Entry, WithHash

\* What checkSkipGlyph leaves is an entry with the hash of the source.
LEMMA CheckedEntry ==
    ASSUME NEW e \in Entry \union {None}, NEW h \in Outlines
    PROVE  /\ Checked(e, h) \in Entry
           /\ Checked(e, h) # None
           /\ Checked(e, h).hash = h
           /\ Autohint \in Checked(e, h).history
<1>1. CASE Same(e, h)
  <2>1. e \in Entry /\ e.hash = h
    BY <1>1 DEF Same
  <2> QED  BY <1>1, <2>1, EntryWithAutohint, NoneIsNoValue DEF Checked
<1>2. CASE ~ Same(e, h)
  BY <1>2, NewEntry, NoneIsNoValue DEF Checked
<1> QED  BY <1>1, <1>2

-----------------------------------------------------------------------------
(* Types. *)

\* A program that ends leaves typed variables if the disk is typed.
LEMMA IdleTyped ==
    ASSUME NEW how \in Ends, Idle(how), DiskTypeOK', EntriesPresent'
    PROVE  TypeInv'
<1>1. TypeOK'
  BY ReferenceAssumption DEF Idle, TypeOK, NoGlyphs, Layer, HashMap, Steps
<1> QED  BY <1>1 DEF Idle, TypeInv, NoGlyphs

\* The initial state is well typed.
LEMMA InitTyped == Init => TypeInv
<1> SUFFICES ASSUME Init PROVE TypeInv
  OBVIOUS
<1>1. [of : Outlines, hints : {None}] \subseteq File
  BY DEF File
<1>2. DiskTypeOK
  BY <1>1 DEF Init, DiskInit, DiskTypeOK, Layer, HashMap
<1>3. TypeOK
  BY <1>2, ReferenceAssumption DEF Init, TypeOK, NoGlyphs, Layer, HashMap, Steps, Ends
<1> QED  BY <1>3 DEF Init, DiskInit, TypeInv, EntriesPresent, NoGlyphs

-----------------------------------------------------------------------------
(* checkoutlinesufo and the editor keep the types of the disk. *)

\* What the disk holds, cell by cell.
LEMMA DiskCells ==
    ASSUME DiskTypeOK, NEW f \in Fonts
    PROVE  /\ default[f] \in Layer /\ processed[f] \in Layer
           /\ entries[f] \in HashMap /\ listed[f] \in SUBSET Glyphs
           /\ \A g \in Present(f) : default[f][g] \in File
           /\ \A g \in Glyphs : processed[f][g] # None => processed[f][g] \in File
           /\ \A g \in Glyphs : entries[f][g] # None => entries[f][g] \in Entry
BY DEF DiskTypeOK, Layer, HashMap, Present

\* A file is an outline and hints.
LEMMA FileFields ==
    ASSUME NEW x \in File
    PROVE  /\ x.of \in Outlines /\ x.hints \in Outlines \union {None}
           /\ \A o \in Outlines :
                 /\ [of |-> o, hints |-> x.hints] \in File
                 /\ [of |-> o, hints |-> None] \in File
                 /\ [of |-> o, hints |-> o] \in File
BY DEF File

\* An edit keeps the disk well typed.
LEMMA EditTyped ==
    ASSUME DiskTypeOK, EntriesPresent, NEW f \in Fonts, NEW g \in Glyphs, Edit(f, g)
    PROVE  DiskTypeOK' /\ EntriesPresent'
<1>1. PICK o \in Outlines :
          default' = Put(default, f, g, [of |-> o, hints |-> default[f][g].hints])
  BY DEF Edit
<1>2. default[f][g] \in File
  BY DiskCells DEF Edit
<1> DEFINE x == [of |-> o, hints |-> default[f][g].hints]
<1>3. x \in File /\ x # None
  BY <1>2, FileFields, NoneIsNoValue
<1> HIDE DEF x
<1>4. default' = Put(default, f, g, x) /\ default \in [Fonts -> Layer]
  BY <1>1 DEF x, DiskTypeOK
<1>5. /\ default' \in [Fonts -> Layer]
      /\ default'[f][g] = x
      /\ \A k \in Fonts : \A n \in Glyphs :
            ~ (k = f /\ n = g) => default'[k][n] = default[k][n]
  BY <1>3, <1>4, PutFile
<1>6. UNCHANGED <<processed, listed, entries>>
  BY DEF Edit
<1>7. EntriesPresent'
  BY <1>3, <1>5, <1>6 DEF EntriesPresent
<1> QED  BY <1>5, <1>6, <1>7 DEF DiskTypeOK

\* The processed files that are left.
LEMMA KeptCells ==
    ASSUME DiskTypeOK, NEW f \in Fonts, NEW checked
    PROVE  /\ Kept(f, checked) \in Layer
           /\ \A g \in Glyphs :
                 Kept(f, checked)[g] =
                     IF g \in Valid(f) \ checked THEN processed[f][g] ELSE None
BY DiskCells DEF Kept, Layer

\* The entries of glyphs that were checked name checkoutlinesufo alone.
LEMMA CheckedEntriesCells ==
    ASSUME DiskTypeOK, EntriesPresent, NEW f \in Fonts,
           NEW checked \in SUBSET Present(f)
    PROVE  /\ CheckedEntries(f, checked) \in HashMap
           /\ \A g \in Glyphs :
                 /\ CheckedEntries(f, checked)[g] # None => default[f][g] # None
                 /\ g \in checked =>
                       CheckedEntries(f, checked)[g].history = {CheckOutlines}
                 /\ g \notin checked => CheckedEntries(f, checked)[g] = entries[f][g]
<1>1. \A g \in checked :
          [hash |-> default[f][g].of, history |-> {CheckOutlines}] \in Entry
  BY DiskCells, FileFields, NewEntry
<1> QED  BY <1>1, DiskCells DEF CheckedEntries, HashMap, Present, EntriesPresent

\* Every entry takes the hash of the layer, and keeps its history.
LEMMA RegeneratedCells ==
    ASSUME NEW map \in HashMap, NEW layer \in Layer,
           \A g \in Glyphs : map[g] # None => layer[g] # None
    PROVE  /\ Regenerated(map, layer) \in HashMap
           /\ \A g \in Glyphs :
                 /\ Regenerated(map, layer)[g] # None <=> map[g] # None
                 /\ map[g] # None =>
                       /\ Regenerated(map, layer)[g].hash = layer[g].of
                       /\ Regenerated(map, layer)[g].history = map[g].history
<1>1. \A g \in Glyphs : map[g] # None =>
          /\ map[g] \in Entry
          /\ layer[g].of \in Outlines
  BY FileFields DEF HashMap, Layer
<1>2. \A g \in Glyphs : map[g] # None =>
          /\ WithHash(map[g], layer[g].of) \in Entry
          /\ WithHash(map[g], layer[g].of).hash = layer[g].of
          /\ WithHash(map[g], layer[g].of).history = map[g].history
  BY <1>1, EntryWithHash
<1>3. \A g \in Glyphs : Regenerated(map, layer)[g] =
          IF map[g] = None THEN None ELSE WithHash(map[g], layer[g].of)
  BY DEF Regenerated
<1>4. \A g \in Glyphs : Regenerated(map, layer)[g] \in Entry \union {None}
  BY <1>2, <1>3
<1>5. Regenerated(map, layer) \in HashMap
  <2>1. Regenerated(map, layer) = [g \in Glyphs |-> Regenerated(map, layer)[g]]
    BY DEF Regenerated
  <2> QED  BY <2>1, <1>4 DEF HashMap
<1>6. \A g \in Glyphs : Regenerated(map, layer)[g] # None <=> map[g] # None
  BY <1>2, <1>3, NoneIsNoValue
<1> QED  BY <1>2, <1>3, <1>5, <1>6

\* The files that checkoutlinesufo corrects are outlines without hints; the others stay.
LEMMA CorrectedCells ==
    ASSUME DiskTypeOK, NEW f \in Fonts, NEW fixed \in SUBSET Present(f),
           NEW files \in Layer
    PROVE  /\ Corrected(f, fixed, files) \in Layer
           /\ \A g \in Glyphs \ fixed : Corrected(f, fixed, files)[g] = files[g]
<1>1. \A g \in fixed : [of |-> default[f][g].of, hints |-> None] \in File
  BY DiskCells, FileFields
<1> QED  BY <1>1 DEF Corrected, Layer

\* So are those it redraws in the default layer: no glyph appears or goes.
LEMMA RedrawnCells ==
    ASSUME DiskTypeOK, NEW f \in Fonts, NEW fixed \in SUBSET Present(f),
           NEW o \in [fixed -> Outlines]
    PROVE  /\ Redrawn(f, fixed, o) \in Layer
           /\ \A g \in Glyphs :
                 /\ Redrawn(f, fixed, o)[g] # None <=> default[f][g] # None
                 /\ g \notin fixed => Redrawn(f, fixed, o)[g] = default[f][g]
<1>1. \A g \in fixed : [of |-> o[g], hints |-> default[f][g].hints] \in File
  BY DiskCells, FileFields
<1> QED  BY <1>1, DiskCells, NoneIsNoValue DEF Redrawn, Layer, Present
\* A run of checkoutlinesufo, whatever it does to a font.
LEMMA CheckTyped ==
    ASSUME DiskTypeOK, EntriesPresent, NEW f \in Fonts, RunCheckOutlines(f)
    PROVE  DiskTypeOK' /\ EntriesPresent'
<1>1. PICK selected \in SUBSET Present(f), every \in BOOLEAN :
          \/ \E fix \in BOOLEAN : CheckOnly(f, selected, every, fix)
          \/ \E fixed \in SUBSET selected :
                \/ CheckAndFix(f, selected, every, fixed)
                \/ CheckAndFixDefault(f, selected, every, fixed)
          \/ CheckKilled(f, selected, every)
  BY DEF RunCheckOutlines
<1> DEFINE checked == ToCheck(f, selected, every)
           marked == CheckedEntries(f, checked)
<1>2. checked \in SUBSET Present(f) /\ Valid(f) \in SUBSET Glyphs
  BY DEF ToCheck, Valid, DiskTypeOK
<1>3. /\ marked \in HashMap
      /\ \A g \in Glyphs : marked[g] # None => default[f][g] # None
  BY <1>2, CheckedEntriesCells
<1>4. Kept(f, checked) \in Layer
  BY KeptCells
<1>5. default[f] \in Layer
  BY DiskCells
<1> HIDE DEF checked, marked
<1>6. CASE \E fix \in BOOLEAN : CheckOnly(f, selected, every, fix)
  <2>1. /\ processed' = [processed EXCEPT ![f] = Kept(f, checked)]
        /\ \E s \in SUBSET Glyphs : listed' = [listed EXCEPT ![f] = s]
        /\ entries' = [entries EXCEPT ![f] = marked]
        /\ default' = default
    BY <1>6, <1>2 DEF CheckOnly, checked, marked
  <2>2. DiskTypeOK'
    BY <2>1, <1>3, <1>4 DEF DiskTypeOK
  <2> QED  BY <2>1, <2>2, <1>3 DEF EntriesPresent, DiskTypeOK
<1>7. CASE \E fixed \in SUBSET selected : CheckAndFix(f, selected, every, fixed)
  <2>1. PICK fixed \in SUBSET selected : CheckAndFix(f, selected, every, fixed)
    BY <1>7
  <2> DEFINE files == Corrected(f, fixed, Kept(f, checked))
             map == Regenerated(marked, default[f])
  <2>2. files \in Layer
    BY <1>1, <1>4, CorrectedCells
  <2>3. map \in HashMap /\ \A g \in Glyphs : map[g] # None => marked[g] # None
    BY <1>3, <1>5, RegeneratedCells
  <2>4. /\ processed' = [processed EXCEPT ![f] = files]
        /\ \E s \in SUBSET Glyphs : listed' = [listed EXCEPT ![f] = s]
        /\ entries' = [entries EXCEPT ![f] = map]
        /\ default' = default
    BY <2>1 DEF CheckAndFix, checked, marked
  <2> HIDE DEF files, map
  <2>5. DiskTypeOK'
    BY <2>2, <2>3, <2>4 DEF DiskTypeOK
  <2> QED  BY <2>3, <2>4, <2>5, <1>3 DEF EntriesPresent, DiskTypeOK
<1>8. CASE \E fixed \in SUBSET selected : CheckAndFixDefault(f, selected, every, fixed)
  <2>1. PICK fixed \in SUBSET selected : CheckAndFixDefault(f, selected, every, fixed)
    BY <1>8
  <2>2. PICK o \in [fixed -> Outlines] :
            /\ default' = [default EXCEPT ![f] = Redrawn(f, fixed, o)]
            /\ entries' = [entries EXCEPT ![f] =
                              Regenerated(marked, Redrawn(f, fixed, o))]
    BY <2>1 DEF CheckAndFixDefault, checked, marked
  <2> DEFINE layer == Redrawn(f, fixed, o)
             map == Regenerated(marked, layer)
  <2>3. /\ layer \in Layer
        /\ \A g \in Glyphs : layer[g] # None <=> default[f][g] # None
    BY <1>1, RedrawnCells
  <2>4. map \in HashMap /\ \A g \in Glyphs : map[g] # None => marked[g] # None
    <3> HIDE DEF layer
    <3> QED  BY <1>3, <2>3, RegeneratedCells
  <2>5. /\ default' = [default EXCEPT ![f] = layer]
        /\ entries' = [entries EXCEPT ![f] = map]
        /\ processed' = [processed EXCEPT ![f] = Kept(f, checked)]
        /\ \E s \in SUBSET Glyphs : listed' = [listed EXCEPT ![f] = s]
    BY <2>1, <2>2 DEF CheckAndFixDefault, checked, marked
  <2> HIDE DEF layer, map
  <2>6. DiskTypeOK'
    BY <2>3, <2>4, <2>5, <1>4 DEF DiskTypeOK
  <2> QED  BY <2>3, <2>4, <2>5, <2>6, <1>3 DEF EntriesPresent, DiskTypeOK
<1>9. CASE CheckKilled(f, selected, every)
  <2>1. PICK some \in SUBSET checked :
            processed' = [processed EXCEPT ![f] = Kept(f, some)]
    BY <1>9 DEF CheckKilled, checked
  <2>2. Kept(f, some) \in Layer
    BY KeptCells
  <2>3. /\ listed' = [listed EXCEPT ![f] = Valid(f)]
        /\ UNCHANGED <<default, entries>>
    BY <1>9 DEF CheckKilled
  <2> QED  BY <2>1, <2>2, <2>3, <1>2 DEF DiskTypeOK, EntriesPresent
<1> QED  BY <1>1, <1>6, <1>7, <1>8, <1>9
-----------------------------------------------------------------------------
(* A hinting run keeps the types. *)

\* What the memory of a run holds, cell by cell.
LEMMA MemoryCells ==
    ASSUME TypeOK, NEW f \in Fonts
    PROVE  /\ hashMap[f] \in HashMap /\ newGlyphs[f] \in Layer
           /\ processedMap[f] \in SUBSET Glyphs /\ hashMapChanged[f] \in BOOLEAN
           /\ \A g \in Glyphs :
                 /\ hashMap[f][g] \in Entry \union {None}
                 /\ newGlyphs[f][g] \in File \union {None}
                 /\ given[g] \in SUBSET Fonts
BY DEF TypeOK, Layer, HashMap

\* The beginning of a run keeps the types.
LEMMA StartTyped ==
    ASSUME TypeInv, NEW names \in SUBSET Glyphs, NEW doAll \in BOOLEAN,
           NEW writeToDefaultLayer \in BOOLEAN,
           Start(names, doAll, writeToDefaultLayer)
    PROVE  TypeInv'
<1>1. /\ pc = "idle" /\ pc' = "hinting" /\ ended' = "none"
      /\ all' \in BOOLEAN /\ toDefault' \in BOOLEAN /\ unread' \in SUBSET Glyphs
      /\ hashMap' = entries /\ processedMap' = listed
  BY DEF Start
<1>2. UNCHANGED <<disk, tasks, given, hashMapChanged, newGlyphs, hintedAny, save>>
  BY DEF Start
<1>3. tasks = {} /\ \A f \in Fonts : \A g \in Glyphs : newGlyphs[f][g] = None
  BY <1>1 DEF TypeInv
<1>4. TypeOK'
  BY <1>1, <1>2 DEF TypeInv, TypeOK, DiskTypeOK, disk, save, Steps, Ends
<1>5. EntriesPresent /\ EntriesPresent'
  BY <1>2 DEF TypeInv, EntriesPresent, disk
<1>6. \A g \in unwritten : newGlyphs[saving][g] # None
  BY DEF TypeInv
<1> QED  BY <1>1, <1>2, <1>3, <1>4, <1>5, <1>6 DEF TypeInv, EntriesPresent, disk, save

\* Reading a glyph keeps them: what is sent has an entry.
LEMMA ReadTyped ==
    ASSUME TypeInv, NEW g \in Glyphs, Read(g)
    PROVE  TypeInv'
<1> DEFINE have == {f \in Fonts : g \in Present(f)}
           sent == {f \in have : ~ Skip(hashMap[f][g], default[f][g].of)}
           left(f) == Checked(hashMap[f][g], default[f][g].of)
<1>1. /\ pc = "hinting" /\ g \in unread /\ unread' = unread \ {g}
      /\ hashMap' = [f \in Fonts |-> [n \in Glyphs |->
            IF n = g /\ f \in have THEN left(f) ELSE hashMap[f][n]]]
      /\ hashMapChanged' \in [Fonts -> BOOLEAN]
      /\ tasks' \in SUBSET (tasks \union {g})
      /\ given' = [given EXCEPT ![g] = sent]
      /\ tasks' = IF sent = {} THEN tasks ELSE tasks \union {g}
  BY DEF Read, TypeInv, TypeOK
<1>2. UNCHANGED <<disk, pc, ended, options, newGlyphs, hintedAny, save>>
  BY DEF Read
<1>3. TypeOK
  BY DEF TypeInv
<1>4. processedMap' \in [Fonts -> SUBSET Glyphs]
  <2>1. processedMap' = [f \in Fonts |->
            IF f \in have THEN StillProcessed(f, g) ELSE processedMap[f]]
    BY DEF Read
  <2> QED  BY <2>1, <1>3, MemoryCells DEF StillProcessed
<1>5. \A f \in have : left(f) \in Entry /\ left(f) # None /\ default[f][g] # None
  <2> SUFFICES ASSUME NEW f \in have
               PROVE  left(f) \in Entry /\ left(f) # None /\ default[f][g] # None
    OBVIOUS
  <2>1. default[f][g] \in File /\ default[f][g] # None
    BY <1>3, DiskCells DEF TypeOK, Present
  <2>2. default[f][g].of \in Outlines /\ hashMap[f][g] \in Entry \union {None}
    BY <2>1, <1>3, FileFields, MemoryCells
  <2> QED  BY <2>1, <2>2, CheckedEntry
<1>6. have \in SUBSET Fonts /\ sent \in SUBSET have
  OBVIOUS
<1> HIDE DEF have, sent, left
<1>7. hashMap' \in [Fonts -> HashMap]
  <2>1. \A f \in Fonts : \A n \in Glyphs :
            (IF n = g /\ f \in have THEN left(f) ELSE hashMap[f][n])
                \in Entry \union {None}
    BY <1>3, <1>5, MemoryCells
  <2> QED  BY <2>1, <1>1 DEF HashMap
<1>8. TypeOK'
  BY <1>1, <1>2, <1>3, <1>4, <1>6, <1>7
     DEF TypeOK, DiskTypeOK, disk, options, save
<1>9. \A f \in Fonts : \A n \in Glyphs :
          hashMap'[f][n] = IF n = g /\ f \in have THEN left(f) ELSE hashMap[f][n]
  BY <1>1
<1>10. EntriesPresent'
  BY <1>2 DEF TypeInv, EntriesPresent, disk
<1>11. \A f \in Fonts : \A n \in Glyphs :
           /\ hashMap'[f][n] # None => default'[f][n] # None
           /\ newGlyphs'[f][n] # None => hashMap'[f][n] # None
           /\ newGlyphs'[f][n] # None => n \notin unread' \union tasks'
  BY <1>1, <1>2, <1>5, <1>9 DEF TypeInv, disk
<1>12. \A n \in tasks' : \A f \in given'[n] : hashMap'[f][n] # None
  <2> SUFFICES ASSUME NEW n \in tasks', NEW f \in given'[n]
               PROVE  hashMap'[f][n] # None
    OBVIOUS
  <2>1. given \in [Glyphs -> SUBSET Fonts] /\ tasks \subseteq Glyphs
    BY <1>3 DEF TypeOK
  <2>2. CASE n = g
    BY <2>1, <2>2, <1>1, <1>5, <1>6, <1>9
  <2>3. CASE n # g
    <3>1. n \in tasks /\ f \in given[n] /\ n \in Glyphs /\ f \in Fonts
      BY <2>1, <2>3, <1>1
    <3> QED  BY <2>3, <3>1, <1>9 DEF TypeInv
  <2> QED  BY <2>2, <2>3
<1>13. unread' \intersect tasks' = {} /\ (pc' # "hinting" => unread' = {} /\ tasks' = {})
  BY <1>1, <1>2 DEF TypeInv
<1> QED  BY <1>1, <1>2, <1>8, <1>10, <1>11, <1>12, <1>13 DEF TypeInv, save

\* An answer keeps them: what is to be written has an entry.
LEMMA ReceiveTyped ==
    ASSUME TypeInv, NEW g \in Glyphs, NEW back \in SUBSET given[g],
           NEW hints \in BOOLEAN, Receive(g, back, hints)
    PROVE  TypeInv'
<1>1. TypeOK
  BY DEF TypeInv
<1>2. given[g] \in SUBSET Fonts /\ \A f \in back : hashMap[f][g] # None
  <2>1. given[g] \in SUBSET Fonts /\ g \in tasks
    BY <1>1 DEF TypeOK, Receive
  <2> QED  BY <2>1 DEF TypeInv
<1>3. PICK o \in [back -> Outlines] :
          newGlyphs' = [f \in Fonts |-> [n \in Glyphs |->
                IF n = g /\ f \in back
                THEN [of |-> o[f], hints |-> o[f]] ELSE newGlyphs[f][n]]]
  BY DEF Receive
<1>4. /\ pc = "hinting" /\ g \in tasks /\ tasks' = tasks \ {g}
      /\ hashMap' = [f \in Fonts |-> [n \in Glyphs |->
            IF n = g THEN Stored(hashMap[f][g], f \in back) ELSE hashMap[f][n]]]
      /\ hashMapChanged' = [f \in Fonts |-> TRUE]
      /\ given' = [given EXCEPT ![g] = {}]
  BY DEF Receive
<1>5. hintedAny' \in BOOLEAN
  BY Zenon, <1>1 DEF Receive, TypeOK
<1>6. UNCHANGED <<disk, pc, ended, options, unread, processedMap, save>>
  BY DEF Receive
<1>7. \A f \in Fonts : /\ Stored(hashMap[f][g], f \in back) \in Entry \union {None}
                       /\ f \in back <=> Stored(hashMap[f][g], f \in back) # None
  <2> SUFFICES ASSUME NEW f \in Fonts
               PROVE  /\ Stored(hashMap[f][g], f \in back) \in Entry \union {None}
                      /\ f \in back <=> Stored(hashMap[f][g], f \in back) # None
    OBVIOUS
  <2>1. CASE f \in back
    <3>1. hashMap[f][g] \in Entry
      BY <2>1, <1>1, <1>2, MemoryCells
    <3> QED  BY <2>1, <3>1, EntryWithAutohint, NoneIsNoValue DEF Stored
  <2>2. CASE f \notin back
    BY <2>2 DEF Stored
  <2> QED  BY <2>1, <2>2
<1>8. \A f \in Fonts : \A n \in Glyphs :
          hashMap'[f][n] = IF n = g THEN Stored(hashMap[f][g], f \in back)
                                    ELSE hashMap[f][n]
  BY <1>4
<1>9. hashMap' \in [Fonts -> HashMap]
  <2>1. \A f \in Fonts : \A n \in Glyphs :
            (IF n = g THEN Stored(hashMap[f][g], f \in back) ELSE hashMap[f][n])
                \in Entry \union {None}
    BY <1>1, <1>7, MemoryCells
  <2> QED  BY <2>1, <1>4 DEF HashMap
<1>10. newGlyphs' \in [Fonts -> Layer]
  <2>1. \A f \in back : [of |-> o[f], hints |-> o[f]] \in File
    BY FileFields DEF File
  <2>2. \A f \in Fonts : \A n \in Glyphs :
            (IF n = g /\ f \in back THEN [of |-> o[f], hints |-> o[f]]
             ELSE newGlyphs[f][n]) \in File \union {None}
    BY <2>1, <1>1, MemoryCells
  <2> QED  BY <2>2, <1>3 DEF Layer
<1>11. TypeOK'
  BY <1>1, <1>4, <1>5, <1>6, <1>9, <1>10
     DEF TypeOK, DiskTypeOK, disk, options, save
<1>12. EntriesPresent'
  BY <1>6 DEF TypeInv, EntriesPresent, disk
<1>13. \A f \in Fonts : \A n \in Glyphs :
           newGlyphs'[f][n] # None <=> newGlyphs[f][n] # None \/ (n = g /\ f \in back)
  <2>1. \A f \in back : [of |-> o[f], hints |-> o[f]] # None
    BY NoneIsNoValue, FileFields DEF File
  <2> QED  BY <2>1, <1>3
<1>14. \A f \in Fonts : newGlyphs[f][g] = None
  BY <1>4 DEF TypeInv
<1>15. \A f \in Fonts : \A n \in Glyphs :
           /\ hashMap'[f][n] # None => default'[f][n] # None
           /\ newGlyphs'[f][n] # None => hashMap'[f][n] # None
  BY <1>2, <1>6, <1>7, <1>8, <1>13, <1>14 DEF TypeInv, disk
<1>16. \A f \in Fonts : \A n \in Glyphs :
           newGlyphs'[f][n] # None => n \notin unread' \union tasks'
  BY <1>4, <1>6, <1>13 DEF TypeInv
<1>17. \A n \in tasks' : \A f \in given'[n] : hashMap'[f][n] # None
  BY <1>1, <1>4, <1>8 DEF TypeInv, TypeOK
<1>18. \A n \in unwritten' : newGlyphs'[saving'][n] # None
  BY <1>1, <1>6, <1>13 DEF TypeInv, TypeOK, save
<1> QED  BY <1>4, <1>6, <1>11, <1>12, <1>15, <1>16, <1>17, <1>18 DEF TypeInv

\* So does the end of hinting.
LEMMA HintEndsTyped ==
    ASSUME TypeInv, HintEnds
    PROVE  TypeInv'
<1>1. UNCHANGED disk /\ pc = "hinting" /\ unread = {} /\ tasks = {}
  BY DEF HintEnds
<1>2. DiskTypeOK' /\ EntriesPresent'
  BY <1>1 DEF TypeInv, TypeOK, DiskTypeOK, EntriesPresent, disk
<1>3. CASE ~ hintedAny
  <2>1. Idle("closed")
    BY <1>3 DEF HintEnds
  <2> QED  BY <2>1, <1>2, IdleTyped DEF Ends
<1>4. CASE hintedAny
  <2>1. /\ pc' = "layers"
        /\ unsaved' = Fonts
        /\ UNCHANGED <<ended, options, pool, memory, hintedAny, saving, unwritten>>
    BY <1>4 DEF HintEnds
  <2>2. TypeOK'
    BY <1>2, <2>1 DEF TypeInv, TypeOK, options, pool, memory, Steps
  <2> QED  BY <1>1, <1>2, <2>1, <2>2 DEF TypeInv, disk, pool, memory
<1> QED  BY <1>3, <1>4

\* So does the first step of a save, which adds or deletes the processed layer.
LEMMA SaveLayersTyped ==
    ASSUME TypeInv, NEW f \in Fonts, SaveLayers(f)
    PROVE  TypeInv'
<1>1. /\ pc = "layers" /\ pc' = "glyphs" /\ saving' = f
      /\ unwritten' = {g \in Glyphs : newGlyphs[f][g] # None}
      /\ UNCHANGED <<default, entries, ended, options, pool, memory, hintedAny, unsaved>>
  BY DEF SaveLayers
<1>2. processed' \in [Fonts -> Layer] /\ listed' \in [Fonts -> SUBSET Glyphs]
  <2>1. [g \in Glyphs |-> None] \in Layer
    BY DEF Layer
  <2>2. processed \in [Fonts -> Layer] /\ listed \in [Fonts -> SUBSET Glyphs]
    BY DEF TypeInv, TypeOK, DiskTypeOK
  <2>3. CASE toDefault
    <3>1. /\ processed' = [processed EXCEPT ![f] = [g \in Glyphs |-> None]]
          /\ listed' = [listed EXCEPT ![f] = {}]
      BY <2>3 DEF SaveLayers
    <3> QED  BY <2>1, <2>2, <3>1
  <2>4. CASE ~ toDefault
    BY <2>2, <2>4 DEF SaveLayers
  <2> QED  BY <2>3, <2>4
<1>3. TypeOK'
  BY <1>1, <1>2 DEF TypeInv, TypeOK, DiskTypeOK, options, pool, memory, Steps
<1>4. EntriesPresent'
  BY <1>1 DEF TypeInv, EntriesPresent
<1> QED  BY <1>1, <1>3, <1>4 DEF TypeInv, pool, memory

\* A glyph file, and in the default layer the entry that goes with it.
LEMMA SaveGlyphCells ==
    ASSUME TypeInv, NEW g \in Glyphs, SaveGlyph(g)
    PROVE  /\ default' \in [Fonts -> Layer]
           /\ processed' \in [Fonts -> Layer]
           /\ hashMap' \in [Fonts -> HashMap]
           /\ newGlyphs[saving][g] \in File /\ hashMap[saving][g] \in Entry
           /\ default[saving][g] \in File
           /\ \A f \in Fonts : \A n \in Glyphs :
                 ~ (f = saving /\ n = g) =>
                    /\ default'[f][n] = default[f][n]
                    /\ processed'[f][n] = processed[f][n]
                    /\ hashMap'[f][n] = hashMap[f][n]
           /\ toDefault =>
                 /\ processed' = processed
                 /\ default'[saving][g] = newGlyphs[saving][g]
                 /\ hashMap'[saving][g] \in Entry
                 /\ hashMap'[saving][g].hash = newGlyphs[saving][g].of
                 /\ hashMap'[saving][g].history = hashMap[saving][g].history
           /\ ~ toDefault =>
                 /\ processed'[saving][g] = newGlyphs[saving][g]
                 /\ default' = default /\ hashMap' = hashMap
<1> DEFINE new == newGlyphs[saving][g]
           entry == WithHash(hashMap[saving][g], new.of)
<1>1. TypeOK /\ saving \in Fonts /\ new # None
  BY DEF TypeInv, TypeOK, SaveGlyph
<1>2. /\ new \in File /\ hashMap[saving][g] # None /\ hashMap[saving][g] \in Entry
  BY <1>1, MemoryCells DEF TypeInv
<1>3. default[saving][g] # None /\ default[saving][g] \in File
  BY <1>1, <1>2, DiskCells DEF TypeInv, TypeOK, Present
<1>4. /\ entry \in Entry /\ entry.hash = new.of
      /\ entry.history = hashMap[saving][g].history
  BY <1>2, FileFields, EntryWithHash
<1>5. /\ default \in [Fonts -> Layer] /\ processed \in [Fonts -> Layer]
      /\ hashMap \in [Fonts -> HashMap]
  BY <1>1 DEF TypeOK, DiskTypeOK
<1>6. CASE toDefault
  <2>1. /\ default' = Put(default, saving, g, new)
        /\ hashMap' = Put(hashMap, saving, g, entry)
        /\ processed' = processed
    BY <1>6 DEF SaveGlyph, Recalculated
  <2> HIDE DEF new, entry
  <2>2. /\ default' \in [Fonts -> Layer] /\ default'[saving][g] = new
        /\ \A f \in Fonts : \A n \in Glyphs :
              ~ (f = saving /\ n = g) => default'[f][n] = default[f][n]
    BY <1>1, <1>2, <1>5, <2>1, PutFile
  <2>3. /\ hashMap' \in [Fonts -> HashMap] /\ hashMap'[saving][g] = entry
        /\ \A f \in Fonts : \A n \in Glyphs :
              ~ (f = saving /\ n = g) => hashMap'[f][n] = hashMap[f][n]
    BY <1>1, <1>4, <1>5, <2>1, PutEntry
  <2> QED  BY <1>2, <1>3, <1>4, <1>5, <1>6, <2>1, <2>2, <2>3 DEF new
<1>7. CASE ~ toDefault
  <2>1. /\ processed' = Put(processed, saving, g, new)
        /\ default' = default /\ hashMap' = hashMap
    BY <1>7 DEF SaveGlyph
  <2> HIDE DEF new, entry
  <2>2. /\ processed' \in [Fonts -> Layer] /\ processed'[saving][g] = new
        /\ \A f \in Fonts : \A n \in Glyphs :
              ~ (f = saving /\ n = g) => processed'[f][n] = processed[f][n]
    BY <1>1, <1>2, <1>5, <2>1, PutFile
  <2> QED  BY <1>2, <1>3, <1>5, <1>7, <2>1, <2>2 DEF new
<1> QED  BY <1>6, <1>7

\* So does writing a glyph.
LEMMA SaveGlyphTyped ==
    ASSUME TypeInv, NEW g \in Glyphs, SaveGlyph(g)
    PROVE  TypeInv'
<1>1. /\ pc = "glyphs" /\ g \in unwritten /\ unwritten' = unwritten \ {g}
      /\ UNCHANGED <<listed, entries, pc, ended, options, pool, hashMapChanged,
                     processedMap, newGlyphs, hintedAny, unsaved, saving>>
  BY DEF SaveGlyph
<1>2. TypeOK /\ saving \in Fonts
  BY DEF TypeInv, TypeOK
<1>3. /\ default' \in [Fonts -> Layer]
      /\ processed' \in [Fonts -> Layer]
      /\ hashMap' \in [Fonts -> HashMap]
  BY SaveGlyphCells
<1>4. TypeOK'
  BY <1>1, <1>2, <1>3 DEF TypeOK, DiskTypeOK, options, pool
<1>5. \A f \in Fonts : \A n \in Glyphs :
          /\ default[f][n] # None => default'[f][n] # None
          /\ hashMap'[f][n] # None <=> hashMap[f][n] # None
  BY <1>2, SaveGlyphCells, NoneIsNoValue
<1>6. EntriesPresent'
  BY <1>1, <1>5 DEF TypeInv, EntriesPresent
<1>7. \A n \in tasks' : \A f \in given'[n] : hashMap'[f][n] # None
  BY <1>1 DEF TypeInv, pool
<1> QED  BY <1>1, <1>4, <1>5, <1>6, <1>7 DEF TypeInv, pool, options

\* So does writing contents.plist.
LEMMA SaveContentsTyped ==
    ASSUME TypeInv, SaveContents
    PROVE  TypeInv'
<1>1. /\ pc = "glyphs" /\ pc' = "map"
      /\ UNCHANGED <<default, processed, entries, ended, options, pool, memory,
                     hintedAny, save>>
  BY DEF SaveContents
<1>2. listed' \in [Fonts -> SUBSET Glyphs]
  BY DEF SaveContents, Contents, TypeInv, TypeOK, DiskTypeOK
<1>3. TypeOK'
  BY <1>1, <1>2 DEF TypeInv, TypeOK, DiskTypeOK, options, pool, memory, save, Steps
<1>4. EntriesPresent'
  BY <1>1 DEF TypeInv, EntriesPresent
<1> QED  BY <1>1, <1>3, <1>4 DEF TypeInv, pool, memory, save

\* One map is written, or none.
LEMMA SaveMapCells ==
    ASSUME TypeInv, SaveMap
    PROVE  /\ entries' \in [Fonts -> HashMap]
           /\ \A f \in Fonts :
                 \/ entries'[f] = entries[f]
                 \/ f = saving /\ entries'[f] = hashMap[f]
BY DEF SaveMap, Remembered, TypeInv, TypeOK, DiskTypeOK

\* So does writing the hash map.
LEMMA SaveMapTyped ==
    ASSUME TypeInv, SaveMap
    PROVE  TypeInv'
<1>1. /\ pc = "map" /\ UNCHANGED <<default, processed, listed>>
  BY DEF SaveMap
<1>2. DiskTypeOK'
  BY <1>1, SaveMapCells DEF TypeInv, TypeOK, DiskTypeOK
<1>3. EntriesPresent'
  BY <1>1, SaveMapCells DEF TypeInv, EntriesPresent
<1>4. CASE Rest(saving) = {}
  <2>1. Idle("saved")
    BY <1>4 DEF SaveMap
  <2> QED  BY <2>1, <1>2, <1>3, IdleTyped DEF Ends
<1>5. CASE Rest(saving) # {}
  <2>1. /\ pc' = "layers" /\ unsaved' = Rest(saving)
        /\ UNCHANGED <<ended, options, pool, memory, hintedAny, saving, unwritten>>
    BY <1>5 DEF SaveMap
  <2>2. TypeOK'
    BY <1>2, <2>1 DEF TypeInv, TypeOK, options, pool, memory, Rest, Steps
  <2> QED  BY <1>1, <1>3, <2>1, <2>2 DEF TypeInv, pool, memory
<1> QED  BY <1>4, <1>5

\* A run that ends early has changed nothing else.
LEMMA EarlyEndTyped ==
    ASSUME TypeInv, NEW how \in Ends, Idle(how), UNCHANGED disk
    PROVE  TypeInv'
<1>1. DiskTypeOK' /\ EntriesPresent'
  BY DEF TypeInv, TypeOK, DiskTypeOK, EntriesPresent, disk
<1> QED  BY <1>1, IdleTyped

\* So do edits and outline checks.
LEMMA OthersTyped ==
    ASSUME TypeInv, NEW f \in Fonts, Others(f)
    PROVE  TypeInv'
<1>1. /\ pc = "idle" /\ ended' = "none"
      /\ UNCHANGED <<pc, options, pool, memory, hintedAny, save>>
  BY DEF Others
<1>2. DiskTypeOK' /\ EntriesPresent'
  BY CheckTyped, EditTyped DEF Others, TypeInv, TypeOK
<1>3. TypeOK'
  BY <1>1, <1>2 DEF TypeInv, TypeOK, options, pool, memory, save, Ends
<1>4. /\ unread' = {} /\ tasks' = {}
      /\ \A k \in Fonts : \A g \in Glyphs :
            hashMap'[k][g] = None /\ newGlyphs'[k][g] = None
  BY <1>1 DEF TypeInv, pool, memory
<1> QED  BY <1>1, <1>2, <1>3, <1>4 DEF TypeInv, pool, memory, save, options
\* A step that changes nothing.
LEMMA StutterTyped ==
    ASSUME TypeInv, UNCHANGED vars
    PROVE  TypeInv'
<1>1. UNCHANGED <<disk, pc, ended, options, pool, memory, hintedAny, save>>
  BY DEF vars
<1>2. TypeOK'
  BY <1>1 DEF TypeInv, TypeOK, DiskTypeOK, disk, options, pool, memory, save
<1>3. EntriesPresent'
  BY <1>1 DEF TypeInv, EntriesPresent, disk
<1> QED  BY <1>1, <1>2, <1>3 DEF TypeInv, disk, options, pool, memory, save

\* Every step keeps the types.
LEMMA NextTyped == TypeInv /\ [Next]_vars => TypeInv'
<1> SUFFICES ASSUME TypeInv, [Next]_vars PROVE TypeInv'
  OBVIOUS
<1>1. ASSUME NEW f \in Fonts, Others(f) PROVE TypeInv'
  BY <1>1, OthersTyped
<1>2. ASSUME NEW names \in SUBSET Glyphs, NEW a \in BOOLEAN, NEW d \in BOOLEAN,
             Start(names, a, d)
      PROVE  TypeInv'
  BY <1>2, StartTyped
<1>3. ASSUME NEW g \in Glyphs, Read(g) PROVE TypeInv'
  BY <1>3, ReadTyped
<1>4. ASSUME NEW g \in Glyphs, ReadFails(g) \/ ReceiveFails(g) PROVE TypeInv'
  BY <1>4, EarlyEndTyped DEF ReadFails, ReceiveFails, Ends
<1>5. ASSUME NEW g \in Glyphs, ReceiveGlyphs(g) \/ ReceiveNothing(g) PROVE TypeInv'
  BY <1>5, ReceiveTyped DEF ReceiveGlyphs, ReceiveNothing
<1>6. ASSUME NEW g \in Glyphs, SaveGlyph(g) PROVE TypeInv'
  BY <1>6, SaveGlyphTyped
<1>7. ASSUME NEW f \in Fonts, SaveLayers(f) PROVE TypeInv'
  BY <1>7, SaveLayersTyped
<1>8. CASE HintEnds
  BY <1>8, HintEndsTyped
<1>9. CASE SaveContents
  BY <1>9, SaveContentsTyped
<1>10. CASE SaveMap
  BY <1>10, SaveMapTyped
<1>11. CASE Kill
  BY <1>11, EarlyEndTyped DEF Kill, Ends
<1>12. CASE UNCHANGED vars
  BY <1>12, StutterTyped
<1> QED  BY <1>1, <1>2, <1>3, <1>4, <1>5, <1>6, <1>7, <1>8, <1>9, <1>10, <1>11,
            <1>12 DEF Next, Run

\* Every variable keeps its type, whatever is killed, edited or checked and in
\* whatever order workers answer; for any uses of the programs.
THEOREM TypeCorrect == Spec => []TypeOK
<1>1. TypeInv => TypeOK
  BY DEF TypeInv
<1> QED  BY <1>1, InitTyped, NextTyped, PTL DEF Spec
-----------------------------------------------------------------------------
(* The truth of the hash map, outside the uses that AllUses names. *)

IInv == TypeInv /\ TruthInv

\* No entry, and an entry of another outline, promise nothing.
LEMMA SilentEntry ==
    ASSUME NEW e, NEW d, NEW p, ~ Same(e, d.of)
    PROVE  Honest(e, d, p)
BY DEF Honest

\* The initial state is true.
LEMMA InitTruth == Init => TruthInv
<1> SUFFICES ASSUME Init PROVE TruthInv
  OBVIOUS
<1>1. \A f \in Fonts : \A g \in Glyphs : entries[f][g] = None /\ newGlyphs[f][g] = None
  BY DEF Init, DiskInit, NoGlyphs
<1>2. DiskHonest
  BY <1>1, SilentEntry DEF DiskHonest, Same
<1>3. pc = "idle" /\ toDefault = FALSE /\ unread = {} /\ tasks = {} /\ unsaved = {}
  BY DEF Init
<1> QED  BY <1>1, <1>2, <1>3
            DEF TruthInv, OneLayer, NewHinted, UnreadAsOnDisk, SentFresh, Covered,
                Written, MapHonest, SavingUnsaved

\* When a program ends, what it left on disk is all that matters.
LEMMA IdleTruth ==
    ASSUME NEW how, Idle(how), DiskHonest'
    PROVE  TruthInv'
<1>1. \A f \in Fonts : \A g \in Glyphs : newGlyphs'[f][g] = None
  BY DEF Idle, NoGlyphs
<1>2. pc' = "idle" /\ toDefault' = FALSE /\ unread' = {} /\ tasks' = {} /\ unsaved' = {}
  BY DEF Idle
<1> QED  BY <1>1, <1>2
            DEF TruthInv, OneLayer, NewHinted, UnreadAsOnDisk, SentFresh, Covered,
                Written, MapHonest, SavingUnsaved

\* An unchanged disk stays honest.
LEMMA DiskHonestKept ==
    ASSUME DiskHonest, UNCHANGED disk
    PROVE  DiskHonest'
BY DEF DiskHonest, disk, Trusted

\* The beginning of a run keeps the invariant: memory is the disk.
LEMMA StartTruth ==
    ASSUME Uses = {}, IInv, NEW names \in SUBSET Glyphs, NEW doAll \in BOOLEAN,
           NEW writeToDefaultLayer \in BOOLEAN,
           Start(names, doAll, writeToDefaultLayer)
    PROVE  TruthInv'
<1>1. /\ pc = "idle" /\ pc' = "hinting" /\ toDefault' = writeToDefaultLayer
      /\ unread' = names /\ hashMap' = entries /\ processedMap' = listed
      /\ UNCHANGED <<disk, tasks, given, hashMapChanged, newGlyphs, hintedAny, save>>
      /\ ~ writeToDefaultLayer \/ \A f \in Fonts : listed[f] = {}
      /\ \A f \in Fonts : \A g \in names \intersect Present(f) :
            ~ Refused(entries[f][g], default[f][g].of)
  BY DEF Start
<1>2. tasks = {} /\ \A f \in Fonts : \A g \in Glyphs : newGlyphs[f][g] = None
  BY <1>1 DEF IInv, TypeInv
<1>3. DiskHonest /\ DiskHonest'
  BY <1>1, DiskHonestKept DEF IInv, TruthInv
<1>4. OneLayer'
  BY <1>1 DEF OneLayer, disk
<1>5. NewHinted' /\ SentFresh'
  BY <1>1, <1>2 DEF NewHinted, SentFresh
<1>6. UnreadAsOnDisk'
  BY <1>1 DEF UnreadAsOnDisk, disk, Present
<1>7. Covered'
  BY <1>1, <1>3 DEF Covered, DiskHonest, disk, Trusted
<1>8. Written' /\ MapHonest' /\ SavingUnsaved'
  BY <1>1 DEF Written, MapHonest, SavingUnsaved
<1> QED  BY <1>3, <1>4, <1>5, <1>6, <1>7, <1>8 DEF TruthInv

\* A glyph that is skipped has an honest entry, for it had one on disk.
LEMMA ReadTruth ==
    ASSUME IInv, NEW g \in Glyphs, Read(g)
    PROVE  TruthInv'
<1> DEFINE have == {f \in Fonts : g \in Present(f)}
           sent == {f \in have : ~ Skip(hashMap[f][g], default[f][g].of)}
<1>1. /\ pc = "hinting" /\ g \in unread /\ unread' = unread \ {g}
      /\ hashMap' = [f \in Fonts |-> [n \in Glyphs |->
            IF n = g /\ f \in have
            THEN Checked(hashMap[f][g], default[f][g].of) ELSE hashMap[f][n]]]
      /\ processedMap' = [f \in Fonts |->
            IF f \in have THEN StillProcessed(f, g) ELSE processedMap[f]]
      /\ \A f \in have : g \in StillProcessed(f, g) => processed[f][g] # None
      /\ tasks' = IF sent = {} THEN tasks ELSE tasks \union {g}
      /\ given' = [given EXCEPT ![g] = sent]
      /\ UNCHANGED <<disk, pc, ended, options, newGlyphs, hintedAny, save>>
  BY DEF Read
<1>2. \A f \in Fonts : f \in have <=> default[f][g] # None
  BY DEF Present
<1>3. sent \in SUBSET have /\ have \in SUBSET Fonts
  OBVIOUS
<1>4. \A f \in have \ sent : Skip(hashMap[f][g], default[f][g].of)
  OBVIOUS
<1> HIDE DEF have, sent
<1>5. DiskHonest /\ DiskHonest'
  BY <1>1, DiskHonestKept DEF IInv, TruthInv
<1>6. OneLayer' /\ NewHinted'
  BY <1>1 DEF IInv, TruthInv, OneLayer, NewHinted, disk, options
<1>7. /\ tasks \subseteq Glyphs /\ given \in [Glyphs -> SUBSET Fonts]
      /\ unread \subseteq Glyphs /\ unread \intersect tasks = {}
  BY DEF IInv, TypeInv, TypeOK
<1>8. \A f \in Fonts : \A n \in Glyphs \ {g} :
          /\ hashMap'[f][n] = hashMap[f][n]
          /\ n \in processedMap'[f] <=> n \in processedMap[f]
  BY <1>1 DEF StillProcessed
<1>9. UnreadAsOnDisk'
  BY <1>1, <1>7, <1>8 DEF IInv, TruthInv, UnreadAsOnDisk, disk
<1>10. SentFresh'
  <2> SUFFICES ASSUME NEW n \in tasks', NEW f \in given'[n]
               PROVE  /\ default[f][n] # None
                      /\ n \in processedMap'[f] => processed[f][n].of = default[f][n].of
    BY <1>1 DEF SentFresh, disk
  <2>1. CASE n # g
    <3>1. n \in tasks /\ f \in given[n] /\ n \in Glyphs /\ f \in Fonts
      BY <2>1, <1>1, <1>7
    <3> QED  BY <2>1, <3>1, <1>8 DEF IInv, TruthInv, SentFresh
  <2>2. CASE n = g
    <3>1. f \in have /\ f \in Fonts /\ default[f][g] # None
      BY <2>2, <1>1, <1>2, <1>3, <1>7
    <3>2. ASSUME g \in processedMap'[f]
          PROVE  processed[f][g].of = default[f][g].of
      <4>1. g \in StillProcessed(f, g) /\ processed[f][g] # None
        BY <3>1, <3>2, <1>1
      <4>2. g \in processedMap[f] /\ Same(hashMap[f][g], default[f][g].of)
        BY <4>1 DEF StillProcessed
      <4>3. Same(entries[f][g], default[f][g].of) /\ g \in listed[f]
        BY <1>1, <3>1, <4>2 DEF IInv, TruthInv, UnreadAsOnDisk
      <4> QED  BY <1>5, <3>1, <4>1, <4>3 DEF DiskHonest, Honest, Trusted
    <3> QED  BY <2>2, <3>1, <3>2
  <2> QED  BY <2>1, <2>2
<1>11. Covered'
  <2> SUFFICES ASSUME NEW f \in Fonts, NEW n \in Glyphs,
                      default[f][n] # None, n \notin unread' \union tasks',
                      newGlyphs[f][n] = None
               PROVE  Honest(hashMap'[f][n], default[f][n], Trusted(f, n))
    BY <1>1 DEF Covered, disk, Trusted
  <2>1. CASE n # g
    <3>1. n \notin unread \union tasks
      BY <2>1, <1>1
    <3> QED  BY <2>1, <3>1, <1>1, <1>8 DEF IInv, TruthInv, Covered
  <2>2. CASE n = g
    <3>1. f \in have /\ f \notin sent
      BY <2>2, <1>1, <1>2, <1>3
    <3>2. /\ hashMap[f][g] = entries[f][g]
          /\ ~ Refused(hashMap[f][g], default[f][g].of)
      BY <1>1, <2>2 DEF IInv, TruthInv, UnreadAsOnDisk
    <3>3. /\ Same(entries[f][g], default[f][g].of)
          /\ Autohint \in entries[f][g].history
      BY <3>1, <3>2, <1>4 DEF Skip, InHistory
    <3>4. hashMap'[f][g] = WithProgram(entries[f][g], Autohint)
      BY <1>1, <3>1, <3>2, <3>3 DEF Checked
    <3>5. Honest(entries[f][g], default[f][g], Trusted(f, g))
      BY <1>5, <2>2 DEF DiskHonest
    <3>6. Honest(hashMap'[f][g], default[f][g], Trusted(f, g))
      BY <3>3, <3>5 DEF Honest
    <3> QED  BY <2>2, <3>6
  <2> QED  BY <2>1, <2>2
<1>12. Written' /\ MapHonest' /\ SavingUnsaved'
  BY <1>1 DEF Written, MapHonest, SavingUnsaved
<1> QED  BY <1>5, <1>6, <1>9, <1>10, <1>11, <1>12 DEF TruthInv

\* What comes back has hints; what does not come back loses its entry.
LEMMA ReceiveTruth ==
    ASSUME IInv, NEW g \in Glyphs, NEW back \in SUBSET given[g],
           NEW hints \in BOOLEAN, Receive(g, back, hints)
    PROVE  TruthInv'
<1>1. PICK o \in [back -> Outlines] :
          /\ toDefault \/ \A f \in back : o[f] = Source(f, g).of
          /\ newGlyphs' = [f \in Fonts |-> [n \in Glyphs |->
                IF n = g /\ f \in back
                THEN [of |-> o[f], hints |-> o[f]] ELSE newGlyphs[f][n]]]
  BY DEF Receive
<1>2. /\ pc = "hinting" /\ g \in tasks /\ tasks' = tasks \ {g}
      /\ hashMap' = [f \in Fonts |-> [n \in Glyphs |->
            IF n = g THEN Stored(hashMap[f][g], f \in back) ELSE hashMap[f][n]]]
      /\ given' = [given EXCEPT ![g] = {}]
      /\ UNCHANGED <<disk, pc, ended, options, unread, processedMap, save>>
  BY DEF Receive
<1>3. DiskHonest'
  BY <1>2, DiskHonestKept DEF IInv, TruthInv
<1>4. /\ given \in [Glyphs -> SUBSET Fonts] /\ tasks \subseteq Glyphs
      /\ unread \intersect tasks = {} /\ unread \subseteq Glyphs
  BY DEF IInv, TypeInv, TypeOK
<1>5. OneLayer'
  BY <1>2 DEF IInv, TruthInv, OneLayer, disk, options
<1>6. ~ toDefault => \A f \in back : o[f] = default[f][g].of
  BY <1>1, <1>2 DEF IInv, TruthInv, SentFresh, Source
<1>7. \A f \in Fonts : \A n \in Glyphs :
          newGlyphs'[f][n] = IF n = g /\ f \in back
                             THEN [of |-> o[f], hints |-> o[f]]
                             ELSE newGlyphs[f][n]
  BY <1>1
<1>8. NewHinted'
  <2> SUFFICES ASSUME NEW f \in Fonts, NEW n \in Glyphs, newGlyphs'[f][n] # None
               PROVE  /\ newGlyphs'[f][n].hints = newGlyphs'[f][n].of
                      /\ ~ toDefault => newGlyphs'[f][n].of = default[f][n].of
    BY <1>2 DEF NewHinted, disk, options
  <2>1. CASE n = g /\ f \in back
    <3>1. newGlyphs'[f][n] = [of |-> o[f], hints |-> o[f]]
      BY <2>1, <1>7
    <3>2. newGlyphs'[f][n].hints = o[f] /\ newGlyphs'[f][n].of = o[f]
      BY <3>1
    <3> QED  BY <2>1, <3>2, <1>6
  <2>2. CASE ~ (n = g /\ f \in back)
    <3>1. newGlyphs'[f][n] = newGlyphs[f][n]
      BY <2>2, <1>7
    <3> QED  BY <3>1 DEF IInv, TruthInv, NewHinted
  <2> QED  BY <2>1, <2>2
<1>9. UnreadAsOnDisk'
  BY <1>2, <1>4 DEF IInv, TruthInv, UnreadAsOnDisk, disk
<1>10. SentFresh'
  BY <1>2, <1>4 DEF IInv, TruthInv, SentFresh, disk
<1>11. \A f \in back : [of |-> o[f], hints |-> o[f]] # None
  BY NoneIsNoValue, FileFields DEF File
<1>12. Covered'
  <2> SUFFICES ASSUME NEW f \in Fonts, NEW n \in Glyphs,
                      default[f][n] # None, n \notin unread \union tasks',
                      newGlyphs'[f][n] = None
               PROVE  Honest(hashMap'[f][n], default[f][n], Trusted(f, n))
    BY <1>2 DEF Covered, disk, Trusted
  <2>1. CASE n # g
    <3>1. /\ n \notin unread \union tasks /\ newGlyphs[f][n] = None
          /\ hashMap'[f][n] = hashMap[f][n]
      BY <2>1, <1>2, <1>7
    <3> QED  BY <3>1, <1>2 DEF IInv, TruthInv, Covered
  <2>2. CASE n = g
    <3>1. f \notin back
      BY <2>2, <1>7, <1>11
    <3>2. hashMap'[f][n] = None
      BY <2>2, <3>1, <1>2 DEF Stored
    <3> QED  BY <3>2, SilentEntry DEF Same
  <2> QED  BY <2>1, <2>2
<1>13. Written' /\ MapHonest' /\ SavingUnsaved'
  BY <1>2 DEF Written, MapHonest, SavingUnsaved
<1> QED  BY <1>3, <1>5, <1>8, <1>9, <1>10, <1>12, <1>13 DEF TruthInv

\* The end of hinting keeps it: everything sent was answered.
LEMMA HintEndsTruth ==
    ASSUME IInv, HintEnds
    PROVE  TruthInv'
<1>1. UNCHANGED disk /\ pc = "hinting" /\ unread = {} /\ tasks = {}
  BY DEF HintEnds
<1>2. DiskHonest'
  BY <1>1, DiskHonestKept DEF IInv, TruthInv
<1>3. CASE ~ hintedAny
  BY <1>2, <1>3, IdleTruth DEF HintEnds
<1>4. CASE hintedAny
  <2>1. /\ pc' = "layers"
        /\ UNCHANGED <<ended, options, pool, memory, hintedAny, saving, unwritten>>
    BY <1>4 DEF HintEnds
  <2>2. OneLayer' /\ NewHinted'
    BY <1>1, <2>1 DEF IInv, TruthInv, OneLayer, NewHinted, disk, options, memory
  <2>3. UnreadAsOnDisk' /\ SentFresh'
    BY <1>1, <2>1 DEF UnreadAsOnDisk, SentFresh, pool
  <2>4. Covered'
    BY <1>1, <2>1 DEF IInv, TruthInv, Covered, Trusted, disk, pool, memory
  <2>5. Written' /\ MapHonest' /\ SavingUnsaved'
    BY <2>1 DEF Written, MapHonest, SavingUnsaved
  <2> QED  BY <1>2, <2>2, <2>3, <2>4, <2>5 DEF TruthInv
<1> QED  BY <1>3, <1>4
\* The processed layer that is removed held nothing readers took.
LEMMA SaveLayersTruth ==
    ASSUME IInv, NEW f \in Fonts, SaveLayers(f)
    PROVE  TruthInv'
<1>1. /\ pc = "layers" /\ pc' = "glyphs" /\ saving' = f /\ f \in unsaved
      /\ unwritten' = {g \in Glyphs : newGlyphs[f][g] # None}
      /\ UNCHANGED <<default, entries, ended, options, pool, memory, hintedAny, unsaved>>
  BY DEF SaveLayers
<1>2. /\ listed \in [Fonts -> SUBSET Glyphs]
      /\ unread = {} /\ tasks = {}
  BY <1>1 DEF IInv, TypeInv, TypeOK, DiskTypeOK
<1>3. \A k \in Fonts : \A g \in Glyphs : Trusted(k, g)' = Trusted(k, g)
  <2>1. CASE toDefault
    <3>1. listed' = [listed EXCEPT ![f] = {}] /\ \A k \in Fonts : listed[k] = {}
      BY <2>1 DEF SaveLayers, IInv, TruthInv, OneLayer
    <3> QED  BY <3>1, <1>2 DEF Trusted
  <2>2. CASE ~ toDefault
    BY <2>2 DEF SaveLayers, Trusted
  <2> QED  BY <2>1, <2>2
<1>4. DiskHonest'
  BY <1>1, <1>3 DEF IInv, TruthInv, DiskHonest
<1>5. OneLayer'
  BY <1>1, <1>2 DEF SaveLayers, IInv, TruthInv, OneLayer, options
<1>6. NewHinted'
  BY <1>1 DEF IInv, TruthInv, NewHinted, options, memory
<1>7. UnreadAsOnDisk' /\ SentFresh'
  BY <1>1, <1>2 DEF UnreadAsOnDisk, SentFresh, pool
<1>8. Covered'
  BY <1>1, <1>2, <1>3 DEF IInv, TruthInv, Covered, pool, memory
<1>9. Written' /\ MapHonest' /\ SavingUnsaved'
  BY <1>1 DEF Written, MapHonest, SavingUnsaved, memory
<1> QED  BY <1>4, <1>5, <1>6, <1>7, <1>8, <1>9 DEF TruthInv

\* A file with hints for its outline is honest whatever its entry says.
LEMMA HintedIsHonest ==
    ASSUME NEW e, NEW d, NEW p,
           IF p # None THEN p.of = d.of /\ p.hints = p.of ELSE d.hints = d.of
    PROVE  Honest(e, d, p)
BY DEF Honest

\* What readers take of the other glyphs is not touched, and the file that is
\* written has hints for the outline of its source.
LEMMA SaveGlyphTruth ==
    ASSUME IInv, NEW g \in Glyphs, SaveGlyph(g)
    PROVE  TruthInv'
<1> DEFINE new == newGlyphs[saving][g]
<1>1. /\ pc = "glyphs" /\ pc' = pc /\ g \in unwritten /\ unwritten' = unwritten \ {g}
      /\ UNCHANGED <<listed, entries, pc, ended, options, pool, hashMapChanged,
                     processedMap, newGlyphs, hintedAny, unsaved, saving>>
  BY DEF SaveGlyph
<1>2. /\ unread = {} /\ tasks = {} /\ saving \in Fonts /\ new # None
  BY <1>1 DEF IInv, TypeInv, TypeOK
<1>3. /\ new.hints = new.of
      /\ ~ toDefault => new.of = default[saving][g].of
      /\ toDefault => \A f \in Fonts : listed[f] = {}
  BY <1>2 DEF IInv, TruthInv, NewHinted, OneLayer
<1>4. /\ \A f \in Fonts : \A n \in Glyphs :
            ~ (f = saving /\ n = g) =>
               /\ default'[f][n] = default[f][n]
               /\ processed'[f][n] = processed[f][n]
               /\ hashMap'[f][n] = hashMap[f][n]
      /\ toDefault => default'[saving][g] = new
      /\ ~ toDefault => /\ processed'[saving][g] = new
                        /\ default' = default /\ hashMap' = hashMap
      /\ default[saving][g] # None
  BY SaveGlyphCells, NoneIsNoValue DEF IInv
<1> HIDE DEF new
<1>5. \A f \in Fonts : \A n \in Glyphs :
          ~ (f = saving /\ n = g) => Trusted(f, n)' = Trusted(f, n)
  BY <1>1, <1>4 DEF Trusted
<1>6. DiskHonest'
  <2> SUFFICES ASSUME NEW f \in Fonts, NEW n \in Glyphs, default'[f][n] # None
               PROVE  Honest(entries[f][n], default'[f][n], Trusted(f, n)')
    BY <1>1 DEF DiskHonest
  <2>1. CASE ~ (f = saving /\ n = g)
    BY <2>1, <1>4, <1>5 DEF IInv, TruthInv, DiskHonest
  <2>2. CASE f = saving /\ n = g /\ toDefault
    <3>1. Trusted(f, n)' = None /\ default'[f][n] = new
      BY <2>2, <1>1, <1>2, <1>3, <1>4 DEF Trusted
    <3> QED  BY <3>1, <1>3, HintedIsHonest
  <2>3. CASE f = saving /\ n = g /\ ~ toDefault /\ g \in listed[saving]
    <3>1. Trusted(f, n)' = new /\ default'[f][n] = default[f][n]
      BY <2>3, <1>1, <1>4 DEF Trusted
    <3> QED  BY <2>3, <3>1, <1>2, <1>3, HintedIsHonest
  <2>4. CASE f = saving /\ n = g /\ ~ toDefault /\ g \notin listed[saving]
    <3>1. /\ Trusted(f, n)' = None /\ Trusted(f, n) = None
          /\ default'[f][n] = default[f][n]
      BY <2>4, <1>1, <1>4 DEF Trusted
    <3> QED  BY <3>1, <1>4, <2>4 DEF IInv, TruthInv, DiskHonest
  <2> QED  BY <2>1, <2>2, <2>3, <2>4
<1>7. OneLayer'
  BY <1>1 DEF IInv, TruthInv, OneLayer, options
<1>8. NewHinted'
  BY <1>1, <1>4 DEF IInv, TruthInv, NewHinted, options
<1>9. UnreadAsOnDisk' /\ SentFresh'
  BY <1>1, <1>2 DEF UnreadAsOnDisk, SentFresh, pool
<1>10. Covered'
  <2> SUFFICES ASSUME NEW f \in Fonts, NEW n \in Glyphs, f \in unsaved,
                      default'[f][n] # None, newGlyphs[f][n] = None
               PROVE  Honest(hashMap'[f][n], default'[f][n], Trusted(f, n)')
    BY <1>1 DEF Covered
  <2>1. ~ (f = saving /\ n = g)
    BY <1>2 DEF new
  <2> QED  BY <2>1, <1>2, <1>4, <1>5 DEF IInv, TruthInv, Covered
<1>11. Written'
  <2> SUFFICES ASSUME NEW n \in Glyphs \ unwritten', newGlyphs[saving][n] # None
               PROVE  IF toDefault THEN default'[saving][n] = newGlyphs[saving][n]
                                   ELSE processed'[saving][n] = newGlyphs[saving][n]
    BY <1>1 DEF Written, options
  <2>1. CASE n = g
    BY <2>1, <1>4 DEF new
  <2>2. CASE n # g
    <3>1. n \in Glyphs \ unwritten
      BY <2>2, <1>1
    <3> QED  BY <2>2, <3>1, <1>1, <1>2, <1>4 DEF IInv, TruthInv, Written
  <2> QED  BY <2>1, <2>2
<1>12. MapHonest' /\ SavingUnsaved'
  BY <1>1 DEF IInv, TruthInv, MapHonest, SavingUnsaved
<1> QED  BY <1>6, <1>7, <1>8, <1>9, <1>10, <1>11, <1>12 DEF TruthInv

\* When all files are written every entry of the map is honest.
LEMMA SaveContentsTruth ==
    ASSUME IInv, SaveContents
    PROVE  TruthInv'
<1>1. /\ pc = "glyphs" /\ pc' = "map" /\ unwritten = {}
      /\ UNCHANGED <<default, processed, entries, ended, options, pool, memory,
                     hintedAny, save>>
  BY DEF SaveContents
<1>2. /\ unread = {} /\ tasks = {} /\ saving \in Fonts /\ saving \in unsaved
      /\ listed \in [Fonts -> SUBSET Glyphs]
  BY <1>1 DEF IInv, TypeInv, TypeOK, DiskTypeOK, TruthInv, SavingUnsaved
<1>3. \A g \in Glyphs : newGlyphs[saving][g] # None =>
          /\ newGlyphs[saving][g].hints = newGlyphs[saving][g].of
          /\ toDefault => default[saving][g] = newGlyphs[saving][g]
          /\ ~ toDefault => /\ processed[saving][g] = newGlyphs[saving][g]
                            /\ newGlyphs[saving][g].of = default[saving][g].of
  BY <1>1, <1>2 DEF IInv, TruthInv, NewHinted, Written
<1>4. /\ \A f \in Fonts \ {saving} : listed'[f] = listed[f]
      /\ toDefault => listed' = listed /\ listed[saving] = {}
      /\ ~ toDefault => \A g \in Glyphs :
            g \in listed'[saving] <=> g \in listed[saving] \/ newGlyphs[saving][g] # None
  BY <1>2 DEF SaveContents, Contents, IInv, TruthInv, OneLayer
<1>5. \A f \in Fonts : \A g \in Glyphs :
          f # saving \/ newGlyphs[f][g] = None => Trusted(f, g)' = Trusted(f, g)
  BY <1>1, <1>4 DEF Trusted
<1>6. \A g \in Glyphs : newGlyphs[saving][g] # None =>
          \A e : Honest(e, default[saving][g], Trusted(saving, g)')
  <2> SUFFICES ASSUME NEW g \in Glyphs, newGlyphs[saving][g] # None, NEW e
               PROVE  Honest(e, default[saving][g], Trusted(saving, g)')
    OBVIOUS
  <2>1. CASE toDefault
    <3>1. Trusted(saving, g)' = None
      BY <2>1, <1>1, <1>4 DEF Trusted, save
    <3> QED  BY <2>1, <3>1, <1>3, HintedIsHonest
  <2>2. CASE ~ toDefault
    <3>1. Trusted(saving, g)' = newGlyphs[saving][g]
      BY <2>2, <1>1, <1>3, <1>4 DEF Trusted, save
    <3> QED  BY <2>2, <3>1, <1>3, HintedIsHonest
  <2> QED  BY <2>1, <2>2
<1>7. DiskHonest'
  BY <1>1, <1>5, <1>6 DEF IInv, TruthInv, DiskHonest, save
<1>8. OneLayer'
  BY <1>1, <1>4 DEF IInv, TruthInv, OneLayer, options
<1>9. NewHinted'
  BY <1>1 DEF IInv, TruthInv, NewHinted, options, memory
<1>10. UnreadAsOnDisk' /\ SentFresh'
  BY <1>1, <1>2 DEF UnreadAsOnDisk, SentFresh, pool
<1>11. Covered'
  BY <1>1, <1>2, <1>5 DEF IInv, TruthInv, Covered, pool, memory, save
<1>12. MapHonest'
  BY <1>1, <1>2, <1>5, <1>6 DEF IInv, TruthInv, Covered, MapHonest, memory, save
<1>13. Written' /\ SavingUnsaved'
  BY <1>1, <1>2 DEF Written, SavingUnsaved, save
<1> QED  BY <1>7, <1>8, <1>9, <1>10, <1>11, <1>12, <1>13 DEF TruthInv

\* Writing the hash map keeps it: what the map claims is on disk.
LEMMA SaveMapTruth ==
    ASSUME IInv, SaveMap
    PROVE  TruthInv'
<1>1. /\ pc = "map" /\ UNCHANGED <<default, processed, listed>>
  BY DEF SaveMap
<1>2. DiskHonest'
  BY <1>1, SaveMapCells DEF IInv, TruthInv, DiskHonest, MapHonest, Trusted
<1>3. CASE Rest(saving) = {}
  BY <1>2, <1>3, IdleTruth DEF SaveMap
<1>4. CASE Rest(saving) # {}
  <2>1. /\ pc' = "layers" /\ unsaved' = Rest(saving)
        /\ UNCHANGED <<ended, options, pool, memory, hintedAny, saving, unwritten>>
    BY <1>4 DEF SaveMap
  <2>2. unread = {} /\ tasks = {}
    BY <1>1 DEF IInv, TypeInv
  <2>3. OneLayer' /\ NewHinted'
    BY <1>1, <2>1 DEF IInv, TruthInv, OneLayer, NewHinted, options, memory
  <2>4. UnreadAsOnDisk' /\ SentFresh'
    BY <2>1, <2>2 DEF UnreadAsOnDisk, SentFresh, pool
  <2>5. Covered'
    BY <1>1, <2>1, <2>2 DEF IInv, TruthInv, Covered, Trusted, Rest, pool, memory
  <2>6. Written' /\ MapHonest' /\ SavingUnsaved'
    BY <2>1 DEF Written, MapHonest, SavingUnsaved
  <2> QED  BY <1>2, <2>3, <2>4, <2>5, <2>6 DEF TruthInv
<1> QED  BY <1>3, <1>4
\* An entry of checkoutlinesufo is honest when the file it left, if any, was
\* made from the source.
LEMMA CheckedIsHonest ==
    ASSUME NEW e, NEW d, NEW p, e.history = {CheckOutlines}, p = None \/ p.of = d.of
    PROVE  Honest(e, d, p)
BY DEF Honest, CheckOutlines, Autohint

\* The glyphs of a font that a run of checkoutlinesufo does not check.
LEMMA UncheckedMatches ==
    ASSUME EntriesPresent, NEW f \in Fonts, NEW selected \in SUBSET Present(f),
           NEW every \in BOOLEAN, NEW g \in Glyphs,
           g \notin ToCheck(f, selected, every), entries[f][g] # None,
           g \in selected \/ Matches(entries[f][g], f, g)
    PROVE  entries[f][g].hash = default[f][g].of
BY DEF ToCheck, Matches, Same, Present, EntriesPresent

\* After an outline check, only glyphs that were not checked keep their processed files.
LEMMA KeptTrusted ==
    ASSUME DiskTypeOK, NEW f \in Fonts, NEW checked, NEW g \in Glyphs
    PROVE  Kept(f, checked)[g] = IF g \in checked THEN None ELSE Trusted(f, g)
BY KeptCells DEF Valid, Trusted

\* A glyph whose cells are what they were.
LEMMA SameCellHonest ==
    ASSUME NEW e, NEW k, NEW d, NEW p, Honest(e, d, p),
           k # None => e # None /\ k.hash = e.hash /\ k.history = e.history
    PROVE  Honest(k, d, p)
BY DEF Honest, Same

\* A check that corrects nothing leaves the disk honest.
LEMMA CheckOnlyHonest ==
    ASSUME DiskTypeOK, EntriesPresent, DiskHonest, NEW f \in Fonts,
           NEW selected \in SUBSET Present(f), NEW every \in BOOLEAN,
           NEW fix \in BOOLEAN, CheckOnly(f, selected, every, fix)
    PROVE  DiskHonest'
<1> DEFINE checked == ToCheck(f, selected, every)
           marked == CheckedEntries(f, checked)
           kept == Kept(f, checked)
<1>1. checked \in SUBSET Present(f)
  BY DEF ToCheck
<1>2. \A g \in Glyphs : /\ g \in checked => marked[g].history = {CheckOutlines}
                        /\ g \notin checked => marked[g] = entries[f][g]
  BY <1>1, CheckedEntriesCells
<1>3. \A g \in Glyphs : kept[g] = IF g \in checked THEN None ELSE Trusted(f, g)
  BY KeptTrusted
<1>4. /\ processed' = [processed EXCEPT ![f] = kept]
      /\ listed' = [listed EXCEPT ![f] =
                       IF fix THEN {g \in Glyphs : kept[g] # None} ELSE Valid(f)]
      /\ entries' = [entries EXCEPT ![f] = marked]
      /\ default' = default
  BY DEF CheckOnly
<1>5. \A g \in Glyphs : g \notin Valid(f) => kept[g] = None
  BY DEF Kept
<1> HIDE DEF checked, marked, kept
<1>6. /\ processed'[f] = kept /\ entries'[f] = marked
      /\ listed'[f] = IF fix THEN {g \in Glyphs : kept[g] # None} ELSE Valid(f)
      /\ \A k \in Fonts \ {f} : /\ processed'[k] = processed[k]
                                /\ entries'[k] = entries[k]
                                /\ listed'[k] = listed[k]
  BY <1>4 DEF DiskTypeOK
<1> SUFFICES ASSUME NEW k \in Fonts, NEW g \in Glyphs, default[k][g] # None
             PROVE  Honest(entries'[k][g], default[k][g], Trusted(k, g)')
  BY <1>4 DEF DiskHonest
<1>7. CASE k # f
  BY <1>6, <1>7 DEF DiskHonest, Trusted
<1>8. CASE k = f
  <2>1. Trusted(k, g)' = kept[g]
    BY <1>5, <1>6, <1>8 DEF Trusted
  <2>2. CASE g \in checked
    BY <1>2, <1>3, <1>6, <1>8, <2>1, <2>2, CheckedIsHonest
  <2>3. CASE g \notin checked
    BY <1>2, <1>3, <1>6, <1>8, <2>1, <2>3 DEF DiskHonest
  <2> QED  BY <2>2, <2>3
<1> QED  BY <1>7, <1>8

\* What a run that corrects outlines finds and makes: the glyphs it is not asked
\* to check are as their entries say, those it does not check stay as they are.
Corrects(f, selected, checked, layer, files) ==
    /\ \A g \in Present(f) \ selected :
          entries[f][g] # None => Matches(entries[f][g], f, g)
    /\ \A g \in Glyphs :
          /\ layer[g] # None <=> default[f][g] # None
          /\ g \in checked => files[g] = None \/ files[g].of = layer[g].of
          /\ g \notin checked => layer[g] = default[f][g] /\ files[g] = Trusted(f, g)

\* What it leaves on disk.
Leaves(f, checked, layer, files) ==
    /\ default' = [default EXCEPT ![f] = layer]
    /\ processed' = [processed EXCEPT ![f] = files]
    /\ listed' = [listed EXCEPT ![f] = {g \in Glyphs : files[g] # None}]
    /\ entries' = [entries EXCEPT ![f] =
                      Regenerated(CheckedEntries(f, checked), layer)]

\* Every entry takes the hash of its glyph, which it had unless the glyph was
\* checked.
LEMMA CorrectionHonest ==
    ASSUME DiskTypeOK, EntriesPresent, DiskHonest, NEW f \in Fonts,
           NEW selected \in SUBSET Present(f), NEW every \in BOOLEAN,
           NEW layer \in Layer, NEW files \in Layer,
           Corrects(f, selected, ToCheck(f, selected, every), layer, files),
           Leaves(f, ToCheck(f, selected, every), layer, files)
    PROVE  DiskHonest'
<1> DEFINE checked == ToCheck(f, selected, every)
           marked == CheckedEntries(f, checked)
           map == Regenerated(marked, layer)
<1>1. checked \in SUBSET Present(f)
  BY DEF ToCheck
<1>2. /\ marked \in HashMap
      /\ \A g \in Glyphs :
            /\ marked[g] # None => layer[g] # None
            /\ g \in checked => marked[g].history = {CheckOutlines}
            /\ g \in checked => marked[g] # None
            /\ g \notin checked => marked[g] = entries[f][g]
  <2>1. \A g \in checked : marked[g] # None
    <3>1. \A g \in checked :
              [hash |-> default[f][g].of, history |-> {CheckOutlines}] \in Entry
      BY <1>1, DiskCells, FileFields, NewEntry
    <3> QED  BY <1>1, <3>1, NoneIsNoValue DEF CheckedEntries, Present
  <2>2. \A g \in Glyphs : layer[g] # None <=> default[f][g] # None
    BY DEF Corrects
  <2> HIDE DEF checked
  <2> QED  BY <1>1, <2>1, <2>2, CheckedEntriesCells
<1>3. \A g \in checked : g \in Glyphs
  BY <1>1 DEF Present
<1>4. \A g \in Glyphs : g \notin checked /\ entries[f][g] # None =>
          entries[f][g].hash = layer[g].of
  <2> SUFFICES ASSUME NEW g \in Glyphs, g \notin checked, entries[f][g] # None
               PROVE  entries[f][g].hash = layer[g].of
    OBVIOUS
  <2>1. g \in selected \/ Matches(entries[f][g], f, g)
    BY DEF EntriesPresent, Present, Corrects
  <2>2. entries[f][g].hash = default[f][g].of
    BY <2>1, UncheckedMatches
  <2> QED  BY <2>2 DEF Corrects
<1>5. \A g \in Glyphs :
          /\ map[g] # None <=> marked[g] # None
          /\ marked[g] # None => /\ map[g].hash = layer[g].of
                                 /\ map[g].history = marked[g].history
  <2> HIDE DEF marked
  <2> QED  BY <1>2, RegeneratedCells
<1> HIDE DEF checked, marked, map
<1>6. /\ default'[f] = layer /\ processed'[f] = files /\ entries'[f] = map
      /\ listed'[f] = {g \in Glyphs : files[g] # None}
      /\ \A k \in Fonts \ {f} : /\ default'[k] = default[k]
                                /\ processed'[k] = processed[k]
                                /\ entries'[k] = entries[k]
                                /\ listed'[k] = listed[k]
  BY DEF DiskTypeOK, Leaves, map, marked, checked
<1> SUFFICES ASSUME NEW k \in Fonts, NEW g \in Glyphs, default'[k][g] # None
             PROVE  Honest(entries'[k][g], default'[k][g], Trusted(k, g)')
  BY DEF DiskHonest
<1>7. CASE k # f
  BY <1>6, <1>7 DEF DiskHonest, Trusted
<1>8. CASE k = f
  <2>1. Trusted(k, g)' = files[g]
    BY <1>6, <1>8 DEF Trusted
  <2>2. CASE g \in checked
    <3>1. map[g].history = {CheckOutlines}
      BY <1>2, <1>5, <2>2
    <3>2. files[g] = None \/ files[g].of = layer[g].of
      BY <2>2 DEF checked, Corrects
    <3> QED  BY <1>6, <1>8, <2>1, <3>1, <3>2, CheckedIsHonest
  <2>3. CASE g \notin checked
    <3>1. layer[g] = default[f][g] /\ files[g] = Trusted(f, g)
      BY <2>3 DEF checked, Corrects
    <3>2. map[g] # None => /\ entries[f][g] # None
                           /\ map[g].hash = entries[f][g].hash
                           /\ map[g].history = entries[f][g].history
      BY <1>2, <1>4, <1>5, <2>3
    <3>3. Honest(entries[f][g], default[f][g], Trusted(f, g))
      BY <1>6, <1>8, <3>1 DEF DiskHonest
    <3> QED  BY <1>6, <1>8, <2>1, <3>1, <3>2, <3>3, SameCellHonest
  <2> QED  BY <2>2, <2>3
<1> QED  BY <1>7, <1>8

\* So does every check, outside the uses of AllUses.
LEMMA CheckHonest ==
    ASSUME Uses = {}, DiskTypeOK, EntriesPresent, DiskHonest, NEW f \in Fonts,
           RunCheckOutlines(f)
    PROVE  DiskHonest'
<1>1. PICK selected \in SUBSET Present(f), every \in BOOLEAN :
          \/ \E fix \in BOOLEAN : CheckOnly(f, selected, every, fix)
          \/ \E fixed \in SUBSET selected :
                \/ CheckAndFix(f, selected, every, fixed)
                \/ CheckAndFixDefault(f, selected, every, fixed)
          \/ CheckKilled(f, selected, every)
  BY DEF RunCheckOutlines
<1>2. ~ CheckKilled(f, selected, every)
  BY DEF CheckKilled
<1>3. CASE \E fix \in BOOLEAN : CheckOnly(f, selected, every, fix)
  BY <1>3, CheckOnlyHonest
<1> DEFINE checked == ToCheck(f, selected, every)
           kept == Kept(f, checked)
<1>4. kept \in Layer
  BY KeptCells
<1>5. \A g \in Glyphs : kept[g] = IF g \in checked THEN None ELSE Trusted(f, g)
  BY KeptTrusted
<1>6. CASE \E fixed \in SUBSET selected : CheckAndFix(f, selected, every, fixed)
  <2>1. PICK fixed \in SUBSET selected : CheckAndFix(f, selected, every, fixed)
    BY <1>6
  <2> DEFINE files == Corrected(f, fixed, kept)
  <2>2. fixed \in SUBSET checked
    BY <2>1 DEF CheckAndFix
  <2>3. /\ files \in Layer
        /\ \A g \in Glyphs \ fixed : files[g] = kept[g]
    <3> HIDE DEF kept
    <3> QED  BY <1>4, CorrectedCells
  <2>4. \A g \in fixed : g \in Glyphs => files[g].of = default[f][g].of
    BY DEF Corrected
  <2>5. \A g \in Glyphs :
            /\ g \in checked => files[g] = None \/ files[g].of = default[f][g].of
            /\ g \notin checked => files[g] = Trusted(f, g)
    <3> HIDE DEF files, checked, kept
    <3> QED  BY <1>5, <2>2, <2>3, <2>4
  <2>6. default \in [Fonts -> Layer] /\ default[f] \in Layer
    BY DEF DiskTypeOK
  <2>7. Corrects(f, selected, checked, default[f], files)
    BY <2>1, <2>5 DEF CheckAndFix, Corrects
  <2>8. Leaves(f, checked, default[f], files)
    <3>1. default' = [default EXCEPT ![f] = default[f]]
      BY <2>1, <2>6 DEF CheckAndFix
    <3> QED  BY <2>1, <3>1 DEF CheckAndFix, Leaves
  <2> HIDE DEF files, kept
  <2> QED  BY <2>3, <2>6, <2>7, <2>8, CorrectionHonest
<1>7. CASE \E fixed \in SUBSET selected : CheckAndFixDefault(f, selected, every, fixed)
  <2>1. PICK fixed \in SUBSET selected : CheckAndFixDefault(f, selected, every, fixed)
    BY <1>7
  <2>2. PICK o \in [fixed -> Outlines] :
            /\ default' = [default EXCEPT ![f] = Redrawn(f, fixed, o)]
            /\ entries' = [entries EXCEPT ![f] =
                  Regenerated(CheckedEntries(f, checked), Redrawn(f, fixed, o))]
    BY <2>1 DEF CheckAndFixDefault
  <2> DEFINE layer == Redrawn(f, fixed, o)
  <2>3. fixed \in SUBSET checked
    BY <2>1 DEF CheckAndFixDefault
  <2>4. /\ layer \in Layer
        /\ \A g \in Glyphs :
              /\ layer[g] # None <=> default[f][g] # None
              /\ g \notin fixed => layer[g] = default[f][g]
    BY <1>1, RedrawnCells
  <2> HIDE DEF layer
  <2>5. \A g \in Glyphs :
            /\ g \in checked => kept[g] = None \/ kept[g].of = layer[g].of
            /\ g \notin checked => layer[g] = default[f][g] /\ kept[g] = Trusted(f, g)
    <3> HIDE DEF kept, checked
    <3> QED  BY <1>5, <2>3, <2>4
  <2>6. Corrects(f, selected, checked, layer, kept)
    <3>1. \A g \in Present(f) \ selected :
              entries[f][g] # None => Matches(entries[f][g], f, g)
      BY <2>1 DEF CheckAndFixDefault
    <3> QED  BY <2>4, <2>5, <3>1 DEF Corrects
  <2>7. Leaves(f, checked, layer, kept)
    BY <2>1, <2>2 DEF CheckAndFixDefault, Leaves, layer
  <2> HIDE DEF kept
  <2> QED  BY <1>4, <2>4, <2>6, <2>7, CorrectionHonest
<1> QED  BY <1>1, <1>2, <1>3, <1>6, <1>7
\* An edit to an outline that the entry does not name makes the entry silent.
LEMMA EditHonest ==
    ASSUME Uses = {}, DiskTypeOK, DiskHonest, NEW f \in Fonts, NEW g \in Glyphs,
           Edit(f, g)
    PROVE  DiskHonest'
<1>1. PICK o \in Outlines :
          /\ "undo" \in Uses \/ ~ Same(entries[f][g], o)
          /\ default' = Put(default, f, g, [of |-> o, hints |-> default[f][g].hints])
  BY DEF Edit
<1> DEFINE x == [of |-> o, hints |-> default[f][g].hints]
<1>2. default[f][g] \in File
  BY DiskCells DEF Edit
<1>3. x \in File /\ x.of = o
  BY <1>2, FileFields
<1>4. ~ Same(entries[f][g], o)
  BY <1>1
<1>5. default' = Put(default, f, g, x)
  BY <1>1
<1> HIDE DEF x
<1>6. /\ default'[f][g] = x
      /\ \A k \in Fonts : \A n \in Glyphs :
            ~ (k = f /\ n = g) => default'[k][n] = default[k][n]
  BY <1>3, <1>5, PutFile DEF DiskTypeOK
<1>7. UNCHANGED <<processed, listed, entries>>
  BY DEF Edit
<1> SUFFICES ASSUME NEW k \in Fonts, NEW n \in Glyphs, default'[k][n] # None
             PROVE  Honest(entries[k][n], default'[k][n], Trusted(k, n))
  BY <1>7 DEF DiskHonest, Trusted
<1>8. CASE k = f /\ n = g
  BY <1>3, <1>4, <1>6, <1>8, SilentEntry
<1>9. CASE ~ (k = f /\ n = g)
  BY <1>6, <1>9 DEF DiskHonest
<1> QED  BY <1>8, <1>9

\* So edits and outline checks keep the invariant.
LEMMA OthersTruth ==
    ASSUME Uses = {}, IInv, NEW f \in Fonts, Others(f)
    PROVE  TruthInv'
<1>1. /\ pc = "idle" /\ pc' = "idle"
      /\ UNCHANGED <<pc, options, pool, memory, hintedAny, save>>
  BY DEF Others
<1>2. DiskHonest'
  BY CheckHonest, EditHonest DEF Others, IInv, TypeInv, TypeOK, TruthInv
<1>3. /\ \A k \in Fonts : \A g \in Glyphs : newGlyphs[k][g] = None
      /\ unread = {} /\ tasks = {} /\ unsaved = {} /\ toDefault = FALSE
  BY <1>1 DEF IInv, TypeInv
<1>4. OneLayer' /\ NewHinted'
  BY <1>1, <1>3 DEF OneLayer, NewHinted, options, memory
<1>5. UnreadAsOnDisk' /\ SentFresh'
  BY <1>1, <1>3 DEF UnreadAsOnDisk, SentFresh, pool
<1>6. Covered'
  BY <1>1, <1>3 DEF Covered, save
<1>7. Written' /\ MapHonest' /\ SavingUnsaved'
  BY <1>1 DEF Written, MapHonest, SavingUnsaved
<1> QED  BY <1>2, <1>4, <1>5, <1>6, <1>7 DEF TruthInv

\* A run that ends before it writes keeps it.
LEMMA EarlyEndTruth ==
    ASSUME IInv, NEW how, Idle(how), UNCHANGED disk
    PROVE  TruthInv'
BY DiskHonestKept, IdleTruth DEF IInv, TruthInv

\* A stutter keeps it.
LEMMA StutterTruth ==
    ASSUME IInv, UNCHANGED vars
    PROVE  TruthInv'
<1>1. UNCHANGED <<disk, pc, ended, options, pool, memory, hintedAny, save>>
  BY DEF vars
<1>2. DiskHonest' /\ OneLayer' /\ NewHinted'
  BY <1>1, DiskHonestKept
     DEF IInv, TruthInv, OneLayer, NewHinted, disk, options, memory
<1>3. UnreadAsOnDisk' /\ SentFresh'
  BY <1>1 DEF IInv, TruthInv, UnreadAsOnDisk, SentFresh, disk, pool, memory
<1>4. Covered'
  BY <1>1 DEF IInv, TruthInv, Covered, Trusted, disk, pool, memory, save
<1>5. Written'
  BY <1>1 DEF IInv, TruthInv, Written, disk, options, memory, save
<1>6. MapHonest' /\ SavingUnsaved'
  BY <1>1 DEF IInv, TruthInv, MapHonest, SavingUnsaved, Trusted, disk, memory, save
<1> QED  BY <1>2, <1>3, <1>4, <1>5, <1>6 DEF TruthInv

\* Every step keeps it.
LEMMA NextTruth ==
    ASSUME Uses = {}, IInv, [Next]_vars
    PROVE  TruthInv'
<1>1. ASSUME NEW f \in Fonts, Others(f) PROVE TruthInv'
  BY <1>1, OthersTruth
<1>2. ASSUME NEW names \in SUBSET Glyphs, NEW a \in BOOLEAN, NEW d \in BOOLEAN,
             Start(names, a, d)
      PROVE  TruthInv'
  BY <1>2, StartTruth
<1>3. ASSUME NEW g \in Glyphs, Read(g) PROVE TruthInv'
  BY <1>3, ReadTruth
<1>4. ASSUME NEW g \in Glyphs, ReadFails(g) \/ ReceiveFails(g) PROVE TruthInv'
  BY <1>4, EarlyEndTruth DEF ReadFails, ReceiveFails
<1>5. ASSUME NEW g \in Glyphs, ReceiveGlyphs(g) \/ ReceiveNothing(g) PROVE TruthInv'
  BY <1>5, ReceiveTruth DEF ReceiveGlyphs, ReceiveNothing
<1>6. ASSUME NEW g \in Glyphs, SaveGlyph(g) PROVE TruthInv'
  BY <1>6, SaveGlyphTruth
<1>7. ASSUME NEW f \in Fonts, SaveLayers(f) PROVE TruthInv'
  BY <1>7, SaveLayersTruth
<1>8. CASE HintEnds
  BY <1>8, HintEndsTruth
<1>9. CASE SaveContents
  BY <1>9, SaveContentsTruth
<1>10. CASE SaveMap
  BY <1>10, SaveMapTruth
<1>11. CASE Kill
  BY <1>11, EarlyEndTruth DEF Kill
<1>12. CASE UNCHANGED vars
  BY <1>12, StutterTruth
<1> QED  BY <1>1, <1>2, <1>3, <1>4, <1>5, <1>6, <1>7, <1>8, <1>9, <1>10, <1>11,
            <1>12 DEF Next, Run

\* Honest entries are what makeotf and the next run rely on.
LEMMA HonestEntries ==
    ASSUME IInv
    PROVE  EntriesTruthful /\ ProcessedFresh
<1>1. EntriesTruthful
  <2> SUFFICES ASSUME NEW f \in Fonts, NEW g \in Present(f),
                      Matches(entries[f][g], f, g),
                      InHistory(Autohint, entries[f][g])
               PROVE  Hinted(f, g)
    BY DEF EntriesTruthful
  <2>1. Honest(entries[f][g], default[f][g], Trusted(f, g))
    BY DEF IInv, TruthInv, DiskHonest, Present
  <2> QED  BY <2>1 DEF Honest, Matches, InHistory, Hinted, Seen, Trusted
<1>2. ProcessedFresh
  <2> SUFFICES ASSUME NEW f \in Fonts, NEW g \in listed[f],
                      Matches(entries[f][g], f, g), processed[f][g] # None
               PROVE  processed[f][g].of = default[f][g].of
    BY DEF ProcessedFresh
  <2>1. g \in Glyphs
    BY DEF IInv, TypeInv, TypeOK, DiskTypeOK
  <2>2. default[f][g] # None
    BY <2>1 DEF IInv, TypeInv, EntriesPresent, Matches, Same
  <2>3. Honest(entries[f][g], default[f][g], Trusted(f, g))
    BY <2>1, <2>2 DEF IInv, TruthInv, DiskHonest
  <2> QED  BY <2>3 DEF Honest, Matches, Trusted
<1> QED  BY <1>1, <1>2

\* An entry on disk that matches its source and names otfautohint stands for
\* hints that are on disk, and a processed file whose entry matches was made from
\* the source: after any sequence of edits, checks, hinting runs, kills and
\* failures, with answers in any order, outside the uses that AllUses names.
THEOREM HashMapTruthful ==
    ASSUME Uses = {}
    PROVE  Spec => []EntriesTruthful /\ []ProcessedFresh
<1>1. Init => IInv
  BY InitTyped, InitTruth DEF IInv
<1>2. IInv /\ [Next]_vars => IInv'
  BY NextTyped, NextTruth DEF IInv
<1>3. IInv => EntriesTruthful /\ ProcessedFresh
  BY HonestEntries
<1> QED  BY <1>1, <1>2, <1>3, PTL DEF Spec

-----------------------------------------------------------------------------
(* No step takes hints away. *)

\* What is seen of a glyph depends on its source and its trusted file alone.
LEMMA SameSeen ==
    ASSUME NEW f \in Fonts, NEW g \in Glyphs, default'[f][g] = default[f][g],
           Trusted(f, g)' = Trusted(f, g), Hinted(f, g)
    PROVE  Hinted(f, g)'
<1>1. Seen(f, g)' = Seen(f, g)
  BY DEF Seen, Trusted
<1> QED  BY <1>1 DEF Hinted

\* A file that was made from the source and has hints for it.
LEMMA NewSeen ==
    ASSUME NEW f \in Fonts, NEW g \in Glyphs,
           Seen(f, g)'.of = default'[f][g].of,
           Seen(f, g)'.hints = Seen(f, g)'.of
    PROVE  Hinted(f, g)'
BY DEF Hinted

\* The first step of a save takes no hints: the layer it deletes is not there.
LEMMA SaveLayersSurvive ==
    ASSUME IInv, NEW k \in Fonts, SaveLayers(k), NEW f \in Fonts, NEW g \in Glyphs,
           Hinted(f, g)
    PROVE  Hinted(f, g)'
<1>1. default' = default /\ listed \in [Fonts -> SUBSET Glyphs]
  BY DEF SaveLayers, IInv, TypeInv, TypeOK, DiskTypeOK
<1>2. Trusted(f, g)' = Trusted(f, g)
  <2>1. CASE toDefault
    <3>1. listed' = [listed EXCEPT ![k] = {}] /\ \A n \in Fonts : listed[n] = {}
      BY <2>1 DEF SaveLayers, IInv, TruthInv, OneLayer
    <3> QED  BY <3>1, <1>1 DEF Trusted
  <2>2. CASE ~ toDefault
    BY <2>2 DEF SaveLayers, Trusted
  <2> QED  BY <2>1, <2>2
<1> QED  BY <1>1, <1>2, SameSeen

\* The file that is written over has hints for the outline of the source.
LEMMA SaveGlyphSurvive ==
    ASSUME IInv, NEW n \in Glyphs, SaveGlyph(n), NEW f \in Fonts, NEW g \in Glyphs,
           Hinted(f, g)
    PROVE  Hinted(f, g)'
<1> DEFINE new == newGlyphs[saving][n]
<1>1. /\ pc = "glyphs" /\ n \in unwritten /\ listed' = listed
  BY DEF SaveGlyph
<1>2. saving \in Fonts /\ new # None
  BY <1>1 DEF IInv, TypeInv, TypeOK
<1>3. /\ new.hints = new.of
      /\ ~ toDefault => new.of = default[saving][n].of
      /\ toDefault => \A k \in Fonts : listed[k] = {}
  BY <1>2 DEF IInv, TruthInv, NewHinted, OneLayer
<1>4. /\ \A k \in Fonts : \A m \in Glyphs :
            ~ (k = saving /\ m = n) =>
               /\ default'[k][m] = default[k][m]
               /\ processed'[k][m] = processed[k][m]
      /\ toDefault => default'[saving][n] = new
      /\ ~ toDefault => processed'[saving][n] = new /\ default' = default
  BY SaveGlyphCells DEF IInv
<1> HIDE DEF new
<1>5. CASE ~ (f = saving /\ g = n)
  <2>1. Trusted(f, g)' = Trusted(f, g)
    BY <1>1, <1>4, <1>5 DEF Trusted
  <2> QED  BY <1>4, <1>5, <2>1, SameSeen
<1>6. CASE f = saving /\ g = n /\ toDefault
  <2>1. Seen(f, g)' = new /\ default'[f][g] = new
    BY <1>1, <1>2, <1>3, <1>4, <1>6 DEF Seen
  <2> QED  BY <2>1, <1>3, NewSeen
<1>7. CASE f = saving /\ g = n /\ ~ toDefault /\ g \in listed[f]
  <2>1. Seen(f, g)' = new /\ default'[f][g] = default[f][g]
    BY <1>1, <1>2, <1>4, <1>7 DEF Seen
  <2> QED  BY <2>1, <1>3, <1>7, NewSeen
<1>8. CASE f = saving /\ g = n /\ ~ toDefault /\ g \notin listed[f]
  <2>1. Trusted(f, g)' = Trusted(f, g) /\ default'[f][g] = default[f][g]
    BY <1>1, <1>4, <1>8 DEF Trusted
  <2> QED  BY <2>1, SameSeen
<1> QED  BY <1>5, <1>6, <1>7, <1>8

\* The files that readers take from now on are the new ones.
LEMMA SaveContentsSurvive ==
    ASSUME IInv, SaveContents, NEW f \in Fonts, NEW g \in Glyphs, Hinted(f, g)
    PROVE  Hinted(f, g)'
<1>1. /\ pc = "glyphs" /\ unwritten = {} /\ default' = default /\ processed' = processed
      /\ listed' = IF toDefault THEN listed
                   ELSE [listed EXCEPT ![saving] = Contents(saving)]
  BY DEF SaveContents
<1>2. saving \in Fonts /\ listed \in [Fonts -> SUBSET Glyphs]
  BY DEF IInv, TypeInv, TypeOK, DiskTypeOK
<1>3. CASE f # saving \/ newGlyphs[f][g] = None \/ toDefault
  <2>1. g \in listed'[f] <=> g \in listed[f]
    BY <1>1, <1>2, <1>3 DEF Contents
  <2>2. Trusted(f, g)' = Trusted(f, g)
    BY <1>1, <2>1 DEF Trusted
  <2> QED  BY <1>1, <2>2, SameSeen
<1>4. CASE f = saving /\ newGlyphs[f][g] # None /\ ~ toDefault
  <2>1. /\ newGlyphs[f][g].hints = newGlyphs[f][g].of
        /\ newGlyphs[f][g].of = default[f][g].of
        /\ processed[f][g] = newGlyphs[f][g]
    BY <1>1, <1>4 DEF IInv, TruthInv, NewHinted, Written
  <2>2. g \in listed'[f]
    BY <1>1, <1>2, <1>4 DEF Contents
  <2>3. Seen(f, g)' = newGlyphs[f][g]
    BY <1>1, <1>4, <2>1, <2>2 DEF Seen
  <2> QED  BY <1>1, <2>1, <2>3, NewSeen
<1> QED  BY <1>3, <1>4

\* No step of a run takes hints.
LEMMA StepSurvive ==
    ASSUME IInv, [Next]_vars, pc # "idle", NEW f \in Fonts, NEW g \in Glyphs,
           Hinted(f, g)
    PROVE  Hinted(f, g)'
<1>1. ASSUME UNCHANGED <<default, processed, listed>> PROVE Hinted(f, g)'
  BY <1>1, SameSeen DEF Trusted
<1>2. ASSUME NEW k \in Fonts, Others(k) PROVE Hinted(f, g)'
  BY <1>2 DEF Others
<1>3. ASSUME NEW names \in SUBSET Glyphs, NEW a \in BOOLEAN, NEW d \in BOOLEAN,
             Start(names, a, d)
      PROVE  Hinted(f, g)'
  BY <1>3 DEF Start
<1>4. ASSUME NEW n \in Glyphs, Read(n) PROVE Hinted(f, g)'
  BY <1>1, <1>4 DEF Read, disk
<1>5. ASSUME NEW n \in Glyphs, ReadFails(n) \/ ReceiveFails(n) PROVE Hinted(f, g)'
  BY <1>1, <1>5 DEF ReadFails, ReceiveFails, disk
<1>6. ASSUME NEW n \in Glyphs, ReceiveGlyphs(n) \/ ReceiveNothing(n) PROVE Hinted(f, g)'
  BY <1>1, <1>6 DEF ReceiveGlyphs, ReceiveNothing, Receive, disk
<1>7. ASSUME NEW n \in Glyphs, SaveGlyph(n) PROVE Hinted(f, g)'
  BY <1>7, SaveGlyphSurvive
<1>8. ASSUME NEW k \in Fonts, SaveLayers(k) PROVE Hinted(f, g)'
  BY <1>8, SaveLayersSurvive
<1>9. CASE HintEnds
  BY <1>1, <1>9 DEF HintEnds, disk
<1>10. CASE SaveContents
  BY <1>10, SaveContentsSurvive
<1>11. CASE SaveMap
  BY <1>1, <1>11 DEF SaveMap
<1>12. CASE Kill
  BY <1>1, <1>12 DEF Kill, disk
<1>13. CASE UNCHANGED vars
  BY <1>1, <1>13 DEF vars, disk
<1> QED  BY <1>2, <1>3, <1>4, <1>5, <1>6, <1>7, <1>8, <1>9, <1>10, <1>11, <1>12,
            <1>13 DEF Next, Run

\* No step of a hinting run, a kill at any point included, takes the hints from a
\* glyph that had them, in any font of any family, outside the uses that AllUses
\* names.
THEOREM NoHintsLost ==
    ASSUME Uses = {}
    PROVE  Spec => HintsSurvive
<1>1. Init => IInv
  BY InitTyped, InitTruth DEF IInv
<1>2. IInv /\ [Next]_vars => IInv'
  BY NextTyped, NextTruth DEF IInv
<1>3. IInv /\ [Next]_vars =>
          [\A f \in Fonts : \A g \in Glyphs :
              pc # "idle" /\ g \in Present(f) /\ Hinted(f, g) => Hinted(f, g)']_vars
  BY StepSurvive
<1> QED  BY <1>1, <1>2, <1>3, PTL DEF Spec, HintsSurvive

-----------------------------------------------------------------------------
(* What a run saves the next one skips. *)

\* An entry that has the hash of the source d and names otfautohint.
Marked(e, d) == Same(e, d.of) /\ InHistory(Autohint, e)

\* What a worker was given is marked.
TasksMarked ==
    \A g \in tasks : \A f \in given[g] : Marked(hashMap[f][g], default[f][g])

\* What is to be saved is marked, in a map that will be written.
NewMarked ==
    \A f \in Fonts : \A g \in Glyphs : newGlyphs[f][g] # None =>
        Marked(hashMap[f][g], default[f][g]) /\ hashMapChanged[f]

MarkedInv ==
    /\ pc = "hinting" => unsaved = {}
    /\ TasksMarked
    /\ NewMarked

\* In the beginning nothing was sent.
LEMMA InitMarked == Init => MarkedInv
BY DEF Init, MarkedInv, TasksMarked, NewMarked, NoGlyphs

\* A program that ends holds nothing.
LEMMA IdleMarked ==
    ASSUME NEW how, Idle(how)
    PROVE  MarkedInv'
BY DEF Idle, MarkedInv, TasksMarked, NewMarked, NoGlyphs

\* A step that changes neither what was sent nor memory keeps the invariant.
LEMMA SameMarked ==
    ASSUME MarkedInv, UNCHANGED <<default, tasks, given, memory>>,
           pc' = "hinting" => unsaved' = {}
    PROVE  MarkedInv'
BY DEF MarkedInv, TasksMarked, NewMarked, memory

\* checkSkipGlyph marks the entry of whatever is sent.
LEMMA ReadMarked ==
    ASSUME TypeInv, MarkedInv, NEW g \in Glyphs, Read(g)
    PROVE  MarkedInv'
<1> DEFINE have == {f \in Fonts : g \in Present(f)}
           sent == {f \in have : ~ Skip(hashMap[f][g], default[f][g].of)}
           left(f) == Checked(hashMap[f][g], default[f][g].of)
<1>1. /\ g \in unread /\ pc = "hinting"
      /\ hashMap' = [f \in Fonts |-> [n \in Glyphs |->
            IF n = g /\ f \in have THEN left(f) ELSE hashMap[f][n]]]
      /\ given' = [given EXCEPT ![g] = sent]
      /\ tasks' \in SUBSET (tasks \union {g})
  BY DEF Read
<1>2. UNCHANGED <<disk, pc, newGlyphs, save>>
  BY DEF Read
<1>3. \A f \in Fonts : hashMapChanged[f] => hashMapChanged'[f]
  BY DEF Read
<1>4. TypeOK /\ given \in [Glyphs -> SUBSET Fonts] /\ tasks \in SUBSET Glyphs
  BY DEF TypeInv, TypeOK
<1>5. \A f \in have : Marked(left(f), default[f][g])
  <2> SUFFICES ASSUME NEW f \in have PROVE Marked(left(f), default[f][g])
    OBVIOUS
  <2>1. default[f][g] \in File
    BY <1>4, DiskCells DEF TypeOK
  <2>2. default[f][g].of \in Outlines /\ hashMap[f][g] \in Entry \union {None}
    BY <2>1, <1>4, FileFields, MemoryCells
  <2> QED  BY <2>2, CheckedEntry DEF Marked, Same, InHistory
<1>6. sent \in SUBSET have /\ have \in SUBSET Fonts
  OBVIOUS
<1> HIDE DEF have, sent, left
<1>7. \A f \in Fonts : \A n \in Glyphs :
          hashMap'[f][n] = IF n = g /\ f \in have THEN left(f) ELSE hashMap[f][n]
  BY <1>1
<1>8. TasksMarked'
  <2> SUFFICES ASSUME NEW n \in tasks', NEW f \in given'[n]
               PROVE  Marked(hashMap'[f][n], default'[f][n])
    BY DEF TasksMarked
  <2>1. default' = default
    BY <1>2 DEF disk
  <2>2. CASE n = g
    BY <2>1, <2>2, <1>1, <1>4, <1>5, <1>6, <1>7
  <2>3. CASE n # g
    <3>1. n \in tasks /\ f \in given[n] /\ n \in Glyphs /\ f \in Fonts
      BY <2>3, <1>1, <1>4
    <3> QED  BY <2>1, <2>3, <3>1, <1>7 DEF MarkedInv, TasksMarked
  <2> QED  BY <2>2, <2>3
<1>9. NewMarked'
  <2> SUFFICES ASSUME NEW f \in Fonts, NEW n \in Glyphs, newGlyphs[f][n] # None
               PROVE  Marked(hashMap'[f][n], default[f][n]) /\ hashMapChanged'[f]
    BY <1>2 DEF NewMarked, disk
  <2>1. n # g
    BY <1>1 DEF TypeInv
  <2> QED  BY <2>1, <1>3, <1>7 DEF MarkedInv, NewMarked
<1> QED  BY <1>1, <1>2, <1>8, <1>9 DEF MarkedInv, save

\* What a worker hinted was given to it, so it is marked; the entry of what it did
\* not hint is removed, and there is no new glyph for it.
LEMMA ReceiveMarked ==
    ASSUME TypeInv, MarkedInv, NEW g \in Glyphs, NEW back \in SUBSET given[g],
           NEW hints \in BOOLEAN, Receive(g, back, hints)
    PROVE  MarkedInv'
<1>1. /\ pc = "hinting" /\ g \in tasks /\ tasks' = tasks \ {g}
      /\ hashMap' = [f \in Fonts |-> [n \in Glyphs |->
            IF n = g THEN Stored(hashMap[f][g], f \in back) ELSE hashMap[f][n]]]
      /\ hashMapChanged' = [f \in Fonts |-> TRUE]
      /\ given' = [given EXCEPT ![g] = {}]
  BY DEF Receive
<1>2. PICK o \in [back -> Outlines] :
          newGlyphs' = [f \in Fonts |-> [n \in Glyphs |->
                IF n = g /\ f \in back
                THEN [of |-> o[f], hints |-> o[f]] ELSE newGlyphs[f][n]]]
  BY DEF Receive
<1>3. UNCHANGED <<disk, pc, save>>
  BY DEF Receive
<1>4. TypeOK /\ given \in [Glyphs -> SUBSET Fonts] /\ tasks \in SUBSET Glyphs
  BY DEF TypeInv, TypeOK
<1>5. \A f \in back : f \in Fonts /\ Marked(hashMap[f][g], default[f][g])
  BY <1>1, <1>4 DEF MarkedInv, TasksMarked
<1>6. \A f \in back : Marked(Stored(hashMap[f][g], f \in back), default[f][g])
  <2> SUFFICES ASSUME NEW f \in back
               PROVE  Marked(Stored(hashMap[f][g], f \in back), default[f][g])
    OBVIOUS
  <2>1. hashMap[f][g] \in Entry /\ Marked(hashMap[f][g], default[f][g])
    <3>1. hashMap[f][g] # None
      BY <1>5 DEF Marked, Same
    <3> QED  BY <3>1, <1>4, <1>5, MemoryCells
  <2>2. /\ WithProgram(hashMap[f][g], Autohint) # None
        /\ WithProgram(hashMap[f][g], Autohint).hash = hashMap[f][g].hash
        /\ Autohint \in WithProgram(hashMap[f][g], Autohint).history
    BY <2>1, EntryWithAutohint, NoneIsNoValue
  <2>3. Marked(WithProgram(hashMap[f][g], Autohint), default[f][g])
    BY <2>1, <2>2 DEF Marked, Same, InHistory
  <2> QED  BY <2>3 DEF Stored
<1>7. \A f \in Fonts : \A n \in Glyphs :
          /\ n = g => hashMap'[f][n] = Stored(hashMap[f][g], f \in back)
          /\ n # g => hashMap'[f][n] = hashMap[f][n]
  BY <1>1
<1>8. \A f \in Fonts : \A n \in Glyphs :
          ~ (n = g /\ f \in back) => newGlyphs'[f][n] = newGlyphs[f][n]
  BY <1>2
<1>9. \A f \in Fonts : hashMapChanged'[f]
  BY <1>1
<1>10. TasksMarked'
  <2> SUFFICES ASSUME NEW n \in tasks', NEW f \in given'[n]
               PROVE  Marked(hashMap'[f][n], default'[f][n])
    BY DEF TasksMarked
  <2>1. n \in tasks /\ n # g /\ n \in Glyphs /\ f \in given[n] /\ f \in Fonts
    BY <1>1, <1>4
  <2> QED  BY <2>1, <1>3, <1>7 DEF MarkedInv, TasksMarked, disk
<1>11. NewMarked'
  <2> SUFFICES ASSUME NEW f \in Fonts, NEW n \in Glyphs, newGlyphs'[f][n] # None
               PROVE  Marked(hashMap'[f][n], default[f][n])
    BY <1>3, <1>9 DEF NewMarked, disk
  <2>1. CASE n = g /\ f \in back
    BY <2>1, <1>6, <1>7
  <2>2. CASE ~ (n = g /\ f \in back)
    <3>1. newGlyphs[f][n] # None
      BY <2>2, <1>8
    <3>2. n # g
      BY <3>1, <1>1 DEF TypeInv
    <3> QED  BY <3>1, <3>2, <1>7 DEF MarkedInv, NewMarked
  <2> QED  BY <2>1, <2>2
<1> QED  BY <1>1, <1>3, <1>10, <1>11 DEF MarkedInv, save

\* recalcHashEntry keeps the entry of an overwritten glyph marked.
LEMMA SaveGlyphMarked ==
    ASSUME TypeInv, MarkedInv, NEW g \in Glyphs, SaveGlyph(g)
    PROVE  MarkedInv'
<1>1. /\ pc = "glyphs" /\ pc' = "glyphs" /\ newGlyphs' = newGlyphs
      /\ tasks' = tasks /\ hashMapChanged' = hashMapChanged
  BY DEF SaveGlyph, memory, pool
<1>2. tasks = {} /\ saving \in Fonts /\ newGlyphs[saving][g] # None
  BY <1>1 DEF TypeInv, TypeOK, SaveGlyph
<1>3. Marked(hashMap[saving][g], default[saving][g])
  BY <1>2 DEF MarkedInv, NewMarked
<1>4. Marked(hashMap'[saving][g], default'[saving][g])
  <2>1. CASE toDefault
    <3>1. /\ hashMap'[saving][g] \in Entry
          /\ hashMap'[saving][g].hash = default'[saving][g].of
          /\ hashMap'[saving][g].history = hashMap[saving][g].history
      BY <2>1, SaveGlyphCells
    <3>2. Autohint \in hashMap'[saving][g].history
      BY <1>3, <3>1 DEF Marked, InHistory
    <3> QED  BY <3>1, <3>2, NoneIsNoValue DEF Marked, Same, InHistory
  <2>2. CASE ~ toDefault
    BY <1>3, <2>2, SaveGlyphCells
  <2> QED  BY <2>1, <2>2
<1>5. \A f \in Fonts : \A n \in Glyphs : ~ (f = saving /\ n = g) =>
          hashMap'[f][n] = hashMap[f][n] /\ default'[f][n] = default[f][n]
  BY SaveGlyphCells
<1>6. NewMarked'
  <2> SUFFICES ASSUME NEW f \in Fonts, NEW n \in Glyphs, newGlyphs[f][n] # None
               PROVE  Marked(hashMap'[f][n], default'[f][n]) /\ hashMapChanged[f]
    BY <1>1 DEF NewMarked
  <2>1. hashMapChanged[f] /\ Marked(hashMap[f][n], default[f][n])
    BY DEF MarkedInv, NewMarked
  <2>2. CASE f = saving /\ n = g
    BY <2>1, <2>2, <1>4
  <2>3. CASE ~ (f = saving /\ n = g)
    BY <2>1, <2>3, <1>5
  <2> QED  BY <2>2, <2>3
<1> QED  BY <1>1, <1>2, <1>6 DEF MarkedInv, TasksMarked

\* Every step keeps it.
LEMMA NextMarked ==
    ASSUME TypeInv, MarkedInv, [Next]_vars
    PROVE  MarkedInv'
<1>1. ASSUME UNCHANGED <<default, tasks, given, memory, unsaved>>,
             pc' = "hinting" => pc \in {"hinting", "idle"}
      PROVE  MarkedInv'
  BY <1>1, SameMarked DEF TypeInv, MarkedInv
<1>2. ASSUME NEW how, Idle(how) PROVE MarkedInv'
  BY <1>2, IdleMarked
<1>3. ASSUME NEW f \in Fonts, Others(f) PROVE MarkedInv'
  <2>1. /\ pc = "idle" /\ pc' = "idle"
        /\ UNCHANGED <<tasks, newGlyphs>>
    BY <1>3 DEF Others, pool, memory
  <2>2. tasks = {} /\ \A k \in Fonts : \A g \in Glyphs : newGlyphs[k][g] = None
    BY <2>1 DEF TypeInv
  <2> QED  BY <2>1, <2>2 DEF MarkedInv, TasksMarked, NewMarked
<1>4. ASSUME NEW names \in SUBSET Glyphs, NEW a \in BOOLEAN, NEW d \in BOOLEAN,
             Start(names, a, d)
      PROVE  MarkedInv'
  <2>1. /\ pc = "idle"
        /\ UNCHANGED <<tasks, newGlyphs, unsaved>>
    BY <1>4 DEF Start, save
  <2>2. /\ tasks = {} /\ \A k \in Fonts : \A g \in Glyphs : newGlyphs[k][g] = None
        /\ unsaved = {}
    BY <2>1 DEF TypeInv
  <2> QED  BY <2>1, <2>2 DEF MarkedInv, TasksMarked, NewMarked
<1>5. ASSUME NEW g \in Glyphs, Read(g) PROVE MarkedInv'
  BY <1>5, ReadMarked
<1>6. ASSUME NEW g \in Glyphs, ReadFails(g) \/ ReceiveFails(g) PROVE MarkedInv'
  BY <1>2, <1>6 DEF ReadFails, ReceiveFails
<1>7. ASSUME NEW g \in Glyphs, ReceiveGlyphs(g) \/ ReceiveNothing(g) PROVE MarkedInv'
  BY <1>7, ReceiveMarked DEF ReceiveGlyphs, ReceiveNothing
<1>8. ASSUME NEW g \in Glyphs, SaveGlyph(g) PROVE MarkedInv'
  BY <1>8, SaveGlyphMarked
<1>9. ASSUME NEW f \in Fonts, SaveLayers(f) PROVE MarkedInv'
  BY <1>1, <1>9 DEF SaveLayers, pool
<1>10. CASE HintEnds
  <2>1. CASE hintedAny
    BY <1>10, <2>1, SameMarked DEF HintEnds, pool, disk
  <2>2. CASE ~ hintedAny
    BY <1>2, <1>10, <2>2 DEF HintEnds
  <2> QED  BY <2>1, <2>2
<1>11. CASE SaveContents
  BY <1>1, <1>11 DEF SaveContents, pool, save
<1>12. CASE SaveMap
  <2>1. CASE Rest(saving) = {}
    BY <1>2, <1>12, <2>1 DEF SaveMap
  <2>2. CASE Rest(saving) # {}
    BY <1>12, <2>2, SameMarked DEF SaveMap, pool
  <2> QED  BY <2>1, <2>2
<1>13. CASE Kill
  BY <1>2, <1>13 DEF Kill
<1>14. CASE UNCHANGED vars
  BY <1>1, <1>14 DEF vars, disk, pool, save
<1> QED  BY <1>3, <1>4, <1>5, <1>6, <1>7, <1>8, <1>9, <1>10, <1>11, <1>12, <1>13,
            <1>14 DEF Next, Run

\* Only the writing of its hash map takes a font from those to save, unless the
\* program is killed.
LEMMA OnlySaveMap ==
    ASSUME MarkedInv, [Next]_vars, NEW f \in Fonts, f \in unsaved, f \notin unsaved',
           ended' # "killed"
    PROVE  SaveMap
<1>1. pc # "hinting"
  BY DEF MarkedInv
<1>2. \A k \in Fonts : Others(k) => unsaved' = unsaved
  BY DEF Others, save
<1>3. \A names \in SUBSET Glyphs, a \in BOOLEAN, d \in BOOLEAN :
          Start(names, a, d) => unsaved' = unsaved
  BY DEF Start, save
<1>4. \A g \in Glyphs : ~ Read(g) /\ ~ ReadFails(g) /\ ~ ReceiveGlyphs(g)
                           /\ ~ ReceiveNothing(g) /\ ~ ReceiveFails(g)
  BY <1>1 DEF Read, ReadFails, ReceiveGlyphs, ReceiveNothing, Receive, ReceiveFails
<1>5. \A g \in Glyphs : SaveGlyph(g) => unsaved' = unsaved
  BY DEF SaveGlyph
<1>6. \A k \in Fonts : SaveLayers(k) => unsaved' = unsaved
  BY DEF SaveLayers
<1>7. ~ HintEnds /\ (SaveContents => unsaved' = unsaved)
  BY <1>1 DEF HintEnds, SaveContents, save
<1>8. ~ Kill
  BY DEF Kill, Idle
<1>9. UNCHANGED vars => unsaved' = unsaved
  BY DEF vars, save
<1> QED  BY <1>2, <1>3, <1>4, <1>5, <1>6, <1>7, <1>8, <1>9 DEF Next, Run

\* The map of the saved font is honest about what is on disk and marks what was
\* saved, and it is written because it changed.
LEMMA SaveMapRemembers ==
    ASSUME IInv, MarkedInv, SaveMap, NEW f \in Fonts, f \in unsaved, f \notin unsaved',
           NEW g \in Glyphs, newGlyphs[f][g] # None
    PROVE  UpToDate(f, g)' /\ Hinted(f, g)'
<1>1. /\ pc = "map" /\ entries' = Remembered(saving)
      /\ default' = default /\ processed' = processed /\ listed' = listed
  BY DEF SaveMap
<1>2. f = saving
  <2>1. CASE Rest(saving) = {}
    BY <2>1 DEF Rest
  <2>2. CASE Rest(saving) # {}
    BY <2>2 DEF SaveMap, Rest
  <2> QED  BY <2>1, <2>2
<1>3. Marked(hashMap[f][g], default[f][g]) /\ hashMapChanged[f]
  BY DEF MarkedInv, NewMarked
<1>4. entries'[f] = hashMap[f]
  <2>1. entries \in [Fonts -> HashMap]
    BY DEF IInv, TypeInv, TypeOK, DiskTypeOK
  <2> QED  BY <1>1, <1>2, <1>3, <2>1 DEF Remembered
<1>5. UpToDate(f, g)'
  BY <1>1, <1>3, <1>4 DEF UpToDate, Matches, Marked
<1>6. default[f][g] # None
  BY DEF IInv, TypeInv
<1>7. Honest(hashMap[f][g], default[f][g], Trusted(f, g))
  BY <1>1, <1>2, <1>6 DEF IInv, TruthInv, MapHonest
<1>8. Hinted(f, g)
  BY <1>3, <1>7 DEF Honest, Marked, InHistory, Hinted, Seen, Trusted
<1>9. Hinted(f, g)'
  BY <1>1, <1>8, SameSeen DEF Trusted
<1> QED  BY <1>5, <1>9

\* When a font is saved, every glyph its workers hinted is on disk with its hints,
\* and its entry makes the next run skip it, in any family of fonts and whatever
\* the order of the answers, outside the uses that AllUses names.
THEOREM SavedRemembered ==
    ASSUME Uses = {}
    PROVE  Spec => SavedIsRemembered
<1>1. Init => IInv /\ MarkedInv
  BY InitTyped, InitTruth, InitMarked DEF IInv
<1>2. IInv /\ MarkedInv /\ [Next]_vars => IInv' /\ MarkedInv'
  BY NextTyped, NextTruth, NextMarked DEF IInv
<1>3. IInv /\ MarkedInv /\ [Next]_vars =>
          [\A f \in Fonts : \A g \in Glyphs :
              f \in unsaved /\ f \notin unsaved' /\ ended' # "killed"
                    /\ newGlyphs[f][g] # None
                 => UpToDate(f, g)' /\ Hinted(f, g)']_vars
  BY OnlySaveMap, SaveMapRemembers
<1> QED  BY <1>1, <1>2, <1>3, PTL DEF Spec, SavedIsRemembered

-----------------------------------------------------------------------------
(* With one font, a run makes no glyph need hinting again. *)

\* The run leaves a glyph alone: the entry in memory has the hash of the source and names
\* otfautohint, no worker has the glyph, and nothing is to be written for it any more.
LeftAlone(f, g) ==
    /\ Marked(hashMap[f][g], default[f][g])
    /\ g \notin tasks
    /\ newGlyphs[f][g] # None => pc \in {"glyphs", "map"} /\ g \notin unwritten

\* What the entries on disk call hinted, be it that a glyph just written is drawn as its old entry says.
KeptInv ==
    pc # "idle" /\ ~ all =>
        \A f \in Fonts : \A g \in Present(f) : UpToDate(f, g) => LeftAlone(f, g)

\* An entry that is up to date has the hash of the source and names otfautohint.
LEMMA UpToDateIsMarked ==
    \A f, g : UpToDate(f, g) <=> Marked(entries[f][g], default[f][g])
BY DEF UpToDate, Matches, Marked

\* A step that changes no entry and no outline, and gives workers nothing, keeps the invariant.
LEMMA SameKept ==
    ASSUME KeptInv, pc # "idle", UNCHANGED <<default, entries, hashMap, newGlyphs, all>>,
           tasks' \subseteq tasks,
           pc \in {"glyphs", "map"} => pc' \in {"glyphs", "map"} /\ unwritten' = unwritten
    PROVE  KeptInv'
<1> SUFFICES ASSUME ~ all, NEW f \in Fonts, NEW g \in Present(f), UpToDate(f, g)
             PROVE  LeftAlone(f, g)'
  BY DEF KeptInv, Present, UpToDate, Matches
<1>1. LeftAlone(f, g)
  BY DEF KeptInv
<1> QED  BY <1>1 DEF LeftAlone

\* A run begins with the entries that are on disk.
LEMMA StartKept ==
    ASSUME TypeInv, NEW names, NEW a, NEW d, Start(names, a, d)
    PROVE  KeptInv'
<1>1. /\ pc = "idle" /\ hashMap' = entries
      /\ UNCHANGED <<default, entries, tasks, newGlyphs>>
  BY DEF Start, disk
<1>2. tasks = {} /\ \A f \in Fonts : \A g \in Glyphs : newGlyphs[f][g] = None
  BY <1>1 DEF TypeInv
<1> SUFFICES ASSUME NEW f \in Fonts, NEW g \in Present(f)', UpToDate(f, g)'
             PROVE  LeftAlone(f, g)'
  BY DEF KeptInv
<1>3. g \in Glyphs
  BY DEF Present
<1>4. Marked(hashMap'[f][g], default'[f][g])
  BY <1>1 DEF UpToDate, Matches, Marked
<1> QED  BY <1>1, <1>2, <1>3, <1>4 DEF LeftAlone

\* checkSkipGlyph skips a glyph whose entry is up to date, and no other font asks for it.
LEMMA ReadKept ==
    ASSUME Fonts = {Reference}, TypeInv, KeptInv, NEW n \in Glyphs, Read(n)
    PROVE  KeptInv'
<1> DEFINE have == {f \in Fonts : n \in Present(f)}
           sent == {f \in have : ~ Skip(hashMap[f][n], default[f][n].of)}
           left(f) == Checked(hashMap[f][n], default[f][n].of)
<1>1. /\ pc = "hinting" /\ UNCHANGED <<default, entries, pc, all, newGlyphs>>
      /\ hashMap' = [f \in Fonts |-> [g \in Glyphs |->
            IF g = n /\ f \in have THEN left(f) ELSE hashMap[f][g]]]
      /\ tasks' = IF sent = {} THEN tasks ELSE tasks \union {n}
  BY DEF Read, disk, options
<1> SUFFICES ASSUME ~ all, NEW f \in Fonts, NEW g \in Present(f), UpToDate(f, g)
             PROVE  LeftAlone(f, g)'
  BY <1>1 DEF KeptInv, Present, UpToDate, Matches
<1>2. g \in Glyphs /\ f \in Fonts /\ default[f][g] # None
  BY DEF Present
<1>3. /\ Marked(hashMap[f][g], default[f][g])
      /\ g \notin tasks /\ newGlyphs[f][g] = None
  BY <1>1 DEF KeptInv, LeftAlone
<1>4. CASE g = n
  <2>1. f \in have /\ Skip(hashMap[f][g], default[f][g].of)
    BY <1>2, <1>3, <1>4 DEF Skip, Marked
  <2>2. sent = {}
    BY <2>1, <1>4
  <2>3. hashMap'[f][g] = left(f)
    BY <2>1, <1>1, <1>2, <1>4
  <2>4. default[f][g] \in File /\ hashMap[f][g] \in Entry \union {None}
    BY <1>2, DiskCells, MemoryCells DEF TypeInv, TypeOK, Present
  <2>5. default[f][g].of \in Outlines
    BY <2>4, FileFields
  <2>6. Marked(left(f), default[f][g])
    BY <2>4, <2>5, <1>4, CheckedEntry DEF Marked, Same, InHistory
  <2> QED  BY <2>2, <2>3, <2>6, <1>1, <1>3 DEF LeftAlone
<1>5. CASE g # n
  <2>1. hashMap'[f][g] = hashMap[f][g]
    BY <1>1, <1>2, <1>5
  <2> QED  BY <2>1, <1>1, <1>3, <1>5 DEF LeftAlone
<1> QED  BY <1>4, <1>5

\* An answer is about a glyph that was given to a worker.
LEMMA ReceiveKept ==
    ASSUME TypeInv, KeptInv, NEW n \in Glyphs, NEW back \in SUBSET given[n], NEW hints,
           Receive(n, back, hints)
    PROVE  KeptInv'
<1>1. /\ pc = "hinting" /\ n \in tasks /\ tasks' = tasks \ {n}
      /\ UNCHANGED <<default, entries, pc, all>>
      /\ hashMap' = [f \in Fonts |-> [g \in Glyphs |->
            IF g = n THEN Stored(hashMap[f][n], f \in back) ELSE hashMap[f][g]]]
  BY DEF Receive, disk, options
<1>2. PICK o : newGlyphs' = [f \in Fonts |-> [g \in Glyphs |->
                  IF g = n /\ f \in back
                  THEN [of |-> o[f], hints |-> o[f]] ELSE newGlyphs[f][g]]]
  BY DEF Receive
<1> SUFFICES ASSUME ~ all, NEW f \in Fonts, NEW g \in Present(f), UpToDate(f, g)
             PROVE  LeftAlone(f, g)'
  BY <1>1 DEF KeptInv, Present, UpToDate, Matches
<1>3. g \in Glyphs
  BY DEF Present
<1>4. LeftAlone(f, g)
  BY <1>1 DEF KeptInv
<1>5. g # n
  BY <1>1, <1>4 DEF LeftAlone
<1>6. hashMap'[f][g] = hashMap[f][g] /\ newGlyphs'[f][g] = newGlyphs[f][g]
  BY <1>1, <1>2, <1>3, <1>5
<1> QED  BY <1>1, <1>4, <1>6 DEF LeftAlone

\* A glyph is written only if the run hinted it, and recalcHashEntry keeps its entry marked.
LEMMA SaveGlyphKept ==
    ASSUME TypeInv, MarkedInv, KeptInv, NEW n \in Glyphs, SaveGlyph(n), Fonts = {Reference}
    PROVE  KeptInv' /\ (~ all => \A f \in Fonts : \A g \in Present(f) :
                                    UpToDate(f, g) => UpToDate(f, g)')
<1>1. /\ pc = "glyphs" /\ n \in unwritten /\ unwritten' = unwritten \ {n}
      /\ UNCHANGED <<entries, pc, all, tasks, newGlyphs>>
  BY DEF SaveGlyph, options, pool
<1>2. newGlyphs[saving][n] # None /\ saving \in Fonts /\ tasks = {}
  BY <1>1 DEF TypeInv, TypeOK
<1>3. \A f \in Fonts : f = saving
  BY <1>2
<1>4. \A f \in Fonts : \A g \in Glyphs : g # n =>
          default'[f][g] = default[f][g] /\ hashMap'[f][g] = hashMap[f][g]
  BY SaveGlyphCells
<1>5. ASSUME ~ all, NEW f \in Fonts, NEW g \in Present(f), UpToDate(f, g)
      PROVE  UpToDate(f, g)'
  <2>1. g # n
    BY <1>1, <1>2, <1>3, <1>5 DEF KeptInv, LeftAlone
  <2>2. g \in Glyphs
    BY DEF Present
  <2> QED  BY <1>1, <1>4, <1>5, <2>1, <2>2 DEF UpToDate, Matches
<1>6. KeptInv'
  <2> SUFFICES ASSUME ~ all, NEW f \in Fonts, NEW g \in Present(f)', UpToDate(f, g)'
               PROVE  LeftAlone(f, g)'
    BY <1>1 DEF KeptInv
  <2>1. g \in Glyphs /\ default'[f][g] # None
    BY DEF Present
  <2>2. CASE g = n
    <3>1. MarkedInv'
      BY SaveGlyphMarked
    <3>2. Marked(hashMap'[f][g], default'[f][g])
      BY <3>1, <2>2, <1>1, <1>2, <1>3 DEF MarkedInv, NewMarked
    <3> QED  BY <3>2, <2>2, <1>1, <1>2 DEF LeftAlone
  <2>3. CASE g # n
    <3>1. default'[f][g] = default[f][g] /\ hashMap'[f][g] = hashMap[f][g]
      BY <2>1, <2>3, <1>4
    <3>2. g \in Present(f) /\ UpToDate(f, g)
      BY <3>1, <2>1, <1>1 DEF Present, UpToDate, Matches
    <3>3. LeftAlone(f, g)
      BY <3>2, <1>1 DEF KeptInv
    <3> QED  BY <3>1, <3>3, <1>1 DEF LeftAlone
  <2> QED  BY <2>2, <2>3
<1> QED  BY <1>5, <1>6

\* The map that is written calls hinted what the one on disk did, and the run is over.
LEMMA SaveMapKept ==
    ASSUME Fonts = {Reference}, TypeInv, KeptInv, SaveMap
    PROVE  KeptInv' /\ (~ all => \A f \in Fonts : \A g \in Present(f) :
                                    UpToDate(f, g) => UpToDate(f, g)')
<1>1. pc = "map" /\ default' = default
  BY DEF SaveMap
<1>2. Rest(saving) = {}
  BY DEF TypeInv, TypeOK, Rest
<1>3. pc' = "idle"
  BY <1>2 DEF SaveMap, Idle
<1>4. ASSUME ~ all, NEW f \in Fonts, NEW g \in Present(f), UpToDate(f, g)
      PROVE  UpToDate(f, g)'
  <2>1. Marked(hashMap[f][g], default[f][g])
    BY <1>1, <1>4 DEF KeptInv, LeftAlone
  <2>2. entries'[f] \in {entries[f], hashMap[f]}
    BY SaveMapCells
  <2> QED  BY <1>1, <1>4, <2>1, <2>2 DEF UpToDate, Matches, Marked
<1> QED  BY <1>3, <1>4 DEF KeptInv

\* Every step keeps the invariant, and every step of a run keeps what is up to date.
LEMMA NextKept ==
    ASSUME Fonts = {Reference}, TypeInv, MarkedInv, KeptInv, [Next]_vars
    PROVE  /\ KeptInv'
           /\ \A f \in Fonts : \A g \in Present(f) :
                 pc # "idle" /\ ~ all /\ UpToDate(f, g) => UpToDate(f, g)'
<1> DEFINE Stays == pc # "idle" /\ ~ all =>
                        \A f \in Fonts : \A g \in Present(f) : UpToDate(f, g) => UpToDate(f, g)'
<1>1. ASSUME UNCHANGED <<default, entries>> PROVE Stays
  BY <1>1 DEF UpToDate, Matches
<1>2. ASSUME NEW how, Idle(how), UNCHANGED disk PROVE KeptInv' /\ Stays
  BY <1>1, <1>2 DEF Idle, KeptInv, disk
<1>3. ASSUME NEW f \in Fonts, Others(f) PROVE KeptInv' /\ Stays
  BY <1>3 DEF Others, KeptInv
<1>4. ASSUME NEW names \in SUBSET Glyphs, NEW a \in BOOLEAN, NEW d \in BOOLEAN,
             Start(names, a, d)
      PROVE  KeptInv' /\ Stays
  <2>1. pc = "idle"
    BY <1>4 DEF Start
  <2> QED  BY <1>4, <2>1, StartKept
<1>5. ASSUME NEW g \in Glyphs, Read(g) PROVE KeptInv' /\ Stays
  BY <1>1, <1>5, ReadKept DEF Read, disk
<1>6. ASSUME NEW g \in Glyphs, ReadFails(g) \/ ReceiveFails(g) PROVE KeptInv' /\ Stays
  BY <1>2, <1>6 DEF ReadFails, ReceiveFails
<1>7. ASSUME NEW g \in Glyphs, ReceiveGlyphs(g) \/ ReceiveNothing(g) PROVE KeptInv' /\ Stays
  <2>1. PICK back \in SUBSET given[g], hints \in BOOLEAN : Receive(g, back, hints)
    BY <1>7 DEF ReceiveGlyphs, ReceiveNothing
  <2>2. UNCHANGED <<default, entries>>
    BY <2>1 DEF Receive, disk
  <2> QED  BY <2>1, <2>2, <1>1, ReceiveKept
<1>8. ASSUME NEW g \in Glyphs, SaveGlyph(g) PROVE KeptInv' /\ Stays
  BY <1>8, SaveGlyphKept
<1>9. ASSUME NEW f \in Fonts, SaveLayers(f) PROVE KeptInv' /\ Stays
  <2>1. /\ pc = "layers"
        /\ UNCHANGED <<default, entries, hashMap, newGlyphs, all, tasks>>
    BY <1>9 DEF SaveLayers, options, pool, memory
  <2> QED  BY <2>1, <1>1, SameKept
<1>10. CASE HintEnds
  <2>1. CASE hintedAny
    <3>1. /\ pc = "hinting"
          /\ UNCHANGED <<default, entries, hashMap, newGlyphs, all, tasks>>
      BY <1>10, <2>1 DEF HintEnds, options, pool, memory, disk
    <3> QED  BY <3>1, <1>1, SameKept
  <2>2. CASE ~ hintedAny
    BY <1>2, <1>10, <2>2 DEF HintEnds
  <2> QED  BY <2>1, <2>2
<1>11. CASE SaveContents
  <2>1. /\ pc = "glyphs" /\ pc' = "map"
        /\ UNCHANGED <<default, entries, hashMap, newGlyphs, all, tasks, unwritten>>
    BY <1>11 DEF SaveContents, options, pool, memory, save
  <2> QED  BY <2>1, <1>1, SameKept
<1>12. CASE SaveMap
  BY <1>12, SaveMapKept
<1>13. CASE Kill
  BY <1>2, <1>13 DEF Kill
<1>14. CASE UNCHANGED vars
  <2>1. UNCHANGED <<default, entries, hashMap, newGlyphs, all, tasks, unwritten, pc>>
    BY <1>14 DEF vars, disk, options, pool, memory, save
  <2>2. CASE pc = "idle"
    BY <2>1, <2>2 DEF KeptInv
  <2>3. CASE pc # "idle"
    BY <2>1, <2>3, <1>1, SameKept
  <2> QED  BY <2>2, <2>3
<1>15. KeptInv' /\ Stays
  BY <1>3, <1>4, <1>5, <1>6, <1>7, <1>8, <1>9, <1>10, <1>11, <1>12, <1>13, <1>14 DEF Next, Run
<1> QED  BY <1>15

\* With one font, whatever the programs are used for, no step of a run that was not told to hint everything
\* makes a glyph need hinting that did not: checkSkipGlyph lets it alone, and the map that is written says so.
THEOREM UpToDateStaysCorrect ==
    ASSUME Fonts = {Reference}
    PROVE  Spec => UpToDateStays
<1>1. Init => TypeInv /\ MarkedInv /\ KeptInv
  BY InitTyped, InitMarked DEF Init, KeptInv
<1>2. TypeInv /\ MarkedInv /\ KeptInv /\ [Next]_vars => TypeInv' /\ MarkedInv' /\ KeptInv'
  BY NextTyped, NextMarked, NextKept
<1>3. TypeInv /\ MarkedInv /\ KeptInv /\ [Next]_vars =>
          [\A f \in Fonts : \A g \in Present(f) :
              pc # "idle" /\ ~ all /\ UpToDate(f, g) => UpToDate(f, g)']_vars
  BY NextKept
<1> QED  BY <1>1, <1>2, <1>3, PTL DEF Spec, UpToDateStays

=============================================================================
