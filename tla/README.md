# A TLA+ model of the AFDKO

This directory holds specifications of the Adobe Font Development Kit for OpenType, checked with
TLC and proved with TLAPS. It says what the system consists of, what of it is modelled, what the
checks show, what is proved, and what is left. Paths are relative to the root of the repository.

## 1. The system

The AFDKO is a set of command-line tools over a set of C/C++ libraries, and Python tools around
them. Almost all of it is sequential. What makes it hard is state that is shared between the handlers
of many small calls (statements of a feature file, callbacks of a library), long protocols of such
calls, limits (16-bit labels and offsets), errors that are reported and survived, and, in the
autohinter, a pool of worker processes.

| Component | State | Operations | Hard part | What makes it correct |
|---|---|---|---|---|
| Feature compiler, `c/makeotf/lib/hotconv/FeatCtx.cpp` | flags, current and previous rule state, defaults, lookups to register, label counters, language systems | one handler per statement, called by `FeatVisitor.cpp` | a lookup is only ended when the next one begins; "same as before" comparisons with stale state; a loop whose body appends to its vector | every rule in one lookup of its own kind; every lookup registered where the statements say; labels resolve |
| GSUB and GPOS, `GSUB.c`, `GPOS.c` | lookup being accumulated, list of subtables | FeatureBegin, LookupBegin, RuleAdd, LookupEnd, fill, write | they trust the order of the calls of FeatCtx | no rule lost or repeated; no empty lookup |
| Layout tables, `otl.c` | one array of subtables, label list, script/feature/lookup lists | otlSubtableAdd, otlTableFill, otlLabel2LookupIndex, otlTableWrite | labels become indexes through four sorts of one array and counts of what is sorted last; 16-bit offsets | under each script, language and feature exactly what was registered; lookups in file order |
| Other tables, `hotconv/*.c` | one record per table | New, Fill, Write, Reuse, Free | fill order between tables | values agree between tables |
| hot library, `hot.c`, `sfnt.c` | font record, table contexts | hotNew, hotReadFont, hotConvert, ... | order of calls | no table read before it is filled |
| makeotf, `c/makeotf/source` | options, files, menu-name database | callbacks | files and strings | |
| typecomp, cffread, pstoken | Type 1 and CFF conversion | | charstring recoding | |
| sfnt writer, `c/shared/source/sfntwrite` | call state, table list, directory | register, new, fill, write, reuse | legal call orders, client aborts, offsets, checksums | directory describes the bytes written |
| dynamic arrays, `c/shared/source/dynarr` | array, cnt, size, incr | grow, set, next, extend, free | rounding, failed allocation | cnt <= size; contents kept |
| readers and writers, `c/shared/source/*` | format dependent | begin/end glyph callbacks | protocol of callbacks | |
| charstrings, `t1cstr`, `t2cstr` | operand stack, hints | operators | stack limits | |
| tools, `c/tx`, `c/spot`, `c/sfntedit`, ... | | | files replaced in place | |
| otfautohint, `python/afdko/otfautohint` | font objects, hash map of hinted glyphs | read, hint in a pool of processes, update, save | results out of order, failures and kills between two writes, edits between two runs | the hash map tells the truth about the glyphs on disk; no hints are lost |
| checkoutlinesufo, `python/afdko/checkoutlinesufo.py`, `ufotools.py` | the same hash map, processed layer | check, correct, write | the two programs change each other's entries | the same |
| Python tools, `python/afdko/*.py` | | | | |

`FeatParser.cpp` and `FeatLexer.cpp` are generated by ANTLR. The Unicode, glyph-list and
test data are left aside.

Interactions: makeotf reads a font through callbacks into the hot library; the hot library runs
the feature compiler, which calls GSUB and GPOS statement by statement; these hand subtables to
otl, which assembles and writes the table; the sfnt writer of hotconv puts the tables
together. tx, mergefonts and the others connect one reader library with one writer library through
the glyph callbacks of absfont. All of them allocate through dynarr.

otfautohint and checkoutlinesufo work on UFO fonts, directories of one file per glyph. Each of them keeps
what it made of a glyph in the processed layer, and in the hash map (`com.adobe.type.processedHashMap`) what the
outline was it made that from and which programs have been over it. The programs, the user's editor, and makeotf
(through `uforead` and its own check of the hash map) meet only on disk: that is the one place in the AFDKO where state outlives
a process.

The hazards this code is exposed to, each at its line and with the properties that watch it, are in
`PROJECT.json`.

## 2. The modules

`LayoutTables` holds labels (`feat.h`) and what `GSUB.c` and `GPOS.c` record. A rule is a number: the
glyphs of a rule and the format of its subtable are left out.

`FeatCtx` is the feature compiler. Its variables are those of `FeatCtx.h` with their names, the state of
the two tables (`layout`), and three that stand for the parser and the C++ stack: `nest` (which block the
next statement is in), `pc` (whether a handler with a loop is running) and the loop
positions. One action is one statement, from the visitor's call to its return, with everything it
calls: `RuleStmt` is `addGSUB`/`addGPOS` with `prepRule`, `closeFeatScriptLang`, the end of the
lookup before, the begin of the next and the rule itself. Two handlers loop, `includeDFLT` and
`registerFeatureLangSys`. They are one action per iteration, since the properties about the vector
`includeDFLT` iterates over live between iterations. A message of class `hotFATAL` does not return
(`Fatal`); one of class `hotERROR` sets `hadError` and goes on, as in the code.

What a file may contain beside the plain forms is a constant, `Forms`: blocks without rules, script
and language statements in lookup blocks, features opened twice, and naming the current script
or language again. The runs that state what holds leave out the forms under which the code does not
keep it: `again` and `empty_feature` are about two of these (section 4), the others (`"emptyBlock"`, `"blockLang"`, `"reopen"`)
have no run beside `forms`, which covers all of them, as does a proof whose theorem names none.

`FeatLangSys` is the abstract specification: what the feature-file specification promises of
language systems, and nothing of how. A block has a script, a language, the lookups before its
first script or language statement (`top`), the defaults of the current script and what was
registered explicitly; its end registers `top` under every language system that was not excluded.

`FeatRegistration` adds history variables to `FeatCtx` (what the statements said of the flag, the block, each
rule), states the properties that need them, and maps `FeatCtx` to `FeatLangSys`:
`langsys` is the domain of `langSysMap`, `reg` the script, language, feature and base label of every
subtable of finished feature blocks, `blk` the history of the block. A lookup block outside of features registers nothing.

`MCFeatCtx` gives the constants small values. The proofs are in five modules, each extending the one before: `FeatCtxProofs` (types, exclusions, the
defaults that are included), `FeatLabelProofs` (labels, names, lookups have rules), `FeatRefProofs` (definitions and references in a table),
`FeatRegistrationProofs` (rules are conserved) and `FeatLangSysProofs` (the defaults, the refinement, lookups are not mixed).

`OtlTable` is `otl.c` from the first `otlSubtableAdd` to the end of GSUBFill or GPOSFill. `subtable`, `label` and
`tbl` are the fields of the table context; a subtable keeps the fields the assembly reads, and an offset
is only the identity of a subtable. Adding a subtable is one action for each kind of subtable that GSUB and GPOS add; `otlTableFill` is one action
(`Fill`, which gives up where it reports a fatal error), written as the composition of its passes: each sort is a comparison key
(`LookupOrder`, `ScopeOrder`, `FeatureOrder`, `ScriptOrder`) and a choice among all the orders that qsort may leave (`Orders`), each span an interval of
the sorted array. Chaining rules then ask for the indexes of the labels they call (`SetAnonLookupIndices`), and
`CheckStandAloneTablRefs` reports lookups nobody calls. What the actions that add assume of their caller is what the
run `lookups` shows of `FeatCtx`: a reference resolves in its table (`RefsResolve`, or dangles, the form "dangling"), and a label is one
contiguous run (`LabelsContiguous`). `createAnonLookups` puts anonymous lookups last. `MCOtlTable` is the instance;
the proofs are in `OtlTableProofs`.

`SfntWrite` is the sfnt writing library on its own: the client is any sequence of calls that the call state
admits, its callbacks any lengths, answers and aborts. `library` holds the fields of `sfwCtx_` with
their names; the locals of the running call are variables too, since every callback and every
access to the stream is a point where the call may end: each of the three loops (fill, write, sum) is
one action per table. `out` is what the stream would hold, with the tags of the tables whose checksum the client supplied in this write (`out.own`),
and `wanted` what the fill callbacks last said; the program has neither. A `write_table` callback answers anew every time it is called. The stream after a failure is `Nothing`: no property speaks of a font whose call
reported an error. `MCSfntWrite` is its instance; the proofs are in `SfntWriteProofs`. `Forms` again names what is beside the plain use:
registering after `sfwNewTables` was aborted ("late"), filling again before what was filled has been written ("refill"), and
supplying no checksum for a table for which one was supplied in a write that failed ("withdrawn").

`UfoFont` is a UFO font on disk: for each glyph what the default layer holds (`File`: an outline and whether it carries hints),
what the processed layer holds, whether its `contents.plist` names that, and the entry of the hash map. An outline is a value; the hash of an outline is
the outline itself, which is what a hash without collisions is. The module also holds what checkoutlinesufo makes of such a font
(`CheckOnly`, and with `-e` `CheckAndFix` into the processed layer and `CheckAndFixDefault` into the default one; `CheckKilled`), what makeotf reads of it (`Seen`) and what its check
of the hash map accepts (`Valid`).

`Autohint` is a run of otfautohint over a family of such fonts: `disk`, and for each font the memory of its `UFOFontData`
(`hashMap` and the glyphs to be written), the glyph the feeding thread is at, the glyphs in the pool, and the results
received. `Read` is `glyphiter.__next__` with `_get_or_skip_glyph` and `checkSkipGlyph` for each font of the family, `Receive...` the loop over the pool's results,
which come in any order, and saving is one action per file written: `SaveLayers`, `SaveGlyph`, `SaveContents`, `SaveMap`, font after font.
Between runs the user edits glyphs (`Edit`) and checkoutlinesufo runs (`RunCheckOutlines`); `Kill` ends a run at any point, after
which the memory is gone and the disk is what it is. What the programs are used for is a constant, `Uses`: a name of it admits
one further way of use that the documentation does not exclude. Each of them breaks one of the properties (section 4), so
the runs that state what holds have none; the type invariant is proved with all of them. `AutohintProofs` holds the proofs, `MCAutohint` the instance.

Definitions named `X_Something` (in the modules about UFO fonts, `XSomething`) are deliberately wrong variants of `X`, each the kind of
slip the property named beside it in `PROJECT.json` ("mutants") is there to find.

## 3. What the runs check

| Run | Bounds | Shows |
|---|---|---|
| `registration` | 2 scripts, 3 languages, 1 feature, 1 named lookup, 8 statements | rules are conserved (`RulesConserved`) and not mixed (`NoMixedLookup`), the list `includeDFLT` iterates over is stable (`IncludeListStable`), defaults are complete (`DefaultsComplete`), exclusions end with their feature (`ExclusionsReset`), and `FeatCtx` implements `FeatLangSys` (`ImplementsLangSys`) |
| `lookups` | 1 language system, 2 features, 2 named lookups, both tables, 2 flags, 7 statements | references resolve in their table (`RefsResolve`), a label is one contiguous lookup (`LabelsContiguous`) of one type and flag in one table (`LookupUniform`), names find their lookup (`NamedRefersToItself`), no lookup is empty (`NoEmptyLookup`) |
| `forms` | every form, errors included, 2 features with aalt, 2 anonymous labels, 5 statements | types, labels handed out before they are used (`LabelsIssued`), and the loops of handlers end (`HandlersReturn`) |
| `sfnt_write` | 3 tables, one of them `head`, any of which gets a checksum from the client or not, lengths 0, 4 and 7, origins 0 and 8, calls without bound | the header of a font that was written describes it (`HeaderDescribes`), with the right checksums (`SumsRight`) and head adjustment (`HeadAdjusted`), tables do not overlap (`TablesApart`), the font has the tables last asked for (`WritesWanted`), every table registered takes part (`EveryTableFilled`), and calls end (`CallsReturn`) |
| `otl_table` | 4 subtables of any kind under 4 registrations (2 scripts, 2 languages, 2 features, `aalt` being one), stand-alone, anonymous, parameters, references, dangling ones | each script, language and feature gets exactly the lookups registered under it (`AppliesRegistered`), lookups are in file order (`InFileOrder`), feature parameters are found (`ParamsFound`), a chaining rule calls the lookup whose label it has (`ChainRulesCall`), unused lookups are reported and no others (`UnusedReported`) |
| `hint_font` | 1 font, 2 glyphs (one of which nobody edits), 2 outlines; any number of edits, outline checks and runs, killed or failing anywhere | an entry that names otfautohint stands for hints on disk (`EntriesTruthful`), what makeotf takes from the processed layer was made from the current outline (`ProcessedFresh`), a run never leaves a hinted glyph without hints (`HintsSurvive`), what a run saved the next one skips (`SavedIsRemembered`), and a glyph it skips stays as it is (`UpToDateStays`) |
| `hint_family` | 2 fonts hinted together, 1 glyph, which the second font may lack | the first, third and fourth of these for a family, and every run ends (`RunEnds`) |

Why these bounds: a script, a language and a default need a rule, a script statement, a language
statement and a rule, each of which may come twice, before the end of a feature: 8 statements reach every
pair of such steps; three languages give one that is excluded, one that is not
and the default. A wrong merge or a lost reference needs at most two blocks with two statements each
and a third that refers to one of them: 7 statements. The label range of `forms` has two anonymous
labels, so that running out of them happens. The constraints `NoError` and `DefaultFirst` stop at the
first reported error (no font is produced then, `hotQuitOnError`) and at
files whose first language system in tag order has a language other than `dflt` (see "met while reading" in section 4). The tag `dflt` stands for
four spaces and sorts before all others.

Four subtables are a stand-alone lookup, an anonymous one, a reference and one more, or two features that share a lookup with
one more before and behind: every pair of counters that ends a span differs in some state. `otl_table` has no more anonymous than stand-alone
subtables if there are any of the latter, because of the finding `otl_uninit`.

In `hint_font` the second glyph is settled (`SettledIsDrawn`: it has a drawn outline to begin with and is never edited): it is there so that a run has a
glyph to save while it forgets another, and so that results and saves interleave; all that happens to one glyph happens to the
first. Two outlines tell an edited glyph from one that was edited back. In a family the fonts differ in what they lack, so two are enough.
The number of edits, runs and kills is not bounded: the state spaces are finite.

Three tables suffice for a table that is not written, or not read, between two that are, and fill, write and
tag orders are three different ones. The lengths are empty, aligned and padded. The number of
calls is not bounded: the state space is finite.

Fairness: `CallsReturn` assumes weak fairness of the steps of a running call that get on with it (`Running`),
not of those that abort or fail (`Failing`), and nothing of the client. A client that calls nothing more is a stutter, and after the undefined jump (`RaiseUnhandled`) the model stays where it is (`Raised`).

`RunEnds` assumes weak fairness of the steps of a run that get on with it (`Run`): threads run, workers answer, saving goes
on. Starting, editing, failing (`ReceiveNothing`) and kills are not assumed and not excluded.

`HandlersReturn` assumes that a handler that runs goes on (weak fairness of the steps
with `pc` in `include` or `register`): the program is sequential and nothing else can run. Reading
further statements is not assumed. Deadlock is checked: the end of a file and a fatal error are
the only stops (`Finished`).

## 4. What the checks found

Each run below violates one property and shows a disagreement of the code with its documentation.

* `again`: `script` naming the current script after rules (`FeatCtx.cpp:971` returns early)
  does not leave language-system mode: the next rule joins the lookup of the rules before and is
  registered under all language systems, against `docs/OpenTypeFeatureFileSpecification.md:1018`.
* `empty_feature`: a feature without rules after another block ends a lookup that was never begun
  (`curr.tbl` is stale, `FeatCtx.cpp:1173`). `GSUB.c:727` says an empty lookup cannot happen.
* `sfnt_retry`: `USE_CHECKSUM` is set when a `write_table` callback supplies a checksum (`sfntwrite.c:411`) and cleared only by `sfwFillTables`.
  If the write fails and is repeated, and the client supplies none this time, the library does not sum the table either (`sfntwrite.c:510`), and its
  entry keeps what the element of the directory array held, against `sfntwrite.h:122` (the default is that the library calculates).
* `otl_uninit`: `cmpFeatTmp` puts stand-alone subtables behind anonymous ones, against the comment at `otl.c:1575` ("anon subtables are last"),
  and `calcFeatureListIndexes` numbers all but as many at the end as there are anonymous ones. With one stand-alone lookup and two anonymous ones,
  the first pass may number one of the anonymous subtables and the second the other, since qsort is free to leave them in either
  order; then the second pass reads an index nobody set. If it happens to be that of the last feature, the feature applies the anonymous lookup.
  `otl.c:276` says initializing is needed for debug dumps only.
* `hint_stale`: a glyph that was hinted, edited and could not be hinted again keeps its old outline in the processed layer: the
  name is deleted only from the contents in memory (`ufoFont.py:552`), and `removeHashEntry` takes away the entry by which makeotf would notice.

Found by TLC in variants of the runs, without a run of their own:

* `FlagAsSaid` in `FeatRegistration`, with one flag, one named lookup and 5 statements: a lookup block inside a feature inherits its
  lookupflag (`FeatCtx.cpp:1259`), against line 1130 of the specification.
* `refill` in `SfntWrite`: tables are filled, filled again until a callback aborts, and then written, which
  `sfntwrite.c:475` admits as the state is still 3: `numTables` is that of the second attempt
  (`sfntwrite.c:332`), so the header has fewer entries than tables are written, and fewer than the directory,
  whose comment (`sfntwrite.c:35`) says it has `numTables`.
* Without `DefaultFirst`, `DefaultsComplete`: in a file whose first language system (in tag order) is of another language (for example one with only
  `languagesystem DFLT DEU`), rules at the start of a feature carry that language, are kept out of `DFLTLkps` (`FeatCtx.cpp:1844`), and a later language statement does not include them.
* With "undo" in `Uses`: a run is killed after it wrote the glyphs and before it wrote the map; the user then
  undoes the edit, and the old entry matches an outline again (`EntriesTruthful`).
* With "check_some": checkoutlinesufo regenerates the hashes of all glyphs, those not selected and edited included, and so hides
  edits from otfautohint and makeotf (`ProcessedFresh`).
* With "check_killed": `checkoutlinesufo -all` removes processed files at once and writes the map at its end; killed in between, entries claim
  hints that are gone (`EntriesTruthful`).
* With "edit_checked": a glyph edited after checkoutlinesufo is refused by otfautohint (`ufoFont.py:545`), yet its
  entry has been overwritten with the new hash and otfautohint's name (`EntriesTruthful`).
* With "default_later": a run into the processed layer and a later one into the default layer, which removes the processed layer (`HintsSurvive`).

Met while reading, without a run, in otfautohint: a sparse font of a family has no entry for a glyph it lacks, so when such a glyph comes back from its worker,
hinted in the fonts that have it (`autohint.py:346-349` takes the instance that is missing for one that failed) or not at all, `KeyError` is raised
(`ufoFont.py:390`), which `autohint.py` does not catch; when one font of a family is to be skipped for a glyph, its instance counts as not
hinted and its entry is removed, so that runs alternate between hinting it again and not; checkoutlinesufo
without `-e` leaves `contents.plist` naming files it removed, which otfautohint then fails to read; `--clear-hash-map` calls a method that
does not exist; `ufotools`' `useProcessedLayer` is never true.

Met while reading, without a run, in `otl.c`: two parameter lookups of one feature both have the lookup index -1 and
are one span, so "more than one FeatureParameter" (`otl.c:1648`) is not reported for them, only for two subtables of one parameter lookup, the
second of which gets the index of the last lookup.

Met while reading, without a run, in the sfnt writer: `fatal` is called before a handler is set when the
stream cannot be opened (`sfntwrite.c:482`) or the table list cannot be allocated (`sfntwrite.c:271`); a head table for which the client supplies a checksum is
not adjusted, against `sfntwrite.h:182` (`HeadAdjusted` says so); an origin that is not a multiple of 4 misaligns the padding; a table
registered after an aborted `sfwNewTables` is silently left out, and the callbacks the table list points to may have moved; no table to write gives a
`rangeShift` of 65520.

Met while reading, without a run, in the compiler: a change of lookupflag between rules of one type is fatal rather than
the begin of a new lookup; a language statement that is said to have no effect includes the defaults again;
a language statement in a lookup block makes `endLookup` stop with an internal error; reopening a feature
with the same tag loses a default; a positioning rule in `aalt` is lost when no rule follows; the check that DFLT precedes other
scripts does not see a first languagesystem statement of another script.

## 5. What is proved

For every value of the constants that satisfies `LabelAssumption` and `FeatAssumption`, hence for files of any
length and any tags:

* `TypeCorrect` (`FeatCtxProofs`): `Spec => []TypeOK`. The type invariant is not inductive: `prepRule`
  takes the first element of `langSysMap` and `includeDFLT` indexes `DFLTLkps` with a bound
  computed when its loop began. `IInv` adds that language systems seen means a nonempty map
  (`LangSysSeen`), that the defaults are those of the feature and script of the last rule, so that
  `prepRule` does not empty them under the loop (`DefaultsOfScript`), and that a loop in progress has
  positions within the list (`IncludePosition`). One lemma per action; what the table operators
  return is stated once. `FirstOfMember` shows that the order of language systems has a least
  element in every nonempty set.
* `HeaderCorrect` (`SfntWriteProofs`): `Spec => []HeaderDescribes` when `"refill"` is not among `Forms`, and
  `TypeCorrect`, which says among other things that no offset is negative; under `SfntAssumption`, for any number of tables and any lengths.
  The invariant ties the index over the table list to the one over the directory through the number of tables up to an index that are
  written (`Count`, which sorting does not change): `numTables` is that count for the whole list whenever the state is 3
  (`NumTablesRight`), the directory has one entry for each of the tables passed (`WriteInv`), every entry is about the table of the same
  place on the stream (`Matches`), and the summing loop is at the entry of its table (`SumInv`). A sorted directory without duplicate tags
  then is a strictly sorted one with the same entries (`WriteHdrIInv`).
* `SumsCorrect` (`SfntWriteProofs`): `Spec => []SumsRight /\ []HeadAdjusted` when every origin is a multiple of 4 and `"withdrawn"` is not among
  `Forms`, the form under which the run `sfnt_retry` shows it false. What the client answers is otherwise chosen in every call. `LayoutInv` ties the flag of a table, which outlives attempts, to what
  was answered in this one: a table already written in this write has the flag if, and unless checksums are withdrawn only if, its tag is in `out.own` (`InPlace`), and those tags are among the written ones (`OwnWritten`).
  A table is read from where the stream is and sought only if it is not where the last reading ended, so the sum of a table is right because of what was read before it:
  `LayoutInv` says that the tables follow each other on the stream, each behind the padding of the last (`Chained`), and that whenever the stream is at the offset of the next
  entry it is at the beginning of its table (`NextRead`). An origin that is not a multiple of 4 misaligns the padding, which is why the theorem excludes it. `LayoutCorrect`: `Spec => []TablesApart`,
  if origins are multiples of 4 and `"refill"` is not among `Forms`, whether or not checksums are withdrawn (with "refill" `numTables`, from which the place of the first table is computed, can be another number than that of the tables to write).
* `WantedCorrect` (`SfntWriteProofs`): `Spec => WritesWanted` when `"refill"` is not among `Forms`. `WantedInv` follows what a callback answered from the
  table list through the directory to the header, across aborted and repeated calls; the invariant speaks of sets of tags, since the list is sorted anew for each call.
  `ListCorrect`: `Spec => []EveryTableFilled` when `"late"` is not among `Forms`.
* `LabelsAreIssued` (`FeatLabelProofs`): `Spec => []LabelsIssued` for all forms and errors. What is preserved is that each place where a label can be (`curr`, `prev`, the defaults, the
  lookups to register, the lookup blocks, the tables) holds one of those handed out, through copies with the reference bit set; a step that hands one out enlarges the set first.
* `NamesAreKept` (`FeatLabelProofs`): `Spec => []NamedRefersToItself` when neither `"emptyBlock"` nor `"blockLang"` is among `Forms`. `NamedInv` says that the block that
  is open is the last one, that it is `curr`'s label that `endLookup` will store, and that it is the label of the block when registration begins.
* `LookupsHaveRules` (`FeatLabelProofs`): `Spec => []NoEmptyLookup` when moreover `"emptyFeature"` is not among `Forms`, the form under which the run `empty_feature` shows it false. `OpenInv` says
  that the lookup that `prev` has open holds a rule or is a reference, and that `curr` and `prev` speak of the same table and label, which is what ending a lookup by `curr`
  (`endFeature`) and by `prev` (`prepRule`) takes for granted. It needs both invariants above: that a label was handed out keeps a reference to it from
  looking like `LAB_UNDEF`, and a name whose state has no label could not be referred to.
* `ExclusionsAreReset` (`FeatCtxProofs`): `Spec => []ExclusionsReset`. The invariant `ExclInv` says who may
  have an exclusion: a block in progress of a feature where language statements are allowed, or a loop of
  `registerFeatureLangSys` that has not come to it yet. The feature `aalt` ends without that loop,
  which is why the invariant speaks of it.
* `IncludeListIsStable` (`FeatCtxProofs`): `Spec => []IncludeListStable` when `"again"` is not among `Forms`. `prepRule` appends to the list under the language
  dflt only, or empties it when script or feature changed: `InclInv` says that the list still has as many elements as when the loop began, that the loop is behind the first script or
  language statement, and that under the language dflt (naming it once more starts a loop too) there is nothing to include. That `prepRule` does not empty the list is `DefaultsOfScript` of `IInv`.
* `LookupsAreContiguous`, `ReferencesResolve`, `LookupsAreUniform` (`FeatRefProofs`): `LabelsContiguous`, `RefsResolve` and `LookupUniform` when none of
  `"blockLang"`, `"emptyBlock"` and `"emptyFeature"` is among `Forms`. All three are about a whole table, while `prepRule` sees the state of one rule before. The
  inductive invariant `RefRunInv` says what that state vouches for. No two definitions, in whatever tables, have the same label (`Distinct`), because the
  open lookup has the label of the last rule and, unless it is a reference, no subtable has that label yet (`OpenLabel`). Every state that can be referred to, in `prev`, `DFLTLkps`, `lookup` and
  the named lookups, is `Carried`: its label is defined in its table, by a finished subtable or by the lookup that `prev` has open. In a lookup block the rules
  before have the script, language and feature that are current, so that the block is one run, and before its first rule its label is new (`BlockRun`). `Distinct` holds after an error as well.
* `RulesAreConserved` (`FeatRegistrationProofs`): `HSpec => []RulesConserved` under the same conditions. `ConservedRun` says that no rule is in two subtables, none of the lookup being
  accumulated is in a subtable, and the two together are the rules read. What makes it inductive is that a lookup is begun only when the one before was ended, and ended once:
  `endFeature` ends the lookup `curr` names, `prepRule` the one `prev` names, and that these are the same one is `OpenRunInv` again.
* `DefaultsAreComplete` and `ImplementsFeatLangSys` (`FeatLangSysProofs`): `HSpec /\ []DefaultFirst => []DefaultsComplete` and `HSpec /\ []DefaultFirst =>
  ImplementsLangSys`, when `Forms` is empty and, if `aalt` is a feature, no rules are positioning rules (`NoAaltRules`: a positioning rule in `aalt` stays in the accumulator,
  see section 4). `SideInv` keeps the block of `FeatLangSys` and the state of `FeatCtx` side by side: the flags
  `seenScriptLang` and `langSysMode` say whether the block is at its top and has a lookup there (`BlockScope`); the base labels of `DFLTLkps` are the block's defaults (`Defaults`), where a rule that goes
  on with a lookup must find its label among them already; and at every moment the registrations in the
  subtables since the last block ended, with the lookup that is open and the defaults still to be included, are the ones the block has been told of,
  and while `registerFeatureLangSys` runs those of the language systems done (`Recorded`). The refinement follows step by step: what the end of a block adds to
  `reg` is `Registers(blk)`; every other step leaves `reg` alone, because the subtables of finished blocks stay (`NextGrows`). `DefaultFirst` is a hypothesis on the file
  (the first language system is the default one of its script); without it both properties are false, as section 4 says, and the runs that check them have it as a constraint.
* `LookupsAreNotMixed` (`FeatLangSysProofs`): `HSpec /\ []DefaultFirst => []NoMixedLookup` under the same conditions. `MixInv` says of every rule, finished or in the open lookup, that
  its lookup is what the log of the rule says (`AsSaid`) and that rules whose lookups have one label have one scope; and, where the next rule may go on with the lookup
  of `prev` (not after a reference, not in a lookup block), that the lookup's rules are of `prev`'s feature, script and language, and of the part of the block that is being read if these are still
  current (`RunScope`). The last point is where `DefaultFirst` is needed: `prepRule` does not compare whether a rule is before or after the first script or language
  statement, so it must be the language that tells them apart.

The properties with "no error" in their definition say nothing once `hadError` is set; `GoingOn` and `ErrorStays` show that it is never reset, so an invariant may stop there.

* `HashMapTruthful` (`AutohintProofs`): `Spec => [](EntriesTruthful /\ ProcessedFresh)` when `Uses` is empty, for any fonts, glyphs and outlines, under
  the assumptions of `UfoFont` and `Autohint`. The argument: in memory the hash map runs ahead of the disk, so what is inductive is not that memory is true but that it will be when the map is
  written. An entry in memory that claims more than the disk is of a glyph that is still in the pool or waits to be written (`Covered`); while glyphs are written,
  those written are on disk with the outline of their entry (`Written`); the map on disk, old while the run lasts, claims nothing that writing a glyph takes
  away, since a glyph is only written over with hints of the outline the run read (`MapHonest`). Each step preserves these for one font and glyph, with one lemma per
  action; what `checkSkipGlyph`, `updateHashEntry` and the outline check return is stated once.
* `TypeCorrect` (`AutohintProofs`): `Spec => []TypeOK` for any `Uses`; among other things a glyph to be written always has an entry to be updated, so that `recalcHashEntry` finds it.
* `NoHintsLost` (`AutohintProofs`): `Spec => HintsSurvive` when `Uses` is empty. It needs nothing beyond the invariant of `HashMapTruthful`: what a step of a run may write
  over or begin to trust is a file made from the source as it is (`NewHinted`, `Written`), and the layer a run for the default layer deletes is not there (`OneLayer`).
* `SavedRemembered` (`AutohintProofs`): `Spec => SavedIsRemembered` when `Uses` is empty. Added to that invariant is `MarkedInv`: whatever a worker was given or is to be saved
  has an entry with the hash of the default layer, as it is at that moment, that names otfautohint (`TasksMarked`, `NewMarked`), in a map that will be
  written; and only the writing of its map takes a font from those to save (`OnlySaveMap`).
* `UpToDateStaysCorrect` (`AutohintProofs`): `Spec => UpToDateStays` for one font (`Fonts = {Reference}`) and any `Uses`. `KeptInv` says that a glyph whose entry on disk is up to date is left alone
  (`LeftAlone`): its entry in memory is up to date too, no worker has it, and no file of it is still to be written; only a glyph just written may become up to date by an old entry that happens to have
  the new outline's hash. In a family the property is false, since `Receive` removes the entries of the fonts whose glyph was skipped when another font's was hinted (section 4).

For every value of the constants that satisfies `OtlAssumption`, hence for any number of subtables, any tags and whatever order of equal elements each qsort leaves:

* `ChainRulesCallCorrect` and `UnusedReportedCorrect` (`OtlTableProofs`): `Spec => []ChainRulesCall` and `Spec => []UnusedReported` for all forms. `OtlInv` says what the client adds
  (`AddingInv`: the labels in use leave no gap, and the subtables of one label are of one registration, `Client`), what the table holds once it is filled (`FilledLookups`: `LookupFacts` relates the
  index of each subtable to its label, `LookupListIs` is the list in terms of those indexes, `LabelsAre` the map from labels) and that what is called has a label (`CalledInv`).
* `AppliesRegisteredCorrect`, `InFileOrderCorrect` and `ParamsFoundCorrect` (`OtlTableProofs`): `Spec => []AppliesRegistered` and likewise `InFileOrder` and `ParamsFound` when `"manyAnonymous"` is not among `Forms`, the
  form under which `otl_uninit` shows that an index nobody set is read. `TableInv` adds to `OtlInv` the lists of a filled table (`FilledFeatures`): feature indexes are equal exactly
  for one scope, leave no gap and are used by no subtable behind the regular ones (`FeatureFacts`), the language systems are those of the regular subtables (`LangSysIs`), and each feature lists the lookups of
  its subtables once and in order (`FeatureListIs`).

The argument for both is one about sorted arrays of which only parts are read. The counters kept while subtables are added are the ends of the classes after the sort (`ClassSpans`: the subtables registered under a feature, then the anonymous, then the stand-alone ones), so the spans of
the passes are those classes; a sort by a key leaves equal keys in one run, whatever it does within it; numbering the runs as they begin gives equal numbers exactly to equal keys
(`RunNumbers`, `IndexedRuns`), also where numbering goes on after a first span; and no pass changes what the next one compares other than by the index it sets
(`SameCore`, `Renumbers`). Where a program proof would use induction over positions, the proofs take the first position that fails (`LeastNumber`), since an induction theorem cannot be instantiated here.

Only model-checked: the liveness properties `HandlersReturn`, `CallsReturn` and `RunEnds`; liveness is out of the prover's reach.

## 6. Not modelled, and the plan

Left out of the modelled components: glyphs and patterns of rules, `aaltCreate`, anonymous lookups of
chaining rules in `FeatCtx` (they are in `OtlTable`), `useExtension` and `markSetIndex` (treated exactly like `lkpFlag`), table blocks, feature parameters in `FeatCtx`.
Of `otl.c`: coverage and class tables, sizes and offsets of the lists, writing, `otlTableReuse`. Of otfautohint: a worker that dies, saving to another path
(`copytree` first), an edit while a run lasts, a write of one file that is cut off, the report modes, OpenType and variable fonts (which are saved at once and keep no
hash map), empty glyphs (`autohint.py:173`), which get an entry that names otfautohint and no hints.

That the hash of an outline is the outline leaves out what the code does to compute it: `ufotools.py:673` skips contours of one point, which the hash of a
hinted glyph (`ufoFont.py:794`) does not, and the hash of a glyph with components depends on the outlines of others. `Valid` is about the files
`contents.plist` of the processed layer names; where that layer has none, `ufotools.py:905-912` takes the names of the default layer instead.

Most of the remaining code is straight-line computation and serialization of formats (readers, writers, dumpers), where a model would repeat the code;
the components with state of their own that are left are, in this order:

1. `aaltCreate` and the anonymous lookups of chaining rules in `FeatCtx`, so that `OtlTable` gets its subtables from `FeatCtx` itself.
2. `DynArr`: growth against an abstract sequence; proof of cnt <= size and of the refinement.
3. the subroutinizer of `cffwrite`; `sfntedit`'s file swap; the call order of `hot.c`.
