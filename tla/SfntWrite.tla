------------------------------ MODULE SfntWrite ------------------------------
(***************************************************************************)
(* The sfnt writing library, c/shared/source/sfntwrite/sfntwrite.c: a      *)
(* client registers tables, and the library calls its callbacks to create, *)
(* fill and write them, then sums the tables it has written, writes the    *)
(* header and adjusts the head table.  Every call of a client may abort,   *)
(* and every access to the stream may fail, which leaves the call with     *)
(* whatever it had done; the client may then go on with any call that the  *)
(* call tracking state (h->state) admits.                                  *)
(*                                                                         *)
(* A call that is refused (sfwErrBadCall, sfwErrDupTables) and             *)
(* sfwFreeTables change nothing and are no steps here.  The bytes of a     *)
(* table are abstracted to their number, and a checksum to the bytes it is *)
(* the sum of.  The binary-search fields of the header are left out: they  *)
(* are functions of numTables.                                             *)
(***************************************************************************)
EXTENDS Integers, Sequences, FiniteSets

CONSTANTS
    Tags,        \* table tags, as numbers: the directory is sorted by them
    HeadTag,     \* the tag 'head'
    FillSeq,     \* the fill_seq field of the callbacks of a tag
    WriteSeq,    \* the write_seq field
    Lengths,     \* lengths a table may turn out to have
    Origins,     \* stream positions at which sfwWriteTables may be called
    Forms        \* uses of the library beside the plain ones, see FormNames

\* late: registering after sfwNewTables was aborted; refill: filling again before the
\* tables that were filled have been written; withdrawn: writing again without the
\* checksum that the client supplied for a table when it was written before.
FormNames == {"late", "refill", "withdrawn"}

ASSUME SfntAssumption ==
    /\ Tags \subseteq Nat
    /\ HeadTag \in Tags
    /\ FillSeq \in [Tags -> Nat]
    /\ WriteSeq \in [Tags -> Nat]
    /\ Lengths \subseteq Nat
    /\ Origins \subseteq Nat
    /\ Forms \subseteq FormNames

HDR_SIZE == 12
ENTRY_SIZE == 16
HEAD_ADJUST_OFFSET == 8

VARIABLES
    state,       \* call tracking: 0 new, 1 registered, 2 created, 3 filled, 4 written
    callbacks,   \* tags registered, in order
    tables,      \* the table list: callbacks and flags, in the order of the last sort
    numTables,   \* hdr.numTables
    directory,   \* hdr.directory: its cnt elements; empty outside of sfwWriteTables, which
                 \* begins with cnt = 0
    pc,          \* the call and loop that is running, or "idle"
    i,           \* index of the next table in that loop
    entry,       \* index of the directory entry whose table is summed next
    origin,      \* stream position of the sfnt
    before,      \* stream position of the next table to write
    doSeek,      \* do_seek: the stream is not at the table to be summed next
    rpos,        \* stream position of the next read
    offset,      \* where the adjustment of head goes, relative to origin; 0 is nowhere
    out,         \* the sfnt on the stream, while writing and once written (not part of the program)
    wanted       \* tags whose last fill_table asked for them (not part of the program)

locals == <<directory, i, entry, origin, before, doSeek, rpos, offset>>
library == <<state, callbacks, tables, numTables>>
vars == <<library, pc, locals, out, wanted>>

-----------------------------------------------------------------------------
Flags == {"DONT_WRITE", "USE_CHECKSUM"}
Table == [cb : Tags, flags : SUBSET Flags]

\* A checksum is what the element of the directory array held before, a value the client
\* supplied for a table, or the sum of so many 4-byte numbers from a stream position.
NoSum == [by |-> "none", from |-> 0, longs |-> 0]
ClientSum(tag) == [by |-> "client", from |-> tag, longs |-> 0]
SumOf(from, longs) == [by |-> "library", from |-> from, longs |-> longs]
Checksum == [by : {"none", "client", "library"}, from : Nat, longs : Nat]
Entry == [tag : Tags, checksum : Checksum, offset : Nat, length : Nat]

\* The bytes on the stream: tables in the order written, the directory of the header
\* once it is written, and the position of the adjustment (0 if none).  And the tags of
\* the tables whose checksum the client supplied as they were written.
Nothing == [origin |-> 0, tables |-> <<>>, header |-> <<>>, adjusted |-> 0, own |-> {}]

Longs(length) == (length + 3) \div 4

\* The next multiple of 4, which the library pads the stream to.
Aligned(pos) == pos + ((4 - (pos % 4)) % 4)

Reordered(s) == {[k \in DOMAIN s |-> s[p[k]]] :
                    p \in {q \in [DOMAIN s -> DOMAIN s] :
                              \A k, l \in DOMAIN s : q[k] = q[l] => k = l}}

\* What qsort makes of s: some order in which no element precedes a smaller one.
Sorted(s, Key(_), Tag(_)) ==
    {r \in Reordered(s) : \A k, l \in DOMAIN r :
        k < l => \/ Key(r[k]) < Key(r[l])
                 \/ Key(r[k]) = Key(r[l]) /\ Tag(r[k]) =< Tag(r[l])}

TagOf(table) == table.cb
FillKey(table) == FillSeq[table.cb]
WriteKey(table) == WriteSeq[table.cb]
EntryTag(e) == e.tag

\* mutant: DONT_WRITE is not looked at
Writes_Always(table) == TRUE

Writes(table) == "DONT_WRITE" \notin table.flags

-----------------------------------------------------------------------------
Init ==
    /\ state = 0 /\ callbacks = <<>> /\ tables = <<>>
    /\ numTables = 0
    /\ pc = "idle" /\ directory = <<>> /\ i = 1 /\ entry = 1 /\ origin = 0 /\ before = 0
    /\ doSeek = TRUE /\ rpos = 0 /\ offset = 0
    /\ out = Nothing /\ wanted = {}

\* A call returns: its local variables are gone, and nothing reads the directory again.
Return ==
    /\ pc' = "idle" /\ directory' = <<>> /\ i' = 1 /\ entry' = 1 /\ origin' = 0 /\ before' = 0
    /\ doSeek' = TRUE /\ rpos' = 0 /\ offset' = 0

\* sfwRegisterTable, of a tag that is not a duplicate.
Register ==
    /\ pc = "idle" /\ state =< 1
    /\ tables = <<>> \/ "late" \in Forms
    /\ \E tag \in Tags \ {callbacks[k] : k \in DOMAIN callbacks} :
          callbacks' = Append(callbacks, tag)
    /\ state' = 1
    /\ UNCHANGED <<tables, numTables, pc, locals, out, wanted>>

TableList == [k \in DOMAIN callbacks |-> [cb |-> callbacks[k], flags |-> {}]]

\* sfwNewTables: the table list is made before the callbacks are called; if one of
\* them aborts, the state is left as it was.
NewTables ==
    /\ pc = "idle" /\ state =< 1
    /\ tables' = TableList
    /\ \/ state' = 2
       \/ callbacks # <<>> /\ UNCHANGED state
    /\ UNCHANGED <<callbacks, numTables, pc, locals, out, wanted>>

\* sfwReuseTables, in whatever state; or one of its callbacks aborts, and nothing changes.
ReuseTables ==
    /\ pc = "idle"
    /\ state' = 2
    /\ out' = Nothing
    /\ UNCHANGED <<callbacks, tables, numTables, pc, locals, wanted>>

-----------------------------------------------------------------------------
(* sfwFillTables.                                                          *)

\* mutant: without sfwNewTables there is no table list
ListToFill_Existing == tables

\* The table list that is filled: an existing one is kept.
ListToFill == IF tables = <<>> THEN TableList ELSE tables

FillTables ==
    /\ pc = "idle" /\ state # 0
    /\ state = 3 => "refill" \in Forms
    /\ tables' \in Sorted(ListToFill, FillKey, TagOf)
    /\ numTables' = 0
    /\ pc' = "fill"
    /\ UNCHANGED <<state, callbacks, locals, out, wanted>>

\* One fill_table callback; dont_write is its answer.
FillNext ==
    /\ pc = "fill" /\ i =< Len(tables)
    /\ \E dont_write \in BOOLEAN :
          /\ tables' = [tables EXCEPT ![i].flags = IF dont_write THEN {"DONT_WRITE"} ELSE {}]
          /\ numTables' = IF dont_write THEN numTables ELSE numTables + 1
          /\ wanted' = IF dont_write THEN wanted \ {tables[i].cb} ELSE wanted \cup {tables[i].cb}
    /\ i' = i + 1
    /\ UNCHANGED <<state, callbacks, pc, directory, entry, origin, before, doSeek, rpos,
                   offset, out>>

FillAborted ==
    /\ pc = "fill" /\ i =< Len(tables)
    /\ Return
    /\ UNCHANGED <<library, out, wanted>>

FillDone ==
    /\ pc = "fill" /\ i > Len(tables)
    /\ Return
    /\ state' = 3
    /\ out' = Nothing
    /\ UNCHANGED <<callbacks, tables, numTables, wanted>>

-----------------------------------------------------------------------------
(* sfwWriteTables.                                                         *)

\* mutant: room for the directory only
DirSize_NoHeader == ENTRY_SIZE * numTables

DirSize == HDR_SIZE + ENTRY_SIZE * numTables

\* The header is skipped, and the tables are sorted for writing.
WriteTables ==
    /\ pc = "idle" /\ state = 3
    /\ origin' \in Origins
    /\ before' = origin' + DirSize
    /\ tables' \in Sorted(tables, WriteKey, TagOf)
    /\ pc' = "write"
    /\ out' = [Nothing EXCEPT !.origin = origin']
    /\ UNCHANGED <<state, callbacks, numTables, directory, i, entry, doSeek, rpos, offset, wanted>>

\* mutant: the operands are swapped
EntryOffset_Swapped == origin - before

\* mutant: the origin is forgotten
EntryOffset_Absolute == before

EntryOffset == before - origin

\* What a write_table callback may answer in use_checksum, which is 0 before every call;
\* USE_CHECKSUM is what it answered to an earlier call since the table was filled.
Answers ==
    {own \in BOOLEAN : own \/ "USE_CHECKSUM" \notin tables[i].flags \/ "withdrawn" \in Forms}

\* The checksum of an entry taken by dnaNEXT after the callback.
SumAfterCallback(own) == IF own THEN ClientSum(tables[i].cb) ELSE NoSum

\* The flag is set, and cleared by sfwFillTables alone.
FlagsAfterCallback(own) ==
    IF own THEN tables[i].flags \cup {"USE_CHECKSUM"} ELSE tables[i].flags

\* One table: the write_table callback, padding, and the entry for the directory.
WriteNext ==
    /\ pc = "write" /\ i =< Len(tables) /\ Writes(tables[i])
    /\ \E length \in Lengths, use_checksum \in Answers :
          /\ directory' = Append(directory,
                 [tag |-> tables[i].cb, checksum |-> SumAfterCallback(use_checksum),
                  offset |-> EntryOffset, length |-> length])
          /\ before' = Aligned(before + length)
          /\ tables' = [tables EXCEPT ![i].flags = FlagsAfterCallback(use_checksum)]
          /\ out' = [out EXCEPT !.tables =
                            Append(@, [tag |-> tables[i].cb, at |-> before, length |-> length]),
                        !.own = IF use_checksum THEN @ \cup {tables[i].cb} ELSE @]
    /\ i' = i + 1
    /\ UNCHANGED <<state, callbacks, numTables, pc, entry, origin, doSeek, rpos, offset, wanted>>

\* mutant: the loop does not get past a table that is not written
WriteSkipped_Stuck ==
    /\ pc = "write" /\ i =< Len(tables) /\ ~Writes(tables[i])
    /\ UNCHANGED vars

WriteSkipped ==
    /\ pc = "write" /\ i =< Len(tables) /\ ~Writes(tables[i])
    /\ i' = i + 1
    /\ UNCHANGED <<library, pc, directory, entry, origin, before, doSeek, rpos, offset, out,
                   wanted>>

\* The stream fails after the callback, while the table is padded: its flag is set.
WriteFails ==
    /\ pc = "write" /\ i =< Len(tables) /\ Writes(tables[i])
    /\ \E use_checksum \in Answers :
          tables' = [tables EXCEPT ![i].flags = FlagsAfterCallback(use_checksum)]
    /\ Return
    /\ out' = Nothing
    /\ UNCHANGED <<state, callbacks, numTables, wanted>>

WriteDone ==
    /\ pc = "write" /\ i > Len(tables)
    /\ pc' = "sum" /\ i' = 1 /\ entry' = 1 /\ doSeek' = TRUE /\ offset' = 0
    /\ UNCHANGED <<library, directory, origin, before, rpos, out, wanted>>

\* A table whose checksum the client supplied, now or in a write that failed, is not read,
\* so the next one must be sought.
SumOwn ==
    /\ pc = "sum" /\ i =< Len(tables) /\ Writes(tables[i])
    /\ "USE_CHECKSUM" \in tables[i].flags
    /\ doSeek' = TRUE /\ entry' = entry + 1 /\ i' = i + 1
    /\ UNCHANGED <<library, pc, directory, origin, before, rpos, offset, out, wanted>>

\* mutant: the table that was not read is forgotten
ReadFrom_OnlyFirst == IF entry = 1 THEN origin + directory[entry].offset ELSE rpos

\* Where the table of the entry is read from.
ReadFrom == IF doSeek THEN origin + directory[entry].offset ELSE rpos

\* mutant: head is taken to be the first table
IsHead_First(e) == entry = 1

IsHead(e) == e.tag = HeadTag

\* The library reads one table and sums it.
SumNext ==
    /\ pc = "sum" /\ i =< Len(tables) /\ Writes(tables[i])
    /\ "USE_CHECKSUM" \notin tables[i].flags
    /\ LET longs == Longs(directory[entry].length)
       IN  /\ directory' = [directory EXCEPT ![entry].checksum = SumOf(ReadFrom, longs)]
           /\ rpos' = ReadFrom + 4 * longs
    /\ offset' = IF IsHead(directory[entry])
                 THEN directory[entry].offset + HEAD_ADJUST_OFFSET ELSE offset
    /\ doSeek' = FALSE /\ entry' = entry + 1 /\ i' = i + 1
    /\ UNCHANGED <<library, pc, origin, before, out, wanted>>

SumSkipped ==
    /\ pc = "sum" /\ i =< Len(tables) /\ ~Writes(tables[i])
    /\ i' = i + 1
    /\ UNCHANGED <<library, pc, directory, entry, origin, before, doSeek, rpos, offset, out,
                   wanted>>

\* writeHdr sorts and writes the first numTables entries; then the adjustment is written
\* if a head table was summed.  Closing the stream may still fail (StreamFails).
WriteHdr ==
    /\ pc = "sum" /\ i > Len(tables)
    /\ \E hdr \in Sorted(SubSeq(directory, 1, numTables), EntryTag, EntryTag) :
          /\ directory' = hdr \o SubSeq(directory, numTables + 1, Len(directory))
          /\ out' = [out EXCEPT !.header = hdr,
                                !.adjusted = IF offset = 0 THEN 0 ELSE origin + offset]
    /\ pc' = "close"
    /\ UNCHANGED <<library, i, entry, origin, before, doSeek, rpos, offset, wanted>>

Written ==
    /\ pc = "close"
    /\ Return
    /\ state' = 4
    /\ UNCHANGED <<callbacks, tables, numTables, out, wanted>>

\* A write_table callback aborts, or a read, seek, write or close fails: the call returns an
\* error, and the state stays 3.
StreamFails ==
    /\ pc \in {"write", "sum", "close"}
    /\ Return
    /\ out' = Nothing
    /\ UNCHANGED <<library, wanted>>

\* fatal() outside of DURING and HANDLER, when no stream can be opened or no table list
\* allocated, jumps into a call that has returned.  Nothing is said of what follows.
RaiseUnhandled ==
    /\ pc = "idle"
    /\ \/ state =< 1
       \/ state # 0 /\ tables = <<>>
       \/ state = 3
    /\ pc' = "raised"
    /\ UNCHANGED <<library, locals, out, wanted>>

Running ==
    \/ FillNext \/ FillDone
    \/ WriteNext \/ WriteSkipped \/ WriteDone
    \/ SumOwn \/ SumNext \/ SumSkipped \/ WriteHdr \/ Written

Failing == FillAborted \/ WriteFails \/ StreamFails

Raised == pc = "raised" /\ UNCHANGED vars

Next ==
    \/ Register \/ NewTables \/ ReuseTables \/ FillTables \/ WriteTables
    \/ Running \/ Failing \/ RaiseUnhandled \/ Raised

\* The library is sequential: a call that runs goes on.  Nothing need ever fail.
Spec == Init /\ [][Next]_vars /\ WF_vars(Running)

-----------------------------------------------------------------------------
(* Properties.                                                             *)

\* Types; no offset is negative.
TypeOK ==
    /\ state \in 0 .. 4
    /\ callbacks \in Seq(Tags) /\ tables \in Seq(Table)
    /\ numTables \in Nat
    /\ directory \in Seq(Entry)
    /\ pc \in {"idle", "fill", "write", "sum", "close", "raised"}
    /\ i \in Nat \ {0} /\ entry \in Nat \ {0}
    /\ origin \in Nat /\ before \in Nat /\ rpos \in Nat /\ offset \in Nat
    /\ doSeek \in BOOLEAN
    /\ out \in [origin : Nat, tables : Seq([tag : Tags, at : Nat, length : Nat]),
               header : Seq(Entry), adjusted : Nat, own : SUBSET Tags]
    /\ wanted \subseteq Tags

HasWritten == pc = "idle" /\ state = 4
Elements(s) == {s[k] : k \in DOMAIN s}

\* The directory in the header describes the tables on the stream, each once and where
\* it is, in the order of their tags.
Describes(o) ==
    /\ Len(o.header) = Len(o.tables)
    /\ {[tag |-> e.tag, at |-> o.origin + e.offset, length |-> e.length] :
            e \in Elements(o.header)} = Elements(o.tables)
    /\ \A k, l \in DOMAIN o.header : k < l => o.header[k].tag < o.header[l].tag

\* When sfwWriteTables has succeeded, the directory in the header describes the tables.
HeaderDescribes == HasWritten => Describes(out)

\* ... and the checksum of an entry is the one the client supplied when this table was
\* written, or else the sum of the bytes of this table and of their padding, whatever the
\* client answered in calls that failed.
SumsRight ==
    HasWritten =>
        \A e \in Elements(out.header) :
            e.checksum = IF e.tag \in out.own THEN ClientSum(e.tag)
                         ELSE SumOf(out.origin + e.offset, Longs(e.length))

ToWrite == Cardinality({k \in DOMAIN tables : Writes(tables[k])})

\* At every moment of the writing: no table overlaps the header, the table before it or
\* the padding of either, and there is no gap between tables but padding.
TablesApart ==
    pc \in {"write", "sum", "close"} =>
        LET T == out.tables
        IN  /\ T # <<>> => T[1].at = out.origin + HDR_SIZE + ENTRY_SIZE * ToWrite
            /\ \A k \in 1 .. Len(T) - 1 : T[k + 1].at = T[k].at + 4 * Longs(T[k].length)

\* A font written is a font with every table, and only those, that its fill_table
\* callback asked for when it was last called, whatever was aborted or failed before.
WritesWanted ==
    [][state # 4 /\ state' = 4 =>
          {e.tag : e \in Elements(out'.header)} = wanted']_vars

\* Every table registered takes part in filling and writing.
EveryTableFilled ==
    pc = "idle" /\ state \in {3, 4} =>
        Elements(callbacks) = {t.cb : t \in Elements(tables)}

\* The checksum adjustment is written into the head table of this font, if it has one
\* whose checksum the client did not supply, and nowhere else.
HeadAdjusted ==
    HasWritten =>
        out.adjusted =
            IF \E t \in Elements(out.tables) : t.tag = HeadTag /\ HeadTag \notin out.own
            THEN (CHOOSE t \in Elements(out.tables) : t.tag = HeadTag).at + HEAD_ADJUST_OFFSET
            ELSE 0

\* Every call comes to its end, without the help of a failure.
CallsReturn == pc \in {"fill", "write", "sum", "close"} ~> pc \in {"idle"}
=============================================================================
