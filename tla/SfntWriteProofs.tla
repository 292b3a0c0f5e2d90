--------------------------- MODULE SfntWriteProofs ---------------------------
(***************************************************************************)
(* Proofs about SfntWrite, for every number of tables, every length and    *)
(* every order of calls, aborts and failures.                              *)
(*                                                                         *)
(* The loops of sfwWriteTables run over the table list and, with a second  *)
(* index, over the directory; what ties the two together is the number of  *)
(* tables up to an index that are written (Count).                         *)
(*                                                                         *)
(* Then the bytes that it leaves: where the tables are, what the checksums *)
(* are sums of, and where the adjustment of head goes. A table that is     *)
(* summed is read from where the stream is, which is right only because    *)
(* its neighbour on the stream was read just before, to the end of its     *)
(* padding (NextRead, Chained). Last, which tables a font has: those asked *)
(* for, each registered one among them.                                    *)
(***************************************************************************)
EXTENDS SfntWrite, TLAPS, FiniteSetTheorems, SequenceTheorems

\* The indexes up to n of tables that are written, and their number.
KeptUpTo(s, n) == {k \in 1 .. n : Writes(s[k])}
Count(s, n) == Cardinality(KeptUpTo(s, n))

-----------------------------------------------------------------------------
(* Sorting.                                                                *)

\* A reordering has the elements of the sequence: some permutation relates them.
LEMMA ReorderedProperties ==
    ASSUME NEW S, NEW s \in Seq(S), NEW r \in Reordered(s)
    PROVE  /\ r \in Seq(S)
           /\ Len(r) = Len(s)
           /\ \E p \in Bijection(1 .. Len(s), 1 .. Len(s)) :
                 \A k \in 1 .. Len(s) : r[k] = s[p[k]]
<1>1. DOMAIN s = 1 .. Len(s) /\ Len(s) \in Nat /\ s \in [1 .. Len(s) -> S]
  BY LenProperties
<1>2. PICK p \in [1 .. Len(s) -> 1 .. Len(s)] :
          /\ \A k, l \in 1 .. Len(s) : p[k] = p[l] => k = l
          /\ r = [k \in 1 .. Len(s) |-> s[p[k]]]
  BY <1>1 DEF Reordered
<1>3. r \in Seq(S) /\ Len(r) = Len(s)
  <2>1. r \in [1 .. Len(s) -> S]
    BY <1>1, <1>2
  <2> QED  BY <2>1, <1>1
<1>4. p \in Injection(1 .. Len(s), 1 .. Len(s))
  BY <1>2 DEF Injection, IsInjective
<1>5. IsFiniteSet(1 .. Len(s))
  BY <1>1, FS_Interval
<1>6. p \in Surjection(1 .. Len(s), 1 .. Len(s))
  BY <1>4, <1>5, FS_Injection
<1> QED  BY <1>2, <1>3, <1>4, <1>6 DEF Bijection

-----------------------------------------------------------------------------
(* Counting the tables that are written.                                   *)

\* Counts are numbers.
LEMMA CountType ==
    ASSUME NEW s, NEW n \in Nat
    PROVE  /\ IsFiniteSet(KeptUpTo(s, n))
           /\ Count(s, n) \in Nat
<1>1. IsFiniteSet(1 .. n)
  BY FS_Interval
<1>2. KeptUpTo(s, n) \in SUBSET (1 .. n)
  BY DEF KeptUpTo
<1> QED  BY <1>1, <1>2, FS_Subset, FS_CardinalityType DEF Count

\* Nothing is written before the loop.
LEMMA CountZero ==
    ASSUME NEW s
    PROVE  Count(s, 0) = 0
<1>1. KeptUpTo(s, 0) = {}
  BY DEF KeptUpTo
<1> QED  BY <1>1, FS_EmptySet DEF Count

\* One iteration adds one exactly if the table is written.
LEMMA CountStep ==
    ASSUME NEW s, NEW n \in Nat \ {0}
    PROVE  Count(s, n) = IF Writes(s[n]) THEN Count(s, n - 1) + 1 ELSE Count(s, n - 1)
<1>1. IsFiniteSet(KeptUpTo(s, n - 1)) /\ n \notin KeptUpTo(s, n - 1)
  <2>1. n - 1 \in Nat /\ n \notin 1 .. n - 1
    OBVIOUS
  <2>2. n \notin KeptUpTo(s, n - 1)
    BY <2>1 DEF KeptUpTo
  <2> QED  BY <2>1, <2>2, CountType
<1>2. CASE Writes(s[n])
  <2>1. KeptUpTo(s, n) = KeptUpTo(s, n - 1) \cup {n}
    BY <1>2 DEF KeptUpTo
  <2> QED  BY <1>1, <1>2, <2>1, FS_AddElement DEF Count
<1>3. CASE ~Writes(s[n])
  <2>1. KeptUpTo(s, n) = KeptUpTo(s, n - 1)
    <3>1. ASSUME NEW k \in KeptUpTo(s, n) PROVE k \in KeptUpTo(s, n - 1)
      BY <3>1, <1>3 DEF KeptUpTo
    <3>2. ASSUME NEW k \in KeptUpTo(s, n - 1) PROVE k \in KeptUpTo(s, n)
      BY <3>2 DEF KeptUpTo
    <3> QED  BY <3>1, <3>2
  <2> QED  BY <1>3, <2>1 DEF Count
<1> QED  BY <1>2, <1>3

\* Counts grow with the index.
LEMMA CountMonotonic ==
    ASSUME NEW s, NEW m \in Nat, NEW n \in Nat, m =< n
    PROVE  Count(s, m) =< Count(s, n)
<1>1. KeptUpTo(s, m) \in SUBSET KeptUpTo(s, n)
  BY DEF KeptUpTo
<1> QED  BY <1>1, CountType, FS_Subset DEF Count

WithFlags(s, n, F) == [s EXCEPT ![n].flags = F]

\* What setting the flags of one table changes.
LEMMA SetFlags ==
    ASSUME NEW s \in Seq(Table), NEW n \in 1 .. Len(s), NEW F \in SUBSET Flags
    PROVE  /\ WithFlags(s, n, F) \in Seq(Table)
           /\ Len(WithFlags(s, n, F)) = Len(s)
           /\ \A k \in 1 .. Len(s) : WithFlags(s, n, F)[k].cb = s[k].cb
           /\ \A k \in 1 .. Len(s) :
                 WithFlags(s, n, F)[k].flags = IF k = n THEN F ELSE s[k].flags
<1> DEFINE r == WithFlags(s, n, F)
<1>1. Len(s) \in Nat /\ s \in [1 .. Len(s) -> Table]
  BY LenProperties
<1> DEFINE t == [s[n] EXCEPT !.flags = F]
<1>2. t \in Table /\ t.cb = s[n].cb /\ t.flags = F
  BY <1>1 DEF Table
<1>3. r = [s EXCEPT ![n] = t]
  BY DEF WithFlags
<1> HIDE DEF t
<1>4. r \in Seq(Table) /\ Len(r) = Len(s)
  BY <1>2, <1>3, ExceptSeq
<1>5. \A k \in 1 .. Len(s) : r[k] = IF k = n THEN t ELSE s[k]
  BY <1>1, <1>3
<1> QED  BY <1>2, <1>4, <1>5

\* Sorting does not change how many tables are written.
LEMMA CountReordered ==
    ASSUME NEW s \in Seq(Table), NEW r \in Reordered(s)
    PROVE  Count(r, Len(r)) = Count(s, Len(s))
<1> DEFINE n == Len(s)
           K == KeptUpTo(s, n)
           J == KeptUpTo(r, n)
<1>1. n \in Nat /\ Len(r) = n
  BY ReorderedProperties, LenProperties
<1>2. PICK p \in Bijection(1 .. n, 1 .. n) : \A k \in 1 .. n : r[k] = s[p[k]]
  BY ReorderedProperties
<1> DEFINE f == [k \in J |-> p[k]]
<1>3. /\ p \in [1 .. n -> 1 .. n]
      /\ \A k, l \in 1 .. n : p[k] = p[l] => k = l
      /\ \A l \in 1 .. n : \E k \in 1 .. n : p[k] = l
  BY <1>2 DEF Bijection, Injection, IsInjective, Surjection
<1>4. f \in [J -> K]
  BY <1>2, <1>3 DEF KeptUpTo
<1>5. f \in Injection(J, K)
  <2>1. \A k, l \in J : f[k] = f[l] => k = l
    BY <1>3 DEF KeptUpTo
  <2> QED  BY <2>1, <1>4 DEF Injection, IsInjective
<1>6. f \in Surjection(J, K)
  <2>1. \A l \in K : \E k \in J : f[k] = l
    BY <1>2, <1>3 DEF KeptUpTo
  <2> QED  BY <2>1, <1>4 DEF Surjection
<1>7. ExistsBijection(J, K)
  BY <1>5, <1>6 DEF ExistsBijection, Bijection
<1>8. IsFiniteSet(J)
  BY <1>1, CountType
<1> HIDE DEF J, K, n
<1>9. Cardinality(K) = Cardinality(J)
  BY <1>7, <1>8, FS_Bijection
<1> QED  BY <1>1, <1>9 DEF Count, J, K, n

-----------------------------------------------------------------------------
(* The inductive invariant.                                                *)

USE DEF library, locals, vars

\* No tag is registered or listed twice.
Unique ==
    /\ \A k, l \in 1 .. Len(callbacks) : callbacks[k] = callbacks[l] => k = l
    /\ \A k, l \in 1 .. Len(tables) : tables[k].cb = tables[l].cb => k = l

\* Every entry of the directory is about the table of the same place on the stream.
Matches ==
    /\ out.origin = origin
    /\ Len(out.tables) = Len(directory)
    /\ \A k \in 1 .. Len(directory) :
          /\ directory[k].tag = out.tables[k].tag
          /\ origin + directory[k].offset = out.tables[k].at
          /\ directory[k].length = out.tables[k].length
    /\ \A k, l \in 1 .. Len(directory) : directory[k].tag = directory[l].tag => k = l

\* numTables is the number of tables to write; after a second sfwFillTables that was
\* aborted it may be less.
NumTablesRight ==
    /\ numTables =< Count(tables, Len(tables))
    /\ "refill" \notin Forms => numTables = Count(tables, Len(tables))

FillInv ==
    pc = "fill" => /\ i =< Len(tables) + 1
                   /\ numTables = Count(tables, i - 1)
                   /\ state = 3 => "refill" \in Forms

WriteInv ==
    pc = "write" => /\ i =< Len(tables) + 1
                    /\ Len(directory) = Count(tables, i - 1)
                    /\ origin =< before
                    /\ \A k \in 1 .. Len(directory) :
                          \E l \in 1 .. i - 1 : directory[k].tag = tables[l].cb

SumInv ==
    pc = "sum" => /\ i =< Len(tables) + 1
                  /\ entry = Count(tables, i - 1) + 1
                  /\ Len(directory) = Count(tables, Len(tables))

IInv ==
    /\ TypeOK
    /\ Unique
    /\ pc \in {"idle", "raised"} => i = 1 /\ directory = <<>>
    /\ state = 3 /\ pc # "fill" => NumTablesRight
    /\ pc \in {"write", "sum", "close"} => state = 3
    /\ FillInv
    /\ pc \in {"write", "sum"} => Matches
    /\ WriteInv
    /\ SumInv
    /\ pc = "close" \/ (state = 4 /\ pc \in {"idle", "fill"}) =>
          ("refill" \notin Forms => Describes(out))

\* The invariant holds at the start.
LEMMA InitIInv == Init => IInv
<1> SUFFICES ASSUME Init PROVE IInv
  OBVIOUS
<1>1. TypeOK
  <2>1. doSeek \in BOOLEAN
    BY Zenon DEF Init
  <2>2. out \in [origin : Nat, tables : Seq([tag : Tags, at : Nat, length : Nat]),
                 header : Seq(Entry), adjusted : Nat, own : SUBSET Tags]
    BY EmptySeq DEF Init, Nothing
  <2>3. callbacks \in Seq(Tags) /\ tables \in Seq(Table) /\ directory \in Seq(Entry)
    BY EmptySeq DEF Init
  <2>4. /\ state \in 0 .. 4 /\ pc \in {"idle", "fill", "write", "sum", "close", "raised"}
        /\ numTables \in Nat /\ i \in Nat \ {0} /\ entry \in Nat \ {0}
        /\ origin \in Nat /\ before \in Nat /\ rpos \in Nat /\ offset \in Nat
        /\ wanted \subseteq Tags
    BY DEF Init
  <2> QED  BY <2>1, <2>2, <2>3, <2>4 DEF TypeOK
<1>2. Unique
  BY EmptySeq DEF Init, Unique
<1> QED  BY <1>1, <1>2 DEF Init, IInv, FillInv, WriteInv, SumInv

\* sfwRegisterTable and sfwNewTables.
LEMMA TableListType ==
    ASSUME TypeOK, Unique
    PROVE  /\ TableList \in Seq(Table)
           /\ Len(TableList) = Len(callbacks)
           /\ \A k, l \in 1 .. Len(TableList) : TableList[k].cb = TableList[l].cb => k = l
<1>1. callbacks \in [1 .. Len(callbacks) -> Tags] /\ Len(callbacks) \in Nat
  BY LenProperties DEF TypeOK
<1>2. TableList = [k \in 1 .. Len(callbacks) |-> [cb |-> callbacks[k], flags |-> {}]]
  BY <1>1 DEF TableList
<1>3. TableList \in [1 .. Len(callbacks) -> Table]
  BY <1>1, <1>2 DEF Table, Flags
<1>4. TableList \in Seq(Table) /\ Len(TableList) = Len(callbacks)
  <2>1. Len(TableList) = Len(callbacks)
    BY <1>1, <1>2
  <2> QED  BY <1>1, <1>3, <2>1
<1>5. \A k \in 1 .. Len(callbacks) : TableList[k].cb = callbacks[k]
  BY <1>2
<1> QED  BY <1>4, <1>5 DEF Unique

\* sfwRegisterTable: a tag that is not a duplicate keeps the tags unique.
LEMMA RegisterIInv == IInv /\ Register => IInv'
<1> SUFFICES ASSUME IInv, Register PROVE IInv'
  OBVIOUS
<1> USE DEF Register
<1>0. TypeOK /\ Unique
  BY DEF IInv
<1>1. PICK tag \in Tags \ {callbacks[k] : k \in DOMAIN callbacks} :
         callbacks' = Append(callbacks, tag)
  OBVIOUS
<1>2. /\ callbacks \in Seq(Tags) /\ Len(callbacks) \in Nat
      /\ callbacks' \in Seq(Tags) /\ Len(callbacks') = Len(callbacks) + 1
      /\ \A k \in 1 .. Len(callbacks) : callbacks'[k] = callbacks[k]
      /\ callbacks'[Len(callbacks) + 1] = tag
      /\ DOMAIN callbacks = 1 .. Len(callbacks)
  BY <1>0, <1>1 DEF TypeOK
<1>3. TypeOK'
  BY <1>0, <1>2 DEF TypeOK
<1>4. Unique'
  BY <1>0, <1>2 DEF Unique
<1>5. state' = 1 /\ pc' = "idle"
  OBVIOUS
<1> QED  BY <1>3, <1>4, <1>5 DEF IInv, FillInv, WriteInv, SumInv

\* sfwNewTables: the list has every tag once.
LEMMA NewTablesIInv == IInv /\ NewTables => IInv'
<1> SUFFICES ASSUME IInv, NewTables PROVE IInv'
  OBVIOUS
<1> USE DEF NewTables
<1>0. TypeOK /\ Unique
  BY DEF IInv
<1>1. TypeOK'
  <2>1. state' \in 0 .. 4
    BY <1>0 DEF TypeOK
  <2> QED  BY <1>0, <2>1, TableListType DEF TypeOK
<1>2. Unique'
  BY <1>0, TableListType DEF Unique
<1>3. state' \in {0, 1, 2} /\ pc' = "idle"
  BY <1>0 DEF TypeOK
<1> QED  BY <1>1, <1>2, <1>3 DEF IInv, FillInv, WriteInv, SumInv

\* sfwReuseTables.
LEMMA ReuseTablesIInv == IInv /\ ReuseTables => IInv'
<1> SUFFICES ASSUME IInv, ReuseTables PROVE IInv'
  OBVIOUS
<1> USE DEF ReuseTables
<1>0. TypeOK /\ Unique
  BY DEF IInv
<1>1. Nothing \in [origin : Nat, tables : Seq([tag : Tags, at : Nat, length : Nat]),
                   header : Seq(Entry), adjusted : Nat, own : SUBSET Tags]
  BY EmptySeq DEF Nothing
<1>2. TypeOK'
  BY <1>0, <1>1 DEF TypeOK
<1>3. Unique' /\ state' = 2 /\ pc' = "idle"
  BY <1>0 DEF Unique
<1> QED  BY <1>2, <1>3 DEF IInv, FillInv, WriteInv, SumInv

-----------------------------------------------------------------------------
(* sfwFillTables.                                                          *)

\* Sorting the table list keeps its tags unique.
LEMMA ReorderedUnique ==
    ASSUME NEW s \in Seq(Table), NEW r \in Reordered(s),
           \A k, l \in 1 .. Len(s) : s[k].cb = s[l].cb => k = l
    PROVE  \A k, l \in 1 .. Len(r) : r[k].cb = r[l].cb => k = l
<1>1. Len(r) = Len(s) /\ Len(s) \in Nat
  BY ReorderedProperties, LenProperties
<1>2. PICK p \in Bijection(1 .. Len(s), 1 .. Len(s)) :
         \A k \in 1 .. Len(s) : r[k] = s[p[k]]
  BY ReorderedProperties
<1>3. /\ p \in [1 .. Len(s) -> 1 .. Len(s)]
      /\ \A k, l \in 1 .. Len(s) : p[k] = p[l] => k = l
  BY <1>2 DEF Bijection, Injection, IsInjective
<1> QED  BY <1>1, <1>2, <1>3

\* sfwFillTables sorts the list and starts counting.
LEMMA FillTablesIInv == IInv /\ FillTables => IInv'
<1> SUFFICES ASSUME IInv, FillTables PROVE IInv'
  OBVIOUS
<1> USE DEF FillTables
<1>0. TypeOK /\ Unique
  BY DEF IInv
<1>1. /\ ListToFill \in Seq(Table)
      /\ \A k, l \in 1 .. Len(ListToFill) : ListToFill[k].cb = ListToFill[l].cb => k = l
  BY <1>0, TableListType DEF ListToFill, TypeOK, Unique
<1>2. tables' \in Reordered(ListToFill)
  BY DEF Sorted
<1>3. tables' \in Seq(Table)
  BY <1>1, <1>2, ReorderedProperties
<1>4. \A k, l \in 1 .. Len(tables') : tables'[k].cb = tables'[l].cb => k = l
  BY <1>1, <1>2, ReorderedUnique
<1>5. TypeOK'
  BY <1>0, <1>3 DEF TypeOK
<1>6. Unique'
  BY <1>0, <1>4 DEF Unique
<1>7. i' = 1 /\ pc = "idle" /\ pc' = "fill" /\ directory' = <<>>
  BY DEF IInv
<1>8. FillInv'
  <2>1. Count(tables', i' - 1) = 0
    BY <1>7, CountZero
  <2>2. Len(tables') \in Nat
    BY <1>3, LenProperties
  <2> QED  BY <1>7, <2>1, <2>2 DEF FillInv
<1>9. state' = 4 /\ pc' = "fill" => ("refill" \notin Forms => Describes(out'))
  BY <1>7 DEF IInv
<1> QED  BY <1>5, <1>6, <1>7, <1>8, <1>9 DEF IInv, WriteInv, SumInv

\* One table is filled: it is counted if it is to be written.
LEMMA FillNextIInv == IInv /\ FillNext => IInv'
<1> SUFFICES ASSUME IInv, FillNext PROVE IInv'
  OBVIOUS
<1>0. TypeOK /\ Unique /\ FillInv
  BY DEF IInv
<1>1. PICK dont_write \in BOOLEAN :
         /\ tables' = [tables EXCEPT ![i].flags = IF dont_write THEN {"DONT_WRITE"} ELSE {}]
         /\ numTables' = IF dont_write THEN numTables ELSE numTables + 1
         /\ wanted' = IF dont_write THEN wanted \ {tables[i].cb} ELSE wanted \cup {tables[i].cb}
  BY DEF FillNext
<1>u. /\ pc = "fill" /\ pc' = "fill" /\ i =< Len(tables) /\ i' = i + 1
      /\ UNCHANGED <<state, callbacks, directory, entry, origin, before, doSeek, rpos, offset, out>>
  BY DEF FillNext
<1>2. i \in 1 .. Len(tables) /\ Len(tables) \in Nat /\ tables[i] \in Table
  BY <1>0, <1>u, LenProperties, ElementOfSeq DEF TypeOK
<1> DEFINE F == IF dont_write THEN {"DONT_WRITE"} ELSE {}
<1>3. F \in SUBSET Flags /\ ("DONT_WRITE" \in F <=> dont_write)
  BY DEF Flags
<1>4. tables \in Seq(Table) /\ tables' = WithFlags(tables, i, F)
  BY <1>0, <1>1 DEF TypeOK, WithFlags
<1> HIDE DEF F
<1>5. /\ tables' \in Seq(Table) /\ Len(tables') = Len(tables)
      /\ \A k \in 1 .. Len(tables) : tables'[k].cb = tables[k].cb
      /\ \A k \in 1 .. Len(tables) : tables'[k].flags = IF k = i THEN F ELSE tables[k].flags
  BY <1>2, <1>3, <1>4, SetFlags
<1>6. TypeOK'
  <2>1. numTables' \in Nat /\ wanted' \subseteq Tags
    BY <1>0, <1>1, <1>2 DEF TypeOK, Table
  <2> QED  BY <1>0, <1>u, <1>5, <2>1 DEF TypeOK
<1>7. Unique'
  BY <1>0, <1>u, <1>2, <1>5 DEF Unique
<1>8. FillInv'
  <2>1. i - 1 \in Nat /\ i \in Nat \ {0} /\ i' = i + 1 /\ i' - 1 = i
    BY <1>2, <1>u
  <2>2. \A k \in 1 .. i - 1 : Writes(tables'[k]) <=> Writes(tables[k])
    BY <1>2, <1>5 DEF Writes
  <2>3. Count(tables', i - 1) = Count(tables, i - 1)
    BY <2>2 DEF Count, KeptUpTo
  <2>4. Writes(tables'[i]) <=> ~dont_write
    BY <1>2, <1>3, <1>5 DEF Writes
  <2>5. Count(tables', i) = IF Writes(tables'[i]) THEN Count(tables', i - 1) + 1
                            ELSE Count(tables', i - 1)
    BY <2>1, CountStep
  <2>6. numTables = Count(tables, i - 1)
    BY <1>0, <1>u DEF FillInv
  <2>n. numTables' = IF dont_write THEN numTables ELSE numTables + 1
    BY <1>1
  <2>7. Count(tables', i) = numTables'
    BY <2>n, <2>3, <2>4, <2>5, <2>6
  <2>8. i =< Len(tables) + 1 /\ (state = 3 => "refill" \in Forms)
    BY <1>0, <1>u DEF FillInv
  <2> QED  BY <1>2, <1>5, <1>u, <2>1, <2>7, <2>8 DEF FillInv
<1>9. pc' = "fill" /\ (state' = 4 => ("refill" \notin Forms => Describes(out')))
  BY <1>u DEF IInv
<1> QED  BY <1>u, <1>6, <1>7, <1>8, <1>9 DEF IInv, WriteInv, SumInv

\* What a call leaves when it returns.
LEMMA ReturnType ==
    ASSUME TypeOK, Return, state' \in 0 .. 4, tables' \in Seq(Table),
           out' \in {out, Nothing}, UNCHANGED <<callbacks, numTables, wanted>>
    PROVE  TypeOK'
<1>1. Nothing \in [origin : Nat, tables : Seq([tag : Tags, at : Nat, length : Nat]),
                   header : Seq(Entry), adjusted : Nat, own : SUBSET Tags]
  BY EmptySeq DEF Nothing
<1>2. doSeek' \in BOOLEAN
  BY Zenon DEF Return
<1>3. directory' \in Seq(Entry) /\ i' = 1 /\ entry' = 1 /\ pc' = "idle"
  BY EmptySeq DEF Return
<1> QED  BY <1>1, <1>2, <1>3 DEF TypeOK, Return

\* A fill_table callback aborts: the state is as before, and only if it was "filled"
\* already is the number of tables wrong.
LEMMA FillAbortedIInv == IInv /\ FillAborted => IInv'
<1> SUFFICES ASSUME IInv, FillAborted PROVE IInv'
  OBVIOUS
<1> USE DEF FillAborted
<1>0. TypeOK /\ Unique /\ FillInv
  BY DEF IInv
<1>1. TypeOK'
  BY <1>0, ReturnType DEF TypeOK
<1>2. Unique'
  BY <1>0 DEF Unique
<1>3. state' = 3 => NumTablesRight'
  <2>1. Count(tables, i - 1) =< Count(tables, Len(tables))
    <3>1. i - 1 \in Nat /\ Len(tables) \in Nat /\ i - 1 =< Len(tables)
      BY <1>0, LenProperties DEF TypeOK
    <3> QED  BY <3>1, CountMonotonic
  <2> QED  BY <1>0, <2>1 DEF FillInv, NumTablesRight
<1>4. pc' = "idle" /\ i' = 1 /\ directory' = <<>>
  BY DEF Return
<1>5. state' = 4 => ("refill" \notin Forms => Describes(out'))
  BY DEF IInv
<1> QED  BY <1>1, <1>2, <1>3, <1>4, <1>5 DEF IInv, FillInv, WriteInv, SumInv

\* All tables are filled, and numTables is the number of those to write.
LEMMA FillDoneIInv == IInv /\ FillDone => IInv'
<1> SUFFICES ASSUME IInv, FillDone PROVE IInv'
  OBVIOUS
<1> USE DEF FillDone
<1>0. TypeOK /\ Unique /\ FillInv
  BY DEF IInv
<1>1. TypeOK'
  <2>1. state' \in 0 .. 4 /\ tables' \in Seq(Table)
    BY <1>0 DEF TypeOK
  <2> QED  BY <1>0, <2>1, ReturnType
<1>2. Unique'
  BY <1>0 DEF Unique
<1>3. NumTablesRight'
  <2>1. i - 1 = Len(tables) /\ Len(tables) \in Nat
    BY <1>0, LenProperties DEF TypeOK, FillInv
  <2>2. numTables = Count(tables, Len(tables)) /\ numTables \in Nat
    BY <1>0, <2>1 DEF FillInv, TypeOK
  <2> QED  BY <2>2 DEF NumTablesRight
<1>4. pc' = "idle" /\ i' = 1 /\ directory' = <<>> /\ state' = 3
  BY DEF Return
<1> QED  BY <1>1, <1>2, <1>3, <1>4 DEF IInv, FillInv, WriteInv, SumInv

-----------------------------------------------------------------------------
(* sfwWriteTables: writing.                                                *)

\* The tables are sorted, and the stream is behind the header.
LEMMA WriteTablesIInv == IInv /\ WriteTables => IInv'
<1> SUFFICES ASSUME IInv, WriteTables PROVE IInv'
  OBVIOUS
<1>0. TypeOK /\ Unique /\ NumTablesRight /\ i = 1 /\ directory = <<>>
  BY DEF IInv, WriteTables
<1>u. /\ pc' = "write" /\ state = 3 /\ origin' \in Nat /\ before' = origin' + DirSize
      /\ tables' \in Reordered(tables) /\ out' = [Nothing EXCEPT !.origin = origin']
      /\ UNCHANGED <<state, callbacks, numTables, directory, i, entry, doSeek, rpos, offset,
                     wanted>>
  BY SfntAssumption DEF WriteTables, Sorted
<1>1. tables' \in Seq(Table) /\ tables \in Seq(Table)
  BY <1>0, <1>u, ReorderedProperties DEF TypeOK
<1>2. out' = [origin |-> origin', tables |-> <<>>, header |-> <<>>, adjusted |-> 0,
              own |-> {}]
  BY <1>u DEF Nothing
<1>3. before' \in Nat /\ origin' =< before'
  <2>1. numTables \in Nat
    BY <1>0 DEF TypeOK
  <2>2. DirSize \in Nat
    BY <2>1 DEF DirSize, HDR_SIZE, ENTRY_SIZE
  <2> QED  BY <1>u, <2>2
<1>4. TypeOK'
  <2>1. out' \in [origin : Nat, tables : Seq([tag : Tags, at : Nat, length : Nat]),
                  header : Seq(Entry), adjusted : Nat, own : SUBSET Tags]
    <3>1. /\ <<>> \in Seq([tag : Tags, at : Nat, length : Nat]) /\ <<>> \in Seq(Entry)
          /\ origin' \in Nat
      BY <1>u, EmptySeq
    <3>2. out' = [origin |-> origin', tables |-> <<>>, header |-> <<>>, adjusted |-> 0,
                  own |-> {}]
      BY <1>2
    <3> QED  BY ONLY <3>1, <3>2
  <2> QED  BY <1>0, <1>u, <1>1, <1>3, <2>1 DEF TypeOK
<1>5. Unique'
  BY <1>0, <1>u, <1>1, ReorderedUnique DEF Unique
<1>6. NumTablesRight'
  BY <1>0, <1>u, <1>1, CountReordered DEF NumTablesRight
<1>7. Matches'
  <2>1. /\ out'.origin = origin' /\ Len(out'.tables) = 0 /\ Len(directory') = 0
    BY <1>0, <1>u, <1>2
  <2> QED  BY <2>1 DEF Matches
<1>8. WriteInv'
  <2>1. Count(tables', i' - 1) = 0 /\ i' = 1 /\ Len(directory') = 0
    BY <1>0, <1>u, CountZero
  <2>2. Len(tables') \in Nat
    BY <1>1, LenProperties
  <2> QED  BY <1>3, <2>1, <2>2 DEF WriteInv
<1> QED  BY <1>u, <1>4, <1>5, <1>6, <1>7, <1>8 DEF IInv, FillInv, SumInv

\* What a table's flags become does not change which tables are written.
LEMMA FlagsKept ==
    ASSUME TypeOK, pc \in {"write"}, i =< Len(tables),
           NEW own \in BOOLEAN, tables' = WithFlags(tables, i, FlagsAfterCallback(own))
    PROVE  /\ tables' \in Seq(Table)
           /\ Len(tables') = Len(tables)
           /\ \A k \in 1 .. Len(tables) : tables'[k].cb = tables[k].cb
           /\ \A k \in 1 .. Len(tables) : Writes(tables'[k]) <=> Writes(tables[k])
<1> DEFINE F == FlagsAfterCallback(own)
<1>1. /\ i \in 1 .. Len(tables) /\ Len(tables) \in Nat /\ tables \in Seq(Table)
      /\ tables[i] \in Table
  BY LenProperties, ElementOfSeq DEF TypeOK
<1>2. tables' = WithFlags(tables, i, F)
  OBVIOUS
<1>3. F \in SUBSET Flags /\ ("DONT_WRITE" \in F <=> "DONT_WRITE" \in tables[i].flags)
  BY <1>1 DEF FlagsAfterCallback, Table, Flags
<1> HIDE DEF F
<1>4. /\ tables' \in Seq(Table) /\ Len(tables') = Len(tables)
      /\ \A k \in 1 .. Len(tables) : tables'[k].cb = tables[k].cb
      /\ \A k \in 1 .. Len(tables) : tables'[k].flags = IF k = i THEN F ELSE tables[k].flags
  BY <1>1, <1>2, <1>3, SetFlags
<1> QED  BY <1>1, <1>3, <1>4 DEF Writes

\* One table is written: its entry is about it, and its tag is new to the directory.
LEMMA WriteNextIInv == IInv /\ WriteNext => IInv'
<1> SUFFICES ASSUME IInv, WriteNext PROVE IInv'
  OBVIOUS
<1> DEFINE Placed == [tag : Tags, at : Nat, length : Nat]
<1>w. /\ pc = "write" /\ pc' = "write" /\ i =< Len(tables) /\ Writes(tables[i]) /\ i' = i + 1
      /\ UNCHANGED <<state, callbacks, numTables, entry, origin, doSeek, rpos, offset, wanted>>
  BY DEF WriteNext
<1>0. TypeOK /\ Unique /\ NumTablesRight /\ Matches /\ WriteInv /\ state = 3
  BY <1>w DEF IInv
<1> DEFINE E(n, own) == [tag |-> tables[i].cb, checksum |-> SumAfterCallback(own),
                         offset |-> EntryOffset, length |-> n]
           T(n) == [tag |-> tables[i].cb, at |-> before, length |-> n]
           S(own) == IF own THEN out.own \cup {tables[i].cb} ELSE out.own
<1>1. PICK length \in Lengths, own \in BOOLEAN :
         /\ directory' = Append(directory, E(length, own))
         /\ before' = Aligned(before + length)
         /\ tables' = WithFlags(tables, i, FlagsAfterCallback(own))
         /\ out' = [out EXCEPT !.tables = Append(@, T(length)), !.own = S(own)]
  BY DEF WriteNext, Answers, WithFlags
<1> DEFINE e == E(length, own)
           t == T(length)
           supplied == S(own)
<1>2. /\ i \in 1 .. Len(tables) /\ Len(tables) \in Nat /\ tables[i] \in Table
      /\ i - 1 \in Nat /\ i' - 1 = i /\ length \in Nat /\ origin \in Nat /\ before \in Nat
      /\ origin =< before
  <2>1. /\ i \in Nat \ {0} /\ tables \in Seq(Table) /\ origin \in Nat /\ before \in Nat
        /\ length \in Nat
    BY <1>0, SfntAssumption DEF TypeOK
  <2>2. Len(tables) \in Nat /\ i =< Len(tables)
    BY <1>w, <2>1, LenProperties
  <2>3. origin =< before
    BY <1>0, <1>w DEF WriteInv
  <2>4. i' = i + 1
    BY <1>w
  <2> QED  BY ONLY <2>1, <2>2, <2>3, <2>4, ElementOfSeq
<1>3. e \in Entry /\ t \in Placed /\ supplied \in SUBSET Tags
  <2>1. tables[i].cb \in Tags /\ Tags \subseteq Nat
    BY <1>2, SfntAssumption DEF Table
  <2>2. SumAfterCallback(own) \in Checksum
    BY <2>1 DEF SumAfterCallback, Checksum, ClientSum, NoSum
  <2>3. EntryOffset \in Nat
    BY <1>2 DEF EntryOffset
  <2>4. out.own \in SUBSET Tags
    BY <1>0 DEF TypeOK
  <2> QED  BY <1>2, <2>1, <2>2, <2>3, <2>4 DEF Entry
<1>4. /\ e.tag = tables[i].cb /\ origin + e.offset = before /\ e.length = length
      /\ t.tag = tables[i].cb /\ t.at = before /\ t.length = length
  BY <1>2 DEF EntryOffset
<1>5. before' \in Nat /\ origin' =< before'
  <2>1. before + length \in Nat
    BY <1>2
  <2>2. (4 - ((before + length) % 4)) % 4 \in 0 .. 3
    BY <2>1
  <2>3. before' = before + length + ((4 - ((before + length) % 4)) % 4) /\ origin' = origin
    BY <1>1, <1>w DEF Aligned
  <2> QED  BY ONLY <1>2, <2>1, <2>2, <2>3
<1> HIDE DEF e, t, supplied, Placed
<1>6. /\ directory \in Seq(Entry) /\ Len(directory) \in Nat
      /\ out.tables \in Seq(Placed) /\ out.origin \in Nat /\ out.header \in Seq(Entry)
      /\ out.adjusted \in Nat
      /\ out = [origin |-> out.origin, tables |-> out.tables, header |-> out.header,
                adjusted |-> out.adjusted, own |-> out.own]
  BY <1>0, LenProperties DEF TypeOK, Placed
<1>7. /\ directory' = Append(directory, e)
      /\ out' = [origin |-> out.origin, tables |-> Append(out.tables, t), header |-> out.header,
                 adjusted |-> out.adjusted, own |-> supplied]
  BY <1>1, <1>6 DEF e, t, supplied
<1>8. /\ directory' \in Seq(Entry) /\ Len(directory') = Len(directory) + 1
      /\ \A k \in 1 .. Len(directory) : directory'[k] = directory[k]
      /\ directory'[Len(directory) + 1] = e
  BY <1>3, <1>6, <1>7
<1>9. /\ out'.tables \in Seq(Placed) /\ Len(out'.tables) = Len(out.tables) + 1
      /\ \A k \in 1 .. Len(out.tables) : out'.tables[k] = out.tables[k]
      /\ out'.tables[Len(out.tables) + 1] = t
  <2>1. out'.tables = Append(out.tables, t)
    BY <1>7
  <2> QED  BY ONLY <1>3, <1>6, <2>1
<1>10. /\ tables' \in Seq(Table) /\ Len(tables') = Len(tables)
       /\ \A k \in 1 .. Len(tables) : tables'[k].cb = tables[k].cb
       /\ \A k \in 1 .. Len(tables) : Writes(tables'[k]) <=> Writes(tables[k])
  BY <1>0, <1>1, <1>w, FlagsKept
<1>11. TypeOK'
  <2>1. out' \in [origin : Nat, tables : Seq(Placed), header : Seq(Entry), adjusted : Nat,
                  own : SUBSET Tags]
    <3>1. Append(out.tables, t) \in Seq(Placed)
      BY <1>3, <1>6
    <3> QED  BY <1>3, <1>6, <1>7, <3>1
  <2>2. i' \in Nat \ {0}
    BY <1>2, <1>w
  <2> QED  BY <1>0, <1>w, <1>5, <1>8, <1>10, <2>1, <2>2 DEF TypeOK, Placed
<1>12. Unique'
  BY <1>0, <1>w, <1>10 DEF Unique
<1>13. /\ Count(tables', i - 1) = Count(tables, i - 1)
       /\ Count(tables', Len(tables')) = Count(tables, Len(tables))
  <2>1. KeptUpTo(tables', i - 1) = KeptUpTo(tables, i - 1)
    BY <1>2, <1>10 DEF KeptUpTo
  <2>2. KeptUpTo(tables', Len(tables)) = KeptUpTo(tables, Len(tables))
    BY <1>10 DEF KeptUpTo
  <2> QED  BY <1>10, <2>1, <2>2 DEF Count
<1>14. NumTablesRight'
  BY <1>0, <1>w, <1>13 DEF NumTablesRight
<1>15. Matches'
  <2>1. out'.origin = origin' /\ Len(out'.tables) = Len(directory')
    BY <1>0, <1>w, <1>7, <1>8, <1>9 DEF Matches
  <2>2. \A k \in 1 .. Len(directory') :
           /\ directory'[k].tag = out'.tables[k].tag
           /\ origin' + directory'[k].offset = out'.tables[k].at
           /\ directory'[k].length = out'.tables[k].length
    <3>1. ASSUME NEW k \in 1 .. Len(directory)
          PROVE  /\ directory'[k].tag = out'.tables[k].tag
                 /\ origin' + directory'[k].offset = out'.tables[k].at
                 /\ directory'[k].length = out'.tables[k].length
      <4>1. directory'[k] = directory[k] /\ out'.tables[k] = out.tables[k] /\ origin' = origin
        BY <1>0, <1>w, <1>8, <1>9 DEF Matches
      <4> QED  BY <1>0, <4>1 DEF Matches
    <3>2. /\ directory'[Len(directory) + 1] = e /\ out'.tables[Len(directory) + 1] = t
          /\ origin' = origin
      BY <1>0, <1>w, <1>8, <1>9 DEF Matches
    <3>3. ASSUME NEW k \in 1 .. Len(directory'), k \notin 1 .. Len(directory)
          PROVE  k = Len(directory) + 1
      BY <1>6, <1>8, <3>3
    <3> QED  BY <1>4, <3>1, <3>2, <3>3
  <2>3. \A k \in 1 .. Len(directory) : directory[k].tag # tables[i].cb
    <3>1. ASSUME NEW k \in 1 .. Len(directory), directory[k].tag = tables[i].cb PROVE FALSE
      <4>1. PICK l \in 1 .. i - 1 : directory[k].tag = tables[l].cb
        BY <1>0, <1>w DEF WriteInv
      <4>2. l \in 1 .. Len(tables) /\ l # i
        BY <1>2
      <4> QED  BY <1>0, <1>2, <3>1, <4>1, <4>2 DEF Unique
    <3> QED  BY <3>1
  <2>4. \A k, l \in 1 .. Len(directory') : directory'[k].tag = directory'[l].tag => k = l
    <3>1. \A k \in 1 .. Len(directory) : directory'[k].tag = directory[k].tag
      BY <1>8
    <3>2. directory'[Len(directory) + 1].tag = tables[i].cb
      BY <1>4, <1>8
    <3>3. \A k \in 1 .. Len(directory') : k \in 1 .. Len(directory) \/ k = Len(directory) + 1
      BY <1>6, <1>8
    <3>4. \A k, l \in 1 .. Len(directory) : directory[k].tag = directory[l].tag => k = l
      BY <1>0 DEF Matches
    <3> QED  BY ONLY <2>3, <3>1, <3>2, <3>3, <3>4
  <2> QED  BY <2>1, <2>2, <2>4 DEF Matches
<1>16. WriteInv'
  <2>1. Count(tables', i) = Count(tables', i - 1) + 1
    BY <1>2, <1>10, <1>w, CountStep
  <2>2. Len(directory') = Count(tables', i' - 1)
    BY <1>0, <1>2, <1>8, <1>13, <1>w, <2>1 DEF WriteInv
  <2>3. \A k \in 1 .. Len(directory') : \E l \in 1 .. i : directory'[k].tag = tables'[l].cb
    <3>1. ASSUME NEW k \in 1 .. Len(directory)
          PROVE  \E l \in 1 .. i : directory'[k].tag = tables'[l].cb
      <4>1. PICK l \in 1 .. i - 1 : directory[k].tag = tables[l].cb
        BY <1>0, <1>w DEF WriteInv
      <4>2. l \in 1 .. i /\ l \in 1 .. Len(tables)
        BY <1>2
      <4>3. directory'[k].tag = directory[k].tag /\ tables'[l].cb = tables[l].cb
        BY <1>8, <1>10, <4>2
      <4> QED  BY <4>1, <4>2, <4>3
    <3>2. directory'[Len(directory) + 1].tag = tables'[i].cb
      BY <1>2, <1>4, <1>8, <1>10
    <3>3. \A k \in 1 .. Len(directory') : k \in 1 .. Len(directory) \/ k = Len(directory) + 1
      BY <1>6, <1>8
    <3>4. i \in 1 .. i
      BY <1>2
    <3> QED  BY <3>1, <3>2, <3>3, <3>4
  <2>4. i' =< Len(tables') + 1 /\ 1 .. i' - 1 = 1 .. i
    BY <1>2, <1>10, <1>w
  <2>5. \A k \in 1 .. Len(directory') :
           \E l \in 1 .. i' - 1 : directory'[k].tag = tables'[l].cb
    BY <2>3, <2>4
  <2> QED  BY <1>5, <2>2, <2>4, <2>5 DEF WriteInv
<1> QED  BY <1>0, <1>w, <1>11, <1>12, <1>14, <1>15, <1>16 DEF IInv, FillInv, SumInv

\* A table that is not to be written is passed over.
LEMMA WriteSkippedIInv == IInv /\ WriteSkipped => IInv'
<1> SUFFICES ASSUME IInv, WriteSkipped PROVE IInv'
  OBVIOUS
<1> USE DEF WriteSkipped
<1>0. TypeOK /\ Unique /\ NumTablesRight /\ Matches /\ WriteInv /\ state = 3
  BY DEF IInv
<1>1. /\ i \in 1 .. Len(tables) /\ Len(tables) \in Nat
      /\ i \in Nat \ {0} /\ i - 1 \in Nat /\ i' = i + 1 /\ i' - 1 = i /\ i' \in Nat \ {0}
  <2>1. i \in Nat \ {0} /\ tables \in Seq(Table)
    BY <1>0 DEF TypeOK
  <2> QED  BY <2>1, LenProperties
<1>2. TypeOK' /\ Unique' /\ NumTablesRight' /\ Matches'
  BY <1>0, <1>1 DEF TypeOK, Unique, NumTablesRight, Count, KeptUpTo, Writes, Matches
<1>3. WriteInv'
  <2>1. Count(tables, i) = Count(tables, i - 1)
    BY <1>1, CountStep
  <2>2. Len(directory) = Count(tables, i' - 1) /\ origin =< before
    BY <1>0, <1>1, <2>1 DEF WriteInv
  <2>3. \A k \in 1 .. Len(directory) : \E l \in 1 .. i' - 1 : directory[k].tag = tables[l].cb
    <3>1. 1 .. i - 1 \subseteq 1 .. i' - 1
      BY <1>1
    <3> QED  BY <1>0, <3>1 DEF WriteInv
  <2>4. i' =< Len(tables) + 1
    BY <1>1
  <2>5. tables' = tables /\ directory' = directory /\ origin' = origin /\ before' = before
    OBVIOUS
  <2> HIDE DEF WriteSkipped
  <2> QED  BY <2>2, <2>3, <2>4, <2>5 DEF WriteInv
<1> QED  BY <1>0, <1>2, <1>3 DEF IInv, FillInv, SumInv

\* The stream fails while a table is padded: which tables are to be written stays.
LEMMA WriteFailsIInv == IInv /\ WriteFails => IInv'
<1> SUFFICES ASSUME IInv, WriteFails PROVE IInv'
  OBVIOUS
<1>w. /\ pc = "write" /\ i =< Len(tables) /\ Return /\ out' = Nothing
      /\ UNCHANGED <<state, callbacks, numTables, wanted>>
  BY DEF WriteFails
<1>f. PICK own \in BOOLEAN : tables' = WithFlags(tables, i, FlagsAfterCallback(own))
  BY DEF WriteFails, Answers, WithFlags
<1>0. TypeOK /\ Unique /\ NumTablesRight /\ state = 3
  BY <1>w DEF IInv
<1>1. /\ tables' \in Seq(Table) /\ Len(tables') = Len(tables)
      /\ \A k \in 1 .. Len(tables) : tables'[k].cb = tables[k].cb
      /\ \A k \in 1 .. Len(tables) : Writes(tables'[k]) <=> Writes(tables[k])
  BY <1>0, <1>f, <1>w, FlagsKept
<1>2. TypeOK'
  BY <1>0, <1>1, <1>w, ReturnType
<1>3. Unique'
  BY <1>0, <1>1, <1>w DEF Unique
<1>4. NumTablesRight'
  <2>1. KeptUpTo(tables', Len(tables)) = KeptUpTo(tables, Len(tables))
    BY <1>1 DEF KeptUpTo
  <2> QED  BY <1>0, <1>1, <1>w, <2>1 DEF NumTablesRight, Count
<1>5. pc' = "idle" /\ i' = 1 /\ directory' = <<>> /\ state' = 3
  BY <1>0, <1>w DEF Return
<1> QED  BY <1>2, <1>3, <1>4, <1>5 DEF IInv, FillInv, WriteInv, SumInv

\* The tables are written: the directory has an entry for every one.
LEMMA WriteDoneIInv == IInv /\ WriteDone => IInv'
<1> SUFFICES ASSUME IInv, WriteDone PROVE IInv'
  OBVIOUS
<1> USE DEF WriteDone
<1>0. TypeOK /\ Unique /\ NumTablesRight /\ Matches /\ WriteInv /\ state = 3
  BY DEF IInv
<1>1. Len(tables) \in Nat /\ i - 1 = Len(tables)
  <2>1. i \in Nat \ {0} /\ tables \in Seq(Table)
    BY <1>0 DEF TypeOK
  <2>2. i =< Len(tables) + 1 /\ i > Len(tables)
    BY <1>0 DEF WriteInv
  <2>3. Len(tables) \in Nat
    BY <2>1, LenProperties
  <2> QED  BY ONLY <2>1, <2>2, <2>3
<1>2. TypeOK' /\ Unique' /\ NumTablesRight' /\ Matches'
  <2>1. doSeek' \in BOOLEAN
    BY Zenon
  <2> QED  BY <1>0, <2>1 DEF TypeOK, Unique, NumTablesRight, Count, KeptUpTo, Writes, Matches
<1>3. SumInv'
  <2>1. Len(directory) = Count(tables, Len(tables)) /\ Count(tables, 0) = 0 /\ i' = 1 /\ entry' = 1
    BY <1>0, <1>1, CountZero DEF WriteInv
  <2> QED  BY <1>1, <2>1 DEF SumInv, Count, KeptUpTo, Writes
<1> QED  BY <1>0, <1>2, <1>3 DEF IInv, FillInv, WriteInv

-----------------------------------------------------------------------------
(* sfwWriteTables: the checksums.                                          *)

\* A table that is summed has an entry, the one counted.
LEMMA SumPlace ==
    ASSUME TypeOK, pc \in {"sum"}, SumInv, i =< Len(tables)
    PROVE  /\ i \in Nat \ {0} /\ i - 1 \in Nat /\ i + 1 =< Len(tables) + 1
           /\ Writes(tables[i]) => /\ entry \in 1 .. Len(directory)
                                   /\ entry + 1 = Count(tables, i) + 1
           /\ ~Writes(tables[i]) => entry = Count(tables, i) + 1
<1>1. i \in Nat \ {0} /\ i - 1 \in Nat /\ Len(tables) \in Nat /\ i \in Nat
  <2>1. i \in Nat \ {0} /\ tables \in Seq(Table)
    BY DEF TypeOK
  <2> QED  BY <2>1, LenProperties
<1>2. /\ Count(tables, i) = IF Writes(tables[i]) THEN Count(tables, i - 1) + 1
                            ELSE Count(tables, i - 1)
      /\ Count(tables, i) =< Count(tables, Len(tables))
      /\ Count(tables, i) \in Nat /\ Count(tables, i - 1) \in Nat
  BY <1>1, CountStep, CountMonotonic, CountType
<1>3. entry = Count(tables, i - 1) + 1 /\ Len(directory) = Count(tables, Len(tables))
  BY DEF SumInv
<1> QED  BY <1>1, <1>2, <1>3

\* The steps of the loop that change no entry.
LEMMA SumOwnIInv == IInv /\ (SumOwn \/ SumSkipped) => IInv'
<1> SUFFICES ASSUME IInv, SumOwn \/ SumSkipped PROVE IInv'
  OBVIOUS
<1>w. /\ pc = "sum" /\ pc' = "sum" /\ i =< Len(tables) /\ i' = i + 1
      /\ doSeek' \in {TRUE, doSeek}
      /\ entry' = IF Writes(tables[i]) THEN entry + 1 ELSE entry
      /\ UNCHANGED <<library, directory, origin, before, rpos, offset, out, wanted>>
  BY DEF SumOwn, SumSkipped
<1>0. TypeOK /\ Unique /\ NumTablesRight /\ Matches /\ SumInv /\ state = 3
  BY <1>w DEF IInv
<1>1. TypeOK'
  <2>1. doSeek' \in BOOLEAN
    <3>1. doSeek \in BOOLEAN /\ doSeek' \in {TRUE, doSeek}
      BY <1>0, <1>w DEF TypeOK
    <3> QED  BY <3>1, Zenon
  <2>2. i' \in Nat \ {0} /\ entry' \in Nat \ {0}
    <3>1. i \in Nat \ {0} /\ entry \in Nat \ {0}
      BY <1>0 DEF TypeOK
    <3> QED  BY <1>w, <3>1
  <2> QED  BY <1>0, <1>w, <2>1, <2>2 DEF TypeOK
<1>2. Unique' /\ NumTablesRight' /\ Matches'
  BY <1>0, <1>w DEF Unique, NumTablesRight, Count, KeptUpTo, Writes, Matches
<1>3. SumInv'
  <2>1. i' - 1 = i /\ i' =< Len(tables) + 1 /\ entry' = Count(tables, i) + 1
    BY <1>0, <1>w, SumPlace
  <2>2. Len(directory) = Count(tables, Len(tables))
    BY <1>0, <1>w DEF SumInv
  <2>3. Count(tables', i' - 1) = Count(tables, i) /\ Count(tables', Len(tables')) = Count(tables, Len(tables))
    BY <1>w, <2>1 DEF Count, KeptUpTo, Writes
  <2> QED  BY <1>w, <2>1, <2>2, <2>3 DEF SumInv
<1> QED  BY <1>0, <1>w, <1>1, <1>2, <1>3 DEF IInv, FillInv, WriteInv

WithSum(s, n, sum) == [s EXCEPT ![n].checksum = sum]

\* What setting the checksum of one entry changes.
LEMMA SetSum ==
    ASSUME NEW s \in Seq(Entry), NEW n \in 1 .. Len(s), NEW sum \in Checksum
    PROVE  /\ WithSum(s, n, sum) \in Seq(Entry)
           /\ Len(WithSum(s, n, sum)) = Len(s)
           /\ \A k \in 1 .. Len(s) : /\ WithSum(s, n, sum)[k].tag = s[k].tag
                                     /\ WithSum(s, n, sum)[k].offset = s[k].offset
                                     /\ WithSum(s, n, sum)[k].length = s[k].length
<1> DEFINE r == WithSum(s, n, sum)
<1>1. Len(s) \in Nat /\ s \in [1 .. Len(s) -> Entry]
  BY LenProperties
<1> DEFINE e == [s[n] EXCEPT !.checksum = sum]
<1>2. e \in Entry /\ e.tag = s[n].tag /\ e.offset = s[n].offset /\ e.length = s[n].length
  BY <1>1 DEF Entry
<1>3. r = [s EXCEPT ![n] = e]
  BY DEF WithSum
<1> HIDE DEF e
<1>4. r \in Seq(Entry) /\ Len(r) = Len(s)
  BY <1>2, <1>3, ExceptSeq
<1>5. \A k \in 1 .. Len(s) : r[k] = IF k = n THEN e ELSE s[k]
  BY <1>1, <1>3
<1> QED  BY <1>2, <1>4, <1>5

\* One table is summed: only the checksum of its entry changes.
LEMMA SumNextIInv == IInv /\ SumNext => IInv'
<1> SUFFICES ASSUME IInv, SumNext PROVE IInv'
  OBVIOUS
<1> DEFINE longs == Longs(directory[entry].length)
<1>w. /\ pc = "sum" /\ pc' = "sum" /\ i =< Len(tables) /\ Writes(tables[i]) /\ i' = i + 1
      /\ entry' = entry + 1 /\ doSeek' = FALSE
      /\ directory' = WithSum(directory, entry, SumOf(ReadFrom, longs))
      /\ rpos' = ReadFrom + 4 * longs
      /\ offset' \in {offset, directory[entry].offset + HEAD_ADJUST_OFFSET}
      /\ UNCHANGED <<library, origin, before, out, wanted>>
  BY DEF SumNext, WithSum
<1>0. TypeOK /\ Unique /\ NumTablesRight /\ Matches /\ SumInv /\ state = 3
  BY <1>w DEF IInv
<1>1. /\ i \in Nat \ {0} /\ i + 1 =< Len(tables) + 1 /\ i' - 1 = i
      /\ entry \in 1 .. Len(directory) /\ entry + 1 = Count(tables, i) + 1
  BY <1>0, <1>w, SumPlace
<1>2. /\ directory \in Seq(Entry) /\ Len(directory) \in Nat /\ directory[entry] \in Entry
      /\ origin \in Nat /\ rpos \in Nat /\ offset \in Nat
  BY <1>0, <1>1, LenProperties, ElementOfSeq DEF TypeOK
<1>3. longs \in Nat /\ directory[entry].offset \in Nat
  <2>1. directory[entry].length \in Nat /\ directory[entry].offset \in Nat
    BY <1>2 DEF Entry
  <2> QED  BY ONLY <2>1 DEF Longs
<1>4. ReadFrom \in Nat
  BY <1>2, <1>3 DEF ReadFrom
<1> HIDE DEF longs
<1>5. SumOf(ReadFrom, longs) \in Checksum
  BY <1>3, <1>4 DEF SumOf, Checksum
<1>6. /\ directory' \in Seq(Entry) /\ Len(directory') = Len(directory)
      /\ \A k \in 1 .. Len(directory) : /\ directory'[k].tag = directory[k].tag
                                        /\ directory'[k].offset = directory[k].offset
                                        /\ directory'[k].length = directory[k].length
  BY <1>1, <1>2, <1>5, <1>w, SetSum
<1>7. TypeOK'
  <2>1. doSeek' \in BOOLEAN
    BY <1>w, Zenon
  <2>2. i' \in Nat \ {0} /\ entry' \in Nat \ {0} /\ rpos' \in Nat /\ offset' \in Nat
    <3>1. /\ i' = i + 1 /\ entry' = entry + 1 /\ rpos' = ReadFrom + 4 * longs
          /\ offset' \in {offset, directory[entry].offset + HEAD_ADJUST_OFFSET}
      BY <1>w
    <3>2. i \in Nat /\ entry \in Nat /\ offset \in Nat
      BY <1>1, <1>2
    <3> QED  BY ONLY <1>3, <1>4, <3>1, <3>2 DEF HEAD_ADJUST_OFFSET
  <2>3. /\ pc' = "sum" /\ state' = state /\ callbacks' = callbacks /\ tables' = tables
        /\ numTables' = numTables /\ origin' = origin /\ before' = before
        /\ out' = out /\ wanted' = wanted
    BY <1>w
  <2> QED  BY ONLY <1>0, <1>6, <2>1, <2>2, <2>3 DEF TypeOK
<1>8. Unique' /\ NumTablesRight'
  BY <1>0, <1>w DEF Unique, NumTablesRight, Count, KeptUpTo, Writes
<1>9. Matches'
  BY <1>0, <1>w, <1>6 DEF Matches
<1>10. SumInv'
  <2>1. Len(directory') = Count(tables, Len(tables)) /\ entry' = Count(tables, i) + 1
    BY <1>0, <1>1, <1>6, <1>w DEF SumInv
  <2>2. Count(tables', i' - 1) = Count(tables, i)
        /\ Count(tables', Len(tables')) = Count(tables, Len(tables))
    BY <1>w, <1>1 DEF Count, KeptUpTo, Writes
  <2> QED  BY <1>1, <1>w, <2>1, <2>2 DEF SumInv
<1> QED  BY <1>0, <1>w, <1>7, <1>8, <1>9, <1>10 DEF IInv, FillInv, WriteInv

-----------------------------------------------------------------------------
(* sfwWriteTables: the header.                                             *)

\* The header is the sorted directory: it describes the tables on the stream.
LEMMA WriteHdrIInv == IInv /\ WriteHdr => IInv'
<1> SUFFICES ASSUME IInv, WriteHdr PROVE IInv'
  OBVIOUS
<1> DEFINE Placed == [tag : Tags, at : Nat, length : Nat]
           D == SubSeq(directory, 1, numTables)
           R == SubSeq(directory, numTables + 1, Len(directory))
<1>w. /\ pc = "sum" /\ pc' = "close" /\ i > Len(tables)
      /\ UNCHANGED <<library, i, entry, origin, before, doSeek, rpos, offset, wanted>>
  BY DEF WriteHdr
<1>0. TypeOK /\ Unique /\ NumTablesRight /\ Matches /\ SumInv /\ state = 3
  BY <1>w DEF IInv
<1>1. PICK hdr \in Sorted(D, EntryTag, EntryTag) :
         /\ directory' = hdr \o R
         /\ out' = [out EXCEPT !.header = hdr,
                               !.adjusted = IF offset = 0 THEN 0 ELSE origin + offset]
  BY DEF WriteHdr
<1>2. /\ hdr \in Reordered(D)
      /\ \A k, l \in DOMAIN hdr : k < l => \/ hdr[k].tag < hdr[l].tag
                                           \/ hdr[k].tag = hdr[l].tag /\ hdr[k].tag =< hdr[l].tag
  BY DEF Sorted, EntryTag
<1>3. /\ directory \in Seq(Entry) /\ Len(directory) \in Nat /\ numTables \in Nat
      /\ origin \in Nat /\ offset \in Nat
  BY <1>0, LenProperties DEF TypeOK
<1>4. numTables =< Len(directory) /\ ("refill" \notin Forms => numTables = Len(directory))
  BY <1>0, <1>w DEF NumTablesRight, SumInv
<1>5. /\ D \in Seq(Entry) /\ Len(D) = numTables
      /\ \A k \in 1 .. numTables : D[k] = directory[k]
      /\ R \in Seq(Entry)
  BY <1>3, <1>4, SubSeqProperties
<1> HIDE DEF D, R
<1>6. /\ hdr \in Seq(Entry) /\ Len(hdr) = numTables
      /\ \E p \in Bijection(1 .. numTables, 1 .. numTables) :
            \A k \in 1 .. numTables : hdr[k] = D[p[k]]
  BY <1>2, <1>5, ReorderedProperties
<1>7. directory' \in Seq(Entry)
  BY <1>1, <1>5, <1>6, ConcatProperties
<1> DEFINE adj == IF offset = 0 THEN 0 ELSE origin + offset
<1>8. /\ out.tables \in Seq(Placed) /\ out.origin \in Nat
      /\ out = [origin |-> out.origin, tables |-> out.tables, header |-> out.header,
                adjusted |-> out.adjusted, own |-> out.own]
      /\ out.own \in SUBSET Tags
  BY <1>0 DEF TypeOK
<1>9. out' = [origin |-> out.origin, tables |-> out.tables, header |-> hdr, adjusted |-> adj,
              own |-> out.own]
  BY <1>1, <1>8
<1>10. TypeOK'
  <2>1. adj \in Nat
    BY <1>3
  <2>2. out' \in [origin : Nat, tables : Seq(Placed), header : Seq(Entry), adjusted : Nat,
                  own : SUBSET Tags]
    BY <1>6, <1>8, <1>9, <2>1
  <2> QED  BY <1>0, <1>w, <1>7, <2>2 DEF TypeOK
<1>11. Unique' /\ NumTablesRight'
  BY <1>0, <1>w DEF Unique, NumTablesRight, Count, KeptUpTo, Writes
<1>12. ASSUME "refill" \notin Forms PROVE Describes(out')
  <2> DEFINE n == numTables
             Seen(e) == [tag |-> e.tag, at |-> out.origin + e.offset, length |-> e.length]
  <2>1. /\ n = Len(directory) /\ n = Len(out.tables) /\ n \in Nat
        /\ out'.header = hdr /\ out'.tables = out.tables /\ out'.origin = out.origin
        /\ DOMAIN hdr = 1 .. n /\ DOMAIN out.tables = 1 .. n
    BY <1>0, <1>3, <1>4, <1>6, <1>8, <1>9, <1>12, LenProperties DEF Matches
  <2>2. PICK p \in Bijection(1 .. n, 1 .. n) : \A k \in 1 .. n : hdr[k] = D[p[k]]
    BY <1>6
  <2>3. /\ p \in [1 .. n -> 1 .. n]
        /\ \A k, l \in 1 .. n : p[k] = p[l] => k = l
        /\ \A l \in 1 .. n : \E k \in 1 .. n : p[k] = l
    BY <2>2 DEF Bijection, Injection, IsInjective, Surjection
  <2>4. \A k \in 1 .. n : hdr[k] = directory[p[k]]
    BY <1>5, <2>2, <2>3
  <2>5. \A k \in 1 .. n : Seen(directory[k]) = out.tables[k]
    <3>1. ASSUME NEW k \in 1 .. n PROVE Seen(directory[k]) = out.tables[k]
      <4>1. out.tables[k] \in Placed
        BY <1>8, <2>1, ElementOfSeq
      <4>2. /\ directory[k].tag = out.tables[k].tag
            /\ out.origin + directory[k].offset = out.tables[k].at
            /\ directory[k].length = out.tables[k].length
        BY <1>0, <2>1 DEF Matches
      <4> QED  BY <4>1, <4>2
    <3> QED  BY <3>1
  <2>6. {Seen(hdr[k]) : k \in 1 .. n} = {out.tables[k] : k \in 1 .. n}
    <3>1. \A k \in 1 .. n : Seen(hdr[k]) = out.tables[p[k]]
      BY <2>3, <2>4, <2>5
    <3> HIDE DEF Seen
    <3>2. ASSUME NEW k \in 1 .. n PROVE Seen(hdr[k]) \in {out.tables[l] : l \in 1 .. n}
      <4>1. p[k] \in 1 .. n
        BY <2>3
      <4> QED  BY <3>1, <4>1
    <3>3. ASSUME NEW l \in 1 .. n PROVE out.tables[l] \in {Seen(hdr[k]) : k \in 1 .. n}
      <4>1. PICK k \in 1 .. n : p[k] = l
        BY <2>3
      <4> QED  BY <3>1, <4>1
    <3> QED  BY <3>2, <3>3
  <2>7. {Seen(e) : e \in Elements(hdr)} = Elements(out.tables)
    <3>1. Elements(hdr) = {hdr[k] : k \in 1 .. n} /\ Elements(out.tables) = {out.tables[k] : k \in 1 .. n}
      BY <2>1 DEF Elements
    <3> HIDE DEF Seen
    <3>2. {Seen(e) : e \in {hdr[k] : k \in 1 .. n}} = {Seen(hdr[k]) : k \in 1 .. n}
      BY Zenon
    <3> QED  BY <2>6, <3>1, <3>2
  <2>8. \A k, l \in 1 .. n : k < l => hdr[k].tag < hdr[l].tag
    <3>1. ASSUME NEW k \in 1 .. n, NEW l \in 1 .. n, k < l PROVE hdr[k].tag # hdr[l].tag
      <4>1. p[k] \in 1 .. n /\ p[l] \in 1 .. n /\ p[k] # p[l]
        <5>1. k # l
          BY ONLY <3>1, <2>1
        <5> QED  BY ONLY <2>3, <5>1
      <4>2. directory[p[k]].tag # directory[p[l]].tag
        BY <1>0, <2>1, <4>1 DEF Matches
      <4> QED  BY <2>4, <4>2
    <3> QED  BY <1>2, <2>1, <3>1
  <2> QED  BY <1>6, <2>1, <2>7, <2>8 DEF Describes
<1> QED  BY <1>0, <1>w, <1>10, <1>11, <1>12 DEF IInv, FillInv, WriteInv, SumInv

\* A step of something else.
LEMMA StutterIInv == IInv /\ UNCHANGED vars => IInv'
<1> SUFFICES ASSUME IInv, UNCHANGED vars PROVE IInv'
  OBVIOUS
<1>1. TypeOK' /\ Unique' /\ (Matches <=> Matches') /\ (Describes(out') <=> Describes(out))
  BY DEF IInv, TypeOK, Unique, Matches
<1>2. /\ NumTablesRight <=> NumTablesRight'
      /\ FillInv <=> FillInv'
      /\ WriteInv <=> WriteInv'
      /\ SumInv <=> SumInv'
  BY DEF NumTablesRight, Count, KeptUpTo, Writes, FillInv, WriteInv, SumInv
<1> QED  BY <1>1, <1>2 DEF IInv

\* The calls that leave the stream end, well or not.
LEMMA CloseIInv == IInv /\ (Written \/ StreamFails \/ RaiseUnhandled \/ Raised) => IInv'
<1> SUFFICES ASSUME IInv PROVE (Written \/ StreamFails \/ RaiseUnhandled \/ Raised) => IInv'
  OBVIOUS
<1>0. TypeOK /\ Unique /\ (state = 3 /\ pc # "fill" => NumTablesRight)
  BY DEF IInv
<1>1. CASE Written
  <2>1. TypeOK'
    BY <1>0, <1>1, ReturnType DEF Written, TypeOK
  <2>2. Unique' /\ pc' = "idle" /\ i' = 1 /\ directory' = <<>> /\ state' = 4
    BY <1>0, <1>1 DEF Written, Return, Unique
  <2>3. "refill" \notin Forms => Describes(out')
    BY <1>1 DEF Written, IInv
  <2> QED  BY <2>1, <2>2, <2>3 DEF IInv, FillInv, WriteInv, SumInv
<1>2. CASE StreamFails
  <2>1. TypeOK'
    BY <1>0, <1>2, ReturnType DEF StreamFails, TypeOK
  <2>2. Unique' /\ pc' = "idle" /\ i' = 1 /\ directory' = <<>> /\ state' = 3 /\ NumTablesRight'
    BY <1>0, <1>2 DEF StreamFails, Return, Unique, IInv, NumTablesRight, Count, KeptUpTo, Writes
  <2> QED  BY <2>1, <2>2 DEF IInv, FillInv, WriteInv, SumInv
<1>3. CASE RaiseUnhandled
  <2>1. TypeOK' /\ Unique'
    BY <1>0, <1>3 DEF RaiseUnhandled, TypeOK, Unique
  <2>2. pc' = "raised" /\ i' = 1 /\ directory' = <<>> /\ (state' = 3 => NumTablesRight')
    BY <1>0, <1>3 DEF RaiseUnhandled, IInv, NumTablesRight, Count, KeptUpTo, Writes
  <2> QED  BY <2>1, <2>2 DEF IInv, FillInv, WriteInv, SumInv
<1>4. CASE Raised
  BY <1>4, StutterIInv DEF Raised
<1> QED  BY <1>1, <1>2, <1>3, <1>4

-----------------------------------------------------------------------------
\* The strengthened invariant holds of every behaviour.
THEOREM Invariance == Spec => []IInv
<1>1. ASSUME IInv, [Next]_vars PROVE IInv'
  <2>1. CASE UNCHANGED vars
    BY <1>1, <2>1, StutterIInv
  <2>2. CASE Next
    BY <1>1, <2>2, RegisterIInv, NewTablesIInv, ReuseTablesIInv, FillTablesIInv, FillNextIInv,
       FillAbortedIInv, FillDoneIInv, WriteTablesIInv, WriteNextIInv, WriteSkippedIInv,
       WriteFailsIInv, WriteDoneIInv, SumOwnIInv, SumNextIInv, WriteHdrIInv, CloseIInv
       DEF Next, Running, Failing
  <2> QED  BY <1>1, <2>1, <2>2
<1> QED  BY <1>1, InitIInv, PTL DEF Spec

\* The types; that no offset of a directory entry is negative is the point of it.
THEOREM TypeCorrect == Spec => []TypeOK
<1>1. IInv => TypeOK
  BY DEF IInv
<1> QED  BY <1>1, Invariance, PTL

\* A font that was written has a header that describes its tables, whatever calls were
\* aborted or failed before, as long as no client fills again before writing.
THEOREM HeaderCorrect == ("refill" \notin Forms) => (Spec => []HeaderDescribes)
<1> SUFFICES ASSUME "refill" \notin Forms PROVE Spec => []HeaderDescribes
  OBVIOUS
<1>1. IInv => HeaderDescribes
  BY DEF IInv, HeaderDescribes, HasWritten
<1> QED  BY <1>1, Invariance, PTL

-----------------------------------------------------------------------------
(* The bytes on the stream *)

\* No client withdraws a checksum: then a flag that is set was set again by the last call.
Kept == "withdrawn" \notin Forms

\* Of the first n tables, those written have the entry of their count, and say whether
\* the client summed them in this sfwWriteTables.
InPlace(n) ==
    \A k \in 1 .. n : Writes(tables[k]) =>
        /\ directory[Count(tables, k)].tag = tables[k].cb
        /\ tables[k].cb \in out.own => "USE_CHECKSUM" \in tables[k].flags
        /\ Kept /\ "USE_CHECKSUM" \in tables[k].flags => tables[k].cb \in out.own

\* Where the table behind the first n on the stream goes.
Behind(n) ==
    IF n = 0 THEN out.origin + DirSize
    ELSE out.tables[n].at + 4 * Longs(out.tables[n].length)

\* Tables follow each other on the stream without gaps.
Chained == \A k \in 1 .. Len(out.tables) : out.tables[k].at = Behind(k - 1)

\* The stream is behind the last table, at a multiple of 4.
AtEnd == before = Behind(Len(out.tables)) /\ before % 4 = 0

\* The checksum an entry should have in an sfnt at a stream position, some of whose tables
\* have a checksum of their own.
RightSum(e, at, own) ==
    IF e.tag \in own THEN ClientSum(e.tag) ELSE SumOf(at + e.offset, Longs(e.length))

\* The client's checksums are in the directory from the start, those of the library
\* for the entries before n.
SummedTo(n) ==
    \A k \in 1 .. Len(directory) :
        (k < n /\ Kept) \/ directory[k].tag \in out.own =>
            directory[k].checksum = RightSum(directory[k], origin, out.own)

\* Only tables that were written have a checksum of their own.
OwnWritten == \A tag \in out.own : \E k \in 1 .. Len(directory) : directory[k].tag = tag

\* The next entry need not be sought if the stream is at its table.
NextRead ==
    ~ doSeek /\ entry =< Len(directory) => rpos = origin + directory[entry].offset

\* The adjustment goes into the head table, if it is among the entries summed so far.
OffsetRight ==
    /\ \A k \in 1 .. Len(directory) :
          Kept /\ k < entry /\ directory[k].tag = HeadTag /\ HeadTag \notin out.own =>
              offset = directory[k].offset + HEAD_ADJUST_OFFSET
    /\ offset # 0 => \E k \in 1 .. Len(directory) :
                        k < entry /\ directory[k].tag = HeadTag /\ HeadTag \notin out.own

SumsOf(o) == Kept => \A e \in Elements(o.header) : e.checksum = RightSum(e, o.origin, o.own)

AdjustedOf(o) ==
    /\ \A k \in 1 .. Len(o.tables) :
          Kept /\ o.tables[k].tag = HeadTag /\ HeadTag \notin o.own =>
              o.adjusted = o.tables[k].at + HEAD_ADJUST_OFFSET
    /\ o.adjusted # 0 => \E k \in 1 .. Len(o.tables) :
                            o.tables[k].tag = HeadTag /\ HeadTag \notin o.own

LayoutInv ==
    /\ pc \in {"write", "sum", "close"} => Chained
    /\ pc = "write" => AtEnd /\ InPlace(i - 1) /\ SummedTo(1) /\ OwnWritten
    /\ pc = "sum" => InPlace(Len(tables)) /\ SummedTo(entry) /\ NextRead /\ OffsetRight
    /\ pc = "close" \/ (state = 4 /\ pc \in {"idle", "fill"}) =>
          SumsOf(out) /\ AdjustedOf(out)

-----------------------------------------------------------------------------
(* Positions and elements. *)

\* Padding to a multiple of 4 is rounding the length up to 4-byte numbers.
LEMMA AlignedLongs ==
    ASSUME NEW b \in Nat, NEW n \in Nat, b % 4 = 0
    PROVE  /\ Aligned(b + n) = b + 4 * Longs(n)
           /\ (b + 4 * Longs(n)) % 4 = 0
           /\ Longs(n) \in Nat
<1>1. PICK q \in Nat : b = 4 * q
  <2>1. b = 4 * (b \div 4) + (b % 4) /\ b \div 4 \in Nat
    OBVIOUS
  <2> QED  BY <2>1
<1>2. PICK m \in Nat : \E r \in 0 .. 3 : n = 4 * m + r
  <2>1. n = 4 * (n \div 4) + (n % 4) /\ n \div 4 \in Nat /\ n % 4 \in 0 .. 3
    OBVIOUS
  <2> QED  BY <2>1
<1>3. PICK r \in 0 .. 3 : n = 4 * m + r
  BY <1>2
<1>4. Longs(n) = IF r = 0 THEN m ELSE m + 1
  BY <1>3 DEF Longs
<1>5. (b + n) % 4 = r
  BY <1>1, <1>3
<1>6. Aligned(b + n) = b + n + (IF r = 0 THEN 0 ELSE 4 - r)
  BY <1>3, <1>5 DEF Aligned
<1>7. Aligned(b + n) = b + 4 * Longs(n)
  BY <1>1, <1>3, <1>4, <1>6
<1>8. (b + 4 * Longs(n)) % 4 = 0
  <2>1. b + 4 * Longs(n) = 4 * (q + Longs(n)) /\ q + Longs(n) \in Nat
    BY <1>1, <1>4
  <2> QED  BY <2>1
<1> QED  BY <1>4, <1>7, <1>8

\* So are the header and its directory.
LEMMA DirectoryMultiple ==
    ASSUME NEW o \in Nat, NEW n \in Nat, o % 4 = 0
    PROVE  (o + (12 + 16 * n)) % 4 = 0
<1>1. PICK q \in Nat : o = 4 * q
  <2>1. o = 4 * (o \div 4) + (o % 4) /\ o \div 4 \in Nat
    OBVIOUS
  <2> QED  BY <2>1
<1>2. o + (12 + 16 * n) = 4 * (q + 3 + 4 * n) /\ q + 3 + 4 * n \in Nat
  BY <1>1
<1> QED  BY <1>2

\* The flag of a table whose callback answered says that it has a checksum of its own, if
\* it has one; and only then, unless a checksum was withdrawn.
LEMMA CallbackFlags ==
    ASSUME TypeOK, i =< Len(tables), NEW own \in Answers,
           tables' = WithFlags(tables, i, FlagsAfterCallback(own))
    PROVE  /\ own => "USE_CHECKSUM" \in tables'[i].flags
           /\ Kept /\ "USE_CHECKSUM" \in tables'[i].flags => own
           /\ \A k \in 1 .. Len(tables) : k # i => tables'[k].flags = tables[k].flags
<1> DEFINE F == FlagsAfterCallback(own)
<1>1. /\ i \in 1 .. Len(tables) /\ Len(tables) \in Nat /\ tables \in Seq(Table)
      /\ tables[i] \in Table
  BY LenProperties, ElementOfSeq DEF TypeOK
<1>2. /\ F \in SUBSET Flags
      /\ own => "USE_CHECKSUM" \in F
      /\ Kept /\ "USE_CHECKSUM" \in F => own
  BY <1>1 DEF FlagsAfterCallback, Answers, Kept, Table, Flags
<1>3. tables' = WithFlags(tables, i, F)
  OBVIOUS
<1> HIDE DEF F
<1>4. \A k \in 1 .. Len(tables) : tables'[k].flags = IF k = i THEN F ELSE tables[k].flags
  BY <1>1, <1>2, <1>3, SetFlags
<1> QED  BY <1>1, <1>2, <1>4

\* Setting a checksum changes that of one entry.
LEMMA SetSumCell ==
    ASSUME NEW s \in Seq(Entry), NEW n \in 1 .. Len(s), NEW sum
    PROVE  \A k \in 1 .. Len(s) :
              WithSum(s, n, sum)[k].checksum = IF k = n THEN sum ELSE s[k].checksum
<1>1. Len(s) \in Nat /\ s \in [1 .. Len(s) -> Entry]
  BY LenProperties
<1> DEFINE e == [s[n] EXCEPT !.checksum = sum]
<1>2. e.checksum = sum
  BY <1>1 DEF Entry
<1>3. WithSum(s, n, sum) = [s EXCEPT ![n] = e]
  BY DEF WithSum
<1> HIDE DEF e
<1>4. \A k \in 1 .. Len(s) : WithSum(s, n, sum)[k] = IF k = n THEN e ELSE s[k]
  BY <1>1, <1>3
<1> QED  BY <1>2, <1>4

-----------------------------------------------------------------------------
(* The calls outside of sfwWriteTables. *)

\* Calls that end, or that do not write, say nothing new about an sfnt.
LEMMA QuietLayout ==
    ASSUME LayoutInv, pc' \in {"idle", "fill", "raised"},
           state' = 4 /\ pc' # "raised" =>
               out' = out /\ (pc = "close" \/ (state = 4 /\ pc \in {"idle", "fill"}))
    PROVE  LayoutInv'
<1>1. out' = out /\ SumsOf(out) /\ AdjustedOf(out) => SumsOf(out') /\ AdjustedOf(out')
  OBVIOUS
<1> QED  BY <1>1 DEF LayoutInv

\* In the beginning there is no layout.
LEMMA InitLayout == Init => LayoutInv
BY DEF Init, LayoutInv

\* Registering, making the table list, reusing tables, filling.
LEMMA FillLayout ==
    ASSUME IInv, LayoutInv,
           \/ Register \/ NewTables \/ ReuseTables
           \/ FillTables \/ FillNext \/ FillAborted \/ FillDone
    PROVE  LayoutInv'
<1>1. CASE Register \/ NewTables \/ ReuseTables
  <2>1. pc' = "idle" /\ state' \in {0, 1, 2}
    BY <1>1 DEF Register, NewTables, ReuseTables, IInv, TypeOK
  <2> QED  BY <2>1, QuietLayout
<1>2. CASE FillTables \/ FillNext
  <2>1. pc \in {"idle", "fill"} /\ pc' = "fill" /\ state' = state /\ out' = out
    BY <1>2 DEF FillTables, FillNext
  <2> QED  BY <2>1, QuietLayout
<1>3. CASE FillAborted \/ FillDone
  <2>1. pc = "fill" /\ pc' = "idle" /\ (state' = 3 \/ (state' = state /\ out' = out))
    BY <1>3 DEF FillAborted, FillDone, Return
  <2> QED  BY <2>1, QuietLayout
<1> QED  BY <1>1, <1>2, <1>3

\* sfwWriteTables ends, well or not.
LEMMA EndLayout ==
    ASSUME IInv, LayoutInv, Written \/ StreamFails \/ WriteFails \/ RaiseUnhandled
    PROVE  LayoutInv'
<1>1. pc' \in {"idle", "raised"}
  BY DEF Written, StreamFails, WriteFails, RaiseUnhandled, Return
<1>2. state' = 4 /\ pc' # "raised" => out' = out /\ pc = "close"
  BY DEF Written, StreamFails, WriteFails, RaiseUnhandled, IInv
<1> QED  BY <1>1, <1>2, QuietLayout

-----------------------------------------------------------------------------
(* sfwWriteTables: writing. *)

\* Counting depends on which tables are written alone.
LEMMA CountSame ==
    ASSUME NEW s, NEW t, NEW n, \A k \in 1 .. n : Writes(s[k]) <=> Writes(t[k])
    PROVE  Count(s, n) = Count(t, n)
<1>1. KeptUpTo(s, n) = KeptUpTo(t, n)
  BY DEF KeptUpTo
<1> QED  BY <1>1 DEF Count

\* The count of a table that is written is the place of an entry.
LEMMA CountPlace ==
    ASSUME NEW s, NEW k \in Nat \ {0}, NEW n \in Nat, k =< n, Writes(s[k])
    PROVE  Count(s, k) \in 1 .. Count(s, n)
<1>1. k - 1 \in Nat /\ k \in Nat
  OBVIOUS
<1>2. Count(s, k) = Count(s, k - 1) + 1 /\ Count(s, k - 1) \in Nat /\ Count(s, n) \in Nat
  BY <1>1, CountStep, CountType
<1>3. Count(s, k) =< Count(s, n)
  BY <1>1, CountMonotonic
<1> QED  BY <1>2, <1>3

\* The stream is behind the header.
LEMMA WriteTablesLayout ==
    ASSUME \A o \in Origins : o % 4 = 0, IInv, LayoutInv, WriteTables
    PROVE  LayoutInv'
<1>1. /\ pc = "idle" /\ pc' = "write" /\ i' = i /\ directory' = directory
      /\ numTables' = numTables /\ state' = 3
      /\ origin' \in Origins /\ before' = origin' + DirSize
      /\ tables' \in Reordered(tables) /\ out' = [Nothing EXCEPT !.origin = origin']
  BY DEF WriteTables, Sorted
<1>2. i = 1 /\ directory = <<>> /\ tables \in Seq(Table) /\ numTables \in Nat
  BY <1>1 DEF IInv, TypeOK
<1>4. /\ out'.tables = <<>> /\ Len(out'.tables) = 0 /\ Len(directory') = 0
      /\ out'.origin = origin' /\ out'.own = {}
  BY <1>1, <1>2 DEF Nothing
<1>5. Chained' /\ InPlace(i - 1)' /\ SummedTo(1)' /\ OwnWritten'
  BY <1>1, <1>2, <1>4 DEF Chained, InPlace, SummedTo, OwnWritten
<1>6. AtEnd'
  <2>1. Behind(Len(out.tables))' = origin' + DirSize
    BY <1>1, <1>4 DEF Behind, DirSize
  <2>2. (origin' + DirSize) % 4 = 0
    <3>1. origin' \in Nat /\ origin' % 4 = 0
      BY <1>1, SfntAssumption
    <3>2. DirSize = 12 + 16 * numTables
      BY DEF DirSize, HDR_SIZE, ENTRY_SIZE
    <3> QED  BY <1>2, <3>1, <3>2, DirectoryMultiple
  <2> QED  BY <1>1, <2>1, <2>2 DEF AtEnd
<1> QED  BY <1>1, <1>5, <1>6 DEF LayoutInv

\* One table is written behind the last, and its entry is the one counted.
LEMMA WriteNextLayout ==
    ASSUME IInv, LayoutInv, WriteNext
    PROVE  LayoutInv'
<1> DEFINE n == Len(directory)
           PlacedTable == [tag : Tags, at : Nat, length : Nat]
           E(m, own) == [tag |-> tables[i].cb, checksum |-> SumAfterCallback(own),
                         offset |-> EntryOffset, length |-> m]
           T(m) == [tag |-> tables[i].cb, at |-> before, length |-> m]
           S(own) == IF own THEN out.own \cup {tables[i].cb} ELSE out.own
<1>w. /\ pc = "write" /\ pc' = "write" /\ i =< Len(tables) /\ Writes(tables[i]) /\ i' = i + 1
      /\ origin' = origin /\ numTables' = numTables /\ state' = state
  BY DEF WriteNext
<1>0. /\ TypeOK /\ Unique /\ Matches /\ WriteInv /\ state = 3
      /\ Chained /\ AtEnd /\ InPlace(i - 1) /\ SummedTo(1) /\ OwnWritten
  BY <1>w DEF IInv, LayoutInv
<1>1. PICK length \in Lengths, own \in Answers :
         /\ directory' = Append(directory, E(length, own))
         /\ before' = Aligned(before + length)
         /\ tables' = WithFlags(tables, i, FlagsAfterCallback(own))
         /\ out' = [out EXCEPT !.tables = Append(@, T(length)), !.own = S(own)]
  BY DEF WriteNext, WithFlags
<1>b. own \in BOOLEAN
  BY DEF Answers
<1> DEFINE e == E(length, own)
           t == T(length)
           supplied == S(own)
<1>2. /\ i \in Nat \ {0} /\ i - 1 \in Nat /\ i' - 1 = i /\ length \in Nat /\ before \in Nat
      /\ i \in 1 .. Len(tables) /\ Len(tables) \in Nat /\ n \in Nat
      /\ Len(out.tables) = n /\ before = Behind(n) /\ before % 4 = 0
  <2>1. i \in Nat \ {0} /\ tables \in Seq(Table) /\ before \in Nat /\ directory \in Seq(Entry)
    BY <1>0 DEF TypeOK
  <2>2. length \in Nat
    BY SfntAssumption
  <2> QED  BY <1>0, <1>w, <2>1, <2>2, LenProperties DEF Matches, AtEnd
<1>3. /\ e.tag = tables[i].cb /\ e.checksum = SumAfterCallback(own)
      /\ t.at = before /\ t.length = length
      /\ supplied = IF own THEN out.own \cup {tables[i].cb} ELSE out.own
  OBVIOUS
<1>4. /\ out' = [out EXCEPT !.tables = Append(out.tables, t), !.own = supplied]
      /\ directory' = Append(directory, e)
  BY <1>1
<1> HIDE DEF e, t, supplied
<1>5. /\ Len(directory') = n + 1
      /\ \A k \in 1 .. n : directory'[k] = directory[k]
      /\ directory'[n + 1] = e
  BY <1>4 DEF TypeOK
<1>6. /\ out.tables \in Seq(PlacedTable) /\ out'.tables = Append(out.tables, t)
      /\ out'.origin = out.origin /\ out'.own = supplied
  BY <1>0, <1>4 DEF TypeOK
<1>7. /\ Len(out'.tables) = n + 1
      /\ \A k \in 1 .. n : out'.tables[k] = out.tables[k]
      /\ out'.tables[n + 1] = t
  BY <1>2, <1>6
<1>8. /\ Len(tables') = Len(tables)
      /\ \A k \in 1 .. Len(tables) : tables'[k].cb = tables[k].cb
      /\ \A k \in 1 .. Len(tables) : Writes(tables'[k]) <=> Writes(tables[k])
  BY <1>0, <1>1, <1>b, <1>w, FlagsKept
<1>9. /\ own => "USE_CHECKSUM" \in tables'[i].flags
      /\ Kept /\ "USE_CHECKSUM" \in tables'[i].flags => own
      /\ \A k \in 1 .. Len(tables) : k # i => tables'[k].flags = tables[k].flags
  BY <1>0, <1>1, <1>w, CallbackFlags
<1>a. /\ tables[i].cb \in supplied <=> own
      /\ \A k \in 1 .. n : directory[k].tag \in supplied <=> directory[k].tag \in out.own
      /\ \A k \in 1 .. Len(tables) : k # i =>
            (tables[k].cb \in supplied <=> tables[k].cb \in out.own)
  <2>1. \A k \in 1 .. n : directory[k].tag # tables[i].cb
    <3>1. ASSUME NEW k \in 1 .. n, directory[k].tag = tables[i].cb PROVE FALSE
      <4>1. PICK l \in 1 .. i - 1 : directory[k].tag = tables[l].cb
        BY <1>0, <1>w DEF WriteInv
      <4>2. l \in 1 .. Len(tables) /\ l # i
        BY <1>2
      <4> QED  BY <1>0, <1>2, <3>1, <4>1, <4>2 DEF Unique
    <3> QED  BY <3>1
  <2>2. tables[i].cb \notin out.own
    BY <1>0, <2>1 DEF OwnWritten
  <2>3. \A k \in 1 .. Len(tables) : k # i => tables[k].cb # tables[i].cb
    BY <1>0, <1>2 DEF Unique
  <2> QED  BY <1>3, <1>b, <2>1, <2>2, <2>3
<1> HIDE DEF n
<1>10. \A k \in 0 .. n : Behind(k)' = Behind(k)
  BY <1>2, <1>6, <1>7, <1>w DEF Behind, DirSize
<1>11. Chained'
  <2> SUFFICES ASSUME NEW k \in 1 .. n + 1 PROVE out'.tables[k].at = Behind(k - 1)'
    BY <1>7 DEF Chained
  <2>1. k - 1 \in 0 .. n /\ Behind(k - 1)' = Behind(k - 1)
    BY <1>2, <1>10
  <2>2. CASE k \in 1 .. n
    BY <1>0, <1>2, <1>7, <2>1, <2>2 DEF Chained
  <2>3. CASE k = n + 1
    BY <1>2, <1>3, <1>7, <2>1, <2>3
  <2> QED  BY <1>2, <2>2, <2>3
<1>12. AtEnd'
  <2>1. before' = before + 4 * Longs(length) /\ before' % 4 = 0
    BY <1>1, <1>2, AlignedLongs
  <2>2. Behind(Len(out.tables))' = t.at + 4 * Longs(t.length)
    BY <1>2, <1>7 DEF Behind
  <2> QED  BY <1>3, <2>1, <2>2 DEF AtEnd
<1>13. InPlace(i - 1)'
  <2> SUFFICES ASSUME NEW k \in 1 .. i, Writes(tables'[k])
               PROVE  /\ directory'[Count(tables', k)].tag = tables'[k].cb
                      /\ tables'[k].cb \in supplied => "USE_CHECKSUM" \in tables'[k].flags
                      /\ Kept /\ "USE_CHECKSUM" \in tables'[k].flags =>
                            tables'[k].cb \in supplied
    BY <1>2, <1>6 DEF InPlace
  <2>1. k \in Nat \ {0} /\ k \in 1 .. Len(tables) /\ Count(tables', k) = Count(tables, k)
    BY <1>2, <1>8, CountSame
  <2>2. Writes(tables[k]) /\ tables'[k].cb = tables[k].cb
    BY <1>8, <2>1
  <2>3. Count(tables, i - 1) = n
    BY <1>0, <1>w DEF WriteInv, n
  <2>4. CASE k = i
    <3>1. Count(tables, i) = n + 1
      BY <1>2, <1>w, <2>3, CountStep
    <3> QED  BY <1>3, <1>5, <1>9, <1>a, <2>1, <2>2, <2>4, <3>1
  <2>5. CASE k # i
    <3>1. k =< i - 1 /\ k \in 1 .. i - 1
      BY <1>2, <2>1, <2>5
    <3>2. Count(tables, k) \in 1 .. n
      BY <1>2, <2>1, <2>2, <2>3, <3>1, CountPlace
    <3>3. /\ directory[Count(tables, k)].tag = tables[k].cb
          /\ tables[k].cb \in out.own => "USE_CHECKSUM" \in tables[k].flags
          /\ Kept /\ "USE_CHECKSUM" \in tables[k].flags => tables[k].cb \in out.own
      BY <1>0, <2>2, <3>1 DEF InPlace
    <3> QED  BY <1>5, <1>9, <1>a, <2>1, <2>2, <2>5, <3>2, <3>3
  <2> QED  BY <2>4, <2>5
<1>14. SummedTo(1)'
  <2> SUFFICES ASSUME NEW k \in 1 .. n + 1, directory'[k].tag \in supplied
               PROVE  directory'[k].checksum = ClientSum(directory'[k].tag)
    BY <1>5, <1>6 DEF SummedTo, RightSum
  <2>1. CASE k \in 1 .. n
    BY <1>0, <1>5, <1>a, <2>1 DEF SummedTo, RightSum, n
  <2>2. CASE k = n + 1
    BY <1>3, <1>5, <1>a, <2>2 DEF SumAfterCallback
  <2> QED  BY <1>2, <2>1, <2>2
<1>15. OwnWritten'
  <2> SUFFICES ASSUME NEW tag \in supplied
               PROVE  \E k \in 1 .. n + 1 : directory'[k].tag = tag
    BY <1>5, <1>6 DEF OwnWritten
  <2>1. CASE tag \in out.own
    BY <1>0, <1>2, <1>5, <2>1 DEF OwnWritten, n
  <2>2. CASE tag = tables[i].cb
    BY <1>2, <1>3, <1>5, <2>2
  <2> QED  BY <1>3, <2>1, <2>2
<1> QED  BY <1>0, <1>w, <1>11, <1>12, <1>13, <1>14, <1>15 DEF LayoutInv

\* A table that is not written has no entry.
LEMMA WriteSkippedLayout ==
    ASSUME IInv, LayoutInv, WriteSkipped
    PROVE  LayoutInv'
<1>1. /\ pc = "write" /\ pc' = "write" /\ ~ Writes(tables[i]) /\ i' = i + 1
      /\ UNCHANGED <<library, directory, origin, before, out>>
  BY DEF WriteSkipped
<1>2. /\ Chained /\ AtEnd /\ InPlace(i - 1) /\ SummedTo(1) /\ OwnWritten
      /\ i \in Nat \ {0}
  BY <1>1 DEF IInv, TypeOK, LayoutInv
<1>3. SummedTo(1)' /\ OwnWritten'
  BY <1>1, <1>2 DEF SummedTo, RightSum, OwnWritten
<1>4. Chained' /\ AtEnd'
  BY <1>1, <1>2 DEF Chained, AtEnd, Behind, DirSize
<1>5. InPlace(i - 1)'
  <2>1. \A k \in 1 .. i : k \in 1 .. i - 1 \/ k = i
    BY <1>2
  <2>2. i' - 1 = i
    BY <1>1, <1>2
  <2>3. \A k \in 1 .. i : Count(tables', k) = Count(tables, k)
    BY <1>1, CountSame
  <2>4. \A k \in 1 .. i : Writes(tables[k]) =>
           /\ directory[Count(tables, k)].tag = tables[k].cb
           /\ tables[k].cb \in out.own => "USE_CHECKSUM" \in tables[k].flags
           /\ Kept /\ "USE_CHECKSUM" \in tables[k].flags => tables[k].cb \in out.own
    BY <1>1, <1>2, <2>1 DEF InPlace
  <2> QED  BY <1>1, <2>2, <2>3, <2>4 DEF InPlace
<1> QED  BY <1>1, <1>3, <1>4, <1>5 DEF LayoutInv, IInv

\* No table is summed, and the first one must be sought.
LEMMA WriteDoneLayout ==
    ASSUME IInv, LayoutInv, WriteDone
    PROVE  LayoutInv'
<1>1. /\ pc = "write" /\ pc' = "sum" /\ i > Len(tables) /\ entry' = 1 /\ doSeek' /\ offset' = 0
      /\ UNCHANGED <<library, directory, origin, out>>
  BY DEF WriteDone
<1>2. /\ Chained /\ InPlace(i - 1) /\ SummedTo(1) /\ i \in Nat \ {0}
      /\ i =< Len(tables) + 1 /\ Len(tables) \in Nat /\ state = 3
  BY <1>1, LenProperties DEF IInv, TypeOK, LayoutInv, WriteInv
<1>3. SummedTo(entry)'
  BY <1>1, <1>2 DEF SummedTo, RightSum
<1>4. Chained'
  BY <1>1, <1>2 DEF Chained, Behind, DirSize
<1>5. InPlace(Len(tables))'
  <2>1. i - 1 = Len(tables)
    BY <1>1, <1>2
  <2>2. \A k \in 1 .. Len(tables) : Count(tables', k) = Count(tables, k)
    BY <1>1, CountSame
  <2> QED  BY <1>1, <1>2, <2>1, <2>2 DEF InPlace
<1>6. NextRead'
  BY <1>1 DEF NextRead
<1>7. OffsetRight'
  BY <1>1 DEF OffsetRight
<1> QED  BY <1>1, <1>2, <1>3, <1>4, <1>5, <1>6, <1>7 DEF LayoutInv

-----------------------------------------------------------------------------
(* sfwWriteTables: the checksums. *)

\* The entry of the loop is that of its table, and the next table on the stream is
\* behind the padding of this one.
LEMMA SumEntry ==
    ASSUME IInv, LayoutInv, pc \in {"sum"}, i =< Len(tables), Writes(tables[i])
    PROVE  /\ entry \in 1 .. Len(directory) /\ entry \in Nat \ {0}
           /\ directory[entry].tag = tables[i].cb
           /\ directory[entry].tag \in out.own => "USE_CHECKSUM" \in tables[i].flags
           /\ Kept /\ "USE_CHECKSUM" \in tables[i].flags => directory[entry].tag \in out.own
           /\ entry + 1 =< Len(directory) =>
                 origin + directory[entry + 1].offset =
                     (origin + directory[entry].offset) + 4 * Longs(directory[entry].length)
<1>1. TypeOK /\ Matches /\ SumInv /\ Chained /\ InPlace(Len(tables))
  BY DEF IInv, LayoutInv
<1>2. /\ i \in Nat \ {0} /\ entry \in 1 .. Len(directory) /\ entry + 1 = Count(tables, i) + 1
  BY <1>1, SumPlace
<1>3. /\ entry \in Nat \ {0} /\ Len(tables) \in Nat /\ Len(directory) \in Nat
      /\ Count(tables, i) \in Nat
  BY <1>1, <1>2, LenProperties, CountType DEF TypeOK
<1>4. entry = Count(tables, i) /\ i \in 1 .. Len(tables)
  BY <1>2, <1>3
<1>5. /\ directory[entry].tag = tables[i].cb
      /\ tables[i].cb \in out.own => "USE_CHECKSUM" \in tables[i].flags
      /\ Kept /\ "USE_CHECKSUM" \in tables[i].flags => tables[i].cb \in out.own
  BY <1>1, <1>4 DEF InPlace
<1>6. ASSUME entry + 1 =< Len(directory)
      PROVE  origin + directory[entry + 1].offset =
                 (origin + directory[entry].offset) + 4 * Longs(directory[entry].length)
  <2>1. entry + 1 \in 1 .. Len(directory) /\ Len(out.tables) = Len(directory)
    BY <1>1, <1>3, <1>6 DEF Matches
  <2>2. /\ origin + directory[entry + 1].offset = out.tables[entry + 1].at
        /\ origin + directory[entry].offset = out.tables[entry].at
        /\ directory[entry].length = out.tables[entry].length
    BY <1>1, <1>2, <2>1 DEF Matches
  <2>3. out.tables[entry + 1].at = Behind((entry + 1) - 1)
    BY <1>1, <2>1 DEF Chained
  <2>4. (entry + 1) - 1 = entry /\ entry # 0
    BY <1>3
  <2>5. Behind(entry) = out.tables[entry].at + 4 * Longs(out.tables[entry].length)
    BY <2>4 DEF Behind
  <2> QED  BY <2>2, <2>3, <2>4, <2>5
<1> QED  BY <1>2, <1>3, <1>5, <1>6

\* The steps that change no entry: the one skipped is not to be summed.
LEMMA SumOwnLayout ==
    ASSUME IInv, LayoutInv, SumOwn \/ SumSkipped
    PROVE  LayoutInv'
<1>1. /\ pc = "sum" /\ pc' = "sum" /\ i =< Len(tables)
      /\ UNCHANGED <<library, directory, origin, rpos, offset, out>>
  BY DEF SumOwn, SumSkipped
<1>2. /\ Chained /\ InPlace(Len(tables)) /\ SummedTo(entry)
      /\ NextRead /\ OffsetRight /\ state = 3 /\ entry \in Nat /\ Len(directory) \in Nat
  BY <1>1, LenProperties DEF IInv, TypeOK, LayoutInv
<1>3. Chained'
  BY <1>1, <1>2 DEF Chained, Behind, DirSize
<1>4. InPlace(Len(tables))'
  <2>1. \A k \in 1 .. Len(tables) : Count(tables', k) = Count(tables, k)
    BY <1>1, CountSame
  <2> QED  BY <1>1, <1>2, <2>1 DEF InPlace
<1>5. SummedTo(entry)' /\ NextRead' /\ OffsetRight'
  <2>1. CASE SumSkipped
    <3>1. entry' = entry /\ doSeek' = doSeek
      BY <2>1 DEF SumSkipped
    <3> QED  BY <1>1, <1>2, <3>1 DEF SummedTo, NextRead, OffsetRight, RightSum
  <2>2. CASE SumOwn
    <3>1. /\ entry' = entry + 1 /\ doSeek' /\ Writes(tables[i])
          /\ "USE_CHECKSUM" \in tables[i].flags
      BY <2>2 DEF SumOwn
    <3>2. entry \in 1 .. Len(directory) /\ (Kept => directory[entry].tag \in out.own)
      BY <1>1, <3>1, SumEntry
    <3>3. \A k \in 1 .. Len(directory) : k < entry + 1 => k < entry \/ k = entry
      BY <1>2
    <3>4. \A k \in 1 .. Len(directory) : k < entry => k < entry + 1
      BY <1>2
    <3>5. SummedTo(entry)'
      BY <1>1, <1>2, <3>1, <3>2, <3>3 DEF SummedTo, RightSum
    <3>6. OffsetRight'
      BY <1>1, <1>2, <3>1, <3>2, <3>3, <3>4 DEF OffsetRight
    <3> QED  BY <3>1, <3>5, <3>6 DEF NextRead
  <2> QED  BY <2>1, <2>2
<1> QED  BY <1>1, <1>2, <1>3, <1>4, <1>5 DEF LayoutInv

\* One table is summed: it is read from its beginning, sought or not.
LEMMA SumNextLayout ==
    ASSUME IInv, LayoutInv, SumNext
    PROVE  LayoutInv'
<1> DEFINE longs == Longs(directory[entry].length)
<1>w. /\ pc = "sum" /\ pc' = "sum" /\ i =< Len(tables) /\ Writes(tables[i])
      /\ "USE_CHECKSUM" \notin tables[i].flags
      /\ entry' = entry + 1 /\ doSeek' = FALSE
      /\ directory' = WithSum(directory, entry, SumOf(ReadFrom, longs))
      /\ rpos' = ReadFrom + 4 * longs
      /\ offset' = IF IsHead(directory[entry])
                   THEN directory[entry].offset + HEAD_ADJUST_OFFSET ELSE offset
      /\ UNCHANGED <<library, origin, out>>
  BY DEF SumNext, WithSum
<1>0. /\ Chained /\ InPlace(Len(tables)) /\ SummedTo(entry)
      /\ NextRead /\ OffsetRight /\ state = 3 /\ entry \in Nat
      /\ directory \in Seq(Entry) /\ Len(directory) \in Nat /\ Matches
      /\ origin \in Nat /\ rpos \in Nat
  BY <1>w, LenProperties DEF IInv, TypeOK, LayoutInv
<1>1. /\ entry \in 1 .. Len(directory)
      /\ directory[entry].tag = tables[i].cb /\ directory[entry].tag \notin out.own
      /\ entry + 1 =< Len(directory) =>
            origin + directory[entry + 1].offset =
                (origin + directory[entry].offset) + 4 * longs
  BY <1>w, SumEntry
<1>2. ReadFrom = origin + directory[entry].offset
  <2>1. entry =< Len(directory)
    BY <1>0, <1>1
  <2> QED  BY <1>0, <2>1 DEF ReadFrom, NextRead
<1>3. longs \in Nat /\ directory[entry].offset \in Nat
  <2>1. directory[entry] \in Entry
    BY <1>0, <1>1, ElementOfSeq
  <2>2. directory[entry].length \in Nat /\ directory[entry].offset \in Nat
    BY <2>1 DEF Entry
  <2> QED  BY ONLY <2>2 DEF Longs
<1>4. SumOf(ReadFrom, longs) \in Checksum
  <2>1. ReadFrom \in Nat
    BY <1>0, <1>2, <1>3
  <2> QED  BY <1>3, <2>1 DEF SumOf, Checksum
<1> HIDE DEF longs
<1>5. /\ Len(directory') = Len(directory)
      /\ \A k \in 1 .. Len(directory) : /\ directory'[k].tag = directory[k].tag
                                        /\ directory'[k].offset = directory[k].offset
                                        /\ directory'[k].length = directory[k].length
  BY <1>0, <1>1, <1>4, <1>w, SetSum
<1>6. \A k \in 1 .. Len(directory) :
          directory'[k].checksum = IF k = entry THEN SumOf(ReadFrom, longs)
                                   ELSE directory[k].checksum
  BY <1>0, <1>1, <1>w, SetSumCell
<1>7. Chained'
  BY <1>w, <1>0 DEF Chained, Behind, DirSize
<1>8. InPlace(Len(tables))'
  <2> SUFFICES ASSUME NEW k \in 1 .. Len(tables), Writes(tables[k])
               PROVE  directory'[Count(tables, k)].tag = tables[k].cb
    <3>1. \A k \in 1 .. Len(tables) : Count(tables', k) = Count(tables, k)
      BY <1>w, CountSame
    <3> QED  BY <1>0, <1>w, <3>1 DEF InPlace
  <2>1. k \in Nat \ {0} /\ k =< Len(tables) /\ Len(tables) \in Nat
    BY LenProperties DEF IInv, TypeOK
  <2>2. Count(tables, k) \in 1 .. Len(directory)
    <3>1. Len(directory) = Count(tables, Len(tables))
      BY <1>w DEF IInv, SumInv
    <3> QED  BY <2>1, <3>1, CountPlace
  <2> QED  BY <1>0, <1>5, <2>2 DEF InPlace
<1>9. SummedTo(entry)'
  <2> SUFFICES ASSUME NEW k \in 1 .. Len(directory),
                      (k < entry' /\ Kept) \/ directory[k].tag \in out.own
               PROVE  directory'[k].checksum = RightSum(directory[k], origin, out.own)
    <3>1. \A k \in 1 .. Len(directory) :
              RightSum(directory'[k], origin, out.own) = RightSum(directory[k], origin, out.own)
      BY <1>5 DEF RightSum
    <3> QED  BY <1>5, <1>w, <3>1 DEF SummedTo
  <2>1. CASE k = entry
    BY <1>1, <1>2, <1>6, <2>1 DEF RightSum, longs
  <2>2. CASE k # entry
    <3>1. (k < entry /\ Kept) \/ directory[k].tag \in out.own
      BY <1>0, <1>w, <2>2
    <3> QED  BY <1>0, <1>6, <2>2, <3>1 DEF SummedTo
  <2> QED  BY <2>1, <2>2
<1>10. NextRead'
  <2> SUFFICES ASSUME entry + 1 =< Len(directory)
               PROVE  rpos' = origin + directory'[entry + 1].offset
    BY <1>5, <1>w DEF NextRead
  <2>1. entry + 1 \in 1 .. Len(directory)
    BY <1>0
  <2> QED  BY <1>1, <1>2, <1>5, <1>w, <2>1
<1>11. OffsetRight'
  <2>1. CASE IsHead(directory[entry])
    <3>1. /\ offset' = directory[entry].offset + HEAD_ADJUST_OFFSET
          /\ directory[entry].tag = HeadTag /\ HeadTag \notin out.own
      BY <1>1, <1>w, <2>1 DEF IsHead
    <3>2. \A k \in 1 .. Len(directory) : directory[k].tag = HeadTag => k = entry
      BY <1>0, <1>1, <3>1 DEF Matches
    <3>3. entry < entry'
      BY <1>0, <1>w
    <3> QED  BY <1>1, <1>5, <1>w, <3>1, <3>2, <3>3 DEF OffsetRight
  <2>2. CASE ~ IsHead(directory[entry])
    <3>1. offset' = offset /\ directory[entry].tag # HeadTag
      BY <1>w, <2>2 DEF IsHead
    <3>2. \A k \in 1 .. Len(directory) :
              /\ k < entry' => k < entry \/ k = entry
              /\ k < entry => k < entry'
      BY <1>0, <1>w
    <3> QED  BY <1>0, <1>5, <1>w, <3>1, <3>2 DEF OffsetRight
  <2> QED  BY <2>1, <2>2
<1> QED  BY <1>0, <1>w, <1>7, <1>8, <1>9, <1>10, <1>11 DEF LayoutInv

-----------------------------------------------------------------------------
(* sfwWriteTables: the header. *)

\* All entries are summed when the header is written, and it consists of entries.
LEMMA WriteHdrLayout ==
    ASSUME IInv, LayoutInv, WriteHdr
    PROVE  LayoutInv'
<1> DEFINE D == SubSeq(directory, 1, numTables)
<1>w. /\ pc = "sum" /\ pc' = "close" /\ i > Len(tables)
      /\ UNCHANGED <<library, origin>>
  BY DEF WriteHdr
<1>0. /\ Chained /\ SummedTo(entry) /\ OffsetRight /\ state = 3
      /\ TypeOK /\ Matches /\ SumInv /\ NumTablesRight
  BY <1>w DEF IInv, LayoutInv
<1>1. PICK hdr \in Sorted(D, EntryTag, EntryTag) :
         out' = [out EXCEPT !.header = hdr,
                            !.adjusted = IF offset = 0 THEN 0 ELSE origin + offset]
  BY DEF WriteHdr
<1>2. /\ directory \in Seq(Entry) /\ Len(directory) \in Nat /\ numTables \in Nat
      /\ origin \in Nat /\ offset \in Nat /\ i \in Nat /\ Len(tables) \in Nat
  BY <1>0, LenProperties DEF TypeOK
<1>3. entry = Len(directory) + 1 /\ numTables =< Len(directory)
  <2>1. i - 1 = Len(tables)
    BY <1>0, <1>2, <1>w DEF SumInv
  <2> QED  BY <1>0, <1>w, <2>1 DEF SumInv, NumTablesRight
<1>4. /\ out'.header = hdr /\ out'.origin = out.origin /\ out'.tables = out.tables
      /\ out'.own = out.own
      /\ out'.adjusted = IF offset = 0 THEN 0 ELSE origin + offset
  BY <1>0, <1>1 DEF TypeOK
<1>5. /\ D \in Seq(Entry) /\ Len(D) = numTables
      /\ \A k \in 1 .. numTables : D[k] = directory[k]
  BY <1>2, <1>3, SubSeqProperties
<1>6. hdr \in Reordered(D)
  BY DEF Sorted
<1> HIDE DEF D
<1>7. SumsOf(out')
  <2>1. hdr \in Seq(Entry) /\ Len(hdr) = numTables /\ DOMAIN hdr = 1 .. numTables
    BY <1>5, <1>6, ReorderedProperties, LenProperties
  <2>2. PICK p \in Bijection(1 .. numTables, 1 .. numTables) :
            \A k \in 1 .. numTables : hdr[k] = D[p[k]]
    BY <1>5, <1>6, ReorderedProperties
  <2>3. p \in [1 .. numTables -> 1 .. numTables]
    BY <2>2 DEF Bijection, Injection
  <2>4. ASSUME Kept, NEW k \in 1 .. numTables
        PROVE  directory[k].checksum = RightSum(directory[k], origin, out.own)
    <3>1. k \in 1 .. Len(directory) /\ k < entry
      BY <1>2, <1>3
    <3> QED  BY <1>0, <2>4, <3>1 DEF SummedTo
  <2>5. Kept => \A k \in 1 .. numTables : hdr[k].checksum = RightSum(hdr[k], origin, out.own)
    BY <1>5, <2>2, <2>3, <2>4
  <2>6. out'.origin = origin
    BY <1>0, <1>4 DEF Matches
  <2> QED  BY <1>4, <2>1, <2>5, <2>6 DEF SumsOf, Elements
<1>8. AdjustedOf(out')
  <2>1. Len(out.tables) = Len(directory)
    BY <1>0 DEF Matches
  <2>2. ASSUME Kept, NEW k \in 1 .. Len(out.tables), out.tables[k].tag = HeadTag,
               HeadTag \notin out.own
        PROVE  out'.adjusted = out.tables[k].at + HEAD_ADJUST_OFFSET
    <3>1. k < entry /\ k \in 1 .. Len(directory)
      BY <1>2, <1>3, <2>1
    <3>2. directory[k].tag = HeadTag /\ origin + directory[k].offset = out.tables[k].at
      BY <1>0, <2>2, <3>1 DEF Matches
    <3>3. offset = directory[k].offset + HEAD_ADJUST_OFFSET
      BY <1>0, <2>2, <3>1, <3>2 DEF OffsetRight
    <3>4. directory[k].offset \in Nat
      <4>1. directory[k] \in Entry
        BY <1>2, <3>1, ElementOfSeq
      <4> QED  BY <4>1 DEF Entry
    <3>5. offset # 0
      BY <3>3, <3>4 DEF HEAD_ADJUST_OFFSET
    <3>6. out'.adjusted = origin + (directory[k].offset + HEAD_ADJUST_OFFSET)
      BY <1>4, <3>3, <3>5
    <3> QED  BY <1>2, <3>2, <3>4, <3>6 DEF HEAD_ADJUST_OFFSET
  <2>3. ASSUME out'.adjusted # 0
        PROVE  \E k \in 1 .. Len(out.tables) :
                   out.tables[k].tag = HeadTag /\ HeadTag \notin out.own
    <3>1. offset # 0
      BY <1>4, <2>3
    <3> QED  BY <1>0, <2>1, <3>1 DEF OffsetRight, Matches
  <2> QED  BY <1>4, <2>2, <2>3 DEF AdjustedOf
<1>9. Chained'
  BY <1>0, <1>4, <1>w DEF Chained, Behind, DirSize
<1> QED  BY <1>w, <1>7, <1>8, <1>9 DEF LayoutInv

\* A step of something else.
LEMMA StutterLayout ==
    ASSUME LayoutInv, UNCHANGED vars
    PROVE  LayoutInv'
<1>1. /\ Chained <=> Chained'
      /\ AtEnd <=> AtEnd'
      /\ OwnWritten <=> OwnWritten'
      /\ SummedTo(1) <=> SummedTo(1)'
      /\ SummedTo(entry) <=> SummedTo(entry)'
      /\ NextRead <=> NextRead'
      /\ OffsetRight <=> OffsetRight'
  BY DEF Chained, AtEnd, OwnWritten, Behind, DirSize, SummedTo, RightSum, NextRead, OffsetRight
<1>2. \A n \in {i - 1, Len(tables)} : \A k \in 1 .. n : Count(tables', k) = Count(tables, k)
  BY CountSame
<1>3. /\ InPlace(i - 1) <=> InPlace(i - 1)'
      /\ InPlace(Len(tables)) <=> InPlace(Len(tables))'
  BY <1>2 DEF InPlace
<1> QED  BY <1>1, <1>3 DEF LayoutInv

-----------------------------------------------------------------------------

\* The layout is right at every step.
THEOREM LayoutInvariance ==
    ASSUME \A o \in Origins : o % 4 = 0
    PROVE  Spec => []LayoutInv
<1>1. ASSUME IInv, LayoutInv, [Next]_vars PROVE LayoutInv'
  <2>1. CASE UNCHANGED vars
    BY <1>1, <2>1, StutterLayout
  <2>2. CASE Raised
    BY <1>1, <2>2, StutterLayout DEF Raised
  <2>3. CASE Next /\ ~ Raised
    BY <1>1, <2>3, FillLayout, WriteTablesLayout, WriteNextLayout,
       WriteSkippedLayout, WriteDoneLayout, SumOwnLayout, SumNextLayout, WriteHdrLayout,
       EndLayout DEF Next, Running, Failing
  <2> QED  BY <1>1, <2>1, <2>2, <2>3
<1> QED  BY <1>1, InitLayout, Invariance, PTL DEF Spec

\* In a font that was written every checksum is the one the client supplied as the table
\* was written, or else the sum of that table and its padding, and the adjustment of head is
\* in the head table or nowhere. The client may answer differently in every call; only if it
\* withdraws a checksum that it supplied to a write that failed is this not so.
THEOREM SumsCorrect ==
    ASSUME "withdrawn" \notin Forms, \A o \in Origins : o % 4 = 0
    PROVE  Spec => []SumsRight /\ []HeadAdjusted
<1>1. LayoutInv => SumsRight
  BY DEF LayoutInv, SumsRight, HasWritten, SumsOf, RightSum, Kept
<1>2. IInv /\ LayoutInv => HeadAdjusted
  <2> SUFFICES ASSUME IInv, AdjustedOf(out) PROVE HeadAdjusted
    BY DEF LayoutInv, HeadAdjusted, HasWritten
  <2>1. Elements(out.tables) = {out.tables[k] : k \in 1 .. Len(out.tables)}
    BY LenProperties DEF IInv, TypeOK, Elements
  <2>2. CASE \E t \in Elements(out.tables) : t.tag = HeadTag /\ HeadTag \notin out.own
    <3> DEFINE head == CHOOSE t \in Elements(out.tables) : t.tag = HeadTag
    <3>1. head \in Elements(out.tables) /\ head.tag = HeadTag
      BY <2>2
    <3>2. out.adjusted = head.at + HEAD_ADJUST_OFFSET
      BY <2>1, <2>2, <3>1 DEF AdjustedOf, Kept
    <3> QED  BY <2>2, <3>2 DEF HeadAdjusted
  <2>3. CASE ~ \E t \in Elements(out.tables) : t.tag = HeadTag /\ HeadTag \notin out.own
    <3>1. out.adjusted = 0
      BY <2>1, <2>3 DEF AdjustedOf
    <3> QED  BY <2>3, <3>1 DEF HeadAdjusted
  <2> QED  BY <2>2, <2>3
<1> QED  BY <1>1, <1>2, Invariance, LayoutInvariance, PTL

\* While an sfnt is written no table overlaps the header, another table or its padding,
\* and there are no gaps, unless a client fills again before it writes.
THEOREM LayoutCorrect ==
    ASSUME "refill" \notin Forms, \A o \in Origins : o % 4 = 0
    PROVE  Spec => []TablesApart
<1>1. IInv /\ LayoutInv => TablesApart
  <2> SUFFICES ASSUME IInv, Chained, pc \in {"write", "sum", "close"}
               PROVE  TablesApart
    BY DEF LayoutInv, TablesApart
  <2> DEFINE T == out.tables
  <2>1. T \in Seq([tag : Tags, at : Nat, length : Nat]) /\ Len(T) \in Nat
    BY LenProperties DEF IInv, TypeOK
  <2>2. numTables = ToWrite
    <3>1. numTables = Count(tables, Len(tables))
      BY DEF IInv, NumTablesRight
    <3>2. DOMAIN tables = 1 .. Len(tables)
      BY LenProperties DEF IInv, TypeOK
    <3> QED  BY <3>1, <3>2 DEF ToWrite, Count, KeptUpTo
  <2>3. T # <<>> => T[1].at = out.origin + HDR_SIZE + ENTRY_SIZE * ToWrite
    <3> SUFFICES ASSUME T # <<>> PROVE T[1].at = out.origin + HDR_SIZE + ENTRY_SIZE * ToWrite
      OBVIOUS
    <3>1. 1 \in 1 .. Len(T)
      BY <2>1, EmptySeq
    <3>2. T[1].at = out.origin + DirSize
      BY <3>1 DEF Chained, Behind
    <3>3. out.origin \in Nat /\ numTables \in Nat
      BY DEF IInv, TypeOK
    <3> QED  BY <2>2, <3>2, <3>3 DEF DirSize, HDR_SIZE, ENTRY_SIZE
  <2>4. \A k \in 1 .. Len(T) - 1 : T[k + 1].at = T[k].at + 4 * Longs(T[k].length)
    <3> SUFFICES ASSUME NEW k \in 1 .. Len(T) - 1
                 PROVE  T[k + 1].at = T[k].at + 4 * Longs(T[k].length)
      OBVIOUS
    <3>1. k + 1 \in 1 .. Len(T) /\ (k + 1) - 1 = k /\ k # 0
      BY <2>1
    <3>2. T[k + 1].at = Behind(k)
      BY <3>1 DEF Chained
    <3> QED  BY <3>1, <3>2 DEF Behind
  <2> QED  BY <2>3, <2>4 DEF TablesApart
<1> QED  BY <1>1, Invariance, LayoutInvariance, PTL

-----------------------------------------------------------------------------
(* Calls that go together: what a client answers in sfwFillTables decides  *)
(* what a later sfwWriteTables writes, and what is registered is what is   *)
(* filled. *)

\* The tags in the table list, and those registered.
Listed == {tables[k].cb : k \in 1 .. Len(tables)}
Registered == {callbacks[k] : k \in 1 .. Len(callbacks)}

\* The first n tables are to be written if their last callback asked for them.
Asked(n) == \A k \in 1 .. n : Writes(tables[k]) <=> tables[k].cb \in wanted

\* The tags of the tables among the first n that are written.
WrittenTags(n) == {tables[k].cb : k \in KeptUpTo(tables, n)}

\* The tags of a directory.
TagsOf(d) == {d[k].tag : k \in 1 .. Len(d)}

\* What a client wanted survives from its answer to the header.
WantedInv ==
    /\ Listed \subseteq Registered
    /\ wanted \subseteq Listed
    /\ pc = "fill" => Asked(i - 1)
    /\ state = 3 /\ pc # "fill" => Asked(Len(tables))
    /\ pc = "write" => TagsOf(directory) = WrittenTags(i - 1)
    /\ pc = "sum" => TagsOf(directory) = wanted
    /\ pc = "close" => TagsOf(out.header) = wanted

\* Whatever is filled is what was registered.
ListInv ==
    pc = "fill" \/ state \in {3, 4} \/ tables # <<>> => Listed = Registered

-----------------------------------------------------------------------------
(* The table list. *)

\* A new table list has the tags that are registered.
LEMMA TableListTags ==
    ASSUME IInv
    PROVE  {TableList[k].cb : k \in 1 .. Len(TableList)} = Registered
<1>1. DOMAIN callbacks = 1 .. Len(callbacks) /\ Len(TableList) = Len(callbacks)
  BY TableListType, LenProperties DEF IInv, TypeOK
<1>2. \A k \in 1 .. Len(callbacks) : TableList[k].cb = callbacks[k]
  BY <1>1 DEF TableList
<1> QED  BY <1>1, <1>2 DEF Registered

\* Sorting keeps the tags, and what is true of every table.
LEMMA ReorderedTags ==
    ASSUME NEW s \in Seq(Table), NEW r \in Reordered(s), NEW W
    PROVE  /\ {r[k].cb : k \in 1 .. Len(r)} = {s[k].cb : k \in 1 .. Len(s)}
           /\ (\A k \in 1 .. Len(s) : Writes(s[k]) <=> s[k].cb \in W)
              => \A k \in 1 .. Len(r) : Writes(r[k]) <=> r[k].cb \in W
<1>1. Len(r) = Len(s) /\ Len(s) \in Nat
  BY ReorderedProperties, LenProperties
<1>2. PICK p \in Bijection(1 .. Len(s), 1 .. Len(s)) :
         \A k \in 1 .. Len(s) : r[k] = s[p[k]]
  BY ReorderedProperties
<1>3. /\ p \in [1 .. Len(s) -> 1 .. Len(s)]
      /\ \A l \in 1 .. Len(s) : \E k \in 1 .. Len(s) : p[k] = l
  BY <1>2 DEF Bijection, Injection, Surjection
<1>4. \A k \in 1 .. Len(s) : r[k].cb = s[p[k]].cb /\ p[k] \in 1 .. Len(s)
  BY <1>2, <1>3
<1>5. {r[k].cb : k \in 1 .. Len(r)} \subseteq {s[k].cb : k \in 1 .. Len(s)}
  BY <1>1, <1>4
<1>6. {s[k].cb : k \in 1 .. Len(s)} \subseteq {r[k].cb : k \in 1 .. Len(r)}
  <2> SUFFICES ASSUME NEW l \in 1 .. Len(s)
               PROVE  s[l].cb \in {r[k].cb : k \in 1 .. Len(r)}
    OBVIOUS
  <2>1. PICK k \in 1 .. Len(s) : p[k] = l
    BY <1>3
  <2>2. r[k].cb = s[l].cb
    BY <1>4, <2>1
  <2> QED  BY <1>1, <2>2
<1>7. ASSUME \A k \in 1 .. Len(s) : Writes(s[k]) <=> s[k].cb \in W
      PROVE  \A k \in 1 .. Len(s) : Writes(r[k]) <=> r[k].cb \in W
  <2> SUFFICES ASSUME NEW k \in 1 .. Len(s) PROVE Writes(r[k]) <=> r[k].cb \in W
    OBVIOUS
  <2>1. Writes(s[p[k]]) <=> s[p[k]].cb \in W
    BY <1>4, <1>7
  <2> QED  BY <1>2, <2>1
<1> QED  BY <1>1, <1>5, <1>6, <1>7

\* Where only the flags of callbacks change, so do no tags and no wishes.
SameTables ==
    /\ Len(tables') = Len(tables)
    /\ \A k \in 1 .. Len(tables) :
          tables'[k].cb = tables[k].cb /\ (Writes(tables'[k]) <=> Writes(tables[k]))

\* If tables and what is wanted stay, so does what is asked for and written.
LEMMA SameTablesKeep ==
    ASSUME SameTables, Len(tables) \in Nat, wanted' = wanted
    PROVE  /\ Listed' = Listed
           /\ \A n \in 0 .. Len(tables) :
                 /\ Asked(n)' <=> Asked(n)
                 /\ WrittenTags(n)' = WrittenTags(n)
<1>1. Listed' = Listed
  BY DEF SameTables, Listed
<1>2. ASSUME NEW n \in 0 .. Len(tables)
      PROVE  (Asked(n)' <=> Asked(n)) /\ WrittenTags(n)' = WrittenTags(n)
  <2>1. \A k \in 1 .. n : k \in 1 .. Len(tables)
    OBVIOUS
  <2>2. KeptUpTo(tables', n) = KeptUpTo(tables, n)
    BY <2>1 DEF SameTables, KeptUpTo
  <2>3. WrittenTags(n)' = WrittenTags(n)
    BY <2>1, <2>2 DEF SameTables, WrittenTags, KeptUpTo
  <2>4. Asked(n)' <=> Asked(n)
    BY <2>1 DEF SameTables, Asked
  <2> QED  BY <2>3, <2>4
<1> QED  BY <1>1, <1>2

\* Nothing about the table list changes.
LEMMA Unchanged ==
    ASSUME IInv, tables' = tables
    PROVE  SameTables
BY DEF SameTables

-----------------------------------------------------------------------------
(* Calls, and their ends. *)

\* In the beginning nothing is registered.
LEMMA InitWanted == Init => WantedInv /\ ListInv
BY DEF Init, WantedInv, ListInv, Listed, Registered

\* Registering, making the table list, reusing tables.
LEMMA RegisterWanted ==
    ASSUME IInv, WantedInv, Register \/ NewTables \/ ReuseTables
    PROVE  WantedInv'
<1>1. pc' = "idle" /\ state' # 3 /\ wanted' = wanted
  BY DEF Register, NewTables, ReuseTables, IInv, TypeOK
<1>2. Listed' \subseteq Registered' /\ wanted' \subseteq Listed'
  <2>1. CASE Register
    <3>1. PICK tag \in Tags : callbacks' = Append(callbacks, tag)
      BY <2>1 DEF Register
    <3>2. /\ callbacks \in Seq(Tags) /\ Len(callbacks) \in Nat
          /\ Len(callbacks') = Len(callbacks) + 1
          /\ \A k \in 1 .. Len(callbacks) : callbacks'[k] = callbacks[k]
      BY <3>1 DEF IInv, TypeOK
    <3>3. Registered \subseteq Registered'
      BY <3>2 DEF Registered
    <3>4. Listed' = Listed
      BY <2>1 DEF Register, Listed
    <3> QED  BY <1>1, <3>3, <3>4 DEF WantedInv
  <2>2. CASE NewTables
    <3>1. Listed' = Registered /\ Registered' = Registered
      BY <2>2, TableListTags DEF NewTables, Listed, Registered
    <3> QED  BY <1>1, <3>1 DEF WantedInv
  <2>3. CASE ReuseTables
    BY <2>3 DEF ReuseTables, WantedInv, Listed, Registered
  <2> QED  BY <2>1, <2>2, <2>3
<1> QED  BY <1>1, <1>2 DEF WantedInv

\* sfwFillTables begins: the list is sorted, and may be made.
LEMMA FillTablesWanted ==
    ASSUME IInv, WantedInv, FillTables
    PROVE  WantedInv'
<1>1. /\ pc = "idle" /\ pc' = "fill" /\ i' = i /\ wanted' = wanted /\ callbacks' = callbacks
      /\ tables' \in Reordered(ListToFill)
  BY DEF FillTables, Sorted
<1>2. i = 1
  BY <1>1 DEF IInv
<1>3. ListToFill \in Seq(Table)
  BY TableListType DEF ListToFill, IInv, TypeOK
<1>4. Listed' = {ListToFill[k].cb : k \in 1 .. Len(ListToFill)}
  BY <1>1, <1>3, ReorderedTags DEF Listed
<1>5. Listed' \subseteq Registered /\ Listed \subseteq Listed'
  <2>1. CASE tables = <<>>
    <3>1. Listed = {} /\ ListToFill = TableList
      BY <2>1 DEF Listed, ListToFill
    <3> QED  BY <1>4, <3>1, TableListTags
  <2>2. CASE tables # <<>>
    BY <1>4, <2>2 DEF ListToFill, Listed, WantedInv
  <2> QED  BY <2>1, <2>2
<1>6. Asked(i - 1)'
  BY <1>1, <1>2 DEF Asked
<1>7. Registered' = Registered
  BY <1>1 DEF Registered
<1> QED  BY <1>1, <1>5, <1>6, <1>7 DEF WantedInv

\* A fill_table callback answers: the wish and the flag of this table agree, and no other
\* table has its tag.
LEMMA FillNextWanted ==
    ASSUME IInv, WantedInv, FillNext
    PROVE  WantedInv'
<1>1. PICK dont_write \in BOOLEAN :
         /\ tables' = [tables EXCEPT ![i].flags = IF dont_write THEN {"DONT_WRITE"} ELSE {}]
         /\ wanted' = IF dont_write THEN wanted \ {tables[i].cb} ELSE wanted \cup {tables[i].cb}
  BY DEF FillNext
<1>2. /\ pc = "fill" /\ pc' = "fill" /\ i =< Len(tables) /\ i' = i + 1
      /\ callbacks' = callbacks /\ Asked(i - 1)
  BY DEF FillNext, WantedInv
<1>3. /\ i \in 1 .. Len(tables) /\ Len(tables) \in Nat /\ tables \in Seq(Table)
      /\ \A k, l \in 1 .. Len(tables) : tables[k].cb = tables[l].cb => k = l
  BY <1>2, LenProperties DEF IInv, TypeOK, Unique
<1> DEFINE F == IF dont_write THEN {"DONT_WRITE"} ELSE {}
<1>4. F \in SUBSET Flags /\ ("DONT_WRITE" \in F <=> dont_write)
  BY DEF Flags
<1>5. tables' = WithFlags(tables, i, F)
  BY <1>1 DEF WithFlags
<1> HIDE DEF F
<1>6. /\ Len(tables') = Len(tables)
      /\ \A k \in 1 .. Len(tables) : tables'[k].cb = tables[k].cb
      /\ \A k \in 1 .. Len(tables) : tables'[k].flags = IF k = i THEN F ELSE tables[k].flags
  BY <1>3, <1>4, <1>5, SetFlags
<1>7. Listed' = Listed /\ tables[i].cb \in Listed
  BY <1>3, <1>6 DEF Listed
<1>8. wanted' \subseteq Listed
  BY <1>1, <1>7 DEF WantedInv
<1>9. Asked(i - 1)'
  <2> SUFFICES ASSUME NEW k \in 1 .. i
               PROVE  Writes(tables'[k]) <=> tables'[k].cb \in wanted'
    BY <1>2, <1>3 DEF Asked
  <2>1. k \in 1 .. Len(tables)
    BY <1>3
  <2>2. CASE k = i
    <3>1. Writes(tables'[k]) <=> ~ dont_write
      BY <1>4, <1>6, <2>1, <2>2 DEF Writes
    <3>2. tables'[k].cb \in wanted' <=> ~ dont_write
      BY <1>1, <1>6, <2>1, <2>2
    <3> QED  BY <3>1, <3>2
  <2>3. CASE k # i
    <3>1. tables[k].cb # tables[i].cb
      BY <1>3, <2>1, <2>3
    <3>2. tables'[k].cb \in wanted' <=> tables[k].cb \in wanted
      BY <1>1, <1>6, <2>1, <3>1
    <3>3. Writes(tables'[k]) <=> Writes(tables[k])
      BY <1>6, <2>1, <2>3 DEF Writes
    <3>4. k \in 1 .. i - 1
      BY <1>3, <2>3
    <3> QED  BY <1>2, <3>2, <3>3, <3>4 DEF Asked
  <2> QED  BY <2>2, <2>3
<1>10. Registered' = Registered
  BY <1>2 DEF Registered
<1> QED  BY <1>2, <1>7, <1>8, <1>9, <1>10 DEF WantedInv

\* A call returns, or fatal() jumps out of none: what is wanted stays in the flags.
LEMMA EndWanted ==
    ASSUME "refill" \notin Forms, IInv, WantedInv,
           FillAborted \/ FillDone \/ WriteFails \/ StreamFails \/ Written \/ RaiseUnhandled
    PROVE  WantedInv'
<1>0. Len(tables) \in Nat /\ TypeOK
  BY LenProperties DEF IInv, TypeOK
<1>1. pc' \in {"idle", "raised"} /\ wanted' = wanted /\ callbacks' = callbacks
  BY DEF FillAborted, FillDone, WriteFails, StreamFails, Written, RaiseUnhandled, Return
<1>2. SameTables
  <2>1. CASE WriteFails
    <3>1. pc \in {"write"} /\ i =< Len(tables)
      BY <2>1 DEF WriteFails
    <3>2. PICK own \in BOOLEAN : tables' = WithFlags(tables, i, FlagsAfterCallback(own))
      BY <2>1 DEF WriteFails, Answers, WithFlags
    <3> QED  BY <1>0, <3>1, <3>2, FlagsKept DEF SameTables
  <2>2. CASE FillAborted \/ FillDone \/ StreamFails \/ Written \/ RaiseUnhandled
    <3>1. tables' = tables
      BY <2>2 DEF FillAborted, FillDone, StreamFails, Written, RaiseUnhandled
    <3> QED  BY <3>1, Unchanged
  <2> QED  BY <2>1, <2>2
<1>3. state' = 3 => Asked(Len(tables))
  <2>1. CASE FillDone
    <3>1. i - 1 = Len(tables) /\ Asked(i - 1)
      BY <1>0, <2>1 DEF FillDone, IInv, FillInv, TypeOK, WantedInv
    <3> QED  BY <3>1
  <2>2. CASE FillAborted
    BY <2>2 DEF FillAborted, IInv, FillInv
  <2>3. CASE WriteFails \/ StreamFails \/ Written \/ RaiseUnhandled
    <3>1. pc # "fill" /\ (state' = 3 => state = 3)
      BY <2>3 DEF WriteFails, StreamFails, Written, RaiseUnhandled
    <3> QED  BY <3>1 DEF WantedInv
  <2> QED  BY <2>1, <2>2, <2>3
<1>4. state' = 3 => Asked(Len(tables))'
  <2>1. Len(tables) \in 0 .. Len(tables) /\ Len(tables') = Len(tables)
    BY <1>0, <1>2 DEF SameTables
  <2>2. \A n \in 0 .. Len(tables) : Asked(n)' <=> Asked(n)
    BY <1>0, <1>1, <1>2, SameTablesKeep
  <2>3. Asked(Len(tables)) => \A k \in 1 .. Len(tables) : Writes(tables'[k]) <=> tables'[k].cb \in wanted'
    BY <2>1, <2>2 DEF Asked
  <2> QED  BY <1>3, <2>1, <2>3 DEF Asked
<1>5. Listed' = Listed /\ Registered' = Registered
  BY <1>0, <1>1, <1>2, SameTablesKeep DEF Registered
<1> QED  BY <1>1, <1>4, <1>5 DEF WantedInv
-----------------------------------------------------------------------------
(* sfwWriteTables. *)

\* The tables are sorted for writing.
LEMMA WriteTablesWanted ==
    ASSUME IInv, WantedInv, WriteTables
    PROVE  WantedInv'
<1>1. /\ pc = "idle" /\ pc' = "write" /\ state = 3 /\ i' = i /\ wanted' = wanted
      /\ callbacks' = callbacks /\ directory' = directory /\ tables' \in Reordered(tables)
  BY DEF WriteTables, Sorted
<1>2. i = 1 /\ directory = <<>> /\ tables \in Seq(Table)
  BY <1>1 DEF IInv, TypeOK
<1>3. Listed' = Listed /\ Registered' = Registered
  BY <1>1, <1>2, ReorderedTags DEF Listed, Registered
<1>4. Asked(Len(tables))'
  BY <1>1, <1>2, ReorderedTags DEF Asked, WantedInv
<1>5. TagsOf(directory)' = WrittenTags(i - 1)'
  <2>1. TagsOf(directory)' = {}
    BY <1>1, <1>2 DEF TagsOf
  <2>2. WrittenTags(i - 1)' = {}
    BY <1>1, <1>2 DEF WrittenTags, KeptUpTo
  <2> QED  BY <2>1, <2>2
<1> QED  BY <1>1, <1>3, <1>4, <1>5 DEF WantedInv

\* While tables are written and summed, the wishes are as they were.
LEMMA WritingKeeps ==
    ASSUME IInv, WantedInv, SameTables, pc \in {"write", "sum"},
           state' = 3, wanted' = wanted, callbacks' = callbacks
    PROVE  /\ Listed' \subseteq Registered' /\ wanted' \subseteq Listed'
           /\ Asked(Len(tables)) /\ Asked(Len(tables))'
           /\ \A n \in 0 .. Len(tables) : WrittenTags(n)' = WrittenTags(n)
<1>1. Len(tables) \in Nat /\ state = 3
  BY LenProperties DEF IInv, TypeOK
<1>2. Asked(Len(tables)) /\ Listed \subseteq Registered /\ wanted \subseteq Listed
  BY <1>1 DEF WantedInv
<1>3. /\ Listed' = Listed
      /\ \A n \in 0 .. Len(tables) : Asked(n)' <=> Asked(n)
      /\ \A n \in 0 .. Len(tables) : WrittenTags(n)' = WrittenTags(n)
  BY <1>1, SameTablesKeep
<1>4. \A k \in 1 .. Len(tables) : Writes(tables'[k]) <=> tables'[k].cb \in wanted'
  <2>1. Len(tables) \in 0 .. Len(tables)
    BY <1>1
  <2> QED  BY <1>2, <1>3, <2>1 DEF Asked
<1>5. Asked(Len(tables))'
  BY <1>4 DEF Asked, SameTables
<1>6. Registered' = Registered
  BY DEF Registered
<1> QED  BY <1>2, <1>3, <1>5, <1>6

\* The next index takes in one table.
LEMMA WrittenTagsStep ==
    ASSUME NEW n \in Nat \ {0}
    PROVE  WrittenTags(n) = IF Writes(tables[n]) THEN WrittenTags(n - 1) \cup {tables[n].cb}
                                                ELSE WrittenTags(n - 1)
<1>1. \A k \in 1 .. n : k \in 1 .. n - 1 \/ k = n
  OBVIOUS
<1>2. n \in 1 .. n /\ \A k \in 1 .. n - 1 : k \in 1 .. n
  OBVIOUS
<1> QED  BY <1>1, <1>2 DEF WrittenTags, KeptUpTo

\* One table is written, or skipped.
LEMMA WriteNextWanted ==
    ASSUME IInv, WantedInv, WriteNext \/ WriteSkipped
    PROVE  WantedInv'
<1>1. /\ pc = "write" /\ pc' = "write" /\ i =< Len(tables) /\ i' = i + 1
      /\ UNCHANGED <<state, callbacks, wanted>>
  BY DEF WriteNext, WriteSkipped
<1>2. /\ i \in Nat \ {0} /\ Len(tables) \in Nat /\ state = 3 /\ directory \in Seq(Entry)
      /\ Len(directory) \in Nat /\ TypeOK /\ TagsOf(directory) = WrittenTags(i - 1)
  BY <1>1, LenProperties DEF IInv, TypeOK, WantedInv
<1>3. SameTables
  <2>1. CASE WriteNext
    <3>1. PICK own \in BOOLEAN : tables' = WithFlags(tables, i, FlagsAfterCallback(own))
      BY <2>1 DEF WriteNext, Answers, WithFlags
    <3> QED  BY <1>1, <1>2, <3>1, FlagsKept DEF SameTables
  <2>2. CASE WriteSkipped
    BY <2>2, Unchanged DEF WriteSkipped
  <2> QED  BY <2>1, <2>2
<1>4. /\ Listed' \subseteq Registered' /\ wanted' \subseteq Listed' /\ Asked(Len(tables))'
      /\ \A n \in 0 .. Len(tables) : WrittenTags(n)' = WrittenTags(n)
  BY <1>1, <1>2, <1>3, WritingKeeps
<1>5. TagsOf(directory') = WrittenTags(i)
  <2>1. CASE WriteNext
    <3> DEFINE E(n, own) == [tag |-> tables[i].cb, checksum |-> SumAfterCallback(own),
                             offset |-> EntryOffset, length |-> n]
    <3>0. PICK length \in Lengths, own \in Answers : directory' = Append(directory, E(length, own))
      BY <2>1 DEF WriteNext
    <3> DEFINE e == E(length, own)
    <3>1. directory' = Append(directory, e) /\ e.tag = tables[i].cb
      BY <3>0
    <3> HIDE DEF e
    <3>2. /\ Len(directory') = Len(directory) + 1
          /\ \A k \in 1 .. Len(directory) : directory'[k] = directory[k]
          /\ directory'[Len(directory) + 1] = e
      BY <1>2, <3>1
    <3>3. TagsOf(directory') = TagsOf(directory) \cup {tables[i].cb}
      <4>1. \A k \in 1 .. Len(directory') : k \in 1 .. Len(directory) \/ k = Len(directory) + 1
        BY <1>2, <3>2
      <4>2. \A k \in 1 .. Len(directory) : k \in 1 .. Len(directory')
        BY <1>2, <3>2
      <4>3. Len(directory) + 1 \in 1 .. Len(directory')
        BY <1>2, <3>2
      <4> QED  BY <3>1, <3>2, <4>1, <4>2, <4>3 DEF TagsOf
    <3>4. Writes(tables[i])
      BY <2>1 DEF WriteNext
    <3> QED  BY <1>2, <3>3, <3>4, WrittenTagsStep
  <2>2. CASE WriteSkipped
    <3>1. directory' = directory /\ ~ Writes(tables[i])
      BY <2>2 DEF WriteSkipped
    <3> QED  BY <1>2, <3>1, WrittenTagsStep
  <2> QED  BY <2>1, <2>2
<1>6. TagsOf(directory)' = WrittenTags(i - 1)'
  <2>1. i \in 0 .. Len(tables) /\ i' - 1 = i
    BY <1>1, <1>2
  <2>2. {tables'[k].cb : k \in KeptUpTo(tables', i)} = WrittenTags(i)
    BY <1>4, <2>1 DEF WrittenTags
  <2>3. WrittenTags(i - 1)' = {tables'[k].cb : k \in KeptUpTo(tables', i)}
    BY <2>1 DEF WrittenTags
  <2> QED  BY <1>5, <2>2, <2>3 DEF TagsOf
<1> QED  BY <1>1, <1>4, <1>6 DEF WantedInv

\* All tables that were wanted are in the directory.
LEMMA WriteDoneWanted ==
    ASSUME IInv, WantedInv, WriteDone
    PROVE  WantedInv'
<1>1. /\ pc = "write" /\ pc' = "sum" /\ i > Len(tables)
      /\ UNCHANGED <<state, callbacks, wanted, tables, directory>>
  BY DEF WriteDone
<1>2. i - 1 = Len(tables) /\ Len(tables) \in Nat /\ state = 3
  <2>1. tables \in Seq(Table) /\ i \in Nat \ {0}
    BY DEF IInv, TypeOK
  <2>2. i =< Len(tables) + 1 /\ state = 3
    BY <1>1 DEF IInv, WriteInv
  <2> QED  BY <1>1, <2>1, <2>2, LenProperties
<1>3. /\ Listed' \subseteq Registered' /\ wanted' \subseteq Listed'
      /\ Asked(Len(tables)) /\ Asked(Len(tables))'
  BY <1>1, <1>2, Unchanged, WritingKeeps
<1>4. TagsOf(directory) = WrittenTags(Len(tables))
  BY <1>1, <1>2 DEF WantedInv
<1>5. WrittenTags(Len(tables)) = wanted
  BY <1>3 DEF Asked, WrittenTags, KeptUpTo, WantedInv, Listed
<1>6. TagsOf(directory)' = wanted'
  BY <1>1, <1>4, <1>5 DEF TagsOf
<1> QED  BY <1>1, <1>3, <1>6 DEF WantedInv

\* Setting a checksum changes no tag.
LEMMA SetSumTags ==
    ASSUME NEW s \in Seq(Entry), NEW n \in 1 .. Len(s), NEW sum
    PROVE  /\ Len(WithSum(s, n, sum)) = Len(s)
           /\ \A k \in 1 .. Len(s) : WithSum(s, n, sum)[k].tag = s[k].tag
<1>1. Len(s) \in Nat /\ s \in [1 .. Len(s) -> Entry]
  BY LenProperties
<1> DEFINE e == [s[n] EXCEPT !.checksum = sum]
<1>2. e.tag = s[n].tag
  BY <1>1 DEF Entry
<1>3. WithSum(s, n, sum) = [s EXCEPT ![n] = e]
  BY DEF WithSum
<1> HIDE DEF e
<1>4. \A k \in 1 .. Len(s) : WithSum(s, n, sum)[k] = IF k = n THEN e ELSE s[k]
  BY <1>1, <1>3
<1>5. Len(WithSum(s, n, sum)) = Len(s)
  <2>1. WithSum(s, n, sum) \in [1 .. Len(s) -> {s[k] : k \in 1 .. Len(s)} \cup {e}]
    BY <1>1, <1>3
  <2> QED  BY <1>1, <2>1
<1> QED  BY <1>2, <1>4, <1>5

\* Summing changes no tag.
LEMMA SumWanted ==
    ASSUME IInv, WantedInv, SumOwn \/ SumSkipped \/ SumNext
    PROVE  WantedInv'
<1>1. /\ pc = "sum" /\ pc' = "sum" /\ i =< Len(tables)
      /\ UNCHANGED <<state, callbacks, wanted, tables>>
  BY DEF SumOwn, SumSkipped, SumNext
<1>2. state = 3
  BY <1>1 DEF IInv
<1>3. /\ Listed' \subseteq Registered' /\ wanted' \subseteq Listed' /\ Asked(Len(tables))'
  BY <1>1, <1>2, Unchanged, WritingKeeps
<1>4. TagsOf(directory') = TagsOf(directory)
  <2>1. CASE SumOwn \/ SumSkipped
    BY <2>1 DEF SumOwn, SumSkipped
  <2>2. CASE SumNext
    <3> DEFINE longs == Longs(directory[entry].length)
    <3>1. /\ Writes(tables[i])
          /\ directory' = WithSum(directory, entry, SumOf(ReadFrom, longs))
      BY <2>2 DEF SumNext, WithSum
    <3>2. /\ directory \in Seq(Entry) /\ entry \in 1 .. Len(directory)
      BY <1>1, <3>1, SumPlace DEF IInv, TypeOK
    <3> HIDE DEF longs
    <3>3. /\ Len(directory') = Len(directory)
          /\ \A k \in 1 .. Len(directory) : directory'[k].tag = directory[k].tag
      BY <3>1, <3>2, SetSumTags
    <3> QED  BY <3>3 DEF TagsOf
  <2> QED  BY <2>1, <2>2
<1>5. TagsOf(directory)' = wanted'
  BY <1>1, <1>4 DEF WantedInv, TagsOf
<1> QED  BY <1>1, <1>3, <1>5 DEF WantedInv
\* The header has every entry of the directory.
LEMMA WriteHdrWanted ==
    ASSUME "refill" \notin Forms, IInv, WantedInv, WriteHdr
    PROVE  WantedInv'
<1> DEFINE D == SubSeq(directory, 1, numTables)
<1>1. /\ pc = "sum" /\ pc' = "close" /\ state = 3
      /\ UNCHANGED <<state, callbacks, wanted, tables>>
  BY DEF WriteHdr, IInv
<1>2. PICK hdr \in Reordered(D) :
         out' = [out EXCEPT !.header = hdr,
                            !.adjusted = IF offset = 0 THEN 0 ELSE origin + offset]
  BY DEF WriteHdr, Sorted
<1>3. /\ directory \in Seq(Entry) /\ Len(directory) \in Nat
      /\ numTables = Len(directory) /\ out'.header = hdr
      /\ TagsOf(directory) = wanted
  BY <1>1, <1>2, LenProperties DEF IInv, TypeOK, NumTablesRight, SumInv, WantedInv
<1>4. /\ D \in Seq(Entry) /\ Len(D) = numTables
      /\ \A k \in 1 .. numTables : D[k] = directory[k]
  BY <1>3, SubSeqProperties
<1> HIDE DEF D
<1>5. Len(hdr) = numTables
  BY <1>2, <1>4, ReorderedProperties
<1>6. PICK p \in Bijection(1 .. numTables, 1 .. numTables) :
         \A k \in 1 .. numTables : hdr[k] = D[p[k]]
  BY <1>2, <1>4, ReorderedProperties
<1>7. /\ p \in [1 .. numTables -> 1 .. numTables]
      /\ \A l \in 1 .. numTables : \E k \in 1 .. numTables : p[k] = l
  BY <1>6 DEF Bijection, Injection, Surjection
<1>8. TagsOf(hdr) = TagsOf(directory)
  <2>1. \A k \in 1 .. numTables : p[k] \in 1 .. numTables /\ hdr[k].tag = directory[p[k]].tag
    BY <1>4, <1>6, <1>7
  <2>2. TagsOf(hdr) \subseteq TagsOf(directory)
    BY <1>3, <1>5, <2>1 DEF TagsOf
  <2>3. TagsOf(directory) \subseteq TagsOf(hdr)
    <3> SUFFICES ASSUME NEW l \in 1 .. numTables PROVE directory[l].tag \in TagsOf(hdr)
      BY <1>3 DEF TagsOf
    <3>1. PICK k \in 1 .. numTables : p[k] = l
      BY <1>7
    <3>2. hdr[k].tag = directory[l].tag
      BY <2>1, <3>1
    <3> QED  BY <1>5, <3>2 DEF TagsOf
  <2> QED  BY <2>2, <2>3
<1>9. TagsOf(out.header)' = wanted'
  BY <1>1, <1>3, <1>8 DEF TagsOf
<1>10. /\ Listed' \subseteq Registered' /\ wanted' \subseteq Listed' /\ Asked(Len(tables))'
  BY <1>1, Unchanged, WritingKeeps
<1> QED  BY <1>1, <1>9, <1>10 DEF WantedInv

\* A stutter keeps the invariant.
LEMMA StutterWanted ==
    ASSUME WantedInv, UNCHANGED vars
    PROVE  WantedInv'
<1>1. /\ Listed' = Listed /\ Registered' = Registered
      /\ Asked(i - 1)' <=> Asked(i - 1)
      /\ Asked(Len(tables))' <=> Asked(Len(tables))
      /\ WrittenTags(i - 1)' = WrittenTags(i - 1)
      /\ TagsOf(directory)' = TagsOf(directory)
      /\ TagsOf(out.header)' = TagsOf(out.header)
  BY DEF Listed, Registered, Asked, WrittenTags, KeptUpTo, TagsOf, Writes
<1> QED  BY <1>1 DEF WantedInv

-----------------------------------------------------------------------------

\* What is wanted is not lost in any call.
LEMMA NextWanted ==
    ASSUME "refill" \notin Forms, IInv, WantedInv, [Next]_vars
    PROVE  WantedInv'
<1>1. CASE UNCHANGED vars
  BY <1>1, StutterWanted
<1>2. CASE Raised
  BY <1>2, StutterWanted DEF Raised
<1>3. CASE Next /\ ~ Raised
  BY <1>3, RegisterWanted, FillTablesWanted, FillNextWanted, EndWanted, WriteTablesWanted,
     WriteNextWanted, WriteDoneWanted, SumWanted, WriteHdrWanted
     DEF Next, Running, Failing
<1> QED  BY <1>1, <1>2, <1>3

\* A font that is written has every table, and only those, that its fill_table callback
\* asked for when it was last called, whatever was aborted or failed before, unless a
\* client fills again before it writes.
THEOREM WantedCorrect ==
    ASSUME "refill" \notin Forms
    PROVE  Spec => WritesWanted
<1>1. IInv /\ WantedInv /\ [Next]_vars =>
          [state # 4 /\ state' = 4 => {e.tag : e \in Elements(out'.header)} = wanted']_vars
  <2> SUFFICES ASSUME IInv, WantedInv, Next, state # 4, state' = 4
               PROVE  {e.tag : e \in Elements(out'.header)} = wanted'
    OBVIOUS
  <2>1. Written
    <3>1. ~ (Register \/ NewTables \/ ReuseTables \/ FillDone)
      BY DEF Register, NewTables, ReuseTables, FillDone, IInv, TypeOK
    <3>2. ~ (FillTables \/ WriteTables \/ FillNext \/ RaiseUnhandled \/ Raised)
      BY DEF FillTables, WriteTables, FillNext, RaiseUnhandled, Raised
    <3>3. ~ (WriteNext \/ WriteSkipped \/ WriteDone)
      BY DEF WriteNext, WriteSkipped, WriteDone
    <3>4. ~ (SumOwn \/ SumNext \/ SumSkipped \/ WriteHdr)
      BY DEF SumOwn, SumNext, SumSkipped, WriteHdr
    <3>5. ~ Failing
      BY DEF Failing, FillAborted, WriteFails, StreamFails
    <3> QED  BY <3>1, <3>2, <3>3, <3>4, <3>5 DEF Next, Running
  <2>2. out' = out /\ wanted' = wanted /\ TagsOf(out.header) = wanted
    BY <2>1 DEF Written, WantedInv
  <2>3. DOMAIN out.header = 1 .. Len(out.header)
    <3>1. out.header \in Seq(Entry)
      BY DEF IInv, TypeOK
    <3> QED  BY <3>1, LenProperties
  <2>4. {e.tag : e \in Elements(out.header)} = TagsOf(out.header)
    BY <2>3 DEF Elements, TagsOf
  <2> QED  BY <2>2, <2>4
<1>2. Spec => []WantedInv
  BY InitWanted, NextWanted, Invariance, PTL DEF Spec
<1>3. [](IInv /\ WantedInv) /\ [][Next]_vars => WritesWanted
  BY <1>1, PTL DEF WritesWanted
<1> QED  BY <1>2, <1>3, Invariance, PTL DEF Spec

-----------------------------------------------------------------------------
(* What is filled is what was registered. *)

\* Sorting, flags and returns keep the tags of the list; only without a table list may
\* a tag be registered.
LEMMA NextList ==
    ASSUME "late" \notin Forms, IInv, ListInv, [Next]_vars
    PROVE  ListInv'
<1>0. TypeOK /\ tables \in Seq(Table) /\ Len(tables) \in Nat
  BY LenProperties DEF IInv, TypeOK
<1>1. CASE Register
  BY <1>1 DEF Register, ListInv
<1>2. CASE NewTables
  <2>1. Listed' = Registered /\ Registered' = Registered
    BY <1>2, TableListTags DEF NewTables, Listed, Registered
  <2> QED  BY <2>1 DEF ListInv
<1>3. CASE FillTables
  <2>1. tables' \in Reordered(ListToFill) /\ callbacks' = callbacks
    BY <1>3 DEF FillTables, Sorted
  <2>2. ListToFill \in Seq(Table)
    BY <1>0, TableListType DEF ListToFill, IInv
  <2>3. Listed' = {ListToFill[k].cb : k \in 1 .. Len(ListToFill)}
    BY <2>1, <2>2, ReorderedTags DEF Listed
  <2>4. Listed' = Registered
    <3>1. CASE tables = <<>>
      BY <2>3, <3>1, TableListTags DEF ListToFill
    <3>2. CASE tables # <<>>
      BY <2>3, <3>2 DEF ListToFill, ListInv, Listed
    <3> QED  BY <3>1, <3>2
  <2> QED  BY <2>1, <2>4 DEF ListInv, Registered
<1>4. CASE WriteTables
  <2>1. /\ tables' \in Reordered(tables) /\ callbacks' = callbacks /\ state = 3
    BY <1>4 DEF WriteTables, Sorted
  <2>2. Listed' = Listed
    BY <1>0, <2>1, ReorderedTags DEF Listed
  <2> QED  BY <2>1, <2>2 DEF ListInv, Registered
<1>5. CASE FillNext
  <2>1. PICK F \in {{"DONT_WRITE"}, {}} : tables' = WithFlags(tables, i, F)
    BY <1>5 DEF FillNext, WithFlags
  <2>2. /\ pc = "fill" /\ i \in 1 .. Len(tables) /\ F \in SUBSET Flags /\ callbacks' = callbacks
    BY <1>0, <1>5 DEF FillNext, TypeOK, Flags
  <2>3. Listed' = Listed
    BY <1>0, <2>1, <2>2, SetFlags DEF Listed
  <2> QED  BY <2>2, <2>3 DEF ListInv, Registered
<1>6. CASE WriteNext \/ WriteFails
  <2>1. pc \in {"write"} /\ i =< Len(tables) /\ callbacks' = callbacks
    BY <1>6 DEF WriteNext, WriteFails
  <2>2. PICK own \in BOOLEAN : tables' = WithFlags(tables, i, FlagsAfterCallback(own))
    BY <1>6 DEF WriteNext, WriteFails, Answers, WithFlags
  <2>3. Listed' = Listed /\ state = 3
    BY <1>0, <2>1, <2>2, FlagsKept DEF Listed, IInv
  <2> QED  BY <2>1, <2>3 DEF ListInv, Registered
<1>7. CASE UNCHANGED <<callbacks, tables>> /\ ~ FillTables
  <2>1. Listed' = Listed /\ Registered' = Registered
    BY <1>7 DEF Listed, Registered
  <2>2. pc' = "fill" => pc = "fill"
    BY <1>7 DEF Next, Running, Failing, Register, NewTables, ReuseTables, WriteTables, FillNext,
       FillDone, WriteNext, WriteSkipped, WriteDone, SumOwn, SumNext, SumSkipped, WriteHdr,
       Written, FillAborted, WriteFails, StreamFails, RaiseUnhandled, Raised, Return
  <2>3. state' \in {3, 4} => pc = "fill" \/ state \in {3, 4}
    <3>1. CASE Register \/ NewTables \/ ReuseTables
      BY <3>1 DEF Register, NewTables, ReuseTables, IInv, TypeOK
    <3>2. CASE FillDone \/ Written
      BY <3>2 DEF FillDone, Written, IInv
    <3>3. CASE UNCHANGED state
      BY <3>3
    <3> QED
      BY <1>7, <3>1, <3>2, <3>3 DEF Next, Running, Failing, WriteTables, FillNext, WriteNext,
         WriteSkipped, WriteDone, SumOwn, SumNext, SumSkipped, WriteHdr, FillAborted,
         WriteFails, StreamFails, RaiseUnhandled, Raised
  <2> QED  BY <1>7, <2>1, <2>2, <2>3 DEF ListInv
<1> QED
  BY <1>1, <1>2, <1>3, <1>4, <1>5, <1>6, <1>7 DEF Next, Running, Failing, ReuseTables, FillDone,
     WriteSkipped, WriteDone, SumOwn, SumNext, SumSkipped, WriteHdr, Written, FillAborted,
     StreamFails, RaiseUnhandled, Raised

\* Every table registered takes part in filling and writing, if none is registered after
\* sfwNewTables was aborted.
THEOREM ListCorrect ==
    ASSUME "late" \notin Forms
    PROVE  Spec => []EveryTableFilled
<1>1. IInv /\ ListInv => EveryTableFilled
  <2> SUFFICES ASSUME IInv, ListInv PROVE EveryTableFilled
    OBVIOUS
  <2>1. DOMAIN callbacks = 1 .. Len(callbacks) /\ DOMAIN tables = 1 .. Len(tables)
    BY LenProperties DEF IInv, TypeOK
  <2> QED  BY <2>1 DEF ListInv, EveryTableFilled, Elements, Listed, Registered
<1>2. Spec => []ListInv
  BY InitWanted, NextList, Invariance, PTL DEF Spec
<1> QED  BY <1>1, <1>2, Invariance, PTL

=============================================================================
