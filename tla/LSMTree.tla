------------------------------ MODULE LSMTree ------------------------------
(***************************************************************************)
(* The storage engine of kryolsm/lsm-drive/code.c: a memtable, a list of   *)
(* SSTables in memory, and DATA_FILE on disk.  The program is sequential;  *)
(* what interleaves with it is a crash, an fopen that fails (the code then *)
(* calls exit), and the restart that reads DATA_FILE back.                 *)
(*                                                                         *)
(* The per-table files "sstable<i>.txt" are written by flush and compaction*)
(* and read by nothing, so only the failure of opening them is modelled.   *)
(* An SSTable is a sequence of pairs.  qsort leaves the order of equal keys*)
(* unspecified: every order is an outcome here.  So is every content that  *)
(* uninitialised memory may have.                                          *)
(***************************************************************************)
EXTENDS SSTable

CONSTANTS
    Vals,          \* value strings
    NoValue,       \* the NULL of lsm_get
    Stored,        \* Stored[k]: what strncpy leaves of k in a pair, 49 characters
    Kept,          \* Kept[v]: what strncpy leaves of a value, 99 characters
    Garbage,       \* the pairs that memory nobody wrote may hold: any, in C
    MaxGarbage,    \* bound: the largest table of them that malloc grants
    MemtableSize,  \* MEMTABLE_SIZE
    MaxSSTables    \* MAX_SSTABLES

Pair == [key : Keys, value : Vals]

ASSUME ValsAssumption == NoValue \notin Vals
ASSUME StoredAssumption == /\ Stored \in [Keys -> Keys]
                           /\ \A k \in Keys : Stored[Stored[k]] = Stored[k]
ASSUME KeptAssumption == Kept \in [Vals -> Vals]
ASSUME GarbageAssumption == Garbage \subseteq Pair /\ MaxGarbage \in Nat
ASSUME SizesAssumption == /\ MemtableSize \in Nat \ {0}
                          /\ MaxSSTables \in Nat \ {0, 1}

VARIABLES
    phase,      \* "down", "up" (init_lsm_tree returned), "saving" (DATA_FILE truncated)
    memtable,   \* memtable.pairs[0 .. size-1]
    sstables,   \* sstables[0 .. sstable_count-1], oldest first
    dataFile,   \* the contents of DATA_FILE
    written,    \* history: what was kept of each value put under each stored key
    latest,     \* history: what a get should return since the last start
    compacted,  \* history: compact_sstables has run since the last start
    torn,       \* history: some save was cut short in the middle of the file
    madeUp      \* history: the pairs that loads of cut files made up

vars == <<phase, memtable, sstables, dataFile, written, latest, compacted, torn, madeUp>>
history == <<written, latest, compacted, torn, madeUp>>

Table == Seq(Pair)

AllPairs(ts) == UNION {Range(ts[i]) : i \in DOMAIN ts}

---------------------------------------------------------------------------
(* Reading: lsm_get. *)

\* The operators named Bug... are never used by the specification: each is a
\* mistake that a change to the code could make, kept as a test of a property.

BugOldestFirst(ts, k) ==
    LET hits == {i \in DOMAIN ts : Search(ts[i], k) # 0}
    IN  IF hits = {} THEN NoValue
        ELSE LET t == ts[Min(hits)] IN t[Search(t, k)].value

LookupTables(ts, k) ==
    LET hits == {i \in DOMAIN ts : Search(ts[i], k) # 0}
    IN  IF hits = {} THEN NoValue
        ELSE LET t == ts[Max(hits)] IN t[Search(t, k)].value

\* lsm_get: the newest match of the memtable, then of the newest SSTable.
Lookup(m, ts, k) ==
    LET hits == {i \in DOMAIN m : m[i].key = k}
    IN  IF hits # {} THEN m[Max(hits)].value ELSE LookupTables(ts, k)

---------------------------------------------------------------------------
(* Flushing and compacting: the tables each call may leave. *)

\* Equal keys are not removed (of two tables).
BugDuplicatesStay(ts) ==
    IF Len(ts) < 2 THEN {ts} ELSE {<<t>> : t \in SortsOf(ts[1] \o ts[2])}

\* The key of one pair is copied and the value of another.
BugPairsMixed(ts) ==
    IF Len(ts) < 2 THEN {ts}
    ELSE LET all == AllPairs(ts) IN
         {<<[i \in DOMAIN f |-> [key |-> f[i], value |-> c[f[i]]]]>> :
             f \in Listings(KeysIn(all)), c \in [KeysIn(all) -> {p.value : p \in all}]}

\* compact_sstables: one table with each key once.  It keeps the first of the
\* equal keys after an unstable sort, that is, any one of them.
Compactions(ts) ==
    IF Len(ts) < 2 THEN {ts}
    ELSE LET all == AllPairs(ts)
             ks == KeysIn(all)
             picks == {c \in [ks -> all] : \A k \in ks : c[k].key = k}
         IN  {<<[i \in DOMAIN f |-> c[f[i]]]>> : f \in Listings(ks), c \in picks}

\* The list of tables is compacted one table too late.
BugCompactsLate(m, ts) ==
    {Append(base, t) :
        base \in IF Len(ts) > MaxSSTables THEN Compactions(ts) ELSE {ts},
        t \in SortsOf(m)}

\* The memtable is emptied, but its table is not added after a compaction.
BugTableForgotten(m, ts) ==
    IF Len(ts) >= MaxSSTables THEN Compactions(ts) ELSE {Append(ts, t) : t \in SortsOf(m)}

\* flush_memtable_to_sstable with a memtable that is not empty.
Flushes(m, ts) ==
    {Append(base, t) :
        base \in IF Len(ts) >= MaxSSTables THEN Compactions(ts) ELSE {ts},
        t \in SortsOf(m)}

---------------------------------------------------------------------------
(* DATA_FILE: a count, then the size and the pairs of each table.  A file  *)
(* that is missing or empty loads as count 0.                              *)

Image(ts) ==
    [count |-> Len(ts),
     tables |-> [i \in DOMAIN ts |-> [size |-> Len(ts[i]), pairs |-> ts[i]]]]

EmptyImage == Image(<<>>)

\* What is on disk when the save of ts stops before fclose: some prefix.  A cut
\* inside a pair is taken for one before it: what is there of that pair, and
\* memory behind it, loads as some pair, which is all that Loads says of it.
\* So is a cut inside a size; the count is one byte that is there or is not.
Prefixes(ts) ==
    LET entries == Image(ts).tables
        cut(n, m) == Append(SubSeq(entries, 1, n - 1),
                            [size |-> Len(ts[n]), pairs |-> SubSeq(ts[n], 1, m)])
    IN  {EmptyImage, Image(ts)}
        \cup {[count |-> Len(ts), tables |-> SubSeq(entries, 1, n)] : n \in 0..Len(ts)}
        \cup UNION {{[count |-> Len(ts), tables |-> cut(n, m)] : m \in 0..Len(ts[n])} :
                      n \in DOMAIN ts}

IsWhole(f) == /\ Len(f.tables) = f.count
              /\ \A i \in DOMAIN f.tables : Len(f.tables[i].pairs) = f.tables[i].size

\* The tables as far as the file has them, and their pairs.
FileTables(f) == [i \in DOMAIN f.tables |-> f.tables[i].pairs]
FilePairs(f) == AllPairs(FileTables(f))

\* load_data_from_file never looks at what fread returns: the pairs missing
\* from a table are what malloc's memory holds, and the size of a table that
\* is missing altogether is what the stack holds (one that malloc refuses is
\* an exit).
LoadedTables(e) == {e.pairs \o g : g \in [1..(e.size - Len(e.pairs)) -> Garbage]}
StrayTables == UNION {[1..n -> Garbage] : n \in 0..MaxGarbage}

Loads(f) ==
    LET tables(i) == IF i \in DOMAIN f.tables THEN LoadedTables(f.tables[i])
                                              ELSE StrayTables
    IN  {ts \in [1..f.count -> UNION {tables(i) : i \in 1..f.count}] :
            \A i \in 1..f.count : ts[i] \in tables(i)}

---------------------------------------------------------------------------
\* v is the value of the newest pair of key k in the tables, NoValue for none:
\* what a get has to return, said without searching.
IsNewest(v, ts, k) ==
    \/ /\ v = NoValue
       /\ k \notin KeysIn(AllPairs(ts))
    \/ \E i \in DOMAIN ts :
          /\ [key |-> k, value |-> v] \in Range(ts[i])
          /\ \A j \in DOMAIN ts : j > i => k \notin KeysIn(Range(ts[j]))

Init ==
    /\ phase = "down"
    /\ memtable = <<>>
    /\ sstables = <<>>
    /\ dataFile = EmptyImage
    /\ written = [k \in Keys |-> {}]
    /\ latest = [k \in Keys |-> NoValue]
    /\ compacted = FALSE
    /\ torn = FALSE
    /\ madeUp = {}

\* init_lsm_tree.  (Its exits leave the state as it is.)
Open ==
    /\ phase = "down"
    /\ phase' = "up"
    /\ sstables' \in Loads(dataFile)
    /\ latest' \in [Keys -> Vals \cup {NoValue}]
    /\ \A k \in Keys : IsNewest(latest'[k], sstables', k)
    /\ compacted' = FALSE
    /\ madeUp' = madeUp \cup (AllPairs(sstables') \ FilePairs(dataFile))
    /\ UNCHANGED <<memtable, dataFile, written, torn>>

\* A flush of the memtable, as the first step of a put or of a close.
Flush ==
    /\ sstables' \in Flushes(memtable, sstables)
    /\ compacted' = (compacted \/ Len(sstables) >= MaxSSTables)

MemtableFull == Len(memtable) >= MemtableSize

\* The user's key and value as history keeps them: what lsm_put leaves of them.
Record(k, v) ==
    /\ written' = [written EXCEPT ![Stored[k]] = @ \cup {Kept[v]}]
    /\ latest' = [latest EXCEPT ![Stored[k]] = Kept[v]]

\* The flush comes after the insertion that fills the memtable.
BugFlushesEagerly(k, v) ==
    LET m == Append(memtable, [key |-> Stored[k], value |-> Kept[v]]) IN
    /\ phase = "up"
    /\ IF Len(m) >= MemtableSize
       THEN sstables' \in Flushes(m, sstables) /\ memtable' = <<>>
       ELSE memtable' = m /\ UNCHANGED sstables
    /\ compacted' = (compacted \/ Len(sstables) >= MaxSSTables)
    /\ Record(k, v)
    /\ UNCHANGED <<phase, dataFile, torn, madeUp>>

\* lsm_put: the pair is cut to its fields.
Put(k, v) ==
    LET pair == [key |-> Stored[k], value |-> Kept[v]] IN
    /\ phase = "up"
    /\ \/ /\ MemtableFull
          /\ Flush
          /\ memtable' = <<pair>>
       \/ /\ ~MemtableFull
          /\ memtable' = Append(memtable, pair)
          /\ UNCHANGED <<sstables, compacted>>
    /\ Record(k, v)
    /\ UNCHANGED <<phase, dataFile, torn, madeUp>>

\* The process is gone and with it the tree; DATA_FILE is what it was.
Die ==
    /\ phase' = "down"
    /\ memtable' = <<>>
    /\ sstables' = <<>>
    /\ UNCHANGED history

\* free_lsm_tree with an empty memtable: nothing is saved.
CloseIdle ==
    /\ phase = "up"
    /\ memtable = <<>>
    /\ Die
    /\ UNCHANGED dataFile

\* The tables are saved without the memtable.
BugMemtableUnsaved ==
    /\ phase = "up"
    /\ memtable # <<>>
    /\ memtable' = <<>>
    /\ phase' = "saving"
    /\ dataFile' = EmptyImage
    /\ UNCHANGED <<sstables, compacted, written, latest, torn, madeUp>>

\* free_lsm_tree up to the fopen(DATA_FILE, "wb") of save_all_data_to_file.
CloseBegin ==
    /\ phase = "up"
    /\ memtable # <<>>
    /\ Flush
    /\ memtable' = <<>>
    /\ phase' = "saving"
    /\ dataFile' = EmptyImage
    /\ UNCHANGED <<written, latest, torn, madeUp>>

\* The rest of save_all_data_to_file and of free_lsm_tree.
CloseEnd ==
    /\ phase = "saving"
    /\ dataFile' = Image(sstables)
    /\ Die

\* save_sstable_to_disk cannot open its file inside a put's or a close's
\* flush, or DATA_FILE cannot be opened: exit(EXIT_FAILURE).
FlushExits ==
    /\ phase = "up"
    /\ memtable # <<>>
    /\ Die
    /\ UNCHANGED dataFile

\* The process stops at any other point; or the disk is full in the middle of
\* the save, which goes on to its end since no result of fwrite is looked at.
Crash ==
    \/ /\ phase = "up"
       /\ Die
       /\ UNCHANGED dataFile
    \/ /\ phase = "saving"
       /\ dataFile' \in Prefixes(sstables)
       /\ torn' = (torn \/ ~IsWhole(dataFile'))
       /\ phase' = "down"
       /\ memtable' = <<>>
       /\ sstables' = <<>>
       /\ UNCHANGED <<written, latest, compacted, madeUp>>

Next ==
    \/ Open
    \/ \E k \in Keys, v \in Vals : Put(k, v)
    \/ CloseIdle
    \/ CloseBegin
    \/ CloseEnd
    \/ FlushExits
    \/ Crash

Spec == Init /\ [][Next]_vars

---------------------------------------------------------------------------
(* Properties *)

\* Every variable has its type; in particular sstable_count never passes
\* MAX_SSTABLES, so flush never writes behind the array of the tree.
TypeOK ==
    /\ phase \in {"down", "up", "saving"}
    /\ memtable \in Table
    /\ Len(memtable) <= MemtableSize
    /\ sstables \in Seq(Table)
    /\ Len(sstables) <= MaxSSTables
    /\ dataFile.count \in 0..MaxSSTables
    /\ Len(dataFile.tables) <= dataFile.count
    /\ dataFile.tables \in Seq([size : Nat, pairs : Table])
    /\ written \in [Keys -> SUBSET Vals]
    /\ latest \in [Keys -> Vals \cup {NoValue}]
    /\ compacted \in BOOLEAN
    /\ torn \in BOOLEAN
    /\ madeUp \subseteq Garbage

\* Every SSTable is in strictly increasing key order, the precondition of the
\* binary search of lsm_get, through any number of flushes, compactions and
\* restarts, as long as no save was cut short.  (code.c: qsort in
\* flush_memtable_to_sstable and compact_sstables, and the duplicate removal)
SSTablesSorted ==
    ~torn => \A i \in DOMAIN sstables : StrictlySorted(sstables[i])

\* Every pair of the tree, hence every answer of a get, was put, cut to its
\* fields: neither load, flush nor compaction makes a pair up, through any
\* number of crashes.  The exceptions are the pairs that a load found missing
\* in a file that was cut short; without a cut there are none.
NothingInvented ==
    /\ \A p \in Range(memtable) \cup AllPairs(sstables) :
          p.value \in written[p.key] \/ p \in madeUp
    /\ ~torn => madeUp = {}

\* A key that was readable or was put since the start is still in the tree, in
\* the form that fits its field, until the tree is saved: neither a flush nor a
\* compaction drops the last pair of a key.
NoKeyDropped ==
    phase # "down" => \A k \in Keys :
        latest[k] # NoValue => k \in KeysIn(Range(memtable) \cup AllPairs(sstables))

\* Until the first compaction a get of a key that fits its field returns what
\* fits of the last value put under it, or under a longer key that is cut to
\* it, or the newest value loaded at the start; and a longer key is never
\* found, whatever was put under it: lsm_put cuts it, lsm_get compares all of
\* it.  As long as no save was cut short.
LatestUntilCompaction ==
    phase = "up" /\ ~compacted /\ ~torn =>
        \A k \in Keys : Lookup(memtable, sstables, k) =
                           IF Stored[k] = k THEN latest[k] ELSE NoValue

\* free_lsm_tree skips the save when the memtable is empty: nothing is lost
\* by that, as the tables are then exactly those that a start would load.
IdleMatchesDisk ==
    phase = "up" /\ memtable = <<>> => sstables \in Loads(dataFile)

\* NOT an invariant.  lsm_get searches the newest tables first so that a get
\* returns the last value put; compaction keeps an arbitrary one of the values.
\* Keys that fit their fields, and no save cut short.
GetReturnsLastPut ==
    phase = "up" /\ ~torn =>
        \A k \in Keys : Stored[k] = k => Lookup(memtable, sstables, k) = latest[k]

---------------------------------------------------------------------------
(* What a user of the tree sees, and that the tree implements it. *)

Nothing == [k \in Keys |-> NoValue]

View ==
    IF phase = "down" THEN Nothing
    ELSE [k \in Keys |-> Lookup(memtable, sstables, k)]

\* Of a file that was cut short nothing is promised.
Recoverable ==
    IF IsWhole(dataFile)
    THEN [k \in Keys |-> LookupTables(FileTables(dataFile), k)]
    ELSE Nothing

KV == INSTANCE KVStore WITH view <- View, saved <- Recoverable, whole <- IsWhole(dataFile)

\* The tree implements the key-value store of module KVStore, crashes included.
ImplementsKVStore == KV!Spec
=============================================================================
