# TLA+ models of kryosette-db

kryosette-db is a C code base of two programs and some libraries: **kryolsm**, a
small LSM-tree storage engine that keeps its data in one file, and
**kryocache**, an in-memory cache with a TCP server, a client library and an
arena allocator. These modules model the parts with state, check them with TLC
on small instances, and prove the central facts for all instances with TLAPS.

Paths below are relative to `src/`; `core/` stands for `kryocache/src/core/`.

## 1. Inventory

| Component | State | Operations | Interacts with | Hard parts |
|---|---|---|---|---|
| LSM tree, `kryolsm/lsm-drive/code.c` | memtable, array of at most `MAX_SSTABLES` tables, `DATA_FILE` | init (load), put, get, flush, compact, close (save) | the disk; its process may stop at any point | crashes, files cut in the middle of a pair, unchecked `fread` into memory nobody wrote, keys and values longer than their fields, unstable sort, full array, `exit` inside a flush |
| Command table, `core/server/commands` | `g_storage`: chains of nodes by bucket, a count | PING, SET, GET, DELETE, EXISTS, FLUSH, STATS | called by the acceptor with one buffer of bytes | keys and values longer than their fields, collisions, refused inserts, the separate count |
| Client, `core/client/client.c` | status, socket, mutex, statistics | set, get, exists, flush, ping, delete | TCP to the server; several threads may share a client | three critical sections per operation, timeouts, late answers, end of file, SIGPIPE |
| Client instances, `core/client/client.c` | instance, status, socket, its mode | init, connect with retries and poll, disconnect, destroy | the process's table of descriptors; the white list's allocations | each of a dozen ways out of a connect has to close, reset and count; retries on a socket with an attempt pending; fcntl refused; endless timeouts |
| Acceptor, `core/server/server.c` | the connection it serves | accept, one receive, one answer, close | clients; the command table; main | one connection at a time, commands merged or cut in one buffer, close with unread bytes |
| Server lifecycle, `core/server/server.c`, `main.c` | status, `g_server`, where its threads and handlers stand | start, stop (from signal handlers), destroy | main, acceptor thread, signal handlers | unlocked status, nested handlers, no join, use after destroy |
| Arena, `core/data/tokens/core/core.c` | current chunk, list of old chunks, totals | init, alloc, reset, cleanup by age, destroy | callers that hold blocks | chunks that move between list and current, empty chunks, counters |
| White list, `kryocache/white_list/client` | command definitions, ids, validation keys | init, clean up, look up, validate, execute | the client, which allocates a system of ids for itself | init and cleanup in any order, who frees what; 64-bit values in 32-bit fields |
| Lock-free stack, `third-party/ephemeral_hash_cas` | head: pointer and 16-bit tag | push, pop | any threads | reuse of nodes (ABA) |
| smemset, DRS generator, `third-party` | none / two seeds | fill memory / next number | client, server / white list | alignment edges, counters shared by four loops / ranges |

What makes each one correct: a put, in the form that fits its fields, is readable
until the same key is put again, and is never lost or invented by flush,
compaction or restart; the table of
commands is a map; a call is carried out at most once and gets the answer that
belongs to it, unless the caller was told of an error; a stop is final and ends
the process; blocks of the arena never overlap and stay mapped while they are
held; a client closes every socket that it opens, once, and its status tells
whether it has one; memory is set exactly where it was asked for.

`PROJECT.json` lists the components, the hazards with their lines, and which
property watches each.

## 2. Modules

| Module | Models | Notes |
|---|---|---|
| `SSTable` | tables of pairs: sortedness, `qsort`, the binary search as a function | keys are integers in the order of `strcmp` |
| `LSMTree` | the whole engine with crashes | composes the flush, compaction and file operators |
| `KVStore` | *abstract*: what the engine promises its user | implemented by `LSMTree` (`ImplementsKVStore`) |
| `BinarySearch` | the search loop of `lsm_get`, one iteration a step (`LoopSpec`) | `SearchAgrees` ties it to `Search` of `SSTable` |
| `LSMTreeProofs` | theorems about `LSMTree` and `BinarySearch` | |
| `CacheProtocol` | requests and replies | shared by the next three |
| `CommandStore`, `CommandStoreProofs` | `handle_client_connection` on `g_storage`; proofs | one command a step |
| `CacheMap` | *abstract*: a map with the same replies; what a DELETE does is left open | implemented by `CommandStore` (`PlainKeysFormMap`) |
| `CacheSession`, `CacheSessionProofs` | clients, connections and acceptor around `CommandStore`; proofs | `Store == INSTANCE CommandStore` runs each command |
| `WhiteList` | the client's list of commands: init, cleanup, look-up | extended by the next |
| `ClientConnection`, `ClientConnectionProofs` | instances of clients, every step of `client_connect`; proofs | over the descriptors of one process |
| `ClientLink` | *abstract*: connecting as one step that succeeds or is counted as failed | implemented by `ClientConnection` (`ImplementsClientLink`); what `CacheSession` takes for granted |
| `ServerLifecycle`, `ServerLifecycleProofs` | main, acceptor loop, signal handlers, status; proofs | |
| `Arena`, `ArenaProofs` | the allocator; its proofs | an operation a step |
| `HashStack`, `HashStackProofs` | the lock-free stack: every load, store and compare-and-swap; its proofs | |
| `NodeStack` | *abstract*: push and pop as single steps | implemented by `HashStack` until a hash repeats (`StackUntilFooled`) |
| `Smemset`, `SmemsetProofs` | `smemset`, one iteration of a loop a step; its proofs | words of 4 and of 8 bytes |
| `MC...` | constants for TLC | one or more `.cfg` each |

Operators called `Bug...` are not part of any specification. Each stands before
the definition it varies and is that definition with a mistake someone could
make in the code; substituted for it, it makes TLC find the named property
violated (the list is in `PROJECT.json`, "mutants").

### LSMTree

`phase` says whether the tree exists. `memtable` and `sstables` are the C arrays
as sequences, `dataFile` is what the disk holds: a count and the tables written
so far. `Open` is `init_lsm_tree` with `load_data_from_file`; `Put` is `lsm_put`
with its flush, and with the compaction inside that flush; `CloseBegin` and
`CloseEnd` are `free_lsm_tree` before and after the file is truncated, so that a
`Crash` may come between. `Compactions` and `Flushes` are *sets* of results,
since `qsort` leaves the order of equal keys open and the removal of duplicates
keeps the first of them. `FlushExits` is the `exit` of a failing `fopen`; the
file name of a new table is not set before it is opened (the loop that did so is
commented out), so that failure is ordinary.

`lsm_put` cuts a key to 49 characters and a value to 99 (`code.c:133-136`):
`Stored` and `Kept` are what is left. `lsm_get` compares the whole of the key it
is given, so a key that is cut is never found, and what was put under it answers
a get of its first 49 characters, along with what was put there. The properties
speak of keys and values in the form that is kept, and `LatestUntilCompaction`
says that a get of a longer key finds nothing.

A save that stops leaves what stdio had written, in blocks that end anywhere,
also inside a pair of 150 bytes; `Prefixes` are the files that remain. No result
of `fread` is looked at when the file is loaded: the pairs that are missing, or
half there, are what the memory of `malloc` held (`LoadedTables`), and of a
table that is missing even the size is what the stack held (`StrayTables`).
`Garbage` is the set of pairs such memory may hold, any set, and `MaxGarbage` the
largest table of them. What a load takes from there is recorded in `madeUp`, so
that `NothingInvented` can say that nothing else is made up, and nothing at all
without a file that was cut.

History variables record what was put (`written`), what a get should return
(`latest`), whether a compaction or a torn save has happened (`compacted`,
`torn`), and the pairs that loads made up (`madeUp`). They are read by properties
only, apart from being updated.

### CommandStore and CacheMap

`Home` and `Stored` are the two things the code does with a key: its bucket, and
what is left of it in `char key[64]`. A *plain* key is one that is kept whole and
that no longer key of its bucket is cut down to. For the plain keys the table is
the map of `CacheMap`, with every reply the same. The server's DELETE answers OK
and removes nothing, while the client's program tells its user that the key was
removed (`core/client/main.c:342`): `CommandStore.Delete` is the handler, and
`CacheMap.Delete` allows either, so the refinement neither demands the removal nor
forbids it. `storage_get` calls `strncmp`
without its length and `storage_set` calls `calloc` with one argument; neither
compiles, and they are read as `strcmp` and `calloc(1, ...)`.

### CacheSession

An operation takes the client's mutex to connect, again to send and receive, and
again to count itself: these are the places of `pc`. A connection is known to
its client as open or not, and to the server as waiting, in service, closed or
reset; it holds the commands not yet received and the answers not yet read. The
acceptor takes the oldest connection, receives the first one or more commands
that are there as *one* (`Mixed`), answers, and closes. A `recv` of a client may
get an answer, an end of file (which `client_send_command` takes for success),
or fail, by a reset or by its timeout, at any time before. A `send` to a reset
connection fails or kills the process by SIGPIPE. Establishing a connection is
one step that succeeds or fails: its socket, poll and retry steps run under the
lock and nobody sees them, which is what `ImplementsClientLink` of module
`ClientConnection` says. The values in `Unsent` are those that pass the check of
`client_set` (1 MB) and not that of the whole command (4096 bytes): such a SET
connects, is refused, and is counted nowhere. Calls that `client_set` refuses
before connecting (white list, longer values) change no modelled state. A SET of
the client always carries a value (`SetAssumption`).

The server receives into 1023 bytes (`commands.c:27`), and the commands of a
connection are taken to fit. A single SET of 1024 to 4096 bytes, which the client
sends, is left out: its value is cut to what is received, and further to the
field of the node as that of any other SET; the rest stays unread, so that the
close resets the connection as it does with a second command, and the client
may get its answer or an error.

The server's process may end at any step (`Exit`, `up`): `main` returns without
waiting for the acceptor. A command received by then may have been carried out,
and is never answered; the connections that wait are reset, the one in service
ends with or without a reset. A stop resets those that wait a moment before the
process ends; a client cannot tell this from its own timeout, which the model
allows at any time, so both are one step. The server stays away: what starts
again has an empty table.

### ClientConnection, ClientLink and WhiteList

`pc` is where a client's `client_connect` stands: before the socket, before a
`connect`, in the poll, before the next attempt, or at the closing end. The call
holds the client's lock throughout, so a client is in one call at most; what
interleaves are clients of one process, which share the descriptors: `tcp` is
what the kernel has behind each number, and a number that was closed is given
out again. The network is `Network`: a connection being made is completed,
fails, or is left for ever. A `connect` on a socket whose last attempt is
pending, has failed or was completed answers EALREADY, the old error, or
success; `fcntl` may fail, and after a poll that succeeded the code looks at
`errno` and not at the result, so that only EACCES and EAGAIN are seen
(`PollDenied`), with the socket left open. `endless` stands for `timeout_ms` of
2^31 or more, which `poll` takes for a negative number.

`denied`, `refused` and `orphans` are history: the sockets and the command
systems that the code loses, and where. `OnlyDenialsLeak` and `OnlyDestroyLeaks`
say that there is no other place.

A `poll` with an endless timeout ends when the connection does or a signal comes;
only as long as neither happens may a call stay in it (`PollsForEver`).

The white list is a set of names that is made and dropped at once; `ListIsWhole`
says that the flag, the names and the allocated system always go together.
`execute_command_safely` and the ten handlers behind it are not modelled: the
mark under which an id would be valid is a 64-bit number kept in 32 bits
(`white_list_client.c:241`, `:267`), so no id validates, and this is a fact about
constants and not about states.

### ServerLifecycle

`mpc` and `apc` are the places of main and of the acceptor thread. `handlers`
holds, per thread, the handlers running on it: a handler interrupts its thread,
another signal may interrupt the handler, and the interrupted code goes on only
when the handlers above it have returned. `server_stop` is four steps, since
another thread may read the status between any two. `client_count` is never
incremented, so the wait for clients and the forced shutdown are not steps. The
listening socket has no state: whether a `shutdown` wakes an `accept` depends on the
system, and `main` may destroy the server as soon as it reads SHUTTING_DOWN, before
the handler shuts the socket or with the number of it read from freed memory. An
`accept` may therefore return a connection, fail or wait at any time. `late` counts
the connections taken after a stop: `OneLateConnection` says that the test of the
loop lets at most one through, as long as the acceptor has not read the freed
server, which is what `NoUseAfterDestroy` is about.

### Smemset

The memory is an array of bytes, and `opsize` the size of a word; both sizes are
initial states. Each loop of `smemset.c` is one action per iteration and one for
its end, with the counters that the next loop takes over. The pattern is built
with the shifts of the code, so that half a word left out is seen.

### Arena

Chunks carry a number given when they are mapped, blocks the chunk they are in:
`blocks` are those that callers hold. The mutex makes each operation one step.
`arena_cleanup_old` ends with an `mprotect` of an undeclared name, which does not
compile and is left out. `Destroy` is `arena_destroy` with the `arena_init` of the
next arena. An old chunk is chosen by its place (`IsFirst`, `Without`), and a
cleanup keeps a set of places in their order (`Walks`), which says what the
loops over the list do without a recursive operator, so that it can be proved
about. Blocks of a chunk that a cleanup unmaps count as gone: that no caller uses
them afterwards is up to the callers, and not watched.

### HashStack

`push` and `pop` are loops; their steps are load, link or read, draw a hash, and
compare-and-swap, in the order of `core.c`. (`core.h` holds the same functions
inline; there the order of reading `next` and drawing is open.) Popped nodes are
the callers': `Reuse` writes anything into them, which is what a late `pop` may
then read; a word whose upper 16 bits are not zero, on which `make_ehash_ptr`
would abort the process (`core.h:52`), is left out. The generator is a sequence of
hashes, `HashAt`; it may repeat, as 16 bits must, and for the seed 0 all its
hashes are 0. The history variable `fooled` says whether a compare-and-swap has
succeeded on a head that had been replaced since it was loaded. In the instance
checked this happens: the hash of the sixth head is that of the second, and after
it a node is on the stack and in a caller's hands at once. `FooledByRepeatOnly`
says that nothing else brings it about. Memory that is unmapped when a node is
freed is not modelled: reading it would end the process.

## 3. Runs

| Run | Bounds | What it shows |
|---|---|---|
| `lsm` | 3 keys and 3 values, one of each too long for its field, 1 pair of garbage and stray tables of at most 1, memtable of 1 (as `code.h`), 2 tables | types, sorted tables, nothing invented but what a cut file leaves, no key dropped, newest value until a compaction, safe idle close, refinement of `KVStore` |
| `lsm_stale` | same | *violation*: a get returns an older value after a compaction |
| `binary_search` | all sorted tables of 0 to 6 pairs over 5 keys | the loop is right, in bounds, and ends |
| `store` | 4 keys in 2 buckets, 2 of them too long, 3 values, 3 nodes | count, one node per plain key, what is stored is read back and what is cut never is, refinement of `CacheMap` |
| `session_threads` | 2 threads on 1 client, 3 calls, 2 connections, SET (also too long to send), GET and CONNECT; the server may end during the first call | at most once, order, whose answer, visibility, statistics; every operation returns |
| `session_success` | 1 client, 2 calls | *violation*: success for a call that no server handled |
| `client` | 2 clients, 2 descriptors, 3 systems, 2 attempts, 3 connects | sockets have one owner, the status fits them, what leaks and what does not, the white list is whole, a connect returns, and is one step to its caller |
| `server` | 4 signals on either thread | a stop is final, lets one more connection in at most, and ends the process |
| `server_dangling` | 1 signal | *violation*: the server is used after it was destroyed |
| `hash_stack` | 2 threads, 2 nodes, 6 hashes of which the sixth repeats the second | no node lost or handed out twice, and a stack, until a repeated hash fools a compare-and-swap |
| `arena` | chunks of 4 to 16 bytes, requests 0, 1, 3, 5, 8 (the largest allowed) and 9, 4 chunks, 3 seconds | disjoint and mapped blocks, the count of chunks |
| `smemset` | addresses 0 to 8, lengths 0 to 140, both sizes of a word, bytes 0 and 255 | exactly the region is set, and the loops end |

Type invariants are not among the properties of most runs: where a module has
proofs they are proved, and elsewhere `TypeOK` documents the variables.

Why the bounds are enough. Two SSTables are the fewest that compact, and the model
compacts again and again, since closed trees are opened and filled anew; nothing
in the state counts puts, so the run covers executions of any length over these
keys. One key that is cut to another shows both what a cut key does to the key it
is cut to and that it is not found itself; one garbage pair under that longer key
is a pair that no put could have left, so that every place where garbage is loaded
is seen. Three calls are the fewest in which one call times out, another's answer
is confused with it, and a third sees the effect; two connections let one be
closed while the next waits. Two keys that are too long are the two cases there
are: cut down to a key of the same bucket or of another. The request sizes of the
arena give a rounded size of each kind: refused as zero or as too large, within
the default chunk, needing a doubled one, and the largest. Six hashes are the
fewest with which one thread can take both nodes off and push one again under the
feet of the other: two pushes, the pop that waits, two pops, and a push. Four
handlers are two signals on two threads, all that can run at once. Two clients on
two descriptors are enough for a number to be closed by one and opened by the
other while a third socket is refused; two attempts are one that is retried and
one that is not; the third connect comes after a client that was lost or left in
error. The lengths of `smemset` go past two blocks of eight words of eight bytes,
from every offset in a word. Every bound is a constant: `MaxNodes`, `MaxCalls`,
`MaxAtExit` (one call may be under way when the server ends, and two more meet it
gone; that the end may come under any number of calls is left to the proofs),
`MaxConns`, `MaxSignals`, `MaxMaps`, `MaxTime`, `MaxSize`, `MaxDrawn`,
`MaxRetries` (a parameter of the code), `MaxConnects`, `MaxGarbage`, `MaxDst`,
`MaxLen`.

`CHECK_DEADLOCK FALSE` is set where the system stops: the search ends, the
process exits, the bounded calls have all been made, the hashes are drawn.

Fairness. `CacheSession` assumes it of threads inside an operation only: the
client library blocks in `recv`, which SO_RCVTIMEO ends, and in the mutex. The
acceptor is given none: `OperationsReturn` holds even if no client is ever served.
`ServerLifecycle` assumes that main and the handlers go on; the acceptor may wait
for a client for ever, and the process ends all the same. `ClientConnection`
assumes that a call that has begun goes on, each client for itself, since a
connect waits for nothing but its poll, which has a timeout. A step out of a poll
that may last for ever is exempt, and so is the network. `BinarySearch` and
`Smemset` assume that their loops run.

### What the code does differently from what it says

The three *violation* runs, with the text they contradict, are in `PROJECT.json`,
"findings". Met while modelling, visible in the source, and given no run of
their own:

- A key of more than 49 characters is put into kryolsm cut and is never found
  (`code.c:133`); a longer value comes back cut (`code.c:135`), while `Put` is
  printed with the whole of both (`code.c:141`). `LatestUntilCompaction` says so.
- A data file that was cut short is loaded with whatever memory held in the place
  of what is missing (`code.c:58-66`); `NothingInvented` bounds it.
- A SET of a key longer than 63 bytes is answered OK and can never be read back
  (`commands.c:203`); the client lets keys up to 256 through
  (`core/client/constants.c:21`). The second half of `SetIsStored` says so.
- An answer that comes after its `recv` has timed out is taken for the answer of
  the next call on the connection, where `client.c:132` says that the lock
  "prevents protocol desynchronization"; `StaleOnlyAfterError` bounds it.
- `client_destroy`, and a `client_init` whose mutex fails, lose the command
  system that the client allocated, where `client.c:36` says that no resource
  leaks occur during error recovery; `OnlyDestroyLeaks` counts them.
- A refused `fcntl` after a poll that succeeded leaves the socket open and the
  client in error (`client.c:555`); `OnlyDenialsLeak`.
- A retry after a failed connect only collects the old error of the same socket
  (`client.c:439`), so every other attempt of `max_retries` tries nothing.
- No id of the white list ever validates (`white_list_client.c:241`), while its
  test program prints that one did (`white_list/client/main.c:27`).
- `client_set` needs `command_system_global_init`, which only the command line
  calls: the SETs of `test_client.c` are refused.
- A `timeout_ms` of 2^31 or more makes a connect wait for ever, with the lock of
  the client held (`client.c:722`); `ConnectReturns` excludes it.
- A SET of 4 KB to 1 MB is refused after connecting and counted nowhere
  (`client.c:1014`); `StatsAccount`.
- `DELETE` answers OK and deletes nothing (`commands.c:140`), while the client's
  program promises to "Confirm successful removal" (`core/client/main.c:317`) and
  prints "Removed key from cache" (`:342`). `CacheMap` leaves the effect open.
- `client_exists` succeeds whatever the server answers (`client.c:1126`), while
  the command line prints "Key exists" for it (`core/client/main.c:382`).
- A failed connect counts in `operations_failed` and not in `operations_total`
  (`client.c:817`); `StatsAccount` states the exact rule.
- `auto_reconnect` is read by nothing but a printout (`core/client/main.c:113`).
- A failed `accept` ends the acceptor and the status stays RUNNING
  (`server.c:73`); a signal before RUNNING is announced and ignored
  (`server.c:398`).
- A flush writes `sstable<i>.txt`, which no start reads (`code.c:185`, `code.c:39`).
- `total_allocated` of the arena never goes down, and a cleanup leaves
  `total_used` as it was.

## 4. Proofs

`LSMTreeProofs`, for all keys, values and sizes that the assumptions of `LSMTree`
allow (keys are naturals, sizes positive, at least two tables; any way of cutting
keys that leaves a cut key as it is, any way of cutting values, and any garbage):

- `TypeCorrect`, `NothingIsInvented`, `NoKeyIsDropped`, `IdleTreeIsOnDisk`, from
  one inductive invariant `IInv` (theorem `Invariance`). The type invariant alone
  is not inductive: that a load gives at most `MAX_SSTABLES` tables needs the
  count on disk to be bounded; that nothing is invented needs the same of the
  pairs in the file, cut short or not (`FileKnown`), and that a file is only short
  after a torn save (`WholeUnlessTorn`); that an idle close loses nothing needs
  the tables to be loadable from the file as long as the memtable has been empty
  since the start. The lemmas before it say what sorting, compaction, flush, save
  and load keep: `SortsOfRearrange`, `CompactionsKeepKeys`, `FlushesKeepKeys`,
  `PrefixesHoldTables`, and `LoadsHoldFile`, which rests on what a load makes of a
  table that is there in part (`LoadedTable`) or not at all (`StrayTable`).
- `TablesStaySorted`: strictly sorted tables, under `MemtableSize = 1`, the value
  in `code.h`. The hypothesis is needed: a larger memtable may hold a key twice,
  and flush does not remove duplicates.
- `LatestIsRead`: the property `LatestUntilCompaction`, under the same hypothesis
  and for the same reason: of two pairs with the key in one table the search may
  meet either. The invariant, `NewestInv`, follows the last value of each key from
  the memtable (where a `MemtableSize` of 1 leaves no second pair) into the newest
  table that has the key. That a key too long for its field is not found needs that
  no pair has such a key, which is so until garbage is loaded (`PutsAreStored`).
- `StoreIsImplemented`: the refinement of `KVStore`, for all sizes. For a get that
  finds nothing to mean that there is nothing the tables must be in key order,
  repeated keys or not, and so must those in the file; that is `OrderInv`, which
  unlike strict order holds for any memtable. A flush changes an answer only to
  another value put under the key (`FlushDrifts`), and a start answers what was
  saved if the file is whole (`LoadsAnswer`). Of a file that is not, nothing is
  promised of the first answers; afterwards an answer may also change to any value,
  since garbage may be in the tree, but never to none.
- `SearchCorrect`, `ProbesInTable` and `SearchesAgree`, about `BinarySearch`, for
  tables of any size: the first two from the invariant that a pair with the key,
  if any, lies between `left` and `right`; the third from the invariant that what
  is left of the table gives the answer of the whole (`LoopFollowsSeek`).

These go through the recursive function `Search`. That it is a function at all,
and what it computes, is proved by least counterexample, on the length of the
part that is searched (`SeekExists`, `SearchResult`): the library's well-foundedness
of `<` on the naturals takes the place of an induction. `SearchResult` says that a
key that is found is where the search says, in any table, and that a sorted table's
keys are all found.

`ServerLifecycleProofs`, for any number of signals: `TypeCorrect`, `StopsAreFinal`
and `OneMoreConnection`. `StopIsFinal` alone is not inductive: it needs that status
is STARTING when main is about to write RUNNING, hence that no handler is past
its test of the status by then. `OneLateConnection` needs that the acceptor starts
after the server was made RUNNING, so that no connection is late by then
(`SpawnedLate`), and that it stands before another `accept` after a late
connection only if it has read freed memory (`LateIsLast`).

`SmemsetProofs`, for all addresses, lengths and bytes and words of four and of
eight bytes: `RegionIsSet`, `NothingElseIsTouched`, `WordStoresAligned`. The
invariant says, for every loop, that the region is set up to `addr` and that what
is left of it, in the counters of that loop (`Rest`), reaches its end (`Progress`);
that words are stored aligned; and that the bytes left suffice to get to a whole
word (`Enough`), or the length would pass below zero. `PatternIsC` shows that the
shifts put the byte into every byte of a word.

`ClientConnectionProofs`, for any number of clients, descriptors and retries:
`SocketsAreOwned`, `StatusIsTrue`, `ConnectedSocketsBlock` and `ListStaysWhole`,
whatever the network and `fcntl` do. None of the first three is inductive: the
inductive invariant has them together with the types, what a client that does not
exist looks like (`Absent`), and what holds at each place inside a call
(`InCall`), for a call at the closing end has to know that its socket is still its
own. A step changes one client and the one descriptor it holds or takes, and a
descriptor that is taken was free. `ConnectIsOneStep` is the refinement: every
step is a step of `ClientLink` or leaves its variables alone. It justifies the one
step in which `CacheSession` connects.

Two theorems of it count. `SocketsLeakByDenialOnly`: the open descriptors and the
clients that hold one change together, one by one, except where a denied `fcntl`
parts a client from its socket, which `denied` counts. `SystemsLeakByDestroyOnly`:
a command system is allocated with a client or for the list, and is lost with the
client; that the list has one or none is `ListIsWhole`. Both need the sets counted
to be finite, which the types give.

`CommandStoreProofs`, for any keys, values, buckets and number of nodes:
`TypeCorrect`, `OneNodePerKey`, `SetsAreStored` and `PlainKeysAreMap`, the
refinement of `CacheMap`. The invariant adds to the properties that a plain key
is met at one place of its chain (`HitOnce`), and that the plain keys found are
no more than `size` (`FoundAreCounted`), which STATS of the abstract map needs. The
DELETE of the code is one of the two that the abstract map allows.
The work is in two lemmas: what overwriting a node (`OverwriteFinds`) and
putting one in front (`PrependFinds`) do to every later look-up of every key,
cut or not. `Find` and `Min` are defined by what they choose, and that there is
something to choose comes from the well-foundedness of `<` on the naturals.
`CountIsRight` says that `size` is the sum of the lengths of the chains. The sum is
a fold over the buckets; for finitely many (`IsFiniteSet(Buckets)`, a hypothesis of
the theorem: the array has a size) there is such a function (`SumExists`), and a
chain that grows by one adds one to it (`SumShifts`), both by a smallest set of
buckets that would violate them.

`CacheSessionProofs`, for any number of clients, threads, calls and connections:
`TypeCorrect`, `HandledAtMostOnce`, `AnswersStayTogether`, `AnswersAreInOrder`.
None of these is inductive, and they hold for one reason: the number of a call is
in one place at a time, with its thread, in the requests of one connection, or
handled (`Unhandled`); and what a connection holds is either waited for on it or
belongs to a call that was given up (`Awaited`). The answer that a thread reads is
then its own, or of a failed call of its client: any other would be awaited by a
second thread, which would need the same connection, hence the same client
(`SocketsOwned`), hence the same lock (`LocksHeld`); this is lemma `AnswerIsFor`.
After an end of file or an answer the connection holds nothing (`OneSide`), so a
success leaves no command behind that could take effect late. The end of the
server only takes away from what is held (`CutEffect`, `ExitEffect`). What the
steps of a client have in common is one lemma, `OperationKeeps`, about a call that
returns or goes on; it is used with what each of them does to the connections
(`ConnsKept`), to the clients (`ClientsKept`) and to the call (`Ends`).
`TableIsCommandStore` is the composition: the session does to the server's table
only what `CommandStore` does, so that the theorems of `CommandStoreProofs` hold
of it. Their invariant is part of this one (`Table == INSTANCE
CommandStoreProofs`).

`CallsAreCounted` proves `StatsAccount` for any number of threads on a client. The
counters differ from the results by the threads that stand before counting, so
the invariant (`Balanced`) says so of each client, with the sets of its calls and
threads; every step moves at most one call and one thread, and no thread counts
a call that only connects (`CommandsOnly`).

`AcknowledgedSetsAreRead` proves `AcknowledgedIsRead`, for the keys that are stored
whole, if nobody calls FLUSH. An answer is tied to its request from the moment it
is sent (`Gets`), so that the invariant can speak of a SET that *will be*
acknowledged: its key is in the table (`Confirmed`), from then on for good
(`FoundStaysFound` of the table's proofs), and no GET that begins after one was
acknowledged misses it (`NotMissed`). What is received as one command has the
answer of its first one, and that one has been given up by the time a second is
sent (`FirstFailed`): so a SET that is acknowledged, and a GET that gets its own
answer, was received alone.

`ArenaProofs`, for all sizes that the assumptions of `Arena` allow and any number
of chunks: `BlocksAreApart`, `BlocksStayMapped`, `CountStaysRight`. A new block
begins where the used part of its chunk ends, so the invariant needs every block
to end below `used` in some chunk of the arena (`Held`), that chunk to be the
only one with its number (`Apart`), and no number to be given out twice
(`AllSound`). An empty current chunk that is dropped holds no block. That a
cleanup keeps all the young chunks is `WalksVisitAll`: a strictly increasing
sequence as long as a finite set goes through all of it. `FitsAssumption`, that a
chunk made for a block has room for it, is an assumption about the constants;
TLC evaluates it for those of the run.

`HashStackProofs`, for any number of threads, nodes and hashes and any sequence of
hashes: `TypeCorrect`, `NodesAreAccounted`, `FooledByARepeat`, `StackIsImplemented`.
The chain of nodes that `NodesAccounted` and the abstract stack speak of is read
off the links one by one, until the null pointer or after as many nodes as there
are (`Chain`).
The invariant speaks instead of a sequence that exists: *some* stack of nodes that
nobody owns is linked from the head (`IsStack`), until a swap is fooled; that it is
the chain is `ChainOfStack`, by least counterexample on the position. With it go
what each waiting thread knows (`AtPlace`) and that what it linked or read is
still so if the head is (`LinkedRight`), since the links of nodes on the stack
are not written. That only a repeated hash fools a swap needs the history of the
heads, which the state does not keep: the invariant says that there *is* a way to
number the hashes of all heads so far, and of those about to be swapped in, by
draws of the generator, no number twice (`Numbering`). A fooled swap then has
equal hashes under two numbers.

Only model-checked: the liveness properties (`Terminates` of the search and of
`smemset`, `OperationsReturn`, `ConnectReturns`, `StopEndsProcess`), which the
prover does not reach. That the three runs with *violation* fail is a matter of a
counterexample, which TLC gives. Every other property of a run is proved.

## 5. Plan

Done, in this order: `LSMTree` with its abstract store and proofs, `BinarySearch`,
`CommandStore` with `CacheMap`, `CacheSession`, `ServerLifecycle`, `Arena`,
`HashStack` with `NodeStack`, the proofs of `ServerLifecycle`; then `WhiteList`,
`ClientConnection` with `ClientLink`, `Smemset`, and the proofs of these two, of
`CommandStore`, of `Arena` and of `CacheSession`.

Then the counts and what an acknowledged SET is good for in `CacheSession`, the
leaks of `ClientConnection`, `HashStack`, the search, the newest value and the
abstract store of `LSMTree`, and the count of `CommandStore`, all proved.

Left: a server that is started again in `CacheSession`, with an empty table behind
the clients' old connections; the hash of the command table against its
definition; and, of the proofs, what a restart of the server means for
`AcknowledgedSetsAreRead`.

## 6. Not modelled

- kryolsm: `load_sstable_from_disk`, which nothing calls, and the headers of an
  earlier layout. Garbage strings without a terminator, which `strcmp` and
  `printf` would read past. A power loss after the save: nothing calls `fsync`,
  and the file is taken to hold what was written once it is closed.
- Server: a single command of more than the 1023 bytes of its buffer (see
  `CacheSession` above); `server->storage`, `server_flush_data` and
  `server_get_stats`, which work on a table that no command uses; `client_count`,
  which is never changed; the stubs for broadcast and callbacks. Keys whose `hash
  & 1000` is 1000 use the memory behind the bucket array, undefined in C. Sizes of
  values in the table.
- Client: an `F_GETFL` that fails, the getters and setters of one field, which
  take no lock, the wait between attempts and its overflow for large
  `max_retries`; the command line.
- White list: `execute_command_safely`, the check of ids before it and its ten
  handlers (`white_list_client.c:265`, `:337`, `:424-745`), which no id gets past,
  and the numbers that ids are made of.
- Arena: the return for MAP_FAILED that would leave the mutex locked
  (`core.c:219`) and is dead code, since a failing `mmap` gives no chunk;
  `last_cleanup`, which nothing reads; the unlocked getters of the counters.
- The DRS generator (64-bit arithmetic, of interest statistically only), the
  generator behind the hashes of the stack, the token store (a fragment without
  bodies), constants and error texts, the tests and examples, and what `printf`
  prints.

The executables, object files and data file in the repository are build products.
