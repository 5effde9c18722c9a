# A verification project for Know Your Network

Know Your Network collects flow records of a network, stores them in
Elasticsearch, analyses them and shows the results in a web interface. This
directory holds TLA+ models of its collection side, the model checking runs on
small instances, and proofs that hold for every instance. File names without a
directory are below `src/Capture/nfelastic/bin/`.

Contents: 1. the system, 2. the modules, 3. how state and actions correspond to
the code, 4. the runs, 5. fairness, 6. what the runs found, 7. the proofs,
8. what is only model-checked and what is not modelled, 9. the plan.


## 1. The system

### 1.1 Components

**Capture (`src/Capture`)** is the part with processes that share state. It is
a fork of nfdump (C) and a few scripts.

| component | state it keeps | operations | what makes it correct |
|---|---|---|---|
| collector `nfcapd.c` | current file, time slot `t_start`, flag `done`, the books | receive packets; at the end of a slot rename the file, book it, signal the launcher; on SIGTERM finish the slot, end the launcher, fold or destroy the books | every finished file is booked once; the launcher is told of every file; it always stops |
| launcher `launch.c`, forked by nfcapd | `launch`, `done`, `child_exit` set by signals; commands that run | run the command of option `-x` for a file; `do_expire` for option `-e`; reap children; end | no signal is lost for good; a command sees the name and time of its own file; it ends |
| book keeping record `bookkeeper.c` | shared memory segment with first, last, numfiles, filesize, sequence; a semaphore | `UpdateBooks`, `ClearBooks`, `InitBookkeeper`, `ReleaseBookkeeper` | the operations are atomic; restarts and interrupted waits do not corrupt it |
| stat record `nfstatfile.c` | the file `.nfstat`, a write lock on it | `ReadStatInfo`, `VerifyStatInfo`, `WriteStatInfo` | read, change and write exclude each other |
| expire functions `expire.c` | a stat record in memory, a directory listing | `RescanDir`, `UpdateBookStat`, `ExpireDir`, `ExpireProfile` | the record stays exact; exactly the files above a limit go, oldest first |
| `nfexpire.c` | options, record, books | list, rescan, expire, set limits | the same, in parallel with a collector |
| bulk sender `elastic.c` | buffer `next_thread`, ring of slots `tm[]`, one thread per slot | append a document; hand a full buffer to a thread; join; final wait | no document lost, doubled or posted from a freed buffer; exit code 0 only after all were settled |
| import script `nfdump_rotate.sh` under cron | data directory, backup directory, pid file | import each file with nfdump, repeat on error, move it | one import at a time; no file moved before it was stored; none posted twice; all are moved in the end |
| decoders `netflow_*.c`, `ipfix.c`, `sflow.c` | per exporter: templates, option templates, samplers, sequence counters | decode a packet to records | records follow the templates their exporter sent last |
| flow sources `collector.c` | lists of sources, exporters, extension maps | look up, add, sync, flush the standard records | ids are unique; maps and exporters are written before they are used; nothing that was freed is used |
| pcap collector `nfpcapd.c`, `pcaproc.c`, `flowtree.c` | lists of free and of used nodes, a tree of flows, two threads | capture, aggregate, expire flows, rotate | nodes are neither lost nor used twice; packets reach the file of their window; no thread sleeps for ever |
| receive loop of `nfcapd.c`, data files `nffile.c` | per source: buffer, file, descriptor; the alarm | wait, rotate, write blocks, add sources | a record reaches the file of its source and slot; a slot ends without packets too |
| readers' tables `nfx.c`, `exporter.c` | extension maps, exporters and samplers by number | insert, renumber, pack, export | a record means the same when it is read as when it was written |
| flow tables `nflowcache.c`, `nfstat.c`, `heapsort_inline.c`, `nfexport.c` | a hash table, sort lists | aggregate, swap, sort, print, export | every record is in one entry, every entry one row |
| filters `nftree.c`, `grammar.y` | blocks with two successors | make, join, invert, evaluate | the tree selects what the expression says |
| file lists `flist.c` | directories | select | – |
| `nfanon.c`, `nfreplay.c`, `nfprofile.c` | – | filters over files | sequential |

**Other parts.** `src/Backend` holds ruby scripts that cron starts and that
query Elasticsearch for anomalies and write events back. `src/Middleware`
(KynKite, Java) offers REST services over Elasticsearch and MySQL: reports,
syslog, AQL and policy rules, users and tokens. `src/Frontend` is its Angular
client. `src/Spark` categorises flows in batches, `src/Reports` renders reports,
and `src/Logstash`, `src/Kibana`, `src/Elasticsearch`, `src/Mysql`, `src/Admin`
are configurations, containers and initial data.

### 1.2 How the components interact

```
  packets -> nfcapd --rename--> data directory --nfdump_rotate.sh--> backup
               |  \                ^      ^              |
   fork,SIGHUP |   \ UpdateBooks   |      |            nfdump
   commbuff    |    v              |      |              | tm[] threads
               |   books (shm) <---+      |              v
               v     ^  ClearBooks |      |         Elasticsearch
           launcher -+---do_expire-+      |
               |     |       \  .nfstat (lock)
           command   +-- nfexpire --------+
```

- nfcapd and its launcher share a memory page `commbuff` without a lock and
  talk by signals (SIGHUP for a new file, SIGTERM to end, SIGCHLD back).
- nfcapd, the launcher and every nfexpire share the books, protected by a
  System V semaphore, and the stat file, protected by a `fcntl` lock.
- The import script and nfexpire both take files out of the data directory and
  know nothing of each other.
- The script decides by the exit code of nfdump whether a file was imported.

### 1.3 What is hard

Four kinds of processes over one directory, with two different locks and some
steps under none; a semaphore that a signal can break; signals that are merged
and may arrive before a handler exists or before `select` sleeps; records that
are read, kept in memory during a long expire run and written back; processes
that die holding a semaphore, a pid file or counts; a retry loop around a call
that is not idempotent; and unsigned counters. In the collectors: packets,
alarms, SIGTERM and SIGCHLD that meet the loop in any place; templates that change
or are withdrawn while records refer to them; numbers that are only unique in one
run and are renumbered by every reader; a pool of nodes that runs dry between two
threads whose wake-ups can come too early. In nfdump: algorithms with shared
memory for keys, with rows whose direction is guessed, and with trees that are
built while they are parsed. `PROJECT.json` lists these
hazards line by line with the properties that watch them.


## 2. The modules

| module | what it is |
|---|---|
| `BulkImport` | abstract: documents are settled at most once, success means all of them |
| `ElasticBulk` | the ring of sender threads; implements `BulkImport` |
| `Books` | abstract: the book keeping record with atomic operations |
| `BookSemaphore` | the same operations as loads and stores under the semaphore; implements `Books` |
| `BookSemaphoreProofs` | mutual exclusion and the refinement, proved |
| `DirStat` | the two records as pure operators: books, stat record, `RescanDir`, `UpdateBookStat`, the loop of `ExpireDir` |
| `ExpireDir` | one expire run, step by step, against a reference definition of what it should keep |
| `Accounting` | collector, launcher's `do_expire` and nfexpire over one directory, built from `DirStat` |
| `AccountingProofs` | books, stat file and directory agree, limits are kept, only counted files go, proved |
| `Launcher` | the signals between collector and launcher |
| `LauncherProofs` | what an expire run keeps and records; no SIGHUP is lost, commands are exact for an idle launcher; proved |
| `RotateImport` | the import script under cron, with nfdump reduced to its outcomes |
| `ImportProofs` | of `ElasticBulk` its invariants and the refinement, of `RotateImport` its four safety properties, proved |
| `ReceiveLoop` | the main loop of nfcapd: clock, alarm, signals, rotation, buffers, files and descriptors |
| `ReceiveLoopProofs` | slots and their files without failures, the place of every record with them, proved |
| `ReaderTables` | pure operators: extension maps and exporters as a reader of files keeps them |
| `FlowSource` | one flow source: the v5, v9 and IPFIX decoders' tables, what they write, and readers of it |
| `FlowSources` | a collector with several sources: packets in any order, lost packets, rotation, restarts |
| `FlowSourcesProofs` | what the tables of readers promise; no table used after it was freed, records decoded as announced, proved |
| `FlowReadersProofs` | what readers find in the files: maps, exporters and samplers, proved |
| `PcapFlow` | packet thread, flow thread and main of nfpcapd |
| `PcapFlowProofs` | its pool of nodes, its windows and its counting of packets, proved |
| `Filter` | the filter tree while it is built, and its two evaluations |
| `FlowTable` | the hash table of aggregated flows as pure operators |
| `HeapSort` | `heapSort` as recursive operators |
| `FlowReport` | nfdump from records to rows, with a second pass over an exported file |
| `MC...` | values and symmetry for the runs |

`Accounting` composes `DirStat`'s operators into processes. It treats
`UpdateBooks` and `ClearBooks` as single steps, which `BookSemaphore` justifies:
their loads and stores implement the one-step operations of `Books`. It treats
the launcher as a process that may start `do_expire` at any time; `Launcher` has
the signals that make it do so. `ReceiveLoop` has the loop that `Accounting`
reduces to `Tick`, `Rename` and `Book`, with the buffers and files behind it, and
leaves to `FlowSource` what is in a record; `FlowSources` runs several
`FlowSource` records side by side, and hands what they write to readers made of
`ReaderTables`. `RotateImport` uses of `ElasticBulk` that nfdump returns 0 only
after all documents were settled, where "settled" includes a request that failed.
`FlowReport` joins `FlowTable` and `HeapSort`.


## 3. State and actions

`PROJECT.json` maps every definition to its lines. The main correspondences:

**ElasticBulk.** `next_thread`, `tm`, `current_thread` are the globals of the
same names; a buffer is the set of its documents and its size, and the empty set
is `bulkdata == NULL`. `pc` is the main thread between `PrintFlowTable` and the
end of `main`, `worker[t]` the thread created for slot `t`, and `arg[t]` what it
has read from the slot it was given a pointer to. `CollectDocument`,
`CollectNoMemory` and `CollectLast` are the calls of
`collect_and_send_elasticsearch_bulk_data`; `NextSlot`, `JoinSlot`,
`CreateThread`, `CreateFails` its second half; `WaitThread` and `Return` the
final wait. A server that fails is a choice in the thread's steps, whose return
value nobody looks at.

**DirStat, ExpireDir.** A directory is a function from time slots to file sizes,
0 for no file: `nfcapd.YYYYmmddHHMM` is its slot. Records have the fields of the
C structures. Sizes wrap at `Wrap` like `uint64_t` does at 2^64. The loop of
`ExpireDir` is a record (`todo`, `size_done`, `lifetime_done`, limits, `done`)
with one operator for the loop state and one for the stat record after a file, so
that `ExpireDir` and `Accounting` take the same steps.

**Accounting.** The collector is `Tick` (time), `Rename`, `Book`, `FoldRead`,
`FoldTrunc`, `FoldWrite`, `Destroy`, `Restart`; an expirer `p` is a record `x[p]`
of its position and local variables. Launcher and nfexpire share `Open`, `Create`,
`Lock`, `LockNew`, `Begin` to `EndLoop`, `Trunc`, `Write`; `Scan`, `Wipe`, `Merge`
are `do_expire`'s own, `Sync`, `Seq0` to `NWipe`, `Param`, `Finish`, `Reopen`,
`Relock` nfexpire's. `WriteStatInfo` is two steps because `open` truncates before
it locks. A process that was attached to the books when they were destroyed keeps
a private copy (`seg = "removed"`), as with System V segments.

`raced` is a history variable. It collects the causes after which the books are
knowingly not exact, so that `AccountsExact` says that *nothing else* makes them
wrong: `rescan` (a file is renamed or booked between the scan of a directory and
the reset of the books), `gaveup` (nfexpire found a changed sequence, returned 250
and wrote the record all the same), `overwrite` (a restarted collector wrote the
file of a slot again), `restart` (during an expire run), `stop` (an auto-expiring
collector ends and destroys books nobody has merged), `died` (a collector is killed
with files in the books or on their way there, or an expirer with the lock while the
stat file claims to be OK and the expirer holds what it does not say) and `unlocked` (the second `WriteStatInfo` of `nfexpire -u`,
which truncates without a lock). For `unlocked`, which the manual denies, there is
a run of its own (section 6).

**BookSemaphore.** `filesize` and `sequence` change with `numfiles` and are left
out. `numfiles++` is `LoadNumfiles` and `StoreNumfiles`, `memcpy` and `memset` are
one step per field. A signal that ends `semop` with EINTR (handlers are installed
without `SA_RESTART`) lets the caller go on, because `sem_lock` only logs the
error; `raced` then holds `interrupt`. A collector that is started after a crash
resets record and semaphore without looking for a process inside; `raced` then
holds `init`.

**Launcher.** `LInit`, `LNext` and `LSpec` have their letter so that one module can
extend this one and `ExpireDir`. A signal takes effect when it is sent: it wakes `select` or
`waitpid`, ends a process without a handler, and otherwise sets its flag, which
is not a queue. `Rotate` and `CommTime` write the two halves of `commbuff`;
`ExpandName` and `Execute` read them. `late` is a history variable: a file was
finished when the launcher was not idle in `select`.

**RotateImport.** `run[r]` is one run of the script, `where[f]` the place of a
file. nfdump returns 250 for a file it cannot read, 255 when the server does not
tell its version, an error when it cannot create a thread, and 0 otherwise, also
when every bulk request failed; `stored` and `sent` count what really arrived and
what was posted. `raced` holds the disturbances a property excludes by name.

**ReceiveLoop.** `pc` is the place in the loop of `run`: `top` (the test of
`done` before `recvfrom`), `call` (between that test and the system call),
`recvfrom`, `test` (the test for the end of the slot), `rotate` with `k` the
source at hand, `dispatch` (what follows the rotation), `end`. A signal ends the
wait when `pc = "recvfrom"` and otherwise only sets its variable; so a signal in
`call` is lost, as in the code. A source is its buffer, descriptor, working file
and books; `fds` and `file` are the open files and the contents of all files, so
that a descriptor that was kept after a failed write can become another source's.
A record is its number in `sent`. `marks` is a history variable with the causes the
properties excuse: `early` (an alarm before the wait), `zero` and `far` (the alarm
was set with 0 or with a negative number), `behind` (a slot was not rotated within
the next), `stale` (a descriptor kept after a failed write), `skipped` (the loop
ended without a last rotation) and `fatal`.

**ReaderTables, FlowSource, FlowSources.** An extension map is the set of its
extensions. `InsertExtensionMap`, `PackExtensionMapList`, `AddExporterInfo`,
`AddSamplerInfo` and their kin are operators named for the functions they translate,
on tables. In `FlowSource` a translation table is allocated in `heap`, with the map it
belongs to, and is referred to from an exporter's chain, from `current_table` and
from `extension_map_list`, so that a use after free can be seen. The actions of
`FlowSources` are whole packets: `V5Packet`, `Template`, `OptionTemplate`,
`DataSetV9`, `DataSetIpfix`, `Withdraw` and `WithdrawAll`, each through the decoder
of its exporter; `Lose`, a packet that does not arrive; `Rotate` and `Restart`. What a source writes reaches three readers at once: of the
current file, of all files, and of what the second one writes.

**PcapFlow.** `p`, `f` and `m` are the two threads and main, `free`, `list`, `tree`
and `udp` the lists of `flowtree.c`. A step is what a thread does under one lock.
What happens between a test and the wait that follows it is a step of its own
(`NoNode`/`AwaitNode`, `TestDone`/`AwaitList`, `FreePush`/`FreeTest`/`FreeWake`),
and `missed` remembers a wake-up that fell in between. `file` is the open file with
the block that is not written yet; `closed` counts the packets in renamed files. Calls
fail up to `MaxFaults` times: `Store` gives a flow up when a full block cannot be
written or the extension map of the first flow cannot be allocated; `Close` may write the
block or not, rename the file or not (also for want of the sub directory); `Open`
truncates a file that was not renamed and takes the block over; `OpenFails` ends the
thread. `lost` counts the packets that go that way, `carried` has the windows that were
in the block when the file was opened.

**Filter.** `FilterTree` is the array of blocks with a test, a successor for true
and for false, the mark for inversion and the list of its superblock. `stack` holds
the parser's values, one block index per group; a term makes blocks and pushes a
group, `And`, `Or` and `Not` combine what is there. `wants` keeps beside every group
the flows its expression should select, and those its negation should select; the two are
only not each other's complement for a list of flags, which means all of them, and
none of them when negated. A list of networks stands for those `Listed`, without the
ones that come after a narrower one in them (`Dropped`).

**FlowTable, FlowReport.** A table is a hash chain per index with entries, and the
memory cells of keys: an entry refers to its cell, as in the code, where the key is
built in static memory that becomes the entry's when it is new. `Read` takes a record
of a file, `PrintTable` and `PrintAbort` print what `Rows` makes of the table,
`Export` writes it to a file, `Reread` starts nfdump on that file with other options
and `ReadBack` reads its records.


## 4. The runs

| run | bounds | distinct states | shows |
|---|---|---|---|
| `bulk` | 5 documents of sizes 1 and 2, limit 2, 2 threads | 14 508 | every buffer belongs to one party, every document is in one place, `BulkImport` is implemented, nfdump ends |
| `expire` | 4 slots, sizes 1 and 3, size limits 0, 3, 5, life times 0, 2, 4, water marks 0, 50, 100, record exact or missing one file | 229 172 | an undisturbed run keeps exactly the newest files below both limits; errors, alarm and cancel leave the record exact |
| `accounting` | six scenes of 2 or 3 slots: launcher, nfexpire in 4 modes, both; restarts and one killed process | 559 498 | books, stat file and directory agree; an expire run holds its limit; every run ends |
| `launcher` | 3 cycles and the one of the shutdown | 81 006 | signals are not forgotten, a shutdown ends, commands are exact for an idle launcher |
| `semaphore` | 1 clearer, 3 files, 1 crash, interrupts | 374 854 | mutual exclusion, `Books` is implemented, `ClearBooks` returns |
| `rotate` | 2 files, 2 runs of the script, 2 faults, nfexpire | 899 868 | one import, stored before moved, posted once, moved in the end |
| `receive` | 2 senders, clock to 4, buffers of 1 record, 3 networks with up to 2 packets and 1 fault | 332 170 | every record is in one place of its own source; files have their slot; what the launcher is told is complete; slots and the collector end |
| `sources` | 4 exporters, 2 sources, 4 packets, 1 rotation, 1 restart, two networks | 600 442 | nothing freed is used; readers resolve maps, exporters and samplers; templates are followed; gaps are counted |
| `pcap` | 3 nodes, 1 TCP and 2 UDP flows, 3 packets, blocks of 2 flows, 2 windows, 2 faults | 2 581 965 | nodes have one owner; packets are counted, those of a failed call too; windows are apart but for what a failed write carries over; no hang but for named causes |
| `filter` | up to 4 blocks, 2 negations, 10 terms, 24 flows | 179 456 | every expression selects what it says, a list of networks without those dropped for their order |
| `flows` | 4 records of 9, 9 sets of options, a second pass | 241 437 | one entry per flow, exact sums, the client comes first, all rows are printed once |
| `parallel` | launcher and `nfexpire -u` | – | section 6 |

*What the properties say together.* Type invariants are a conjunct of a property
where they are not proved. `AccountsExact` also has the bounds of the record,
`Implements` of `semaphore` the whole refinement, `LimitHolds` what an expire run
that nobody disturbed achieves, `RunsEnd` that expirers and the collector end.
`SlotEnds` joins two promises of the receive loop, because they share their
exceptions: an overdue slot is rotated, and a collector that was told to stop stops.
`WindowsApart` includes the order of `UDP_list`, `NothingFreedInUse` the list of maps,
`Selects` the well formed tree, `GapsCounted` the statistics of file and exporter.

*Why these bounds are enough.* Five documents with two sizes fill buffers of one
and of two documents and wrap around the ring of two slots. Four slots allow a run
that removes for the size limit, then for the life time, keeps a file and has one
behind it. Three slots are the least for a file that is counted, one that is
removed and one that arrives meanwhile; `Wrap` = 16 is above every sum, so that a
wrap is a real underflow. Two expire runs see what the first one wrote. One crash
and one restart cover each position of a dying process; more repeat the situation
of the first. Three cycles let one cycle be merged with another while a third is
worked on. A second clearer adds nothing to the semaphore run but size: the
proofs cover any set of clearers. Two files and two script runs cover a retry, a
failed move and overlapping scripts.

In `receive` two senders are needed for a descriptor that becomes another source's;
a buffer of one record makes every second packet write a block; a clock to 4 with
slots of one second and an alarm one second later has four slots, of which one can
be skipped and one follow. `Twin` = 1 hides positions inside a slot; the proofs
hold for any length. In `sources` four packets are a template, a data set, a change of
the template and another data set, or the same spread over exporters; file and
restart come anywhere between. Sequence numbers wrap at 4. The two networks separate
what would only multiply: many layouts at one source, and many exporters, samplers
and lost packets at two sources. In `pcap` three nodes are one in the tree, one in
the hands of a thread and one in the list, so the next packet or empty node finds the pool empty;
two windows of three seconds and a clock to 6 let a flow of the first end by silence
or with its window. A block of two flows is full before the third is stored, and two faults are a
write and a rename, two writes, or a failure in each window. `SYMMETRY` permutes nodes and UDP flows, which no definition
tells apart; the properties of that run are invariants, for which it is sound. In
`filter` four blocks with two negations contain every nesting of three operators over
single-block terms and the terms that make two blocks; one list has a network after a
wider one, the other after a narrower one. In `flows` four records are
both directions of two flows, or one flow from four records with more routers than
an entry keeps; keys share hashes and indexes, and one key is in the last index.

Deadlock is checked in `semaphore` and `rotate`. The other systems may stop
for good: nfdump and an expire run end, the collectors are told to stop, and the
clocks of the models have an end.


## 5. Fairness

- `ElasticBulk`: the main thread and every sender thread are scheduled. A request
  ends, with an answer or an error; no time limit is set on it, so this is an
  assumption about the server.
- `Accounting`: a process that was started goes on. Nothing makes the
  collector rotate or stop, and nobody must start an expire run. The `fcntl` lock
  is only assumed to be granted when it stays free.
- `Launcher`: the alarm makes the collector rotate; both processes and the
  commands are scheduled, and a command ends. The operator need not stop it.
  `LAUNCHER_TIMEOUT` is taken to be longer than the window between the launcher's
  test of `done` and its `select`, so `Timeout` does not happen inside it.
- `BookSemaphore`: an operation that was begun goes on; strong fairness on the
  semaphore, because `semop` queues its waiters; a dead collector is started
  again. Interrupts are never assumed.
- `RotateImport`: cron starts the script again and again, a script goes on, the
  server comes back. Faults are bounded and never assumed.
- `ReceiveLoop`: time passes, an alarm that is due is delivered, and the loop is
  scheduled; packets, SIGTERM and SIGCHLD are never assumed.
- `PcapFlow` states fairness of threads and signal delivery, but its properties are
  invariants: that nobody sleeps for ever is `NoHang`, a statement about states in
  which no thread can go on.
- `ExpireDir`, `FlowSources`, `Filter` and `FlowReport`: none, their properties are
  safety.


## 6. What the runs found

`parallel` states a sentence of the manual and is violated by what the code does:
`nfexpire -u` writes its record twice, the second time after it gave up its lock, and
can replace what the launcher wrote in between.

Behaviour the models contain, by the name under which a property excuses it, or
without any because no property is about it:

*Accounts.* A file that falls to the size limit ends its round with `continue` and
skips the only test of the alarm, so `nfexpire -T` does not interrupt a run that
removes files because of their size (`expire.c:455`). The last comparison of the
sequence and `ClearBooks` are two steps, and so are rename and booking; a file in
between is counted twice or not at all (`rescan`, `gaveup`). `UpdateBookStat`
recognises a restart in the same slot by comparing last with last and first with
first; when the overwritten slot and its successor are folded in one batch, both
pass and the slot is counted twice (`overwrite`, `expire.c:811`). `nfexpire -e`
keeps the limits of its command line in the stat file. A low water mark of 100, which
`nfexpire -w` accepts, lets a run end with a directory that is exactly at its size
limit, so that the next file starts the next run (`LimitHolds` says so). An interrupted `semop`
breaks the exclusion (`interrupt`).

*Launcher and import.* A `SIGHUP` just before `select` waits for the next signal, and
two cycles that end while the launcher works get one command. A launcher whose
command cannot be expanded survives two `SIGTERM`s (`done > 1` is tested before it is
incremented). `commbuff->failed` keeps the outcome of the last source only, and
nobody reads it. nfdump returns 0 after failed bulk requests.

*Receive loop.* The alarm of the next slot is computed from a time read before the
rotation (`nfcapd.c:640`): it can be `alarm(0)`, which is no alarm, or a negative
number, which is one in a hundred years; and an alarm between the test and
`recvfrom` is lost. Until a packet comes, nothing is rotated then. One slot is
rotated per turn, so a loop that was held up files packets under the slots it has
missed (`behind`). A SIGTERM after the test, while another signal has ended the wait,
leaves the loop without a last rotation (`skipped`). When a file cannot be opened the
loop over the sources ends and the others keep their old files; after a failed write
of the header a closed descriptor is kept, which may be another source's next
(`stale`). A block that cannot be written keeps its records for the next file; a
rename that fails lets the next open truncate the file (`lost`).

*Flow sources.* A table that shrinks is not written again. `Insert_Extension_Map`
takes an older map for a new one of the same size that begins with it. Withdrawing
the template at the head of the chain loses all tables of the exporter (`lost`), and
withdrawing all templates empties the map list of the whole source (`reset`). One
IPFIX template switches the router id off for every v9 exporter. Options templates
are kept per source, not per exporter (`options`). A changed sampler is written
with its old rate. `AddDynamicSource` resets the exporter count of the first source
instead of the new one's (`short`).

*nfpcapd.* A wake-up is lost when it falls between the test and the wait of the
flow thread (main signals without the mutex, `flowtree.c:564`) or of the packet
thread (`missed`); the packet thread sleeps for ever when the pool is dry and the
flow thread waits for it (`Dry`). Nodes of ARP packets and of unfinished fragments, and
the empty nodes that drive the clock, are never given back (`leaked`). A capture
without packets closes a file of 1970. When the sub directory or the rename of a file
fails, the next one is opened over it and the window is gone, as the comments at
`nfpcapd.c:718` and 750 fear (`lost`). A block that could not be written stays in the
buffer and goes into the file of the next window (`carried`), or is freed with it when the
thread ends; while it is full, every flow is given up and its node freed, because nobody
looks at what `StorePcapFlow` returns. `ProcessTCPFlow` waits for `FIN_NODE` to end a TCP
flow, but nothing sets it (`fin` is only ever `SIGNAL_NODE`): TCP flows are stored when a
window ends or the cache is full, and the other branches are not modelled.

*nfdump.* Unsorted output leaves out the last index of the flow table
(`nfstat.c:1573`, `i < IndexMask`), while the export and the statistics include it.
`topN` does not apply to unsorted output for Elasticsearch. Sorted output guesses
directions for flows without packets both ways, unsorted output does not. The flags
of the two directions do not survive an export. In a list of networks
(`ip in [...]`) one that contains an earlier one is dropped, because `IPNodeCMP` takes the
two for equal and `RB_INSERT` keeps the first: `10.1.0.0/16, 10.0.0.0/8` selects less than
the other order. `Selects` names it (`Dropped`).


## 7. The proofs

tlapm checks all of these for every value of the constants.

**`ImportProofs`, the bulk sender.** Assumptions: `NumDocs` is a natural number, there
is at least one slot, sizes are positive. The inductive invariant is
`BulkIInv == BulkTypeOK /\ BufferOwned /\ OnePlace /\ Handover`. `BufferOwned` (a thread
works on the buffer of its slot, nothing was freed under it) is not inductive
alone: it needs `Handover`, which ties the main thread's position to the slots
(before `CreateThread` the slot has no thread; `next_thread` is empty once the
final wait began; joined slots stay joined). `OnePlace` needs both, because a
document leaves `next_thread` in the step that fills the slot. Each lemma `...Step`
has one step per action. Theorems: `BulkTypeCorrect`, `NoUseAfterFree`
(`[]BufferOwned`), `NoDocumentLostOrDoubled` (`[]OnePlace`), and `Refinement`
(`BulkSpec => Implements`): every step of the sender is a step of `BulkImport` or a
stutter, so exit code 0 is only returned when each document was settled, once.

**`ImportProofs`, the script.** Assumption: `MaxFiles` and `MaxFaults` are natural
numbers; `Runs` is any set. The inductive invariant has six parts. `Solo` starts
the exclusion one step before the pid file exists: a run that has not seen the
file is as good as its owner. `Counted` says that what is stored plus the number
of runs that post is at most what was sent, which the type invariant's
`stored <= sent` needs. `Seen` says that a run only works on files the collector
finished, `Posted` that a file past nfdump was posted, `StoredInv` that it was
stored unless a server failure hit, and `Once` that a posted file is out of the
data directory or in the hands of the one run that will move it. `Once` needs
`Solo`: a second owner could post the same file. Theorems: `TypeCorrect`,
`Exclusion`, `NothingMovedUnstored`, `NothingPostedTwice`.

**`BookSemaphoreProofs`.** Assumptions: the bounds are natural numbers. The
inductive invariant is `TypeOK` and, as long as `raced` is empty: at most one
process is inside (`Alone`); the semaphore is 1 exactly when nobody is inside and no
dead collector keeps it (`Free`); and the record is what the position of the
process inside says in terms of the last settled record (`CollectorData`,
`ClearerData`), for instance "first is cleared, the others are not yet". The last
part is what the refinement needs: when `StoreNumfiles` or `ClearNumfiles`
completes an operation, the whole record is the abstract operation's result.
Theorems: `TypeCorrect`, `MutualExclusion`, `Refinement`.

**`LauncherProofs`.** The first half is about `ExpireDir`, that is what the launcher does
with a directory. Assumptions: `SizesAssumption`, that the size of a full directory
fits the 64 bits of `filesize` (with sizes that wrap the code keeps other files), and
`LimitsAssumption`: limits are natural numbers, water marks per cent. The sizes of a set
of files are counted as units, the pairs of a file and a number up to its size, so that
the library's facts about finite sets replace an induction over sums. The inductive
invariant is `IInv == Typed /\ Leftover /\ Counted /\ Ordered /\ Verdict`. `Counted`
ties the numbers of the stat record and those of the loop to the files that are left,
through every unlink, refusal and error; `Ordered` says that what is removed is older
than what is not; `Verdict` is the argument for the result: in the loop the limits are
those of the water marks, a limit that is not done is still exceeded, one that is done is
met, no removed file satisfied both limits, and when both are done all others do
(`InLoop`). Theorems: `ExpiresExactly` (`[]KeepsExactly`), `RecordStaysExact`
(`[]RecordExact`).

The second half is about the signals. Assumption: `MaxCycles` is a natural number; the
options are arbitrary. `HupRemembered` is inductive together with `LTypeOK`.
`CommandOnce` is not: it needs `InOrder`, which says where the collector is allowed
to be while the launcher works, as long as `late` is FALSE. The collector writes to
`commbuff` only while the launcher sleeps, has no signal pending and no command running;
a file that is announced or in the launcher's hands was not given to the command
yet; the buffer names the last file whenever the collector is not between its two
writes. Theorems: `SignalsTyped`, `SignalNotLost`, `CommandsExact`.

**`AccountingProofs`.** Assumptions: `ScenesAssumption`, of which the proofs need that no
file is empty and that a full directory is smaller than 2^64, and `LowWaterAssumption`, a
water mark per cent. `AccountsExact` speaks of the moments when nobody is at work, and
says nothing of any other. The inductive invariant `IInv` is
`Typed /\ Times /\ Places /\ (raced = {} => Core)`. `Places` holds whatever raced: who
has the lock, what the stat file contains at each position of who has it, and whose
books are a private copy. `Core` says what the files on the disk are worth at every
step. At each moment one record counts: the one in the stat file, that of the collector
while it folds, or that of the one expirer with the lock. It knows the files up to its
`last`, and the books know all later ones except the one between rename and booking
(`Cover`): the two sets are apart in *time*, which is what `UpdateBookStat` relies on when
it adds the numbers. After the collector has folded its books, and before it removes
them, the record knows all files and the books are counted twice, so nobody may fold
them again (`Folded`). `LoopGood` has the same in the middle of `ExpireDir`, where the list
of files is older than the directory: what is on the list and not after `ds.last` is
counted, the rest of the list is in the books, and files that were renamed since are
in the books or in flight. `Untouched` is about nfexpire with a changed sequence: the
file it found still says what it said. TLC checked the invariant on the run before it was
proved; the attempt showed that `died` had excused more than it had to, and that
`LimitHolds` has to speak of a low water mark of 100. Theorems: `Inductive`,
`AccountsStayExact` (`[]AccountsExact`), `LimitIsKept` (`LimitHolds`), `OnlyCountedGo`
(`OnlyCounted`).

**`ReceiveLoopProofs`.** Assumptions: `SlotsAssumption` and `NetworksAssumption`, that
is a positive length of slot and delay, and natural bounds. The invariant is
`IInv == faults \in Nat /\ (faults = 0 => Sound)`. `InOwnSlot` is about stored files
only; what makes it inductive is `OpenInSlot`, the same about the records a source
has not stored yet, with `Clocked`: the time the loop has read, at the end of the
rotation, is within the next slot unless `behind` is marked. `SlotsComplete` needs
`StoredSlots`: a source has a file of exactly the slots between its first and the
current one, the current one included when the rotation has passed it (`Rotated`).
Both need `FilesApart`: the open file of a source is nobody else's, was not renamed,
and its descriptor refers to it; without that, writing a block could change a file of
another slot. `SourcesOpen` says which sources have a file, `AllSomewhere` that no
record is missing, `ToldOver` that the launcher is told of slots that are over.
`NextSlotTime` and `NoSlotBetween` are the arithmetic of slots; `FreeFd` shows with
the pigeon hole principle that a descriptor is free when a file is opened. One lemma
`...Step` per action, each in front of it a lemma with the effect of the action on
files and buffers. Theorems: `LoopSound` (`[]IInv`), `SlotKept` (`[]InOwnSlot`),
`SlotsStored` (`[]SlotsComplete`).

`RecordsKept` (`[]OneOwnPlace`) is about failing calls as well, so `IInv` is of no use
to it. Its own invariant `WInv` looks at the buffers, descriptors and files as one value
(`Disk`), about which the calls of nffile.c have relations (`IsWritten`, `IsClosed`,
`IsRenamed`, ...) and `Sane` and `PlacedIn` a lemma for each. A file that `rename`
left behind keeps its descriptor, so that open descriptors have to be counted against
`faults` (`Spare`, by cardinality) for the next open to find one; from a kept
descriptor on ("stale") the theorem, as the property, says nothing of places.

**`FlowSourcesProofs`.** The first part has statements about the operators of
`ReaderTables`, for all tables that are `WellFormed`, which the operators preserve
(`WellFormedStays`): `InsertResolves` (after an insertion the id of a map means its
extensions, or those of an older map of the same size that begins with them; what
other ids mean is untouched), `PackResolves` (every map in use gets a number and a
slot of its own, by a counting argument over the maps before it), `NumberedStays` and
`ExporterStays` (exporters keep the numbers of their slots, none is lost).

The second part is about the specification `FlowSources`, under `SourcesAssumption`
(the kinds of exporters are disjoint, bounds and rates are numbers, a network is what
the options of nfcapd and its exporters can be). Every operation of `FlowSource` has a
relation that says what it changes (`TableAdded`, `RemovedAt`, `Joined`, `MapJoined`,
...), a packet is a few of them in a row (`Ready`, then `Templated`, `Withdrawn`, ...),
and the invariants are carried over the relations, not over the operations. What
`FoldLeft` does in `FlushStdRecords` and `FlushExporterStats` is proved from the
definition of the fold in the community modules (`IsFold`, `FoldKeeps`), by the least
counterexample.

`TablesInUseStay` (`[]NothingFreedInUse`) rests on `TablesInv`. `NothingFreedInUse` is
not inductive: to free the table that is found under an id is only safe when no
other table in use has that id and no other exporter holds it. So `Placed` says that
an exporter's chain has an id once, that its cached table is the one of its id in the
chain or not in the chain at all, that exporters share no table, and that each place
of the list of maps has a table with the number of that place. `MembersOf` says that
exporters are in the source their packets go to and that the static table of a v5
exporter is there. `Complete` (every table in use is listed) is only claimed until
an exporter withdraws all its templates beside others ("reset"), after which the list
is empty and the tables of the others are in no file that follows.

`TemplatesFollow` (`[]DecodesAsAnnounced`) rests on `TemplatesInv`, which adds for each
exporter what its chain has of what was heard (`Knows`): a table in the chain is as its
exporter announced it (`Told`), or the id has become one of an options template; an
announced template that was not lost is in the chain (`AllKept`); a table that is only
in the cache belongs to a template that was lost (`CacheKept`). The last two are what
the withdrawal of the head of a chain leaves behind: it drops the rest of the
chain, but the cache may still point to a table of it. An exporter that is not known to
its source has announced nothing.

**`FlowReadersProofs`.** What readers find is proved over the same relations.
`MapsStayResolved` (`[]MapsResolve`) rests on `MapsInv`, `TablesInv` and `Readable` for each
source: what is listed is found (`ListedFound`), by its number and in its layout, by the
reader of the present file and by the one of all files, and to the reader of the
copies each number means what it means to the latter (`SameMeaning`). It has to be said of
the list and not of the tables in use: the list is what is written when a file
begins (`ListedReadable`, by the same argument over the fold), and a table whose
exporter withdrew it leaves the list but its map stays with the readers.
A refreshed template that is only the begin of the old one is not written, so what the
files have (`out`) may be longer than the layout of the table (`ex`), also after several
refreshes (`BeginsChain`). Any other refresh writes the map again under its number
(`RefreshedReadable`), which changes what that number means and no other
(`InsertMeaning`), and `Complete` says that the table is the one listed there.

`ExportersStayResolved` (`[](RoomLeft => ExportersResolve)`) and `SamplersStayTold`
(`[](RoomLeft => SamplersAsTold)`) rest on `ExportersInv`. Neither holds without its
condition: ids end at `MaxSysId` and are then all 0, and a reader refuses an exporter it
has no slot for. `RoomLeft` says of a state that no exporter was given the 0 and that
behind the last id every reader of all files has a slot to move an exporter to; it is
about the present state only, because ids are counted up and slots are never given
back, so that a collector with room has had it since it was started (`RoomBefore`). In
the run every state has it but those in which a fourth exporter got the id 0.
`ListsIn` is the invariant about ids: none is behind `sysid`; the slots of a reader have
numbers of their own (`Numbered`); the copies have each exporter of the reader of all files under the number
it has there, with its samplers (`Copied`); and, with room, no two exporters of any
sources share an id (`Apart`), the file has exactly the exporters of the source
(`OnlyThose`) and each is found (`In`). `Numbered` and `OnlyThose` are what makes it
inductive: a new id is then a free slot in the file, and in the reader of all files what it
drives out moves behind every id given so far. Of all steps, sources are only told
apart by whether an exporter joined (`Joins`) or not (`Continues`); of a restart stays
what the readers know. `SaidInv` says that the collector has the samplers it was told of,
one for each id, until an id stood for two things ("options"), and that a v5 exporter
has the one of its header. A changed sampler is written with its old values
(`InsertSampler`), so that of readers only the id can be promised; `OptsOk`, that the
kind which came last is one the id has flags for, is needed to know which value is read.

**`PcapFlowProofs`.** Assumption: `PcapAssumption`, that the nodes are finitely many, none
of them is the `NULL` of the model, and the window and the bounds are numbers. `NodesOwned` counts
the places of a node; the invariant says the same with lists that have a node at most
once (`Once`, `Holds`), for which taking, prepending, appending and moving to the end
have a lemma each, and `CountOnce` leads back to the counts. It has to be
strengthened twice. `Hands` says at which steps a thread has a node in its hands, which
for the flow thread depends on what it returns to when it frees one (`Pos`): else a
step could overwrite a node it holds. `UdpInTree` says that outside a flush
`UDP_list` has nodes of the tree only, each once: `UDPexpire` takes its head out of
the tree without looking, and from a list with a stale or repeated node would free
one twice. During a flush it does not hold, which is why the flush must forget the
list before anything else is expired. Theorems: `PoolSound` (`[]IInv`), `NodesKept`
(`[]NodesOwned`), for any number of nodes and any interleaving of threads and signals,
files that cannot be opened included.

`FileSound` is about calls that fail: without one nothing is given up or carried over, and
between closing a window and opening the next the file and its block are empty
(`FInv`). `Store` has an effect lemma (`StoreEffect`) that every step which stores a flow
cites: either the block takes the flow, or `lost` takes its packets.

`FlowsInWindow` (`[]WindowsApart`) adds `WInv`: a node between the threads is not older
than the clock of the flow thread nor than the one queued before it (`Ordered`), the
flows of the tree, one node for each, began and ended in the window of the open file
(`InWindow`), file and block have packets of that window or of one carried over, and outside a flush `UDP_list` is exactly the UDP nodes of the tree, in
order of their last packet (`UdpSorted`). The
proof needs the kinds of nodes to be disjoint, which is part of `PcapAssumption`.
`PacketsKept` (`[]PacketsCounted`) adds `PInv`. The packets of a set of nodes are
`Cardinality` of the pairs of a node and a number up to its count, so that the
library's facts about finite sets replace an induction over sums: a node that joins,
leaves or counts one more changes the sum by what it holds. `Filled` says what nodes
outside the tree hold (a free one nothing, one between the threads one packet), and
`Balanced` has the sum over the tree, the list, the hands of the threads and the nodes
that leaked.


## 8. Limits

**Only model-checked.** All liveness (`Terminates`, `RunsEnd`, `CatchesUp`,
`ShutdownEnds`, `ClearEnds`, `EveryFileMoved`, `SlotEnds`) and `NoHang`, which
contains ENABLED: the proof system treats neither. `GapsCounted` and `Accounted` are
about sums that folds compute, whose induction the installed provers do not do.
The properties of `FlowReport` are those of a module that uses the recursive heap sort.
`Selects` is not proved. `ExportersResolve` and `SamplersAsTold` are proved while ids
and slots last (`RoomLeft`); that the run holds them for a fourth exporter with the id 0
as well is a matter of its bounds.

**Abstractions.** `Accounting` has only size limits (the life time is covered by
`ExpireDir`), one flow source, and identifies the orphaned launcher of a killed
collector with the one of the next. A clearer does not die inside `ClearBooks`,
and the removal of the semaphore is one step. In `Launcher` a signal is delivered
at once, and `CmdTooLong` is FALSE in its run: with TRUE the launcher never leaves
its loop. In `RotateImport` a server failure loses what is posted until it returns.
Its files are readable: nfdump leaves the rest of a file with a bad block out and ends with
0 (`nfdump.c:508`), so that the script moves it; for a record with an impossible map
id it ends with 255 (`nfdump.c:611`), and the script tries that file for ever.
In `ReceiveLoop` a packet has one record; statistics and standard records in
the files, sub directories and the repeater are left out. In `FlowSources` a packet has
one set with one record, and blocks reach the readers at once. In `PcapFlow` packets
are classes (TCP, UDP, stored at once, skipped, dropped) and time does not run
back. A block has flows only: the map and exporter records written before them, which after a
failed close may also be written to a descriptor that is closed, the header of a file and a
rename that appends a part are left out, and the first flow may be given up for want
of its map as long as no packet is in a file, also when earlier files were lost. In `Filter` ports, protocols and the many other terms, which build single blocks
the same way, are left out. In `FlowReport` counters do not wrap, and the options of
aggregation are the default ones.

**Not modelled.** The layout of records, packets and blocks, their compression, the
scanner, the generated parser's tables, formats of output, options and logging: these
are conversions without shared state or steps, and make up most of the lines of
`src/Capture/nfelastic/bin`. `StatTable`, the element statistics of `nfstat.c`, which
repeats the flow table per element. `ExpireProfile`, over several channels.
`ReleaseBookkeeper(DESTROY)` in steps: a waiter that gets EIDRM goes on like one that
is interrupted. The queries of `elastic.c` at the start of nfdump (version, whitelist,
known networks): `get_elasticsearch_peer_count` is dead code, and the whitelist
array is filled by hit but counted by valid entries, so that a skipped hit hides
the last entry (`elastic.c:493`); whether the answers hold is a matter of JSON data.
`sfcapd` repeats the cycle of nfcapd. Defragmentation and parsing of packets
in nfpcapd. `nfanon`, `nfreplay`, `nfprofile`, `nfcapd`'s start up. Vendored code (minilzo,
rijndael, fts, rbtree), the analysis backend, KynKite, the user interface,
Spark jobs, reports and deployment files.


## 9. The plan

What is left, in this order:

1. `EsQuery`: the two-step queries of `elastic.c` with their retry counter,
   against a reference definition.
2. `ReleaseBookkeeper(DESTROY)` in steps, in `BookSemaphore`.
3. `ReceiveLoop` as a refinement of the collector of `Accounting`, for one source.
4. `ExpireProfile` over several channels.
5. Middleware: rule sets of AQL (order, swap) and the life of a token.
