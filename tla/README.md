# A TLA+ model of ClockSI

This directory holds a formal model of the distributed transaction prototype in
`src/`: snapshot isolation over several nodes, with snapshots taken from each
node's own clock. It states what the code should guarantee, checks it with TLC on
small instances, and proves with TLAPS, for instances of any size, every safety property that
these checks find to hold.

## 1. Inventory

Processes. The master (`master/`) forks three servers: one hands out parameters
and node ids, one is a barrier ("every node has loaded its data"), one collects
reports. Every slave (`slave/`) forks a *storage process* and a *transaction
process*. The transaction process runs one thread per terminal. Each thread has
a socket to the storage process of every node, and each such connection is
served by one thread of the storage process (`Respond`, socket.c). A request is
sent and its answer awaited before the next one.

| Component | State | Operations | Interaction |
|---|---|---|---|
| Client thread (trans.c, data_am.c, data_record.c) | `TransactionData` (tid, snapshot and commit time), the `DataRecord` list of nodes, send and receive buffers | StartTransaction, Data_Insert/Update/Delete/Read, PreCommit, CommitTransaction, AbortTransaction | requests to storage processes |
| Storage handlers (data.c, local_data_record.c, state.c) | `DatabaseState` (state, tid, times per client), `serverdata` (operations and locks per client), the records | ProcessInsert/Update/Read/Prepare/Commit/Abort | shared memory of the handler threads: mutexes and conditions of `DatabaseState`, `RecordLock`, `RecordLatch` |
| Version queue (data.h, data.c) | front, rear, lcommit, 20 versions | InitQueue, EnQueue, reclaiming, commit, abort, scan | called under the record's latch |
| Lock table (lock_record.c) | `lockrecord`, `lock_num` | DataLockInsert, IsWrLockHolding, DataLockRelease | decides whether `RecordLock` is locked |
| Hash table (data.c) | `TableList`, `tupleid` of each slot | RecordFind, RecordFindHole | slots are claimed by inserts, freed by aborts |
| Transaction ids (trans.c) | `curid`, `maxid` of each thread | AssignTransactionId, GetGlobalIndexByTid | a tid leads to the entry of `DatabaseState` to wait on |
| Workloads (transactions.c) | TPC-C and SmallBank tables | newOrder, payment, delivery, ..., bank transactions | callers of the client operations |
| Start-up and shut-down (master.c, thread_main.c, socket.c, proc.c) | semaphore, barriers, connections | GetParam, dataLoading, WaitDataReady, RunTerminals, ReleaseConnect | messages through the master |
| Thread memory, configuration, random numbers, statistics | local | | none |

What is hard, and what must hold:

- *Commit over several nodes* (`PreCommit`): a node that refuses to prepare has
  aborted by itself, the others must be told; no node commits what another one
  aborts; nothing may be left locked or recorded.
- *Write rules of snapshot isolation* (`IsUpdateConflict`): of two concurrent
  writers of a tuple the first to commit wins; commit times grow along the queue
  of a tuple.
- *Read rules*: a reader must wait for a writer that may commit below the
  reader's snapshot (`waitCommit`), and only for such a one.
- *Clocks* (`waitIfNeeds`): a transaction that reaches a node whose clock is behind
  must wait until the node's clock has reached its snapshot.
- *Deadlock and waiting*: tuple locks are held from prepare to the end of the
  transaction, over several nodes; the operations of a node and the nodes are
  sorted first. A reader waits on a condition with a time limit.
- *The queue at its limit*: when it is full, the oldest third is given up.
- *The lock table*: hash collisions, repeated writes of a tuple.
- *Callers*: what a transaction does when an operation fails.

`PROJECT.json` lists each of these hazards at its line, with the properties that
cover it.

## 2. Modules

| Module | What it is | Proofs |
|---|---|---|
| `ClockSI` | client threads and storage handlers: the transaction protocol | `ClockSI_proofs`, `ClockSI_theorems` |
| `AtomicCommit` | what the commit of one transaction over the nodes promises | |
| `MCClockSI` | instances of `ClockSI` | |
| `RefusedInserts` | `ClockSI` with callers that ignore the result of `Data_Insert` | `ClockSI_theorems` |
| `MCRefusedInserts` | instances of `RefusedInserts` | |
| `VersionRing` | the circular queue of versions of one record | `VersionRing_proofs` |
| `VersionHistory` | the two sequences that the queue stands for | |
| `MCVersionRing` | instances of `VersionRing` | |
| `LockTable` | `lockrecord` and `RecordLock` of one storage process | `LockTable_proofs` |
| `MCLockTable` | instances of `LockTable` | |
| `HashSlots` | one bucket of the hash table of tuples, slot by slot | `HashSlots_proofs` |
| `MCHashSlots` | instances of `HashSlots` | |
| `Startup` | registration, processes of a slave, barrier, connections, end | `Startup_proofs` |
| `MCStartup` | instances of `Startup` | |
| `Terminals` | a benchmark's terminals, their redos and statistics, on the storage as its callers see it | |
| `SmallBank` | the six SmallBank transactions | |
| `Tpcc` | NEW_ORDER, PAYMENT and STOCK_LEVEL | |
| `Workloads` | either benchmark, and what must hold of its tables | `Workloads_proofs` |
| `MCWorkloads` | an instance of `Workloads` | |
| `NumberFacts` | least members, remainders, prime numbers and probe sequences, sums over finite sets | lemmas of `LockTable_proofs`, `HashSlots_proofs`, `VersionRing_proofs`, `Workloads_proofs` |

The detailed modules fit together: `ClockSI` takes a record for a pair of
sequences (`committed`, `pending`) with unlimited room, and `VersionRing` is shown
to implement exactly that; `ClockSI` says that a client knows the locks it
holds, and `LockTable` looks at the table that has to tell; `ClockSI` gives every
tuple a record of its own, and `HashSlots` says how far that is true; `ClockSI` begins
with loaded nodes and connected clients, and `Startup` says how they come about.
`Workloads` stands on top: its storage is the snapshot isolation that `ClockSI` is
to provide.

### ClockSI

A client blocks for every answer, so a client and the handler that runs for it
have one program counter, `pc[c]`; what interleaves is different clients, and
time. A step is what a client's activity does between two points at which another
client can see or change something that it uses. The phases:

- `idle`, `run`: between transactions; between the operations of one.
- `insert_new`, `insert_old`: in `ProcessInsert` after `RecordFindHole` has claimed a
  free slot, or found the tuple (`FindHole`, `Insert`). The slot is looked up
  before `waitIfNeeds` and its state looked at after it.
- `read_wait`, `wait_committime`, `wait_commit`, `read_scan`: in `ProcessRead` after the
  latch was first released (`Read`): before `waitCommit`, in the one or the
  other `pthread_cond_timedwait`, and before the second latch (`WaitCommit`, `TimedOut`,
  `CommitTimeKnown`, `CommitKnown`, `ScanVersions`).
- `prepare`, `publish`, `undo`: in `ProcessPrepare` at the first node of `todo[c]`, with
  one step per operation (`LockAndWrite`), one for reading the clock (`Stamp`), one
  for making the result known (`Publish`), or the taking back of what was written
  (`UndoVersion`, `RefusePrepare`).
- `commit`, `install`, `abort`, `rollback`: in the loops of `CommitDataRecord` and
  `AbortDataRecord` (`CommitNode`, `InstallVersion`, `FinishCommit`, `AbortNode`,
  `UndoVersion`, `FinishAbort`).

Correspondence of the state: `db` is `DatabaseState`, `writes` the `datarecord` arrays of
`serverdata`, `owner` the locks in the `lockrecord` arrays together with
`RecordLock`, `claimed` whether a slot's tupleid is set, `committed` and `pending` the
versions up to and after `lcommit`, `visited` the `DataRecord` list, `snapshot` and
`committime` `TransactionData`, `lastwait` word 3 of the client's send buffer. Time is
`now`; the clock of a node is `now + Skew[n]`. A failed `assert` or an access out of
bounds sets `fault`, and the model goes no further.

Abstractions: values are left out (a read has no effect but its waiting and its
failing); a tuple's number stands for (table_id, tuple_id), so that the order of
the numbers is that of `LocalDataRecordSort`; a transaction inserts a tuple at
most once; a tid is a pair of thread and number, and no transaction starts after
the last number. **A caller aborts after a failed operation**, as the workloads mostly
do; where they do not, after `Data_Insert`, `RefusedInserts` has the step
(`InsertIgnored`).

### VersionRing

One record and its writers, one after the other as the record's lock orders them.
The writer does a sequence of operations out of `Batches` (`Write`, once per
operation), meets a conflict (`Refuse`) or not (`Decide`), and commits or aborts one
operation at a time (`Install`, `Undo`). `ctime` is the commit time that `ProcessCommit` hands down
(`CommitTimes`): a local transaction's grows with its turn at the record; one that is not local (`Distributed`) gets 0 or 1, the
word of `recv_buffer` that its message does not fill (section 5). Modular arithmetic is written out with
`Succ`, `Pred` and `Plus`. `Committed` and `Pending` read the queue as `VersionHistory`'s
sequences.

### LockTable

The clients of one storage process, their tables and the tuples' rwlocks. Each
transaction reaches its tuples in sorted order (`Reaches`). `DataLockInsert` and `IsDataLockExist` call the same `LockHash`, but the
first with a tuple id it has copied to an `int` (lock_record.c:38): `InsertHash` and `LookupHash`; `ThroughInt` is the copy and its
way back to 64 bits, with the sign. `IsDataLockExist` probes
as the code does: the hash slot, then the slot after the *client's own index*, over
and over. `Release` unlocks every lock in the table, also one that is no longer the client's; what `pthread_rwlock_unlock` does to it then is left open. A first operation on a tuple may succeed or meet a conflict, whatever
the other data say; a later one meets a conflict only on a tuple that the
transaction may delete (`Deletable`).

### HashSlots

A bucket of `BucketSize` slots; tuples of other buckets never meet it. A slot has
its `tupleid`, the versions of its queue that are committed (`chain`, each with the
tuple it was written for, which the code does not record) and the uncommitted one
(`pending`), and its lock (`owner`). `VersionRing` has the rest of the queue. A transaction
has one operation in the bucket. The probing is one step per slot, because
`RecordFindHole` takes and releases the latch of one slot after the other (`TryHole`, then
`Compare` without the latch) and `RecordFind` takes none (`Find`). Between the finding of the slot
and its use lie steps of others: a read scans it later (`Scan`), an insert or update takes
the lock and writes at prepare (`TrulyDataInsert`, `TrulyDataUpdate`). The
transaction may end before it has locked anything (`Withdraw`): the claimed slot stays
claimed. `Abort` of an insert empties the queue and frees the slot. `Commit` installs the prepare time, or, if
the transaction is not local, a time out of `GivenTimes`, 0 or 1, whatever the clock says (section 5); the clock is beyond them from the start (`ClockStart`). `fault` says why the process
has ended: one of the two `exit` calls, the assert of `IsUpdateConflict`, or undefined
behaviour, after which it may also go on (a read that goes on with slot -1, data.c:838, or
scans an empty queue, data.c:868).

### Workloads

`Terminals` has the interface of trans.c and data_am.c: `snap[t]` are the rows at a transaction's
snapshot time, `writes[t]` what it has written, `changed[t]` the rows that were committed
since. Commit is one step, in which the first of two committers of a row wins.
This is the promise, and section 5 says where the code breaks it. So the module watches for those
cases and stops (`exposed`) as soon as one of them could matter: a transaction that is not local commits
while another terminal holds a snapshot (its versions get commit time 0), or a version
with the tid 0 can be met. What is left is every behaviour up to that point.
A terminal that has no id left goes on with its old snapshot and tid 0, as
`StartTransaction` lets it; a refused insert makes the node forget what the
transaction has written there; a read may fail when the queue has given up the version
it needs. `Return` has the redo loop and the statistics.

`SmallBank` has one action per transaction, with its reads, its extension's reads, the arithmetic
modulo the width of a `TupleId`, and the tests for negative balances, which are never true of an
unsigned number. `books` is a history variable: the money loaded and what
committed jobs have paid in or out. `Tpcc` splits NEW_ORDER at the inserts whose refusal matters: the order
id is taken (`TakeOrderId`), the row of ORDER inserted (`InsertOrder`), the lines done and the order
committed (`FillOrder`). `Workloads` chooses the benchmark, as `benchmarkType` does.
Left out: tables that are only read, prices, names, a second warehouse, and DELIVERY and ORDER_STATUS, whose weight is 0.

### Startup

`trans[n]` is where `main` of slave n is, `storage[n]` its storage process, `term[n][t]` a
terminal. A connection to m is in `queued[m]` from `connect` to `accept`, in `served[m]` while
`Respond` runs for it, then in `closed[m]`; `released[m]` are the clients whose cmd_release is on
its way or has arrived. `host` places slaves on machines and never changes;
slaves of one machine share the semaphore. A process that is refused a
connection exits, and none of its steps follows. What a terminal executes is one
step, for which the nodes it visits must serve it. Left out: the reports of the
slaves at the master's third server, and time (`sleep`, skew). Assumed: the master's servers listen
before the first slave starts, and no earlier run has left a value in the
semaphore, whose name is never unlinked.

## 3. Runs

| Run | Instance | States | Checks |
|---|---|---|---|
| `Local` | 1 node, 2 clients with 2 transactions each of 1 operation, 2 tuples, one of which is inserted; deletes | 660,000 | `TypeOK`, `WriterHoldsLock`, `FirstCommitterWins`, `CommitTimesGrow`, `NoFault`, `VersionsCarryCommitTime` |
| `Distributed` | 2 nodes with different clocks, 2 clients with 1 transaction of 2 operations, a tuple at each node | 78,000 | `Consistent`, `NothingLeftBehind`, `PrepareNotBeforeSnapshot`, `TransactionsAreAtomic`, `TransactionsEnd` |
| `Ring` | 7 slots, 6 transactions of at most 3 operations, 3 of them distributed | 29,000 | `TypeOK`, `LastCommitKept`, `EnQueueFindsRoom`, `PendingMatchesOps`, `ScanMeetsNewestFirst`, `ImplementsHistory` |
| `Locks` | 3 clients, 4 tuples with colliding hash values, one of which an int cannot hold, 4 slots | 6,300 | `TypeOK`, `RecordedOnce`, `HeldIsRecorded`, `RecordedIsHeld` |
| `Startup` | 2 slaves with 2 terminals, on two machines or on one | 197,000 | `TypeOK`, `RunAfterLoading`, `AloneIsNotRefused`, `StorageOutlivesClients`, `EverythingEnds` |
| `HashSlots` | 2 clients, 4 transactions in all, 3 slots, 4 tuples | 684,000 | `TypeOK`, `SlotHoldsItsTuple`, `ReaderSeesItsTuple`, `CommittedIsFound`, `AssertMeansUncommitted`, `NoSpaceMeansFull`, `FreeSlotsAreEmpty` |
| `Workloads` | 2 terminals of one of 2 nodes, 3 jobs in all, 2 transaction ids each | 320,000 | `TypeOK`, `BooksBalance`, `SendersHaveTheMoney`, `OrdersAreWhole`, `NewOrdersCounted`, `StockFollowsOrders`, `StockLevelFindsOrders` |
| `CommitTime`, `SnapshotReads`, `InsertRace`, `PartialCommit`, `SharedHost` | | | one property each, violated: section 5 |

`Refused.cfg`, with `MCRefusedInserts`, is not one of the runs of `PROJECT.json`: it is the instance on which TLC found `Orderly` and
`LocksAreReleased` to hold (265,000 states) before they were proved. Client 1 may update a tuple of the node that refuses its insert
before and after the refusal, so that operations are recorded at a node whose state is "aborted", and a tuple of the other node; a second
transaction may meet what the first has left. Client 2 writes the same tuple, so that Prepare is refused at either point.

Why the bounds are enough for what is asked:

- Conflicts, lock waits and overtaking need two writers of one tuple, hence two
  clients; that one commits between the snapshot and the lock of the other needs
  two transactions of one client, which `Local` has. Deadlock over the nodes needs a tuple at
  each of two nodes and two clients that write both, as `Distributed` has them; client 1 also
  reads the tuple of node 2. The order of two locks at one node, which
  `LocalDataRecordSort` makes, is in the model, but `TransactionsEnd` is not checked for it: a second tuple
  at node 1 takes the liveness check out of reach.
- `LoadTime`, `MaxStart` and `MaxTime` leave room for a snapshot equal to, below and above
  each prepare time. `LoadTime` is 3 so that a commit time of 0 or 1 is
  recognisable. In `Distributed` the clock of node 1 is one ahead, so `waitIfNeeds` really
  waits (client 1 reaching node 2), and a reader of node 1 meets a prepared writer below its snapshot.
- 7 slots and batches of at most 3 let the queue wrap and be reclaimed several
  times in 6 transactions. A third of 7 is 2: as with 20 slots, some
  versions go and some stay. The properties need that one transaction writes a
  tuple at most `VERSIONMAX - 2 - VERSIONMAX \div 3` times: 3 here, 12 in the code. With
  more, giving up the oldest third reaches the last committed version; the
  workloads write a tuple once or twice.
- `Ring` leaves out transactions that update *and* delete a tuple, of which the
  workloads have none. They break `PendingMatchesOps`: on abort the update is undone
  first and takes the version of the delete, without clearing its deleted flag
  (local_data_record.c:82, 170), and a later update in that slot looks like a delete.
- In `Startup` two slaves are enough for one to be ahead of the other at each point where
  they meet, and two terminals for the barrier and for a last one that waits for
  `accept`. The terminals of slave 0 visit both nodes, those of slave 1 only their own, so
  that slave 1 may release connections which node 0 has not accepted yet.
- `InsertRace` is `Local` with the one difference that the tuple which is inserted
  may be updated as well. `Local` keeps these apart, else `NoFault` fails in all.
- In `Locks` the number of tuples is the number of slots, so a table can be full, and three of them have the
  first slot of their probing in common. The ranges of `int` and `TupleId` are 16 and 256 instead of 2^32 and 2^64:
  11 becomes a negative number, and of 17 an `int` keeps 1, so its two hash values differ, as for ids beyond 2^32 in the code. `T(0, 1)` and `T(0, 17)` may be
  deleted: `CannotBeMissed` holds of the first and not of the second, whose lock is indeed lost early in the run.
- In `Ring` the distributed transactions 2, 3 and 5 follow, and are followed by, one another and local ones.
- In `HashSlots` three slots and tuples with three different probe sequences make a full bucket, a hole in the middle of
  a sequence, and a slot that changes hands twice within 4 transactions: an insert that claims, one that aborts and frees,
  one that takes the hole, and one that looks. One loaded tuple is there from the start. Two clients suffice: while one holds a slot number, the other
  can end a transaction and begin the next; every commit may be a distributed one.
  A `Misdated` slot with a client that found it earlier takes 3 transactions: without the exceptions for such slots `SlotHoldsItsTuple`, `ReaderSeesItsTuple` and `CommittedIsFound` fail in this
  run. The exception of `AssertMeansUncommitted` needs a fifth transaction (TLC finds it with `InsertKeys = {1, 4}` and `MaxTrans = 5`), for which the run has no room.
- In `Workloads` two terminals are enough for two jobs to overlap, and the third job finds what they have left.
  With 2 ids and 2 attempts for a job, a terminal runs out of ids in its second job. Two districts
  share an item, so that orders of different districts meet in its stock; a stock of 20 is filled up
  within three orders. Balances of 4 and amounts of 3 let the first of two payments
  succeed and the second fail, and modulo 16 an overdraft wraps. With both terminals at one node, transactions
  of two nodes appear and are followed until they could be exposed.

`CHECK_DEADLOCK FALSE` is set for the queue, whose transactions run out. In `ClockSI`, `HashSlots` and `Workloads`
the step `Finished` is the one allowed end, so a deadlock of transactions is reported.

Fairness (`FairSpec`): weak fairness of every client's step and of time. A client is a thread and a
handler thread, which the operating system schedules; a step that waits for a lock
is disabled until the lock is free, and weak fairness is enough since, with two
clients, a lock that is released is not taken from under the waiter for ever (a
client has finitely many transactions). In `Startup` likewise: each process and each thread.
A wait of a reader ends by its time limit, so
`TimedOut` belongs to the fair steps. Nothing is assumed about a wake-up coming first.

Every property of a passing run has a mutant: a definition with a mistake in it (`...Variant`) for
which TLC finds the property violated.

## 4. Proofs

Every theorem holds for all values of the constants that satisfy the module's named
assumption and, where one is given, the hypothesis. A hypothesis is a definition of the proof
module about the constants (one, `RoomLeft`, about the states), and the instance of
the run that checks the property satisfies it. The inductive invariants were checked by TLC on these
instances before they were proved.

| Module | Theorem | Property | Hypothesis |
|---|---|---|---|
| `ClockSI_proofs` | `TypeCorrect` | `TypeOK` | |
| | `AlwaysConsistent` | `Consistent` | |
| | `WriterAlwaysHoldsLock` | `WriterHoldsLock` | |
| | `NothingIsLeftBehind` | `NothingLeftBehind` | |
| `ClockSI_theorems` | `Atomicity` | `TransactionsAreAtomic` (refinement of `AtomicCommit`) | |
| | `NeverPreparedBeforeSnapshot` | `PrepareNotBeforeSnapshot` | |
| | `FirstCommitterAlwaysWins` | `FirstCommitterWins` | `WritesAreLocal` |
| | `CommitTimesAlwaysGrow` | `CommitTimesGrow` | `WritesAreLocal` |
| | `VersionsAlwaysCarryCommitTime` | `VersionsCarryCommitTime` | `WritesAreLocal` |
| | `NeverFaults` | `NoFault` | `TouchesLoaded` |
| | `AlwaysOrderly` | `Orderly` (of `RefusedInserts`) | |
| | `LocksAreAlwaysReleased` | `LocksAreReleased` (of `RefusedInserts`) | |
| `VersionRing_proofs` | `TypeCorrect` | `TypeOK` | |
| | `LastCommitIsAlwaysKept` | `LastCommitKept` | `BatchesArePlain` |
| | `EnQueueAlwaysFindsRoom` | `EnQueueFindsRoom` | `BatchesArePlain` |
| | `PendingAlwaysMatchesOps` | `PendingMatchesOps` | `BatchesArePlain` |
| | `QueueImplementsHistory` | `ImplementsHistory` (refinement of `VersionHistory`) | `BatchesArePlain` |
| | `ScanAlwaysMeetsNewestFirst` | `ScanMeetsNewestFirst` | `BatchesArePlain` |
| `LockTable_proofs` | `TypeCorrect` | `TypeOK` | |
| | `AlwaysRecordedOnce` | `RecordedOnce` | |
| | `HeldStaysRecorded` | `HeldIsRecorded` | `[]RoomLeft` |
| | `HeldIsAlwaysRecorded` | `HeldIsRecorded` | `FewTuples` |
| | `RecordedIsAlwaysHeld` | `RecordedIsHeld` | |
| `HashSlots_proofs` | `TypeCorrect` | `TypeOK` | |
| | `SlotsAlwaysHoldTheirTuples` | `SlotHoldsItsTuple` | |
| | `FreeSlotsAreAlwaysEmpty` | `FreeSlotsAreEmpty` | |
| | `ReadersSeeTheirTuples` | `ReaderSeesItsTuple` | |
| | `CommittedAreAlwaysFound` | `CommittedIsFound` | `PrimeTable` |
| | `AssertAlwaysMeansUncommitted` | `AssertMeansUncommitted` | `PrimeTable` |
| | `NoSpaceAlwaysMeansFull` | `NoSpaceMeansFull` | `PrimeTable` |
| `Startup_proofs` | `StartupTypeCorrect` | `TypeOK` | |
| | `TerminalsRunAfterLoading` | `RunAfterLoading` | |
| | `AloneIsNeverRefused` | `AloneIsNotRefused` | |
| | `StorageAlwaysOutlivesClients` | `StorageOutlivesClients` | |
| `Workloads_proofs` | `TypesHold` | `TypeOK` | |
| | `BankBalances` | `BooksBalance` | |
| | `PaymentsAreCovered` | `SendersHaveTheMoney` | |
| | `OrdersStayWhole` | `OrdersAreWhole` | |
| | `NewOrdersAreCounted` | `NewOrdersCounted` | |
| | `StockIsAccountedFor` | `StockFollowsOrders` | |
| | `StockLevelsFindOrders` | `StockLevelFindsOrders` | |

### The hypotheses, and what happens without them

- `WritesAreLocal`: each client writes at its own node, whatever it reads elsewhere. Then the `DataRecord`
  list has one node at most (it lists the nodes of writes), `isLocalTransaction` holds, and the commit
  time is the prepare time of that node. For the other transactions the commit message is one word short, and the
  theorems are false: run `CommitTime` is the counterexample.
- `TouchesLoaded`: clients read, update and delete tuples of the load phase only, and insert any. An update of a
  tuple that another transaction is inserting fails the assert: run `InsertRace`.
- `BatchesArePlain`: a transaction inserts the tuple once, or deletes it once, or updates it at most
  `VERSIONMAX - 2 - VERSIONMAX \div 3` times (12 with the code's 20 slots). The workloads write a tuple once
  or twice. An update together with a delete breaks `PendingMatchesOps` on abort, and a longer batch
  lets the reclaiming reach `lcommit`.
- `RoomLeft`: while a transaction runs, a lockrecord keeps a free slot or has every lock there is. The code's tables have
  80 entries (`MaxDataLockNum`, config.c:95), and the longest transaction does 23 operations. `FewTuples`
  (no more tuples than slots, as in `Locks`) implies it. When a transaction needs more locks than there are slots, the lock that finds no
  slot is taken and never released.
- `PrimeTable`: the bucket size is chosen from prime numbers, of which one is large enough. `prime.txt`
  has the 148,933 primes up to 1,999,993, all of them prime indeed. With another size a probe sequence may not come to all slots.

Two properties have their exception in the statement instead, since the code meets it:

- `RecordedIsHeld` leaves out tuples that may be deleted and are not `CannotBeMissed`: two tuples that the sorted operations come to up to
  this one start at one slot of lockrecord, or the two hash values of the tuple's own id differ. A second operation on a tuple fails only after its delete, and if `IsDataLockExist`
  has then denied the lock, the failed operation unlocks what the first has locked. The theorem says that nothing else loses a lock early, for any ids and any ranges of `int` and `TupleId`.
- `SlotHoldsItsTuple`, `ReaderSeesItsTuple`, `CommittedIsFound` and `AssertMeansUncommitted` leave out the slots of `Misdated`: freed by an aborted insert, and then
  given a version with time 0 or 1 by a distributed commit. The theorems say that changing hands alone, or a wrong time alone, does no harm.

The theorems on `Workloads` have no hypothesis but the constants' assumptions: the sets of terminals, accounts and districts are
finite, items are numbered from 1 below the factor `ITEM_ID` that separates item and quantity in an order line's value, and
an order has fewer lines than `ORDER_LINES`, modulo which the number of lines is kept in the order's value (the code orders up to 10, the comment says 15).
The module numbers an order's lines with the same factor; in `ol_id` the line's number stands above the order's, `ORDER_ID` apart. What the theorems cover is what the module covers: every behaviour up to the first step that is `exposed`.

### The arguments

`ClockSI_proofs`. That a pending version belongs to the lock's holder is not inductive:
the holder's tid is looked up in `db`, at the node of the tuple, and the lock is
released by a loop over the client's list of nodes. So the invariant says also
that a node where a client is *engaged* (holds a lock, has operations) is in
its list, has not aborted, and, once the ending loop has begun, is still to be
called (`NodesAreListed`); and that a listed node has the transaction's tid, and is
active until its handler for Prepare answers (`NodesKnowTid`). `Consistent` is the
conjunction with `TypeOK`. The proof has one lemma per action and in it one step per
conjunct that the action can disturb. `NothingLeftBehind` follows, since an engaged client is not idle.

`ClockSI_theorems`. `AllAgree` adds to `Consistent`, for each client, in which states the nodes of its list are while
the loop over the list prepares, commits or aborts (`StatesAgree`): behind the loop all nodes have answered alike, in
front of it they are as the phase before has left them. Each action then is a step of `AtomicCommit` for the client that
takes it, mapped by the states in `db`, or leaves them alone. `ClocksReachSnapshot` says that the clock of every node of the list
has reached the snapshot, which is what `waitIfNeeds` is for; a clock never goes back, so the prepare time is not below.

`FirstCommitterInv` adds to `AllAgree` that the list has the home node only, when the commit time is set,
and that the versions a client has committed in its present transaction have this commit time
(`StaysHome`, `CommitTimeIsSet`, `VersionsKnown`). Then a version that passes the conflict check is below the writer's snapshot,
its time stays below the clock at prepare, and the lock keeps others out until the commit. `NoFaultInv` adds to `Consistent`
that a loaded tuple keeps its slot and a committed version, and that inserts of loaded tuples are never recorded.

`Orderly` is what remains of `Consistent` when callers go on after a refused insert: a node of the list may then be "aborted" and have
operations recorded, and operations outlive the transaction. What is said of locks has to be told apart by the phase (`LocksAreListed`):
before the ending loop, a node with a lock is not "aborted" unless its handler for Prepare is still at work, which takes the locks
without a look at the state and leaves the node "prepared", "committing", or unlocked. So `ProcessAbort`, which passes over an "aborted" node,
passes over no lock. The lemmas on `WriterHoldsLock` assume only what both invariants have.

`VersionRing_proofs`. All positions are turned into distances from `front` (`Distance`, with lemmas for the steps on the ring,
the only place where the modular arithmetic is expanded). `QueueInv` says that the queue is `Count` committed versions followed
by one for each operation done, that the operations fit the queue (an insert meets an empty one), and what each
slot holds. The refinement has a lemma per action that says what it does to the two sequences: `Install` is `Commit`, `Undo` and `Write` are
the actions of their names in `VersionHistory`, and the others stutter. `ScanMeetsNewestFirst` is about the recursive function `from`: the sequence
that it should return is written down explicitly, shown to satisfy the equation of `from`, and shown to be its only solution
by looking at a slot with the least distance at which two solutions differ. That the writers' numbers grow along the committed sequence, and each
version has a commit time its writer may get, is an invariant of its own on `Committed`.

`LockTable_proofs`. `RecordInv`: the slots between the hash slot of a recorded lock and the slot it is in are all in use, so
that the probing of `DataLockInsert` finds it before a free one; no lock is in two slots; and `lock_num` is the number of recorded locks.
`HeldIsRecorded` needs that the probing stops somewhere: if not, the slots are an injection into the recorded locks, and the
lockrecord is full. `HeldInv` adds that the locks of the tuples up to one that is `CannotBeMissed` are at their hash slots, where `IsDataLockExist` looks first for the last of them.

`HashSlots_proofs`, in two invariants. `BucketInv` says that the holder of a slot's lock is the one transaction
whose version is in it, and that a client that uses a slot it has found earlier either has its tuple there, or finds only what was prepared after its
snapshot (`HasOrIsLater`): so a stale slot number leads to a conflict or to versions that the reader cannot see, never to another tuple's
data. That comparison is void where a version has the time 0 or 1, so `HasOrIsLater` is said of freed slots outside `Misdated` only; a slot that was never
freed keeps its tuple whatever its versions' times (`Kept`), and no step but a commit makes a slot `Misdated`. `ProbeInv` is about the paths: in front of a tuple's slot its path has other tuples, but for
freed slots (`Placed`), a probing that is under way has passed only such slots (`Passed`), and what was committed when the transaction started is ahead
(`Ahead`). It rests on the lemma that with a prime number of slots the path comes to each slot once; `NumberFacts` has that: a prime
number divides no product of two smaller ones, by a least counterexample.

`Startup_proofs`. `Ordered` is the chain of the barrier: who has reported has loaded, who is answered is answered after all
reports, and only who is answered starts terminals. It does not need that nobody exits. `ConnInv` counts connections: only clients that are
expected connect, each is in one of the sets `queued`, `served`, `closed`, and the number that `InitServer` accepts is the number of those clients
(`ExpectedAreCounted`). So a storage process that has closed as many has closed all. For a slave with a machine of its own the semaphore is posted by its own
server, which then listens.

`Workloads_proofs`. `WorkloadsInv` has four parts. `Snapshots`, for both benchmarks: a row that a terminal with a snapshot has not been told of as changed is
in the snapshot as it is in the committed rows; so a transaction without a conflict has computed what it writes from the present rows, though it read the
old ones. It holds also for a terminal that has run out of ids and goes on with its last snapshot. `BankInv`: the rows of every snapshot are balances, and the total is `books`.
A committed job changes the total by what it writes less what was there (`TotalChange`, `PayOne`, `PayTwo`), which by `Snapshots` is what it has paid in.
`TpccInv`: the committed rows, and each snapshot in use, are `Whole`: below each next order id the order, its row of NEW-ORDER and its lines, and no other rows of these
tables. This is more than `OrdersAreWhole`, since the ids must be known to be *free* before they are taken. A transaction between the
parts of NEW_ORDER either has written exactly the rows that belong to its order, or has been overtaken on its district's row (`Written`);
in that case it will meet the conflict, whatever became of its refused inserts, and in the other case its order id is still the next one, so that
no insert was refused. `Balanced` and the equation of `NewOrders` and `Reports` say of the sums that stocks and orders, and orders and statistics, move together.

The properties about sums need to know what the library's sums compute. `NumberFacts` has that, with induction over the subsets of a finite set
by a least counterexample (`SubsetInduction`): the recursive function inside `SumFunctionOnSet` exists (`SumExists`), is the only one (`SumOnly`), may take
its summands in any order, and changes with one summand by what that changes (`SumChange`). The fold over the lines of an order is followed
line by line (`FoldOfLines`, `LinesPlaced`).

### Only model-checked

- `TransactionsEnd`, `EverythingEnds`: liveness under fairness is out of the prover's reach.
- The properties that are violated (section 5).

## 5. What the code does not keep

- `CommitTime`: the message of commit is one word too short for the commit time
  (data_record.c:190-192), and the handler reads the need_wait of an earlier
  message (data.c:927). Versions of distributed transactions get the commit
  time 0 or 1, hence are visible to every snapshot, and a writer with any snapshot passes the conflict check. This is also why `Distributed` does not
  check `FirstCommitterWins` and `CommitTimesGrow`.
- `SnapshotReads`: the commit time is read from the clock before the state that makes
  readers wait is set (trans.c:570). A reader in between sees the old version, though
  the new one gets a commit time below its snapshot.
- `InsertRace`: an update of a tuple whose insert is not yet committed fails an assert
  (data.c:159).
- `PartialCommit`: payment ignores the result of `Data_Insert` for the History row
  (transactions.c:1275), whose key repeats the one loaded for the customer. The node
  of the insert has aborted and forgotten the operations, and the other nodes
  commit theirs.
- `SharedHost`: the semaphore `wait_server` has one name for all slaves of a machine
  (thread_main.c:212). A slave may go on when another one's server is ready, and
  exits if its own does not listen yet; the master then waits for ever.

Met while modelling, in the models as the code has it, without a run of its own:

- `IsDataLockExist` probes other slots than `DataLockInsert` fills (lock_record.c:137), so it
  denies a lock that a hash collision has moved. The harm is limited: the lock is requested
  again, which fails with EDEADLK and is ignored, and `DataLockInsert` finds the entry. Only an operation that fails
  after the transaction has deleted the tuple unlocks it too early (`RecordedIsHeld`).
- The two functions also disagree on where to start: `DataLockInsert` hashes the id cut to an `int` (lock_record.c:38-40), `IsDataLockExist`
  the whole id (line 125). With the 10 in `LockHash` and 80 slots the two agree below 2^32, since 2^64 - 2^32 is divisible by 10; the
  ids of NEW-ORDER, the only rows that are ever deleted, lie beyond 10^10 (transactions.c:528), and there a lock that nothing has moved may be denied.
  The transaction that deletes them, DELIVERY, has weight 0.
- With a commit time of 0 or 1 an update that was prepared for a slot which has since been freed and claimed by another tuple meets no conflict, and its version
  goes into the other tuple's queue; a read of such a slot returns the other tuple's value. `HashSlots` has these behaviours, and its properties say that
  only `Misdated` slots are affected.
- A transaction that aborts before its insert is prepared leaves its slot claimed (data.c:614), until the process exits for lack of space.
- After an aborted insert has freed a slot, `RecordFindHole` claims it without looking at
  the slots behind it (data.c:601), so a tuple that is committed behind the hole can be
  inserted once more, and the second copy hides the first. `CommittedIsFound` holds with
  the exception of such slots.
- A payment of one node never takes effect: its insert into History is refused, the node
  forgets its updates, and the commit that follows is counted but commits nothing.
- SmallBank balances are unsigned: no account is kept from an overdraft by
  TransactSavings, WriteCheck or Amalgamate, and the balance wraps around
  (transactions.c:2849, 2966, 2977). `BooksBalance` therefore counts modulo the width.
- `stockLevelTransaction` returns 0 even if its PreCommit has failed (transactions.c:1731).

## 6. Plan

The parts that carry the program's logic are modelled, and every safety property that the passing runs check is proved. The
promise that `Workloads` makes of the storage cannot be a theorem on `ClockSI`: `SnapshotReads` and `CommitTime` show that reads break it. Its part on
writes, that a transaction commits only over versions of its snapshot, is `FirstCommitterAlwaysWins`, for transactions that write at their own
node. Left for a later version: transactions that do both update and delete one tuple (`Ring`), and `TransactionsEnd` with two tuples at a node.

Not modelled, and why: `ClockSI` and `Workloads` are not composed (the product is out of TLC's reach; `Workloads` runs on the promise and
stops where `ClockSI` shows it broken); DELIVERY and ORDER_STATUS, which are configured never to run;
thread memory (one thread only), configuration, random numbers
and printing (no state the protocol depends on), loss or reordering
of messages (TCP connections, and nothing in the code retries), and crashes (nothing is
stored and no process is restarted).
