# A verification development for debby-lib

debby is a C++ wrapper over storage engines. It offers two interfaces: a
key-value database (`keyvalue_database`, seven backends) and a relational one
(`relational_database`, SQLite and PostgreSQL), and typed settings on top of the
first. This directory holds TLA+ models of that code, configurations that check
them with TLC, and theorems checked by TLAPS. Paths below are relative to the
root of the repository.

## 1. The system

| component | state it keeps | operations | what is hard |
|---|---|---|---|
| key-value interface `include/pfs/debby/keyvalue_database.hpp` | a pointer to the implementation | clear, remove, set, get, get_or | promises nothing in words about threads or failure; a null pointer means "delete" |
| in-memory `src/in_memory/keyvalue_database.cpp` | a `std::map` or `unordered_map` of variants, a mutex that is real in the `_mt` variants | all calls | concurrency; which calls lock, and how often |
| LMDB, libmdbx `src/lmdb`, `src/libmdbx` | environment and table handle | open, close, wipe; each call is one transaction | failure at every step, crashes, ending every transaction once |
| RocksDB `src/rocksdb` | database, two column family handles | the same; clear drops and re-creates the family | a handle that is destroyed, null or stale; synchronised and other writes |
| key-value over SQL `src/keyvalue_relational_database_impl.hpp` | a connection, two prepared statements that are reused | put, get, remove, clear | a get leaves its statement on a row; locked tables; failures reported late |
| settings `include/pfs/debby/settings.hpp` | a key-value database | set, get, take, remove | take is three calls of the database |
| relational database `include/pfs/debby/relational_database.hpp`, `src/sqlite3`, `src/psql` | a connection, its transaction, a statement cache | query, clear, prepare, begin, commit, rollback, transaction, remove, remove_all, tables, exists | engines that differ on errors inside a transaction; exceptions; lost connections |
| statements and results `src/*/statement*`, `src/*/result*` | handles shared between objects, cursors | bind, exec, reset, next, get | ownership of a handle; a cursor past its end; what becomes of a number between its C++ type, the column and the type it is read as |
| data definition, affinities, packing, errors | text under construction, none | declaring columns, converting values | the limits of the types, of the columns and of the bytes of a record |

Interactions: `settings` calls `keyvalue_database`; the key-value database over
SQL is a `relational_database` and uses its `query`, `prepare` and its
statements; `remove_all` calls `tables` and `remove`; `remove` and `transaction`
are made of `begin`, `query`, `commit` and `rollback`. Concurrency comes from the
program: several threads in one in-memory or LMDB object, several connections to
one SQLite file, several clients of one server. The library starts no thread.

What makes each part correct:

- key-value backends: linearizable (with failures: a call that reports success
  took effect once, one that reports an error did nothing), nothing lost by a
  crash where the engine is persistent, no call that blocks for ever;
- settings: take is atomic in the uses where three calls can be;
- relational database: what `transaction` and `remove` report is what happened;
- values: what was written to a column is read back as itself or refused, and
  never as something else, at every limit of the types.

## 2. The modules

`KvInterface` holds the calls, the answers and the meaning of a call as a
function of the contents (`After`, `Answer`). Values are records with a type and
a number; a typed read of a value of another type is `bad_value`, as
`make_unsuitable_error` reports.

**`CppValues`** is what `SqliteValues` and `PsqlValues` share: the C++ types with
their sizes and values, `Packed` (the bytes of a `fixed_packer`), and the casts
that `bind` and `get` make. The widths are a constant (`Half[s]`, half the number of
integers of `s` bytes), a real number is the pattern of its bits.

**`SqliteValues`** models how the SQLite engine writes and reads values: `Bound` and
`BoundBytes` are `bind`, `Record` is `set` of the key-value database, `Declared` the
type that `add_column` gives a column, `Stored` SQLite's column affinity, `GetInt64`,
`GetDouble`, `GetString` and `Get` the typed `get`. It is pure; `RelationalKv`
extends it and keeps in its table what `Record` made and answers with what `Get`
makes of it.

**`PsqlValues`** does the same for PostgreSQL: `TextOf` and `BytesOf` are `bind`,
`ColumnType` the declared type, `Kept` what the server makes of a text that it is
sent (the value, or an error when it is out of the column's range), `ReadInt64`,
`ReadDouble`, `ReadString` and `ReadCell` the typed `get` of a column that is not taken for
a NULL, and `Read` the whole of `get`: its null test looks at the column after the one
it reads, and finds a NULL where there is none. `Rounded` is what six decimals leave
of a double.

**`Columns`** is a column of a table over either of them. `CreateTable` declares
the column with a type and as one that takes NULLs or not, and says what the column
after it holds (`after`: there may be none, a NULL or a value); `MakeKv` makes the
table of the key-value database, whose get selects one column and no other; `InsertRow` writes a value of any type to it (`SqliteInsert`,
`PsqlInsert`: the statement may fail), `ClearTable` empties it. `given` is what was
bound, `content` what the column holds; the properties compare what each type that
has the value reads from `content` with `given`.

**`KeyValue`** is the abstract specification of `keyvalue_database`: a map, and
per client `Invoke`, `Do`, `Return`. With `MayFail` a call may fail and leave the
map alone; with `Persistent` the process may crash, and `Wipe` may empty the map.
The concrete backends are shown to implement it by `INSTANCE KeyValue WITH ...`.

**`InMemory`** models the in-memory backend. `mtx` is `_mtx`, `dbh` is `_dbh`. A
call is in the container between `EnterContainer` (part of `Lock`, `Relock`,
`EnterClear`) and `Access`, so that two calls can be inside together; if one of
them writes, what they leave and answer is arbitrary (`raced`). `LockNull` and
`Relock` are `set` of a null pointer, which calls `remove` with the mutex held.
`clear` locks nothing. A deployment says which variant, threads and calls are
in use; `Serialized` names the ones where calls cannot overlap.

**`EnvStore`** models LMDB and libmdbx, whose sources differ in the names of the
engine only. `perform_transaction` is `Begin`, `Body`, then `Commit` or `Abort`;
each has a failing variant. `txn` is the handle (`"ended"`: a commit that failed
has freed it, and the code aborts it again), `view` what the transaction sees,
`writer` the engine's writer lock. `Crash` may come at any time.

**`RocksDb`** models RocksDB. `clear` is `Drop`, `Destroy`, `Create`, each of
which can fail; `handle` is `_handles[1]` and may be null or left pointing to a
destroyed object, `family` the column family, `recoverable` the contents that a
loss of power may leave (put writes without sync, remove with it). Calls on an
object without database or handle are `Ignored`, except `get`, which ends the
process (`Terminate`). `believed` and `warned` are what a program knows from the
answers.

**`DurableStore`** is the abstract specification that `RocksDb` implements
(`AtomicUnlessDegraded`): a database on a disk with one caller, whose calls take
effect at one point or fail, whose writes outlive the process, and whose loss of
power undoes unsynchronised writes only. `OpenFails` and a `DoFail` of clear
degrade it, and only then may a call be answered without being done
(`DoNothing`). A clear takes effect at `Drop`; `DestroyFails` and `CreateFails` are
failures reported afterwards.

**`RelationalKv`** models the key-value database over SQLite, one connection per
thread. `getStmt` and `putStmt` are `_get_stmt` and `_put_stmt`: `"row"` says that
the last get left its statement standing on a row and so holds a read
transaction, `"failed"` that the next `reset` reports an old failure again.
`behind` are the connections whose read transaction is older than the table in
WAL mode. `Busy` says when SQLite refuses a write. The table holds column values
of `SqliteValues`: a key of each C++ type is written as bytes and read by its type.

**`SettingsInterface`, `AtomicSettings`, `Settings`**: `AtomicSettings` promises
atomic calls; `Settings` is the code, where take is `Take` (get), `TakeSet` and
`TakeGetOr`, with calls of other threads between them, each able to fail.

**`Transactions`** models `transaction`, `remove` and `remove_all` over one connection of
either engine, with `query`, `clear`, `begin`, `commit` and `rollback` called in between in any
order. `tx` is the state of the connection's transaction, `work` what the
connection sees and `committed` what others see. The first group of operators
(`QueryDone` ... `RollbackFails`) is what the engine does with one statement, the
rest is the code. `RemoveAll` lists what the connection sees and removes it;
`RemoveAllOfNone` is its early return and an error of the list. A body may call
`transaction`, `remove` and `remove_all` itself: those are the same actions
(`CallByBody`), with what the body was doing kept in `callers` until `ReturnToBody`. On
SQLite such a call cannot begin while the body's transaction lasts, and can once that
was rolled back; on PostgreSQL its `BEGIN` is a warning and its `COMMIT` commits the
work of the body. A usage says which engine, whether calls are made in a
transaction, and whether a body goes on after an error; all eight are run.

**`SqliteStatements`** models the statements and results of the SQLite engine. A
handle is a `sqlite3_stmt`; `native` is what it is doing (`"ready"` after a reset,
`"row"` after a step that found one, `"failed"` after one that failed), `cache` is
the database's `_cache`, `bound` the handles with bound parameters. A statement
object has its own handle or shares one of the cache, a result borrows the handle
of its statement or owns the one that `exec` of the database made. `PrepareHit` and
`PrepareMiss` are `prepare`, `ExecSql` is `exec` of the database, `Destructor` the
part that destruction and assignment of a statement share. The objects do not
know of each other, and the code leaves two duties to the program, which are
guards here: a statement is not prepared, reset, executed or destroyed while a
result is on a row of its handle (`Unread`), and a statement whose text was
prepared again is only destroyed (`Usable`).

**`OwnStatements`** is what a program may think it has: statements and results that
share nothing, each statement with its own state and parameters, each row
belonging to one result. `SqliteStatements` implements it (`SharesNothing`) by
showing of a statement the state and parameters of its handle (`Shown`) and of a
result whose row it is on. Preparing a text again supersedes the statement that
had it; the one way in which the sharing shows is that a superseded statement,
when it is destroyed, may reset the state of its successor (a failure that was to
be reported again is not), which `Without` allows.

**`PsqlStatements`** models those of the PostgreSQL engine: the server's session
(`session`, `tx`, `prepared`: statements by name), the statement objects with the
copies, lengths and pointers of their parameters, the results with their cursors.
`Name` maps a text to what the server keeps of it as a name (63 bytes). `PrepareFound`,
`PrepareNew` and `PrepareFails` are the outcomes of `prepare`; `EnsureCapacity`,
`BindValue`, `BindNull` and `Pointed` are what bind and exec do with the parameters;
`Get` is `get` of a text column, with its null test. `CachedOnly` says that the
program prepares by `prepare_cached`, and a statement has all of its parameters
before its first exec.

The modules `MC*` give the constants their values for TLC. `MCRelationalKv` takes
`RelationalKv` and `Columns`: a behaviour is one of either, because they share
no state, only the values they are built from. The modules
`*Proofs` hold the theorems. Every module has a few definitions headed "Mutant
of": the code with a plausible bug, which the property it is paired with in
`PROJECT.json` rejects.

## 3. The runs

| run | what it shows | bounds |
|---|---|---|
| `in_memory` | with calls that lock, or a caller on its own: no data race, linearizable, every call returns | two threads (a race needs two), two keys, a value of each of two types, two calls per thread |
| `in_memory_null` | **finding**: `set` of a null pointer locks its mutex twice and never returns | one call per thread |
| `settings` | take is atomic in compatible uses; what a take in progress can count on | two threads, two keys, three values of two types; own keys, and one shared key |
| `env_store` | atomic and durable calls, one writer, up to date, no transaction left open, through failures and crashes | two threads, one key with two values, one with one |
| `rocksdb` | no silent loss, removed keys stay removed, every call atomic and durable until an error of clear or make_kv | one thread (the object has no lock), two keys, two values |
| `relational_kv` | linearizable through busy tables, old snapshots, failed statements and crashes; a failure is reported at most once more. And, in the behaviours of `Columns`: every value of every type, in every column and record of both engines, is read back by every type that has it, or refused (`DeclaredColumnReads`, `NoOtherNumber`, `RecordReads`, `ColumnKeepsOrRefuses`, `NoOtherInteger`), with the exceptions listed below | two connections, both journals, a signed key with a negative and a positive value, an unsigned one with its largest; integers of 2, 3, 4 and 8 bits for 1, 2, 4 and 8 bytes, five strings |
| `relational_null` | **finding**: put of a null pointer deletes and then inserts NULL | two connections, no engine failure |
| `transactions` | success commits in the usages of `Attentive`, failure undoes in those of `Undivided`; in all of them remove and remove_all are all or nothing, and only a call that threw leaves a transaction open | two items, all eight usages, calls in bodies to a depth of two |
| `sqlite_statements` | every handle finalized once, rows never mixed between results, nothing left running out of reach; objects over shared handles behave as if they shared nothing | two texts, three handles, two statements, two results |
| `psql_statements` | a statement executes its own text, with what was bound last; no transaction is aborted in silence | two texts, two statements, one result of two columns and at most one row, two parameters |
| `psql_prepare` | **finding**: a statement that `prepare` made without the cache can never be executed | one statement |
| `psql_null` | **finding**: `get` of the last column is always nullopt | one statement |

Why the bounds are enough: the properties relate at most two threads and one
key; a second key is there to show that calls leave other keys alone, a second
value to tell an old one from a new one. There is no counter to exhaust but
`MaxCalls` of `InMemory`, which is there so that "every call returns" can be said
as termination; two calls per thread let one call meet the remains of another.
Three handles are two in the cache and one more, or two texts' worth of
uncached ones beside a result's; two statements and two results are what sharing
needs. The values are tried with integers of a few bits, each wider than the one
before, so that every value of every type is there, with every sign, limit and
wrap; PostgreSQL's widest has twice the bits of the next, as in the code, because
the bytes of a short number are moved within it. One row is enough: the engines
treat the rows of a table alike. The theorems of section 4 hold without the bounds. Symmetry is declared
where the actions treat the values alike (`MCSqliteStatements`,
`MCPsqlStatements`, and the two threads of `MCRelationalKv`), and never in a run
with a liveness property. The state spaces are finite
and searched completely. Only `in_memory_null` is run without the deadlock
check: being stuck is its finding, stated as a liveness property.

Fairness: `InMemory` assumes weak fairness of each thread's calls and steps: a
thread that can run is run by the system's scheduler in the end, and a
`std::mutex` that is free is obtained by somebody. It does not assume that one
thread obtains a contended mutex for ever contested: calls are bounded there.
`EnvStore` assumes weak fairness of the steps of each thread in a call, nothing of
opening, closing, calling or crashing. The other models state safety only.

### What the checks rest on

- *Typed keys* (`TypedKeysAssumption`): programs read a key as the type they
  stored. RocksDB, LMDB and SQLite keep bytes, and a read of another type is
  answered by a comparison of sizes at best. What SQLite answers to a read of
  another type is `RecordReads`.
- `RecordReads` excuses unsigned numbers of 1, 2 or 4 bytes with the highest bit
  set that are read by a type of another size: SQLite's `get_int64` takes the
  bytes for a signed number, and the read returns a negative one (or what a cast
  makes of it) without an error.
- `ColumnKeepsOrRefuses` names what PostgreSQL's columns may refuse (`TooLarge`: the
  upper half of `uint16`, `uint32` and `uint64`, and times beyond 2^31
  milliseconds; and empty strings where the column takes no NULL). It does not say
  that they should: section 5 has what a test says of it. Of a real number it
  says that its six decimals are read back (`RealRead`: 1e-7 is kept as 0), and
  NaNs are left out.
- On PostgreSQL both properties say what `get` returns when the next column is no NULL;
  in every other case it is nullopt (`Read`), which is the finding `psql_null`. The
  key-value table is there too: as its get selects one column, no property says
  anything of its records. With that and `psql_prepare` put right, numbers of 1,
  2 and 4 bytes would be read from their wrong end (`FromBytes`), and an `int32` as 0.
- A NaN is stored as NULL by SQLite, and an empty string is sent as NULL to
  PostgreSQL: `get` returns nullopt of both (`Original`, `Expected`), and a column
  refuses both unless `nullable()` was called for it.
- Strings look like no numbers: what a string is converted to in a column of
  numbers, and the text of a number read as a string, are not modelled.
- The passing run of `InMemory` leaves `clear` and null pointers out where the
  threads share an `_mt` object: with a deployment that clears beside other calls
  `NoDataRace` fails, and null pointers have a run of their own.
- The passing run of `RelationalKv` leaves out null pointers, which have a run of
  their own, and failures of `prepare`: with `"prepare"` in `Faults`,
  `Linearizable` fails, because `remove` drops that error and reports success (the
  theorem shows that a put or a get whose prepare fails breaks nothing).
- `Transactions` runs every usage, and two of its properties are limited to those that
  they hold of; TLC finds each of the others to break them.
  `SuccessCommits` leaves out (`Attentive`) bodies that go on after an error on
  PostgreSQL, where the `COMMIT` of an aborted transaction rolls back without an
  error, and bodies on SQLite that go on and make calls: after an error has rolled
  the transaction back, a call in the body begins another, which may stay open when
  its commit is busy, and the `COMMIT` of the body then succeeds without what was
  lost. `FailureUndoes` leaves out (`Undivided`) the same bodies on SQLite, and every
  body on PostgreSQL that makes a call: the `COMMIT` of the call commits the body's
  work, and the `ROLLBACK` of a failing body afterwards undoes nothing and succeeds.
- A body is taken to use `transaction`, `remove`, `remove_all`, `query` and `clear`, not
  `begin`, `commit` or `rollback` themselves, which would end its transaction under it.
- `MaxDepth` bounds how deep calls are made in the bodies of others. Two is enough to
  have a call in a body which is itself called from one; the theorems have no bound.
- The passing run of `PsqlStatements` prepares by `prepare_cached` and gives every
  text a name of its own. With two texts of one name (alike in their first 63
  bytes) `Executable` fails. All parameters are bound before the first exec: a
  bind of a higher index after it moves the copies that the pointers point to.
- The passing run of `SqliteStatements` rests on `Unread` and `Usable`.
- `NoSilentLoss` excuses what follows a reported error of clear or make_kv:
  after it the calls on the object are ignored and report nothing.
- Engines are trusted: they are modelled from what the code relies on, at the
  granularity of their calls.

## 4. The theorems

All are for every value of the constants, from the assumptions named in the
modules (`RequestsAssumption`, `AbsentAssumption`, `TypedKeysAssumption`, ...).

- **`InMemoryProofs`**: `TypeCorrect`; for deployments that are all `Serialized`,
  `MutualExclusion` and `InMemoryImplementsKeyValue`. The invariant adds to the
  types that a thread in the container or about to leave it owns the mutex
  (`Owned`) and that nobody has raced: without `Owned` mutual exclusion is not
  inductive. A step of the model maps to one of `KeyValue` at `Access`.
  `NoCallIsStuck`, for every deployment that puts no null pointer with the mutex: a
  call can go on, or waits for a thread that can, so that the scheduler's fairness is
  all that `EveryCallReturns` needs besides. `NullPointerStaysLocked` states the
  finding of `in_memory_null` for all threads, keys and values. Both rest on who owns
  the mutex (`OwnerInv`).
- **`SettingsProofs`**: `TypeCorrect`; for uses that are all `Compatible`,
  `TakeUndisturbed` and `TakeAtomic`. What carries the proof is that during a take
  its key holds the default or nothing; then `TakeSet` is the point where the take
  takes effect, and `TakeGetOr` answers what was decided there.
- **`EnvStoreProofs`**: `TypeCorrect`, `WriterExclusion`, `WriterUpToDate`,
  `EnvStoreImplementsKeyValue`. The invariant joins the program counter to the
  handle (`HandleInv`), the writer lock to the live write transaction and the
  view of a writer to the committed contents. `TransactionsComeToAnEnd` is what of
  `EveryTxnEnds` is safety: a live transaction, the holder of the writer lock's among
  them, is at most three steps of its own thread from its end, the engine's errors
  included, and no step of another thread moves it away from there.
- **`RocksDbProofs`**: `TypeCorrect`, `NothingLostSilently`, `RemovedForGood`,
  `RocksDbImplementsDurableStore`, `HandleIsSound` (the handle is left destroyed only by
  a clear whose error was thrown). The invariant follows family and handle through `clear`
  (`HandleInv`): unless a warning was given, a call finds both. `BeliefInv` says
  the contents are what the answers say up to the call that has just ended,
  `PowerInv` that nothing absent can come back. The refinement rests on the same
  invariant: where a call finds no handle or a dropped family an error was reported
  before, so that what it does is the abstract `DoNothing`.
- **`TransactionsProofs`**, for every set of usages and any depth of calls:
  `TypeCorrect`, `SuccessIsCommitted` (of the usages in `Attentive`), `FailureIsUndone`
  (of those in `Undivided`), `RemoveIsAtomic` and `OpenTransactionIsKnown` (of all), and
  `CallsChangeAtOnce`: a remove, and a transaction of a usage in `Undivided`, changes
  what is committed in one step, to all that it did, except that on SQLite a body
  that goes on after its transaction was rolled back commits query by query.
  The invariant says that outside a transaction nothing is pending; that what a body
  counts on is in its work, and what its callers count on too (`BodyCounts`,
  `CallerCounts`); that in the usages of `Undivided` nothing is committed before the
  end of a call and a call in a body has not begun (`OwnHolds`, `InnerHolds`); and that
  remove drops in a transaction which it ends, whoever began it (`RemoveHolds`).

- **`SqliteStatementsProofs`**: `TypeCorrect`, `Ownership`, `Rows`, `Reachable`,
  `StatementsShareNothing`. The invariant says who may share a handle: one of the cache is in
  the cache once (`CacheInv`), a cached statement has one of those and another one
  has its handle to itself (`StmtInv`), a result that owns its handle is its only
  user (`ResultInv`), and no handle in use is without all three (`NoOrphans`).
  `RowInv` adds that a borrowed handle on a row is owned by no result: without it
  the destruction of a result could free the handle of another. For the refinement,
  that a step on one handle shows in one statement and its results only
  (`OthersShow`) follows from those: two statements that are not superseded never
  have the same handle (`OneStatement`).
- **`RelationalKvProofs`**, of the connections: `TypeCorrect`, `FailureReportedOnce`,
  `StaleOnlyOnARow` and, for programs that put no null pointer and where no prepare
  of a remove fails (`PlainUse`), `RelationalKvImplementsKeyValue`. The invariant counts the
  failures of a statement that were reported though nothing was in the way
  (`FailuresCounted`: none yet while the statement is still `"failed"`) and matches
  each call to where it is (`CallsMatch`). The table holds records of values of the
  keys' types (`TableTyped`), and the refinement adds that none is a NULL and that
  only a call that is done has its answer (`RInv`): a record is then read as the
  value that was written (`RecordSame`), and a call takes effect at `Select`,
  `Insert` or `Delete`.
- **`RelationalKvProofs`**, of the values: `DeclaredColumnsRead`, `OtherNumbersRefused`,
  `RecordsRead` (SQLite), `ColumnsKeepOrRefuse` and `OtherIntegersRefused`
  (PostgreSQL, the null test of `get` included), theorems of `ColumnsSpec` for integers of any
  four widths each with at least twice as many as the one before
  (`HalfAssumption`). `ColumnsInv` says that a row is what its engine makes of the
  value that was given, and that an insert was refused for the reasons of the
  model; what the engine makes of it and what is read from that rests on lemmas about
  casts: a cast to 64 bits and back is the identity on every type, and a number
  that fits a narrower type is not changed by its cast. The only facts assumed of
  real numbers are that a float survives widening and narrowing, and its text.
- **`PsqlStatementsProofs`**: `TypeCorrect`, `ParamsSent`, `AbortReported` and, for
  programs that prepare by `prepare_cached` texts with names of their own,
  `StatementsExecutable`. `ParamInv` relates the copy, the length and the pointer
  of a parameter to what was bound last; pointers are set only in statements that
  have all their parameters, so that no later bind moves the copies.
  `PlainPrepareIsUseless` states the finding of `psql_prepare` for all texts and
  objects: until `prepare_cached` has prepared one, no statement gives a result.

Only model-checked: the liveness properties (`EveryCallReturns`, `EveryTxnEnds`),
which are out of the prover's reach, as are induction over data and `RECURSIVE`
operators; the models need neither. `NoCallIsStuck` and `TransactionsComeToAnEnd`
prove what they rest on besides fairness. The four properties of the runs that end in
a finding are refuted, not proved; for two of them a theorem says how far the fault
reaches. `NobodyStuck`, `EndComesNearer`, `ChangesAtOnce` and `UncachedGivesNothing`
are stated in the proof modules, beside their theorems: no run checks them.

## 5. Findings

Listed in `PROJECT.json` with the lines they contradict: the self-deadlock of `set`
with a null pointer in the in-memory backend; `put` of a null pointer over SQL,
which deletes and then inserts NULL; statements prepared on PostgreSQL without the
cache, which have no name to be executed by; and the null test of `get` on
PostgreSQL, which looks at the next column. The last two together mean that the
key-value database over PostgreSQL cannot work as the code stands. What other
models show to go wrong outside the conditions of their passing runs is in the
list above and among the hazards of `PROJECT.json`.

One more disagreement has no run of its own, because a run would only evaluate
`TooLarge`: `tests/statement.cpp`, which is built for PostgreSQL too, binds the largest
`uint64` to a `BIGINT` column (lines 46 and 135) and the current time to `INTEGER` ones
(54, 55, 144, 145) and reads them back (203, 221 to 224). The server refuses that row,
for the numbers are out of the range of such columns, as are those that
`add_column<std::uint64_t>` and `add_column<pfs::utc_time>` declare.

## 6. Not modelled

- The bytes of values in RocksDB, LMDB and libmdbx, and the comparison of sizes by
  which they answer a read of another type (section 3, typed keys).
- The memory of a blob that `bind` of SQLite does not copy (`SQLITE_STATIC`): the
  caller keeps it, as `include/pfs/debby/statement.hpp` asks; the key-value
  database binds and executes in one call.
- Prepares that fail on SQLite: they leave nothing behind.
- `make`, `tables`, `exists`, `rows_count`: single queries whose answer is the
  engine's. `make` of SQLite turns the preset `SYN_EXTRA` into `synchronous = OFF`
  (`src/sqlite3/relational_database.cpp:312`), the opposite of what its name says.
- `next` of a result of SQLite that is done: it steps a statement that was reset
  and runs it again. The models call `next` only while `has_more`, as the tests do.
- Data definition beyond the declared types (it builds SQL text), the affinities
  of UUIDs and paths (conversions of another library), the texts of errors.
- Calls of several threads on one RocksDB or SQL object: the code has no lock and
  promises nothing.
- Calls on an LMDB object whose opening failed; for RocksDB they are modelled.
- `src/sqlite3/sqlite3.c` and `sqlite3.h` are vendored: they are SQLite itself, 97 %
  of the lines of C and C++ here, and are modelled from what debby relies on.
  Of debby's own lines the definitions stand for about 40 %; most of the others
  are instances of templates, declarations and texts of errors.

## 7. The plan

Done, in this order: the promise and the in-memory backend, the settings, the
transactional engines, RocksDB, the key-value database over SQLite, relational
transactions, the statements of both engines, the values of both engines; proofs
for all of them. What is left, in the order of what it would add:

1. Liveness of writers that another connection's open row keeps out.
2. The sizes that RocksDB, LMDB and libmdbx compare when a value is read as another
   type, on top of `CppValues`.
3. The callers of results: `rows_count`, `tables` and `exists` after an exec that
   failed, and `next` of a result that is done.
4. Foreign keys between the tables of `remove_all`, and tables created by others
   after the list was made.
