# Verification of fabrica-util

TLA+ models, TLC model checks and TLAPS proofs of `github.com/go-pantheon/fabrica-util`, a
library of utilities for Go services. The models are translated from the Go source; a
definition's lines are in `PROJECT.json`, under `map`.

## 1. The system

The packages do not call each other except where stated. The state that is hard to get right is
in `xsync` and in `data/db/pg/migrate`.

| Component | State | Operations | What is hard | What makes it correct |
|---|---|---|---|---|
| `xsync.Stopper` (shutdown) | atomic state word, mutex, channels `trigger`, `stoppedChan` | `TurnOff`, `Stop`, reads of the channels | concurrent calls; swap and close are two steps; deadline against the end of the function; the named result is written by two goroutines | one call runs its function; the others return; both channels are closed once; the result is the function's |
| `xsync.Stopper` (goroutines) | wait group, channel `innerStopTrigger`, once | `Go`, `GoWaitStop`, `GoAndStop` | `Add` runs in the new goroutine; who waits for whom | stop functions run after the functions they cover, and do run |
| `xsync.Future` | value, error, flag, channel, lock | `Complete`, `Cancel`, `Get*`, `Then` | `Cancel` and `Then` read with no lock; the function of `Then` may panic | a cell written once, whole, read by all |
| `xsync` delayer | expiry time, timer, tick channel of one place, flag, one goroutine per timer | `SetExpiryTime`, `Reset`, `Close`, `Wait` | a goroutine reads the timer late and sends late; `Close` signals one goroutine | one timer, one tick a timer, none when stopped; the tick arrives |
| `xsync` routines | a channel of one place and a done channel per `Timeout` | `Go`, `Run`, `Timeout` | select between ready cases; a goroutine that outlives the caller; panics | an error is returned or left in the channel, and a panic is logged and never taken for an end; no goroutine is stuck |
| `migrate.Migrator`, `FileMigrator` | the table of records and the schema | `Up`, `Down`, `DownTo`, `Reset` | no transaction between function and record; several processes; crashes; rows that break off; a connection kept while others are asked for | records and schema agree but where a call was stopped; rollback in reverse; success means done |
| `migrate.AutoMigrator`, tag parser | tables and columns | `MigrateWithVersionControl`, `MigrateAll` | column diff against concurrent change, map order in generated IDs, a rollback that drops the table | a recorded migration has its columns; a call that fails is picked up by the next |
| `pg.DB`, pool | the pgx pool | queries, `Begin`, `Close` | a bound on connections | (part of `Migrator`) |
| `consistenthash` | sorted slice of virtual nodes under a lock | `AddNode`, `RemoveNode`, `GetNode` | duplicates, collisions, negative keys | a key moves only when its node changes |
| `multipool` | a `sync.Pool` per size, counters | `Get`, `Put`, `GetStats` | the pool may drop objects; counters are not updated together | an object has one owner and is clean when handed out |
| `bitmap`, `bloom` | bytes under a lock | `Set`, `MSet`, `Clear`, `Add`, `Contains` | bit arithmetic, signed hash | agrees with a set; no false negative |
| `compress` | a pool of buffers, two thresholds, a once | `Init`, `Compress`, `Decompress` | a failed call leaves output in its buffer; a returned call gives its buffer away; thresholds are loaded one by one | what was returned is the call's own and stays |
| `xid` | none | `BuildUID`, `SplitUID`, encode, decode | widths and signs | splitting undoes building; no overflow |
| `xtime` | a map of locales with no lock, the current one, the zone | `Init`, `SetLocale`, formatting, calendar | the locale changes while a date is written; the next daily or weekly time at the turn of a day | a date is in one language; the next time is the first one after now |
| `xrand`, `camelcase`, `errors`, `security`, redis and mongo clients | none or the library's below | conversions, random numbers, crypto, I/O | | out of reach of a state model |

Interactions: `Stopper`, `Future.Then` and `Timeout` all start their goroutines with
`xsync.Go`, which runs the function under `Run` and swallows a panic. The functions given to
`Stopper.Go` and `GoWaitStop` are callbacks that may call `TurnOff` or wait for
`StopTriggered`: that is how the two halves of a `Stopper` meet. `FileMigrator` and
`AutoMigrator` register functions with `Migrator`, which calls them with the `pg.DB` it uses
itself.

## 2. Plan

In this order; all of it exists but the last line.

1. `Stopper` with the abstract `ShutdownGate`, `StopGroup`, and `StopperService` which composes
   the two; `StopperProofs`, `StopperServiceProofs`.
2. `Future` with the abstract `WriteOnce`; `FutureProofs`.
3. `Delayer`; `DelayerProofs`.
4. `Migrator`, over the `MigrationFiles` of a directory; `MigratorProofs`.
5. `AutoMigrator`, with the tag parser as operators over fields; `AutoMigratorProofs`.
6. The utilities that do not call each other: `HashRing`, `Bitmap` with the abstract `BitSet`,
   `Bloom` over the bitmap, `MultiPool`, `Compress`, `Locale`, `Routines`, and `Utilities` which
   puts them under one specification; `UtilitiesProofs`.
7. `Xid` and `Calendar`, pure functions; `ArithmeticProofs`.
8. Left: months in `Calendar`, `camelcase` as an operator over classes of characters, lemmas about
   the operators of the tag parser and of `MigrationFiles`.

Parameters are `CONSTANTS` with named assumptions, there is one action per step of the code, and
no module that is proved about, or is to be, declares a `RECURSIVE` operator.

## 3. The modules

Steps: an operation that holds a lock from end to end, and whose intermediate states nobody
reads without it, is one action. Everything else is cut where another goroutine can get in.
`pc`, `worker`, `handler` and the like say where a goroutine is.

**`ShutdownGate`** (abstract) lets one caller in, refuses the others once one is in, and closes
when that one leaves.

**`Stopper`** has one caller per `TurnOff` call. `TriggerStop` and `CloseTrigger` are
`triggerStop`; `LoadState` and `SwapToStopping` are `toStoppingState` (`mu` is the mutex, `seen`
its `currentState`); `StartBody` starts `f`. With a timeout `f` runs in a goroutine of its own
(`timed`, chosen at the start): `FinishSpawned`, or `JoinError` and the two stores, then
`CloseDone`; the caller is in its `select` (`SelectDone`, `SelectTimeout`). With no timeout it is
`FinishInline`. The deferred `toStoppedState` is `ToStoppedState` and `CloseStopped`. An `error`
is an interface, two machine words, and the goroutine and `return ErrTurnOffTimeout` store into
the same named result with no synchronisation: `err` is kept word by word (`tab`, `data`). `Stop`
is `TurnOff` with a function that returns nil. The gate is implemented by `phase` and `place`.

**`StopGroup`** has the goroutines of `Go` (`Workers`) and of `GoWaitStop` (`Waiters`);
`GoAndStop` is both. The steps of `sync.WaitGroup` (Go 1.24, as in `go.mod`) matter because
`Add(1)` is called in the new goroutine: `Register`, `Done`, `Recheck`, `WakeWaiters`, `Wait`,
`WakeUp`, `CheckReuse` follow its word of counter and waiters, its semaphore and its panics; those
with no counterpart in `stopper.go` are marked external in the map. `Add` stores the new word before
it panics, and `Run` swallows the panic: a function that was not let in (`misused`) has raised the
counter and never calls `Done`, so the counter is wrong from then on and may fall below 0.
`WakeWaiters` sets the word to 0 whatever it is by then. `stopType` is the option the
stopper was created with, chosen at the start and never changed. `covered`, `late` and `misused` are
history: what a `Wait` found counted, whether a function registered after another had ended, and
whether an `Add(1)` has panicked.

**`StopperService`** extends `StopGroup` and has `Stopper` as an instance (`Off`), with the
functions between them:
some workers are loops that end when `StopTriggered` is closed, the stop functions call
`TurnOff`, outsiders may call it too.

**`WriteOnce`** (abstract): cells written once; a reader gets the value or gives up.

**`Future`** has writers (`Complete`, `Cancel`, the goroutines of `Then`) and getters. A value
may be wider than a word, so it is stored in two halves; `Cancel` and the error path of `Then`
read it with no lock. A cell of `WriteOnce` is written when the channel is closed.
`GetWithTimeout` is `GetWithContext` with a deadline.

**`Delayer`** has the fields of the delayer, the timers that run (`armed`, `deadline`), and one
goroutine per `SetExpiryTime` with a time to come: `ReadTimer`, `TimerFires`, `SendTick` are
`handleExpiry`. `SetPast` and `SetFuture` are the two paths of `SetExpiryTime`. Timers follow Go
1.23 and later: after `Stop` no stale value is received. `offers`, `answered` and `lastOp` are
history.

**`Routines`** has the goroutine of each `Go` and `Timeout` and the `select` of `Timeout`.

**`MigrationFiles`** says which migrations `LoadMigrations` makes of the files under a directory:
those with an up file, some of them with no `Down`.

**`Migrator`** has the calls, each an operation of some process, the recorded IDs in the order of
`applied_at` (`table`) and what the schema has of each migration (`effect`: none, part, full). A
query, a migration's function and the statement that records it or removes the record are three
kinds of step; each may fail, an error of a statement leaves open whether it took effect, and a
process may crash anywhere; a restart is another call. `rows.Err()` is not looked at by the
code, so a query may give a subset (`Up`) or a prefix (`Reset`) of the rows. `rows` holds the
calls that keep a connection; a statement needs a free one of `MaxConns`. `mode` is how the package
is used: *operator*, any operations, one call at a time, or *replicas*, processes that all call
`Up` when they start. `Add` and
`LoadMigrations` run before the operations and are the constants `Registered` and `NoDown`, which
`MCMigrator` takes from `MigrationFiles`; an ID in the table
that is not registered stems from an earlier version.

**`AutoMigrator`** has the processes that run `MigrateWithVersionControl`, or an AutoMigrator
(`managed`) whose `Down` may follow, for one table. `ParseTag`, `LegacyColumn`, `ColumnCreated` and
`ColumnInfo` say which column a field makes; `Created` and `Expected` are the columns of a version
in `CREATE TABLE` and in the diff, which do not agree: a field that is not exported makes a column
only in the first. A generated `ID` is the set of the expected columns with an order of the extra
ones. `Status` to `Record` are the statements of the migration in their order, `CallDown` to
`RemoveRecord` those of a rollback. The statements of `Up` and `Down` are told here without the
loops of `Migrator`, since a process has one migration, and without its connections. `faulted`,
`overlapped` and `undercut` are history.

**`HashRing`** is both rings of `consistenthash`, told apart by `kind`: the `Int64HashRing` keeps
64-bit hashes and takes its keys as they are, the `HashRing` keeps the low 32 bits (`Cut`).
`AddNode` appends the points and sorts; `sort.Sort` is not stable, so any sorted arrangement may
come out (`Arranged`). `GetNode` is `TargetHash`, the binary search `SearchFrom`, and the wrap. The
reference definition is `Closest`: the nodes with a point at the least distance ahead.

**`BitSet`** (abstract) is a set of numbers; **`Bitmap`** is the bytes, and each operation, refused
ones included, is one step. **`Bloom`** has goroutines that call `Add`, `MAdd` and `Contains` of a
filter over a `Bitmap`, one bit at a time where the code locks for each. A hash is a word of bits
(`Product`, before its last step); `Shifted` keeps the sign, as `>>` of an `int64` does, so the last
`h ^= h >> 33` clears it (`Mixed`), and `Rem` is Go's `%`.

**`MultiPool`** has the pools (any object may be taken, all may be dropped), the counters, clients
that get, use and put, and `GetStats` which loads one counter after the other.

**`Compress`** has the thresholds, `once`, and calls that get a buffer, write to it in two parts,
fail or clone, and give it back. Bytes are known by the call and the part they are of. `thresholds`
are loaded in two steps, and `Init` stores them in two.

**`Locale`** has setters (`Init`, `SetLocale`) and formatters. A write to the map takes two steps; an
access of the map while another goroutine writes may end the process (`fatal`), and then nothing
moves. `FormatDate` reads the current locale twice, and the map.

**`Utilities`** chooses one of these modules at the start and lets it move.

**`Xid`** and **`Calendar`** have no variables: `BuildUID` and `SplitUID` with `<<`, `>>` and `|` as
multiplication, rounding division and addition; days and weeks as `\div` and `%` of seconds, in a
zone with a fixed offset.

Each of the modules with actions has a section *Faults*: variants of its actions with a plausible bug. They
take no part in the specification; substituted for their action they break the property named
in their comment, which shows that the property can fail.

## 4. What is checked

Every passing run is exhaustive for its instance.

| Run | Instance, distinct states | Shows |
|---|---|---|
| `stopper_both` | 3 callers, with and without a timeout; 10,384 | `NoStepGoesWrong` (no swap fails, no channel is closed twice), `StoppedAfterBody`, `ResultIsOfBody`, `ImplementsGate`; under fairness `ShutdownCompletes`: every call returns, also when a function under a timeout hangs, and the shutdown is announced |
| `stopgroup_both` | 4 functions, 2 stop functions, quick and final; 388,198 | a stop function runs after a function has ended and, unless an `Add(1)` has panicked, after all that were counted when it began to wait (`StopAfterFunctions`); under a quick stop one end leads to every stop function though others hang; under a final stop one is lost only to a late registration (`StopFunctionsRun`) |
| `stopperservice_both` | 2 workers (1 loop), 1 stop function, 1 outsider, with and without a timeout, quick and final; 67,514 | under a quick stop the service winds down once one function ends; an outsider's `TurnOff` ends the loops, also when the shutdown function fails or panics; a stop function cannot break a loop it waits for, so a service of loops alone under a final stop needs an outsider |
| `future_chain` | a future and one chained to it, 1 completer, 1 canceller, 2 getters; 51,590 | cells written once and whole, cancelled futures hold zero, getters return, the chain completes unless its function panics |
| `delayer_ticks` | 3 `SetExpiryTime` calls, clock to 4; 171,199 | one timer armed, one tick a timer, none when stopped, a tick before its time only from a goroutine of an earlier expiry that was about to send, and the tick that is due arrives |
| `utilities_all` | a ring of 3 nodes with 2 spots each and equal hashes among them, up to 6 points, both kinds; a bitmap of 10 bits and a filter on one with words of 5 bits, 3 users; a pool of 2 layers, 2 clients; 2 calls of compress; 2 setters and a formatter; 1 `Go`, 2 `Timeout`; 399,337 | `OwnerIsClosest` for every key and `OnlyItsKeysMove`; `ImplementsBitSet`; `NoFalseNegative`, also while others add; `ObjectsAreFresh` and `PutsWereHits`; `ResultsStay`; `TextInOneLanguage`; `FailuresAccountedFor` (what becomes of an error or a panic of the function of `Timeout`) and `NobodyIsStuck` |
| `migrator_both` | 3 calls, the migrations of a directory (2 with both files, one with no down file, one of which only the down file is left and that may be recorded), 2 connections, both modes; 5,482,203 | `OutOfStepIsInHand`, `NoSilentRerun`, `SuccessMeansDone` (an `Up` that succeeded left nothing pending, a `DownTo` stopped at its target), `RollsBackLast`, with failures and crashes anywhere |
| `auto_upgrades` | 3 processes, 2 versions of a struct, 1 extra column; 710,210 | whoever fails, crashes or runs at once, a recorded migration has its columns unless a rollback dropped the table under it (`RecordedColumnsExist`); a process alone and with no fault of its own does not fail, whatever others left behind (`FailsOnlyInARace`) |

Runs that find a violation, each of something a comment or a document says:

| Run | Property | The code |
|---|---|---|
| `stopper_lost_timeout` | `TimeoutIsReported` | a function that fails as the deadline passes overwrites `ErrTurnOffTimeout` |
| `future_lost_chain` | `ChainCompletes` | a panic in the function of `Then` leaves its future open for ever |
| `auto_unchecked` | `AppliedColumnsChecked` | a migration found applied is taken as done with no look at the columns: the branch for it asks `Status` of a `Migrator` with no migrations; two replicas with two extra columns, one rolled back, leave a record and no table |
| `migrator_order` | `AppliedInOrder` | migrations are applied in map order |

What the models also show, and what no run is kept for since nothing in the repository promises
otherwise, or only a test that does not reach it:

* The function of a `TurnOff` that timed out is not cancelled and may complete afterwards
  (`stopper_test.go:144` looks for 50 ms).
* `WaitStopped` may be released before `StopTriggered` is: the goroutine that swapped the state
  may be slow to close `trigger`.
* `TurnOff` from outside runs its function while functions of `Go` are still running, under
  either kind of stop; `stopper_test.go:434-455` relies on a sleep of 1 ms.
* A goroutine of an earlier expiry delivers its tick although `SetExpiryTime` has moved the expiry
  time on (`TicksAreDue` says that this is the only way to an early tick).
* `delayer.Close` signals one goroutine at most; another one that waits for a stopped timer stays.
* `Timeout` may return nil although its function failed: the error and `done` are both ready once
  the goroutine has gone on, the `select` takes either (`routines.go:38-45`), and the error then
  stays in the channel and nothing logs it. So does an error that comes after the deadline. After a
  panic the caller is told of the deadline only. `Timeout` makes no use of its `filters`.
* `Reset` returns nil with migrations left when its rows break off.
* Processes of one version that add columns at once may all fail, each by a column another has
  added; the next call goes on from there.
* `DownTo` on a pool of one connection waits for itself.
* `Int64HashRing` does not hash its keys: keys that are small numbers all fall to the first point.
  In either ring nodes with equal hashes may change places whenever another node is added
  (`OnlyItsKeysMove` excepts them).
* `hits` of a `MultiLayerPool` counts the objects that `New` made too, and `Get` of a size may
  return an object that is smaller.
* `compress.Init` with arguments it refuses uses up its once; a `Compress` that runs while `Init`
  stores may see one new and one old threshold.
* `xtime.Init` that fails for its language has already set the zone. Two goroutines that set a
  locale may end the process, for the map of locales has no lock.

**Bounds.** Three callers of `TurnOff` give a winner, one that is refused and one that arrives
in any state between. Four functions and two stop functions are what it takes to get a stop
function to run too early: one function ends; a second ends while the first stop function sleeps,
and is about to wake it up; a third calls `Add(1)`, which panics and leaves the counter at 1, so that
the `Add(1)` of the fourth does not; the wake-up sets the word to 0 while the fourth runs; and the
second stop function finds nobody to wait for. Three expiry times allow two
goroutines that wait for one timer while a third timer is armed. Three calls of the migrator
allow one that leaves a migration half done, one that goes on from there and one that rolls it
back or finds out. The bounds in the models are `MaxTime` and `MaxSets` of `Delayer`; in the
others the number of calls, each made at most once, is what ends the behaviours, which is why
deadlock is not checked there. `Delayer` never stops, so it is. Two versions of a struct and
three processes allow an upgrade by two at once and a third that finds what they left. The runs of
`Migrator` and `AutoMigrator` take calls and processes up to permutation, which is sound for they
check no liveness.

In `utilities_all` the
hashes are below 16 (`Size`) and cut to 4 values (`Low`), so that nodes collide, keys lie before,
between, on and after points, and every key, negative ones included, is tried in every state;
`MaxPoints` allows a node to be there three times. Words of 5 bits shifted by 2 have a sign, and bits
that are shifted out and in. Indexes are on both sides of each bound of the bitmap and of its bytes.
`MaxGets` bounds the objects a pool hands out, which lets one be put back and taken again.

**Fairness.** The scheduler runs every goroutine that can run, deadlines pass and the clock
runs: weak fairness for the steps of each goroutine. No call is ever required, nor is the end of
a function given to the library, except where it is said: an inline shutdown function
(`Stopper`), the functions under a final stop in `StopGroup`, loops once told to stop and
shutdown functions in `StopperService`, the function of `Then`, the functions of migrations.
`select` may take any case that is ready; no fairness between cases is assumed. A mutex is
taken in one step and every model needs weak fairness only.

## 5. What is proved

For every value of the constants, by TLAPS: every invariant and every action property that a run
checks, and all refinements. Each proof module about a state machine has an
inductive invariant (`IInv`, or one for each part), of which the properties are consequences; TLC
has checked each of them on the instance of its run first.

* `StopperProofs`. `IInv` relates the state word to where the callers are: nobody is past
  `toStoppingState` while the word is below *stopping*, there is at most one winner, only the
  holder of the mutex is between load and swap and what it saw is still there, at most one
  caller has swapped the trigger without having closed it, and so on. `OneWinner` alone is not
  inductive: it needs that the word is *stopping* or *stopped* as soon as there is a winner.
  Proved: `TypeOK`, `OneWinner`, `NoStepGoesWrong`, `RefusedOnlyByWinner`,
  `StoppedAfterBody`, `ResultIsOfBody`, and `ImplementsGate`, by a step lemma that maps each
  action to a step of the gate or to a stutter. `OneWinner` and `RefusedOnlyByWinner` are no
  invariants of a run of their own: `ImplementsGate` breaks whenever they do.
* `FutureProofs`. `IInv` says that the writer between `Lock` and `Unlock` is the one that holds
  the mutex, what of its value is already stored, that a complete future stays as it is, and that
  an argument with half a value or with a value of another's can only be in the hands of a writer
  that will find the future complete. Proved: `TypeOK`, `ClosedOnce` (of the channel),
  `ValuesAreSound`, `ImplementsWriteOnce`.
* `DelayerProofs`. `IInv` ties every armed timer to `timer` and follows each timer from the call
  that arms it to the one goroutine it lets go on and to the tick that one offers. Proved:
  `TypeOK`, `TicksAreDue`, `OneTimerArmed`, `OneTickPerTimer`.
* `MigratorProofs`, for any set of migrations, calls and connections. `IInv` says that calls of the
  operator mode take turns and replicas only call `Up` (`Turns`), what a function that was just
  run left behind (`UpDone`, `DownDone`), that an `Up` has recorded whatever it has neither
  pending nor in hand (`UpHasRecorded`), that what a rollback still has to do are the last
  records, the target under them (`RollsBackRecords`), and that of two replicas that ran one
  migration one was stopped or has still to find it recorded (`RanOnce`). `OutOfStepIsInHand`
  alone is not inductive: that a record is only made of what was done, and removed of what was
  undone, takes `UpDone` and `DownDone`, and these take `Turns`. Proved: `TypeOK`,
  `OutOfStepIsInHand`, `NoSilentRerun`, `RollsBackLast`, `SuccessMeansDone`: every property of
  `migrator_both`.
* `StopperServiceProofs`, for any number of functions, loops, stop functions and outsiders.
  `GroupIInv` says that the counter is the number of functions in the group and that only one
  goroutine at a time is between `Add` and the wake-up (`Exact`), as long as no `Add(1)` has panicked;
  that a function which a `Wait` found counted is counted or has ended (`Covers`); and that the
  channel is closed by the end of a function (`Triggers`). `StopAfterFunctions` alone is not inductive:
  that a waiter wakes up only when all it waited for have ended takes `Exact`. Every behaviour of a
  service is one of `StopGroup` (`ServiceIsAGroup`) and one of `Stopper` (`ServiceTurnsOff`), so what is
  proved of the two halves holds of the whole; `ServiceIInv` adds who has called `TurnOff` when a loop
  has left. Proved: `TypeOK`, `StopAfterFunctions`, `FinalStopBreaksNoLoop`.
* `AutoMigratorProofs`, for any versions, structs, extra columns and processes. `IInv` says that a
  process that rolls back is alone (`Turns`), which columns a process has still to add (`Bases`),
  that a rollback is of the last record and undercuts all others (`Rollbacks`), and that what a
  process read is still so if it met nobody and no fault (`Undisturbed`). Proved: `TypeOK`,
  `RecordedColumnsExist`, `FailsOnlyInARace`.
* `UtilitiesProofs`, of the specification `Utilities`, with an inductive invariant per part.
  * The rings (`RingIInv`), for any nodes, hashes and sizes: the points stay sorted and every node on
    the ring has all its spots. Proved: `OwnerIsClosest`, `OnlyItsKeysMove`. That the binary search
    finds an index rests on the least number of a set, from the library's theorem that `<` is well
    founded.
  * The bitmap, for any size: `ImplementsBitSet`. A bit is at one place (`BitPlace`), so raising and
    lowering it moves no other.
  * The filter (`FilterIInv`), for words of any width and any number of hash functions and goroutines:
    `NoFalseNegative`. Bits only go up, an element counts as added when the last of its bits is up,
    and a call of `Contains` that was made after that has found all bits it looked at up. That no hash
    is out of the bitmap's range takes a lemma about numerals: with the sign bit down the sum of the
    digits is a natural number (`NumeralNotNegative`).
  * The multi-pool (`PoolIInv`), for any layers, clients and objects: what a client or a pool has
    nobody else has (`Apart`), what is in a pool is clean (`Clean`), and the puts together with the
    clients that have yet to count one are no more than the hits (`PutsAfterHits`). `PutsWereHits`
    alone is not inductive: `GetStats` loads the puts first and the hits of the layers one by one, and
    what holds all along is that the puts it loaded are at most the hits it has loaded plus the
    current hits of the layers to come (`Mix`). Proved: `ObjectsAreFresh`, `PutsWereHits`.
  * Compression (`CodecIInv`): a buffer is in one call's hands and one that is in none is empty
    (`Hands`), and what is in a call's buffer and in its result follows from where the call is
    (`Jobs`). Proved: `ResultsStay`.
  * Formatting (`TimeIInv`): the current locale and those that goroutines have at hand are loaded.
    Proved: `TextInOneLanguage`. Routines (`GoIInv`): how far a goroutine is tells how its
    function ended and what is on its channels, so that `done` is closed after the error was sent.
    Proved: `FailuresAccountedFor`.
  * The types of all of them: `TypeOK`.

  `SumOf` and `IntOf` are folds over sets, which the prover knows nothing of. Their recursion is
  proved by a least counterexample: if no table of the sums over the subsets of `n` elements existed
  for some `n`, take the least such `n` and extend the table of `n - 1` (`SumByRecursion`). Changing
  one term changes the sum by as much, and smaller terms have a smaller sum.
* `ArithmeticProofs`: `UIDRoundTrip`, `UIDFits` and `UIDIsUnique` for every game and zone of an
  `int64`, negative games included; `NextDailyIsFirst` and `NextWeeklyIsFirst`: the time is after
  the given one, is one to choose from, and none to choose from lies between, for every time, delay
  and fixed offset of the zone.

The proofs assume only the named `ASSUME`s of the modules: kinds of the constants, disjoint sets of
goroutines, at least one size in a pool, English among the languages, and that every struct of
`AutoMigrator` makes a column (`StructsAssumption`, see section 6). TLC evaluates them in every run.

What the proofs changed in the models: `StopGroup` used to let the wake-up of one function go on
while `Add` of another had changed the word, and it had no trace of a panicked `Add(1)`. With the word
of Go 1.24 the invariant does not hold without its exception: after an `Add(1)` that panicked, a stop
function may run while a function that it waits for still runs. The constants of the utilities have
got the assumptions that their code makes.

**Only model-checked:** all liveness (`ShutdownCompletes`, `StopFunctionsRun`, `ServiceWindsDown`,
`GettersReturn`, `ChainCompletesOrPanics`, `TickArrives`, `NobodyIsStuck`), since it rests on fairness
and `ENABLED`. `MigrationFiles` and the column diff of `AutoMigrator` are evaluated on the fields and
files of the runs only; the proofs take any.

## 6. What is not modelled, and why

* `RoutineID`, `CatchErr`, log messages, error texts: no state.
* `runtime.Goexit` or the end of the process in a function given to `xsync`.
* Ties and clock changes in `applied_at`, which would make the order of rollback arbitrary:
  records are ordered as they were inserted.
* `Migrator.Status`, a read. Registration of migrations concurrent with the operations, for
  which the package has no lock.
* Types, constraints and defaults of columns; `addMissingColumns` itself leaves the constraints and
  defaults out.
* `addMissingColumnsWithVersionControl`, which is never reached (`auto_unchecked`).
* A struct with no column: `createTableIfNotExists` then returns nil and creates no table
  (`migrate.go:284-286`), and the first `ALTER` for a column it should have fails with nobody
  else about. `FailsOnlyInARace` does not hold of it, so `StructsAssumption` leaves it out.
* Several tables of one `MigrateAll`: their migrations are those of `Migrator`.
* `CreateMigration`, which writes a pair of commented files.
* `StartOfMonth` and `NextMonthlyTime`, and zones with summer time, in `Calendar`; the text of
  `FormatDuration` and `FormatRelative`; `GetAvailableLanguages`, a read.
* `EncodeID` and `DecodeID`, done by the hashids library.
* `estimateParameters` of `bloom`, floating point; sizes and numbers of functions are constants.
* The hash of `consistenthash`, a constant; `Len`, `Count`, `Size`, reads.
* Clients that put into a `MultiLayerPool` what they did not get from it, or put it twice.
* Concurrent `Up` and `Down`: nothing in the package allows for it, and `RollsBackLast` or
  `OutOfStepIsInHand` do not hold then.
* `camelcase` and `errors` convert values; `xrand`, `security`, redis, mongo and `pg/util.go` call
  libraries and keep nothing.
