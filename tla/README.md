# A TLA+ verification of GNU Backgammon

This directory specifies parts of GNU Backgammon (`src/gnubg/`) in TLA+. Each
module is a translation of the C code it names. TLC checks the specifications
on small instances, TLAPS proves the theorems for every value of the
constants. `PROJECT.json` holds the correspondence between definitions and
source lines (`map`), the runs, one mutant per checked property (a plausible
bug, which the run must notice), the hazards the properties are aimed at and
the disagreements between code and comments that the runs show (`findings`).

## The system

gnubg plays backgammon, analyses matches and rolls positions out. One main
thread reads commands (from a terminal, a script, a socket or the GTK
interface), keeps the match and hands the heavy work to calculation threads.

| Component | State | Operations | Interacts with |
|---|---|---|---|
| Evaluation cache (`lib/cache.c`, `EvaluatePositionCache`) | buckets of two entries, a spin lock each; hash mask; size | lookup (with promotion), insertion, flush, resize, with and without locks | every evaluation of every thread; `set matchequitytable`, `clear cache`, `set cache` |
| Calculation threads (`multithread.c`, `mtsupport.c`) | `td`: task list, counters, result, an event, thread count; `closingThreads` | create, add tasks, take, done, abort, wait, close, join | analysis, rollouts, `RunAsyncProcess`, the GUI's event loop, which may call back into commands |
| Calibration (`speed.c`, `MT_SyncStart/End`) | two static counters and two events | arrive, wait, leave | calculation threads |
| Rollouts (`rollout.c`) | trial counters and game counters per alternative, `fNoMore`, rollout contexts | draw a trial, play, add the result, check the stopping conditions, stop and resume alternatives, extend | calculation threads, `fInterrupt`, the evaluator, the dice |
| Match and game records (`play.c`) | list of games, list of move records, `plGame`, `plLastMove`, the live `ms` | new game/match/session, move, double, take, drop, resign, previous, next, set ... | everything that shows or analyses the match |
| Analysis (`analysis.c`) | results in the move records, statistics in the game records | a task per move record, linked tasks, background analysis | threads, match |
| Evaluator (`eval.c`, `lib/neuralnet.c`, `lib/inputs.c`) | nets, move filters | move generation, classification, n-ply evaluation, cube decisions | cache, bearoff, match equity table |
| Identifiers (`positionid.c`, `matchid.c`) | none | encode, decode | match, files, cache keys |
| Bearoff (`bearoff.c`) | databases | index, read | evaluator |
| Dice (`dice.c`, part of `rollout.c`) | generators, quasi-random permutations | roll, seed | match, rollouts |
| Match equity (`matchequity.c`) | tables | load, look up | evaluator, cube |
| Commands (`gnubg.c`, `set.c`, `show.c`) | settings | parse, dispatch, interrupt | all |
| External player (`external.c`) | a socket session | request, reply | evaluator, match |
| Files (`sgf.c`, `import.c`, `export.c`, ...) | none | parse, write | match |
| Database, Python, GUI, sound, output | views | | all |
| `gnubg-nn` | a separate program that trains nets | | none |

What is hard in it:

* **Interleavings.** The cache copies structs word by word under a hand-made
  spin lock. Rollout threads draw and give back trial numbers with atomic
  operations and read `fNoMore` without the lock under which it is written.
  The task queue's event is set and reset in step with the list.
* **Reentrancy.** A wait of the main thread processes GUI events, whose
  handlers may start a computation and wait in their turn on the same counters.
* **Failure and interruption.** Tasks abort the batch while it is still being
  handed over; games are interrupted half-way; threads may not be created;
  waits give up after ten seconds.
* **Stale state.** Cached results and a new equity table; stop flags that are
  set and reset; records of a game after moving back in it.
* **Ordering and off-by-one.** Trials count from 0, counters from 1; sorted
  lists are indexed by place and by move; a barrier's last thread decrements
  its counter between the others' increments and decrements.

The correctness properties per component are the runs' properties below.

## Modules

| Module | What it is | Code |
|---|---|---|
| `EvalCache` | the cache and its caller, copies word by word | `lib/cache.c`, `eval.c` 5434-5554, `set.c` 3172-3199 |
| `EvalService` | abstract: an evaluator without a cache | what callers of `EvaluatePosition` rely on |
| `LruBuckets` | abstract: atomic two-entry buckets | the replacement policy of `lib/cache.c` |
| `ThreadPool` | main thread and workers | `multithread.c`, `mtsupport.c`, `AnalyseMoveMT`, `RunAsyncProcess` |
| `ForkJoin` | abstract: every task is settled once before a wait ends | what callers of `MT_WaitForTasks` rely on |
| `SyncBarrier` | the calibration's two barriers | `multithread.c` 461-502, `speed.c` |
| `Rollout` | `RolloutGeneral`, `RolloutLoopMT`, `check_jsds`, `check_sds` | `rollout.c` |
| `Records` | what each record does to a match state | `play.c` 200-450, 4380-4402 |
| `Match` | games and the live match state, the commands; on `Records` | `play.c`, `set.c` 611-1076 |
| `Analysis` | main thread and workers that analyse a match; on `Records` | `analysis.c`, `gnubg.c` 2697-2769, 6046-6085 |
| `MoveGen` | legal moves | `eval.c` 2626-2899 |
| `PositionID` | keys, identifiers and bearoff numbers of positions | `positionid.c` |
| `MatchID` | identifiers of match states; on `PositionID` | `matchid.c` |
| `EvalKey` | keys of evaluations, and what these depend on; on `MatchID` | `eval.c` 2306-2352, 3255-3323, 6297-6362 |
| `Bearoff` | plays in bearoff positions; on `MoveGen` and `PositionID` | `bearoff.c` 116-202, `makebearoff.c` |
| `QuasiDice` | quasi-random dice of rollouts | `rollout.c` 182-260, `osr.c` 41-54 |
| `Algorithms` | tries the last six, one input at a time, against reference definitions | |
| `MC*` | constants for TLC | |
| `EvalCacheProofs` | theorems about `EvalCache`: types, exclusion, true entries, refinement of `EvalService` and of `LruBuckets` | |
| `ThreadPoolProofs` | theorems about `ThreadPool`: types, wakeups, results, refinement of `ForkJoin` | |
| `SyncBarrierProofs` | a theorem about `SyncBarrier`: both barriers hold | |
| `RolloutProofs` | theorems about `Rollout`: `multiLock` and who stops alternatives; types and the trial counters | |
| `RolloutTrialProofs` | on it: the minimum of games, no trial twice, all games played | |
| `RecordsProofs` | lemmas and a theorem about `Records`: replay of a game, step by step | |
| `AnalysisProofs` | on it, theorems about `Analysis`: types, the lock, contexts, the end of the program, and what a whole analysis has found and counted | |
| `MatchProofs` | on it too, theorems about `Match`: types, replay, scores, the Crawford rule, answers to doubles, records about the cube | |

### EvalCache

A *call* is a thread and a depth: `EvaluatePositionFull` calls
`EvaluatePositionCache` for the positions one ply down, so calls of a thread
form a stack. `pc[p]` is where call `p` is in `CacheLookup`, the evaluator or
`CacheAdd`. An entry's key (`primKey`, `secKey`) and evaluation (`primAr`,
`secAr`) are separate variables because the C code copies the struct and only
the lock makes the copy atomic; each copy is two actions. `CacheLock` is the
spin lock's successful test-and-set; a failed one changes nothing. An
evaluation is the pair of key and equity table it was computed with, so that a
torn copy, a stale result or a noisy one (`NoValue`) can be told from a true
one. `CommandSetMET`, `CommandClearCache` and `EvalCacheResize` run in the main
thread while no evaluation is open. This (`Quiescent`) is an assumption about the
program around the cache, and every run and theorem of `EvalCache` is under it. With
`fBackgroundAnalysis` off the code gives it: `MT_WaitForTasks` waits with the input
grabbed (`GTKSuspendInput`, `gtkgame.c` 770-782). With it on, nothing is grabbed; the
Settings menu is insensitive (`gtkgame.c` 8449-8456), but the command panel
(`gtkpanels.c` 525) is not: see the section on disagreements. Two threads that miss
the same key may both insert it; the code allows that, and so does `LruBuckets`.

### ThreadPool

`main` is the place of the main thread, `pc[w]` that of worker `w`. The queue's
operations hold `queueLock` from first to last access, so each is one action;
everything a worker does outside the lock (count itself, run the parts of a
task, abort the queue task by task, test `closingThreads`) is an action of its
own. `batch` tells what the shared counters count at the moment: threads being
created, tasks of a command, or threads being closed. `NestedCommand` is a
computing command that the GUI delivers during a wait. `settled` and `failed`
are history variables.

### SyncBarrier

`count[b]--` of the last thread is a read and a write (`ReadCount`,
`WriteCount`); the other threads' atomic operations may come before, but not
between as long as they wait for the event, which TLC confirms.

### Rollout

The shared counters are drawn from one at a time (`NextTrial`, `TakeTrial`),
`Skipped` reads `fNoMore` without the lock, `GiveBack` returns the number.
`AddResult` and the checks hold `multiLock`; a check is one action per
alternative, because other threads read `fNoMore` meanwhile. A trial's number
seeds its dice (`nSeed + (trial << 8)`), so the number stands for the game, and
the history variable `counted` records which numbers are in an alternative's
results. What the statistics would say is left open: any ranking and any
outcome of a comparison, which includes what the floats give.

### Match

`lMatch` is the list of games; a game is its `MOVE_GAMEINFO` (`info`) and the
other records (`moves`), so that `plLastMove` is an index and 0 stands for the
`MOVE_GAMEINFO`. `ms` is the live state with the fields of `matchstate`.
`ApplyMoveRecord` and `FixMatchState` are functions of state and record, as in
the code, used in three ways: a command adds a record and applies it to the live
state (`AddMoveRecord`), going back or to another game replays the records from
the start (`CalculateBoard`), going forward applies the next one
(`CommandNext`). The point of the properties is that these agree. A game that
ends writes winner and points into its `MOVE_GAMEINFO`, on replay as well.

`AddMoveRecord` is one operator with everything it does: dropping the later
games and records, eliding the record before, repairing the turn, applying.
`NewGame` includes the opening rolls with automatic doubles, and its failure,
when dice cannot be had and the first game of the match becomes the current one, at
its start.
`TurnDone` arms `NextTurn`, which the main loop runs before the next command;
it decides on the Crawford game and may start the next game (`fAutoGame`,
which the user may set at any time, so it is a choice).

A board is how many chequers each side has still to bear off, from the view of
the player on roll, since swapping sides is what goes wrong with boards in
`play.c`. A move bears off none or one. A roll is a value, with 0 for none.
Gammons follow from the board; a resignation offers one to three points.
`Habits` names what a user may do and the code does not handle well; the runs
and the section on disagreements say what each of them breaks.

### Analysis

The main thread goes through the records of a game (`AddRecord`) with a copy of
the match state (`msAnalyse`) and hands each one over as a task with this copy;
`HandOver` keeps a double back until the record after it, so that both are one
task. The queue is what `ForkJoin` promises of `ThreadPool`: tasks are taken in
order, run in any, and a wait ends when none is left. A worker goes through
`AnalyzeMove` (`at[t]`): from `Enter` to `Leave` inside the lock
(`MT_Exclusive`), except while it evaluates cube or moves. `data` is what the
records keep: the level at which the cube decision and the moves were found
(`esDouble`, which a chain of doubles and its answer share by way of `CubeDec`),
the list of moves, whether there is a luck figure, and for an answer the level
of the double's result that it was judged by, which stands for the error passed
in `pdoubleError`. `sc` counts how often each record is in its game's
statistics. `Clear`, `Interrupt`, `Autosave` (the timer's callback) and `Quit`
are what may come in between.

What is shown afterwards is computed by other code, and the properties compare:
`MoveAnalysed` is the code's own test for completeness, `updateStatisticsGame` the
recount, `CalculateBoard` the replay of a game.

### Algorithms

Functions without state: `Algorithms` has one variable, the input that is tried,
and each invariant compares a translated function with a definition that does
not follow its code. `MovesAreLegal` compares `GenerateMoves` (two passes with
the dice in either order, a list that is reset when a longer or larger play
turns up, moves merged by key) with the rules (`LegalPlays`: all plays that use
as many dice as can be used, and the larger one if only one can be).
`IdentifiersAreRead` (`PositionIsRead` and `MatchIsRead`) reads back what was
written, bit by bit and byte by byte. `PositionsAreNumbered` says what the generators of the bearoff
databases assert and need: numbers without gaps, independent of the number of
chequers, and every play leads to a lower one. `KeysTellApart` compares
`EvalKey` with `DependsOn`, what `SetCubeInfo`, `EvaluatePositionFull` and
`EvaluatePositionCubeful3` read of their arguments. `DiceAreBalanced` counts the
rolls `RolloutDice` gives over the games of a rollout, whatever permutations
`QuasiRandomSeed` has drawn: of 36 games that follow a multiple of 36 each turn
has each roll once, of 1296 the first two rolls are all pairs, and so on, as the
manual promises (`gnubg.texi` 2446-2505); `NoTrialTwice` of `Rollout` is what
gives each game of a rollout a number of its own. The one sided rollouts of `osr.c`,
which compute the roll from the number, are held to the same.


## Runs

| Run | Instance | Shows |
|---|---|---|
| `cache_locking` | 2 threads, 2 colliding keys, 2 equity tables | `TypeOK`; `MutualExclusion`: two calls never inside one bucket; `EntriesAreTrue`: no torn, stale or noisy entry; `LocksAreReleased`; `TransparentCache`: refinement of `EvalService`, so that a hit is what the evaluator gives |
| `cache_no_locking` | 1 thread, 2 depths, 3 keys, 2 buckets, no locks | `LeastRecentlyUsed`: refinement of `LruBuckets`, promotions and insertions seen as atomic though nested calls come in between |
| `pool_batches` | 3 workers, 3 tasks, everything allowed to go wrong | `TypeOK`; `TasksAreJoined`: refinement of `ForkJoin`; `SignalledMeansWork`: no lost wakeup; `ResultIsTold`: a failure is told for its own batch and only then; `AloneWithoutLocks`: what `EvalCache` assumes of `Locking` |
| `pool_waits` | 3 workers, 2 tasks | `EveryWaitEnds`: for creation, tasks and closing |
| `barrier` | 4 threads | `BarriersHold`: types, `AllTogether` and `Reusable`; `IterationsEnd` |
| `rollout_trials` | 3 threads, 2 alternatives, 2 or 3 trials, fresh or extended, interrupts | `NoTrialTwice`; `GamesAsAsked`: `AllTrialsPlayed` and `AtMostOneMore` |
| `rollout_stops` | 2 threads, 3 moves or the 2 sides of a cube decision, both stopping conditions | `TypeOK`, `TrialsAreSettled`, `StopsAfterMinimum`, `StoppedTogether`, `EarlyEndIsJustified`, `RolloutEnds` |
| `match_play` | a match to 2 points and a session, 2 chequers, at most 5 records besides the `MOVE_GAMEINFO`s and one setting of cube or board per game | `TypeOK`; `ReplayMatches`: the live state, and the result of the game, are what the records give; `ScoresFollow`: every game starts with the number and score the one before it led to, whatever was undone and replayed; `CrawfordRule`: `CrawfordOnce` and `NoCubeInCrawford`; `DoubleIsAnswerable`: an offered double has its record in place and the other player to answer; `GamesAreProper`: replaying a game finds a double where one may double, and an answer only after one, as the analysis expects |
| `analysis` | 2 threads, matches of one or two games with moves, doubles and each answer, 2 levels, whole match, game or move, 2 commands, interrupts, autosave, quitting | `TypeOK`; `AnalysedInContext`: the state a record is analysed in is that of a replay; `AnswerKnowsDouble`: an answer is judged by its double's present result; `CountedAsShown`: the statistics are what a recount gives; `CompleteIsSeen`: an analysis that did not fail left nothing out; `FreedAtRest`, with one main loop running (`gtk_main_level = 1`); `AnalysisEnds`, where the crashes listed below count as an end |
| `algorithms` | boards of 6 points with 3 chequers against blots and points, dice to 3; real boards for the identifiers; endings with 6 chequers on 3 points; match and money evaluations, each by itself; dice of 2 sides, 3 generations of permutations, 4 turns | `MovesAreLegal`, `IdentifiersAreRead`, `PositionsAreNumbered`, `KeysTellApart`, `DiceAreBalanced` |
| `analysis_lists` | violation of `NothingMissingIsRead` | the autosave reads a list of moves that is being found anew |
| `eval_keys` | violation of `KeysTellApart` | match and money evaluations in one cache share keys at double match point |

Deadlock checking is off for the pool, whose main thread waits for commands
that need not come, and for the match, where the bound on records ends what can
be added (moving about goes on), and for the analysis, which ends with the
program. The others either end in an explicit stuttering
step (`Ended`) or run on.

### Bounds, and why they are enough

* Cache: buckets do not interact except through a key's hash, and a bucket has
  two slots. Two keys make promotion, insertion and demotion happen; three make
  an eviction happen; two threads make every pair of conflicting accesses
  happen; two tables make staleness visible. `MaxPly = 1` makes a nested call
  displace what its parent looked up; that is in `cache_no_locking` only. In
  `cache_locking` every call is at the last ply (`MaxPly = 0`), so that an interrupt or
  a noisy request passing through several plies is in the theorem `Transparent`, not
  in that run. The theorems lift all of these bounds for
  everything except `LocksAreReleased`.
* Pool: `GetTask` is one action because `queueLock` is held throughout; that this
  is needed shows in its mutant `MutResetsUnlocked`, which resets the event after
  the lock and lets a wait hang. Three workers let one abort while another finishes and a third sleeps;
  three tasks fill the queue while all of them are in flight. `MaxWaits = 2` is
  one command within another.
* Barrier: four threads put two waiters, the last one and one that leaves into
  the barrier at the same time.
* Rollouts: two threads with three or four trials let a thread be a trial
  ahead, give a number back and draw it again; three threads are used where the
  count of threads is in the code's bound (`AtMostOneMore`). `Prior` makes
  alternatives fresh, extended, or mixed. `MinGames` of 2 with two threads lets
  a game be open while the minimum is tested.

* Match: five records make two games with a double and its answer, a
  resignation or a bearoff, a setting, and truncation of each; a redouble with its
  answer (`MAX_CUBE = 4` is reached); at 1-0 in a match to 2 the Crawford game. Two
  chequers let a game end as single game or gammon. One roll is enough: what a
  roll is makes no difference to the records. The setting of the board is to a
  position in which the sides can be told apart. By hand, a match to 3
  (`Lengths = {3}`, `Resignations = {1, 2}`, no settings of owner and board, 3.1 million
  states, 200 s) was checked too: it reaches the games after the Crawford game.

* Analysis: two threads put one outside the lock while another is inside, fails
  or aborts; two commands make an analysis that finds results of an earlier one,
  shallower, deeper or cut short, or an analysis that is quit. The matches
  (`SmallMatches`) have a double with each answer, a redouble, a double nobody
  answered, a beaver nobody answered, settings, and a game that follows another.
* Algorithms: `nBar` and `nHome` shrink the board to 6 points with a home of 3,
  so that bars, closed points, bearing off, doubles and forced plays of one die
  happen with few chequers. Identifiers are tried on boards of 25 points chosen
  for their extremes: fifteen on a point or on the bar, closed boards, points
  held by both, more chequers than there are. Scores and cubes are those
  at the borders of their fields. Dice of two sides give blocks of 4, 16 and 64
  games; three generations and four turns have a turn with fewer permutations
  than generations, as many, and more; each of the nine permutations is drawn
  in two ways, in all combinations.

The theorems lift these bounds for all that the section on proofs lists: any
number of threads, tasks, alternatives, trials, games and records, matches of any
length. They do not for liveness and for `Algorithms`.

`MaxRecords`, `MaxSettings`, `MaxTasks`, `MaxRollouts`, `MaxCommands` and the `TrialsAsked` are bounds in guards; nothing else
is bounded.

### Fairness

`FairSpec` of `EvalCache`, `ThreadPool`, `SyncBarrier`, `Rollout` and `Analysis` has weak
fairness for each thread: the operating system schedules every thread, and what
a thread computes ends (a game of a rollout, an evaluation). The spin lock and
`multiLock` promise no order. In `EvalCache` the liveness property is about the
holder only. In `Rollout` a thread that waits for the mutex gets it because the
others stop asking for it once the trials are used up, so that weak fairness
suffices. No command and no interrupt is under a fairness condition: a user need
not type. In `pool_waits` an event's ten-second expiry is switched off, so that
no wait ends by it; input during a wait and failing thread creation are
switched off since with them the waits need not end (see below).

## Proofs

Eight modules hold theorems. They need no bound: threads, tasks, records, keys,
trials and alternatives are as many as one likes. The assumptions are the named
`ASSUME`s of the modules (below, where they say something), which TLC evaluates in
every run. Where a theorem has hypotheses of its own, they are named here with
the reason, and each is what some run's configuration has.

| Theorem | Says | Inductive invariant |
|---|---|---|
| `EvalCacheProofs`: `TypeCorrect`, `Excluded`, `EntriesTrue`, `HitsTrue`, `Transparent`, `MostRecentlyUsedKept` | `TypeOK`, `MutualExclusion`, `EntriesAreTrue`, `HitsAreTrue`, `TransparentCache`, `LeastRecentlyUsed` | `TypeOK`, `Exclusion`, `Coherence` |
| `ThreadPoolProofs`: `TypesHold`, `NoWakeupIsLost`, `OneWithoutLocks`, `ResultsAreTold`, `JoinsTasks` | `TypeOK`, `SignalledMeansWork`, `AloneWithoutLocks`, `ResultIsTold`, `TasksAreJoined` | `Invariant` (`InvariantHolds`) |
| `SyncBarrierProofs`: `BarriersAreSafe` | `BarriersHold` | `Invariant` |
| `RolloutProofs`: `SidesStopTogether`, `EarlyEndsAreJustified` | `StoppedTogether`, `EarlyEndIsJustified` | `Control` (`ControlHolds`) |
| `RolloutProofs`: `TypesHold`, `TrialsSettle` | `TypeOK`, `TrialsAreSettled` | `Control`, `Counters` (`CountersHold`) |
| `RolloutTrialProofs`: `MinimumFirst`, `NoTrialIsTwice`, `OneMoreAtMost`, `GamesAreAsAsked` | `StopsAfterMinimum`, `NoTrialTwice`, `AtMostOneMore`, `GamesAsAsked` | these and `Plain`, `Second`, `Minimum`; `Settled`, `Limited`, `Nothing`, `Once`, `Reached` |
| `RecordsProofs`: `CalculateBoardTypes` | a game of any length replays to a match state | induction over the records |
| `AnalysisProofs`: `TypesHold`, `OneHoldsTheLock`, `RecordsAreSeenInContext`, `MatchIsFreedAtRest` | `TypeOK`, the lock, `AnalysedInContext`, `FreedAtRest` | `Types`, `Contexts`, `AtRest` |
| `AnalysisProofs`: `CompleteAnalysisIsSeen`, `AnswersKnowTheirDouble`, `RecordsAreCountedAsShown` | `CompleteIsSeen`, `AnswerKnowsDouble`, `CountedAsShown` | `IsAccounted` (`RecordsAreAccounted`), with `Types` and `Contexts` |
| `MatchProofs`: `MatchIsTyped`, `LiveStateIsReplayed`, `ScoresAreCarriedOn`, `CrawfordGameIsPlayedOnce`, `DoublesAreAnswered`, `CubeRecordsAreProper` | `TypeOK`, `ReplayMatches`, `ScoresFollow`, `CrawfordRule`, `DoubleIsAnswerable`, `GamesAreProper` | `Invariant` (`InvariantHolds`) |

### The cache

The assumptions are those of the module: without locks there is one thread, the
hash maps keys to buckets, `NoKey` is no key, the depth is a natural number.

Mutual exclusion alone is not inductive. `Exclusion` adds `StackDiscipline`
(a call that has another one below it is evaluating, so inside no bucket) and
`HoldersLock` (a call inside a bucket holds its lock): without locks the first
excludes, with them the second. The lemma `ThreadStep` says once what any step
of a call does to places, keys and lock, and `StackStep` and `ExclusionStep` use
only that.

Entries are true only because no two calls share a bucket, and only together
with what each place in the code says of the entry, the local copy and the
result: `Coherence` is `EntriesAreTrue` and `ProgressOf(p)` for every call.
`OnlyItsBucket` shows that a step inside a bucket touches no other bucket and no
other call; `Alone`, from mutual exclusion, that nobody else is in this one;
`LookupCoherent`, `AddCoherent` and `OutsideCoherent` go through the steps. A
change of the equity table flushes all entries and needs every call idle.

For the refinement `asked` is mapped to the key of a call that waits for its
answer. The answer is given by `CopyOut` (a hit) or `EvaluateFull`; `CopyOut` is an
`Answer` because of `Coherence`. All other steps stutter, or are `Ask`,
`Uncached`, `Interrupt` or `ChangeTable`.

For `LruBuckets`, `Slots(b)` is the bucket as the call inside will leave it. That
call is chosen there, and `SlotsInside` shows from mutual exclusion that there is
no choice. `LookupPromotes` finds one step of a lookup that can be seen, the one
that overwrites the old secondary entry (`SwapSecondaryKey`): the primary entry is
by then equal to the secondary one, and the old primary one is in the local
copy, both of which `ProgressOf` has to say. `AddInserts` finds one too,
`AddSecondaryKey`; what it inserts is an evaluation because `out` is by then.
TLC has `LeastRecentlyUsed` only for one thread without locks; the theorem has
it for any number with locks as well.

### The pool

No hypothesis: threads may fail to be created, waits may expire, the GUI may
start a command in a wait. The invariant has to say what the shared counters
count, since they count three things in turn. `Phases` ties the place of the main
thread to `batch`; `Queue` says that the queue holds the *last* ids of the batch in
order, whatever was aborted; `Holding` that the others are settled or held by
exactly one worker; `Living` where workers can be in each phase; `Counting` that
`doneTasks` is the number of settled tasks (of threads created, while they are) and
`result` the number of threads started or closed; `Telling` what a failure leaves in
`result`. That a wait's end means an empty queue and settled tasks (`AllSettled`) is
then counting: the settled ids are as many as there are ids.
`ResultsAreTold` and `JoinsTasks` go through the steps with this invariant; the
refinement has `AddTasks`, `NestedCommand` and `CloseThreads` as `Submit`,
`Finish` and `DropTask` as `Settle`, and the end of a wait as `Join`.

### The barriers

`BarriersAreSafe` has the hypothesis `~WaitExpires`: with a wait that expires a
barrier opens early, which is one of the disagreements below. `Counting` says
that a barrier's counter is the number of threads inside. This holds across the
last thread's `count--`, a read and a write, only because all others are
waiting then, and this in turn depends on where the threads are at the *other*
barrier. An iteration therefore has three phases: all gather at the first barrier
(`First`); some leave it while others gather at the second (`Second`); all leave
that (`Third`). Each phase ends with a count that is complete.

### Rollouts

`Control` is about stopping: types of the places, who holds `multiLock`, and per
place of a check what is known. `SidesOf` says that `check_jsds` leaves one side
stopped only between two of its own steps, and `ActiveOf` that
`active_alternatives`, which a thread computes alternative by alternative while
nobody else can change `fNoMore`, is at least the number still running, so that
a thread that leaves the loop is right to.

`Counters` is about numbers, which threads draw and give back without a lock. A
number that was drawn is held by a thread or its game is counted (`AccountOf`).
Numbers that are too large are drawn only to be given back, so that
`Drawn`, the counter without these, grows to one past the trials asked for and
no further (`BoundOf`). Interruption loses numbers, hence the inequality.

`MinimumFirst` needs `Second`: of a cube decision the code asks the minimum of
the first side only, and how far the second may lag is the number of threads
between the two sides (`Behind`), not of those that were interrupted (`Gone`).

`NoTrialIsTwice` and `GamesAreAsAsked` have the hypothesis `StopsOn = {"none"}`: with
moves that are stopped and resumed numbers *are* handed out twice
(see below). `Once` says that the numbers held and counted are distinct and less than
`Drawn`, and `Reached` that each increment of `ro_NextTrial` will have drawn a number
of each alternative, by the threads that are going to (`Sooner`). The hypothesis
`MaxRollouts <= 1 \/ ~Interrupts` is there because a rollout that is extended
after an interruption goes on from the count of games and plays some a second time.
`OneMoreAtMost` and `GamesAreAsAsked` have `MaxRollouts <= 1`: what they compare
with is what the alternatives had done before, which is `Prior` for the first
command only. `Prior` is any set of numbers, so that an extended rollout is
covered.

### Records and the analysis

`CalculateBoard` is a recursive function over the records. `LeastNumber` and
`AllNumbers` derive induction over natural numbers, for a *set* of numbers, from
the library's theorem that finite sets are well founded under inclusion; with
them `ReplayExists` and `ReplaysAgree` show that the function is the one its
definition describes, which gives the equations everything else uses:
`CalculateBoardFirst`, `CalculateBoardThen`. `ApplyMoveRecordTypes` goes through
the kinds of records. That a cube stays a power of two up to `MAX_CUBE` is a part of it
(`MaxCubeAssumption`: `MAX_CUBE` is a power of two up to 2^15).

`AnalysisProofs` assumes of the matches what the file formats and commands give
(`MatchesAssumption`: records of their types, and a resignation is the last record of
its game), and that each level, set of players and limit is of its type. `RecordsAreSeenInContext` says that a record is analysed in the
state that a replay of its game gives, though tasks carry copies of a
state that the main thread changes on, and run in any order. What makes it
hard is that the copy handed over need *not* be that state: `FixMatchState`, which
repairs a missing record, is applied by the worker. So the invariant (`Contexts`:
`Handing` for the main thread, `Parents` for a double it keeps back, `Queued`,
`Held`) says that the copy is this state *after* `FixMatchState`, and `FixMatchStateOnce`
that doing it again changes nothing. Then a worker that analyses a double applies
the record and passes the result on to the answer; `AnalyzeMove` turns the state to the
player before it applies, the replay after, and `AppliedTheSame` shows that
this makes no difference except for a resignation, which has no record after it.

`MatchIsFreedAtRest` has the hypothesis `gtk_main_level = 1`: in any other loop
`PromptForExit` ends the program at once. The conclusion there is
that the wait goes on until nobody works.

Three theorems are about an analysis of the whole match for both players that did not
return a failure: the match is then found to be analysed, answers were judged by the
present result of their double, and the statistics are what a recount gives. All three
follow from one fact: each record is `Done`, that is, `Analysed` (it has what
`AnalyzeMove` finds for its kind) and `Tallied` (it is counted once if it is counted at
all). That is true at the end only. While the analysis goes on, `Accounts` says where
each record *is*: not handed over yet; in the queue, with the main thread (a double
that waits for its answer) or with a worker, and then in one of these places only
(`Apart`, `Known`); or `Done` (`Covered`). To keep it one must know

* what a task is (`Shapes`): one record that has nothing to do with a double, or the first
  double of a chain and the record after the chain; the second double of the chain,
  a beaver, is in none, since it shares the evaluation of the first; and which double
  the main thread keeps (`Chained`);
* that a record that waits is not counted (`Uncounted`), because `IniStatcontext`
  has reset its game's statistics when the game was begun, and no earlier batch still runs;
* how far a worker has come with its record (`AtPlaces`): at `skill`, for
  instance, cube and luck are found and the moves not, and `doubleError`, which the
  answer will read, is that of its double;
* that a worker that writes into its record leaves all others as they are. A double and its
  answer share `CubeDec`, so this needs that no two tasks share it: `OneAnswer` shows
  that a chain has one answer, and `CubeDecOfChain` where `CubeDec` of a record lies.

`Accounts` holds as long as the analysis can still succeed (`GoesWell`): with the
first abort the queue is dropped and records are nowhere. `Batch`, `Kinds` and
`Lists` hold at any time: they make sure that an analysis starts with nobody at work,
whatever was interrupted before. Together they are `IsAccounted`; TLC checked
it on the run's instance (351,578 states) before it was proved. `RecordsAreCountedAsShown`
needs besides that the recount, which steps through the records without
`FixMatchState` first, agrees with the replay on cube and offers
(`RecountKnowsCube`): boards and turns may differ, what is counted does not.

The three theorems have one hypothesis, `MatchesAreProper`: a double is recorded
for the player on roll who may use the cube, below `MAX_CUBE`, or after a double; an answer
after a double. `CommandDouble`, `CommandRedouble`, `CommandTake` and `CommandDrop` see to it, and
`CubeRecordsAreProper` of `MatchProofs` proves it of the games of `Match`.
A file that is loaded may hold other records; what the analysis makes of
them is not claimed. `MCAnalysis` states the hypothesis as an `ASSUME`, so that TLC
evaluates it for the run's matches. In `Analysis`, as in the code, a player's
moves may follow each other (a record is missing), and settings come anywhere.

The attempt to prove `CountedAsShown` refuted it as it was stated first, with
only the last double of a game left out: a game that ends with a double *and*
a beaver has neither handed over, so that the first double, analysed before by itself
(`analyse move`), is shown by a recount and not counted by the analysis of the match. `IsOpenDouble`
covers the chain now, and `DoubleBeaverOpen` is among the run's matches.

### Matches

The six theorems of `MatchProofs` about properties say of `Match`, for any number of chequers, dice,
lengths, games, records and settings, what the run `match_play` checks on a small
instance. None of the properties is inductive: commands cut games off anywhere
and go back to any place of any game, so something must be said of every game and of
every beginning of it. The `Invariant` has four parts:

* `Chronicle`: every stored game is `Good`, that is, one whose records were each
  `Legal` in the state that replaying the ones before it gives (`Run` over `Trace`, which has
  that state for each place); every game but the last is finished; numbers, scores and
  Crawford games go on from one to the next.
* `Live`: the live state `Agrees` with the trace at the current place: all fields are the
  same, but for a resignation on offer, which has also passed the turn, and, after
  the end of a game, what `NextTurn` has done to turn and Crawford flags.
* `Ending`: while `NextTurn` is due for a game that has ended, the user is at its end,
  and the state still has the game's own score.
* `Told`: `fCrawfordState` is what follows from the end of the *last* game, also when
  the user has meanwhile browsed elsewhere; `NewGame` uses it long after.

`TLC` checked this `Invariant` before it was proved: with the run's constants and
`MaxRecords = 4`, all 193,953 states. The lemmas go in this order: `Effects`
and `StepAfter` say what a legal record leads to, kind by kind, and `GameStates` that this
holds all along a game;
`Elision` that dropping a record which a later one replaces (`AddMoveRecord` does so with dice and
settings) leads to the same; `FirstRecord` and
`LegalIsFixed` that `FixMatchState`, which each replay applies, changes a state
before the first record only; then each command keeps the `Invariant`
(`...Keeps`, joined in `StepKeeps`), and the `Invariant` implies each property.

The hypotheses: `Habits \subseteq {"restart"}`, since each other habit breaks at least one of
the properties (below); and `fDisplay = TRUE`, since without a display the automatic double
is recorded and not made (below). `CubeRecordsAreProper` asks for `MAXSCORE <= MAX_CUBE`
too (`matchequity.h` 26 has 64, `backgammon.h` 34 has 4096), since in a match a double is limited
by `MAXSCORE`, and one at `MAX_CUBE` would be recorded without effect; the commands test
the live state and this theorem is about replays, so it rests on `Live` and `Chronicle` like the others.
`MaxRecords` and `MaxSettings` are any numbers.

### What stays with TLC

* Liveness (`LocksAreReleased`, `EveryWaitEnds`, `IterationsEnd`, `RolloutEnds`,
  `AnalysisEnds`): fairness and ENABLED are out of the prover's reach.
* `Algorithms`: its modules have RECURSIVE operators, and the properties
  compare computations on data, each with another definition.

## What disagrees with the comments

The two violation runs are findings. While modelling, these were seen as well;
they have no run of their own. Those with a property named were seen by TLC
with the change named.

* `rollout.c` 1143: with moves that are stopped and resumed (`StopsOn = {"jsd"}`,
  two threads, two moves, four trials) a number that is given back while another
  thread plays the next one is handed out twice, and with it the dice
  (`NoTrialTwice`).
* `multithread.c` 55: `closingThreads` is set before the `CloseThread` tasks are
  added; a worker between `MT_TaskDone` and the test of its loop leaves without
  one, its data are not freed and `MT_WaitForTasks` does not end
  (`ClosedBeforeExit`, already with two workers). `EveryWaitEnds` allows for it.
* `rollout.c` 1142: trials count from 0, so `trial > cGames` lets number
  `cGames` pass: an alternative with more games than another gets one game too
  many when the other is caught up. `AtMostOneMore` says one is the most.
* `rollout.c` 1001: `rStoppedOnJSD` is written through the index into the
  sorted list, `fNoMore` through the move's own number: the value is told of
  another move. (The variable is left out of `Rollout`.)
* `rollout.c` 1408: an interrupted rollout that is extended goes on from the
  count of games, which need not be the first ones.
* `rollout.c` 1053: the minimum of games is asked of the first side of a cube
  decision only.
* `rollout.c` 1064-1110: `check_sds` counts only the alternatives it stops
  itself, so with alternatives stopped at different trials nobody sees that all
  are, and the loop uses up the remaining numbers.
* `rollout.c` 984: a stopped move that comes to lead the list stays stopped: the
  loop that stops and resumes goes over the other places only. The moves
  are then compared with one that is not rolled out any further.
* `rollout.c` 1142 and 1107: `fNoMore` is set under the lock and read without it, and
  `check_sds` sets one side and then resets it when the other side goes on. A
  thread that skips a side in between makes the sides differ by as many games as
  there are threads; the comment (1213-1214) says by one less at most.
* `rollout.c` 1342: a rollout as initial position does without quasi-random dice, so
  that its first rolls are not "every 36 (30) games" all possible ones
  (`gnubg.texi` 2498-2503). Only a rollout that was saved with both settings and
  is extended has them, and there `nSkip` is reset before each game (1154),
  not "remembered" (`gnubg.texi` 2484-2488): after a double two games begin alike.
  `nSkip` is one variable of all threads; `RolloutDice` here is that of one.
* `multithread.c` 190: the "timeout after 1 second" is the interval of a
  callback; a thread that cannot be created is waited for without end
  (`CreationMayFail` with `EveryWaitEnds`).
* `multithread.c` 338: with background analysis a command given during a wait
  resets the counters of the outer wait, which then does not end (`OpenInput`
  with `EveryWaitEnds`).
* `set.c` 3190: with background analysis the command panel can deliver `set met`,
  `clear cache` or `set cache` during a wait. An evaluation begun with the old table
  is then stored after the flush, and stays; `CacheFlush` clears locks that threads
  hold, and a resize frees the entries they use. `Quiescent` in `EvalCache` excludes it.
* `multithread.c` 479: a barrier opens early when an event is waited for longer
  than ten seconds (`WaitExpires` with `AllTogether`).

* `Match` has a constant for each of the next ones (`Habits`, `fDisplay`); each breaks
  the properties named:
  * `abandon`: `new game` in the middle of a game, or after moving back, discards
    the records from there on, and `NewGame` (`play.c` 828) prefers what
    `NextTurn` left in `fCrawfordState` for another game to the score: a Crawford game at 0-0
    (`CrawfordOnce`). Only a new match and `set matchid` reset it.
  * `append`: `new game` at the end of a game that is not the last is taken for the
    end of the match (`play.c` 700 looks at the game only, while the question
    asked says "not the last in the match"): the new game follows the last one
    with the live score, of an earlier one (`ScoresFollow`, `CrawfordOnce`; needs `MaxRecords` of 6).
  * `counter`: while a resignation is pending, a double is answered, the other
    player resigns, or `next` is given: the turn has gone to the other
    player, and `FixMatchState` swaps sides though no record is missing
    (`ReplayMatches`, `DoubleIsAnswerable`); the replay may end with another
    winner than later games were started with (`ScoresFollow`, `CrawfordOnce`).
  * `dice`: the dice are set while a double is offered, then a move replaces that
    record; on replay the double has passed the turn on (`ReplayMatches`, `DoubleIsAnswerable`, `ScoresFollow`).
  * `board`: the board is set while a double is offered, which `LinkToDouble` then
    does not find, or while a resignation is pending, whose end is then not in the
    turn (`ReplayMatches`, `DoubleIsAnswerable`).
  * `restart`, a new match in the middle of a game, breaks nothing.
  * `fDisplay = FALSE`: the automatic double is computed in an argument of `outputf`
    (`play.c` 897), so that the cube stays at 1 while the record says 2 (`ReplayMatches`).
* `play.c` 523: when the record that ended a game is removed, winner and points stay in its
  `MOVE_GAMEINFO`, of which `backgammon.h` 114 says "-1 = unfinished".
* `analysis.c` 1123 and 1162: `analyse move` of a drop dereferences the NULL that is
  passed for the double's error (a take is refused). `BeginAnswer` has it.
* `analysis.c` 2222: the recount moves the turn at a redouble, so that the answer
  to it is counted in another state than the one it was analysed in; `CountedAsShown`
  leaves that answer out.
* `analysis.c` 1387: a double at the end of a game (or a double and the beavers after it) has
  no record after it and is never handed over, though `MoveAnalysed` asks for it and
  the recount shows it if `analyse move` has found it; such a match is never
  found to be analysed. `CompleteIsSeen` and `CountedAsShown` leave it out.
* `analysis.c` 1692: "analysis incomplete; erase partial summary" is done when the
  first record of a game is interrupted, not when a task is.
* `analysis.c` 1728: `ms.fCrawford` is restored after a background analysis, during
  which the user may have gone to a game with another value.
* `eval.c` 2340: cubeless money evaluations deeper than 0 plies leave Jacoby's
  rule and the cube's owner out of the key, though gammon prices, by which moves
  are chosen, depend on them. (Only cubeful money requests are in `MCSessions`.)
* `eval.c` 2344: `fBeavers` is the number of beavers allowed, shifted by 27 bits;
  from 32 on it leaves the key. The variation is not in it at all.
* `bearoff.c` 264: `ReadBearoffFile` returns without `MT_Release` when the file cannot be read.
* `makebearoff.c` 950: `TSLookup` reads 8 bytes of a temporary file whose cubeless
  entries have 2, so that the last ones cannot be read; only a small hash table
  (`-s`) makes it look there.
* `matchid.c` 206: a finished match whose winner has more points than needed
  has an identifier that is refused; dice come back with the higher one first.
* `speed.c` 103: `calibrate` sets the cache to size 0 before it looks at its
  parameter, and returns without restoring it when that is refused.
* `lib/cache.c` 99 and 278: a size of 1 would make a hash mask of all ones (the
  commands round it away); when a resize cannot allocate, the old cache is gone.
* `multithread.c` 442: a wait for no task at all returns the result of an earlier batch.

## Plan

In this order, the most important behaviour first:

0. Done: `EvalCache` with its proofs, `ThreadPool`, `SyncBarrier`, `Rollout`,
   `Records`, `Match`, `Analysis`, `MoveGen`, `PositionID`, `MatchID`, `EvalKey`,
   `Bearoff`, `QuasiDice`.
   Done as well: the proofs of `EvalCache`, `ThreadPool`, `SyncBarrier`, `Rollout`, `Match`
   and `Analysis`: every safety property of these modules that a run checks is a theorem,
   and so is each of the three refinements.
1. `Match`: the commands left out (`set turn`, `set matchid`, `set score`, `set cube use`)
   as a further habit, since they change the live state and leave no record;
   `end game`.
2. `Bearoff`: the two-sided generator's order and temporary file.
3. `ExternalPlayer`: the socket session.

A run is kept for a question, not for a count: where a later module needs
checking time, the runs that show the least give way to it.

## Not modelled

Arithmetic on floats (nets, equities, statistics, ratings), the contents of the
bearoff tables, file formats, the database, Python, the GUI's own state, sound
and output, and `gnubg-nn`. Within the modelled parts: allocation failure,
cache statistics (`CACHE_STATS`), the autosave timer and thread-local move
lists of the pool, progress output and log files of rollouts, the settings a
rollout is given; in the analysis, automatic rollouts, the quiz and the
evaluation of resignations; in the match, computer players, the variations, `fAutoCrawford`
and the cube's use switched off, and the commands that leave no record (see the
plan). With `fDisplay` off the number of automatic doubles is bounded in the
model and not in the code. A new match whose opening dice cannot be had is left
out: `plLastMove` then dangles. `PROJECT.json` gives the reason per component.
