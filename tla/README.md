# Verification of the branch-predictor Pintools

The program is a set of six tools for Intel's Pin instrumentation system, each
of which replays the conditional and unconditional branches of a running
application through one branch predictor and reports how many it predicted
right. They live in `source/tools/ManualExamples/` of the Pin 2.14 kit that
the repository ships whole; in this file that directory is `ME/`. This
directory holds TLA+ modules that model the tools, TLC configurations that
check them on small instances, and proofs that TLAPS checks.

## Inventory

| Component | Source | State it keeps | Operations |
|---|---|---|---|
| Host part, the same text in all six | each tool | `num_instr`, `num_branches`, `num_correct`, the log file; in Pin: the code cache with its analysis calls | `Instruction` (called when code is compiled), `docount`, the scoring in `RecordBranch` (called when code runs), `Fini` |
| Saturating, correlated predictor | `ME/pinatrace.cpp` | `bhr[4096]`, `bhr_current_index`, `branch_history[12]`, `prediction` | `updateBHRIndex`, `setPrediction`, `updateBHT`, `updateBranchHistory` |
| Path-based predictor | `ME/itrace.cpp` | `bhr[1024]`, `bhr_entries[1024]` (strings), `pathsUsed`, `branch_history[4]` (strings) | the same four, over paths of target addresses, and a warm-up |
| Perceptron predictor | `ME/nonstatica.cpp` | `weight[1024][62]`, `address_history[1024]`, `pathsUsed`, `branch_history[62]` | lookup in `RecordBranch`, `updatePerceptronResult`, `setPrediction`, `trainPerceptron`, `updateBranchHistory` |
| GEHL predictor | `ME/strace.cpp` | `predictionTable[6][2^20]`, `branch_history[32]` (strings), `currentSum` | `hashing`, `updateResult`, `setPrediction`, `updatePredictor`, `updateBranchHistory` |
| Data-correlated predictor | `ME/staticcount.cpp` | the correlated predictor's, `reg_history[8]`, `reg_table[256]`, `reg_predictions`, `reg` | the correlated predictor's, `reghash`, `updateRegisterHistory`, `updateRegTable`; branches that read no second register have a `RecordBranchNoReg` of their own |
| Tournament predictor | `ME/proccount.cpp` | a correlated, a perceptron and a GEHL predictor, `individual_predictions[3]` | `updateIndex`, `setPrediction` (majority vote), `updatePredictors`, `updateHistory` |

**How they interact.** A tool is one shared object loaded by Pin. `main`
initialises the globals, registers `Instruction` and `Fini` and starts the
application. Pin calls `Instruction` for each instruction it compiles into its
code cache, which is before that instruction first runs and again when it is
compiled into another trace or after a flush. `Instruction` inserts a call to
`docount` in front of the instruction and, for branches, a call to
`RecordBranch` with the outcome and the target address. Both then run as part
of the application. `Fini` prints the totals when the application exits. The
parts share nothing but globals: helpers pass the table index and the
prediction to each other through `bhr_current_index`, `current_index` and
`prediction`.

**What is hard.**

* *Two clocks.* The score is cleared when code is compiled, not when it runs,
  as long as `num_instr` has not passed `NUM_INSTR_SKIPPED`. When it is
  cleared for the last time depends on what Pin compiles.
* *State passed through globals* between four helpers that must run in one
  order: index, predict, train, shift.
* *Fixed tables.* Counters saturate and step over 0; the table of strings is
  overwritten in a circle and an entry's counter or weights outlive its key;
  two tools index tables by values that can leave them.
* *Fixed widths.* Totals are `int`, hashes 64 bits, sums `float`.
* *Undefined behaviour.* The history shift of two tools runs off its array.
* *Threads.* Pin compiles under a lock but runs analysis routines of several
  application threads in parallel; the globals are not locked.
* There are no messages, no persistence, no retries and no timeouts.

**What makes each part correct.**

* Host: each executed instruction counts once, each branch once and at most
  once as correct; nothing is cleared after start-up; nothing changes after the
  report.
* Correlated: counters stay in range; a prediction flips only between weak
  states; the entry that predicted is the one trained; few mispredictions on
  applications whose outcomes follow from their history.
* Path: no path twice; first in, first out; an entry keeps its counter; no
  table prediction before the path is (nearly) full.
* Perceptron, GEHL: indices stay in their tables, weights and counters stay
  bounded, a branch that settles is learned.
* Data-correlated: what is learned depends on outcomes only; register
  predictions are some of the branches; indices stay in their tables.
* Tournament: each part learns as it would alone; the vote is right in the end
  on an application that settles.
* Threads: no race takes a counter or an index out of its range or makes a
  count up; without races nothing changes.

Not all of this holds; see "What was found" below.

## Modules

| Module | Models | Role |
|---|---|---|
| `Bits` | `1 << n`, sums over a range | operators |
| `SaturatingCounter` | the counter four tools write out (`updateBHT`) | operators |
| `HistoryIndex` | index from, and shift of, an outcome history | operators |
| `PinTool` | the host part | state, actions shared by the predictors |
| `BranchScoreboard` | what a tool promises of its totals | abstract specification |
| `ContextMemory` | what a predictor correlated with outcomes promises to learn | abstract specification |
| `CorrelatedPredictor` | `pinatrace.cpp` | component; implements `BranchScoreboard` and `ContextMemory` |
| `CorrelatedLearning` | `pinatrace.cpp` with two history variables | competitive bound |
| `MCFullHistory` | the same on a loop of three outcomes | what leaving out the newest outcome costs |
| `AssociativeTable` | the circular table of strings | component, used by `PathPredictor`, `PerceptronPredictor` and `Tournament` |
| `FifoTable` | a first-in, first-out memory | abstract specification |
| `PathPredictor` | `itrace.cpp` | component; implements `FifoTable` |
| `Perceptron` | the arithmetic of one perceptron | operators, used by the next and `Tournament` |
| `PerceptronPredictor` | `nonstatica.cpp` | component; implements `FifoTable` with one counter per key |
| `PerceptronHistory` | `nonstatica.cpp` with the last outcome as a history variable | what the history records |
| `GehlHash` | `hashing` of `strace.cpp` | operators |
| `GehlHashing`, `MCGehlHashing` | the hash of a growing path | range of the index |
| `Gehl` | the arithmetic of one GEHL predictor, with indices one past a table | operators, used by the next and `Tournament` |
| `GehlPredictor` | `strace.cpp` | component |
| `GehlLearning`, `MCGehlLearning` | `strace.cpp` with two history variables | how fast a branch is learned |
| `DataCorrelated` | `staticcount.cpp` | component; implements `ContextMemory` and `BranchScoreboard` but for stray writes |
| `Tournament` | `proccount.cpp`: `HistoryIndex` and `SaturatingCounter`, `AssociativeTable` and `Perceptron`, `Gehl`, and the vote | component; implements `ContextMemory` |
| `TournamentLearning`, `MCTournamentLearning` | `proccount.cpp` on an application that settles into a loop | learning, liveness |
| `CorrelatedThreads`, `MCCorrelatedThreads` | `pinatrace.cpp` access by access, several threads | component; implements `CorrelatedPredictor` as long as threads do not meet |
| `PathThreads` | the table of paths of `itrace.cpp`, several threads | what a race does to it |
| `PredictorLemmas` | | facts about the operators and the host part, with proofs |
| `CorrelatedPredictor_proofs` | | theorems about `CorrelatedPredictor` and `CorrelatedLearning` |
| `PathPredictor_proofs`, `PerceptronPredictor_proofs`, `DataCorrelated_proofs`, `CorrelatedThreads_proofs` | | theorems about those components |
| `GehlLearning_proofs` | | theorems about `GehlHash` and `GehlLearning` |
| `TournamentLearning_proofs` | | theorems about `Tournament` and `TournamentLearning` |

`PinTool` declares the host's variables (`instrumented` is Pin's code cache,
`running` is FALSE once `Fini` has closed the log) and one action per callback.
A predictor module EXTENDS it, adds the tool's globals under their names, and
gives `RecordBranch` as the conjunction of the helpers in the order the source
calls them. A step is one callback, or one executed instruction with all its
analysis calls: that is what a single-threaded application can observe.
`CorrelatedThreads` checks this choice: there a step is one access of a global,
the globals are the fields of `shared`, `pc` says where each thread is, and
each analysis call of a thread that meets no other comes to the one step of
`CorrelatedPredictor`.

Operators named `X_Something` with a comment that begins "Mutant" are variants
of `X` with a plausible bug, kept to show that the properties would notice it;
no specification uses them.

### What is abstracted

* Log lines are left out; the totals `Fini` prints are state.
* Instructions have no addresses. An outcome is a Boolean the application
  chooses; in `PathPredictor` it also chooses a target address.
* `itrace.cpp` joins address strings to a path; the model keeps the sequence
  of addresses, which determines the string and is determined by it.
  `strace.cpp` hashes the string it joins, so there an address is the sequence
  of its characters.
* The weights and sums of the perceptron and GEHL predictors are `float`s that
  change by whole units and stay far below 2^24: integers in the model. The
  perceptron's threshold is compared with integers only, so its integer part
  decides; GEHL's start value `NUM_TABLES/2.0` is whole because `NUM_TABLES` is
  even (6), which `GehlAssumption` states.
* The loop of `updateBranchHistory` in `nonstatica.cpp` has undefined
  behaviour. `RecordBranchFaults` is the build that executes it as written (it
  overwrites the tool's memory until it faults, and nothing of the tool is
  left to report); `RecordBranch` is the build in which it ends after the round
  that is within the array. Each branch may do either, in `Tournament` too, where the
  loop is repeated, and in the loops of `TournamentLearning` (`LoopFaults`).
* The hash keeps its arithmetic, on a word of `WORD_BITS` and a table of
  `2^TABLE_BITS` entries. It can give the index one past a table
  (`gehl_hash_range`), and the predictors then do what the code does: the
  tables are rows of one array, so table `i` reads and trains the first counter
  of table `i + 1`. Behind the last table lies the global that the compiler
  puts there: `historyVariations[0]` if globals are in the order of their
  definition (g++ -O0), and if they are in reverse (g++ -O3), half of the
  pointer `trace` in `strace.cpp` and `perceptron_paths_used` in
  `proccount.cpp`. Each step may find either. A depth that was trained changes
  the paths from then on; a trained `trace` makes the next `fprintf` fault
  (`RecordBranchFaults`); a trained `perceptron_paths_used` moves the place of
  the next new address, and a negative one makes the assignment to it fault.
  What half a pointer reads as is any int.
* `staticcount.cpp` reads `reg_history`, 8 cells, at an index made for the 256
  entries of `reg_table`, and that index may be negative, where it trains what
  lies in front of `reg_table`. Reads outside `reg_history` give any value.
  The int that is trained is a cell of `reg_history`, four cells of
  `branch_history`, a total, or something that is not read again: these are
  what lies within 255 ints of `reg_table` in the two layouts that compilers
  give these globals, the order of their definition (g++ -O0) and the
  reverse (g++ -O3). The sum in
  `reghash` is cut to an int of the model's width, as the cast does.
* The loop of `TournamentLearning` leaves the totals out once the application
  has settled; the predictor does not read them, and without them the loop is
  finite.
* `CorrelatedThreads` has the granularity of an optimised build: `++` is a load
  and a store; `updateBHT` loads its counter once and stores it trained and
  clamped; every helper loads `bhr_current_index` again. Accesses are
  sequentially consistent, and the shift of the history is one load and one
  store of the cells it moves. Data races are undefined in C++; other builds
  may do other things. In `PathThreads` a string assignment is not torn.
* `int` wraps around at `INT_MAX`, a constant; `num_instr` is a 64-bit count
  and does not wrap.

## Runs

| Run | Instance | What it shows |
|---|---|---|
| `correlated` | 2-bit counters, 3-cell history, 2 instructions, 8 executions, start-up of 2, `INT_MAX` = 8 | types, dead half of the table, hysteresis; the totals make sense and are the abstract scoreboard's, every executed branch being one of its branches; the table is a memory of each context by itself |
| `competitive` | all 16 fixed tables, 11 outcomes | at most one misprediction per entry and two per surprise |
| `full_history` | `BHR_BITS` = 2, the outcomes taken, taken, not taken in a loop | violated: the report says `BHR_BITS`-bit correlated, but the most recent outcome is not used and the loop is never learned |
| `path` | 2 addresses, depth 3, table of 3, 7 executions, start-up of 2, `INT_MAX` = 4 | no duplicates, FIFO, warm-up at most one short, whether it is the first or begins again because `num_branches` was cleared or wrapped around |
| `perceptron` | 20 inputs, 3 addresses, table of 2, 6 executions | confidence stays within one training of the threshold; the weights are one saturating counter per target, passed on first in, first out |
| `perceptron_history` | 4 inputs, 1 address | violated: after a taken branch no input of the perceptrons is true, though the source says the history is updated |
| `gehl` | 2 tables of 8 on an 8-bit hash, 2-target history, 3-valued counters, 3 addresses of which one overruns table 0 and a pair overruns table 1, 7 executions | counters and depths stay in range whatever an overrun trains; until one happens, a steady branch is learned in `HISTORY_LENGTH + SATURATING_NUM` executions whatever the tables held |
| `gehl_hash_range` | 16-bit word, table of 64, 3 addresses | violated: an index of `TABLE_SIZE`; `IndexRanges` proves that none is larger |
| `data` | a branch that reads a register and one that does not, register values 0, 2 and 3 with 4-bit ints, 2 cells of register history, 4 executions, start-up of 1 | no stray write leaves a counter out of its range or neutral; registers change what is predicted but neither what is learned nor the totals, unless an index is negative; `reg_predictions` exceeds `num_branches` by the start-up phase at most |
| `tournament` | 3-bit counters, 2-cell outcome history, 20 perceptron inputs and 3 perceptrons, 4 GEHL tables of 16 on a 10-bit hash, 2 addresses some paths of which overrun, 4 executions, then a loop | types, also after overruns; the correlated part learns as it would alone; until an overrun, the vote is right after `Patience` rounds of a loop; the correlated part, and GEHL on a taken branch, learn it for good |
| `threads` | 2 threads, 4 instructions, 2-cell history, start-up of 1, `INT_MAX` = 3 | races leave counters and indices in range, wake no dead entry and make up no count; without a race the accesses come to the steps of `CorrelatedPredictor` and the reported totals make sense |
| `path_threads` | 2 threads, 3 paths, table of 2 | violated: an index beyond the table |

**Bounds.** `MaxInstr` bounds the executed instructions (the guard of
`docount`); nothing else is bounded by hand. But for one case named below, the bounds reach every case that
the control distinguishes: saturation at both ends needs 3 outcomes for one
entry; `competitive` revisits entries after surprises; `path` fills its table
of 3 and replaces two entries, with `num_branches` wrapped around by then; `correlated` counts up to `INT_MAX` and
`threads` past it; `perceptron` has
enough inputs (20) that three trainings pass the threshold (52) and a fourth
must not happen, and replaces an entry whose weights are trained; `gehl` drives the
counters to both ends, turns a branch round and lets it settle, and overruns
each of its tables. In `data` the
values 2 and 3 give sums within 4-bit ints, beyond them and, cut, negative
ones, so every kind of index occurs. Four instructions of two threads let each
thread run two, so that a thread meets what another left half done and what it
left itself. `tournament` lets four branches train the parts against each other
before the loop, which saturates the counters and brings a perceptron past its
threshold; its counters have 3 bits, so that the number of bits, to which the
code clamps them, is not `1 << (bits - 1)`, to which `SATURATING_NUM` would, and
a clamp to the other fails `TypeOK` and `ImplementsMemory`. Its overruns train a
depth to both signs and `perceptron_paths_used` down to 0; that it becomes
negative takes more branches than the run has and is left to the theorem
`TournamentTypeCorrect`. The skipped
start-up is crossed in the runs about the totals, with code compiled before, at
and after it; the others set it to 0.
All branches share the predictor's state, so one branch instruction stands for
all of them.

**Deadlock.** A tool stops for good after `Fini`, and the model stops at
`MaxInstr` only by way of `Fini`; the configurations switch the deadlock check
off for that reason. The hash and the table of `PathThreads` go on for ever and
are checked for deadlock.

**Fairness.** Whether the application executes another instruction is its own
affair, so the components assume none. `TournamentLearning` assumes weak
fairness of `Repeat` only: an application that has settled into a loop goes on
with it, which is what a loop that does not end does, unless the tool faults in
it: `LoopFaults` ends the run at any round, and `PartsLearn` speaks of those
that go on. Nothing the tool does
needs to be fair: an analysis call runs in the thread that executes the
instruction and ends. The bounds of `competitive`, `gehl` and `VoteLearns`
hold without fairness.

## What was found

Four runs are expected to be violated and are findings in `PROJECT.json`:

* `full_history`. After the first misprediction of the loop taken, taken, not
  taken, the table and the history come back to the same state every three
  branches, in each of which the tool is wrong twice.
* `perceptron_history`, `gehl_hash_range`, `path_threads`, as in the table above.

The
properties of the passing runs are worded around the following, which the
models show as well:

* `staticcount.cpp` predicts from whatever lies beyond `reg_history` when the
  hash is 8 or more; `reg_table` is trained and never read for a prediction.
* A negative hash trains another global; if that is a total, the report is
  wrong. Hence `ImplementsScoreboardUnlessStraying`.
* Start-up does not clear `reg_predictions`, so the share of register
  predictions may exceed one, by as much as `ExcessBounded` says.
* With two threads the report may have more correct predictions than branches
  (code compiled during start-up between the two increments of the other
  thread). Hence `TotalsMakeSenseUnlessRaced`.
* In `proccount.cpp` the perceptron, sure of the opposite, and GEHL, sure of
  "taken", can stay wrong for ever while the other two outvote them: the
  training condition asks whether the vote was wrong. `PartsLearn` claims what
  is left. For the same reason weights grow without bound.
* Printed addresses of six digits, as a program linked to a fixed address has,
  all hash to entry 430 of GEHL table 0: the division keeps the high bits,
  which eight characters do not reach. (Found by evaluating `hashing`; it needs
  the 64-bit word, which TLC does not have.)

## Proofs

The theorems hold for all values of the constants that the named assumptions
of the modules allow: any set of instructions, any start-up, any `MaxInstr`,
any sizes of tables, histories and counters. A few relations between sizes are
assumed, all of which hold of the code's constants: `WORD_BITS > 2 * TABLE_BITS`
for the hash (64 and 20), that the range of a counter fits an int
(`DataCorrelated`), and that an int which a stray GEHL index trains up to the
largest counter value is still a depth of the history, `SATURATING_NUM <=
HISTORY_LENGTH` (8 and 32), in `Tournament` `COUNTER_BITS <= GEHL_HISTORY_LENGTH`
(4 and 32), or a place in the table, `COUNTER_BITS <= PERCEPTRON_TABLE_SIZE`
(4 and 1024). That GEHL indices stay in their tables is *not* assumed: the type
theorems hold wherever they go, and the learning theorems are stated until one
leaves its table (`strayed`). Theorems
about the totals of the abstract scoreboard suppose that they cannot overflow,
`MaxInstr <= INT_MAX`; the safety of the totals does not.

**Shared facts.** `PredictorLemmas` proves induction for sets of naturals (from
the library's well-founded minimum), the recursion equations of `SumBelow` and
`pow2`, how a sum changes with one summand or moves by one, the range of
`PackBits`, what `Train` does to a counter, that an outcome history read as a
sequence shifts like one and that distinct contexts have distinct indices, what
a perceptron answers when one input alone counts, that a GEHL index is at most
one past its table and what training, also outside a table, leaves of the
counters, that the circle of
`AssociativeTable` cut at `pathsUsed` is a queue, and what the host part does
to the totals.

**`CorrelatedPredictor`, `CorrelatedLearning`.**

* `TypeCorrect`, `HalfTheTableIsDead`, `TotalsAreSound`: the inductive
  invariant `IndInv` is their conjunction with `NoNeutralCounter` (no counter
  rests at 0), without which training would not keep the range.
* `Hysteresis`: an action property from the same invariant.
* `RefinesScoreboard`, `RefinesMemory`: the tool implements `BranchScoreboard`
  and `ContextMemory`. In the first every executed branch is a step `Branch` of
  the scoreboard, so that none is lost or counted twice. The second maps a context to the counter at its index;
  a step trains that one only because two contexts never share an index, and
  moves it to the nearest level beyond because training steps over 0.
* `Competitive`, `DebtIsCovered`: if the compared table has the predictor's
  index, `wrong <= TotalDebt(fresh) + 2 * surprises`. The bound is not
  inductive: `DebtCoversFuture` adds the mispredictions the counters still
  have in store, which each branch pays for or which a surprise raises by at
  most two.

**`PathPredictor`.**

* `PathTypeCorrect`, `PathsAreUnique`, `WarmUpSuffices`: the inductive
  invariant `PathInv` adds `HistoryKeepsUp`, that the history holds at least as many
  addresses as `num_branches` counts up to `PATH_DEPTH`, also after a clear or
  an overflow; without it the warm-up, timed by a counter that start-up
  resets, says nothing about the history.
* `PathRefinesFifo`: cutting the circle at `pathsUsed` maps each step to a step
  of `FifoTable` or a stutter.

**`PerceptronPredictor`.**

* `PerceptronTypeCorrect`, `ConfidenceIsBounded`: `PerceptronInv` adds
  `CellsStayClear`: `updateBranchHistory` leaves the array before it moves an
  outcome into a cell that a weight is for, so all inputs are false and each
  training moves the answer by exactly the number of inputs, towards the
  outcome. That is why one training is all that an answer can exceed the
  threshold by.
* `PerceptronsAreCounters`: for the same reason 62 weights are one saturating
  counter, and the table is `FifoTable` with such counters.

**`GehlHash`, `GehlLearning`.**

* `IndexRanges`, for strings of any length: the hash stays in its word
  by induction over the characters, the divisor is
  `2^(WORD_BITS - TABLE_BITS) - 1`, and so the index is at most `TABLE_SIZE`,
  which `gehl_hash_range` shows it can be.
* `LearningTypeCorrect`: with an index in its table or one past it, what is
  trained is a counter or the depth of table 0, and both stay within the
  counters' range.
* `SteadyBranchesAreLearned`, until an index leaves its table: `LearningInv`
  follows a streak of one branch. `Newest`: the history holds its address in the cells
  that the streak has reached. `CountersFell`: a branch not taken is always
  trained for, table `i` from the `2^i`-th time on. `SumRose`: a taken branch is
  trained for only while it is predicted wrong, so either the sum is positive
  or every counter has moved up as often as the streak is longer than the
  history. No table size enters the bound, since a steady streak trains one
  entry of each table.

**`DataCorrelated`.**

* `DataTypeCorrect`: a stray write leaves whatever it hits within its type.
  The proof failed until `DataAssumption` said that the range of a counter fits
  an int: the int that a stray write trains is clamped to that range.
* `ExcessIsStartUp`: `ExcessBounded` says nothing of the totals themselves, so
  `DataInv` adds (`Excess`) that they lie between 0 and `num_instr`, and (`Room`)
  that a stray write leaves a total at most `SATURATING_NUM` ahead of it.
* `DataRefinesMemory`, `DataRefinesScoreboard`: steps in which the index is not
  negative are steps of the abstract specifications. The second supposes
  `MaxInstr + SATURATING_NUM <= INT_MAX` rather than `MaxInstr <= INT_MAX`,
  since a total that was hit may be that much too large: `Room` is what the
  weaker hypothesis would contradict.

**`Tournament`, `TournamentLearning`.**

* `TournamentTypeCorrect`, `TournamentRefinesMemory`: as for the parts, wherever
  GEHL indices stray.
* `VoteIsLearned`, until a GEHL index leaves its table: `LearningInv` says for each round of the loop how full the
  histories are (`HistoriesFill`), which perceptron is selected
  (`EntrySelected`), and how far the correlated counter is on its way
  (`CorrelatedLearns`). The other two parts are trained only when the vote is
  wrong, so `OthersLearn` is a disjunction: one of them is right and stays
  right, or both are wrong, which makes the vote wrong, on which GEHL's
  counters move. The proof failed for an earlier `Patience`, the larger of the
  correlated part's rounds and GEHL's: the correlated part may fill its history
  last and turn round last, or GEHL may, so `Patience` adds the longer history
  to the longer way round. The run had not shown it, as in its instance the two
  are the same number.

**`CorrelatedThreads`**, for every finite set of threads and every interleaving
of their accesses. `ThreadsTypeCorrect`, `RacesOnlyLose` and
`HalfTheTableStaysDead` rest on `ThreadsInv`, which has two parts.

* `Typed` says what the registers of a thread hold at the point where it is about to
  use them: an index is one of the lower half of the table however stale the
  `bhr_current_index` it was loaded from, and the number that a thread is about to store
  into a counter is one that training may produce. It needs no relation
  between the threads, which is why races do not break it.
* `Counting` is about all of them: a total, and what any thread has loaded of it, is
  at most the number of instructions begun less those of the threads that have
  not yet reached its store. `NeverOvercounts` alone is not inductive: a
  thread that holds a large number could still store it plus one. The proof
  counts threads with the library's theorems on finite sets.

`AtomicUnlessRaced` and `TotalsSoundUnlessRaced` rest on `AloneInv`: until two
threads have met in the tool, at most one is in it, the globals are those
of the last moment the tool was empty (`settled`), changed exactly as far as that
thread's point in its analysis call or callback says (`GlobalsAt`,
`RegistersAt`, `Compiled`), and a thread outside the tool has nothing left over
(`Prepared`). An access then keeps `settled`, or is the last of its call and
makes `settled` take the one step of `CorrelatedPredictor`. This is the
justification, for all sizes, of taking an analysis call as one step in the
other modules.

**Only model-checked.** `PartsLearn`, which is liveness under fairness and out
of the prover's reach. The four runs that end in a violation have nothing to
prove; `PerceptronHistory` and `PathThreads` exist for two of them.

## Not modelled

* Intel's kit: its headers, libraries, documentation and the other tools and
  examples it ships with (`branchlog.cpp` is a copy of one), some 280 000
  lines. They are the platform the six tools were written on; none of them
  takes part in branch prediction, and the tools use the instrumentation
  interface only. When Pin calls back, and under which lock, is stated in
  `PinTool` and `CorrelatedThreads`. The modules therefore cover most of the
  author's code and a small share of the repository's lines.
* `2048.c`, a game the tools are run on.
* Threads in the other four tools. They share their globals without locks in
  the same way; what a race does to a string that two threads assign to, or to
  `weight`, would add undefined behaviour rather than behaviour. `itrace.cpp`
  is taken apart for its table only.
* Log lines, command-line parsing and file errors.

## Plan

1. Done: all six predictors, their learning bounds and abstract
   specifications; threads for `pinatrace.cpp` and the table of `itrace.cpp`.
   Every property of a passing run but `PartsLearn` is a theorem.
2. To come: that weights of the perceptron in the tournament have no bound, as
   a run; how fast the GEHL predictor learns after an overrun.
