---------------------- MODULE CorrelatedThreads_proofs ----------------------
(***************************************************************************)
(* What no race takes away from pinatrace.cpp, for every number of threads *)
(* and every size of its table: an invariant over the single accesses.     *)
(* Then what holds until threads race: the accesses of an analysis call or *)
(* callback amount to one step of CorrelatedPredictor.                     *)
(***************************************************************************)
EXTENDS CorrelatedThreads, FiniteSetTheorems, TLAPS

\* The facts about the operators, which PredictorLemmas states with PinTool
\* and the arithmetic of the GEHL predictors: any word will do here.
Facts == INSTANCE PredictorLemmas WITH
           num_instr <- shared.num_instr, num_branches <- shared.num_branches,
           num_correct <- shared.num_correct,
           WORD_BITS <- 3, TABLE_BITS <- 1

Most == SaturatingNum(BHT_BITS)
Entries == pow2(BHR_BITS)
CInt == -INT_MAX - 1 .. INT_MAX

\* The half of the table that is in use, and what its counters hold.
Lower == 0 .. pow2(BHR_BITS - 1) - 1
Levels == (-Most .. Most) \ {0}

Tables ==
  {b \in [0 .. Entries - 1 -> Levels] : \A i \in pow2(BHR_BITS - 1) .. Entries - 1 : b[i] = 1}

Globals ==
  [num_instr : Nat, num_branches : CInt, num_correct : CInt, bhr : Tables,
   bhr_current_index : Lower, branch_history : [Cells -> BOOLEAN], prediction : BOOLEAN]

Registers ==
  [ins : Instructions, taken : BOOLEAN, number : Int, index : Nat, cells : Seq(BOOLEAN)]

\* What the registers of a thread hold when it is about to use them.
RegistersOK(point, r) ==
  /\ point = "store num_instr" => r.number \in Nat
  /\ point \in {"store num_branches", "store num_correct"} => r.number \in CInt
  /\ point \in {"predict", "train", "store counter"} => r.index \in Lower
  /\ point = "store counter" => r.number \in Levels
  /\ point = "memmove" => Len(r.cells) = BHR_BITS - 1

Typed ==
  /\ instrumented \subseteq Instructions
  /\ running \in BOOLEAN
  /\ begun \in 0 .. MaxInstr
  /\ shared \in Globals
  /\ pc \in [Threads -> Points]
  /\ local \in [Threads -> Registers]
  /\ \A t \in Threads : RegistersOK(pc[t], local[t])

(***************************************************************************)
(* The instructions that are begun but not yet counted by a total are      *)
(* those of the threads before its store: a total, and what a thread has   *)
(* loaded of it, is at most the number of the others.                      *)
(***************************************************************************)

BeforeInstr == {"load num_instr", "store num_instr"}

BeforeBranch ==
  BeforeInstr \cup {"RecordBranch", "load num_branches", "store num_branches"}

BeforeCorrect ==
  BeforeBranch \cup {"updateBHRIndex", "setPrediction", "predict", "store prediction",
                     "compare", "load num_correct", "store num_correct"}

Pending(points) == Cardinality({t \in Threads : pc[t] \in points})

Counted(total, store, points) ==
  /\ Pending(points) <= begun
  /\ shared[total] + Pending(points) <= begun
  /\ \A t \in Threads : pc[t] = store => local[t].number + Pending(points) <= begun

Counting ==
  /\ Counted("num_instr", "store num_instr", BeforeInstr)
  /\ Counted("num_branches", "store num_branches", BeforeBranch)
  /\ Counted("num_correct", "store num_correct", BeforeCorrect)

\* The inductive invariant.
ThreadsInv == Typed /\ Counting

-----------------------------------------------------------------------------
(***************************************************************************)
(* The facts, for the operators by the names they have here.               *)
(***************************************************************************)

LEMMA FactNames ==
  /\ \A n : Facts!pow2(n) = pow2(n)
  /\ \A bits : Facts!SaturatingNum(bits) = SaturatingNum(bits)
  /\ \A h, n : Facts!PackBits(h, n) = PackBits(h, n)
  /\ \A c : Facts!Predict(c) = Predict(c)
  /\ \A c, taken, max : Facts!Train(c, taken, max) = Train(c, taken, max)
<1>1. \A n : Facts!pow2(n) = pow2(n) BY DEF Facts!pow2, pow2
<1>2. \A bits : Facts!SaturatingNum(bits) = SaturatingNum(bits)
  BY <1>1 DEF Facts!SaturatingNum, SaturatingNum
<1>3. \A f, n : Facts!SumBelow(f, n) = SumBelow(f, n) BY DEF Facts!SumBelow, SumBelow
<1>4. ASSUME NEW h, NEW n PROVE Facts!PackBits(h, n) = PackBits(h, n)
  BY <1>1, <1>3 DEF Facts!PackBits, PackBits
<1>5. \A c : Facts!Predict(c) = Predict(c) BY DEF Facts!Predict, Predict
<1>6. \A c, taken, max : Facts!Train(c, taken, max) = Train(c, taken, max)
  BY DEF Facts!Train, Train, Facts!Clamp, Clamp
<1> QED BY <1>1, <1>2, <1>4, <1>5, <1>6

LEMMA PowerHalf ==
  ASSUME NEW n \in Nat \ {0}
  PROVE  pow2(n - 1) \in Nat \ {0} /\ pow2(n) = 2 * pow2(n - 1)
BY Facts!PowerHalf, FactNames, ThreadsAssumption

LEMMA PackBitsRange ==
  ASSUME NEW n \in Nat, NEW h
  PROVE  PackBits(h, n) \in 0 .. pow2(n) - 1
BY Facts!PackBitsRange, FactNames, ThreadsAssumption

LEMMA SaturatingNumPositive ==
  ASSUME NEW bits \in Nat \ {0}
  PROVE  SaturatingNum(bits) \in Nat \ {0}
BY Facts!SaturatingNumPositive, FactNames, ThreadsAssumption

LEMMA TrainCounter ==
  ASSUME NEW max \in Nat \ {0}, NEW c \in -max .. max, c # 0, NEW taken \in BOOLEAN
  PROVE  Train(c, taken, max) \in -max .. max /\ Train(c, taken, max) # 0
BY Facts!TrainCounter, FactNames, ThreadsAssumption

-----------------------------------------------------------------------------
(***************************************************************************)
(* Sizes, and the operators that Tool has by another name.                 *)
(***************************************************************************)

LEMMA Sizes ==
  /\ Most \in Nat \ {0}
  /\ Entries \in Nat \ {0}
  /\ pow2(BHR_BITS - 1) \in Nat \ {0}
  /\ Entries = 2 * pow2(BHR_BITS - 1)
  /\ Lower \subseteq 0 .. Entries - 1
  /\ Lower \subseteq Nat
  /\ CInt \subseteq Int /\ 0 \in CInt
  /\ Levels \subseteq Int
<1>1. Most \in Nat \ {0} BY ThreadsAssumption, SaturatingNumPositive DEF Most
<1>2. pow2(BHR_BITS - 1) \in Nat \ {0} /\ Entries = 2 * pow2(BHR_BITS - 1)
  BY ThreadsAssumption, PowerHalf DEF Entries
<1> QED BY <1>1, <1>2, ThreadsAssumption DEF Lower, CInt, Levels

LEMMA ToolNames ==
  /\ Tool!SATURATING_NUM = Most
  /\ Tool!BHR_ENTRIES = Entries
  /\ Tool!CInt = CInt
  /\ \A n : Tool!pow2(n) = pow2(n)
<1>1. \A n : Tool!pow2(n) = pow2(n) BY DEF Tool!pow2, pow2
<1>2. Tool!SATURATING_NUM = Most
  BY <1>1 DEF Tool!SATURATING_NUM, Tool!SaturatingNum, Most, SaturatingNum
<1>3. Tool!BHR_ENTRIES = Entries BY <1>1 DEF Tool!BHR_ENTRIES, Entries
<1>4. Tool!CInt = CInt BY DEF Tool!CInt, CInt
<1> QED BY <1>1, <1>2, <1>3, <1>4

LEMMA Incremented ==
  ASSUME NEW n \in CInt
  PROVE  Tool!Increment(n) \in CInt /\ Tool!Increment(n) <= n + 1
BY ThreadsAssumption DEF Tool!Increment, CInt

-----------------------------------------------------------------------------
(***************************************************************************)
(* Pending: what the move of one thread does to it.                        *)
(***************************************************************************)

LEMMA PendingForward ==
  ASSUME Typed, NEW t \in Threads, NEW from, NEW to, Goto(t, from, to),
         NEW points, to \in points => from \in points
  PROVE  Pending(points) \in Nat /\ Pending(points)' \in Nat
         /\ Pending(points)' <= Pending(points)
<1> DEFINE S == {u \in Threads : pc[u] \in points}
<1>1. S \in SUBSET Threads /\ S' \in SUBSET S
  BY DEF Goto, Typed
<1>2. IsFiniteSet(S) /\ IsFiniteSet(S') /\ Cardinality(S') <= Cardinality(S)
  <2> HIDE DEF S
  <2>1. IsFiniteSet(S) BY <1>1, FS_Subset, ThreadsAssumption
  <2> QED BY <1>1, <2>1, FS_Subset
<1>3. Cardinality(S) \in Nat /\ Cardinality(S') \in Nat
  <2> HIDE DEF S
  <2> QED BY <1>2, FS_CardinalityType
<1> QED BY <1>2, <1>3 DEF Pending

LEMMA PendingLeave ==
  ASSUME Typed, NEW t \in Threads, NEW from, NEW to, Goto(t, from, to),
         NEW points, from \in points, to \notin points
  PROVE  Pending(points) \in Nat /\ Pending(points)' = Pending(points) - 1
<1> DEFINE S == {u \in Threads : pc[u] \in points}
<1>1. S \in SUBSET Threads /\ S' = S \ {t} /\ t \in S
  BY DEF Goto, Typed
<1>2. Cardinality(S) \in Nat /\ Cardinality(S \ {t}) = Cardinality(S) - 1
  <2> HIDE DEF S
  <2>1. IsFiniteSet(S) BY <1>1, FS_Subset, ThreadsAssumption
  <2> QED BY <1>1, <2>1, FS_RemoveElement, FS_CardinalityType
<1> QED BY <1>1, <1>2 DEF Pending

LEMMA PendingEnter ==
  ASSUME Typed, NEW t \in Threads, NEW from, NEW to, Goto(t, from, to), NEW points
  PROVE  Pending(points) \in Nat /\ Pending(points)' \in Nat
         /\ Pending(points)' <= Pending(points) + 1
<1> DEFINE S == {u \in Threads : pc[u] \in points}
<1>1. S \in SUBSET Threads /\ S' \in SUBSET (S \cup {t})
  BY DEF Goto, Typed
<1>2. Cardinality(S) \in Nat /\ Cardinality(S') \in Nat
      /\ Cardinality(S') <= Cardinality(S) + 1
  <2> HIDE DEF S
  <2>1. IsFiniteSet(S) BY <1>1, FS_Subset, ThreadsAssumption
  <2>2. IsFiniteSet(S \cup {t}) /\ Cardinality(S) \in Nat
        /\ Cardinality(S \cup {t}) \in {Cardinality(S), Cardinality(S) + 1}
    BY <2>1, FS_AddElement, FS_CardinalityType
  <2>3. IsFiniteSet(S') /\ Cardinality(S') <= Cardinality(S \cup {t})
    BY <1>1, <2>2, FS_Subset
  <2>4. Cardinality(S') \in Nat BY <2>3, FS_CardinalityType
  <2> QED BY <2>2, <2>3, <2>4
<1> QED BY <1>2 DEF Pending
-----------------------------------------------------------------------------
(***************************************************************************)
(* Counted: what keeps it.                                                 *)
(***************************************************************************)

LEMMA TotalsAreInts ==
  ASSUME Typed, NEW total \in {"num_instr", "num_branches", "num_correct"}
  PROVE  shared[total] \in Int
<1>1. /\ shared.num_instr \in Int
      /\ shared.num_branches \in CInt /\ shared.num_correct \in CInt
  BY DEF Typed, Globals
<1>2. CInt \subseteq Int BY Sizes
<1> QED BY <1>1, <1>2

\* The thread does not pass the store, and has the register it goes there
\* with from the total.
LEMMA CountedKept ==
  ASSUME Typed, NEW t \in Threads, NEW from, NEW to, Goto(t, from, to), begun' = begun,
         NEW r \in Registers, local' = [local EXCEPT ![t] = r],
         NEW total \in {"num_instr", "num_branches", "num_correct"}, NEW store, NEW points,
         to \in points => from \in points,
         shared'[total] \in {0, shared[total]},
         to = store => r.number = shared[total],
         Counted(total, store, points)
  PROVE  Counted(total, store, points)'
<1>1. /\ Pending(points) \in Nat /\ Pending(points)' \in Nat
      /\ Pending(points)' <= Pending(points)
  BY PendingForward
<1>2. begun \in Nat /\ shared[total] \in Int
  BY TotalsAreInts, ThreadsAssumption DEF Typed
<1>3. Pending(points)' <= begun' BY <1>1, <1>2 DEF Counted
<1>4. shared'[total] + Pending(points)' <= begun' BY <1>1, <1>2 DEF Counted
<1>5. ASSUME NEW u \in Threads, pc'[u] = store
      PROVE  local'[u].number + Pending(points)' <= begun'
  <2>1. CASE u = t
    <3>1. pc'[u] = to /\ local'[u] = r BY <2>1 DEF Goto, Typed
    <3> QED BY <1>1, <1>2, <1>5, <3>1 DEF Counted
  <2>2. CASE u # t
    <3>1. pc'[u] = pc[u] /\ local'[u] = local[u] BY <2>2 DEF Goto, Typed
    <3>2. local[u].number \in Int BY DEF Typed, Registers
    <3> QED BY <1>1, <1>2, <1>5, <3>1, <3>2 DEF Counted
  <2> QED BY <2>1, <2>2
<1> QED BY <1>3, <1>4, <1>5 DEF Counted

\* The thread passes the store.
LEMMA CountedStore ==
  ASSUME Typed, NEW t \in Threads, NEW to, NEW store, Goto(t, store, to), begun' = begun,
         NEW r \in Registers, local' = [local EXCEPT ![t] = r],
         NEW total, NEW points, store \in points, to \notin points,
         shared'[total] \in Int, shared'[total] <= local[t].number + 1,
         Counted(total, store, points)
  PROVE  Counted(total, store, points)'
<1>1. Pending(points) \in Nat /\ Pending(points)' = Pending(points) - 1
  BY PendingLeave
<1>2. begun \in Nat /\ local[t].number \in Int /\ pc[t] = store
  BY DEF Typed, Registers, Goto
<1>3. Pending(points)' <= begun' BY <1>1, <1>2 DEF Counted
<1>4. shared'[total] + Pending(points)' <= begun' BY <1>1, <1>2 DEF Counted
<1>5. ASSUME NEW u \in Threads, pc'[u] = store
      PROVE  local'[u].number + Pending(points)' <= begun'
  <2>1. u # t BY <1>5 DEF Goto, Typed
  <2>2. pc'[u] = pc[u] /\ local'[u] = local[u] BY <2>1 DEF Goto, Typed
  <2>3. local[u].number \in Int BY DEF Typed, Registers
  <2> QED BY <1>1, <1>2, <1>5, <2>2, <2>3 DEF Counted
<1> QED BY <1>3, <1>4, <1>5 DEF Counted

\* The thread begins an instruction.
LEMMA CountedBegin ==
  ASSUME Typed, NEW t \in Threads, NEW from, NEW to, Goto(t, from, to), begun' = begun + 1,
         NEW r \in Registers, local' = [local EXCEPT ![t] = r], UNCHANGED shared,
         NEW total \in {"num_instr", "num_branches", "num_correct"}, NEW store, NEW points,
         to # store, Counted(total, store, points)
  PROVE  Counted(total, store, points)'
<1>1. /\ Pending(points) \in Nat /\ Pending(points)' \in Nat
      /\ Pending(points)' <= Pending(points) + 1
  BY PendingEnter
<1>2. begun \in Nat /\ shared[total] \in Int
  BY TotalsAreInts, ThreadsAssumption DEF Typed
<1>3. Pending(points)' <= begun' BY <1>1, <1>2 DEF Counted
<1>4. shared'[total] + Pending(points)' <= begun' BY <1>1, <1>2 DEF Counted
<1>5. ASSUME NEW u \in Threads, pc'[u] = store
      PROVE  local'[u].number + Pending(points)' <= begun'
  <2>1. u # t BY <1>5 DEF Goto, Typed
  <2>2. pc'[u] = pc[u] /\ local'[u] = local[u] BY <2>1 DEF Goto, Typed
  <2>3. local[u].number \in Int BY DEF Typed, Registers
  <2> QED BY <1>1, <1>2, <1>5, <2>2, <2>3 DEF Counted
<1> QED BY <1>3, <1>4, <1>5 DEF Counted

-----------------------------------------------------------------------------
(***************************************************************************)
(* The steps of one thread.                                                *)
(***************************************************************************)

\* A thread that goes on stays before a store or has passed it already.
Forward(from, to) ==
  \A points \in {BeforeInstr, BeforeBranch, BeforeCorrect} : to \in points => from \in points

LEMMA MoveTyped ==
  ASSUME Typed, NEW t \in Threads, NEW from, NEW to \in Points, Goto(t, from, to),
         NEW r \in Registers, local' = [local EXCEPT ![t] = r], RegistersOK(to, r),
         shared' \in Globals, begun' \in 0 .. MaxInstr,
         instrumented' \subseteq Instructions, UNCHANGED running
  PROVE  Typed'
<1>1. pc' \in [Threads -> Points] /\ local' \in [Threads -> Registers]
  BY DEF Typed, Goto
<1>2. ASSUME NEW u \in Threads PROVE RegistersOK(pc'[u], local'[u])
  <2>1. CASE u = t
    <3>1. pc'[u] = to /\ local'[u] = r BY <2>1 DEF Typed, Goto
    <3> QED BY <3>1
  <2>2. CASE u # t
    <3>1. pc'[u] = pc[u] /\ local'[u] = local[u] BY <2>2 DEF Typed, Goto
    <3> QED BY <3>1 DEF Typed
  <2> QED BY <2>1, <2>2
<1> QED BY <1>1, <1>2 DEF Typed

\* A step that leaves the totals alone or clears them.
LEMMA Move ==
  ASSUME ThreadsInv, NEW t \in Threads, NEW from, NEW to \in Points, Goto(t, from, to),
         NEW r \in Registers, local' = [local EXCEPT ![t] = r], RegistersOK(to, r),
         shared' \in Globals,
         \A total \in {"num_instr", "num_branches", "num_correct"} :
           shared'[total] \in {0, shared[total]},
         Forward(from, to),
         to = "store num_instr" => r.number = shared["num_instr"],
         to = "store num_branches" => r.number = shared["num_branches"],
         to = "store num_correct" => r.number = shared["num_correct"],
         instrumented' \subseteq Instructions, UNCHANGED <<running, begun>>
  PROVE  ThreadsInv'
<1>1. Typed' BY MoveTyped DEF ThreadsInv, Typed
<1>2. /\ to \in BeforeInstr => from \in BeforeInstr
      /\ to \in BeforeBranch => from \in BeforeBranch
      /\ to \in BeforeCorrect => from \in BeforeCorrect
  BY DEF Forward
<1>3. Typed /\ begun' = begun BY DEF ThreadsInv
<1>4. Counted("num_instr", "store num_instr", BeforeInstr)'
  BY <1>2, <1>3, CountedKept DEF ThreadsInv, Counting
<1>5. Counted("num_branches", "store num_branches", BeforeBranch)'
  BY <1>2, <1>3, CountedKept DEF ThreadsInv, Counting
<1>6. Counted("num_correct", "store num_correct", BeforeCorrect)'
  BY <1>2, <1>3, CountedKept DEF ThreadsInv, Counting
<1> QED BY <1>1, <1>4, <1>5, <1>6 DEF ThreadsInv, Counting

Stores == {"store num_instr", "store num_branches", "store num_correct"}

LEMMA IdleRegisters == Idle \in Registers
<1>1. (CHOOSE i \in Instructions : TRUE) \in Instructions BY ThreadsAssumption
<1>2. << >> \in Seq(BOOLEAN) OBVIOUS
<1> QED BY <1>1, <1>2 DEF Idle, Registers

LEMMA RegisterTypes ==
  ASSUME NEW r \in Registers
  PROVE  /\ \A b \in BOOLEAN : [r EXCEPT !["taken"] = b] \in Registers
         /\ \A n \in Int : /\ [r EXCEPT !["number"] = n] \in Registers
                          /\ [r EXCEPT !["number"] = n].number = n
         /\ \A n \in Nat : /\ [r EXCEPT !["index"] = n] \in Registers
                          /\ [r EXCEPT !["index"] = n].index = n
         /\ \A c \in Seq(BOOLEAN) : /\ [r EXCEPT !["cells"] = c] \in Registers
                                   /\ [r EXCEPT !["cells"] = c].cells = c
<1> USE DEF Registers
<1>1. \A b \in BOOLEAN : [r EXCEPT !["taken"] = b] \in Registers OBVIOUS
<1>2. \A n \in Int : [r EXCEPT !["number"] = n] \in Registers OBVIOUS
<1>3. \A n \in Nat : [r EXCEPT !["index"] = n] \in Registers OBVIOUS
<1>4. \A c \in Seq(BOOLEAN) : [r EXCEPT !["cells"] = c] \in Registers OBVIOUS
<1>5. /\ \A n : [r EXCEPT !["number"] = n].number = n
      /\ \A n : [r EXCEPT !["index"] = n].index = n
      /\ \A c : [r EXCEPT !["cells"] = c].cells = c
  OBVIOUS
<1> QED BY <1>1, <1>2, <1>3, <1>4, <1>5

LEMMA LoadMoves ==
  ASSUME ThreadsInv, NEW t \in Threads, NEW from, NEW to \in Points,
         NEW register, NEW value, Load(t, from, to, register, value),
         [local[t] EXCEPT ![register] = value] \in Registers,
         RegistersOK(to, [local[t] EXCEPT ![register] = value]),
         Forward(from, to),
         to = "store num_instr" => register = "number" /\ value = shared["num_instr"],
         to = "store num_branches" => register = "number" /\ value = shared["num_branches"],
         to = "store num_correct" => register = "number" /\ value = shared["num_correct"],
         instrumented' \subseteq Instructions, UNCHANGED <<running, begun>>
  PROVE  ThreadsInv'
<1> DEFINE r == [local[t] EXCEPT ![register] = value]
<1>1. /\ r \in Registers /\ RegistersOK(to, r)
      /\ Goto(t, from, to) /\ local' = [local EXCEPT ![t] = r] /\ shared' = shared
  BY DEF Load, ThreadsInv, Typed
<1>2. register = "number" => r.number = value
  BY DEF ThreadsInv, Typed, Registers
<1>3. shared' \in Globals BY <1>1 DEF ThreadsInv, Typed
<1> HIDE DEF r
<1> QED BY <1>1, <1>2, <1>3, Move

LEMMA StoreMoves ==
  ASSUME ThreadsInv, NEW t \in Threads, NEW from, NEW to \in Points,
         NEW global, NEW value, Store(t, from, to, global, value),
         shared' \in Globals,
         global \notin {"num_instr", "num_branches", "num_correct"} \/ value = 0,
         to = "application" \/ RegistersOK(to, local[t]),
         Forward(from, to), to \notin Stores,
         instrumented' \subseteq Instructions, UNCHANGED <<running, begun>>
  PROVE  ThreadsInv'
<1> DEFINE r == IF to = "application" THEN Idle ELSE local[t]
<1>1. r \in Registers BY IdleRegisters DEF ThreadsInv, Typed
<1>2. Goto(t, from, to) /\ local' = [local EXCEPT ![t] = r]
  BY DEF Store, ThreadsInv, Typed
<1>3. RegistersOK(to, r) BY DEF RegistersOK
<1>4. shared \in Globals /\ shared' = [shared EXCEPT ![global] = value]
  BY DEF Store, ThreadsInv, Typed
<1>5. ASSUME NEW total \in {"num_instr", "num_branches", "num_correct"}
      PROVE  shared'[total] \in {0, shared[total]}
  BY <1>4 DEF Globals
<1> HIDE DEF r
<1> QED BY <1>1, <1>2, <1>3, <1>5, Move DEF Stores

\* A thread that has loaded a total stores it one higher.
LEMMA CountMoves ==
  ASSUME ThreadsInv, NEW t \in Threads, NEW total, NEW from, NEW to \in Points, NEW n \in Int,
         \/ total = "num_instr" /\ from = "store num_instr" /\ to \notin BeforeInstr
         \/ total = "num_branches" /\ from = "store num_branches" /\ to \notin BeforeBranch
         \/ total = "num_correct" /\ from = "store num_correct" /\ to \notin BeforeCorrect,
         Store(t, from, to, total, n), n <= local[t].number + 1,
         shared' \in Globals, to \notin Stores,
         to = "application" \/ RegistersOK(to, local[t]),
         UNCHANGED <<instrumented, running, begun>>
  PROVE  ThreadsInv'
<1> DEFINE r == IF to = "application" THEN Idle ELSE local[t]
<1>1. Typed /\ Counting /\ begun' = begun /\ shared \in Globals
  BY DEF ThreadsInv, Typed
<1>2. r \in Registers BY <1>1, IdleRegisters DEF Typed
<1>3. /\ Goto(t, from, to) /\ local' = [local EXCEPT ![t] = r]
      /\ shared' = [shared EXCEPT ![total] = n]
  BY <1>1 DEF Store, Typed
<1>4. RegistersOK(to, r) BY DEF RegistersOK
<1> HIDE DEF r
<1>5. Typed' BY <1>1, <1>2, <1>3, <1>4, MoveTyped DEF Typed
<1>6. shared'[total] = n
  BY <1>1, <1>3 DEF Globals
<1>7. ASSUME NEW other \in {"num_instr", "num_branches", "num_correct"}, other # total
      PROVE  shared'[other] = shared[other]
  BY <1>1, <1>3, <1>7 DEF Globals
<1>8. /\ to \notin BeforeInstr
      /\ total # "num_branches" => (to \in BeforeBranch => from \in BeforeBranch)
      /\ total # "num_correct" => (to \in BeforeCorrect => from \in BeforeCorrect)
      /\ to # "store num_instr" /\ to # "store num_branches" /\ to # "store num_correct"
  BY DEF BeforeInstr, BeforeBranch, BeforeCorrect, Stores
<1>9. Counted("num_instr", "store num_instr", BeforeInstr)'
  <2>1. CASE total = "num_instr"
    <3>1. from = "store num_instr" /\ from \in BeforeInstr BY <2>1 DEF BeforeInstr
    <3> QED BY <1>1, <1>2, <1>3, <1>6, <1>8, <2>1, <3>1, CountedStore DEF Counting
  <2>2. CASE total # "num_instr"
    BY <1>1, <1>2, <1>3, <1>7, <1>8, <2>2, CountedKept DEF Counting
  <2> QED BY <2>1, <2>2
<1>10. Counted("num_branches", "store num_branches", BeforeBranch)'
  <2>1. CASE total = "num_branches"
    <3>1. /\ from = "store num_branches" /\ from \in BeforeBranch
          /\ to \notin BeforeBranch
      BY <2>1 DEF BeforeBranch
    <3> QED BY <1>1, <1>2, <1>3, <1>6, <1>8, <2>1, <3>1, CountedStore DEF Counting
  <2>2. CASE total # "num_branches"
    BY <1>1, <1>2, <1>3, <1>7, <1>8, <2>2, CountedKept DEF Counting
  <2> QED BY <2>1, <2>2
<1>11. Counted("num_correct", "store num_correct", BeforeCorrect)'
  <2>1. CASE total = "num_correct"
    <3>1. /\ from = "store num_correct" /\ from \in BeforeCorrect
          /\ to \notin BeforeCorrect
      BY <2>1 DEF BeforeCorrect
    <3> QED BY <1>1, <1>2, <1>3, <1>6, <1>8, <2>1, <3>1, CountedStore DEF Counting
  <2>2. CASE total # "num_correct"
    BY <1>1, <1>2, <1>3, <1>7, <1>8, <2>2, CountedKept DEF Counting
  <2> QED BY <2>1, <2>2
<1> QED BY <1>5, <1>9, <1>10, <1>11 DEF ThreadsInv, Counting

\* The ways of a thread that do not pass the store of a total.
LEMMA Ways ==
  /\ Forward("RecordBranch", "load num_branches")
  /\ Forward("load num_instr", "store num_instr")
  /\ Forward("load num_branches", "store num_branches")
  /\ \A from, to \in {"updateBHRIndex", "setPrediction", "predict", "store prediction",
                     "compare", "load num_correct", "store num_correct"} : Forward(from, to)
  /\ \A from : \A to \in {"updateBHT", "train", "store counter", "updateBranchHistory",
                         "memmove", "moved", "application", "Instruction",
                         "clear num_correct", "clear num_branches"} : Forward(from, to)
BY DEF Forward, BeforeInstr, BeforeBranch, BeforeCorrect

\* Where the registers may hold anything.
LEMMA FreeRegisters ==
  ASSUME NEW r,
         NEW point \in Points \ {"store num_instr", "store num_branches", "store num_correct",
                                "predict", "train", "store counter", "memmove"}
  PROVE  RegistersOK(point, r)
BY DEF RegistersOK

LEMMA InPoints ==
  /\ {"application", "load num_instr", "store num_instr", "RecordBranch",
      "load num_branches", "store num_branches", "updateBHRIndex", "setPrediction",
      "predict", "store prediction", "compare", "load num_correct",
      "store num_correct", "updateBHT", "train", "store counter",
      "updateBranchHistory", "memmove", "moved"} \subseteq Points
  /\ {"Instruction", "clear num_correct", "clear num_branches"} \subseteq Points
BY DEF Points, Compiling

LEMMA Parts ==
  ASSUME ThreadsInv, NEW t \in Threads
  PROVE  /\ local[t] \in Registers /\ shared \in Globals
         /\ RegistersOK(pc[t], local[t])
         /\ UNCHANGED instrumented => instrumented' \subseteq Instructions
BY DEF ThreadsInv, Typed

LEMMA CounterRead ==
  ASSUME shared \in Globals, NEW i \in Lower
  PROVE  shared.bhr[i] \in Levels
<1>1. shared.bhr \in [0 .. Entries - 1 -> Levels] BY DEF Globals, Tables
<1> QED BY <1>1, Sizes

LEMMA CounterWritten ==
  ASSUME NEW b \in Tables, NEW i \in Lower, NEW c \in Levels
  PROVE  [b EXCEPT ![i] = c] \in Tables
<1>1. \A j \in pow2(BHR_BITS - 1) .. Entries - 1 : j # i
  BY Sizes DEF Lower
<1>2. [b EXCEPT ![i] = c] \in [0 .. Entries - 1 -> Levels] BY DEF Tables
<1> QED BY <1>1, <1>2, Sizes DEF Tables

-----------------------------------------------------------------------------

LEMMA docountInv ==
  ASSUME ThreadsInv, NEW t \in Threads, docount(t), UNCHANGED <<instrumented, running, begun>>
  PROVE  ThreadsInv'
<1>1. CASE Load(t, "load num_instr", "store num_instr", "number", shared.num_instr)
  <2> DEFINE r == [local[t] EXCEPT !["number"] = shared.num_instr]
  <2>1. r \in Registers /\ r.number \in Nat
    <3>1. shared.num_instr \in Nat /\ local[t] \in Registers
      BY DEF ThreadsInv, Typed, Globals
    <3> QED BY <3>1, RegisterTypes
  <2>2. RegistersOK("store num_instr", r) BY <2>1 DEF RegistersOK
  <2>3. Forward("load num_instr", "store num_instr")
    BY DEF Forward, BeforeInstr, BeforeBranch, BeforeCorrect
  <2>4. instrumented' \subseteq Instructions /\ "store num_instr" \in Points
    BY DEF ThreadsInv, Typed, Points
  <2> HIDE DEF r
  <2> QED BY <1>1, <2>1, <2>2, <2>3, <2>4, LoadMoves DEF r
<1>2. CASE Store(t, "store num_instr",
                 IF local[t].ins \in Branches THEN "RecordBranch" ELSE "application",
                 "num_instr", local[t].number + 1)
  <2> DEFINE to == IF local[t].ins \in Branches THEN "RecordBranch" ELSE "application"
             n == local[t].number
  <2>1. Goto(t, "store num_instr", to) /\ shared' = [shared EXCEPT !["num_instr"] = n + 1]
    BY <1>2 DEF Store
  <2>2. n \in Nat BY <2>1 DEF Goto, ThreadsInv, Typed, RegistersOK
  <2>3. to \in {"RecordBranch", "application"} OBVIOUS
  <2>4. shared \in Globals BY DEF ThreadsInv, Typed
  <2> HIDE DEF n, to
  <2>5. shared' \in Globals
    <3>1. n + 1 \in Nat BY <2>2
    <3> QED BY <2>1, <2>4, <3>1 DEF Globals
  <2>6. /\ to \in Points /\ to \notin Stores /\ to \notin BeforeInstr
        /\ RegistersOK(to, local[t])
    BY <2>3 DEF Points, Stores, BeforeInstr, RegistersOK
  <2>7. Store(t, "store num_instr", to, "num_instr", n + 1) BY <1>2 DEF n, to
  <2>8. n + 1 \in Int /\ n + 1 <= local[t].number + 1 BY <2>2 DEF n
  <2> QED BY <2>5, <2>6, <2>7, <2>8, CountMoves DEF Stores
<1> QED BY <1>1, <1>2 DEF docount


LEMMA CountInv ==
  ASSUME ThreadsInv, NEW t \in Threads, Count(t), UNCHANGED <<instrumented, running, begun>>
  PROVE  ThreadsInv'
<1>1. local[t] \in Registers /\ shared \in Globals /\ instrumented' \subseteq Instructions
  BY Parts
<1>2. ASSUME NEW taken \in BOOLEAN,
             Load(t, "RecordBranch", "load num_branches", "taken", taken)
      PROVE  ThreadsInv'
  <2>1. [local[t] EXCEPT !["taken"] = taken] \in Registers BY <1>1, RegisterTypes
  <2>2. /\ "load num_branches" \in Points /\ Forward("RecordBranch", "load num_branches")
        /\ RegistersOK("load num_branches", [local[t] EXCEPT !["taken"] = taken])
    BY InPoints, Ways, FreeRegisters
  <2> QED BY <1>1, <1>2, <2>1, <2>2, LoadMoves
<1>3. CASE Load(t, "load num_branches", "store num_branches", "number", shared.num_branches)
  <2> DEFINE r == [local[t] EXCEPT !["number"] = shared.num_branches]
  <2>1. r \in Registers /\ r.number \in CInt
    <3>1. shared.num_branches \in CInt /\ CInt \subseteq Int
      BY <1>1, Sizes DEF Globals
    <3> QED BY <1>1, <3>1, RegisterTypes
  <2>2. /\ "store num_branches" \in Points /\ Forward("load num_branches", "store num_branches")
        /\ RegistersOK("store num_branches", r)
    BY <2>1, InPoints, Ways DEF RegistersOK
  <2> HIDE DEF r
  <2> QED BY <1>1, <1>3, <2>1, <2>2, LoadMoves DEF r
<1>4. CASE Store(t, "store num_branches", "updateBHRIndex", "num_branches",
                 Tool!Increment(local[t].number))
  <2> DEFINE n == Tool!Increment(local[t].number)
  <2>1. /\ Goto(t, "store num_branches", "updateBHRIndex")
        /\ shared' = [shared EXCEPT !["num_branches"] = n]
    BY <1>4 DEF Store
  <2>2. n \in CInt /\ n <= local[t].number + 1
    <3>1. local[t].number \in CInt BY <2>1, Parts DEF Goto, RegistersOK
    <3> QED BY <3>1, Incremented
  <2> HIDE DEF n
  <2>3. shared' \in Globals BY <1>1, <2>1, <2>2 DEF Globals
  <2>4. n \in Int BY <2>2, Sizes
  <2>5. /\ "updateBHRIndex" \in Points \ Stores
        /\ RegistersOK("updateBHRIndex", local[t])
        /\ "updateBHRIndex" \notin BeforeBranch
    BY InPoints, FreeRegisters DEF BeforeInstr, BeforeBranch, Stores
  <2>6. Store(t, "store num_branches", "updateBHRIndex", "num_branches", n)
    BY <1>4 DEF n
  <2> QED BY <2>2, <2>3, <2>4, <2>5, <2>6, CountMoves
<1> QED BY <1>2, <1>3, <1>4 DEF Count

LEMMA updateBHRIndexInv ==
  ASSUME ThreadsInv, NEW t \in Threads, updateBHRIndex(t),
         UNCHANGED <<instrumented, running, begun>>
  PROVE  ThreadsInv'
<1> DEFINE read == Len(local[t].cells)
           index == PackBits([i \in 0 .. read - 1 |-> local[t].cells[i + 1]], read)
<1>1. local[t] \in Registers /\ shared \in Globals /\ instrumented' \subseteq Instructions
  BY Parts
<1>2. local[t].cells \in Seq(BOOLEAN) /\ read \in Nat
  BY <1>1 DEF Registers
<1>3. ASSUME read < BHR_BITS - 1,
             Load(t, "updateBHRIndex", "updateBHRIndex", "cells",
                  Append(local[t].cells, shared.branch_history[read]))
      PROVE  ThreadsInv'
  <2> DEFINE c == Append(local[t].cells, shared.branch_history[read])
  <2>1. c \in Seq(BOOLEAN)
    <3>1. read \in Cells BY <1>2, <1>3, ThreadsAssumption DEF Cells
    <3>2. shared.branch_history[read] \in BOOLEAN BY <1>1, <3>1 DEF Globals
    <3> QED BY <1>2, <3>2
  <2>2. Load(t, "updateBHRIndex", "updateBHRIndex", "cells", c) BY <1>3
  <2> HIDE DEF c
  <2>3. [local[t] EXCEPT !["cells"] = c] \in Registers BY <1>1, <2>1, RegisterTypes
  <2>4. /\ "updateBHRIndex" \in Points /\ Forward("updateBHRIndex", "updateBHRIndex")
        /\ RegistersOK("updateBHRIndex", [local[t] EXCEPT !["cells"] = c])
    BY InPoints, Ways, FreeRegisters
  <2> QED BY <1>1, <2>2, <2>3, <2>4, LoadMoves
<1>4. ASSUME read = BHR_BITS - 1,
             Store(t, "updateBHRIndex", "setPrediction", "bhr_current_index", index)
      PROVE  ThreadsInv'
  <2>1. index \in Lower BY <1>2, <1>4, PackBitsRange DEF Lower
  <2>2. Store(t, "updateBHRIndex", "setPrediction", "bhr_current_index", index) BY <1>4
  <2> HIDE DEF index
  <2>3. shared' = [shared EXCEPT !["bhr_current_index"] = index] BY <2>2 DEF Store
  <2>4. shared' \in Globals BY <1>1, <2>1, <2>3 DEF Globals
  <2>5. /\ "setPrediction" \in Points \ Stores /\ Forward("updateBHRIndex", "setPrediction")
        /\ RegistersOK("setPrediction", local[t])
    BY InPoints, Ways, FreeRegisters DEF Stores
  <2> QED BY <1>1, <2>2, <2>4, <2>5, StoreMoves
<1> QED BY <1>3, <1>4 DEF updateBHRIndex

LEMMA setPredictionInv ==
  ASSUME ThreadsInv, NEW t \in Threads, setPrediction(t),
         UNCHANGED <<instrumented, running, begun>>
  PROVE  ThreadsInv'
<1>1. local[t] \in Registers /\ shared \in Globals /\ instrumented' \subseteq Instructions
  BY Parts
<1>2. CASE Load(t, "setPrediction", "predict", "index", shared.bhr_current_index)
  <2> DEFINE r == [local[t] EXCEPT !["index"] = shared.bhr_current_index]
  <2>1. r \in Registers /\ r.index \in Lower
    <3>1. shared.bhr_current_index \in Lower /\ Lower \subseteq Nat
      BY <1>1, Sizes DEF Globals
    <3> QED BY <1>1, <3>1, RegisterTypes
  <2>2. "predict" \in Points /\ Forward("setPrediction", "predict") /\ RegistersOK("predict", r)
    BY <2>1, InPoints, Ways DEF RegistersOK
  <2> HIDE DEF r
  <2> QED BY <1>1, <1>2, <2>1, <2>2, LoadMoves DEF r
<1>3. CASE LoadCounter(t, "predict", "store prediction")
  <2> DEFINE c == shared.bhr[local[t].index]
             r == [local[t] EXCEPT !["number"] = c]
  <2>1. Load(t, "predict", "store prediction", "number", c) BY <1>3 DEF LoadCounter
  <2>2. c \in Levels
    BY <1>1, <2>1, Parts, CounterRead DEF Load, Goto, RegistersOK
  <2> HIDE DEF c
  <2>3. r \in Registers BY <1>1, <2>2, Sizes, RegisterTypes
  <2>4. /\ "store prediction" \in Points /\ Forward("predict", "store prediction")
        /\ RegistersOK("store prediction", r)
    BY InPoints, Ways, FreeRegisters
  <2> HIDE DEF r
  <2> QED BY <1>1, <2>1, <2>3, <2>4, LoadMoves DEF r
<1>4. CASE Store(t, "store prediction", "compare", "prediction", Predict(local[t].number))
  <2> DEFINE p == Predict(local[t].number)
  <2>1. p \in BOOLEAN BY DEF Predict
  <2>2. Store(t, "store prediction", "compare", "prediction", p) BY <1>4
  <2> HIDE DEF p
  <2>3. shared' = [shared EXCEPT !["prediction"] = p] BY <2>2 DEF Store
  <2>4. shared' \in Globals BY <1>1, <2>1, <2>3 DEF Globals
  <2>5. /\ "compare" \in Points \ Stores /\ Forward("store prediction", "compare")
        /\ RegistersOK("compare", local[t])
    BY InPoints, Ways, FreeRegisters DEF Stores
  <2> QED BY <1>1, <2>2, <2>4, <2>5, StoreMoves
<1> QED BY <1>2, <1>3, <1>4 DEF setPrediction

LEMMA ScoreInv ==
  ASSUME ThreadsInv, NEW t \in Threads, Score(t), UNCHANGED <<instrumented, running, begun>>
  PROVE  ThreadsInv'
<1>1. local[t] \in Registers /\ shared \in Globals /\ instrumented' \subseteq Instructions
  BY Parts
<1>2. CASE Load(t, "compare",
                IF shared.prediction = local[t].taken THEN "load num_correct" ELSE "updateBHT",
                "cells", << >>)
  <2> DEFINE to == IF shared.prediction = local[t].taken THEN "load num_correct" ELSE "updateBHT"
             r == [local[t] EXCEPT !["cells"] = << >>]
  <2>1. to \in {"load num_correct", "updateBHT"} OBVIOUS
  <2>2. Load(t, "compare", to, "cells", << >>) BY <1>2
  <2> HIDE DEF to
  <2>3. r \in Registers
    <3>1. << >> \in Seq(BOOLEAN) OBVIOUS
    <3> QED BY <1>1, <3>1, RegisterTypes
  <2>4. to \in Points /\ Forward("compare", to) /\ RegistersOK(to, r)
    BY <2>1, InPoints, Ways, FreeRegisters
  <2> QED BY <1>1, <2>1, <2>2, <2>3, <2>4, LoadMoves
<1>3. CASE Load(t, "load num_correct", "store num_correct", "number", shared.num_correct)
  <2> DEFINE r == [local[t] EXCEPT !["number"] = shared.num_correct]
  <2>1. r \in Registers /\ r.number \in CInt
    <3>1. shared.num_correct \in CInt /\ CInt \subseteq Int
      BY <1>1, Sizes DEF Globals
    <3> QED BY <1>1, <3>1, RegisterTypes
  <2>2. /\ "store num_correct" \in Points /\ Forward("load num_correct", "store num_correct")
        /\ RegistersOK("store num_correct", r)
    BY <2>1, InPoints, Ways DEF RegistersOK
  <2> HIDE DEF r
  <2> QED BY <1>1, <1>3, <2>1, <2>2, LoadMoves DEF r
<1>4. CASE Store(t, "store num_correct", "updateBHT", "num_correct",
                 Tool!Increment(local[t].number))
  <2> DEFINE n == Tool!Increment(local[t].number)
  <2>1. /\ Goto(t, "store num_correct", "updateBHT")
        /\ shared' = [shared EXCEPT !["num_correct"] = n]
    BY <1>4 DEF Store
  <2>2. n \in CInt /\ n <= local[t].number + 1
    <3>1. local[t].number \in CInt BY <2>1, Parts DEF Goto, RegistersOK
    <3> QED BY <3>1, Incremented
  <2> HIDE DEF n
  <2>3. shared' \in Globals BY <1>1, <2>1, <2>2 DEF Globals
  <2>4. n \in Int BY <2>2, Sizes
  <2>5. /\ "updateBHT" \in Points \ Stores /\ RegistersOK("updateBHT", local[t])
        /\ "updateBHT" \notin BeforeCorrect
    BY InPoints, FreeRegisters DEF BeforeInstr, BeforeBranch, BeforeCorrect, Stores
  <2>6. Store(t, "store num_correct", "updateBHT", "num_correct", n) BY <1>4 DEF n
  <2> QED BY <2>2, <2>3, <2>4, <2>5, <2>6, CountMoves
<1> QED BY <1>2, <1>3, <1>4 DEF Score

LEMMA updateBHTInv ==
  ASSUME ThreadsInv, NEW t \in Threads, updateBHT(t),
         UNCHANGED <<instrumented, running, begun>>
  PROVE  ThreadsInv'
<1>1. local[t] \in Registers /\ shared \in Globals /\ instrumented' \subseteq Instructions
  BY Parts
<1>2. CASE Load(t, "updateBHT", "train", "index", shared.bhr_current_index)
  <2> DEFINE r == [local[t] EXCEPT !["index"] = shared.bhr_current_index]
  <2>1. r \in Registers /\ r.index \in Lower
    <3>1. shared.bhr_current_index \in Lower /\ Lower \subseteq Nat
      BY <1>1, Sizes DEF Globals
    <3> QED BY <1>1, <3>1, RegisterTypes
  <2>2. "train" \in Points /\ Forward("updateBHT", "train") /\ RegistersOK("train", r)
    BY <2>1, InPoints, Ways DEF RegistersOK
  <2> HIDE DEF r
  <2> QED BY <1>1, <1>2, <2>1, <2>2, LoadMoves DEF r
<1>3. CASE LoadCounter(t, "train", "store counter")
  <2> DEFINE c == shared.bhr[local[t].index]
             r == [local[t] EXCEPT !["number"] = c]
  <2>1. Load(t, "train", "store counter", "number", c) BY <1>3 DEF LoadCounter
  <2>2. local[t].index \in Lower BY <2>1, Parts DEF Load, Goto, RegistersOK
  <2>3. c \in Levels BY <1>1, <2>2, CounterRead
  <2> HIDE DEF c
  <2>4. r \in Registers /\ r.number = c BY <1>1, <2>3, Sizes, RegisterTypes
  <2>5. r.index \in Lower BY <1>1, <2>2 DEF Registers
  <2>6. /\ "store counter" \in Points /\ Forward("train", "store counter")
        /\ RegistersOK("store counter", r)
    BY <2>3, <2>4, <2>5, InPoints, Ways DEF RegistersOK
  <2> HIDE DEF r
  <2> QED BY <1>1, <2>1, <2>4, <2>6, LoadMoves DEF r
<1>4. CASE StoreCounter(t, "store counter", "updateBranchHistory",
                        Train(local[t].number, local[t].taken, Tool!SATURATING_NUM))
  <2> DEFINE c == Train(local[t].number, local[t].taken, Most)
             b == [shared.bhr EXCEPT ![local[t].index] = c]
  <2>1. Store(t, "store counter", "updateBranchHistory", "bhr", b)
    BY <1>4, ToolNames DEF StoreCounter
  <2>2. local[t].index \in Lower /\ local[t].number \in Levels /\ local[t].taken \in BOOLEAN
    BY <1>1, <2>1, Parts DEF Store, Goto, RegistersOK, Registers
  <2>3. c \in Levels BY <2>2, Sizes, TrainCounter DEF Levels
  <2>4. shared.bhr \in Tables BY <1>1 DEF Globals
  <2> HIDE DEF c
  <2>5. b \in Tables BY <2>2, <2>3, <2>4, CounterWritten
  <2> HIDE DEF b
  <2>6. shared' = [shared EXCEPT !["bhr"] = b] BY <2>1 DEF Store
  <2>7. shared' \in Globals BY <1>1, <2>5, <2>6 DEF Globals
  <2>8. /\ "updateBranchHistory" \in Points \ Stores
        /\ Forward("store counter", "updateBranchHistory")
        /\ RegistersOK("updateBranchHistory", local[t])
    BY InPoints, Ways, FreeRegisters DEF Stores
  <2> QED BY <1>1, <2>1, <2>7, <2>8, StoreMoves
<1> QED BY <1>2, <1>3, <1>4 DEF updateBHT

LEMMA updateBranchHistoryInv ==
  ASSUME ThreadsInv, NEW t \in Threads, updateBranchHistory(t),
         UNCHANGED <<instrumented, running, begun>>
  PROVE  ThreadsInv'
<1>1. local[t] \in Registers /\ shared \in Globals /\ instrumented' \subseteq Instructions
  BY Parts
<1>2. shared.branch_history \in [Cells -> BOOLEAN] BY <1>1 DEF Globals
<1>3. CASE Load(t, "updateBranchHistory", "memmove", "cells",
                [i \in 1 .. BHR_BITS - 1 |-> shared.branch_history[i]])
  <2> DEFINE c == [i \in 1 .. BHR_BITS - 1 |-> shared.branch_history[i]]
             r == [local[t] EXCEPT !["cells"] = c]
  <2>1. Load(t, "updateBranchHistory", "memmove", "cells", c) BY <1>3
  <2>2. c \in Seq(BOOLEAN) /\ Len(c) = BHR_BITS - 1
    <3>1. BHR_BITS - 1 \in Nat BY ThreadsAssumption
    <3>2. \A i \in 1 .. BHR_BITS - 1 : shared.branch_history[i] \in BOOLEAN
      BY <1>2, ThreadsAssumption DEF Cells
    <3> QED BY <3>1, <3>2
  <2> HIDE DEF c
  <2>3. r \in Registers /\ r.cells = c BY <1>1, <2>2, RegisterTypes
  <2>4. /\ "memmove" \in Points /\ Forward("updateBranchHistory", "memmove")
        /\ RegistersOK("memmove", r)
    BY <2>2, <2>3, InPoints, Ways DEF RegistersOK
  <2> HIDE DEF r
  <2> QED BY <1>1, <2>1, <2>3, <2>4, LoadMoves DEF r
<1>4. CASE Store(t, "memmove", "moved", "branch_history",
                 [i \in Cells |-> IF i < BHR_BITS - 1 THEN local[t].cells[i + 1]
                                  ELSE shared.branch_history[i]])
  <2> DEFINE h == [i \in Cells |-> IF i < BHR_BITS - 1 THEN local[t].cells[i + 1]
                                   ELSE shared.branch_history[i]]
  <2>1. Store(t, "memmove", "moved", "branch_history", h) BY <1>4
  <2>2. local[t].cells \in Seq(BOOLEAN) /\ Len(local[t].cells) = BHR_BITS - 1
    BY <1>1, <2>1, Parts DEF Store, Goto, RegistersOK, Registers
  <2>3. h \in [Cells -> BOOLEAN]
    <3>1. ASSUME NEW i \in Cells, i < BHR_BITS - 1 PROVE local[t].cells[i + 1] \in BOOLEAN
      <4>1. i + 1 \in 1 .. Len(local[t].cells) BY <2>2, <3>1, ThreadsAssumption DEF Cells
      <4> QED BY <2>2, <4>1
    <3> QED BY <1>2, <3>1
  <2> HIDE DEF h
  <2>4. shared' = [shared EXCEPT !["branch_history"] = h] BY <2>1 DEF Store
  <2>5. shared' \in Globals BY <1>1, <2>3, <2>4 DEF Globals
  <2>6. /\ "moved" \in Points \ Stores /\ Forward("memmove", "moved")
        /\ RegistersOK("moved", local[t])
    BY InPoints, Ways, FreeRegisters DEF Stores
  <2> QED BY <1>1, <2>1, <2>5, <2>6, StoreMoves
<1>5. CASE Store(t, "moved", "application", "branch_history",
                 [shared.branch_history EXCEPT ![BHR_BITS - 1] = local[t].taken])
  <2> DEFINE h == [shared.branch_history EXCEPT ![BHR_BITS - 1] = local[t].taken]
  <2>1. Store(t, "moved", "application", "branch_history", h) BY <1>5
  <2>2. local[t].taken \in BOOLEAN BY <1>1 DEF Registers
  <2>3. h \in [Cells -> BOOLEAN] BY <1>2, <2>2
  <2> HIDE DEF h
  <2>4. shared' = [shared EXCEPT !["branch_history"] = h] BY <2>1 DEF Store
  <2>5. shared' \in Globals BY <1>1, <2>3, <2>4 DEF Globals
  <2>6. "application" \in Points \ Stores /\ Forward("moved", "application")
    BY InPoints, Ways DEF Stores
  <2> QED BY <1>1, <2>1, <2>5, <2>6, StoreMoves
<1> QED BY <1>3, <1>4, <1>5 DEF updateBranchHistory

LEMMA AnalyseInv ==
  ASSUME ThreadsInv, NEW t \in Threads, Analyse(t)
  PROVE  ThreadsInv'
<1>1. UNCHANGED <<instrumented, running, begun>> BY DEF Analyse
<1> QED BY <1>1, docountInv, CountInv, updateBHRIndexInv, setPredictionInv, ScoreInv,
           updateBHTInv, updateBranchHistoryInv DEF Analyse

-----------------------------------------------------------------------------

LEMMA ExecuteInv ==
  ASSUME ThreadsInv, NEW t \in Threads, NEW ins \in Instructions, Execute(t, ins)
  PROVE  ThreadsInv'
<1> DEFINE r == [local[t] EXCEPT !.ins = ins]
<1>1. local[t] \in Registers /\ shared \in Globals BY Parts
<1>2. r \in Registers BY <1>1 DEF Registers
<1>3. /\ Goto(t, "application", "load num_instr")
      /\ local' = [local EXCEPT ![t] = r]
      /\ begun' = begun + 1 /\ begun < MaxInstr
      /\ UNCHANGED <<instrumented, running, shared>>
  BY DEF Execute, ThreadsInv, Typed
<1>4. "load num_instr" \in Points /\ RegistersOK("load num_instr", r)
  BY InPoints, FreeRegisters
<1> HIDE DEF r
<1>5. Typed /\ Counting BY DEF ThreadsInv
<1>6. begun' \in 0 .. MaxInstr /\ shared' \in Globals /\ instrumented' \subseteq Instructions
  <2>1. begun \in 0 .. MaxInstr /\ MaxInstr \in Nat
    BY <1>5, ThreadsAssumption DEF Typed
  <2>2. begun' \in 0 .. MaxInstr
    <3>1. begun' = begun + 1 /\ begun < MaxInstr BY <1>3
    <3> QED BY <2>1, <3>1
  <2>3. shared' \in Globals BY <1>1, <1>3
  <2>4. instrumented' \subseteq Instructions BY <1>3, <1>5 DEF Typed
  <2> QED BY <2>2, <2>3, <2>4
<1>7. Typed' BY <1>2, <1>3, <1>4, <1>5, <1>6, MoveTyped
<1>8. /\ Counted("num_instr", "store num_instr", BeforeInstr)'
      /\ Counted("num_branches", "store num_branches", BeforeBranch)'
      /\ Counted("num_correct", "store num_correct", BeforeCorrect)'
  BY <1>2, <1>3, <1>5, CountedBegin DEF Counting
<1> QED BY <1>7, <1>8 DEF ThreadsInv, Counting

LEMMA CompileInv ==
  ASSUME ThreadsInv, NEW t \in Threads, NEW ins \in Instructions, Compile(t, ins)
  PROVE  ThreadsInv'
<1> DEFINE r == [local[t] EXCEPT !.ins = ins]
<1>1. local[t] \in Registers /\ shared \in Globals /\ instrumented' \subseteq Instructions
  BY Parts DEF Compile
<1>2. r \in Registers BY <1>1 DEF Registers
<1>3. /\ Goto(t, "application", "Instruction")
      /\ local' = [local EXCEPT ![t] = r]
      /\ UNCHANGED <<running, begun>> /\ shared' = shared
  BY DEF Compile, ThreadsInv, Typed
<1>4. /\ "Instruction" \in Points /\ RegistersOK("Instruction", r)
      /\ Forward("application", "Instruction")
  BY InPoints, FreeRegisters, Ways
<1>5. \A total \in {"num_instr", "num_branches", "num_correct"} :
        shared'[total] \in {0, shared[total]}
  BY <1>3
<1> HIDE DEF r
<1> QED BY <1>1, <1>2, <1>3, <1>4, <1>5, Move

LEMMA InstructionInv ==
  ASSUME ThreadsInv, NEW t \in Threads, Instruction(t)
  PROVE  ThreadsInv'
<1>1. /\ local[t] \in Registers /\ shared \in Globals
      /\ local[t].ins \in Instructions /\ instrumented \subseteq Instructions
  BY Parts DEF ThreadsInv, Typed, Registers
<1>2. instrumented' \subseteq Instructions /\ UNCHANGED <<running, begun>>
  BY <1>1 DEF Instruction
<1>3. CASE Load(t, "Instruction",
                IF shared.num_instr <= NUM_INSTR_SKIPPED THEN "clear num_correct"
                ELSE "application", "number", 0)
  <2> DEFINE to == IF shared.num_instr <= NUM_INSTR_SKIPPED THEN "clear num_correct"
                   ELSE "application"
  <2>1. to \in {"clear num_correct", "application"} OBVIOUS
  <2>2. Load(t, "Instruction", to, "number", 0) BY <1>3
  <2> HIDE DEF to
  <2>3. [local[t] EXCEPT !["number"] = 0] \in Registers BY <1>1, RegisterTypes
  <2>4. /\ to \in Points /\ Forward("Instruction", to)
        /\ RegistersOK(to, [local[t] EXCEPT !["number"] = 0])
    BY <2>1, InPoints, Ways, FreeRegisters
  <2> QED BY <1>2, <2>1, <2>2, <2>3, <2>4, LoadMoves
<1>4. CASE Store(t, "clear num_correct", "clear num_branches", "num_correct", 0)
  <2>1. shared' = [shared EXCEPT !["num_correct"] = 0] BY <1>4 DEF Store
  <2>2. shared' \in Globals BY <1>1, <2>1, Sizes DEF Globals
  <2>3. /\ "clear num_branches" \in Points \ Stores
        /\ Forward("clear num_correct", "clear num_branches")
        /\ RegistersOK("clear num_branches", local[t])
    BY InPoints, Ways, FreeRegisters DEF Stores
  <2> QED BY <1>2, <1>4, <2>2, <2>3, StoreMoves
<1>5. CASE Store(t, "clear num_branches", "application", "num_branches", 0)
  <2>1. shared' = [shared EXCEPT !["num_branches"] = 0] BY <1>5 DEF Store
  <2>2. shared' \in Globals BY <1>1, <2>1, Sizes DEF Globals
  <2>3. /\ "application" \in Points \ Stores
        /\ Forward("clear num_branches", "application")
    BY InPoints, Ways DEF Stores
  <2> QED BY <1>2, <1>5, <2>2, <2>3, StoreMoves
<1> QED BY <1>3, <1>4, <1>5 DEF Instruction

\* A step that moves no thread.
LEMMA StillInv ==
  ASSUME ThreadsInv, running' \in BOOLEAN,
         UNCHANGED <<instrumented, shared, pc, local, begun>>
  PROVE  ThreadsInv'
<1>1. Typed' BY DEF ThreadsInv, Typed
<1>2. /\ Pending(BeforeInstr)' = Pending(BeforeInstr)
      /\ Pending(BeforeBranch)' = Pending(BeforeBranch)
      /\ Pending(BeforeCorrect)' = Pending(BeforeCorrect)
  BY DEF Pending
<1>3. Counting' BY <1>2 DEF ThreadsInv, Counting, Counted
<1> QED BY <1>1, <1>3 DEF ThreadsInv

LEMMA NextInv == ThreadsInv /\ [Next]_vars => ThreadsInv'
<1> SUFFICES ASSUME ThreadsInv, [Next]_vars PROVE ThreadsInv' OBVIOUS
<1>1. CASE \E t \in Threads :
             \/ \E ins \in Instructions : Execute(t, ins) \/ Compile(t, ins)
             \/ Analyse(t) \/ Instruction(t)
  BY <1>1, ExecuteInv, CompileInv, AnalyseInv, InstructionInv
<1>2. CASE Fini BY <1>2, StillInv DEF Fini
<1>3. CASE UNCHANGED vars BY <1>3, StillInv DEF vars, ThreadsInv, Typed
<1> QED BY <1>1, <1>2, <1>3 DEF Next

LEMMA InitInv == Init => ThreadsInv
<1> SUFFICES ASSUME Init PROVE ThreadsInv OBVIOUS
<1>1. shared \in Globals
  <2>1. 1 \in Levels /\ 0 \in Lower /\ 0 \in CInt BY Sizes DEF Levels, Lower
  <2>2. [i \in 0 .. pow2(BHR_BITS) - 1 |-> 1] \in Tables
    BY <2>1, Sizes DEF Tables, Entries
  <2>3. [i \in Cells |-> FALSE] \in [Cells -> BOOLEAN] OBVIOUS
  <2> QED BY <2>1, <2>2, <2>3 DEF Init, Globals
<1>2. Typed
  <2>1. \A t \in Threads : pc[t] = "application" /\ local[t] = Idle BY DEF Init
  <2>2. RegistersOK("application", Idle) /\ "application" \in Points
    BY FreeRegisters, InPoints
  <2>3. /\ instrumented \subseteq Instructions /\ running \in BOOLEAN
        /\ begun \in 0 .. MaxInstr
        /\ pc \in [Threads -> Points] /\ local \in [Threads -> Registers]
    BY <2>2, IdleRegisters, ThreadsAssumption DEF Init
  <2> QED BY <1>1, <2>1, <2>2, <2>3 DEF Typed
<1>3. ASSUME NEW points, "application" \notin points PROVE Pending(points) = 0
  <2>1. {t \in Threads : pc[t] \in points} = {} BY <1>3 DEF Init
  <2> QED BY <2>1, FS_EmptySet DEF Pending
<1>4. Pending(BeforeInstr) = 0 /\ Pending(BeforeBranch) = 0 /\ Pending(BeforeCorrect) = 0
  BY <1>3 DEF BeforeInstr, BeforeBranch, BeforeCorrect
<1>5. Counting BY <1>4 DEF Init, Counting, Counted
<1> QED BY <1>2, <1>5 DEF ThreadsInv

\* The inductive invariant: the registers and globals are typed at every access,
\* and no total exceeds the instructions that have passed its store.
THEOREM Invariance == Spec => []ThreadsInv
BY InitInv, NextInv, PTL DEF Spec

-----------------------------------------------------------------------------

LEMMA TotalsBounded == ThreadsInv => NeverOvercounts
<1> SUFFICES ASSUME ThreadsInv PROVE NeverOvercounts OBVIOUS
<1>1. ASSUME NEW points PROVE Pending(points) \in Nat
  <2> DEFINE S == {t \in Threads : pc[t] \in points}
  <2>1. S \in SUBSET Threads OBVIOUS
  <2>2. Cardinality(S) \in Nat
    <3> HIDE DEF S
    <3>1. IsFiniteSet(S) BY <2>1, FS_Subset, ThreadsAssumption
    <3> QED BY <3>1, FS_CardinalityType
  <2> QED BY <2>2 DEF Pending
<1>2. /\ begun \in Int /\ shared["num_instr"] \in Int
      /\ shared["num_branches"] \in Int /\ shared["num_correct"] \in Int
  BY TotalsAreInts DEF ThreadsInv, Typed
<1>3. /\ shared["num_instr"] + Pending(BeforeInstr) <= begun
      /\ shared["num_branches"] + Pending(BeforeBranch) <= begun
      /\ shared["num_correct"] + Pending(BeforeCorrect) <= begun
  BY DEF ThreadsInv, Counting, Counted
<1>4. /\ Pending(BeforeInstr) \in Nat /\ Pending(BeforeBranch) \in Nat
      /\ Pending(BeforeCorrect) \in Nat
  BY <1>1
<1>5. /\ shared["num_instr"] <= begun /\ shared["num_branches"] <= begun
      /\ shared["num_correct"] <= begun
  BY <1>2, <1>3, <1>4
<1> QED BY <1>5 DEF NeverOvercounts

\* With any number of threads, and however their accesses interleave, no
\* counter of bhr leaves its range or rests at 0, and every index that is
\* used is one of the table.
THEOREM ThreadsTypeCorrect == Spec => []TypeOK
<1>1. ThreadsInv => TypeOK
  <2> SUFFICES ASSUME ThreadsInv PROVE TypeOK OBVIOUS
  <2>1. shared \in Globals /\ shared.bhr \in Tables BY DEF ThreadsInv, Typed, Globals
  <2>2. shared.num_instr \in 0 .. MaxInstr
    <3>1. shared["num_instr"] <= begun BY TotalsBounded DEF NeverOvercounts
    <3> QED BY <2>1, <3>1, ThreadsAssumption DEF ThreadsInv, Typed, Globals
  <2>3. Tool!ToolTypeOK
    BY <2>1, <2>2, ToolNames DEF Tool!ToolTypeOK, ThreadsInv, Typed, Globals
  <2>4. shared.bhr \in [0 .. Entries - 1 -> Levels] BY <2>1 DEF Tables
  <2>5. Tool!TypeOK
    <3>1. Levels \subseteq -Most .. Most BY DEF Levels
    <3>2. shared.bhr \in [0 .. Entries - 1 -> -Most .. Most] BY <2>4, <3>1
    <3>3. /\ shared.bhr_current_index \in 0 .. Entries - 1
          /\ shared.branch_history \in [0 .. BHR_BITS - 1 -> BOOLEAN]
          /\ shared.prediction \in BOOLEAN
      BY <2>1, Sizes DEF Globals, Cells
    <3> QED BY <2>3, <3>2, <3>3, ToolNames DEF Tool!TypeOK
  <2>6. \A i \in DOMAIN shared.bhr : shared.bhr[i] # 0 BY <2>4 DEF Levels
  <2> QED BY <2>5, <2>6 DEF TypeOK, ThreadsInv, Typed
<1> QED BY <1>1, Invariance, PTL

\* No total exceeds the instructions that the threads have begun, with any
\* number of threads: ++ without a lock loses counts but makes none up.
THEOREM RacesOnlyLose == Spec => []NeverOvercounts
BY TotalsBounded, Invariance, PTL

\* The half of bhr that one thread never trains is never trained by several.
THEOREM HalfTheTableStaysDead == Spec => []UpperHalfUntouched
<1>1. ThreadsInv => UpperHalfUntouched
  <2> SUFFICES ASSUME ThreadsInv PROVE UpperHalfUntouched OBVIOUS
  <2>1. shared.bhr \in Tables BY DEF ThreadsInv, Typed, Globals
  <2> QED BY <2>1, ToolNames DEF Tables, UpperHalfUntouched, Tool!UpperHalfUntouched
<1> QED BY <1>1, Invariance, PTL

-----------------------------------------------------------------------------
(***************************************************************************)
(* One thread in the tool at a time: what the analysis call or callback it *)
(* is in has done to the globals s that the tool was settled with.         *)
(***************************************************************************)

\* The points at which the other globals are still as they were.
BeforeIndex == BeforeBranch \cup {"updateBHRIndex"}
BeforePrediction == BeforeIndex \cup {"setPrediction", "predict", "store prediction"}
BeforeTraining == BeforeCorrect \cup {"updateBHT", "train", "store counter"}
BeforeHistory == BeforeTraining \cup {"updateBranchHistory", "memmove"}

\* The entry of bhr a branch goes by.
EntryOf(s) == PackBits(s.branch_history, BHR_BITS - 1)

Trained(s, taken) ==
  [s.bhr EXCEPT ![EntryOf(s)] = Train(s.bhr[EntryOf(s)], taken, Most)]

Moved(s) ==
  [i \in Cells |-> IF i < BHR_BITS - 1 THEN s.branch_history[i + 1] ELSE s.branch_history[i]]

\* The globals g of a thread at a point of the analysis calls.
GlobalsAt(point, taken, g, s) ==
  /\ g.num_instr = IF point \in BeforeInstr THEN s.num_instr ELSE s.num_instr + 1
  /\ g.num_branches =
       IF point \in BeforeBranch THEN s.num_branches ELSE Tool!Increment(s.num_branches)
  /\ g.bhr_current_index = IF point \in BeforeIndex THEN s.bhr_current_index ELSE EntryOf(s)
  /\ g.prediction =
       IF point \in BeforePrediction THEN s.prediction ELSE Predict(s.bhr[EntryOf(s)])
  /\ g.num_correct =
       IF point \notin BeforeCorrect /\ g.prediction = taken
         THEN Tool!Increment(s.num_correct) ELSE s.num_correct
  /\ g.bhr = IF point \in BeforeTraining THEN s.bhr ELSE Trained(s, taken)
  /\ g.branch_history = IF point \in BeforeHistory THEN s.branch_history ELSE Moved(s)

\* Its registers r, as far as it still uses them.
RegistersAt(point, r, g, s) ==
  /\ point \notin BeforeInstr => r.ins \in Branches
  /\ point = "store num_instr" => r.number = s.num_instr
  /\ point = "store num_branches" => r.number = s.num_branches
  /\ point = "store num_correct" => r.number = s.num_correct
  /\ point \in {"store prediction", "store counter"} => r.number = s.bhr[EntryOf(s)]
  /\ point \in {"predict", "train", "store counter"} => r.index = EntryOf(s)
  /\ point = "updateBHRIndex" =>
       /\ Len(r.cells) <= BHR_BITS - 1
       /\ \A i \in 1 .. Len(r.cells) : r.cells[i] = s.branch_history[i - 1]
  /\ point = "memmove" => \A i \in 1 .. BHR_BITS - 1 : r.cells[i] = s.branch_history[i]
  /\ point \in {"load num_correct", "store num_correct"} => g.prediction = r.taken

Analysed(point, r, g, s) == GlobalsAt(point, r.taken, g, s) /\ RegistersAt(point, r, g, s)

\* The callback clears num_correct first.
Compiled(point, g, s) ==
  /\ g = IF point = "clear num_branches" THEN [s EXCEPT !.num_correct = 0] ELSE s
  /\ point # "Instruction" => s.num_instr <= NUM_INSTR_SKIPPED

\* What holds of a thread in the tool in any case.
Prepared(t) ==
  /\ pc[t] # "application" => running
  /\ pc[t] \notin {"application"} \cup Compiling => local[t].ins \in instrumented
  /\ pc[t] \in {"application"} \cup Compiling \cup BeforeBranch => local[t].cells = << >>

Alone ==
  /\ \A t, u \in InTool : t = u
  /\ InTool = {} => shared = settled
  /\ \A t \in InTool :
       IF pc[t] \in Compiling THEN Compiled(pc[t], shared, settled)
                              ELSE Analysed(pc[t], local[t], shared, settled)

\* The inductive invariant of an execution that has not raced.
AloneInv ==
  /\ \A t \in Threads : Prepared(t)
  /\ settled \in Globals
  /\ ~raced => Alone /\ SettledTool!TotalsMakeSense

-----------------------------------------------------------------------------
(***************************************************************************)
(* The accesses, one by one.                                               *)
(***************************************************************************)

\* What an access that loads does to the thread.
LEMMA Loaded ==
  ASSUME ThreadsInv, NEW t \in Threads, NEW from, NEW to, NEW register, NEW value,
         Load(t, from, to, register, value)
  PROVE  /\ pc[t] = from /\ pc'[t] = to /\ shared' = shared
         /\ local'[t] = [local[t] EXCEPT ![register] = value]
BY DEF Load, Goto, ThreadsInv, Typed

\* What an access that stores does.
LEMMA Stored ==
  ASSUME ThreadsInv, NEW t \in Threads, NEW from, NEW to, NEW global, NEW value,
         Store(t, from, to, global, value)
  PROVE  /\ pc[t] = from /\ pc'[t] = to /\ shared' = [shared EXCEPT ![global] = value]
         /\ local'[t] = IF to = "application" THEN Idle ELSE local[t]
BY DEF Store, Goto, ThreadsInv, Typed

\* A store after which the thread stays in the tool.
LEMMA StoredInside ==
  ASSUME ThreadsInv, NEW t \in Threads, NEW from, NEW to, NEW global, NEW value,
         to # "application", Store(t, from, to, global, value)
  PROVE  /\ pc[t] = from /\ pc'[t] = to /\ shared' = [shared EXCEPT ![global] = value]
         /\ local'[t] = local[t]
BY Stored

\* The last store of an instruction that is not a branch, and of one that is.
LastOf(t, s) ==
  /\ pc'[t] = "application"
  /\ \/ /\ local[t].ins \notin Branches
        /\ shared' = [s EXCEPT !.num_instr = s.num_instr + 1]
     \/ /\ local[t].ins \in Branches
        /\ \E taken \in BOOLEAN :
             shared' =
               [num_instr |-> s.num_instr + 1,
                num_branches |-> Tool!Increment(s.num_branches),
                num_correct |-> IF Predict(s.bhr[EntryOf(s)]) = taken
                                  THEN Tool!Increment(s.num_correct) ELSE s.num_correct,
                bhr |-> Trained(s, taken), bhr_current_index |-> EntryOf(s),
                branch_history |-> ShiftIn(s.branch_history, BHR_BITS, taken),
                prediction |-> Predict(s.bhr[EntryOf(s)])]

Advances(t, s) ==
  \/ /\ pc'[t] \notin {"application"} \cup Compiling
     /\ Analysed(pc'[t], local'[t], shared', s)
  \/ LastOf(t, s)

\* Each access takes the thread on as GlobalsAt and RegistersAt say.
LEMMA docountAdvances ==
  ASSUME ThreadsInv, NEW t \in Threads, docount(t),
         NEW s \in Globals, Analysed(pc[t], local[t], shared, s)
  PROVE  Advances(t, s)
<1> USE DEF BeforeInstr, BeforeBranch, BeforeIndex, BeforePrediction, BeforeCorrect,
            BeforeTraining, BeforeHistory
<1>1. local[t] \in Registers /\ shared \in Globals BY Parts
<1>2. CASE Load(t, "load num_instr", "store num_instr", "number", shared.num_instr)
  <2>1. /\ pc[t] = "load num_instr" /\ pc'[t] = "store num_instr" /\ shared' = shared
        /\ local'[t] = [local[t] EXCEPT !["number"] = shared.num_instr]
    BY <1>2, Loaded
  <2>2. Analysed(pc'[t], local'[t], shared', s)
    BY <1>1, <2>1 DEF Analysed, GlobalsAt, RegistersAt, Registers
  <2> QED BY <2>1, <2>2 DEF Advances, Compiling
<1>3. CASE Store(t, "store num_instr",
                 IF local[t].ins \in Branches THEN "RecordBranch" ELSE "application",
                 "num_instr", local[t].number + 1)
  <2>1. /\ pc[t] = "store num_instr"
        /\ pc'[t] = IF local[t].ins \in Branches THEN "RecordBranch" ELSE "application"
        /\ shared' = [shared EXCEPT !["num_instr"] = local[t].number + 1]
        /\ pc'[t] # "application" => local'[t] = local[t]
    <3> DEFINE to == IF local[t].ins \in Branches THEN "RecordBranch" ELSE "application"
               n == local[t].number + 1
    <3>1. Store(t, "store num_instr", to, "num_instr", n) BY <1>3
    <3> HIDE DEF to, n
    <3>2. /\ pc[t] = "store num_instr" /\ pc'[t] = to
          /\ shared' = [shared EXCEPT !["num_instr"] = n]
          /\ to # "application" => local'[t] = local[t]
      BY <3>1, Stored
    <3> QED BY <3>2 DEF to, n
  <2>2. local[t].number = s.num_instr
    BY <2>1 DEF Analysed, RegistersAt
  <2>3. CASE local[t].ins \in Branches
    <3>1. Analysed("RecordBranch", local[t], shared', s)
      BY <1>1, <2>1, <2>2, <2>3 DEF Analysed, GlobalsAt, RegistersAt, Globals
    <3> QED BY <2>1, <2>3, <3>1 DEF Advances, Compiling
  <2>4. CASE local[t].ins \notin Branches
    <3>1. shared' = [s EXCEPT !.num_instr = s.num_instr + 1]
      BY <1>1, <2>1, <2>2, <2>4 DEF Analysed, GlobalsAt, Globals
    <3> QED BY <2>1, <2>4, <3>1 DEF Advances, LastOf
  <2> QED BY <2>3, <2>4
<1> QED BY <1>2, <1>3 DEF docount

LEMMA CountAdvances ==
  ASSUME ThreadsInv, NEW t \in Threads, Count(t), Prepared(t),
         NEW s \in Globals, Analysed(pc[t], local[t], shared, s)
  PROVE  Advances(t, s)
<1> USE DEF BeforeInstr, BeforeBranch, BeforeIndex, BeforePrediction, BeforeCorrect,
            BeforeTraining, BeforeHistory
<1>1. local[t] \in Registers /\ shared \in Globals BY Parts
<1>2. ASSUME NEW taken \in BOOLEAN,
             Load(t, "RecordBranch", "load num_branches", "taken", taken)
      PROVE  Advances(t, s)
  <2>1. /\ pc[t] = "RecordBranch" /\ pc'[t] = "load num_branches" /\ shared' = shared
        /\ local'[t] = [local[t] EXCEPT !["taken"] = taken]
    BY <1>2, Loaded
  <2> QED BY <1>1, <2>1
         DEF Analysed, GlobalsAt, RegistersAt, Registers, Globals, Advances, Compiling
<1>3. CASE Load(t, "load num_branches", "store num_branches", "number", shared.num_branches)
  <2>1. /\ pc[t] = "load num_branches" /\ pc'[t] = "store num_branches" /\ shared' = shared
        /\ local'[t] = [local[t] EXCEPT !["number"] = shared.num_branches]
    BY <1>3, Loaded
  <2> QED BY <1>1, <2>1
         DEF Analysed, GlobalsAt, RegistersAt, Registers, Globals, Advances, Compiling
<1>4. CASE Store(t, "store num_branches", "updateBHRIndex", "num_branches",
                 Tool!Increment(local[t].number))
  <2> DEFINE v == Tool!Increment(local[t].number)
             to == "updateBHRIndex"
  <2>1. Store(t, "store num_branches", to, "num_branches", v) /\ to # "application" BY <1>4
  <2> HIDE DEF v, to
  <2>2. /\ pc[t] = "store num_branches" /\ pc'[t] = to
        /\ shared' = [shared EXCEPT !["num_branches"] = v] /\ local'[t] = local[t]
    BY <2>1, StoredInside
  <2> USE DEF to
  <2>3. v = Tool!Increment(s.num_branches) BY <2>2 DEF Analysed, RegistersAt, v
  <2>4. local[t].cells = << >> BY <2>2 DEF Prepared
  <2>5. Len(local[t].cells) <= BHR_BITS - 1 /\ \A i \in 1 .. Len(local[t].cells) : FALSE
    BY <2>4, ThreadsAssumption
  <2> QED BY <1>1, <2>2, <2>3, <2>5
         DEF Analysed, GlobalsAt, RegistersAt, Registers, Globals, Advances, Compiling
<1> QED BY <1>2, <1>3, <1>4 DEF Count

LEMMA updateBHRIndexAdvances ==
  ASSUME ThreadsInv, NEW t \in Threads, updateBHRIndex(t),
         NEW s \in Globals, Analysed(pc[t], local[t], shared, s)
  PROVE  Advances(t, s)
<1> USE DEF BeforeInstr, BeforeBranch, BeforeIndex, BeforePrediction, BeforeCorrect,
            BeforeTraining, BeforeHistory
<1>1. local[t] \in Registers /\ shared \in Globals BY Parts
<1> DEFINE read == Len(local[t].cells)
           index == PackBits([i \in 0 .. read - 1 |-> local[t].cells[i + 1]], read)
<1>2. local[t].cells \in Seq(BOOLEAN) /\ read \in Nat BY <1>1 DEF Registers
<1>3. pc[t] = "updateBHRIndex" =>
        /\ shared.branch_history = s.branch_history
        /\ \A i \in 1 .. read : local[t].cells[i] = s.branch_history[i - 1]
  BY DEF Analysed, GlobalsAt, RegistersAt
<1>4. ASSUME read < BHR_BITS - 1,
             Load(t, "updateBHRIndex", "updateBHRIndex", "cells",
                  Append(local[t].cells, shared.branch_history[read]))
      PROVE  Advances(t, s)
  <2> DEFINE c == Append(local[t].cells, shared.branch_history[read])
  <2>1. Load(t, "updateBHRIndex", "updateBHRIndex", "cells", c) BY <1>4
  <2>2. Len(c) = read + 1 /\ \A i \in 1 .. read + 1 :
                               c[i] = IF i <= read THEN local[t].cells[i]
                                      ELSE shared.branch_history[read]
    BY <1>2
  <2> HIDE DEF c
  <2>3. /\ pc[t] = "updateBHRIndex" /\ pc'[t] = "updateBHRIndex" /\ shared' = shared
        /\ local'[t] = [local[t] EXCEPT !["cells"] = c]
    BY <2>1, Loaded
  <2>4. Len(c) <= BHR_BITS - 1 BY <1>2, <1>4, <2>2, ThreadsAssumption
  <2>5. ASSUME NEW i \in 1 .. Len(c) PROVE c[i] = s.branch_history[i - 1]
    <3>1. i \in 1 .. read + 1 BY <2>2
    <3>2. CASE i <= read BY <1>2, <1>3, <2>2, <2>3, <3>1, <3>2
    <3>3. CASE ~(i <= read)
      <4>1. i - 1 = read BY <1>2, <3>1, <3>3
      <4> QED BY <1>3, <2>2, <2>3, <3>1, <3>3, <4>1
    <3> QED BY <3>2, <3>3
  <2> HIDE DEF read
  <2> QED BY <1>1, <2>3, <2>4, <2>5
         DEF Analysed, GlobalsAt, RegistersAt, Registers, Globals, Advances, Compiling
<1>5. ASSUME read = BHR_BITS - 1,
             Store(t, "updateBHRIndex", "setPrediction", "bhr_current_index", index)
      PROVE  Advances(t, s)
  <2>1. Store(t, "updateBHRIndex", "setPrediction", "bhr_current_index", index) BY <1>5
  <2>2. pc[t] = "updateBHRIndex" BY <2>1 DEF Store, Goto
  <2>3. index = EntryOf(s)
    <3> DEFINE f == [i \in 0 .. read - 1 |-> local[t].cells[i + 1]]
               a == [i \in 0 .. read - 1 |-> IF f[i] THEN pow2(i) ELSE 0]
               b == [i \in 0 .. read - 1 |-> IF s.branch_history[i] THEN pow2(i) ELSE 0]
    <3>1. ASSUME NEW i \in 0 .. read - 1 PROVE f[i] = s.branch_history[i]
      <4>1. i + 1 \in 1 .. read /\ (i + 1) - 1 = i BY <1>2
      <4>2. f[i] = local[t].cells[i + 1] OBVIOUS
      <4>3. local[t].cells[i + 1] = s.branch_history[(i + 1) - 1] BY <1>3, <2>2, <4>1
      <4> QED BY <4>1, <4>2, <4>3
    <3>2. a = b BY <3>1
    <3>3. index = SumBelow(a, read) BY DEF PackBits
    <3>4. EntryOf(s) = SumBelow(b, read) BY <1>5 DEF EntryOf, PackBits
    <3> QED BY <3>2, <3>3, <3>4
  <2> HIDE DEF index
  <2>4. /\ pc'[t] = "setPrediction" /\ local'[t] = local[t]
        /\ shared' = [shared EXCEPT !["bhr_current_index"] = index]
    BY <2>1, StoredInside
  <2> HIDE DEF read
  <2> QED BY <1>1, <2>2, <2>3, <2>4
         DEF Analysed, GlobalsAt, RegistersAt, Registers, Globals, Advances, Compiling
<1> QED BY <1>4, <1>5 DEF updateBHRIndex

LEMMA setPredictionAdvances ==
  ASSUME ThreadsInv, NEW t \in Threads, setPrediction(t),
         NEW s \in Globals, Analysed(pc[t], local[t], shared, s)
  PROVE  Advances(t, s)
<1> USE DEF BeforeInstr, BeforeBranch, BeforeIndex, BeforePrediction, BeforeCorrect,
            BeforeTraining, BeforeHistory
<1>1. local[t] \in Registers /\ shared \in Globals BY Parts
<1>2. CASE Load(t, "setPrediction", "predict", "index", shared.bhr_current_index)
  <2>1. /\ pc[t] = "setPrediction" /\ pc'[t] = "predict" /\ shared' = shared
        /\ local'[t] = [local[t] EXCEPT !["index"] = shared.bhr_current_index]
    BY <1>2, Loaded
  <2> QED BY <1>1, <2>1
         DEF Analysed, GlobalsAt, RegistersAt, Registers, Globals, Advances, Compiling
<1>3. CASE LoadCounter(t, "predict", "store prediction")
  <2> DEFINE v == shared.bhr[local[t].index]
  <2>1. Load(t, "predict", "store prediction", "number", v) BY <1>3 DEF LoadCounter
  <2> HIDE DEF v
  <2>2. /\ pc[t] = "predict" /\ pc'[t] = "store prediction" /\ shared' = shared
        /\ local'[t] = [local[t] EXCEPT !["number"] = v]
    BY <2>1, Loaded
  <2>3. v = s.bhr[EntryOf(s)] BY <2>2 DEF Analysed, GlobalsAt, RegistersAt, v
  <2> QED BY <1>1, <2>2, <2>3
         DEF Analysed, GlobalsAt, RegistersAt, Registers, Globals, Advances, Compiling
<1>4. CASE Store(t, "store prediction", "compare", "prediction", Predict(local[t].number))
  <2> DEFINE v == Predict(local[t].number)
             to == "compare"
  <2>1. Store(t, "store prediction", to, "prediction", v) /\ to # "application" BY <1>4
  <2> HIDE DEF v, to
  <2>2. /\ pc[t] = "store prediction" /\ pc'[t] = to
        /\ shared' = [shared EXCEPT !["prediction"] = v] /\ local'[t] = local[t]
    BY <2>1, StoredInside
  <2> USE DEF to
  <2>3. v = Predict(s.bhr[EntryOf(s)]) BY <2>2 DEF Analysed, RegistersAt, v
  <2> QED BY <1>1, <2>2, <2>3
         DEF Analysed, GlobalsAt, RegistersAt, Registers, Globals, Advances, Compiling
<1> QED BY <1>2, <1>3, <1>4 DEF setPrediction

LEMMA ScoreAdvances ==
  ASSUME ThreadsInv, NEW t \in Threads, Score(t),
         NEW s \in Globals, Analysed(pc[t], local[t], shared, s)
  PROVE  Advances(t, s)
<1> USE DEF BeforeInstr, BeforeBranch, BeforeIndex, BeforePrediction, BeforeCorrect,
            BeforeTraining, BeforeHistory
<1>1. local[t] \in Registers /\ shared \in Globals BY Parts
<1>2. CASE Load(t, "compare", IF shared.prediction = local[t].taken THEN "load num_correct"
                              ELSE "updateBHT", "cells", << >>)
  <2> DEFINE to == IF shared.prediction = local[t].taken THEN "load num_correct"
                   ELSE "updateBHT"
             c == << >>
  <2>1. Load(t, "compare", to, "cells", c) BY <1>2
  <2> HIDE DEF to, c
  <2>2. /\ pc[t] = "compare" /\ pc'[t] = to /\ shared' = shared
        /\ local'[t] = [local[t] EXCEPT !["cells"] = c]
    BY <2>1, Loaded
  <2>3. CASE shared.prediction = local[t].taken
    <3>1. to = "load num_correct" BY <2>3 DEF to
    <3> QED BY <1>1, <2>2, <2>3, <3>1
           DEF Analysed, GlobalsAt, RegistersAt, Registers, Globals, Advances, Compiling
  <2>4. CASE shared.prediction # local[t].taken
    <3>1. to = "updateBHT" BY <2>4 DEF to
    <3> QED BY <1>1, <2>2, <2>4, <3>1
           DEF Analysed, GlobalsAt, RegistersAt, Registers, Globals, Advances, Compiling
  <2> QED BY <2>3, <2>4
<1>3. CASE Load(t, "load num_correct", "store num_correct", "number", shared.num_correct)
  <2>1. /\ pc[t] = "load num_correct" /\ pc'[t] = "store num_correct" /\ shared' = shared
        /\ local'[t] = [local[t] EXCEPT !["number"] = shared.num_correct]
    BY <1>3, Loaded
  <2> QED BY <1>1, <2>1
         DEF Analysed, GlobalsAt, RegistersAt, Registers, Globals, Advances, Compiling
<1>4. CASE Store(t, "store num_correct", "updateBHT", "num_correct",
                 Tool!Increment(local[t].number))
  <2> DEFINE v == Tool!Increment(local[t].number)
             to == "updateBHT"
  <2>1. Store(t, "store num_correct", to, "num_correct", v) /\ to # "application" BY <1>4
  <2> HIDE DEF v, to
  <2>2. /\ pc[t] = "store num_correct" /\ pc'[t] = to
        /\ shared' = [shared EXCEPT !["num_correct"] = v] /\ local'[t] = local[t]
    BY <2>1, StoredInside
  <2> USE DEF to
  <2>3. v = Tool!Increment(s.num_correct) BY <2>2 DEF Analysed, RegistersAt, v
  <2> QED BY <1>1, <2>2, <2>3
         DEF Analysed, GlobalsAt, RegistersAt, Registers, Globals, Advances, Compiling
<1> QED BY <1>2, <1>3, <1>4 DEF Score

LEMMA updateBHTAdvances ==
  ASSUME ThreadsInv, NEW t \in Threads, updateBHT(t),
         NEW s \in Globals, Analysed(pc[t], local[t], shared, s)
  PROVE  Advances(t, s)
<1> USE DEF BeforeInstr, BeforeBranch, BeforeIndex, BeforePrediction, BeforeCorrect,
            BeforeTraining, BeforeHistory
<1>1. local[t] \in Registers /\ shared \in Globals BY Parts
<1>2. CASE Load(t, "updateBHT", "train", "index", shared.bhr_current_index)
  <2>1. /\ pc[t] = "updateBHT" /\ pc'[t] = "train" /\ shared' = shared
        /\ local'[t] = [local[t] EXCEPT !["index"] = shared.bhr_current_index]
    BY <1>2, Loaded
  <2> QED BY <1>1, <2>1
         DEF Analysed, GlobalsAt, RegistersAt, Registers, Globals, Advances, Compiling
<1>3. CASE LoadCounter(t, "train", "store counter")
  <2> DEFINE v == shared.bhr[local[t].index]
  <2>1. Load(t, "train", "store counter", "number", v) BY <1>3 DEF LoadCounter
  <2> HIDE DEF v
  <2>2. /\ pc[t] = "train" /\ pc'[t] = "store counter" /\ shared' = shared
        /\ local'[t] = [local[t] EXCEPT !["number"] = v]
    BY <2>1, Loaded
  <2>3. v = s.bhr[EntryOf(s)] BY <2>2 DEF Analysed, GlobalsAt, RegistersAt, v
  <2> QED BY <1>1, <2>2, <2>3
         DEF Analysed, GlobalsAt, RegistersAt, Registers, Globals, Advances, Compiling
<1>4. CASE StoreCounter(t, "store counter", "updateBranchHistory",
                        Train(local[t].number, local[t].taken, Tool!SATURATING_NUM))
  <2> DEFINE v == [shared.bhr EXCEPT ![local[t].index] =
                     Train(local[t].number, local[t].taken, Tool!SATURATING_NUM)]
             to == "updateBranchHistory"
  <2>1. Store(t, "store counter", to, "bhr", v) /\ to # "application"
    BY <1>4 DEF StoreCounter
  <2> HIDE DEF v, to
  <2>2. /\ pc[t] = "store counter" /\ pc'[t] = to
        /\ shared' = [shared EXCEPT !["bhr"] = v] /\ local'[t] = local[t]
    BY <2>1, StoredInside
  <2>3. v = Trained(s, local[t].taken)
    BY <2>2, ToolNames DEF Analysed, GlobalsAt, RegistersAt, v, Trained
  <2> USE DEF to
  <2> QED BY <1>1, <2>2, <2>3
         DEF Analysed, GlobalsAt, RegistersAt, Registers, Globals, Advances, Compiling
<1> QED BY <1>2, <1>3, <1>4 DEF updateBHT

LEMMA updateBranchHistoryAdvances ==
  ASSUME ThreadsInv, NEW t \in Threads, updateBranchHistory(t),
         NEW s \in Globals, Analysed(pc[t], local[t], shared, s)
  PROVE  Advances(t, s)
<1> USE DEF BeforeInstr, BeforeBranch, BeforeIndex, BeforePrediction, BeforeCorrect,
            BeforeTraining, BeforeHistory
<1>1. local[t] \in Registers /\ shared \in Globals BY Parts
<1>2. s.branch_history \in [Cells -> BOOLEAN] BY DEF Globals
<1>3. CASE Load(t, "updateBranchHistory", "memmove", "cells",
                [i \in 1 .. BHR_BITS - 1 |-> shared.branch_history[i]])
  <2> DEFINE c == [i \in 1 .. BHR_BITS - 1 |-> shared.branch_history[i]]
  <2>1. Load(t, "updateBranchHistory", "memmove", "cells", c) BY <1>3
  <2>2. \A i \in 1 .. BHR_BITS - 1 : c[i] = shared.branch_history[i] OBVIOUS
  <2> HIDE DEF c
  <2>3. /\ pc[t] = "updateBranchHistory" /\ pc'[t] = "memmove" /\ shared' = shared
        /\ local'[t] = [local[t] EXCEPT !["cells"] = c]
    BY <2>1, Loaded
  <2>4. shared.branch_history = s.branch_history BY <2>3 DEF Analysed, GlobalsAt
  <2>5. \A i \in 1 .. BHR_BITS - 1 : c[i] = s.branch_history[i] BY <2>2, <2>4
  <2> QED BY <1>1, <2>3, <2>5
         DEF Analysed, GlobalsAt, RegistersAt, Registers, Globals, Advances, Compiling
<1>4. CASE Store(t, "memmove", "moved", "branch_history",
                 [i \in Cells |-> IF i < BHR_BITS - 1 THEN local[t].cells[i + 1]
                                  ELSE shared.branch_history[i]])
  <2> DEFINE v == [i \in Cells |-> IF i < BHR_BITS - 1 THEN local[t].cells[i + 1]
                                   ELSE shared.branch_history[i]]
             to == "moved"
  <2>1. Store(t, "memmove", to, "branch_history", v) /\ to # "application" BY <1>4
  <2>2. pc[t] = "memmove" BY <2>1 DEF Store, Goto
  <2>3. v = Moved(s)
    <3>1. /\ shared.branch_history = s.branch_history
          /\ \A i \in 1 .. BHR_BITS - 1 : local[t].cells[i] = s.branch_history[i]
      BY <2>2 DEF Analysed, GlobalsAt, RegistersAt
    <3>2. ASSUME NEW i \in Cells, i < BHR_BITS - 1
          PROVE  local[t].cells[i + 1] = s.branch_history[i + 1]
      BY <3>1, <3>2, ThreadsAssumption DEF Cells
    <3> QED BY <3>1, <3>2 DEF Moved
  <2> HIDE DEF v, to
  <2>4. /\ pc'[t] = to /\ local'[t] = local[t]
        /\ shared' = [shared EXCEPT !["branch_history"] = v]
    BY <2>1, StoredInside
  <2> USE DEF to
  <2> QED BY <1>1, <2>2, <2>3, <2>4
         DEF Analysed, GlobalsAt, RegistersAt, Registers, Globals, Advances, Compiling
<1>5. CASE Store(t, "moved", "application", "branch_history",
                 [shared.branch_history EXCEPT ![BHR_BITS - 1] = local[t].taken])
  <2> DEFINE v == [shared.branch_history EXCEPT ![BHR_BITS - 1] = local[t].taken]
             p == Predict(s.bhr[EntryOf(s)])
             n == IF p = local[t].taken THEN Tool!Increment(s.num_correct)
                  ELSE s.num_correct
             last == [num_instr |-> s.num_instr + 1,
                      num_branches |-> Tool!Increment(s.num_branches),
                      num_correct |-> n, bhr |-> Trained(s, local[t].taken),
                      bhr_current_index |-> EntryOf(s),
                      branch_history |-> ShiftIn(s.branch_history, BHR_BITS, local[t].taken),
                      prediction |-> p]
  <2>1. Store(t, "moved", "application", "branch_history", v) BY <1>5
  <2>2. pc[t] = "moved" /\ pc'[t] = "application"
        /\ shared' = [shared EXCEPT !["branch_history"] = v]
    <3> HIDE DEF v
    <3> QED BY <2>1, Stored
  <2>3. /\ local[t].ins \in Branches /\ local[t].taken \in BOOLEAN
        /\ shared.branch_history = Moved(s)
    BY <1>1, <2>2 DEF Analysed, GlobalsAt, RegistersAt, Registers
  <2>4. v = ShiftIn(s.branch_history, BHR_BITS, local[t].taken)
    <3> DEFINE m == shared.branch_history
               taken == local[t].taken
               h == s.branch_history
    <3>1. m = [i \in Cells |-> IF i < BHR_BITS - 1 THEN h[i + 1] ELSE h[i]]
      BY <2>3 DEF Moved
    <3>2. v = [m EXCEPT ![BHR_BITS - 1] = taken] OBVIOUS
    <3> HIDE DEF m, taken, h, v
    <3>3. ASSUME NEW i \in Cells PROVE v[i] = IF i < BHR_BITS - 1 THEN h[i + 1] ELSE taken
      <4>1. i = BHR_BITS - 1 \/ (i # BHR_BITS - 1 /\ i < BHR_BITS - 1)
        BY ThreadsAssumption DEF Cells
      <4>2. CASE i = BHR_BITS - 1
        <5>1. ~(i < BHR_BITS - 1) BY <4>2, ThreadsAssumption
        <5> QED BY <3>1, <3>2, <4>2, <5>1
      <4>3. CASE i # BHR_BITS - 1 /\ i < BHR_BITS - 1
        <5>1. v[i] = m[i] BY <3>1, <3>2, <4>3
        <5> QED BY <3>1, <4>3, <5>1
      <4> QED BY <4>1, <4>2, <4>3
    <3>4. v = [i \in Cells |-> IF i < BHR_BITS - 1 THEN h[i + 1] ELSE taken]
      BY <3>1, <3>2, <3>3
    <3> QED BY <3>4 DEF ShiftIn, Cells, h, taken
  <2> HIDE DEF v
  <2>5. shared' = last
    <3> DEFINE h == ShiftIn(s.branch_history, BHR_BITS, local[t].taken)
               e == EntryOf(s)
               b == Trained(s, local[t].taken)
    <3>1. /\ shared.num_instr = s.num_instr + 1
          /\ shared.num_branches = Tool!Increment(s.num_branches)
          /\ shared.prediction = p /\ shared.num_correct = n
          /\ shared.bhr = b /\ shared.bhr_current_index = e
      BY <2>2 DEF Analysed, GlobalsAt
    <3>2. v = h BY <2>4
    <3> HIDE DEF p, n, h, e, b
    <3>3. shared' = [num_instr |-> s.num_instr + 1,
                     num_branches |-> Tool!Increment(s.num_branches),
                     num_correct |-> n, bhr |-> b, bhr_current_index |-> e,
                     branch_history |-> h, prediction |-> p]
      BY ONLY <1>1, <2>2, <3>1, <3>2 DEF Globals
    <3> QED BY <3>3 DEF h, e, b
  <2> QED BY <2>2, <2>3, <2>5 DEF Advances, LastOf
<1> QED BY <1>3, <1>4, <1>5 DEF updateBranchHistory

\* So does every access of the analysis calls.
LEMMA AnalyseAdvances ==
  ASSUME ThreadsInv, NEW t \in Threads, Analyse(t), Prepared(t),
         NEW s \in Globals, Analysed(pc[t], local[t], shared, s)
  PROVE  Advances(t, s)
BY docountAdvances, CountAdvances, updateBHRIndexAdvances, setPredictionAdvances,
   ScoreAdvances, updateBHTAdvances, updateBranchHistoryAdvances DEF Analyse

-----------------------------------------------------------------------------
(***************************************************************************)
(* What every thread in the tool keeps.                                    *)
(***************************************************************************)

Inside == Points \ ({"application"} \cup Compiling)

\* A thread that goes from one analysis point to another.
LEMMA PreparedInside ==
  ASSUME ThreadsInv, NEW t \in Threads, NEW from \in Inside, NEW to \in Inside,
         Goto(t, from, to), local'[t].ins = local[t].ins,
         to \in BeforeBranch => local'[t].cells = << >>,
         UNCHANGED <<instrumented, running>>, Prepared(t)
  PROVE  Prepared(t)'
BY DEF Prepared, Goto, Inside, ThreadsInv, Typed

\* A thread that returns.
LEMMA PreparedOut ==
  ASSUME ThreadsInv, NEW t \in Threads, pc'[t] = "application", local'[t].cells = << >>
  PROVE  Prepared(t)'
BY DEF Prepared

\* The analysis calls are inside the tool and not in the callback.
LEMMA AnalysePoints ==
  ASSUME ThreadsInv, NEW t \in Threads, Analyse(t)
  PROVE  pc[t] \in Inside
BY DEF Analyse, docount, Count, updateBHRIndex, setPrediction, Score, updateBHT,
       updateBranchHistory, Load, Store, LoadCounter, StoreCounter, Goto, Inside, Points,
       Compiling

\* A step of the analysis calls keeps the instruction, and collects cells only
\* after RecordBranch has counted the branch.
Within(t) ==
  \/ pc'[t] = "application" /\ local'[t] = Idle
  \/ /\ pc'[t] \in Inside /\ local'[t].ins = local[t].ins
     /\ pc'[t] \in BeforeBranch =>
          pc[t] \in BeforeBranch /\ local'[t].cells = local[t].cells

\* A load of the analysis calls is such a step.
LEMMA LoadWithin ==
  ASSUME ThreadsInv, NEW t \in Threads, NEW from, NEW to \in Inside,
         NEW register \in {"taken", "number", "index", "cells"}, NEW value,
         Load(t, from, to, register, value),
         to \in BeforeBranch => from \in BeforeBranch /\ register # "cells"
  PROVE  Within(t)
<1>1. local[t] \in Registers BY Parts
<1>2. /\ pc[t] = from /\ pc'[t] = to
      /\ local'[t] = [local[t] EXCEPT ![register] = value]
  BY Loaded
<1> QED BY <1>1, <1>2 DEF Within, Registers

\* So is a store.
LEMMA StoreWithin ==
  ASSUME ThreadsInv, NEW t \in Threads, NEW from, NEW to \in Inside \cup {"application"},
         NEW global, NEW value, Store(t, from, to, global, value),
         to \in BeforeBranch => from \in BeforeBranch
  PROVE  Within(t)
<1>1. /\ pc[t] = from /\ pc'[t] = to
      /\ local'[t] = IF to = "application" THEN Idle ELSE local[t]
  BY Stored
<1> QED BY <1>1 DEF Within

\* And so is every access of the analysis calls.
LEMMA AnalyseWithin ==
  ASSUME ThreadsInv, NEW t \in Threads, Analyse(t)
  PROVE  Within(t)
<1> USE DEF Inside, Points, Compiling, BeforeBranch, BeforeInstr
<1>1. CASE docount(t) BY <1>1, LoadWithin, StoreWithin DEF docount
<1>2. CASE Count(t) BY <1>2, LoadWithin, StoreWithin DEF Count
<1>3. CASE updateBHRIndex(t) BY <1>3, LoadWithin, StoreWithin DEF updateBHRIndex
<1>4. CASE setPrediction(t)
  BY <1>4, LoadWithin, StoreWithin DEF setPrediction, LoadCounter
<1>5. CASE Score(t) BY <1>5, LoadWithin, StoreWithin DEF Score
<1>6. CASE updateBHT(t)
  BY <1>6, LoadWithin, StoreWithin DEF updateBHT, LoadCounter, StoreCounter
<1>7. CASE updateBranchHistory(t)
  BY <1>7, LoadWithin, StoreWithin DEF updateBranchHistory
<1> QED BY <1>1, <1>2, <1>3, <1>4, <1>5, <1>6, <1>7 DEF Analyse

\* Prepared is kept by the accesses of the thread itself.
LEMMA AnalysePrepares ==
  ASSUME ThreadsInv, NEW t \in Threads, Analyse(t), Prepared(t)
  PROVE  Prepared(t)'
<1>1. pc[t] \in Inside /\ Within(t) /\ UNCHANGED <<instrumented, running>>
  BY AnalysePoints, AnalyseWithin DEF Analyse
<1>2. /\ pc[t] # "application" /\ pc[t] \notin {"application"} \cup Compiling
      /\ pc[t] \in BeforeBranch => local[t].cells = << >>
  BY <1>1 DEF Inside, Prepared
<1>3. CASE pc'[t] = "application" /\ local'[t] = Idle
  <2>1. Idle.cells = << >> BY DEF Idle
  <2> QED BY <1>3, <2>1 DEF Prepared
<1>4. CASE /\ pc'[t] \in Inside /\ local'[t].ins = local[t].ins
           /\ pc'[t] \in BeforeBranch =>
                pc[t] \in BeforeBranch /\ local'[t].cells = local[t].cells
  <2>1. running /\ local[t].ins \in instrumented BY <1>1, <1>2 DEF Prepared
  <2> QED BY <1>1, <1>2, <1>4, <2>1 DEF Prepared, Inside
<1> QED BY <1>1, <1>3, <1>4 DEF Within

\* It is kept when the thread enters the tool.
LEMMA BeginPrepares ==
  ASSUME ThreadsInv, NEW t \in Threads, NEW ins \in Instructions,
         Execute(t, ins) \/ Compile(t, ins), Prepared(t)
  PROVE  Prepared(t)'
<1>1. local[t] \in Registers BY Parts
<1>2. /\ pc[t] = "application" /\ running' = running /\ running
      /\ instrumented' = instrumented
      /\ local'[t] = [local[t] EXCEPT !.ins = ins]
      /\ \/ pc'[t] = "load num_instr" /\ ins \in instrumented
         \/ pc'[t] = "Instruction"
  BY DEF Execute, Compile, Goto, ThreadsInv, Typed
<1>3. local[t].cells = << >> BY <1>2 DEF Prepared
<1>4. local'[t].ins = ins /\ local'[t].cells = << >> BY <1>1, <1>2, <1>3 DEF Registers
<1> QED BY <1>2, <1>4 DEF Prepared, Compiling

\* The accesses of the callback.
LEMMA InstructionMoves ==
  ASSUME ThreadsInv, NEW t \in Threads, Instruction(t)
  PROVE  \/ /\ pc[t] = "Instruction" /\ shared' = shared
            /\ local'[t] = [local[t] EXCEPT !["number"] = 0]
            /\ pc'[t] = IF shared.num_instr <= NUM_INSTR_SKIPPED
                          THEN "clear num_correct" ELSE "application"
         \/ /\ pc[t] = "clear num_correct" /\ pc'[t] = "clear num_branches"
            /\ shared' = [shared EXCEPT !["num_correct"] = 0]
            /\ local'[t] = local[t]
         \/ /\ pc[t] = "clear num_branches" /\ pc'[t] = "application"
            /\ shared' = [shared EXCEPT !["num_branches"] = 0]
            /\ local'[t] = Idle
<1>1. CASE Load(t, "Instruction",
                IF shared.num_instr <= NUM_INSTR_SKIPPED THEN "clear num_correct"
                ELSE "application", "number", 0)
  <2> DEFINE to == IF shared.num_instr <= NUM_INSTR_SKIPPED THEN "clear num_correct"
                   ELSE "application"
  <2>1. Load(t, "Instruction", to, "number", 0) BY <1>1
  <2> HIDE DEF to
  <2>2. /\ pc[t] = "Instruction" /\ pc'[t] = to /\ shared' = shared
        /\ local'[t] = [local[t] EXCEPT !["number"] = 0]
    BY <2>1, Loaded
  <2> QED BY <2>2 DEF to
<1>2. CASE Store(t, "clear num_correct", "clear num_branches", "num_correct", 0)
  <2> DEFINE to == "clear num_branches"
  <2>1. Store(t, "clear num_correct", to, "num_correct", 0) /\ to # "application" BY <1>2
  <2> HIDE DEF to
  <2>2. /\ pc[t] = "clear num_correct" /\ pc'[t] = to
        /\ shared' = [shared EXCEPT !["num_correct"] = 0]
        /\ local'[t] = local[t]
    BY <2>1, StoredInside
  <2> QED BY <2>2 DEF to
<1>3. CASE Store(t, "clear num_branches", "application", "num_branches", 0)
  <2> DEFINE to == "application"
  <2>1. Store(t, "clear num_branches", to, "num_branches", 0) /\ to = "application"
    BY <1>3
  <2> HIDE DEF to
  <2>2. /\ pc[t] = "clear num_branches" /\ pc'[t] = to
        /\ shared' = [shared EXCEPT !["num_branches"] = 0]
        /\ local'[t] = IF to = "application" THEN Idle ELSE local[t]
    BY <2>1, Stored
  <2> QED BY <2>1, <2>2
<1> QED BY <1>1, <1>2, <1>3 DEF Instruction

\* Prepared is kept by the callback.
LEMMA InstructionPrepares ==
  ASSUME ThreadsInv, NEW t \in Threads, Instruction(t), Prepared(t)
  PROVE  Prepared(t)'
<1>1. local[t] \in Registers BY Parts
<1>2. pc[t] \in Compiling BY InstructionMoves DEF Compiling
<1>3. running /\ local[t].cells = << >> /\ running' = running
  BY <1>2 DEF Prepared, Compiling, Instruction
<1>4. local'[t].cells = << >>
  <2>1. Idle.cells = << >> BY DEF Idle
  <2>2. [local[t] EXCEPT !["number"] = 0].cells = local[t].cells BY <1>1 DEF Registers
  <2>3. \/ local'[t] = Idle \/ local'[t] = local[t]
        \/ local'[t] = [local[t] EXCEPT !["number"] = 0]
    BY InstructionMoves
  <2> QED BY <1>3, <2>1, <2>2, <2>3
<1>5. pc'[t] \in {"application"} \cup Compiling BY InstructionMoves DEF Compiling
<1> QED BY <1>3, <1>4, <1>5 DEF Prepared

\* A step of one thread leaves the registers of the others alone.
LEMMA OthersStay ==
  ASSUME ThreadsInv, NEW t \in Threads, NEW u \in Threads, u # t,
         \/ \E ins \in Instructions : Execute(t, ins) \/ Compile(t, ins)
         \/ Analyse(t) \/ Instruction(t)
  PROVE  /\ pc'[u] = pc[u] /\ local'[u] = local[u] /\ running' = running
         /\ instrumented \subseteq instrumented'
<1> USE DEF ThreadsInv, Typed
<1>1. CASE \E ins \in Instructions : Execute(t, ins) \/ Compile(t, ins)
  BY <1>1 DEF Execute, Compile, Goto
<1>2. CASE Analyse(t)
  BY <1>2 DEF Analyse, docount, Count, updateBHRIndex, setPrediction, Score, updateBHT,
         updateBranchHistory, Load, Store, LoadCounter, StoreCounter, Goto
<1>3. CASE Instruction(t)
  BY <1>3 DEF Instruction, Load, Store, Goto
<1> QED BY <1>1, <1>2, <1>3

\* Prepared is kept by every step.
LEMMA NextPrepares ==
  ASSUME ThreadsInv, \A t \in Threads : Prepared(t), [Next]_vars
  PROVE  \A t \in Threads : Prepared(t)'
<1>1. ASSUME NEW t \in Threads,
             \/ \E ins \in Instructions : Execute(t, ins) \/ Compile(t, ins)
             \/ Analyse(t) \/ Instruction(t)
      PROVE  \A u \in Threads : Prepared(u)'
  <2>1. Prepared(t)'
    BY <1>1, BeginPrepares, AnalysePrepares, InstructionPrepares
  <2>2. ASSUME NEW u \in Threads, u # t PROVE Prepared(u)'
    <3>1. /\ pc'[u] = pc[u] /\ local'[u] = local[u] /\ running' = running
          /\ instrumented \subseteq instrumented'
      BY <1>1, <2>2, OthersStay
    <3> QED BY <3>1 DEF Prepared
  <2> QED BY <2>1, <2>2
<1>2. CASE Fini
  BY <1>2 DEF Fini, InTool, Prepared
<1>3. CASE UNCHANGED vars BY <1>3 DEF vars, Prepared
<1> QED BY <1>1, <1>2, <1>3 DEF Next

-----------------------------------------------------------------------------
(***************************************************************************)
(* The tool that takes an analysis call or callback as one step, on the    *)
(* globals it was settled with.                                            *)
(***************************************************************************)

\* The operators that SettledTool has by another name.
LEMMA SettledNames ==
  /\ SettledTool!SATURATING_NUM = Most
  /\ SettledTool!BHR_ENTRIES = Entries
  /\ \A n : SettledTool!Increment(n) = Tool!Increment(n)
  /\ \A h : SettledTool!IndexOf(h) = PackBits(h, BHR_BITS - 1)
  /\ \A c : SettledTool!Predict(c) = Predict(c)
  /\ \A c, taken : SettledTool!Train(c, taken, Most) = Train(c, taken, Most)
  /\ \A h, v : SettledTool!ShiftIn(h, BHR_BITS, v) = ShiftIn(h, BHR_BITS, v)
<1>1. \A n : SettledTool!pow2(n) = pow2(n) BY DEF SettledTool!pow2, pow2
<1>2. SettledTool!SATURATING_NUM = Most
  BY <1>1 DEF SettledTool!SATURATING_NUM, SettledTool!SaturatingNum, Most, SaturatingNum
<1>3. SettledTool!BHR_ENTRIES = Entries BY <1>1 DEF SettledTool!BHR_ENTRIES, Entries
<1>4. \A n : SettledTool!Increment(n) = Tool!Increment(n)
  BY DEF SettledTool!Increment, Tool!Increment
<1>5. ASSUME NEW h PROVE SettledTool!IndexOf(h) = PackBits(h, BHR_BITS - 1)
  <2> DEFINE a == [i \in 0 .. BHR_BITS - 1 - 1 |-> IF h[i] THEN pow2(i) ELSE 0]
             b == [i \in 0 .. BHR_BITS - 1 - 1 |-> IF h[i] THEN SettledTool!pow2(i) ELSE 0]
  <2>1. a = b BY <1>1
  <2>2. \A f, n : SettledTool!SumBelow(f, n) = SumBelow(f, n)
    BY DEF SettledTool!SumBelow, SumBelow
  <2>3. SettledTool!IndexOf(h) = SettledTool!SumBelow(b, BHR_BITS - 1)
    BY DEF SettledTool!IndexOf, SettledTool!PackBits
  <2>4. PackBits(h, BHR_BITS - 1) = SumBelow(a, BHR_BITS - 1) BY DEF PackBits
  <2> QED BY <2>1, <2>2, <2>3, <2>4
<1>6. \A c : SettledTool!Predict(c) = Predict(c) BY DEF SettledTool!Predict, Predict
<1>7. \A c, taken : SettledTool!Train(c, taken, Most) = Train(c, taken, Most)
  BY DEF SettledTool!Train, Train, SettledTool!Clamp, Clamp
<1>8. \A h, v : SettledTool!ShiftIn(h, BHR_BITS, v) = ShiftIn(h, BHR_BITS, v)
  BY DEF SettledTool!ShiftIn, ShiftIn
<1> QED BY <1>2, <1>3, <1>4, <1>5, <1>6, <1>7, <1>8

\* What TotalsMakeSense says of globals.
Sense(g) ==
  g.num_instr <= INT_MAX =>
    /\ 0 <= g.num_correct /\ g.num_correct <= g.num_branches
    /\ g.num_branches <= g.num_instr

\* Sense is TotalsMakeSense of the settled globals and of the shared ones.
LEMMA SenseNames ==
  /\ SettledTool!TotalsMakeSense <=> Sense(settled)
  /\ Tool!TotalsMakeSense <=> Sense(shared)
BY DEF SettledTool!TotalsMakeSense, Tool!TotalsMakeSense, Sense

\* One branch more leaves the totals sound.
LEMMA BranchMakesSense ==
  ASSUME NEW s \in Globals, Sense(s), NEW g, g.num_instr = s.num_instr + 1,
         g.num_branches = Tool!Increment(s.num_branches),
         g.num_correct \in {s.num_correct, Tool!Increment(s.num_correct)}
  PROVE  Sense(g)
<1>1. /\ s.num_instr \in Nat /\ s.num_branches \in Int /\ s.num_correct \in Int
      /\ INT_MAX \in Nat
  BY Sizes, ThreadsAssumption DEF Globals
<1>2. SUFFICES ASSUME s.num_instr + 1 <= INT_MAX
               PROVE  /\ 0 <= g.num_correct /\ g.num_correct <= g.num_branches
                      /\ g.num_branches <= g.num_instr
  BY DEF Sense
<1>3. /\ 0 <= s.num_correct /\ s.num_correct <= s.num_branches
      /\ s.num_branches <= s.num_instr
  BY <1>1, <1>2 DEF Sense
<1> QED BY <1>1, <1>2, <1>3 DEF Tool!Increment

\* The last access of the analysis calls of an instruction makes a step.
LEMMA LastIsStep ==
  ASSUME ThreadsInv, NEW t \in Threads, Prepared(t), pc[t] \in Inside,
         settled \in Globals, settled.num_instr < MaxInstr, Sense(settled),
         LastOf(t, settled), settled' = shared', UNCHANGED <<instrumented, running>>
  PROVE  SettledTool!Next /\ Sense(settled')
<1> DEFINE ins == local[t].ins
<1>1. running /\ ins \in instrumented /\ ins \in Instructions
  <2>1. local[t] \in Registers BY Parts
  <2>2. pc[t] \notin {"application"} \cup Compiling BY DEF Inside
  <2> QED BY <2>1, <2>2 DEF Prepared, Registers
<1>2. CASE /\ ins \notin Branches
           /\ shared' = [settled EXCEPT !.num_instr = settled.num_instr + 1]
  <2>1. /\ settled'.num_instr = settled.num_instr + 1
        /\ settled'.num_branches = settled.num_branches
        /\ settled'.num_correct = settled.num_correct
        /\ settled'.bhr = settled.bhr
        /\ settled'.bhr_current_index = settled.bhr_current_index
        /\ settled'.branch_history = settled.branch_history
        /\ settled'.prediction = settled.prediction
    BY <1>2 DEF Globals
  <2>2. SettledTool!ExecuteOther(ins)
    BY <1>1, <1>2, <2>1 DEF SettledTool!ExecuteOther, SettledTool!docount
  <2>3. UNCHANGED SettledTool!predictorVars BY <2>1 DEF SettledTool!predictorVars
  <2>4. SettledTool!Next
    BY <1>1, <2>2, <2>3 DEF SettledTool!Next, SettledTool!HostStep
  <2>5. Sense(settled')
    <3>1. /\ settled.num_instr \in Nat /\ settled.num_branches \in Int
          /\ settled.num_correct \in Int /\ INT_MAX \in Nat
      BY Sizes, ThreadsAssumption DEF Globals
    <3> QED BY <2>1, <3>1 DEF Sense
  <2> QED BY <2>4, <2>5
<1>3. ASSUME NEW taken \in BOOLEAN, ins \in Branches,
             shared' =
               [num_instr |-> settled.num_instr + 1,
                num_branches |-> Tool!Increment(settled.num_branches),
                num_correct |-> IF Predict(settled.bhr[EntryOf(settled)]) = taken
                                  THEN Tool!Increment(settled.num_correct)
                                  ELSE settled.num_correct,
                bhr |-> Trained(settled, taken), bhr_current_index |-> EntryOf(settled),
                branch_history |-> ShiftIn(settled.branch_history, BHR_BITS, taken),
                prediction |-> Predict(settled.bhr[EntryOf(settled)])]
      PROVE  SettledTool!Next /\ Sense(settled')
  <2> DEFINE e == EntryOf(settled)
             p == Predict(settled.bhr[e])
  <2>1. /\ settled'.num_instr = settled.num_instr + 1
        /\ settled'.num_branches = Tool!Increment(settled.num_branches)
        /\ settled'.num_correct = IF p = taken THEN Tool!Increment(settled.num_correct)
                                  ELSE settled.num_correct
        /\ settled'.bhr = Trained(settled, taken)
        /\ settled'.bhr_current_index = e
        /\ settled'.branch_history = ShiftIn(settled.branch_history, BHR_BITS, taken)
        /\ settled'.prediction = p
    BY <1>3
  <2>2. settled'.bhr =
          [settled.bhr EXCEPT ![e] = Train(settled.bhr[e], taken, Most)]
    BY <2>1 DEF Trained
  <2>3. e = SettledTool!IndexOf(settled.branch_history)
    BY SettledNames DEF EntryOf
  <2> HIDE DEF e
  <2>4. SettledTool!ExecuteBranch(ins)
    BY <1>1, <1>3, <2>1, SettledNames DEF SettledTool!ExecuteBranch, SettledTool!docount
  <2>5. SettledTool!updateBHRIndex BY <2>1, <2>3 DEF SettledTool!updateBHRIndex
  <2>6. SettledTool!setPrediction BY <2>1, SettledNames DEF SettledTool!setPrediction
  <2>7. SettledTool!Score(settled'.prediction = taken)
    BY <2>1, SettledNames DEF SettledTool!Score
  <2>8. SettledTool!updateBHT(taken)
    BY <2>1, <2>2, SettledNames DEF SettledTool!updateBHT
  <2>9. SettledTool!updateBranchHistory(taken)
    BY <2>1, SettledNames DEF SettledTool!updateBranchHistory
  <2>10. SettledTool!RecordBranch(ins, taken)
    BY <2>4, <2>5, <2>6, <2>7, <2>8, <2>9 DEF SettledTool!RecordBranch
  <2>11. Sense(settled') BY <2>1, BranchMakesSense
  <2> QED BY <1>3, <2>10, <2>11 DEF SettledTool!Next, SettledTool!BranchExecuted
<1> QED BY <1>2, <1>3 DEF LastOf

\* The return of the callback makes a step.
LEMMA CallbackIsStep ==
  ASSUME ThreadsInv, NEW t \in Threads, Prepared(t), Instruction(t),
         settled \in Globals, Sense(settled), Compiled(pc[t], shared, settled),
         pc'[t] = "application", settled' = shared'
  PROVE  SettledTool!Next /\ Sense(settled')
<1>1. /\ running /\ running' = running /\ local[t].ins \in Instructions
      /\ instrumented' = instrumented \cup {local[t].ins}
  <2>1. local[t] \in Registers BY Parts
  <2>2. pc[t] # "application" BY InstructionMoves
  <2> QED BY <2>1, <2>2 DEF Prepared, Registers, Instruction
<1>2. \/ settled' = settled /\ ~(settled.num_instr <= NUM_INSTR_SKIPPED)
      \/ /\ settled' = [settled EXCEPT !.num_correct = 0, !.num_branches = 0]
         /\ settled.num_instr <= NUM_INSTR_SKIPPED
  <2>1. CASE /\ pc[t] = "Instruction" /\ shared' = shared
             /\ pc'[t] = IF shared.num_instr <= NUM_INSTR_SKIPPED
                           THEN "clear num_correct" ELSE "application"
    BY <2>1 DEF Compiled
  <2>2. CASE /\ pc[t] = "clear num_branches"
             /\ shared' = [shared EXCEPT !["num_branches"] = 0]
    BY <2>2 DEF Compiled, Globals
  <2> QED BY <2>1, <2>2, InstructionMoves
<1>3. /\ settled'.num_instr = settled.num_instr
      /\ settled'.bhr = settled.bhr
      /\ settled'.bhr_current_index = settled.bhr_current_index
      /\ settled'.branch_history = settled.branch_history
      /\ settled'.prediction = settled.prediction
      /\ IF settled.num_instr <= NUM_INSTR_SKIPPED
           THEN settled'.num_branches = 0 /\ settled'.num_correct = 0
           ELSE settled'.num_branches = settled.num_branches
                /\ settled'.num_correct = settled.num_correct
  BY <1>2 DEF Globals
<1>4. SettledTool!Instruction(local[t].ins)
  BY <1>1, <1>3 DEF SettledTool!Instruction, SettledTool!score
<1>5. UNCHANGED SettledTool!predictorVars BY <1>3 DEF SettledTool!predictorVars
<1>6. Sense(settled')
  <2>1. settled.num_instr \in Nat BY DEF Globals
  <2> QED BY <1>3, <2>1 DEF Sense
<1> QED BY <1>1, <1>4, <1>5, <1>6 DEF SettledTool!Next, SettledTool!HostStep

-----------------------------------------------------------------------------
(***************************************************************************)
(* Every step, as long as no two threads are in the tool at once.          *)
(***************************************************************************)

\* What a step does as far as the settled globals are concerned.
Steps ==
  /\ Alone' /\ Sense(settled')
  /\ SettledTool!Next \/ UNCHANGED SettledTool!vars

\* A thread that stays in the tool, alone, changes nothing settled.
LEMMA StaysAlone ==
  ASSUME NEW t \in Threads, InTool' = {t},
         IF pc'[t] \in Compiling THEN Compiled(pc'[t], shared', settled)
                                 ELSE Analysed(pc'[t], local'[t], shared', settled),
         settled' = settled, UNCHANGED <<instrumented, running>>, Sense(settled)
  PROVE  Steps
<1>1. Alone' BY DEF Alone
<1>2. UNCHANGED SettledTool!vars
  BY DEF SettledTool!vars, SettledTool!toolVars, SettledTool!predictorVars
<1> QED BY <1>1, <1>2 DEF Steps

\* A thread that leaves the tool settles it.
LEMMA LeavesSettled ==
  ASSUME InTool' = {}, settled' = shared'
  PROVE  Alone'
BY DEF Alone

\* Every step, by the thread it moves.
LEMMA StepsAlone ==
  ASSUME ThreadsInv, ThreadsInv', AloneInv, Next, ~raced'
  PROVE  Steps
<1>1. /\ \A t \in Threads : Prepared(t)
      /\ settled \in Globals /\ ~raced /\ Alone /\ Sense(settled)
      /\ \A t, u \in InTool' : t = u
      /\ settled' = IF InTool' = {} THEN shared' ELSE settled
  BY SenseNames DEF AloneInv, Next
<1>2. ASSUME NEW t \in Threads, pc[t] = "application", pc'[t] # "application",
             \A u \in Threads \ {t} : pc'[u] = pc[u]
      PROVE  InTool' = {t} /\ shared = settled /\ settled' = settled
  <2>1. InTool' = {t} BY <1>1, <1>2 DEF InTool
  <2>2. InTool = {} BY <1>2, <2>1 DEF InTool
  <2> QED BY <1>1, <2>1, <2>2 DEF Alone
<1>3. ASSUME NEW t \in Threads, pc[t] # "application",
             \A u \in Threads \ {t} : pc'[u] = pc[u]
      PROVE  /\ IF pc[t] \in Compiling THEN Compiled(pc[t], shared, settled)
                ELSE Analysed(pc[t], local[t], shared, settled)
             /\ pc'[t] = "application" => InTool' = {} /\ settled' = shared'
             /\ pc'[t] # "application" => InTool' = {t} /\ settled' = settled
  <2>1. InTool = {t} BY <1>1, <1>3 DEF Alone, InTool
  <2>2. \A u \in Threads \ {t} : pc'[u] = "application" BY <1>3, <2>1 DEF InTool
  <2>3. InTool' = IF pc'[t] = "application" THEN {} ELSE {t} BY <2>2 DEF InTool
  <2> QED BY <1>1, <2>1, <2>3 DEF Alone
<1>4. ASSUME NEW t \in Threads, NEW ins \in Instructions, Execute(t, ins)
      PROVE  Steps
  <2>1. /\ pc[t] = "application" /\ pc'[t] = "load num_instr"
        /\ \A u \in Threads \ {t} : pc'[u] = pc[u]
        /\ shared' = shared /\ UNCHANGED <<instrumented, running>>
    BY <1>4 DEF Execute, Goto, ThreadsInv, Typed
  <2>2. InTool' = {t} /\ shared = settled /\ settled' = settled BY <1>2, <2>1
  <2>3. Analysed("load num_instr", local'[t], shared', settled)
    BY <2>1, <2>2
       DEF Analysed, GlobalsAt, RegistersAt, BeforeInstr, BeforeBranch, BeforeIndex,
           BeforePrediction, BeforeCorrect, BeforeTraining, BeforeHistory
  <2>4. pc'[t] \notin Compiling BY <2>1 DEF Compiling
  <2> QED BY <1>1, <2>1, <2>2, <2>3, <2>4, StaysAlone
<1>5. ASSUME NEW t \in Threads, NEW ins \in Instructions, Compile(t, ins)
      PROVE  Steps
  <2>1. /\ pc[t] = "application" /\ pc'[t] = "Instruction"
        /\ \A u \in Threads \ {t} : pc'[u] = pc[u]
        /\ shared' = shared /\ UNCHANGED <<instrumented, running>>
    BY <1>5 DEF Compile, Goto, ThreadsInv, Typed
  <2>2. InTool' = {t} /\ shared = settled /\ settled' = settled BY <1>2, <2>1
  <2>3. Compiled("Instruction", shared', settled) BY <2>1, <2>2 DEF Compiled
  <2>4. pc'[t] \in Compiling BY <2>1 DEF Compiling
  <2> QED BY <1>1, <2>1, <2>2, <2>3, <2>4, StaysAlone
<1>6. ASSUME NEW t \in Threads, Analyse(t) PROVE Steps
  <2>1. /\ pc[t] \in Inside /\ Prepared(t) /\ UNCHANGED <<instrumented, running, begun>>
        /\ \A u \in Threads \ {t} : pc'[u] = pc[u]
    BY <1>1, <1>6, AnalysePoints, OthersStay DEF Analyse
  <2>2. pc[t] # "application" /\ pc[t] \notin Compiling BY <2>1 DEF Inside
  <2>3. /\ Analysed(pc[t], local[t], shared, settled)
        /\ pc'[t] = "application" => InTool' = {} /\ settled' = shared'
        /\ pc'[t] # "application" => InTool' = {t} /\ settled' = settled
    BY <1>3, <2>1, <2>2
  <2>4. Advances(t, settled) BY <1>1, <1>6, <2>1, <2>3, AnalyseAdvances
  <2>5. CASE /\ pc'[t] \notin {"application"} \cup Compiling
             /\ Analysed(pc'[t], local'[t], shared', settled)
    BY <1>1, <2>1, <2>3, <2>5, StaysAlone
  <2>6. CASE LastOf(t, settled)
    <3>1. InTool' = {} /\ settled' = shared' BY <2>3, <2>6 DEF LastOf
    <3>2. settled.num_instr < MaxInstr
      <4>1. shared'["num_instr"] <= begun' /\ begun' \in 0 .. MaxInstr
        <5>1. ThreadsInv' => NeverOvercounts' BY TotalsBounded, PTL
        <5> QED BY <5>1 DEF NeverOvercounts, ThreadsInv, Typed
      <4>2. shared'.num_instr = settled.num_instr + 1
        BY <1>1, <2>6 DEF LastOf, Globals
      <4>3. settled.num_instr \in Nat /\ MaxInstr \in Nat
        BY <1>1, ThreadsAssumption DEF Globals
      <4> QED BY <4>1, <4>2, <4>3
    <3>3. SettledTool!Next /\ Sense(settled')
      BY <1>1, <2>1, <2>6, <3>1, <3>2, LastIsStep
    <3> QED BY <3>1, <3>3, LeavesSettled DEF Steps
  <2> QED BY <2>4, <2>5, <2>6 DEF Advances
<1>7. ASSUME NEW t \in Threads, Instruction(t) PROVE Steps
  <2>1. /\ pc[t] \in Compiling /\ Prepared(t)
        /\ \A u \in Threads \ {t} : pc'[u] = pc[u]
    BY <1>1, <1>7, InstructionMoves, OthersStay DEF Compiling
  <2>2. pc[t] # "application" BY <2>1 DEF Compiling
  <2>3. /\ Compiled(pc[t], shared, settled)
        /\ pc'[t] = "application" => InTool' = {} /\ settled' = shared'
        /\ pc'[t] # "application" => InTool' = {t} /\ settled' = settled
    BY <1>3, <2>1, <2>2
  <2>4. CASE pc'[t] = "application"
    <3>1. SettledTool!Next /\ Sense(settled')
      BY <1>1, <1>7, <2>1, <2>3, <2>4, CallbackIsStep
    <3> QED BY <2>3, <2>4, <3>1, LeavesSettled DEF Steps
  <2>5. CASE pc'[t] # "application"
    <3>1. UNCHANGED <<instrumented, running>> BY <1>7, <2>5 DEF Instruction
    <3>2. pc'[t] \in Compiling /\ Compiled(pc'[t], shared', settled)
      BY <1>7, <2>3, <2>5, InstructionMoves DEF Compiled, Compiling
    <3> QED BY <1>1, <2>3, <2>5, <3>1, <3>2, StaysAlone
  <2> QED BY <2>4, <2>5
<1>8. ASSUME Fini PROVE Steps
  <2>1. /\ running /\ running' = FALSE /\ InTool = {} /\ InTool' = {}
        /\ UNCHANGED <<instrumented, shared>>
    BY <1>8 DEF Fini, InTool
  <2>2. shared = settled /\ settled' = shared' /\ settled' = settled
    BY <1>1, <2>1 DEF Alone
  <2>3. SettledTool!Fini /\ UNCHANGED SettledTool!predictorVars
    BY <2>1, <2>2 DEF SettledTool!Fini, SettledTool!predictorVars
  <2>4. SettledTool!Next BY <2>3 DEF SettledTool!Next, SettledTool!HostStep
  <2> QED BY <1>1, <2>1, <2>2, <2>4, LeavesSettled DEF Steps
<1> QED BY <1>4, <1>5, <1>6, <1>7, <1>8 DEF Next

\* AloneInv is inductive, and a step that does not race is one of SettledTool.
LEMMA NextAlone ==
  ThreadsInv /\ ThreadsInv' /\ AloneInv /\ [Next]_vars =>
    AloneInv' /\ [SettledTool!Next \/ raced']_(SettledTool!vars)
<1> SUFFICES ASSUME ThreadsInv, ThreadsInv', AloneInv, [Next]_vars
             PROVE  AloneInv' /\ [SettledTool!Next \/ raced']_(SettledTool!vars)
  OBVIOUS
<1>1. \A t \in Threads : Prepared(t)' BY NextPrepares DEF AloneInv
<1>2. settled' \in Globals
  <2>1. settled' \in {settled, shared'} BY DEF Next, vars
  <2> QED BY <2>1 DEF AloneInv, ThreadsInv, Typed
<1>3. CASE Next /\ raced' BY <1>1, <1>2, <1>3 DEF AloneInv
<1>4. CASE Next /\ ~raced'
  <2>1. Steps BY <1>4, StepsAlone
  <2>2. SettledTool!TotalsMakeSense' BY <2>1 DEF Steps, SettledTool!TotalsMakeSense, Sense
  <2> QED BY <1>1, <1>2, <2>1, <2>2 DEF AloneInv, Steps
<1>5. CASE UNCHANGED vars
  <2>1. UNCHANGED SettledTool!vars
    BY <1>5 DEF vars, SettledTool!vars, SettledTool!toolVars, SettledTool!predictorVars
  <2>2. ~raced' => Alone' /\ SettledTool!TotalsMakeSense'
    <3>1. Alone => Alone' BY <1>5 DEF vars, Alone, InTool
    <3>2. SettledTool!TotalsMakeSense => SettledTool!TotalsMakeSense'
      BY <1>5 DEF vars, SettledTool!TotalsMakeSense
    <3> QED BY <1>5, <3>1, <3>2 DEF vars, AloneInv
  <2> QED BY <1>1, <1>2, <2>1, <2>2 DEF AloneInv
<1> QED BY <1>3, <1>4, <1>5

\* The initial states.
LEMMA InitAlone == Init => AloneInv /\ SettledTool!Init
<1> SUFFICES ASSUME Init PROVE AloneInv /\ SettledTool!Init OBVIOUS
<1>1. shared \in Globals BY InitInv DEF ThreadsInv, Typed
<1>2. settled \in Globals /\ shared = settled BY <1>1 DEF Init
<1>3. \A t \in Threads : Prepared(t)
  BY DEF Init, Prepared, Idle
<1>4. Alone BY <1>2 DEF Alone, Init, InTool
<1>5. /\ settled.num_instr = 0 /\ settled.num_branches = 0 /\ settled.num_correct = 0
      /\ settled.bhr = [i \in 0 .. Entries - 1 |-> 1] /\ settled.bhr_current_index = 0
      /\ settled.branch_history = [i \in 0 .. BHR_BITS - 1 |-> FALSE]
      /\ settled.prediction = FALSE /\ instrumented = {} /\ running = TRUE
  BY DEF Init, Entries, Cells
<1>6. SettledTool!TotalsMakeSense BY <1>5 DEF SettledTool!TotalsMakeSense
<1>7. SettledTool!Init
  BY <1>5, SettledNames DEF SettledTool!Init, SettledTool!ToolInit
<1> QED BY <1>2, <1>3, <1>4, <1>6, <1>7 DEF AloneInv

\* The inductive invariant of an execution that has not raced: the thread in
\* the tool, if there is one, has changed the globals just as far as its point
\* in the analysis call or callback says.
THEOREM AloneInvariance == Spec => []AloneInv
<1>1. Init => AloneInv BY InitAlone
<1>2. ThreadsInv /\ ThreadsInv' /\ AloneInv /\ [Next]_vars => AloneInv' BY NextAlone
<1> QED BY <1>1, <1>2, Invariance, PTL DEF Spec

\* Until two threads are in the tool at once, the single accesses of an
\* analysis call or callback amount to the one step of CorrelatedPredictor:
\* what is proved of that module holds of the accesses too.
THEOREM AtomicUnlessRaced == Spec => ImplementsToolUnlessRaced
<1>1. Init => SettledTool!Init BY InitAlone
<1>2. ThreadsInv /\ ThreadsInv' /\ AloneInv /\ [Next]_vars =>
        [SettledTool!Next \/ raced']_(SettledTool!vars)
  BY NextAlone
<1> QED BY <1>1, <1>2, Invariance, AloneInvariance, PTL
       DEF Spec, ImplementsToolUnlessRaced

\* The totals that Fini writes make sense unless threads have raced.
THEOREM TotalsSoundUnlessRaced == Spec => []TotalsMakeSenseUnlessRaced
<1>1. AloneInv => TotalsMakeSenseUnlessRaced
  <2> SUFFICES ASSUME AloneInv, ~running, ~raced PROVE Tool!TotalsMakeSense
    BY DEF TotalsMakeSenseUnlessRaced
  <2>1. InTool = {} BY DEF AloneInv, Prepared, InTool
  <2>2. shared = settled /\ Sense(settled) BY <2>1, SenseNames DEF AloneInv, Alone
  <2> QED BY <2>2, SenseNames
<1> QED BY <1>1, AloneInvariance, PTL

=============================================================================
