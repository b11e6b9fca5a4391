------------------------ MODULE PathPredictor_proofs ------------------------
(***************************************************************************)
(* What holds of itrace.cpp's predictor for every depth of the paths, size *)
(* of the table, set of addresses, length of the start-up phase and bound  *)
(* MaxInstr.                                                               *)
(***************************************************************************)
EXTENDS PathPredictor, PredictorLemmas

\* No counter rests at 0: updateBHT steps over it.
NoNeutralCounter == \A i \in DOMAIN bhr : bhr[i] # 0

\* The score runs ahead of the path by nothing until the path is full, though
\* it may be cleared or wrap around.
HistoryKeepsUp ==
  Len(branch_history) >= PATH_DEPTH \/ num_branches <= Len(branch_history)

\* The inductive invariant.
PathInv ==
  /\ TypeOK /\ NoNeutralCounter /\ TotalsMakeSense
  /\ NoDuplicatePaths
  /\ HistoryKeepsUp /\ NoPredictionFromColdPath

-----------------------------------------------------------------------------

LEMMA PathsAreSequences == Paths = {s \in Seq(Addresses) : Len(s) <= PATH_DEPTH}
<1>1. ASSUME NEW n \in 0 .. PATH_DEPTH, NEW s \in [1 .. n -> Addresses]
      PROVE  s \in Seq(Addresses) /\ Len(s) <= PATH_DEPTH
  <2>1. n \in Nat BY PathAssumption
  <2>2. s \in Seq(Addresses) BY <2>1, SeqDef
  <2>3. Len(s) = n BY <2>1, <2>2, LenProperties
  <2> QED BY <2>2, <2>3
<1>2. ASSUME NEW s \in Seq(Addresses), Len(s) <= PATH_DEPTH
      PROVE  s \in Paths
  <2>1. Len(s) \in 0 .. PATH_DEPTH /\ s \in [1 .. Len(s) -> Addresses]
    BY <1>2, LenProperties, PathAssumption
  <2> QED BY <2>1 DEF Paths
<1> QED BY <1>1, <1>2 DEF Paths

LEMMA HistoryShifts ==
  ASSUME branch_history \in Paths, NEW address \in Addresses,
         updateBranchHistory(address)
  PROVE  /\ branch_history' \in Paths
         /\ Len(branch_history') = IF Len(branch_history) < PATH_DEPTH
                                     THEN Len(branch_history) + 1 ELSE PATH_DEPTH
<1> DEFINE longer == Append(branch_history, address)
<1>1. branch_history \in Seq(Addresses) /\ Len(branch_history) <= PATH_DEPTH
  BY PathsAreSequences
<1>2. /\ longer \in Seq(Addresses) /\ Len(longer) = Len(branch_history) + 1
      /\ longer # << >> /\ Len(branch_history) \in Nat
  BY <1>1, AppendProperties, LenProperties
<1>3. Tail(longer) \in Seq(Addresses) /\ Len(Tail(longer)) = Len(branch_history)
  BY <1>2, HeadTailProperties
<1>4. branch_history' = IF Len(longer) > PATH_DEPTH THEN Tail(longer) ELSE longer
  BY DEF updateBranchHistory
<1> HIDE DEF longer
<1>5. /\ branch_history' \in Seq(Addresses) /\ Len(branch_history') <= PATH_DEPTH
      /\ Len(branch_history') = IF Len(branch_history) < PATH_DEPTH
                                  THEN Len(branch_history) + 1 ELSE PATH_DEPTH
  BY <1>1, <1>2, <1>3, <1>4, PathAssumption
<1> QED BY <1>5, PathsAreSequences

\* A lookup: the key is then in the entry selected, nothing is in the table
\* twice, and the types are kept.
LEMMA LookupFinds ==
  ASSUME Table!TableTypeOK, NEW key \in Paths, Table!Lookup(key)
  PROVE  /\ Table!TableTypeOK'
         /\ bhr_entries'[bhr_current_index'] = key
         /\ Table!NoDuplicates => Table!NoDuplicates'
<1> USE DEF Table!TableTypeOK, Table!Slots, Table!Matches
<1>1. CASE Table!Found(key)
  BY <1>1 DEF Table!Found, Table!Lookup, Table!UsedAfter, Table!NoDuplicates
<1>2. CASE Table!Filled(key)
  <2> DEFINE slot == IF pathsUsed = TABLE_ENTRIES THEN 0 ELSE pathsUsed
  <2>1. /\ \A i \in 0 .. TABLE_ENTRIES - 1 : bhr_entries[i] # key
        /\ bhr_entries' = [bhr_entries EXCEPT ![slot] = key]
        /\ bhr_current_index' = slot /\ pathsUsed' = slot + 1
    BY <1>2 DEF Table!Filled, Table!Lookup, Table!UsedAfter, Table!NextSlot
  <2>2. slot \in 0 .. TABLE_ENTRIES - 1 BY PathAssumption
  <2> HIDE DEF slot
  <2>3. Table!TableTypeOK' BY <2>1, <2>2, PathAssumption
  <2>4. bhr_entries'[bhr_current_index'] = key BY <2>1, <2>2
  <2>5. Table!NoDuplicates => Table!NoDuplicates'
    BY <2>1, <2>2 DEF Table!NoDuplicates
  <2> QED BY <2>3, <2>4, <2>5
<1> QED BY <1>1, <1>2 DEF Table!Lookup, Table!Place

-----------------------------------------------------------------------------

LEMMA SaturatingNumIsPositive == SATURATING_NUM \in Nat \ {0}
BY PathAssumption, SaturatingNumPositive DEF SATURATING_NUM

LEMMA InitPathInv == Init => PathInv
<1> SUFFICES ASSUME Init PROVE PathInv OBVIOUS
<1>1. ToolTypeOK /\ TotalsMakeSense BY ToolInitScores DEF Init
<1>2. << >> \in Paths /\ Len(<< >>) = 0
  BY PathsAreSequences, PathAssumption, EmptySeq
<1>3. Table!TableTypeOK /\ NoDuplicatePaths
  BY <1>2, PathAssumption
  DEF Init, Table!TableInit, Table!TableTypeOK, Table!Slots, NoDuplicatePaths,
      Table!NoDuplicates
<1>4. TypeOK
  <2>1. bhr \in [0 .. TABLE_ENTRIES - 1 -> -SATURATING_NUM .. SATURATING_NUM]
    BY SaturatingNumIsPositive DEF Init
  <2>2. branch_history \in Paths /\ prediction \in BOOLEAN BY <1>2 DEF Init
  <2> QED BY <1>1, <1>3, <2>1, <2>2 DEF TypeOK
<1>5. NoNeutralCounter BY DEF Init, NoNeutralCounter
<1>6. HistoryKeepsUp BY <1>2 DEF Init, ToolInit, HistoryKeepsUp
<1>7. NoPredictionFromColdPath BY DEF Init, NoPredictionFromColdPath
<1> QED BY <1>1, <1>3, <1>4, <1>5, <1>6, <1>7 DEF PathInv

LEMMA BranchPathInv ==
  ASSUME PathInv, NEW ins \in Branches, NEW taken \in BOOLEAN,
         NEW address \in Addresses, RecordBranch(ins, taken, address)
  PROVE  PathInv'
<1> DEFINE k == bhr_current_index'
           c == Train(bhr[k], taken, SATURATING_NUM)
<1>1. /\ Table!TableTypeOK'
      /\ bhr_entries'[k] = branch_history
      /\ Table!NoDuplicates'
  BY LookupFinds
  DEF PathInv, TypeOK, NoDuplicatePaths, RecordBranch, updateBHRIndex
<1>2. k \in 0 .. TABLE_ENTRIES - 1
  BY <1>1 DEF Table!TableTypeOK, Table!Slots
<1>3. c \in -SATURATING_NUM .. SATURATING_NUM /\ c # 0
  BY <1>2, SaturatingNumIsPositive, TrainCounter DEF PathInv, TypeOK, NoNeutralCounter
<1>4. bhr' = [bhr EXCEPT ![k] = c] BY DEF RecordBranch, updateBHT
<1>5. /\ branch_history' \in Paths
      /\ Len(branch_history') = IF Len(branch_history) < PATH_DEPTH
                                  THEN Len(branch_history) + 1 ELSE PATH_DEPTH
  BY HistoryShifts DEF PathInv, TypeOK, RecordBranch
<1>6. ToolTypeOK' /\ TotalsMakeSense'
  <2>1. (prediction' = taken) \in BOOLEAN OBVIOUS
  <2> QED BY <2>1, BranchScores DEF RecordBranch, PathInv, TypeOK
<1>7. prediction' = IF num_branches' < PATH_DEPTH THEN FALSE ELSE bhr[k] > 0
  BY DEF RecordBranch, setPrediction, Predict
<1> HIDE DEF k, c
<1>8. bhr' \in [0 .. TABLE_ENTRIES - 1 -> -SATURATING_NUM .. SATURATING_NUM]
  BY <1>2, <1>3, <1>4 DEF PathInv, TypeOK
<1>9. TypeOK'
  <2>1. prediction' \in BOOLEAN
    <3>1. CASE num_branches' < PATH_DEPTH BY <1>7, <3>1
    <3>2. CASE ~(num_branches' < PATH_DEPTH)
      <4>1. prediction' = (bhr[k] > 0) BY <1>7, <3>2
      <4> QED BY <4>1
    <3> QED BY <3>1, <3>2
  <2>2. branch_history' \in Paths BY <1>5
  <2> QED BY <1>1, <1>6, <1>8, <2>1, <2>2 DEF TypeOK
<1>10. NoNeutralCounter' BY <1>3, <1>4 DEF PathInv, NoNeutralCounter
<1>11. Len(branch_history) \in Nat
  BY PathsAreSequences, LenProperties DEF PathInv, TypeOK
<1>12. num_branches \in Int /\ num_branches' \in Int /\ num_branches' <= num_branches + 1
  BY PinToolAssumption
  DEF PathInv, TypeOK, ToolTypeOK, CInt, RecordBranch, ExecuteBranch, Increment
<1>13. HistoryKeepsUp'
  BY <1>5, <1>11, <1>12, PathAssumption DEF PathInv, HistoryKeepsUp
<1>14. NoPredictionFromColdPath'
  <2>1. SUFFICES ASSUME prediction' PROVE Len(branch_history) >= PATH_DEPTH - 1
    BY <1>1 DEF NoPredictionFromColdPath, k
  <2>2. ~(num_branches' < PATH_DEPTH) BY <1>7, <2>1
  <2> QED BY <2>2, <1>11, <1>12, PathAssumption DEF PathInv, HistoryKeepsUp
<1> QED BY <1>1, <1>6, <1>9, <1>10, <1>13, <1>14 DEF PathInv, NoDuplicatePaths

LEMMA HostPathInv ==
  ASSUME PathInv, HostStep, UNCHANGED predictorVars
  PROVE  PathInv'
<1>1. ToolTypeOK' /\ TotalsMakeSense' BY HostScores DEF PathInv, TypeOK
<1>2. num_branches' = num_branches \/ num_branches' = 0
  BY DEF HostStep, Instruction, ExecuteOther, Fini, score
<1>3. Len(branch_history) \in Nat
  BY PathsAreSequences, LenProperties DEF PathInv, TypeOK
<1>4. HistoryKeepsUp'
  BY <1>2, <1>3 DEF PathInv, HistoryKeepsUp, predictorVars
<1> QED BY <1>1, <1>4
    DEF PathInv, TypeOK, NoNeutralCounter, NoDuplicatePaths, NoPredictionFromColdPath,
        Table!TableTypeOK, Table!NoDuplicates, predictorVars

LEMMA NextPathInv == PathInv /\ [Next]_vars => PathInv'
<1> SUFFICES ASSUME PathInv, [Next]_vars PROVE PathInv' OBVIOUS
<1>1. CASE UNCHANGED vars
  BY <1>1 DEF vars, predictorVars, toolVars, PathInv, TypeOK, ToolTypeOK, NoNeutralCounter,
              TotalsMakeSense, NoDuplicatePaths, HistoryKeepsUp, NoPredictionFromColdPath,
              Table!TableTypeOK, Table!NoDuplicates
<1> QED BY <1>1, HostPathInv, BranchPathInv DEF Next

\* The inductive invariant: every step of itrace.cpp keeps the table, the
\* history and the totals as PathInv has them.
THEOREM PathInvariance == Spec => []PathInv
BY InitPathInv, NextPathInv, PTL DEF Spec

-----------------------------------------------------------------------------

\* Every variable keeps its type: the index stays in the table, pathsUsed at
\* most one past it, the counters in their range and the history at PATH_DEPTH.
THEOREM PathTypeCorrect == Spec => []TypeOK
<1>1. PathInv => TypeOK BY DEF PathInv
<1> QED BY <1>1, PathInvariance, PTL

\* updateBHRIndex never enters a path the table already holds.
THEOREM PathsAreUnique == Spec => []NoDuplicatePaths
<1>1. PathInv => NoDuplicatePaths BY DEF PathInv
<1> QED BY <1>1, PathInvariance, PTL

\* The warm-up of RecordBranch is at most one address short, whenever the
\* score it is timed by is cleared or wraps around.
THEOREM WarmUpSuffices == Spec => []NoPredictionFromColdPath
<1>1. PathInv => NoPredictionFromColdPath BY DEF PathInv
<1> QED BY <1>1, PathInvariance, PTL

-----------------------------------------------------------------------------
(***************************************************************************)
(* The circle of entries, read from pathsUsed on, is a queue.              *)
(***************************************************************************)

LEMMA QueueIs ==
  /\ Table!TableTypeOK =>
       queue = QueueOf(bhr_entries, bhr, pathsUsed, TABLE_ENTRIES)
  /\ Table!TableTypeOK' =>
       queue' = QueueOf(bhr_entries', bhr', pathsUsed', TABLE_ENTRIES)
<1>1. \A i, ahead \in Int : Table!SlotOf(i, ahead) = PlaceOf(i, ahead, TABLE_ENTRIES)
  BY PathAssumption DEF Table!SlotOf, PlaceOf
<1>2. ASSUME Table!TableTypeOK
      PROVE  queue = QueueOf(bhr_entries, bhr, pathsUsed, TABLE_ENTRIES)
  <2>1. pathsUsed \in Int BY <1>2, PathAssumption DEF Table!TableTypeOK
  <2> QED BY <1>1, <2>1 DEF queue, Table!InOrder, QueueOf
<1>3. ASSUME Table!TableTypeOK'
      PROVE  queue' = QueueOf(bhr_entries', bhr', pathsUsed', TABLE_ENTRIES)
  <2>1. pathsUsed' \in Int BY <1>3, PathAssumption DEF Table!TableTypeOK
  <2> QED BY <1>1, <2>1 DEF queue, Table!InOrder, QueueOf
<1> QED BY <1>2, <1>3

\* A path that is found: its slot is retrained where it stands.
LEMMA FoundTrains ==
  ASSUME PathInv, NEW ins \in Branches, NEW taken \in BOOLEAN,
         NEW address \in Addresses, RecordBranch(ins, taken, address),
         Table!Found(branch_history)
  PROVE  Fifo!Train(branch_history)
<1> TABLE_ENTRIES \in Nat \ {0} BY PathAssumption
<1>7. Table!TableTypeOK /\ Table!TableTypeOK'
  BY BranchPathInv DEF PathInv, TypeOK
<1> DEFINE k == bhr_current_index'
           c == Train(bhr[k], taken, SATURATING_NUM)
<1>1. /\ k \in 0 .. TABLE_ENTRIES - 1 /\ bhr_entries[k] = branch_history
      /\ bhr_entries' = bhr_entries /\ pathsUsed' = pathsUsed
  BY DEF Table!Found, Table!Lookup, Table!UsedAfter, Table!Matches, Table!Slots,
         RecordBranch, updateBHRIndex
<1>2. bhr' = [bhr EXCEPT ![k] = c] BY DEF RecordBranch, updateBHT
<1>3. c \in RetrainedCounter(bhr[k]) BY DEF RetrainedCounter
<1>4. pathsUsed \in 0 .. TABLE_ENTRIES /\ DOMAIN bhr = 0 .. TABLE_ENTRIES - 1
  BY DEF PathInv, TypeOK, Table!TableTypeOK
<1> HIDE DEF k, c
<1>5. bhr'[k] = c /\ \A i \in 0 .. TABLE_ENTRIES - 1 : i # k => bhr'[i] = bhr[i]
  BY <1>1, <1>2, <1>4
<1>6. PICK i \in 1 .. TABLE_ENTRIES :
        /\ queue[i].key = branch_history /\ queue[i].learned = bhr[k]
        /\ queue' = [queue EXCEPT ![i].learned = c]
  <2>1. LearnsInPlace(QueueOf(bhr_entries, bhr, pathsUsed, TABLE_ENTRIES),
                      QueueOf(bhr_entries, bhr', pathsUsed, TABLE_ENTRIES),
                      TABLE_ENTRIES, bhr_entries[k], bhr[k], bhr'[k])
    BY <1>1, <1>4, <1>5, QueueTrains
  <2>2. LearnsInPlace(queue, queue', TABLE_ENTRIES, branch_history, bhr[k], c)
    BY <1>1, <1>5, <1>7, <2>1, QueueIs
  <2> QED BY <2>2 DEF LearnsInPlace
<1> QED BY <1>3, <1>6 DEF Fifo!Train

\* A path that is not found takes the slot at the head, with its counter, and
\* moves it to the end.
LEMMA FilledReplaces ==
  ASSUME PathInv, NEW ins \in Branches, NEW taken \in BOOLEAN,
         NEW address \in Addresses, RecordBranch(ins, taken, address),
         Table!Filled(branch_history)
  PROVE  Fifo!Replace(branch_history)
<1> TABLE_ENTRIES \in Nat \ {0} BY PathAssumption
<1>10. Table!TableTypeOK /\ Table!TableTypeOK'
  BY BranchPathInv DEF PathInv, TypeOK
<1> DEFINE slot == IF pathsUsed = TABLE_ENTRIES THEN 0 ELSE pathsUsed
           c == Train(bhr[slot], taken, SATURATING_NUM)
<1>1. /\ \A i \in 0 .. TABLE_ENTRIES - 1 : bhr_entries[i] # branch_history
      /\ bhr_entries' = [bhr_entries EXCEPT ![slot] = branch_history]
      /\ bhr_current_index' = slot /\ pathsUsed' = slot + 1
  BY DEF Table!Filled, Table!Lookup, Table!UsedAfter, Table!NextSlot, Table!Matches, Table!Slots,
         RecordBranch, updateBHRIndex
<1>2. bhr' = [bhr EXCEPT ![slot] = c] BY <1>1 DEF RecordBranch, updateBHT
<1>3. c \in RetrainedCounter(bhr[slot]) BY DEF RetrainedCounter
<1>4. /\ pathsUsed \in 0 .. TABLE_ENTRIES
      /\ DOMAIN bhr = 0 .. TABLE_ENTRIES - 1
      /\ DOMAIN bhr_entries = 0 .. TABLE_ENTRIES - 1
  BY DEF PathInv, TypeOK, Table!TableTypeOK, Table!Slots
<1>5. slot \in 0 .. TABLE_ENTRIES - 1 BY <1>4, PathAssumption
<1>6. slot = IF pathsUsed = TABLE_ENTRIES THEN 0 ELSE pathsUsed OBVIOUS
<1> HIDE DEF slot, c
<1>7. /\ bhr_entries'[slot] = branch_history /\ bhr'[slot] = c
      /\ \A i \in 0 .. TABLE_ENTRIES - 1 :
           i # slot => bhr_entries'[i] = bhr_entries[i] /\ bhr'[i] = bhr[i]
  BY <1>1, <1>2, <1>4, <1>5
<1>8. /\ Head(queue).learned = bhr[slot]
      /\ queue' = Append(Tail(queue), [key |-> branch_history, learned |-> c])
  <2>1. MovesToEnd(QueueOf(bhr_entries, bhr, pathsUsed, TABLE_ENTRIES),
                   QueueOf(bhr_entries', bhr', slot + 1, TABLE_ENTRIES),
                   bhr[slot], bhr_entries'[slot], bhr'[slot])
    BY <1>4, <1>6, <1>7, QueueReplaces
  <2>2. MovesToEnd(queue, queue', bhr[slot], branch_history, c)
    BY <1>1, <1>7, <1>10, <2>1, QueueIs
  <2> QED BY <2>2 DEF MovesToEnd
<1>9. \A i \in 1 .. TABLE_ENTRIES : queue[i].key # branch_history
  <2>1. \A i \in 1 .. TABLE_ENTRIES :
          QueueOf(bhr_entries, bhr, pathsUsed, TABLE_ENTRIES)[i].key # branch_history
    BY <1>1, <1>4, QueueMisses
  <2> QED BY <1>10, <2>1, QueueIs
<1> QED BY <1>3, <1>8, <1>9 DEF Fifo!Replace

\* The table of paths, with the counter each path has trained, is a first-in,
\* first-out memory (updateBHRIndex and updateBHT).
THEOREM PathRefinesFifo == Spec => ImplementsFifo
<1>1. ASSUME Init PROVE Fifo!Init
  <2> DEFINE blank == << >>
             fresh == 1
  <2>1. \A i \in 0 .. TABLE_ENTRIES - 1 : bhr_entries[i] = blank /\ bhr[i] = fresh
    BY <1>1 DEF Init, Table!TableInit, Table!Slots
  <2>2. pathsUsed \in 0 .. TABLE_ENTRIES /\ TABLE_ENTRIES \in Nat \ {0}
    BY <1>1, PathAssumption DEF Init, Table!TableInit
  <2>3. QueueOf(bhr_entries, bhr, pathsUsed, TABLE_ENTRIES)
          = [i \in 1 .. TABLE_ENTRIES |-> [key |-> blank, learned |-> fresh]]
    <3>1. \A i \in 1 .. TABLE_ENTRIES :
            PlaceOf(i, pathsUsed, TABLE_ENTRIES) \in 0 .. TABLE_ENTRIES - 1
      BY <2>2, PlacesInOrder
    <3> HIDE DEF blank, fresh
    <3> QED BY <2>1, <3>1 DEF QueueOf
  <2>4. Table!TableTypeOK BY <1>1, InitPathInv DEF PathInv, TypeOK
  <2> QED BY <2>3, <2>4, QueueIs DEF Fifo!Init
<1>2. ASSUME PathInv, [Next]_vars PROVE [Fifo!Next]_queue
  <2>1. CASE UNCHANGED predictorVars BY <2>1 DEF predictorVars, queue, Table!InOrder
  <2>2. ASSUME NEW ins \in Branches, NEW taken \in BOOLEAN, NEW address \in Addresses,
               RecordBranch(ins, taken, address)
        PROVE  Fifo!Next
    <3>1. branch_history \in Paths BY <1>2 DEF PathInv, TypeOK
    <3>2. Table!Found(branch_history) \/ Table!Filled(branch_history)
      BY <2>2 DEF RecordBranch, updateBHRIndex, Table!Lookup, Table!Place
    <3>3. Fifo!Train(branch_history) \/ Fifo!Replace(branch_history)
      BY <1>2, <2>2, <3>2, FoundTrains, FilledReplaces
    <3> QED BY <3>1, <3>3 DEF Fifo!Next
  <2> QED BY <1>2, <2>1, <2>2 DEF Next, vars
<1> QED BY <1>1, <1>2, PathInvariance, PTL DEF Spec, ImplementsFifo, Fifo!Spec

=============================================================================
