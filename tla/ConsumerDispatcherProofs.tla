---------------------- MODULE ConsumerDispatcherProofs ----------------------
(***************************************************************************)
(* Proofs about ConsumerDispatcher, for every number of consumers, slots,   *)
(* producers and elements.                                                  *)
(*                                                                          *)
(* The slot a thread works on stays its own because the live positions, from*)
(* the element the last consumer has left but not completed up to the last  *)
(* one added, never span more than SlotCount positions: two of them that    *)
(* fall into the same slot are equal (LapDistinct).                         *)
(***************************************************************************)
EXTENDS ConsumerDispatcher, TLAPS

(* Multiplication by a positive number does not shrink a positive one.      *)
LEMMA MulLemma ==
    ASSUME NEW n \in Nat \ {0}, NEW k \in Int, k >= 1
    PROVE  n * k >= n
OBVIOUS

(* Positions less than a lap of the ring apart fall into different slots    *)
(* (CircularBuffer::truncateIndex).                                         *)
LEMMA LapDistinct ==
    ASSUME NEW a \in Nat, NEW b \in Nat, a < b, b < a + SlotCount
    PROVE  truncateIndex(a) # truncateIndex(b)
<1> SUFFICES ASSUME a % SlotCount = b % SlotCount
             PROVE  FALSE
  BY DEF truncateIndex
<1> DEFINE qa == a \div SlotCount
           qb == b \div SlotCount
<1>0. SlotCount \in Nat \ {0}
  BY OptionsAssumption
<1>1. /\ a = SlotCount * qa + (a % SlotCount) /\ b = SlotCount * qb + (b % SlotCount)
      /\ qa \in Int /\ qb \in Int
  BY <1>0
<1> HIDE DEF qa, qb
<1>2. b - a = SlotCount * (qb - qa)
  BY <1>0, <1>1
<1>3. qb - qa <= 0
  <2> SUFFICES ASSUME qb - qa >= 1
               PROVE  FALSE
    BY <1>1
  <2>0. qb - qa \in Int
    BY <1>1
  <2>1. SlotCount * (qb - qa) >= SlotCount
    BY <1>0, <2>0, MulLemma
  <2> QED
    BY <1>0, <1>2, <2>1
<1>4. SlotCount * (qb - qa) <= 0
  BY <1>0, <1>1, <1>3, MulLemma
<1> QED
  BY <1>2, <1>4

-----------------------------------------------------------------------------
(* The inductive invariant.                                                 *)

Barriers == 0 .. NumConsumers

(* The position of the oldest element that is not yet completed.            *)
oldest == IF pc[LastLevel] \in {"inspect", "complete"}
          THEN m_barriers[NumConsumers] - 1 ELSE m_barriers[NumConsumers]

(* A consumer sits at the barrier behind it, no barrier overtakes an        *)
(* earlier one, and a consumer at work is strictly behind its own barrier.  *)
BarrierInv ==
    /\ \A level \in Levels : m_barriers[level + 1] = consumerEntry[level]
    /\ \A i, j \in Barriers : i <= j => m_barriers[j] <= m_barriers[i]
    /\ \A level \in Levels :
           /\ pc[level] \in {"consume", "advance"} => consumerEntry[level] < m_barriers[level]
           /\ pc[level] \in {"inspect", "complete"} => level = LastLevel /\ consumerEntry[level] >= 1

(* At most one producer is inside processElement, the position it read is   *)
(* not ahead of the last barrier, and the first barrier lags behind the     *)
(* number of elements exactly between add and publish.                      *)
ProducerInv ==
    /\ \A p \in Producers :
           /\ producer[p].pc # "idle" => m_addSpinLock
           /\ producer[p].pc \in {"locked", "add"} =>
                  /\ producer[p].minPosition <= m_barriers[NumConsumers]
                  /\ m_allElementsCount < MaxElements
           /\ producer[p].pc = "add" => canProcessNextElement(producer[p].minPosition)
           /\ producer[p].pc = "publish" => m_allElementsCount = m_barriers[0] + 1
    /\ \A p, q \in Producers : producer[p].pc # "idle" /\ producer[q].pc # "idle" => p = q
    /\ (\A p \in Producers : producer[p].pc # "publish") => m_allElementsCount = m_barriers[0]
    /\ m_allElementsCount \in m_barriers[0] .. m_barriers[0] + 1
    /\ m_allElementsCount <= MaxElements

(* The live positions fit the ring and each still holds its element.        *)
RingInv ==
    /\ m_allElementsCount - m_barriers[NumConsumers] + 1 <= SlotCount
    /\ \A q \in Nat : oldest <= q /\ q < m_allElementsCount => elementAt(q).id = q + 1

(* The callbacks made so far are those of the positions before the oldest.  *)
CompletionInv ==
    /\ Len(completions) = oldest
    /\ CompletedOnceInOrder

(* A live element without an abort has been run on by exactly the consumers *)
(* that are past it (or about to leave it); a consumer at work is on an     *)
(* element without an abort.                                                *)
ExecutionInv ==
    /\ \A id \in Ids : id > m_allElementsCount => executed[id] = {}
    /\ \A q \in Nat : oldest <= q /\ q < m_allElementsCount =>
           \A level \in Levels :
               /\ elementAt(q).status = "Normal" /\ consumerEntry[level] > q => level \in executed[q + 1]
               /\ elementAt(q).status = "Normal" /\ consumerEntry[level] = q /\ pc[level] = "advance"
                      => level \in executed[q + 1]
    /\ \A level \in Levels : pc[level] = "consume" => elementAt(consumerEntry[level]).status = "Normal"
    /\ PipelineOrder

(* A slot only ever holds elements of positions that fall into it.          *)
SlotInv ==
    \A slot \in Slots :
        m_container[slot].id # 0 => truncateIndex(m_container[slot].id - 1) = slot

(* total[n] is the memory of the first n elements, as far as live elements  *)
(* tell.                                                                    *)
Totals(total) ==
    /\ \A a, b \in Nat : a <= b => total[a] <= total[b]
    /\ \A q \in Nat : oldest <= q /\ q < m_allElementsCount => total[q + 1] = total[q] + elementAt(q).size

(* The memory counter is the memory of the live elements, and of the input  *)
(* that is about to become one.                                             *)
MemoryInv ==
    \E total \in [Nat -> Nat] :
        /\ Totals(total)
        /\ \A p \in adding :
               m_memorySize = total[m_allElementsCount] - total[oldest] + producer[p].size
        /\ adding = {} => m_memorySize = total[m_allElementsCount] - total[oldest]

AccountingInv ==
    /\ m_numActiveElements = m_allElementsCount - oldest + (IF adding = {} THEN 0 ELSE 1)
    /\ m_memorySize <= MaxMemorySize
    /\ MemoryInv

IInv ==
    /\ TypeOK
    /\ BarrierInv
    /\ ProducerInv
    /\ RingInv
    /\ CompletionInv
    /\ ExecutionInv
    /\ SlotInv
    /\ AccountingInv
-----------------------------------------------------------------------------
(* Every position falls into a slot.                                        *)
LEMMA SlotInRange ==
    ASSUME NEW position \in Int
    PROVE  truncateIndex(position) \in Slots
BY OptionsAssumption DEF truncateIndex, Slots

(* The levels are the barriers but the last, and the last level exists.     *)
LEMMA LevelFacts ==
    /\ LastLevel \in Levels
    /\ LastLevel + 1 = NumConsumers
    /\ 0 \in Barriers /\ NumConsumers \in Barriers /\ NumConsumers # 0
    /\ \A level \in Levels : level \in Barriers /\ level + 1 \in Barriers /\ level \in Nat
BY OptionsAssumption DEF Levels, LastLevel, Barriers

(* Type correctness is inductive on its own.                                *)
LEMMA TypeStep == TypeOK /\ [Next]_vars => TypeOK'
<1> SUFFICES ASSUME TypeOK, [Next]_vars
             PROVE  TypeOK'
  OBVIOUS
<1> USE OptionsAssumption
<1> USE DEF TypeOK
<1>0. CASE UNCHANGED vars
  BY <1>0, Zenon DEF vars
<1>1. ASSUME NEW p \in Producers, NEW size \in InputSizes, LockAndReadMin(p, size)
      PROVE  TypeOK'
  <2>1. m_barriers[NumConsumers] \in Nat /\ size \in Nat
    OBVIOUS
  <2>2. producer' \in [Producers -> [pc : {"idle", "locked", "add", "publish"},
                                     size : Nat, minPosition : Nat]]
    BY <1>1, <2>1 DEF LockAndReadMin
  <2> QED
    BY <1>1, <2>2, Zenon DEF LockAndReadMin
<1>2. ASSUME NEW p \in Producers, Reject(p)
      PROVE  TypeOK'
  BY <1>2, Zenon DEF Reject, IdleProducer
<1>3. ASSUME NEW p \in Producers, Accept(p)
      PROVE  TypeOK'
  <2>1. producer[p] \in [pc : {"idle", "locked", "add", "publish"}, size : Nat, minPosition : Nat]
    OBVIOUS
  <2>2. producer' \in [Producers -> [pc : {"idle", "locked", "add", "publish"},
                                     size : Nat, minPosition : Nat]]
    BY <1>3, <2>1 DEF Accept, producerAt
  <2>3. m_memorySize' \in Int /\ m_numActiveElements' \in Int
    BY <1>3, <2>1 DEF Accept
  <2> QED
    BY <1>3, <2>2, <2>3, Zenon DEF Accept
<1>4. ASSUME NEW p \in Producers, Add(p)
      PROVE  TypeOK'
  <2>1. truncateIndex(m_allElementsCount) \in Slots
    BY SlotInRange
  <2>2. m_container' \in [Slots -> Elements]
    BY <1>4, <2>1, SMTT(30) DEF Add, Elements, Statuses
  <2> QED
    BY <1>4, <2>2, SMTT(30) DEF Add, producerAt
<1>5. ASSUME NEW p \in Producers, Publish(p)
      PROVE  TypeOK'
  <2>1. m_barriers[0] \in Nat
    OBVIOUS
  <2>2. m_barriers' \in [0 .. NumConsumers -> Nat]
    BY <1>5, <2>1, SMTT(30) DEF Publish
  <2> QED
    BY <1>5, <2>2, Zenon DEF Publish, IdleProducer
<1>6. ASSUME NEW level \in Levels, ConsumerStep(level)
      PROVE  TypeOK'
  <2>0. level \in Nat
    BY DEF Levels
  <2>1. CASE CheckKeepRunning(level)
    BY <2>1, Zenon DEF CheckKeepRunning, shared
  <2>2. CASE NothingToDo(level)
    BY <2>2, Zenon DEF NothingToDo, shared
  <2>3. CASE SkipElement(level)
    BY <2>3, Zenon DEF SkipElement, shared
  <2>4. CASE NextElement(level)
    BY <2>4, Zenon DEF NextElement, shared
  <2>5. ASSUME NEW result \in ConsumerResults, Consume(level, result)
        PROVE  TypeOK'
    <3>1. m_container' \in [Slots -> Elements]
      BY <2>5, Zenon DEF Consume, Elements, Statuses, markSkipped
    <3>2. executed' \in [Ids -> SUBSET Levels]
      BY <2>5, Zenon DEF Consume
    <3> QED
      BY <2>5, <3>1, <3>2, Zenon DEF Consume
  <2>6. CASE Advance(level)
    <3>1. /\ level + 1 \in 0 .. NumConsumers
          /\ m_barriers[level + 1] \in Nat /\ consumerEntry[level] \in Nat
          /\ m_barriers \in [0 .. NumConsumers -> Nat]
      BY SMTT(30) DEF Levels
    <3>2. m_barriers' \in [0 .. NumConsumers -> Nat]
      <4>1. m_barriers[level + 1] + 1 \in Nat
        BY <3>1
      <4>2. m_barriers' = [m_barriers EXCEPT ![level + 1] = m_barriers[level + 1] + 1]
        BY <2>6 DEF Advance
      <4> HIDE DEF TypeOK
      <4> QED
        BY <3>1, <4>1, <4>2
    <3>3. consumerEntry' \in [Levels -> Nat]
      BY <2>6, <3>1, SMTT(30) DEF Advance
    <3>4. resume[level] \in {"loop", "next"}
      OBVIOUS
    <3>5. pc' \in [Levels -> {"loop", "next", "consume", "advance", "inspect", "complete", "exited"}]
      BY <2>6, <3>4 DEF Advance
    <3> QED
      BY <2>6, <3>2, <3>3, <3>5, Zenon DEF Advance
  <2>7. CASE Inspect(level)
    <3>0. consumerEntry[level] - 1 \in Int
      OBVIOUS
    <3>1. m_container' \in [Slots -> Elements]
      BY <2>7, <3>0, SlotInRange, Zenon DEF Inspect, Elements, reclaimed
    <3> QED
      BY <2>7, <3>1, Zenon DEF Inspect
  <2>8. CASE Complete(level)
    <3>1. consumerEntry[level] - 1 \in Int
      OBVIOUS
    <3>2. elementAt(consumerEntry[level] - 1) \in Elements
      BY <3>1, SlotInRange DEF elementAt
    <3>3. completions' \in Seq([id : Nat, status : Statuses])
      BY <2>8, <3>2, SMTT(30) DEF Complete, Elements
    <3>4. m_memorySize' \in Int /\ m_numActiveElements' \in Int
      BY <2>8, <3>2 DEF Complete, Elements
    <3> QED
      BY <2>8, <3>3, <3>4, Zenon DEF Complete
  <2> QED
    BY <1>6, <2>1, <2>2, <2>3, <2>4, <2>5, <2>6, <2>7, <2>8, Zenon DEF ConsumerStep
<1>7. CASE Shutdown
  BY <1>7, Zenon DEF Shutdown
<1> QED
  BY <1>0, <1>1, <1>2, <1>3, <1>4, <1>5, <1>6, <1>7, Zenon DEF Next, ProducerStep

(* No step disorders the barriers.                                          *)
LEMMA BarrierStep == TypeOK /\ BarrierInv /\ ProducerInv /\ [Next]_vars => BarrierInv'
<1> SUFFICES ASSUME TypeOK, BarrierInv, ProducerInv, [Next]_vars
             PROVE  BarrierInv'
  OBVIOUS
<1> USE OptionsAssumption, LevelFacts
<1>t. /\ \A i \in Barriers : m_barriers[i] \in Nat
      /\ \A level \in Levels : consumerEntry[level] \in Nat
      /\ m_barriers \in [Barriers -> Nat] /\ consumerEntry \in [Levels -> Nat]
      /\ DOMAIN pc = Levels
  BY Zenon DEF TypeOK, Barriers
<1>0. ASSUME UNCHANGED <<m_barriers, consumerEntry, pc>>
      PROVE  BarrierInv'
  BY <1>0 DEF BarrierInv
<1>1. ASSUME NEW p \in Producers, Publish(p)
      PROVE  BarrierInv'
  <2>1. /\ m_barriers'[0] = m_barriers[0] + 1
        /\ \A i \in Barriers : i # 0 => m_barriers'[i] = m_barriers[i]
    BY <1>1, <1>t DEF Publish
  <2>2. \A level \in Levels : level + 1 # 0
    OBVIOUS
  <2>3. \A level \in Levels : m_barriers'[level + 1] = m_barriers[level + 1]
    BY <2>1, <2>2
  <2>4. \A i \in Barriers : m_barriers[i] <= m_barriers'[i] /\ m_barriers'[i] \in Nat
    BY <2>1, <1>t
  <2>5. UNCHANGED <<consumerEntry, pc>>
    BY <1>1 DEF Publish
  <2>6. \A i, j \in Barriers : i <= j => m_barriers'[j] <= m_barriers'[i]
    <3> SUFFICES ASSUME NEW i \in Barriers, NEW j \in Barriers, i <= j
                 PROVE  m_barriers'[j] <= m_barriers'[i]
      OBVIOUS
    <3>1. m_barriers[j] <= m_barriers[i]
      BY DEF BarrierInv
    <3>2. CASE j = 0
      <4>1. i = j
        BY <3>2 DEF Barriers
      <4> QED
        BY <4>1, <2>4
    <3>3. CASE j # 0
      <4>1. m_barriers'[j] = m_barriers[j] /\ m_barriers[i] <= m_barriers'[i]
        BY <3>3, <2>1, <2>4
      <4> QED
        BY <4>1, <3>1, <2>4, <1>t
    <3> QED
      BY <3>2, <3>3
  <2> QED
    BY <2>3, <2>4, <2>5, <2>6, <1>t DEF BarrierInv
<1>2. ASSUME NEW level \in Levels, ConsumerStep(level)
      PROVE  BarrierInv'
  <2>1. ASSUME UNCHANGED <<m_barriers, consumerEntry>>,
               NEW label, pc' = [pc EXCEPT ![level] = label],
               label \in {"consume", "advance"} => consumerEntry[level] < m_barriers[level],
               label \in {"inspect", "complete"} => level = LastLevel /\ consumerEntry[level] >= 1
        PROVE  BarrierInv'
    BY <2>1, <1>t DEF BarrierInv
  <2>2. consumerEntry[level] <= m_barriers[level]
    <3>1. level + 1 \in Barriers /\ level \in Barriers /\ level <= level + 1
      OBVIOUS
    <3> QED
      BY <3>1 DEF BarrierInv
  <2>i. consumerEntry[level] \in Int /\ m_barriers[level] \in Int
    <3>1. level \in Barriers
      OBVIOUS
    <3> QED
      BY <3>1, <1>t
  <2>3. CASE CheckKeepRunning(level)
    BY <2>1, <2>3, Zenon DEF CheckKeepRunning, shared
  <2>4. CASE NothingToDo(level)
    BY <2>1, <2>4, Zenon DEF NothingToDo, shared
  <2>5. CASE SkipElement(level)
    <3>0. consumerEntry[level] # m_barriers[level]
      BY <2>5 DEF SkipElement
    <3>1. consumerEntry[level] < m_barriers[level]
      BY <2>2, <2>i, <3>0
    <3> QED
      BY <2>1, <2>5, <3>1, Zenon DEF SkipElement, shared
  <2>6. CASE NextElement(level)
    <3>0. consumerEntry[level] # m_barriers[level]
      BY <2>6, Zenon DEF NextElement
    <3>1. consumerEntry[level] < m_barriers[level]
      BY <2>2, <2>i, <3>0
    <3> QED
      BY <2>1, <2>6, <3>1, Zenon DEF NextElement, shared
  <2>7. ASSUME NEW result \in ConsumerResults, Consume(level, result)
        PROVE  BarrierInv'
    BY <2>1, <2>7 DEF Consume, BarrierInv
  <2>8. CASE Advance(level)
    <3>1. /\ m_barriers'[level + 1] = m_barriers[level + 1] + 1
          /\ \A i \in Barriers : i # level + 1 => m_barriers'[i] = m_barriers[i]
          /\ consumerEntry'[level] = consumerEntry[level] + 1
          /\ \A k \in Levels : k # level => consumerEntry'[k] = consumerEntry[k] /\ pc'[k] = pc[k]
      BY <2>8, <1>t DEF Advance
    <3>2. \A k \in Levels : m_barriers'[k + 1] = consumerEntry'[k]
      BY <3>1, <1>t DEF BarrierInv
    <3>3. m_barriers[level + 1] + 1 <= m_barriers[level]
      BY <2>8, <1>t DEF Advance, BarrierInv
    <3>4. \A i, j \in Barriers : i <= j => m_barriers'[j] <= m_barriers'[i]
      <4> SUFFICES ASSUME NEW i \in Barriers, NEW j \in Barriers, i <= j
                   PROVE  m_barriers'[j] <= m_barriers'[i]
        OBVIOUS
      <4>1. CASE j = level + 1 /\ i # j
        <5>1. i <= level /\ level \in Barriers
          BY <4>1 DEF Barriers
        <5>2. m_barriers[level] <= m_barriers[i]
          BY <5>1 DEF BarrierInv
        <5> QED
          BY <4>1, <5>2, <3>1, <3>3, <1>t
      <4>2. CASE j # level + 1
        <5>1. m_barriers[j] <= m_barriers[i]
          BY DEF BarrierInv
        <5>2. m_barriers[i] <= m_barriers'[i] /\ m_barriers'[i] \in Nat /\ m_barriers[i] \in Nat
          BY <3>1, <1>t
        <5>3. m_barriers'[j] = m_barriers[j] /\ m_barriers[j] \in Nat
          BY <4>2, <3>1, <1>t
        <5> QED
          BY <5>1, <5>2, <5>3
      <4>3. CASE i = j
        BY <4>3, <3>1, <1>t
      <4> QED
        BY <4>1, <4>2, <4>3
    <3>5. pc'[level] \in {"inspect", "loop", "next"} /\ (pc'[level] = "inspect" => level = LastLevel)
      BY <2>8, Zenon DEF Advance, TypeOK
    <3>6. ASSUME NEW k \in Levels
          PROVE  /\ pc'[k] \in {"consume", "advance"} => consumerEntry'[k] < m_barriers'[k]
                 /\ pc'[k] \in {"inspect", "complete"} => k = LastLevel /\ consumerEntry'[k] >= 1
      <4>1. k \in Barriers /\ m_barriers[k] \in Nat /\ m_barriers'[k] \in Nat /\ m_barriers[k] <= m_barriers'[k]
        BY <3>1, <1>t
      <4>2. CASE k # level
        <5>1. consumerEntry'[k] = consumerEntry[k] /\ pc'[k] = pc[k] /\ consumerEntry[k] \in Nat
          BY <4>2, <3>1, <1>t
        <5>2. /\ pc[k] \in {"consume", "advance"} => consumerEntry[k] < m_barriers[k]
              /\ pc[k] \in {"inspect", "complete"} => k = LastLevel /\ consumerEntry[k] >= 1
          BY DEF BarrierInv
        <5> QED
          BY <4>1, <5>1, <5>2
      <4>3. CASE k = level
        BY <4>3, <3>1, <3>5, <1>t, SMTT(30)
      <4> QED
        BY <4>2, <4>3
    <3> QED
      BY <3>2, <3>4, <3>6 DEF BarrierInv
  <2>9. CASE Inspect(level)
    BY <2>1, <2>9 DEF Inspect, BarrierInv
  <2>10. CASE Complete(level)
    <3>1. resume[level] \in {"loop", "next"}
      BY DEF TypeOK
    <3> QED
      BY <2>1, <2>10, <3>1, Zenon DEF Complete
  <2> QED
    BY <1>2, <2>3, <2>4, <2>5, <2>6, <2>7, <2>8, <2>9, <2>10, Zenon DEF ConsumerStep
<1> QED
  BY <1>0, <1>1, <1>2 DEF Next, ProducerStep, LockAndReadMin, Reject, Accept, Add, Shutdown, vars

(* What a step of a consumer may do to the state producers look at: the     *)
(* last barrier may only move forward.                                      *)
LEMMA ConsumerStepEffect ==
    ASSUME TypeOK, NEW level \in Levels, ConsumerStep(level)
    PROVE  /\ m_barriers'[0] = m_barriers[0]
           /\ m_barriers'[NumConsumers] >= m_barriers[NumConsumers]
           /\ UNCHANGED <<producer, m_allElementsCount, m_addSpinLock, m_keepRunning>>
<1> USE OptionsAssumption, LevelFacts
<1>1. level + 1 # 0 /\ m_barriers \in [Barriers -> Nat]
  <2>1. m_barriers \in [Barriers -> Nat]
    BY Zenon DEF TypeOK, Barriers
  <2>2. level + 1 # 0
    BY DEF Levels
  <2> QED
    BY <2>1, <2>2, Zenon
<1>2. CASE Advance(level)
  BY <1>1, <1>2, SMTT(30) DEF Advance
<1>3. CASE ~Advance(level)
  BY <1>1, <1>3, SMTT(30) DEF ConsumerStep, CheckKeepRunning, NothingToDo, SkipElement, NextElement,
                    Consume, Inspect, Complete, shared
<1> QED
  BY <1>2, <1>3

(* processElement runs in mutual exclusion and its capacity check stays     *)
(* valid until the element is added, whatever the consumers do meanwhile.   *)
LEMMA ProducerInvStep == TypeOK /\ BarrierInv /\ ProducerInv /\ [Next]_vars => ProducerInv'
<1> SUFFICES ASSUME TypeOK, BarrierInv, ProducerInv, [Next]_vars
             PROVE  ProducerInv'
  OBVIOUS
<1> USE OptionsAssumption, LevelFacts
<1>t. /\ m_barriers[0] \in Nat /\ m_barriers[NumConsumers] \in Nat
      /\ m_allElementsCount \in Nat /\ DOMAIN producer = Producers
      /\ \A p \in Producers : producer[p].minPosition \in Nat
      /\ m_barriers \in [Barriers -> Nat]
  BY Zenon DEF TypeOK, Barriers
<1>0. ASSUME UNCHANGED <<m_barriers, producer, m_allElementsCount, m_addSpinLock>>
      PROVE  ProducerInv'
  BY <1>0, Zenon DEF ProducerInv, canProcessNextElement
<1>1. ASSUME NEW p \in Producers, NEW size \in InputSizes, LockAndReadMin(p, size)
      PROVE  ProducerInv'
  <2>1. /\ producer'[p].pc = "locked" /\ producer'[p].minPosition = m_barriers[NumConsumers]
        /\ \A q \in Producers : q # p => producer'[q] = producer[q]
        /\ m_addSpinLock' = TRUE
        /\ UNCHANGED <<m_barriers, m_allElementsCount>>
    BY <1>1, <1>t DEF LockAndReadMin
  <2>2. \A q \in Producers : producer[q].pc = "idle"
    BY <1>1 DEF LockAndReadMin, ProducerInv
  <2>3. m_allElementsCount < MaxElements
    BY <1>1, Zenon DEF LockAndReadMin
  <2> QED
    BY <2>1, <2>2, <2>3, <1>t DEF ProducerInv
<1>2. ASSUME NEW p \in Producers, Reject(p)
      PROVE  ProducerInv'
  <2>1. /\ producer'[p].pc = "idle"
        /\ \A q \in Producers : q # p => producer'[q] = producer[q]
        /\ UNCHANGED <<m_barriers, m_allElementsCount>>
    BY <1>2, <1>t DEF Reject, IdleProducer
  <2>2. \A q \in Producers : q # p => producer[q].pc = "idle"
    BY <1>2 DEF Reject, ProducerInv
  <2>3. m_allElementsCount = m_barriers[0]
    BY <1>2, <2>2, Zenon DEF Reject, ProducerInv
  <2> QED
    BY <2>1, <2>2, <2>3, <1>t DEF ProducerInv
<1>3. ASSUME NEW p \in Producers, Accept(p)
      PROVE  ProducerInv'
  <2>1. /\ producer'[p].pc = "add" /\ producer'[p].minPosition = producer[p].minPosition
        /\ \A q \in Producers : q # p => producer'[q] = producer[q]
        /\ UNCHANGED <<m_barriers, m_allElementsCount, m_addSpinLock>>
    BY <1>3, <1>t, Zenon DEF Accept, producerAt
  <2>2. \A q \in Producers : q # p => producer[q].pc = "idle"
    BY <1>3 DEF Accept, ProducerInv
  <2>3. /\ canProcessNextElement(producer[p].minPosition)
        /\ producer[p].pc = "locked"
    BY <1>3, Zenon DEF Accept, isFull
  <2>4. canProcessNextElement(producer[p].minPosition)'
    BY <2>1, <2>3, Zenon DEF canProcessNextElement
  <2>5. m_addSpinLock /\ m_allElementsCount = m_barriers[0] /\ m_allElementsCount < MaxElements
        /\ producer[p].minPosition <= m_barriers[NumConsumers]
    BY <2>2, <2>3, Zenon DEF ProducerInv
  <2> QED
    BY <2>1, <2>2, <2>4, <2>5, <1>t DEF ProducerInv
<1>4. ASSUME NEW p \in Producers, Add(p)
      PROVE  ProducerInv'
  <2>1. /\ producer'[p].pc = "publish" /\ producer[p].pc = "add"
        /\ \A q \in Producers : q # p => producer'[q] = producer[q]
        /\ m_allElementsCount' = m_allElementsCount + 1
        /\ UNCHANGED <<m_barriers, m_addSpinLock>>
    BY <1>4, <1>t, Zenon DEF Add, producerAt
  <2>2. \A q \in Producers : q # p => producer[q].pc = "idle"
    BY <2>1, Zenon DEF ProducerInv
  <2>3. m_addSpinLock /\ m_allElementsCount = m_barriers[0] /\ m_allElementsCount < MaxElements
    BY <2>1, <2>2, Zenon DEF ProducerInv
  <2> QED
    BY <2>1, <2>2, <2>3, <1>t DEF ProducerInv
<1>5. ASSUME NEW p \in Producers, Publish(p)
      PROVE  ProducerInv'
  <2>1. /\ producer'[p].pc = "idle" /\ producer[p].pc = "publish"
        /\ \A q \in Producers : q # p => producer'[q] = producer[q]
        /\ m_barriers'[0] = m_barriers[0] + 1
        /\ UNCHANGED m_allElementsCount
    BY <1>5, <1>t, Zenon DEF Publish, IdleProducer
  <2>2. \A q \in Producers : q # p => producer[q].pc = "idle"
    BY <2>1 DEF ProducerInv
  <2>3. m_allElementsCount = m_barriers[0] + 1 /\ m_allElementsCount <= MaxElements
    BY <2>1, Zenon DEF ProducerInv
  <2> QED
    BY <2>1, <2>2, <2>3, <1>t DEF ProducerInv
<1>6. ASSUME NEW level \in Levels, ConsumerStep(level)
      PROVE  ProducerInv'
  <2>1. /\ m_barriers'[0] = m_barriers[0]
        /\ m_barriers'[NumConsumers] >= m_barriers[NumConsumers]
        /\ UNCHANGED <<producer, m_allElementsCount, m_addSpinLock>>
    BY <1>6, ConsumerStepEffect
  <2>2. m_barriers'[NumConsumers] \in Nat
    BY TypeStep, Zenon DEF TypeOK, Barriers
  <2>3. ASSUME NEW p \in Producers, producer[p].minPosition <= m_barriers[NumConsumers]
        PROVE  producer[p].minPosition <= m_barriers'[NumConsumers]
    BY <2>1, <2>2, <2>3, <1>t
  <2> QED
    BY <2>1, <2>3 DEF ProducerInv, canProcessNextElement
<1> QED
  BY <1>0, <1>1, <1>2, <1>3, <1>4, <1>5, <1>6 DEF Next, ProducerStep, Shutdown, vars

(* The oldest live position is at most one behind the last barrier.         *)
LEMMA OldestFacts ==
    ASSUME TypeOK, BarrierInv
    PROVE  /\ oldest \in Nat
           /\ oldest <= m_barriers[NumConsumers] /\ m_barriers[NumConsumers] <= oldest + 1
           /\ m_barriers[NumConsumers] = consumerEntry[LastLevel]
<1> USE OptionsAssumption, LevelFacts
<1>1. m_barriers[NumConsumers] \in Nat
  BY DEF TypeOK, Barriers
<1>2. m_barriers[NumConsumers] = consumerEntry[LastLevel]
  BY DEF BarrierInv
<1>3. pc[LastLevel] \in {"inspect", "complete"} => m_barriers[NumConsumers] >= 1
  BY <1>2 DEF BarrierInv
<1> QED
  BY <1>1, <1>2, <1>3 DEF oldest

(* A consumer never changes the id in a slot, and the oldest live position  *)
(* moves only when its completion callback has been called.                 *)
LEMMA ConsumerRingEffect ==
    ASSUME TypeOK, BarrierInv, NEW level \in Levels, ConsumerStep(level)
    PROVE  /\ \A slot \in Slots : m_container'[slot].id = m_container[slot].id
           /\ oldest' = IF Complete(level) THEN oldest + 1 ELSE oldest
<1> USE OptionsAssumption, LevelFacts
<1>t. /\ m_barriers \in [Barriers -> Nat] /\ DOMAIN pc = Levels
      /\ DOMAIN m_container = Slots
      /\ m_barriers[NumConsumers] \in Nat
  BY Zenon DEF TypeOK, Barriers
<1>1. \A slot \in Slots : m_container'[slot].id = m_container[slot].id
  <2>1. ASSUME NEW result \in ConsumerResults, Consume(level, result)
        PROVE  \A slot \in Slots : m_container'[slot].id = m_container[slot].id
    BY <2>1, <1>t, ZenonT(30) DEF Consume, markSkipped
  <2>2. CASE Inspect(level)
    BY <2>2, <1>t DEF Inspect, reclaimed
  <2>3. CASE UNCHANGED m_container
    BY <2>3
  <2> QED
    BY <2>1, <2>2, <2>3, Zenon DEF ConsumerStep, CheckKeepRunning, NothingToDo, SkipElement,
                            NextElement, Advance, Complete, shared
<1> SUFFICES oldest' = IF Complete(level) THEN oldest + 1 ELSE oldest
  BY <1>1
<1>2. ASSUME UNCHANGED m_barriers, NEW label, pc' = [pc EXCEPT ![level] = label],
             label \in {"inspect", "complete"} <=> pc[level] \in {"inspect", "complete"}
      PROVE  oldest' = oldest
  BY <1>2, <1>t DEF oldest
<1>3. CASE CheckKeepRunning(level)
  BY <1>2, <1>3, Zenon DEF CheckKeepRunning, shared, Complete
<1>4. CASE NothingToDo(level)
  BY <1>2, <1>4, Zenon DEF NothingToDo, shared, Complete
<1>5. CASE SkipElement(level)
  BY <1>2, <1>5, Zenon DEF SkipElement, shared, Complete
<1>6. CASE NextElement(level)
  BY <1>2, <1>6, Zenon DEF NextElement, shared, Complete
<1>7. ASSUME NEW result \in ConsumerResults, Consume(level, result)
      PROVE  oldest' = oldest /\ ~Complete(level)
  BY <1>2, <1>7, Zenon DEF Consume, Complete
<1>8. CASE Inspect(level)
  BY <1>2, <1>8, Zenon DEF Inspect, Complete
<1>9. CASE Advance(level)
  <2>1. resume[level] \in {"loop", "next"} /\ ~Complete(level) /\ pc[level] = "advance"
    BY <1>9 DEF TypeOK, Advance, Complete
  <2>2. CASE level = LastLevel
    <3>1. /\ pc'[LastLevel] = "inspect" /\ pc[LastLevel] = "advance"
          /\ m_barriers'[NumConsumers] = m_barriers[NumConsumers] + 1
      BY <1>9, <2>2, <1>t DEF Advance
    <3> QED
      BY <3>1, <2>1, <1>t DEF oldest
  <2>3. CASE level # LastLevel
    <3>1. level + 1 # NumConsumers
      BY <2>3 DEF LastLevel
    <3>2. pc'[LastLevel] = pc[LastLevel] /\ m_barriers'[NumConsumers] = m_barriers[NumConsumers]
      BY <1>9, <2>3, <3>1, <1>t DEF Advance
    <3> QED
      BY <3>2, <2>1 DEF oldest
  <2> QED
    BY <2>2, <2>3, Zenon
<1>10. CASE Complete(level)
  <2>1. level = LastLevel /\ resume[level] \in {"loop", "next"}
    BY <1>10 DEF Complete, BarrierInv, TypeOK
  <2>2. /\ pc'[LastLevel] \in {"loop", "next"} /\ pc[LastLevel] = "complete"
        /\ m_barriers'[NumConsumers] = m_barriers[NumConsumers]
    BY <1>10, <2>1, <1>t, Zenon DEF Complete
  <2> QED
    BY <2>2, <1>10, <1>t DEF oldest
<1> QED
  BY <1>3, <1>4, <1>5, <1>6, <1>7, <1>8, <1>9, <1>10 DEF ConsumerStep

(* The live positions stay within one lap of the ring and keep their slots. *)
LEMMA RingStep ==
    TypeOK /\ BarrierInv /\ ProducerInv /\ RingInv /\ [Next]_vars => RingInv'
<1> SUFFICES ASSUME TypeOK, BarrierInv, ProducerInv, RingInv, [Next]_vars
             PROVE  RingInv'
  OBVIOUS
<1> USE OptionsAssumption, LevelFacts
<1>t. /\ m_barriers[NumConsumers] \in Nat /\ m_barriers[0] \in Nat
      /\ m_allElementsCount \in Nat /\ DOMAIN m_container = Slots
      /\ \A p \in Producers : producer[p].minPosition \in Nat
      /\ m_barriers \in [Barriers -> Nat]
  BY Zenon DEF TypeOK, Barriers
<1>o. oldest \in Nat /\ oldest <= m_barriers[NumConsumers] /\ m_barriers[NumConsumers] <= oldest + 1
  BY OldestFacts
<1>0. ASSUME UNCHANGED <<m_barriers, pc, m_allElementsCount, m_container>>
      PROVE  RingInv'
  BY <1>0, Zenon DEF RingInv, oldest, elementAt
<1>1. ASSUME NEW p \in Producers, Add(p)
      PROVE  RingInv'
  <2>1. /\ m_allElementsCount' = m_allElementsCount + 1
        /\ oldest' = oldest /\ m_barriers' = m_barriers
        /\ m_container'[truncateIndex(m_allElementsCount)].id = m_allElementsCount + 1
        /\ \A slot \in Slots : slot # truncateIndex(m_allElementsCount) => m_container'[slot] = m_container[slot]
    BY <1>1, <1>t, SlotInRange DEF Add, oldest
  <2>2. m_allElementsCount = m_barriers[0]
    BY <1>1, Zenon DEF Add, ProducerInv
  <2>3. m_allElementsCount - m_barriers[NumConsumers] + 2 <= SlotCount
    BY <1>1, <1>t, <2>2 DEF Add, ProducerInv, canProcessNextElement
  <2>4. ASSUME NEW q \in Nat, oldest <= q, q < m_allElementsCount'
        PROVE  elementAt(q)'.id = q + 1
    <3>1. CASE q = m_allElementsCount
      BY <2>1, <3>1 DEF elementAt
    <3>2. CASE q # m_allElementsCount
      <4>1. q < m_allElementsCount /\ m_allElementsCount < q + SlotCount
        BY <2>1, <2>3, <2>4, <3>2, <1>o, <1>t
      <4>2. truncateIndex(q) # truncateIndex(m_allElementsCount)
        BY <4>1, <1>t, LapDistinct
      <4>3. truncateIndex(q) \in Slots
        BY SlotInRange
      <4>4. elementAt(q).id = q + 1
        BY <2>4, <4>1, Zenon DEF RingInv
      <4> QED
        BY <2>1, <4>2, <4>3, <4>4, Zenon DEF elementAt
    <3> QED
      BY <3>1, <3>2
  <2> QED
    BY <2>1, <2>3, <2>4, <1>t, SMTT(30) DEF RingInv
<1>2. ASSUME NEW p \in Producers, Publish(p)
      PROVE  RingInv'
  <2>1. /\ m_barriers'[NumConsumers] = m_barriers[NumConsumers]
        /\ UNCHANGED <<pc, m_allElementsCount, m_container>>
    BY <1>2, <1>t, Zenon DEF Publish
  <2> QED
    BY <2>1, Zenon DEF RingInv, oldest, elementAt
<1>3. ASSUME NEW level \in Levels, ConsumerStep(level)
      PROVE  RingInv'
  <2>1. /\ \A slot \in Slots : m_container'[slot].id = m_container[slot].id
        /\ oldest' \in Nat /\ oldest <= oldest'
    BY <1>3, <1>o, ConsumerRingEffect
  <2>2. /\ m_barriers'[NumConsumers] >= m_barriers[NumConsumers]
        /\ m_barriers'[NumConsumers] \in Nat
        /\ m_allElementsCount' = m_allElementsCount
    BY <1>3, ConsumerStepEffect, TypeStep, Zenon DEF TypeOK, Barriers
  <2>3. ASSUME NEW q \in Nat, oldest' <= q, q < m_allElementsCount'
        PROVE  elementAt(q)'.id = q + 1
    <3>1. elementAt(q).id = q + 1
      BY <2>1, <2>2, <2>3, <1>o DEF RingInv
    <3> QED
      BY <2>1, <3>1, SlotInRange DEF elementAt
  <2> QED
    BY <2>2, <2>3, <1>t DEF RingInv
<1> QED
  BY <1>0, <1>1, <1>2, <1>3 DEF Next, ProducerStep, LockAndReadMin, Reject, Accept, Shutdown, vars

(* The completion callback is called for the oldest live element and for    *)
(* nothing else.                                                            *)
LEMMA CompletionStep ==
    TypeOK /\ BarrierInv /\ ProducerInv /\ RingInv /\ CompletionInv /\ [Next]_vars => CompletionInv'
<1> SUFFICES ASSUME TypeOK, BarrierInv, ProducerInv, RingInv, CompletionInv, [Next]_vars
             PROVE  CompletionInv'
  BY Zenon
<1> USE OptionsAssumption, LevelFacts
<1>t. /\ completions \in Seq([id : Nat, status : Statuses])
      /\ m_barriers \in [Barriers -> Nat] /\ m_barriers[NumConsumers] \in Nat
      /\ m_barriers[0] \in Nat /\ m_allElementsCount \in Nat
  BY DEF TypeOK, Barriers
<1>o. oldest \in Nat /\ oldest <= m_barriers[NumConsumers] /\ m_barriers[NumConsumers] <= oldest + 1
      /\ m_barriers[NumConsumers] = consumerEntry[LastLevel]
  BY OldestFacts
<1>0. ASSUME UNCHANGED <<pc, completions>>, m_barriers'[NumConsumers] = m_barriers[NumConsumers]
      PROVE  CompletionInv'
  BY <1>0 DEF CompletionInv, oldest, CompletedOnceInOrder
<1>1. ASSUME NEW level \in Levels, ConsumerStep(level)
      PROVE  CompletionInv'
  <2>1. CASE ~Complete(level)
    <3>1. oldest' = oldest
      BY <1>1, <2>1, ConsumerRingEffect, Zenon
    <3>2. completions' = completions
      BY <1>1, <2>1 DEF ConsumerStep, CheckKeepRunning, NothingToDo, SkipElement, NextElement,
                        Consume, Advance, Inspect, shared
    <3> QED
      BY <3>1, <3>2, ZenonT(30) DEF CompletionInv, CompletedOnceInOrder
  <2>2. CASE Complete(level)
    <3> DEFINE element == elementAt(consumerEntry[level] - 1)
               record == [id |-> element.id, status |-> element.status]
    <3>1. oldest' = oldest + 1
      BY <1>1, <2>2, ConsumerRingEffect, Zenon
    <3>2. level = LastLevel /\ pc[LastLevel] = "complete"
      BY <2>2, Zenon DEF Complete, BarrierInv
    <3>3. consumerEntry[level] - 1 = oldest
      BY <3>2, <1>o, <1>t DEF oldest
    <3>4. oldest < m_allElementsCount
      <4>1. m_barriers[NumConsumers] <= m_barriers[0]
        BY DEF BarrierInv, Barriers
      <4>2. m_barriers[0] <= m_allElementsCount
        BY <1>t DEF ProducerInv
      <4>3. oldest = m_barriers[NumConsumers] - 1
        BY <3>2 DEF oldest
      <4> QED
        BY <4>1, <4>2, <4>3, <1>t
    <3>5. element.id = oldest + 1
      BY <3>3, <3>4, <1>o DEF RingInv
    <3>6. completions' = Append(completions, record)
      BY <2>2 DEF Complete
    <3>7. Len(completions) = oldest /\ CompletedOnceInOrder
      BY DEF CompletionInv
    <3> HIDE DEF record
    <3>8. /\ Len(completions') = Len(completions) + 1
          /\ \A i \in 1 .. Len(completions) : completions'[i] = completions[i]
          /\ completions'[Len(completions) + 1] = record
      BY <3>6, <1>t
    <3>9. record.id = Len(completions) + 1
      BY <3>5, <3>7, Zenon DEF record
    <3>10. CompletedOnceInOrder'
      <4> SUFFICES ASSUME NEW i \in 1 .. Len(completions')
                   PROVE  completions'[i].id = i
        BY DEF CompletedOnceInOrder
      <4>1. Len(completions) \in Nat
        BY <1>t
      <4>2. CASE i \in 1 .. Len(completions)
        BY <4>2, <3>7, <3>8 DEF CompletedOnceInOrder
      <4>3. CASE i = Len(completions) + 1
        BY <4>3, <3>8, <3>9
      <4> QED
        BY <4>1, <4>2, <4>3, <3>8
    <3> QED
      BY <3>1, <3>7, <3>8, <3>10 DEF CompletionInv
  <2> QED
    BY <2>1, <2>2
<1>2. ASSUME NEW p \in Producers, ProducerStep(p)
      PROVE  CompletionInv'
  <2>1. m_barriers'[NumConsumers] = m_barriers[NumConsumers] /\ UNCHANGED <<pc, completions>>
    BY <1>2, <1>t DEF ProducerStep, LockAndReadMin, Reject, Accept, Add, Publish
  <2> QED
    BY <1>0, <2>1, Zenon
<1> QED
  BY <1>0, <1>1, <1>2 DEF Next, Shutdown, vars

(* Two live elements occupy different slots.                                *)
LEMMA LiveSlots ==
    ASSUME TypeOK, BarrierInv, RingInv,
           NEW a \in Nat, NEW b \in Nat, oldest <= a, a < b, b < m_allElementsCount
    PROVE  truncateIndex(a) # truncateIndex(b)
<1>1. b < a + SlotCount
  <2>1. m_barriers[NumConsumers] \in Nat /\ m_allElementsCount \in Nat
    BY OptionsAssumption DEF TypeOK
  <2> QED
    BY <2>1, OldestFacts, OptionsAssumption DEF RingInv
<1> QED
  BY <1>1, LapDistinct

(* A consumer at work is on a live element, behind all earlier consumers    *)
(* and ahead of all later ones.                                             *)
LEMMA AtWork ==
    ASSUME TypeOK, BarrierInv, ProducerInv, RingInv,
           NEW level \in Levels, pc[level] \in {"consume", "advance"}
    PROVE  /\ consumerEntry[level] \in Nat
           /\ oldest <= consumerEntry[level] /\ consumerEntry[level] < m_allElementsCount
           /\ consumerEntry[level] + 1 \in Ids
           /\ elementAt(consumerEntry[level]).id = consumerEntry[level] + 1
           /\ \A k \in Levels : k < level => consumerEntry[k] > consumerEntry[level]
<1> USE OptionsAssumption, LevelFacts
<1>t. /\ consumerEntry[level] \in Nat /\ m_allElementsCount \in Nat
      /\ \A i \in Barriers : m_barriers[i] \in Nat
      /\ oldest \in Nat /\ oldest <= m_barriers[NumConsumers]
  BY OldestFacts, Zenon DEF TypeOK, Barriers
<1>1. m_barriers[level + 1] = consumerEntry[level] /\ consumerEntry[level] < m_barriers[level]
  BY DEF BarrierInv
<1>2. m_barriers[NumConsumers] <= m_barriers[level + 1] /\ m_barriers[level] <= m_barriers[0]
  BY DEF BarrierInv, Barriers, Levels
<1>3. m_barriers[0] <= m_allElementsCount /\ m_allElementsCount <= MaxElements
  BY <1>t DEF ProducerInv
<1>4. oldest <= consumerEntry[level] /\ consumerEntry[level] < m_allElementsCount
  BY <1>1, <1>2, <1>3, <1>t
<1>5. consumerEntry[level] + 1 \in Ids
  BY <1>3, <1>4, <1>t DEF Ids
<1>6. ASSUME NEW k \in Levels, k < level
      PROVE  consumerEntry[k] > consumerEntry[level]
  <2>1. k + 1 \in Barriers /\ level \in Barriers /\ k + 1 <= level
    BY <1>6
  <2>2. m_barriers[level] <= m_barriers[k + 1] /\ m_barriers[k + 1] = consumerEntry[k]
    BY <2>1, Zenon DEF BarrierInv
  <2> QED
    BY <2>1, <2>2, <1>1, <1>t
<1> QED
  BY <1>4, <1>5, <1>6, <1>t, Zenon DEF RingInv

(* The consumers run on an element in the order of their levels: a consumer *)
(* at work on an element finds all earlier ones past it.                    *)
LEMMA ExecutionStep ==
    IInv /\ [Next]_vars => ExecutionInv'
<1> SUFFICES ASSUME TypeOK, BarrierInv, ProducerInv, RingInv, CompletionInv, ExecutionInv, [Next]_vars
             PROVE  ExecutionInv'
  BY Zenon DEF IInv
<1> USE OptionsAssumption, LevelFacts
<1>t. /\ executed \in [Ids -> SUBSET Levels] /\ pc \in [Levels -> {"loop", "next", "consume", "advance", "inspect", "complete", "exited"}]
      /\ m_container \in [Slots -> Elements] /\ consumerEntry \in [Levels -> Nat]
      /\ m_barriers \in [Barriers -> Nat] /\ m_allElementsCount \in Nat
      /\ completions \in Seq([id : Nat, status : Statuses])
  BY Zenon DEF TypeOK, Barriers
<1>o. oldest \in Nat
  BY OldestFacts
<1>c. \A i \in 1 .. Len(completions) : completions[i].id = i
  BY ZenonT(30) DEF CompletionInv, CompletedOnceInOrder
(* Steps that leave the elements and the places of work alone.              *)
<1>0. ASSUME UNCHANGED <<m_container, m_allElementsCount, consumerEntry, executed, completions>>,
             oldest' = oldest,
             \A k \in Levels : /\ pc'[k] = "advance" => pc[k] = "advance" \/ elementAt(consumerEntry[k]).status # "Normal"
                               /\ pc'[k] = "consume" => elementAt(consumerEntry[k]).status = "Normal"
      PROVE  ExecutionInv'
  BY <1>0 DEF ExecutionInv, PipelineOrder, elementAt, truncateIndex
<1>1. ASSUME NEW level \in Levels,
             CheckKeepRunning(level) \/ NothingToDo(level) \/ SkipElement(level) \/ NextElement(level)
      PROVE  ExecutionInv'
  <2>1. oldest' = oldest
    BY <1>1, ConsumerRingEffect, Zenon DEF ConsumerStep, Complete, CheckKeepRunning, NothingToDo, SkipElement, NextElement
  <2>2. UNCHANGED <<m_container, m_allElementsCount, consumerEntry, executed, completions>>
    BY <1>1, Zenon DEF CheckKeepRunning, NothingToDo, SkipElement, NextElement, shared
  <2>3. elementAt(consumerEntry[level]).status \in {"Normal", "Aborted"}
    <3>1. truncateIndex(consumerEntry[level]) \in Slots
      BY <1>t, SlotInRange
    <3> QED
      BY <1>t, <3>1 DEF elementAt, Elements, Statuses
  <2>4. \A k \in Levels : /\ pc'[k] = "advance" => pc[k] = "advance" \/ elementAt(consumerEntry[k]).status # "Normal"
                          /\ pc'[k] = "consume" => elementAt(consumerEntry[k]).status = "Normal"
    BY <1>1, <1>t, <2>3, ZenonT(30) DEF CheckKeepRunning, NothingToDo, SkipElement, NextElement, ExecutionInv
  <2> QED
    BY <2>1, <2>2, <2>4, <1>0
<1>2. ASSUME NEW level \in Levels, NEW result \in ConsumerResults, Consume(level, result)
      PROVE  ExecutionInv'
  <2> DEFINE q == consumerEntry[level]
  <2>1. /\ q \in Nat /\ oldest <= q /\ q < m_allElementsCount /\ q + 1 \in Ids
        /\ elementAt(q).id = q + 1 /\ elementAt(q).status = "Normal"
        /\ \A k \in Levels : k < level => consumerEntry[k] > q
    BY <1>2, AtWork DEF Consume, ExecutionInv
  <2>2. executed' = [executed EXCEPT ![q + 1] = @ \cup {level}]
    BY <1>2, <2>1 DEF Consume
  <2>3. /\ pc' = [pc EXCEPT ![level] = "advance"]
        /\ UNCHANGED <<consumerEntry, m_allElementsCount, completions>>
        /\ oldest' = oldest
    BY <1>2, ConsumerRingEffect, Zenon DEF Consume, ConsumerStep, Complete
  <2>4. /\ \A id \in Ids : executed[id] \subseteq executed'[id] /\ executed'[id] \subseteq Levels
        /\ \A id \in Ids : id # q + 1 => executed'[id] = executed[id]
        /\ level \in executed'[q + 1] /\ executed'[q + 1] \subseteq executed[q + 1] \cup {level}
    BY <2>1, <2>2, <1>t, Zenon
  <2>5. \A slot \in Slots : /\ slot # truncateIndex(q) => m_container'[slot] = m_container[slot]
                            /\ m_container'[slot].status = "Normal" => m_container'[slot] = m_container[slot]
    <3>1. CASE result = "Aborted"
      BY <1>2, <3>1, <1>t, Zenon DEF Consume, markSkipped
    <3>2. CASE result # "Aborted"
      BY <1>2, <3>2, Zenon DEF Consume
    <3> QED
      BY <3>1, <3>2, Zenon
  <2> HIDE DEF q
  <2>6. \A id \in Ids : id > m_allElementsCount' => executed'[id] = {}
    <3>1. ASSUME NEW id \in Ids, id > m_allElementsCount
          PROVE  executed'[id] = {}
      <4>1. executed[id] = {}
        BY <3>1, <1>t DEF ExecutionInv
      <4>2. id # q + 1
        BY <2>1, <3>1, <1>t DEF Ids
      <4> QED
        BY <2>4, <4>1, <4>2, Zenon
    <3> QED
      BY <2>3, <3>1, Zenon
  <2>7. ASSUME NEW r \in Nat, oldest' <= r, r < m_allElementsCount', NEW k \in Levels,
               elementAt(r)'.status = "Normal",
               consumerEntry'[k] > r \/ (consumerEntry'[k] = r /\ pc'[k] = "advance")
        PROVE  k \in executed'[r + 1]
    <3>1. r + 1 \in Ids
      BY <2>3, <2>7, <1>t, SMTT(30) DEF Ids, ProducerInv
    <3>2. elementAt(r).status = "Normal"
      BY <2>5, <2>7, SlotInRange DEF elementAt, truncateIndex
    <3>3. CASE k = level /\ consumerEntry[k] = r
      BY <3>3, <2>4, Zenon DEF q
    <3>4. CASE ~(k = level /\ consumerEntry[k] = r)
      <4>1. consumerEntry[k] > r \/ (consumerEntry[k] = r /\ pc[k] = "advance")
        BY <3>4, <2>3, <2>7, <1>t, Zenon
      <4>2. k \in executed[r + 1]
        BY <4>1, <3>2, <2>3, <2>7, Zenon DEF ExecutionInv
      <4> QED
        BY <4>2, <3>1, <2>4, Zenon
    <3> QED
      BY <3>3, <3>4, Zenon
  <2>8. ASSUME NEW k \in Levels, pc'[k] = "consume"
        PROVE  elementAt(consumerEntry[k])'.status = "Normal"
    <3>1. k # level /\ pc[k] = "consume"
      BY <2>3, <2>8, <1>t, Zenon
    <3>2. /\ consumerEntry[k] \in Nat /\ oldest <= consumerEntry[k] /\ consumerEntry[k] < m_allElementsCount
          /\ \A j \in Levels : j < k => consumerEntry[j] > consumerEntry[k]
      BY <3>1, AtWork
    <3>3. k \in Nat /\ level \in Nat
      BY Zenon
    <3>4. consumerEntry[k] < q \/ q < consumerEntry[k]
      BY <3>1, <3>2, <3>3, <2>1 DEF q
    <3>5. truncateIndex(consumerEntry[k]) # truncateIndex(q)
      BY <3>2, <3>4, <2>1, LiveSlots, Zenon
    <3>6. elementAt(consumerEntry[k]).status = "Normal"
      BY <3>1 DEF ExecutionInv
    <3>7. truncateIndex(consumerEntry[k]) \in Slots
      BY <3>2, SlotInRange
    <3> QED
      BY <3>5, <3>6, <3>7, <2>3, <2>5, Zenon DEF elementAt, truncateIndex
  <2>9. PipelineOrder'
    <3>1. ASSUME NEW id \in Ids, NEW k \in executed'[id]
          PROVE  0 .. k \subseteq executed'[id]
      <4>1. CASE k \in executed[id]
        BY <4>1, <2>4, Zenon DEF ExecutionInv, PipelineOrder
      <4>2. CASE k \notin executed[id]
        <5>1. id = q + 1 /\ k = level
          BY <4>2, <3>1, <2>4, Zenon
        <5>2. \A j \in Levels : j < level => j \in executed[q + 1]
          BY <2>1 DEF ExecutionInv
        <5>3. \A j \in 0 .. level : j \in Levels /\ (j < level \/ j = level)
          BY DEF Levels
        <5> QED
          BY <5>1, <5>2, <5>3, <2>1, <2>4, Zenon
      <4> QED
        BY <4>1, <4>2, Zenon
    <3>2. ASSUME NEW i \in 1 .. Len(completions'), completions'[i].status = "Normal"
          PROVE  executed'[completions'[i].id] = Levels
      <4>1. executed[completions[i].id] = Levels
        BY <2>3, <3>2, Zenon DEF ExecutionInv, PipelineOrder
      <4>2. completions[i].id \in Ids
        <5>1. Len(completions) = oldest /\ oldest <= q
          BY <2>1, Zenon DEF CompletionInv
        <5>2. i \in Nat /\ i >= 1 /\ i <= oldest /\ completions[i].id = i
          BY <5>1, <2>3, <3>2, <1>c, <1>o
        <5> QED
          BY <5>1, <5>2, <2>1, <1>o DEF Ids
      <4>3. executed[completions[i].id] \subseteq executed'[completions[i].id]
            /\ executed'[completions[i].id] \subseteq Levels
        BY <4>2, <2>4, Zenon
      <4>4. completions'[i] = completions[i]
        BY <2>3, Zenon
      <4> QED
        BY <4>1, <4>3, <4>4, Zenon
    <3> QED
      BY <3>1, <3>2, Zenon DEF PipelineOrder
  <2> QED
    BY <2>6, <2>7, <2>8, <2>9, <2>3 DEF ExecutionInv, elementAt, truncateIndex
<1>3. ASSUME NEW level \in Levels, Advance(level)
      PROVE  ExecutionInv'
  <2>1. /\ UNCHANGED <<m_container, m_allElementsCount, executed, completions>>
        /\ consumerEntry' = [consumerEntry EXCEPT ![level] = @ + 1]
        /\ pc[level] = "advance" /\ pc'[level] \notin {"advance", "consume"}
        /\ \A k \in Levels : k # level => pc'[k] = pc[k] /\ consumerEntry'[k] = consumerEntry[k]
    BY <1>3, <1>t, Zenon DEF Advance, TypeOK
  <2>2. oldest' = oldest
    BY <1>3, ConsumerRingEffect, Zenon DEF Advance, ConsumerStep, Complete
  <2>3. consumerEntry[level] \in Nat /\ consumerEntry'[level] = consumerEntry[level] + 1
    BY <2>1, <1>t, Zenon
  <2>4. ASSUME NEW r \in Nat, oldest <= r, r < m_allElementsCount, NEW k \in Levels,
               elementAt(r).status = "Normal",
               consumerEntry'[k] > r \/ (consumerEntry'[k] = r /\ pc'[k] = "advance")
        PROVE  k \in executed[r + 1]
    <3>1. consumerEntry[k] > r \/ (consumerEntry[k] = r /\ pc[k] = "advance")
      <4>1. CASE k = level
        BY <4>1, <2>1, <2>3, <2>4
      <4>2. CASE k # level
        BY <4>2, <2>1, <2>4, Zenon
      <4> QED
        BY <4>1, <4>2, Zenon
    <3> QED
      BY <3>1, <2>4 DEF ExecutionInv
  <2>5. \A k \in Levels : pc'[k] = "consume" => elementAt(consumerEntry'[k]).status = "Normal"
    BY <2>1 DEF ExecutionInv
  <2> QED
    BY <2>1, <2>2, <2>4, <2>5 DEF ExecutionInv, PipelineOrder, elementAt, truncateIndex
<1>4. ASSUME NEW level \in Levels, Inspect(level)
      PROVE  ExecutionInv'
  <2>1. /\ UNCHANGED <<m_allElementsCount, consumerEntry, executed, completions>>
        /\ \A k \in Levels : pc'[k] \in {"advance", "consume"} => pc'[k] = pc[k]
    BY <1>4, <1>t DEF Inspect
  <2>2. oldest' = oldest
    BY <1>4, ConsumerRingEffect, Zenon DEF Inspect, ConsumerStep, Complete
  <2>3. \A slot \in Slots : m_container'[slot].status = m_container[slot].status
    BY <1>4, <1>t, Zenon DEF Inspect, reclaimed
  <2>4. \A r \in Nat : m_container'[r % SlotCount].status = m_container[r % SlotCount].status
    <3> TAKE r \in Nat
    <3>1. r % SlotCount \in Slots
      BY SlotInRange, SMTT(30) DEF truncateIndex
    <3> QED
      BY <2>3, <3>1, Zenon
  <2>5. \A k \in Levels : consumerEntry[k] \in Nat
    BY <1>t
  <2>6. \A k \in Levels : m_container'[consumerEntry[k] % SlotCount].status
                           = m_container[consumerEntry[k] % SlotCount].status
    BY <2>4, <2>5, Zenon
  <2>7. PipelineOrder'
    BY <2>1 DEF ExecutionInv, PipelineOrder
  <2> QED
    BY <2>1, <2>2, <2>4, <2>6, <2>7, ZenonT(30) DEF ExecutionInv, elementAt, truncateIndex
<1>5. ASSUME NEW level \in Levels, Complete(level)
      PROVE  ExecutionInv'
  <2> DEFINE element == elementAt(consumerEntry[level] - 1)
             record == [id |-> element.id, status |-> element.status]
  <2>1. /\ UNCHANGED <<m_container, m_allElementsCount, consumerEntry, executed>>
        /\ completions' = Append(completions, record)
        /\ \A k \in Levels : pc'[k] \in {"advance", "consume"} => pc'[k] = pc[k]
    BY <1>5, <1>t, Zenon DEF Complete, TypeOK
  <2>2. oldest' = oldest + 1
    BY <1>5, ConsumerRingEffect, Zenon DEF ConsumerStep
  <2>3. level = LastLevel /\ consumerEntry[level] - 1 = oldest /\ m_barriers[NumConsumers] = oldest + 1
    <3>1. level = LastLevel /\ pc[LastLevel] = "complete"
      BY <1>5, Zenon DEF Complete, BarrierInv
    <3>2. consumerEntry[LastLevel] = m_barriers[NumConsumers] /\ m_barriers[NumConsumers] \in Nat
      BY <1>t, OldestFacts, Zenon
    <3> QED
      BY <3>1, <3>2 DEF oldest
  <2>4. oldest < m_allElementsCount
    <3>1. m_barriers[NumConsumers] <= m_barriers[0] /\ m_barriers[0] \in Nat
      BY <1>t, SMTT(30) DEF BarrierInv, Barriers
    <3>2. m_barriers[0] <= m_allElementsCount
      BY <3>1, <1>t DEF ProducerInv
    <3> QED
      BY <3>1, <3>2, <2>3, <1>o, <1>t
  <2>5. element.id = oldest + 1
    BY <2>3, <2>4, <1>o DEF RingInv
  <2>6. ASSUME element.status = "Normal"
        PROVE  executed[oldest + 1] = Levels
    <3>1. \A k \in Levels : consumerEntry[k] > oldest
      <4>1. ASSUME NEW k \in Levels PROVE consumerEntry[k] > oldest
        <5>1. m_barriers[NumConsumers] <= m_barriers[k + 1] /\ m_barriers[k + 1] = consumerEntry[k]
          BY DEF BarrierInv, Barriers, Levels
        <5>2. consumerEntry[k] \in Nat
          BY <1>t, Zenon
        <5> QED
          BY <5>1, <5>2, <2>3, <1>o
      <4> QED
        BY <4>1, Zenon
    <3>2. Levels \subseteq executed[oldest + 1]
      BY <3>1, <2>3, <2>4, <2>6, <1>o, SMTT(30) DEF ExecutionInv
    <3>3. oldest + 1 \in Ids
      BY <2>4, <1>o, <1>t, SMTT(30) DEF Ids, ProducerInv
    <3> QED
      BY <3>2, <3>3, <1>t, Zenon
  <2> HIDE DEF element
  <2>7. /\ Len(completions') = Len(completions) + 1 /\ Len(completions) \in Nat
        /\ \A i \in 1 .. Len(completions) : completions'[i] = completions[i]
        /\ completions'[Len(completions) + 1] = record
    BY <2>1, <1>t, SMTT(30)
  <2>8. ASSUME NEW i \in 1 .. Len(completions'), completions'[i].status = "Normal"
        PROVE  executed[completions'[i].id] = Levels
    <3>1. CASE i \in 1 .. Len(completions)
      BY <3>1, <2>7, <2>8, Zenon DEF ExecutionInv, PipelineOrder
    <3>2. CASE i = Len(completions) + 1
      BY <3>2, <2>5, <2>6, <2>7, <2>8
    <3> QED
      BY <3>1, <3>2, <2>7
  <2>9. PipelineOrder'
    BY <2>1, <2>8, Zenon DEF ExecutionInv, PipelineOrder
  <2>10. \A r \in Nat : oldest' <= r => oldest <= r
    BY <2>2, <1>o
  <2> QED
    BY <2>1, <2>9, <2>10, Zenon DEF ExecutionInv, elementAt, truncateIndex
<1>6. ASSUME NEW p \in Producers, Add(p)
      PROVE  ExecutionInv'
  <2> DEFINE n == m_allElementsCount
  <2>1. /\ UNCHANGED <<m_barriers, consumerEntry, pc, executed, completions>>
        /\ m_allElementsCount' = n + 1 /\ n \in Nat /\ n = m_barriers[0]
        /\ n < MaxElements
        /\ n - m_barriers[NumConsumers] + 1 + 1 <= SlotCount
    <3>1. UNCHANGED <<m_barriers, consumerEntry, pc, executed, completions>>
          /\ m_allElementsCount' = n + 1 /\ n \in Nat
      BY <1>6, <1>t, Zenon DEF Add
    <3>2. \A r \in Producers : producer[r].pc # "publish"
      BY <1>6, Zenon DEF ProducerInv, Add
    <3>3. n = m_barriers[0] /\ n < MaxElements
      BY <3>2, <1>6, Zenon DEF ProducerInv, Add
    <3>4. producer[p].minPosition <= m_barriers[NumConsumers] /\ canProcessNextElement(producer[p].minPosition)
      BY <1>6, Zenon DEF ProducerInv, Add
    <3>5. producer[p].minPosition \in Nat /\ m_barriers[NumConsumers] \in Nat
      BY DEF TypeOK
    <3> QED
      BY <3>1, <3>3, <3>4, <3>5 DEF canProcessNextElement
  <2>2. oldest' = oldest
    BY <2>1, Zenon DEF oldest
  <2>3. ASSUME NEW r \in Nat, oldest <= r, r < n
        PROVE  elementAt(r)' = elementAt(r)
    <3>1. n < r + SlotCount
      <4>1. m_barriers[NumConsumers] \in Nat /\ m_barriers[NumConsumers] <= oldest + 1
        BY <1>t, OldestFacts, Zenon
      <4> QED
        BY <2>1, <2>3, <4>1, <1>o
    <3>2. truncateIndex(r) # truncateIndex(n)
      BY <3>1, <2>1, <2>3, LapDistinct, Zenon
    <3>3. truncateIndex(r) \in Slots
      BY SlotInRange
    <3> QED
      BY <3>2, <3>3, <1>6, <1>t, Zenon DEF Add, elementAt, truncateIndex
  <2> HIDE DEF n
  <2>4. \A k \in Levels : consumerEntry[k] <= n
                          /\ (pc[k] \in {"consume", "advance"} =>
                                 consumerEntry[k] \in Nat /\ oldest <= consumerEntry[k] /\ consumerEntry[k] < n)
    <3>1. ASSUME NEW k \in Levels PROVE consumerEntry[k] <= n
      <4>1. m_barriers[k + 1] <= m_barriers[0] /\ m_barriers[k + 1] = consumerEntry[k]
        BY SMTT(30) DEF BarrierInv, Barriers, Levels
      <4> QED
        BY <4>1, <2>1, Zenon
    <3> QED
      BY <3>1, AtWork, Zenon DEF n
  <2>5. \A id \in Ids : id > m_allElementsCount' => executed'[id] = {}
    BY <2>1 DEF ExecutionInv, Ids, n
  <2>6. ASSUME NEW r \in Nat, oldest <= r, r < n + 1, NEW k \in Levels,
               elementAt(r)'.status = "Normal",
               consumerEntry[k] > r \/ (consumerEntry[k] = r /\ pc[k] = "advance")
        PROVE  k \in executed[r + 1]
    <3>1. r < n
      <4>1. consumerEntry[k] \in Nat
        BY <1>t, Zenon
      <4> QED
        BY <4>1, <2>1, <2>4, <2>6
    <3>2. elementAt(r).status = "Normal"
      BY <3>1, <2>3, <2>6, Zenon
    <3> QED
      BY <3>1, <3>2, <2>6, Zenon DEF ExecutionInv, n
  <2>7. ASSUME NEW k \in Levels, pc[k] = "consume"
        PROVE  elementAt(consumerEntry[k])'.status = "Normal"
    <3> DEFINE r == consumerEntry[k]
    <3>1. r \in Nat /\ oldest <= r /\ r < n /\ r' = r
      BY <2>1, <2>4, <2>7, Zenon
    <3>2. elementAt(r).status = "Normal"
      BY <2>7, Zenon DEF ExecutionInv
    <3>3. m_container'[r % SlotCount] = m_container[r % SlotCount]
      <4> HIDE DEF r
      <4> QED
        BY <3>1, <2>3, Zenon DEF elementAt, truncateIndex
    <3> QED
      BY <3>1, <3>2, <3>3, Zenon DEF elementAt, truncateIndex
  <2>8. PipelineOrder'
    BY <2>1, Zenon DEF ExecutionInv, PipelineOrder
  <2> QED
    BY <2>1, <2>2, <2>5, <2>6, <2>7, <2>8, Zenon DEF ExecutionInv, elementAt, truncateIndex
<1>7. ASSUME NEW p \in Producers,
             (\E size \in InputSizes : LockAndReadMin(p, size)) \/ Reject(p) \/ Accept(p) \/ Publish(p)
      PROVE  ExecutionInv'
  <2>1. UNCHANGED <<m_container, m_allElementsCount, consumerEntry, executed, completions, pc>>
        /\ m_barriers'[NumConsumers] = m_barriers[NumConsumers]
    BY <1>7, <1>t, Zenon DEF LockAndReadMin, Reject, Accept, Publish
  <2>2. oldest' = oldest
    BY <2>1 DEF oldest
  <2>3. \A k \in Levels : /\ pc'[k] = "advance" => pc[k] = "advance" \/ elementAt(consumerEntry[k]).status # "Normal"
                          /\ pc'[k] = "consume" => elementAt(consumerEntry[k]).status = "Normal"
    BY <2>1, Zenon DEF ExecutionInv
  <2> QED
    BY <2>1, <2>2, <2>3, <1>0, Zenon
<1>8. CASE Shutdown \/ UNCHANGED vars
  <2>1. UNCHANGED <<m_container, m_allElementsCount, consumerEntry, executed, completions, pc, m_barriers>>
    BY <1>8 DEF Shutdown, vars
  <2>2. oldest' = oldest
    BY <2>1, Zenon DEF oldest
  <2>3. \A k \in Levels : /\ pc'[k] = "advance" => pc[k] = "advance" \/ elementAt(consumerEntry[k]).status # "Normal"
                          /\ pc'[k] = "consume" => elementAt(consumerEntry[k]).status = "Normal"
    BY <2>1, Zenon DEF ExecutionInv
  <2> QED
    BY <2>1, <2>2, <2>3, <1>0, Zenon
<1> QED
  BY <1>1, <1>2, <1>3, <1>4, <1>5, <1>6, <1>7, <1>8 DEF Next, ProducerStep, ConsumerStep

(* Only Add changes which element a slot holds.                             *)
LEMMA SlotStep ==
    TypeOK /\ BarrierInv /\ SlotInv /\ [Next]_vars => SlotInv'
<1> SUFFICES ASSUME TypeOK, BarrierInv, SlotInv, [Next]_vars
             PROVE  SlotInv'
  OBVIOUS
<1>t. m_container \in [Slots -> Elements] /\ m_allElementsCount \in Nat
  BY DEF TypeOK
<1>0. ASSUME \A slot \in Slots : m_container'[slot].id = m_container[slot].id
      PROVE  SlotInv'
  BY <1>0, Zenon DEF SlotInv, truncateIndex
<1>1. ASSUME NEW level \in Levels, ConsumerStep(level)
      PROVE  SlotInv'
  BY <1>0, <1>1, ConsumerRingEffect, Zenon
<1>2. ASSUME NEW p \in Producers, Add(p)
      PROVE  SlotInv'
  <2>1. SUFFICES ASSUME NEW slot \in Slots, m_container'[slot].id # 0
                 PROVE  truncateIndex(m_container'[slot].id - 1) = slot
    BY Zenon DEF SlotInv, truncateIndex
  <2>2. CASE slot = truncateIndex(m_allElementsCount)
    <3>1. m_container'[slot].id = m_allElementsCount + 1
      BY <1>2, <2>2, <1>t DEF Add
    <3>2. m_container'[slot].id - 1 = m_allElementsCount
      BY <3>1, <1>t
    <3> QED
      BY <2>2, <3>2, Zenon
  <2>3. CASE slot # truncateIndex(m_allElementsCount)
    <3>1. m_container'[slot] = m_container[slot]
      BY <1>2, <2>3, <1>t, Zenon DEF Add
    <3> QED
      BY <2>1, <3>1, Zenon DEF SlotInv
  <2> QED
    BY <2>2, <2>3, Zenon
<1> QED
  BY <1>0, <1>1, <1>2, Zenon
  DEF Next, ProducerStep, LockAndReadMin, Reject, Accept, Publish, Shutdown, vars

(* Steps that change neither the counters nor what they count.              *)
LEMMA AccountingUnmoved ==
    ASSUME AccountingInv,
           UNCHANGED <<m_numActiveElements, m_memorySize, m_allElementsCount>>, oldest' = oldest,
           \A q \in Nat : oldest <= q /\ q < m_allElementsCount => elementAt(q)'.size = elementAt(q).size,
           adding' = adding, \A p \in adding : producer'[p].size = producer[p].size
    PROVE  AccountingInv'
<1>1. PICK total \in [Nat -> Nat] :
          /\ Totals(total)
          /\ \A p \in adding :
                 m_memorySize = total[m_allElementsCount] - total[oldest] + producer[p].size
          /\ adding = {} => m_memorySize = total[m_allElementsCount] - total[oldest]
  BY Zenon DEF AccountingInv, MemoryInv
<1>2. Totals(total)'
  BY <1>1, Zenon DEF Totals
<1>3. MemoryInv'
  BY <1>1, <1>2, Zenon DEF MemoryInv
<1> QED
  BY <1>3, Zenon DEF AccountingInv

(* Who is about to add: nobody, or the producer inside processElement.      *)
LEMMA AddingFacts ==
    ASSUME ProducerInv, NEW p \in Producers, producer[p].pc # "idle"
    PROVE  adding = IF producer[p].pc = "add" THEN {p} ELSE {}
BY Zenon DEF ProducerInv, adding

(* A consumer never changes the size in a slot.                             *)
LEMMA ConsumerSizeEffect ==
    ASSUME TypeOK, NEW level \in Levels, ConsumerStep(level)
    PROVE  \A slot \in Slots : m_container'[slot].size = m_container[slot].size
<1>t. DOMAIN m_container = Slots
  BY Zenon DEF TypeOK
<1>1. ASSUME NEW result \in ConsumerResults, Consume(level, result)
      PROVE  \A slot \in Slots : m_container'[slot].size = m_container[slot].size
  BY <1>1, <1>t, Zenon DEF Consume, markSkipped
<1>2. CASE Inspect(level)
  BY <1>2, <1>t DEF Inspect, reclaimed
<1>3. CASE UNCHANGED m_container
  BY <1>3
<1> QED
  BY <1>1, <1>2, <1>3, Zenon DEF ConsumerStep, CheckKeepRunning, NothingToDo, SkipElement,
                          NextElement, Advance, Complete, shared

(* Acceptance: the input is counted before it is added.                     *)
LEMMA AccountingAccept ==
    ASSUME TypeOK, BarrierInv, ProducerInv, AccountingInv, NEW p \in Producers, Accept(p)
    PROVE  AccountingInv'
<1>1. /\ adding = {} /\ producer[p].size \in Nat /\ m_memorySize \in Int /\ m_numActiveElements \in Int
      /\ m_allElementsCount \in Nat /\ MaxMemorySize \in Nat /\ DOMAIN producer = Producers
  <2>1. producer[p].pc = "locked"
    BY DEF Accept
  <2>2. adding = {}
    BY <2>1, AddingFacts, Zenon
  <2> QED
    BY <2>2, OptionsAssumption DEF TypeOK
<1>2. /\ producer'[p].pc = "add" /\ producer'[p].size = producer[p].size
      /\ \A q \in Producers : q # p => producer'[q] = producer[q]
      /\ oldest' = oldest /\ \A q : elementAt(q)' = elementAt(q)
      /\ m_allElementsCount' = m_allElementsCount
      /\ m_memorySize' = m_memorySize + producer[p].size
      /\ m_numActiveElements' = m_numActiveElements + 1
  BY <1>1, Zenon DEF Accept, producerAt, oldest, elementAt
<1>3. adding' = {p}
  BY <1>1, <1>2, ZenonT(30) DEF adding
<1>4. m_memorySize' <= MaxMemorySize
  BY <1>1, <1>2 DEF Accept, isFull
<1>5. PICK total \in [Nat -> Nat] :
          Totals(total) /\ m_memorySize = total[m_allElementsCount] - total[oldest]
  BY <1>1, Zenon DEF AccountingInv, MemoryInv
<1>6. Totals(total)'
  BY <1>2, <1>5, Zenon DEF Totals
<1>7. MemoryInv'
  BY <1>2, <1>3, <1>5, <1>6 DEF MemoryInv
<1>8. oldest \in Nat
  BY OldestFacts, Zenon
<1>9. m_numActiveElements' = m_allElementsCount' - oldest' + 1
  BY <1>1, <1>2, <1>8, SMTT(30) DEF AccountingInv
<1> QED
  BY <1>3, <1>4, <1>7, <1>9, Zenon DEF AccountingInv

(* Adding: the input becomes the last live element.                         *)
LEMMA AccountingAdd ==
    ASSUME TypeOK, BarrierInv, ProducerInv, RingInv, AccountingInv, NEW p \in Producers, Add(p)
    PROVE  AccountingInv'
<1>n. PICK n \in Nat : n = m_allElementsCount
  BY DEF TypeOK
<1>s. PICK size \in Nat : size = producer[p].size
  BY Zenon DEF TypeOK
<1>1. /\ adding = {p} /\ m_memorySize \in Int /\ m_numActiveElements \in Int
      /\ DOMAIN producer = Producers /\ DOMAIN m_container = Slots
  <2>1. producer[p].pc = "add"
    BY Zenon DEF Add
  <2>2. adding = {p}
    BY <2>1, AddingFacts
  <2> QED
    BY <2>2, Zenon DEF TypeOK
<1>2. oldest \in Nat /\ oldest <= m_barriers[NumConsumers] /\ m_barriers[NumConsumers] <= oldest + 1
  BY OldestFacts, Zenon
<1>3. /\ n = m_barriers[0] /\ m_barriers[NumConsumers] \in Nat /\ m_barriers[NumConsumers] <= n
      /\ n - m_barriers[NumConsumers] + 2 <= SlotCount /\ SlotCount \in Nat
  <2>1. n = m_barriers[0]
    BY <1>n, Zenon DEF Add, ProducerInv
  <2>2. m_barriers[NumConsumers] \in Nat /\ producer[p].minPosition \in Nat /\ m_barriers[0] \in Nat
    BY LevelFacts, Zenon DEF TypeOK, Barriers
  <2>3. m_barriers[NumConsumers] <= m_barriers[0]
    BY LevelFacts, OptionsAssumption DEF BarrierInv, Barriers
  <2>4. /\ producer[p].minPosition <= m_barriers[NumConsumers]
        /\ m_barriers[0] - producer[p].minPosition + 1 + 1 <= SlotCount
    BY Zenon DEF Add, ProducerInv, canProcessNextElement
  <2> QED
    BY <2>1, <2>2, <2>3, <2>4, OptionsAssumption
<1>4. /\ m_allElementsCount' = n + 1 /\ oldest' = oldest
      /\ UNCHANGED <<m_memorySize, m_numActiveElements>>
      /\ m_container'[truncateIndex(n)].size = size
      /\ \A slot \in Slots : slot # truncateIndex(n) => m_container'[slot] = m_container[slot]
      /\ producer'[p].pc = "publish" /\ \A q \in Producers : q # p => producer'[q] = producer[q]
  BY <1>1, <1>n, <1>s, SlotInRange DEF Add, producerAt, oldest
<1>5. adding' = {}
  BY <1>1, <1>4, Zenon DEF adding
<1>6. elementAt(n)'.size = size
  BY <1>4, Zenon DEF elementAt
<1>7. \A q \in Nat : oldest <= q /\ q < n => elementAt(q)'.size = elementAt(q).size
  <2> SUFFICES ASSUME NEW q \in Nat, oldest <= q, q < n
               PROVE  elementAt(q)'.size = elementAt(q).size
    OBVIOUS
  <2>1. n < q + SlotCount
    BY <1>1, <1>2, <1>3
  <2>2. truncateIndex(q) # truncateIndex(n) /\ truncateIndex(q) \in Slots
    BY <1>1, <2>1, LapDistinct, SlotInRange, SMTT(30)
  <2> QED
    BY <1>4, <2>2 DEF elementAt
<1>8. PICK total \in [Nat -> Nat] :
          Totals(total) /\ m_memorySize = total[n] - total[oldest] + size
  BY <1>1, <1>n, <1>s DEF AccountingInv, MemoryInv
<1> DEFINE next == [k \in Nat |-> IF k <= n THEN total[k] ELSE total[n] + size]
<1>9. next \in [Nat -> Nat]
  BY <1>1
<1>10. oldest <= n
  BY <1>1, <1>2, <1>3
<1>11. Totals(next)'
  <2>1. \A a, b \in Nat : a <= b => next[a] <= next[b]
    <3>1. \A k \in Nat : total[k] \in Nat
      BY Zenon
    <3> QED
      BY <1>1, <1>8, <3>1 DEF Totals
  <2>2. ASSUME NEW q \in Nat, oldest <= q, q < n + 1
        PROVE  next[q + 1] = next[q] + elementAt(q)'.size
    <3>1. CASE q = n
      BY <1>1, <1>6, <3>1
    <3>2. CASE q # n
      <4>1. q < n /\ q + 1 <= n /\ q + 1 \in Nat
        BY <1>1, <2>2, <3>2
      <4>2. total[q + 1] = total[q] + elementAt(q).size
        BY <1>8, <1>n, <2>2, <4>1, Zenon DEF Totals
      <4>3. elementAt(q)'.size = elementAt(q).size
        BY <1>7, <2>2, <4>1, Zenon
      <4> QED
        BY <1>1, <4>1, <4>2, <4>3
    <3> QED
      BY <3>1, <3>2, Zenon
  <2> HIDE DEF next
  <2> QED
    BY <1>4, <2>1, <2>2, Zenon DEF Totals
<1>12. next[n + 1] = total[n] + size /\ next[oldest] = total[oldest]
  BY <1>1, <1>2, <1>10
<1>13. m_memorySize' = next[n + 1] - next[oldest]
  <2>1. total[n] \in Nat /\ total[oldest] \in Nat
    BY <1>1, <1>2, Zenon
  <2>2. m_memorySize' = m_memorySize
    BY <1>4
  <2>3. m_memorySize = total[n] - total[oldest] + size
    BY <1>8, Zenon
  <2> HIDE DEF next
  <2> QED
    BY <1>12, <2>1, <2>2, <2>3
<1> HIDE DEF next
<1>14. MemoryInv'
  BY <1>4, <1>5, <1>9, <1>11, <1>13, Zenon DEF MemoryInv
<1>15. m_numActiveElements' = m_allElementsCount' - oldest'
  <2>1. m_numActiveElements = n - oldest + 1
    BY <1>1, <1>n, Zenon DEF AccountingInv
  <2>2. m_numActiveElements' = m_numActiveElements /\ m_allElementsCount' = n + 1 /\ oldest' = oldest
    BY <1>4, Zenon
  <2> QED
    BY <1>2, <2>1, <2>2
<1>16. m_memorySize' <= MaxMemorySize
  BY <1>4 DEF AccountingInv
<1> QED
  BY <1>4, <1>5, <1>14, <1>15, <1>16, <1>1, <1>2 DEF AccountingInv

(* Completion: the oldest live element gives its memory back.               *)
LEMMA AccountingComplete ==
    ASSUME TypeOK, BarrierInv, ProducerInv, RingInv, AccountingInv, NEW level \in Levels, Complete(level)
    PROVE  AccountingInv'
<1> DEFINE n == m_allElementsCount
<1>1. level = LastLevel /\ pc[LastLevel] = "complete"
  BY Zenon DEF Complete, BarrierInv
<1>2. /\ oldest \in Nat /\ m_barriers[NumConsumers] = consumerEntry[LastLevel]
      /\ m_barriers[NumConsumers] \in Nat /\ m_barriers[0] \in Nat /\ n \in Nat
      /\ m_memorySize \in Int /\ m_numActiveElements \in Int /\ MaxMemorySize \in Nat
  BY OldestFacts, LevelFacts, OptionsAssumption, Zenon DEF TypeOK, Barriers
<1>3. consumerEntry[level] - 1 = oldest
  BY <1>1, <1>2 DEF oldest
<1>4. oldest < n
  <2>1. m_barriers[NumConsumers] <= m_barriers[0]
    BY LevelFacts, OptionsAssumption, SMTT(30) DEF BarrierInv, Barriers
  <2>2. m_barriers[0] <= n
    BY <1>2 DEF ProducerInv
  <2>3. oldest = m_barriers[NumConsumers] - 1
    BY <1>1 DEF oldest
  <2> QED
    BY <1>2, <2>1, <2>2, <2>3
<1>5. elementAt(oldest).size \in Nat
  <2>1. elementAt(oldest) \in Elements
    BY <1>2, SlotInRange DEF elementAt, TypeOK
  <2> QED
    BY <2>1, Zenon DEF Elements
<1>6. oldest' = oldest + 1
  BY ConsumerRingEffect, Zenon DEF ConsumerStep
<1>7. /\ m_memorySize' = m_memorySize - elementAt(oldest).size
      /\ m_numActiveElements' = m_numActiveElements - 1
      /\ UNCHANGED <<m_container, m_allElementsCount, producer>>
  BY <1>3, Zenon DEF Complete
<1>8. adding' = adding
  BY <1>7, Zenon DEF adding
<1>9. PICK total \in [Nat -> Nat] :
          /\ Totals(total)
          /\ \A p \in adding : m_memorySize = total[n] - total[oldest] + producer[p].size
          /\ adding = {} => m_memorySize = total[n] - total[oldest]
  BY Zenon DEF AccountingInv, MemoryInv
<1>10. total[oldest + 1] = total[oldest] + elementAt(oldest).size
  BY <1>2, <1>4, <1>9 DEF Totals
<1>11. Totals(total)'
  <2>1. \A q \in Nat : oldest + 1 <= q /\ q < n => total[q + 1] = total[q] + elementAt(q).size
    BY <1>2, <1>9 DEF Totals
  <2>2. \A q : elementAt(q)' = elementAt(q)
    BY <1>7 DEF elementAt
  <2> QED
    BY <1>6, <1>7, <1>9, <2>1, <2>2, Zenon DEF Totals
<1>12. total[n] \in Nat /\ total[oldest] \in Nat /\ total[oldest + 1] \in Nat
  BY <1>2, SMTT(30)
<1>13. \A p \in adding : m_memorySize' = total[n] - total[oldest + 1] + producer[p].size
  <2> SUFFICES ASSUME NEW p \in adding
               PROVE  m_memorySize' = total[n] - total[oldest + 1] + producer[p].size
    OBVIOUS
  <2>1. producer[p].size \in Nat
    BY Zenon DEF adding, TypeOK
  <2> QED
    BY <1>2, <1>5, <1>7, <1>9, <1>10, <1>12, <2>1
<1>14. adding = {} => m_memorySize' = total[n] - total[oldest + 1]
  BY <1>2, <1>5, <1>7, <1>9, <1>10, <1>12
<1>15. MemoryInv'
  BY <1>6, <1>7, <1>8, <1>11, <1>13, <1>14, Zenon DEF MemoryInv
<1>16. m_memorySize' <= MaxMemorySize
  BY <1>2, <1>5, <1>7 DEF AccountingInv
<1>17. m_numActiveElements' = m_allElementsCount' - oldest' + (IF adding' = {} THEN 0 ELSE 1)
  BY <1>2, <1>6, <1>7, <1>8 DEF AccountingInv
<1> QED
  BY <1>15, <1>16, <1>17, Zenon DEF AccountingInv

(* The counters stay exact.                                                 *)
LEMMA AccountingStep ==
    TypeOK /\ BarrierInv /\ ProducerInv /\ RingInv /\ AccountingInv /\ [Next]_vars => AccountingInv'
<1> SUFFICES ASSUME TypeOK, BarrierInv, ProducerInv, RingInv, AccountingInv, [Next]_vars
             PROVE  AccountingInv'
  OBVIOUS
<1>t. DOMAIN producer = Producers /\ m_barriers \in [Barriers -> Nat]
  BY DEF TypeOK, Barriers
<1>0. CASE UNCHANGED vars \/ Shutdown
  <2>1. /\ UNCHANGED <<m_numActiveElements, m_memorySize, m_allElementsCount>>
        /\ UNCHANGED <<m_container, m_barriers, pc, producer>>
    BY <1>0, Zenon DEF Shutdown, vars
  <2>2. oldest' = oldest /\ adding' = adding /\ \A q \in Nat : elementAt(q)' = elementAt(q)
    BY <2>1, Zenon DEF oldest, adding, elementAt
  <2> QED
    BY <2>1, <2>2, AccountingUnmoved, Zenon
<1>1. ASSUME NEW p \in Producers, (\E size \in InputSizes : LockAndReadMin(p, size)) \/ Reject(p) \/ Publish(p)
      PROVE  AccountingInv'
  <2>1. /\ UNCHANGED <<m_numActiveElements, m_memorySize, m_allElementsCount>>
        /\ UNCHANGED <<m_container, pc>> /\ m_barriers'[NumConsumers] = m_barriers[NumConsumers]
        /\ producer[p].pc # "add" /\ producer'[p].pc # "add"
        /\ \A q \in Producers : q # p => producer'[q] = producer[q]
    BY <1>1, <1>t, LevelFacts DEF LockAndReadMin, Reject, Publish, IdleProducer
  <2>2. oldest' = oldest /\ \A q \in Nat : elementAt(q)' = elementAt(q)
    BY <2>1, Zenon DEF oldest, elementAt
  <2>3. adding' = adding /\ p \notin adding
    BY <2>1, Zenon DEF adding
  <2>4. \A q \in adding : producer'[q].size = producer[q].size
    BY <2>1, <2>3 DEF adding
  <2> QED
    BY <2>1, <2>2, <2>3, <2>4, AccountingUnmoved, Zenon
<1>2. ASSUME NEW p \in Producers, Accept(p)
      PROVE  AccountingInv'
  BY <1>2, AccountingAccept
<1>3. ASSUME NEW p \in Producers, Add(p)
      PROVE  AccountingInv'
  BY <1>3, AccountingAdd
<1>4. ASSUME NEW level \in Levels, ConsumerStep(level)
      PROVE  AccountingInv'
  <2>1. CASE Complete(level)
    BY <2>1, AccountingComplete, Zenon
  <2>2. CASE ~Complete(level)
    <3>1. oldest' = oldest
      BY <1>4, <2>2, ConsumerRingEffect, Zenon
    <3>2. UNCHANGED <<m_numActiveElements, m_memorySize, m_allElementsCount>> /\ UNCHANGED producer
      BY <1>4, <2>2, Zenon DEF ConsumerStep, CheckKeepRunning, NothingToDo, SkipElement, NextElement,
                        Consume, Advance, Inspect, shared
    <3>3. \A q \in Nat : elementAt(q)'.size = elementAt(q).size
      BY <1>4, ConsumerSizeEffect, SlotInRange DEF elementAt
    <3>4. adding' = adding
      BY <3>2, Zenon DEF adding
    <3> QED
      BY <3>1, <3>2, <3>3, <3>4, AccountingUnmoved, Zenon
  <2> QED
    BY <2>1, <2>2
<1> QED
  BY <1>0, <1>1, <1>2, <1>3, <1>4 DEF Next, ProducerStep

(* The invariant holds initially.                                           *)
LEMMA InitIInv == Init => IInv
<1> SUFFICES ASSUME Init
             PROVE  IInv
  OBVIOUS
<1> USE OptionsAssumption, LevelFacts
<1> USE DEF Init
<1>1. TypeOK
  <2>1. DefaultElement \in Elements
    BY Zenon DEF DefaultElement, Elements, Statuses
  <2>2. IdleProducer \in [pc : {"idle", "locked", "add", "publish"}, size : Nat, minPosition : Nat]
    BY DEF IdleProducer
  <2>3. completions \in Seq([id : Nat, status : Statuses])
    OBVIOUS
  <2>4. /\ m_container \in [Slots -> Elements]
        /\ producer \in [Producers -> [pc : {"idle", "locked", "add", "publish"}, size : Nat, minPosition : Nat]]
    BY <2>1, <2>2
  <2>5. /\ m_barriers \in [0 .. NumConsumers -> Nat] /\ consumerEntry \in [Levels -> Nat]
        /\ executed \in [Ids -> SUBSET Levels]
    OBVIOUS
  <2>6. /\ pc \in [Levels -> {"loop", "next", "consume", "advance", "inspect", "complete", "exited"}]
        /\ resume \in [Levels -> {"loop", "next"}]
    OBVIOUS
  <2>7. m_allElementsCount \in Nat /\ m_numActiveElements \in Int /\ m_memorySize \in Int
    BY SMT
  <2>8. m_keepRunning \in BOOLEAN /\ m_addSpinLock \in BOOLEAN
    BY Zenon
  <2> HIDE DEF Init
  <2> QED
    BY <2>3, <2>4, <2>5, <2>6, <2>7, <2>8, Zenon DEF TypeOK
<1>2. oldest = 0
  BY DEF oldest
<1>3. BarrierInv
  BY DEF BarrierInv, Barriers
<1>4. ProducerInv
  BY DEF ProducerInv, IdleProducer
<1>5. RingInv
  BY <1>2 DEF RingInv
<1>6. CompletionInv
  BY <1>2 DEF CompletionInv, CompletedOnceInOrder
<1>7. ExecutionInv
  BY <1>2 DEF ExecutionInv, PipelineOrder
<1>8. SlotInv
  BY Zenon DEF SlotInv, DefaultElement
<1>9. AccountingInv
  <2>1. adding = {}
    BY Zenon DEF adding, IdleProducer
  <2> DEFINE total == [k \in Nat |-> 0]
  <2>2. total \in [Nat -> Nat] /\ total[0] = 0
    BY Zenon
  <2>3. Totals(total)
    BY <1>2 DEF Totals
  <2> HIDE DEF total
  <2>4. m_memorySize = total[m_allElementsCount] - total[oldest]
    BY <1>2, <2>2
  <2> HIDE DEF Init
  <2>5. MemoryInv
    BY <2>1, <2>2, <2>3, <2>4, Zenon DEF MemoryInv
  <2> USE DEF Init
  <2> QED
    BY <1>2, <2>1, <2>5 DEF AccountingInv
<1> QED
  BY <1>1, <1>3, <1>4, <1>5, <1>6, <1>7, <1>8, <1>9 DEF IInv

(* The invariant is inductive.                                              *)
LEMMA NextIInv == IInv /\ [Next]_vars => IInv'
BY TypeStep, BarrierStep, ProducerInvStep, RingStep, CompletionStep, ExecutionStep, SlotStep,
   AccountingStep DEF IInv

(* The inductive invariant holds in every reachable state, for any number   *)
(* of consumers, slots, producers and elements.                             *)
THEOREM Invariance == Spec => []IInv
BY InitIInv, NextIInv, PTL DEF Spec

(* The state of the dispatcher always has the shape the code gives it.      *)
THEOREM TypeCorrect == Spec => []TypeOK
<1>1. IInv => TypeOK
  BY DEF IInv
<1> QED
  BY <1>1, Invariance, PTL

(* A consumer, the inspector and the completion callback always find in     *)
(* their slot the element that was added at their position.                 *)
THEOREM SlotsNotReused == Spec => []SlotNotReused
<1>1. ASSUME IInv
      PROVE  SlotNotReused
  <2>0. TypeOK /\ BarrierInv /\ ProducerInv /\ RingInv
    BY <1>1, Zenon DEF IInv
  <2> SUFFICES ASSUME NEW level \in Levels
               PROVE  /\ pc[level] \in {"consume", "advance"} =>
                             elementAt(consumerEntry[level]).id = consumerEntry[level] + 1
                      /\ pc[level] \in {"inspect", "complete"} =>
                             elementAt(consumerEntry[level] - 1).id = consumerEntry[level]
    BY Zenon DEF SlotNotReused
  <2>1. CASE pc[level] \in {"consume", "advance"}
    BY <2>0, <2>1, AtWork, Zenon
  <2>2. CASE pc[level] \in {"inspect", "complete"}
    <3>1. level = LastLevel /\ consumerEntry[level] \in Nat /\ consumerEntry[level] >= 1
      BY <2>0, <2>2, Zenon DEF BarrierInv, TypeOK
    <3>2. oldest = consumerEntry[level] - 1
      BY <2>0, <2>2, <3>1, OldestFacts, Zenon DEF oldest
    <3>3. m_barriers[NumConsumers] <= m_barriers[0] /\ m_barriers[0] <= m_allElementsCount
          /\ m_barriers[0] \in Nat /\ m_allElementsCount \in Nat
      <4>1. m_barriers[0] \in Nat /\ m_allElementsCount \in Nat
        BY <2>0, OptionsAssumption DEF TypeOK
      <4>2. m_barriers[NumConsumers] <= m_barriers[0]
        BY <2>0, LevelFacts, OptionsAssumption DEF BarrierInv
      <4> QED
        BY <2>0, <4>1, <4>2 DEF ProducerInv
    <3>4. consumerEntry[level] - 1 \in Nat /\ consumerEntry[level] - 1 < m_allElementsCount
      BY <2>0, <3>1, <3>3, OldestFacts
    <3>5. elementAt(consumerEntry[level] - 1).id = (consumerEntry[level] - 1) + 1
      BY <2>0, <3>2, <3>4 DEF RingInv
    <3> QED
      BY <2>2, <3>1, <3>5
  <2> QED
    BY <2>1, <2>2
<1> QED
  BY <1>1, Invariance, PTL

(* The completion callback is called once per element, in order.            *)
THEOREM CompletionsInOrder == Spec => []CompletedOnceInOrder
<1>1. IInv => CompletedOnceInOrder
  BY Zenon DEF IInv, CompletionInv
<1> QED
  BY <1>1, Invariance, PTL

(* No consumer runs on an element before all earlier ones have, and an      *)
(* element that completes without an abort was seen by every consumer.      *)
THEOREM ConsumersInOrder == Spec => []PipelineOrder
<1>1. IInv => PipelineOrder
  BY DEF IInv, ExecutionInv
<1> QED
  BY <1>1, Invariance, PTL

(* A consumer never runs on an element that an earlier one has aborted.     *)
THEOREM AbortsRespected == Spec => AbortedNotConsumed
<1>1. ASSUME IInv, [Next]_vars
      PROVE  [\A position \in 0 .. m_allElementsCount - 1 :
                  LET element == elementAt(position) IN
                  element.id \in Ids /\ element.status = "Aborted" =>
                      executed'[element.id] = executed[element.id]]_vars
  <2>0. TypeOK /\ BarrierInv /\ ProducerInv /\ RingInv /\ ExecutionInv /\ SlotInv
    BY <1>1, Zenon DEF IInv
  <2>1. CASE executed' = executed
    BY <2>1, Zenon
  <2>2. ASSUME NEW level \in Levels, NEW result \in ConsumerResults, Consume(level, result),
               NEW position \in 0 .. m_allElementsCount - 1,
               elementAt(position).id \in Ids, elementAt(position).status = "Aborted"
        PROVE  executed'[elementAt(position).id] = executed[elementAt(position).id]
    <3> DEFINE q == consumerEntry[level]
               slot == truncateIndex(position)
    <3>1. q \in Nat /\ elementAt(q).id = q + 1 /\ elementAt(q).status = "Normal"
      BY <2>0, <2>2, AtWork, Zenon DEF Consume, ExecutionInv
    <3>2. executed' = [executed EXCEPT ![q + 1] = @ \cup {level}]
      BY <2>2, <3>1, Zenon DEF Consume
    <3>3. elementAt(position).id # q + 1
      <4>1. slot \in Slots
        BY SlotInRange
      <4>2. SUFFICES ASSUME m_container[slot].id = q + 1
                     PROVE  FALSE
        BY Zenon DEF elementAt
      <4>3. m_container[slot].id - 1 = q /\ m_container[slot].id # 0
        BY <3>1, <4>2
      <4>4. truncateIndex(q) = slot
        BY <4>1, <4>3, <2>0, Zenon DEF SlotInv
      <4> QED
        BY <4>4, <3>1, <2>2 DEF elementAt
    <3>4. executed \in [Ids -> SUBSET Levels]
      BY <2>0 DEF TypeOK
    <3> QED
      BY <2>2, <3>2, <3>3, <3>4, Zenon
  <2>3. executed' = executed
        \/ \E level \in Levels : \E result \in ConsumerResults : Consume(level, result)
    BY <1>1, Zenon DEF Next, ProducerStep, ConsumerStep, LockAndReadMin, Reject, Accept, Add, Publish,
                CheckKeepRunning, NothingToDo, SkipElement, NextElement, Advance, Inspect,
                Complete, Shutdown, vars
  <2> QED
    BY <2>1, <2>2, <2>3
<1> QED
  BY <1>1, Invariance, PTL DEF Spec, AbortedNotConsumed

(* The ring of slots with its threads implements the bounded first-in       *)
(* first-out service: an acceptance only with a free slot, a completion     *)
(* only of the oldest pending element.                                      *)
THEOREM Refinement == Spec => Service!Spec
<1>1. Init => Service!Init
  BY DEF Init, Service!Init
<1>2. ASSUME IInv, [Next]_vars
      PROVE  [Service!Next]_(Service!vars)
  <2>0. TypeOK /\ BarrierInv /\ ProducerInv /\ RingInv /\ CompletionInv
    BY <1>2, Zenon DEF IInv
  <2> USE OptionsAssumption, LevelFacts
  <2>t. /\ m_barriers[0] \in Nat /\ m_barriers[NumConsumers] \in Nat /\ m_allElementsCount \in Nat
        /\ oldest \in Nat /\ Len(completions) = oldest
        /\ m_barriers[NumConsumers] <= oldest + 1
    BY <2>0, OldestFacts, SMTT(30) DEF TypeOK, CompletionInv
  <2>1. ASSUME NEW p \in Producers, Add(p)
        PROVE  Service!Accept
    <3>1. \A r \in Producers : producer[r].pc # "publish"
      BY <2>0, <2>1, Zenon DEF ProducerInv, Add
    <3>2. m_allElementsCount = m_barriers[0] /\ canProcessNextElement(producer[p].minPosition)
          /\ producer[p].minPosition <= m_barriers[NumConsumers]
      BY <2>0, <2>1, <3>1, Zenon DEF ProducerInv, Add
    <3>3. producer[p].minPosition \in Nat
      BY <2>0, Zenon DEF TypeOK
    <3>4. m_allElementsCount - Len(completions) < SlotCount
      BY <3>2, <3>3, <2>t, SMTT(30) DEF canProcessNextElement
    <3> QED
      BY <2>1, <3>4, Zenon DEF Add, Service!Accept
  <2>2. ASSUME NEW level \in Levels, Complete(level)
        PROVE  Service!Complete
    <3> DEFINE element == elementAt(consumerEntry[level] - 1)
    <3>1. level = LastLevel /\ pc[LastLevel] = "complete"
      BY <2>0, <2>2, Zenon DEF Complete, BarrierInv
    <3>2. consumerEntry[level] - 1 = oldest /\ m_barriers[NumConsumers] = oldest + 1
      BY <2>0, <2>t, <3>1, OldestFacts DEF oldest
    <3>3. oldest < m_allElementsCount
      <4>1. m_barriers[NumConsumers] <= m_barriers[0]
        BY <2>0, SMTT(30) DEF BarrierInv
      <4>2. m_barriers[0] <= m_allElementsCount
        BY <2>0, <2>t DEF ProducerInv
      <4> QED
        BY <4>1, <4>2, <3>2, <2>t
    <3>4. element.id = Len(completions) + 1
      BY <2>0, <2>t, <3>2, <3>3, SMTT(30) DEF RingInv
    <3>5. element.status \in {"Normal", "Aborted"}
      <4>1. truncateIndex(consumerEntry[level] - 1) \in Slots
        BY <3>2, <2>t, SlotInRange, SMTT(30)
      <4> QED
        BY <4>1, <2>0, Zenon DEF TypeOK, elementAt, Elements, Statuses
    <3>6. completions' = Append(completions, [id |-> element.id, status |-> element.status])
          /\ UNCHANGED <<m_keepRunning, m_allElementsCount>>
      BY <2>2 DEF Complete
    <3> HIDE DEF element
    <3> QED
      BY <3>3, <3>4, <3>5, <3>6, <2>t, Zenon DEF Service!Complete
  <2>3. CASE Shutdown
    BY <2>3 DEF Shutdown, Service!Next, Service!Stop
  <2>4. \/ Shutdown
        \/ \E p \in Producers : Add(p)
        \/ \E level \in Levels : Complete(level)
        \/ UNCHANGED <<m_keepRunning, m_allElementsCount, completions>>
    BY <1>2, ZenonT(30) DEF Next, ProducerStep, ConsumerStep, LockAndReadMin, Reject, Accept, Publish,
                CheckKeepRunning, NothingToDo, SkipElement, NextElement, Consume, Advance,
                Inspect, vars, shared
  <2> QED
    BY <2>1, <2>2, <2>3, <2>4 DEF Service!Next, Service!vars
<1> QED
  BY <1>1, <1>2, Invariance, PTL DEF Spec, Service!Spec

(* The last barrier is behind the first, which is behind the elements.      *)
LEMMA BarrierOrder ==
    ASSUME TypeOK, BarrierInv, ProducerInv
    PROVE  m_barriers[NumConsumers] <= m_barriers[0] /\ m_barriers[0] <= m_allElementsCount
<1>1. m_barriers[NumConsumers] <= m_barriers[0]
  BY LevelFacts, OptionsAssumption DEF BarrierInv, Barriers
<1>2. m_barriers[0] \in Nat
  BY LevelFacts, OptionsAssumption, Zenon DEF TypeOK, Barriers
<1>3. m_barriers[0] <= m_allElementsCount
  BY <1>2 DEF ProducerInv
<1> QED
  BY <1>1, <1>3

(* The count and the sum that ResourceAccounting speaks of, spelled out.    *)
Counted(S) ==
    LET CS[T \in SUBSET S] == IF T = {} THEN 0 ELSE 1 + CS[T \ {CHOOSE x : x \in T}] IN CS[S]
FirstOf(s) == CHOOSE x \in s : TRUE
Summed(f, S) ==
    LET iter[s \in SUBSET S] == IF s = {} THEN 0 ELSE f[FirstOf(s)] + iter[s \ {FirstOf(s)}] IN iter[S]

LEMMA AccountingSpelledOut ==
    ASSUME m_numActiveElements = Counted(pendingPositions) + Counted(adding),
           m_numActiveElements <= SlotCount, MemoryInBounds,
           m_memorySize = Summed(elementSize, pendingPositions) + Summed(inputSize, adding)
    PROVE  ResourceAccounting
<1>1. ASSUME NEW S
      PROVE  Cardinality(S) = Counted(S)
  BY Zenon DEF Cardinality, Counted
<1>2. ASSUME NEW f, NEW S
      PROVE  SumFunctionOnSet(f, S) = Summed(f, S)
  BY DEF SumFunctionOnSet, FoldFunctionOnSet, MapThenFoldSet, Summed, FirstOf
<1>3. ActiveElementsExact
  BY <1>1 DEF ActiveElementsExact
<1>4. m_memorySize = SumFunctionOnSet(elementSize, pendingPositions) + SumFunctionOnSet(inputSize, adding)
  BY <1>2
<1> QED
  BY <1>3, <1>4, Zenon DEF ResourceAccounting

-----------------------------------------------------------------------------
(* The counters, from facts about finite sets and sums.                     *)
LOCAL INSTANCE Sums

LEMMA SpelledOut ==
    ASSUME NEW S, NEW f
    PROVE  Cardinality(S) = Counted(S) /\ SumFunctionOnSet(f, S) = Summed(f, S)
<1>1. Cardinality(S) = Counted(S)
  BY DEF Cardinality, Counted
<1>2. SumFunctionOnSet(f, S) = Summed(f, S)
  BY DEF SumFunctionOnSet, FoldFunctionOnSet, MapThenFoldSet, Summed, FirstOf
<1> QED
  BY <1>1, <1>2, Zenon

(* The active counter is the number of elements that were accepted and have *)
(* not completed, which never exceeds the slots, and the memory counter     *)
(* neither passes maxMemorySize nor drops below zero.                       *)
LEMMA CountersInBounds ==
    ASSUME IInv
    PROVE  /\ m_numActiveElements = Cardinality(pendingPositions) + Cardinality(adding)
           /\ m_numActiveElements <= SlotCount
           /\ MemoryInBounds
<1>0. TypeOK /\ BarrierInv /\ ProducerInv /\ RingInv /\ CompletionInv /\ AccountingInv
  BY Zenon DEF IInv
<1>1. /\ oldest \in Nat /\ m_allElementsCount \in Nat /\ SlotCount \in Nat
      /\ m_barriers[0] \in Nat /\ m_barriers[NumConsumers] \in Nat
      /\ oldest <= m_barriers[NumConsumers] /\ m_barriers[NumConsumers] <= oldest + 1
  BY <1>0, OldestFacts, OptionsAssumption, LevelFacts, Zenon DEF TypeOK, Barriers
<1>2. m_barriers[NumConsumers] <= m_barriers[0] /\ m_barriers[0] <= m_allElementsCount
  BY <1>0, BarrierOrder, SMTT(30)
<1>3. Len(completions) = oldest
  BY <1>0, Zenon DEF CompletionInv
<1>4. Cardinality(pendingPositions) = m_allElementsCount - oldest
  <2>1. oldest \in Int /\ m_allElementsCount - 1 \in Int /\ oldest <= m_allElementsCount
    BY <1>1, <1>2
  <2>2. Cardinality(oldest .. m_allElementsCount - 1) =
            IF oldest > m_allElementsCount - 1 THEN 0 ELSE m_allElementsCount - 1 - oldest + 1
    BY <2>1, FS_Interval, Zenon
  <2>3. pendingPositions = oldest .. m_allElementsCount - 1
    BY <1>3, Zenon DEF pendingPositions
  <2> QED
    BY <1>1, <2>1, <2>2, <2>3, SMTT(30)
<1>5. Cardinality(adding) = IF adding = {} THEN 0 ELSE 1
  <2>1. CASE adding = {}
    BY <2>1, FS_EmptySet, Zenon
  <2>2. ASSUME NEW p \in adding
        PROVE  Cardinality(adding) = IF adding = {} THEN 0 ELSE 1
    <3>1. adding = {p}
      BY <1>0, Zenon DEF ProducerInv, adding
    <3>2. Cardinality({p}) = 1
      BY FS_Singleton
    <3> QED
      BY <3>1, <3>2, Zenon
  <2> QED
    BY <2>1, <2>2, Zenon
<1>6. m_numActiveElements <= SlotCount
  <2>1. CASE adding = {}
    <3>1. m_allElementsCount - m_barriers[NumConsumers] + 1 <= SlotCount
      BY <1>0, Zenon DEF RingInv
    <3>2. m_numActiveElements = m_allElementsCount - oldest
      BY <1>0, <1>1, <2>1, SMTT(30) DEF AccountingInv
    <3> QED
      BY <1>1, <3>1, <3>2, SMTT(30)
  <2>2. ASSUME NEW p \in adding
        PROVE  m_numActiveElements <= SlotCount
    <3>1. p \in Producers /\ producer[p].pc = "add"
      BY <2>2, Zenon DEF adding
    <3>2. /\ producer[p].minPosition <= m_barriers[NumConsumers]
          /\ m_barriers[0] - producer[p].minPosition + 1 + 1 <= SlotCount
      BY <1>0, <3>1, Zenon DEF ProducerInv, canProcessNextElement
    <3>3. m_allElementsCount = m_barriers[0]
      BY <1>0, <3>1, Zenon DEF ProducerInv
    <3>4. m_numActiveElements = m_allElementsCount - oldest + 1
      BY <1>0, <2>2, Zenon DEF AccountingInv
    <3>5. producer[p].minPosition \in Nat
      BY <1>0, <3>1, ZenonT(30) DEF TypeOK
    <3> QED
      BY <1>1, <3>2, <3>3, <3>4, <3>5, SMTT(30)
  <2> QED
    BY <2>1, <2>2, Zenon
<1>7. m_memorySize >= 0
  <2>1. PICK total \in [Nat -> Nat] :
            /\ Totals(total)
            /\ \A p \in adding :
                   m_memorySize = total[m_allElementsCount] - total[oldest] + producer[p].size
            /\ adding = {} => m_memorySize = total[m_allElementsCount] - total[oldest]
    BY <1>0, Zenon DEF AccountingInv, MemoryInv
  <2>2. total[oldest] <= total[m_allElementsCount]
    <3>1. oldest <= m_allElementsCount
      BY <1>1, <1>2
    <3> QED
      BY <1>1, <2>1, <3>1, Zenon DEF Totals
  <2>3. total[oldest] \in Nat /\ total[m_allElementsCount] \in Nat
    BY <1>1, <2>1, ZenonT(30)
  <2>4. \A p \in adding : producer[p].size \in Nat
    BY <1>0 DEF adding, TypeOK
  <2> QED
    BY <2>1, <2>2, <2>3, <2>4, SMTT(30)
<1>8. m_numActiveElements = m_allElementsCount - oldest + (IF adding = {} THEN 0 ELSE 1)
  BY <1>0, Zenon DEF AccountingInv
<1>9. m_numActiveElements = Cardinality(pendingPositions) + Cardinality(adding)
  BY <1>4, <1>5, <1>8, Zenon
<1>10. MemoryInBounds
  <2>1. m_memorySize \in Int /\ MaxMemorySize \in Int /\ m_memorySize <= MaxMemorySize
    BY <1>0, OptionsAssumption, SMTT(30) DEF AccountingInv, TypeOK
  <2> QED
    BY <1>7, <2>1, SMTT(30) DEF MemoryInBounds
<1> QED
  BY <1>6, <1>9, <1>10, Zenon

(* The memory of the live elements, from the running totals.                *)
LEMMA PendingMemory ==
    ASSUME IInv, NEW total \in [Nat -> Nat], Totals(total)
    PROVE  /\ SumFunctionOnSet(elementSize, pendingPositions) = total[m_allElementsCount] - total[oldest]
           /\ total[m_allElementsCount] \in Nat /\ total[oldest] \in Nat
<1>1. oldest \in Nat /\ m_allElementsCount \in Nat /\ oldest <= m_allElementsCount
  <2>1. TypeOK /\ BarrierInv /\ ProducerInv
    BY DEF IInv
  <2>2. /\ oldest \in Nat /\ m_allElementsCount \in Nat /\ m_barriers[0] \in Nat
        /\ m_barriers[NumConsumers] \in Nat /\ oldest <= m_barriers[NumConsumers]
    BY <2>1, OldestFacts, OptionsAssumption, LevelFacts, ZenonT(30) DEF TypeOK, Barriers
  <2>3. m_barriers[NumConsumers] <= m_barriers[0] /\ m_barriers[0] <= m_allElementsCount
    BY <2>1, BarrierOrder, Zenon
  <2> QED
    BY <2>2, <2>3
<1>2. pendingPositions = oldest .. m_allElementsCount - 1
  BY DEF IInv, CompletionInv, pendingPositions
<1>3. ASSUME NEW i \in Nat, oldest <= i, i < m_allElementsCount
      PROVE  elementSize[i] \in Nat /\ total[i + 1] = total[i] + elementSize[i]
  <2>1. i \in pendingPositions
    BY <1>1, <1>2, <1>3, SMTT(30)
  <2>2. elementSize[i] = elementAt(i).size
    BY <2>1 DEF elementSize
  <2>3. elementAt(i).size \in Nat
    <3>1. elementAt(i) \in Elements
      BY SlotInRange DEF elementAt, IInv, TypeOK
    <3> QED
      BY <3>1, Zenon DEF Elements
  <2>4. total[i + 1] = total[i] + elementAt(i).size
    BY <1>3, Zenon DEF Totals
  <2> QED
    BY <2>2, <2>3, <2>4, Zenon
<1>4. SumFunctionOnSet(elementSize, oldest .. m_allElementsCount - 1) =
          total[m_allElementsCount] - total[oldest]
  <2>1. PICK f : f = elementSize
    OBVIOUS
  <2>2. PICK a \in Nat, b \in Nat : a = oldest /\ b = m_allElementsCount
    BY <1>1
  <2>3. a <= b
    BY <1>1, <2>2, Zenon
  <2>4. Increments(f, total, a, b)
    BY <1>3, <2>1, <2>2, Zenon DEF Increments
  <2>5. SumFunctionOnSet(f, a .. b - 1) = total[b] - total[a]
    BY <2>3, <2>4, SumTelescopes, Zenon
  <2> QED
    BY <2>1, <2>2, <2>5, Zenon
<1> QED
  BY <1>1, <1>2, <1>4, Zenon

(* The memory of the input that is counted and not yet in a slot.           *)
LEMMA AddingMemory ==
    ASSUME IInv
    PROVE  /\ adding = {} => SumFunctionOnSet(inputSize, adding) = 0
           /\ \A p \in adding : /\ SumFunctionOnSet(inputSize, adding) = producer[p].size
                                /\ producer[p].size \in Nat
<1>1. PICK f : f = inputSize
  OBVIOUS
<1>2. SumFunctionOnSet(f, {}) = 0
  <2>1. IsFiniteSet({}) /\ \A x \in {} : f[x] \in Nat
    BY FS_EmptySet, Zenon
  <2> QED
    BY <2>1, SumUnfolds
<1>3. ASSUME NEW p \in adding
      PROVE  SumFunctionOnSet(inputSize, adding) = producer[p].size /\ producer[p].size \in Nat
  <2>1. adding = {p}
    BY Zenon DEF IInv, ProducerInv, adding
  <2>2. f[p] = producer[p].size /\ producer[p].size \in Nat
    BY <1>1 DEF inputSize, adding, IInv, TypeOK
  <2>3. PICK S : S = {p}
    BY Zenon
  <2>4. IsFiniteSet(S) /\ (\A x \in S : f[x] \in Nat) /\ p \in S /\ S \ {p} = {}
    BY <2>2, <2>3, FS_Singleton, Zenon
  <2>5. SumFunctionOnSet(f, S) = f[p] + SumFunctionOnSet(f, {})
    BY <2>4, SumWithout, SMTT(30)
  <2> QED
    BY <1>1, <1>2, <2>1, <2>2, <2>3, <2>5, SMTT(30)
<1> QED
  BY <1>1, <1>2, <1>3, ZenonT(30)

(* Both counters of the dispatcher are exact at every instant: the active   *)
(* count is the number of elements accepted and not completed, the memory   *)
(* counter is the sum of their sizes, and neither exceeds its maximum.      *)
THEOREM AccountingExact == Spec => []ResourceAccounting
<1>1. ASSUME IInv
      PROVE  m_memorySize = SumFunctionOnSet(elementSize, pendingPositions)
                            + SumFunctionOnSet(inputSize, adding)
  <2>1. PICK total \in [Nat -> Nat] :
            /\ Totals(total)
            /\ \A p \in adding :
                   m_memorySize = total[m_allElementsCount] - total[oldest] + producer[p].size
            /\ adding = {} => m_memorySize = total[m_allElementsCount] - total[oldest]
    BY <1>1, Zenon DEF IInv, AccountingInv, MemoryInv
  <2>2. /\ SumFunctionOnSet(elementSize, pendingPositions) = total[m_allElementsCount] - total[oldest]
        /\ total[m_allElementsCount] \in Nat /\ total[oldest] \in Nat
    BY <1>1, <2>1, PendingMemory, ZenonT(30)
  <2>3. CASE adding = {}
    <3>1. SumFunctionOnSet(inputSize, adding) = 0
      BY <1>1, <2>3, AddingMemory, Zenon
    <3> QED
      BY <2>1, <2>2, <2>3, <3>1, SMTT(30)
  <2>4. ASSUME NEW p \in adding
        PROVE  m_memorySize = SumFunctionOnSet(elementSize, pendingPositions)
                              + SumFunctionOnSet(inputSize, adding)
    <3>1. SumFunctionOnSet(inputSize, adding) = producer[p].size
      BY <1>1, AddingMemory, Zenon
    <3> QED
      BY <2>1, <2>2, <3>1, Zenon
  <2> QED
    BY <2>3, <2>4, Zenon
<1>2. ASSUME IInv
      PROVE  ResourceAccounting
  <2>1. m_numActiveElements = Counted(pendingPositions) + Counted(adding)
    BY <1>2, CountersInBounds, SpelledOut, SMTT(30)
  <2>2. m_memorySize = Summed(elementSize, pendingPositions) + Summed(inputSize, adding)
    BY <1>1, <1>2, SpelledOut
  <2> QED
    BY <1>2, <2>1, <2>2, CountersInBounds, AccountingSpelledOut, ZenonT(30)
<1> QED
  BY <1>2, Invariance, PTL
=============================================================================
