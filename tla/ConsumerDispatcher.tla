------------------------- MODULE ConsumerDispatcher -------------------------
(***************************************************************************)
(* The disruptor of a catapult node: ConsumerDispatcher.cpp around a        *)
(* CircularBuffer of DisruptorElements.  Producers (packet handlers,        *)
(* schedulers) call processElement; one thread per consumer moves along the *)
(* ring behind the barrier of its level; the thread of the last consumer    *)
(* also runs the inspector and the completion callback of every element.    *)
(* There is no lock between producers and consumers: a slot is reused       *)
(* because the barriers say so, and that is what this module is about.      *)
(*                                                                          *)
(* Grain: an access to one shared atomic (a barrier, m_memorySize,          *)
(* m_keepRunning) or to one slot is one step; thread-local work between two *)
(* of them belongs to the step before it.                                   *)
(***************************************************************************)
EXTENDS Integers, Sequences, FiniteSets, Functions

CONSTANTS
    NumConsumers,        \* consumers.size(): one thread and one level each
    SlotCount,           \* ConsumerDispatcherOptions::DisruptorSlotCount
    MaxMemorySize,       \* ConsumerDispatcherOptions::DisruptorMaxMemorySize
    Producers,           \* threads that call processElement
    InputSizes,          \* ConsumerInput::memorySize() of the inputs; 0 is an empty input
    MaxElements          \* bound: number of elements ever added

(* CheckOptions throws on zero; a dispatcher is always given consumers.     *)
ASSUME OptionsAssumption ==
    /\ NumConsumers \in Nat \ {0}
    /\ SlotCount \in Nat \ {0}
    /\ MaxMemorySize \in Nat \ {0}
    /\ InputSizes \subseteq Nat
    /\ MaxElements \in Nat

Levels == 0 .. NumConsumers - 1
LastLevel == NumConsumers - 1
Slots == 0 .. SlotCount - 1
Ids == 1 .. MaxElements

(* ConsumerResult::CompletionStatus; an element never stores "Consumed".    *)
ConsumerResults == {"Normal", "Consumed", "Aborted"}
Statuses == {"Normal", "Aborted"}

VARIABLES
    m_keepRunning,        \* std::atomic_bool
    m_barriers,           \* barrier of every level, and the one behind the last consumer
    m_container,          \* slots of the circular buffer
    m_allElementsCount,   \* elements ever added; also the buffer's m_next
    m_numActiveElements,
    m_memorySize,
    m_addSpinLock,        \* serializes the producers
    producer,             \* producer threads: pc, and the locals of processElement
    consumerEntry,        \* consumer threads: ConsumerEntry::m_position
    pc,                   \* consumer threads: where they are
    resume,               \* consumer threads: where advance returns to
    executed,             \* history: levels whose consumer ran on an element
    completions           \* history: arguments of the processingComplete calls

shared == <<m_keepRunning, m_barriers, m_container, m_allElementsCount,
            m_numActiveElements, m_memorySize, m_addSpinLock>>
vars == <<m_keepRunning, m_barriers, m_container, m_allElementsCount,
          m_numActiveElements, m_memorySize, m_addSpinLock,
          producer, consumerEntry, pc, resume, executed, completions>>

truncateIndex(position) == position % SlotCount

elementAt(position) == m_container[truncateIndex(position)]

(* A slot: m_id (0 for a default element), whether m_input still holds the  *)
(* entities, the memory size captured by the completion callback, m_result. *)
Elements == [id : Nat, hasInput : BOOLEAN, size : Nat, status : Statuses]

IdleProducer == [pc |-> "idle", size |-> 0, minPosition |-> 0]

(* Producer p moves on inside processElement.                               *)
producerAt(p, label) ==
    [pc |-> label, size |-> producer[p].size, minPosition |-> producer[p].minPosition]

DefaultElement == [id |-> 0, hasInput |-> FALSE, size |-> 0, status |-> "Normal"]

(* DisruptorElement::markSkipped, and input() = ConsumerInput().            *)
markSkipped(element) ==
    [id |-> element.id, hasInput |-> element.hasInput, size |-> element.size, status |-> "Aborted"]

reclaimed(element) ==
    [id |-> element.id, hasInput |-> FALSE, size |-> element.size, status |-> element.status]

Init ==
    /\ m_keepRunning = TRUE
    /\ m_barriers = [level \in 0 .. NumConsumers |-> 0]
    /\ m_container = [slot \in Slots |-> DefaultElement]
    /\ m_allElementsCount = 0
    /\ m_numActiveElements = 0
    /\ m_memorySize = 0
    /\ m_addSpinLock = FALSE
    /\ producer = [p \in Producers |-> IdleProducer]
    /\ consumerEntry = [level \in Levels |-> 0]
    /\ pc = [level \in Levels |-> "loop"]
    /\ resume = [level \in Levels |-> "loop"]
    /\ executed = [id \in Ids |-> {}]
    /\ completions = <<>>

-----------------------------------------------------------------------------
(* processElement, by a producer p.                                         *)

(* An empty input is ignored; otherwise the lock is taken and the position  *)
(* of the last barrier is read.                                             *)
LockAndReadMin(p, size) ==
    /\ producer[p].pc = "idle"
    /\ m_allElementsCount < MaxElements
    /\ size # 0
    /\ ~m_addSpinLock
    /\ m_addSpinLock' = TRUE
    /\ producer' = [producer EXCEPT ![p] =
           [pc |-> "locked", size |-> size, minPosition |-> m_barriers[NumConsumers]]]
    /\ UNCHANGED <<m_keepRunning, m_barriers, m_container, m_allElementsCount,
                   m_numActiveElements, m_memorySize,
                   consumerEntry, pc, resume, executed, completions>>

MutantCanProcessNextElement(minPosition) ==
    m_barriers[0] - minPosition + 1 <= SlotCount

canProcessNextElement(minPosition) ==
    m_barriers[0] - minPosition + 1 + 1 <= SlotCount

MutantIsFull(p) == ~canProcessNextElement(producer[p].minPosition)

isFull(p) ==
    \/ ~canProcessNextElement(producer[p].minPosition)
    \/ MaxMemorySize - m_memorySize < producer[p].size

(* processElement throws or returns 0 when full (ShouldThrowWhenFull): both *)
(* release the lock and drop the input.                                     *)
Reject(p) ==
    /\ producer[p].pc = "locked"
    /\ isFull(p)
    /\ m_addSpinLock' = FALSE
    /\ producer' = [producer EXCEPT ![p] = IdleProducer]
    /\ UNCHANGED <<m_keepRunning, m_barriers, m_container, m_allElementsCount,
                   m_numActiveElements, m_memorySize,
                   consumerEntry, pc, resume, executed, completions>>

Accept(p) ==
    /\ producer[p].pc = "locked"
    /\ ~isFull(p)
    /\ m_memorySize' = m_memorySize + producer[p].size
    /\ m_numActiveElements' = m_numActiveElements + 1
    /\ producer' = [producer EXCEPT ![p] = producerAt(p, "add")]
    /\ UNCHANGED <<m_keepRunning, m_barriers, m_container, m_allElementsCount,
                   m_addSpinLock, consumerEntry, pc, resume, executed, completions>>

(* Disruptor::add: the move assignment overwrites the slot.                 *)
Add(p) ==
    /\ producer[p].pc = "add"
    /\ m_allElementsCount' = m_allElementsCount + 1
    /\ m_container' = [m_container EXCEPT ![truncateIndex(m_allElementsCount)] =
           [id |-> m_allElementsCount + 1, hasInput |-> TRUE,
            size |-> producer[p].size, status |-> "Normal"]]
    /\ producer' = [producer EXCEPT ![p] = producerAt(p, "publish")]
    /\ UNCHANGED <<m_keepRunning, m_barriers, m_numActiveElements, m_memorySize,
                   m_addSpinLock, consumerEntry, pc, resume, executed, completions>>

(* The first barrier makes the element visible and the lock is released.    *)
Publish(p) ==
    /\ producer[p].pc = "publish"
    /\ m_barriers' = [m_barriers EXCEPT ![0] = @ + 1]
    /\ m_addSpinLock' = FALSE
    /\ producer' = [producer EXCEPT ![p] = IdleProducer]
    /\ UNCHANGED <<m_keepRunning, m_container, m_allElementsCount,
                   m_numActiveElements, m_memorySize,
                   consumerEntry, pc, resume, executed, completions>>

-----------------------------------------------------------------------------
(* The thread of the consumer at a level.                                   *)

MutantCheckKeepRunning(level) ==
    /\ pc[level] = "loop"
    /\ pc' = [pc EXCEPT ![level] = "next"]
    /\ UNCHANGED <<shared, producer, consumerEntry, resume, executed, completions>>

(* while (m_keepRunning)                                                    *)
CheckKeepRunning(level) ==
    /\ pc[level] = "loop"
    /\ pc' = [pc EXCEPT ![level] = IF m_keepRunning THEN "next" ELSE "exited"]
    /\ UNCHANGED <<shared, producer, consumerEntry, resume, executed, completions>>

(* tryNext: nothing behind the barrier (the thread sleeps and loops), a     *)
(* skipped element (advance, without looking at m_keepRunning again), or an *)
(* element for the consumer.                                                *)
NothingToDo(level) ==
    /\ pc[level] = "next"
    /\ consumerEntry[level] = m_barriers[level]
    /\ pc' = [pc EXCEPT ![level] = "loop"]
    /\ UNCHANGED <<shared, producer, consumerEntry, resume, executed, completions>>

MutantSkipElement(level) ==
    /\ pc[level] = "next"
    /\ consumerEntry[level] # m_barriers[level]
    /\ elementAt(consumerEntry[level]).status = "Aborted"
    /\ pc' = [pc EXCEPT ![level] = "loop"]
    /\ UNCHANGED <<shared, producer, consumerEntry, resume, executed, completions>>

SkipElement(level) ==
    /\ pc[level] = "next"
    /\ consumerEntry[level] # m_barriers[level]
    /\ elementAt(consumerEntry[level]).status = "Aborted"
    /\ pc' = [pc EXCEPT ![level] = "advance"]
    /\ resume' = [resume EXCEPT ![level] = "next"]
    /\ UNCHANGED <<shared, producer, consumerEntry, executed, completions>>

MutantNextElement(level) ==
    /\ pc[level] = "next"
    /\ consumerEntry[level] # m_barriers[level]
    /\ pc' = [pc EXCEPT ![level] = "consume"]
    /\ UNCHANGED <<shared, producer, consumerEntry, resume, executed, completions>>

MutantNextElementBarrier(level) ==
    /\ pc[level] = "next"
    /\ consumerEntry[level] # m_barriers[0]
    /\ elementAt(consumerEntry[level]).status # "Aborted"
    /\ pc' = [pc EXCEPT ![level] = "consume"]
    /\ UNCHANGED <<shared, producer, consumerEntry, resume, executed, completions>>

NextElement(level) ==
    /\ pc[level] = "next"
    /\ consumerEntry[level] # m_barriers[level]
    /\ elementAt(consumerEntry[level]).status # "Aborted"
    /\ pc' = [pc EXCEPT ![level] = "consume"]
    /\ UNCHANGED <<shared, producer, consumerEntry, resume, executed, completions>>

(* consumer(input) runs and an abort is recorded with markSkipped.  The     *)
(* consumer works on whatever element the slot holds.                       *)
Consume(level, result) ==
    /\ pc[level] = "consume"
    /\ executed' = [executed EXCEPT ![elementAt(consumerEntry[level]).id] = @ \cup {level}]
    /\ m_container' = IF result = "Aborted"
           THEN [m_container EXCEPT ![truncateIndex(consumerEntry[level])] = markSkipped(@)]
           ELSE m_container
    /\ pc' = [pc EXCEPT ![level] = "advance"]
    /\ resume' = [resume EXCEPT ![level] = "loop"]
    /\ UNCHANGED <<m_keepRunning, m_barriers, m_allElementsCount, m_numActiveElements,
                   m_memorySize, m_addSpinLock, producer, consumerEntry, completions>>

(* advance: the barrier of the next level moves first; only then does the   *)
(* last consumer inspect and complete the element it has left.              *)
Advance(level) ==
    /\ pc[level] = "advance"
    /\ consumerEntry' = [consumerEntry EXCEPT ![level] = @ + 1]
    /\ m_barriers' = [m_barriers EXCEPT ![level + 1] = @ + 1]
    /\ pc' = [pc EXCEPT ![level] = IF level = LastLevel THEN "inspect" ELSE resume[level]]
    /\ UNCHANGED <<m_keepRunning, m_container, m_allElementsCount, m_numActiveElements,
                   m_memorySize, m_addSpinLock, producer, resume, executed, completions>>

(* ReclaimMemoryInspector drops the input of the element.                   *)
Inspect(level) ==
    /\ pc[level] = "inspect"
    /\ m_container' = [m_container EXCEPT ![truncateIndex(consumerEntry[level] - 1)] = reclaimed(@)]
    /\ pc' = [pc EXCEPT ![level] = "complete"]
    /\ UNCHANGED <<m_keepRunning, m_barriers, m_allElementsCount, m_numActiveElements,
                   m_memorySize, m_addSpinLock, producer, consumerEntry, resume,
                   executed, completions>>

MutantComplete(level) ==
    LET element == elementAt(consumerEntry[level]) IN
    /\ pc[level] = "complete"
    /\ completions' = Append(completions, [id |-> element.id, status |-> element.status])
    /\ m_memorySize' = m_memorySize - element.size
    /\ m_numActiveElements' = m_numActiveElements - 1
    /\ pc' = [pc EXCEPT ![level] = resume[level]]
    /\ UNCHANGED <<m_keepRunning, m_barriers, m_container, m_allElementsCount,
                   m_addSpinLock, producer, consumerEntry, resume, executed>>

(* markProcessingComplete calls the wrapped callback.                       *)
Complete(level) ==
    LET element == elementAt(consumerEntry[level] - 1) IN
    /\ pc[level] = "complete"
    /\ completions' = Append(completions, [id |-> element.id, status |-> element.status])
    /\ m_memorySize' = m_memorySize - element.size
    /\ m_numActiveElements' = m_numActiveElements - 1
    /\ pc' = [pc EXCEPT ![level] = resume[level]]
    /\ UNCHANGED <<m_keepRunning, m_barriers, m_container, m_allElementsCount,
                   m_addSpinLock, producer, consumerEntry, resume, executed>>

-----------------------------------------------------------------------------
(* shutdown(): the flag is cleared; the join returns once all threads exit. *)
Shutdown ==
    /\ m_keepRunning
    /\ m_keepRunning' = FALSE
    /\ UNCHANGED <<m_barriers, m_container, m_allElementsCount, m_numActiveElements,
                   m_memorySize, m_addSpinLock, producer, consumerEntry, pc, resume,
                   executed, completions>>

ProducerStep(p) ==
    \/ \E size \in InputSizes : LockAndReadMin(p, size)
    \/ Reject(p)
    \/ Accept(p)
    \/ Add(p)
    \/ Publish(p)

ConsumerStep(level) ==
    \/ CheckKeepRunning(level)
    \/ NothingToDo(level)
    \/ SkipElement(level)
    \/ NextElement(level)
    \/ \E result \in ConsumerResults : Consume(level, result)
    \/ Advance(level)
    \/ Inspect(level)
    \/ Complete(level)

Next ==
    \/ \E p \in Producers : ProducerStep(p)
    \/ \E level \in Levels : ConsumerStep(level)
    \/ Shutdown

(* Every consumer owns a thread, and a processElement that holds the lock   *)
(* finishes.  Nothing obliges anyone to add an element or to shut down.     *)
Fairness ==
    /\ \A level \in Levels : WF_vars(ConsumerStep(level))
    /\ \A p \in Producers : WF_vars(Reject(p) \/ Accept(p) \/ Add(p) \/ Publish(p))

Spec == Init /\ [][Next]_vars

FairSpec == Spec /\ Fairness

-----------------------------------------------------------------------------
(* Properties.                                                              *)

TypeOK ==
    /\ m_keepRunning \in BOOLEAN
    /\ m_barriers \in [0 .. NumConsumers -> Nat]
    /\ m_container \in [Slots -> Elements]
    /\ m_allElementsCount \in Nat
    /\ m_numActiveElements \in Int
    /\ m_memorySize \in Int
    /\ m_addSpinLock \in BOOLEAN
    /\ producer \in [Producers -> [pc : {"idle", "locked", "add", "publish"},
                                   size : Nat, minPosition : Nat]]
    /\ consumerEntry \in [Levels -> Nat]
    /\ pc \in [Levels -> {"loop", "next", "consume", "advance", "inspect", "complete", "exited"}]
    /\ resume \in [Levels -> {"loop", "next"}]
    /\ executed \in [Ids -> SUBSET Levels]
    /\ completions \in Seq([id : Nat, status : Statuses])

(* A slot is never reused while a thread works on it: the element a         *)
(* consumer runs on, and the one the last consumer inspects and completes   *)
(* after its barrier has already moved past it, is still the element that   *)
(* was added at that position.  This is what the second "+ 1" of            *)
(* canProcessNextElement is for.                                            *)
SlotNotReused ==
    \A level \in Levels :
        /\ pc[level] \in {"consume", "advance"} =>
               elementAt(consumerEntry[level]).id = consumerEntry[level] + 1
        /\ pc[level] \in {"inspect", "complete"} =>
               elementAt(consumerEntry[level] - 1).id = consumerEntry[level]

(* processingComplete is called exactly once per element, in the order in   *)
(* which processElement handed out the ids.                                 *)
CompletedOnceInOrder ==
    \A i \in 1 .. Len(completions) : completions[i].id = i

(* The consumers run on an element in the order of their levels, without    *)
(* gaps, and an element completed without an abort was seen by all of them. *)
PipelineOrder ==
    /\ \A id \in Ids : \A level \in executed[id] : 0 .. level \subseteq executed[id]
    /\ \A i \in 1 .. Len(completions) :
           completions[i].status = "Normal" => executed[completions[i].id] = Levels

(* Once a consumer has aborted an element no consumer runs on it any more:  *)
(* isSkipped is consulted again for every element at every level.           *)
AbortedNotConsumed ==
    [][\A position \in 0 .. m_allElementsCount - 1 :
           LET element == elementAt(position) IN
           element.id \in Ids /\ element.status = "Aborted" =>
               executed'[element.id] = executed[element.id]]_vars

pendingPositions == Len(completions) .. m_allElementsCount - 1

(* Inputs that are counted and not yet in a slot.                           *)
adding == {p \in Producers : producer[p].pc = "add"}

(* m_numActiveElements counts the pending elements, and they fit the ring.  *)
ActiveElementsExact ==
    /\ m_numActiveElements = Cardinality(pendingPositions) + Cardinality(adding)
    /\ m_numActiveElements <= SlotCount

(* The unsigned subtractions in processElement and in the completion        *)
(* callback cannot wrap around.                                             *)
MemoryInBounds == m_memorySize \in 0 .. MaxMemorySize

elementSize == [q \in pendingPositions |-> elementAt(q).size]
inputSize == [p \in adding |-> producer[p].size]

(* The two counters that gate processElement agree with the pending         *)
(* elements at every instant, although producers and the last consumer      *)
(* update them without a common lock, and neither exceeds its maximum.      *)
ResourceAccounting ==
    /\ ActiveElementsExact
    /\ MemoryInBounds
    /\ m_memorySize = SumFunctionOnSet(elementSize, pendingPositions) + SumFunctionOnSet(inputSize, adding)

(* Every accepted element is completed, unless the dispatcher is shut down. *)
EveryElementCompletes ==
    \A id \in Ids :
        (m_allElementsCount >= id) ~> (Len(completions) >= id \/ ~m_keepRunning)

(* shutdown() returns: every worker thread leaves its loop.                 *)
ShutdownTerminates ==
    ~m_keepRunning ~> (\A level \in Levels : pc[level] = "exited")

(* The ring with its threads implements the queue that DispatcherService    *)
(* describes: acceptance is the write of the slot, completion the callback. *)
Service == INSTANCE DispatcherService WITH
               running <- m_keepRunning,
               accepted <- m_allElementsCount,
               completed <- completions

ImplementsService == Service!FairSpec
=============================================================================
