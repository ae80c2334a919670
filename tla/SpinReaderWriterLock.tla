------------------------ MODULE SpinReaderWriterLock ------------------------
(***************************************************************************)
(* SpinReaderWriterLock.h: a reader/writer lock in one 32-bit atomic, taken *)
(* with compare-and-exchange loops.  The word holds the number of readers,  *)
(* the number of writers (waiting or active) above it, and a flag for the   *)
(* active writer on top.  Every load, compare-exchange and fetch_sub is one *)
(* step.  A thread uses at most one guard of the lock at a time.            *)
(***************************************************************************)
EXTENDS Integers, FiniteSets, LockState

CONSTANTS
    Threads,
    Reader_Mask,         \* largest reader count: 65535
    MaxWriterCount       \* Writer_Count_Mask, shifted down: 32767

ASSUME LockAssumption ==
    /\ IsFiniteSet(Threads)
    /\ Reader_Mask \in Nat \ {0}
    /\ MaxWriterCount \in Nat \ {0}

VARIABLES
    m_value,
    pc,
    current,             \* local of the loops: the value last read
    m_isWriterActive     \* ReaderLockGuard: has this guard been promoted

vars == <<m_value, pc, current, m_isWriterActive>>

Active_Reader_Increment == 1
Writer_Count_Increment == Reader_Mask + 1
Active_Writer_Flag == Writer_Count_Increment * (MaxWriterCount + 1)

(* Arithmetic of the word wraps around.                                     *)
uint(x) == x % (2 * Active_Writer_Flag)

readerCount(value) == value % Writer_Count_Increment
writerCount(value) == (value \div Writer_Count_Increment) % (MaxWriterCount + 1)

(* value & Writer_Count_Mask                                                *)
maskWriterCount(value) == Writer_Count_Increment * writerCount(value)

Labels == {"idle", "acquireReader", "reader", "acquireWriter", "promoteToWriter",
           "loadExpected", "exclusive", "writer"}

Init ==
    /\ m_value = 0
    /\ pc = [t \in Threads |-> "idle"]
    /\ current = [t \in Threads |-> 0]
    /\ m_isWriterActive = [t \in Threads |-> FALSE]

goto(t, label) == pc' = [pc EXCEPT ![t] = label]

-----------------------------------------------------------------------------
(* acquireReader and ~ReaderLockGuard.                                      *)

acquireReader(t) ==
    /\ pc[t] = "idle"
    /\ current' = [current EXCEPT ![t] = m_value]
    /\ goto(t, "acquireReader")
    /\ UNCHANGED <<m_value, m_isWriterActive>>

MutantReaderCanTry(t) == current[t] < Active_Writer_Flag

(* Pending writers go first.                                                *)
readerCanTry(t) == writerCount(current[t]) = 0

WaitForWriters(t) ==
    /\ pc[t] = "acquireReader"
    /\ ~readerCanTry(t)
    /\ current' = [current EXCEPT ![t] = m_value]
    /\ UNCHANGED <<m_value, pc, m_isWriterActive>>

(* "max reader count (65535) reached" is thrown.                            *)
ReaderThrows(t) ==
    /\ pc[t] = "acquireReader"
    /\ readerCanTry(t)
    /\ readerCount(current[t]) = Reader_Mask
    /\ current' = [current EXCEPT ![t] = 0]
    /\ goto(t, "idle")
    /\ UNCHANGED <<m_value, m_isWriterActive>>

ReaderExchange(t) ==
    /\ pc[t] = "acquireReader"
    /\ readerCanTry(t)
    /\ readerCount(current[t]) # Reader_Mask
    /\ IF m_value = current[t]
       THEN /\ m_value' = uint(current[t] + Active_Reader_Increment)
            /\ current' = [current EXCEPT ![t] = 0]
            /\ goto(t, "reader")
       ELSE /\ current' = [current EXCEPT ![t] = m_value]
            /\ UNCHANGED <<m_value, pc>>
    /\ UNCHANGED m_isWriterActive

ReleaseReader(t) ==
    /\ pc[t] = "reader"
    /\ m_value' = uint(m_value - Active_Reader_Increment)
    /\ m_isWriterActive' = [m_isWriterActive EXCEPT ![t] = FALSE]
    /\ goto(t, "idle")
    /\ UNCHANGED current

-----------------------------------------------------------------------------
(* acquireWriter, promoteToWriter and ~WriterLockGuard.                     *)

acquireWriter(t) ==
    /\ pc[t] = "idle"
    /\ current' = [current EXCEPT ![t] = m_value]
    /\ goto(t, "acquireWriter")
    /\ UNCHANGED <<m_value, m_isWriterActive>>

(* markActiveWriter throws, and nothing changes, when the guard is marked.  *)
promoteToWriter(t) ==
    /\ pc[t] = "reader"
    /\ ~m_isWriterActive[t]
    /\ m_isWriterActive' = [m_isWriterActive EXCEPT ![t] = TRUE]
    /\ current' = [current EXCEPT ![t] = m_value]
    /\ goto(t, "promoteToWriter")
    /\ UNCHANGED m_value

MutantWritersSaturated(t) == FALSE

writersSaturated(t) == writerCount(current[t]) = MaxWriterCount

(* "max writer count (32767) reached" is thrown.  A promotion that throws   *)
(* leaves the reader guard marked.                                          *)
WriterThrows(t) ==
    /\ pc[t] \in {"acquireWriter", "promoteToWriter"}
    /\ writersSaturated(t)
    /\ current' = [current EXCEPT ![t] = 0]
    /\ goto(t, IF pc[t] = "acquireWriter" THEN "idle" ELSE "reader")
    /\ UNCHANGED <<m_value, m_isWriterActive>>

(* The writer is announced; a promoted reader stops being a reader.         *)
WriterExchange(t) ==
    /\ pc[t] \in {"acquireWriter", "promoteToWriter"}
    /\ ~writersSaturated(t)
    /\ IF m_value = current[t]
       THEN /\ m_value' = uint(current[t] + Writer_Count_Increment
                   - (IF pc[t] = "promoteToWriter" THEN Active_Reader_Increment ELSE 0))
            /\ current' = [current EXCEPT ![t] = 0]
            /\ goto(t, "loadExpected")
       ELSE /\ current' = [current EXCEPT ![t] = m_value]
            /\ UNCHANGED <<m_value, pc>>
    /\ UNCHANGED m_isWriterActive

MutantLoadExpected(t) ==
    /\ pc[t] = "loadExpected"
    /\ current' = [current EXCEPT ![t] = m_value % Active_Writer_Flag]
    /\ goto(t, "exclusive")
    /\ UNCHANGED <<m_value, m_isWriterActive>>

(* AcquireWriter: expected = value & Writer_Count_Mask                      *)
LoadExpected(t) ==
    /\ pc[t] = "loadExpected"
    /\ current' = [current EXCEPT ![t] = maskWriterCount(m_value)]
    /\ goto(t, "exclusive")
    /\ UNCHANGED <<m_value, m_isWriterActive>>

(* The exchange succeeds only without readers and without an active writer. *)
ExclusiveExchange(t) ==
    /\ pc[t] = "exclusive"
    /\ IF m_value = current[t]
       THEN /\ m_value' = uint(current[t] + Active_Writer_Flag)
            /\ goto(t, "writer")
       ELSE /\ goto(t, "loadExpected")
            /\ UNCHANGED m_value
    /\ current' = [current EXCEPT ![t] = 0]
    /\ UNCHANGED m_isWriterActive

MutantReleaseWriter(t) ==
    /\ pc[t] = "writer"
    /\ m_value' = uint(m_value - Active_Writer_Flag - Writer_Count_Increment)
    /\ goto(t, IF m_isWriterActive[t] THEN "reader" ELSE "idle")
    /\ m_isWriterActive' = [m_isWriterActive EXCEPT ![t] = FALSE]
    /\ UNCHANGED current

(* A promoted writer becomes the reader it was.                             *)
ReleaseWriter(t) ==
    /\ pc[t] = "writer"
    /\ m_value' = uint(m_value - Active_Writer_Flag - Writer_Count_Increment
           + (IF m_isWriterActive[t] THEN Active_Reader_Increment ELSE 0))
    /\ goto(t, IF m_isWriterActive[t] THEN "reader" ELSE "idle")
    /\ m_isWriterActive' = [m_isWriterActive EXCEPT ![t] = FALSE]
    /\ UNCHANGED current

-----------------------------------------------------------------------------
Proceed(t) ==
    \/ WaitForWriters(t) \/ ReaderThrows(t) \/ ReaderExchange(t) \/ ReleaseReader(t)
    \/ WriterThrows(t) \/ WriterExchange(t)
    \/ LoadExpected(t) \/ ExclusiveExchange(t) \/ ReleaseWriter(t)

Next ==
    \E t \in Threads :
        acquireReader(t) \/ acquireWriter(t) \/ promoteToWriter(t) \/ Proceed(t)

Spec == Init /\ [][Next]_vars

(* Threads run, and guards are released in the end.                         *)
FairSpec == Spec /\ \A t \in Threads : WF_vars(Proceed(t))

-----------------------------------------------------------------------------
(* Properties.                                                              *)

TypeOK ==
    /\ m_value \in Nat
    /\ pc \in [Threads -> Labels]
    /\ current \in [Threads -> Nat]
    /\ m_isWriterActive \in [Threads -> BOOLEAN]

readers == {t \in Threads : pc[t] \in {"reader", "promoteToWriter"}}
writers == {t \in Threads : pc[t] \in {"loadExpected", "exclusive", "writer"}}
activeWriters == {t \in Threads : pc[t] = "writer"}

(* The three fields of the word count the threads they stand for and never  *)
(* run over into each other, also when a count is saturated.                *)
CountsExact ==
    /\ m_value = Active_Writer_Flag * Cardinality(activeWriters)
                 + Writer_Count_Increment * Cardinality(writers)
                 + Cardinality(readers)
    /\ Cardinality(readers) <= Reader_Mask
    /\ Cardinality(writers) <= MaxWriterCount

(* A thread that holds the writer lock, acquired or promoted, is alone.     *)
MutualExclusion ==
    \A t \in activeWriters : activeWriters = {t} /\ readers = {}

(* The lock implements the abstract one: in particular no reader gets in    *)
(* while a writer waits, and a promotion never holds both locks.            *)
Abstract == INSTANCE ReaderWriterLock WITH
    lock <- [readers |-> readers, waiting |-> writers \ activeWriters, writers |-> activeWriters]

ImplementsLock == Abstract!Spec

(* Writers are not kept out: whenever some thread waits for exclusive       *)
(* access some thread gets it, concurrent promotions included.              *)
WriterProgress ==
    (writers # {}) ~> (activeWriters # {})

(* What the note on promoteToWriter says: of several readers that promote   *)
(* concurrently, each holding a reader lock, none can acquire the writer    *)
(* lock.                                                                    *)
ConcurrentPromotionsBlock ==
    \A t, u \in Threads :
        t # u /\ m_isWriterActive[t] /\ m_isWriterActive[u] /\ pc[t] = "writer"
            => pc[u] \notin {"promoteToWriter", "loadExpected", "exclusive"}
=============================================================================
