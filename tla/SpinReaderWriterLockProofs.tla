--------------------- MODULE SpinReaderWriterLockProofs ---------------------
(***************************************************************************)
(* Proofs about SpinReaderWriterLock, for every finite set of threads and   *)
(* every width of the two counts: the fields of the word are exact, writers *)
(* are alone, and the lock implements ReaderWriterLock.                     *)
(***************************************************************************)
EXTENDS SpinReaderWriterLock, FiniteSetTheorems, TLAPS

-----------------------------------------------------------------------------
(* The word.                                                                *)

LEMMA ConstantFacts ==
    /\ Writer_Count_Increment \in Nat \ {0}
    /\ Active_Writer_Flag \in Nat \ {0}
    /\ Reader_Mask \in Nat
    /\ MaxWriterCount \in Nat
    /\ Active_Writer_Flag = Writer_Count_Increment * (MaxWriterCount + 1)
  <1>1. Writer_Count_Increment \in Nat \ {0}
    BY LockAssumption DEF Writer_Count_Increment
  <1>2. \A a, b \in Nat \ {0} : a * b \in Nat \ {0}
    BY SMT
  <1> QED BY <1>1, <1>2, LockAssumption DEF Active_Writer_Flag

LEMMA DivMod ==
    ASSUME NEW d \in Nat \ {0}, NEW q \in Nat, NEW r \in 0 .. d - 1
    PROVE  /\ d * q + r \in Nat
           /\ (d * q + r) \div d = q
           /\ (d * q + r) % d = r
  BY SMT

(* A word with the given fields.                                            *)
word(a, w, r) == Active_Writer_Flag * a + Writer_Count_Increment * w + r

LEMMA WordFields ==
    ASSUME NEW a \in 0 .. 1, NEW w \in 0 .. MaxWriterCount, NEW r \in 0 .. Reader_Mask
    PROVE  /\ word(a, w, r) \in Nat
           /\ readerCount(word(a, w, r)) = r
           /\ writerCount(word(a, w, r)) = w
           /\ uint(word(a, w, r)) = word(a, w, r)
  <1> DEFINE WI == Writer_Count_Increment
             M == MaxWriterCount
             q == (M + 1) * a + w
  <1>1. /\ WI \in Nat \ {0} /\ M \in Nat /\ M + 1 \in Nat \ {0}
        /\ Reader_Mask \in Nat /\ WI = Reader_Mask + 1
        /\ Active_Writer_Flag = WI * (M + 1)
    BY ConstantFacts DEF Writer_Count_Increment
  <1>2. w \in 0 .. (M + 1) - 1 /\ r \in 0 .. WI - 1
    BY <1>1
  <1> HIDE DEF WI, M
  <1>3. q \in Nat /\ q % (M + 1) = w
    BY <1>1, <1>2, DivMod
  <1>4. word(a, w, r) = WI * q + r
    <2>1. \A x, y, z, u \in Int : (x * y) * z + x * u = x * (y * z + u)
      OBVIOUS
    <2>2. (WI * (M + 1)) * a + WI * w = WI * ((M + 1) * a + w)
      BY <1>1, <1>2, <2>1
    <2>3. word(a, w, r) = (WI * (M + 1)) * a + WI * w + r
      BY <1>1 DEF word, WI
    <2> QED BY <2>2, <2>3
  <1> HIDE DEF q
  <1>5. readerCount(word(a, w, r)) = r
    <2>1. (WI * q + r) % WI = r
      BY <1>1, <1>2, <1>3, DivMod, SMTT(30)
    <2> QED BY <1>4, <2>1 DEF readerCount, WI
  <1>6. writerCount(word(a, w, r)) = w
    <2>1. (WI * q + r) \div WI = q
      BY <1>1, <1>2, <1>3, DivMod
    <2> QED BY <1>3, <1>4, <2>1 DEF writerCount, WI, M
  <1>7. word(a, w, r) \in Nat
    BY <1>1, <1>2, <1>3, <1>4, DivMod
  <1>8. word(a, w, r) < 2 * Active_Writer_Flag
    <2>1. WI * w + r < WI * (M + 1)
      BY <1>1, <1>2
    <2>2. Active_Writer_Flag \in Nat /\ Active_Writer_Flag * a <= Active_Writer_Flag
      BY ConstantFacts
    <2>3. WI * w \in Nat /\ Active_Writer_Flag * a \in Nat
      BY <1>1, <1>2, <2>2
    <2> QED BY <1>1, <1>2, <2>1, <2>2, <2>3 DEF word, WI
  <1>9. uint(word(a, w, r)) = word(a, w, r)
    <2>1. \A n, v \in Nat : v < n => v % n = v
      OBVIOUS
    <2>2. 2 * Active_Writer_Flag \in Nat
      BY ConstantFacts
    <2> QED BY <1>7, <1>8, <2>1, <2>2 DEF uint
  <1> QED BY <1>5, <1>6, <1>7, <1>9

(* The value the exclusive exchange expects stands for a word without a     *)
(* reader and without an active writer (AcquireWriter).                     *)
LEMMA ExpectedFields ==
    ASSUME NEW a \in 0 .. 1, NEW w \in 0 .. MaxWriterCount, NEW r \in 0 .. Reader_Mask,
           NEW k \in 0 .. MaxWriterCount,
           word(a, w, r) = Writer_Count_Increment * k
    PROVE  a = 0 /\ r = 0 /\ w = k
  <1>1. 0 \in 0 .. 1 /\ 0 \in 0 .. Reader_Mask
    BY ConstantFacts
  <1>2. Writer_Count_Increment * k = word(0, k, 0)
    BY ConstantFacts DEF word
  <1>3. w = k /\ r = 0
    BY <1>1, <1>2, WordFields
  <1>4. Active_Writer_Flag * a = 0
    BY <1>2, <1>3, ConstantFacts DEF word
  <1> QED BY <1>3, <1>4, ConstantFacts

(* uint gives a natural number.                                             *)
LEMMA UintType ==
    ASSUME NEW x \in Int
    PROVE  uint(x) \in Nat
  <1>1. 2 * Active_Writer_Flag \in Nat \ {0}
    BY ConstantFacts
  <1> QED BY <1>1 DEF uint

-----------------------------------------------------------------------------
(* The inductive invariant.                                                 *)

(* A thread about to exchange for exclusive access expects a word that has  *)
(* a writer count and nothing else.                                         *)
ExpectedInv ==
    \A t \in Threads :
        pc[t] = "exclusive"
            => \E k \in 0 .. MaxWriterCount : current[t] = Writer_Count_Increment * k

IInv == TypeOK /\ ExpectedInv /\ CountsExact /\ MutualExclusion

(* The abstract lock.                                                       *)
theLock == [readers |-> readers, waiting |-> writers \ activeWriters, writers |-> activeWriters]

(* What a step does to the threads inside and waiting, and to the word.     *)
Quiet ==
    /\ m_value' = m_value
    /\ readers' = readers /\ writers' = writers /\ activeWriters' = activeWriters

EntersReader(t) ==
    /\ t \notin readers
    /\ writerCount(m_value) = 0
    /\ readerCount(m_value) # Reader_Mask
    /\ m_value' = uint(m_value + 1)
    /\ readers' = readers \cup {t} /\ writers' = writers /\ activeWriters' = activeWriters

LeavesReader(t) ==
    /\ t \in readers
    /\ m_value' = uint(m_value - 1)
    /\ readers' = readers \ {t} /\ writers' = writers /\ activeWriters' = activeWriters

Announces(t) ==
    /\ t \notin readers /\ t \notin writers
    /\ writerCount(m_value) # MaxWriterCount
    /\ m_value' = uint(m_value + Writer_Count_Increment)
    /\ readers' = readers /\ writers' = writers \cup {t} /\ activeWriters' = activeWriters

Promotes(t) ==
    /\ t \in readers /\ t \notin writers
    /\ writerCount(m_value) # MaxWriterCount
    /\ m_value' = uint(m_value + Writer_Count_Increment - 1)
    /\ readers' = readers \ {t} /\ writers' = writers \cup {t} /\ activeWriters' = activeWriters

EntersWriter(t) ==
    /\ t \in writers /\ t \notin activeWriters
    /\ \E k \in 0 .. MaxWriterCount : m_value = Writer_Count_Increment * k
    /\ m_value' = uint(m_value + Active_Writer_Flag)
    /\ readers' = readers /\ writers' = writers /\ activeWriters' = activeWriters \cup {t}

LeavesWriter(t) ==
    /\ t \in activeWriters
    /\ m_value' = uint(m_value - Active_Writer_Flag - Writer_Count_Increment)
    /\ readers' = readers /\ writers' = writers \ {t} /\ activeWriters' = activeWriters \ {t}

Demotes(t) ==
    /\ t \in activeWriters /\ t \notin readers
    /\ m_value' = uint(m_value - Active_Writer_Flag - Writer_Count_Increment + 1)
    /\ readers' = readers \cup {t} /\ writers' = writers \ {t}
    /\ activeWriters' = activeWriters \ {t}

Effect(t) ==
    \/ Quiet \/ EntersReader(t) \/ LeavesReader(t) \/ Announces(t) \/ Promotes(t)
    \/ EntersWriter(t) \/ LeavesWriter(t) \/ Demotes(t)

LEMMA StepEffect ==
    ASSUME TypeOK, ExpectedInv, NEW t \in Threads,
           acquireReader(t) \/ acquireWriter(t) \/ promoteToWriter(t) \/ Proceed(t)
    PROVE  Effect(t)
  <1> USE DEF TypeOK, Labels, goto, readers, writers, activeWriters
  <1>1. CASE acquireReader(t)
    BY <1>1 DEF acquireReader, Effect, Quiet
  <1>2. CASE acquireWriter(t)
    BY <1>2 DEF acquireWriter, Effect, Quiet
  <1>3. CASE promoteToWriter(t)
    BY <1>3 DEF promoteToWriter, Effect, Quiet
  <1>4. CASE WaitForWriters(t)
    BY <1>4 DEF WaitForWriters, Effect, Quiet
  <1>5. CASE ReaderThrows(t)
    BY <1>5 DEF ReaderThrows, Effect, Quiet
  <1>6. CASE ReaderExchange(t)
    <2>1. CASE m_value = current[t]
      BY <1>6, <2>1 DEF ReaderExchange, readerCanTry, Active_Reader_Increment, Effect, EntersReader
    <2>2. CASE m_value # current[t]
      BY <1>6, <2>2 DEF ReaderExchange, Effect, Quiet
    <2> QED BY <2>1, <2>2
  <1>7. CASE ReleaseReader(t)
    BY <1>7 DEF ReleaseReader, Active_Reader_Increment, Effect, LeavesReader
  <1>8. CASE WriterThrows(t)
    BY <1>8 DEF WriterThrows, Effect, Quiet
  <1>9. CASE WriterExchange(t)
    <2>1. CASE m_value = current[t] /\ pc[t] = "acquireWriter"
      BY <1>9, <2>1, ConstantFacts DEF WriterExchange, writersSaturated, Effect, Announces
    <2>2. CASE m_value = current[t] /\ pc[t] = "promoteToWriter"
      BY <1>9, <2>2 DEF WriterExchange, writersSaturated, Active_Reader_Increment, Effect, Promotes
    <2>3. CASE m_value # current[t]
      BY <1>9, <2>3 DEF WriterExchange, Effect, Quiet
    <2> QED BY <1>9, <2>1, <2>2, <2>3 DEF WriterExchange
  <1>10. CASE LoadExpected(t)
    BY <1>10 DEF LoadExpected, Effect, Quiet
  <1>11. CASE ExclusiveExchange(t)
    <2>1. CASE m_value = current[t]
      BY <1>11, <2>1 DEF ExclusiveExchange, ExpectedInv, Effect, EntersWriter
    <2>2. CASE m_value # current[t]
      BY <1>11, <2>2 DEF ExclusiveExchange, Effect, Quiet
    <2> QED BY <2>1, <2>2
  <1>12. CASE ReleaseWriter(t)
    <2>1. CASE m_isWriterActive[t]
      BY <1>12, <2>1 DEF ReleaseWriter, Active_Reader_Increment, Effect, Demotes
    <2>2. CASE ~m_isWriterActive[t]
      BY <1>12, <2>2, ConstantFacts DEF ReleaseWriter, Effect, LeavesWriter
    <2> QED BY <2>1, <2>2
  <1> QED
    BY <1>1, <1>2, <1>3, <1>4, <1>5, <1>6, <1>7, <1>8, <1>9, <1>10, <1>11, <1>12, ZenonT(30) DEF Proceed

-----------------------------------------------------------------------------
(* Cardinalities.                                                           *)

LEMMA FiniteThreads ==
    /\ IsFiniteSet(readers) /\ IsFiniteSet(writers) /\ IsFiniteSet(activeWriters)
    /\ Cardinality(readers) \in Nat /\ Cardinality(writers) \in Nat
    /\ Cardinality(activeWriters) \in Nat
    /\ Cardinality(activeWriters) <= Cardinality(writers)
  <1>1. /\ readers \in SUBSET Threads /\ writers \in SUBSET Threads
        /\ activeWriters \in SUBSET writers
    BY DEF readers, writers, activeWriters
  <1>2. IsFiniteSet(readers) /\ IsFiniteSet(writers)
    BY <1>1, LockAssumption, FS_Subset
  <1>3. IsFiniteSet(activeWriters) /\ Cardinality(activeWriters) <= Cardinality(writers)
    BY <1>1, <1>2, FS_Subset
  <1> QED BY <1>2, <1>3, FS_CardinalityType

(* In terms of cardinalities: at most one active writer, and then no reader.*)
LEMMA CountsFacts ==
    ASSUME CountsExact, MutualExclusion
    PROVE  /\ m_value = word(Cardinality(activeWriters), Cardinality(writers), Cardinality(readers))
           /\ Cardinality(activeWriters) \in 0 .. 1
           /\ Cardinality(writers) \in 0 .. MaxWriterCount
           /\ Cardinality(readers) \in 0 .. Reader_Mask
           /\ activeWriters # {} => Cardinality(activeWriters) = 1 /\ Cardinality(readers) = 0
           /\ activeWriters = {} <=> Cardinality(activeWriters) = 0
           /\ readers = {} <=> Cardinality(readers) = 0
           /\ writers = {} <=> Cardinality(writers) = 0
  <1>1. activeWriters # {} => Cardinality(activeWriters) = 1 /\ readers = {}
    BY FS_Singleton, Zenon DEF MutualExclusion
  <1>2. activeWriters = {} => Cardinality(activeWriters) = 0
    BY FS_EmptySet
  <1>3. readers = {} <=> Cardinality(readers) = 0
    BY FiniteThreads, FS_EmptySet
  <1>4. writers = {} <=> Cardinality(writers) = 0
    BY FiniteThreads, FS_EmptySet
  <1>5. Cardinality(activeWriters) \in 0 .. 1
    BY <1>1, <1>2
  <1>6. /\ Cardinality(writers) \in 0 .. MaxWriterCount
        /\ Cardinality(readers) \in 0 .. Reader_Mask
    BY FiniteThreads, ConstantFacts DEF CountsExact
  <1>7. m_value = word(Cardinality(activeWriters), Cardinality(writers), Cardinality(readers))
    BY DEF CountsExact, word
  <1> QED BY <1>1, <1>2, <1>3, <1>4, <1>5, <1>6, <1>7

(* Each effect keeps the counts exact and writers alone.                    *)
LEMMA EffectInv ==
    ASSUME CountsExact, MutualExclusion, NEW t \in Threads, Effect(t)
    PROVE  CountsExact' /\ MutualExclusion'
  <1> DEFINE a == Cardinality(activeWriters)
             w == Cardinality(writers)
             r == Cardinality(readers)
  <1>1. /\ m_value = word(a, w, r)
        /\ a \in 0 .. 1 /\ w \in 0 .. MaxWriterCount /\ r \in 0 .. Reader_Mask
        /\ a <= w
        /\ a \in Int /\ w \in Int /\ r \in Int
        /\ activeWriters # {} => a = 1 /\ r = 0
        /\ activeWriters = {} <=> a = 0
        /\ readers = {} <=> r = 0
    BY CountsFacts, FiniteThreads
  <1>2. readerCount(m_value) = r /\ writerCount(m_value) = w
    BY <1>1, WordFields
  <1>3. /\ \A s : Cardinality(readers \cup {s}) = IF s \in readers THEN r ELSE r + 1
        /\ \A s : Cardinality(readers \ {s}) = IF s \in readers THEN r - 1 ELSE r
        /\ \A s : Cardinality(writers \cup {s}) = IF s \in writers THEN w ELSE w + 1
        /\ \A s : Cardinality(writers \ {s}) = IF s \in writers THEN w - 1 ELSE w
        /\ \A s : Cardinality(activeWriters \cup {s}) = IF s \in activeWriters THEN a ELSE a + 1
        /\ \A s : Cardinality(activeWriters \ {s}) = IF s \in activeWriters THEN a - 1 ELSE a
    BY FiniteThreads, FS_AddElement, FS_RemoveElement, Zenon
  <1>4. \A s : /\ s \in readers => r >= 1
               /\ s \in writers => w >= 1
               /\ s \in activeWriters => a = 1 /\ r = 0 /\ s \in writers /\ activeWriters \ {s} = {}
    BY <1>1, CountsFacts, FiniteThreads DEF MutualExclusion, writers, activeWriters
  <1>5. \A a1 \in 0 .. 1, w1 \in 0 .. MaxWriterCount, r1 \in 0 .. Reader_Mask :
            /\ m_value' = uint(word(a1, w1, r1))
            /\ Cardinality(activeWriters') = a1
            /\ Cardinality(writers') = w1
            /\ Cardinality(readers') = r1
            => CountsExact'
    BY WordFields DEF CountsExact, word
  <1>6. /\ Active_Writer_Flag \in Int /\ Writer_Count_Increment \in Int
        /\ MaxWriterCount \in Nat /\ Reader_Mask \in Nat
    BY ConstantFacts
  <1> HIDE DEF a, w, r
  <1>7. CASE Quiet
    BY <1>7 DEF Quiet, CountsExact, MutualExclusion
  <1>8. CASE EntersReader(t)
    <2>1. w = 0 /\ a = 0 /\ r + 1 \in 0 .. Reader_Mask
      BY <1>1, <1>2, <1>6, <1>8 DEF EntersReader
    <2>2. m_value + 1 = word(a, w, r + 1)
      BY <1>1, <1>6 DEF word
    <2>3. CountsExact'
      BY <1>1, <1>3, <1>5, <1>8, <2>1, <2>2 DEF EntersReader, a, w
    <2> QED BY <1>1, <1>8, <2>1, <2>3 DEF EntersReader, MutualExclusion
  <1>9. CASE LeavesReader(t)
    <2>1. r - 1 \in 0 .. Reader_Mask /\ a = 0
      BY <1>1, <1>4, <1>6, <1>9 DEF LeavesReader
    <2>2. m_value - 1 = word(a, w, r - 1)
      BY <1>1, <1>6 DEF word
    <2>3. CountsExact'
      BY <1>1, <1>3, <1>5, <1>9, <2>1, <2>2, Zenon DEF LeavesReader, a, w
    <2> QED BY <1>1, <1>9, <2>1, <2>3 DEF LeavesReader, MutualExclusion
  <1>10. CASE Announces(t)
    <2>1. w + 1 \in 0 .. MaxWriterCount
      BY <1>1, <1>2, <1>6, <1>10 DEF Announces
    <2>2. m_value + Writer_Count_Increment = word(a, w + 1, r)
      BY <1>1, <1>6 DEF word
    <2>3. CountsExact'
      BY <1>1, <1>3, <1>5, <1>10, <2>1, <2>2, Zenon DEF Announces, a, r
    <2> QED BY <1>10, <2>3 DEF Announces, MutualExclusion
  <1>11. CASE Promotes(t)
    <2>1. w + 1 \in 0 .. MaxWriterCount /\ r - 1 \in 0 .. Reader_Mask /\ a = 0
      BY <1>1, <1>2, <1>4, <1>6, <1>11 DEF Promotes
    <2>2. m_value + Writer_Count_Increment - 1 = word(a, w + 1, r - 1)
      BY <1>1, <1>6 DEF word
    <2>3. CountsExact'
      BY <1>1, <1>3, <1>5, <1>11, <2>1, <2>2 DEF Promotes, a
    <2> QED BY <1>1, <1>11, <2>1, <2>3, ZenonT(30) DEF Promotes, MutualExclusion
  <1>12. CASE EntersWriter(t)
    <2>1. a = 0 /\ r = 0
      BY <1>1, <1>12, ExpectedFields, Zenon DEF EntersWriter
    <2>2. m_value + Active_Writer_Flag = word(1, w, r)
      BY <1>1, <1>6, <2>1 DEF word
    <2>3. CountsExact'
      BY <1>1, <1>3, <1>5, <1>12, <2>1, <2>2 DEF EntersWriter, w, r
    <2>4. activeWriters' = {t} /\ readers' = {}
      BY <1>1, <1>12, <2>1 DEF EntersWriter
    <2> QED BY <2>3, <2>4 DEF MutualExclusion
  <1>13. CASE LeavesWriter(t)
    <2>1. a = 1 /\ w - 1 \in 0 .. MaxWriterCount /\ activeWriters' = {}
      BY <1>1, <1>4, <1>6, <1>13 DEF LeavesWriter
    <2>2. m_value - Active_Writer_Flag - Writer_Count_Increment = word(0, w - 1, r)
      BY <1>1, <1>6, <2>1 DEF word
    <2>3. CountsExact'
      BY <1>1, <1>3, <1>4, <1>5, <1>13, <2>1, <2>2 DEF LeavesWriter, r
    <2> QED BY <2>1, <2>3 DEF MutualExclusion
  <1>14. CASE Demotes(t)
    <2>1. /\ a = 1 /\ r = 0 /\ w - 1 \in 0 .. MaxWriterCount /\ r + 1 \in 0 .. Reader_Mask
          /\ activeWriters' = {}
      BY <1>1, <1>4, <1>6, <1>14, LockAssumption DEF Demotes
    <2>2. m_value - Active_Writer_Flag - Writer_Count_Increment + 1 = word(0, w - 1, r + 1)
      BY <1>1, <1>6, <2>1 DEF word
    <2>3. CountsExact'
      BY <1>1, <1>3, <1>4, <1>5, <1>14, <2>1, <2>2 DEF Demotes
    <2> QED BY <2>1, <2>3 DEF MutualExclusion
  <1> QED
    BY <1>7, <1>8, <1>9, <1>10, <1>11, <1>12, <1>13, <1>14, ZenonT(30) DEF Effect

-----------------------------------------------------------------------------
(* Types and expected values.                                               *)

LEMMA TypeStep ==
    ASSUME TypeOK, NEW t \in Threads,
           acquireReader(t) \/ acquireWriter(t) \/ promoteToWriter(t) \/ Proceed(t)
    PROVE  TypeOK'
  <1> USE DEF TypeOK, Labels, goto
  <1>1. /\ Writer_Count_Increment \in Int /\ Active_Writer_Flag \in Int
        /\ Active_Reader_Increment = 1
        /\ m_value \in Int /\ current[t] \in Int
    BY ConstantFacts DEF Active_Reader_Increment
  <1>2. /\ uint(current[t] + 1) \in Nat
        /\ uint(m_value - 1) \in Nat
        /\ uint(current[t] + Writer_Count_Increment - 0) \in Nat
        /\ uint(current[t] + Writer_Count_Increment - 1) \in Nat
        /\ uint(current[t] + Active_Writer_Flag) \in Nat
        /\ uint(m_value - Active_Writer_Flag - Writer_Count_Increment + 0) \in Nat
        /\ uint(m_value - Active_Writer_Flag - Writer_Count_Increment + 1) \in Nat
    BY <1>1, UintType
  <1>3. maskWriterCount(m_value) \in Nat
    <2>1. \A x \in Nat, d \in Nat \ {0} : x \div d \in Nat /\ x % d \in Nat
      OBVIOUS
    <2>2. MaxWriterCount + 1 \in Nat \ {0}
      BY ConstantFacts
    <2>3. writerCount(m_value) \in Nat
      BY <2>1, <2>2, ConstantFacts DEF writerCount
    <2> QED BY <2>3, ConstantFacts DEF maskWriterCount
  <1>4. CASE acquireReader(t)
    BY <1>4 DEF acquireReader
  <1>5. CASE acquireWriter(t)
    BY <1>5 DEF acquireWriter
  <1>6. CASE promoteToWriter(t)
    BY <1>6 DEF promoteToWriter
  <1>7. CASE WaitForWriters(t)
    BY <1>7 DEF WaitForWriters
  <1>8. CASE ReaderThrows(t)
    BY <1>8 DEF ReaderThrows
  <1>9. CASE ReaderExchange(t)
    BY <1>1, <1>2, <1>9, SMTT(30) DEF ReaderExchange
  <1>10. CASE ReleaseReader(t)
    BY <1>1, <1>2, <1>10 DEF ReleaseReader
  <1>11. CASE WriterThrows(t)
    BY <1>11 DEF WriterThrows
  <1>12. CASE WriterExchange(t)
    BY <1>1, <1>2, <1>12 DEF WriterExchange
  <1>13. CASE LoadExpected(t)
    BY <1>3, <1>13 DEF LoadExpected
  <1>14. CASE ExclusiveExchange(t)
    BY <1>1, <1>2, <1>14 DEF ExclusiveExchange
  <1>15. CASE ReleaseWriter(t)
    BY <1>1, <1>2, <1>15 DEF ReleaseWriter
  <1> QED
    BY <1>4, <1>5, <1>6, <1>7, <1>8, <1>9, <1>10, <1>11, <1>12, <1>13, <1>14, <1>15, Zenon DEF Proceed

LEMMA ExpectedStep ==
    ASSUME IInv, NEW t \in Threads,
           acquireReader(t) \/ acquireWriter(t) \/ promoteToWriter(t) \/ Proceed(t)
    PROVE  ExpectedInv'
  <1>1. CASE LoadExpected(t)
    <2>1. writerCount(m_value) \in 0 .. MaxWriterCount
      BY CountsFacts, WordFields DEF IInv
    <2> QED BY <1>1, <2>1 DEF LoadExpected, maskWriterCount, goto, ExpectedInv, IInv, TypeOK
  <1>2. CASE ~LoadExpected(t)
    <2>1. \A u \in Threads : pc'[u] = "exclusive" => pc[u] = "exclusive" /\ current'[u] = current[u]
      BY <1>2 DEF acquireReader, acquireWriter, promoteToWriter, Proceed, WaitForWriters,
        ReaderThrows, ReaderExchange, ReleaseReader, WriterThrows, WriterExchange,
        ExclusiveExchange, ReleaseWriter, goto, IInv, TypeOK
    <2> QED BY <2>1, ZenonT(30) DEF ExpectedInv, IInv
  <1> QED BY <1>1, <1>2

-----------------------------------------------------------------------------
(* The theorems.                                                            *)

LEMMA InitIInv == Init => IInv
  <1> SUFFICES ASSUME Init PROVE IInv
    OBVIOUS
  <1>1. readers = {} /\ writers = {} /\ activeWriters = {}
    BY DEF Init, readers, writers, activeWriters
  <1>2. CountsExact
    BY <1>1, FS_EmptySet, ConstantFacts DEF Init, CountsExact
  <1> QED BY <1>1, <1>2 DEF Init, IInv, TypeOK, Labels, ExpectedInv, MutualExclusion

LEMMA NextIInv == IInv /\ [Next]_vars => IInv'
  <1> SUFFICES ASSUME IInv, [Next]_vars PROVE IInv'
    OBVIOUS
  <1>1. CASE Next
    <2>1. PICK t \in Threads : acquireReader(t) \/ acquireWriter(t) \/ promoteToWriter(t) \/ Proceed(t)
      BY <1>1 DEF Next
    <2>2. Effect(t)
      BY <2>1, StepEffect DEF IInv
    <2> QED BY <2>1, <2>2, EffectInv, TypeStep, ExpectedStep DEF IInv
  <1>2. CASE UNCHANGED vars
    BY <1>2 DEF vars, IInv, TypeOK, ExpectedInv, CountsExact, MutualExclusion, readers, writers,
      activeWriters
  <1> QED BY <1>1, <1>2

(* The conjunction that makes the lock's invariants inductive.              *)
THEOREM LockInvariance == Spec => []IInv
  BY InitIInv, NextIInv, PTL DEF Spec

(* The word never leaves its range: the fields of m_value count readers,    *)
(* waiting and active writers exactly and never overflow into each other,   *)
(* however many threads acquire, promote and release concurrently.          *)
THEOREM LockCountsExact == Spec => []CountsExact
  <1>1. IInv => CountsExact
    BY DEF IInv
  <1> QED BY <1>1, LockInvariance, PTL

(* A writer, acquired or promoted, is alone in the lock.                    *)
THEOREM LockMutualExclusion == Spec => []MutualExclusion
  <1>1. IInv => MutualExclusion
    BY DEF IInv
  <1> QED BY <1>1, LockInvariance, PTL

(* The compare-and-exchange loops implement the abstract lock, in which     *)
(* acquiring, promoting and releasing are atomic and waiting writers keep   *)
(* readers out.                                                             *)
THEOREM LockRefinement == Spec => ImplementsLock
  <1>1. Init => Abstract!Init
    BY SMTT(30) DEF Init, Abstract!Init, Abstract!Free, readers, writers, activeWriters
  <1>2. IInv /\ [Next]_vars => [Abstract!Next]_theLock
    <2> SUFFICES ASSUME IInv, Next PROVE [Abstract!Next]_theLock
      BY Zenon DEF vars, theLock, readers, writers, activeWriters
    <2>1. PICK t \in Threads : acquireReader(t) \/ acquireWriter(t) \/ promoteToWriter(t) \/ Proceed(t)
      BY DEF Next
    <2>2. Effect(t)
      BY <2>1, StepEffect DEF IInv
    <2>3. /\ writerCount(m_value) = 0 => writers = {} /\ activeWriters = {}
          /\ (\E k \in 0 .. MaxWriterCount : m_value = Writer_Count_Increment * k)
                => readers = {} /\ activeWriters = {}
      BY CountsFacts, FiniteThreads, WordFields, ExpectedFields DEF IInv, writers, activeWriters
    <2>4. activeWriters \subseteq writers /\ readers \cap writers = {}
      BY DEF IInv, TypeOK, readers, writers, activeWriters
    <2> USE DEF theLock
    <2>5. CASE Quiet
      BY <2>5 DEF Quiet
    <2>6. CASE EntersReader(t)
      BY <2>3, <2>6, Zenon DEF EntersReader, Abstract!Next, Abstract!canEnterReader, Abstract!enterReader
    <2>7. CASE LeavesReader(t)
      BY <2>7, Zenon DEF LeavesReader, Abstract!Next, Abstract!leaveReader
    <2>8. CASE Announces(t)
      BY <2>4, <2>8, ZenonT(30) DEF Announces, Abstract!Next, Abstract!announceWriter
    <2>9. CASE Promotes(t)
      BY <2>4, <2>9, ZenonT(30) DEF Promotes, Abstract!Next, Abstract!promote
    <2>10. CASE EntersWriter(t)
      BY <2>3, <2>4, <2>10, Zenon DEF EntersWriter, Abstract!Next, Abstract!canEnterWriter, Abstract!enterWriter
    <2>11. CASE LeavesWriter(t)
      <3>1. t \in activeWriters /\ (writers \ activeWriters)' = writers \ activeWriters
        BY <2>4, <2>11 DEF LeavesWriter
      <3>2. theLock' = Abstract!leaveWriter(theLock, t)
        BY <2>11, <3>1, Zenon DEF LeavesWriter, Abstract!leaveWriter
      <3> QED BY <3>1, <3>2 DEF Abstract!Next
    <2>12. CASE Demotes(t)
      <3>1. t \in activeWriters /\ (writers \ activeWriters)' = writers \ activeWriters
        BY <2>4, <2>12 DEF Demotes
      <3>2. theLock' = Abstract!demote(theLock, t)
        BY <2>12, <3>1, Zenon DEF Demotes, Abstract!demote
      <3> QED BY <3>1, <3>2 DEF Abstract!Next
    <2> QED
      BY <2>2, <2>5, <2>6, <2>7, <2>8, <2>9, <2>10, <2>11, <2>12, ZenonT(30) DEF Effect
  <1> QED BY <1>1, <1>2, LockInvariance, PTL DEF Spec, ImplementsLock, Abstract!Spec, theLock
=============================================================================
