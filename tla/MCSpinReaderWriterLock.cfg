\* Three threads, each able to acquire, promote and release again and again, on
\* a word whose counts hold two: one thread more than each count can hold.
\* (The word is modelled by its arithmetic, for which a count needs no whole
\* number of bits.)
SPECIFICATION FairSpec
CONSTANTS
    Threads = {t1, t2, t3}
    Reader_Mask = 2
    MaxWriterCount = 2
INVARIANTS
    CountsExact
    MutualExclusion
PROPERTIES
    ImplementsLock
    WriterProgress
