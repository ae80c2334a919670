--------------------------- MODULE ReaderWriterLock ---------------------------
(***************************************************************************)
(* What a SpinReaderWriterLock promises: readers share, a writer is alone,  *)
(* and a reader never gets in ahead of a writer that has announced itself.  *)
(***************************************************************************)
EXTENDS LockState

CONSTANT Threads

VARIABLE lock

Init == lock = Free

Next ==
    \E t \in Threads :
        \/ canEnterReader(lock) /\ lock' = enterReader(lock, t)
        \/ t \in lock.readers /\ lock' = leaveReader(lock, t)
        \/ t \notin lock.readers /\ lock' = announceWriter(lock, t)
        \/ t \in lock.readers /\ lock' = promote(lock, t)
        \/ t \in lock.waiting /\ canEnterWriter(lock) /\ lock' = enterWriter(lock, t)
        \/ t \in lock.writers /\ (lock' = leaveWriter(lock, t) \/ lock' = demote(lock, t))

Spec == Init /\ [][Next]_lock
=============================================================================
