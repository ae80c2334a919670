------------------------------ MODULE LockState ------------------------------
(***************************************************************************)
(* The abstract state of one SpinReaderWriterLock, and what its operations  *)
(* do to it.  A lock prefers writers: once a writer has announced itself no *)
(* reader gets in.  Promotion gives the reader lock up and announces a      *)
(* writer; when a promoted writer is done it is a reader again.             *)
(***************************************************************************)
EXTENDS Naturals

Free == [readers |-> {}, waiting |-> {}, writers |-> {}]

LockStates(threads) ==
    [readers : SUBSET threads, waiting : SUBSET threads, writers : SUBSET threads]

(* No writer is pending or active.                                          *)
canEnterReader(lock) == lock.waiting = {} /\ lock.writers = {}

(* No reader and no other writer is inside.                                 *)
canEnterWriter(lock) == lock.readers = {} /\ lock.writers = {}

enterReader(lock, t) ==
    [readers |-> lock.readers \cup {t}, waiting |-> lock.waiting, writers |-> lock.writers]

leaveReader(lock, t) ==
    [readers |-> lock.readers \ {t}, waiting |-> lock.waiting, writers |-> lock.writers]

announceWriter(lock, t) ==
    [readers |-> lock.readers, waiting |-> lock.waiting \cup {t}, writers |-> lock.writers]

promote(lock, t) ==
    [readers |-> lock.readers \ {t}, waiting |-> lock.waiting \cup {t}, writers |-> lock.writers]

enterWriter(lock, t) ==
    [readers |-> lock.readers, waiting |-> lock.waiting \ {t}, writers |-> lock.writers \cup {t}]

leaveWriter(lock, t) ==
    [readers |-> lock.readers, waiting |-> lock.waiting, writers |-> lock.writers \ {t}]

demote(lock, t) ==
    [readers |-> lock.readers \cup {t}, waiting |-> lock.waiting, writers |-> lock.writers \ {t}]
=============================================================================
