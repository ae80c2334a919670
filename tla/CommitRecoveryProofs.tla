------------------------ MODULE CommitRecoveryProofs ------------------------
(***************************************************************************)
(* Proofs about CommitRecovery for every number of sub-caches, commits,     *)
(* saves and crashes, and every length of chains and rollbacks: the         *)
(* invariant, and what follows from it.                                     *)
(*                                                                          *)
(* The invariant says what the disk holds in the two states that recovery   *)
(* tells apart.  Before the checkpoint, block storage, saved state and      *)
(* cache databases are those of the current chain.  After it they may be    *)
(* those of the chain before, but whatever is not yet current is spooled:   *)
(* the blocks in the staging area, the saved state in state.tmp, the cache  *)
(* changes in the last message of the state change queue.                   *)
(***************************************************************************)
EXTENDS CommitRecovery, TLAPS

checkpointed == commitStep = "State_Written"

(* Which operation a step belongs to, and on which side of the checkpoint.  *)
StepInv ==
    /\ pc \in {"idle", "crashed"} => op = "none"
    /\ pc \in {"saveBlocks", "scoreChange", "stateChange", "commitCache", "updateIndex"} => op = "commit"
    /\ pc \in {"preStateWritten", "supplementalData", "stateWritten"} => op \in {"commit", "save"}
    /\ pc \in {"dropBlocks", "moveBlocks", "purgeBlocks"} => op \in {"commit", "recover"}
    /\ pc \in {"purgeState", "renameState", "allUpdated"} => op \in {"commit", "save", "recover"}
    /\ pc \in {"purgeSpool", "loadState", "catchUp", "forward", "repairFiles", "moveBlockFiles",
               "reset"} => op = "recover"
    /\ pc = "save" => op \in {"none", "recover"}
    /\ pc = "stopped" => op \in {"save", "recover"}
    /\ pc = "failed" => op \in {"none", "recover"}
    /\ pc \in {"idle", "saveBlocks", "scoreChange", "stateChange", "preStateWritten",
               "supplementalData", "stateWritten", "updateIndex", "stopped", "save",
               "purgeSpool"} => ~checkpointed
    /\ pc \in {"commitCache", "dropBlocks", "moveBlocks", "purgeBlocks", "purgeState",
               "renameState", "moveBlockFiles"} => checkpointed
    /\ pc = "allUpdated" => (checkpointed <=> op # "recover")

CurrentInv ==
    /\ current \in Chains /\ Len(current) >= 2
    /\ op = "commit" /\ ~checkpointed /\ pc # "updateIndex" =>
           /\ start \in 2 .. Len(new) /\ start - 1 <= Len(current)
           /\ \A i \in 1 .. start - 1 : new[i] = current[i]
    /\ op = "commit" /\ checkpointed => new = current
    /\ op = "save" => new = current

cachesCurrent == \A s \in SubCaches : cache[s] = current

(* The steps at which memory holds the current dependent state.             *)
dependentLoaded ==
    \/ pc \in {"idle", "save"}
    \/ ~checkpointed /\ pc \in {"catchUp", "forward", "repairFiles", "reset"}
    \/ op = "commit" /\ pc \in {"dropBlocks", "moveBlocks", "purgeBlocks", "purgeState",
                                "renameState", "allUpdated", "updateIndex"}

(* Before the checkpoint everything is current.                             *)
SettledInv ==
    /\ ~checkpointed => storage = current /\ state = current /\ cachesCurrent
    /\ dependentLoaded => dependent = current

(* Files that an interrupted purge left behind do no harm: below the        *)
(* height of the current chain they hold its blocks.                        *)
filesAgree ==
    \A h \in DOMAIN staging.files : h \in 1 .. Len(current) => staging.files[h] = current[h]

(* The blocks of the new chain are staged up to height n.                   *)
stagedUpTo(n) ==
    /\ staging.index = n
    /\ start .. n \subseteq DOMAIN staging.files
    /\ \A h \in start .. n : staging.files[h] = new[h]
    /\ \A h \in DOMAIN staging.files : h \in 1 .. start - 1 => staging.files[h] = current[h]

(* The blocks from s on are staged, those before are in the storage.        *)
stagedFrom(s) ==
    /\ s \in 1 .. Len(current)
    /\ s .. Len(current) \subseteq DOMAIN staging.files
    /\ s - 1 <= Len(storage)
    /\ \A i \in 1 .. s - 1 : storage[i] = current[i]

(* The staging area and the block storage together hold the current chain.  *)
blocksRecoverable ==
    /\ staging.index \in {0, Len(current)}
    /\ filesAgree
    /\ \/ storage = current
       \/ staging.index = Len(current) /\ \E s \in 1 .. Len(current) : stagedFrom(s)

(* The steps at which the staging area is not in use.                       *)
stagingUnused ==
    \/ op = "save"
    \/ pc \in {"idle", "save", "stopped", "allUpdated", "updateIndex", "reset"}
    \/ op = "commit" /\ pc \in {"purgeState", "renameState"}
    \/ ~checkpointed /\ pc \in {"loadState", "catchUp", "forward", "repairFiles"}

BlocksInv ==
    /\ \A h \in DOMAIN staging.files : h >= 2
    /\ stagingUnused => staging.index = 0 /\ filesAgree
    /\ pc = "saveBlocks" => staging.index \in start - 1 .. Len(new) /\ stagedUpTo(staging.index)
    /\ op = "commit" /\ pc \in {"scoreChange", "stateChange", "preStateWritten", "supplementalData",
                                "stateWritten"} => stagedUpTo(Len(new))
    /\ checkpointed => blocksRecoverable
    /\ pc \in {"commitCache", "dropBlocks", "moveBlocks"} =>
           staging.index = Len(current) /\ stagedFrom(start)
    /\ pc = "moveBlocks" =>
           /\ Len(storage) \in start - 1 .. Len(current)
           /\ \A i \in 1 .. Len(storage) : storage[i] = current[i]
    /\ pc = "purgeBlocks" => storage = current

(* The steps before and after the rename of state.tmp.                      *)
stateNotMoved ==
    \/ pc \in {"purgeState", "renameState"}
    \/ op = "commit" /\ pc \in {"commitCache", "dropBlocks", "moveBlocks", "purgeBlocks"}

stateMoved ==
    \/ pc \in {"moveBlockFiles", "allUpdated", "reset"}
    \/ op = "recover" /\ pc \in {"dropBlocks", "moveBlocks", "purgeBlocks"}

(* The saved state or state.tmp is current.                                 *)
StateInv ==
    /\ checkpointed => (stateTmp = current \/ (stateTmp = Absent /\ state = current))
    /\ stateNotMoved => stateTmp = current
    /\ pc = "stateWritten" => stateTmp = new
    /\ stateMoved => state = current

(* The two messages of a commit, with the state change of the chain last.   *)
twoMessages(chain) ==
    /\ queue.server = queue.index + 2
    /\ queue.files[queue.index].type = "score"
    /\ queue.files[queue.index + 1] = [type |-> "state", chain |-> chain]

(* What is left to apply after the checkpoint.                              *)
changesRecoverable ==
    \/ queue.server = queue.index /\ cachesCurrent
    \/ queue.server = queue.index + 1 /\ queue.files[queue.index] = [type |-> "state", chain |-> current]
    \/ twoMessages(current)

(* The steps at which no message waits for its commit to be complete.       *)
changesApplied ==
    \/ op = "save"
    \/ pc \in {"idle", "saveBlocks", "scoreChange", "stopped", "save", "repairFiles",
               "moveBlockFiles", "reset"}
    \/ op = "recover" /\ pc \in {"dropBlocks", "moveBlocks", "purgeBlocks", "purgeState",
                                 "renameState", "allUpdated"}
    \/ ~checkpointed /\ pc \in {"loadState", "catchUp", "forward"}

QueueInv ==
    /\ queue.index .. queue.server - 1 \subseteq DOMAIN queue.files
    /\ changesApplied => queue.server = queue.index
    /\ pc = "stateChange" =>
           queue.server = queue.index + 1 /\ queue.files[queue.index].type = "score"
    /\ op = "commit" /\ pc \in {"preStateWritten", "supplementalData", "stateWritten"} =>
           twoMessages(new)
    /\ op = "commit" /\ (checkpointed \/ pc = "updateIndex") => twoMessages(current)
    /\ checkpointed => changesRecoverable
    /\ op = "commit" /\ pc \in {"dropBlocks", "moveBlocks", "purgeBlocks", "purgeState",
                                "renameState", "allUpdated"} => cachesCurrent

isStateChange(i, c) ==
    /\ i \in DOMAIN queue.files
    /\ queue.files[i].type = "state" /\ commitOf(queue.files[i].chain) = c

(* The state change of the current chain is still to come.                  *)
changePending == (checkpointed \/ pc = "updateIndex") /\ queue.index < queue.server

(* The messages up to index.dat belong to durable commits, and no durable   *)
(* commit is missing but those whose message is still to come.              *)
BrokerInv ==
    /\ delivered \subseteq durableCommits
    /\ \A i \in queue.reader .. queue.index - 1 : \A c \in 0 .. MaxCommits :
           isStateChange(i, c) => c \in durableCommits
    /\ changePending => commitOf(current) \in durableCommits
    /\ <<"commit", "updateIndex">> \notin crashedAt =>
           \A c \in durableCommits :
               \/ c \in delivered
               \/ \E i \in queue.reader .. queue.index - 1 : isStateChange(i, c)
               \/ changePending /\ c = commitOf(current)

torn == \E at \in crashedAt : at[1] \in DOMAIN TornMoves /\ at[2] \in TornMoves[at[1]]

unread == queue.reader .. queue.index - 1

(* The files of unread messages are there, or recovery removed them all.    *)
UnreadInv ==
    /\ \/ unread \subseteq DOMAIN queue.files
       \/ /\ unread \cap DOMAIN queue.files = {}
          /\ checkpointed /\ pc \in {"crashed", "loadState", "catchUp", "forward", "failed"}
          /\ pc = "forward" \/ torn
    /\ pc = "forward" => unread \cap DOMAIN queue.files = {}

(* The steps at which the old state is still saved, or the new one is, and  *)
(* those at which no staged block has been removed.                         *)
stateIntact ==
    \/ pc \in {"crashed", "loadState", "catchUp", "forward", "repairFiles", "commitCache", "reset",
               "allUpdated"}
    \/ pc = "dropBlocks" /\ op = "commit"
    \/ pc = "purgeState" /\ op # "commit"

stagingIntact ==
    pc \in {"crashed", "loadState", "catchUp", "forward", "repairFiles", "commitCache", "dropBlocks",
            "purgeState", "renameState", "moveBlockFiles"}

(* Without a crash inside a move of files the saved state has the height of *)
(* the block storage and the last staged block is there.                    *)
TornInv ==
    /\ pc = "failed" => torn
    /\ checkpointed /\ ~torn =>
           /\ stateIntact => state \notin {Absent, Partial} /\ Len(state) = Len(storage)
           /\ stagingIntact => staging.index = 0 \/ staging.index \in DOMAIN staging.files

IInv ==
    /\ TypeOK
    /\ StepInv
    /\ CurrentInv
    /\ SettledInv
    /\ BlocksInv
    /\ StateInv
    /\ QueueInv
    /\ BrokerInv
    /\ UnreadInv
    /\ TornInv

-----------------------------------------------------------------------------
(* The interval of the messages between two equal indexes.                  *)
LEMMA NothingQueued ==
    ASSUME NEW n \in Nat
    PROVE  n .. n - 1 = {}
OBVIOUS

(* Adding an entry to a map and removing one.                               *)
LEMMA PutFacts ==
    ASSUME NEW f, NEW x, NEW v
    PROVE  /\ DOMAIN put(f, x, v) = DOMAIN f \cup {x}
           /\ put(f, x, v)[x] = v
           /\ \A y \in DOMAIN f : y # x => put(f, x, v)[y] = f[y]
BY DEF put

LEMMA PutType ==
    ASSUME NEW V, NEW f, f \in [DOMAIN f -> V], NEW x, NEW v \in V
    PROVE  put(f, x, v) \in [DOMAIN f \cup {x} -> V]
BY DEF put

LEMMA RemoveFacts ==
    ASSUME NEW f, NEW x
    PROVE  /\ DOMAIN remove(f, x) = DOMAIN f \ {x}
           /\ \A y \in DOMAIN f \ {x} : remove(f, x)[y] = f[y]
BY DEF remove

LEMMA RemoveType ==
    ASSUME NEW V, NEW f, f \in [DOMAIN f -> V], NEW x
    PROVE  remove(f, x) \in [DOMAIN f \ {x} -> V]
BY DEF remove

(* A chain is not one of the markers of a missing state.                    *)
LEMMA ChainFacts ==
    ASSUME NEW chain \in Chains
    PROVE  /\ chain # Partial /\ Len(chain) \in Nat
           /\ \A i \in 1 .. Len(chain) : chain[i] \in 0 .. MaxCommits
           /\ Len(chain) >= 1 => chain # Absent /\ commitOf(chain) \in 0 .. MaxCommits
<1>1. Len(chain) \in Nat /\ \A i \in 1 .. Len(chain) : chain[i] \in 0 .. MaxCommits
  <2>1. PICK S : S = 0 .. MaxCommits
    OBVIOUS
  <2>2. chain \in Seq(S)
    BY <2>1 DEF Chains
  <2>3. Len(chain) \in Nat /\ \A i \in 1 .. Len(chain) : chain[i] \in S
    BY <2>2
  <2> QED
    BY <2>1, <2>3
<1>2. chain # Partial
  <2> SUFFICES ASSUME chain = <<-1>>
               PROVE  FALSE
    BY DEF Partial
  <2>1. Len(chain) = 1 /\ chain[1] = -1
    OBVIOUS
  <2> QED
    BY <1>1, <2>1
<1>3. Len(chain) >= 1 => chain # Absent
  BY DEF Absent
<1>4. Len(chain) >= 1 => commitOf(chain) \in 0 .. MaxCommits
  BY <1>1 DEF commitOf
<1> QED
  BY <1>1, <1>2, <1>3, <1>4

LEMMA TakeFacts ==
    ASSUME NEW chain \in Chains, NEW n \in 0 .. Len(chain)
    PROVE  /\ take(chain, n) \in Chains /\ Len(take(chain, n)) = n
           /\ \A i \in 1 .. n : take(chain, n)[i] = chain[i]
<1>1. Len(chain) \in Nat /\ n \in Int /\ \A i \in 1 .. n : chain[i] \in 0 .. MaxCommits
  BY ChainFacts
<1>2. /\ SubSeq(chain, 1, n) \in Seq(0 .. MaxCommits)
      /\ Len(SubSeq(chain, 1, n)) = IF 1 <= n THEN n - 1 + 1 ELSE 0
      /\ \A i \in 1 .. n - 1 + 1 : SubSeq(chain, 1, n)[i] = chain[1 + i - 1]
  BY <1>1 DEF Chains
<1> QED
  BY <1>1, <1>2 DEF take, Chains

(* A state change carries a chain, and so the commit that wrote it.         *)
LEMMA MessageFacts ==
    ASSUME NEW message \in Messages
    PROVE  /\ message.type \in {"score", "state"}
           /\ message.type = "state" =>
                  /\ message.chain \in Chains /\ Len(message.chain) >= 1
                  /\ commitOf(message.chain) \in 0 .. MaxCommits
<1>1. /\ message.type \in {"score", "state"}
      /\ message.type = "state" => message.chain \in Chains /\ message.chain # <<>>
  BY DEF Messages, Absent
<1>2. message.type = "state" => Len(message.chain) >= 1
  BY <1>1 DEF Chains
<1>3. message.type = "state" => commitOf(message.chain) \in 0 .. MaxCommits
  BY <1>1, <1>2, ChainFacts
<1> QED
  BY <1>1, <1>2, <1>3

(* What is written to the queue.                                            *)
LEMMA WriteFacts ==
    ASSUME TypeOK, NEW message \in Messages, write(message)
    PROVE  /\ queue'.server = queue.server + 1
           /\ queue'.index = queue.index /\ queue'.reader = queue.reader
           /\ queue'.files = put(queue.files, queue.server, message)
           /\ queue' = [server |-> queue'.server, index |-> queue'.index, reader |-> queue'.reader,
                        files |-> queue'.files]
           /\ DOMAIN queue'.files = DOMAIN queue.files \cup {queue.server}
           /\ DOMAIN queue'.files \subseteq Nat /\ queue'.files \in [DOMAIN queue'.files -> Messages]
           /\ queue'.files[queue.server] = message
           /\ \A i \in DOMAIN queue.files : i # queue.server => queue'.files[i] = queue.files[i]
<1>1. /\ queue'.server = queue.server + 1
      /\ queue'.index = queue.index /\ queue'.reader = queue.reader
      /\ queue'.files = put(queue.files, queue.server, message)
      /\ queue' = [server |-> queue'.server, index |-> queue'.index, reader |-> queue'.reader,
                   files |-> queue'.files]
  BY Zenon DEF TypeOK, write
<1>2. /\ DOMAIN queue'.files = DOMAIN queue.files \cup {queue.server}
      /\ queue'.files[queue.server] = message
      /\ \A i \in DOMAIN queue.files : i # queue.server => queue'.files[i] = queue.files[i]
  <2>1. queue'.files = put(queue.files, queue.server, message)
    BY <1>1
  <2> DEFINE files == put(queue.files, queue.server, message)
  <2>2. /\ DOMAIN files = DOMAIN queue.files \cup {queue.server}
        /\ files[queue.server] = message
        /\ \A i \in DOMAIN queue.files : i # queue.server => files[i] = queue.files[i]
    BY DEF put
  <2> QED
    BY <2>1, <2>2
<1>3. queue.files \in [DOMAIN queue.files -> Messages] /\ queue.server \in Nat
      /\ DOMAIN queue.files \subseteq Nat
  BY ZenonT(30) DEF TypeOK
<1>4. queue'.files \in [DOMAIN queue'.files -> Messages]
  <2>1. put(queue.files, queue.server, message) \in [DOMAIN queue.files \cup {queue.server} -> Messages]
    BY <1>3, PutType, Zenon
  <2> QED
    BY <1>1, <1>2, <2>1
<1> QED
  BY <1>1, <1>2, <1>3, <1>4

(* What is read from the queue.                                             *)
LEMMA ReadFacts ==
    ASSUME TypeOK, readNext
    PROVE  /\ queue.reader < queue.index /\ queue.reader \in DOMAIN queue.files
           /\ queue'.server = queue.server /\ queue'.index = queue.index
           /\ queue'.reader = queue.reader + 1
           /\ queue' = [server |-> queue'.server, index |-> queue'.index, reader |-> queue'.reader,
                        files |-> queue'.files]
           /\ DOMAIN queue'.files = DOMAIN queue.files \ {queue.reader}
           /\ queue'.files \in [DOMAIN queue'.files -> Messages]
           /\ \A i \in DOMAIN queue'.files : queue'.files[i] = queue.files[i]
           /\ delivered' = IF queue.files[queue.reader].type = "state"
                           THEN delivered \cup {commitOf(queue.files[queue.reader].chain)} ELSE delivered
<1>1. /\ queue'.server = queue.server /\ queue'.index = queue.index
      /\ queue'.reader = queue.reader + 1
      /\ queue' = [server |-> queue'.server, index |-> queue'.index, reader |-> queue'.reader,
                   files |-> queue'.files]
      /\ queue'.files = remove(queue.files, queue.reader)
  BY Zenon DEF TypeOK, readNext
<1>2. queue.files \in [DOMAIN queue.files -> Messages]
  BY DEF TypeOK
<1>3. /\ DOMAIN queue'.files = DOMAIN queue.files \ {queue.reader}
      /\ \A i \in DOMAIN queue'.files : queue'.files[i] = queue.files[i]
  <2>1. queue'.files = remove(queue.files, queue.reader)
    BY <1>1
  <2> DEFINE files == remove(queue.files, queue.reader)
  <2>2. /\ DOMAIN files = DOMAIN queue.files \ {queue.reader}
        /\ \A i \in DOMAIN queue.files \ {queue.reader} : files[i] = queue.files[i]
    BY RemoveFacts, Zenon
  <2> QED
    BY <2>1, <2>2
<1>4. queue'.files \in [DOMAIN queue'.files -> Messages]
  <2>1. remove(queue.files, queue.reader) \in [DOMAIN queue.files \ {queue.reader} -> Messages]
    BY <1>2, RemoveType, Zenon
  <2> QED
    BY <1>1, <1>3, <2>1
<1> QED
  BY <1>1, <1>3, <1>4 DEF readNext, deliver

(* How the staging area changes.                                            *)
LEMMA StagingFacts ==
    ASSUME TypeOK
    PROVE  /\ SaveStagedBlock =>
                  /\ staging' = [index |-> staging'.index, files |-> staging'.files]
                  /\ staging'.index = staging.index + 1
                  /\ DOMAIN staging'.files = DOMAIN staging.files \cup {staging.index + 1}
                  /\ staging'.files[staging.index + 1] = new[staging.index + 1]
                  /\ \A h \in DOMAIN staging.files :
                         h # staging.index + 1 => staging'.files[h] = staging.files[h]
                  /\ staging'.files \in [DOMAIN staging'.files -> 0 .. MaxCommits]
           /\ PurgeStaging =>
                  /\ staging' = [index |-> staging'.index, files |-> staging'.files]
                  /\ staging'.index \in {0, staging.index}
                  /\ DOMAIN staging'.files \subseteq DOMAIN staging.files
                  /\ \A h \in DOMAIN staging'.files : staging'.files[h] = staging.files[h]
                  /\ staging'.files \in [DOMAIN staging'.files -> 0 .. MaxCommits]
<1>t. /\ staging = [index |-> staging.index, files |-> staging.files]
      /\ staging.index \in Nat /\ staging.files \in [DOMAIN staging.files -> 0 .. MaxCommits]
      /\ new \in Chains
  BY DEF TypeOK
<1>1. ASSUME SaveStagedBlock
      PROVE  /\ staging' = [index |-> staging'.index, files |-> staging'.files]
             /\ staging'.index = staging.index + 1
             /\ DOMAIN staging'.files = DOMAIN staging.files \cup {staging.index + 1}
             /\ staging'.files[staging.index + 1] = new[staging.index + 1]
             /\ \A h \in DOMAIN staging.files :
                    h # staging.index + 1 => staging'.files[h] = staging.files[h]
             /\ staging'.files \in [DOMAIN staging'.files -> 0 .. MaxCommits]
  <2> DEFINE x == staging.index + 1
             files == put(staging.files, x, new[x])
  <2>1. /\ staging' = [index |-> staging'.index, files |-> staging'.files]
        /\ staging'.index = x /\ staging'.files = files
    BY <1>1 DEF SaveStagedBlock
  <2>2. /\ DOMAIN files = DOMAIN staging.files \cup {x} /\ files[x] = new[x]
        /\ \A h \in DOMAIN staging.files : h # x => files[h] = staging.files[h]
    BY DEF put
  <2>3. new[x] \in 0 .. MaxCommits
    <3>1. x \in 1 .. Len(new)
      BY <1>1, <1>t, ChainFacts DEF SaveStagedBlock
    <3> QED
      BY <1>t, <3>1, ChainFacts
  <2>4. files \in [DOMAIN staging.files \cup {x} -> 0 .. MaxCommits]
    BY <1>t, <2>3, PutType, Zenon
  <2> HIDE DEF files
  <2> QED
    BY <2>1, <2>2, <2>4
<1>2. ASSUME PurgeStaging
      PROVE  /\ staging' = [index |-> staging'.index, files |-> staging'.files]
             /\ staging'.index \in {0, staging.index}
             /\ DOMAIN staging'.files \subseteq DOMAIN staging.files
             /\ \A h \in DOMAIN staging'.files : staging'.files[h] = staging.files[h]
             /\ staging'.files \in [DOMAIN staging'.files -> 0 .. MaxCommits]
  <2>1. CASE staging' = [staging EXCEPT !.index = 0]
    <3>1. /\ staging' = [index |-> staging'.index, files |-> staging'.files]
          /\ staging'.index = 0 /\ staging'.files = staging.files
      BY <1>t, <2>1
    <3> QED
      BY <1>t, <3>1
  <2>2. ASSUME NEW h \in DOMAIN staging.files, staging' = [staging EXCEPT !.files = remove(@, h)]
        PROVE  /\ staging' = [index |-> staging'.index, files |-> staging'.files]
               /\ staging'.index \in {0, staging.index}
               /\ DOMAIN staging'.files \subseteq DOMAIN staging.files
               /\ \A k \in DOMAIN staging'.files : staging'.files[k] = staging.files[k]
               /\ staging'.files \in [DOMAIN staging'.files -> 0 .. MaxCommits]
    <3> DEFINE files == remove(staging.files, h)
    <3>1. /\ staging' = [index |-> staging'.index, files |-> staging'.files]
          /\ staging'.index = staging.index /\ staging'.files = files
      BY <1>t, <2>2
    <3>2. /\ DOMAIN files = DOMAIN staging.files \ {h}
          /\ \A k \in DOMAIN staging.files \ {h} : files[k] = staging.files[k]
      BY RemoveFacts, Zenon
    <3>3. files \in [DOMAIN staging.files \ {h} -> 0 .. MaxCommits]
      BY <1>t, RemoveType, Zenon
    <3> HIDE DEF files
    <3> QED
      BY <3>1, <3>2, <3>3
  <2> QED
    BY <1>2, <2>1, <2>2 DEF PurgeStaging
<1> QED
  BY <1>1, <1>2

(* The state of the queue after the other operations on it.                 *)
LEMMA QueueFacts ==
    ASSUME TypeOK
    PROVE  /\ ForwardNext =>
                  /\ queue'.server = queue.server /\ queue'.index = queue.index + 1
                  /\ queue'.reader = queue.reader
                  /\ queue' = [server |-> queue'.server, index |-> queue'.index,
                               reader |-> queue'.reader, files |-> queue'.files]
                  /\ DOMAIN queue'.files = DOMAIN queue.files \ {queue.index}
                  /\ queue'.files \in [DOMAIN queue'.files -> Messages]
                  /\ \A i \in DOMAIN queue'.files : queue'.files[i] = queue.files[i]
           /\ UpdateIndex =>
                  queue' = [server |-> queue.server, index |-> queue.server,
                            reader |-> queue.reader, files |-> queue.files]
           /\ RepairSpooling =>
                  queue' = [server |-> queue.index, index |-> queue.index,
                            reader |-> queue.reader, files |-> queue.files]
           /\ FixupReader =>
                  queue' = [server |-> queue.server, index |-> queue.index,
                            reader |-> queue.index, files |-> queue.files]
<1>q. queue = [server |-> queue.server, index |-> queue.index, reader |-> queue.reader,
               files |-> queue.files]
  BY DEF TypeOK
<1>1. ASSUME ForwardNext
      PROVE  /\ queue'.server = queue.server /\ queue'.index = queue.index + 1
             /\ queue'.reader = queue.reader
             /\ queue' = [server |-> queue'.server, index |-> queue'.index,
                          reader |-> queue'.reader, files |-> queue'.files]
             /\ DOMAIN queue'.files = DOMAIN queue.files \ {queue.index}
             /\ queue'.files \in [DOMAIN queue'.files -> Messages]
             /\ \A i \in DOMAIN queue'.files : queue'.files[i] = queue.files[i]
  <2> DEFINE files == remove(queue.files, queue.index)
  <2>1. /\ queue'.server = queue.server /\ queue'.index = queue.index + 1
        /\ queue'.reader = queue.reader
        /\ queue' = [server |-> queue'.server, index |-> queue'.index,
                     reader |-> queue'.reader, files |-> queue'.files]
        /\ queue'.files = files
    BY <1>q, <1>1, Zenon DEF ForwardNext
  <2>2. /\ DOMAIN files = DOMAIN queue.files \ {queue.index}
        /\ \A i \in DOMAIN queue.files \ {queue.index} : files[i] = queue.files[i]
    BY RemoveFacts, Zenon
  <2>3. queue.files \in [DOMAIN queue.files -> Messages]
    BY DEF TypeOK
  <2>4. files \in [DOMAIN queue.files \ {queue.index} -> Messages]
    BY <2>3, RemoveType, Zenon
  <2> HIDE DEF files
  <2> QED
    BY <2>1, <2>2, <2>4
<1>2. UpdateIndex =>
          queue' = [server |-> queue.server, index |-> queue.server,
                    reader |-> queue.reader, files |-> queue.files]
  BY <1>q DEF UpdateIndex
<1>3. RepairSpooling =>
          queue' = [server |-> queue.index, index |-> queue.index,
                    reader |-> queue.reader, files |-> queue.files]
  BY <1>q DEF RepairSpooling
<1>4. FixupReader =>
          queue' = [server |-> queue.server, index |-> queue.index,
                    reader |-> queue.index, files |-> queue.files]
  BY <1>q DEF FixupReader
<1> QED
  BY <1>1, <1>2, <1>3, <1>4

(* The chain a commit is about to write.                                    *)
LEMMA NewChainFacts ==
    ASSUME TypeOK, NEW common \in 1 .. Len(storage), NEW count \in 1 .. MaxBlocks,
           DropStagedBlocks(common, count)
    PROVE  /\ new' \in Chains /\ Len(new') = common + count
           /\ \A i \in 1 .. common : new'[i] = storage[i]
           /\ start' = common + 1 /\ commits' \in 1 .. MaxCommits
           /\ staging' = [index |-> common, files |-> staging.files]
<1>t. /\ storage \in Chains /\ Len(storage) \in Nat /\ commits \in 0 .. MaxCommits /\ MaxCommits \in Nat
      /\ staging = [index |-> staging.index, files |-> staging.files] /\ MaxBlocks \in Nat
  BY ChainFacts, RecoveryAssumption DEF TypeOK
<1> DEFINE base == take(storage, common)
           added == [i \in 1 .. count |-> commits']
<1>1. commits' \in 1 .. MaxCommits /\ new' = base \o added /\ start' = common + 1
  BY <1>t, SMTT(30) DEF DropStagedBlocks
<1>2. base \in Chains /\ Len(base) = common /\ \A i \in 1 .. common : base[i] = storage[i]
  BY <1>t, TakeFacts
<1>3. added \in Seq(0 .. MaxCommits) /\ Len(added) = count
  <2>1. commits' \in 0 .. MaxCommits /\ count \in Nat
    BY <1>t, <1>1
  <2> QED
    BY <2>1
<1> HIDE DEF base, added
<1>4. /\ base \o added \in Seq(0 .. MaxCommits) /\ Len(base \o added) = Len(base) + Len(added)
      /\ \A i \in 1 .. Len(base) + Len(added) :
             (base \o added)[i] = IF i <= Len(base) THEN base[i] ELSE added[i - Len(base)]
  BY <1>2, <1>3 DEF Chains
<1>5. \A i \in 1 .. common : new'[i] = storage[i]
  <2> SUFFICES ASSUME NEW i \in 1 .. common
               PROVE  new'[i] = storage[i]
    OBVIOUS
  <2>1. i \in 1 .. Len(base) + Len(added) /\ i <= Len(base)
    BY <1>2, <1>3, <1>t
  <2> QED
    BY <1>1, <1>2, <1>4, <2>1
<1>6. staging' = [index |-> common, files |-> staging.files]
  BY <1>t, Zenon DEF DropStagedBlocks
<1> QED
  BY <1>1, <1>2, <1>3, <1>4, <1>5, <1>6, Zenon DEF Chains

(* Type correctness.                                                        *)
LEMMA TypeStep ==
    ASSUME TypeOK, StepInv, CurrentInv, BlocksInv, QueueInv, [Next]_vars,
           RecoverBlockFiles => start' \in Nat
    PROVE  TypeOK'
<1>0. CASE UNCHANGED vars
  BY <1>0, Zenon DEF TypeOK, vars, spoolVars, stateVars, memoryVars, historyVars
<1>1. ASSUME NEW common \in 1 .. Len(storage), NEW count \in 1 .. MaxBlocks,
             DropStagedBlocks(common, count)
      PROVE  TypeOK'
  <2>1. /\ new' \in Chains /\ start' \in Nat /\ commits' \in 0 .. MaxCommits
        /\ staging' = [index |-> common, files |-> staging.files] /\ common \in Nat
    <3>1. /\ new' \in Chains /\ start' = common + 1 /\ commits' \in 1 .. MaxCommits
          /\ staging' = [index |-> common, files |-> staging.files]
      BY <1>1, NewChainFacts
    <3>2. MaxCommits \in Nat
      BY RecoveryAssumption
    <3> QED
      BY <3>1, <3>2
  <2>2. pc' = "saveBlocks" /\ op' = "commit"
        /\ UNCHANGED <<storage, commitStep, queue, delivered, stateVars, durable, saves, crashes>>
    BY <1>1 DEF DropStagedBlocks, goto
  <2> QED
    BY <2>1, <2>2, Zenon DEF TypeOK, stateVars, Labels
<1>2. CASE SaveStagedBlock
  <2>1. UNCHANGED <<storage, commitStep, queue, delivered, stateVars, memoryVars, pc, op, historyVars>>
    BY <1>2 DEF SaveStagedBlock
  <2>2. /\ staging' = [index |-> staging'.index, files |-> staging'.files]
        /\ staging'.index = staging.index + 1
        /\ DOMAIN staging'.files = DOMAIN staging.files \cup {staging.index + 1}
        /\ staging'.files \in [DOMAIN staging'.files -> 0 .. MaxCommits]
    BY <1>2, StagingFacts
  <2> QED
    BY <2>1, <2>2, SMTT(30) DEF TypeOK, stateVars, memoryVars, historyVars
<1>3. CASE BlocksWritten \/ Shutdown \/ Recover \/ Reset \/ AllUpdated \/ MoveDone \/ PurgeDone \/ Crash
  <2>0. Absent \in Chains /\ 0 \in Nat
    BY DEF Absent, Chains
  <2>1. /\ UNCHANGED <<storage, staging, queue, delivered, state, stateTmp, cache, durable, commits>>
        /\ saves' \in Nat /\ crashes' \in Nat /\ commitStep' \in CommitSteps
        /\ pc' \in Labels /\ op' \in {"none", "commit", "save", "recover"}
        /\ dependent' \in {dependent, Absent} /\ new' \in {new, Absent} /\ start' \in {start, 0}
    <3>1. UNCHANGED <<storage, staging, queue, delivered, state, stateTmp, cache, durable, commits>>
      BY <1>3, ZenonT(30) DEF BlocksWritten, Shutdown, Recover, Reset, AllUpdated, MoveDone, PurgeDone,
                              Crash, spoolVars, stateVars, memoryVars, historyVars
    <3>2. saves' \in {saves, saves + 1} /\ crashes' \in {crashes, crashes + 1}
      BY <1>3, ZenonT(30) DEF BlocksWritten, Shutdown, Recover, Reset, AllUpdated, MoveDone, PurgeDone,
                              Crash, historyVars
    <3>3. saves \in Nat /\ crashes \in Nat
      BY Zenon DEF TypeOK
    <3>4. saves' \in Nat /\ crashes' \in Nat
      BY <3>2, <3>3
    <3>5. commitStep' \in CommitSteps /\ op' \in {"none", "commit", "save", "recover"}
      BY <1>3, ZenonT(30) DEF BlocksWritten, Shutdown, Recover, Reset, AllUpdated, MoveDone, PurgeDone,
                              Crash, TypeOK, CommitSteps
    <3>6. pc' \in Labels
      BY <1>3, ZenonT(30) DEF BlocksWritten, Shutdown, Recover, Reset, AllUpdated, MoveDone, PurgeDone,
                              Crash, goto, TypeOK, Labels
    <3>7. dependent' \in {dependent, Absent} /\ new' \in {new, Absent} /\ start' \in {start, 0}
      BY <1>3, ZenonT(30) DEF BlocksWritten, Shutdown, Recover, Reset, AllUpdated, MoveDone, PurgeDone,
                              Crash, stateVars, memoryVars
    <3> QED
      BY <3>1, <3>4, <3>5, <3>6, <3>7, Zenon
  <2> QED
    BY <2>0, <2>1, Zenon DEF TypeOK
<1>4. CASE NotifyScoreChange \/ NotifyStateChange
  <2>1. PICK message \in Messages : write(message)
    <3>1. CASE NotifyScoreChange
      BY <3>1 DEF NotifyScoreChange, Messages
    <3>2. CASE NotifyStateChange
      <4>1. new \in Chains /\ start \in 2 .. Len(new)
        BY <3>2 DEF NotifyStateChange, TypeOK, CurrentInv, StepInv
      <4>2. new # Absent
        BY <4>1, ChainFacts
      <4> QED
        BY <3>2, <4>1, <4>2, Zenon DEF NotifyStateChange, Messages
    <3> QED
      BY <1>4, <3>1, <3>2
  <2>2. /\ queue'.server = queue.server + 1
        /\ queue'.index = queue.index /\ queue'.reader = queue.reader
        /\ queue' = [server |-> queue'.server, index |-> queue'.index, reader |-> queue'.reader,
                     files |-> queue'.files]
        /\ DOMAIN queue'.files \subseteq Nat /\ queue'.files \in [DOMAIN queue'.files -> Messages]
    BY <2>1, WriteFacts
  <2>3. {queue'.reader, queue'.index, queue'.server} \subseteq Nat
        /\ queue'.reader <= queue'.index /\ queue'.index <= queue'.server
    BY <2>2, SMTT(30) DEF TypeOK
  <2>4. /\ UNCHANGED <<storage, commitStep, staging, delivered, stateVars, memoryVars, op, historyVars>>
        /\ pc' \in Labels
    BY <1>4 DEF NotifyScoreChange, NotifyStateChange, goto, Labels
  <2> QED
    BY <2>2, <2>3, <2>4, Zenon DEF TypeOK, stateVars, memoryVars, historyVars
<1>5. CASE PreStateWritten \/ MoveToPurge \/ MoveToRename \/ LoadState \/ RepairFiles \/ SaveState \/ Boot
  <2>0. Absent \in Chains /\ 0 \in Nat
    BY DEF Absent, Chains
  <2>1. /\ UNCHANGED <<storage, staging, queue, delivered, cache, durable, commits, saves, crashes>>
        /\ {state', stateTmp'} \subseteq {state, stateTmp, new, Partial, Absent}
        /\ commitStep' \in CommitSteps
        /\ pc' \in Labels /\ op' \in {"none", "commit", "save", "recover"}
        /\ new' \in {new, dependent, Absent} /\ start' \in {start, 0}
    BY <1>5, SMTT(30) DEF PreStateWritten, MoveToPurge, MoveToRename, LoadState, RepairFiles, SaveState, Boot, goto,
                TypeOK, CommitSteps, Labels, spoolVars, stateVars, memoryVars, historyVars
  <2>2. dependent' = dependent \/ (dependent' = state /\ state \notin {Absent, Partial})
    BY <1>5 DEF PreStateWritten, MoveToPurge, MoveToRename, LoadState, RepairFiles, SaveState, Boot, isLoadable,
                stateVars
  <2> QED
    BY <2>0, <2>1, <2>2, Zenon DEF TypeOK
<1>6. CASE StateWritten
  <2>1. durable' \in Seq(Chains) /\ Len(durable') >= 1
    <3>1. durable \in Seq(Chains) /\ Len(durable) >= 1 /\ new \in Chains
      BY DEF TypeOK
    <3>2. /\ Append(durable, new) \in Seq(Chains)
          /\ Len(Append(durable, new)) = Len(durable) + 1 /\ Len(durable) \in Nat
      BY <3>1
    <3>3. durable' \in {durable, Append(durable, new)}
      BY <1>6 DEF StateWritten
    <3> QED
      BY <3>1, <3>2, <3>3
  <2>2. /\ UNCHANGED <<storage, spoolVars, stateVars, memoryVars, op, crashedAt, commits, saves, crashes>>
        /\ commitStep' \in CommitSteps /\ pc' \in Labels
    BY <1>6 DEF StateWritten, goto, CommitSteps, Labels
  <2> QED
    BY <2>1, <2>2, Zenon DEF TypeOK, spoolVars, stateVars, memoryVars
<1>7. ASSUME NEW s \in SubCaches, CommitSubCache(s) \/ RepairSubCache(s)
      PROVE  TypeOK'
  <2>1. PICK chain \in Chains : cache' = [cache EXCEPT ![s] = chain]
    <3>1. CASE CommitSubCache(s)
      BY <3>1, Zenon DEF CommitSubCache, TypeOK
    <3>2. CASE RepairSubCache(s)
      <4>1. queue.index \in queue.index .. queue.server - 1
        BY <3>2 DEF RepairSubCache, TypeOK
      <4>2. queue.files[queue.index] \in Messages
        BY <4>1 DEF QueueInv, TypeOK
      <4> QED
        BY <3>2, <4>2, MessageFacts, Zenon DEF RepairSubCache
    <3> QED
      BY <1>7, <3>1, <3>2
  <2>2. UNCHANGED <<storage, commitStep, spoolVars, state, stateTmp, dependent, memoryVars, pc, op,
                    historyVars>>
    BY <1>7 DEF CommitSubCache, RepairSubCache
  <2> QED
    BY <2>1, <2>2, Zenon DEF TypeOK, spoolVars, memoryVars, historyVars
<1>8. CASE CommitCache
  BY <1>8, Zenon DEF CommitCache, goto, TypeOK, Labels, spoolVars, memoryVars, historyVars
<1>9. CASE MoveDropBlocks
  <2>1. start - 1 \in 1 .. Len(storage) /\ Len(storage) \in Nat /\ start \in Nat
    <3>1. stagedFrom(start) /\ 1 \notin DOMAIN staging.files /\ Len(current) \in Nat
          /\ Len(storage) \in Nat
      BY <1>9, ChainFacts, SMTT(30) DEF MoveDropBlocks, BlocksInv, CurrentInv, TypeOK
    <3>2. start # 1 /\ start - 1 <= Len(storage) /\ start \in 1 .. Len(current)
      BY <3>1 DEF stagedFrom
    <3> QED
      BY <3>1, <3>2
  <2>2. storage' \in Chains /\ Len(storage') >= 1
    <3>1. /\ storage \in Chains
          /\ storage' = storage \/ storage' = take(storage, start - 1)
      BY <1>9, Zenon DEF MoveDropBlocks, TypeOK
    <3>2. start - 1 \in 0 .. Len(storage) /\ start - 1 >= 1 /\ Len(storage) >= 1
      BY <2>1
    <3>3. take(storage, start - 1) \in Chains /\ Len(take(storage, start - 1)) = start - 1
      BY <3>1, <3>2, TakeFacts, Zenon
    <3> QED
      BY <3>1, <3>2, <3>3, Zenon
  <2>3. /\ UNCHANGED <<commitStep, spoolVars, stateVars, memoryVars, op, historyVars>>
        /\ pc' \in Labels
    BY <1>9 DEF MoveDropBlocks, goto, Labels
  <2> QED
    BY <2>2, <2>3, Zenon DEF TypeOK, spoolVars, stateVars, memoryVars, historyVars
<1>10. CASE MoveBlock
  <2>1. staging.files[Len(storage) + 1] \in 0 .. MaxCommits
    <3>1. /\ stagedFrom(start) /\ Len(storage) \in start - 1 .. Len(current)
          /\ staging.index = Len(current) /\ Len(current) \in Nat
      BY <1>10, ChainFacts DEF MoveBlock, BlocksInv, CurrentInv
    <3>2. Len(storage) + 1 \in start .. Len(current)
      <4>1. Len(storage) < Len(current) /\ start \in 1 .. Len(current)
        BY <1>10, <3>1, Zenon DEF MoveBlock, stagedFrom
      <4>2. PICK m \in Nat : m = Len(current)
        BY <3>1, Zenon
      <4>3. PICK n \in Int : n = Len(storage)
        BY <3>1
      <4> QED
        BY <3>1, <4>1, <4>2, <4>3
    <3>3. Len(storage) + 1 \in DOMAIN staging.files
      BY <3>1, <3>2, Zenon DEF stagedFrom
    <3> QED
      BY <3>3 DEF TypeOK
  <2>2. storage' \in Chains /\ Len(storage') >= 1
    BY <1>10, <2>1 DEF MoveBlock, TypeOK, Chains
  <2>3. UNCHANGED <<commitStep, spoolVars, stateVars, memoryVars, pc, op, historyVars>>
    BY <1>10, Zenon DEF MoveBlock
  <2> QED
    BY <2>2, <2>3, Zenon DEF TypeOK, spoolVars, stateVars, memoryVars, historyVars
<1>11. CASE PurgeStaging
  <2>1. UNCHANGED <<storage, commitStep, queue, delivered, stateVars, memoryVars, pc, op, historyVars>>
    BY <1>11 DEF PurgeStaging
  <2>2. /\ staging' = [index |-> staging'.index, files |-> staging'.files]
        /\ staging'.index \in {0, staging.index}
        /\ DOMAIN staging'.files \subseteq DOMAIN staging.files
        /\ staging'.files \in [DOMAIN staging'.files -> 0 .. MaxCommits]
    BY <1>11, StagingFacts
  <2> QED
    BY <2>1, <2>2, SMTT(30) DEF TypeOK, stateVars, memoryVars, historyVars
<1>12. CASE UpdateIndex \/ RepairSpooling \/ FixupReader
  <2>0. Absent \in Chains /\ 0 \in Nat
    BY DEF Absent, Chains
  <2>1. /\ queue' = [server |-> queue'.server, index |-> queue'.index, reader |-> queue'.reader,
                     files |-> queue'.files]
        /\ queue'.server \in {queue.server, queue.index} /\ queue'.index \in {queue.server, queue.index}
        /\ queue'.reader \in {queue.reader, queue.index} /\ queue'.files = queue.files
        /\ queue'.index <= queue'.server /\ queue'.reader <= queue'.index
    BY <1>12, QueueFacts, SMTT(30) DEF TypeOK
  <2>2. /\ UNCHANGED <<storage, commitStep, staging, delivered, stateVars, historyVars>>
        /\ pc' \in Labels /\ op' \in {op, "none"} /\ new' \in {new, Absent} /\ start' \in {start, 0}
    BY <1>12 DEF UpdateIndex, RepairSpooling, FixupReader, goto, Labels, memoryVars
  <2> QED
    BY <2>0, <2>1, <2>2, ZenonT(30) DEF TypeOK, stateVars, historyVars
<1>13. CASE BrokerRead \/ CatchUp
  <2>1. /\ UNCHANGED <<storage, commitStep, staging, stateVars, memoryVars, op, historyVars>>
        /\ pc' \in Labels
    BY <1>13, ZenonT(30) DEF BrokerRead, CatchUp, goto, TypeOK, Labels
  <2>2. CASE readNext
    <3>1. /\ queue.reader < queue.index /\ queue.reader \in DOMAIN queue.files
          /\ queue'.server = queue.server /\ queue'.index = queue.index
          /\ queue'.reader = queue.reader + 1
          /\ queue' = [server |-> queue'.server, index |-> queue'.index, reader |-> queue'.reader,
                       files |-> queue'.files]
          /\ DOMAIN queue'.files = DOMAIN queue.files \ {queue.reader}
          /\ queue'.files \in [DOMAIN queue'.files -> Messages]
      BY <2>2, ReadFacts
    <3>2. delivered' \subseteq 0 .. MaxCommits
      <4>1. queue.files[queue.reader] \in Messages
        BY <3>1 DEF TypeOK
      <4> QED
        BY <2>2, <4>1, MessageFacts, ReadFacts, Zenon DEF TypeOK
    <3>3. {queue'.reader, queue'.index, queue'.server} \subseteq Nat
          /\ queue'.reader <= queue'.index /\ queue'.index <= queue'.server
          /\ DOMAIN queue'.files \subseteq Nat
      BY <3>1, SMTT(30) DEF TypeOK
    <3> QED
      BY <2>1, <3>1, <3>2, <3>3, Zenon DEF TypeOK, stateVars, memoryVars, historyVars
  <2>3. CASE UNCHANGED <<queue, delivered>>
    BY <2>1, <2>3, Zenon DEF TypeOK, stateVars, memoryVars, historyVars
  <2> QED
    BY <1>13, <2>2, <2>3, Zenon DEF BrokerRead, CatchUp
<1>14. CASE ForwardNext
  <2>1. /\ queue'.server = queue.server /\ queue'.index = queue.index + 1
        /\ queue'.reader = queue.reader
        /\ queue' = [server |-> queue'.server, index |-> queue'.index,
                     reader |-> queue'.reader, files |-> queue'.files]
        /\ DOMAIN queue'.files = DOMAIN queue.files \ {queue.index}
        /\ queue'.files \in [DOMAIN queue'.files -> Messages]
    BY <1>14, QueueFacts
  <2>2. UNCHANGED <<storage, commitStep, staging, stateVars, memoryVars, pc, op, historyVars>>
        /\ queue.index < queue.server
    BY <1>14 DEF ForwardNext
  <2>3. delivered' \subseteq 0 .. MaxCommits
    <3>1. queue.index \in queue.index .. queue.server - 1
      BY <2>2, SMTT(30) DEF TypeOK
    <3>2. queue.files[queue.index] \in Messages
      BY <3>1, Zenon DEF QueueInv, TypeOK
    <3> QED
      BY <1>14, <3>2, MessageFacts, Zenon DEF ForwardNext, deliver, TypeOK
  <2>4. {queue'.reader, queue'.index, queue'.server} \subseteq Nat
        /\ queue'.reader <= queue'.index /\ queue'.index <= queue'.server
        /\ DOMAIN queue'.files \subseteq Nat
    BY <2>1, <2>2, SMTT(30) DEF TypeOK
  <2> QED
    BY <2>1, <2>2, <2>3, <2>4, Zenon DEF TypeOK, stateVars, memoryVars, historyVars
<1>15. CASE RecoverBlockFiles
  <2>1. start' \in Nat
    BY <1>15
  <2>2. /\ UNCHANGED <<storage, commitStep, spoolVars, stateVars, new, op, historyVars>>
        /\ pc' \in Labels
    BY <1>15 DEF RecoverBlockFiles, goto, Labels
  <2> QED
    BY <2>1, <2>2, Zenon DEF TypeOK, spoolVars, stateVars, historyVars
<1> QED
  BY <1>0, <1>1, <1>2, <1>3, <1>4, <1>5, <1>6, <1>7, <1>8, <1>9, <1>10, <1>11, <1>12, <1>13, <1>14, <1>15, ZenonT(30)
     DEF Next, Work, Commit, MoveFiles, Recovery

(* The steps of an operation follow each other.                             *)
LEMMA StepStep ==
    ASSUME TypeOK, StepInv, [Next]_vars
    PROVE  StepInv'
<1> USE DEF StepInv, checkpointed, goto
<1>0. CASE UNCHANGED vars
  BY <1>0 DEF vars
<1>1. ASSUME NEW common, NEW count, DropStagedBlocks(common, count)
      PROVE  StepInv'
  BY <1>1 DEF DropStagedBlocks
<1>2. CASE SaveStagedBlock \/ BlocksWritten \/ NotifyScoreChange \/ NotifyStateChange
  BY <1>2 DEF SaveStagedBlock, BlocksWritten, NotifyScoreChange, NotifyStateChange
<1>3. CASE PreStateWritten \/ StateWritten \/ CommitCache
  BY <1>3, ZenonT(30) DEF PreStateWritten, StateWritten, CommitCache
<1>4. ASSUME NEW s, CommitSubCache(s) \/ RepairSubCache(s)
      PROVE  StepInv'
  BY <1>4 DEF CommitSubCache, RepairSubCache
<1>5. CASE MoveDropBlocks \/ MoveBlock \/ MoveDone \/ PurgeStaging \/ PurgeDone
  BY <1>5 DEF MoveDropBlocks, MoveBlock, MoveDone, PurgeStaging, PurgeDone
<1>6. CASE MoveToPurge \/ MoveToRename \/ AllUpdated \/ UpdateIndex
  BY <1>6 DEF MoveToPurge, MoveToRename, AllUpdated, UpdateIndex
<1>7. CASE Shutdown \/ SaveState \/ Boot \/ Crash
  BY <1>7 DEF Shutdown, SaveState, Boot, Crash
<1>8. CASE BrokerRead \/ CatchUp \/ ForwardNext \/ FixupReader
  BY <1>8 DEF BrokerRead, CatchUp, ForwardNext, FixupReader
<1>9. CASE Recover \/ RepairSpooling \/ LoadState \/ RepairFiles
  BY <1>9 DEF Recover, RepairSpooling, LoadState, RepairFiles
<1>10. CASE RecoverBlockFiles \/ Reset
  BY <1>10 DEF RecoverBlockFiles, Reset, NoCommitStep
<1> QED
  BY <1>0, <1>1, <1>2, <1>3, <1>4, <1>5, <1>6, <1>7, <1>8, <1>9, <1>10, Zenon
     DEF Next, Work, Commit, MoveFiles, Recovery

(* The current chain changes at a checkpoint and nowhere else.              *)
LEMMA CurrentFacts ==
    ASSUME TypeOK
    PROVE  /\ UNCHANGED durable => current' = current /\ durableCommits' = durableCommits
           /\ StateWritten /\ op # "commit" => UNCHANGED durable
           /\ StateWritten /\ op = "commit" =>
                  current' = new /\ durableCommits' = durableCommits \cup {commitOf(new)}
<1>1. UNCHANGED durable => current' = current /\ durableCommits' = durableCommits
  BY DEF current, durableCommits
<1>2. StateWritten /\ op # "commit" => UNCHANGED durable
  BY DEF StateWritten
<1>3. ASSUME StateWritten, op = "commit"
      PROVE  current' = new /\ durableCommits' = durableCommits \cup {commitOf(new)}
  <2> DEFINE n == Len(durable)
  <2>1. durable \in Seq(Chains) /\ n \in Nat /\ n >= 1 /\ new \in Chains
    BY DEF TypeOK
  <2>2. durable' = Append(durable, new)
    BY <1>3 DEF StateWritten
  <2>3. /\ Len(durable') = n + 1 /\ durable'[n + 1] = new
        /\ \A i \in 1 .. n : durable'[i] = durable[i]
    BY <2>1, <2>2
  <2>4. current' = new
    BY <2>3 DEF current
  <2>5. durableCommits' = {commitOf(durable'[i]) : i \in 2 .. n + 1}
    BY <2>3 DEF durableCommits, commitOf
  <2>6. durableCommits = {commitOf(durable[i]) : i \in 2 .. n}
    BY DEF durableCommits
  <2>7. \A i \in 2 .. n + 1 : i = n + 1 \/ i \in 2 .. n
    BY <2>1
  <2>8. n + 1 \in 2 .. n + 1 /\ \A i \in 2 .. n : i \in 2 .. n + 1 /\ durable'[i] = durable[i]
    BY <2>1, <2>3
  <2> HIDE DEF n
  <2> QED
    BY <2>3, <2>4, <2>5, <2>6, <2>7, <2>8, Zenon
<1> QED
  BY <1>1, <1>2, <1>3

(* Every step but the checkpoint of a commit keeps the current chain.       *)
LEMMA CurrentUnchanged ==
    ASSUME TypeOK, [Next]_vars
    PROVE  \/ current' = current /\ durableCommits' = durableCommits /\ UNCHANGED durable
           \/ StateWritten /\ op = "commit"
<1>1. UNCHANGED durable \/ StateWritten
  BY Zenon DEF Next, Work, Commit, MoveFiles, Recovery, vars, historyVars,
         DropStagedBlocks, SaveStagedBlock, BlocksWritten, NotifyScoreChange, NotifyStateChange,
         PreStateWritten, CommitSubCache, CommitCache, AllUpdated, UpdateIndex, MoveDropBlocks,
         MoveBlock, MoveDone, PurgeStaging, PurgeDone, MoveToPurge, MoveToRename, Recover,
         RepairSpooling, LoadState, CatchUp, RepairSubCache, ForwardNext, FixupReader, RepairFiles,
         RecoverBlockFiles, Reset, SaveState, Boot, Shutdown, Crash, BrokerRead
<1> QED
  BY <1>1, CurrentFacts

(* The chain in memory is an extension of the current one, or it is the     *)
(* current one.                                                             *)
LEMMA CurrentStep ==
    ASSUME TypeOK, StepInv, CurrentInv, SettledInv, [Next]_vars
    PROVE  CurrentInv'
<1> USE DEF goto, checkpointed
<1>1. CASE StateWritten /\ op = "commit"
  <2>1. current' = new
    BY <1>1, CurrentFacts, ZenonT(30)
  <2>2. new \in Chains /\ start \in 2 .. Len(new) /\ Len(new) \in Nat
    BY <1>1, ChainFacts DEF StateWritten, TypeOK, CurrentInv, StepInv
  <2>3. UNCHANGED <<new, op>> /\ commitStep' = "State_Written"
    BY <1>1 DEF StateWritten, memoryVars
  <2> QED
    BY <1>1, <2>1, <2>2, <2>3 DEF CurrentInv
<1>2. ASSUME NEW common \in 1 .. Len(storage), NEW count \in 1 .. MaxBlocks,
             DropStagedBlocks(common, count)
      PROVE  CurrentInv'
  <2>1. current' = current /\ storage = current /\ Len(current) \in Nat
    <3>1. UNCHANGED durable /\ ~checkpointed
      BY <1>2 DEF DropStagedBlocks, StepInv
    <3> QED
      BY <3>1, CurrentFacts, ChainFacts DEF SettledInv, CurrentInv
  <2>2. /\ Len(new') = common + count /\ start' = common + 1
        /\ \A i \in 1 .. common : new'[i] = current[i]
    BY <1>2, <2>1, NewChainFacts
  <2>3. op' = "commit" /\ commitStep' = commitStep /\ commitStep # "State_Written"
    BY <1>2 DEF DropStagedBlocks, StepInv
  <2>4. start' \in 2 .. Len(new') /\ start' - 1 <= Len(current)
    BY <2>1, <2>2, RecoveryAssumption
  <2>5. \A i \in 1 .. start' - 1 : new'[i] = current[i]
    BY <2>1, <2>2
  <2> QED
    BY <2>1, <2>3, <2>4, <2>5, Zenon DEF CurrentInv
<1>3. CASE SaveState
  <2>1. current' = current /\ new' = current /\ op' = "save"
    <3>1. UNCHANGED durable
      BY <1>3 DEF SaveState, historyVars
    <3> QED
      BY <1>3, <3>1, CurrentFacts DEF SaveState, SettledInv, dependentLoaded
  <2> QED
    BY <2>1 DEF CurrentInv
<1>4. ASSUME current' = current, op' \notin {"commit", "save"}
      PROVE  CurrentInv'
  BY <1>4 DEF CurrentInv
<1>5. ASSUME current' = current, UNCHANGED <<new, start, op, commitStep>>, pc # "updateIndex"
      PROVE  CurrentInv'
  BY <1>5 DEF CurrentInv
<1>6. ASSUME current' = current, UNCHANGED <<new, start, op, commitStep>>, pc' = pc
      PROVE  CurrentInv'
  BY <1>6, Zenon DEF CurrentInv
<1>7. CASE BlocksWritten \/ AllUpdated \/ (StateWritten /\ op # "commit")
  <2>1. current' = current /\ UNCHANGED <<new, start, op>>
    <3>1. UNCHANGED durable /\ UNCHANGED <<new, start, op>>
      BY <1>7, CurrentFacts DEF BlocksWritten, AllUpdated, StateWritten, memoryVars, historyVars
    <3> QED
      BY <3>1, CurrentFacts, Zenon
  <2> QED
    BY <1>7, <2>1 DEF CurrentInv, BlocksWritten, AllUpdated, StateWritten, StepInv
<1>8. CASE current' = current /\ ~SaveState /\ ~BlocksWritten /\ ~AllUpdated /\ ~StateWritten
  <2>1. \/ op' \notin {"commit", "save"}
        \/ UNCHANGED <<new, start, op, commitStep>> /\ (pc # "updateIndex" \/ pc' = pc)
        \/ \E common \in 1 .. Len(storage), count \in 1 .. MaxBlocks : DropStagedBlocks(common, count)
    <3>1. CASE UNCHANGED vars
      BY <3>1 DEF vars, memoryVars
    <3>2. CASE Commit
      BY <1>8, <3>2 DEF Commit, SaveStagedBlock, NotifyScoreChange, NotifyStateChange,
             PreStateWritten, CommitSubCache, CommitCache, UpdateIndex, memoryVars
    <3>3. CASE MoveFiles
      BY <3>3, Zenon DEF MoveFiles, MoveDropBlocks, MoveBlock, MoveDone, PurgeStaging, PurgeDone,
             MoveToPurge, MoveToRename, memoryVars
    <3>4. CASE Recovery
      BY <3>4, Zenon DEF Recovery, StepInv, Recover, RepairSpooling, LoadState, CatchUp, RepairSubCache, ForwardNext,
             FixupReader, RepairFiles, RecoverBlockFiles, Reset
    <3>5. CASE Boot \/ Shutdown \/ Crash \/ BrokerRead
      BY <3>5 DEF Boot, Shutdown, Crash, BrokerRead, StepInv, memoryVars
    <3> QED
      BY <1>8, <3>1, <3>2, <3>3, <3>4, <3>5 DEF Next, Work
  <2> QED
    BY <1>2, <1>4, <1>5, <1>6, <1>8, <2>1, Zenon
<1> QED
  BY <1>1, <1>3, <1>7, <1>8, CurrentUnchanged

(* A staging area without an index leaves the block storage current.        *)
LEMMA UnstagedIsCurrent ==
    ASSUME CurrentInv, blocksRecoverable, staging.index = 0
    PROVE  storage = current
BY ChainFacts DEF blocksRecoverable, CurrentInv

(* Before the checkpoint all that is on disk is current.                    *)
LEMMA SettledStep ==
    ASSUME TypeOK, StepInv, CurrentInv, SettledInv, BlocksInv, StateInv, QueueInv, [Next]_vars
    PROVE  SettledInv'
<1> USE DEF goto, checkpointed
<1>1. CASE StateWritten
  <2>1. commitStep' = "State_Written" /\ pc' \in {"commitCache", "purgeState"}
        /\ (op = "save" => pc' = "purgeState") /\ op' = op
        /\ (op = "commit" => pc' = "commitCache") /\ op \in {"commit", "save"}
    BY <1>1 DEF StateWritten, StepInv
  <2> QED
    BY <2>1, ZenonT(30) DEF SettledInv, dependentLoaded
<1>2. CASE AllUpdated \/ Reset
  <2>1. UNCHANGED <<storage, stateVars, op>> /\ current' = current
    <3>1. UNCHANGED durable
      BY <1>2 DEF AllUpdated, Reset, historyVars
    <3> QED
      BY <1>2, <3>1, CurrentFacts DEF AllUpdated, Reset
  <2>2. storage = current /\ state = current /\ cachesCurrent
    <3>1. CASE ~checkpointed
      BY <3>1 DEF SettledInv
    <3>2. CASE checkpointed
      <4>1. pc \in {"allUpdated", "reset"}
        BY <1>2, Zenon DEF AllUpdated, Reset
      <4>2. storage = current
        BY <3>2, <4>1, UnstagedIsCurrent DEF BlocksInv, stagingUnused
      <4>3. state = current
        BY <4>1 DEF StateInv, stateMoved
      <4>4. cachesCurrent
        <5>1. CASE op = "commit"
          BY <4>1, <5>1, <3>2, Zenon DEF QueueInv, StepInv
        <5>2. CASE op # "commit"
          <6>1. queue.server = queue.index /\ changesRecoverable
            BY <3>2, <4>1, <5>2, Zenon DEF QueueInv, StepInv, changesApplied
          <6>2. queue.index \in Nat
            BY DEF TypeOK
          <6> QED
            BY <6>1, <6>2 DEF changesRecoverable, twoMessages
        <5> QED
          BY <5>1, <5>2, Zenon
      <4> QED
        BY <4>2, <4>3, <4>4
    <3> QED
      BY <3>1, <3>2
  <2>3. storage' = current' /\ state' = current' /\ cachesCurrent'
    BY <2>1, <2>2, Zenon DEF stateVars, cachesCurrent
  <2>4. dependentLoaded' => dependentLoaded /\ dependent' = dependent
    BY <1>2, <2>1 DEF AllUpdated, Reset, dependentLoaded, StepInv, stateVars
  <2> QED
    BY <2>1, <2>3, <2>4 DEF SettledInv
<1>3. CASE CommitCache
  <2>1. dependent' = new /\ new = current /\ UNCHANGED <<storage, state, cache, commitStep>>
        /\ UNCHANGED durable
    BY <1>3 DEF CommitCache, CurrentInv, StepInv, historyVars
  <2>2. current' = current
    BY <2>1, CurrentFacts
  <2> QED
    BY <1>3, <2>1, <2>2, Zenon DEF SettledInv, cachesCurrent
<1>4. CASE LoadState \/ Boot
  <2>1. UNCHANGED <<storage, state, cache, commitStep>> /\ UNCHANGED durable
    BY <1>4 DEF LoadState, Boot, historyVars
  <2>2. current' = current
    BY <2>1, CurrentFacts, ZenonT(30)
  <2>3. dependentLoaded' => dependent' = state /\ ~checkpointed
    BY <1>4, <2>1 DEF LoadState, Boot, dependentLoaded, StepInv
  <2> QED
    BY <2>1, <2>2, <2>3 DEF SettledInv, cachesCurrent
<1>5. CASE MoveDropBlocks \/ MoveBlock \/ MoveToPurge \/ MoveToRename
  <2>1. commitStep' = commitStep /\ checkpointed /\ UNCHANGED durable /\ op' = op
    BY <1>5 DEF MoveDropBlocks, MoveBlock, MoveToPurge, MoveToRename, StepInv, historyVars
  <2>2. current' = current
    BY <2>1, CurrentFacts, Zenon
  <2>3. dependentLoaded' => dependentLoaded /\ dependent' = dependent
    BY <1>5, <2>1 DEF MoveDropBlocks, MoveBlock, MoveToPurge, MoveToRename, dependentLoaded, StepInv,
           stateVars
  <2> QED
    BY <2>1, <2>2, <2>3, Zenon DEF SettledInv
<1>6. ASSUME NEW s \in SubCaches, CommitSubCache(s) \/ RepairSubCache(s)
      PROVE  SettledInv'
  <2>1. /\ commitStep' = commitStep /\ UNCHANGED durable /\ pc' = pc /\ op' = op
        /\ UNCHANGED <<storage, state, dependent>>
    BY <1>6 DEF CommitSubCache, RepairSubCache, historyVars
  <2>2. checkpointed
    <3>1. CASE CommitSubCache(s)
      BY <3>1 DEF CommitSubCache, StepInv
    <3>2. CASE RepairSubCache(s)
      <4>1. pc = "forward" /\ queue.index # queue.server
        BY <3>2 DEF RepairSubCache, TypeOK
      <4> QED
        BY <4>1, Zenon DEF QueueInv, changesApplied
    <3> QED
      BY <1>6, <3>1, <3>2
  <2>3. current' = current
    BY <2>1, CurrentFacts
  <2> QED
    BY <2>1, <2>2, <2>3, Zenon DEF SettledInv, dependentLoaded
<1>7. ASSUME UNCHANGED <<storage, state, cache, dependent, durable>>,
             commitStep' = commitStep \/ (~checkpointed /\ commitStep' # "State_Written"),
             dependentLoaded' => dependentLoaded
      PROVE  SettledInv'
  <2>1. current' = current
    BY <1>7, CurrentFacts
  <2> QED
    BY <1>7, <2>1 DEF SettledInv, cachesCurrent
<1>8. ASSUME NEW common, NEW count, DropStagedBlocks(common, count)
      PROVE  SettledInv'
  BY <1>7, <1>8 DEF DropStagedBlocks, stateVars, dependentLoaded
<1>9. CASE Crash
  <2>1. UNCHANGED <<storage, state, cache, durable, commitStep>> /\ pc' = "crashed" /\ op' = "none"
    BY <1>9 DEF Crash
  <2>2. current' = current
    BY <2>1, CurrentFacts
  <2> QED
    BY <2>1, <2>2 DEF SettledInv, dependentLoaded, cachesCurrent
<1>10. CASE UNCHANGED vars
  BY <1>7, <1>10, ZenonT(30) DEF vars, stateVars, historyVars, dependentLoaded
<1>11. CASE SaveStagedBlock \/ BlocksWritten \/ NotifyScoreChange \/ NotifyStateChange \/ PreStateWritten
  BY <1>7, <1>11, SMTT(30) DEF SaveStagedBlock, BlocksWritten, NotifyScoreChange, NotifyStateChange,
         PreStateWritten, stateVars, historyVars, dependentLoaded, StepInv
<1>12. CASE UpdateIndex \/ MoveDone \/ PurgeStaging \/ PurgeDone
  BY <1>7, <1>12 DEF UpdateIndex, MoveDone, PurgeStaging, PurgeDone, stateVars, historyVars,
         dependentLoaded, StepInv
<1>13. CASE Recover \/ RepairSpooling \/ CatchUp \/ ForwardNext \/ FixupReader
  BY <1>7, <1>13, ZenonT(30) DEF Recover, RepairSpooling, CatchUp, ForwardNext, FixupReader, stateVars, historyVars,
         dependentLoaded, StepInv
<1>14. CASE RepairFiles \/ RecoverBlockFiles \/ SaveState \/ Shutdown \/ BrokerRead
  BY <1>7, <1>14 DEF RepairFiles, RecoverBlockFiles, SaveState, Shutdown, BrokerRead, stateVars, historyVars,
         dependentLoaded, StepInv
<1> QED
  BY <1>1, <1>2, <1>3, <1>4, <1>5, <1>6, <1>8, <1>9, <1>10, <1>11, <1>12, <1>13, <1>14, ZenonT(30)
     DEF Next, Work, Commit, MoveFiles, Recovery

(* Steps that touch neither blocks nor chains.                              *)
LEMMA BlocksFrame ==
    ASSUME TypeOK, BlocksInv, UNCHANGED <<storage, staging, durable>>,
           stagingUnused' => stagingUnused,
           checkpointed' => checkpointed,
           pc' \in {"commitCache", "dropBlocks", "moveBlocks", "saveBlocks"} => UNCHANGED <<new, start>>,
           pc' \in {"saveBlocks", "moveBlocks", "purgeBlocks"} => pc' = pc,
           pc' \in {"commitCache", "dropBlocks"} => pc \in {"commitCache", "dropBlocks"},
           op' = "commit" /\ pc' \in {"scoreChange", "stateChange", "preStateWritten",
                                      "supplementalData", "stateWritten"} =>
               /\ UNCHANGED <<new, start>> /\ op = "commit"
               /\ pc \in {"scoreChange", "stateChange", "preStateWritten", "supplementalData",
                          "stateWritten"}
    PROVE  BlocksInv'
<1>1. current' = current
  BY CurrentFacts
<1>2. filesAgree' = filesAgree
  BY <1>1 DEF filesAgree
<1>3. \A s : stagedFrom(s)' = stagedFrom(s)
  BY <1>1 DEF stagedFrom
<1>4. blocksRecoverable => blocksRecoverable'
  BY <1>1, <1>2, <1>3 DEF blocksRecoverable
<1>5. UNCHANGED start => stagedFrom(start)' = stagedFrom(start)
  BY <1>1, Zenon DEF stagedFrom
<1>6. UNCHANGED <<new, start>> => /\ stagedUpTo(staging.index)' = stagedUpTo(staging.index)
                                  /\ stagedUpTo(Len(new))' = stagedUpTo(Len(new))
  BY <1>1, Zenon DEF stagedUpTo
<1>7. stagingUnused' => staging'.index = 0 /\ filesAgree'
  BY <1>2, Zenon DEF BlocksInv
<1>8. checkpointed' => blocksRecoverable'
  BY <1>4, Zenon DEF BlocksInv
<1>9. pc' \in {"commitCache", "dropBlocks", "moveBlocks"} =>
          staging'.index = Len(current') /\ stagedFrom(start)'
  BY <1>1, <1>5, Zenon DEF BlocksInv
<1>10. /\ pc' = "saveBlocks" => staging'.index \in start' - 1 .. Len(new') /\ stagedUpTo(staging.index)'
       /\ op' = "commit" /\ pc' \in {"scoreChange", "stateChange", "preStateWritten",
                                     "supplementalData", "stateWritten"} => stagedUpTo(Len(new))'
  BY <1>6, Zenon DEF BlocksInv
<1>11. /\ \A h \in DOMAIN staging'.files : h >= 2
       /\ pc' = "moveBlocks" =>
              /\ Len(storage') \in start' - 1 .. Len(current')
              /\ \A i \in 1 .. Len(storage') : storage'[i] = current'[i]
       /\ pc' = "purgeBlocks" => storage' = current'
  BY <1>1 DEF BlocksInv
<1> QED
  BY <1>7, <1>8, <1>9, <1>10, <1>11, Zenon DEF BlocksInv

(* A commit stages its blocks before the checkpoint.                        *)
LEMMA BlocksStaged ==
    ASSUME TypeOK, StepInv, CurrentInv, SettledInv, BlocksInv,
           \/ \E common \in 1 .. Len(storage), count \in 1 .. MaxBlocks : DropStagedBlocks(common, count)
           \/ SaveStagedBlock \/ BlocksWritten \/ StateWritten
    PROVE  BlocksInv'
<1> USE DEF goto, checkpointed
<1>t. Len(current) \in Nat /\ Len(new) \in Nat /\ start \in Nat /\ staging.index \in Nat
      /\ DOMAIN staging.files \subseteq Nat /\ Len(storage) \in Nat
  BY ChainFacts, Zenon DEF TypeOK, CurrentInv
<1>1. ASSUME NEW common \in 1 .. Len(storage), NEW count \in 1 .. MaxBlocks,
             DropStagedBlocks(common, count)
      PROVE  BlocksInv'
  <2>1. /\ UNCHANGED durable /\ pc = "idle" /\ pc' = "saveBlocks" /\ op' = "commit"
        /\ UNCHANGED <<storage, commitStep>>
    BY <1>1, Zenon DEF DropStagedBlocks
  <2>2. ~checkpointed /\ ~checkpointed' /\ storage = current /\ current' = current
    BY <2>1, CurrentFacts, Zenon DEF StepInv, SettledInv
  <2>3. /\ Len(new') = common + count /\ start' = common + 1
        /\ staging' = [index |-> common, files |-> staging.files]
    BY <1>1, NewChainFacts, Zenon
  <2>4. filesAgree /\ \A h \in DOMAIN staging.files : h >= 2
    BY <2>1, Zenon DEF BlocksInv, stagingUnused
  <2>5. stagedUpTo(staging.index)'
    <3>1. start' .. common = {} /\ start' - 1 = common /\ \A h \in 1 .. common : h \in 1 .. Len(current)
      BY <1>t, <2>2, <2>3, SMTT(30)
    <3> QED
      BY <2>2, <2>3, <2>4, <3>1, Zenon DEF stagedUpTo, filesAgree
  <2>6. staging'.index \in start' - 1 .. Len(new')
    <3>1. staging'.index = common
      BY <2>3, Zenon
    <3>2. Len(storage) \in Nat /\ MaxBlocks \in Nat
      BY <1>t, <2>2, RecoveryAssumption, Zenon
    <3>3. common \in (common + 1) - 1 .. common + count
      BY <3>2, SMTT(30)
    <3> QED
      BY <2>3, <3>1, <3>3, Zenon
  <2> QED
    BY <2>1, <2>2, <2>3, <2>4, <2>5, <2>6, Zenon DEF BlocksInv, stagingUnused
<1>2. CASE SaveStagedBlock
  <2> DEFINE x == staging.index + 1
  <2>1. /\ UNCHANGED durable /\ pc = "saveBlocks" /\ pc' = "saveBlocks" /\ op' = op
        /\ UNCHANGED <<new, start, commitStep>> /\ staging.index < Len(new)
    BY <1>2 DEF SaveStagedBlock, memoryVars, historyVars
  <2>2. ~checkpointed' /\ current' = current /\ op = "commit"
    BY <2>1, CurrentFacts DEF StepInv
  <2>3. /\ staging'.index = x /\ DOMAIN staging'.files = DOMAIN staging.files \cup {x}
        /\ staging'.files[x] = new[x]
        /\ \A h \in DOMAIN staging.files : h # x => staging'.files[h] = staging.files[h]
    BY <1>2, StagingFacts, Zenon
  <2>4. /\ staging.index \in start - 1 .. Len(new) /\ stagedUpTo(staging.index) /\ start \in 2 .. Len(new)
        /\ \A h \in DOMAIN staging.files : h >= 2
    BY <2>1, <2>2 DEF BlocksInv, CurrentInv, StepInv
  <2>5. x \in start .. Len(new) /\ x >= 2 /\ x - 1 = staging.index
    BY <1>t, <2>1, <2>4, SMTT(30)
  <2>6. stagedUpTo(staging.index)'
    <3>1. \A h \in start .. x : h = x \/ h \in start .. staging.index
      BY <1>t, <2>4, SMTT(30)
    <3>2. x \notin 1 .. start - 1 /\ x \notin start .. staging.index
      BY <1>t, <2>5, SMTT(30)
    <3>3. start .. x \subseteq DOMAIN staging'.files /\ \A h \in start .. x : staging'.files[h] = new[h]
      BY <2>3, <2>4, <3>1, <3>2, Zenon DEF stagedUpTo
    <3>4. \A h \in DOMAIN staging'.files : h \in 1 .. start - 1 => staging'.files[h] = current[h]
      BY <2>3, <2>4, <3>2, Zenon DEF stagedUpTo
    <3> QED
      BY <2>1, <2>2, <2>3, <3>3, <3>4, Zenon DEF stagedUpTo
  <2>7. staging'.index \in start' - 1 .. Len(new') /\ \A h \in DOMAIN staging'.files : h >= 2
    BY <1>t, <2>1, <2>3, <2>4, <2>5, SMTT(30)
  <2> QED
    BY <2>1, <2>2, <2>6, <2>7, SMTT(30) DEF BlocksInv, stagingUnused
<1>3. CASE BlocksWritten
  <2>1. /\ UNCHANGED <<durable, new, start, staging>> /\ pc = "saveBlocks" /\ pc' = "scoreChange"
        /\ op' = op /\ op = "commit" /\ ~checkpointed' /\ staging.index = Len(new)
    BY <1>3 DEF BlocksWritten, StepInv, memoryVars, historyVars, spoolVars
  <2>2. current' = current
    BY <2>1, CurrentFacts, Zenon
  <2>3. stagedUpTo(Len(new))' /\ \A h \in DOMAIN staging'.files : h >= 2
    BY <2>1, <2>2, Zenon DEF BlocksInv, stagedUpTo
  <2> QED
    BY <2>1, <2>3, Zenon DEF BlocksInv, stagingUnused
<1>4. CASE StateWritten /\ op = "commit"
  <2>1. /\ UNCHANGED <<new, start, staging, storage>> /\ pc = "stateWritten" /\ pc' = "commitCache"
        /\ op' = "commit" /\ checkpointed' /\ current' = new
    BY <1>4, CurrentFacts, Zenon DEF StateWritten, memoryVars, spoolVars
  <2>2. ~checkpointed /\ storage = current
    BY <2>1, Zenon DEF StepInv, SettledInv
  <2>3. /\ start \in 2 .. Len(new) /\ start - 1 <= Len(current)
        /\ \A i \in 1 .. start - 1 : new[i] = current[i]
        /\ stagedUpTo(Len(new)) /\ \A h \in DOMAIN staging.files : h >= 2
    BY <1>4, <2>1, <2>2, Zenon DEF BlocksInv, CurrentInv
  <2>4. filesAgree'
    <3>1. \A h \in 1 .. Len(new) : h \in 1 .. start - 1 \/ h \in start .. Len(new)
      BY <1>t, <2>3
    <3>2. \A h \in DOMAIN staging.files : h \in 1 .. Len(new) => staging.files[h] = new[h]
      BY <2>3, <3>1, Zenon DEF stagedUpTo
    <3> QED
      BY <2>1, <3>2, Zenon DEF filesAgree
  <2>5. stagedFrom(start)'
    BY <1>t, <2>1, <2>2, <2>3, SMTT(30) DEF stagedFrom, stagedUpTo
  <2>6. staging'.index = Len(current') /\ start' \in 1 .. Len(current')
    BY <1>t, <2>1, <2>3 DEF stagedUpTo
  <2>7. blocksRecoverable'
    <3>1. \E s \in 1 .. Len(current') : stagedFrom(s)'
      <4>1. \A s : s = start => (stagedFrom(s)' <=> stagedFrom(start)')
        BY <2>1, Zenon DEF stagedFrom
      <4> QED
        BY <2>1, <2>5, <2>6, <4>1, Zenon
    <3> QED
      BY <2>4, <2>6, <3>1 DEF blocksRecoverable
  <2> QED
    BY <2>1, <2>3, <2>5, <2>6, <2>7, Zenon DEF BlocksInv, stagingUnused
<1>5. CASE StateWritten /\ op # "commit"
  <2>1. /\ UNCHANGED <<new, start, staging, storage, durable>> /\ pc = "stateWritten" /\ pc' = "purgeState"
        /\ op' = op /\ op = "save"
    BY <1>5, Zenon DEF StateWritten, StepInv, memoryVars, spoolVars
  <2>2. ~checkpointed /\ storage = current /\ current' = current
    BY <2>1, CurrentFacts, Zenon DEF StepInv, SettledInv
  <2>3. /\ staging.index = 0 /\ filesAgree /\ \A h \in DOMAIN staging.files : h >= 2
    BY <2>1, Zenon DEF BlocksInv, stagingUnused
  <2>4. blocksRecoverable' /\ filesAgree'
    BY <2>1, <2>2, <2>3 DEF blocksRecoverable, filesAgree
  <2> QED
    BY <2>1, <2>3, <2>4, Zenon DEF BlocksInv
<1> QED
  BY <1>1, <1>2, <1>3, <1>4, <1>5, Zenon

(* After the checkpoint the staged blocks are moved, by the commit or by    *)
(* recovery.                                                                *)
LEMMA BlocksMoved ==
    ASSUME TypeOK, StepInv, CurrentInv, BlocksInv,
           MoveDropBlocks \/ MoveBlock \/ MoveDone \/ PurgeStaging \/ PurgeDone
    PROVE  BlocksInv'
<1> USE DEF goto, checkpointed
<1>t. /\ Len(current) \in Nat /\ start \in Nat /\ staging.index \in Nat /\ Len(storage) \in Nat
      /\ DOMAIN staging.files \subseteq Nat /\ storage \in Chains /\ current \in Chains
      /\ Len(current) >= 2
  BY ChainFacts DEF TypeOK, CurrentInv
<1>d. UNCHANGED durable /\ UNCHANGED <<commitStep, start, op>>
  BY DEF MoveDropBlocks, MoveBlock, MoveDone, PurgeStaging, PurgeDone, historyVars, memoryVars
<1>c. current' = current
  BY <1>d, CurrentFacts, Zenon
<1>h. \A h \in DOMAIN staging.files : h >= 2
  BY DEF BlocksInv
<1>1. CASE MoveDropBlocks
  <2>1. /\ pc = "dropBlocks" /\ pc' = "moveBlocks" /\ staging' = staging /\ checkpointed
        /\ storage' = IF start <= Len(storage) THEN take(storage, start - 1) ELSE storage
    BY <1>1, Zenon DEF MoveDropBlocks, StepInv, spoolVars
  <2>2. staging.index = Len(current) /\ stagedFrom(start) /\ blocksRecoverable
        /\ op \in {"commit", "recover"}
    BY <2>1 DEF BlocksInv, StepInv
  <2>3. start \in 1 .. Len(current) /\ start - 1 <= Len(storage)
        /\ \A i \in 1 .. start - 1 : storage[i] = current[i]
    BY <2>2 DEF stagedFrom
  <2>4. Len(storage') = start - 1 /\ \A i \in 1 .. start - 1 : storage'[i] = current[i]
    <3>1. CASE start <= Len(storage)
      <4>1. start - 1 \in 0 .. Len(storage)
        BY <1>t, <2>3
      <4>2. Len(take(storage, start - 1)) = start - 1
            /\ \A i \in 1 .. start - 1 : take(storage, start - 1)[i] = storage[i]
        BY <1>t, <4>1, TakeFacts, Zenon
      <4> QED
        BY <2>1, <2>3, <3>1, <4>2, Zenon
    <3>2. CASE ~(start <= Len(storage))
      BY <1>t, <2>1, <2>3, <3>2, SMTT(30)
    <3> QED
      BY <3>1, <3>2, Zenon
  <2>5. stagedFrom(start)' /\ filesAgree' /\ staging'.index = Len(current')
    BY <1>c, <1>d, <1>t, <2>1, <2>2, <2>3, <2>4 DEF stagedFrom, filesAgree, blocksRecoverable
  <2>6. blocksRecoverable'
    <3>1. \A s : s = start => (stagedFrom(s)' <=> stagedFrom(start)')
      BY <1>d DEF stagedFrom
    <3>2. \E s \in 1 .. Len(current') : stagedFrom(s)'
      BY <1>c, <2>3, <2>5, <3>1, Zenon
    <3> QED
      BY <2>5, <3>2, Zenon DEF blocksRecoverable
  <2>7. Len(storage') \in start' - 1 .. Len(current')
        /\ \A i \in 1 .. Len(storage') : storage'[i] = current'[i]
    BY <1>c, <1>d, <1>t, <2>3, <2>4
  <2> QED
    BY <1>d, <1>h, <2>1, <2>2, <2>5, <2>6, <2>7, Zenon DEF BlocksInv, stagingUnused
<1>2. CASE MoveBlock
  <2> DEFINE n == Len(storage)
  <2>1. /\ pc = "moveBlocks" /\ pc' = "moveBlocks" /\ staging' = staging /\ checkpointed
        /\ n < staging.index /\ storage' = Append(storage, staging.files[n + 1])
    BY <1>2, Zenon DEF MoveBlock, StepInv, spoolVars
  <2>2. /\ staging.index = Len(current) /\ stagedFrom(start) /\ blocksRecoverable
        /\ n \in start - 1 .. Len(current) /\ \A i \in 1 .. n : storage[i] = current[i]
        /\ op \in {"commit", "recover"}
    BY <2>1, Zenon DEF BlocksInv, StepInv
  <2>3. n + 1 \in DOMAIN staging.files /\ n + 1 \in 1 .. Len(current) /\ start \in 1 .. Len(current)
    BY <1>t, <2>1, <2>2 DEF stagedFrom
  <2>4. staging.files[n + 1] = current[n + 1] /\ staging.files[n + 1] \in 0 .. MaxCommits
    BY <2>2, <2>3, Zenon DEF blocksRecoverable, filesAgree, TypeOK
  <2>5. Len(storage') = n + 1 /\ \A i \in 1 .. n + 1 : storage'[i] = current[i]
    <3>1. /\ Len(storage') = n + 1 /\ storage'[n + 1] = staging.files[n + 1]
          /\ \A i \in 1 .. n : storage'[i] = storage[i]
      BY <1>t, <2>1, <2>4 DEF Chains
    <3>2. \A i \in 1 .. n + 1 : i = n + 1 \/ i \in 1 .. n
      BY <1>t
    <3> QED
      BY <2>2, <2>4, <3>1, <3>2, Zenon
  <2>6. stagedFrom(start)' /\ filesAgree' /\ staging'.index = Len(current')
    <3>1. start - 1 <= n + 1 /\ \A i \in 1 .. start - 1 : i \in 1 .. n + 1
      BY <1>t, <2>2
    <3> QED
      BY <1>c, <1>d, <2>1, <2>2, <2>3, <2>5, <3>1, Zenon DEF stagedFrom, filesAgree, blocksRecoverable
  <2>7. blocksRecoverable'
    <3>1. \A s : s = start => (stagedFrom(s)' <=> stagedFrom(start)')
      BY <1>d DEF stagedFrom
    <3>2. \E s \in 1 .. Len(current') : stagedFrom(s)'
      BY <1>c, <2>3, <2>6, <3>1, Zenon
    <3> QED
      BY <2>6, <3>2 DEF blocksRecoverable
  <2>8. Len(storage') \in start' - 1 .. Len(current')
        /\ \A i \in 1 .. Len(storage') : storage'[i] = current'[i]
    BY <1>c, <1>d, <1>t, <2>1, <2>2, <2>5
  <2> QED
    BY <1>d, <1>h, <2>1, <2>2, <2>6, <2>7, <2>8, Zenon DEF BlocksInv, stagingUnused
<1>3. CASE MoveDone
  <2>1. /\ pc = "moveBlocks" /\ pc' = "purgeBlocks" /\ staging' = staging /\ checkpointed
        /\ Len(storage) >= staging.index /\ storage' = storage
    BY <1>3, Zenon DEF MoveDone, StepInv, spoolVars
  <2>2. /\ staging.index = Len(current) /\ blocksRecoverable /\ Len(storage) \in start - 1 .. Len(current)
        /\ op \in {"commit", "recover"}
        /\ \A i \in 1 .. Len(storage) : storage[i] = current[i]
    BY <2>1, Zenon DEF BlocksInv, StepInv
  <2>3. Len(storage) = Len(current)
    BY <1>t, <2>1, <2>2
  <2>4. storage = current
    BY <1>t, <2>2, <2>3, SMTT(30) DEF Chains
  <2>5. blocksRecoverable'
    BY <1>c, <2>1, <2>2, <2>4, Zenon DEF blocksRecoverable, filesAgree
  <2> QED
    BY <1>c, <1>d, <1>h, <2>1, <2>2, <2>4, <2>5, Zenon DEF BlocksInv, stagingUnused
<1>4. CASE PurgeStaging
  <2>1. pc \in {"purgeBlocks", "purgeSpool"} /\ pc' = pc /\ storage' = storage
        /\ (pc = "purgeBlocks" <=> checkpointed) /\ op \in {"commit", "recover"}
    BY <1>4, Zenon DEF PurgeStaging, StepInv
  <2>2. /\ staging'.index \in {0, staging.index} /\ DOMAIN staging'.files \subseteq DOMAIN staging.files
        /\ \A h \in DOMAIN staging'.files : staging'.files[h] = staging.files[h]
    BY <1>4, StagingFacts, Zenon
  <2>3. checkpointed => blocksRecoverable /\ storage = current
    BY <2>1, Zenon DEF BlocksInv
  <2>4. checkpointed => blocksRecoverable'
    BY <1>c, <2>1, <2>2, <2>3, Zenon DEF blocksRecoverable, filesAgree
  <2>5. \A h \in DOMAIN staging'.files : h >= 2
    BY <1>h, <2>2, Zenon
  <2> QED
    BY <1>c, <1>d, <2>1, <2>3, <2>4, <2>5 DEF BlocksInv, stagingUnused
<1>5. CASE PurgeDone
  <2>1. /\ pc = "purgeBlocks" /\ pc' = (IF op = "commit" THEN "purgeState" ELSE "reset")
        /\ staging' = staging /\ checkpointed /\ storage' = storage /\ staging.index = 0
    BY <1>5, Zenon DEF PurgeDone, StepInv, spoolVars
  <2>2. blocksRecoverable /\ op \in {"commit", "recover"}
    BY <2>1, Zenon DEF BlocksInv, StepInv
  <2>3. blocksRecoverable' /\ filesAgree'
    BY <1>c, <2>1, <2>2, UnstagedIsCurrent, Zenon DEF blocksRecoverable, filesAgree
  <2> QED
    BY <1>d, <1>h, <2>1, <2>2, <2>3, Zenon DEF BlocksInv
<1> QED
  BY <1>1, <1>2, <1>3, <1>4, <1>5, Zenon

(* The two state directories.                                               *)
LEMMA StateStep ==
    ASSUME TypeOK, StepInv, CurrentInv, SettledInv, StateInv, [Next]_vars
    PROVE  StateInv'
<1> USE DEF goto, checkpointed
<1>f. ASSUME UNCHANGED <<state, stateTmp, durable>>, checkpointed' => checkpointed,
             stateNotMoved' => stateNotMoved, stateMoved' => stateMoved,
             pc' = "stateWritten" => pc = "stateWritten" /\ new' = new
      PROVE  StateInv'
  <2>1. current' = current
    BY <1>f, CurrentFacts
  <2> QED
    BY <1>f, <2>1 DEF StateInv
<1>1. CASE StateWritten
  <2>1. stateTmp' = new /\ stateTmp' = stateTmp /\ commitStep' = "State_Written"
        /\ pc' \in {"commitCache", "purgeState"} /\ op' \in {"commit", "save"}
    BY <1>1 DEF StateWritten, StateInv, stateVars, StepInv
  <2>2. current' = new
    <3>1. CASE op = "commit"
      BY <1>1, <3>1, CurrentFacts, Zenon
    <3>2. CASE op # "commit"
      BY <1>1, <3>2, CurrentFacts, Zenon DEF CurrentInv, StateWritten, StepInv
    <3> QED
      BY <3>1, <3>2
  <2> QED
    BY <2>1, <2>2, Zenon DEF StateInv, stateMoved
<1>2. CASE PreStateWritten
  <2>1. ~checkpointed /\ commitStep' = commitStep /\ pc' \in {"supplementalData", "stateWritten"}
        /\ op \in {"commit", "save"} /\ op' = op /\ (pc' = "stateWritten" => stateTmp' = new')
    BY <1>2 DEF PreStateWritten, StepInv, memoryVars
  <2> QED
    BY <2>1, Zenon DEF StateInv, stateMoved, stateNotMoved
<1>3. CASE MoveToPurge
  <2>1. stateTmp' = stateTmp /\ stateTmp = current /\ UNCHANGED durable /\ pc' = "renameState"
    BY <1>3 DEF MoveToPurge, StateInv, stateNotMoved, historyVars
  <2>2. current' = current
    BY <2>1, CurrentFacts, Zenon
  <2> QED
    BY <2>1, <2>2, Zenon DEF StateInv, stateMoved
<1>4. CASE MoveToRename
  <2>1. state' = current /\ stateTmp' = Absent /\ UNCHANGED durable
        /\ pc' \in {"moveBlockFiles", "allUpdated"}
    BY <1>4, Zenon DEF MoveToRename, StateInv, stateNotMoved, historyVars
  <2>2. current' = current
    BY <2>1, CurrentFacts
  <2> QED
    BY <2>1, <2>2, Zenon DEF StateInv, stateNotMoved
<1>5. CASE RepairFiles
  <2>1. UNCHANGED <<state, durable, commitStep>>
    BY <1>5 DEF RepairFiles, historyVars
  <2>2. current' = current
    BY <2>1, CurrentFacts, Zenon
  <2>3. CASE ~checkpointed
    <3>1. state = current /\ pc' = "reset"
      BY <1>5, <2>3, Zenon DEF RepairFiles, SettledInv
    <3> QED
      BY <2>1, <2>2, <2>3, <3>1, Zenon DEF StateInv, stateNotMoved
  <2>4. CASE checkpointed
    <3>1. stateTmp' = stateTmp /\ pc' = IF stateTmp = Absent THEN "moveBlockFiles" ELSE "purgeState"
      BY <1>5, <2>4, Zenon DEF RepairFiles
    <3>2. current # Absent
      BY ChainFacts DEF CurrentInv
    <3>3. IF stateTmp = Absent THEN state = current ELSE stateTmp = current
      BY <2>4, <3>2 DEF StateInv
    <3> QED
      BY <2>1, <2>2, <3>1, <3>3, Zenon DEF StateInv, stateMoved, stateNotMoved
  <2> QED
    BY <2>3, <2>4, Zenon
<1>6. ASSUME NEW common, NEW count, DropStagedBlocks(common, count)
      PROVE  StateInv'
  BY <1>f, <1>6 DEF DropStagedBlocks, stateVars, stateMoved, stateNotMoved, StepInv
<1>7. CASE UNCHANGED vars \/ SaveStagedBlock \/ BlocksWritten \/ NotifyScoreChange \/ NotifyStateChange
  BY <1>f, <1>7, ZenonT(30) DEF vars, SaveStagedBlock, BlocksWritten, NotifyScoreChange, NotifyStateChange,
         stateVars, memoryVars, historyVars, stateMoved, stateNotMoved, StepInv
<1>8. ASSUME NEW s \in SubCaches, CommitSubCache(s) \/ RepairSubCache(s)
      PROVE  StateInv'
  BY <1>f, <1>8, Zenon DEF CommitSubCache, RepairSubCache, memoryVars, historyVars, stateMoved, stateNotMoved
<1>9. CASE CommitCache \/ AllUpdated \/ UpdateIndex
  BY <1>f, <1>9 DEF CommitCache, AllUpdated, UpdateIndex, stateVars, historyVars, stateMoved,
         stateNotMoved, StepInv
<1>10. CASE MoveDropBlocks \/ MoveBlock \/ MoveDone \/ PurgeStaging \/ PurgeDone
  BY <1>f, <1>10, Zenon DEF MoveDropBlocks, MoveBlock, MoveDone, PurgeStaging, PurgeDone, stateVars,
         historyVars, stateMoved, stateNotMoved, StepInv
<1>11. CASE Recover \/ RepairSpooling \/ LoadState \/ CatchUp \/ ForwardNext \/ FixupReader
  BY <1>f, <1>11, Zenon DEF Recover, RepairSpooling, LoadState, CatchUp, ForwardNext, FixupReader, stateVars,
         historyVars, stateMoved, stateNotMoved, StepInv
<1>12. CASE RecoverBlockFiles \/ Reset
  BY <1>f, <1>12, ZenonT(30) DEF RecoverBlockFiles, Reset, NoCommitStep, stateVars, historyVars, stateMoved,
         stateNotMoved, StepInv
<1>13. CASE SaveState \/ Boot \/ Shutdown \/ Crash \/ BrokerRead
  BY <1>f, <1>13 DEF SaveState, Boot, Shutdown, Crash, BrokerRead, stateVars, historyVars, memoryVars,
         stateMoved, stateNotMoved, StepInv
<1> QED
  BY <1>1, <1>2, <1>3, <1>4, <1>5, <1>6, <1>7, <1>8, <1>9, <1>10, <1>11, <1>12, <1>13, Zenon
     DEF Next, Work, Commit, MoveFiles, Recovery

-----------------------------------------------------------------------------
(* The state change queue and the broker, and what follows from the whole of *)
(* the invariant.                                                            *)

(* Steps that keep the messages of the commit in progress.                  *)
LEMMA QueueFrame ==
    ASSUME TypeOK, QueueInv, UNCHANGED <<durable, cache>>,
           queue'.index = queue.index, queue'.server = queue.server,
           \A i \in queue.index .. queue.server - 1 :
               i \in DOMAIN queue'.files /\ queue'.files[i] = queue.files[i],
           changesApplied' => changesApplied \/ queue.server = queue.index,
           checkpointed' => checkpointed,
           pc' = "stateChange" => pc = "stateChange",
           op' = "commit" /\ pc' \in {"preStateWritten", "supplementalData", "stateWritten"} =>
               /\ op = "commit" /\ new' = new
               /\ pc \in {"preStateWritten", "supplementalData", "stateWritten"},
           op' = "commit" /\ (checkpointed' \/ pc' = "updateIndex") =>
               op = "commit" /\ (checkpointed \/ pc = "updateIndex"),
           op' = "commit" /\ pc' \in {"dropBlocks", "moveBlocks", "purgeBlocks", "purgeState",
                                      "renameState", "allUpdated"} =>
               cachesCurrent
    PROVE  QueueInv'
<1>1. current' = current /\ cachesCurrent' = cachesCurrent
  BY CurrentFacts, Zenon DEF cachesCurrent
<1>2. queue.index \in Nat /\ queue.server \in Nat /\ queue.index <= queue.server
  BY Zenon DEF TypeOK
<1>3. ASSUME NEW chain, twoMessages(chain)
      PROVE  /\ queue'.server = queue'.index + 2
             /\ queue'.files[queue'.index].type = "score"
             /\ queue'.files[queue'.index + 1] = [type |-> "state", chain |-> chain]
  <2>1. queue.server = queue.index + 2
    BY <1>3, Zenon DEF twoMessages
  <2>2. {queue.index, queue.index + 1} \subseteq queue.index .. queue.server - 1
    BY <1>2, <2>1, SMTT(30)
  <2> QED
    BY <1>3, <2>1, <2>2, Zenon DEF twoMessages
<1>4. queue'.index .. queue'.server - 1 \subseteq DOMAIN queue'.files
  BY DEF QueueInv
<1>5. changesApplied' => queue'.server = queue'.index
  BY Zenon DEF QueueInv
<1>6. pc' = "stateChange" =>
          queue'.server = queue'.index + 1 /\ queue'.files[queue'.index].type = "score"
  <2> SUFFICES ASSUME pc = "stateChange"
               PROVE  queue.server = queue.index + 1 /\ queue'.files[queue.index].type = "score"
    BY Zenon
  <2>1. queue.server = queue.index + 1 /\ queue.files[queue.index].type = "score"
    BY Zenon DEF QueueInv
  <2>2. queue.index \in queue.index .. queue.server - 1
    BY <1>2, <2>1
  <2> QED
    BY <2>1, <2>2, Zenon
<1>7. op' = "commit" /\ pc' \in {"preStateWritten", "supplementalData", "stateWritten"} =>
          twoMessages(new)'
  BY <1>3, Zenon DEF QueueInv, twoMessages
<1>8. op' = "commit" /\ (checkpointed' \/ pc' = "updateIndex") => twoMessages(current)'
  BY <1>1, <1>3, ZenonT(30) DEF QueueInv, twoMessages
<1>9. checkpointed' => changesRecoverable'
  <2> SUFFICES ASSUME changesRecoverable
               PROVE  changesRecoverable'
    BY Zenon DEF QueueInv
  <2>1. CASE queue.server = queue.index /\ cachesCurrent
    BY <1>1, <2>1, Zenon DEF changesRecoverable
  <2>2. CASE queue.server = queue.index + 1 /\ queue.files[queue.index] = [type |-> "state", chain |-> current]
    <3>1. queue.index \in queue.index .. queue.server - 1
      BY <1>2, <2>2
    <3> QED
      BY <1>1, <2>2, <3>1, Zenon DEF changesRecoverable
  <2>3. CASE twoMessages(current)
    <3>1. twoMessages(current)'
      BY <1>1, <1>3, <2>3, ZenonT(30) DEF twoMessages
    <3> QED
      BY <3>1, Zenon DEF changesRecoverable
  <2> QED
    BY <2>1, <2>2, <2>3, ZenonT(30) DEF changesRecoverable
<1> QED
  BY <1>1, <1>4, <1>5, <1>6, <1>7, <1>8, <1>9, Zenon DEF QueueInv

(* The two messages that a commit writes.                                   *)
LEMMA QueueWritten ==
    ASSUME TypeOK, StepInv, CurrentInv, SettledInv, QueueInv,
           NotifyScoreChange \/ NotifyStateChange \/ StateWritten
    PROVE  QueueInv'
<1> USE DEF goto, checkpointed
<1>t. queue.index \in Nat /\ queue.server \in Nat /\ DOMAIN queue.files \subseteq Nat
  BY ZenonT(30) DEF TypeOK
<1>1. CASE NotifyScoreChange
  <2> DEFINE message == [type |-> "score", chain |-> Absent]
  <2>1. message \in Messages /\ write(message) /\ pc = "scoreChange" /\ pc' = "stateChange"
        /\ commitStep' = commitStep /\ op' = op
    BY <1>1, Zenon DEF NotifyScoreChange, Messages
  <2>2. queue.server = queue.index /\ ~checkpointed /\ op = "commit"
    BY <2>1, Zenon DEF QueueInv, changesApplied, StepInv
  <2>3. /\ queue'.server = queue.index + 1 /\ queue'.index = queue.index
        /\ queue.index \in DOMAIN queue'.files /\ queue'.files[queue.index] = message
    BY <2>1, <2>2, WriteFacts, Zenon
  <2>4. queue'.index .. queue'.server - 1 \subseteq DOMAIN queue'.files
    BY <1>t, <2>3
  <2> QED
    BY <2>1, <2>2, <2>3, <2>4 DEF QueueInv, changesApplied
<1>2. CASE NotifyStateChange
  <2> DEFINE message == [type |-> "state", chain |-> new]
  <2>1. write(message) /\ pc = "stateChange" /\ pc' = "preStateWritten" /\ new' = new
        /\ commitStep' = commitStep /\ op' = op
    BY <1>2, ZenonT(30) DEF NotifyStateChange, memoryVars
  <2>2. queue.server = queue.index + 1 /\ ~checkpointed /\ op = "commit"
        /\ queue.files[queue.index].type = "score"
    BY <2>1 DEF QueueInv, StepInv
  <2>3. new \in Chains \ {Absent}
    <3>1. new \in Chains /\ start \in 2 .. Len(new) /\ Len(new) \in Nat
      BY <2>1, <2>2, ChainFacts DEF TypeOK, CurrentInv
    <3>2. Len(new) >= 1
      BY <3>1
    <3> QED
      BY <3>1, <3>2, ChainFacts, Zenon
  <2>4. message \in Messages
    BY <2>3, Zenon DEF Messages
  <2>5. /\ queue'.server = queue.index + 2 /\ queue'.index = queue.index
        /\ DOMAIN queue'.files = DOMAIN queue.files \cup {queue.index + 1}
        /\ queue'.files[queue.index + 1] = message
        /\ \A i \in DOMAIN queue.files : i # queue.index + 1 => queue'.files[i] = queue.files[i]
    <3>1. queue.server + 1 = queue.index + 2
      BY <1>t, <2>2, SMTT(30)
    <3> HIDE DEF message
    <3> QED
      BY <2>1, <2>2, <2>4, <3>1, WriteFacts
  <2>6. queue.index \in DOMAIN queue.files
    BY <1>t, <2>2, SMTT(30) DEF QueueInv
  <2>7. queue'.index .. queue'.server - 1 \subseteq DOMAIN queue'.files
    <3>1. {queue.index, queue.index + 1} \subseteq DOMAIN queue'.files
      BY <2>5, <2>6, Zenon
    <3>2. queue'.server = queue.index + 2 /\ queue'.index = queue.index
      BY <2>5, Zenon
    <3> QED
      BY <1>t, <3>1, <3>2
  <2>8. twoMessages(new)'
    BY <1>t, <2>1, <2>2, <2>5, <2>6 DEF twoMessages
  <2> QED
    BY <2>1, <2>2, <2>7, <2>8, Zenon DEF QueueInv, changesApplied
<1>3. CASE StateWritten
  <2>1. /\ queue' = queue /\ cache' = cache /\ op' = op /\ op \in {"commit", "save"} /\ ~checkpointed
        /\ new' = new /\ commitStep' = "State_Written" /\ pc = "stateWritten"
        /\ pc' = IF op = "commit" THEN "commitCache" ELSE "purgeState"
    BY <1>3, Zenon DEF StateWritten, spoolVars, stateVars, memoryVars, StepInv
  <2>2. CASE op = "commit"
    <3>1. twoMessages(new) /\ current' = new
      BY <1>3, <2>1, <2>2, CurrentFacts, Zenon DEF QueueInv
    <3>2. twoMessages(current)'
      BY <2>1, <3>1, Zenon DEF twoMessages
    <3>3. changesRecoverable'
      BY <3>2, Zenon DEF changesRecoverable
    <3> QED
      BY <2>1, <2>2, <3>2, <3>3, Zenon DEF QueueInv, changesApplied
  <2>3. CASE op = "save"
    <3>1. queue.server = queue.index /\ cachesCurrent
      BY <2>1, <2>3 DEF QueueInv, changesApplied, SettledInv
    <3>2. current' = current
      BY <1>3, <2>3, CurrentFacts, Zenon
    <3>3. changesRecoverable'
      BY <2>1, <3>1, <3>2 DEF changesRecoverable, cachesCurrent
    <3> QED
      BY <2>1, <2>3, <3>1, <3>3, ZenonT(30) DEF QueueInv, changesApplied
  <2> QED
    BY <2>1, <2>2, <2>3, Zenon
<1> QED
  BY <1>1, <1>2, <1>3, Zenon

(* Applying the changes to the cache databases, by commit and by recovery.  *)
LEMMA QueueApplied ==
    ASSUME TypeOK, StepInv, CurrentInv, QueueInv,
           CommitCache \/ ForwardNext \/ (\E s \in SubCaches : CommitSubCache(s) \/ RepairSubCache(s))
    PROVE  QueueInv'
<1> USE DEF goto, checkpointed
<1>t. queue.index \in Nat /\ queue.server \in Nat /\ queue.index <= queue.server
  BY DEF TypeOK
<1>d. UNCHANGED <<durable, commitStep, new, op>>
  BY DEF CommitCache, ForwardNext, CommitSubCache, RepairSubCache, historyVars, memoryVars
<1>c. current' = current
  BY <1>d, CurrentFacts
<1>1. CASE CommitCache
  <2>1. pc = "commitCache" /\ checkpointed /\ op = "commit" /\ new = current /\ pc' = "dropBlocks"
        /\ UNCHANGED <<queue, cache>>
    BY <1>1, Zenon DEF CommitCache, StepInv, CurrentInv, spoolVars
  <2>2. cachesCurrent
    BY <1>1, <2>1, Zenon DEF CommitCache, cachesCurrent
  <2>3. queue.index .. queue.server - 1 \subseteq DOMAIN queue.files
    BY Zenon DEF QueueInv
  <2> QED
    BY <1>d, <2>1, <2>2, <2>3, QueueFrame, Zenon DEF changesApplied
<1>2. ASSUME NEW s \in SubCaches, CommitSubCache(s)
      PROVE  QueueInv'
  <2>1. pc = "commitCache" /\ checkpointed /\ op = "commit" /\ pc' = pc /\ queue' = queue
    BY <1>2, Zenon DEF CommitSubCache, StepInv, spoolVars
  <2>2. twoMessages(current)
    BY <2>1, Zenon DEF QueueInv
  <2>3. twoMessages(current)'
    BY <1>c, <2>1, <2>2, Zenon DEF twoMessages
  <2>4. changesRecoverable'
    BY <2>3, ZenonT(30) DEF changesRecoverable
  <2>5. queue'.index .. queue'.server - 1 \subseteq DOMAIN queue'.files
    BY <2>1 DEF QueueInv
  <2> QED
    BY <1>d, <2>1, <2>3, <2>4, <2>5, Zenon DEF QueueInv, changesApplied
<1>3. ASSUME NEW s \in SubCaches, RepairSubCache(s)
      PROVE  QueueInv'
  <2>1. pc = "forward" /\ pc' = pc /\ queue' = queue /\ op = "recover" /\ queue.index < queue.server
        /\ queue.files[queue.index].type = "state"
    BY <1>3, ZenonT(30) DEF RepairSubCache, StepInv, spoolVars
  <2>2. checkpointed /\ changesRecoverable
    BY <1>t, <2>1, SMTT(30) DEF QueueInv, changesApplied
  <2>3. /\ queue.server = queue.index + 1
        /\ queue.files[queue.index] = [type |-> "state", chain |-> current]
    BY <1>t, <2>1, <2>2 DEF changesRecoverable, twoMessages
  <2>4. changesRecoverable'
    BY <1>c, <2>1, <2>3, Zenon DEF changesRecoverable
  <2>5. queue'.index .. queue'.server - 1 \subseteq DOMAIN queue'.files
    BY <2>1, Zenon DEF QueueInv
  <2> QED
    BY <1>d, <2>1, <2>2, <2>4, <2>5, ZenonT(30) DEF QueueInv, changesApplied
<1>4. CASE ForwardNext
  <2>1. /\ pc = "forward" /\ pc' = pc /\ cache' = cache /\ op = "recover" /\ queue.index < queue.server
        /\ queue.files[queue.index].type = "state" =>
               \A s \in SubCaches : cache[s] = queue.files[queue.index].chain
    BY <1>4, Zenon DEF ForwardNext, StepInv, stateVars
  <2>2. checkpointed /\ changesRecoverable
    BY <1>t, <2>1 DEF QueueInv, changesApplied
  <2>3. /\ queue'.server = queue.server /\ queue'.index = queue.index + 1
        /\ DOMAIN queue'.files = DOMAIN queue.files \ {queue.index}
        /\ \A i \in DOMAIN queue'.files : queue'.files[i] = queue.files[i]
    BY <1>4, QueueFacts, Zenon
  <2>4. queue'.index .. queue'.server - 1 \subseteq DOMAIN queue'.files
    <3>1. \A i \in queue.index + 1 .. queue.server - 1 : i \in queue.index .. queue.server - 1 /\ i # queue.index
      BY <1>t
    <3> QED
      BY <2>3, <3>1 DEF QueueInv
  <2>5. changesRecoverable'
    <3>1. CASE twoMessages(current)
      <4>1. queue.server = queue.index + 2
        BY <3>1, Zenon DEF twoMessages
      <4>2. queue'.server = queue'.index + 1 /\ queue'.index \in queue'.index .. queue'.server - 1
        BY <1>t, <2>3, <4>1
      <4>3. queue'.files[queue.index + 1] = queue.files[queue.index + 1]
        BY <2>3, <2>4, <4>2, Zenon
      <4> QED
        BY <1>c, <2>3, <3>1, <4>2, <4>3, Zenon DEF changesRecoverable, twoMessages
    <3>2. CASE /\ queue.server = queue.index + 1
               /\ queue.files[queue.index] = [type |-> "state", chain |-> current]
      <4>1. cachesCurrent'
        BY <1>c, <2>1, <3>2 DEF cachesCurrent
      <4> QED
        BY <2>3, <3>2, <4>1, Zenon DEF changesRecoverable
    <3>3. CASE queue.server = queue.index
      BY <1>t, <2>1, <3>3
    <3> QED
      BY <2>2, <3>1, <3>2, <3>3, ZenonT(30) DEF changesRecoverable
  <2> QED
    BY <1>d, <2>1, <2>2, <2>4, <2>5, Zenon DEF QueueInv, changesApplied
<1> QED
  BY <1>1, <1>2, <1>3, <1>4, Zenon

(* The state change queue.                                                  *)
LEMMA QueueStep ==
    ASSUME TypeOK, StepInv, CurrentInv, SettledInv, QueueInv, [Next]_vars
    PROVE  QueueInv'
<1> USE DEF goto, checkpointed
<1>t. /\ queue.index \in Nat /\ queue.server \in Nat /\ queue.reader \in Nat
      /\ queue.index <= queue.server /\ DOMAIN queue.files \subseteq Nat
      /\ queue.index .. queue.server - 1 \subseteq DOMAIN queue.files
  BY Zenon DEF TypeOK, QueueInv
<1>f. ASSUME UNCHANGED <<durable, cache, queue>>,
             changesApplied' => changesApplied,
             checkpointed' => checkpointed,
             pc' = "stateChange" => pc = "stateChange",
             op' = "commit" /\ pc' \in {"preStateWritten", "supplementalData", "stateWritten"} =>
                 /\ op = "commit" /\ new' = new
                 /\ pc \in {"preStateWritten", "supplementalData", "stateWritten"},
             op' = "commit" /\ (checkpointed' \/ pc' = "updateIndex") =>
                 op = "commit" /\ (checkpointed \/ pc = "updateIndex"),
             op' = "commit" /\ pc' \in {"dropBlocks", "moveBlocks", "purgeBlocks", "purgeState",
                                        "renameState", "allUpdated"} =>
                 pc \in {"dropBlocks", "moveBlocks", "purgeBlocks", "purgeState", "renameState",
                         "allUpdated"} /\ op = "commit"
      PROVE  QueueInv'
  <2>1. op' = "commit" /\ pc' \in {"dropBlocks", "moveBlocks", "purgeBlocks", "purgeState",
                                   "renameState", "allUpdated"} => cachesCurrent
    BY <1>f, ZenonT(30) DEF QueueInv
  <2> QED
    BY <1>f, <1>t, <2>1, QueueFrame
<1>r. ASSUME readNext, UNCHANGED <<durable, cache, commitStep, pc, op, new>>
      PROVE  QueueInv'
  <2>1. /\ queue'.index = queue.index /\ queue'.server = queue.server
        /\ DOMAIN queue'.files = DOMAIN queue.files \ {queue.reader} /\ queue.reader < queue.index
        /\ \A i \in DOMAIN queue'.files : queue'.files[i] = queue.files[i]
    BY <1>r, ReadFacts, Zenon
  <2>2. \A i \in queue.index .. queue.server - 1 :
            i \in DOMAIN queue'.files /\ queue'.files[i] = queue.files[i]
    BY <1>t, <2>1
  <2>3. op = "commit" /\ pc \in {"dropBlocks", "moveBlocks", "purgeBlocks", "purgeState",
                                 "renameState", "allUpdated"} => cachesCurrent
    BY Zenon DEF QueueInv
  <2> QED
    BY <1>r, <2>1, <2>2, <2>3, QueueFrame, Zenon DEF changesApplied
<1>1. CASE UpdateIndex
  <2>1. queue' = [server |-> queue.server, index |-> queue.server, reader |-> queue.reader,
                  files |-> queue.files]
    BY <1>1, QueueFacts
  <2>2. pc' = "idle" /\ op' = "none" /\ commitStep' # "State_Written"
    BY <1>1, Zenon DEF UpdateIndex, StepInv
  <2>3. queue'.index .. queue'.server - 1 \subseteq DOMAIN queue'.files
    <3>1. queue'.index = queue.server /\ queue'.server = queue.server
      BY <2>1, Zenon
    <3>2. queue.server .. queue.server - 1 = {}
      BY <1>t, NothingQueued, Zenon
    <3> QED
      BY <3>1, <3>2, Zenon
  <2> QED
    BY <2>1, <2>2, <2>3, Zenon DEF QueueInv
<1>2. CASE RepairSpooling
  <2>1. queue' = [server |-> queue.index, index |-> queue.index, reader |-> queue.reader,
                  files |-> queue.files]
    BY <1>2, QueueFacts
  <2>2. pc' = "loadState" /\ op' = "recover" /\ commitStep' # "State_Written"
    BY <1>2, Zenon DEF RepairSpooling, StepInv
  <2>3. queue'.index .. queue'.server - 1 \subseteq DOMAIN queue'.files
    <3>1. queue'.index = queue.index /\ queue'.server = queue.index
      BY <2>1, Zenon
    <3>2. queue.index .. queue.index - 1 = {}
      BY <1>t, NothingQueued, Zenon
    <3> QED
      BY <3>1, <3>2, Zenon
  <2> QED
    BY <2>1, <2>2, <2>3, Zenon DEF QueueInv
<1>3. CASE FixupReader
  <2>1. queue' = [server |-> queue.server, index |-> queue.index, reader |-> queue.index,
                  files |-> queue.files]
    BY <1>3, QueueFacts
  <2>2. queue.index >= queue.server /\ pc' = "repairFiles" /\ op' = "recover"
        /\ UNCHANGED <<durable, cache, commitStep>>
    BY <1>3, Zenon DEF FixupReader, StepInv, stateVars, historyVars
  <2>3. queue.index = queue.server
    BY <1>t, <2>2, SMTT(30)
  <2> QED
    BY <1>t, <2>1, <2>2, <2>3, QueueFrame, Zenon
<1>4. CASE CatchUp
  <2>1. CASE readNext /\ UNCHANGED pc
    BY <1>4, <1>r, <2>1, ZenonT(30) DEF CatchUp, stateVars, memoryVars, historyVars
  <2>2. CASE pc' \in {"failed", "forward"} /\ UNCHANGED queue
    BY <1>4, <1>f, <2>2, ZenonT(30) DEF CatchUp, stateVars, memoryVars, historyVars, changesApplied, StepInv
  <2> QED
    BY <1>4, <2>1, <2>2 DEF CatchUp
<1>5. CASE BrokerRead
  BY <1>5, <1>r DEF BrokerRead, stateVars, memoryVars, historyVars
<1>6. ASSUME NEW common, NEW count, DropStagedBlocks(common, count)
      PROVE  QueueInv'
  BY <1>f, <1>6 DEF DropStagedBlocks, stateVars, changesApplied, StepInv
<1>7. CASE UNCHANGED vars \/ SaveStagedBlock \/ BlocksWritten \/ PreStateWritten
  BY <1>f, <1>7, ZenonT(30) DEF vars, SaveStagedBlock, BlocksWritten, PreStateWritten, spoolVars, stateVars,
         memoryVars, historyVars, changesApplied, StepInv
<1>8. CASE AllUpdated \/ SaveState \/ Boot \/ Shutdown \/ Crash
  BY <1>f, <1>8, Zenon DEF AllUpdated, SaveState, Boot, Shutdown, Crash, spoolVars, stateVars, memoryVars,
         historyVars, changesApplied, StepInv
<1>9. CASE MoveDropBlocks \/ MoveBlock \/ MoveDone \/ PurgeStaging \/ PurgeDone
  BY <1>f, <1>9, ZenonT(30) DEF MoveDropBlocks, MoveBlock, MoveDone, PurgeStaging, PurgeDone, spoolVars, stateVars,
         memoryVars, historyVars, changesApplied, StepInv
<1>10. CASE MoveToPurge \/ MoveToRename \/ Recover \/ LoadState
  BY <1>f, <1>10 DEF MoveToPurge, MoveToRename, Recover, LoadState, spoolVars, stateVars, memoryVars,
         historyVars, changesApplied, StepInv
<1>11. CASE RepairFiles \/ RecoverBlockFiles \/ Reset
  BY <1>f, <1>11, ZenonT(30) DEF RepairFiles, RecoverBlockFiles, Reset, NoCommitStep, spoolVars, stateVars,
         memoryVars, historyVars, changesApplied, StepInv
<1> QED
  BY <1>1, <1>2, <1>3, <1>4, <1>5, <1>6, <1>7, <1>8, <1>9, <1>10, <1>11, QueueWritten, QueueApplied, ZenonT(30)
     DEF Next, Work, Commit, MoveFiles, Recovery

(* Steps that change neither the unread messages nor what was delivered.    *)
LEMMA BrokerFrame ==
    ASSUME TypeOK, BrokerInv, UNCHANGED <<durable, delivered>>, crashedAt \subseteq crashedAt',
           queue'.reader = queue.reader, queue'.index = queue.index,
           \A i \in queue.reader .. queue.index - 1 :
               /\ (i \in DOMAIN queue'.files) = (i \in DOMAIN queue.files)
               /\ i \in DOMAIN queue.files => queue'.files[i] = queue.files[i],
           changePending' => changePending,
           changePending => changePending' \/ <<"commit", "updateIndex">> \in crashedAt'
    PROVE  BrokerInv'
<1>1. current' = current /\ durableCommits' = durableCommits
  BY CurrentFacts, Zenon
<1>2. \A i \in queue.reader .. queue.index - 1 : \A c : isStateChange(i, c)' = isStateChange(i, c)
  BY Zenon DEF isStateChange, commitOf
<1>3. \A i \in queue'.reader .. queue'.index - 1 : \A c \in 0 .. MaxCommits :
          isStateChange(i, c)' => c \in durableCommits'
  BY <1>1, <1>2, Zenon DEF BrokerInv
<1>4. changePending' => commitOf(current)' \in durableCommits'
  BY <1>1, Zenon DEF BrokerInv, commitOf
<1>5. ASSUME <<"commit", "updateIndex">> \notin crashedAt', NEW c \in durableCommits'
      PROVE  \/ c \in delivered'
             \/ \E i \in queue'.reader .. queue'.index - 1 : isStateChange(i, c)'
             \/ changePending' /\ c = commitOf(current)'
  <2>1. <<"commit", "updateIndex">> \notin crashedAt /\ c \in durableCommits
    BY <1>1, <1>5, ZenonT(30)
  <2>2. commitOf(current)' = commitOf(current)
    BY <1>1 DEF commitOf
  <2>3. CASE \E i \in queue.reader .. queue.index - 1 : isStateChange(i, c)
    BY <1>2, <2>3, ZenonT(30)
  <2>4. CASE changePending /\ c = commitOf(current)
    BY <1>5, <2>2, <2>4
  <2> QED
    BY <2>1, <2>3, <2>4, Zenon DEF BrokerInv
<1> QED
  BY <1>1, <1>3, <1>4, <1>5 DEF BrokerInv

(* What the checkpoint adds, and where it goes.                             *)
LEMMA BrokerQueued ==
    ASSUME TypeOK, StepInv, CurrentInv, QueueInv, BrokerInv, StateWritten \/ UpdateIndex
    PROVE  BrokerInv'
<1> USE DEF goto, checkpointed
<1>t. /\ queue.index \in Nat /\ queue.server \in Nat /\ queue.reader \in Nat
      /\ queue.reader <= queue.index /\ queue.index <= queue.server
  BY DEF TypeOK
<1>1. CASE StateWritten /\ op = "commit"
  <2>1. UNCHANGED <<queue, delivered, crashedAt>> /\ pc = "stateWritten" /\ ~checkpointed
        /\ commitStep' = "State_Written"
    BY <1>1 DEF StateWritten, spoolVars, StepInv
  <2>2. current' = new /\ durableCommits' = durableCommits \cup {commitOf(new)}
    BY <1>1, CurrentFacts, ZenonT(30)
  <2>3. queue.index < queue.server
    <3>1. queue.server = queue.index + 2
      BY <1>1, <2>1, Zenon DEF QueueInv, twoMessages
    <3> QED
      BY <1>t, <3>1
  <2>4. changePending' /\ ~changePending /\ commitOf(current)' = commitOf(new)
    BY <2>1, <2>2, <2>3, Zenon DEF changePending, commitOf
  <2>5. \A i, c : isStateChange(i, c)' = isStateChange(i, c)
    BY <2>1, Zenon DEF isStateChange, commitOf
  <2>6. \A i \in queue'.reader .. queue'.index - 1 : \A c \in 0 .. MaxCommits :
            isStateChange(i, c)' => c \in durableCommits'
    BY <2>1, <2>2, <2>5, Zenon DEF BrokerInv
  <2>7. <<"commit", "updateIndex">> \notin crashedAt' =>
            \A c \in durableCommits' :
                \/ c \in delivered'
                \/ \E i \in queue'.reader .. queue'.index - 1 : isStateChange(i, c)'
                \/ changePending' /\ c = commitOf(current)'
    BY <2>1, <2>2, <2>4, <2>5, ZenonT(30) DEF BrokerInv
  <2> QED
    BY <2>1, <2>2, <2>4, <2>6, <2>7, Zenon DEF BrokerInv
<1>2. CASE StateWritten /\ op # "commit"
  <2>1. op = "save" /\ UNCHANGED <<queue, delivered, durable, crashedAt>>
    BY <1>2, ZenonT(30) DEF StateWritten, spoolVars, StepInv
  <2>2. queue.server = queue.index
    BY <2>1, ZenonT(30) DEF QueueInv, changesApplied
  <2> QED
    BY <1>t, <2>1, <2>2, BrokerFrame DEF changePending
<1>3. CASE UpdateIndex
  <2>1. queue' = [server |-> queue.server, index |-> queue.server, reader |-> queue.reader,
                  files |-> queue.files]
    BY <1>3, QueueFacts
  <2>2. UNCHANGED <<delivered, durable, crashedAt>> /\ pc = "updateIndex"
    BY <1>3, ZenonT(30) DEF UpdateIndex, historyVars
  <2>3. twoMessages(current)
    BY <2>2 DEF QueueInv, StepInv
  <2>4. current' = current /\ durableCommits' = durableCommits
    BY <2>2, CurrentFacts, Zenon
  <2>5. queue.server = queue.index + 2 /\ queue.index + 1 \in DOMAIN queue.files
    BY <1>t, <2>3, SMTT(30) DEF QueueInv, twoMessages
  <2>6. changePending /\ ~changePending'
    BY <1>t, <2>1, <2>2, <2>5 DEF changePending
  <2>7. commitOf(current) \in durableCommits
    BY <2>6, Zenon DEF BrokerInv
  <2>8. \A i, c : isStateChange(i, c)' = isStateChange(i, c)
    BY <2>1 DEF isStateChange, commitOf
  <2>9. ASSUME NEW i \in queue'.reader .. queue'.index - 1, NEW c \in 0 .. MaxCommits,
               isStateChange(i, c)
        PROVE  c \in durableCommits
    <3>1. CASE i \in queue.reader .. queue.index - 1
      BY <2>9, <3>1 DEF BrokerInv
    <3>2. CASE i = queue.index
      BY <2>3, <2>9, <3>2, ZenonT(30) DEF twoMessages, isStateChange
    <3>3. CASE i = queue.index + 1
      BY <2>3, <2>7, <2>9, <3>3 DEF twoMessages, isStateChange
    <3>4. i \in queue.reader .. queue.index + 2 - 1
      <4>1. queue'.reader = queue.reader /\ queue'.index = queue.index + 2
        BY <2>1, <2>5, Zenon
      <4>2. i \in queue'.reader .. queue'.index - 1
        BY Zenon
      <4> QED
        BY <1>t, <4>1, <4>2
    <3> QED
      BY <1>t, <3>1, <3>2, <3>3, <3>4
  <2>10. isStateChange(queue.index + 1, commitOf(current))
    BY <2>3, <2>5 DEF isStateChange, twoMessages
  <2>11. ASSUME <<"commit", "updateIndex">> \notin crashedAt, NEW c \in durableCommits
         PROVE  c \in delivered \/ \E i \in queue'.reader .. queue'.index - 1 : isStateChange(i, c)
    <3>1. CASE \E i \in queue.reader .. queue.index - 1 : isStateChange(i, c)
      <4>1. queue.reader .. queue.index - 1 \subseteq queue'.reader .. queue'.index - 1
        BY <1>t, <2>1
      <4> QED
        BY <3>1, <4>1, Zenon
    <3>2. CASE c = commitOf(current)
      <4>1. queue.index + 1 \in queue'.reader .. queue'.index - 1
        BY <1>t, <2>1, <2>5
      <4> QED
        BY <2>10, <3>2, <4>1, ZenonT(30)
    <3> QED
      BY <2>11, <3>1, <3>2 DEF BrokerInv
  <2> QED
    BY <2>2, <2>4, <2>6, <2>8, <2>9, <2>11, Zenon DEF BrokerInv
<1> QED
  BY <1>1, <1>2, <1>3, Zenon

(* The broker reads, or recovery delivers in its place.                     *)
LEMMA BrokerDelivered ==
    ASSUME TypeOK, QueueInv, BrokerInv, readNext \/ ForwardNext,
           UNCHANGED <<durable, crashedAt, commitStep, pc>>
    PROVE  BrokerInv'
<1> USE DEF goto, checkpointed
<1>t. /\ queue.index \in Nat /\ queue.server \in Nat /\ queue.reader \in Nat
      /\ queue.reader <= queue.index /\ queue.index <= queue.server
      /\ DOMAIN queue.files \subseteq Nat /\ queue.files \in [DOMAIN queue.files -> Messages]
  BY Zenon DEF TypeOK
<1>c. current' = current /\ durableCommits' = durableCommits /\ commitOf(current)' = commitOf(current)
  BY CurrentFacts DEF commitOf
<1>1. CASE readNext
  <2> DEFINE message == queue.files[queue.reader]
  <2>1. /\ queue.reader < queue.index /\ queue.reader \in DOMAIN queue.files
        /\ queue'.server = queue.server /\ queue'.index = queue.index
        /\ queue'.reader = queue.reader + 1
        /\ DOMAIN queue'.files = DOMAIN queue.files \ {queue.reader}
        /\ \A i \in DOMAIN queue'.files : queue'.files[i] = queue.files[i]
        /\ delivered' = IF message.type = "state" THEN delivered \cup {commitOf(message.chain)}
                        ELSE delivered
    BY <1>1, ReadFacts, Zenon
  <2>2. changePending' = changePending
    BY <2>1, ZenonT(30) DEF changePending
  <2>3. \A i \in queue'.reader .. queue'.index - 1 :
            i \in queue.reader .. queue.index - 1 /\ i # queue.reader
    BY <1>t, <2>1, SMTT(30)
  <2>4. \A i \in queue'.reader .. queue'.index - 1 : \A c : isStateChange(i, c)' = isStateChange(i, c)
    BY <2>1, <2>3 DEF isStateChange, commitOf
  <2>5. message.type = "state" =>
            commitOf(message.chain) \in 0 .. MaxCommits /\ isStateChange(queue.reader, commitOf(message.chain))
    BY <1>t, <2>1, MessageFacts, ZenonT(30) DEF isStateChange
  <2>6. delivered' \subseteq durableCommits
    <3>1. queue.reader \in queue.reader .. queue.index - 1
      BY <1>t, <2>1, SMTT(30)
    <3> QED
      BY <2>1, <2>5, <3>1, ZenonT(30) DEF BrokerInv
  <2>7. \A i \in queue'.reader .. queue'.index - 1 : \A c \in 0 .. MaxCommits :
            isStateChange(i, c)' => c \in durableCommits'
    BY <1>c, <2>3, <2>4 DEF BrokerInv
  <2>8. ASSUME NEW c, NEW i \in queue.reader .. queue.index - 1, isStateChange(i, c)
        PROVE  c \in delivered' \/ \E j \in queue'.reader .. queue'.index - 1 : isStateChange(j, c)'
    <3>1. CASE i = queue.reader
      BY <2>1, <2>8, <3>1 DEF isStateChange
    <3>2. CASE i # queue.reader
      <4>1. i \in queue'.reader .. queue'.index - 1
        BY <1>t, <2>1, <3>2
      <4> QED
        BY <2>4, <2>8, <4>1, ZenonT(30)
    <3> QED
      BY <3>1, <3>2, Zenon
  <2>9. delivered \subseteq delivered'
    BY <2>1, Zenon
  <2> QED
    BY <1>c, <2>2, <2>6, <2>7, <2>8, <2>9, Zenon DEF BrokerInv
<1>2. CASE ForwardNext
  <2> DEFINE message == queue.files[queue.index]
  <2>1. /\ pc = "forward" /\ queue.index < queue.server
        /\ delivered' = IF message.type = "state" THEN delivered \cup {commitOf(message.chain)}
                        ELSE delivered
    BY <1>2 DEF ForwardNext, deliver
  <2>2. /\ queue'.server = queue.server /\ queue'.index = queue.index + 1
        /\ queue'.reader = queue.reader
        /\ DOMAIN queue'.files = DOMAIN queue.files \ {queue.index}
        /\ \A i \in DOMAIN queue'.files : queue'.files[i] = queue.files[i]
    BY <1>2, QueueFacts, Zenon
  <2>3. checkpointed /\ changesRecoverable
    <3>1. queue.server # queue.index
      BY <1>t, <2>1
    <3>2. ~changesApplied
      BY <3>1, Zenon DEF QueueInv
    <3> QED
      BY <2>1, <3>2, ZenonT(30) DEF QueueInv, changesApplied
  <2>4. changePending /\ commitOf(current) \in durableCommits
    BY <2>1, <2>3, ZenonT(30) DEF changePending, BrokerInv
  <2>5. \/ message.type = "score" /\ changePending'
        \/ message.type = "state" /\ message.chain = current
    <3>1. CASE queue.server = queue.index
      BY <1>t, <2>1, <3>1, SMTT(30)
    <3>2. CASE queue.server = queue.index + 1 /\ message = [type |-> "state", chain |-> current]
      BY <3>2
    <3>3. CASE queue.server = queue.index + 2 /\ message.type = "score"
      <4>1. queue'.index < queue'.server
        BY <1>t, <2>2, <3>3
      <4> QED
        BY <2>3, <3>3, <4>1, Zenon DEF changePending
    <3> QED
      BY <2>3, <3>1, <3>2, <3>3, ZenonT(30) DEF changesRecoverable, twoMessages
  <2>6. delivered' \subseteq durableCommits /\ delivered \subseteq delivered'
    BY <2>1, <2>4, <2>5, Zenon DEF BrokerInv
  <2>7. \A i \in queue.reader .. queue.index - 1 : i # queue.index /\ i \in queue'.reader .. queue'.index - 1
    BY <1>t, <2>2
  <2>8. \A i \in queue.reader .. queue.index - 1 : \A c : isStateChange(i, c)' = isStateChange(i, c)
    BY <2>2, <2>7, Zenon DEF isStateChange, commitOf
  <2>10. ASSUME NEW i \in queue'.reader .. queue'.index - 1, NEW c \in 0 .. MaxCommits,
                isStateChange(i, c)'
         PROVE  c \in durableCommits'
    <3>1. i # queue.index
      BY <2>2, <2>10, Zenon DEF isStateChange
    <3>2. i \in queue.reader .. queue.index - 1
      BY <1>t, <2>2, <3>1
    <3> QED
      BY <1>c, <2>8, <2>10, <3>2, Zenon DEF BrokerInv
  <2>11. ASSUME NEW c \in durableCommits, <<"commit", "updateIndex">> \notin crashedAt
         PROVE  \/ c \in delivered'
                \/ \E i \in queue'.reader .. queue'.index - 1 : isStateChange(i, c)'
                \/ changePending' /\ c = commitOf(current)
    <3>1. CASE \E i \in queue.reader .. queue.index - 1 : isStateChange(i, c)
      BY <2>7, <2>8, <3>1, Zenon
    <3>2. CASE c = commitOf(current)
      BY <2>1, <2>5, <3>2, Zenon
    <3> QED
      BY <2>6, <2>11, <3>1, <3>2, Zenon DEF BrokerInv
  <2> QED
    BY <1>c, <2>4, <2>6, <2>10, <2>11, Zenon DEF BrokerInv
<1> QED
  BY <1>1, <1>2, Zenon

(* What the broker has seen and will see.                                   *)
LEMMA BrokerStep ==
    ASSUME TypeOK, StepInv, CurrentInv, QueueInv, BrokerInv, UnreadInv, [Next]_vars
    PROVE  BrokerInv'
<1> USE DEF goto, checkpointed
<1>t. /\ queue.index \in Nat /\ queue.server \in Nat /\ queue.reader \in Nat
      /\ queue.reader <= queue.index /\ queue.index <= queue.server
  BY Zenon DEF TypeOK
<1>f. ASSUME UNCHANGED <<durable, queue, delivered>>, crashedAt \subseteq crashedAt',
             queue.index < queue.server /\ (checkpointed' \/ pc' = "updateIndex") =>
                 checkpointed \/ pc = "updateIndex",
             queue.index < queue.server /\ (checkpointed \/ pc = "updateIndex") =>
                 checkpointed' \/ pc' = "updateIndex" \/ <<"commit", "updateIndex">> \in crashedAt'
      PROVE  BrokerInv'
  BY <1>f, BrokerFrame DEF changePending
<1>1. CASE NotifyScoreChange \/ NotifyStateChange
  <2>1. ~checkpointed /\ UNCHANGED <<durable, delivered, commitStep, crashedAt>>
        /\ pc # "updateIndex" /\ pc' # "updateIndex"
    BY <1>1 DEF NotifyScoreChange, NotifyStateChange, historyVars, StepInv
  <2>2. /\ queue'.index = queue.index /\ queue'.reader = queue.reader
        /\ \E m : queue'.files = put(queue.files, queue.server, m)
    <3>1. queue = [server |-> queue.server, index |-> queue.index, reader |-> queue.reader,
                   files |-> queue.files]
      BY DEF TypeOK
    <3> QED
      BY <1>1, <3>1, Zenon DEF NotifyScoreChange, NotifyStateChange, write
  <2>3. \A i \in queue.reader .. queue.index - 1 : i # queue.server
    BY <1>t, SMTT(30)
  <2>4. \A i \in queue.reader .. queue.index - 1 :
            /\ (i \in DOMAIN queue'.files) = (i \in DOMAIN queue.files)
            /\ i \in DOMAIN queue.files => queue'.files[i] = queue.files[i]
    <3>1. PICK m : queue'.files = put(queue.files, queue.server, m)
      BY <2>2
    <3>2. /\ DOMAIN queue'.files = DOMAIN queue.files \cup {queue.server}
          /\ \A i \in DOMAIN queue.files : i # queue.server => queue'.files[i] = queue.files[i]
      BY <3>1 DEF put
    <3> QED
      BY <2>3, <3>2, SMTT(30)
  <2> QED
    BY <2>1, <2>2, <2>4, BrokerFrame, ZenonT(30) DEF changePending
<1>2. CASE RepairSpooling
  <2>1. queue' = [server |-> queue.index, index |-> queue.index, reader |-> queue.reader,
                  files |-> queue.files]
    BY <1>2, QueueFacts
  <2>2. ~checkpointed /\ UNCHANGED <<durable, delivered, commitStep, crashedAt>>
        /\ pc # "updateIndex" /\ pc' # "updateIndex"
    BY <1>2 DEF RepairSpooling, historyVars, StepInv
  <2> QED
    BY <2>1, <2>2, BrokerFrame, ZenonT(30) DEF changePending
<1>3. CASE FixupReader
  <2>1. queue' = [server |-> queue.server, index |-> queue.index, reader |-> queue.index,
                  files |-> queue.files]
    BY <1>3, QueueFacts
  <2>2. UNCHANGED <<durable, delivered, commitStep, crashedAt>> /\ pc = "forward"
        /\ queue.index >= queue.server
    BY <1>3 DEF FixupReader, historyVars
  <2>3. current' = current /\ durableCommits' = durableCommits
    BY <2>2, CurrentFacts, Zenon
  <2>4. ~changePending /\ ~changePending'
    BY <1>t, <2>1, <2>2 DEF changePending
  <2>5. \A i \in queue.reader .. queue.index - 1 : \A c : ~isStateChange(i, c)
    BY <2>2, Zenon DEF UnreadInv, unread, isStateChange
  <2>6. queue'.reader .. queue'.index - 1 = {}
    BY <1>t, <2>1
  <2> QED
    BY <2>2, <2>3, <2>4, <2>5, <2>6, Zenon DEF BrokerInv
<1>4. CASE CatchUp
  <2>1. CASE readNext /\ UNCHANGED pc
    BY <1>4, <2>1, BrokerDelivered, Zenon DEF CatchUp, historyVars
  <2>2. CASE pc' \in {"failed", "forward"} /\ UNCHANGED <<queue, delivered>>
    BY <1>4, <1>f, <2>2, Zenon DEF CatchUp, historyVars, StepInv
  <2> QED
    BY <1>4, <2>1, <2>2, Zenon DEF CatchUp
<1>5. CASE BrokerRead \/ ForwardNext
  BY <1>5, BrokerDelivered DEF BrokerRead, ForwardNext, historyVars
<1>6. ASSUME NEW common, NEW count, DropStagedBlocks(common, count)
      PROVE  BrokerInv'
  BY <1>f, <1>6 DEF DropStagedBlocks, StepInv
<1>7. CASE UNCHANGED vars \/ SaveStagedBlock \/ BlocksWritten \/ PreStateWritten
  BY <1>f, <1>7, ZenonT(30) DEF vars, SaveStagedBlock, BlocksWritten, PreStateWritten, spoolVars, historyVars, StepInv
<1>8. ASSUME NEW s \in SubCaches, CommitSubCache(s) \/ RepairSubCache(s)
      PROVE  BrokerInv'
  BY <1>f, <1>8, ZenonT(30) DEF CommitSubCache, RepairSubCache, spoolVars, historyVars
<1>9. CASE AllUpdated \/ Reset
  <2>1. op # "commit" => queue.server = queue.index
    BY <1>9 DEF AllUpdated, Reset, QueueInv, changesApplied, StepInv
  <2> QED
    BY <1>9, <1>f, <1>t, <2>1, SMTT(30) DEF AllUpdated, Reset, NoCommitStep, spoolVars, historyVars, StepInv
<1>10. CASE SaveState \/ Boot \/ Shutdown \/ Crash \/ CommitCache
  BY <1>f, <1>10, Zenon DEF SaveState, Boot, Shutdown, Crash, CommitCache, spoolVars, historyVars, StepInv
<1>11. CASE MoveDropBlocks \/ MoveBlock \/ MoveDone \/ PurgeStaging \/ PurgeDone
  BY <1>f, <1>11 DEF MoveDropBlocks, MoveBlock, MoveDone, PurgeStaging, PurgeDone, spoolVars,
         historyVars, StepInv
<1>12. CASE MoveToPurge \/ MoveToRename \/ Recover \/ LoadState
  BY <1>f, <1>12, ZenonT(30) DEF MoveToPurge, MoveToRename, Recover, LoadState, spoolVars, historyVars, StepInv
<1>13. CASE RepairFiles \/ RecoverBlockFiles
  BY <1>f, <1>13, ZenonT(30) DEF RepairFiles, RecoverBlockFiles, spoolVars, historyVars, StepInv
<1> QED
  BY <1>1, <1>2, <1>3, <1>4, <1>5, <1>6, <1>7, <1>8, <1>9, <1>10, <1>11, <1>12, <1>13, BrokerQueued, Zenon
     DEF Next, Work, Commit, MoveFiles, Recovery

(* Every crash is remembered.                                               *)
LEMMA TornStays ==
    ASSUME [Next]_vars
    PROVE  crashedAt \subseteq crashedAt' /\ (torn => torn')
<1>1. crashedAt \subseteq crashedAt'
  BY Zenon DEF Next, Work, Commit, MoveFiles, Recovery, vars, historyVars,
         DropStagedBlocks, SaveStagedBlock, BlocksWritten, NotifyScoreChange, NotifyStateChange,
         PreStateWritten, StateWritten, CommitSubCache, CommitCache, AllUpdated, UpdateIndex,
         MoveDropBlocks, MoveBlock, MoveDone, PurgeStaging, PurgeDone, MoveToPurge, MoveToRename,
         Recover, RepairSpooling, LoadState, CatchUp, RepairSubCache, ForwardNext, FixupReader,
         RepairFiles, RecoverBlockFiles, Reset, SaveState, Boot, Shutdown, Crash, BrokerRead
<1> QED
  BY <1>1, ZenonT(30) DEF torn, TornMoves

(* The unread messages.                                                     *)
LEMMA UnreadStep ==
    ASSUME TypeOK, StepInv, QueueInv, UnreadInv, [Next]_vars
    PROVE  UnreadInv'
<1> USE DEF goto, checkpointed
<1> DEFINE gone == unread \cap DOMAIN queue.files = {}
           awaiting == {"crashed", "loadState", "catchUp", "forward", "failed"}
<1>t. /\ queue.index \in Nat /\ queue.server \in Nat /\ queue.reader \in Nat
      /\ queue.reader <= queue.index /\ queue.index <= queue.server
      /\ DOMAIN queue.files \subseteq Nat
      /\ queue.index .. queue.server - 1 \subseteq DOMAIN queue.files
  BY SMTT(30) DEF TypeOK, QueueInv
<1>s. torn => torn'
  BY TornStays
<1>i. /\ unread \subseteq DOMAIN queue.files \/ (gone /\ checkpointed /\ pc \in awaiting /\ (pc = "forward" \/ torn))
      /\ pc = "forward" => gone
  BY DEF UnreadInv
<1>f. ASSUME UNCHANGED queue, pc' # "forward" \/ pc' = pc,
             pc \in awaiting /\ checkpointed => pc' \in awaiting /\ checkpointed',
             pc = "forward" => pc' = "forward" \/ torn'
      PROVE  UnreadInv'
  <2>1. unread' = unread
    BY <1>f, Zenon DEF unread
  <2> QED
    BY <1>f, <1>i, <1>s, <2>1, Zenon DEF UnreadInv
<1>r. ASSUME readNext, UNCHANGED <<commitStep, pc>>, pc # "forward"
      PROVE  UnreadInv'
  <2>1. /\ queue'.index = queue.index /\ queue'.reader = queue.reader + 1
        /\ DOMAIN queue'.files = DOMAIN queue.files \ {queue.reader}
        /\ queue.reader < queue.index /\ queue.reader \in DOMAIN queue.files
    BY <1>r, ReadFacts, Zenon
  <2>2. queue.reader \in unread
    BY <1>t, <2>1 DEF unread
  <2>3. unread \subseteq DOMAIN queue.files
    BY <1>i, <2>1, <2>2, Zenon
  <2>4. \A i \in unread' : i \in unread /\ i # queue.reader
    BY <1>t, <2>1 DEF unread
  <2> QED
    BY <1>r, <2>1, <2>3, <2>4, Zenon DEF UnreadInv
<1>1. CASE NotifyScoreChange \/ NotifyStateChange
  <2>1. /\ queue'.index = queue.index /\ queue'.reader = queue.reader
        /\ DOMAIN queue.files \subseteq DOMAIN queue'.files
    <3>1. queue = [server |-> queue.server, index |-> queue.index, reader |-> queue.reader,
                   files |-> queue.files]
      BY DEF TypeOK
    <3>2. PICK m : /\ queue'.index = queue.index /\ queue'.reader = queue.reader
                   /\ queue'.files = put(queue.files, queue.server, m)
      BY <1>1, <3>1, ZenonT(30) DEF NotifyScoreChange, NotifyStateChange, write
    <3>3. DOMAIN queue'.files = DOMAIN queue.files \cup {queue.server}
      BY <3>2 DEF put
    <3> QED
      BY <3>2, <3>3, Zenon
  <2>2. unread' = unread /\ pc \notin awaiting /\ pc' # "forward"
    BY <1>1, <2>1, Zenon DEF unread, NotifyScoreChange, NotifyStateChange
  <2> QED
    BY <1>i, <2>1, <2>2, Zenon DEF UnreadInv
<1>2. CASE UpdateIndex
  <2>1. queue' = [server |-> queue.server, index |-> queue.server, reader |-> queue.reader,
                  files |-> queue.files]
    BY <1>2, QueueFacts
  <2>2. pc \notin awaiting /\ pc' # "forward"
    BY <1>2, Zenon DEF UpdateIndex
  <2>3. \A i \in unread' : i \in unread \/ i \in queue.index .. queue.server - 1
    <3>1. queue'.index = queue.server /\ queue'.reader = queue.reader
      BY <2>1, Zenon
    <3>2. \A i \in queue.reader .. queue.server - 1 :
              i \in queue.reader .. queue.index - 1 \/ i \in queue.index .. queue.server - 1
      BY <1>t
    <3> QED
      BY <3>1, <3>2, Zenon DEF unread
  <2> QED
    BY <1>i, <1>t, <2>1, <2>2, <2>3, ZenonT(30) DEF UnreadInv
<1>3. CASE RepairSpooling
  <2>1. queue' = [server |-> queue.index, index |-> queue.index, reader |-> queue.reader,
                  files |-> queue.files]
    BY <1>3, QueueFacts
  <2>2. pc \notin awaiting /\ pc' # "forward"
    BY <1>3, SMTT(30) DEF RepairSpooling
  <2>3. unread' = unread
    BY <2>1 DEF unread
  <2> QED
    BY <1>i, <2>1, <2>2, <2>3, Zenon DEF UnreadInv
<1>4. CASE FixupReader
  <2>1. queue' = [server |-> queue.server, index |-> queue.index, reader |-> queue.index,
                  files |-> queue.files]
    BY <1>4, QueueFacts
  <2>2. unread' = {} /\ pc' # "forward"
    BY <1>4, <1>t, <2>1 DEF FixupReader, unread
  <2> QED
    BY <2>2, ZenonT(30) DEF UnreadInv
<1>5. CASE ForwardNext
  <2>1. /\ queue'.index = queue.index + 1 /\ queue'.reader = queue.reader
        /\ DOMAIN queue'.files = DOMAIN queue.files \ {queue.index}
    BY <1>5, QueueFacts
  <2>2. pc = "forward" /\ pc' = "forward" /\ commitStep' = commitStep /\ checkpointed
    BY <1>5, <1>t, SMTT(30) DEF ForwardNext, QueueInv, changesApplied
  <2>3. \A i \in unread' : i \in unread \/ i = queue.index
    BY <1>t, <2>1 DEF unread
  <2>4. unread' \cap DOMAIN queue'.files = {}
    BY <1>i, <2>1, <2>2, <2>3, Zenon
  <2> QED
    BY <2>2, <2>4, Zenon DEF UnreadInv
<1>6. CASE CatchUp
  <2>1. CASE readNext /\ UNCHANGED pc
    BY <1>6, <1>r, <2>1, Zenon DEF CatchUp
  <2>2. CASE pc' = "failed" /\ UNCHANGED queue
    BY <1>6, <1>f, <2>2, Zenon DEF CatchUp
  <2>3. CASE queue.reader >= queue.index /\ pc' = "forward" /\ UNCHANGED queue
    <3>1. unread' = {}
      BY <1>t, <2>3, SMTT(30) DEF unread
    <3> QED
      BY <3>1, Zenon DEF UnreadInv
  <2> QED
    BY <1>6, <2>1, <2>2, <2>3, Zenon DEF CatchUp
<1>7. CASE BrokerRead
  BY <1>7, <1>r DEF BrokerRead, StepInv
<1>8. CASE Crash
  <2>1. pc = "forward" => <<"recover", "forward">> \in crashedAt'
    BY <1>8, ZenonT(30) DEF Crash, StepInv
  <2>2. pc = "forward" => torn'
    BY <2>1 DEF torn, TornMoves
  <2> QED
    BY <1>8, <1>f, <2>2, Zenon DEF Crash, spoolVars
<1>9. ASSUME NEW common, NEW count, DropStagedBlocks(common, count)
      PROVE  UnreadInv'
  BY <1>f, <1>9, ZenonT(30) DEF DropStagedBlocks
<1>10. CASE UNCHANGED vars \/ SaveStagedBlock \/ BlocksWritten \/ PreStateWritten \/ StateWritten
  BY <1>f, <1>10 DEF vars, SaveStagedBlock, BlocksWritten, PreStateWritten, StateWritten, spoolVars
<1>11. ASSUME NEW s \in SubCaches, CommitSubCache(s) \/ RepairSubCache(s)
       PROVE  UnreadInv'
  BY <1>f, <1>11, ZenonT(30) DEF CommitSubCache, RepairSubCache, spoolVars
<1>12. CASE CommitCache \/ AllUpdated \/ Reset \/ SaveState \/ Boot \/ Shutdown
  BY <1>f, <1>12 DEF CommitCache, AllUpdated, Reset, SaveState, Boot, Shutdown, spoolVars
<1>13. CASE MoveDropBlocks \/ MoveBlock \/ MoveDone \/ PurgeStaging \/ PurgeDone
  BY <1>f, <1>13 DEF MoveDropBlocks, MoveBlock, MoveDone, PurgeStaging, PurgeDone, spoolVars
<1>14. CASE MoveToPurge \/ MoveToRename \/ Recover \/ LoadState \/ RepairFiles \/ RecoverBlockFiles
  BY <1>f, <1>14, Zenon DEF MoveToPurge, MoveToRename, Recover, LoadState, RepairFiles, RecoverBlockFiles,
         spoolVars
<1> QED
  BY <1>1, <1>2, <1>3, <1>4, <1>5, <1>6, <1>7, <1>8, <1>9, <1>10, <1>11, <1>12, <1>13, <1>14, ZenonT(30)
     DEF Next, Work, Commit, MoveFiles, Recovery

(* A crash at a step whose files are not whole is one of TornMoves.         *)
LEMMA TornByCrash ==
    ASSUME TypeOK, StepInv, BlocksInv, Crash, checkpointed, ~torn'
    PROVE  stateIntact /\ (stagingIntact \/ staging.index = 0)
<1> USE DEF checkpointed
<1>1. \A at \in crashedAt' : ~(at[1] \in DOMAIN TornMoves /\ at[2] \in TornMoves[at[1]])
  BY DEF torn
<1>2. <<op, pc>> \in crashedAt' /\ pc \notin {"crashed", "failed", "stopped"}
  BY SMTT(30) DEF Crash
<1>3. ~(op \in DOMAIN TornMoves /\ pc \in TornMoves[op])
  <2>1. <<op, pc>>[1] = op /\ <<op, pc>>[2] = pc
    OBVIOUS
  <2> QED
    BY <1>1, <1>2, <2>1
<1>4. DOMAIN TornMoves = {"commit", "save", "recover"}
      /\ TornMoves["commit"] = {"moveBlocks", "purgeBlocks", "purgeState", "renameState"}
      /\ TornMoves["save"] = {"renameState"}
      /\ TornMoves["recover"] = {"forward", "renameState", "moveBlockFiles", "dropBlocks",
                                 "moveBlocks", "purgeBlocks"}
  BY ZenonT(30) DEF TornMoves
<1>5. pc \in Labels
  BY Zenon DEF TypeOK
<1>6. stateIntact
  BY <1>2, <1>3, <1>4, <1>5, Zenon DEF stateIntact, StepInv, Labels
<1>7. stagingIntact \/ pc \in {"allUpdated", "reset"}
  BY <1>2, <1>3, <1>4, <1>5, Zenon DEF stagingIntact, StepInv, Labels
<1>8. pc \in {"allUpdated", "reset"} => staging.index = 0
  BY Zenon DEF BlocksInv, stagingUnused
<1> QED
  BY <1>6, <1>7, <1>8

(* The files recovery depends on.                                           *)
LEMMA TornStep ==
    ASSUME TypeOK, StepInv, CurrentInv, SettledInv, BlocksInv, StateInv, QueueInv, UnreadInv, TornInv,
           [Next]_vars
    PROVE  TornInv'
<1> USE DEF goto, checkpointed
<1>t. staging.index \in Nat /\ Len(current) \in Nat /\ Len(current) >= 2
      /\ current \notin {Absent, Partial}
  BY ChainFacts DEF TypeOK, CurrentInv
<1>s. torn => torn'
  BY TornStays, Zenon
<1>f. ASSUME UNCHANGED <<state, storage, staging>>, checkpointed' => checkpointed,
             checkpointed /\ stateIntact' => stateIntact,
             checkpointed /\ stagingIntact' => stagingIntact,
             pc' # "failed" \/ pc = "failed"
      PROVE  TornInv'
  BY <1>f, <1>s DEF TornInv
<1>1. CASE StateWritten
  <2>1. /\ UNCHANGED <<state, storage, staging>> /\ ~checkpointed /\ op' = op /\ pc' # "failed"
        /\ op \in {"commit", "save"} /\ pc = "stateWritten"
    BY <1>1 DEF StateWritten, stateVars, spoolVars, StepInv
  <2>2. storage = current /\ state = current
    BY <2>1 DEF SettledInv
  <2>3. staging.index = 0 \/ staging.index \in DOMAIN staging.files
    <3>1. CASE op = "save"
      BY <3>1, Zenon DEF BlocksInv, stagingUnused
    <3>2. CASE op = "commit"
      <4>1. stagedUpTo(Len(new)) /\ start \in 2 .. Len(new)
        BY <2>1, <3>2, Zenon DEF BlocksInv, CurrentInv
      <4>2. Len(new) \in start .. Len(new)
        BY <4>1, ChainFacts DEF TypeOK
      <4> QED
        BY <4>1, <4>2, Zenon DEF stagedUpTo
    <3> QED
      BY <2>1, <3>1, <3>2, Zenon
  <2> QED
    BY <1>t, <2>1, <2>2, <2>3, ZenonT(30) DEF TornInv
<1>2. CASE PurgeDone
  <2>1. /\ UNCHANGED <<state, storage, staging>> /\ checkpointed /\ staging.index = 0
        /\ pc = "purgeBlocks" /\ op \in {"commit", "recover"} /\ op' = op
        /\ pc' = IF op = "commit" THEN "purgeState" ELSE "reset"
    BY <1>2, Zenon DEF PurgeDone, stateVars, spoolVars, StepInv
  <2>2. op = "recover" => storage = current /\ state = current
    BY <2>1, Zenon DEF BlocksInv, StateInv, stateMoved
  <2> QED
    BY <1>t, <2>1, <2>2, Zenon DEF TornInv, stateIntact
<1>3. CASE MoveToRename
  <2>1. /\ UNCHANGED <<storage, staging, commitStep, op>> /\ checkpointed /\ state' = stateTmp
        /\ pc = "renameState" /\ pc' = IF op = "recover" THEN "moveBlockFiles" ELSE "allUpdated"
    BY <1>3 DEF MoveToRename, spoolVars, StepInv
  <2>2. state' = current
    BY <2>1 DEF StateInv, stateNotMoved
  <2>3. op # "recover" => storage = current
    BY <2>1, UnstagedIsCurrent, Zenon DEF BlocksInv, stagingUnused, StepInv
  <2>4. ~torn => staging.index = 0 \/ staging.index \in DOMAIN staging.files
    BY <2>1, Zenon DEF TornInv, stagingIntact
  <2> QED
    BY <1>s, <1>t, <2>1, <2>2, <2>3, <2>4, Zenon DEF TornInv, stateIntact, stagingIntact
<1>4. CASE LoadState
  <2>1. UNCHANGED <<state, storage, staging, commitStep, op>> /\ pc = "loadState"
        /\ pc' = IF isLoadable THEN "catchUp" ELSE "failed"
    BY <1>4 DEF LoadState, spoolVars
  <2>2. ~checkpointed => isLoadable
    BY <1>t, Zenon DEF SettledInv, isLoadable
  <2>3. checkpointed /\ ~torn => isLoadable
    BY <2>1, Zenon DEF TornInv, stateIntact, isLoadable
  <2> QED
    BY <1>s, <2>1, <2>2, <2>3, Zenon DEF TornInv, stateIntact, stagingIntact
<1>5. CASE Boot
  <2>1. pc = "stopped" /\ ~checkpointed /\ commitStep' = commitStep
    BY <1>5 DEF Boot, StepInv
  <2>2. pc' = "idle"
    BY <1>5, <1>t, <2>1, Zenon DEF Boot, SettledInv
  <2> QED
    BY <2>1, <2>2, Zenon DEF TornInv
<1>6. CASE CatchUp
  <2>1. UNCHANGED <<state, storage, staging, commitStep, op>> /\ pc = "catchUp"
    BY <1>6, Zenon DEF CatchUp, stateVars
  <2>2. CASE pc' \in {"catchUp", "forward"}
    BY <1>f, <2>1, <2>2, Zenon DEF stateIntact, stagingIntact
  <2>3. CASE queue.reader < queue.index /\ queue.reader \notin DOMAIN queue.files /\ pc' = "failed"
    <3>1. queue.reader \in unread
      BY <2>3, SMTT(30) DEF unread, TypeOK
    <3>2. torn
      BY <2>1, <2>3, <3>1, Zenon DEF UnreadInv
    <3> QED
      BY <1>s, <3>2, Zenon DEF TornInv
  <2> QED
    BY <1>6, <2>1, <2>2, <2>3, Zenon DEF CatchUp
<1>7. CASE RecoverBlockFiles
  <2>1. UNCHANGED <<state, storage, staging, commitStep, op>> /\ pc = "moveBlockFiles" /\ checkpointed
        /\ op = "recover"
    BY <1>7 DEF RecoverBlockFiles, stateVars, spoolVars, StepInv
  <2>2. state = current
    BY <2>1, Zenon DEF StateInv, stateMoved
  <2>3. CASE staging.index = 0 /\ pc' = "reset"
    <3>1. storage = current
      BY <2>1, <2>3, UnstagedIsCurrent, Zenon DEF BlocksInv
    <3> QED
      BY <1>t, <2>1, <2>2, <2>3, <3>1, Zenon DEF TornInv
  <2>4. CASE staging.index # 0 /\ staging.index \notin DOMAIN staging.files /\ pc' = "failed"
    <3>1. torn
      BY <2>1, <2>4, Zenon DEF TornInv, stagingIntact
    <3> QED
      BY <1>s, <3>1 DEF TornInv
  <2>5. CASE staging.index \in DOMAIN staging.files /\ pc' = "dropBlocks"
    BY <2>1, <2>5, Zenon DEF TornInv, stateIntact
  <2> QED
    BY <1>7, <2>3, <2>4, <2>5, ZenonT(30) DEF RecoverBlockFiles
<1>8. CASE Crash
  <2>1. UNCHANGED <<state, storage, staging, commitStep>> /\ pc' = "crashed"
    BY <1>8 DEF Crash, spoolVars
  <2>2. checkpointed /\ ~torn' => stateIntact /\ (stagingIntact \/ staging.index = 0)
    BY <1>8, TornByCrash, Zenon
  <2> QED
    BY <1>s, <2>1, <2>2, ZenonT(30) DEF TornInv
<1>9. CASE AllUpdated \/ Reset \/ SaveState \/ BlocksWritten
  BY <1>9 DEF TornInv, AllUpdated, Reset, SaveState, BlocksWritten, NoCommitStep
<1>10. ASSUME NEW common, NEW count, DropStagedBlocks(common, count)
       PROVE  TornInv'
  BY <1>10 DEF TornInv, DropStagedBlocks, StepInv
<1>11. CASE SaveStagedBlock \/ NotifyScoreChange \/ NotifyStateChange \/ PreStateWritten
  BY <1>11, ZenonT(30) DEF TornInv, SaveStagedBlock, NotifyScoreChange, NotifyStateChange, PreStateWritten, StepInv
<1>12. ASSUME NEW s \in SubCaches, CommitSubCache(s) \/ RepairSubCache(s)
       PROVE  TornInv'
  BY <1>f, <1>12, Zenon DEF CommitSubCache, RepairSubCache, spoolVars, stateIntact, stagingIntact
<1>13. CASE CommitCache \/ UpdateIndex \/ Shutdown \/ BrokerRead \/ UNCHANGED vars
  BY <1>f, <1>13, Zenon DEF CommitCache, UpdateIndex, Shutdown, BrokerRead, vars, spoolVars, stateVars,
         stateIntact, stagingIntact, StepInv
<1>14. CASE MoveDropBlocks \/ MoveBlock \/ MoveDone \/ PurgeStaging
  <2>1. pc' \in {"moveBlocks", "purgeBlocks", "purgeSpool"}
    BY <1>14, Zenon DEF MoveDropBlocks, MoveBlock, MoveDone, PurgeStaging
  <2> QED
    BY <2>1 DEF TornInv, stateIntact, stagingIntact
<1>15. CASE MoveToPurge
  <2>1. staging' = staging /\ commitStep' = commitStep /\ pc = "purgeState" /\ pc' = "renameState"
    BY <1>15 DEF MoveToPurge, spoolVars
  <2> QED
    BY <1>s, <2>1 DEF TornInv, stateIntact, stagingIntact
<1>16. CASE RepairFiles \/ Recover \/ RepairSpooling
  BY <1>f, <1>16 DEF RepairFiles, Recover, RepairSpooling, spoolVars, stateVars, stateIntact,
         stagingIntact, StepInv
<1>17. CASE ForwardNext \/ FixupReader
  BY <1>f, <1>17 DEF ForwardNext, FixupReader, stateVars, stateIntact, stagingIntact
<1> QED
  BY <1>1, <1>2, <1>3, <1>4, <1>5, <1>6, <1>7, <1>8, <1>9, <1>10, <1>11, <1>12, <1>13, <1>14, <1>15,
     <1>16, <1>17, ZenonT(30)
     DEF Next, Work, Commit, MoveFiles, Recovery

-----------------------------------------------------------------------------
LEMMA InitIInv == Init => IInv
<1> SUFFICES ASSUME Init
             PROVE  IInv
  OBVIOUS
<1> USE DEF checkpointed
<1>n. MaxCommits \in Nat
  BY RecoveryAssumption
<1>1. Nemesis \in Chains /\ Len(Nemesis) = 2 /\ Absent \in Chains
  BY <1>n, SMTT(30) DEF Nemesis, Chains, Absent
<1>2. durable = <<Nemesis>> /\ durable \in Seq(Chains) /\ Len(durable) = 1 /\ current = Nemesis
  BY <1>1 DEF Init, current
<1>3. durableCommits = {}
  <2>1. 2 .. Len(durable) = {}
    BY <1>2, SMTT(30)
  <2> QED
    BY <2>1 DEF durableCommits
<1>4. /\ staging = [index |-> 0, files |-> <<>>] /\ DOMAIN staging.files = {}
      /\ queue = [server |-> 0, index |-> 0, reader |-> 0, files |-> <<>>]
      /\ DOMAIN queue.files = {}
  BY DEF Init, EmptyStaging
<1>5. pc = "idle" /\ op = "none" /\ commitStep = "All_Updated" /\ delivered = {} /\ crashedAt = {}
      /\ storage = Nemesis /\ state = Nemesis /\ stateTmp = Absent /\ dependent = Nemesis
      /\ new = Absent /\ start = 0 /\ commits = 0 /\ saves = 0 /\ crashes = 0
      /\ cache = [s \in SubCaches |-> Nemesis]
  BY ZenonT(30) DEF Init
<1>6. TypeOK
  <2>1. /\ staging.files \in [DOMAIN staging.files -> 0 .. MaxCommits]
        /\ queue.files \in [DOMAIN queue.files -> Messages]
    BY <1>4
  <2>2. cache \in [SubCaches -> Chains] /\ {state, stateTmp} \subseteq Chains \cup {Partial}
        /\ storage \in Chains /\ Len(storage) >= 1 /\ {dependent, new} \subseteq Chains
    BY <1>1, <1>5
  <2>3. pc \in Labels /\ op \in {"none", "commit", "save", "recover"} /\ commitStep \in CommitSteps
    BY <1>5 DEF Labels, CommitSteps
  <2>4. commits \in 0 .. MaxCommits /\ saves \in Nat /\ crashes \in Nat /\ start \in Nat
        /\ delivered \subseteq 0 .. MaxCommits
    BY <1>5, <1>n, SMTT(30)
  <2>5. /\ staging = [index |-> staging.index, files |-> staging.files]
        /\ staging.index \in Nat /\ DOMAIN staging.files \subseteq Nat
        /\ queue = [server |-> queue.server, index |-> queue.index, reader |-> queue.reader,
                    files |-> queue.files]
        /\ {queue.reader, queue.index, queue.server} \subseteq Nat
        /\ queue.reader <= queue.index /\ queue.index <= queue.server
        /\ DOMAIN queue.files \subseteq Nat
    BY <1>4, SMTT(30)
  <2> QED
    BY <1>2, <2>1, <2>2, <2>3, <2>4, <2>5, SMTT(30) DEF TypeOK
<1>7. StepInv /\ CurrentInv
  BY <1>1, <1>2, <1>5 DEF StepInv, CurrentInv
<1>8. SettledInv /\ StateInv
  BY <1>2, <1>5, Zenon DEF SettledInv, StateInv, cachesCurrent, stateNotMoved, stateMoved
<1>9. BlocksInv
  BY <1>4, <1>5, Zenon DEF BlocksInv, filesAgree
<1>10. QueueInv
  BY <1>4, <1>5, SMTT(30) DEF QueueInv
<1>11. BrokerInv
  BY <1>3, <1>4, <1>5, SMTT(30) DEF BrokerInv, changePending
<1>12. UnreadInv /\ TornInv
  BY <1>4, <1>5 DEF UnreadInv, TornInv, unread
<1> QED
  BY <1>6, <1>7, <1>8, <1>9, <1>10, <1>11, <1>12, Zenon DEF IInv

-----------------------------------------------------------------------------
(* The height at which recovery starts is the least of a set of heights.    *)
LOCAL INSTANCE WellFoundedInduction

(* The least element of a set of numbers.                                   *)
LEMMA LeastNat ==
    ASSUME NEW T \in SUBSET Nat, T # {}
    PROVE  \E x \in T : \A y \in T : x <= y
<1> DEFINE R == OpToRel(<, Nat)
<1>1. IsWellFoundedOn(R, Nat)
  BY NatLessThanWellFounded
<1>2. \A x, y \in Nat : x < y => <<x, y>> \in R
  BY DEF OpToRel
<1> HIDE DEF R
<1>3. PICK x \in T : \A y \in T : ~ (<<y, x>> \in R)
  BY <1>1, WFMin, Zenon
<1>4. \A y \in T : ~ (y < x)
  BY <1>2, <1>3, ZenonT(30)
<1> QED
  BY <1>4

(* Where recovery starts to move blocks: at or below any height from which  *)
(* the staged blocks are complete.                                          *)
LEMMA StartFacts ==
    ASSUME TypeOK, NEW s \in 1 .. staging.index, s .. staging.index \subseteq DOMAIN staging.files
    PROVE  /\ FindStartHeight \in 1 .. s
           /\ FindStartHeight .. staging.index \subseteq DOMAIN staging.files
<1> DEFINE D == DOMAIN staging.files
           n == staging.index
           P(h) == h .. n \subseteq D /\ (h = 1 \/ h - 1 \notin D)
           T == {h \in 1 .. n : h .. n \subseteq D}
<1>0. n \in Nat /\ s \in T /\ T \subseteq Nat
  BY SMTT(30) DEF TypeOK
<1>1. PICK least \in T : \A h \in T : least <= h
  <2> HIDE DEF T
  <2> QED
    BY <1>0, LeastNat
<1>2. least \in 1 .. n /\ P(least)
  <2>1. least \in 1 .. n /\ least .. n \subseteq D
    BY <1>1, Zenon
  <2>2. ASSUME least # 1, least - 1 \in D
        PROVE  FALSE
    <3>1. least - 1 \in 1 .. n
      BY <1>0, <2>1, <2>2
    <3>2. least - 1 .. n \subseteq D
      <4>1. \A k \in least - 1 .. n : k = least - 1 \/ k \in least .. n
        BY <1>0, <2>1
      <4> QED
        BY <2>1, <2>2, <4>1, Zenon
    <3>3. least - 1 \in T
      BY <3>1, <3>2, Zenon
    <3>4. least <= least - 1
      BY <1>1, <3>3, Zenon
    <3> QED
      BY <1>0, <2>1, <3>4, SMTT(30)
  <2> QED
    BY <2>1, <2>2, Zenon
<1>3. FindStartHeight \in 1 .. n /\ P(FindStartHeight)
  <2> HIDE DEF n
  <2>1. \E h \in 1 .. n : h .. n \subseteq D /\ (h = 1 \/ h - 1 \notin D)
    BY <1>2
  <2>2. FindStartHeight = CHOOSE h \in 1 .. n : h .. n \subseteq D /\ (h = 1 \/ h - 1 \notin D)
    BY DEF FindStartHeight, n
  <2> HIDE DEF D
  <2> QED
    BY <2>1, <2>2, Zenon
<1>4. ASSUME FindStartHeight > s
      PROVE  FALSE
  <2>1. FindStartHeight - 1 \in s .. n /\ FindStartHeight # 1
    BY <1>0, <1>3, <1>4
  <2> QED
    BY <1>3, <2>1, Zenon
<1> QED
  BY <1>0, <1>3, <1>4, SMTT(30)

(* Recovery starts to move blocks at a height.                              *)
LEMMA RecoveryStart ==
    ASSUME TypeOK, BlocksInv, RecoverBlockFiles
    PROVE  start' \in Nat
<1>1. CASE UNCHANGED start
  BY <1>1, Zenon DEF TypeOK
<1>2. CASE staging.index \in DOMAIN staging.files /\ start' = FindStartHeight
  <2>1. /\ staging.index \in 1 .. staging.index /\ staging.index \in Nat
        /\ staging.index .. staging.index \subseteq DOMAIN staging.files
    BY <1>2, SMTT(30) DEF TypeOK, BlocksInv
  <2> QED
    BY <1>2, <2>1, StartFacts, SMTT(30)
<1> QED
  BY <1>1, <1>2, Zenon DEF RecoverBlockFiles

(* Recovery finds where to start.                                           *)
LEMMA BlocksFound ==
    ASSUME TypeOK, StepInv, CurrentInv, BlocksInv, RecoverBlockFiles \/ RepairSpooling
    PROVE  BlocksInv'
<1> USE DEF goto, checkpointed
<1>t. /\ Len(current) \in Nat /\ Len(current) >= 2 /\ staging.index \in Nat
      /\ Len(storage) \in Nat /\ DOMAIN staging.files \subseteq Nat
  BY ChainFacts DEF TypeOK, CurrentInv
<1>d. UNCHANGED <<durable, staging, storage, commitStep, op>> /\ op = "recover"
  BY DEF RecoverBlockFiles, RepairSpooling, historyVars, spoolVars, StepInv
<1>c. current' = current
  BY <1>d, CurrentFacts, ZenonT(30)
<1>h. \A h \in DOMAIN staging.files : h >= 2
  BY DEF BlocksInv
<1>1. CASE RepairSpooling
  <2>1. pc' = "loadState" /\ staging.index = 0 /\ DOMAIN staging.files = {} /\ ~checkpointed
    BY <1>1, Zenon DEF RepairSpooling, StepInv
  <2>2. filesAgree'
    BY <1>d, <2>1, Zenon DEF filesAgree
  <2> QED
    BY <1>d, <1>h, <2>1, <2>2, Zenon DEF BlocksInv
<1>2. CASE RecoverBlockFiles
  <2>1. checkpointed /\ blocksRecoverable
    BY <1>2, Zenon DEF RecoverBlockFiles, BlocksInv, StepInv
  <2>2. blocksRecoverable' /\ filesAgree'
    <3>1. filesAgree' /\ \A s : stagedFrom(s)' = stagedFrom(s)
      BY <1>c, <1>d, <2>1 DEF blocksRecoverable, filesAgree, stagedFrom
    <3> QED
      BY <1>c, <1>d, <2>1, <3>1, ZenonT(30) DEF blocksRecoverable
  <2>3. CASE pc' \in {"reset", "failed"} /\ (pc' = "reset" => staging.index = 0)
    BY <1>d, <1>h, <2>2, <2>3, ZenonT(30) DEF BlocksInv, stagingUnused
  <2>4. CASE staging.index \in DOMAIN staging.files /\ pc' = "dropBlocks" /\ start' = FindStartHeight
    <3>1. staging.index = Len(current)
      BY <1>h, <2>1, <2>4 DEF blocksRecoverable
    <3>2. PICK s \in 1 .. Len(current) : stagedFrom(s)
      <4>1. CASE storage = current
        <5>1. stagedFrom(Len(current))
          BY <1>t, <2>4, <3>1, <4>1 DEF stagedFrom
        <5> QED
          BY <1>t, <5>1, SMTT(30)
      <4>2. CASE storage # current
        BY <2>1, <4>2, Zenon DEF blocksRecoverable
      <4> QED
        BY <4>1, <4>2, Zenon
    <3>3. /\ FindStartHeight \in 1 .. s
          /\ FindStartHeight .. staging.index \subseteq DOMAIN staging.files
      BY <3>1, <3>2, StartFacts, Zenon DEF stagedFrom
    <3>4. stagedFrom(start)'
      <4>1. /\ start' \in 1 .. Len(current) /\ start' - 1 <= Len(storage)
            /\ \A i \in 1 .. start' - 1 : i \in 1 .. s - 1
        BY <1>t, <2>4, <3>2, <3>3 DEF stagedFrom
      <4> QED
        BY <1>c, <1>d, <2>4, <3>1, <3>2, <3>3, <4>1, ZenonT(30) DEF stagedFrom
    <3> QED
      BY <1>c, <1>d, <1>h, <2>2, <2>4, <3>1, <3>4, ZenonT(30) DEF BlocksInv, stagingUnused
  <2> QED
    BY <1>2, <2>3, <2>4, Zenon DEF RecoverBlockFiles
<1> QED
  BY <1>1, <1>2, SMTT(30)

(* Staging area and block storage.                                          *)
LEMMA BlocksStep ==
    ASSUME TypeOK, StepInv, CurrentInv, SettledInv, BlocksInv, [Next]_vars
    PROVE  BlocksInv'
<1> USE DEF goto, checkpointed
<1>1. CASE UNCHANGED vars
  BY <1>1, BlocksFrame DEF vars, spoolVars, memoryVars, historyVars, stagingUnused
<1>2. CASE NotifyScoreChange \/ NotifyStateChange \/ PreStateWritten
  BY <1>2, BlocksFrame, ZenonT(30) DEF NotifyScoreChange, NotifyStateChange, PreStateWritten, spoolVars, memoryVars,
         historyVars, stagingUnused, StepInv
<1>3. ASSUME NEW s \in SubCaches, CommitSubCache(s) \/ RepairSubCache(s)
      PROVE  BlocksInv'
  BY <1>3, BlocksFrame, Zenon DEF CommitSubCache, RepairSubCache, spoolVars, memoryVars, historyVars,
         stagingUnused
<1>4. CASE CommitCache \/ AllUpdated \/ UpdateIndex
  BY <1>4, BlocksFrame DEF CommitCache, AllUpdated, UpdateIndex, spoolVars, memoryVars, historyVars,
         stagingUnused, StepInv
<1>5. CASE MoveToPurge \/ MoveToRename
  BY <1>5, BlocksFrame, ZenonT(30) DEF MoveToPurge, MoveToRename, spoolVars, memoryVars, historyVars,
         stagingUnused, StepInv
<1>6. CASE Shutdown \/ SaveState \/ Boot \/ Crash
  BY <1>6, BlocksFrame, Zenon DEF Shutdown, SaveState, Boot, Crash, spoolVars, memoryVars, historyVars,
         stagingUnused, StepInv
<1>7. CASE BrokerRead \/ CatchUp \/ ForwardNext \/ FixupReader
  BY <1>7, BlocksFrame, Zenon DEF BrokerRead, CatchUp, ForwardNext, FixupReader, memoryVars, historyVars,
         stagingUnused, StepInv
<1>8. CASE Recover \/ LoadState \/ RepairFiles \/ Reset
  BY <1>8, BlocksFrame, Zenon DEF Recover, LoadState, RepairFiles, Reset, spoolVars, memoryVars, historyVars,
         stagingUnused, StepInv, NoCommitStep
<1> QED
  BY <1>1, <1>2, <1>3, <1>4, <1>5, <1>6, <1>7, <1>8, BlocksStaged, BlocksMoved, BlocksFound, ZenonT(30)
     DEF Next, Work, Commit, MoveFiles, Recovery

LEMMA NextIInv == IInv /\ [Next]_vars => IInv'
<1> SUFFICES ASSUME TypeOK, StepInv, CurrentInv, SettledInv, BlocksInv, StateInv, QueueInv, BrokerInv,
                    UnreadInv, TornInv, [Next]_vars
             PROVE  IInv'
  BY DEF IInv
<1>1. TypeOK'
  BY TypeStep, RecoveryStart
<1>2. StepInv'
  BY StepStep
<1>3. CurrentInv'
  BY CurrentStep
<1>4. SettledInv'
  BY SettledStep
<1>5. BlocksInv'
  BY BlocksStep
<1>6. StateInv'
  BY StateStep
<1>7. QueueInv'
  BY QueueStep
<1>8. BrokerInv'
  BY BrokerStep
<1>9. UnreadInv'
  BY UnreadStep
<1>10. TornInv'
  BY TornStep
<1> QED
  BY <1>1, <1>2, <1>3, <1>4, <1>5, <1>6, <1>7, <1>8, <1>9, <1>10, ZenonT(30) DEF IInv

(* The inductive invariant: before the checkpoint everything on disk is     *)
(* current, after it whatever is not is spooled, at every step of commitAll,*)
(* of a save and of RecoveryOrchestrator::recover and after any crash.      *)
THEOREM InvariantHolds == Spec => []IInv
<1>1. IInv /\ UNCHANGED vars => IInv'
  BY NextIInv
<1> QED
  BY InitIInv, NextIInv, <1>1, PTL DEF Spec

(* A node in service, whatever crashes and recoveries it went through, has  *)
(* block storage, cache databases, saved and dependent state of the last    *)
(* chain that commitAll brought to State_Written.                           *)
THEOREM NodeIsRestored == Spec => []RestoredToCheckpoint
<1>1. IInv => RestoredToCheckpoint
  <2> SUFFICES ASSUME IInv, pc = "idle"
               PROVE  {storage, state, dependent} = {current} /\ staging.index = 0 /\ cachesCurrent
    BY Zenon DEF RestoredToCheckpoint, cachesCurrent
  <2>1. ~checkpointed
    BY DEF IInv, StepInv
  <2>2. storage = current /\ state = current /\ cachesCurrent /\ dependent = current
    BY <2>1, Zenon DEF IInv, SettledInv, dependentLoaded
  <2>3. staging.index = 0
    BY DEF IInv, BlocksInv, stagingUnused
  <2> QED
    BY <2>2, <2>3, Zenon
<1> QED
  BY <1>1, InvariantHolds, PTL

(* The broker sees the state changes of exactly the commits that reached    *)
(* State_Written, unless a crash hit between the two writes of the commit   *)
(* step handler.                                                            *)
THEOREM BrokerIsExact == Spec => []BrokerExact
<1>1. IInv => BrokerExact
  <2> SUFFICES ASSUME IInv
               PROVE  BrokerExact
    OBVIOUS
  <2>1. delivered \subseteq durableCommits
    BY Zenon DEF IInv, BrokerInv
  <2>2. ASSUME pc = "idle", queue.reader = queue.index, <<"commit", "updateIndex">> \notin crashedAt
        PROVE  durableCommits \subseteq delivered
    <3>1. ~changePending
      BY <2>2, ZenonT(30) DEF IInv, StepInv, checkpointed, changePending
    <3>2. queue.reader .. queue.index - 1 = {}
      BY <2>2, SMTT(30) DEF IInv, TypeOK
    <3> QED
      BY <2>2, <3>1, <3>2, Zenon DEF IInv, BrokerInv
  <2> QED
    BY <2>1, <2>2, ZenonT(30) DEF BrokerExact
<1> QED
  BY <1>1, InvariantHolds, PTL

(* Recovery (loading the state, catching up with the broker, moving blocks) *)
(* and boot refuse a data directory only after a crash inside one of the    *)
(* moves of files that TornMoves lists.                                     *)
THEOREM RefusalsAreTorn == Spec => []RefusesOnlyTornMoves
<1>1. IInv => RefusesOnlyTornMoves
  BY DEF IInv, TornInv, torn, RefusesOnlyTornMoves
<1> QED
  BY <1>1, InvariantHolds, PTL
=============================================================================
