--------------------------- MODULE CommitRecovery ---------------------------
(***************************************************************************)
(* What a commit of the block sync consumer writes to disk, step by step,   *)
(* and how the recovery process repairs it after a crash between any two    *)
(* steps, its own steps included.  The node keeps its state in cache        *)
(* databases (EnableCacheDatabaseStorage), and a broker consumes the state  *)
(* changes the server spools.                                               *)
(*                                                                          *)
(* A chain is a sequence of blocks; a block is the number of the commit     *)
(* that wrote it.  Cache databases, state directories and state change      *)
(* messages stand for the state of a chain, so they hold the chain.         *)
(* Writing one file, one index or one entry of a database is one step.      *)
(***************************************************************************)
EXTENDS Integers, Sequences, FiniteSets

CONSTANTS
    SubCaches,           \* sub-caches with a database of their own
    MaxRollback,         \* blocks a commit may undo
    MaxBlocks,           \* blocks a commit may add
    MaxCommits, MaxSaves, MaxCrashes    \* bounds on what happens

ASSUME RecoveryAssumption ==
    /\ SubCaches # {} /\ IsFiniteSet(SubCaches)
    /\ {MaxRollback, MaxBlocks, MaxCommits, MaxSaves, MaxCrashes} \subseteq Nat

Absent == <<>>           \* a directory that does not exist
Partial == <<-1>>        \* a directory without a complete supplemental.dat
NoCommitStep == "none"

VARIABLES
    storage,             \* disk: the block files and their index
    staging,             \* disk: spool/block_sync
    commitStep,          \* disk: commit_step.dat
    queue,               \* disk: spool/state_change with its three indexes
    state, stateTmp,     \* disk: the state directories
    cache,               \* disk: the database of each sub-cache
    dependent,           \* memory: dependent state and height of the cache
    new, start,          \* memory: the chain of a commit; the first height to move
    pc, op,              \* the next step, and the operation it belongs to
    delivered,           \* the commits whose state change reached the broker
    durable,             \* history: the chains that reached State_Written, in order
    crashedAt,           \* history: where crashes happened
    commits, saves, crashes

spoolVars == <<staging, queue, delivered>>
stateVars == <<state, stateTmp, cache, dependent>>
memoryVars == <<new, start>>
historyVars == <<durable, crashedAt, commits, saves, crashes>>
vars == <<storage, commitStep, spoolVars, stateVars, memoryVars, pc, op, historyVars>>

EmptyStaging == [index |-> 0, files |-> <<>>]

Nemesis == <<0, 0>>      \* a chain that is past its first block

Init ==
    /\ storage = Nemesis
    /\ staging = EmptyStaging
    /\ commitStep = "All_Updated"
    /\ queue = [server |-> 0, index |-> 0, reader |-> 0, files |-> <<>>]
    /\ state = Nemesis
    /\ stateTmp = Absent
    /\ cache = [s \in SubCaches |-> Nemesis]
    /\ dependent = Nemesis
    /\ new = Absent
    /\ start = 0
    /\ pc = "idle"
    /\ op = "none"
    /\ delivered = {}
    /\ durable = <<Nemesis>>
    /\ crashedAt = {}
    /\ commits = 0
    /\ saves = 0
    /\ crashes = 0

goto(label) == pc' = label

take(chain, n) == SubSeq(chain, 1, n)

put(f, x, v) == [y \in DOMAIN f \cup {x} |-> IF y = x THEN v ELSE f[y]]

remove(f, x) == [y \in DOMAIN f \ {x} |-> f[y]]

-----------------------------------------------------------------------------
(* commitAll, up to the checkpoint.                                         *)

(* The staging area is cut back to the common block.                        *)
DropStagedBlocks(common, count) ==
    /\ pc = "idle"
    /\ commits < MaxCommits
    /\ commits' = commits + 1
    /\ new' = take(storage, common) \o [i \in 1 .. count |-> commits']
    /\ start' = common + 1
    /\ staging' = [staging EXCEPT !.index = common]
    /\ goto("saveBlocks") /\ op' = "commit"
    /\ UNCHANGED <<storage, commitStep, queue, delivered, stateVars, durable, crashedAt, saves,
                   crashes>>

SaveStagedBlock ==
    /\ pc = "saveBlocks"
    /\ staging.index < Len(new)
    /\ staging' = [index |-> staging.index + 1,
                   files |-> put(staging.files, staging.index + 1, new[staging.index + 1])]
    /\ UNCHANGED <<storage, commitStep, queue, delivered, stateVars, memoryVars, pc, op, historyVars>>

BlocksWritten ==
    /\ pc = "saveBlocks"
    /\ staging.index = Len(new)
    /\ commitStep' = "Blocks_Written"
    /\ goto("scoreChange")
    /\ UNCHANGED <<storage, spoolVars, stateVars, memoryVars, op, historyVars>>

(* FileQueueWriter: the message, then the index.                            *)
write(message) ==
    queue' = [queue EXCEPT !.server = @ + 1, !.files = put(@, queue.server, message)]

NotifyScoreChange ==
    /\ pc = "scoreChange"
    /\ write([type |-> "score", chain |-> Absent])
    /\ goto("stateChange")
    /\ UNCHANGED <<storage, commitStep, staging, delivered, stateVars, memoryVars, op, historyVars>>

NotifyStateChange ==
    /\ pc = "stateChange"
    /\ write([type |-> "state", chain |-> new])
    /\ goto("preStateWritten")
    /\ UNCHANGED <<storage, commitStep, staging, delivered, stateVars, memoryVars, op, historyVars>>

(* LocalNodeStateSerializer::save writes supplemental.dat last.             *)
PreStateWritten ==
    /\ pc \in {"preStateWritten", "supplementalData"}
    /\ IF pc = "preStateWritten"
       THEN stateTmp' = Partial /\ goto("supplementalData")
       ELSE stateTmp' = new /\ goto("stateWritten")
    /\ UNCHANGED <<storage, commitStep, spoolVars, state, cache, dependent, memoryVars, op,
                   historyVars>>

(* The checkpoint.  A save has no cache changes to commit.                  *)
StateWritten ==
    /\ pc = "stateWritten"
    /\ commitStep' = "State_Written"
    /\ IF op = "commit"
       THEN durable' = Append(durable, new) /\ goto("commitCache")
       ELSE UNCHANGED durable /\ goto("purgeState")
    /\ UNCHANGED <<storage, spoolVars, stateVars, memoryVars, op, crashedAt, commits, saves, crashes>>

-----------------------------------------------------------------------------
(* commitAll, after the checkpoint.                                         *)

CommitSubCache(s) ==
    /\ pc = "commitCache"
    /\ cache[s] # new
    /\ cache' = [cache EXCEPT ![s] = new]
    /\ UNCHANGED <<storage, commitStep, spoolVars, state, stateTmp, dependent, memoryVars, pc, op,
                   historyVars>>

CommitCache ==
    /\ pc = "commitCache"
    /\ \A s \in SubCaches : cache[s] = new
    /\ dependent' = new
    /\ goto("dropBlocks")
    /\ UNCHANGED <<storage, commitStep, spoolVars, state, stateTmp, cache, memoryVars, op,
                   historyVars>>

MutantMoveDropBlocks ==
    /\ pc = "dropBlocks"
    /\ UNCHANGED storage
    /\ goto("moveBlocks")
    /\ UNCHANGED <<commitStep, spoolVars, stateVars, memoryVars, op, historyVars>>

(* MoveBlockFiles, by commit and by recovery.                               *)
MoveDropBlocks ==
    /\ pc = "dropBlocks"
    /\ storage' = IF start <= Len(storage) THEN take(storage, start - 1) ELSE storage
    /\ goto("moveBlocks")
    /\ UNCHANGED <<commitStep, spoolVars, stateVars, memoryVars, op, historyVars>>

MoveBlock ==
    /\ pc = "moveBlocks"
    /\ Len(storage) < staging.index
    /\ storage' = Append(storage, staging.files[Len(storage) + 1])
    /\ UNCHANGED <<commitStep, spoolVars, stateVars, memoryVars, pc, op, historyVars>>

MutantMoveDone ==
    /\ pc = "moveBlocks"
    /\ Len(storage) > staging.index
    /\ goto("purgeBlocks")
    /\ UNCHANGED <<storage, commitStep, spoolVars, stateVars, memoryVars, op, historyVars>>

MoveDone ==
    /\ pc = "moveBlocks"
    /\ Len(storage) >= staging.index
    /\ goto("purgeBlocks")
    /\ UNCHANGED <<storage, commitStep, spoolVars, stateVars, memoryVars, op, historyVars>>

(* PurgeDirectory removes the files in the order of the directory.          *)
PurgeStaging ==
    /\ pc \in {"purgeBlocks", "purgeSpool"}
    /\ \/ staging.index # 0 /\ staging' = [staging EXCEPT !.index = 0]
       \/ \E h \in DOMAIN staging.files : staging' = [staging EXCEPT !.files = remove(@, h)]
    /\ UNCHANGED <<storage, commitStep, queue, delivered, stateVars, memoryVars, pc, op, historyVars>>

PurgeDone ==
    /\ pc = "purgeBlocks"
    /\ staging.index = 0 /\ DOMAIN staging.files = {}
    /\ goto(IF op = "commit" THEN "purgeState" ELSE "reset")
    /\ UNCHANGED <<storage, commitStep, spoolVars, stateVars, memoryVars, op, historyVars>>

(* LocalNodeStateSerializer::moveTo, by commit, save and recovery.          *)
MoveToPurge ==
    /\ pc = "purgeState"
    /\ state' = Partial
    /\ goto("renameState")
    /\ UNCHANGED <<storage, commitStep, spoolVars, stateTmp, cache, dependent, memoryVars, op,
                   historyVars>>

MoveToRename ==
    /\ pc = "renameState"
    /\ state' = stateTmp
    /\ stateTmp' = Absent
    /\ goto(IF op = "recover" THEN "moveBlockFiles" ELSE "allUpdated")
    /\ UNCHANGED <<storage, commitStep, spoolVars, cache, dependent, memoryVars, op, historyVars>>

(* The commit step handler: first commit_step.dat, then index.dat.  At the  *)
(* end of a save there is no second step.                                   *)
AllUpdated ==
    /\ pc = "allUpdated"
    /\ commitStep' = "All_Updated"
    /\ goto(IF op = "commit" THEN "updateIndex" ELSE "stopped")
    /\ UNCHANGED <<storage, spoolVars, stateVars, memoryVars, op, historyVars>>

UpdateIndex ==
    /\ pc = "updateIndex"
    /\ queue' = [queue EXCEPT !.index = queue.server]
    /\ new' = Absent /\ start' = 0
    /\ goto("idle") /\ op' = "none"
    /\ UNCHANGED <<storage, commitStep, staging, delivered, stateVars, historyVars>>

-----------------------------------------------------------------------------
(* Shutdown, which is also the end of most recoveries: the state is saved   *)
(* under the same checkpoints (SaveStateToDirectoryWithCheckpointing).      *)

Shutdown ==
    /\ pc = "idle"
    /\ saves < MaxSaves
    /\ saves' = saves + 1
    /\ goto("save")
    /\ UNCHANGED <<storage, commitStep, spoolVars, stateVars, memoryVars, op, durable, crashedAt,
                   commits, crashes>>

SaveState ==
    /\ pc = "save"
    /\ commitStep' = "Blocks_Written"
    /\ new' = dependent
    /\ goto("preStateWritten") /\ op' = "save"
    /\ UNCHANGED <<storage, spoolVars, stateVars, start, historyVars>>

(* LocalNode::boot loads the saved state and compares heights.              *)
Boot ==
    /\ pc = "stopped"
    /\ IF state \notin {Absent, Partial} /\ Len(state) = Len(storage)
       THEN goto("idle") /\ dependent' = state
       ELSE goto("failed") /\ UNCHANGED dependent
    /\ new' = Absent /\ start' = 0 /\ op' = "none"
    /\ UNCHANGED <<storage, commitStep, spoolVars, state, stateTmp, cache, historyVars>>

(* Server or recovery process dies: what is in memory is lost.              *)
Crash ==
    /\ pc \notin {"crashed", "failed", "stopped"}
    /\ crashes < MaxCrashes
    /\ crashes' = crashes + 1
    /\ crashedAt' = crashedAt \cup {<<op, pc>>}
    /\ dependent' = Absent /\ new' = Absent /\ start' = 0
    /\ goto("crashed") /\ op' = "none"
    /\ UNCHANGED <<storage, commitStep, spoolVars, state, stateTmp, cache, durable, commits, saves>>

-----------------------------------------------------------------------------
(* The messages of the state change queue.                                  *)

commitOf(chain) == chain[Len(chain)]

deliver(message) ==
    delivered' = IF message.type = "state" THEN delivered \cup {commitOf(message.chain)} ELSE delivered

(* FileQueueReader::process over index_broker_r.dat and index.dat: by the   *)
(* broker beside the server, by recovery to catch up.                       *)
readNext ==
    /\ queue.reader < queue.index
    /\ queue.reader \in DOMAIN queue.files
    /\ deliver(queue.files[queue.reader])
    /\ queue' = [queue EXCEPT !.reader = @ + 1, !.files = remove(@, queue.reader)]

BrokerRead ==
    /\ op # "recover" /\ pc \notin {"crashed", "failed", "stopped"}
    /\ readNext
    /\ UNCHANGED <<storage, commitStep, staging, stateVars, memoryVars, pc, op, historyVars>>

-----------------------------------------------------------------------------
(* RecoveryOrchestrator::recover.                                           *)

(* RepairSpooling keeps the spooled data only after the checkpoint.         *)
Recover ==
    /\ pc = "crashed"
    /\ goto(IF commitStep = "State_Written" THEN "loadState" ELSE "purgeSpool")
    /\ op' = "recover"
    /\ UNCHANGED <<storage, commitStep, spoolVars, stateVars, memoryVars, historyVars>>

MutantRepairSpooling ==
    /\ pc = "purgeSpool"
    /\ staging.index = 0 /\ DOMAIN staging.files = {}
    /\ queue' = [queue EXCEPT !.index = queue.server]
    /\ goto("loadState")
    /\ UNCHANGED <<storage, commitStep, staging, delivered, stateVars, memoryVars, op, historyVars>>

RepairSpooling ==
    /\ pc = "purgeSpool"
    /\ staging.index = 0 /\ DOMAIN staging.files = {}
    /\ queue' = [queue EXCEPT !.server = queue.index]
    /\ goto("loadState")
    /\ UNCHANGED <<storage, commitStep, staging, delivered, stateVars, memoryVars, op, historyVars>>

(* Without a saved state the nemesis block is executed, which calls for a   *)
(* reseed of a longer chain; a cache ahead of the storage is refused.       *)
isLoadable ==
    /\ state \notin {Absent, Partial}
    /\ \/ Len(state) = Len(storage)
       \/ Len(state) # 1 /\ Len(state) <= Len(storage)

MutantLoadState ==
    /\ pc = "loadState"
    /\ IF isLoadable /\ Len(state) < Len(storage)
       THEN goto("catchUp") /\ dependent' = state
       ELSE goto("failed") /\ UNCHANGED dependent
    /\ UNCHANGED <<storage, commitStep, spoolVars, state, stateTmp, cache, memoryVars, op, historyVars>>

LoadState ==
    /\ pc = "loadState"
    /\ IF isLoadable
       THEN goto("catchUp") /\ dependent' = state
       ELSE goto("failed") /\ UNCHANGED dependent
    /\ UNCHANGED <<storage, commitStep, spoolVars, state, stateTmp, cache, memoryVars, op, historyVars>>

(* RepairState, first part: up to index.dat.                                *)
CatchUp ==
    /\ pc = "catchUp"
    /\ \/ readNext /\ UNCHANGED pc
       \/ /\ queue.reader < queue.index /\ queue.reader \notin DOMAIN queue.files
          /\ goto("failed")
          /\ UNCHANGED <<queue, delivered>>
       \/ /\ queue.reader >= queue.index
          /\ goto("forward")
          /\ UNCHANGED <<queue, delivered>>
    /\ UNCHANGED <<storage, commitStep, staging, stateVars, memoryVars, op, historyVars>>

(* RepairState, second part: messages up to index_server.dat are applied to *)
(* the cache databases, one after the other, and then delivered.            *)
RepairSubCache(s) ==
    /\ pc = "forward"
    /\ queue.index < queue.server
    /\ LET message == queue.files[queue.index]
       IN  /\ message.type = "state" /\ cache[s] # message.chain
           /\ cache' = [cache EXCEPT ![s] = message.chain]
    /\ UNCHANGED <<storage, commitStep, spoolVars, state, stateTmp, dependent, memoryVars, pc, op,
                   historyVars>>

ForwardNext ==
    /\ pc = "forward"
    /\ queue.index < queue.server
    /\ LET message == queue.files[queue.index]
       IN  /\ message.type = "state" => \A s \in SubCaches : cache[s] = message.chain
           /\ deliver(message)
    /\ queue' = [queue EXCEPT !.index = @ + 1, !.files = remove(@, queue.index)]
    /\ UNCHANGED <<storage, commitStep, staging, stateVars, memoryVars, pc, op, historyVars>>

(* RepairState, third part: the reader's index.                             *)
FixupReader ==
    /\ pc = "forward"
    /\ queue.index >= queue.server
    /\ queue' = [queue EXCEPT !.reader = queue.index]
    /\ goto("repairFiles")
    /\ UNCHANGED <<storage, commitStep, staging, delivered, stateVars, memoryVars, op, historyVars>>

(* repairState: before the checkpoint state.tmp is purged, after it the     *)
(* state directory and the blocks are moved.                                *)
RepairFiles ==
    /\ pc = "repairFiles"
    /\ IF commitStep # "State_Written"
       THEN stateTmp' = (IF stateTmp = Absent THEN Absent ELSE Partial) /\ goto("reset")
       ELSE UNCHANGED stateTmp /\ goto(IF stateTmp = Absent THEN "moveBlockFiles" ELSE "purgeState")
    /\ UNCHANGED <<storage, commitStep, spoolVars, state, cache, dependent, memoryVars, op,
                   historyVars>>

(* The lowest height from which the staged blocks are complete.             *)
FindStartHeight ==
    CHOOSE h \in 1 .. staging.index :
        /\ h .. staging.index \subseteq DOMAIN staging.files
        /\ h = 1 \/ h - 1 \notin DOMAIN staging.files

RecoverBlockFiles ==
    /\ pc = "moveBlockFiles"
    /\ \/ staging.index = 0 /\ goto("reset") /\ UNCHANGED start
       \/ staging.index # 0 /\ staging.index \notin DOMAIN staging.files /\ goto("failed")
          /\ UNCHANGED start
       \/ staging.index \in DOMAIN staging.files /\ goto("dropBlocks") /\ start' = FindStartHeight
    /\ UNCHANGED <<storage, commitStep, spoolVars, stateVars, new, op, historyVars>>

(* CatapultSystemState::reset.  What the checkpoint covered is on disk, so  *)
(* only an earlier step is followed by a save of the loaded state.          *)
Reset ==
    /\ pc = "reset"
    /\ commitStep' = NoCommitStep
    /\ goto(IF commitStep = "State_Written" THEN "allUpdated" ELSE "save")
    /\ UNCHANGED <<storage, spoolVars, stateVars, memoryVars, op, historyVars>>

-----------------------------------------------------------------------------

Commit ==
    \/ \E common \in 1 .. Len(storage), count \in 1 .. MaxBlocks :
          /\ Len(storage) - common <= MaxRollback
          /\ DropStagedBlocks(common, count)
    \/ SaveStagedBlock \/ BlocksWritten \/ NotifyScoreChange \/ NotifyStateChange
    \/ PreStateWritten \/ StateWritten
    \/ (\E s \in SubCaches : CommitSubCache(s)) \/ CommitCache
    \/ AllUpdated \/ UpdateIndex

MoveFiles ==
    MoveDropBlocks \/ MoveBlock \/ MoveDone \/ PurgeStaging \/ PurgeDone \/ MoveToPurge \/ MoveToRename

Recovery ==
    \/ Recover \/ RepairSpooling \/ LoadState \/ CatchUp
    \/ (\E s \in SubCaches : RepairSubCache(s)) \/ ForwardNext \/ FixupReader
    \/ RepairFiles \/ RecoverBlockFiles \/ Reset

Work == Commit \/ MoveFiles \/ Recovery \/ SaveState \/ Boot

Next == Work \/ Shutdown \/ Crash \/ BrokerRead

Spec == Init /\ [][Next]_vars

(* A process that is not killed goes on, and a crashed node is recovered    *)
(* and started again.                                                       *)
FairSpec == Spec /\ WF_vars(Work)

-----------------------------------------------------------------------------
Chains == Seq(0 .. MaxCommits)

Messages ==
    [type : {"score"}, chain : {Absent}] \cup [type : {"state"}, chain : Chains \ {Absent}]

CommitSteps == {NoCommitStep, "Blocks_Written", "State_Written", "All_Updated"}

Labels ==
    {"idle", "saveBlocks", "scoreChange", "stateChange", "preStateWritten", "supplementalData",
     "stateWritten", "commitCache", "dropBlocks", "moveBlocks", "purgeBlocks", "purgeState",
     "renameState", "allUpdated", "updateIndex", "save", "stopped", "failed", "crashed",
     "purgeSpool", "loadState", "catchUp", "forward", "repairFiles", "moveBlockFiles", "reset"}

(* Every variable has its type, and the three indexes of the state change   *)
(* queue keep the order that the comment in RepairSpooling lists.           *)
TypeOK ==
    /\ storage \in Chains /\ Len(storage) >= 1
    /\ staging = [index |-> staging.index, files |-> staging.files]
    /\ staging.index \in Nat /\ DOMAIN staging.files \subseteq Nat
    /\ staging.files \in [DOMAIN staging.files -> 0 .. MaxCommits]
    /\ commitStep \in CommitSteps
    /\ queue = [server |-> queue.server, index |-> queue.index, reader |-> queue.reader,
                files |-> queue.files]
    /\ {queue.reader, queue.index, queue.server} \subseteq Nat
    /\ queue.reader <= queue.index /\ queue.index <= queue.server
    /\ DOMAIN queue.files \subseteq Nat /\ queue.files \in [DOMAIN queue.files -> Messages]
    /\ {state, stateTmp} \subseteq Chains \cup {Partial}
    /\ cache \in [SubCaches -> Chains]
    /\ {dependent, new} \subseteq Chains
    /\ start \in Nat
    /\ pc \in Labels /\ op \in {"none", "commit", "save", "recover"}
    /\ delivered \subseteq 0 .. MaxCommits
    /\ durable \in Seq(Chains) /\ Len(durable) >= 1
    /\ commits \in 0 .. MaxCommits /\ saves \in Nat /\ crashes \in Nat

current == durable[Len(durable)]

(* A node in service, started once or after any number of crashes and       *)
(* recoveries, has block storage, cache databases, saved state and          *)
(* dependent state of one chain: the last that reached State_Written.  A    *)
(* commit that crashed before that has left no trace, one that crashed      *)
(* after it is complete.                                                    *)
RestoredToCheckpoint ==
    pc = "idle" =>
        /\ {storage, state, dependent} = {current}
        /\ \A s \in SubCaches : cache[s] = current
        /\ staging.index = 0

durableCommits == {commitOf(durable[i]) : i \in 2 .. Len(durable)}

(* The broker never sees the state change of a commit that did not reach    *)
(* State_Written, and once it has read up to index.dat it has seen all      *)
(* others.  The exception is a crash between the two writes of the commit   *)
(* step handler (see StateChangesSafeToIgnore).                             *)
BrokerExact ==
    /\ delivered \subseteq durableCommits
    /\ (/\ pc = "idle" /\ queue.reader = queue.index
        /\ <<"commit", "updateIndex">> \notin crashedAt)
           => delivered = durableCommits

(* Crashes that recovery may answer by refusing the data directory:         *)
(*  - the state directory is gone and state.tmp not yet renamed;            *)
(*  - the saved state is of a higher chain than the block storage, because  *)
(*    blocks are being moved, because recovery moves the state before the   *)
(*    blocks, or because the new chain is shorter and its state not moved;  *)
(*  - the staging area is purged except for its index;                      *)
(*  - recovery removed state change messages and the reader's index still   *)
(*    points at them.                                                       *)
TornMoves ==
    [commit |-> {"moveBlocks", "purgeBlocks", "purgeState", "renameState"},
     save |-> {"renameState"},
     recover |-> {"forward", "renameState", "moveBlockFiles", "dropBlocks", "moveBlocks",
                  "purgeBlocks"}]

(* Recovery and server refuse the data directory only after a crash inside  *)
(* one of the moves of files above.  After any other crash of commitAll, of *)
(* a save or of recovery itself, and before every checkpoint, the node      *)
(* starts again.                                                            *)
RefusesOnlyTornMoves ==
    pc = "failed" =>
        \E at \in crashedAt : at[1] \in DOMAIN TornMoves /\ at[2] \in TornMoves[at[1]]

(* As long as it is not killed again, a node gets back to service (or       *)
(* refuses its data directory): no commit, save or recovery gets stuck.     *)
ReturnsToService == []<>(pc \in {"idle", "failed"})

(* "both blocks and state have been written out to disk and can be fully    *)
(* restored" (BlockchainSyncConsumer::commitAll at State_Written): recovery *)
(* never refuses the data directory.                                        *)
CheckpointRestorable == pc # "failed"

(* "data in range (index.dat, index_server.dat] is safe to ignore"          *)
(* (RepairSpooling): no message that is about to be dropped belongs to a    *)
(* commit that reached State_Written.                                       *)
StateChangesSafeToIgnore ==
    pc = "purgeSpool" =>
        \A i \in queue.index .. queue.server - 1 :
            queue.files[i].type = "state" => commitOf(queue.files[i].chain) \notin durableCommits
=============================================================================
