---- MODULE FinalizationNode ----
(***************************************************************************)
(* One voting node of the finalization extension: the orchestrator task    *)
(* (FinalizationOrchestratorService, FinalizationOrchestrator,             *)
(* FinalizationStageAdvancer, FinalizationMessageFactory), the message     *)
(* pipeline (FinalizationMessageProcessingService and the aggregators),    *)
(* the proof storage with its subscriber, the proof pull                   *)
(* (FinalizationProofSynchronizer) and the restart.                        *)
(*                                                                         *)
(* A poll of the task is not atomic.  It is split where it takes a lock of *)
(* its own, so that votes are added and proofs are pulled in between:      *)
(*   idle -> prevote -> precommit -> next -> find -> save -> idle          *)
(* The peers are the environment: they cast votes out of an inbox, in any  *)
(* order, and a vote may arrive again and again or never.                  *)
(***************************************************************************)
EXTENDS RoundContext, Functions

CONSTANTS Self, Voters, Weight,      \* the voters of every epoch, and their weights
          Grouping,                  \* VotingSetGrouping
          PrevoteBlocksMultiple, MaxHashesPerPoint,
          UnfinalizedBlocksDuration, \* 0 disables the early proof pull
          Chains,                    \* the chains of the network
          Plans,                     \* environments: see plan
          MaxPoint, MaxEpoch         \* bounds: the last point and epoch the node enters

ASSUME NodeAssumption ==
  /\ Self \in Voters /\ Weight \in [Voters -> Nat]
  /\ TotalWeight = MapThenSumSet(LAMBDA v : Weight[v], Voters)
  /\ {Grouping, PrevoteBlocksMultiple, MaxHashesPerPoint} \subseteq Nat \ {0}
  /\ {MaxPoint, MaxEpoch, UnfinalizedBlocksDuration} \subseteq Nat

\* a round is an epoch and a point
ASSUME PlansAssumption == \A q \in Plans : \A m \in q.inbox : m.round \in Nat \X Nat

VARIABLES
  chain,      \* block storage: the hashes of the local chain
  status,     \* VotingStatus of the orchestrator: round, pv (HasSentPrevote), pc (HasSentPrecommit)
  elapsed,    \* stage advancer: completed step durations, -1 when there is no advancer
  file,       \* voting_status.dat
  pc,         \* where the finalization task is
  best,       \* BestPrecommitDescriptor held by the finalizer: round and key
  minRound, maxRound, previous, \* MultiRoundMessageAggregatorState
  rounds,     \* RoundMessageAggregators: round -> [msgs, ctx]
  queue,      \* own votes dispatched to the messageProcessing pool
  proofs,     \* proof storage: epoch -> [round, key], the last epoch is statistics()
  backups,    \* prevote chain storage: round -> branch keys
  patch,      \* blocks handed to the block consumer by the patching subscriber
  pull,       \* proof pull in flight, or NoPull, and the number of pulls so far
  cast,       \* votes of peers seen so far (environment)
  sent,       \* votes this node has pushed to its peers, with the boot that pushed them
  restarts,   \* crashes so far
  plan        \* the environment of this behaviour, a member of Plans: the votes peers may cast
              \* (inbox), the chains block synchronization may reach (chains), and bounds on the
              \* crashes and on the proof pulls

storage == <<chain, file, proofs, backups>>
aggregator == <<minRound, maxRound, previous, rounds>>
vars == <<chain, status, elapsed, file, pc, best, minRound, maxRound, previous, rounds,
          queue, proofs, backups, patch, pull, cast, sent, restarts, plan>>

-----------------------------------------------------------------------------
(* Rounds, heights and messages *)

RoundLess(a, b) == a[1] < b[1] \/ (a[1] = b[1] /\ a[2] < b[2])

CalculateVotingSetEndHeight(epoch) == IF epoch = 1 THEN 1 ELSE (epoch - 1) * Grouping

CalculateFinalizationEpochForHeight(height) ==
  IF height <= 1 THEN 1 ELSE 1 + (IF height % Grouping = 0 THEN 0 ELSE 1) + height \div Grouping

CalculateGroupedHeight(height) ==
  LET grouped == ((height - 1) \div Grouping) * Grouping IN IF grouped < 1 THEN 1 ELSE grouped

Clamp(value, adjustment) ==
  IF value % PrevoteBlocksMultiple = 0 THEN value
  ELSE (value \div PrevoteBlocksMultiple + adjustment) * PrevoteBlocksMultiple

Message(voter, round, stage, height, hashes) ==
  [voter |-> voter, round |-> round, stage |-> stage, height |-> height, hashes |-> hashes]

LastKey(m) == <<m.height + Len(m.hashes) - 1, m.hashes[Len(m.hashes)]>>

OnChain(key, c) == key[1] \in 1..Len(c) /\ c[key[1]] = key[2]

\* statistics() of the proof storage: the last saved proof
LastEpoch == Max(DOMAIN proofs)
statistics == proofs[LastEpoch]

-----------------------------------------------------------------------------
(* RoundMessageAggregator and MultiRoundMessageAggregator *)

EmptyRound == [msgs |-> {}, ctx |-> EmptyContext]

\* the checks of RoundMessageAggregator::add that do not depend on earlier votes
IsValid(m) ==
  LET epoch == m.round[1]
      last == m.height + Len(m.hashes) - 1
  IN /\ Len(m.hashes) \in 1..MaxHashesPerPoint
     /\ CalculateVotingSetEndHeight(epoch - 1) <= last
     /\ IF m.stage = "prevote"
        THEN /\ m.height >= CalculateVotingSetEndHeight(epoch - 1)
             /\ last <= CalculateVotingSetEndHeight(epoch)
        ELSE Len(m.hashes) = 1

\* a first vote of an eligible voter for a stage is stored and counted; a second
\* one is redundant or conflicting, and is not
AddToRound(r, m) ==
  IF /\ IsValid(m)
     /\ \A o \in r.msgs : <<o.voter, o.stage>> /= <<m.voter, m.stage>>
     /\ Weight[m.voter] > 0
  THEN [msgs |-> r.msgs \cup {m},
        ctx |-> IF m.stage = "prevote"
                THEN acceptPrevote(r.ctx, m.height, m.hashes, Weight[m.voter])
                ELSE acceptPrecommit(r.ctx, LastKey(m), Weight[m.voter])]
  ELSE r

IsInRange(round) == ~RoundLess(round, minRound) /\ ~RoundLess(maxRound, round)

\* MultiRoundMessageAggregatorModifier::add: the round exists from the first
\* vote in range on, even if that vote is refused
add(m) ==
  IF IsInRange(m.round)
  THEN LET old == IF m.round \in DOMAIN rounds THEN rounds[m.round] ELSE EmptyRound
       IN rounds' = [r \in DOMAIN rounds \cup {m.round} |->
                       IF r = m.round THEN AddToRound(old, m) ELSE rounds[r]]
  ELSE UNCHANGED rounds

FirstRound(rs) == CHOOSE r \in rs : \A o \in rs : ~RoundLess(o, r)

\* of the newest round that has one
findEstimate(round) ==
  LET estimates == {<<r, tryFindEstimate(rounds[r].ctx)>> : r \in {x \in DOMAIN rounds : ~RoundLess(round, x)}}
      found == {x \in estimates : x[2] /= NoKey}
  IN IF found = {} THEN previous
     ELSE (CHOOSE x \in found : \A o \in found : ~RoundLess(x[1], o[1]))[2]

\* the rounds that hold a best precommit
Finished == {r \in DOMAIN rounds : tryFindBestPrecommit(rounds[r].ctx) /= NoKey}

prune(epoch) ==
  LET kept == {r \in DOMAIN rounds : r[1] >= epoch}
  IN /\ rounds' = [r \in kept |-> rounds[r]]
     /\ minRound' = IF kept = {} THEN maxRound ELSE FirstRound(kept)
     /\ UNCHANGED <<maxRound, previous>>

-----------------------------------------------------------------------------
(* FinalizationMessageProcessingService *)

\* The stage advancer's votes count for the peers: a precommit is cast for a
\* block that a threshold of prevotes covers.
Covers(m, key) == \E i \in 1..Len(m.hashes) : <<m.height + i - 1, m.hashes[i]>> = key

Backed(key, round) ==
  LET votes == {m \in cast \cup {s.msg : s \in sent} : m.stage = "prevote" /\ m.round = round /\ Covers(m, key)}
  IN MapThenSumSet(LAMBDA v : Weight[v], {m.voter : m \in votes}) >= Threshold

\* The consumer of vote ranges drops a vote out of range or in the recent hash
\* cache, and dispatches the others to a pool whose threads add them.  The
\* range is checked again by add, so a vote of a peer that waits in the pool
\* is one that arrives later.
Receive(m) ==
  /\ IsInRange(m.round)
  /\ m.round \in DOMAIN rounds => m \notin rounds[m.round].msgs
  /\ IF m \in plan.inbox
     THEN /\ m \in cast \/ \A o \in cast : <<o.voter, o.round, o.stage>> /= <<m.voter, m.round, m.stage>>
          /\ m.stage = "prevote" \/ Backed(LastKey(m), m.round)
          /\ cast' = cast \cup {m}
     ELSE m \in {s.msg : s \in sent} /\ UNCHANGED cast
  /\ add(m)
  /\ UNCHANGED <<chain, status, elapsed, file, pc, best, minRound, maxRound, previous, queue,
                 proofs, backups, patch, pull, sent, restarts, plan>>

\* An own vote takes the same path.  The task goes on while it waits.
Process(m) ==
  /\ m \in queue
  /\ queue' = queue \ {m}
  /\ add(m)
  /\ UNCHANGED <<chain, status, elapsed, file, pc, best, minRound, maxRound, previous,
                 proofs, backups, patch, pull, cast, sent, restarts, plan>>

-----------------------------------------------------------------------------
(* FinalizationOrchestratorService and FinalizationOrchestrator *)

Started(round) == [round |-> round, pv |-> FALSE, pc |-> FALSE]

\* calculateEpochStatus
EpochIsOver == LastEpoch > status.round[1] \/ statistics.key[1] = CalculateVotingSetEndHeight(status.round[1])
MustWait == EpochIsOver /\ ~OnChain(statistics.key, chain)

\* setEpoch, setMaxFinalizationRound, and startRound when there is no advancer.
\* A poll uses one time throughout: `now` step durations since the round started.
Poll(now) ==
  LET epoch == LastEpoch + 1
      advance == EpochIsOver /\ epoch /= status.round[1]
      round == IF advance THEN <<epoch, 1>> ELSE status.round
  IN /\ pc = "idle" /\ ~MustWait
     /\ round[1] <= MaxEpoch
     /\ status' = IF advance THEN Started(round) ELSE status
     /\ IF advance \/ elapsed = -1 THEN now = 0 ELSE now >= elapsed
     /\ elapsed' = now
     /\ maxRound' = IF RoundLess(maxRound, round) THEN round ELSE maxRound
     /\ pc' = "prevote"
     /\ UNCHANGED <<storage, best, minRound, previous, rounds, queue, patch, pull, cast, sent, restarts, plan>>

HasContext == status.round \in DOMAIN rounds
Context == rounds[status.round].ctx

canSendPrevote == elapsed >= 1 \/ (HasContext /\ isCompletable(Context))

canSendPrecommit ==
  /\ HasContext
  /\ \E target \in {tryFindBestPrevote(Context)}, estimate \in {findEstimate(<<status.round[1], status.round[2] - 1>>)} :
       target /= NoKey /\ isDescendant(Context, estimate, target)
  /\ elapsed >= 2 \/ isCompletable(Context)

\* mutant: the round is left before it is completable
MutantCanStartNextRound == HasContext

canStartNextRound == HasContext /\ isCompletable(Context)

\* loadPrevoteHashChain
PrevoteHashes ==
  LET height == Len(chain)
      start == statistics.key[1]
      limit == IF height >= PrevoteBlocksMultiple THEN height - PrevoteBlocksMultiple ELSE height
      clamped == Clamp(Min({limit, CalculateVotingSetEndHeight(status.round[1])}), 0)
      wanted == IF clamped > start THEN clamped - start + 1 ELSE 1
      count == IF wanted > MaxHashesPerPoint THEN wanted - Clamp(wanted - MaxHashesPerPoint, 1) ELSE wanted
  IN SubSeq(chain, start, Min({height, start + count - 1}))

\* process: the message sink is the consumer of vote ranges
Send(m) ==
  IF Weight[Self] > 0 /\ IsInRange(m.round)
  THEN /\ queue' = queue \cup {m}
       /\ sent' = sent \cup {[msg |-> m, boot |-> restarts]}
  ELSE UNCHANGED <<queue, sent>>

SendPrevote ==
  LET hashes == PrevoteHashes
      start == statistics.key[1]
  IN /\ pc = "prevote"
     /\ pc' = "precommit"
     /\ IF ~status.pv /\ canSendPrevote
        THEN /\ backups' = [r \in DOMAIN backups \cup {status.round} |->
                              IF r = status.round THEN BranchKeys(start, hashes) ELSE backups[r]]
             /\ Send(Message(Self, status.round, "prevote", start,
                             IF hashes = <<>> THEN <<statistics.key[2]>> ELSE hashes))
             /\ status' = [status EXCEPT !.pv = TRUE]
        ELSE UNCHANGED <<backups, queue, sent, status>>
     /\ UNCHANGED <<chain, elapsed, file, best, aggregator, proofs, patch, pull, cast, restarts, plan>>

SendPrecommit ==
  /\ pc = "precommit"
  /\ pc' = "next"
  /\ IF ~status.pc /\ canSendPrecommit
     THEN LET target == tryFindBestPrevote(Context)
          IN /\ Send(Message(Self, status.round, "precommit", target[1], <<target[2]>>))
             /\ status' = [status EXCEPT !.pc = TRUE]
     ELSE UNCHANGED <<queue, sent, status>>
  /\ UNCHANGED <<storage, elapsed, best, aggregator, patch, pull, cast, restarts, plan>>

\* the end of FinalizationOrchestrator::poll, and the save of the voting status
StartNextRound ==
  /\ pc = "next"
  /\ pc' = "find"
  /\ IF status.pc /\ canStartNextRound /\ status.round[2] < MaxPoint
     THEN /\ status' = Started(<<status.round[1], status.round[2] + 1>>)
          /\ elapsed' = 0
     ELSE UNCHANGED <<status, elapsed>>
  /\ file' = status'
  /\ UNCHANGED <<chain, proofs, backups, best, aggregator, queue, patch, pull, cast, sent, restarts, plan>>

-----------------------------------------------------------------------------
(* The finalizer, the proof storage and its subscribers *)

NoBest == [round |-> <<0, 0>>, key |-> NoKey]

\* mutant: the oldest round with a best precommit is taken
MutantFindBestPrecommit ==
  /\ pc = "find"
  /\ LET found == {[round |-> r, key |-> tryFindBestPrecommit(rounds[r].ctx)] : r \in {x \in Finished : x = FirstRound(Finished)}}
     IN \/ /\ \A x \in found : x.key[1] = statistics.key[1]
           /\ pc' = "idle" /\ UNCHANGED best
        \/ \E x \in found :
             /\ x.key[1] /= statistics.key[1]
             /\ pc' = "save" /\ best' = x
  /\ UNCHANGED <<storage, status, elapsed, aggregator, queue, patch, pull, cast, sent, restarts, plan>>

FindBestPrecommit ==
  /\ pc = "find"
  /\ LET newest == {r \in Finished : \A o \in Finished : ~RoundLess(r, o)}
         found == {[round |-> r, key |-> tryFindBestPrecommit(rounds[r].ctx)] : r \in newest}
     IN \/ /\ \A x \in found : x.key[1] = statistics.key[1]
           /\ pc' = "idle" /\ UNCHANGED best
        \/ \E x \in found :
             /\ x.key[1] /= statistics.key[1]
             /\ pc' = "save" /\ best' = x
  /\ UNCHANGED <<storage, status, elapsed, aggregator, queue, patch, pull, cast, sent, restarts, plan>>

\* AggregateProofStorage::saveProof skips a proof of an older round
IsOlder(proof) == RoundLess(proof.round, statistics.round)

\* mutant: the height is not compared
MutantThrows(proof) == proof.round[1] > LastEpoch + 1

\* FileProofStorage::saveProof throws
Throws(proof) == proof.round[1] > LastEpoch + 1 \/ statistics.key[1] > proof.key[1]

\* The proof is written, then the patching subscriber hands the backed up
\* prevote chain, up to the finalized block, to the block consumer when the
\* local chain lacks that block, and the backup of the round is removed.
SaveProof(proof) ==
  /\ proofs' = [e \in DOMAIN proofs \cup {proof.round[1]} |-> IF e = proof.round[1] THEN proof ELSE proofs[e]]
  /\ patch' = IF /\ ~OnChain(proof.key, chain)
                 /\ proof.round \in DOMAIN backups /\ proof.key \in Range(backups[proof.round])
              THEN SelectSeq(backups[proof.round], LAMBDA k : k[1] <= proof.key[1])
              ELSE patch
  /\ backups' = [r \in DOMAIN backups \ {proof.round} |-> backups[r]]

\* saveProof and prune of the finalizer; an exception ends the process
SaveBestPrecommit ==
  /\ pc = "save"
  /\ best' = NoBest
  /\ IF IsOlder(best)
     THEN /\ pc' = "idle" /\ prune(best.round[1] - 1)
          /\ UNCHANGED <<proofs, patch, backups>>
     ELSE IF Throws(best)
          THEN pc' = "dead" /\ UNCHANGED <<proofs, patch, backups, aggregator>>
          ELSE pc' = "idle" /\ SaveProof(best) /\ prune(best.round[1] - 1)
  /\ UNCHANGED <<chain, status, elapsed, file, queue, pull, cast, sent, restarts, plan>>

-----------------------------------------------------------------------------
(* FinalizationProofSynchronizer *)

NoPull(n) == [height |-> 0, epoch |-> 0, count |-> n]
Pulling == pull.epoch /= 0

calculateRequestEpoch ==
  LET height == statistics.key[1]
      next == CalculateGroupedHeight(height + Grouping + 1)
      epoch == CalculateFinalizationEpochForHeight(height)
  IN IF next < Len(chain) THEN CalculateFinalizationEpochForHeight(next)
     ELSE IF UnfinalizedBlocksDuration /= 0 /\ Len(chain) - height >= UnfinalizedBlocksDuration
     THEN IF CalculateVotingSetEndHeight(epoch) /= height THEN epoch ELSE epoch + 1
     ELSE 0

\* the local finalized height and the requested epoch are fixed before the
\* requests go out, and used when the answer arrives
PullProof ==
  /\ ~Pulling /\ pull.count < plan.pulls /\ calculateRequestEpoch /= 0
  /\ pull' = [height |-> statistics.key[1], epoch |-> calculateRequestEpoch, count |-> pull.count + 1]
  /\ UNCHANGED <<storage, status, elapsed, pc, best, aggregator, queue, patch, cast, sent, restarts, plan>>

\* a proof that a peer may hold: what a set of cast votes finalizes
Extends(b, a) == a[1] <= b[1] /\ \E c \in Chains : OnChain(a, c) /\ OnChain(b, c)

Provable(round, key) ==
  LET votes == {m \in cast \cup {s.msg : s \in sent} :
                  m.stage = "precommit" /\ m.round = round /\ Extends(LastKey(m), key)}
  IN /\ Backed(key, round)
     /\ MapThenSumSet(LAMBDA v : Weight[v], {m.voter : m \in votes}) >= Threshold

PullAnswer(round, key) ==
  LET proof == [round |-> round, key |-> key]
  IN /\ Pulling /\ Provable(round, key)
     /\ pull' = NoPull(pull.count)
     /\ IF /\ pull.epoch = round[1] /\ pull.height < key[1]
           /\ ~IsOlder(proof) /\ ~Throws(proof)
        THEN SaveProof(proof)
        ELSE UNCHANGED <<proofs, patch, backups>>
     /\ UNCHANGED <<chain, status, elapsed, file, pc, best, aggregator, queue, cast, sent, restarts, plan>>

\* no connection, no proof, or one that fails verification
PullFails ==
  /\ Pulling
  /\ pull' = NoPull(pull.count)
  /\ UNCHANGED <<storage, status, elapsed, pc, best, aggregator, queue, patch, cast, sent, restarts, plan>>

-----------------------------------------------------------------------------
(* Block synchronization, and the restart *)

\* the local finalized block: the newest proof that matches the local chain
LocalFinalized ==
  proofs[Max({e \in DOMAIN proofs : OnChain(proofs[e].key, chain)})].key

\* the block consumer switches to a longer chain that keeps the local
\* finalized block, or to one that has the finalized block the local chain lacks
SyncBlocks(c) ==
  /\ pc /= "dead" /\ c /= chain
  /\ \/ OnChain(LocalFinalized, c) /\ Len(c) > Len(chain)
     \/ ~OnChain(statistics.key, chain) /\ OnChain(statistics.key, c)
  /\ chain' = c
  /\ UNCHANGED <<status, elapsed, file, pc, best, aggregator, queue, proofs, backups, patch, pull,
                 cast, sent, restarts, plan>>

ApplyPatch ==
  LET first == patch[1][1]
      c == SubSeq(chain, 1, first - 1) \o [i \in DOMAIN patch |-> patch[i][2]]
  IN /\ patch /= <<>>
     /\ patch' = <<>>
     /\ chain' = IF /\ first - 1 <= Len(chain) /\ \E x \in Chains : Len(c) <= Len(x) /\ c = SubSeq(x, 1, Len(c))
                    /\ ~OnChain(statistics.key, chain) /\ OnChain(statistics.key, c)
                 THEN c ELSE chain
     /\ UNCHANGED <<status, elapsed, file, pc, best, aggregator, queue, proofs, backups, pull, cast, sent, restarts, plan>>

\* mutant: the flags of the saved voting status are not restored
MutantBoot ==
  /\ minRound' = statistics.round /\ maxRound' = statistics.round
  /\ previous' = statistics.key
  /\ rounds' = [r \in {} |-> EmptyRound]
  /\ status' = Started(file.round)
  /\ elapsed' = -1

\* what the constructors of the services build
Boot ==
  /\ minRound' = statistics.round /\ maxRound' = statistics.round
  /\ previous' = statistics.key
  /\ rounds' = [r \in {} |-> EmptyRound]
  /\ status' = file
  /\ elapsed' = -1

\* the process ends, by a crash at any point or an exception, and is started
\* again: what is not in storage is lost
Restart ==
  /\ restarts < plan.crashes
  /\ restarts' = restarts + 1
  /\ pc' = "idle" /\ best' = NoBest /\ queue' = {} /\ patch' = <<>> /\ pull' = NoPull(pull.count)
  /\ Boot
  /\ UNCHANGED <<storage, cast, sent, plan>>

\* the nemesis block is finalized by the proof of epoch 1
Genesis == [round |-> <<1, 1>>, key |-> <<1, 1>>]

Init ==
  /\ plan \in Plans /\ chain \in plan.chains
  /\ file = Started(<<2, 1>>) /\ status = file /\ elapsed = -1
  /\ proofs = [e \in {1} |-> Genesis] /\ backups = [r \in {} |-> <<>>]
  /\ pc = "idle" /\ best = NoBest
  /\ minRound = Genesis.round /\ maxRound = Genesis.round /\ previous = Genesis.key
  /\ rounds = [r \in {} |-> EmptyRound]
  /\ queue = {} /\ patch = <<>> /\ pull = NoPull(0)
  /\ cast = {} /\ sent = {} /\ restarts = 0

AllKeys == UNION {{<<h, c[h]>> : h \in 1..Len(c)} : c \in Chains}

Task == (\E now \in 0..2 : Poll(now)) \/ SendPrevote \/ SendPrecommit \/ StartNextRound \/ FindBestPrecommit \/ SaveBestPrecommit

Next ==
  \/ Task
  \/ \E m \in plan.inbox \cup {s.msg : s \in sent} : pc /= "dead" /\ (Receive(m) \/ Process(m))
  \/ pc /= "dead" /\ (PullProof \/ PullFails)
  \/ \E r \in {<<e, p>> : e \in 2..MaxEpoch, p \in 1..MaxPoint}, k \in AllKeys : pc /= "dead" /\ PullAnswer(r, k)
  \/ \E c \in plan.chains : SyncBlocks(c)
  \/ pc /= "dead" /\ ApplyPatch
  \/ Restart

Spec == Init /\ [][Next]_vars

\* the scheduler runs the task again and again
FairSpec == Spec /\ WF_vars(Task)

-----------------------------------------------------------------------------
(* Properties *)

WeightOf(msgs) == MapThenSumSet(LAMBDA m : Weight[m.voter], msgs)


Quorum == {Q \in SUBSET Voters : MapThenSumSet(LAMBDA v : Weight[v], Q) >= Threshold}

VotesOf(epoch, msgs) ==
  {[voter |-> m.voter, round |-> m.round[2], stage |-> m.stage, block |-> LastKey(m)] :
     m \in {x \in msgs : x.round[1] = epoch}}

IsAncestor(a, b) == Extends(b, a)

\* the blocks that votes of an epoch may name
EpochKeys(epoch) ==
  {k \in AllKeys : k[1] \in CalculateVotingSetEndHeight(epoch - 1)..CalculateVotingSetEndHeight(epoch)}

\* the votes of an epoch, and what this node has received of them
Protocol(epoch) == INSTANCE Finality WITH
  Quorums <- Quorum, Blocks <- EpochKeys(epoch), Leq <- IsAncestor, Rounds <- 1..MaxPoint,
  votes <- VotesOf(epoch, cast \cup {s.msg : s \in sent})

Received(epoch) == VotesOf(epoch, UNION {rounds[r].msgs : r \in DOMAIN rounds})

\* Until it restarts, a node votes as Finality allows it with the votes in its
\* aggregator, although polls, additions, pruning and proof pulls interleave: it
\* precommits to the best prevote, above the estimate of a previous round that
\* is completable and in which it has voted.
VotesFollowProtocol ==
  [][\A x \in sent' \ sent : restarts = 0 =>
       LET epoch == x.msg.round[1]
           point == x.msg.round[2]
           W == Received(epoch)
       IN /\ x.msg.stage = "precommit" => Protocol(epoch)!IsBestPrevote(W, point, LastKey(x.msg))
          /\ point > 1 => \E e \in EpochKeys(epoch) :
               /\ Protocol(epoch)!MayLeave(W, Self, point - 1, e)
               /\ x.msg.stage = "precommit" => IsAncestor(e, LastKey(x.msg))]_vars

\* A crash between sending a vote and saving the voting status lets the node
\* vote again.  It never does so for a step that the saved status records.
VotesOncePerStatus ==
  [][\A x \in sent' \ sent :
       /\ ~RoundLess(x.msg.round, file.round)
       /\ x.msg.round = file.round => ~(IF x.msg.stage = "prevote" THEN file.pv ELSE file.pc)
       /\ \A y \in sent : y.boot = x.boot => <<y.msg.round, y.msg.stage>> /= <<x.msg.round, x.msg.stage>>]_vars

\* A stored proof is only ever followed by one for a descendant, whether the
\* finalizer or a proof pull writes it and whatever each read before.
ProofsExtend == [][Extends(statistics'.key, statistics.key)]_vars

\* Again and again, everything that the votes in the aggregator finalize is stored,
\* unless the node has to wait for blocks it lacks or the process ends.
KnownFinalityStored ==
  []<>(\/ MustWait \/ pc = "dead"
       \/ \A r \in Finished : statistics.key[1] >= tryFindBestPrecommit(rounds[r].ctx)[1])
====
