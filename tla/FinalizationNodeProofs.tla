---- MODULE FinalizationNodeProofs ----
(***************************************************************************)
(* A node never votes twice for a step that its saved voting status        *)
(* records, wherever it crashes, for every set of voters and chains, every *)
(* grouping and every environment of votes, blocks and proofs.             *)
(***************************************************************************)
EXTENDS FinalizationNode, TLAPS

Rounds == Nat \X Nat

\* a voting status, and one that does not fall behind another
IsStatus(s) ==
  /\ s = [round |-> s.round, pv |-> s.pv, pc |-> s.pc]
  /\ s.round \in Rounds /\ s.pv \in BOOLEAN /\ s.pc \in BOOLEAN

Follows(s, t) ==
  /\ ~RoundLess(s.round, t.round)
  /\ s.round = t.round => (t.pv => s.pv) /\ (t.pc => s.pc)

\* one proof for each epoch, and the last one is of the last epoch
ProofsInv ==
  \E n \in Nat \ {0} : DOMAIN proofs = 1..n /\ proofs[n].round \in Rounds /\ proofs[n].round[1] = n

RoundsInv ==
  /\ plan \in Plans /\ restarts \in Nat
  /\ DOMAIN rounds \subseteq Rounds
  /\ pc = "save" => best.round \in Rounds

\* the status is never behind the saved one, and neither is ahead of the proofs
StatusInv ==
  /\ IsStatus(status) /\ IsStatus(file) /\ Follows(status, file)
  /\ status.round[1] <= LastEpoch + 1 /\ file.round[1] <= LastEpoch + 1

\* what was sent since the last boot is on record
SentInv ==
  \A y \in sent :
    /\ y.boot \in Nat /\ y.boot <= restarts /\ y.msg.round \in Rounds
    /\ y.boot = restarts =>
         /\ ~RoundLess(status.round, y.msg.round)
         /\ y.msg.round = status.round => IF y.msg.stage = "prevote" THEN status.pv ELSE status.pc

VoteInv == RoundsInv /\ ProofsInv /\ StatusInv /\ SentInv

-----------------------------------------------------------------------------

LEMMA RoundParts ==
  ASSUME NEW r \in Rounds
  PROVE  r = <<r[1], r[2]>> /\ r[1] \in Nat /\ r[2] \in Nat
BY DEF Rounds

LEMMA RoundPair ==
  ASSUME NEW a \in Nat, NEW b \in Nat, NEW r, r = <<a, b>>
  PROVE  r \in Rounds /\ r[1] = a /\ r[2] = b
BY DEF Rounds

LEMMA LastOfInterval ==
  ASSUME NEW n \in Nat \ {0}
  PROVE  Max(1..n) = n
<1>1. n \in 1..n /\ \A x \in 1..n : x <= n
  OBVIOUS
<1> QED
  BY <1>1 DEF Max

\* statistics() is the proof of the last epoch
LEMMA LastProof ==
  ASSUME ProofsInv
  PROVE  /\ LastEpoch \in Nat \ {0} /\ DOMAIN proofs = 1..LastEpoch
         /\ statistics.round \in Rounds /\ statistics.round[1] = LastEpoch
<1>1. PICK n \in Nat \ {0} : DOMAIN proofs = 1..n /\ proofs[n].round \in Rounds /\ proofs[n].round[1] = n
  BY DEF ProofsInv
<1>2. LastEpoch = n
  BY <1>1, LastOfInterval DEF LastEpoch
<1> QED
  BY <1>1, <1>2 DEF statistics

\* a proof that is neither older nor refused is of the last epoch or the next
LEMMA SavedProof ==
  ASSUME ProofsInv, NEW proof, proof.round \in Rounds, ~IsOlder(proof), ~Throws(proof), SaveProof(proof)
  PROVE  ProofsInv' /\ LastEpoch' \in Nat /\ LastEpoch' >= LastEpoch
<1>1. PICK n : n = LastEpoch /\ n \in Nat \ {0} /\ DOMAIN proofs = 1..n
               /\ statistics.round \in Rounds /\ statistics.round[1] = n
  BY LastProof
<1>2. PICK m : m = proof.round[1] /\ m \in Nat
  BY RoundParts
<1>3. m >= n
  <2>1. ~(proof.round[1] < statistics.round[1])
    BY DEF IsOlder, RoundLess
  <2> QED
    BY <1>1, <1>2, <2>1
<1>4. m <= n + 1
  <2>1. ~(proof.round[1] > LastEpoch + 1)
    BY DEF Throws
  <2> QED
    BY <1>1, <1>2, <2>1
<1>5. proofs' = [e \in DOMAIN proofs \cup {m} |-> IF e = m THEN proof ELSE proofs[e]]
  BY <1>2 DEF SaveProof
<1>6. DOMAIN proofs' = 1..m /\ proofs'[m] = proof
  <2>1. (1..n) \cup {m} = 1..m
    BY <1>1, <1>2, <1>3, <1>4
  <2> QED
    BY <1>1, <1>5, <2>1
<1>7. m \in Nat \ {0}
  BY <1>1, <1>2, <1>3
<1>8. LastEpoch' = m
  BY <1>6, <1>7, LastOfInterval DEF LastEpoch
<1>9. ProofsInv'
  BY <1>2, <1>6, <1>7 DEF ProofsInv
<1> QED
  BY <1>1, <1>2, <1>3, <1>8, <1>9

\* proofs may be added while the orchestrator's state is left alone
LEMMA QuietVotes ==
  ASSUME VoteInv, UNCHANGED <<status, file, sent, restarts>>, RoundsInv',
         ProofsInv', LastEpoch' \in Nat, LastEpoch' >= LastEpoch
  PROVE  VoteInv' /\ sent' = sent
<1>1. status' = status /\ file' = file /\ sent' = sent /\ restarts' = restarts
  OBVIOUS
<1>2. SentInv'
  BY <1>1 DEF VoteInv, SentInv
<1>3. LastEpoch \in Nat
  BY LastProof DEF VoteInv
<1>4. status.round[1] \in Nat /\ file.round[1] \in Nat
  BY RoundParts DEF VoteInv, StatusInv, IsStatus
<1>5. status'.round[1] <= LastEpoch' + 1 /\ file'.round[1] <= LastEpoch' + 1
  BY <1>1, <1>3, <1>4 DEF VoteInv, StatusInv
<1>6. StatusInv'
  BY <1>1, <1>5 DEF VoteInv, StatusInv, IsStatus, Follows, RoundLess
<1> QED
  BY <1>1, <1>2, <1>6 DEF VoteInv

LEMMA SameProofs ==
  ASSUME ProofsInv, proofs' = proofs
  PROVE  ProofsInv' /\ LastEpoch' = LastEpoch /\ LastEpoch' \in Nat /\ LastEpoch' >= LastEpoch
<1>1. ProofsInv'
  BY DEF ProofsInv
<1>2. LastEpoch' = LastEpoch
  BY DEF LastEpoch
<1> QED
  BY <1>1, <1>2, LastProof

\* the pool adds a vote: its round may be a new one
LEMMA VotesAdded ==
  ASSUME VoteInv, NEW m \in plan.inbox \cup {s.msg : s \in sent}, Receive(m) \/ Process(m)
  PROVE  VoteInv' /\ sent' = sent
<1>1. /\ status' = status /\ file' = file /\ sent' = sent /\ restarts' = restarts /\ proofs' = proofs
      /\ plan' = plan /\ pc' = pc /\ best' = best /\ add(m)
  BY DEF Receive, Process
<1>2. m.round \in Rounds
  BY PlansAssumption DEF VoteInv, RoundsInv, SentInv, Rounds
<1>3. DOMAIN rounds' \subseteq Rounds
  BY <1>1, <1>2 DEF add, VoteInv, RoundsInv
<1>4. RoundsInv'
  BY <1>1, <1>3 DEF VoteInv, RoundsInv
<1>5. ProofsInv' /\ LastEpoch' \in Nat /\ LastEpoch' >= LastEpoch
  BY <1>1, SameProofs DEF VoteInv
<1> QED
  BY <1>1, <1>4, <1>5, QuietVotes

\* steps of the finalizer, the proof pull and block synchronization that store no proof
LEMMA NothingStored ==
  ASSUME VoteInv, FindBestPrecommit \/ PullProof \/ PullFails \/ ApplyPatch \/ \E c : SyncBlocks(c)
  PROVE  VoteInv' /\ sent' = sent
<1>1. /\ status' = status /\ file' = file /\ sent' = sent /\ restarts' = restarts /\ proofs' = proofs
      /\ plan' = plan /\ rounds' = rounds
  BY Zenon DEF FindBestPrecommit, PullProof, PullFails, ApplyPatch, SyncBlocks, storage, aggregator
<1>2. pc' = "save" => best'.round \in Rounds
  <2>1. CASE FindBestPrecommit
    <3>1. pc' = "save" => \E r \in DOMAIN rounds : best' = [round |-> r, key |-> tryFindBestPrecommit(rounds[r].ctx)]
      BY <2>1 DEF FindBestPrecommit, Finished
    <3>2. pc' = "save" => best'.round \in DOMAIN rounds
      BY <3>1
    <3> QED
      BY <3>2, Zenon DEF VoteInv, RoundsInv
  <2>2. CASE PullProof \/ PullFails \/ ApplyPatch \/ \E c : SyncBlocks(c)
    BY <2>2, Zenon DEF PullProof, PullFails, ApplyPatch, SyncBlocks, VoteInv, RoundsInv
  <2> QED
    BY <2>1, <2>2
<1>3. RoundsInv'
  BY <1>1, <1>2 DEF VoteInv, RoundsInv
<1>4. ProofsInv' /\ LastEpoch' \in Nat /\ LastEpoch' >= LastEpoch
  BY <1>1, SameProofs DEF VoteInv
<1> QED
  BY <1>1, <1>3, <1>4, QuietVotes, Zenon

\* the finalizer stores a proof, finds a newer one, or throws
LEMMA FinalizerSaves ==
  ASSUME VoteInv, SaveBestPrecommit
  PROVE  VoteInv' /\ sent' = sent
<1>1. /\ status' = status /\ file' = file /\ sent' = sent /\ restarts' = restarts /\ plan' = plan
      /\ pc = "save" /\ pc' /= "save"
  BY DEF SaveBestPrecommit
<1>2. best.round \in Rounds
  BY <1>1 DEF VoteInv, RoundsInv
<1>3. DOMAIN rounds' \subseteq DOMAIN rounds
  BY DEF SaveBestPrecommit, prune, aggregator
<1>4. RoundsInv'
  BY <1>1, <1>3, ZenonT(30) DEF VoteInv, RoundsInv
<1>5. ProofsInv' /\ LastEpoch' \in Nat /\ LastEpoch' >= LastEpoch
  <2>1. CASE proofs' = proofs
    BY <2>1, SameProofs DEF VoteInv
  <2>2. CASE ~IsOlder(best) /\ ~Throws(best) /\ SaveProof(best)
    BY <1>2, <2>2, SavedProof DEF VoteInv
  <2> QED
    BY <2>1, <2>2 DEF SaveBestPrecommit
<1> QED
  BY <1>1, <1>4, <1>5, QuietVotes, Zenon

\* the answer to a proof pull
LEMMA ProofPulled ==
  ASSUME VoteInv, NEW r \in Rounds, NEW k, PullAnswer(r, k)
  PROVE  VoteInv' /\ sent' = sent
<1>1. /\ status' = status /\ file' = file /\ sent' = sent /\ restarts' = restarts /\ plan' = plan
      /\ pc' = pc /\ best' = best /\ rounds' = rounds
  BY DEF PullAnswer, aggregator
<1>2. RoundsInv'
  BY <1>1 DEF VoteInv, RoundsInv
<1>3. PICK proof : proof = [round |-> r, key |-> k]
  BY Zenon
<1>4. ProofsInv' /\ LastEpoch' \in Nat /\ LastEpoch' >= LastEpoch
  <2>1. CASE proofs' = proofs
    BY <2>1, SameProofs DEF VoteInv
  <2>2. CASE proofs' /= proofs
    <3>1. ~IsOlder(proof) /\ ~Throws(proof) /\ SaveProof(proof)
      BY <1>3, <2>2 DEF PullAnswer
    <3>2. proof.round \in Rounds
      BY <1>3
    <3> QED
      BY <3>1, <3>2, SavedProof, SMTT(30) DEF VoteInv
  <2> QED
    BY <2>1, <2>2
<1> QED
  BY <1>1, <1>2, <1>4, QuietVotes

\* the round advances: what is on record is of earlier rounds
LEMMA RoundAdvances ==
  ASSUME VoteInv, NEW s, s = Started(s.round), s.round \in Rounds, RoundLess(status.round, s.round),
         status' = s, sent' = sent, restarts' = restarts
  PROVE  /\ SentInv' /\ IsStatus(status') /\ Follows(status', file) /\ Follows(status', status')
<1>1. IsStatus(s)
  <2>1. s = [round |-> s.round, pv |-> FALSE, pc |-> FALSE]
    BY DEF Started
  <2>2. PICK x : x = s.round
    OBVIOUS
  <2>3. s = [round |-> x, pv |-> FALSE, pc |-> FALSE]
    BY <2>1, <2>2
  <2>4. s.pv = FALSE /\ s.pc = FALSE
    BY <2>3
  <2>5. s.pv \in BOOLEAN /\ s.pc \in BOOLEAN
    BY <2>4, Zenon
  <2> QED
    BY <2>1, <2>4, <2>5 DEF IsStatus
<1>2. \A x \in Rounds : x[1] \in Nat /\ x[2] \in Nat
  BY RoundParts
<1>3. status.round \in Rounds /\ file.round \in Rounds /\ ~RoundLess(status.round, file.round)
  BY DEF VoteInv, StatusInv, IsStatus, Follows
<1>4. \A x \in Rounds : ~RoundLess(status.round, x) => ~RoundLess(s.round, x) /\ x /= s.round
  <2>1. ASSUME NEW x \in Rounds, ~RoundLess(status.round, x)
        PROVE  ~RoundLess(s.round, x) /\ x /= s.round
    <3>1. PICK a \in Nat, b \in Nat, c \in Nat, d \in Nat, e \in Nat, f \in Nat :
             a = x[1] /\ b = x[2] /\ c = status.round[1] /\ d = status.round[2] /\ e = s.round[1] /\ f = s.round[2]
      BY <1>2, <1>3, Zenon
    <3>2. ~(c < a \/ (c = a /\ d < b)) /\ (c < e \/ (c = e /\ d < f))
      BY <2>1, <3>1 DEF RoundLess
    <3>3. ~(e < a \/ (e = a /\ f < b)) /\ ~(a = e /\ b = f)
      BY <3>2
    <3> QED
      BY <3>1, <3>3 DEF RoundLess
  <2> QED
    BY <2>1
<1>5. Follows(s, file)
  BY <1>3, <1>4 DEF Follows
<1>6. ~RoundLess(s.round, s.round)
  BY <1>2 DEF RoundLess
<1>7. Follows(s, s)
  BY <1>6 DEF Follows
<1>8. SentInv'
  BY <1>4 DEF VoteInv, SentInv
<1> QED
  BY <1>1, <1>5, <1>7, <1>8

LEMMA SameRounds ==
  ASSUME RoundsInv, plan' = plan, restarts' = restarts, rounds' = rounds, pc' /= "save"
  PROVE  RoundsInv'
BY DEF RoundsInv

\* a poll starts, perhaps in a new epoch
LEMMA PollVotes ==
  ASSUME VoteInv, NEW now, Poll(now)
  PROVE  VoteInv' /\ sent' = sent
<1>1. /\ file' = file /\ proofs' = proofs /\ rounds' = rounds /\ sent' = sent /\ restarts' = restarts /\ plan' = plan
      /\ pc' = "prevote"
  BY DEF Poll, storage
<1>2. RoundsInv'
  BY <1>1, SameRounds DEF VoteInv
<1>3. ProofsInv' /\ LastEpoch' = LastEpoch /\ LastEpoch' \in Nat /\ LastEpoch' >= LastEpoch
  BY <1>1, SameProofs DEF VoteInv
<1>4. CASE status' = status
  BY <1>1, <1>2, <1>3, <1>4, QuietVotes, Zenon
<1>5. CASE status' /= status
  <2>1. PICK s : s = Started(<<LastEpoch + 1, 1>>) /\ status' = s /\ LastEpoch + 1 /= status.round[1]
    BY <1>5 DEF Poll
  <2>2. s.round = <<LastEpoch + 1, 1>>
    BY <2>1 DEF Started
  <2>3. LastEpoch + 1 \in Nat /\ 1 \in Nat
    BY <1>3
  <2>4. s.round \in Rounds /\ s.round[1] = LastEpoch + 1
    BY <2>2, <2>3, RoundPair
  <2>5. status.round[1] \in Nat /\ status.round[1] <= LastEpoch + 1
    BY RoundParts DEF VoteInv, StatusInv, IsStatus
  <2>6. RoundLess(status.round, s.round)
    BY <1>3, <2>1, <2>4, <2>5 DEF RoundLess
  <2>7. SentInv' /\ IsStatus(status') /\ Follows(status', file)
    BY <1>1, <2>1, <2>2, <2>4, <2>6, RoundAdvances, Zenon
  <2>8. status'.round[1] <= LastEpoch' + 1 /\ file'.round[1] <= LastEpoch' + 1
    BY <1>1, <1>3, <2>1, <2>3, <2>4, SMTT(30) DEF VoteInv, StatusInv
  <2>9. StatusInv'
    BY <1>1, <2>7, <2>8 DEF VoteInv, StatusInv, IsStatus, Follows, RoundLess
  <2> QED
    BY <1>1, <1>2, <1>3, <2>7, <2>9, Zenon DEF VoteInv
<1> QED
  BY <1>4, <1>5, Zenon

\* x is no vote for a step that the saved status or this process has on record
IsNewVote(x) ==
  /\ ~RoundLess(x.msg.round, file.round)
  /\ x.msg.round = file.round => ~(IF x.msg.stage = "prevote" THEN file.pv ELSE file.pc)
  /\ \A y \in sent : y.boot = x.boot => <<y.msg.round, y.msg.stage>> /= <<x.msg.round, x.msg.stage>>

\* a vote is sent, and the status records it
LEMMA VoteSent ==
  ASSUME VoteInv, NEW m, m.round = status.round, m.stage \in {"prevote", "precommit"}, Send(m),
         ~(IF m.stage = "prevote" THEN status.pv ELSE status.pc),
         status' = IF m.stage = "prevote" THEN [status EXCEPT !.pv = TRUE] ELSE [status EXCEPT !.pc = TRUE],
         UNCHANGED <<file, proofs, restarts>>, RoundsInv'
  PROVE  VoteInv' /\ \A x \in sent' \ sent : IsNewVote(x)
<1>1. IsStatus(status) /\ IsStatus(file) /\ Follows(status, file) /\ restarts \in Nat
  BY DEF VoteInv, StatusInv, RoundsInv
<1>2. /\ status'.round = status.round
      /\ status'.pv = (IF m.stage = "prevote" THEN TRUE ELSE status.pv)
      /\ status'.pc = (IF m.stage = "prevote" THEN status.pc ELSE TRUE)
      /\ status' = [round |-> status'.round, pv |-> status'.pv, pc |-> status'.pc]
  BY <1>1, Zenon DEF IsStatus
<1>3. status'.pv \in BOOLEAN /\ status'.pc \in BOOLEAN /\ (status.pv => status'.pv) /\ (status.pc => status'.pc)
  BY <1>1, <1>2, Zenon DEF IsStatus
<1>4. ProofsInv' /\ LastEpoch' = LastEpoch
  BY SameProofs DEF VoteInv
<1>5. StatusInv'
  <2>1. IsStatus(status)' /\ IsStatus(file)'
    BY <1>1, <1>2, <1>3, Zenon DEF IsStatus
  <2>2. Follows(status, file)'
    BY <1>1, <1>2, <1>3 DEF Follows, RoundLess
  <2>3. status'.round[1] <= LastEpoch' + 1 /\ file'.round[1] <= LastEpoch' + 1
    BY <1>2, <1>4 DEF VoteInv, StatusInv
  <2> QED
    BY <2>1, <2>2, <2>3 DEF StatusInv
<1>6. \A x \in sent' : x \in sent \/ x = [msg |-> m, boot |-> restarts]
  BY DEF Send
<1>7. ~RoundLess(status.round, status.round)
  <2>1. status.round[1] \in Nat /\ status.round[2] \in Nat
    BY <1>1, RoundParts DEF IsStatus
  <2> QED
    BY <2>1 DEF RoundLess
<1>8. ASSUME NEW y \in sent'
      PROVE  /\ y.boot \in Nat /\ y.boot <= restarts' /\ y.msg.round \in Rounds
             /\ y.boot = restarts' =>
                  /\ ~RoundLess(status'.round, y.msg.round)
                  /\ y.msg.round = status'.round => IF y.msg.stage = "prevote" THEN status'.pv ELSE status'.pc
  <2>1. CASE y \in sent
    BY <1>2, <1>3, <2>1 DEF VoteInv, SentInv
  <2>2. CASE y = [msg |-> m, boot |-> restarts]
    <3>1. y.msg = m /\ y.boot = restarts
      BY <2>2
    <3> QED
      BY <1>1, <1>2, <1>7, <3>1 DEF IsStatus
  <2> QED
    BY <1>6, <2>1, <2>2
<1>9. SentInv'
  BY <1>8 DEF SentInv, RoundLess
<1>10. ASSUME NEW x \in sent' \ sent
       PROVE  IsNewVote(x)
  <2>1. x.msg = m /\ x.boot = restarts
    BY <1>6
  <2>2. ~RoundLess(m.round, file.round)
    BY <1>1 DEF Follows
  <2>3. m.round = file.round => ~(IF m.stage = "prevote" THEN file.pv ELSE file.pc)
    BY <1>1 DEF Follows
  <2>4. ASSUME NEW y \in sent, y.boot = restarts
        PROVE  <<y.msg.round, y.msg.stage>> /= <<m.round, m.stage>>
    <3>1. y.msg.round = status.round => IF y.msg.stage = "prevote" THEN status.pv ELSE status.pc
      BY <2>4 DEF VoteInv, SentInv
    <3> QED
      BY <3>1
  <2> QED
    BY <2>1, <2>2, <2>3, <2>4 DEF IsNewVote
<1> QED
  BY <1>4, <1>5, <1>9, <1>10 DEF VoteInv

LEMMA PrevoteSent ==
  ASSUME VoteInv, SendPrevote
  PROVE  VoteInv' /\ \A x \in sent' \ sent : IsNewVote(x)
<1>1. /\ file' = file /\ proofs' = proofs /\ rounds' = rounds /\ restarts' = restarts /\ plan' = plan
      /\ pc' = "precommit"
  BY DEF SendPrevote, aggregator
<1>2. RoundsInv'
  BY <1>1, SameRounds DEF VoteInv
<1>3. CASE status' = status /\ sent' = sent
  <2>1. ProofsInv' /\ LastEpoch' \in Nat /\ LastEpoch' >= LastEpoch
    BY <1>1, SameProofs DEF VoteInv
  <2> QED
    BY <1>1, <1>2, <1>3, <2>1, QuietVotes
<1>4. CASE ~(status' = status /\ sent' = sent)
  <2>1. PICK height, hashes : /\ ~status.pv /\ status' = [status EXCEPT !.pv = TRUE]
                              /\ Send(Message(Self, status.round, "prevote", height, hashes))
    BY <1>4 DEF SendPrevote
  <2>2. PICK m : m = Message(Self, status.round, "prevote", height, hashes)
    OBVIOUS
  <2>3. m.round = status.round /\ m.stage = "prevote" /\ Send(m)
    BY <2>1, <2>2 DEF Message
  <2> QED
    BY <1>1, <1>2, <2>1, <2>3, VoteSent
<1> QED
  BY <1>3, <1>4

LEMMA PrecommitSent ==
  ASSUME VoteInv, SendPrecommit
  PROVE  VoteInv' /\ \A x \in sent' \ sent : IsNewVote(x)
<1>1. /\ file' = file /\ proofs' = proofs /\ rounds' = rounds /\ restarts' = restarts /\ plan' = plan
      /\ pc' = "next"
  BY DEF SendPrecommit, aggregator, storage
<1>2. RoundsInv'
  BY <1>1, SameRounds DEF VoteInv
<1>3. CASE status' = status /\ sent' = sent
  <2>1. ProofsInv' /\ LastEpoch' \in Nat /\ LastEpoch' >= LastEpoch
    BY <1>1, SameProofs DEF VoteInv
  <2> QED
    BY <1>1, <1>2, <1>3, <2>1, QuietVotes
<1>4. CASE ~(status' = status /\ sent' = sent)
  <2>1. PICK height, hashes : /\ ~status.pc /\ status' = [status EXCEPT !.pc = TRUE]
                              /\ Send(Message(Self, status.round, "precommit", height, hashes))
    BY <1>4 DEF SendPrecommit
  <2>2. PICK m : m = Message(Self, status.round, "precommit", height, hashes)
    OBVIOUS
  <2>3. m.round = status.round /\ m.stage = "precommit" /\ Send(m)
    BY <2>1, <2>2 DEF Message
  <2> QED
    BY <1>1, <1>2, <2>1, <2>3, VoteSent
<1> QED
  BY <1>3, <1>4

LEMMA StatusFollowsItself ==
  ASSUME NEW s, IsStatus(s)
  PROVE  Follows(s, s)
<1>1. s.round[1] \in Nat /\ s.round[2] \in Nat
  BY RoundParts DEF IsStatus
<1> QED
  BY <1>1 DEF Follows, RoundLess

\* the end of a poll: the status, perhaps of the next round, is saved
LEMMA RoundStarted ==
  ASSUME VoteInv, StartNextRound
  PROVE  VoteInv' /\ sent' = sent
<1>1. /\ file' = status' /\ proofs' = proofs /\ rounds' = rounds /\ sent' = sent /\ restarts' = restarts
      /\ plan' = plan /\ pc' = "find"
  BY DEF StartNextRound, aggregator
<1>2. RoundsInv'
  BY <1>1, SameRounds DEF VoteInv
<1>3. ProofsInv' /\ LastEpoch' = LastEpoch
  BY <1>1, SameProofs DEF VoteInv
<1>4. SentInv' /\ IsStatus(status') /\ Follows(status', status') /\ status'.round[1] = status.round[1]
  <2>1. CASE status' = status
    <3>1. IsStatus(status)
      BY DEF VoteInv, StatusInv
    <3>2. Follows(status, status)
      BY <3>1, StatusFollowsItself, Zenon
    <3>3. SentInv'
      BY <1>1, <2>1, Zenon DEF VoteInv, SentInv
    <3> QED
      BY <2>1, <3>1, <3>2, <3>3
  <2>2. CASE status' /= status
    <3>1. PICK s : s = Started(<<status.round[1], status.round[2] + 1>>) /\ status' = s
      BY <2>2 DEF StartNextRound
    <3>2. s.round = <<status.round[1], status.round[2] + 1>>
      BY <3>1 DEF Started
    <3>3. status.round[1] \in Nat /\ status.round[2] \in Nat
      BY RoundParts DEF VoteInv, StatusInv, IsStatus
    <3>4. status.round[2] + 1 \in Nat
      BY <3>3
    <3>5. s.round \in Rounds /\ s.round[1] = status.round[1] /\ s.round[2] = status.round[2] + 1
      BY <3>2, <3>3, <3>4, RoundPair
    <3>6. RoundLess(status.round, s.round)
      BY <3>3, <3>5 DEF RoundLess
    <3>7. s = Started(s.round)
      BY <3>1, <3>2, ZenonT(30)
    <3>8. SentInv' /\ IsStatus(status') /\ Follows(status', status')
      BY <1>1, <3>1, <3>5, <3>6, <3>7, RoundAdvances, SMTT(30)
    <3> QED
      BY <3>1, <3>5, <3>8
  <2> QED
    BY <2>1, <2>2
<1>5. status'.round[1] <= LastEpoch' + 1
  BY <1>3, <1>4 DEF VoteInv, StatusInv
<1>6. StatusInv'
  <2>1. PICK s : s = status' /\ s = file'
    BY <1>1
  <2>2. IsStatus(s) /\ Follows(s, s) /\ s.round[1] <= LastEpoch' + 1
    BY <1>4, <1>5, <2>1
  <2> QED
    BY <2>1, <2>2 DEF StatusInv, IsStatus, Follows, RoundLess
<1> QED
  BY <1>1, <1>2, <1>3, <1>4, <1>6, Zenon DEF VoteInv

\* the process starts again from the saved status: nothing is sent by it yet
LEMMA NodeRestarts ==
  ASSUME VoteInv, Restart
  PROVE  VoteInv' /\ sent' = sent
<1>1. /\ file' = file /\ proofs' = proofs /\ sent' = sent /\ restarts' = restarts + 1 /\ plan' = plan
      /\ status' = file /\ rounds' = [r \in {} |-> EmptyRound] /\ pc' = "idle"
  BY DEF Restart, Boot, storage
<1>2. RoundsInv'
  <2>1. DOMAIN rounds' = {}
    BY <1>1
  <2>2. restarts' \in Nat
    BY <1>1 DEF VoteInv, RoundsInv
  <2> QED
    BY <1>1, <2>1, <2>2 DEF VoteInv, RoundsInv
<1>3. ProofsInv' /\ LastEpoch' = LastEpoch
  BY <1>1, SameProofs DEF VoteInv
<1>4. IsStatus(file) /\ Follows(file, file)
  BY StatusFollowsItself, SMTT(30) DEF VoteInv, StatusInv
<1>5. StatusInv'
  BY <1>1, <1>3, <1>4, SMTT(30) DEF VoteInv, StatusInv, IsStatus, Follows, RoundLess
<1>6. \A y \in sent : y.boot \in Nat /\ y.boot <= restarts' /\ y.boot /= restarts' /\ y.msg.round \in Rounds
  BY <1>1 DEF VoteInv, SentInv, RoundsInv
<1>7. SentInv'
  BY <1>1, <1>6 DEF SentInv
<1> QED
  BY <1>1, <1>2, <1>3, <1>5, <1>7 DEF VoteInv

LEMMA VotesStutter ==
  ASSUME VoteInv, UNCHANGED vars
  PROVE  VoteInv' /\ sent' = sent
<1>1. /\ status' = status /\ file' = file /\ sent' = sent /\ restarts' = restarts /\ proofs' = proofs
      /\ plan' = plan /\ rounds' = rounds /\ pc' = pc /\ best' = best
  BY DEF vars
<1>2. RoundsInv'
  BY <1>1 DEF VoteInv, RoundsInv
<1>3. ProofsInv' /\ LastEpoch' \in Nat /\ LastEpoch' >= LastEpoch
  BY <1>1, SameProofs DEF VoteInv
<1> QED
  BY <1>1, <1>2, <1>3, QuietVotes

LEMMA InitVotes ==
  ASSUME Init
  PROVE  VoteInv
<1>1. /\ plan \in Plans /\ restarts = 0 /\ rounds = [r \in {} |-> EmptyRound] /\ pc = "idle" /\ sent = {}
      /\ file = Started(<<2, 1>>) /\ status = file /\ proofs = [e \in {1} |-> Genesis]
  BY DEF Init
<1>2. RoundsInv
  <2>1. DOMAIN rounds = {}
    BY <1>1
  <2> QED
    BY <1>1, <2>1 DEF RoundsInv
<1>3. ProofsInv /\ LastEpoch = 1
  <2>1. Genesis.round = <<1, 1>>
    BY DEF Genesis
  <2>2. Genesis.round \in Rounds /\ Genesis.round[1] = 1
    BY <2>1, RoundPair
  <2>3. {1} = 1..1
    OBVIOUS
  <2>4. DOMAIN proofs = 1..1 /\ proofs[1] = Genesis
    BY <1>1, <2>3
  <2>5. ProofsInv
    BY <2>2, <2>4 DEF ProofsInv
  <2>6. LastEpoch = 1
    <3>1. 1 \in Nat \ {0}
      OBVIOUS
    <3>2. Max(1..1) = 1
      BY ONLY <3>1, LastOfInterval, Zenon
    <3> QED
      BY <2>4, <3>2 DEF LastEpoch
  <2> QED
    BY <2>5, <2>6
<1>4. file = [round |-> <<2, 1>>, pv |-> FALSE, pc |-> FALSE]
  BY <1>1 DEF Started
<1>5. file.round = <<2, 1>> /\ file.pv = FALSE /\ file.pc = FALSE
  BY <1>4
<1>6. file.round \in Rounds /\ file.round[1] = 2
  BY <1>5, RoundPair
<1>7. IsStatus(file)
  <2>1. file.pv \in BOOLEAN /\ file.pc \in BOOLEAN
    BY <1>5, ZenonT(30)
  <2>2. file = [round |-> file.round, pv |-> file.pv, pc |-> file.pc]
    BY <1>4, <1>5
  <2> QED
    BY <1>6, <2>1, <2>2 DEF IsStatus
<1>8. Follows(file, file)
  BY <1>7, StatusFollowsItself, SMTT(30)
<1>9. StatusInv
  BY <1>1, <1>3, <1>6, <1>7, <1>8, SMTT(30) DEF StatusInv
<1>10. SentInv
  BY <1>1, SMTT(30) DEF SentInv
<1> QED
  BY <1>2, <1>3, <1>9, <1>10, ZenonT(30) DEF VoteInv

LEMMA NextVotes ==
  ASSUME VoteInv, [Next]_vars
  PROVE  VoteInv' /\ \A x \in sent' \ sent : IsNewVote(x)
<1>1. CASE Task
  <2>1. CASE \E now \in 0..2 : Poll(now)
    BY <2>1, PollVotes
  <2>2. CASE SendPrevote
    BY <2>2, PrevoteSent
  <2>3. CASE SendPrecommit
    BY <2>3, PrecommitSent
  <2>4. CASE StartNextRound
    BY <2>4, RoundStarted
  <2>5. CASE FindBestPrecommit
    BY <2>5, NothingStored
  <2>6. CASE SaveBestPrecommit
    BY <2>6, FinalizerSaves
  <2> QED
    BY <1>1, <2>1, <2>2, <2>3, <2>4, <2>5, <2>6, ZenonT(30) DEF Task
<1>2. CASE \E m \in plan.inbox \cup {s.msg : s \in sent} : pc /= "dead" /\ (Receive(m) \/ Process(m))
  BY <1>2, VotesAdded
<1>3. CASE PullProof \/ PullFails \/ ApplyPatch \/ \E c : SyncBlocks(c)
  BY <1>3, NothingStored
<1>4. CASE \E r \in {<<e, p>> : e \in 2..MaxEpoch, p \in 1..MaxPoint}, k \in AllKeys : pc /= "dead" /\ PullAnswer(r, k)
  <2>1. PICK r \in {<<e, p>> : e \in 2..MaxEpoch, p \in 1..MaxPoint}, k \in AllKeys : PullAnswer(r, k)
    BY <1>4
  <2>2. r \in Rounds
    BY DEF Rounds
  <2> QED
    BY <2>1, <2>2, ProofPulled
<1>5. CASE Restart
  BY <1>5, NodeRestarts
<1>6. CASE UNCHANGED vars
  BY <1>6, VotesStutter
<1> QED
  BY <1>1, <1>2, <1>3, <1>4, <1>5, <1>6, SMTT(30) DEF Next

\* Wherever the process crashes, the orchestrator never sends a vote for a round
\* behind the saved voting status, never repeats a stage that this status records
\* (FinalizationOrchestrator::poll, VotingStatusFile), and one process sends each
\* stage of a round once, although proofs are stored and epochs end in between.
THEOREM VotesAreRecorded == Spec => VotesOncePerStatus
<1>1. Init => VoteInv
  BY InitVotes
<1>2. VoteInv /\ [Next]_vars => VoteInv'
  BY NextVotes, Zenon
<1>3. VoteInv /\ [Next]_vars =>
        [\A x \in sent' \ sent :
           /\ ~RoundLess(x.msg.round, file.round)
           /\ x.msg.round = file.round => ~(IF x.msg.stage = "prevote" THEN file.pv ELSE file.pc)
           /\ \A y \in sent : y.boot = x.boot => <<y.msg.round, y.msg.stage>> /= <<x.msg.round, x.msg.stage>>]_vars
  BY NextVotes DEF IsNewVote
<1> QED
  BY <1>1, <1>2, <1>3, PTL DEF Spec, VotesOncePerStatus
=============================================================================
