---- MODULE ChainSyncProofs ----
(***************************************************************************)
(* For every set of chains and peers, every order of proofs, pulled and    *)
(* pushed ranges, and every interleaving with the synchronizer: the blocks *)
(* whose undo data commitAll has pruned are never replaced, and the book   *)
(* the synchronizer keeps of its ranges agrees with the dispatcher, so     *)
(* that no range is added after the one it continues was aborted.          *)
(***************************************************************************)
EXTENDS ChainSync, TLAPS

\* the n-th finalized block, and those finalized so far
Proved(n) == IF n = 0 THEN <<1, plan.local[1]>> ELSE plan.proofs[n].pair
Known == {Proved(n) : n \in 0..env.proved}

EnvShape ==
  /\ env = [adopted |-> env.adopted, proved |-> env.proved, pushed |-> env.pushed, failed |-> env.failed]
  /\ env.proved \in 0..Len(plan.proofs)

\* the storage holds finalized blocks, the last one of each epoch in order
ProofsKnown ==
  /\ proofs \in Seq(Pairs)
  /\ Len(proofs) = IF env.proved = 0 THEN 1 ELSE plan.proofs[env.proved].epoch
  /\ Len(proofs) >= 1
  /\ proofs[Len(proofs)] = Proved(env.proved)
  /\ \A e \in 1..Len(proofs) : proofs[e] \in Known
  /\ \A e, f \in 1..Len(proofs) : e <= f => proofs[e][1] <= proofs[f][1]

PrefixOf(s, c) == Len(s) <= Len(c) /\ \A k \in 1..Len(s) : s[k] = c[k]

\* every local chain is the beginning of a chain of the network
ChainOfNetwork == chain \in Seq(Blocks) /\ \E c \in Chains : PrefixOf(chain, c)

\* the cache is pruned up to a finalized block of the local chain
PrunedIsFinal == \E a \in Known : a[1] = lastFinalizedHeight /\ OnChain(chain, a)

\* the local pair is on the chain and, unless its proof is gone, not below the
\* pruned height; the network pair, read later, is the same block or a later one
PairsRead ==
  /\ con = [pc |-> con.pc, local |-> con.local, network |-> con.network]
  /\ con.pc \in {"network", "sync"} =>
        /\ con.local \in Known /\ OnChain(chain, con.local)
        /\ con.local[1] <= proofs[Len(proofs)][1]
        /\ StillProved => lastFinalizedHeight <= con.local[1]
  /\ con.pc = "sync" => con.network \in Known /\ con.local[1] <= con.network[1]

IInv == plan \in Plans /\ EnvShape /\ ProofsKnown /\ ChainOfNetwork /\ PrunedIsFinal /\ PairsRead

-----------------------------------------------------------------------------

\* Later proofs are higher, and a chain that holds a block holds every block
\* that was finalized before it.
LEMMA ProvedOrder ==
  ASSUME plan \in Plans, NEW m \in 0..Len(plan.proofs), NEW n \in 0..Len(plan.proofs)
  PROVE  /\ Len(plan.proofs) \in Nat /\ Proved(m) \in Pairs /\ Proved(m)[1] \in Nat
         /\ m < n => /\ Proved(m)[1] < Proved(n)[1]
                     /\ \A c \in Chains : OnChain(c, Proved(n)) => OnChain(c, Proved(m))
<1>1. /\ plan.proofs \in Seq(Proofs)
      /\ \A c \in Chains : OnChain(c, <<1, plan.local[1]>>)
      /\ \A x, y \in 1..Len(plan.proofs) : x < y =>
           /\ plan.proofs[x].pair[1] < plan.proofs[y].pair[1]
           /\ \A c \in Chains : OnChain(c, plan.proofs[y].pair) => OnChain(c, plan.proofs[x].pair)
      /\ \A x \in 1..Len(plan.proofs) : plan.proofs[x].pair[1] > 1
  BY PlansAssumption
<1>2. Len(plan.proofs) \in Nat /\ \A x \in 1..Len(plan.proofs) : plan.proofs[x].pair \in Pairs
  <2>1. \A x \in 1..Len(plan.proofs) : plan.proofs[x] \in Proofs
    BY <1>1
  <2>2. \A r \in Proofs : r.pair \in Pairs
    BY DEF Proofs
  <2> QED
    BY <1>1, <2>1, <2>2
<1>3. plan.local[1] \in Blocks
  <2>1. PICK c \in Chains : Len(plan.local) \in 1..Len(c) /\ plan.local = SubSeq(c, 1, Len(plan.local))
    BY PlansAssumption, Zenon
  <2>2. c \in Seq(Blocks)
    BY ChainsAssumption
  <2>3. c[1] \in Blocks /\ plan.local[1] = c[1]
    BY <2>1, <2>2
  <2> QED
    BY <2>3
<1>4. <<1, plan.local[1]>> \in Pairs
  BY <1>3 DEF Pairs
<1>5. Proved(m) \in Pairs /\ Proved(n) \in Pairs
  BY <1>2, <1>4 DEF Proved
<1>6. \A q \in Pairs : q[1] \in Nat
  BY DEF Pairs
<1>7. ASSUME m < n
      PROVE  /\ Proved(m)[1] < Proved(n)[1]
             /\ \A c \in Chains : OnChain(c, Proved(n)) => OnChain(c, Proved(m))
  <2>1. n \in 1..Len(plan.proofs) /\ Proved(n) = plan.proofs[n].pair
    BY <1>7, <1>2 DEF Proved
  <2>2. CASE m = 0
    <3>1. Proved(m) = <<1, plan.local[1]>>
      BY <2>2, Zenon DEF Proved
    <3>2. Proved(m)[1] = 1 /\ Proved(n)[1] > 1
      BY <3>1, <2>1, <1>1
    <3> QED
      BY <3>1, <3>2, <1>1, Zenon
  <2>3. CASE m > 0
    <3>1. m \in 1..Len(plan.proofs) /\ Proved(m) = plan.proofs[m].pair
      BY <2>3, <1>2 DEF Proved
    <3> QED
      BY <3>1, <2>1, <1>1, <1>7, ZenonT(30)
  <2> QED
    BY <2>2, <2>3
<1> QED
  BY <1>2, <1>5, <1>6, <1>7, ZenonT(30)

\* Two blocks finalized so far are ordered by their heights.
LEMMA KnownLinear ==
  ASSUME plan \in Plans, EnvShape, NEW a \in Known, NEW b \in Known
  PROVE  /\ a \in Pairs /\ a[1] \in Nat /\ b \in Pairs /\ b[1] \in Nat
         /\ a[1] <= Proved(env.proved)[1]
         /\ a[1] <= b[1] => \A c \in Chains : OnChain(c, b) => OnChain(c, a)
         /\ a[1] = b[1] => a = b
<1>1. PICK m \in 0..env.proved : a = Proved(m)
  BY DEF Known
<1>2. PICK n \in 0..env.proved : b = Proved(n)
  BY DEF Known
<1>3. /\ Len(plan.proofs) \in Nat /\ env.proved \in 0..Len(plan.proofs)
      /\ m \in 0..Len(plan.proofs) /\ n \in 0..Len(plan.proofs)
  <2>1. plan.proofs \in Seq(Proofs)
    BY PlansAssumption, Zenon
  <2> QED
    BY <2>1 DEF EnvShape
<1>4. /\ Proved(m) \in Pairs /\ Proved(m)[1] \in Nat /\ Proved(n) \in Pairs /\ Proved(n)[1] \in Nat
      /\ Proved(env.proved)[1] \in Nat
  BY <1>3, ProvedOrder
<1>5. m < n => Proved(m)[1] < Proved(n)[1] /\ \A c \in Chains : OnChain(c, Proved(n)) => OnChain(c, Proved(m))
  BY <1>3, ProvedOrder
<1>6. n < m => Proved(n)[1] < Proved(m)[1]
  BY <1>3, ProvedOrder
<1>7. m < env.proved => Proved(m)[1] < Proved(env.proved)[1]
  BY <1>3, ProvedOrder, ZenonT(30)
<1>8. m < n \/ n < m \/ m = n
  BY <1>3
<1>9. m < env.proved \/ m = env.proved
  BY <1>3
<1> QED
  BY <1>1, <1>2, <1>4, <1>5, <1>6, <1>7, <1>8, <1>9

\* What is on the beginning of a chain is on the chain, and conversely.
LEMMA OnPrefix ==
  ASSUME NEW s \in Seq(Blocks), NEW c \in Seq(Blocks), NEW pair \in Pairs, PrefixOf(s, c)
  PROVE  /\ OnChain(s, pair) => OnChain(c, pair)
         /\ OnChain(c, pair) /\ pair[1] <= Len(s) => OnChain(s, pair)
BY DEF PrefixOf, OnChain, Pairs

\* Two chains that hold a block hold the same blocks up to it.
LEMMA SameAncestors ==
  ASSUME NEW c \in Chains, NEW d \in Chains, NEW pair \in Pairs, OnChain(c, pair), OnChain(d, pair)
  PROVE  \A k \in 1..pair[1] : c[k] = d[k]
BY ChainsAssumption DEF OnChain, Pairs

LEMMA SecondPart ==
  ASSUME NEW S, NEW a \in Seq(S), NEW b \in Seq(S)
  PROVE  \A i \in Len(a) + 1..Len(a) + Len(b) : (a \o b)[i] = b[i - Len(a)]
OBVIOUS

LEMMA Predecessor ==
  ASSUME NEW n \in Nat, NEW i \in 1..n, i # 1
  PROVE  i - 1 \in 1..n - 1 /\ (i - 1) + 1 = i
OBVIOUS

Reorg(s, d, first, last) == SubSeq(s, 1, first - 1) \o SubSeq(d, first, last)

\* Dropping the blocks from first on and appending linked blocks gives the
\* beginning of the chain the blocks come from.
LEMMA Reorganized ==
  ASSUME NEW s \in Seq(Blocks), NEW c \in Chains, NEW d \in Chains, PrefixOf(s, c),
         NEW first \in 2..Len(s) + 1, NEW last \in first..Len(d), d[first - 1] = s[first - 1]
  PROVE  /\ Reorg(s, d, first, last) \in Seq(Blocks) /\ Len(Reorg(s, d, first, last)) = last
         /\ PrefixOf(Reorg(s, d, first, last), d)
         /\ \A k \in 1..first - 1 : Reorg(s, d, first, last)[k] = s[k]
<1> DEFINE t == Reorg(s, d, first, last)
<1>0. t = SubSeq(s, 1, first - 1) \o SubSeq(d, first, last)
  BY DEF Reorg
<1> HIDE DEF t
<1>1. c \in Seq(Blocks) /\ d \in Seq(Blocks)
  BY ChainsAssumption, Zenon
<1>2. \A k \in 1..first - 1 : s[k] = d[k]
  <2>1. c[first - 1] = d[first - 1] /\ first - 1 \in 1..Len(c) /\ first - 1 \in 1..Len(d)
    BY <1>1 DEF PrefixOf
  <2>2. \A k \in 1..first - 1 : c[k] = d[k]
    <3>1. \A i \in 1..Len(c), j \in 1..Len(d) : c[i] = d[j] => i = j /\ \A k \in 1..i : c[k] = d[k]
      BY ChainsAssumption
    <3> QED
      BY <2>1, <3>1, ZenonT(30)
  <2>3. \A k \in 1..first - 1 : k \in 1..Len(s)
    OBVIOUS
  <2>4. \A k \in 1..Len(s) : s[k] = c[k]
    BY Zenon DEF PrefixOf
  <2>5. SUFFICES ASSUME NEW k \in 1..first - 1 PROVE s[k] = d[k]
    OBVIOUS
  <2> QED
    BY <2>2, <2>3, <2>4, ZenonT(30)
<1>3. /\ SubSeq(s, 1, first - 1) \in Seq(Blocks) /\ Len(SubSeq(s, 1, first - 1)) = first - 1
      /\ \A k \in 1..first - 1 : SubSeq(s, 1, first - 1)[k] = s[k]
  OBVIOUS
<1>4. /\ SubSeq(d, first, last) \in Seq(Blocks) /\ Len(SubSeq(d, first, last)) = last - first + 1
      /\ \A k \in 1..last - first + 1 : SubSeq(d, first, last)[k] = d[first + k - 1]
  BY <1>1
<1>5. t \in Seq(Blocks) /\ Len(t) = last
  BY <1>0, <1>3, <1>4
<1>6. \A k \in 1..last : t[k] = d[k]
  <2> SUFFICES ASSUME NEW k \in 1..last PROVE t[k] = d[k]
    OBVIOUS
  <2>1. CASE k <= first - 1
    BY <2>1, <1>0, <1>2, <1>3, <1>4
  <2>2. CASE k > first - 1
    <3>1. t[k] = SubSeq(d, first, last)[k - (first - 1)]
      <4>1. PICK a \in Seq(Blocks), b \in Seq(Blocks) :
               /\ a = SubSeq(s, 1, first - 1) /\ Len(a) = first - 1
               /\ b = SubSeq(d, first, last) /\ Len(b) = last - first + 1
        BY <1>3, <1>4, Zenon
      <4>2. t = a \o b
        BY <1>0, <4>1, Zenon
      <4>3. \A i \in Len(a) + 1..Len(a) + Len(b) : t[i] = b[i - Len(a)]
        BY <4>2, SecondPart, Zenon
      <4>4. k \in Len(a) + 1..Len(a) + Len(b)
        BY <2>2, <4>1
      <4> QED
        BY <4>1, <4>3, <4>4, Zenon
    <3>2. k - (first - 1) \in 1..last - first + 1 /\ first + (k - (first - 1)) - 1 = k
      BY <2>2
    <3>3. SubSeq(d, first, last)[k - (first - 1)] = d[first + (k - (first - 1)) - 1]
      BY <3>2, <1>4, Zenon
    <3> QED
      BY <3>1, <3>2, <3>3, Zenon
  <2> QED
    BY <2>1, <2>2
<1>7. PrefixOf(t, d)
  BY <1>1, <1>5, <1>6 DEF PrefixOf
<1>8. \A k \in 1..first - 1 : t[k] = s[k]
  <2> SUFFICES ASSUME NEW k \in 1..first - 1 PROVE t[k] = s[k]
    BY ZenonT(30)
  <2>1. k \in 1..last
    OBVIOUS
  <2> QED
    BY <2>1, <1>2, <1>6, ZenonT(30)
<1> QED
  BY <1>5, <1>7, <1>8, Zenon DEF t

-----------------------------------------------------------------------------

\* what a step leaves alone when it neither commits nor reads pairs nor stores a proof
Frame == <<plan, proofs, chain, lastFinalizedHeight>>

LEMMA InitIInv == Init => IInv
<1> SUFFICES ASSUME Init PROVE IInv
  OBVIOUS
<1>1. /\ plan \in Plans /\ chain = plan.local /\ lastFinalizedHeight = 1 /\ proofs = <<<<1, plan.local[1]>>>>
      /\ con = NoPairs /\ env = [adopted |-> [p \in Peers |-> 1], proved |-> 0, pushed |-> 0, failed |-> 0]
  BY Zenon DEF Init
<1>2. PICK c \in Chains : \E m \in 1..Len(c) : plan.local = SubSeq(c, 1, m)
  BY <1>1, PlansAssumption, Zenon
<1> PICK m \in 1..Len(c) : plan.local = SubSeq(c, 1, m)
  BY <1>2, Zenon
<1>3. c \in Seq(Blocks) /\ plan.proofs \in Seq(Proofs)
  BY <1>1, ChainsAssumption, PlansAssumption, ZenonT(30)
<1>4. /\ plan.local \in Seq(Blocks) /\ Len(plan.local) = m /\ plan.local[1] \in Blocks
      /\ \A k \in 1..m : plan.local[k] = c[k]
  BY <1>3
<1>5. <<1, plan.local[1]>> \in Pairs
  BY <1>4, Zenon DEF Pairs
<1>6. env.proved = 0 /\ EnvShape
  BY <1>1, <1>3 DEF EnvShape
<1>7. Proved(env.proved) = <<1, plan.local[1]>> /\ <<1, plan.local[1]>> \in Known
  BY <1>6 DEF Proved, Known
<1>8. Len(proofs) = 1 /\ proofs[1] = <<1, plan.local[1]>> /\ proofs \in Seq(Pairs)
  BY <1>1, <1>5
<1>9. ProofsKnown
  <2>1. \A e \in 1..Len(proofs) : e = 1
    BY <1>8
  <2>2. proofs[1][1] = 1
    BY <1>8
  <2>3. \A e, f \in 1..Len(proofs) : e <= f => proofs[e][1] <= proofs[f][1]
    <3>1. \A e \in 1..Len(proofs) : proofs[e][1] = 1
      BY <2>1, <2>2, Zenon
    <3> QED
      BY <3>1
  <2>4. \A e \in 1..Len(proofs) : proofs[e] \in Known
    BY <2>1, <1>7, <1>8, Zenon
  <2>5. Len(proofs) >= 1
    BY <1>8
  <2>6. proofs[Len(proofs)] = Proved(env.proved)
    BY <1>7, <1>8, Zenon
  <2>7. Len(proofs) = IF env.proved = 0 THEN 1 ELSE plan.proofs[env.proved].epoch
    BY <1>6, <1>8, Zenon
  <2> QED
    BY <1>8, <2>3, <2>4, <2>5, <2>6, <2>7, Zenon DEF ProofsKnown
<1>10. ChainOfNetwork
  BY <1>1, <1>3, <1>4 DEF ChainOfNetwork, PrefixOf
<1>11. PrunedIsFinal
  <2>1. OnChain(chain, <<1, plan.local[1]>>)
    BY <1>1, <1>3, <1>4 DEF OnChain
  <2> QED
    BY <2>1, <1>1, <1>7, Zenon DEF PrunedIsFinal
<1>12. PairsRead
  BY <1>1, Zenon DEF PairsRead, NoPairs
<1> QED
  BY <1>1, <1>6, <1>9, <1>10, <1>11, <1>12, ZenonT(30) DEF IInv

\* the invariant looks at the plan, the proofs, the storage, the pairs and the count of proofs
LEMMA FrameIInv ==
  ASSUME IInv, UNCHANGED Frame, EnvShape', env'.proved = env.proved
  PROVE  /\ plan' \in Plans /\ EnvShape' /\ ProofsKnown' /\ ChainOfNetwork' /\ PrunedIsFinal'
         /\ Known' = Known /\ (StillProved' <=> StillProved)
<1>1. proofs' = proofs /\ chain' = chain /\ lastFinalizedHeight' = lastFinalizedHeight /\ plan' = plan
  BY Zenon DEF Frame
<1>2. Known' = Known /\ Proved(env.proved)' = Proved(env.proved)
  BY <1>1, Zenon DEF Known, Proved
<1>3. StillProved' <=> StillProved
  BY <1>1, Zenon DEF StillProved
<1>4. ProofsKnown'
  BY <1>1, <1>2, Zenon DEF IInv, ProofsKnown
<1>5. ChainOfNetwork' /\ PrunedIsFinal'
  BY <1>1, <1>2, Zenon DEF IInv, ChainOfNetwork, PrunedIsFinal, PrefixOf, OnChain
<1> QED
  BY <1>1, <1>2, <1>3, <1>4, <1>5, ZenonT(30) DEF IInv

\* a step that leaves the storage and the proofs alone, and forgets or keeps the pairs
LEMMA KeepsIInv ==
  ASSUME IInv, UNCHANGED Frame, EnvShape', env'.proved = env.proved,
         con' = con \/ con' = NoPairs \/ con' = [con EXCEPT !.pc = "thrown"]
  PROVE  IInv'
<1>1. /\ plan' \in Plans /\ EnvShape' /\ ProofsKnown' /\ ChainOfNetwork' /\ PrunedIsFinal'
      /\ Known' = Known /\ (StillProved' <=> StillProved)
  BY FrameIInv
<1>2. proofs' = proofs /\ chain' = chain /\ lastFinalizedHeight' = lastFinalizedHeight
  BY DEF Frame
<1>3. PairsRead'
  <2>1. CASE con' = con
    BY <2>1, <1>1, <1>2, Zenon DEF IInv, PairsRead, OnChain
  <2>2. CASE con' = NoPairs
    <3>1. con' = [pc |-> "idle", local |-> <<>>, network |-> <<>>]
      BY <2>2, Zenon DEF NoPairs
    <3> QED
      BY <3>1 DEF PairsRead
  <2>3. CASE con' = [con EXCEPT !.pc = "thrown"]
    <3>1. con' = [pc |-> "thrown", local |-> con.local, network |-> con.network]
      BY <2>3, Zenon DEF IInv, PairsRead
    <3> QED
      BY <3>1, Zenon DEF PairsRead
  <2> QED
    BY <2>1, <2>2, <2>3, Zenon
<1> QED
  BY <1>1, <1>3, Zenon DEF IInv

\* A stored proof is higher than all before it.  It may take the place of the last
\* one of its epoch, so that the pruned height is no longer proved.
LEMMA StoreProofIInv == IInv /\ StoreProof => IInv'
<1> SUFFICES ASSUME IInv, StoreProof PROVE IInv'
  BY Zenon
<1> DEFINE n == env.proved
           p == plan.proofs[n + 1].pair
           epoch == plan.proofs[n + 1].epoch
           k == Len(proofs)
<1>1. /\ plan' = plan /\ chain' = chain /\ lastFinalizedHeight' = lastFinalizedHeight /\ con' = con
      /\ n < Len(plan.proofs) /\ env' = [env EXCEPT !.proved = @ + 1]
      /\ proofs' = IF epoch = k THEN [proofs EXCEPT ![k] = p] ELSE Append(proofs, p)
  BY Zenon DEF StoreProof, storage, saveProof
<1>2. plan.proofs \in Seq(Proofs) /\ plan \in Plans /\ EnvShape /\ ProofsKnown
  BY PlansAssumption, Zenon DEF IInv
<1>3. Len(plan.proofs) \in Nat /\ n \in Nat /\ n + 1 \in 1..Len(plan.proofs)
  BY <1>1, <1>2 DEF EnvShape
<1>4. p \in Pairs /\ epoch \in Nat
  <2>1. plan.proofs[n + 1] \in Proofs
    BY <1>2, <1>3
  <2>2. \A r \in Proofs : r.pair \in Pairs /\ r.epoch \in Nat
    BY Zenon DEF Proofs
  <2> QED
    BY <2>1, <2>2, Zenon
<1>5. k \in Nat /\ k >= 1 /\ proofs \in Seq(Pairs)
  BY <1>2 DEF ProofsKnown
<1>6. epoch \in {k, k + 1}
  <2>1. epoch \in IF n + 1 = 1 THEN {2} ELSE {plan.proofs[(n + 1) - 1].epoch, plan.proofs[(n + 1) - 1].epoch + 1}
    BY <1>2, <1>3, PlansAssumption, Zenon
  <2>2. CASE n = 0
    BY <2>1, <2>2, <1>2 DEF ProofsKnown
  <2>3. CASE n /= 0
    <3>1. k = plan.proofs[n].epoch /\ (n + 1) - 1 = n /\ n + 1 /= 1
      BY <2>3, <1>2, <1>3, SMTT(30) DEF ProofsKnown
    <3> QED
      BY <2>1, <3>1, Zenon
  <2> QED
    BY <2>2, <2>3, ZenonT(30)
<1>7. /\ env' = [adopted |-> env.adopted, proved |-> n + 1, pushed |-> env.pushed, failed |-> env.failed]
      /\ env'.proved = n + 1 /\ EnvShape'
  <2>1. env' = [adopted |-> env.adopted, proved |-> n + 1, pushed |-> env.pushed, failed |-> env.failed]
    BY <1>1, <1>2, Zenon DEF EnvShape
  <2>2. env'.proved = n + 1
    BY <2>1, Zenon
  <2> QED
    BY <2>1, <2>2, <1>1, <1>3 DEF EnvShape
<1>8. Proved(n + 1) = p /\ (\A x \in 0..n + 1 : Proved(x)' = Proved(x)) /\ Proved(env.proved)' = p
  BY <1>1, <1>3, <1>7 DEF Proved
<1>9. Known \subseteq Known' /\ p \in Known'
  <2>1. Known' = {Proved(x) : x \in 0..n + 1}
    BY <1>1, <1>7, Zenon DEF Known, Proved
  <2>2. 0..n \subseteq 0..n + 1 /\ n + 1 \in 0..n + 1
    BY <1>3
  <2> QED
    BY <2>1, <2>2, <1>8, Zenon DEF Known
<1>10. p[1] \in Nat /\ \A a \in Known : a[1] \in Nat /\ a[1] < p[1]
  <2>1. p[1] \in Nat
    BY <1>4, Zenon DEF Pairs
  <2>2. ASSUME NEW a \in Known PROVE a[1] \in Nat /\ a[1] < p[1]
    <3>1. PICK x \in 0..n : a = Proved(x)
      BY DEF Known
    <3>2. x \in 0..Len(plan.proofs) /\ n + 1 \in 0..Len(plan.proofs) /\ x < n + 1
      BY <1>3
    <3>3. Proved(x)[1] \in Nat /\ Proved(x)[1] < Proved(n + 1)[1]
      BY <3>2, <1>2, ProvedOrder, ZenonT(30)
    <3> QED
      BY <3>1, <3>3, <1>8, Zenon
  <2> QED
    BY <2>1, <2>2, Zenon
<1> HIDE DEF p, epoch, k, n
<1>11. /\ proofs' \in Seq(Pairs) /\ Len(proofs') = epoch /\ epoch >= 1 /\ proofs'[epoch] = p
       /\ \A e \in 1..epoch : e /= epoch => e \in 1..k /\ proofs'[e] = proofs[e]
  <2>1. CASE epoch = k
    <3>1. proofs' = [proofs EXCEPT ![k] = p]
      BY <2>1, <1>1, Zenon
    <3> QED
      BY <2>1, <3>1, <1>4, <1>5 DEF k
  <2>2. CASE epoch = k + 1
    <3>1. proofs' = Append(proofs, p)
      BY <2>2, <1>1, <1>5
    <3> QED
      BY <2>2, <3>1, <1>4, <1>5 DEF k
  <2> QED
    BY <2>1, <2>2, <1>6, ZenonT(30)
<1>12. \A e \in 1..k : proofs[e] \in Known
  BY <1>2, Zenon DEF ProofsKnown, k
<1>13. ProofsKnown'
  <2>1. \A e \in 1..Len(proofs') : proofs'[e] \in Known'
    BY <1>9, <1>11, <1>12, Zenon
  <2>2. ASSUME NEW e \in 1..Len(proofs'), NEW f \in 1..Len(proofs'), e <= f
        PROVE  proofs'[e][1] <= proofs'[f][1]
    <3>1. CASE f = epoch
      BY <3>1, <1>10, <1>11, <1>12
    <3>2. CASE f /= epoch
      <4>1. e /= epoch /\ e \in 1..k /\ f \in 1..k
        BY <3>2, <2>2, <1>4, <1>11, SMTT(30)
      <4> QED
        BY <4>1, <3>2, <2>2, <1>2, <1>11, Zenon DEF ProofsKnown, k
    <3> QED
      BY <3>1, <3>2, Zenon
  <2>3. Len(proofs') = IF env'.proved = 0 THEN 1 ELSE plan'.proofs[env'.proved].epoch
    BY <1>1, <1>3, <1>7, <1>11 DEF epoch
  <2> QED
    BY <2>1, <2>2, <2>3, <1>8, <1>11, ZenonT(30) DEF ProofsKnown
<1>14. ChainOfNetwork'
  BY <1>1, Zenon DEF IInv, ChainOfNetwork, PrefixOf
<1>15. PrunedIsFinal'
  BY <1>1, <1>9, Zenon DEF IInv, PrunedIsFinal, OnChain
<1>16. StillProved' => StillProved
  <2>1. PICK a \in Known : a[1] = lastFinalizedHeight
    BY DEF IInv, PrunedIsFinal
  <2>2. lastFinalizedHeight < p[1] /\ lastFinalizedHeight \in Nat
    BY <2>1, <1>10, Zenon
  <2> QED
    BY <2>2, <1>1, <1>10, <1>11 DEF StillProved, k
<1>17. PairsRead'
  <2>1. /\ con = [pc |-> con.pc, local |-> con.local, network |-> con.network]
        /\ con.pc \in {"network", "sync"} =>
              /\ con.local \in Known /\ OnChain(chain, con.local)
              /\ StillProved => lastFinalizedHeight <= con.local[1]
        /\ con.pc = "sync" => con.network \in Known /\ con.local[1] <= con.network[1]
    BY DEF IInv, PairsRead
  <2>2. con.local \in Known => con.local[1] <= proofs'[Len(proofs')][1]
    BY <1>10, <1>11
  <2>3. con.local \in Known => con.local \in Known'
    BY <1>9, Zenon
  <2>4. con.network \in Known => con.network \in Known'
    BY <1>9, Zenon
  <2>5. OnChain(chain, con.local)' <=> OnChain(chain, con.local)
    BY <1>1, Zenon DEF OnChain
  <2> QED
    BY <2>1, <2>2, <2>3, <2>4, <2>5, <1>1, <1>16, Zenon DEF PairsRead
<1> QED
  BY <1>1, <1>2, <1>7, <1>13, <1>14, <1>15, <1>17, ZenonT(30) DEF IInv

LEMMA ReadLocalFinalizedIInv == IInv /\ ReadLocalFinalized => IInv'
<1> SUFFICES ASSUME IInv, ReadLocalFinalized PROVE IInv'
  OBVIOUS
<1>1. /\ proofs' = proofs /\ chain' = chain /\ lastFinalizedHeight' = lastFinalizedHeight /\ plan' = plan /\ env' = env
      /\ con.pc = "idle"
  BY ZenonT(30) DEF ReadLocalFinalized, storage
<1>2. PICK i \in 1..Len(proofs) : IsLocalFinalized(i) /\ con' = [con EXCEPT !.pc = "network", !.local = proofs[i]]
  BY Zenon DEF ReadLocalFinalized
<1>3. con' = [pc |-> "network", local |-> proofs[i], network |-> con.network]
  BY <1>2, Zenon DEF IInv, PairsRead
<1>4. Len(proofs) \in Nat /\ proofs[i] \in Known /\ proofs[i][1] <= proofs[Len(proofs)][1] /\ OnChain(chain, proofs[i])
  BY <1>2 DEF IInv, ProofsKnown, IsLocalFinalized
<1>5. StillProved => lastFinalizedHeight <= proofs[i][1]
  <2> SUFFICES ASSUME StillProved PROVE lastFinalizedHeight <= proofs[i][1]
    OBVIOUS
  <2>1. PICK k \in 1..Len(proofs) : proofs[k][1] = lastFinalizedHeight
    BY Zenon DEF StillProved
  <2>2. PICK a \in Known : a[1] = lastFinalizedHeight /\ OnChain(chain, a)
    BY Zenon DEF IInv, PrunedIsFinal
  <2>3. proofs[k] \in Known
    BY Zenon DEF IInv, ProofsKnown
  <2>4. proofs[k] = a
    BY <2>1, <2>2, <2>3, KnownLinear, ZenonT(30) DEF IInv
  <2>5. k <= i
    BY <2>2, <2>4, <1>2, <1>4 DEF IsLocalFinalized
  <2> QED
    BY <2>1, <2>5, Zenon DEF IInv, ProofsKnown
<1>6. UNCHANGED Frame /\ EnvShape' /\ env'.proved = env.proved
  BY <1>1, Zenon DEF Frame, IInv, EnvShape
<1>7. /\ plan' \in Plans /\ EnvShape' /\ ProofsKnown' /\ ChainOfNetwork' /\ PrunedIsFinal'
      /\ Known' = Known /\ (StillProved' <=> StillProved)
  BY <1>6, FrameIInv, Zenon
<1>8. PairsRead'
  <2>1. con'.pc = "network" /\ con'.local = proofs[i] /\ con' = [pc |-> con'.pc, local |-> con'.local, network |-> con'.network]
    BY <1>3, Zenon
  <2> QED
    BY <2>1, <1>1, <1>4, <1>5, <1>7, ZenonT(30) DEF PairsRead, OnChain
<1> QED
  BY <1>7, <1>8, Zenon DEF IInv

LEMMA ReadNetworkFinalizedIInv == IInv /\ ReadNetworkFinalized => IInv'
<1> SUFFICES ASSUME IInv, ReadNetworkFinalized PROVE IInv'
  OBVIOUS
<1>1. /\ proofs' = proofs /\ chain' = chain /\ lastFinalizedHeight' = lastFinalizedHeight /\ plan' = plan /\ env' = env
      /\ con.pc = "network" /\ con' = [con EXCEPT !.pc = "sync", !.network = Last(proofs)]
  BY ZenonT(30) DEF ReadNetworkFinalized, storage
<1>2. con' = [pc |-> "sync", local |-> con.local, network |-> proofs[Len(proofs)]]
  BY <1>1, Zenon DEF IInv, PairsRead, Last
<1>3. /\ con.local \in Known /\ OnChain(chain, con.local) /\ con.local[1] <= proofs[Len(proofs)][1]
      /\ StillProved => lastFinalizedHeight <= con.local[1]
  BY <1>1 DEF IInv, PairsRead
<1>4. proofs[Len(proofs)] \in Known
  BY DEF IInv, ProofsKnown
<1>5. UNCHANGED Frame /\ EnvShape' /\ env'.proved = env.proved
  BY <1>1 DEF Frame, IInv, EnvShape
<1>6. /\ plan' \in Plans /\ EnvShape' /\ ProofsKnown' /\ ChainOfNetwork' /\ PrunedIsFinal'
      /\ Known' = Known /\ (StillProved' <=> StillProved)
  BY <1>5, FrameIInv, ZenonT(30)
<1>7. PairsRead'
  <2>1. /\ con'.pc = "sync" /\ con'.local = con.local /\ con'.network = proofs[Len(proofs)]
        /\ con' = [pc |-> con'.pc, local |-> con'.local, network |-> con'.network]
    BY <1>2
  <2> QED
    BY <2>1, <1>1, <1>3, <1>4, <1>6, ZenonT(30) DEF PairsRead, OnChain
<1> QED
  BY <1>6, <1>7, Zenon DEF IInv

\* what PrunedNeverReplaced says of one step
Kept ==
  StillProved =>
    /\ lastFinalizedHeight' >= lastFinalizedHeight
    /\ SubSeq(chain', 1, lastFinalizedHeight) = SubSeq(chain, 1, lastFinalizedHeight)

\* The commit of a range.  Either it starts above the local finalized height, or
\* it brings the block of a later proof, and with it every earlier one.
LEMMA SyncIInv == IInv /\ Sync => IInv' /\ Kept
<1> SUFFICES ASSUME IInv, Sync PROVE IInv' /\ Kept
  OBVIOUS
<1> DEFINE first == Current.first
           blocks == Current.blocks
           a == con.local
           b == con.network
           L == lastFinalizedHeight
<1>1. con.pc = "sync" /\ proofs' = proofs /\ plan' = plan /\ env' = env
  BY Zenon DEF Sync
<1>2. /\ a \in Known /\ OnChain(chain, a) /\ b \in Known /\ a[1] <= b[1]
      /\ StillProved => L <= a[1]
  BY <1>1, Zenon DEF IInv, PairsRead
<1>3. plan \in Plans /\ EnvShape
  BY Zenon DEF IInv
<1>4. /\ a \in Pairs /\ a[1] \in Nat /\ b \in Pairs /\ b[1] \in Nat
      /\ \A c \in Chains : OnChain(c, b) => OnChain(c, a)
  BY <1>2, <1>3, KnownLinear, Zenon
<1>5. L \in Nat
  <2>1. PICK q \in Known : q[1] = L
    BY DEF IInv, PrunedIsFinal
  <2> QED
    BY <2>1, <1>3, KnownLinear, Zenon
<1>6. PICK c \in Chains : PrefixOf(chain, c)
  BY DEF IInv, ChainOfNetwork
<1>7. chain \in Seq(Blocks) /\ c \in Seq(Blocks) /\ Len(chain) \in Nat
  <2>1. chain \in Seq(Blocks)
    BY DEF IInv, ChainOfNetwork
  <2>2. c \in Seq(Blocks)
    BY ChainsAssumption, Zenon
  <2> QED
    BY <2>1, <2>2
<1>8. CASE ~IsAccepted(first, blocks, Current.source)
  <2>1. UNCHANGED Frame /\ con' = NoPairs
    BY <1>1, <1>8, Zenon DEF Sync, Leave, storage, Frame
  <2>2. EnvShape' /\ env'.proved = env.proved
    BY <1>1, <1>3, Zenon DEF EnvShape
  <2>3. IInv'
    BY <2>1, <2>2, KeepsIInv, Zenon
  <2>4. Kept
    BY <2>1, <1>5 DEF Frame, Kept
  <2> QED
    BY <2>3, <2>4, Zenon
<1>9. CASE IsAccepted(first, blocks, Current.source)
  <2>1. chain' = SubSeq(chain, 1, first - 1) \o blocks /\ lastFinalizedHeight' = a[1] /\ con' = NoPairs
    BY <1>9, Zenon DEF Sync, commitAll, Leave
  <2>2. /\ first \in 2..Len(chain) + 1
        /\ first > a[1] \/ InRange(first, blocks, b)
        /\ IsLinkedTo(chain[first - 1], first, blocks)
    BY <1>9 DEF IsAccepted, IsLinked
  <2>3. PICK d \in Chains : \E last \in first..Len(d) : blocks = SubSeq(d, first, last) /\ d[first - 1] = chain[first - 1]
    BY <2>2, Zenon DEF IsLinkedTo
  <2>4. PICK last \in first..Len(d) : blocks = SubSeq(d, first, last) /\ d[first - 1] = chain[first - 1]
    BY <2>3, Zenon
  <2> HIDE DEF first, blocks, a, b, L
  <2>5. /\ d \in Seq(Blocks) /\ Len(d) \in Nat /\ first \in Nat /\ first >= 2 /\ first <= Len(chain) + 1
        /\ last \in Nat /\ first <= last /\ last <= Len(d)
    <3>1. d \in Seq(Blocks)
      BY ChainsAssumption, Zenon
    <3>2. first \in Nat /\ first >= 2 /\ first <= Len(chain) + 1
      BY <2>2, <1>7
    <3> QED
      BY <3>1, <3>2
  <2>6. /\ chain' \in Seq(Blocks) /\ Len(chain') = last /\ PrefixOf(chain', d)
        /\ \A m \in 1..first - 1 : chain'[m] = chain[m]
    <3>1. chain' = Reorg(chain, d, first, last)
      BY <2>1, <2>4, Zenon DEF Reorg
    <3>2. first \in 2..Len(chain) + 1 /\ last \in first..Len(d) /\ d[first - 1] = chain[first - 1]
      BY <2>2, <2>4, Zenon
    <3> QED
      BY <3>1, <3>2, <1>6, <1>7, Reorganized, ZenonT(30)
  <2>7. OnChain(chain', a)
    <3> DEFINE ha == a[1]
               hb == b[1]
    <3>0. ha \in Nat /\ hb \in Nat /\ ha <= hb
      BY <1>2, <1>4, Zenon
    <3>a. OnChain(chain', a) <=> ha \in 1..Len(chain') /\ chain'[ha] = a[2]
      BY Zenon DEF OnChain
    <3>b. ha \in 1..Len(chain) /\ chain[ha] = a[2]
      BY <1>2, Zenon DEF OnChain
    <3>c. OnChain(d, b) <=> hb \in 1..Len(d) /\ d[hb] = b[2]
      BY Zenon DEF OnChain
    <3>d. InRange(first, blocks, b) => hb \in first..first + Len(blocks) - 1 /\ blocks[hb - first + 1] = b[2]
      BY Zenon DEF InRange
    <3>e. OnChain(d, b) => OnChain(d, a)
      BY <1>4, Zenon
    <3>f. OnChain(d, a) /\ ha <= Len(chain') => OnChain(chain', a)
      BY <2>5, <2>6, <1>4, OnPrefix, Zenon
    <3> HIDE DEF ha, hb
    <3>1. CASE first > ha
      <4>1. ha \in 1..first - 1 /\ ha \in 1..last
        BY <3>0, <3>1, <3>b, <2>5
      <4> QED
        BY <4>1, <3>a, <3>b, <2>6, ZenonT(30)
    <3>2. CASE InRange(first, blocks, b)
      <4>1. Len(blocks) = last - first + 1 /\ \A m \in 1..last - first + 1 : blocks[m] = d[first + m - 1]
        BY <2>4, <2>5
      <4>2. hb \in first..last /\ blocks[hb - first + 1] = b[2]
        BY <3>2, <3>d, <4>1, <2>5
      <4>3. hb - first + 1 \in 1..last - first + 1 /\ first + (hb - first + 1) - 1 = hb
        <5>1. hb \in Nat /\ first \in Nat /\ last \in Nat /\ first <= hb /\ hb <= last
          BY <4>2, <3>0, <2>5
        <5> QED
          BY <5>1
      <4>4. d[hb] = b[2]
        BY <4>1, <4>2, <4>3, Zenon
      <4>5. OnChain(d, b)
        BY <4>2, <4>4, <3>0, <3>c, <2>5
      <4>6. ha <= Len(chain')
        BY <4>2, <3>0, <2>5, <2>6
      <4> QED
        BY <4>5, <4>6, <3>e, <3>f, ZenonT(30)
    <3> QED
      BY <2>2, <3>1, <3>2, ZenonT(30) DEF ha
  <2>8. OnChain(d, a) /\ OnChain(c, a)
    BY <2>5, <2>6, <2>7, <1>2, <1>4, <1>6, <1>7, OnPrefix, ZenonT(30)
  <2>9. \A m \in 1..a[1] : c[m] = d[m]
    BY <2>8, <1>4, SameAncestors, Zenon
  <2>10. a[1] <= Len(chain) /\ a[1] <= Len(chain')
    BY <2>7, <1>2 DEF OnChain
  <2>11. Kept
    <3> SUFFICES ASSUME L <= a[1]
                 PROVE  lastFinalizedHeight' >= L /\ SubSeq(chain', 1, L) = SubSeq(chain, 1, L)
      BY <1>2, Zenon DEF Kept, L
    <3>1. ASSUME NEW m \in 1..L PROVE chain'[m] = chain[m]
      <4>1. m \in 1..a[1] /\ m \in 1..Len(chain) /\ m \in 1..Len(chain')
        BY <2>6, <2>10, <1>4, <1>5, <1>7
      <4> QED
        BY <4>1, <2>6, <2>9, <1>6 DEF PrefixOf
    <3>2. SubSeq(chain', 1, L) = SubSeq(chain, 1, L)
      BY <3>1, <2>6, <2>10, <1>4, <1>5, <1>7, SMTT(30)
    <3> QED
      BY <3>2, <2>1, <1>4, <1>5, Zenon
  <2>12. Known' = Known /\ EnvShape' /\ plan' \in Plans /\ ProofsKnown'
    <3>1. Known' = Known /\ Proved(env.proved)' = Proved(env.proved)
      BY <1>1, Zenon DEF Known, Proved
    <3>2. EnvShape' /\ plan' \in Plans
      BY <1>1, <1>3, ZenonT(30) DEF EnvShape
    <3>3. ProofsKnown'
      BY <3>1, <1>1, Zenon DEF IInv, ProofsKnown
    <3> QED
      BY <3>1, <3>2, <3>3, Zenon
  <2>13. ChainOfNetwork'
    BY <2>6 DEF ChainOfNetwork
  <2>14. PrunedIsFinal'
    BY <2>1, <2>7, <2>12, <1>2, ZenonT(30) DEF PrunedIsFinal
  <2>15. PairsRead'
    BY <2>1, Zenon DEF PairsRead, NoPairs
  <2> QED
    BY <2>11, <2>12, <2>13, <2>14, <2>15, ZenonT(30) DEF IInv
<1> QED
  BY <1>8, <1>9

-----------------------------------------------------------------------------

\* Every step keeps the inductive invariant and the pruned blocks.
LEMMA NextIInv == IInv /\ [Next]_vars => IInv' /\ Kept
<1> SUFFICES ASSUME IInv, [Next]_vars PROVE IInv' /\ Kept
  BY Zenon
<1>0. lastFinalizedHeight \in Int
  <2>1. PICK q \in Known : q[1] = lastFinalizedHeight
    BY DEF IInv, PrunedIsFinal
  <2> QED
    BY <2>1, KnownLinear DEF IInv
<1>1. ASSUME chain' = chain, lastFinalizedHeight' = lastFinalizedHeight PROVE Kept
  BY <1>0, <1>1 DEF Kept
<1>2. ASSUME env' = env PROVE EnvShape' \/ plan' /= plan
  BY <1>2, Zenon DEF IInv, EnvShape
<1>3. CASE Sync
  BY <1>3, SyncIInv, Zenon
<1>4. CASE StoreProof
  <2>1. lastFinalizedHeight' = lastFinalizedHeight /\ chain' = chain
    BY <1>4, Zenon DEF StoreProof, storage
  <2> QED
    BY <1>1, <1>4, <2>1, StoreProofIInv, Zenon
<1>5. CASE ReadLocalFinalized
  <2>1. lastFinalizedHeight' = lastFinalizedHeight /\ chain' = chain
    BY <1>5, Zenon DEF ReadLocalFinalized, storage
  <2> QED
    BY <1>1, <1>5, <2>1, ReadLocalFinalizedIInv
<1>6. CASE ReadNetworkFinalized
  <2>1. lastFinalizedHeight' = lastFinalizedHeight /\ chain' = chain
    BY <1>6, Zenon DEF ReadNetworkFinalized, storage
  <2> QED
    BY <1>1, <1>6, <2>1, ReadNetworkFinalizedIInv
<1>7. ASSUME UNCHANGED Frame, EnvShape', env'.proved = env.proved,
             con' = con \/ con' = NoPairs \/ con' = [con EXCEPT !.pc = "thrown"]
      PROVE  IInv' /\ Kept
  <2>1. lastFinalizedHeight' = lastFinalizedHeight /\ chain' = chain
    BY <1>7, Zenon DEF Frame
  <2> QED
    BY <2>1, <1>1, <1>7, KeepsIInv, Zenon
<1>8. CASE SyncStep \/ \E p \in Peers : StartSync(p)
  <2>1. UNCHANGED Frame /\ con' = con /\ env' = env /\ plan' = plan
    BY <1>8, Zenon DEF SyncStep, CheckEmpty, BypassComparison, CompareChainStatistics, CompareHashes, CompareLocalScore,
                ChainBlocksFrom, ClearPendingSync, StartSync, syncOnly, storage, Frame
  <2> QED
    BY <1>2, <1>7, <2>1, Zenon
<1>9. CASE RemoteFails \/ PushRange \/ \E p \in Peers : PeerAdopts(p)
  <2>1. UNCHANGED Frame /\ con' = con /\ plan' = plan
    BY <1>9, Zenon DEF RemoteFails, PushRange, PeerAdopts, storage, Frame
  <2>2. \/ env' = [env EXCEPT !.failed = @ + 1] \/ env' = [env EXCEPT !.pushed = @ + 1]
        \/ \E p \in Peers : env' = [env EXCEPT !.adopted[p] = @ + 1]
    BY <1>9, Zenon DEF RemoteFails, PushRange, PeerAdopts
  <2>3. EnvShape' /\ env'.proved = env.proved
    <3>1. /\ env = [adopted |-> env.adopted, proved |-> env.proved, pushed |-> env.pushed, failed |-> env.failed]
          /\ env.proved \in 0..Len(plan.proofs)
      BY DEF IInv, EnvShape
    <3>2. \E x, y, z : env' = [adopted |-> x, proved |-> env.proved, pushed |-> y, failed |-> z]
      BY <3>1, <2>2, Zenon
    <3> QED
      BY <3>1, <3>2, <2>1 DEF EnvShape
  <2> QED
    BY <1>7, <2>1, <2>3, ZenonT(30)
<1>10. CASE CheckRange
  <2>1. UNCHANGED Frame /\ con' = NoPairs /\ env' = env /\ plan' = plan
    BY <1>10, Zenon DEF CheckRange, Leave, storage, Frame
  <2> QED
    BY <1>2, <1>7, <2>1, Zenon
<1>11. CASE Complete
  <2>1. UNCHANGED Frame /\ (con' = con \/ con' = [con EXCEPT !.pc = "thrown"]) /\ env' = env /\ plan' = plan
    BY <1>11, ZenonT(30) DEF Complete, remove, storage, Frame
  <2> QED
    BY <1>2, <1>7, <2>1, Zenon
<1>12. CASE UNCHANGED vars
  <2>1. UNCHANGED Frame /\ con' = con /\ env' = env /\ plan' = plan
    BY <1>12, ZenonT(30) DEF vars, Frame
  <2> QED
    BY <1>2, <1>7, <2>1
<1> QED
  BY <1>3, <1>4, <1>5, <1>6, <1>8, <1>9, <1>10, <1>11, <1>12, ZenonT(30) DEF Next, ConsumerStep

\* Blocks whose undo data has been pruned are never replaced while their proof is the
\* last one of its epoch, although the consumer decides with finalized pairs it read
\* before it saw the storage.
THEOREM PrunedBlocksStay == Spec => PrunedNeverReplaced
<1>1. IInv /\ [Next]_vars =>
        [StillProved =>
           /\ lastFinalizedHeight' >= lastFinalizedHeight
           /\ SubSeq(chain', 1, lastFinalizedHeight) = SubSeq(chain, 1, lastFinalizedHeight)]_vars
  BY NextIInv, Zenon DEF Kept
<1> QED
  BY <1>1, InitIInv, NextIInv, PTL DEF Spec, PrunedNeverReplaced

\* The local chain always is the beginning of a chain of the network, and the
\* cache is pruned up to a finalized block on it.
THEOREM PrunedUpToFinalized == Spec => [](ChainOfNetwork /\ PrunedIsFinal)
<1>1. IInv => ChainOfNetwork /\ PrunedIsFinal
  BY DEF IInv
<1> QED
  BY <1>1, InitIInv, NextIInv, PTL DEF Spec

-----------------------------------------------------------------------------
(* The synchronizer's book of its own ranges.                                *)

IsSeq(s) == \E S : s \in Seq(S)

LEMMA Appended ==
  ASSUME NEW s, IsSeq(s), NEW e
  PROVE  /\ IsSeq(Append(s, e)) /\ Len(s) \in Nat /\ Len(Append(s, e)) = Len(s) + 1
         /\ Append(s, e)[Len(s) + 1] = e /\ \A i \in 1..Len(s) : Append(s, e)[i] = s[i]
<1>1. PICK S : s \in Seq(S)
  BY DEF IsSeq
<1>2. PICK R : R = S \cup {e}
  BY Zenon
<1>3. s \in Seq(R) /\ e \in R
  BY <1>1, <1>2
<1>4. Append(s, e) \in Seq(R)
  BY <1>3
<1> QED
  BY <1>3, <1>4 DEF IsSeq

LEMMA Shortened ==
  ASSUME NEW s, IsSeq(s), s /= <<>>
  PROVE  /\ IsSeq(Tail(s)) /\ Len(s) \in Nat /\ Len(s) > 0 /\ Len(Tail(s)) = Len(s) - 1 /\ Head(s) = s[1]
         /\ \A i \in 1..Len(s) - 1 : Tail(s)[i] = s[i + 1]
<1>1. PICK S : s \in Seq(S)
  BY DEF IsSeq
<1> QED
  BY <1>1 DEF IsSeq

ChangedAt(t, s, k, e) == t = [s EXCEPT ![k] = e]

LEMMA Replaced ==
  ASSUME NEW s, IsSeq(s), NEW k \in 1..Len(s), NEW e, NEW t, ChangedAt(t, s, k, e)
  PROVE  IsSeq(t) /\ Len(t) = Len(s) /\ t[k] = e /\ \A i \in 1..Len(s) : i /= k => t[i] = s[i]
<1>1. PICK S : s \in Seq(S)
  BY DEF IsSeq
<1>2. PICK R : R = S \cup {e}
  BY ZenonT(30)
<1>3. s \in Seq(R) /\ e \in R
  BY <1>1, <1>2
<1>4. t \in Seq(R)
  BY <1>3 DEF ChangedAt
<1> QED
  BY <1>3, <1>4 DEF IsSeq, ChangedAt

\* peers adopt chains of the plan
RemotesInv ==
  /\ env.adopted = [p \in Peers |-> env.adopted[p]]
  /\ \A p \in Peers : env.adopted[p] \in 1..Len(plan.remotes[p])

SynFields == {"pc", "peer", "blocks", "base", "orphan"}

\* a synchronization is pending exactly while one is in progress
SynInv ==
  /\ SynFields \subseteq DOMAIN syn
  /\ syn.blocks \in Seq(Blocks) /\ syn.orphan \in BOOLEAN
  /\ syn.pc /= "idle" => syn.peer \in Peers
  /\ hasPendingSync <=> syn.pc /= "idle"
  /\ syn.pc \notin {"pull", "clear"} => syn.base = 0 /\ syn.orphan = FALSE

\* ids are given out in a cycle that is longer than the queue
IdOf(d) == IF d > 0 THEN d ELSE d + IdCount

IsRange(e) ==
  /\ e = [id |-> e.id, first |-> e.first, blocks |-> e.blocks, source |-> e.source,
          callback |-> e.callback, status |-> e.status]
  /\ e.callback \in BOOLEAN
  /\ e.callback => Len(e.blocks) \in Nat

QueueInv ==
  /\ IsSeq(queue) /\ Len(queue) <= SlotCount /\ consumed \in 0..Len(queue) /\ lastId \in 0..IdCount
  /\ \A i \in 1..Len(queue) : IsRange(queue[i]) /\ queue[i].id = IdOf(lastId - (Len(queue) - i))

ConInv == con.pc \in {"idle", "network", "sync"} /\ (con.pc /= "idle" => consumed < Len(queue))

Own == {k \in 1..Len(queue) : queue[k].callback}

\* at[i] is the place in the queue of the i-th element
IsPlacing(at) ==
  /\ at \in [1..Len(elements) -> Own]
  /\ Own = {at[i] : i \in 1..Len(elements)}
  /\ \A i, j \in 1..Len(elements) : i < j => at[i] < at[j]
  /\ \A i \in 1..Len(elements) : elements[i] = Element(queue[at[i]])

ElementsInv == IsSeq(elements) /\ \E at : IsPlacing(at)

\* a pull that continues a range knows its id, and the range is still the last one
\* in flight or is gone; when it was aborted nothing is in flight and m_dirty is set
OrphanInv ==
  syn.pc = "pull" =>
    /\ syn.orphan => dirty /\ elements = <<>>
    /\ syn.base /= 0 /\ elements /= <<>> => elements[Len(elements)].id = syn.base

Book == RemotesInv /\ SynInv /\ QueueInv /\ ConInv /\ ElementsInv /\ OrphanInv

LEMMA InitBook == Init => Book
<1> SUFFICES ASSUME Init PROVE Book
  OBVIOUS
<1>1. /\ plan \in Plans /\ env = [adopted |-> [p \in Peers |-> 1], proved |-> 0, pushed |-> 0, failed |-> 0]
      /\ elements = <<>> /\ hasPendingSync = FALSE /\ syn = NoSync /\ con = NoPairs
      /\ queue = <<>> /\ consumed = 0 /\ lastId = 0
  BY Zenon DEF Init
<1>2. Len(queue) = 0 /\ Len(elements) = 0 /\ IsSeq(queue) /\ IsSeq(elements)
  BY <1>1 DEF IsSeq
<1>3. RemotesInv
  <2>1. ASSUME NEW p \in Peers
        PROVE  1 \in 1..Len(plan.remotes[p])
    <3>1. PICK r : r = plan.remotes[p] /\ r \in Seq(Seq(Blocks)) /\ r /= <<>>
      BY <1>1, PlansAssumption, Zenon
    <3>2. Len(r) \in Nat /\ Len(r) /= 0
      BY <3>1
    <3> QED
      BY <3>1, <3>2
  <2> QED
    BY <1>1, <2>1, Zenon DEF RemotesInv
<1>4. SynInv
  BY <1>1 DEF SynInv, SynFields, NoSync
<1>5. QueueInv
  BY <1>1, <1>2, SyncAssumption DEF QueueInv
<1>6. ConInv
  BY <1>1, Zenon DEF ConInv, NoPairs
<1>7. ElementsInv
  <2>1. IsPlacing([i \in 1..Len(elements) |-> i])
    BY <1>2 DEF IsPlacing, Own
  <2> QED
    BY <1>2, <2>1, Zenon DEF ElementsInv
<1>8. OrphanInv
  BY <1>1, Zenon DEF OrphanInv, NoSync
<1> QED
  BY <1>3, <1>4, <1>5, <1>6, <1>7, <1>8 DEF Book

LEMMA RemoteType ==
  ASSUME plan \in Plans, RemotesInv, NEW p \in Peers
  PROVE  remote(p) \in Seq(Blocks)
<1>1. PICK r : r = plan.remotes[p] /\ r \in Seq(Seq(Blocks))
  BY PlansAssumption, Zenon
<1>2. env.adopted[p] \in 1..Len(r)
  BY <1>1 DEF RemotesInv
<1> QED
  BY <1>1, <1>2 DEF remote

LEMMA FromType ==
  ASSUME NEW c \in Seq(Blocks), NEW height, NEW n \in Nat \ {0}
  PROVE  From(c, height, n) \in Seq(Blocks)
<1>1. CASE height \in 1..Len(c)
  <2>1. PICK a \in Int, b \in Nat : a = height + n - 1 /\ b = Len(c)
    BY <1>1
  <2>2. PICK m \in {a, b} : \A y \in {a, b} : m <= y
    <3>1. CASE a <= b
      BY <3>1
    <3>2. CASE ~(a <= b)
      BY <3>2
    <3> QED
      BY <3>1, <3>2, Zenon
  <2>3. Min({a, b}) \in {a, b} /\ \A y \in {a, b} : Min({a, b}) <= y
    BY <2>2, Zenon DEF Min
  <2>4. PICK k \in Int : k = Min({a, b}) /\ k <= Len(c)
    BY <2>1, <2>3
  <2>5. PICK h \in 1..Len(c) : h = height
    BY <1>1
  <2>6. k \in h..Len(c)
    BY <2>1, <2>3, <2>4, <2>5
  <2>7. SubSeq(c, h, k) \in Seq(Blocks)
    BY <2>6
  <2>8. From(c, height, n) = SubSeq(c, h, k)
    BY <1>1, <2>1, <2>4, <2>5, Zenon DEF From
  <2> QED
    BY <2>7, <2>8
<1>2. CASE height \notin 1..Len(c)
  BY <1>2 DEF From
<1> QED
  BY <1>1, <1>2

\* what a step that adds no range makes of the synchronization in progress
Progress ==
  /\ syn.pc /= "idle" /\ syn'.pc /= "idle" /\ syn'.peer = syn.peer
  /\ SynFields \subseteq DOMAIN syn' /\ syn'.blocks \in Seq(Blocks) /\ syn'.orphan \in BOOLEAN
  /\ \/ syn'.pc = "clear"
     \/ syn'.pc \notin {"pull", "clear"} /\ syn'.base = 0 /\ syn'.orphan = FALSE
     \/ /\ syn'.pc = "pull" /\ syn'.orphan = FALSE
        /\ syn'.base /= 0 /\ elements /= <<>> => elements[Len(elements)].id = syn'.base

LEMMA FinishedProgress ==
  ASSUME NEW code, syn.pc /= "idle", syn' = Finished(code)
  PROVE  Progress
<1>1. /\ syn'.pc = "clear" /\ syn'.peer = syn.peer /\ syn'.blocks = <<>> /\ syn'.orphan = FALSE
      /\ SynFields \subseteq DOMAIN syn'
  BY Zenon DEF Finished, NoSync, SynFields
<1>2. syn'.blocks \in Seq(Blocks)
  BY <1>1
<1>3. syn'.orphan \in BOOLEAN
  BY <1>1, Zenon
<1> QED
  BY <1>1, <1>2, <1>3 DEF Progress

LEMMA StartPullProgress ==
  ASSUME NEW h, NEW depth, NEW base, syn.pc /= "idle", syn' = StartPull(h, depth, base),
         base /= 0 /\ elements /= <<>> => elements[Len(elements)].id = base
  PROVE  Progress
<1>1. /\ syn'.pc = "pull" /\ syn'.peer = syn.peer /\ syn'.blocks = <<>> /\ syn'.orphan = FALSE /\ syn'.base = base
      /\ SynFields \subseteq DOMAIN syn'
  BY DEF StartPull, NoSync, SynFields
<1>2. syn'.blocks \in Seq(Blocks)
  BY <1>1
<1>3. syn'.orphan \in BOOLEAN
  BY <1>1, ZenonT(30)
<1> QED
  BY <1>1, <1>2, <1>3 DEF Progress

\* the next stage of a comparison
LEMMA StageProgress ==
  ASSUME SynInv, syn.pc \notin {"idle", "pull", "clear"},
         \A x \in SynFields \ {"pc"} : syn'[x] = syn[x],
         SynFields \subseteq DOMAIN syn', syn'.pc \notin {"idle", "pull", "clear"}
  PROVE  Progress
<1>1. syn'.peer = syn.peer /\ syn'.blocks = syn.blocks /\ syn'.base = syn.base /\ syn'.orphan = syn.orphan
  BY DEF SynFields
<1> QED
  BY <1>1 DEF SynInv, Progress

LEMMA ComparisonProgress ==
  ASSUME SynInv, CheckEmpty \/ CompareChainStatistics \/ CompareHashes \/ CompareLocalScore
  PROVE  Progress
<1>0. SynFields \subseteq DOMAIN syn
  BY DEF SynInv
<1>1. CASE CheckEmpty
  <2>1. CASE numBytes = 0
    <3>1. syn.pc = "check"
          /\ syn' = [syn EXCEPT !.pc = "Statistics", !.lower = LocalFinalizedHeight, !.start = LocalFinalizedHeight,
                             !.local = chain, !.origin = <<chain, remote(syn.peer), proofs>>]
      BY <1>1, <2>1, ZenonT(30) DEF CheckEmpty
    <3>2. syn'.pc = "Statistics" /\ SynFields \subseteq DOMAIN syn' /\ \A x \in SynFields \ {"pc"} : syn'[x] = syn[x]
      BY <1>0, <3>1, Zenon DEF SynFields
    <3> QED
      BY <3>1, <3>2, StageProgress, ZenonT(30)
  <2>2. CASE numBytes /= 0
    <3>1. syn.pc = "check" /\ syn' = [syn EXCEPT !.pc = "bypass"]
      BY <1>1, <2>2 DEF CheckEmpty
    <3>2. syn'.pc = "bypass" /\ SynFields \subseteq DOMAIN syn' /\ \A x \in SynFields \ {"pc"} : syn'[x] = syn[x]
      BY <1>0, <3>1, Zenon DEF SynFields
    <3> QED
      BY <3>1, <3>2, StageProgress
  <2> QED
    BY <2>1, <2>2, Zenon
<1>2. CASE CompareChainStatistics
  <2>1. syn.pc = "Statistics"
    BY <1>2, Zenon DEF CompareChainStatistics
  <2>2. CASE \E code : syn' = Finished(code)
    BY <2>1, <2>2, FinishedProgress, Zenon
  <2>3. CASE ~ \E code : syn' = Finished(code)
    <3>1. syn' = [syn EXCEPT !.pc = "Hashes_First", !.local = chain, !.score = Score(syn.local),
                             !.localHeight = Len(syn.local), !.remoteHeight = Len(remote(syn.peer)),
                             !.upper = Len(syn.local)]
      BY <1>2, <2>3, ZenonT(30) DEF CompareChainStatistics
    <3>2. syn'.pc = "Hashes_First" /\ SynFields \subseteq DOMAIN syn' /\ \A x \in SynFields \ {"pc"} : syn'[x] = syn[x]
      BY <1>0, <3>1, Zenon DEF SynFields
    <3> QED
      BY <2>1, <3>2, StageProgress, Zenon
  <2> QED
    BY <2>2, <2>3, Zenon
<1>3. CASE CompareHashes
  <2>1. PICK l, r : syn' = CompareBatch(l, r) /\ syn.pc \in {"Hashes_First", "Hashes_Next"}
    BY <1>3, Zenon DEF CompareHashes
  <2>2. \/ \E code : syn' = Finished(code)
        \/ \E h, depth : syn' = StartPull(h, depth, 0)
        \/ \E a, b, c : syn' = tryContinue(a, b, c)
        \/ syn' = [syn EXCEPT !.pc = "Score_Local", !.local = chain]
    BY <2>1, Zenon DEF CompareBatch
  <2>3. ASSUME NEW a, NEW b, NEW c, syn' = tryContinue(a, b, c)
        PROVE  Progress
    <3>1. CASE syn.start = c
      BY <2>1, <2>3, <3>1, FinishedProgress, ZenonT(30) DEF tryContinue
    <3>2. CASE syn.start /= c
      <4>1. syn' = [syn EXCEPT !.pc = "Hashes_Next", !.local = chain, !.lower = a, !.upper = b, !.start = c]
        BY <2>3, <3>2, ZenonT(30) DEF tryContinue
      <4>2. syn'.pc = "Hashes_Next" /\ SynFields \subseteq DOMAIN syn' /\ \A x \in SynFields \ {"pc"} : syn'[x] = syn[x]
        BY <1>0, <4>1, Zenon DEF SynFields
      <4> QED
        BY <2>1, <4>2, StageProgress, Zenon
    <3> QED
      BY <3>1, <3>2, Zenon
  <2>4. CASE syn' = [syn EXCEPT !.pc = "Score_Local", !.local = chain]
    <3>1. syn'.pc = "Score_Local" /\ SynFields \subseteq DOMAIN syn' /\ \A x \in SynFields \ {"pc"} : syn'[x] = syn[x]
      BY <1>0, <2>4, Zenon DEF SynFields
    <3> QED
      BY <2>1, <3>1, StageProgress
  <2> QED
    BY <2>1, <2>2, <2>3, <2>4, FinishedProgress, StartPullProgress
<1>4. CASE CompareLocalScore
  BY <1>4, FinishedProgress DEF CompareLocalScore
<1> QED
  BY <1>1, <1>2, <1>3, <1>4

-----------------------------------------------------------------------------

\* the elements when the queue keeps its ranges up to their status
LEMMA SameElements ==
  ASSUME ElementsInv, elements' = elements, Len(queue') = Len(queue),
         \A i \in 1..Len(queue) : queue'[i].callback = queue[i].callback /\ Element(queue'[i]) = Element(queue[i])
  PROVE  ElementsInv'
<1>1. PICK at : IsPlacing(at)
  BY Zenon DEF ElementsInv
<1>2. Own' = Own
  BY Zenon DEF Own
<1>3. \A i \in 1..Len(elements) : at[i] \in Own /\ at[i] \in 1..Len(queue)
  BY <1>1, Zenon DEF IsPlacing, Own
<1>4. \A i \in 1..Len(elements) : elements[i] = Element(queue'[at[i]])
  BY <1>1, <1>3, ZenonT(30) DEF IsPlacing
<1>5. IsPlacing(at)'
  BY <1>1, <1>2, <1>4, Zenon DEF IsPlacing, Element
<1> QED
  BY <1>5 DEF ElementsInv

\* a step that neither touches the queue nor the elements
LEMMA QuietBook ==
  ASSUME Book, UNCHANGED <<elements, queue, consumed, lastId>>, RemotesInv', SynInv', ConInv', OrphanInv'
  PROVE  Book'
<1>1. elements' = elements /\ queue' = queue /\ consumed' = consumed /\ lastId' = lastId
  BY Zenon
<1>2. QueueInv'
  BY <1>1, Zenon DEF Book, QueueInv
<1>3. ElementsInv'
  BY <1>1, SameElements, Zenon DEF Book
<1> QED
  BY <1>2, <1>3 DEF Book

LEMMA ProgressBook ==
  ASSUME Book, Progress, UNCHANGED <<unprocessed, dispatcher, con>>, RemotesInv'
  PROVE  Book'
<1>1. /\ elements' = elements /\ queue' = queue /\ consumed' = consumed /\ lastId' = lastId /\ con' = con
      /\ hasPendingSync' = hasPendingSync /\ dirty' = dirty
  BY Zenon DEF unprocessed, dispatcher
<1>2. SynInv /\ syn.pc /= "idle" /\ syn.peer \in Peers
  BY Zenon DEF Book, SynInv, Progress
<1>3. SynInv'
  BY <1>1, <1>2, Zenon DEF SynInv, Progress
<1>4. ConInv'
  BY <1>1, Zenon DEF Book, ConInv
<1>5. OrphanInv'
  BY <1>1, Zenon DEF OrphanInv, Progress
<1> QED
  BY <1>1, <1>3, <1>4, <1>5, QuietBook, ZenonT(30)

LEMMA SameRemotes ==
  ASSUME RemotesInv, plan' = plan, env' = env
  PROVE  RemotesInv'
BY Zenon DEF RemotesInv

LEMMA ComparisonBook ==
  ASSUME Book, CheckEmpty \/ CompareChainStatistics \/ CompareHashes \/ CompareLocalScore
  PROVE  Book'
<1>1. syncOnly
  BY Zenon DEF CheckEmpty, CompareChainStatistics, CompareHashes, CompareLocalScore
<1>2. UNCHANGED <<unprocessed, dispatcher, con>> /\ plan' = plan /\ env' = env
  BY <1>1, Zenon DEF syncOnly
<1>3. Progress
  BY ComparisonProgress, Zenon DEF Book
<1>4. RemotesInv'
  BY <1>2, SameRemotes, Zenon DEF Book
<1> QED
  BY <1>2, <1>3, <1>4, ProgressBook, ZenonT(30)

LEMMA BypassBook ==
  ASSUME Book, BypassComparison
  PROVE  Book'
<1>1. UNCHANGED <<unprocessed, dispatcher, con>> /\ plan' = plan /\ env' = env
  BY Zenon DEF BypassComparison, syncOnly
<1>2. PICK base : /\ syn' = StartPull(maxHeight, 0, base)
                  /\ base = IF elements = <<>> THEN 0 ELSE Last(elements).id
  BY Zenon DEF BypassComparison
<1>3. base /= 0 /\ elements /= <<>> => elements[Len(elements)].id = base
  BY <1>2, Zenon DEF Last
<1>4. Progress
  BY <1>2, <1>3, StartPullProgress, Zenon DEF BypassComparison
<1>5. RemotesInv'
  BY <1>1, SameRemotes, Zenon DEF Book
<1> QED
  BY <1>1, <1>4, <1>5, ProgressBook, ZenonT(30)

LEMMA RemoteFailsBook ==
  ASSUME Book, EnvShape, RemoteFails
  PROVE  Book'
<1>1. UNCHANGED <<unprocessed, dispatcher, con>> /\ plan' = plan /\ env' = [env EXCEPT !.failed = @ + 1]
      /\ syn.pc /= "idle" /\ syn' = Finished("exception")
  BY Zenon DEF RemoteFails
<1>2. Progress
  BY <1>1, FinishedProgress, Zenon
<1>3. env'.adopted = env.adopted
  BY <1>1, Zenon DEF EnvShape
<1>4. RemotesInv'
  BY <1>1, <1>3, Zenon DEF Book, RemotesInv
<1> QED
  BY <1>1, <1>2, <1>4, ProgressBook, ZenonT(30)

LEMMA PeerAdoptsBook ==
  ASSUME IInv, Book, NEW p \in Peers, PeerAdopts(p)
  PROVE  Book'
<1>1. /\ UNCHANGED <<unprocessed, dispatcher, con, syn>> /\ plan' = plan /\ env' = [env EXCEPT !.adopted[p] = @ + 1]
      /\ env.adopted[p] < Len(plan.remotes[p])
  BY DEF PeerAdopts
<1>2. /\ elements' = elements /\ queue' = queue /\ consumed' = consumed /\ lastId' = lastId /\ con' = con
      /\ hasPendingSync' = hasPendingSync /\ dirty' = dirty /\ syn' = syn
  BY <1>1, Zenon DEF unprocessed, dispatcher
<1>3. env'.adopted = [env.adopted EXCEPT ![p] = @ + 1]
  BY <1>1, Zenon DEF IInv, EnvShape
<1>4. PICK a : a = env.adopted /\ a = [q \in Peers |-> a[q]] /\ \A q \in Peers : a[q] \in 1..Len(plan.remotes[q])
  BY Zenon DEF Book, RemotesInv
<1>5. PICK r : r = plan.remotes[p] /\ Len(r) \in Nat
  BY PlansAssumption DEF IInv
<1>6. RemotesInv'
  <2>1. env'.adopted = [q \in Peers |-> IF q = p THEN a[p] + 1 ELSE a[q]]
    BY <1>3, <1>4, Zenon
  <2>2. a[p] + 1 \in 1..Len(r)
    BY <1>1, <1>4, <1>5
  <2>3. PICK b : b = [q \in Peers |-> IF q = p THEN a[p] + 1 ELSE a[q]]
    BY Zenon
  <2>4. \A q \in Peers : b[q] \in 1..Len(plan.remotes[q])
    BY <1>4, <1>5, <2>2, <2>3
  <2> QED
    BY <1>1, <2>1, <2>3, <2>4, ZenonT(30) DEF RemotesInv
<1>7. SynInv' /\ ConInv' /\ OrphanInv'
  BY <1>2 DEF Book, SynInv, ConInv, OrphanInv
<1> QED
  BY <1>2, <1>6, <1>7, QuietBook, ZenonT(30)

LEMMA StartSyncBook ==
  ASSUME Book, NEW p \in Peers, StartSync(p)
  PROVE  Book'
<1>1. /\ elements' = elements /\ queue' = queue /\ consumed' = consumed /\ lastId' = lastId /\ con' = con
      /\ hasPendingSync' = TRUE /\ plan' = plan /\ env' = env /\ syn' = [NoSync EXCEPT !.pc = "check", !.peer = p]
  BY Zenon DEF StartSync, dispatcher
<1>2. /\ syn'.pc = "check" /\ syn'.peer = p /\ syn'.blocks = <<>> /\ syn'.base = 0 /\ syn'.orphan = FALSE
      /\ SynFields \subseteq DOMAIN syn'
  BY <1>1, ZenonT(30) DEF NoSync, SynFields
<1>3. SynInv'
  <2>1. syn'.blocks \in Seq(Blocks) /\ syn'.peer \in Peers /\ syn'.pc /= "idle"
    BY <1>2
  <2>2. hasPendingSync' <=> syn'.pc /= "idle"
    BY <1>1, <2>1
  <2> QED
    BY <1>2, <2>1, <2>2, Zenon DEF SynInv
<1>4. ConInv' /\ OrphanInv'
  BY <1>1, <1>2, Zenon DEF Book, ConInv, OrphanInv
<1>5. RemotesInv'
  BY <1>1, SameRemotes, Zenon DEF Book
<1> QED
  BY <1>1, <1>3, <1>4, <1>5, QuietBook, Zenon

LEMMA ClearPendingSyncBook ==
  ASSUME Book, ClearPendingSync
  PROVE  Book'
<1>1. /\ elements' = elements /\ queue' = queue /\ consumed' = consumed /\ lastId' = lastId /\ con' = con
      /\ hasPendingSync' = FALSE /\ plan' = plan /\ env' = env /\ syn' = NoSync
  BY Zenon DEF ClearPendingSync, clearPendingSync, dispatcher
<1>2. SynInv'
  BY <1>1 DEF SynInv, NoSync, SynFields
<1>3. ConInv' /\ OrphanInv'
  BY <1>1, Zenon DEF Book, ConInv, OrphanInv, NoSync
<1>4. RemotesInv'
  BY <1>1, SameRemotes, Zenon DEF Book
<1> QED
  BY <1>1, <1>2, <1>3, <1>4, QuietBook, ZenonT(30)

\* the consumer reads a finalized pair, or a proof is stored
LEMMA ReadBook ==
  ASSUME IInv, Book, ReadLocalFinalized \/ ReadNetworkFinalized \/ StoreProof
  PROVE  Book'
<1>1. /\ elements' = elements /\ queue' = queue /\ consumed' = consumed /\ lastId' = lastId
      /\ hasPendingSync' = hasPendingSync /\ dirty' = dirty /\ syn' = syn /\ plan' = plan
  BY ZenonT(30) DEF ReadLocalFinalized, ReadNetworkFinalized, StoreProof, unprocessed, dispatcher
<1>2. env'.adopted = env.adopted
  BY Zenon DEF ReadLocalFinalized, ReadNetworkFinalized, StoreProof, IInv, EnvShape
<1>3. RemotesInv'
  BY <1>1, <1>2, Zenon DEF Book, RemotesInv
<1>4. SynInv' /\ OrphanInv'
  BY <1>1, Zenon DEF Book, SynInv, OrphanInv
<1>5. ConInv'
  <2>1. con = [pc |-> con.pc, local |-> con.local, network |-> con.network]
    BY Zenon DEF IInv, PairsRead
  <2>2. CASE ReadLocalFinalized
    <3>1. con'.pc = "network" /\ consumed < Len(queue)
      BY <2>1, <2>2, Zenon DEF ReadLocalFinalized
    <3> QED
      BY <1>1, <3>1, ZenonT(30) DEF ConInv
  <2>3. CASE ReadNetworkFinalized
    <3>1. con'.pc = "sync" /\ con.pc = "network"
      BY <2>1, <2>3, Zenon DEF ReadNetworkFinalized
    <3> QED
      BY <1>1, <3>1, Zenon DEF Book, ConInv
  <2>4. CASE StoreProof
    <3>1. con' = con
      BY <2>4, Zenon DEF StoreProof
    <3> QED
      BY <1>1, <3>1, Zenon DEF Book, ConInv
  <2> QED
    BY <2>2, <2>3, <2>4, ZenonT(30)
<1> QED
  BY <1>1, <1>3, <1>4, <1>5, QuietBook, ZenonT(30)

-----------------------------------------------------------------------------

\* a range is accepted
LEMMA DispatchQueue ==
  ASSUME QueueInv, NEW first, NEW blocks, NEW source, NEW callback \in BOOLEAN, callback => Len(blocks) \in Nat,
         Len(queue) /= SlotCount, consumed' = consumed, Dispatch(first, blocks, source, callback)
  PROVE  /\ QueueInv' /\ Len(queue) \in Nat /\ Len(queue') = Len(queue) + 1
         /\ queue'[Len(queue) + 1] = [id |-> NextId, first |-> first, blocks |-> blocks, source |-> source,
                                      callback |-> callback, status |-> "Normal"]
         /\ \A i \in 1..Len(queue) : queue'[i] = queue[i]
<1>1. PICK r : r = [id |-> NextId, first |-> first, blocks |-> blocks, source |-> source,
                    callback |-> callback, status |-> "Normal"]
  BY ZenonT(30)
<1>2. queue' = Append(queue, r) /\ lastId' = NextId
  BY <1>1 DEF Dispatch
<1>3. IsSeq(queue)
  BY DEF QueueInv
<1>4. /\ IsSeq(queue') /\ Len(queue) \in Nat /\ Len(queue') = Len(queue) + 1
      /\ queue'[Len(queue) + 1] = r /\ \A i \in 1..Len(queue) : queue'[i] = queue[i]
  BY <1>2, <1>3, Appended
<1>5. PICK n \in Nat : n = Len(queue) /\ n < SlotCount
  BY <1>4, SyncAssumption DEF QueueInv
<1>6. lastId \in 0..IdCount /\ NextId \in 1..IdCount /\ IdCount \in Nat /\ SlotCount \in Nat /\ SlotCount < IdCount
  BY SyncAssumption DEF QueueInv, NextId
<1>7. IsRange(r) /\ r.id = NextId
  BY <1>1, Zenon DEF IsRange
<1>8. IdOf(lastId' - 0) = NextId
  BY <1>2, <1>6 DEF IdOf
<1>9. ASSUME NEW i \in 1..n
      PROVE  IdOf(lastId' - (n + 1 - i)) = IdOf(lastId - (n - i))
  BY <1>2, <1>5, <1>6, SMTT(30) DEF IdOf, NextId
<1>10. ASSUME NEW i \in 1..n + 1
       PROVE  IsRange(queue'[i]) /\ queue'[i].id = IdOf(lastId' - (n + 1 - i))
  <2>1. CASE i = n + 1
    BY <1>4, <1>5, <1>7, <1>8, <2>1
  <2>2. CASE i /= n + 1
    <3>1. i \in 1..n
      BY <2>2
    <3>2. queue'[i] = queue[i] /\ IsRange(queue[i]) /\ queue[i].id = IdOf(lastId - (n - i))
      BY <1>4, <1>5, <3>1, Zenon DEF QueueInv
    <3> QED
      BY <1>9, <3>1, <3>2, ZenonT(30)
  <2> QED
    BY <2>1, <2>2, Zenon
<1>11. Len(queue') <= SlotCount /\ consumed' \in 0..Len(queue') /\ lastId' \in 0..IdCount
  <2>1. consumed \in 0..n
    BY <1>5, Zenon DEF QueueInv
  <2> QED
    BY <1>2, <1>4, <1>5, <1>6, <2>1
<1>12. QueueInv'
  BY <1>4, <1>5, <1>10, <1>11 DEF QueueInv, IsRange
<1> QED
  BY <1>1, <1>4, <1>12, ZenonT(30)

\* the sync consumer is done with a range
LEMMA LeaveQueue ==
  ASSUME QueueInv, consumed < Len(queue), NEW status, Leave(status)
  PROVE  /\ QueueInv' /\ Len(queue') = Len(queue)
         /\ \A i \in 1..Len(queue) :
               queue'[i].callback = queue[i].callback /\ Element(queue'[i]) = Element(queue[i])
<1>1. PICK k : k = consumed + 1
  OBVIOUS
<1>2. IsSeq(queue)
  BY DEF QueueInv
<1>3. PICK n \in Nat : n = Len(queue)
  BY <1>2 DEF IsSeq
<1>4. k \in 1..n /\ consumed' = k /\ lastId' = lastId
  BY <1>1, <1>3 DEF QueueInv, Leave
<1>5. PICK e : e = [queue[k] EXCEPT !.status = status]
  BY Zenon
<1>6. queue' = [queue EXCEPT ![k] = e]
  BY <1>1, <1>5 DEF Leave
<1>7. /\ IsSeq(queue') /\ Len(queue') = n
      /\ queue'[k] = e /\ \A i \in 1..n : i /= k => queue'[i] = queue[i]
  <2>1. k \in 1..Len(queue)
    BY <1>3, <1>4, Zenon
  <2>2. ChangedAt(queue', queue, k, e)
    BY <1>6, Zenon DEF ChangedAt
  <2> QED
    BY <1>2, <1>3, <2>1, <2>2, Replaced
<1>8. IsRange(queue[k])
  BY <1>3, <1>4, Zenon DEF QueueInv
<1>9. /\ IsRange(e) /\ e.id = queue[k].id /\ e.first = queue[k].first /\ e.blocks = queue[k].blocks
      /\ e.callback = queue[k].callback
  BY <1>5, <1>8, Zenon DEF IsRange
<1>10. \A i \in 1..n : queue'[i].callback = queue[i].callback /\ Element(queue'[i]) = Element(queue[i])
  BY <1>7, <1>9, ZenonT(30) DEF Element
<1>11. \A i \in 1..n : IsRange(queue'[i]) /\ queue'[i].id = IdOf(lastId - (n - i))
  <2>1. \A i \in 1..n : IsRange(queue'[i]) /\ queue'[i].id = queue[i].id
    BY <1>3, <1>7, <1>9, Zenon DEF QueueInv
  <2>2. \A i \in 1..n : queue[i].id = IdOf(lastId - (n - i))
    BY <1>3, Zenon DEF QueueInv
  <2> QED
    BY <2>1, <2>2
<1>12. QueueInv'
  <2>1. IsSeq(queue') /\ Len(queue') <= SlotCount /\ consumed' \in 0..Len(queue') /\ lastId' \in 0..IdCount
    BY <1>3, <1>4, <1>7 DEF QueueInv
  <2>2. \A i \in 1..Len(queue') : IsRange(queue'[i]) /\ queue'[i].id = IdOf(lastId' - (Len(queue') - i))
    BY <1>4, <1>7, <1>11, ZenonT(30)
  <2> QED
    BY <2>1, <2>2, Zenon DEF QueueInv, IsRange
<1> QED
  BY <1>3, <1>7, <1>10, <1>12, Zenon

\* the first range leaves the dispatcher
LEMMA CompleteQueue ==
  ASSUME QueueInv, consumed > 0, queue' = Tail(queue), consumed' = consumed - 1, lastId' = lastId
  PROVE  /\ QueueInv' /\ Len(queue) \in Nat /\ Len(queue) > 0 /\ Len(queue') = Len(queue) - 1 /\ Head(queue) = queue[1]
         /\ \A i \in 1..Len(queue) - 1 : queue'[i] = queue[i + 1]
<1>1. IsSeq(queue) /\ consumed \in 0..Len(queue)
  BY DEF QueueInv
<1>2. queue /= <<>>
  BY <1>1
<1>3. /\ IsSeq(queue') /\ Len(queue) \in Nat /\ Len(queue) > 0 /\ Len(queue') = Len(queue) - 1 /\ Head(queue) = queue[1]
      /\ \A i \in 1..Len(queue) - 1 : queue'[i] = queue[i + 1]
  BY <1>1, <1>2, Shortened, Zenon
<1>4. PICK n \in Nat : n = Len(queue)
  BY <1>3, ZenonT(30)
<1>5. ASSUME NEW i \in 1..n - 1
      PROVE  IsRange(queue'[i]) /\ queue'[i].id = IdOf(lastId - (n - 1 - i))
  <2>1. i + 1 \in 1..n /\ n - (i + 1) = n - 1 - i /\ queue'[i] = queue[i + 1]
    BY <1>3, <1>4
  <2>2. IsRange(queue[i + 1]) /\ queue[i + 1].id = IdOf(lastId - (n - (i + 1)))
    BY <1>4, <2>1 DEF QueueInv
  <2> QED
    BY <2>1, <2>2, Zenon
<1>6. Len(queue') <= SlotCount /\ consumed' \in 0..Len(queue')
  <2>1. n <= SlotCount /\ SlotCount \in Nat
    BY <1>4, SyncAssumption, ZenonT(30) DEF QueueInv
  <2> QED
    BY <1>1, <1>3, <1>4, <2>1
<1>7. QueueInv'
  BY <1>3, <1>4, <1>5, <1>6, ZenonT(30) DEF QueueInv, IsRange
<1> QED
  BY <1>3, <1>7, Zenon

\* two ranges of the queue never share an id, and no id is zero
LEMMA IdsDistinct ==
  ASSUME QueueInv, NEW i \in 1..Len(queue)
  PROVE  queue[i].id /= 0 /\ \A j \in 1..Len(queue) : queue[j].id = queue[i].id => j = i
<1>1. IsSeq(queue)
  BY Zenon DEF QueueInv
<1>2. PICK n \in Nat : n = Len(queue) /\ n <= SlotCount
  BY <1>1 DEF IsSeq, QueueInv
<1>3. IdCount \in Nat /\ SlotCount \in Nat /\ SlotCount < IdCount /\ lastId \in 0..IdCount
  BY SyncAssumption, Zenon DEF QueueInv
<1>4. \A j \in 1..n : queue[j].id = IdOf(lastId - (n - j))
  BY <1>2, Zenon DEF QueueInv
<1>5. IdOf(lastId - (n - i)) /= 0
  BY <1>2, <1>3 DEF IdOf
<1>6. ASSUME NEW j \in 1..n, j /= i
      PROVE  IdOf(lastId - (n - j)) /= IdOf(lastId - (n - i))
  BY <1>2, <1>3, <1>6 DEF IdOf
<1> QED
  BY <1>2, <1>4, <1>5, <1>6

\* the elements when a range of the synchronizer is accepted
LEMMA AddedElement ==
  ASSUME ElementsInv, Len(queue) \in Nat, Len(queue') = Len(queue) + 1,
         \A i \in 1..Len(queue) : queue'[i] = queue[i], queue'[Len(queue) + 1].callback = TRUE,
         elements' = Append(elements, Element(queue'[Len(queue) + 1]))
  PROVE  ElementsInv'
<1>1. PICK at : IsPlacing(at)
  BY Zenon DEF ElementsInv
<1>2. PICK m \in Nat : m = Len(queue)
  BY Zenon
<1>3. PICK e : e = Element(queue'[m + 1])
  BY Zenon
<1>4. /\ IsSeq(elements') /\ Len(elements) \in Nat /\ Len(elements') = Len(elements) + 1
      /\ elements'[Len(elements) + 1] = e /\ \A i \in 1..Len(elements) : elements'[i] = elements[i]
  BY <1>2, <1>3, Appended DEF ElementsInv
<1>5. PICK n \in Nat : n = Len(elements)
  BY <1>4, Zenon
<1>6. Own' = Own \cup {m + 1} /\ \A k \in Own : k \in 1..m
  BY <1>2 DEF Own
<1>7. PICK b : b = [i \in 1..n + 1 |-> IF i = n + 1 THEN m + 1 ELSE at[i]]
  BY Zenon
<1>8. /\ \A i \in 1..n : b[i] = at[i] /\ at[i] \in Own /\ at[i] \in 1..m /\ i \in 1..n + 1
      /\ b[n + 1] = m + 1 /\ n + 1 \in 1..n + 1
  BY <1>1, <1>5, <1>6, <1>7, SMTT(30) DEF IsPlacing
<1>9. \A i \in 1..n + 1 : i \in 1..n \/ i = n + 1
  OBVIOUS
<1>10. b \in [1..n + 1 -> Own']
  BY <1>6, <1>7, <1>8, <1>9, Zenon
<1>11. Own' = {b[i] : i \in 1..n + 1}
  <2>1. \A k \in Own : \E i \in 1..n : at[i] = k
    BY <1>1, <1>5 DEF IsPlacing
  <2>2. \A k \in Own' : \E i \in 1..n + 1 : b[i] = k
    BY <1>6, <1>8, <2>1, ZenonT(30)
  <2> QED
    BY <1>10, <2>2
<1>12. \A i, j \in 1..n + 1 : i < j => b[i] < b[j]
  <2>1. \A i, j \in 1..n : i < j => at[i] < at[j]
    BY <1>1, <1>5, Zenon DEF IsPlacing
  <2>2. SUFFICES ASSUME NEW i \in 1..n + 1, NEW j \in 1..n + 1, i < j
                 PROVE  b[i] < b[j]
    BY Zenon
  <2>3. i \in 1..n
    BY <2>2
  <2>4. CASE j = n + 1
    BY <1>8, <2>3, <2>4
  <2>5. CASE j \in 1..n
    BY <1>8, <2>1, <2>2, <2>3, <2>5, ZenonT(30)
  <2> QED
    BY <1>9, <2>4, <2>5
<1>13. ASSUME NEW i \in 1..n + 1
       PROVE  elements'[i] = Element(queue'[b[i]])
  <2>1. CASE i = n + 1
    BY <1>3, <1>4, <1>5, <1>8, <2>1, ZenonT(30)
  <2>2. CASE i \in 1..n
    <3>1. elements[i] = Element(queue[at[i]])
      BY <1>1, <1>5, <2>2, ZenonT(30) DEF IsPlacing
    <3> QED
      BY <1>2, <1>4, <1>5, <1>8, <2>2, <3>1, ZenonT(30)
  <2> QED
    BY <1>9, <2>1, <2>2, Zenon
<1>14. IsPlacing(b)'
  BY <1>4, <1>5, <1>10, <1>11, <1>12, <1>13, Zenon DEF IsPlacing, Element
<1> QED
  BY <1>4, <1>14, Zenon DEF ElementsInv

\* the elements when a range of another source is accepted
LEMMA PushedElement ==
  ASSUME ElementsInv, Len(queue) \in Nat, Len(queue') = Len(queue) + 1, elements' = elements,
         \A i \in 1..Len(queue) : queue'[i] = queue[i], queue'[Len(queue) + 1].callback = FALSE
  PROVE  ElementsInv'
<1>1. PICK at : IsPlacing(at)
  BY Zenon DEF ElementsInv
<1>2. PICK m \in Nat : m = Len(queue)
  BY Zenon
<1>3. Own' = Own /\ \A k \in Own : k \in 1..m
  BY <1>2 DEF Own
<1>4. \A i \in 1..Len(elements) : at[i] \in Own /\ elements[i] = Element(queue[at[i]])
  BY <1>1, Zenon DEF IsPlacing
<1>5. \A i \in 1..Len(elements) : elements[i] = Element(queue'[at[i]])
  BY <1>2, <1>3, <1>4, ZenonT(30)
<1>6. IsPlacing(at)'
  BY <1>1, <1>3, <1>5, ZenonT(30) DEF IsPlacing, Element
<1> QED
  BY <1>6 DEF ElementsInv

\* an own range at the front of the queue is the first element
LEMMA FrontElement ==
  ASSUME ElementsInv, NEW at, IsPlacing(at), Len(queue) \in Nat, Len(queue) > 0, queue[1].callback = TRUE
  PROVE  /\ elements /= <<>> /\ Len(elements) \in Nat /\ Len(elements) > 0
         /\ elements[1] = Element(queue[1]) /\ at[1] = 1
<1>1. 1 \in Own
  BY DEF Own
<1>2. PICK i \in 1..Len(elements) : at[i] = 1
  BY <1>1, Zenon DEF IsPlacing
<1>3. PICK n \in Nat : n = Len(elements)
  BY DEF ElementsInv, IsSeq
<1>4. n > 0 /\ 1 \in 1..n /\ i \in 1..n
  BY <1>2, <1>3
<1>5. at[1] \in Nat /\ at[1] >= 1
  BY <1>3, <1>4 DEF IsPlacing, Own
<1>6. i # 1 => at[1] < at[i]
  BY <1>3, <1>4, SMTT(30) DEF IsPlacing
<1>7. at[1] = 1
  BY <1>2, <1>5, <1>6
<1>8. elements[1] = Element(queue[1])
  BY <1>3, <1>4, <1>7, ZenonT(30) DEF IsPlacing
<1>9. elements /= <<>>
  BY <1>3, <1>4
<1> QED
  BY <1>3, <1>4, <1>7, <1>8, <1>9

\* the elements when the first range of the queue completes
LEMMA CompletedElement ==
  ASSUME ElementsInv, Len(queue) \in Nat, Len(queue) > 0, Len(queue') = Len(queue) - 1,
         \A i \in 1..Len(queue) - 1 : queue'[i] = queue[i + 1], queue[1].callback \in BOOLEAN,
         elements' = IF queue[1].callback THEN Tail(elements) ELSE elements
  PROVE  ElementsInv'
<1>1. PICK at : IsPlacing(at)
  BY DEF ElementsInv
<1>2. PICK m \in Nat : m = Len(queue) /\ m > 0
  OBVIOUS
<1>3. Own' = {k \in 1..m - 1 : queue[k + 1].callback}
  BY <1>2, Zenon DEF Own
<1>4. \A k \in Own : k \in 1..m /\ (k # 1 => k - 1 \in Own')
  BY <1>2, <1>3 DEF Own
<1>5. \A k \in Own' : k \in Nat /\ k >= 1 /\ k + 1 \in Own /\ queue'[k] = queue[k + 1]
  BY <1>2, <1>3 DEF Own
<1>6. PICK n \in Nat : n = Len(elements)
  BY DEF ElementsInv, IsSeq
<1>7. /\ \A i \in 1..n : at[i] \in Own /\ elements[i] = Element(queue[at[i]])
      /\ \A i, j \in 1..n : i < j => at[i] < at[j]
      /\ \A k \in Own : \E i \in 1..n : at[i] = k
  BY <1>1, <1>6, ZenonT(30) DEF IsPlacing
<1>8. CASE queue[1].callback = TRUE
  <2>1. elements /= <<>> /\ n > 0 /\ at[1] = 1
    BY <1>1, <1>2, <1>6, <1>8, FrontElement, ZenonT(30)
  <2>2. /\ IsSeq(elements') /\ Len(elements') = n - 1 /\ \A i \in 1..n - 1 : elements'[i] = elements[i + 1]
    BY <1>6, <1>8, <2>1, Shortened DEF ElementsInv
  <2>3. \A i \in 1..n - 1 : i + 1 \in 1..n /\ at[i + 1] \in Own /\ at[i + 1] \in Nat /\ at[i + 1] > 1
    <3>1. ASSUME NEW i \in 1..n - 1
          PROVE  i + 1 \in 1..n /\ at[i + 1] \in Own /\ at[i + 1] \in Nat /\ at[i + 1] > 1
      <4>1. i + 1 \in 1..n /\ 1 \in 1..n /\ 1 < i + 1
        BY <2>1
      <4> QED
        BY <1>4, <1>7, <2>1, <4>1, SMTT(30)
    <3> QED
      BY <3>1, Zenon
  <2>4. PICK b : b = [i \in 1..n - 1 |-> at[i + 1] - 1]
    BY Zenon
  <2>5. \A i \in 1..n - 1 : b[i] = at[i + 1] - 1 /\ b[i] \in Own' /\ queue'[b[i]] = queue[at[i + 1]]
    <3>1. ASSUME NEW i \in 1..n - 1
          PROVE  b[i] = at[i + 1] - 1 /\ b[i] \in Own' /\ queue'[b[i]] = queue[at[i + 1]]
      <4>1. PICK k \in Nat : k = at[i + 1] /\ k > 1 /\ k \in Own
        BY <2>3, Zenon
      <4>2. b[i] = k - 1 /\ k - 1 \in Own' /\ (k - 1) + 1 = k
        <5>1. b[i] = k - 1
          BY <2>4, <4>1, Zenon
        <5>2. k # 1 /\ (k - 1) + 1 = k
          BY <4>1
        <5> QED
          BY <1>4, <4>1, <5>1, <5>2, Zenon
      <4> QED
        BY <1>5, <4>1, <4>2, Zenon
    <3> QED
      BY <3>1, Zenon
  <2>6. b \in [1..n - 1 -> Own']
    BY <2>4, <2>5, ZenonT(30)
  <2>7. Own' = {b[i] : i \in 1..n - 1}
    <3>1. ASSUME NEW k \in Own'
          PROVE  \E i \in 1..n - 1 : b[i] = k
      <4>1. PICK i \in 1..n : at[i] = k + 1
        BY <1>5, <1>7, ZenonT(30)
      <4>2. i # 1
        BY <1>5, <2>1, <4>1
      <4>3. i - 1 \in 1..n - 1 /\ (i - 1) + 1 = i
        BY <4>2, Predecessor, Zenon
      <4>4. b[i - 1] = (k + 1) - 1
        BY <2>5, <4>1, <4>3, ZenonT(30)
      <4> QED
        BY <1>5, <4>3, <4>4
    <3> QED
      BY <2>6, <3>1
  <2>8. ASSUME NEW i \in 1..n - 1, NEW j \in 1..n - 1, i < j
        PROVE  b[i] < b[j]
    <3>1. i + 1 \in 1..n /\ j + 1 \in 1..n /\ i + 1 < j + 1
      BY <2>8
    <3>2. at[i + 1] < at[j + 1] /\ at[i + 1] \in Nat /\ at[j + 1] \in Nat
      BY <1>7, <2>3, <3>1, ZenonT(30)
    <3> QED
      BY <2>5, <3>2, SMTT(30)
  <2>9. \A i \in 1..n - 1 : elements'[i] = Element(queue'[b[i]])
    BY <1>7, <2>2, <2>3, <2>5
  <2>10. IsPlacing(b)'
    BY <2>2, <2>6, <2>7, <2>8, <2>9, Zenon DEF IsPlacing, Element
  <2> QED
    BY <2>2, <2>10, ZenonT(30) DEF ElementsInv
<1>9. CASE queue[1].callback = FALSE
  <2>1. elements' = elements /\ 1 \notin Own
    BY <1>9 DEF Own
  <2>2. \A i \in 1..n : at[i] \in Own /\ at[i] \in Nat /\ at[i] > 1
    BY <1>4, <1>7, <2>1
  <2>3. PICK b : b = [i \in 1..n |-> at[i] - 1]
    BY Zenon
  <2>4. \A i \in 1..n : b[i] = at[i] - 1 /\ b[i] \in Own' /\ queue'[b[i]] = queue[at[i]]
    <3>1. ASSUME NEW i \in 1..n
          PROVE  b[i] = at[i] - 1 /\ b[i] \in Own' /\ queue'[b[i]] = queue[at[i]]
      <4>1. PICK k \in Nat : k = at[i] /\ k > 1 /\ k \in Own
        BY <2>2, ZenonT(30)
      <4>2. b[i] = k - 1
        BY <2>3, <4>1, Zenon
      <4>3. k - 1 \in Own' /\ (k - 1) + 1 = k
        BY <1>4, <4>1
      <4> QED
        BY <1>5, <4>1, <4>2, <4>3, ZenonT(30)
    <3> QED
      BY <3>1
  <2>5. b \in [1..n -> Own']
    BY <2>3, <2>4, ZenonT(30)
  <2>6. Own' = {b[i] : i \in 1..n}
    <3>1. ASSUME NEW k \in Own'
          PROVE  \E i \in 1..n : b[i] = k
      <4>1. PICK i \in 1..n : at[i] = k + 1
        BY <1>5, <1>7
      <4>2. b[i] = (k + 1) - 1
        BY <2>4, <4>1, ZenonT(30)
      <4> QED
        BY <1>5, <4>2, SMTT(30)
    <3> QED
      BY <2>5, <3>1
  <2>7. ASSUME NEW i \in 1..n, NEW j \in 1..n, i < j
        PROVE  b[i] < b[j]
    <3>1. at[i] < at[j] /\ at[i] \in Nat /\ at[j] \in Nat
      BY <1>7, <2>2, <2>7, Zenon
    <3> QED
      BY <2>4, <3>1, SMTT(30)
  <2>8. \A i \in 1..n : elements'[i] = Element(queue'[b[i]])
    BY <1>7, <2>1, <2>4, Zenon
  <2>9. IsPlacing(b)'
    BY <1>6, <2>1, <2>5, <2>6, <2>7, <2>8, Zenon DEF IsPlacing, Element
  <2> QED
    BY <2>1, <2>9, Zenon DEF ElementsInv
<1> QED
  BY <1>8, <1>9, Zenon

-----------------------------------------------------------------------------

\* what a step does to the elements and their bytes
Change ==
  \/ elements' = elements /\ numBytes' = numBytes
  \/ \E e : elements' = Append(elements, e) /\ e.bytes \in Nat /\ numBytes' = numBytes + e.bytes /\ ~syn.orphan
  \/ elements /= <<>> /\ elements' = Tail(elements) /\ numBytes' = numBytes - elements[1].bytes

\* a range is pulled and may be added
LEMMA ChainBlocksFromBook ==
  ASSUME IInv, Book, ChainBlocksFrom
  PROVE  Book' /\ Change
<1>1. PICK range : range = From(remote(syn.peer), syn.height, MaxBlocks)
  OBVIOUS
<1>2. PICK blocks : blocks = syn.blocks \o range
  BY Zenon
<1>3. syn.pc = "pull" /\ con' = con /\ plan' = plan /\ env' = env
  BY DEF ChainBlocksFrom
<1>4. blocks \in Seq(Blocks) /\ Len(blocks) \in Nat
  <2>1. syn.peer \in Peers /\ syn.blocks \in Seq(Blocks)
    BY <1>3 DEF Book, SynInv
  <2>2. remote(syn.peer) \in Seq(Blocks)
    BY <2>1, RemoteType, ZenonT(30) DEF Book, IInv
  <2>3. MaxBlocks \in Nat \ {0}
    BY SyncAssumption, ZenonT(30)
  <2>4. range \in Seq(Blocks)
    BY <1>1, <2>2, <2>3, FromType, ZenonT(30)
  <2> QED
    BY <1>2, <2>1, <2>4
<1>5. RemotesInv'
  BY <1>3, SameRemotes, ZenonT(30) DEF Book
<1>6. SynInv /\ SynFields \subseteq DOMAIN syn /\ OrphanInv /\ ConInv
  BY Zenon DEF Book, SynInv
<1>7. CASE range /= <<>> /\ Len(blocks) < syn.forkDepth
  <2>1. /\ syn' = [syn EXCEPT !.height = syn.height + Len(range), !.blocks = blocks]
        /\ UNCHANGED <<unprocessed, dispatcher>>
    BY <1>1, <1>2, <1>7, ZenonT(30) DEF ChainBlocksFrom
  <2>2. /\ syn'.pc = syn.pc /\ syn'.peer = syn.peer /\ syn'.base = syn.base /\ syn'.orphan = syn.orphan
        /\ syn'.blocks = blocks /\ SynFields \subseteq DOMAIN syn'
    BY <1>6, <2>1, ZenonT(30) DEF SynFields
  <2>3. /\ elements' = elements /\ queue' = queue /\ consumed' = consumed /\ lastId' = lastId
        /\ hasPendingSync' = hasPendingSync /\ dirty' = dirty /\ numBytes' = numBytes
    BY <2>1, Zenon DEF unprocessed, dispatcher
  <2>4. SynInv'
    BY <1>3, <1>4, <1>6, <2>2, <2>3, ZenonT(30) DEF SynInv
  <2>5. OrphanInv' /\ ConInv'
    BY <1>3, <1>6, <2>2, <2>3, ZenonT(30) DEF OrphanInv, ConInv
  <2>6. Book'
    BY <1>5, <2>3, <2>4, <2>5, QuietBook, ZenonT(30)
  <2> QED
    BY <2>3, <2>6, ZenonT(30) DEF Change
<1>8. CASE ~(range /= <<>> /\ Len(blocks) < syn.forkDepth)
  <2>1. PICK first : first = syn.height - Len(syn.blocks)
    BY ZenonT(30)
  <2>2. /\ syn' = [syn EXCEPT !.pc = "clear", !.blocks = <<>>]
        /\ \/ UNCHANGED <<unprocessed, dispatcher>>
           \/ add(first, blocks)
    BY <1>1, <1>2, <1>8, <2>1, Zenon DEF ChainBlocksFrom
  <2>3. /\ syn'.pc = "clear" /\ syn'.peer = syn.peer /\ syn'.base = syn.base /\ syn'.orphan = syn.orphan
        /\ syn'.blocks = <<>> /\ SynFields \subseteq DOMAIN syn'
    BY <1>6, <2>2 DEF SynFields
  <2>4. syn'.blocks \in Seq(Blocks)
    BY <2>3
  <2>5. hasPendingSync' = hasPendingSync /\ consumed' = consumed
    BY <2>2, Zenon DEF add, unprocessed, dispatcher
  <2>6. SynInv' /\ OrphanInv'
    BY <1>3, <1>6, <2>3, <2>4, <2>5 DEF SynInv, OrphanInv
  <2>7. CASE elements' = elements /\ numBytes' = numBytes /\ queue' = queue /\ lastId' = lastId
    <3>1. ConInv'
      BY <1>3, <1>6, <2>5, <2>7, ZenonT(30) DEF ConInv
    <3>2. Book'
      BY <1>5, <2>5, <2>6, <2>7, <3>1, QuietBook, ZenonT(30)
    <3> QED
      BY <2>7, <3>2, ZenonT(30) DEF Change
  <2>8. CASE ~(elements' = elements /\ numBytes' = numBytes /\ queue' = queue /\ lastId' = lastId)
    <3>1. PICK e : e = [id |-> NextId, end |-> first + Len(blocks) - 1, bytes |-> Len(blocks)]
      BY Zenon
    <3>2. /\ ~dirty /\ Len(queue) /= SlotCount /\ Dispatch(first, blocks, "pull", TRUE)
          /\ elements' = Append(elements, e) /\ numBytes' = numBytes + Len(blocks)
      BY <2>2, <2>8, <3>1, Zenon DEF add, unprocessed, dispatcher
    <3>3. QueueInv
      BY ZenonT(30) DEF Book
    <3>4. /\ QueueInv' /\ Len(queue) \in Nat /\ Len(queue') = Len(queue) + 1
          /\ queue'[Len(queue) + 1] = [id |-> NextId, first |-> first, blocks |-> blocks, source |-> "pull",
                                       callback |-> TRUE, status |-> "Normal"]
          /\ \A i \in 1..Len(queue) : queue'[i] = queue[i]
      BY <1>4, <2>5, <3>2, <3>3, DispatchQueue, ZenonT(30)
    <3>5. e = Element(queue'[Len(queue) + 1]) /\ queue'[Len(queue) + 1].callback = TRUE
      BY <3>1, <3>4 DEF Element
    <3>6. ElementsInv'
      BY <3>2, <3>4, <3>5, AddedElement, ZenonT(30) DEF Book
    <3>7. ConInv'
      <4>1. con.pc /= "idle" => consumed < Len(queue)
        BY <1>6, Zenon DEF ConInv
      <4>2. PICK n \in Nat, c \in Nat : n = Len(queue) /\ c = consumed
        BY <3>3, <3>4 DEF QueueInv
      <4>3. con.pc /= "idle" => c < n + 1
        BY <4>1, <4>2
      <4> QED
        BY <1>3, <1>6, <2>5, <3>4, <4>2, <4>3, ZenonT(30) DEF ConInv
    <3>8. Book'
      BY <1>5, <2>6, <3>4, <3>6, <3>7, ZenonT(30) DEF Book
    <3>9. e.bytes \in Nat /\ numBytes' = numBytes + e.bytes /\ ~syn.orphan
      BY <1>3, <1>4, <1>6, <3>1, <3>2, ZenonT(30) DEF OrphanInv
    <3> QED
      BY <3>2, <3>8, <3>9, ZenonT(30) DEF Change
  <2> QED
    BY <2>7, <2>8, ZenonT(30)
<1> QED
  BY <1>7, <1>8, ZenonT(30)

\* a consumer leaves a range behind
LEMMA LeaveBook ==
  ASSUME Book, NEW status, Leave(status), consumed < Len(queue), UNCHANGED <<unprocessed, syn, plan, env>>
  PROVE  Book'
<1>1. /\ elements' = elements /\ hasPendingSync' = hasPendingSync /\ dirty' = dirty
      /\ syn' = syn /\ plan' = plan /\ env' = env
  BY Zenon DEF unprocessed
<1>2. QueueInv
  BY Zenon DEF Book
<1>3. /\ QueueInv' /\ Len(queue') = Len(queue)
      /\ \A i \in 1..Len(queue) :
            queue'[i].callback = queue[i].callback /\ Element(queue'[i]) = Element(queue[i])
  BY <1>2, LeaveQueue, ZenonT(30)
<1>4. ElementsInv'
  BY <1>1, <1>3, SameElements, ZenonT(30) DEF Book
<1>5. ConInv'
  BY Zenon DEF Leave, NoPairs, ConInv
<1>6. SynInv' /\ OrphanInv'
  BY <1>1, Zenon DEF Book, SynInv, OrphanInv
<1>7. RemotesInv'
  BY <1>1, SameRemotes, ZenonT(30) DEF Book
<1> QED
  BY <1>3, <1>4, <1>5, <1>6, <1>7, ZenonT(30) DEF Book

LEMMA ConsumerBook ==
  ASSUME Book, CheckRange \/ Sync
  PROVE  Book'
<1>1. PICK status : Leave(status) /\ UNCHANGED <<unprocessed, syn, plan, env>>
  BY ZenonT(30) DEF CheckRange, Sync
<1>2. consumed < Len(queue)
  BY DEF CheckRange, Sync, Book, ConInv
<1> QED
  BY <1>1, <1>2, LeaveBook, ZenonT(30)

\* the callback of a range finds its element at the front
LEMMA CompleteBook ==
  ASSUME Book, Complete
  PROVE  Book' /\ Change
<1>1. PICK e : e = Head(queue)
  OBVIOUS
<1>2. /\ consumed > 0 /\ queue' = Tail(queue) /\ consumed' = consumed - 1 /\ lastId' = lastId
      /\ plan' = plan /\ env' = env
  BY DEF Complete
<1>3. QueueInv /\ ConInv /\ SynInv /\ OrphanInv /\ ElementsInv
  BY DEF Book
<1>4. /\ QueueInv' /\ Len(queue) \in Nat /\ Len(queue) > 0 /\ Len(queue') = Len(queue) - 1 /\ e = queue[1]
      /\ \A i \in 1..Len(queue) - 1 : queue'[i] = queue[i + 1]
  BY <1>1, <1>2, <1>3, CompleteQueue
<1>5. 1 \in 1..Len(queue) /\ e.callback \in BOOLEAN
  <2>1. 1 \in 1..Len(queue)
    BY <1>4
  <2> QED
    BY <1>3, <1>4, <2>1, ZenonT(30) DEF QueueInv, IsRange
<1>6. con' = con => ConInv'
  <2>1. PICK n \in Nat, c \in Nat : n = Len(queue) /\ c = consumed /\ n > 0 /\ c > 0
    BY <1>2, <1>3, <1>4 DEF QueueInv
  <2>2. con.pc /= "idle" => c - 1 < n - 1
    BY <1>3, <2>1 DEF ConInv
  <2> QED
    BY <1>2, <1>3, <1>4, <2>1, <2>2, ZenonT(30) DEF ConInv
<1>7. RemotesInv'
  BY <1>2, SameRemotes, ZenonT(30) DEF Book
<1>8. CASE e.callback = FALSE
  <2>1. /\ elements' = elements /\ numBytes' = numBytes /\ hasPendingSync' = hasPendingSync /\ dirty' = dirty
        /\ con' = con /\ syn' = syn
    BY <1>1, <1>8, ZenonT(30) DEF Complete, unprocessed
  <2>2. ElementsInv'
    BY <1>3, <1>4, <1>5, <1>8, <2>1, CompletedElement, ZenonT(30)
  <2>3. SynInv' /\ OrphanInv'
    BY <1>3, <2>1, ZenonT(30) DEF SynInv, OrphanInv
  <2>4. Book'
    BY <1>4, <1>6, <1>7, <2>1, <2>2, <2>3, ZenonT(30) DEF Book
  <2> QED
    BY <2>1, <2>4, ZenonT(30) DEF Change
<1>9. CASE e.callback = TRUE
  <2>1. PICK at : IsPlacing(at)
    BY <1>3, ZenonT(30) DEF ElementsInv
  <2>2. /\ elements /= <<>> /\ Len(elements) \in Nat /\ Len(elements) > 0
        /\ elements[1] = Element(e) /\ at[1] = 1
    BY <1>3, <1>4, <1>9, <2>1, FrontElement, Zenon
  <2>3. Head(elements) = elements[1] /\ elements[1].id = e.id
    BY <1>3, <2>2, Shortened DEF ElementsInv, Element
  <2>4. remove(e.id, e.status) /\ syn' = [syn EXCEPT !.orphan = @ \/ (syn.base = e.id /\ e.status = "Aborted")]
    BY <1>1, <1>9, ZenonT(30) DEF Complete
  <2>5. /\ elements' = Tail(elements) /\ numBytes' = numBytes - elements[1].bytes
        /\ dirty' = (hasPendingOperation(numBytes', hasPendingSync) /\ e.status /= "Normal")
        /\ hasPendingSync' = hasPendingSync /\ con' = con
    BY <2>2, <2>3, <2>4, ZenonT(30) DEF remove
  <2>6. ElementsInv'
    BY <1>3, <1>4, <1>5, <1>9, <2>5, CompletedElement, ZenonT(30)
  <2>7. /\ syn'.pc = syn.pc /\ syn'.peer = syn.peer /\ syn'.base = syn.base /\ syn'.blocks = syn.blocks
        /\ syn'.orphan = (syn.orphan \/ (syn.base = e.id /\ e.status = "Aborted"))
        /\ SynFields \subseteq DOMAIN syn'
    BY <1>3, <2>4, ZenonT(30) DEF SynInv, SynFields
  <2>8. e.id /= 0 /\ \A j \in 1..Len(queue) : queue[j].id = e.id => j = 1
    BY <1>3, <1>4, <1>5, IdsDistinct, ZenonT(30)
  <2>9. SynInv'
    <3>1. syn'.orphan \in BOOLEAN
      BY <2>7, Zenon
    <3>2. syn'.pc \notin {"pull", "clear"} => syn'.base = 0 /\ syn'.orphan = FALSE
      BY <1>3, <2>7, <2>8, ZenonT(30) DEF SynInv
    <3> QED
      BY <1>3, <2>5, <2>7, <3>1, <3>2, ZenonT(30) DEF SynInv
  <2>10. ASSUME syn.pc = "pull"
         PROVE  /\ syn'.orphan => dirty' /\ elements' = <<>>
                /\ syn'.base /= 0 /\ elements' /= <<>> => elements'[Len(elements')].id = syn'.base
    <3>1. ~syn.orphan /\ hasPendingSync /\ (syn.base /= 0 => elements[Len(elements)].id = syn.base)
      BY <1>3, <2>2, <2>10, ZenonT(30) DEF OrphanInv, SynInv
    <3>2. PICK n \in Nat : n = Len(elements) /\ n > 0
      BY <2>2, Zenon
    <3>3. /\ IsSeq(elements') /\ Len(elements') = n - 1
          /\ \A i \in 1..n - 1 : elements'[i] = elements[i + 1]
      BY <1>3, <2>2, <2>5, <3>2, Shortened, ZenonT(30) DEF ElementsInv
    <3>4. ASSUME syn'.orphan
          PROVE  dirty' /\ elements' = <<>>
      <4>1. syn.base = e.id /\ e.status = "Aborted"
        BY <2>7, <3>1, <3>4, Zenon
      <4>2. dirty'
        BY <2>5, <3>1, <4>1, Zenon DEF hasPendingOperation
      <4>3. n \in 1..n /\ 1 \in 1..n
        BY <3>2
      <4>4. at[n] \in Own /\ elements[n] = Element(queue[at[n]])
        BY <2>1, <3>2, <4>3, ZenonT(30) DEF IsPlacing
      <4>5. at[n] \in 1..Len(queue) /\ queue[at[n]].id = e.id
        BY <2>8, <3>1, <3>2, <4>1, <4>4 DEF Own, Element
      <4>6. at[n] = 1
        BY <2>8, <4>5, ZenonT(30)
      <4>7. n = 1
        <5>1. \A i, j \in 1..n : i < j => at[i] < at[j]
          BY <2>1, <3>2, ZenonT(30) DEF IsPlacing
        <5>2. 1 < n => at[1] < at[n]
          BY <4>3, <5>1, ZenonT(30)
        <5> QED
          BY <2>2, <3>2, <4>6, <5>2
      <4>8. Len(elements') = 0
        BY <3>3, <4>7
      <4>9. elements' = <<>>
        BY <3>3, <4>8 DEF IsSeq
      <4> QED
        BY <4>2, <4>9, ZenonT(30)
    <3>5. ASSUME syn'.base /= 0, elements' /= <<>>
          PROVE  elements'[Len(elements')].id = syn'.base
      <4>1. n - 1 /= 0
        BY <3>3, <3>5 DEF IsSeq
      <4>2. n - 1 \in 1..n - 1 /\ (n - 1) + 1 = n
        BY <3>2, <4>1
      <4>3. elements'[n - 1] = elements[n]
        BY <3>3, <4>2, ZenonT(30)
      <4> QED
        BY <2>7, <3>1, <3>2, <3>3, <3>5, <4>3, ZenonT(30)
    <3> QED
      BY <3>4, <3>5, ZenonT(30)
  <2>11. OrphanInv'
    BY <2>7, <2>10, ZenonT(30) DEF OrphanInv
  <2>12. Book'
    BY <1>4, <1>6, <1>7, <2>5, <2>6, <2>9, <2>11, ZenonT(30) DEF Book
  <2> QED
    BY <2>2, <2>5, <2>12, ZenonT(30) DEF Change
<1> QED
  BY <1>5, <1>8, <1>9, ZenonT(30)

\* another source hands a range to the dispatcher
LEMMA PushRangeBook ==
  ASSUME IInv, Book, PushRange
  PROVE  Book'
<1>1. /\ elements' = elements /\ hasPendingSync' = hasPendingSync /\ dirty' = dirty /\ syn' = syn
      /\ consumed' = consumed /\ con' = con /\ plan' = plan
  BY DEF PushRange, unprocessed
<1>2. env'.adopted = env.adopted
  BY Zenon DEF PushRange, IInv, EnvShape
<1>3. RemotesInv'
  BY <1>1, <1>2, ZenonT(30) DEF Book, RemotesInv
<1>4. SynInv' /\ OrphanInv'
  BY <1>1, Zenon DEF Book, SynInv, OrphanInv
<1>5. CASE queue' = queue /\ lastId' = lastId
  <2>1. ConInv'
    BY <1>1, <1>5, ZenonT(30) DEF Book, ConInv
  <2> QED
    BY <1>1, <1>3, <1>4, <1>5, <2>1, QuietBook, ZenonT(30)
<1>6. CASE ~(queue' = queue /\ lastId' = lastId)
  <2>1. PICK first, blocks, source : Len(queue) /= SlotCount /\ Dispatch(first, blocks, source, FALSE)
    BY <1>6, Zenon DEF PushRange
  <2>2. QueueInv /\ ConInv
    BY DEF Book
  <2>3. /\ QueueInv' /\ Len(queue) \in Nat /\ Len(queue') = Len(queue) + 1
        /\ queue'[Len(queue) + 1] = [id |-> NextId, first |-> first, blocks |-> blocks, source |-> source,
                                     callback |-> FALSE, status |-> "Normal"]
        /\ \A i \in 1..Len(queue) : queue'[i] = queue[i]
    BY <1>1, <2>1, <2>2, DispatchQueue, ZenonT(30)
  <2>4. queue'[Len(queue) + 1].callback = FALSE
    BY <2>3
  <2>5. ElementsInv'
    BY <1>1, <2>3, <2>4, PushedElement, ZenonT(30) DEF Book
  <2>6. ConInv'
    <3>1. PICK n \in Nat, c \in Nat : n = Len(queue) /\ c = consumed
      BY <2>2, <2>3 DEF QueueInv
    <3>2. con.pc /= "idle" => c < n + 1
      BY <2>2, <3>1 DEF ConInv
    <3> QED
      BY <1>1, <2>2, <2>3, <3>1, <3>2, ZenonT(30) DEF ConInv
  <2> QED
    BY <1>3, <1>4, <2>3, <2>5, <2>6, ZenonT(30) DEF Book
<1> QED
  BY <1>5, <1>6, ZenonT(30)

LEMMA QuietChange ==
  ASSUME UNCHANGED unprocessed
  PROVE  Change
BY Zenon DEF unprocessed, Change

LEMMA NextBook ==
  ASSUME IInv, Book, [Next]_vars
  PROVE  Book' /\ Change
<1>1. ASSUME NEW p \in Peers, StartSync(p) \/ PeerAdopts(p)
      PROVE  Book' /\ Change
  <2>1. Book'
    BY <1>1, StartSyncBook, PeerAdoptsBook, ZenonT(30)
  <2>2. Change
    BY <1>1, Zenon DEF StartSync, PeerAdopts, unprocessed, Change
  <2> QED
    BY <2>1, <2>2, ZenonT(30)
<1>2. CASE CheckEmpty \/ CompareChainStatistics \/ CompareHashes \/ CompareLocalScore
  <2>1. syncOnly
    BY <1>2, Zenon DEF CheckEmpty, CompareChainStatistics, CompareHashes, CompareLocalScore
  <2> QED
    BY <1>2, <2>1, ComparisonBook, QuietChange, ZenonT(30) DEF syncOnly
<1>3. CASE BypassComparison
  BY <1>3, BypassBook, QuietChange, ZenonT(30) DEF BypassComparison, syncOnly
<1>4. CASE ChainBlocksFrom
  BY <1>4, ChainBlocksFromBook, ZenonT(30)
<1>5. CASE ClearPendingSync
  <2>1. Change
    BY <1>5, Zenon DEF ClearPendingSync, clearPendingSync, Change
  <2> QED
    BY <1>5, <2>1, ClearPendingSyncBook, ZenonT(30)
<1>6. CASE RemoteFails
  BY <1>6, RemoteFailsBook, QuietChange, ZenonT(30) DEF RemoteFails, IInv
<1>7. CASE CheckRange \/ Sync
  <2>1. UNCHANGED unprocessed
    BY <1>7, Zenon DEF CheckRange, Sync
  <2> QED
    BY <1>7, <2>1, ConsumerBook, QuietChange, ZenonT(30)
<1>8. CASE ReadLocalFinalized \/ ReadNetworkFinalized \/ StoreProof
  <2>1. UNCHANGED unprocessed
    BY <1>8, Zenon DEF ReadLocalFinalized, ReadNetworkFinalized, StoreProof
  <2> QED
    BY <1>8, <2>1, ReadBook, QuietChange, ZenonT(30)
<1>9. CASE Complete
  BY <1>9, CompleteBook, ZenonT(30)
<1>10. CASE PushRange
  BY <1>10, PushRangeBook, QuietChange, Zenon DEF PushRange
<1>11. CASE UNCHANGED vars
  <2>1. /\ elements' = elements /\ numBytes' = numBytes /\ queue' = queue /\ consumed' = consumed /\ lastId' = lastId
        /\ con' = con /\ hasPendingSync' = hasPendingSync /\ dirty' = dirty /\ syn' = syn /\ plan' = plan /\ env' = env
    BY <1>11, Zenon DEF vars
  <2>2. RemotesInv'
    BY <2>1, SameRemotes, ZenonT(30) DEF Book
  <2>3. SynInv' /\ ConInv' /\ OrphanInv'
    BY <2>1, Zenon DEF Book, SynInv, ConInv, OrphanInv
  <2>4. Book'
    BY <2>1, <2>2, <2>3, QuietBook, ZenonT(30)
  <2> QED
    BY <2>1, <2>4 DEF Change
<1> QED
  BY <1>1, <1>2, <1>3, <1>4, <1>5, <1>6, <1>7, <1>8, <1>9, <1>10, <1>11, ZenonT(30) DEF Next, SyncStep, ConsumerStep

\* the elements are ranges that were counted
LEMMA ElementBytes ==
  ASSUME Book
  PROVE  Len(elements) \in Nat /\ \A i \in 1..Len(elements) : elements[i].bytes \in Nat
<1>1. PICK at : IsPlacing(at)
  BY Zenon DEF Book, ElementsInv
<1>2. \A k \in Own : k \in 1..Len(queue) /\ IsRange(queue[k]) /\ queue[k].callback
  BY Zenon DEF Book, QueueInv, Own
<1>3. \A k \in Own : Element(queue[k]).bytes \in Nat
  BY <1>2, Zenon DEF Element, IsRange
<1>4. \A i \in 1..Len(elements) : at[i] \in Own /\ elements[i] = Element(queue[at[i]])
  BY <1>1, ZenonT(30) DEF IsPlacing
<1> QED
  BY <1>3, <1>4 DEF Book, ElementsInv, IsSeq

\* the sum that UnprocessedExact speaks of, spelled out
FirstOf(s) == CHOOSE x \in s : TRUE
Summed(f, S) ==
  LET iter[s \in SUBSET S] == IF s = {} THEN 0 ELSE f[FirstOf(s)] + iter[s \ {FirstOf(s)}] IN iter[S]

Sizes(s) == [i \in 1..Len(s) |-> s[i].bytes]

BytesInv == numBytes = Summed(Sizes(elements), 1..Len(elements))

LEMMA ExactSpelledOut ==
  ASSUME Book, BytesInv
  PROVE  UnprocessedExact
<1>1. ASSUME NEW f, NEW S
      PROVE  SumFunctionOnSet(f, S) = Summed(f, S)
  BY DEF SumFunctionOnSet, FoldFunctionOnSet, MapThenFoldSet, Summed, FirstOf
<1>2. PICK at : IsPlacing(at)
  BY DEF Book, ElementsInv
<1>3. con.pc /= "thrown"
  BY DEF Book, ConInv
<1>4. numBytes = SumFunctionOnSet([i \in 1..Len(elements) |-> elements[i].bytes], 1..Len(elements))
  BY <1>1 DEF BytesInv, Sizes
<1> QED
  BY <1>2, <1>3, <1>4, Zenon DEF UnprocessedExact, IsPlacing, Own

\* No range is added after the one it continues was aborted: m_dirty, set by the
\* callback (remove), keeps it out until the pull is over.
THEOREM OrphansKeptOut == Spec => NoOrphanRange
<1>1. IInv /\ Book /\ [Next]_vars => Book' /\ [Len(elements') > Len(elements) => ~syn.orphan]_vars
  <2> SUFFICES ASSUME IInv, Book, [Next]_vars
               PROVE  Book' /\ (Len(elements') > Len(elements) => ~syn.orphan)
    OBVIOUS
  <2>1. Book' /\ Change
    BY NextBook, Zenon
  <2>2. PICK n \in Nat : n = Len(elements)
    BY ElementBytes, Zenon
  <2>3. CASE elements' = elements
    BY <2>1, <2>2, <2>3
  <2>4. CASE elements /= <<>> /\ elements' = Tail(elements)
    <3>1. Len(elements') = n - 1
      BY <2>2, <2>4, Shortened, ZenonT(30) DEF Book, ElementsInv
    <3> QED
      BY <2>1, <2>2, <3>1
  <2> QED
    BY <2>1, <2>3, <2>4, ZenonT(30) DEF Change
<1> QED
  BY <1>1, InitIInv, NextIInv, InitBook, PTL DEF Spec, NoOrphanRange

-----------------------------------------------------------------------------
(* The bytes in flight, from facts about sums.                               *)
LOCAL INSTANCE Sums

LEMMA SummedIsSum ==
  ASSUME NEW f, NEW S
  PROVE  SumFunctionOnSet(f, S) = Summed(f, S)
BY ZenonT(30) DEF SumFunctionOnSet, FoldFunctionOnSet, MapThenFoldSet, Summed, FirstOf

\* a range is added at the end
LEMMA SummedAppend ==
  ASSUME NEW s, IsSeq(s), NEW e, e.bytes \in Nat, \A i \in 1..Len(s) : s[i].bytes \in Nat,
         NEW t, t = Append(s, e)
  PROVE  Summed(Sizes(t), 1..Len(t)) = Summed(Sizes(s), 1..Len(s)) + e.bytes
<1>1. /\ IsSeq(t) /\ Len(s) \in Nat /\ Len(t) = Len(s) + 1
      /\ t[Len(s) + 1] = e /\ \A i \in 1..Len(s) : t[i] = s[i]
  BY Appended, ZenonT(30)
<1>2. PICK n \in Nat : n = Len(s)
  BY <1>1, Zenon
<1>3. PICK f : f = Sizes(s)
  BY Zenon
<1>4. PICK g : g = Sizes(t)
  BY Zenon
<1>5. \A i \in 1..n : f[i] = s[i].bytes /\ f[i] \in Nat
  BY <1>2, <1>3, ZenonT(30) DEF Sizes
<1>6. \A i \in 1..n + 1 : g[i] = t[i].bytes
  BY <1>1, <1>2, <1>4, ZenonT(30) DEF Sizes
<1>7. g[n + 1] = e.bytes /\ \A i \in 1..n : i \in 1..n + 1 /\ g[i] = f[i]
  BY <1>1, <1>2, <1>5, <1>6, SMTT(30)
<1>8. \A i \in 1..n + 1 : g[i] \in Nat
  <2>1. \A i \in 1..n + 1 : i \in 1..n \/ i = n + 1
    BY SMTT(30)
  <2> QED
    BY <1>5, <1>7, <2>1, ZenonT(30)
<1>9. /\ SumFunctionOnSet(g, 1..n + 1) = g[n + 1] + SumFunctionOnSet(g, 1..(n + 1) - 1)
  <2>1. 1 \in Int /\ n + 1 \in Int /\ 1 <= n + 1
    OBVIOUS
  <2> QED
    BY <1>8, <2>1, SumInterval, SMTT(30)
<1>10. SumFunctionOnSet(g, 1..n) = SumFunctionOnSet(f, 1..n) /\ SumFunctionOnSet(f, 1..n) \in Nat
  <2>1. 1 \in Int /\ n \in Int
    OBVIOUS
  <2>2. SumFunctionOnSet(g, 1..n) = SumFunctionOnSet(f, 1..n)
    <3>1. \A i \in 1..n : g[i] = f[i]
      BY <1>7, Zenon
    <3>2. ASSUME NEW a \in Int, NEW b \in Int, \A i \in a..b : g[i] = f[i]
          PROVE  SumFunctionOnSet(g, a..b) = SumFunctionOnSet(f, a..b)
      BY ONLY <3>2, SumAgreesOnInterval, SMTT(30)
    <3> QED
      BY <2>1, <3>1, <3>2, ZenonT(30)
  <2>3. SumFunctionOnSet(f, 1..n) \in Nat
    BY <1>5, <2>1, SumInterval, ZenonT(30)
  <2> QED
    BY <2>2, <2>3, ZenonT(30)
<1>11. (n + 1) - 1 = n
  BY SMTT(30)
<1>12. SumFunctionOnSet(g, 1..n + 1) = SumFunctionOnSet(f, 1..n) + e.bytes
  BY <1>7, <1>9, <1>10, <1>11, SMTT(30)
<1> QED
  BY <1>1, <1>2, <1>3, <1>4, <1>12, SummedIsSum, ZenonT(30)

\* the first range is removed
LEMMA SummedTail ==
  ASSUME NEW s, IsSeq(s), s /= <<>>, \A i \in 1..Len(s) : s[i].bytes \in Nat, NEW t, t = Tail(s)
  PROVE  Summed(Sizes(t), 1..Len(t)) = Summed(Sizes(s), 1..Len(s)) - s[1].bytes
<1>1. /\ IsSeq(t) /\ Len(s) \in Nat /\ Len(s) > 0 /\ Len(t) = Len(s) - 1
      /\ \A i \in 1..Len(s) - 1 : t[i] = s[i + 1]
  BY Shortened, ZenonT(30)
<1>2. PICK n \in Nat : n + 1 = Len(s) /\ Len(t) = n
  <2>1. Len(s) - 1 \in Nat /\ (Len(s) - 1) + 1 = Len(s)
    BY <1>1
  <2> QED
    BY <1>1, <2>1, ZenonT(30)
<1>3. PICK f : f = Sizes(s)
  BY ZenonT(30)
<1>4. PICK g : g = Sizes(t)
  BY Zenon
<1>5. \A i \in 1..n + 1 : f[i] = s[i].bytes /\ f[i] \in Nat
  BY <1>2, <1>3, ZenonT(30) DEF Sizes
<1>6. ASSUME NEW i \in 1..n
      PROVE  f[i + 1] \in Nat /\ g[i] = f[i + 1]
  <2>1. i + 1 \in 1..n + 1 /\ i \in 1..Len(s) - 1
    BY <1>2
  <2>2. g[i] = t[i].bytes /\ t[i] = s[i + 1]
    BY <1>1, <1>2, <1>4, <2>1, ZenonT(30) DEF Sizes
  <2> QED
    BY <1>5, <2>1, <2>2, ZenonT(30)
<1>7. SumFunctionOnSet(g, 1..n) = SumFunctionOnSet(f, 2..n + 1)
  BY <1>6, SumShifts, ZenonT(30)
<1>8. SumFunctionOnSet(f, 1..n + 1) = f[1] + SumFunctionOnSet(f, 1 + 1..n + 1)
  <2>1. 1 \in Int /\ n + 1 \in Int /\ 1 <= n + 1
    OBVIOUS
  <2> QED
    BY <1>5, <2>1, SumInterval, SMTT(30)
<1>9. SumFunctionOnSet(f, 2..n + 1) \in Nat
  <2>1. 2 \in Int /\ n + 1 \in Int /\ \A i \in 2..n + 1 : f[i] \in Nat
    BY <1>5, SMTT(30)
  <2> QED
    BY <2>1, SumInterval, ZenonT(30)
<1>10. f[1] = s[1].bytes /\ f[1] \in Nat /\ 1 + 1 = 2
  BY <1>5, SMTT(30)
<1>11. SumFunctionOnSet(g, 1..n) = SumFunctionOnSet(f, 1..n + 1) - s[1].bytes
  BY <1>7, <1>8, <1>9, <1>10, SMTT(30)
<1> QED
  BY <1>2, <1>3, <1>4, <1>11, SummedIsSum, ZenonT(30)

LEMMA InitBytes == Init => BytesInv
<1> SUFFICES ASSUME Init PROVE BytesInv
  OBVIOUS
<1>1. elements = <<>> /\ numBytes = 0
  BY Zenon DEF Init
<1>2. PICK f : f = Sizes(elements)
  BY Zenon
<1>3. SumFunctionOnSet(f, 1..0) = 0
  <2>1. 1 \in Int /\ 0 \in Int /\ 1 > 0 /\ \A i \in 1..0 : f[i] \in Nat
    OBVIOUS
  <2> QED
    BY <2>1, SumInterval, SMTT(30)
<1>4. Summed(f, 1..0) = 0
  BY <1>3, SummedIsSum, ZenonT(30)
<1>5. Len(elements) = 0
  BY <1>1, ZenonT(30)
<1> QED
  BY <1>1, <1>2, <1>4, <1>5, ZenonT(30) DEF BytesInv

LEMMA NextBytes ==
  ASSUME Book, BytesInv, Change
  PROVE  BytesInv'
<1>1. IsSeq(elements) /\ \A i \in 1..Len(elements) : elements[i].bytes \in Nat
  BY ElementBytes, ZenonT(30) DEF Book, ElementsInv
<1>2. CASE elements' = elements /\ numBytes' = numBytes
  BY <1>2 DEF BytesInv, Sizes, Summed
<1>3. CASE \E e : elements' = Append(elements, e) /\ e.bytes \in Nat /\ numBytes' = numBytes + e.bytes
  <2>1. PICK e : elements' = Append(elements, e) /\ e.bytes \in Nat /\ numBytes' = numBytes + e.bytes
    BY <1>3, ZenonT(30)
  <2>2. PICK t : t = elements'
    BY ZenonT(30)
  <2>3. Summed(Sizes(t), 1..Len(t)) = Summed(Sizes(elements), 1..Len(elements)) + e.bytes
    BY <1>1, <2>1, <2>2, SummedAppend, ZenonT(30)
  <2>4. numBytes' = Summed(Sizes(t), 1..Len(t))
    BY <2>1, <2>3, ZenonT(30) DEF BytesInv
  <2> QED
    BY <2>2, <2>4, Zenon DEF BytesInv
<1>4. CASE elements /= <<>> /\ elements' = Tail(elements) /\ numBytes' = numBytes - elements[1].bytes
  <2>1. PICK t : t = elements'
    OBVIOUS
  <2>2. Summed(Sizes(t), 1..Len(t)) = Summed(Sizes(elements), 1..Len(elements)) - elements[1].bytes
    BY <1>1, <1>4, <2>1, SummedTail, ZenonT(30)
  <2>3. numBytes' = Summed(Sizes(t), 1..Len(t))
    BY <1>4, <2>2, ZenonT(30) DEF BytesInv
  <2> QED
    BY <2>1, <2>3, Zenon DEF BytesInv
<1> QED
  BY <1>2, <1>3, <1>4, ZenonT(30) DEF Change

\* UnprocessedElements is exact: between any two steps it holds the synchronizer's
\* ranges that the dispatcher has not completed, in order, and their bytes, so that
\* a completion callback always finds its element at the front and never throws.
THEOREM UnprocessedIsExact == Spec => []UnprocessedExact
<1>1. IInv /\ Book /\ BytesInv /\ [Next]_vars => Book' /\ BytesInv'
  BY NextBook, NextBytes, ZenonT(30)
<1>2. Book /\ BytesInv => UnprocessedExact
  BY ExactSpelledOut, Zenon
<1> QED
  BY <1>1, <1>2, InitIInv, NextIInv, InitBook, InitBytes, PTL DEF Spec
=============================================================================
