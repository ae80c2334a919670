---- MODULE MCChainSync ----
EXTENDS ChainSync, TLC

Main == [i \in 1..5 |-> i]
Fork == <<1, 2, 13, 14, 15, 16>>
Tall == <<1>> \o [i \in 1..12 |-> 20 + i]
TallFork == SubSeq(Tall, 1, 4) \o [i \in 1..7 |-> 40 + i]

MCChains == {Main, Fork, Tall, TallFork}
MCWeight == [b \in 1..60 |-> IF b \in {13, 14, 41} THEN 2 ELSE 1]
Pull(first, c, last) == [first |-> first, blocks |-> SubSeq(c, first, last), source |-> "pull"]
Push(c, height) == [first |-> height, blocks |-> <<c[height]>>, source |-> "push"]
Proof(epoch, height, hash) == [epoch |-> epoch, pair |-> <<height, hash>>]

\* two blocks become final in one epoch, while a better fork without them is pulled
MCEpochPlans ==
  {[local |-> SubSeq(Main, 1, 3), remotes |-> ("p" :> <<SubSeq(Main, 1, 3)>> @@ "q" :> <<SubSeq(Fork, 1, 5)>>),
    proofs |-> <<Proof(2, 3, 3), Proof(2, 5, 5)>>, pushes |-> <<Push(Main, 4)>>, failures |-> 0]}

MCPlans == MCEpochPlans \cup
  {\* a block becomes final while a better fork without it is pulled; a failing answer
   [local |-> SubSeq(Main, 1, 4), remotes |-> ("p" :> <<Main>> @@ "q" :> <<Fork>>),
    proofs |-> <<Proof(2, 3, 3)>>, pushes |-> <<Push(Main, 5)>>, failures |-> 1],
   \* a block of another fork becomes final, and its blocks are patched in
   [local |-> SubSeq(Main, 1, 4), remotes |-> ("p" :> <<SubSeq(Main, 1, 4)>> @@ "q" :> <<SubSeq(Fork, 1, 4), Fork>>),
    proofs |-> <<Proof(2, 2, 2), Proof(3, 4, 14)>>, pushes |-> <<Pull(2, Fork, 4)>>, failures |-> 0],
   \* a deep fork, found by the binary search, while a block arrives and the peer changes its chain
   [local |-> SubSeq(Tall, 1, 10), remotes |-> ("p" :> <<SubSeq(Tall, 1, 11)>> @@ "q" :> <<TallFork, Tall>>),
    proofs |-> <<>>, pushes |-> <<Push(Tall, 11)>>, failures |-> 0]}
====
