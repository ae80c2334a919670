---- MODULE MCFinalizationNode ----
EXTENDS FinalizationNode

CONSTANTS self, p, q

MCVoters == {self, p, q}
MCWeight == [v \in MCVoters |-> 1]

\* two forks: block 2 and block 3 at height 2, and their descendants
Left == <<1, 2, 4, 6>>
Right == <<1, 3, 5, 7, 9>>
MCChains == {Left, Right}

Prevote(v, r, height, hashes) == Message(v, r, "prevote", height, hashes)
Precommit(v, r, height, hash) == Message(v, r, "precommit", height, <<hash>>)

\* a round in which the peers disagree
Disagreement == {
  Prevote(p, <<2, 1>>, 1, <<1, 2>>), Prevote(q, <<2, 1>>, 1, <<1, 3>>),
  Precommit(p, <<2, 1>>, 1, 1), Precommit(p, <<2, 1>>, 2, 2)}

\* the second round of the epoch, and the first of the next
Later == {
  Prevote(p, <<2, 2>>, 1, <<1, 2>>), Precommit(p, <<2, 2>>, 2, 2),
  Prevote(p, <<3, 1>>, 2, <<2, 4>>), Precommit(p, <<3, 1>>, 3, 4)}

\* a round that is finalized without this node
Agreement == {Prevote(p, <<2, 1>>, 1, <<1, 2>>), Prevote(q, <<2, 1>>, 1, <<1, 2>>),
  Precommit(p, <<2, 1>>, 2, 2), Precommit(q, <<2, 1>>, 2, 2)}

MCPlans == {
  [inbox |-> Disagreement \ {Precommit(p, <<2, 1>>, 1, 1)}, crashes |-> 1, chains |-> {Left, Right}, pulls |-> 0],
  [inbox |-> Disagreement \cup Later, crashes |-> 0, chains |-> {Left}, pulls |-> 0],
  [inbox |-> Agreement, crashes |-> 0, chains |-> {Right}, pulls |-> 1]}
====
