-------------------------- MODULE MCCommitRecovery --------------------------
(* Instances of CommitRecovery for TLC: two cache databases.                *)
EXTENDS CommitRecovery

CONSTANTS AccountState, Mosaic

MCSubCaches == {AccountState, Mosaic}
=============================================================================
