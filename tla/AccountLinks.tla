----------------------------- MODULE AccountLinks -----------------------------
(* Keys linked to an account: the remote account that harvests for a main     *)
(* account (plugin account_link), the node and VRF keys, of which an account  *)
(* has at most one each, and the voting keys, of which it has several for     *)
(* disjoint ranges of epochs (keylink, core system plugin).                   *)
EXTENDS AccountStates

CONSTANTS
    MaxVotingKeysPerAccount,
    MinVotingKeyLifetime, MaxVotingKeyLifetime   \* in epochs

(* ---- what the transactions publish ---- *)

(* NewRemoteAccount comes before AccountPublicKey, which adds the account.    *)
PublishAccountKeyLink(tx) ==
    (IF tx.LinkAction = "Link"
     THEN <<[type |-> "NewRemoteAccount", LinkedPublicKey |-> tx.LinkedPublicKey],
            AccountPublicKey(tx.LinkedPublicKey)>>
     ELSE <<>>)
    \o <<AddressInteraction(tx, {tx.LinkedPublicKey}),
         [type |-> "RemoteAccountKeyLink", MainAccountPublicKey |-> tx.Signer,
          LinkedPublicKey |-> tx.LinkedPublicKey, LinkAction |-> tx.LinkAction]>>

(* Node, VRF and voting key links publish one notification each; Accessor is  *)
(* the field of the account.                                                  *)
PublishKeyLink(tx) ==
    <<[type |-> IF tx.Accessor = "voting" THEN "VotingKeyLink" ELSE "KeyLink",
       MainAccountPublicKey |-> tx.Signer, Accessor |-> tx.Accessor,
       LinkedPublicKey |-> tx.LinkedPublicKey, LinkAction |-> tx.LinkAction]>>

(* ---- validators ---- *)

IsRemote(s, address) ==
    HasAccount(s, address) /\ s.accounts[address].AccountType \in {"Remote", "Remote_Unlinked"}

AccountKeyLinkValidator(s, n) ==
    LET main == s.accounts[n.MainAccountPublicKey]
    IN  IF n.LinkAction = "Link" THEN main.AccountType = "Unlinked"
        ELSE main.AccountType = "Main" /\ main.linked = n.LinkedPublicKey

(* The remote account is looked up by its public key: an account that is      *)
(* known by its address only passes as new.                                   *)
NewRemoteAccountAvailabilityValidator(s, n) ==
    HasKey(s, n.LinkedPublicKey) => s.accounts[n.LinkedPublicKey].AccountType = "Remote_Unlinked"

RemoteInteractionValidator(s, n) ==
    \/ n.TransactionType = "AccountKeyLink"
    \/ \A address \in n.ParticipantsByAddress : ~IsRemote(s, ResolveAddress(s, address))

RemoteSenderValidator(s, n) == ~IsRemote(s, n.Sender)

KeyLinkValidator(s, n) ==
    LET key == s.accounts[n.MainAccountPublicKey][n.Accessor]
    IN  IF n.LinkAction = "Link" THEN key = NoKey ELSE key = n.LinkedPublicKey

VotingKeyLinkRangeValidator(n) ==
    LET key == n.LinkedPublicKey
    IN  /\ key.StartEpoch # 0
        /\ key.EndEpoch >= key.StartEpoch
        /\ key.EndEpoch - key.StartEpoch + 1 \in MinVotingKeyLifetime .. MaxVotingKeyLifetime

upperBound(keys) == IF keys = <<>> THEN 0 ELSE Last(keys).EndEpoch

MultiKeyLinkValidator(s, n) ==
    LET keys == s.accounts[n.MainAccountPublicKey].voting
    IN  IF n.LinkAction = "Link"
        THEN Len(keys) # MaxVotingKeysPerAccount /\ upperBound(keys) < n.LinkedPublicKey.StartEpoch
        ELSE n.LinkedPublicKey \in ToSet(keys)

(* ---- observers ---- *)

SetLink(account, key, accountType) == [account EXCEPT !.linked = key, !.AccountType = accountType]
ClearLink(account, accountType) == SetLink(account, NoKey, accountType)

(* Mutant: unlinking clears the main account only.                            *)
AccountKeyLinkObserverMainOnly(s, n, mode) ==
    LET main == n.MainAccountPublicKey
        remote == n.LinkedPublicKey
    IN  IF ~ShouldLink(n.LinkAction, mode)
        THEN [s EXCEPT !.accounts[main] = ClearLink(@, "Unlinked")]
        ELSE [s EXCEPT !.accounts[main] = SetLink(@, remote, "Main"),
                       !.accounts[remote] = SetLink(@, main, "Remote")]

(* Setting a key that is set throws.                                          *)
AccountKeyLinkObserver(s, n, mode) ==
    LET main == n.MainAccountPublicKey
        remote == n.LinkedPublicKey
    IN  CASE ~(HasKey(s, main) /\ HasKey(s, remote)) -> Throw(s)
          [] HasKey(s, main) /\ HasKey(s, remote) /\ ~ShouldLink(n.LinkAction, mode) ->
               [s EXCEPT !.accounts[main] = ClearLink(@, "Unlinked"),
                         !.accounts[remote] = ClearLink(@, "Remote_Unlinked")]
          [] OTHER ->
               IF s.accounts[main].linked # NoKey \/ s.accounts[remote].linked # NoKey THEN Throw(s)
               ELSE [s EXCEPT !.accounts[main] = SetLink(@, remote, "Main"),
                              !.accounts[remote] = SetLink(@, main, "Remote")]

KeyLinkObserver(s, n, mode) ==
    LET account == n.MainAccountPublicKey
    IN  CASE ~HasKey(s, account) -> Throw(s)
          [] HasKey(s, account) /\ ~ShouldLink(n.LinkAction, mode) ->
               [s EXCEPT !.accounts[account][n.Accessor] = NoKey]
          [] OTHER -> IF s.accounts[account][n.Accessor] # NoKey THEN Throw(s)
                      ELSE [s EXCEPT !.accounts[account][n.Accessor] = n.LinkedPublicKey]

(* The keys are kept in the order of their epochs and never overlap.          *)
AnyOverlap(keys, key) ==
    \E i \in DOMAIN keys :
        keys[i].StartEpoch <= key.EndEpoch /\ key.StartEpoch <= keys[i].EndEpoch

AddVotingKey(keys, key) ==
    LET Earlier(k) == k.StartEpoch <= key.EndEpoch
    IN  SelectSeq(keys, Earlier) \o <<key>> \o SelectSeq(keys, LAMBDA k : ~Earlier(k))

MultiKeyLinkObserver(s, n, mode) ==
    LET account == n.MainAccountPublicKey
        key == n.LinkedPublicKey
    IN  CASE ~HasKey(s, account) -> Throw(s)
          [] HasKey(s, account) /\ ~ShouldLink(n.LinkAction, mode) ->
               [s EXCEPT !.accounts[account].voting = SelectSeq(@, LAMBDA k : k # key)]
          [] OTHER -> IF AnyOverlap(s.accounts[account].voting, key) THEN Throw(s)
                      ELSE [s EXCEPT !.accounts[account].voting = AddVotingKey(@, key)]
=============================================================================
