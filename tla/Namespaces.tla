----------------------------- MODULE Namespaces -----------------------------
(* The namespace plugin: root namespaces with a lifetime and an owner, their  *)
(* children, aliases, and the history of a root that is renewed or that       *)
(* changes hands (NamespaceCacheDelta, RootNamespace, RootNamespaceHistory,   *)
(* the observers, the validators and the alias resolvers).                    *)
(*                                                                            *)
(* A state s holds the sub cache in s.namespaces, a record of                 *)
(*   historyById   : root id -> sequence of [owner, Start, End, alias,        *)
(*                   children], oldest first; children: id -> [Path, Alias]   *)
(*   namespaceById : id -> path, the flat map of the namespaces in force      *)
(*   groups        : expiry height -> set of root ids                         *)
(*   activeSize, deepSize : the counters saved with the cache.                *)
(* s.thrown records that an operation has thrown.                             *)
EXTENDS IdentifierGroups, SequencesExt, FiniteSetsExt

CONSTANTS
    NamespaceIds,           \* the ids of namespaces; as an address or a mosaic, an alias
    MaxNamespaceDuration,   \* the longest duration of one registration
    GracePeriodDuration,    \* blocks for which an expired root can still be renewed
    MaxNamespaceDepth,      \* length of the longest path
    MaxChildNamespaces      \* children one root may have

Throw(s) == [s EXCEPT !.thrown = TRUE]

NoAlias == [type |-> "None", value |-> "none"]

EmptyNamespaceCache ==
    [historyById |-> EmptyMap, namespaceById |-> EmptyMap, groups |-> EmptyMap,
     activeSize |-> 0, deepSize |-> 0]

(* ---- RootNamespace, RootNamespaceHistory ---- *)

isActive(root, height) == root.Start <= height /\ height < root.End

isActiveExcludingGracePeriod(root, height) ==
    root.Start <= height /\ height < root.End - GracePeriodDuration

canExtend(root, previous) ==
    root.owner = previous.owner /\ isActive(previous, root.Start)

(* The roots at the end of a history that extend each other. They share one   *)
(* map of children: a child added to the last is a child of all of them.      *)
activeOwnerHistoryDepth(history) ==
    Max({n \in 0 .. Len(history) :
           \A i \in Len(history) - n + 1 .. Len(history) - 1 :
              canExtend(history[i + 1], history[i])})

SetActiveChildren(history, children) ==
    [i \in DOMAIN history |->
        IF i > Len(history) - activeOwnerHistoryDepth(history)
        THEN [history[i] EXCEPT !.children = children]
        ELSE history[i]]

push_back(history, owner, lifetime) ==
    LET new == [owner |-> owner, Start |-> lifetime.Start, End |-> lifetime.End,
                alias |-> NoAlias, children |-> EmptyMap]
    IN  IF history # <<>> /\ canExtend(new, Last(history))
        THEN Append(history, [new EXCEPT !.alias = Last(history).alias,
                                         !.children = Last(history).children])
        ELSE Append(history, new)

NumAllHistoricalChildren(history) ==
    FoldLeft(LAMBDA n, root : n + Cardinality(DOMAIN root.children), 0, history)

(* ---- NamespaceCacheDelta ---- *)

namespaces_contains(s, id) == id \in DOMAIN s.namespaces.namespaceById

rootId(s, id) == s.namespaces.namespaceById[id][1]

(* find(id).root(): the current root above a namespace that is in the map.    *)
root_(s, id) == Last(s.namespaces.historyById[rootId(s, id)])

alias_(s, id) ==
    IF rootId(s, id) = id THEN root_(s, id).alias ELSE root_(s, id).children[id].Alias

Without(map, keys) == Restrict(map, DOMAIN map \ keys)

PathsOf(children) == [id \in DOMAIN children |-> children[id].Path]

insertRoot(s, id, owner, lifetime) ==
    LET c == s.namespaces
        history == c.historyById[id]
        children == Last(history).children
        extends == canExtend([owner |-> owner, Start |-> lifetime.Start], Last(history))
        groups == AddIdentifierWithGroup(c.groups, lifetime.End, id)
    IN  [s EXCEPT !.namespaces =
           IF id \in DOMAIN c.historyById
           THEN [historyById   |-> [c.historyById EXCEPT ![id] = push_back(@, owner, lifetime)],
                 namespaceById |-> IF extends THEN c.namespaceById
                                   ELSE Without(c.namespaceById, DOMAIN children),
                 groups        |-> groups,
                 activeSize    |-> IF extends THEN c.activeSize
                                   ELSE c.activeSize - Cardinality(DOMAIN children),
                 deepSize      |-> 1 + IF extends THEN c.deepSize + Cardinality(DOMAIN children)
                                       ELSE c.deepSize]
           ELSE [historyById   |-> Insert(c.historyById, id, push_back(<<>>, owner, lifetime)),
                 namespaceById |-> Insert(c.namespaceById, id, <<id>>),
                 groups        |-> groups,
                 activeSize    |-> c.activeSize + 1,
                 deepSize      |-> c.deepSize + 1]]

(* RootNamespace.add refuses a duplicate; the parent is in the map and the    *)
(* path is the parent's path with the id appended (ChildNamespaceObserver).   *)
insertChild(s, id, path) ==
    LET c == s.namespaces
        history == c.historyById[path[1]]
        children == Last(history).children
    IN  IF id \in DOMAIN children
        THEN Throw(s)
        ELSE [s EXCEPT !.namespaces =
                [c EXCEPT !.historyById[path[1]] =
                              SetActiveChildren(@, Insert(children, id, [Path |-> path, Alias |-> NoAlias])),
                          !.namespaceById = Insert(@, id, path),
                          !.activeSize = @ + 1,
                          !.deepSize = @ + activeOwnerHistoryDepth(history)]]

setAlias(s, id, alias) ==
    LET c == s.namespaces
        root == rootId(s, id)
        history == c.historyById[root]
    IN  IF ~namespaces_contains(s, id)
        THEN Throw(s)
        ELSE [s EXCEPT !.namespaces.historyById[root] =
                IF root = id
                THEN [history EXCEPT ![Len(history)].alias = alias]
                ELSE SetActiveChildren(history, [Last(history).children EXCEPT ![id].Alias = alias])]

(* Mutant: the children of the previous owner do not return to the map.       *)
removeRootKeepingMap(s, id) ==
    LET c == s.namespaces
        removed == Last(c.historyById[id])
        history == Front(c.historyById[id])
    IN  [s EXCEPT !.namespaces =
           [c EXCEPT !.historyById = IF history = <<>> THEN Erase(@, id) ELSE [@ EXCEPT ![id] = history],
                     !.namespaceById = IF history = <<>> THEN Erase(@, id) ELSE @,
                     !.groups = RemoveIdentifierWithGroup(@, removed.End, id),
                     !.activeSize = IF history = <<>> THEN @ - 1 ELSE @,
                     !.deepSize = @ - (1 + Cardinality(DOMAIN removed.children))]]

removeRoot(s, id) ==
    LET c == s.namespaces
        removed == Last(c.historyById[id])
        history == Front(c.historyById[id])
        current == Last(history)
        numRemoved == Cardinality(DOMAIN removed.children)
        groups == RemoveIdentifierWithGroup(c.groups, removed.End, id)
    IN  CASE history = <<>> /\ removed.children # EmptyMap -> Throw(s)
          [] history = <<>> /\ removed.children = EmptyMap ->
               [s EXCEPT !.namespaces =
                  [historyById |-> Erase(c.historyById, id), namespaceById |-> Erase(c.namespaceById, id),
                   groups |-> groups, activeSize |-> c.activeSize - 1, deepSize |-> c.deepSize - 1]]
          [] OTHER ->
               [s EXCEPT !.namespaces =
                  [historyById   |-> [c.historyById EXCEPT ![id] = history],
                   namespaceById |-> IF canExtend(removed, current) THEN c.namespaceById
                                     ELSE PathsOf(current.children)
                                          @@ Without(c.namespaceById, DOMAIN removed.children),
                   groups        |-> groups,
                   activeSize    |-> IF canExtend(removed, current) THEN c.activeSize
                                     ELSE c.activeSize - numRemoved + Cardinality(DOMAIN current.children),
                   deepSize      |-> c.deepSize - (1 + numRemoved)]]

(* RootNamespace.remove refuses a child that has descendants.                 *)
removeChild(s, id) ==
    LET c == s.namespaces
        root == rootId(s, id)
        history == c.historyById[root]
        children == Last(history).children
        level == Len(children[id].Path)
    IN  IF \E other \in DOMAIN children :
             Len(children[other].Path) > level /\ children[other].Path[level] = id
        THEN Throw(s)
        ELSE [s EXCEPT !.namespaces =
                [c EXCEPT !.historyById[root] = SetActiveChildren(@, Erase(children, id)),
                          !.namespaceById = Erase(@, id),
                          !.activeSize = @ - 1,
                          !.deepSize = @ - activeOwnerHistoryDepth(history)]]

removeNamespace(s, id) ==
    CASE ~namespaces_contains(s, id) -> Throw(s)
      [] namespaces_contains(s, id) /\ rootId(s, id) = id -> removeRoot(s, id)
      [] namespaces_contains(s, id) /\ rootId(s, id) # id -> removeChild(s, id)

(* RootNamespaceHistory.prune: the roots that ended go, and with them the     *)
(* children that no later root has.                                           *)
PruneHistory(c, id, height) ==
    LET history == c.historyById[id]
        left == SelectSeq(history, LAMBDA root : root.End > height)
        childIds(i) == DOMAIN history[i].children
        removedIds == {child \in UNION {childIds(i) : i \in DOMAIN history} :
                         \E i \in DOMAIN history :
                           /\ history[i].End <= height /\ child \in childIds(i)
                           /\ \A j \in i + 1 .. Len(history) :
                                history[j].End > height => child \notin childIds(j)}
                      \cup (IF left = <<>> THEN {id} ELSE {})
        Active(h) == IF h = <<>> THEN 0 ELSE 1 + Cardinality(DOMAIN Last(h).children)
        Deep(h) == Len(h) + NumAllHistoricalChildren(h)
    IN  [c EXCEPT !.historyById = IF left = <<>> THEN Erase(@, id) ELSE [@ EXCEPT ![id] = left],
                  !.namespaceById = Without(@, removedIds),
                  !.activeSize = @ - (Active(history) - Active(left)),
                  !.deepSize = @ - (Deep(history) - Deep(left))]

(* NamespaceCacheDelta.prune; the group of the height stays in the index.     *)
PruneNamespaces(s, height) ==
    [s EXCEPT !.namespaces =
       FoldSet(LAMBDA id, c : PruneHistory(c, id, height), @,
               IdentifiersWithGroup(@.historyById, @.groups, height))]

(* ---- alias resolution (RegisterNamespaceAliasResolvers) ---- *)

(* What is not an alias resolves to itself, and so does an alias that no      *)
(* namespace in the map resolves: the validators then refuse the result. The  *)
(* lifetime of the namespace is not looked at.                                *)
Resolve(s, unresolved, aliasType) ==
    IF /\ unresolved \in NamespaceIds
       /\ namespaces_contains(s, unresolved)
       /\ alias_(s, unresolved).type = aliasType
    THEN alias_(s, unresolved).value
    ELSE unresolved

ResolveAddress(s, address) == Resolve(s, address, "Address")

ResolveMosaic(s, mosaicId) == Resolve(s, mosaicId, "Mosaic")

(* ---- validators ---- *)

RootNamespaceValidator(n) == 1 <= n.Duration /\ n.Duration <= MaxNamespaceDuration

RootNamespaceAvailabilityValidator(s, n, height) ==
    \/ ~namespaces_contains(s, n.NamespaceId)
    \/ ~isActive(root_(s, n.NamespaceId), height)
    \/ root_(s, n.NamespaceId).owner = n.Owner

NamespaceDurationOverflowValidator(s, n, height) ==
    \/ ~namespaces_contains(s, n.NamespaceId)
    \/ ~isActive(root_(s, n.NamespaceId), height)
    \/ root_(s, n.NamespaceId).End + n.Duration
         <= height + MaxNamespaceDuration + GracePeriodDuration

ChildNamespaceAvailabilityValidator(s, n, height) ==
    /\ ~namespaces_contains(s, n.NamespaceId)
    /\ namespaces_contains(s, n.ParentId)
    /\ Len(s.namespaces.namespaceById[n.ParentId]) # MaxNamespaceDepth
    /\ isActiveExcludingGracePeriod(root_(s, n.ParentId), height)
    /\ root_(s, n.ParentId).owner = n.Owner

RootNamespaceMaxChildrenValidator(s, n) ==
    Cardinality(DOMAIN root_(s, n.ParentId).children) < MaxChildNamespaces

RequiredNamespaceValidator(s, n, height) ==
    /\ namespaces_contains(s, n.NamespaceId)
    /\ isActiveExcludingGracePeriod(root_(s, n.NamespaceId), height)
    /\ root_(s, n.NamespaceId).owner = ResolveAddress(s, n.Owner)

AliasAvailabilityValidator(s, n) ==
    /\ namespaces_contains(s, n.NamespaceId)
    /\ (n.AliasAction = "Link") <=> (alias_(s, n.NamespaceId) = NoAlias)

UnlinkAliasedDataConsistencyValidator(s, n) ==
    n.AliasAction = "Unlink" =>
        namespaces_contains(s, n.NamespaceId) /\ alias_(s, n.NamespaceId) = n.AliasedData

(* ---- observers ---- *)

CalculateLifetime(s, n, height) ==
    IF /\ namespaces_contains(s, n.NamespaceId)
       /\ isActive(root_(s, n.NamespaceId), height)
       /\ root_(s, n.NamespaceId).owner = n.Owner
    THEN [Start |-> root_(s, n.NamespaceId).Start, End |-> root_(s, n.NamespaceId).End + n.Duration]
    ELSE [Start |-> height, End |-> height + n.Duration + GracePeriodDuration]

RootNamespaceObserver(s, n, height, mode) ==
    IF mode = "Rollback"
    THEN removeNamespace(s, n.NamespaceId)
    ELSE insertRoot(s, n.NamespaceId, n.Owner, CalculateLifetime(s, n, height))

ChildNamespaceObserver(s, n, mode) ==
    IF mode = "Rollback"
    THEN removeNamespace(s, n.NamespaceId)
    ELSE insertChild(s, n.NamespaceId,
                     Append(s.namespaces.namespaceById[n.ParentId], n.NamespaceId))

ShouldLink(action, mode) == (action = "Link") <=> (mode = "Commit")

AliasedDataObserver(s, n, mode) ==
    setAlias(s, n.NamespaceId, IF ShouldLink(n.AliasAction, mode) THEN n.AliasedData ELSE NoAlias)
=============================================================================
