------------------------------- MODULE RadixLru -------------------------------
(***************************************************************************)
(* What a prefix cache promises: a radix tree over token blocks with       *)
(* least-recently-used, leaf-first eviction.  prefix_cache.rs (lines 3-17) *)
(* replaced such a tree by a flat map and says that the two are            *)
(* equivalent; PrefixCacheApi is shown to implement this specification.    *)
(***************************************************************************)
EXTENDS Integers, Sequences, FiniteSets

CONSTANTS
    Chains,     \* the paths from the root, one per prompt
    MaxClock,   \* bound on the number of touches
    Budgets     \* arguments of evict_to

VARIABLES
    access,     \* a function: its domain is the set of nodes of the tree
    clock

vars == <<access, clock>>

nodes == DOMAIN access

\* No node without its ancestors.
IsTree(N) ==
    \A c \in Chains : \A i \in DOMAIN c : c[i] \in N => \A j \in 1..i : c[j] \in N

\* The nodes met when walking down from the root along a chain.
Path(c) == {c[i] : i \in {k \in DOMAIN c : \A j \in 1..k : c[j] \in nodes}}

Stamped(N) ==
    /\ clock < MaxClock
    /\ clock' = clock + 1
    /\ access' = [h \in nodes \cup N |-> IF h \in N THEN clock + 1 ELSE access[h]]

Init == access = [h \in {} |-> 0] /\ clock = 0

InsertChain(c) == Stamped({c[i] : i \in DOMAIN c})

MatchChain(c) == Stamped(Path(c))

\* Keep as many nodes as the budget allows; what is left is a tree, so leaves
\* go first, and nothing evicted was used more recently than anything kept.
Evict(b) ==
    \E keep \in SUBSET nodes :
        /\ Cardinality(keep) = (IF Cardinality(nodes) > b THEN b ELSE Cardinality(nodes))
        /\ IsTree(keep)
        /\ \A h \in keep, g \in nodes \ keep : access[g] <= access[h]
        /\ access' = [h \in keep |-> access[h]]
        /\ clock' = clock

Next ==
    \/ \E c \in Chains : InsertChain(c) \/ MatchChain(c)
    \/ \E b \in Budgets : Evict(b)

Spec == Init /\ [][Next]_vars
=============================================================================
