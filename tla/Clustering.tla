----------------------------- MODULE Clustering -----------------------------
(* scripts/memory_compaction.py: how near-duplicates become clusters.        *)
EXTENDS Naturals, FiniteSets, Folds

\* One search per listed record; a hit above the threshold is an edge, whether
\* the hit was listed or not.  A pair is taken once (seen_pairs).
Pairs(listed, live) ==
    {e \in listed \X live : e[1] # e[2] /\ (e[2] \in listed => e[1] < e[2])}

\* Mutant of Join: the other node itself, not its root, is attached.
JoinNode(edge, root) == [root EXCEPT ![edge[2]] = root[edge[1]]]

\* _UnionFind.union, with root[n] the node that find(n) returns.
Join(edge, root) ==
    [n \in DOMAIN root |-> IF root[n] = root[edge[2]] THEN root[edge[1]] ELSE root[n]]

\* _UnionFind.clusters after a union of every edge, without the singletons.
Clusters(listed, edges) ==
    LET nodes == listed \cup UNION {{e[1], e[2]} : e \in edges}
        root == MapThenFoldSet(Join, [n \in nodes |-> n], LAMBDA e : e,
                               LAMBDA S : CHOOSE e \in S : TRUE, edges)
        group == {{n \in nodes : root[n] = r} : r \in nodes}
    IN  {g \in group : Cardinality(g) >= 2}

\* Members are sorted by created_at, which only a listed record has: one that a
\* search alone returned sorts before them all.
First(members, listed) ==
    IF members \subseteq listed
    THEN {m \in members : \A n \in members : m <= n}
    ELSE members \ listed

=============================================================================
