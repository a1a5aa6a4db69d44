----------------------------- MODULE Provenance -----------------------------
(***************************************************************************)
(* The queries on the provenance graph while it grows:                     *)
(* src/src/vsrs/provenance/store.py.                                       *)
(*                                                                         *)
(* A query (a command, or a request of the API) reads the edges of one     *)
(* node per SELECT and pops one node of its queue per step, while the      *)
(* pipeline of a run stores its edges with a commit each.  A traversal is  *)
(* cut at its SELECTs.  The table is the sequence of its rows in the order *)
(* they were inserted (AUTOINCREMENT; one edge may have several rows);     *)
(* nothing in the code removes one.  Queries only read, so one at a time   *)
(* is enough.                                                              *)
(***************************************************************************)
EXTENDS ProvenanceGraph

CONSTANTS
    Nodes,       \* the nodes
    Edges,       \* the edges pipelines store
    Depths,      \* the values of max_depth callers ask for
    TraceDepth,  \* the max_depth with which summary traces: 10 in the code
    MaxRows      \* bound on the rows stored

ASSUME ProvenanceAssumption ==
    /\ \A e \in Edges : e.from \in Nodes /\ e.to \in Nodes
    /\ Depths \union {TraceDepth} \subseteq Nat /\ MaxRows \in Nat

VARIABLES
    stored,   \* provenance_edges
    query,    \* the arguments of the query; before is history: the rows it found stored
    stage,    \* "idle", "search", "measure" (the second pass of summary) or "done"
    queue,    \* the nodes to visit, each with the rows that led to it
    visited,  \* the nodes visited; the depth each was visited at is history
    trail,    \* the rows met, each with its depth
    answer,   \* of find_path: <<>> for None, else <<path>>
    deepest   \* of summary: max_depth

provenanceVars == <<stored, query, stage, queue, visited, trail, answer, deepest>>

\* The ends of a row in the direction of the query.
Near(r) == IF query.kind = "reverse_trace" THEN stored[r].to ELSE stored[r].from
Far(r) == IF query.kind = "reverse_trace" THEN stored[r].from ELSE stored[r].to

\* get_outgoing or get_incoming, whose SELECT has no ORDER BY: the rows in any order.
RowsAt(n) == {r \in DOMAIN stored : Near(r) = n}
Listings(n) == Bijection(1 .. Cardinality(RowsAt(n)), RowsAt(n))

-----------------------------------------------------------------------------
ProvenanceInit ==
    /\ stored = <<>>
    /\ \E n \in Nodes :
          query = [kind |-> "trace", start |-> n, goal |-> n, limit |-> 0, before |-> 0]
    /\ stage = "idle" /\ queue = <<>> /\ visited = <<>>
    /\ trail = <<>> /\ answer = <<>> /\ deepest = 0

StoreEdge ==
    /\ Len(stored) < MaxRows
    /\ \E e \in Edges : stored' = Append(stored, e)
    /\ UNCHANGED <<query, stage, queue, visited, trail, answer, deepest>>

Root(n) == << [node |-> n, path |-> <<>>] >>

\* trace, audit_trail (the same search), reverse_trace, find_path and summary.
Begin(kind, start, goal, limit) ==
    /\ stage \in {"idle", "done"}
    /\ query' = [kind |-> kind, start |-> start, goal |-> goal, limit |-> limit, before |-> Len(stored)]
    /\ stage' = IF kind = "find_path" /\ start = goal THEN "done" ELSE "search"
    /\ answer' = IF kind = "find_path" /\ start = goal THEN << <<>> >> ELSE <<>>
    /\ queue' = Root(start) /\ visited' = <<>> /\ trail' = <<>> /\ deepest' = 0
    /\ UNCHANGED stored

-----------------------------------------------------------------------------
(***************************************************************************)
(* One turn of the loop.  The paths in the queue are those of find_path;   *)
(* the other queries keep their lengths, the depths.                       *)
(***************************************************************************)
Node == Head(queue).node
Path == Head(queue).path
TooDeep == stage = "search" /\ Len(Path) >= query.limit
Collecting == stage = "search" /\ query.kind # "find_path"

Turn == stage \in {"search", "measure"} /\ queue # <<>>

Visit(n, depth) ==
    [m \in DOMAIN visited \union {n} |-> IF m \in DOMAIN visited THEN visited[m] ELSE depth]

Rest(q) == Tail(q)

\* A search that forgets to count the row it follows.
FaultyGrow(path, r) == path

Grow(path, r) == Append(path, r)

\* continue: find_path marks a node that is too deep as visited, the others do not.
Skip ==
    /\ Turn
    /\ Node \in DOMAIN visited \/ TooDeep
    /\ queue' = Rest(queue)
    /\ visited' = IF query.kind = "find_path" THEN Visit(Node, Len(Path)) ELSE visited
    /\ UNCHANGED <<stored, query, stage, trail, answer, deepest>>

\* return new_path: of rows in no order, any that hits the goal may be the first.
Hit ==
    /\ Turn /\ query.kind = "find_path"
    /\ Node \notin DOMAIN visited /\ ~TooDeep
    /\ \E r \in RowsAt(Node) : Far(r) = query.goal /\ answer' = << Grow(Path, r) >>
    /\ visited' = Visit(Node, Len(Path))
    /\ stage' = "done" /\ queue' = Rest(queue)
    /\ UNCHANGED <<stored, query, trail, deepest>>

Follow ==
    /\ Turn
    /\ Node \notin DOMAIN visited /\ ~TooDeep
    /\ query.kind = "find_path" => \A r \in RowsAt(Node) : Far(r) # query.goal
    /\ visited' = Visit(Node, Len(Path))
    /\ \E found \in Listings(Node) :
          /\ queue' = Rest(queue) \o [k \in DOMAIN found |->
                                         [node |-> Far(found[k]), path |-> Grow(Path, found[k])]]
          /\ trail' = IF Collecting
                      THEN trail \o [k \in DOMAIN found |-> [row |-> found[k], depth |-> Len(Path)]]
                      ELSE trail
    /\ deepest' = IF stage = "measure" /\ Len(Path) > deepest THEN Len(Path) ELSE deepest
    /\ UNCHANGED <<stored, query, stage, answer>>

\* summary has its edges and starts over, without a limit, for the depth.
Measure ==
    /\ stage = "search" /\ queue = <<>> /\ query.kind = "summary"
    /\ stage' = "measure" /\ queue' = Root(query.start) /\ visited' = <<>>
    /\ UNCHANGED <<stored, query, trail, answer, deepest>>

Return ==
    /\ queue = <<>>
    /\ stage = "measure" \/ (stage = "search" /\ query.kind # "summary")
    /\ stage' = "done"
    /\ UNCHANGED <<stored, query, queue, visited, trail, answer, deepest>>

Reader == Skip \/ Hit \/ Follow \/ Measure \/ Return

ProvenanceNext ==
    \/ StoreEdge
    \/ \E start \in Nodes, limit \in Depths :
          \/ Begin("trace", start, start, limit)
          \/ Begin("reverse_trace", start, start, limit)
          \/ \E goal \in Nodes : Begin("find_path", start, goal, limit)
          \/ Begin("summary", start, start, TraceDepth)
    \/ Reader

ProvenanceSpec == ProvenanceInit /\ [][ProvenanceNext]_provenanceVars

-----------------------------------------------------------------------------
Old == 1 .. query.before

\* A walk from the start: where it stands after i rows, and that each row leaves from there.
Stand(w, i) == IF i = 0 THEN query.start ELSE Far(w[i])
Walk(w, d) == \A i \in 1 .. d : Near(w[i]) = Stand(w, i - 1)

\* Some walk of exactly d of these rows leads to n.
Reaches(from, n, d) == \E w \in [1 .. d -> from] : Walk(w, d) /\ Stand(w, d) = n

\* The rows met, nearest first and none twice, leave nodes that are as far away as they say
\* and closer than the limit; and of the rows there were at the beginning, every one that
\* leaves such a node is met, at no greater depth.
TrailExact ==
    /\ \A i \in DOMAIN trail :
          /\ trail[i].depth < query.limit /\ Reaches(DOMAIN stored, Near(trail[i].row), trail[i].depth)
          /\ \A j \in 1 .. i - 1 : trail[j].depth <= trail[i].depth /\ trail[j].row # trail[i].row
    /\ \A d \in 0 .. query.limit - 1, r \in Old :
          Reaches(Old, Near(r), d) => \E i \in DOMAIN trail : trail[i].row = r /\ trail[i].depth <= d

\* A path leads to the goal and is no longer than the limit, nor than any path there was at
\* the beginning; None says that there was none.
PathExact ==
    /\ \A d \in 0 .. query.limit :
          Reaches(Old, query.goal, d) => answer # <<>> /\ Len(answer[1]) <= d
    /\ answer # <<>> =>
          LET path == answer[1]
          IN  /\ Len(path) <= query.limit /\ \A i \in DOMAIN path : path[i] \in DOMAIN stored
              /\ Walk(path, Len(path)) /\ Stand(path, Len(path)) = query.goal

\* The depth is the distance of some node, and no node there was is farther.  (A node that
\* is reached at all is reached within as many rows as there were.)
DepthExact ==
    /\ \E n \in Nodes : /\ Reaches(DOMAIN stored, n, deepest)
                        /\ \A d \in 0 .. deepest - 1 : ~Reaches(Old, n, d)
    /\ \A n \in Nodes, d \in 0 .. query.before :
          Reaches(Old, n, d) => \E e \in 0 .. deepest : Reaches(DOMAIN stored, n, e)

\* What a query answers is exact, whatever cycles the graph has and whatever a pipeline
\* stores in the meantime: at least what there was when it began, nearest first, and
\* nothing that is not there when it returns.
QueriesExact ==
    stage = "done" =>
        /\ query.kind # "find_path" => TrailExact
        /\ query.kind = "find_path" => PathExact
        /\ query.kind = "summary" => DepthExact
=============================================================================
