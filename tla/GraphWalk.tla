------------------------------- MODULE GraphWalk -------------------------------
(***************************************************************************)
(* The two breadth-first walks over the architecture graph: neighbors and  *)
(* dependents of src/graph/query.ts.  A step takes one entry off the queue. *)
(*                                                                         *)
(* An edge is a pair of identifiers.  Which order the edges of one have in *)
(* architecture-graph.json is left open.  The types of edges are left out: *)
(* dependents follows only imports, handled_by and tests, and no others    *)
(* lead to anything but a package.                                         *)
(***************************************************************************)
EXTENDS GraphBuilder, Selection, SequencesExt

CONSTANTS
  NeighborDepth,  \* hops of the walk for the context (2 in the code)
  DependentDepth  \* hops of the walk for the blast radius (3 in the code)

ASSUME DepthAssumption == NeighborDepth \in Nat /\ DependentDepth \in Nat

VARIABLES
  edges, \* the edges of the loaded graph
  walk   \* the locals of the walk under way

Kinds == {"neighbors", "dependents"}

Depth(kind) == IF kind = "neighbors" THEN NeighborDepth ELSE DependentDepth

\* The identifiers one hop away: along edges of either direction, or against them.
Adjacent(kind, id) ==
  {n \in Node : <<n, id>> \in edges \/ (kind = "neighbors" /\ <<id, n>> \in edges)}

NoWalk == [kind |-> "none", start |-> <<"none", "none">>, seen |-> {}, queue |-> <<>>, out |-> <<>>]

BeginWalk(kind, start) ==
  walk' = [kind |-> kind, start |-> start, seen |-> {start},
           queue |-> <<[id |-> start, d |-> 0]>>, out |-> <<>>]

Walking == walk.queue # <<>>

\* A slip of TooFar: one hop too many.
TooFarAfter(entry) == entry.d > Depth(walk.kind)

TooFar(entry) == entry.d >= Depth(walk.kind)

\* A slip of Enqueued: the newest entry is taken first.
EnqueuedInFront(rest, new) == new \o rest

Enqueued(rest, new) == rest \o new

\* queue.shift(), and the identifiers next to it that were not seen before.
Dequeue ==
  LET entry == Head(walk.queue)
      fresh == IF TooFar(entry) THEN {} ELSE Adjacent(walk.kind, entry.id) \ walk.seen
  IN  /\ Walking
      /\ \E order \in SetToSeqs(fresh) :
           walk' = [walk EXCEPT
             !.seen  = @ \cup fresh,
             !.queue = Enqueued(Tail(@), [i \in DOMAIN order |->
                                            [id |-> order[i], d |-> entry.d + 1]]),
             !.out   = @ \o Among(order, Listed)]
      /\ UNCHANGED edges

-----------------------------------------------------------------------------

\* Ball[k]: the identifiers within k hops of the start.
Ball ==
  LET within[k \in 0..Depth(walk.kind)] ==
        IF k = 0 THEN {walk.start}
        ELSE LET near == within[k - 1]
             IN  near \cup UNION {Adjacent(walk.kind, n) : n \in near}
  IN  within

\* A finished walk has found every listed node within its number of hops, no
\* other and none twice, whatever cycles and repeated edges the graph has
\* (neighbors and dependents, against paths of that length).
WalkIsExact ==
  walk.kind \in Kinds /\ ~Walking =>
    /\ ToSet(walk.out) = (Ball[Depth(walk.kind)] \cap Listed) \ {walk.start}
    /\ IsInjective(walk.out)

\* What a walk has found is in the order of its distance from the start, at each
\* step of it: the context is cut at a number of files, and must lose the far
\* ones (the promise of the comment above neighbors).
NearestFirst ==
  walk.kind \in Kinds =>
    \A k \in DOMAIN Ball :
      LET ball == Ball[k]
      IN  \A i, j \in DOMAIN walk.out :
            i < j /\ walk.out[j] \in ball => walk.out[i] \in ball

=============================================================================
