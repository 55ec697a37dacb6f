----------------------------- MODULE Hypergraph -----------------------------
(***************************************************************************)
(* What an AtomSpace promises, with no index and no storage in it: a       *)
(* hypergraph that only grows.  Atom n is the n-th one added, it points    *)
(* only at atoms added before it, and it never changes.                    *)
(***************************************************************************)
EXTENDS Naturals, Sequences

CONSTANT Types

VARIABLE graph   \* graph[n]: type and targets of the n-th atom

Atom(n) == [type : Types, outgoing : Seq(1 .. n)]

Init == graph = <<>>

Add(a) == graph' = Append(graph, a)

\* (Atom is an infinite set: the checker evaluates Next as membership.)
Next == /\ Len(graph') = Len(graph) + 1
        /\ graph'[Len(graph')] \in Atom(Len(graph))
        /\ Add(graph'[Len(graph')])

Spec == Init /\ [][Next]_graph

=============================================================================
