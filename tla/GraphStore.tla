----------------------------- MODULE GraphStore -----------------------------
(***************************************************************************)
(* The graph of a channel as its callers change it, one call at a time: an *)
(* edge put or deleted with its reverse, a block cut in two                *)
(* (libpijul/src/pristine/mod.rs, sanakirja.rs).  Apply, unrecord and the  *)
(* repairs do nothing else to a graph.                                     *)
(***************************************************************************)
EXTENDS Graph

CONSTANTS Ids,         \* changes with blocks
          Positions,   \* bytes in a change
          Flags,       \* flags of edges, as seen from their source
          MaxHalves    \* bound: no edge is put once there are that many halves

ASSUME IdsType == Ids \subseteq Nat \ {0} /\ IsFiniteSet(Ids)
ASSUME PositionsType == Positions \subseteq Nat /\ IsFiniteSet(Positions)
ASSUME FlagsType == Flags \subseteq SUBSET (ALL \ PARENT)

VARIABLE graph

Blocks == {ROOT} \cup {v \in {Vtx(c, s, t) : c \in Ids, s \in Positions, t \in Positions} : v.start <= v.end}

(* Blocks of a change share no byte, and no empty block (the inode of a    *)
(* file) touches another one: record leaves a byte on each side.           *)
Before(v, w) == v.end < w.start \/ (v.end = w.start /\ ~is_empty(v) /\ ~is_empty(w))
Apart(V) == \A v, w \in V : v = w \/ v.change # w.change \/ Before(v, w) \/ Before(w, v)

(* What callers pass: blocks the searches found, or the block of a new     *)
(* vertex, which put_newvertex refuses if the searches find something.     *)
Fits(v, w) == Apart(Vertices(graph) \cup {v, w})

-----------------------------------------------------------------------------
Init == graph = {}
Put(flag, v, w, by) ==
    /\ Cardinality(graph) < MaxHalves
    /\ Fits(v, w) /\ ~PutFails(graph, flag, v, w, by)
    /\ graph' = put_graph_with_rev(graph, flag, v, w, by)
(* To delete what is not there does nothing. *)
Del(flag, v, w, by) ==
    /\ graph' = del_graph_with_rev(graph, flag, v, w, by) /\ graph' # graph
    /\ Fits(v, w)
Split(v, pos) ==
    /\ ~SplitFails(graph, v, pos)
    /\ graph' = split_block(graph, v, pos)
Next ==
    \/ \E flag \in Flags, v, w \in Blocks, by \in Ids \cup {0} :
          Put(flag, v, w, by) \/ Del(flag, v, w, by) \/ Del(flag \cup PARENT, v, w, by)
    \/ \E v \in Vertices(graph), pos \in Positions : Split(v, pos)
Spec == Init /\ [][Next]_graph

-----------------------------------------------------------------------------
(* Every half of an edge leads, by the search in the table, to the block   *)
(* at the other end, and that block has the other half: whatever blocks    *)
(* were cut since, an edge can be followed both ways and deleted from      *)
(* either end (find_block, find_block_end, split_block).                   *)
Reversed(v, e) ==
    IF PARENT \subseteq e.flag THEN Edge(e.flag \ PARENT, start_pos(v), e.by) ELSE Edge(e.flag \cup PARENT, end_pos(v), e.by)
OtherEnd(G, e) == IF PARENT \subseteq e.flag THEN find_block_end(G, e.dest) ELSE find_block(G, e.dest)
EdgesResolve == \A x \in graph : <<OtherEnd(graph, x[2]), Reversed(x[1], x[2])>> \in graph

(* What a graph means does not depend on where its blocks are cut: it is   *)
(* that of the graph of bytes, where every byte of a block follows the one *)
(* before by each edge that inserts or deletes the block.  split_block     *)
(* changes nothing of it, in any graph the callers make.                   *)
ByteEdges(G) ==
    {<<end_pos(x[1]), x[2].flag, x[2].dest, x[2].by>> : x \in {x \in G : ~(PARENT \subseteq x[2].flag)}}
    \cup UNION {{<<Pos(x[1].change, p), x[2].flag \ PARENT, Pos(x[1].change, p), x[2].by>> :
                    p \in {p \in Positions : x[1].start < p /\ p < x[1].end}} :
                x \in {x \in G : PARENT \cup BLOCK \subseteq x[2].flag}}
SplitsAreSilent ==
    \A v \in Vertices(graph), pos \in Positions :
       ~SplitFails(graph, v, pos) => ByteEdges(split_block(graph, v, pos)) = ByteEdges(graph)
=============================================================================
