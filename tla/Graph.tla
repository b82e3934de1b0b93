------------------------------- MODULE Graph -------------------------------
(***************************************************************************)
(* The graph of a channel: a table from vertices (blocks of bytes of a     *)
(* change) to the halves of edges, ordered by key, as libpijul/src/pristine *)
(* keeps and searches it.  A graph is a set of pairs <<vertex, edge>>.     *)
(***************************************************************************)
EXTENDS Integers, Sequences, FiniteSets, SequencesExt

(* A value computed once, with a name.                                     *)
With(x, Do(_)) == Do(x)

ROOT == [change |-> 0, start |-> 0, end |-> 0]
BOTTOM == [change |-> 0, start |-> 1, end |-> 1]
Vtx(c, s, e) == [change |-> c, start |-> s, end |-> e]
Pos(c, p) == [change |-> c, pos |-> p]
start_pos(v) == Pos(v.change, v.start)
end_pos(v) == Pos(v.change, v.end)
inode_vertex(p) == Vtx(p.change, p.pos, p.pos)
is_empty(v) == v.start = v.end

(* An edge flag is a set of bits; the table orders edges by the number.    *)
BLOCK == {"BLOCK"}
PSEUDO == {"PSEUDO"}
FOLDER == {"FOLDER"}
PARENT == {"PARENT"}
DELETED == {"DELETED"}
NOFLAG == {}
ALL == BLOCK \cup PSEUDO \cup FOLDER \cup PARENT \cup DELETED
bits(f) == (IF BLOCK \subseteq f THEN 1 ELSE 0) + (IF PSEUDO \subseteq f THEN 4 ELSE 0)
           + (IF FOLDER \subseteq f THEN 16 ELSE 0) + (IF PARENT \subseteq f THEN 32 ELSE 0)
           + (IF DELETED \subseteq f THEN 128 ELSE 0)

Edge(f, p, by) == [flag |-> f, dest |-> p, by |-> by]

(* Keys and edges are compared field by field.                             *)
PLess(p, q) == p.change < q.change \/ (p.change = q.change /\ p.pos < q.pos)
VLess(v, w) ==
    \/ v.change < w.change
    \/ v.change = w.change /\ (v.start < w.start \/ (v.start = w.start /\ v.end < w.end))
DestLess(p, q) == p.pos < q.pos \/ (p.pos = q.pos /\ p.change < q.change)
ELess(e, f) ==
    LET b == bits(e.flag)
        c == bits(f.flag)
    IN  b < c \/ (b = c /\ (DestLess(e.dest, f.dest) \/ (e.dest = f.dest /\ e.by < f.by)))
InOrder(S, Less(_, _)) ==
    LET rank == [x \in S |-> Cardinality({y \in S : Less(y, x)})]
    IN  [i \in 1..Cardinality(S) |-> CHOOSE x \in S : rank[x] = i - 1]

Vertices(G) == {x[1] : x \in G}
MinV(S) == CHOOSE v \in S : \A w \in S : v = w \/ VLess(v, w)
MaxV(S) == CHOOSE v \in S : \A w \in S : v = w \/ VLess(w, v)

-----------------------------------------------------------------------------
(* The halves of edges at a vertex whose flags are in a range of numbers.  *)
iter_adjacent(G, v, min, max) ==
    {x[2] : x \in {x \in G : x[1] = v /\ bits(min) <= bits(x[2].flag) /\ bits(x[2].flag) <= bits(max)}}
iter_alive_children(G, v) == iter_adjacent(G, v, NOFLAG, BLOCK \cup PSEUDO \cup FOLDER)
iter_deleted_parents(G, v) == iter_adjacent(G, v, DELETED \cup PARENT, ALL)
iter_adj_all(G, v) == iter_adjacent(G, v, NOFLAG, ALL)

(* test_edge looks at the first edge of [a.pos, a.pos] from (min, b) on.   *)
test_edge(G, a, b, min, max) ==
    LET from == {e \in iter_adjacent(G, inode_vertex(a), min, max) :
                    bits(e.flag) > bits(min) \/ ~DestLess(e.dest, b)}
    IN  \E e \in from : (\A f \in from : ~ELess(f, e)) /\ e.dest = b

is_alive(G, v) ==
    \/ v = ROOT
    \/ \E e \in iter_adjacent(G, v, PARENT, ALL \ DELETED) :
          ~(PSEUDO \subseteq e.flag) /\ (BLOCK \subseteq e.flag \/ is_empty(v))

-----------------------------------------------------------------------------
(* Search of the block that contains a position, by a cursor that goes to  *)
(* the first key not below [p, p], back while the key is above p, and on.  *)
NONE == [change |-> -1, start |-> 0, end |-> 0]

Least(S, default) == IF S # {} THEN MinV(S) ELSE default
Seek(V, key) == Least({v \in V : ~VLess(v, key)}, MaxV(V))
BackTo(V, k, Stop(_)) == With({v \in V : ~VLess(k, v) /\ Stop(v)}, LAMBDA low : IF low # {} THEN MaxV(low) ELSE MinV(V))

Holds(v, p) == v.change = p.change /\ v.start <= p.pos /\ (v.end > p.pos \/ (is_empty(v) /\ v.end = p.pos))
NotAfter(v, p) == ~(v.change > p.change \/ (v.change = p.change /\ v.start > p.pos))
ScanFor(V, p, from) ==
    With(Least({v \in V : ~VLess(v, from) /\ (Holds(v, p) \/ v.change > p.change)}, NONE), LAMBDA v : IF Holds(v, p) THEN v ELSE NONE)
find_block(G, p) ==
    CASE p.change = 0 -> ROOT
      [] p.change # 0 /\ G = {} -> NONE
      [] OTHER -> With(Vertices(G), LAMBDA V : ScanFor(V, p, BackTo(V, Seek(V, inode_vertex(p)), LAMBDA v : NotAfter(v, p))))

(* Search of the block that ends at, or contains the byte before, a position. *)
Starts(v, p) == v.change < p.change \/ v = inode_vertex(p) \/ (v.change = p.change /\ v.start < p.pos)
EndsBefore(v, p) == v.change < p.change \/ (v.change = p.change /\ p.pos > v.end)
HoldsEnd(v, p) == v.change = p.change /\ ((v.start < p.pos /\ p.pos <= v.end) \/ v = inode_vertex(p))
ScanForEnd(V, p, from) ==
    IF from = inode_vertex(p) THEN from
    ELSE With(Least({v \in V : ~VLess(v, from) /\ ~EndsBefore(v, p)}, MaxV(V)), LAMBDA v : IF HoldsEnd(v, p) THEN v ELSE NONE)
find_block_end(G, p) ==
    CASE p.change = 0 -> ROOT
      [] p.change # 0 /\ G = {} -> NONE
      [] OTHER -> With(Vertices(G), LAMBDA V : ScanForEnd(V, p, BackTo(V, Seek(V, inode_vertex(p)), LAMBDA v : Starts(v, p))))

-----------------------------------------------------------------------------
(* An edge and its reverse are put and deleted together.                   *)
Halves(flag, k0, k1, by) ==
    {<<k0, Edge(flag, start_pos(k1), by)>>, <<k1, Edge(flag \cup PARENT, end_pos(k0), by)>>}

del_graph_with_rev(G, flag, k0, k1, by) ==
    G \ IF PARENT \subseteq flag THEN Halves(flag \ PARENT, k1, k0, by) ELSE Halves(flag, k0, k1, by)

(* Its assertions: no edge between blocks that start at one position, only *)
(* pseudo-edges without a change, both halves there or neither.            *)
PutFails(G, flag, k0, k1, by) ==
    \/ k0.change = k1.change /\ k0.start = k1.start
    \/ by = 0 /\ ~(PSEUDO \subseteq flag)
    \/ Cardinality(Halves(flag, k0, k1, by) \cap G) = 1
put_graph_with_rev(G, flag, k0, k1, by) == G \cup Halves(flag, k0, k1, by)

(* A block is cut in two: its children move to the second half, its        *)
(* parents stay, and every block edge to it is repeated between the halves. *)
SplitFails(G, key, pos) ==
    \/ ~(key.start < pos /\ pos < key.end)
    \/ \E e \in iter_adj_all(G, key) : e.by = 0 /\ ~(PSEUDO \subseteq e.flag)
(* Mutant: the children of a block stay with its first half.               *)
split_block_children_first(G, key, pos) ==
    LET left == Vtx(key.change, key.start, pos)
        right == Vtx(key.change, pos, key.end)
        edges == iter_adj_all(G, key)
    IN  (G \ {<<key, e>> : e \in edges})
        \cup (UNION {Halves(e.flag \ PARENT, left, right, e.by) : e \in {e \in edges : PARENT \cup BLOCK \subseteq e.flag}})
        \cup {<<left, e>> : e \in edges}
(* Mutant: the halves of a block are joined by its first block edge only.  *)
split_block_unjoined(G, key, pos) ==
    LET left == Vtx(key.change, key.start, pos)
        right == Vtx(key.change, pos, key.end)
        edges == iter_adj_all(G, key)
        joining == {e \in edges : PARENT \cup BLOCK \subseteq e.flag}
        first == {e \in joining : \A f \in joining : ~ELess(f, e)}
    IN  (G \ {<<key, e>> : e \in edges})
        \cup (UNION {Halves(e.flag \ PARENT, left, right, e.by) : e \in first})
        \cup {<<IF PARENT \subseteq e.flag THEN left ELSE right, e>> : e \in edges}
split_block(G, key, pos) ==
    LET left == Vtx(key.change, key.start, pos)
        right == Vtx(key.change, pos, key.end)
        edges == iter_adj_all(G, key)
    IN  (G \ {<<key, e>> : e \in edges})
        \cup (UNION {Halves(e.flag \ PARENT, left, right, e.by) : e \in {e \in edges : PARENT \cup BLOCK \subseteq e.flag}})
        \cup {<<IF PARENT \subseteq e.flag THEN left ELSE right, e>> : e \in edges}
=============================================================================
