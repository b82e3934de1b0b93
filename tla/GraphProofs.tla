----------------------------- MODULE GraphProofs -----------------------------
(* Theorems about the graph of a channel: every edge can be followed both  *)
(* ways, and cutting blocks changes nothing.                               *)
EXTENDS GraphStore, FiniteSetTheorems, WellFoundedInduction, TLAPS

Vertex == [change : Nat, start : Nat, end : Nat]
EdgeSet == [flag : SUBSET ALL, dest : [change : Nat, pos : Nat], by : Nat]

-----------------------------------------------------------------------------
(* The order of keys *)

LEMMA KeyOrder ==
  ASSUME NEW u \in Vertex, NEW v \in Vertex, NEW w \in Vertex
  PROVE  /\ ~VLess(u, u)
         /\ u = v \/ VLess(u, v) \/ VLess(v, u)
         /\ VLess(u, v) /\ VLess(v, w) => VLess(u, w)
BY DEF VLess, Vertex

(* A finite set of keys has a least and a greatest one. *)
LEMMA LeastKey ==
  ASSUME NEW S \in SUBSET Vertex, IsFiniteSet(S), S # {}
  PROVE  MinV(S) \in S /\ \A w \in S : MinV(S) = w \/ VLess(MinV(S), w)
<1> DEFINE below(v) == {u \in S : VLess(u, v)}
           T == {below(v) : v \in S}
<1>1. IsWellFoundedOn(StrictSubsetOrdering(S), FiniteSubsetsOf(S))
  BY FS_StrictSubsetOrderingWellFounded
<1>2. T \subseteq FiniteSubsetsOf(S) /\ T # {}
  <2>1. T \subseteq SUBSET S /\ T # {}
    OBVIOUS
  <2>2. FiniteSubsetsOf(S) = SUBSET S
    BY FS_FiniteSubsetsOfFinite
  <2> QED BY <2>1, <2>2
<1>3. PICK x \in T : \A y \in T : <<y, x>> \notin StrictSubsetOrdering(S)
  <2> HIDE DEF T
  <2> QED BY <1>1, <1>2, WFMin
<1>4. PICK v \in S : x = below(v)
  BY <1>3
<1>5. ASSUME NEW w \in S, VLess(w, v) PROVE FALSE
  <2>1. below(w) \subseteq below(v)
    BY <1>5, KeyOrder
  <2>2. w \in below(v) /\ w \notin below(w)
    BY <1>5, KeyOrder
  <2>3. <<below(w), below(v)>> \in StrictSubsetOrdering(S)
    BY <2>1, <2>2 DEF StrictSubsetOrdering
  <2> QED BY <2>3, <1>3, <1>4
<1>6. \A w \in S : v = w \/ VLess(v, w)
  BY <1>5, KeyOrder
<1> QED BY <1>4, <1>6 DEF MinV

LEMMA GreatestKey ==
  ASSUME NEW S \in SUBSET Vertex, IsFiniteSet(S), S # {}
  PROVE  MaxV(S) \in S /\ \A w \in S : MaxV(S) = w \/ VLess(w, MaxV(S))
<1> DEFINE above(v) == {u \in S : VLess(v, u)}
           T == {above(v) : v \in S}
<1>1. IsWellFoundedOn(StrictSubsetOrdering(S), FiniteSubsetsOf(S))
  BY FS_StrictSubsetOrderingWellFounded
<1>2. T \subseteq FiniteSubsetsOf(S) /\ T # {}
  <2>1. T \subseteq SUBSET S /\ T # {}
    OBVIOUS
  <2>2. FiniteSubsetsOf(S) = SUBSET S
    BY FS_FiniteSubsetsOfFinite
  <2> QED BY <2>1, <2>2
<1>3. PICK x \in T : \A y \in T : <<y, x>> \notin StrictSubsetOrdering(S)
  <2> HIDE DEF T
  <2> QED BY <1>1, <1>2, WFMin
<1>4. PICK v \in S : x = above(v)
  BY <1>3
<1>5. ASSUME NEW w \in S, VLess(v, w) PROVE FALSE
  <2>1. above(w) \subseteq above(v)
    BY <1>5, KeyOrder
  <2>2. w \in above(v) /\ w \notin above(w)
    BY <1>5, KeyOrder
  <2>3. <<above(w), above(v)>> \in StrictSubsetOrdering(S)
    BY <2>1, <2>2 DEF StrictSubsetOrdering
  <2> QED BY <2>3, <1>3, <1>4
<1>6. \A w \in S : v = w \/ VLess(w, v)
  BY <1>5, KeyOrder
<1> QED BY <1>4, <1>6 DEF MaxV

(* The least key is the only one below all others, and the greatest one.   *)
LEMMA LeastIs ==
  ASSUME NEW S \in SUBSET Vertex, IsFiniteSet(S), NEW v \in S, \A w \in S : ~VLess(w, v), NEW default
  PROVE  Least(S, default) = v
<1>1. MinV(S) \in S /\ \A w \in S : MinV(S) = w \/ VLess(MinV(S), w)
  BY LeastKey
<1> QED BY <1>1 DEF Least

-----------------------------------------------------------------------------
(* The searches *)

(* Where the cursor goes first is at, or after, every key that is not      *)
(* above the one sought, unless it is that key or the first above it.      *)
LEMMA SeekFrom ==
  ASSUME NEW V \in SUBSET Vertex, IsFiniteSet(V), NEW key \in Vertex, NEW h \in V,
         VLess(h, key) \/ h = key \/ (\A w \in V : VLess(w, key) \/ ~VLess(w, h))
  PROVE  Seek(V, key) \in V /\ (Seek(V, key) = h \/ VLess(h, Seek(V, key)))
<1> DEFINE above == {v \in V : ~VLess(v, key)}
<1>1. CASE above = {}
  <2>1. Seek(V, key) = MaxV(V)
    BY <1>1 DEF Seek, Least
  <2> QED BY <2>1, GreatestKey
<1>2. CASE above # {}
  <2>1. above \in SUBSET Vertex /\ IsFiniteSet(above)
    BY FS_Subset
  <2>2. MinV(above) \in above
    <3> HIDE DEF above
    <3> QED BY <1>2, <2>1, LeastKey
  <2>3. Seek(V, key) = MinV(above)
    BY <1>2 DEF Seek, Least
  <2>4. MinV(above) = h \/ VLess(h, MinV(above))
    BY <2>2, KeyOrder
  <2> QED BY <2>2, <2>3, <2>4
<1> QED BY <1>1, <1>2

Position == [change : Nat, pos : Nat]
IsApart(V) == V \subseteq Vertex /\ IsFiniteSet(V) /\ Apart(V) /\ \A v \in V : v.start <= v.end

(* The block that holds a position is found. *)
LEMMA SearchFinds ==
  ASSUME NEW G, IsApart(Vertices(G)), NEW p \in Position, p.change # 0,
         NEW h \in Vertices(G), Holds(h, p)
  PROVE  find_block(G, p) = h
<1> DEFINE V == Vertices(G)
           key == inode_vertex(p)
           k == Seek(V, key)
           low == {v \in V : ~VLess(k, v) /\ NotAfter(v, p)}
           from == MaxV(low)
<1>1. /\ V \in SUBSET Vertex /\ IsFiniteSet(V) /\ h \in V /\ h \in Vertex
      /\ \A v \in V : v.start <= v.end
      /\ \A v, w \in V : v = w \/ v.change # w.change \/ Before(v, w) \/ Before(w, v)
  BY DEF IsApart, Apart
<1>2. key \in Vertex /\ key.change = p.change /\ key.start = p.pos /\ key.end = p.pos
  BY DEF inode_vertex, Vtx, Vertex, Position
<1> HIDE DEF V, key
<1>3. h.change = p.change /\ h.start <= p.pos /\ (h.end > p.pos \/ (h.start = h.end /\ h.end = p.pos))
  BY DEF Holds, is_empty
<1>4. \A w \in V : w.change = h.change /\ h.start <= w.start /\ w.start <= p.pos => w = h
  BY <1>1, <1>3 DEF Before, is_empty, Vertex, Position
<1>5. VLess(h, key) \/ h = key \/ (\A w \in V : VLess(w, key) \/ ~VLess(w, h))
  BY <1>1, <1>2, <1>3, <1>4 DEF VLess, Vertex, Position
<1>6. k \in V /\ (k = h \/ VLess(h, k))
  BY <1>1, <1>2, <1>5, SeekFrom
<1> HIDE DEF k
<1>7. h \in low /\ low \in SUBSET Vertex /\ IsFiniteSet(low)
  <2>1. ~VLess(k, h) /\ NotAfter(h, p)
    BY <1>1, <1>3, <1>6, KeyOrder DEF NotAfter, Vertex, Position
  <2> QED BY <1>1, <2>1, FS_Subset
<1>8. from = h
  <2> HIDE DEF low
  <2>1. from \in low /\ (from = h \/ VLess(h, from))
    BY <1>7, GreatestKey
  <2>2. from \in V /\ from \in Vertex /\ NotAfter(from, p)
    BY <1>1, <2>1 DEF low
  <2> HIDE DEF from
  <2> QED BY <1>1, <1>3, <1>4, <2>1, <2>2 DEF NotAfter, VLess, Vertex, Position
<1>9. BackTo(V, k, LAMBDA v : NotAfter(v, p)) = h
  BY <1>7, <1>8 DEF BackTo, With
<1>10. Least({v \in V : ~VLess(v, h) /\ (Holds(v, p) \/ v.change > p.change)}, NONE) = h
  <2> DEFINE S == {v \in V : ~VLess(v, h) /\ (Holds(v, p) \/ v.change > p.change)}
  <2>1. h \in S /\ S \in SUBSET Vertex /\ IsFiniteSet(S)
    BY <1>1, KeyOrder, FS_Subset
  <2>2. \A w \in S : ~VLess(w, h)
    OBVIOUS
  <2> HIDE DEF S
  <2>3. Least(S, NONE) = h
    BY <2>1, <2>2, LeastIs
  <2> QED BY <2>3 DEF S
<1>11. ScanFor(V, p, h) = h
  BY <1>10 DEF ScanFor, With
<1>12. find_block(G, p) = ScanFor(V, p, BackTo(V, k, LAMBDA v : NotAfter(v, p)))
  <2>1. G # {}
    BY DEF Vertices
  <2> QED BY <2>1 DEF find_block, With, V, k, key
<1> QED BY <1>9, <1>11, <1>12

(* So is the block that ends at a position, or holds the byte before it. *)
LEMMA SearchFindsEnd ==
  ASSUME NEW G, IsApart(Vertices(G)), NEW p \in Position, p.change # 0,
         NEW h \in Vertices(G), HoldsEnd(h, p)
  PROVE  find_block_end(G, p) = h
<1> DEFINE V == Vertices(G)
           key == inode_vertex(p)
           k == Seek(V, key)
           low == {v \in V : ~VLess(k, v) /\ Starts(v, p)}
           from == MaxV(low)
<1>1. /\ V \in SUBSET Vertex /\ IsFiniteSet(V) /\ h \in V /\ h \in Vertex
      /\ \A v \in V : v.start <= v.end
      /\ \A v, w \in V : v = w \/ v.change # w.change \/ Before(v, w) \/ Before(w, v)
  BY DEF IsApart, Apart
<1>2. key \in Vertex /\ key.change = p.change /\ key.start = p.pos /\ key.end = p.pos
  BY DEF inode_vertex, Vtx, Vertex, Position
<1>3. \A v : v = inode_vertex(p) <=> v = key
  OBVIOUS
<1> HIDE DEF V, key
<1>4. h.change = p.change /\ ((h.start < p.pos /\ p.pos <= h.end) \/ h = key)
  BY <1>2, <1>3 DEF HoldsEnd
<1>5. \A w \in V : h # key /\ w.change = h.change /\ h.start <= w.start => w = h \/ (w.start >= p.pos /\ w # key)
  BY <1>1, <1>2, <1>4 DEF Before, is_empty, Vertex, Position
<1>6. VLess(h, key) \/ h = key
  BY <1>1, <1>2, <1>4 DEF VLess, Vertex, Position
<1>7. k \in V /\ (k = h \/ VLess(h, k)) /\ (h = key => k = h)
  <2>1. k \in V /\ (k = h \/ VLess(h, k))
    BY <1>1, <1>2, <1>6, SeekFrom
  <2>2. ASSUME h = key PROVE k = h
    <3> DEFINE S == {v \in V : ~VLess(v, key)}
    <3>1. key \in S /\ S \in SUBSET Vertex /\ IsFiniteSet(S)
      BY <1>1, <1>2, <2>2, KeyOrder, FS_Subset
    <3>2. \A w \in S : ~VLess(w, key)
      OBVIOUS
    <3> HIDE DEF S
    <3>3. Least(S, MaxV(V)) = key
      BY <3>1, <3>2, LeastIs
    <3> QED BY <3>3, <2>2 DEF Seek, S, k
  <2> QED BY <2>1, <2>2
<1> HIDE DEF k
<1>8. h \in low /\ low \in SUBSET Vertex /\ IsFiniteSet(low)
  <2>1. ~VLess(k, h)
    BY <1>1, <1>7, KeyOrder
  <2>2. Starts(h, p)
    BY <1>3, <1>4 DEF Starts
  <2> QED BY <1>1, <2>1, <2>2, FS_Subset
<1>9. from = h
  <2> HIDE DEF low
  <2>1. from \in low /\ (from = h \/ VLess(h, from))
    BY <1>8, GreatestKey
  <2>2. from \in V /\ from \in Vertex /\ Starts(from, p) /\ (k = from \/ VLess(from, k))
    BY <1>1, <1>7, <2>1, KeyOrder DEF low
  <2>3. from.change < p.change \/ from = key \/ (from.change = p.change /\ from.start < p.pos)
    BY <2>2, <1>3 DEF Starts
  <2> HIDE DEF from
  <2>4. CASE h = key
    BY <2>1, <2>2, <2>4, <1>1, <1>7, KeyOrder
  <2>5. CASE h # key
    <3>1. VLess(h, from) => from.change > h.change \/ (from.change = h.change /\ h.start <= from.start)
      BY <1>1, <2>2 DEF VLess, Vertex
    <3>2. CASE VLess(h, from)
      BY <3>1, <3>2, <2>5, <2>2, <2>3, <1>1, <1>2, <1>4, <1>5 DEF Vertex, Position
    <3> QED BY <3>2, <2>1
  <2> QED BY <2>4, <2>5
<1>10. BackTo(V, k, LAMBDA v : Starts(v, p)) = h
  BY <1>8, <1>9 DEF BackTo, With
<1>11. ScanForEnd(V, p, h) = h
  <2>1. CASE h = key
    BY <2>1, <1>3 DEF ScanForEnd
  <2>2. CASE h # key
    <3> DEFINE S == {v \in V : ~VLess(v, h) /\ ~EndsBefore(v, p)}
    <3>1. h \in S /\ S \in SUBSET Vertex /\ IsFiniteSet(S)
      <4>1. ~VLess(h, h)
        BY <1>1, KeyOrder
      <4>2. ~EndsBefore(h, p)
        BY <1>1, <1>4, <2>2 DEF EndsBefore, Vertex, Position
      <4> QED BY <1>1, <4>1, <4>2, FS_Subset
    <3>2. \A w \in S : ~VLess(w, h)
      OBVIOUS
    <3> HIDE DEF S
    <3>3. Least(S, MaxV(V)) = h
      BY <3>1, <3>2, LeastIs
    <3> QED BY <3>3, <1>3, <2>2 DEF ScanForEnd, With, S
  <2> QED BY <2>1, <2>2
<1>12. find_block_end(G, p) = ScanForEnd(V, p, BackTo(V, k, LAMBDA v : Starts(v, p)))
  <2>1. G # {}
    BY DEF Vertices
  <2> QED BY <2>1 DEF find_block_end, With, V, k, key
<1> QED BY <1>10, <1>11, <1>12

-----------------------------------------------------------------------------
(* Edges and their reverses *)

LEMMA Flag ==
  ASSUME NEW f
  PROVE  /\ PARENT \subseteq f <=> "PARENT" \in f
         /\ "PARENT" \notin f \ PARENT /\ "PARENT" \in f \cup PARENT
         /\ "PARENT" \in f => (f \ PARENT) \cup PARENT = f
         /\ "PARENT" \notin f => (f \cup PARENT) \ PARENT = f /\ f \ PARENT = f
BY DEF PARENT

LEMMA FlagType ==
  ASSUME NEW f \in SUBSET ALL
  PROVE  f \ PARENT \in SUBSET ALL /\ f \cup PARENT \in SUBSET ALL
BY DEF ALL

LEMMA EdgeIs ==
  /\ \A e \in EdgeSet : e = Edge(e.flag, e.dest, e.by)
  /\ \A f, d, b : Edge(f, d, b).flag = f /\ Edge(f, d, b).dest = d /\ Edge(f, d, b).by = b
  /\ \A f \in SUBSET ALL, v \in Vertex, b \in Nat : Edge(f, start_pos(v), b) \in EdgeSet /\ Edge(f, end_pos(v), b) \in EdgeSet
BY DEF Edge, EdgeSet, start_pos, end_pos, Pos, Vertex

LEMMA BlocksType == Blocks \subseteq Vertex /\ \A v \in Blocks : v.start <= v.end /\ (v.change = 0 => v = ROOT)
BY IdsType, PositionsType DEF Blocks, Vertex, Vtx, ROOT

LEMMA BlocksFinite == IsFiniteSet(Blocks)
<1> DEFINE D == Ids \X Positions
           E == D \X Positions
           f == [x \in E |-> Vtx(x[1][1], x[1][2], x[2])]
           S == {f[x] : x \in E}
<1>1. IsFiniteSet(D)
  BY IdsType, PositionsType, FS_Product
<1>2. IsFiniteSet(E)
  BY <1>1, PositionsType, FS_Product
<1>3. IsFiniteSet(S)
  <2> HIDE DEF E
  <2>1. f \in Surjection(E, S)
    BY DEF Surjection
  <2> HIDE DEF f, S
  <2> QED BY <1>2, <2>1, FS_Surjection
<1>4. \A c \in Ids, s \in Positions, t \in Positions : Vtx(c, s, t) \in S
  <2> SUFFICES ASSUME NEW c \in Ids, NEW s \in Positions, NEW t \in Positions PROVE Vtx(c, s, t) \in S
    OBVIOUS
  <2>1. <<<<c, s>>, t>> \in E /\ f[<<<<c, s>>, t>>] = Vtx(c, s, t)
    OBVIOUS
  <2> QED BY <2>1
<1>5. IsFiniteSet(S \cup {ROOT})
  BY <1>3, FS_AddElement
<1>6. Blocks \subseteq S \cup {ROOT}
  <2> HIDE DEF S
  <2> QED BY <1>4 DEF Blocks
<1> QED BY <1>5, <1>6, FS_Subset

(* The halves of edges at a block. *)
LEMMA AdjacentIs ==
  ASSUME NEW G, NEW v
  PROVE  iter_adj_all(G, v) = {x[2] : x \in {x \in G : x[1] = v}}
<1>1. \A f : bits(NOFLAG) <= bits(f) /\ bits(f) <= bits(ALL)
  BY DEF bits, NOFLAG, ALL, BLOCK, PSEUDO, FOLDER, PARENT, DELETED
<1>2. {x \in G : x[1] = v /\ bits(NOFLAG) <= bits(x[2].flag) /\ bits(x[2].flag) <= bits(ALL)} = {x \in G : x[1] = v}
  BY <1>1
<1> QED BY <1>2 DEF iter_adj_all, iter_adjacent

-----------------------------------------------------------------------------
(* The inductive invariant: edges between blocks that are apart, each with *)
(* its reverse at the block it leads to.                                   *)
Leads(e, w) == IF PARENT \subseteq e.flag THEN end_pos(w) = e.dest ELSE start_pos(w) = e.dest
Paired(G) == \A x \in G : \E w \in Blocks : Leads(x[2], w) /\ <<w, Reversed(x[1], x[2])>> \in G
GraphTypeOK == graph \subseteq Blocks \X EdgeSet
GInv == GraphTypeOK /\ Apart(Vertices(graph)) /\ Paired(graph)

LEMMA TypedApart == ASSUME GInv PROVE IsApart(Vertices(graph))
<1>1. Vertices(graph) \subseteq Blocks
  BY DEF GInv, GraphTypeOK, Vertices
<1>2. IsFiniteSet(Vertices(graph))
  BY <1>1, BlocksFinite, FS_Subset
<1> QED BY <1>1, <1>2, BlocksType DEF GInv, IsApart

LEMMA Reversal ==
  ASSUME NEW v, NEW e
  PROVE  /\ "PARENT" \in e.flag => Reversed(v, e) = Edge(e.flag \ PARENT, start_pos(v), e.by)
         /\ "PARENT" \notin e.flag => Reversed(v, e) = Edge(e.flag \cup PARENT, end_pos(v), e.by)
         /\ "PARENT" \in Reversed(v, e).flag <=> "PARENT" \notin e.flag
         /\ \A w : Leads(e, w) <=> IF "PARENT" \in e.flag THEN end_pos(w) = e.dest ELSE start_pos(w) = e.dest
BY Flag, EdgeIs DEF Reversed, Leads

(* Blocks apart begin, and end, at different positions. *)
LEMMA ApartStarts ==
  ASSUME NEW V, V \subseteq Blocks, Apart(V), NEW v \in V, NEW w \in V,
         start_pos(v) = start_pos(w) \/ end_pos(v) = end_pos(w)
  PROVE  v = w
<1>1. v \in Vertex /\ w \in Vertex /\ v.start <= v.end /\ w.start <= w.end
  BY BlocksType
<1>2. v.change = w.change /\ (v.start = w.start \/ v.end = w.end)
  BY DEF start_pos, end_pos, Pos
<1>3. v = w \/ Before(v, w) \/ Before(w, v)
  BY <1>2 DEF Apart
<1> QED BY <1>1, <1>2, <1>3 DEF Before, is_empty, Vertex

(* The halves that put_graph_with_rev writes are reverses of each other.   *)
LEMMA HalvesAre ==
  ASSUME NEW f \in SUBSET ALL, "PARENT" \notin f, NEW v \in Blocks, NEW w \in Blocks, NEW by \in Nat
  PROVE  \E a, b \in EdgeSet :
            /\ Halves(f, v, w, by) = {<<v, a>>, <<w, b>>}
            /\ Reversed(v, a) = b /\ Reversed(w, b) = a
            /\ Leads(a, w) /\ Leads(b, v)
            /\ "PARENT" \notin a.flag /\ "PARENT" \in b.flag
<1> DEFINE a == Edge(f, start_pos(w), by)
           b == Edge(f \cup PARENT, end_pos(v), by)
<1>0. /\ a.flag = f /\ a.dest = start_pos(w) /\ a.by = by
      /\ b.flag = f \cup PARENT /\ b.dest = end_pos(v) /\ b.by = by
      /\ "PARENT" \notin a.flag /\ "PARENT" \in b.flag /\ b.flag \ PARENT = f
  BY EdgeIs, Flag
<1>1. Reversed(v, a) = b /\ Reversed(w, b) = a
  <2> HIDE DEF a, b
  <2>1. Reversed(v, a) = Edge(a.flag \cup PARENT, end_pos(v), a.by)
    BY <1>0, Reversal
  <2>2. Reversed(w, b) = Edge(f, start_pos(w), by)
    BY <1>0, Reversal
  <2> QED BY <1>0, <2>1, <2>2 DEF a, b
<1>2. Leads(a, w) /\ Leads(b, v)
  <2> HIDE DEF a, b
  <2> QED BY <1>0, Reversal
<1>3. a \in EdgeSet /\ b \in EdgeSet
  BY EdgeIs, FlagType, BlocksType
<1> HIDE DEF a, b
<1>4. Halves(f, v, w, by) = {<<v, a>>, <<w, b>>}
  BY DEF Halves, a, b
<1> HIDE DEF a, b
<1> QED BY <1>0, <1>1, <1>2, <1>3, <1>4

LEMMA HalvesPaired ==
  ASSUME NEW f \in SUBSET ALL, "PARENT" \notin f, NEW v \in Blocks, NEW w \in Blocks, NEW by \in Nat
  PROVE  Paired(Halves(f, v, w, by)) /\ Halves(f, v, w, by) \subseteq Blocks \X EdgeSet
BY HalvesAre DEF Paired

(* The reverse of the reverse of an edge is the edge. *)
LEMMA ReversedTwice ==
  ASSUME NEW e \in EdgeSet, NEW v, NEW w, Leads(e, w)
  PROVE  Reversed(w, Reversed(v, e)) = e /\ Leads(Reversed(v, e), v)
<1> DEFINE r == Reversed(v, e)
<1>1. CASE "PARENT" \in e.flag
  <2>1. r = Edge(e.flag \ PARENT, start_pos(v), e.by)
    BY <1>1, Reversal
  <2>2. r.flag = e.flag \ PARENT /\ r.dest = start_pos(v) /\ r.by = e.by /\ "PARENT" \notin r.flag
    BY <2>1, EdgeIs, Flag
  <2>3. r.flag \cup PARENT = e.flag
    BY <1>1, <2>2, Flag
  <2>4. end_pos(w) = e.dest
    BY <1>1, Reversal
  <2> HIDE DEF r
  <2>5. Reversed(w, r) = Edge(r.flag \cup PARENT, end_pos(w), r.by)
    BY <2>2, Reversal
  <2>6. Reversed(w, r) = e
    BY <2>2, <2>3, <2>4, <2>5, EdgeIs
  <2>7. Leads(r, v)
    BY <2>2, Reversal
  <2> QED BY <2>6, <2>7 DEF r
<1>2. CASE "PARENT" \notin e.flag
  <2>1. r = Edge(e.flag \cup PARENT, end_pos(v), e.by)
    BY <1>2, Reversal
  <2>2. r.flag = e.flag \cup PARENT /\ r.dest = end_pos(v) /\ r.by = e.by /\ "PARENT" \in r.flag
    BY <2>1, EdgeIs, Flag
  <2>3. r.flag \ PARENT = e.flag
    BY <1>2, <2>2, Flag
  <2>4. start_pos(w) = e.dest
    BY <1>2, Reversal
  <2> HIDE DEF r
  <2>5. Reversed(w, r) = Edge(r.flag \ PARENT, start_pos(w), r.by)
    BY <2>2, Reversal
  <2>6. Reversed(w, r) = e
    BY <2>2, <2>3, <2>4, <2>5, EdgeIs
  <2>7. Leads(r, v)
    BY <2>2, Reversal
  <2> QED BY <2>6, <2>7 DEF r
<1> QED BY <1>1, <1>2

LEMMA PutKeeps ==
  ASSUME GInv, NEW f \in Flags, NEW v \in Blocks, NEW w \in Blocks, NEW by \in Ids \cup {0}, Put(f, v, w, by)
  PROVE  GInv'
<1>1. f \in SUBSET ALL /\ "PARENT" \notin f /\ by \in Nat
  BY FlagsType, IdsType DEF PARENT
<1> DEFINE H == Halves(f, v, w, by)
<1>2. Paired(H) /\ H \subseteq Blocks \X EdgeSet
  BY <1>1, HalvesPaired
<1>3. Vertices(graph') \subseteq Vertices(graph) \cup {v, w} /\ graph' = graph \cup H
  BY DEF Put, put_graph_with_rev, Vertices, Halves
<1> HIDE DEF H
<1>4. Apart(Vertices(graph'))
  BY <1>3 DEF Put, Fits, Apart
<1>5. Paired(graph')
  BY <1>2, <1>3 DEF GInv, Paired
<1>6. GraphTypeOK'
  BY <1>2, <1>3 DEF GInv, GraphTypeOK
<1> QED BY <1>4, <1>5, <1>6 DEF GInv

(* Both halves go, and they are each other's only reverse: between blocks  *)
(* that are apart no other half leads to either.                           *)
LEMMA DelKeeps ==
  ASSUME GInv, NEW f \in Flags, NEW v \in Blocks, NEW w \in Blocks, NEW by \in Ids \cup {0}, Fits(v, w),
         graph' = graph \ Halves(f, v, w, by)
  PROVE  GInv'
<1>1. f \in SUBSET ALL /\ "PARENT" \notin f /\ by \in Nat
  BY FlagsType, IdsType DEF PARENT
<1>2. PICK a \in EdgeSet, b \in EdgeSet :
         /\ Halves(f, v, w, by) = {<<v, a>>, <<w, b>>}
         /\ Reversed(v, a) = b /\ Reversed(w, b) = a
         /\ Leads(a, w) /\ Leads(b, v)
         /\ "PARENT" \notin a.flag /\ "PARENT" \in b.flag
  BY <1>1, HalvesAre
<1>3. Vertices(graph') \subseteq Vertices(graph)
  BY DEF Vertices
<1>4. Apart(Vertices(graph'))
  BY <1>3 DEF GInv, Apart
<1>5. GraphTypeOK'
  BY DEF GInv, GraphTypeOK
<1>6. ASSUME NEW x \in graph' PROVE \E u \in Blocks : Leads(x[2], u) /\ <<u, Reversed(x[1], x[2])>> \in graph'
  <2>1. x \in graph /\ x \in Blocks \X EdgeSet /\ x[1] \in Vertices(graph)
    BY DEF GInv, GraphTypeOK, Vertices
  <2>2. PICK u \in Blocks : Leads(x[2], u) /\ <<u, Reversed(x[1], x[2])>> \in graph
    BY <2>1 DEF GInv, Paired
  <2> DEFINE r == Reversed(x[1], x[2])
             V == Vertices(graph) \cup {v, w}
  <2>3. Reversed(u, r) = x[2] /\ Leads(r, x[1])
    BY <2>1, <2>2, ReversedTwice
  <2>4. V \subseteq Blocks /\ Apart(V) /\ x[1] \in V
    BY <2>1 DEF GInv, GraphTypeOK, Vertices, Fits
  <2> HIDE DEF r, V
  <2>5. ASSUME <<u, r>> = <<v, a>> PROVE FALSE
    <3>0. u = v /\ r = a
      BY <2>5
    <3>1. x[2] = b /\ start_pos(x[1]) = start_pos(w)
      <4>1. Leads(a, x[1]) /\ Leads(a, w) /\ "PARENT" \notin a.flag
        BY <3>0, <2>3, <1>2
      <4>2. x[2] = b
        BY <3>0, <2>3, <1>2
      <4> QED BY <4>1, <4>2, Flag DEF Leads
    <3>2. x[1] = w
      BY <3>1, <2>4, ApartStarts DEF V
    <3> QED BY <3>1, <3>2, <2>1, <1>2
  <2>6. ASSUME <<u, r>> = <<w, b>> PROVE FALSE
    <3>0. u = w /\ r = b
      BY <2>6
    <3>1. x[2] = a /\ end_pos(x[1]) = end_pos(v)
      <4>1. Leads(b, x[1]) /\ Leads(b, v) /\ "PARENT" \in b.flag
        BY <3>0, <2>3, <1>2
      <4>2. x[2] = a
        BY <3>0, <2>3, <1>2
      <4> QED BY <4>1, <4>2, Flag DEF Leads
    <3>2. x[1] = v
      BY <3>1, <2>4, ApartStarts DEF V
    <3> QED BY <3>1, <3>2, <2>1, <1>2
  <2>7. <<u, r>> \in graph'
    BY <2>2, <2>5, <2>6, <1>2 DEF r
  <2> QED BY <2>2, <2>7 DEF r
<1>7. Paired(graph')
  BY <1>6 DEF Paired
<1> QED BY <1>4, <1>5, <1>7 DEF GInv

-----------------------------------------------------------------------------
(* Cutting a block *)

LeftOf(k, pos) == Vtx(k.change, k.start, pos)
RightOf(k, pos) == Vtx(k.change, pos, k.end)
HalfFor(k, pos, e) == IF PARENT \subseteq e.flag THEN LeftOf(k, pos) ELSE RightOf(k, pos)
Moved(k, pos, x) == <<IF x[1] = k THEN HalfFor(k, pos, x[2]) ELSE x[1], x[2]>>
Joint(G, k, pos) ==
  UNION {Halves(x[2].flag \ PARENT, LeftOf(k, pos), RightOf(k, pos), x[2].by) :
            x \in {x \in G : x[1] = k /\ PARENT \cup BLOCK \subseteq x[2].flag}}

(* Every half of an edge at the block moves to one of its halves, the      *)
(* others stay, and edges between the halves are added.                    *)
LEMMA SplitIs ==
  ASSUME NEW G, G \subseteq Blocks \X EdgeSet, NEW k, NEW pos
  PROVE  split_block(G, k, pos) = {Moved(k, pos, x) : x \in G} \cup Joint(G, k, pos)
<1> DEFINE at == {x \in G : x[1] = k}
           edges == iter_adj_all(G, k)
           moved == {<<HalfFor(k, pos, e), e>> : e \in edges}
           joint == UNION {Halves(e.flag \ PARENT, LeftOf(k, pos), RightOf(k, pos), e.by) : e \in {e \in edges : PARENT \cup BLOCK \subseteq e.flag}}
<1>1. edges = {x[2] : x \in at}
  BY AdjacentIs
<1>2. G \ {<<k, e>> : e \in edges} = {x \in G : x[1] # k}
  BY <1>1
<1>3. moved = {Moved(k, pos, x) : x \in at}
  BY <1>1 DEF Moved
<1>4. {Moved(k, pos, x) : x \in {x \in G : x[1] # k}} = {x \in G : x[1] # k}
  BY DEF Moved
<1>5. {Moved(k, pos, x) : x \in G} = {x \in G : x[1] # k} \cup moved
  <2> HIDE DEF moved
  <2> QED BY <1>3, <1>4
<1>6. joint = Joint(G, k, pos)
  <2>1. {e \in edges : PARENT \cup BLOCK \subseteq e.flag} = {x[2] : x \in {x \in G : x[1] = k /\ PARENT \cup BLOCK \subseteq x[2].flag}}
    BY <1>1
  <2> DEFINE S == {x \in G : x[1] = k /\ PARENT \cup BLOCK \subseteq x[2].flag}
             F(e) == Halves(e.flag \ PARENT, LeftOf(k, pos), RightOf(k, pos), e.by)
  <2>2. joint = UNION {F(e) : e \in {x[2] : x \in S}} /\ Joint(G, k, pos) = UNION {F(x[2]) : x \in S}
    BY <2>1 DEF Joint
  <2> HIDE DEF S, F, joint
  <2> QED BY <2>2
<1>7. split_block(G, k, pos) = (G \ {<<k, e>> : e \in edges}) \cup joint \cup moved
  BY DEF split_block, HalfFor, LeftOf, RightOf
<1> HIDE DEF edges, moved, joint
<1> QED BY <1>2, <1>5, <1>6, <1>7

(* A block that can be cut, and its halves. *)
LEMMA CutBlock ==
  ASSUME NEW G, NEW k \in Blocks, NEW pos \in Positions, ~SplitFails(G, k, pos)
  PROVE  /\ k.start < pos /\ pos < k.end
         /\ LeftOf(k, pos) \in Blocks /\ RightOf(k, pos) \in Blocks
         /\ LeftOf(k, pos) # k /\ RightOf(k, pos) # k
         /\ start_pos(LeftOf(k, pos)) = start_pos(k) /\ end_pos(RightOf(k, pos)) = end_pos(k)
         /\ end_pos(LeftOf(k, pos)) = start_pos(RightOf(k, pos))
<1>1. k.start < pos /\ pos < k.end
  BY DEF SplitFails
<1>2. k \in Vertex /\ pos \in Nat
  BY BlocksType, PositionsType
<1>3. k # ROOT
  BY <1>1, <1>2 DEF ROOT, Vertex
<1>4. PICK c \in Ids, s \in Positions, t \in Positions : k = Vtx(c, s, t)
  BY <1>3 DEF Blocks
<1>5. k.change = c /\ k.start = s /\ k.end = t
  BY <1>4 DEF Vtx
<1>6. LeftOf(k, pos) = Vtx(c, s, pos) /\ RightOf(k, pos) = Vtx(c, pos, t)
  BY <1>5 DEF LeftOf, RightOf
<1>7. /\ Vtx(c, s, pos).start <= Vtx(c, s, pos).end /\ Vtx(c, pos, t).start <= Vtx(c, pos, t).end
      /\ Vtx(c, s, pos).end # k.end /\ Vtx(c, pos, t).start # k.start
  BY <1>1, <1>2, <1>5 DEF Vtx, Vertex
<1>8. Vtx(c, s, pos) \in Blocks /\ Vtx(c, pos, t) \in Blocks
  BY <1>7 DEF Blocks
<1>9. Vtx(c, s, pos) # k /\ Vtx(c, pos, t) # k
  BY <1>7
<1> QED BY <1>1, <1>5, <1>6, <1>8, <1>9 DEF start_pos, end_pos, Pos, Vtx

LEMMA CutApart ==
  ASSUME NEW V, V \subseteq Blocks, Apart(V), NEW k \in V, NEW pos \in Positions,
         k.start < pos, pos < k.end
  PROVE  Apart((V \ {k}) \cup {LeftOf(k, pos), RightOf(k, pos)})
<1> DEFINE l == LeftOf(k, pos)
           r == RightOf(k, pos)
<1>1. /\ l.change = k.change /\ l.start = k.start /\ l.end = pos
      /\ r.change = k.change /\ r.start = pos /\ r.end = k.end
  BY DEF LeftOf, RightOf, Vtx
<1>2. k \in Vertex /\ pos \in Nat
  BY BlocksType, PositionsType
<1> HIDE DEF l, r
<1>3. Before(l, r)
  BY <1>1, <1>2 DEF Before, is_empty, Vertex
<1>4. ASSUME NEW u \in V \ {k}, u.change = k.change
      PROVE  /\ Before(u, l) \/ Before(l, u)
             /\ Before(u, r) \/ Before(r, u)
  <2>1. u \in Vertex
    BY BlocksType
  <2>2. Before(u, k) \/ Before(k, u)
    BY <1>4 DEF Apart
  <2>3. CASE Before(u, k)
    BY <2>1, <2>3, <1>1, <1>2 DEF Before, is_empty, Vertex
  <2>4. CASE Before(k, u)
    BY <2>1, <2>4, <1>1, <1>2 DEF Before, is_empty, Vertex
  <2> QED BY <2>2, <2>3, <2>4
<1>5. Apart((V \ {k}) \cup {l, r})
  <2> SUFFICES ASSUME NEW v \in (V \ {k}) \cup {l, r}, NEW w \in (V \ {k}) \cup {l, r}
               PROVE  v = w \/ v.change # w.change \/ Before(v, w) \/ Before(w, v)
    BY DEF Apart
  <2>1. CASE v \in V \ {k} /\ w \in V \ {k}
    BY <2>1 DEF Apart
  <2>2. CASE v \in V \ {k} /\ w \in {l, r}
    BY <2>2, <1>1, <1>4
  <2>3. CASE v \in {l, r} /\ w \in V \ {k}
    BY <2>3, <1>1, <1>4
  <2>4. CASE v \in {l, r} /\ w \in {l, r}
    BY <2>4, <1>3
  <2> QED BY <2>1, <2>2, <2>3, <2>4
<1> QED BY <1>5 DEF l, r

(* The halves of an edge that move keep their reverses: a child leads to   *)
(* where the block began, a parent to where it ended.                      *)
LEMMA MovedKeeps ==
  ASSUME NEW G, G \subseteq Blocks \X EdgeSet, NEW k \in Blocks, NEW pos \in Positions, ~SplitFails(G, k, pos),
         NEW x \in G, NEW w \in Blocks, Leads(x[2], w), <<w, Reversed(x[1], x[2])>> \in G
  PROVE  LET m == Moved(k, pos, x)
             o == Moved(k, pos, <<w, Reversed(x[1], x[2])>>)
         IN  o[1] \in Blocks /\ Leads(m[2], o[1]) /\ o = <<o[1], Reversed(m[1], m[2])>>
<1> DEFINE e == x[2]
           r == Reversed(x[1], e)
           m == Moved(k, pos, x)
           o == Moved(k, pos, <<w, r>>)
<1>1. /\ LeftOf(k, pos) \in Blocks /\ RightOf(k, pos) \in Blocks
      /\ start_pos(LeftOf(k, pos)) = start_pos(k) /\ end_pos(RightOf(k, pos)) = end_pos(k)
  BY CutBlock
<1>2. m[2] = e /\ o[2] = r /\ o = <<o[1], r>>
  BY DEF Moved
<1>3. \A f : PARENT \subseteq f.flag => HalfFor(k, pos, f) = LeftOf(k, pos)
  BY DEF HalfFor
<1>4. \A f : ~(PARENT \subseteq f.flag) => HalfFor(k, pos, f) = RightOf(k, pos)
  BY DEF HalfFor
<1>5. PARENT \subseteq r.flag <=> ~(PARENT \subseteq e.flag)
  BY Reversal, Flag
<1>6. o[1] = IF w = k THEN HalfFor(k, pos, r) ELSE w
  BY DEF Moved
<1>7. m[1] = IF x[1] = k THEN HalfFor(k, pos, e) ELSE x[1]
  BY DEF Moved
<1> HIDE DEF e, r, m, o
<1>8. o[1] \in Blocks
  BY <1>1, <1>3, <1>4, <1>6
<1>9. Leads(e, o[1])
  <2>1. CASE PARENT \subseteq e.flag
    BY <2>1, <1>1, <1>4, <1>5, <1>6 DEF Leads, e
  <2>2. CASE ~(PARENT \subseteq e.flag)
    BY <2>2, <1>1, <1>3, <1>5, <1>6 DEF Leads, e
  <2> QED BY <2>1, <2>2
<1>10. Reversed(m[1], e) = r
  <2>1. CASE PARENT \subseteq e.flag
    <3>1. start_pos(m[1]) = start_pos(x[1])
      BY <2>1, <1>1, <1>3, <1>7
    <3> QED BY <2>1, <3>1 DEF Reversed, r
  <2>2. CASE ~(PARENT \subseteq e.flag)
    <3>1. end_pos(m[1]) = end_pos(x[1])
      BY <2>2, <1>1, <1>4, <1>7
    <3> QED BY <2>2, <3>1 DEF Reversed, r
  <2> QED BY <2>1, <2>2
<1> QED BY <1>2, <1>8, <1>9, <1>10 DEF e, r, m, o

LEMMA SplitKeeps ==
  ASSUME GInv, NEW k \in Vertices(graph), NEW pos \in Positions, Split(k, pos)
  PROVE  GInv'
<1>1. /\ graph \subseteq Blocks \X EdgeSet /\ k \in Blocks /\ ~SplitFails(graph, k, pos)
      /\ graph' = {Moved(k, pos, x) : x \in graph} \cup Joint(graph, k, pos)
  <2>1. graph \subseteq Blocks \X EdgeSet /\ k \in Blocks
    BY DEF GInv, GraphTypeOK, Vertices
  <2> QED BY <2>1, SplitIs DEF Split
<1>2. /\ k.start < pos /\ pos < k.end
      /\ LeftOf(k, pos) \in Blocks /\ RightOf(k, pos) \in Blocks
      /\ LeftOf(k, pos) # k /\ RightOf(k, pos) # k
  BY <1>1, CutBlock
<1>3. ASSUME NEW x \in graph, PARENT \cup BLOCK \subseteq x[2].flag
      PROVE  LET H == Halves(x[2].flag \ PARENT, LeftOf(k, pos), RightOf(k, pos), x[2].by)
             IN  Paired(H) /\ H \subseteq Blocks \X EdgeSet
  <2>1. x[2].flag \ PARENT \in SUBSET ALL /\ "PARENT" \notin x[2].flag \ PARENT /\ x[2].by \in Nat
    <3>1. x[2].flag \in SUBSET ALL /\ x[2].by \in Nat
      BY <1>1 DEF EdgeSet
    <3> QED BY <3>1, FlagType, Flag
  <2> QED BY <2>1, <1>2, HalvesPaired
<1>4. Paired(Joint(graph, k, pos)) /\ Joint(graph, k, pos) \subseteq Blocks \X EdgeSet
  <2> DEFINE H(x) == Halves(x[2].flag \ PARENT, LeftOf(k, pos), RightOf(k, pos), x[2].by)
             S == {x \in graph : x[1] = k /\ PARENT \cup BLOCK \subseteq x[2].flag}
  <2>1. \A x \in S : Paired(H(x)) /\ H(x) \subseteq Blocks \X EdgeSet
    BY <1>3
  <2>2. Joint(graph, k, pos) = UNION {H(x) : x \in S}
    BY DEF Joint
  <2> HIDE DEF H, S
  <2> QED BY <2>1, <2>2 DEF Paired
<1>5. ASSUME NEW x \in graph
      PROVE  \E o \in graph', w \in Blocks :
                Leads(Moved(k, pos, x)[2], w) /\ o = <<w, Reversed(Moved(k, pos, x)[1], Moved(k, pos, x)[2])>>
  <2>1. PICK w \in Blocks : Leads(x[2], w) /\ <<w, Reversed(x[1], x[2])>> \in graph
    BY DEF GInv, Paired
  <2>2. Moved(k, pos, <<w, Reversed(x[1], x[2])>>) \in graph'
    BY <2>1, <1>1
  <2> QED BY <2>1, <2>2, <1>1, MovedKeeps
<1>6. Paired(graph')
  BY <1>1, <1>4, <1>5 DEF Paired
<1>7. \A x \in graph : Moved(k, pos, x) \in Blocks \X EdgeSet /\ Moved(k, pos, x)[1] \in (Vertices(graph) \ {k}) \cup {LeftOf(k, pos), RightOf(k, pos)}
  BY <1>1, <1>2 DEF Moved, HalfFor, Vertices
<1>8. GraphTypeOK'
  BY <1>1, <1>4, <1>7 DEF GraphTypeOK
<1>9. Vertices(graph') \subseteq (Vertices(graph) \ {k}) \cup {LeftOf(k, pos), RightOf(k, pos)}
  <2>1. ASSUME NEW y \in Joint(graph, k, pos) PROVE y[1] \in {LeftOf(k, pos), RightOf(k, pos)}
    <3>1. PICK x \in graph : y \in Halves(x[2].flag \ PARENT, LeftOf(k, pos), RightOf(k, pos), x[2].by)
      BY DEF Joint
    <3> QED BY <3>1 DEF Halves
  <2> QED BY <2>1, <1>1, <1>7 DEF Vertices
<1>10. Apart((Vertices(graph) \ {k}) \cup {LeftOf(k, pos), RightOf(k, pos)})
  <2>1. Vertices(graph) \subseteq Blocks /\ Apart(Vertices(graph))
    BY <1>1 DEF GInv, Vertices
  <2> QED BY <2>1, <1>2, CutApart
<1>11. Apart(Vertices(graph'))
  BY <1>9, <1>10 DEF Apart
<1> QED BY <1>6, <1>8, <1>11 DEF GInv

LEMMA StepKeeps == ASSUME GInv, [Next]_graph PROVE GInv'
<1>1. ASSUME NEW f \in Flags, NEW v \in Blocks, NEW w \in Blocks, NEW by \in Ids \cup {0}, Del(f, v, w, by)
      PROVE  GInv'
  <2>1. ~(PARENT \subseteq f)
    BY FlagsType DEF PARENT
  <2> QED BY <1>1, <2>1, DelKeeps DEF Del, del_graph_with_rev
<1>2. ASSUME NEW f \in Flags, NEW v \in Blocks, NEW w \in Blocks, NEW by \in Ids \cup {0}, Del(f \cup PARENT, v, w, by)
      PROVE  GInv'
  <2>1. PARENT \subseteq f \cup PARENT /\ (f \cup PARENT) \ PARENT = f
    BY FlagsType DEF PARENT
  <2>2. Fits(w, v)
    BY <1>2 DEF Del, Fits
  <2>3. graph' = graph \ Halves(f, w, v, by)
    BY <1>2, <2>1 DEF Del, del_graph_with_rev
  <2> QED BY <2>2, <2>3, DelKeeps
<1>3. CASE UNCHANGED graph
  BY <1>3 DEF GInv, GraphTypeOK
<1> QED BY <1>1, <1>2, <1>3, PutKeeps, SplitKeeps DEF Next

(* Whatever is put, deleted and cut, blocks are apart and every edge has   *)
(* its reverse at the block it leads to.                                   *)
THEOREM GraphInductive == Spec => []GInv
<1>1. Init => GInv
  BY DEF Init, GInv, GraphTypeOK, Vertices, Apart, Paired
<1> QED BY <1>1, StepKeeps, PTL DEF Spec

-----------------------------------------------------------------------------
(* The properties *)

LEMMA Resolved == ASSUME GInv PROVE EdgesResolve
<1> SUFFICES ASSUME NEW x \in graph PROVE <<OtherEnd(graph, x[2]), Reversed(x[1], x[2])>> \in graph
  BY DEF EdgesResolve
<1>1. x \in Blocks \X EdgeSet
  BY DEF GInv, GraphTypeOK
<1>2. PICK w \in Blocks : Leads(x[2], w) /\ <<w, Reversed(x[1], x[2])>> \in graph
  BY DEF GInv, Paired
<1>3. w \in Vertices(graph) /\ w \in Vertex /\ w.start <= w.end /\ (w.change = 0 => w = ROOT)
  BY <1>2, BlocksType DEF Vertices
<1>4. IsApart(Vertices(graph))
  BY TypedApart
<1> DEFINE p == x[2].dest
<1>5. p \in Position
  BY <1>1 DEF EdgeSet, Position
<1>6. CASE PARENT \subseteq x[2].flag
  <2>1. p.change = w.change /\ p.pos = w.end
    BY <1>2, <1>6 DEF Leads, end_pos, Pos
  <2>2. find_block_end(graph, p) = w
    <3>1. CASE p.change = 0
      BY <3>1, <2>1, <1>3 DEF find_block_end
    <3>2. CASE p.change # 0
      <4>1. w = inode_vertex(p) \/ w.start < p.pos
        BY <2>1, <1>3, <1>5 DEF inode_vertex, Vtx, Vertex, Position
      <4>2. HoldsEnd(w, p)
        BY <4>1, <2>1, <1>3 DEF HoldsEnd, Vertex
      <4> QED BY <4>2, <3>2, <1>3, <1>4, <1>5, SearchFindsEnd
    <3> QED BY <3>1, <3>2
  <2> QED BY <2>2, <1>2, <1>6 DEF OtherEnd
<1>7. CASE ~(PARENT \subseteq x[2].flag)
  <2>1. p.change = w.change /\ p.pos = w.start
    BY <1>2, <1>7 DEF Leads, start_pos, Pos
  <2>2. find_block(graph, p) = w
    <3>1. CASE p.change = 0
      BY <3>1, <2>1, <1>3 DEF find_block
    <3>2. CASE p.change # 0
      <4>1. Holds(w, p)
        BY <2>1, <1>3 DEF Holds, is_empty, Vertex
      <4> QED BY <4>1, <3>2, <1>3, <1>4, <1>5, SearchFinds
    <3> QED BY <3>1, <3>2
  <2> QED BY <2>2, <1>2, <1>7 DEF OtherEnd
<1> QED BY <1>6, <1>7

(* Every edge can be followed both ways: the searches in the table lead    *)
(* from each half to the block that has the other half.                    *)
THEOREM EdgesAlwaysResolve == Spec => []EdgesResolve
BY GraphInductive, Resolved, PTL

(* An edge of the graph of bytes is an edge between blocks, or joins the   *)
(* bytes on each side of a position inside a block.                        *)
AcrossEdge(x) == <<end_pos(x[1]), x[2].flag, x[2].dest, x[2].by>>
WithinEdge(x, p) == <<Pos(x[1].change, p), x[2].flag \ PARENT, Pos(x[1].change, p), x[2].by>>
Across(x) == "PARENT" \notin x[2].flag
Within(x, p) == "PARENT" \in x[2].flag /\ BLOCK \subseteq x[2].flag /\ p \in Positions /\ x[1].start < p /\ p < x[1].end

LEMMA ByteEdgesAre ==
  ASSUME NEW G, NEW b
  PROVE  b \in ByteEdges(G) <=> \E x \in G : (Across(x) /\ b = AcrossEdge(x)) \/ \E p : Within(x, p) /\ b = WithinEdge(x, p)
<1>1. b \in ByteEdges(G) <=>
        \/ \E x \in G : ~(PARENT \subseteq x[2].flag) /\ b = AcrossEdge(x)
        \/ \E x \in G : PARENT \cup BLOCK \subseteq x[2].flag /\ \E p \in Positions : x[1].start < p /\ p < x[1].end /\ b = WithinEdge(x, p)
  BY DEF ByteEdges, AcrossEdge, WithinEdge
<1>2. \A x : PARENT \cup BLOCK \subseteq x[2].flag <=> "PARENT" \in x[2].flag /\ BLOCK \subseteq x[2].flag
  BY DEF PARENT
<1> QED BY <1>1, <1>2, Flag DEF Across, Within

(* What a half of an edge at the block means is what its pieces mean.      *)
LEMMA CutMeaning ==
  ASSUME NEW G, G \subseteq Blocks \X EdgeSet, NEW k \in Blocks, NEW pos \in Positions, ~SplitFails(G, k, pos),
         NEW x \in G, x[1] = k
  PROVE  LET m == Moved(k, pos, x)
             f == x[2].flag \ PARENT
             a == <<LeftOf(k, pos), Edge(f, start_pos(RightOf(k, pos)), x[2].by)>>
             c == <<RightOf(k, pos), Edge(f \cup PARENT, end_pos(LeftOf(k, pos)), x[2].by)>>
             doubled == PARENT \cup BLOCK \subseteq x[2].flag
         IN  /\ Across(m) <=> Across(x)
             /\ Across(x) => AcrossEdge(m) = AcrossEdge(x)
             /\ \A p : Within(m, p) <=> Within(x, p) /\ p < pos
             /\ \A p : Within(m, p) => WithinEdge(m, p) = WithinEdge(x, p)
             /\ doubled => /\ Across(a) /\ AcrossEdge(a) = WithinEdge(x, pos) /\ Within(x, pos)
                           /\ \A p : ~Within(a, p)
                           /\ ~Across(c)
                           /\ \A p : Within(c, p) <=> Within(x, p) /\ pos < p
                           /\ \A p : WithinEdge(c, p) = WithinEdge(x, p)
             /\ \A p : Within(x, p) => doubled
<1> DEFINE e == x[2]
           m == Moved(k, pos, x)
           f == e.flag \ PARENT
           l == LeftOf(k, pos)
           r == RightOf(k, pos)
           a == <<l, Edge(f, start_pos(r), e.by)>>
           c == <<r, Edge(f \cup PARENT, end_pos(l), e.by)>>
<1>1. /\ k.start < pos /\ pos < k.end /\ k \in Vertex /\ pos \in Nat
      /\ l.change = k.change /\ l.start = k.start /\ l.end = pos
      /\ r.change = k.change /\ r.start = pos /\ r.end = k.end
  BY CutBlock, BlocksType, PositionsType DEF LeftOf, RightOf, Vtx
<1>2. /\ m[2] = e
      /\ "PARENT" \in e.flag => m[1] = l
      /\ "PARENT" \notin e.flag => m[1] = r
  BY Flag DEF Moved, HalfFor
<1>3. /\ a[1] = l /\ a[2].flag = f /\ a[2].dest = start_pos(r) /\ a[2].by = e.by /\ "PARENT" \notin f
      /\ c[1] = r /\ c[2].flag = f \cup PARENT /\ c[2].by = e.by /\ "PARENT" \in f \cup PARENT
  BY EdgeIs, Flag
<1>4. PARENT \cup BLOCK \subseteq e.flag <=> "PARENT" \in e.flag /\ BLOCK \subseteq e.flag
  BY DEF PARENT
<1>5. "PARENT" \in e.flag => f \cup PARENT = e.flag
  BY Flag
<1>6. (f \cup PARENT) \ PARENT = f /\ f \ PARENT = f
  OBVIOUS
<1>7. \A p \in Positions : p \in Nat
  BY PositionsType
<1>8. end_pos(l) = Pos(k.change, pos) /\ start_pos(r) = Pos(k.change, pos) /\ end_pos(r) = end_pos(k)
  BY <1>1 DEF end_pos, start_pos
<1>0. \A p \in Positions : /\ p < pos => p < k.end
                           /\ pos < p => k.start < p
  BY <1>1, <1>7 DEF Vertex
<1> HIDE DEF l, r, m, a, c, f, e
<1>9. (Across(m) <=> Across(x)) /\ (Across(x) => AcrossEdge(m) = AcrossEdge(x))
  BY <1>2, <1>8 DEF Across, AcrossEdge, e
<1>10. \A p : Within(m, p) <=> Within(x, p) /\ p < pos
  <2>1. CASE "PARENT" \in e.flag
    BY <2>1, <1>0, <1>1, <1>2 DEF Within, e
  <2>2. CASE "PARENT" \notin e.flag
    BY <2>2, <1>2 DEF Within, e
  <2> QED BY <2>1, <2>2
<1>11. \A p : Within(m, p) => WithinEdge(m, p) = WithinEdge(x, p)
  BY <1>1, <1>2 DEF Within, WithinEdge, e
<1>12. ASSUME PARENT \cup BLOCK \subseteq e.flag
       PROVE  /\ Across(a) /\ AcrossEdge(a) = WithinEdge(x, pos) /\ Within(x, pos)
              /\ \A p : ~Within(a, p)
              /\ ~Across(c)
              /\ \A p : Within(c, p) <=> Within(x, p) /\ pos < p
              /\ \A p : WithinEdge(c, p) = WithinEdge(x, p)
  <2>1. Across(a) /\ ~Across(c) /\ \A p : ~Within(a, p)
    BY <1>3 DEF Across, Within
  <2>2. Within(x, pos)
    BY <1>1, <1>4, <1>12 DEF Within, e
  <2>3. AcrossEdge(a) = WithinEdge(x, pos)
    BY <1>3, <1>8 DEF AcrossEdge, WithinEdge, e, f
  <2>4. \A p : Within(c, p) <=> Within(x, p) /\ pos < p
    BY <1>0, <1>1, <1>3, <1>4, <1>5, <1>12 DEF Within, e
  <2>5. \A p : WithinEdge(c, p) = WithinEdge(x, p)
    BY <1>1, <1>3, <1>6 DEF WithinEdge, e, f
  <2> QED BY <2>1, <2>2, <2>3, <2>4, <2>5
<1>13. \A p : Within(x, p) => PARENT \cup BLOCK \subseteq e.flag
  BY <1>4 DEF Within, e
<1> QED BY <1>9, <1>10, <1>11, <1>12, <1>13 DEF l, r, m, a, c, f, e

(* Cutting a block changes nothing of the graph of bytes, in any graph.    *)
THEOREM SplitIsSilent ==
  ASSUME NEW G, G \subseteq Blocks \X EdgeSet, NEW k \in Blocks, NEW pos \in Positions, ~SplitFails(G, k, pos)
  PROVE  ByteEdges(split_block(G, k, pos)) = ByteEdges(G)
<1> DEFINE S == split_block(G, k, pos)
           Means(x, b) == (Across(x) /\ b = AcrossEdge(x)) \/ \E p : Within(x, p) /\ b = WithinEdge(x, p)
           a(x) == <<LeftOf(k, pos), Edge(x[2].flag \ PARENT, start_pos(RightOf(k, pos)), x[2].by)>>
           c(x) == <<RightOf(k, pos), Edge((x[2].flag \ PARENT) \cup PARENT, end_pos(LeftOf(k, pos)), x[2].by)>>
           doubled(x) == PARENT \cup BLOCK \subseteq x[2].flag
<1>1. S = {Moved(k, pos, x) : x \in G} \cup Joint(G, k, pos)
  BY SplitIs
<1>2. \A y : y \in Joint(G, k, pos) <=> \E x \in G : x[1] = k /\ doubled(x) /\ (y = a(x) \/ y = c(x))
  <2> DEFINE H(x) == Halves(x[2].flag \ PARENT, LeftOf(k, pos), RightOf(k, pos), x[2].by)
  <2>1. \A x : H(x) = {a(x), c(x)}
    BY DEF Halves
  <2>2. Joint(G, k, pos) = UNION {H(x) : x \in {x \in G : x[1] = k /\ doubled(x)}}
    BY DEF Joint
  <2> HIDE DEF H, a, c, doubled
  <2> QED BY <2>1, <2>2
<1>3. \A x \in G : x[1] # k => Moved(k, pos, x) = x
  BY DEF Moved
<1>4. ASSUME NEW x \in G, x[1] = k
      PROVE  /\ Across(Moved(k, pos, x)) <=> Across(x)
             /\ Across(x) => AcrossEdge(Moved(k, pos, x)) = AcrossEdge(x)
             /\ \A p : Within(Moved(k, pos, x), p) <=> Within(x, p) /\ p < pos
             /\ \A p : Within(Moved(k, pos, x), p) => WithinEdge(Moved(k, pos, x), p) = WithinEdge(x, p)
             /\ doubled(x) => /\ Across(a(x)) /\ AcrossEdge(a(x)) = WithinEdge(x, pos) /\ Within(x, pos)
                              /\ \A p : ~Within(a(x), p)
                              /\ ~Across(c(x))
                              /\ \A p : Within(c(x), p) <=> Within(x, p) /\ pos < p
                              /\ \A p : WithinEdge(c(x), p) = WithinEdge(x, p)
             /\ \A p : Within(x, p) => doubled(x)
  BY <1>4, CutMeaning
<1>5. \A x, p : Within(x, p) => p \in Nat /\ pos \in Nat
  BY PositionsType DEF Within
<1> HIDE DEF a, c, doubled, S
<1>6. ASSUME NEW b, NEW x \in G, Means(x, b) PROVE \E y \in S : Means(y, b)
  <2>1. CASE x[1] # k
    BY <2>1, <1>1, <1>3, <1>6
  <2>2. CASE x[1] = k /\ Across(x) /\ b = AcrossEdge(x)
    BY <2>2, <1>1, <1>4
  <2>3. ASSUME x[1] = k, NEW p, Within(x, p), b = WithinEdge(x, p)
        PROVE  \E y \in S : Means(y, b)
    <3>1. doubled(x) /\ a(x) \in S /\ c(x) \in S /\ Moved(k, pos, x) \in S
      BY <2>3, <1>1, <1>2, <1>4
    <3>2. CASE p < pos
      BY <3>1, <3>2, <2>3, <1>4
    <3>3. CASE p = pos
      BY <3>1, <3>3, <2>3, <1>4
    <3>4. CASE pos < p
      BY <3>1, <3>4, <2>3, <1>4
    <3>5. p < pos \/ p = pos \/ pos < p
      BY <2>3, <1>5
    <3> QED BY <3>2, <3>3, <3>4, <3>5
  <2> QED BY <2>1, <2>2, <2>3, <1>6
<1>7. ASSUME NEW b, NEW y \in S, Means(y, b) PROVE \E x \in G : Means(x, b)
  <2>1. CASE \E x \in G : y = Moved(k, pos, x)
    <3>1. PICK x \in G : y = Moved(k, pos, x)
      BY <2>1
    <3>2. CASE x[1] # k
      BY <3>1, <3>2, <1>3, <1>7
    <3>3. CASE x[1] = k
      BY <3>1, <3>3, <1>4, <1>7
    <3> QED BY <3>2, <3>3
  <2>2. CASE y \in Joint(G, k, pos)
    <3>1. PICK x \in G : x[1] = k /\ doubled(x) /\ (y = a(x) \/ y = c(x))
      BY <2>2, <1>2
    <3>2. CASE y = a(x)
      BY <3>1, <3>2, <1>4, <1>7
    <3>3. CASE y = c(x)
      BY <3>1, <3>3, <1>4, <1>7
    <3> QED BY <3>1, <3>2, <3>3
  <2> QED BY <2>1, <2>2, <1>1
<1>8. ASSUME NEW b PROVE b \in ByteEdges(S) <=> b \in ByteEdges(G)
  <2>1. b \in ByteEdges(S) <=> \E y \in S : Means(y, b)
    BY ByteEdgesAre
  <2>2. b \in ByteEdges(G) <=> \E x \in G : Means(x, b)
    BY ByteEdgesAre
  <2> HIDE DEF Means
  <2> QED BY <2>1, <2>2, <1>6, <1>7
<1> QED BY <1>8 DEF S

(* In particular in every graph that the callers make. *)
THEOREM SplitsStaySilent == Spec => []SplitsAreSilent
<1>1. GInv => SplitsAreSilent
  BY SplitIsSilent DEF GInv, GraphTypeOK, SplitsAreSilent, Vertices
<1> QED BY <1>1, GraphInductive, PTL
=============================================================================
