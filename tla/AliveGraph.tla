----------------------------- MODULE AliveGraph -----------------------------
(***************************************************************************)
(* The alive part of a file as a graph of lines, and the algorithms that   *)
(* order it (libpijul/src/alive): components, depth-first traversal into a *)
(* tree of conflicts, redundant parents and children.                      *)
(*                                                                         *)
(* An alive graph is a record: vertex, a sequence (line 1 is the line of   *)
(* the code with index 0, the bottom, line 2 the inode), zombie, the lines *)
(* that are zombies, and children, for each line a sequence of pairs of an *)
(* edge and a line, that ends with the bottom, as in the code.             *)
(***************************************************************************)
EXTENDS Graph

BottomLine == 1
NoEdge == Edge(NOFLAG, Pos(0, 1), 0)
Lines(A) == 1..Len(A.vertex)
KidsOf(A, l) == {A.children[l][i][2] : i \in DOMAIN A.children[l]}

ZombieVertex(G, v) ==
    \E e \in iter_adjacent(G, v, PARENT \cup DELETED \cup BLOCK, ALL) : PARENT \cup DELETED \cup BLOCK \subseteq e.flag

(* Depth-first retrieval of the lines below an inode.                      *)
RECURSIVE RetrieveFrom(_, _, _, _)
RetrieveEdge(G, st, vid, e) ==
    LET known == {l \in Lines(st.A) : st.at[l] = e.dest}
        new == Len(st.A.vertex) + 1
        Child(A, l) == [A EXCEPT !.children[vid] = Append(@, <<e, l>>)]
        Line(v, zombies) == [vertex |-> Append(st.A.vertex, v), children |-> Append(st.A.children, <<>>),
                             zombie |-> st.A.zombie \cup zombies]
    IN  IF known # {} THEN [st EXCEPT !.A = Child(@, CHOOSE l \in known : TRUE)]
        ELSE With(find_block(G, e.dest), LAMBDA v :
                  IF ~is_alive(G, v) THEN st
                  ELSE [A |-> Child(Line(v, IF ZombieVertex(G, v) THEN {new} ELSE {}), new),
                        at |-> Append(st.at, e.dest), stack |-> Append(st.stack, new)])
RetrieveFrom(G, st, max, fuel) ==
    IF st.stack = <<>> \/ fuel = 0 THEN st.A
    ELSE LET vid == Last(st.stack)
             edges == {e \in iter_adjacent(G, st.A.vertex[vid], NOFLAG, max) : ~(PARENT \subseteq e.flag)}
         IN  RetrieveFrom(G, [FoldLeft(LAMBDA s, e : RetrieveEdge(G, s, vid, e), [st EXCEPT !.stack = Front(@)], InOrder(edges, ELess))
                              EXCEPT !.A.children[vid] = Append(@, <<NoEdge, BottomLine>>)], max, fuel - 1)
retrieve(G, pos0, include_deleted) ==
    RetrieveFrom(G, [A |-> [vertex |-> <<BOTTOM, inode_vertex(pos0)>>, children |-> <<<<>>, <<>>>>, zombie |-> {}],
                     at |-> <<Pos(0, 1), pos0>>, stack |-> <<2>>],
                 PSEUDO \cup BLOCK \cup (IF include_deleted THEN DELETED ELSE {}), Cardinality(Vertices(G)) + 1)

-----------------------------------------------------------------------------
(* Strongly connected components, in reverse topological order: a sequence *)
(* of sequences of lines.  Component k here is component k - 1 of the code. *)
RECURSIVE Connect(_, _, _)
PopComponent(t, n) ==
    LET at == CHOOSE i \in DOMAIN t.stack : t.stack[i] = n
    IN  [t EXCEPT !.scc = Append(@, Reverse(SubSeq(t.stack, at, Len(t.stack)))), !.stack = SubSeq(@, 1, at - 1)]
(* Mutant: a line of a component already made lowers the link of its parent. *)
VisitChildOffStack(A, t, n, c) ==
    IF t.index[c] = 0
    THEN LET u == Connect(A, t, c) IN [u EXCEPT !.low[n] = IF u.low[c] < @ THEN u.low[c] ELSE @]
    ELSE [t EXCEPT !.low[n] = IF t.index[c] < @ THEN t.index[c] ELSE @]
VisitChild(A, t, n, c) ==
    LET Lower(u) == IF u.low[c] < u.low[n] THEN u.low[c] ELSE u.low[n]
        onstack(u) == \E i \in DOMAIN u.stack : u.stack[i] = c
        Low(u, low) == [u EXCEPT !.low[n] = IF onstack(u) /\ u.index[c] < low THEN u.index[c] ELSE low]
    IN  IF t.index[c] = 0 THEN With(Connect(A, t, c), LAMBDA u : Low(u, Lower(u)))
    ELSE IF (\E i \in DOMAIN t.stack : t.stack[i] = c) /\ t.index[c] < t.low[n]
    THEN [t EXCEPT !.low[n] = t.index[c]] ELSE t
Connect(A, t, n) ==
    LET t1 == [t EXCEPT !.next = @ + 1, !.index[n] = t.next, !.low[n] = t.next, !.stack = Append(@, n)]
    IN  With(FoldLeft(LAMBDA s, ec : VisitChild(A, s, n, ec[2]), t1, A.children[n]),
             LAMBDA u : IF u.low[n] = u.index[n] THEN PopComponent(u, n) ELSE u)
tarjan(A) ==
    IF Len(A.vertex) <= 1 THEN <<<<BottomLine>>>>
    ELSE LET zero == [l \in Lines(A) |-> 0]
         IN  Connect(A, [index |-> zero, low |-> zero, next |-> 1, stack |-> <<>>, scc |-> <<>>], 2).scc
SccOf(scc, l) == CHOOSE k \in DOMAIN scc : \E i \in DOMAIN scc[k] : scc[k][i] = l

-----------------------------------------------------------------------------
(* The traversal of components.  A path is a record of elements, each a    *)
(* component or a conflict between paths, the components in it, and the    *)
(* component where it meets what was visited before.                       *)
Path(path, sccs, end) == [path |-> path, sccs |-> sccs, end |-> end]
EmptyPath == Path(<<>>, {}, 1)
Scc(k) == [scc |-> k, sides |-> <<>>]
Conflict(sides) == [scc |-> 0, sides |-> sides]
IsConflict(x) == x.scc = 0
SccsIn(x) == IF IsConflict(x) THEN UNION {x.sides[i].sccs : i \in DOMAIN x.sides} ELSE {x.scc}

(* Mutant: the beginning also stays where it was.                          *)
create_nested_conflict_uncut(main, side) ==
    LET end == CHOOSE i \in DOMAIN main.path : side.end \in SccsIn(main.path[i]) /\ \A j \in 1..(i - 1) : side.end \notin SccsIn(main.path[j])
        side0 == SubSeq(main.path, 1, end - 1)
        first == Path(side0, UNION {SccsIn(side0[i]) : i \in DOMAIN side0}, side.end)
    IN  [main EXCEPT !.path = <<Conflict(<<first, side>>)>> \o @, !.sccs = @ \cup side.sccs]

(* Mutant: the two sides are taken for lines in order.                     *)
create_nested_conflict_in_line(main, side) ==
    LET end == CHOOSE i \in DOMAIN main.path : side.end \in SccsIn(main.path[i])
    IN  [main EXCEPT !.path = SubSeq(@, 1, end - 1) \o side.path \o SubSeq(@, end, Len(@)), !.sccs = @ \cup side.sccs]

(* A side that ends inside another one makes a conflict with its beginning. *)
create_nested_conflict(main, side) ==
    LET end == CHOOSE i \in DOMAIN main.path : side.end \in SccsIn(main.path[i]) /\ \A j \in 1..(i - 1) : side.end \notin SccsIn(main.path[j])
        side0 == SubSeq(main.path, 1, end - 1)
        first == Path(side0, UNION {SccsIn(side0[i]) : i \in DOMAIN side0}, side.end)
    IN  [main EXCEPT !.path = <<Conflict(<<first, side>>)>> \o SubSeq(@, end, Len(@)), !.sccs = @ \cup side.sccs]

RECURSIVE NestSides(_, _)
NestSides(sides, conflict) ==
    IF sides = <<>> THEN conflict
    ELSE LET side == Last(sides)
             rest == Front(sides)
             within == {i \in DOMAIN rest : side.end \in rest[i].sccs}
             m == CHOOSE i \in within : \A j \in within : i <= j
         IN  IF within = {} THEN NestSides(rest, Append(conflict, side))
             ELSE IF IsConflict(rest[m].path[1]) /\ rest[m].path[1].sides[1].end = side.end
             THEN NestSides([rest EXCEPT ![m].path[1].sides = Append(@, side)], conflict)
             ELSE NestSides([rest EXCEPT ![m] = create_nested_conflict(@, side)], conflict)

SortByEnd(sides) ==
    LET order == InOrder(DOMAIN sides, LAMBDA i, j : sides[i].end < sides[j].end \/ (sides[i].end = sides[j].end /\ i < j))
    IN  [i \in DOMAIN sides |-> sides[order[i]]]

make_conflict(returned, len) ==
    LET main == SubSeq(returned[1].path, 1, len + 1)
        cut == [returned EXCEPT ![1].path = SubSeq(@, len + 2, Len(@))]
        sccs == UNION {returned[i].sccs : i \in DOMAIN returned}
    IN  With(NestSides(SortByEnd(cut), <<>>),
             LAMBDA sides : Path(main \o IF Len(sides) > 1 THEN <<Conflict(sides)>> ELSE sides[1].path, sccs, 1))

(* One component: its descendants from the last on; the first one not yet  *)
(* visited continues the current path, the others begin new ones.          *)
RECURSIVE Traverse(_, _, _, _)
Descendants(A, scc, n) ==
    LET kids == UNION {KidsOf(A, scc[n][i]) : i \in DOMAIN scc[n]}
    IN  {SccOf(scc, c) : c \in kids} \ {n}
(* Mutant: the edge that was followed is met again and taken for redundant. *)
VisitDescendantAgain(A, scc, s, n, child) ==
    IF s.d.first[n] < s.d.first[child]
    THEN [s EXCEPT !.d.forward = @ \cup {<<n, child>>}]
    ELSE LET t == Traverse(A, scc, s.d, [n |-> child, path |-> s.path])
         IN  [d |-> [t.d EXCEPT !.forward = @ \cup {<<n, child>>}], path |-> EmptyPath, returned |-> Append(s.returned, t.path)]
VisitDescendant(A, scc, s, n, child) ==
    IF s.d.first[n] < s.d.first[child]
    THEN IF child > 1 /\ <<n, child>> \notin s.d.regular THEN [s EXCEPT !.d.forward = @ \cup {<<n, child>>}] ELSE s
    ELSE IF s.d.first[child] = 0
    THEN With(Traverse(A, scc, [s.d EXCEPT !.regular = @ \cup {<<n, child>>}], [n |-> child, path |-> s.path]),
              LAMBDA t : [d |-> t.d, path |-> EmptyPath, returned |-> Append(s.returned, t.path)])
    ELSE [s EXCEPT !.d.regular = @ \cup {<<n, child>>}]
Traverse(A, scc, d, call) ==
    LET n == call.n
        desc == Descendants(A, scc, n)
        fresh == {c \in desc : d.first[c] = 0}
        seen == (desc \ fresh) \cup {1}
        end == CHOOSE c \in seen : \A x \in seen : x <= c
        d1 == [d EXCEPT !.first[n] = d.counter, !.counter = @ + 1]
        here == Path(Append(call.path.path, Scc(n)), call.path.sccs \cup {n}, end)
    IN  With(FoldLeft(LAMBDA acc, c : VisitDescendant(A, scc, acc, n, c),
                      [d |-> d1, path |-> here, returned |-> <<>>], InOrder(fresh, LAMBDA a, b : a > b)),
             LAMBDA s :
               IF s.returned = <<>> THEN [d |-> s.d, path |-> here]
               ELSE [d |-> [s.d EXCEPT !.counter = @ + 1],
                     path |-> IF Len(s.returned) = 1 THEN s.returned[1] ELSE make_conflict(s.returned, Len(call.path.path))])
dfs(A, scc) ==
    Traverse(A, scc, [first |-> [k \in DOMAIN scc |-> 0], counter |-> 1, forward |-> {}, regular |-> {}],
             [n |-> Len(scc), path |-> EmptyPath])

-----------------------------------------------------------------------------
(* Pseudo-edges that only repeat an order other edges give.                *)
collect_forward_edges(G, A, scc, forward) ==
    UNION {{<<A.vertex[l], A.children[l][i][1]>> : i \in
                {i \in DOMAIN A.children[l] :
                    /\ A.children[l][i][2] \in ToSet(scc[f[2]]) /\ PSEUDO \subseteq A.children[l][i][1].flag
                    /\ ~test_edge(G, start_pos(A.vertex[l]), A.children[l][i][1].dest, DELETED, DELETED)}}
           : <<f, l>> \in {p \in forward \X Lines(A) : p[2] \in ToSet(scc[p[1][1]])}}
DelForward(G, forward) ==
    FoldSet(LAMBDA ve, g : del_graph_with_rev(g, ve[2].flag, ve[1], find_block(g, ve[2].dest), ve[2].by), G, forward)
remove_forward_edges(G, pos) ==
    With(retrieve(G, pos, FALSE), LAMBDA A :
         With(tarjan(A), LAMBDA scc : DelForward(G, collect_forward_edges(G, A, scc, dfs(A, scc).d.forward))))

(* A retrieved graph is kept while a change is applied, with its lines by  *)
(* vertex and its components; a block that is split keeps its line.        *)
Loaded(A) ==
    With(tarjan(A), LAMBDA scc :
         [A |-> A, scc |-> [l \in Lines(A) |-> SccOf(scc, l)], ids |-> {<<A.vertex[l], l>> : l \in Lines(A)}])
Ids(L, v) == {x[2] : x \in {x \in L.ids : x[1] = v}}
SplitLoaded(L, v, mid) ==
    [L EXCEPT !.ids = {x \in @ : x[1] # v}
                      \cup UNION {{<<[v EXCEPT !.end = mid], l>>, <<[v EXCEPT !.start = mid], l>>} : l \in Ids(L, v)}]

(* Of the children of a deleted block, those reached from another one.     *)
RECURSIVE LinesDown(_, _, _)
LinesDown(L, min, S) ==
    With(S \cup {c \in UNION {KidsOf(L.A, l) : l \in S} : L.scc[c] >= min}, LAMBDA T : IF T = S THEN S ELSE LinesDown(L, min, T))
LeastScc(L, lines) == LET K == {L.scc[l] : l \in lines} IN CHOOSE k \in K : \A j \in K : k <= j
remove_redundant_children(L, vertices, target) ==
    LET from == UNION {Ids(L, v) : v \in vertices}
        visited == IF from = {} THEN {} ELSE LinesDown(L, LeastScc(L, from), from)
        Above(l) == Ids(L, target) = {} \/ \A t \in Ids(L, target) : L.scc[l] < L.scc[t]
    IN  vertices \ {L.A.vertex[c] : c \in UNION {{c \in KidsOf(L.A, l) : L.scc[c] # L.scc[l]} : l \in {l \in visited : Above(l)}}}

(* Of its parents, those from which another one is reached; lines of one   *)
(* component come in an order the code takes from a hash set.              *)
ParentEdge(L, target, tscc, min, s, p, child) ==
    LET covers == L.scc[p] > tscc /\ L.scc[child] # L.scc[p] /\ <<L.A.vertex[child], target>> \in s.covered
    IN  [stack |-> IF L.scc[child] >= min THEN Append(s.stack, <<child, FALSE>>) ELSE s.stack, visited |-> s.visited,
         vertices |-> IF covers THEN s.vertices \ {L.A.vertex[p]} ELSE s.vertices,
         covered |-> IF covers THEN s.covered \cup {<<L.A.vertex[p], target>>} ELSE s.covered]
RECURSIVE ParentsDown(_, _, _, _, _)
ParentsDown(L, target, tscc, min, s) ==
    IF s.stack = <<>> THEN s
    ELSE LET p == Last(s.stack)[1]
             rest == Front(s.stack)
             here == L.A.vertex[p]
             hit == L.scc[p] > tscc /\ (here \in s.vertices \/ <<here, target>> \in s.covered)
             path == IF hit THEN {L.A.vertex[rest[i][1]] : i \in {i \in DOMAIN rest : rest[i][2] /\ L.scc[rest[i][1]] # L.scc[p]}} ELSE {}
             s1 == [stack |-> Append(rest, <<p, TRUE>>), visited |-> s.visited \cup {p},
                    vertices |-> s.vertices \ path, covered |-> s.covered \cup {<<v, target>> : v \in path}]
         IN  ParentsDown(L, target, tscc, min,
                IF p \in s.visited THEN [s EXCEPT !.stack = rest]
                ELSE FoldLeft(LAMBDA t, ec : ParentEdge(L, target, tscc, min, t, p, ec[2]), s1, L.A.children[p]))
remove_redundant_parents(L, vertices, covered, target) ==
    LET from == UNION {Ids(L, v) : v \in vertices}
        order == InOrder(from, LAMBDA l, m : L.scc[l] < L.scc[m] \/ (L.scc[l] = L.scc[m] /\ l < m))
        tscc == IF Ids(L, target) = {} THEN 1 ELSE L.scc[CHOOSE l \in Ids(L, target) : TRUE]
    IN  IF from = {} THEN [vertices |-> vertices, covered |-> covered]
        ELSE With(ParentsDown(L, target, tscc, LeastScc(L, from),
                     [stack |-> [i \in DOMAIN order |-> <<order[i], FALSE>>], visited |-> {}, vertices |-> vertices, covered |-> covered]),
                  LAMBDA s : [vertices |-> s.vertices, covered |-> s.covered])
=============================================================================
