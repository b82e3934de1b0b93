------------------------------ MODULE MCAlive ------------------------------
(***************************************************************************)
(* Files of a few lines, each inserted by a change of its own, that other  *)
(* changes order, reattach, delete and undelete in every way.              *)
(***************************************************************************)
EXTENDS AliveOutput

CONSTANTS NLines,     \* number of lines of the file
          MaxUnusual  \* how many changes order a line above an earlier one, or
                      \* delete a line while another keeps it

VARIABLE graph
vars == <<graph>>

Inode == Pos(1, 0)
TheLines == 1..NLines
Line(i) == Vtx(i + 1, 0, 1)
Above == {p \in TheLines \X TheLines : p[1] # p[2] /\ find_block(graph, start_pos(Line(p[2]))) = Line(p[2])
             /\ \E e \in iter_alive_children(graph, Line(p[1])) : e.dest = start_pos(Line(p[2]))}
Zombies == {i \in TheLines : ZombieVertex(graph, Line(i))}
Unusual == Cardinality({p \in Above : p[1] > p[2]}) + Cardinality(Zombies)
AtTop(i) == Edge(BLOCK, start_pos(Line(i)), i + 1) \in iter_alive_children(graph, inode_vertex(Inode))

(* Every line was inserted at the beginning of the file.                   *)
Init == graph = UNION {Halves(BLOCK, inode_vertex(Inode), Line(i), i + 1) : i \in TheLines}

(* A change inserted line i with line j below it.                          *)
Order(i, j) ==
    /\ i # j /\ <<i, j>> \notin Above
    /\ i < j \/ Unusual < MaxUnusual
    /\ graph' = put_graph_with_rev(graph, NOFLAG, Line(i), Line(j), i + 1)

(* Line j was inserted below line i, an older one, and not at the          *)
(* beginning.                                                              *)
Below(i, j) ==
    /\ i < j /\ <<i, j>> \in Above /\ AtTop(j)
    /\ \A k \in 1..(i - 1) : <<k, j>> \notin Above
    /\ graph' = del_graph_with_rev(del_graph_with_rev(graph, BLOCK, inode_vertex(Inode), Line(j), j + 1), NOFLAG, Line(i), Line(j), i + 1)
                \cup Halves(BLOCK, Line(i), Line(j), j + 1)

(* A change that did not know what follows line i deleted it.              *)
Zombify(i) ==
    /\ i \notin Zombies /\ Unusual < MaxUnusual
    /\ \E e \in iter_adjacent(graph, Line(i), PARENT \cup BLOCK, PARENT \cup BLOCK) :
          graph' = put_graph_with_rev(graph, DELETED \cup BLOCK, find_block_end(graph, e.dest), Line(i), NLines + 2)

Next == (\E i, j \in TheLines : Order(i, j) \/ Below(i, j)) \/ \E i \in TheLines : Zombify(i)
Spec == Init /\ [][Next]_vars

-----------------------------------------------------------------------------
Alive == retrieve(graph, Inode, FALSE)
Age == [c \in 1..(NLines + 2) |-> c]
Reach(rel, from) ==
    LET R[n \in 0..(NLines + 2)] == IF n = 0 THEN from ELSE LET S == R[n - 1] IN S \cup {p[2] : p \in {p \in rel : p[1] \in S}}
    IN  R[NLines + 2]
Rel(A) == {p \in Lines(A) \X Lines(A) : p[2] \in KidsOf(A, p[1])}
Reached(A) == With(Rel(A), LAMBDA rel : [l \in Lines(A) |-> Reach(rel, {l})])

(* Lines are in one component exactly when each comes before the other, and *)
(* components come in reverse order of the edges (tarjan.rs).              *)
ComponentsCorrect ==
    With(Alive, LAMBDA A : With(tarjan(A), LAMBDA scc : With(Reached(A), LAMBDA reach :
        /\ \A l, m \in reach[2] : (SccOf(scc, l) = SccOf(scc, m)) <=> (l \in reach[m] /\ m \in reach[l])
        /\ \A p \in Rel(A) : SccOf(scc, p[2]) <= SccOf(scc, p[1]))))

(* No line is lost or written twice, whatever the shape of the conflicts   *)
(* (make_conflict and create_nested_conflict in dfs.rs).                   *)
EveryLineOnce ==
    With(output_graph(Alive, Age), LAMBDA out :
         With({i \in DOMAIN out : out[i].is = "line" /\ out[i].vertex \notin {BOTTOM, inode_vertex(Inode)}}, LAMBDA lines :
              /\ {out[i].vertex : i \in lines} = {Line(i) : i \in TheLines}
              /\ Cardinality(lines) = NLines))

(* The tree has a conflict exactly when two lines are not ordered.         *)
ConflictIffUnordered ==
    With(Alive, LAMBDA A : With(dfs(A, tarjan(A)).path.path, LAMBDA path : With(Reached(A), LAMBDA reach :
        (\E i \in DOMAIN path : IsConflict(path[i])) <=> \E l, m \in reach[2] : l \notin reach[m] /\ m \notin reach[l])))

(* An edge taken for redundant only repeats the order of other edges, so   *)
(* remove_forward_edges and the output may delete it.                      *)
ForwardAreRedundant ==
    With(Alive, LAMBDA A : With(tarjan(A), LAMBDA scc : With(dfs(A, scc).d.forward, LAMBDA forward :
        With({<<SccOf(scc, p[1]), SccOf(scc, p[2])>> : p \in Rel(A)} \ forward, LAMBDA rel :
             \A f \in forward : f[2] \in Reach(rel, {f[1]})))))

(* Without cycles, markers of the conflicts are balanced and nested.       *)
Nested(out) ==
    LET Step(s, e) == CASE e.is = "line" -> s
                        [] e.is = "begin" -> Append(s, <<e.kind, e.id>>)
                        [] e.is = "next" -> IF s # <<>> /\ Last(s) = <<"order", e.id>> THEN s ELSE <<<<"broken", 0>>>> \o s
                        [] e.is = "end" -> IF s # <<>> /\ Last(s) = <<e.kind, e.id>> THEN Front(s) ELSE <<<<"broken", 0>>>> \o s
    IN  FoldLeft(Step, <<>>, out) = <<>>
Acyclic(scc) == \A k \in DOMAIN scc : Len(scc[k]) = 1
MarkersNested == With(Alive, LAMBDA A : Acyclic(tarjan(A)) => With(output_graph(A, Age), LAMBDA out : Nested(out)))

MarkersOf(out, id, is) == {i \in DOMAIN out : out[i].id = id /\ out[i].is = is /\ out[i].kind = "order"}
Simple(out, id) == \A i \in MarkersOf(out, id, "begin"), j \in MarkersOf(out, id, "next") :
                      \A k \in i..j : out[k].is # "line" => out[k].id = id
(* A conflict is announced with all its sides when no conflict is inside   *)
(* the sides before the last one (conflict_next in vertex_buffer.rs).      *)
SidesAnnounced ==
    With(output_graph(Alive, Age), LAMBDA out :
      With(ConflictsWriter([v \in Vertices(graph) \cup {BOTTOM} |-> v.end - v.start], {}, out), LAMBDA b :
        \A k \in DOMAIN b.conflicts : b.conflicts[k].kind = "order" /\ Simple(out, b.conflicts[k].id) =>
            b.conflicts[k].sides = Cardinality(MarkersOf(out, b.conflicts[k].id, "next")) + 1))
(* The markers of conflicts in a file, and what the user is told of them,  *)
(* are those of the conflicts in the graph.                                *)
MarkersSound == MarkersNested /\ SidesAnnounced
=============================================================================
