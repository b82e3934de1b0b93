---------------------------- MODULE AliveOutput ----------------------------
(***************************************************************************)
(* How a file is written from its alive graph (libpijul/src/alive/output.rs *)
(* and vertex_buffer.rs): the lines in the order of the tree of conflicts, *)
(* with markers around the sides of a conflict, around lines that are both *)
(* alive and deleted (zombies), and around lines in a cycle.  What is      *)
(* written is a sequence of events.                                        *)
(***************************************************************************)
EXTENDS AliveGraph

Text(v) == [is |-> "line", vertex |-> v, id |-> 0, kind |-> "text"]
Marker(is, kind, id) == [is |-> is, vertex |-> BOTTOM, id |-> id, kind |-> kind]

(* Writing: the events, the zombie conflict that is open (0 if none), and   *)
(* the last identifier given to a conflict.                                *)
Nothing == [out |-> <<>>, zombie |-> 0, id |-> 0]
Emit(w, e) == [w EXCEPT !.out = Append(@, e)]
EndZombie(w) == IF w.zombie = 0 THEN w ELSE [Emit(w, Marker("end", "zombie", w.zombie)) EXCEPT !.zombie = 0]

OutputLine(A, w, l) ==
    With(IF l \notin A.zombie THEN EndZombie(w)
         ELSE IF w.zombie # 0 THEN w
         ELSE [Emit(w, Marker("begin", "zombie", w.id + 1)) EXCEPT !.id = @ + 1, !.zombie = w.id + 1],
         LAMBDA u : Emit(u, Text(A.vertex[l])))
output_scc(A, w, lines) ==
    LET cyclic == Len(lines) > 1
        w1 == IF cyclic THEN [Emit(w, Marker("begin", "cyclic", w.id + 1)) EXCEPT !.id = @ + 1] ELSE w
    IN  With(FoldLeft(LAMBDA acc, l : OutputLine(A, acc, l), w1, lines),
             LAMBDA w2 : IF cyclic THEN Emit(w2, Marker("end", "cyclic", w.id)) ELSE w2)

(* The sides of a conflict come by the age of their oldest change.         *)
LeastOf(S) == CHOOSE n \in S : \A m \in S : n <= m
RECURSIVE AgesIn(_, _, _, _)
AgesIn(A, scc, age, x) ==
    IF IsConflict(x)
    THEN UNION {UNION {AgesIn(A, scc, age, x.sides[i].path[j]) : j \in DOMAIN x.sides[i].path} : i \in DOMAIN x.sides}
    ELSE {age[A.vertex[scc[x.scc][i]].change] : i \in DOMAIN scc[x.scc]}
oldest_vertex(A, scc, age, path) == LeastOf(UNION {AgesIn(A, scc, age, path[i]) : i \in DOMAIN path})
SortByAge(A, scc, age, sides) ==
    LET key == [i \in DOMAIN sides |-> oldest_vertex(A, scc, age, sides[i].path)]
        order == InOrder(DOMAIN sides, LAMBDA i, j : key[i] < key[j] \/ (key[i] = key[j] /\ i < j))
    IN  [i \in DOMAIN sides |-> sides[order[i]]]

RECURSIVE output_conflict(_, _, _, _, _, _)
OutputElement(A, scc, age, w, x) ==
    IF IsConflict(x)
    THEN With(EndZombie([w EXCEPT !.id = @ + 1]), LAMBDA w1 : output_conflict(A, scc, age, w1, x.sides, w1.id))
    ELSE output_scc(A, w, scc[x.scc])
(* Mutant: the lines of the next side join the zombie conflict of this one. *)
OutputSideOpen(A, scc, age, w, sides, i, id) ==
    FoldLeft(LAMBDA acc, x : OutputElement(A, scc, age, acc, x),
             IF i > 1 THEN Emit(w, Marker("next", "order", id)) ELSE w, sides[i].path)
OutputSide(A, scc, age, w, sides, i, id) ==
    FoldLeft(LAMBDA acc, x : OutputElement(A, scc, age, acc, x),
             IF i > 1 THEN Emit(EndZombie(w), Marker("next", "order", id)) ELSE w, sides[i].path)
output_conflict(A, scc, age, w, conflict, id) ==
    LET n == Len(conflict)
        Sides(from, sides) == FoldLeft(LAMBDA acc, i : OutputSide(A, scc, age, acc, sides, i, id), from, [i \in 1..n |-> i])
    IN  IF n <= 1 THEN Sides(w, conflict)
        ELSE With(Sides(Emit(w, Marker("begin", "order", w.id)), SortByAge(A, scc, age, conflict)),
                  LAMBDA w2 : Emit(EndZombie(w2), Marker("end", "order", id)))

output_graph(A, age) ==
    IF Len(A.vertex) <= 1 THEN <<>>
    ELSE With(tarjan(A), LAMBDA scc :
              With(output_conflict(A, scc, age, Nothing, <<dfs(A, scc).path>>, 0), LAMBDA w : EndZombie(w).out))

-----------------------------------------------------------------------------
(* What the buffers make of the events.  ConflictsWriter counts lines from *)
(* 1, begins a line before a marker if the last one did not end, and keeps *)
(* the conflicts it announces; one that goes on is looked for from the     *)
(* last, as long as those met are its own.                                 *)
NewConflict(b, e) == [kind |-> e.kind, id |-> e.id, line |-> b.lines, sides |-> 1]
(* Mutant: every conflict announced before gets the new side.              *)
AnnounceToAll(b, e) ==
    CASE e.is = "begin" -> Append(b.conflicts, NewConflict(b, e))
      [] e.is = "next" -> [i \in DOMAIN b.conflicts |-> [b.conflicts[i] EXCEPT !.sides = @ + 1]]
      [] OTHER -> b.conflicts
Announce(b, e) ==
    CASE e.is = "begin" -> Append(b.conflicts, NewConflict(b, e))
      [] e.is = "next" /\ b.conflicts # <<>> /\ Last(b.conflicts).id = e.id ->
            LET own == {i \in DOMAIN b.conflicts : \A j \in i..Len(b.conflicts) : b.conflicts[j].id = e.id}
            IN  [i \in DOMAIN b.conflicts |-> IF i \in own THEN [b.conflicts[i] EXCEPT !.sides = @ + 1] ELSE b.conflicts[i]]
      [] OTHER -> b.conflicts
(* newlines[v] is how many line ends the block v has, unended the set of   *)
(* the blocks that do not end with one.                                    *)
WriteEvent(newlines, unended, b, e) ==
    IF e.is = "line"
    THEN [b EXCEPT !.lines = @ + newlines[e.vertex], !.new_line = IF is_empty(e.vertex) THEN @ ELSE e.vertex \notin unended]
    ELSE [lines |-> b.lines + IF b.new_line THEN 1 ELSE 2, new_line |-> TRUE, conflicts |-> Announce(b, e)]
ConflictsWriter(newlines, unended, events) ==
    FoldLeft(LAMBDA b, e : WriteEvent(newlines, unended, b, e), [lines |-> 1, new_line |-> TRUE, conflicts |-> <<>>], events)
=============================================================================
