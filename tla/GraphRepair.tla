---------------------------- MODULE GraphRepair ----------------------------
(***************************************************************************)
(* What is repaired after the edges of a change were put (libpijul/src/    *)
(* apply.rs and missing_context.rs): pseudo-edges that keep every alive    *)
(* line reachable from its file, and every alive file from the root.  The  *)
(* code iterates over hash sets; here they come in the order of the table, *)
(* or in the reverse one if rev.                                           *)
(***************************************************************************)
EXTENDS GraphApply

SortV(V, rev) == LET up == InOrder(V, VLess) IN IF rev THEN Reverse(up) ELSE up
Folders == FOLDER \cup PARENT

-----------------------------------------------------------------------------
(* A traversal of a file that attaches the alive lines met below dead ones *)
(* to the last alive line above.  An element of the stack is a line, the   *)
(* last alive line above, and whether it is on the path to the current one. *)
Elt(v, last, on) == [v |-> v, last |-> last, on |-> on]
RECURSIVE RepairLines(_, _, _, _)
PathAbove(stack) ==
    LET on == {i \in DOMAIN stack : stack[i].on}
        live == {i \in on : stack[i].v = stack[i].last}
        stop == IF live = {} THEN 0 ELSE CHOOSE i \in live : \A j \in live : j <= i
    IN  [found |-> live # {}, dead |-> {stack[i].v : i \in {i \in on : i > stop}}]
VisitLine(st, stack, elt, desc, es) ==
    LET alive == \E i \in DOMAIN es : PARENT \subseteq es[i].flag /\ es[i].flag \cap (BLOCK \cup DELETED) = BLOCK
        folder == \E i \in DOMAIN es : FOLDER \subseteq es[i].flag /\ ~(PARENT \subseteq es[i].flag)
        here == IF alive THEN elt.v ELSE elt.last
        below == SelectSeq(es, LAMBDA e : ~(PARENT \subseteq e.flag))
        reached == stack # <<>> /\ elt.v = here
        Kid(e) == Elt(find_block(st.g, e.dest), IF reached THEN elt.v ELSE elt.last, FALSE)
    IN  With(PathAbove(stack), LAMBDA above :
             [st |-> IF reached /\ above.found THEN Put(st, PSEUDO, elt.last, elt.v, 0) ELSE st,
              ended |-> folder,
              stack |-> IF below = <<>> THEN stack
                        ELSE Append(stack, Elt(elt.v, here, TRUE)) \o [i \in DOMAIN below |-> Kid(below[i])],
              desc |-> IF reached THEN desc \cup {<<d, elt.v>> : d \in above.dead} ELSE desc])
RepairLines(st, stack, visited, desc) ==
    IF stack = <<>> \/ ~Ok(st) THEN st
    ELSE LET elt == Last(stack)
             rest == Front(stack)
             known == {d[2] : d \in {d \in desc : d[1] = elt.v}}
         IN  CASE elt.on -> RepairLines(st, rest, visited, desc)
               [] ~elt.on /\ elt.v \in visited -> RepairLines(PutAll(st, PSEUDO, {elt.last}, known, 0), rest, visited, desc)
               [] OTHER -> With(VisitLine(st, rest, elt, desc, SortE(iter_adjacent(st.g, elt.v, NOFLAG, ALL))), LAMBDA new :
                                IF new.ended THEN st ELSE RepairLines(new.st, new.stack, visited \cup {elt.v}, new.desc))
repair_zombies(st, root) == RepairLines(st, <<Elt(inode_vertex(root), inode_vertex(root), FALSE)>>, {}, {})

-----------------------------------------------------------------------------
(* Folders are explored without a set of visited vertices: the search does *)
(* not end on a cycle.  What it found is remembered, also when edges are   *)
(* deleted meanwhile.                                                      *)
BelowFolders(G, v) == iter_adjacent(G, v, NOFLAG, ALL \ (DELETED \cup PARENT))
FolderChildren(G, v) == {find_block(G, e.dest) : e \in {e \in BelowFolders(G, v) : FOLDER \subseteq e.flag}}
AliveBelow(G, v) == \E e \in BelowFolders(G, v) : ~(FOLDER \subseteq e.flag) /\ is_alive(G, find_block(G, e.dest))
RECURSIVE FoldersBelow(_, _)
FoldersBelow(G, S) == With(S \cup UNION {FolderChildren(G, v) : v \in S}, LAMBDA T : IF T = S THEN S ELSE FoldersBelow(G, T))
IsCycle(G, below) == \E v \in below : v \in FoldersBelow(G, FolderChildren(G, v))
LeadsToAlive(G, v) == \E w \in FoldersBelow(G, {v}) : AliveBelow(G, w)
folder_has_alive_descendants(st, b) ==
    LET kept == {x[1] : x \in st.alive_folder}
        Remember(below, true) == {x \in st.alive_folder : x[1] \notin true} \cup (true \X {TRUE}) \cup ((below \ (true \cup kept)) \X {FALSE})
    IN  IF b \in kept THEN [st |-> st, alive |-> <<b, TRUE>> \in st.alive_folder]
        ELSE With(FoldersBelow(st.g, {b}), LAMBDA below :
             IF IsCycle(st.g, below) THEN [st |-> Fail(st, "loops"), alive |-> FALSE]
             ELSE With({v \in below : LeadsToAlive(st.g, v)}, LAMBDA true :
                       [st |-> [st EXCEPT !.alive_folder = Remember(below, true)], alive |-> b \in true]))

(* Pseudo-edges met at deleted lines are deleted if an end of them is dead; *)
(* the files where a repair is needed are collected in st.unknown.         *)
is_inode(G, a) == \E e \in iter_adjacent(G, a, Folders, ALL) : Folders \subseteq e.flag
ToDelete(st, p, a, b, b_is_alive, found) == ~(~Ok(found.st) \/ found.alive \/ (is_empty(a) /\ b_is_alive /\ is_inode(st.g, a)))
CleanEnds(st, p, inode, a, b, a_is_alive, b_is_alive) ==
    IF NONE \in {a, b} \/ (a_is_alive /\ b_is_alive) THEN st
    ELSE With(IF FOLDER \subseteq p.flag THEN folder_has_alive_descendants(st, b) ELSE [st |-> st, alive |-> FALSE], LAMBDA found :
              IF ~ToDelete(st, p, a, b, b_is_alive, found) THEN found.st
              ELSE [DelEdge(found.st, p.flag \ PARENT, a, b, p.by) EXCEPT
                    !.unknown = IF a_is_alive \/ (b_is_alive /\ ~(FOLDER \subseteq p.flag)) THEN @ \cup {inode} ELSE @])
clean_pseudo(st, x) ==
    LET v == x[1]
        p == x[2]
        Other(there) == IF PARENT \subseteq p.flag THEN <<there, v>> ELSE <<v, there>>
    IN  Then(st, LAMBDA s :
        With(Other(IF PARENT \subseteq p.flag THEN find_block_end(s.g, p.dest) ELSE find_block(s.g, p.dest)), LAMBDA ends :
             CleanEnds(s, p, x[3], ends[1], ends[2], is_alive(s.g, ends[1]), is_alive(s.g, ends[2]))))
clean_obsolete_pseudo_edges(st) == FoldLeft(clean_pseudo, [st EXCEPT !.pseudo = <<>>], st.pseudo)

-----------------------------------------------------------------------------
(* Which files need a repair.                                              *)
has_missing_context_nondeleted(G, n) ==
    LET source == find_block_end(G, n.from)
        target == find_block(G, start_pos(n.to))
    IN  ~(FOLDER \subseteq n.flag)
        /\ (is_alive(G, source) /\ BLOCK \subseteq n.flag => iter_adjacent(G, target, DELETED, ALL \ PARENT) # {})

has_unknown_children(G, v, by, known) ==
    \E e \in iter_alive_children(G, v) :
        /\ e.by \notin {by, 0} /\ e.dest.change # 0 /\ e.by \notin known
        /\ \A d \in iter_adjacent(G, v, PARENT \cup DELETED, ALL) : d.by # e.by
RECURSIVE DeletedContext(_, _, _, _, _)
DeletedContext(G, pos, end, by, known) ==
    With(find_block(G, pos), LAMBDA v :
         v # NONE /\ (has_unknown_children(G, v, by, known) \/ (v.end < end /\ DeletedContext(G, Pos(pos.change, v.end), end, by, known))))
has_missing_context_deleted(G, by, known, n) ==
    ~(FOLDER \subseteq n.flag) /\ DeletedContext(G, start_pos(n.to), n.to.end, by, known)

VertexLacksContext(G, by, n) ==
    \/ \E i \in DOMAIN n.up : ~is_alive(G, find_block_end(G, n.up[i]))
    \/ \E i \in DOMAIN n.down : \A e \in iter_adjacent(G, find_block(G, n.down[i]), PARENT, ALL \ DELETED) : e.by = by
EdgesLackContext(G, ch, n) ==
    \E i \in DOMAIN n.edges : IF DELETED \subseteq n.edges[i].flag THEN has_missing_context_deleted(G, ch.id, ch.knows, n.edges[i])
                              ELSE has_missing_context_nondeleted(G, n.edges[i])
collect_missing_contexts(st, ch) ==
    st.unknown \cup {n.inode : n \in {n \in ToSet(atoms(ch)) :
                         \/ n.is = "vertex" /\ ~(FOLDER \subseteq n.flag) /\ VertexLacksContext(st.g, ch.id, n)
                         \/ n.is = "edges" /\ EdgesLackContext(st.g, ch, n)}}

-----------------------------------------------------------------------------
(* A folder that died loses its pseudo-parents, and so do those above.     *)
PseudoAbove(G, w) == SortE(iter_adjacent(G, w, Folders \cup PSEUDO, Folders \cup PSEUDO))
TopsOf(w, up) == [j \in DOMAIN up |-> <<w, up[j]>>]
IsDeadFolder(G, v) ==
    LET held == {e \in iter_adjacent(G, v, Folders, Folders \cup BLOCK) : ~(PSEUDO \subseteq e.flag)}
    IN  v # NONE /\ is_empty(v) /\ held = {} /\ iter_adjacent(G, v, NOFLAG, FOLDER \cup BLOCK \cup PSEUDO) = {}
RECURSIVE DeadFolders(_, _, _, _)
DeadFolders(G, stack, del, fuel) ==
    IF stack = <<>> THEN [del |-> del, loops |-> FALSE]
    ELSE IF fuel = 0 THEN [del |-> del, loops |-> TRUE]
    ELSE With(find_block_end(G, Last(stack)), LAMBDA v :
         IF ~IsDeadFolder(G, v) THEN DeadFolders(G, Front(stack), del, fuel - 1)
         ELSE With(PseudoAbove(G, v), LAMBDA up :
              With(FlattenSeq([i \in DOMAIN up |-> With(find_block_end(G, up[i].dest), LAMBDA w : TopsOf(w, PseudoAbove(G, w)))]), LAMBDA tops :
                   DeadFolders(G, Front(stack) \o [j \in DOMAIN tops |-> tops[j][2].dest],
                               del \cup ToSet(TopsOf(v, up)) \cup ToSet(tops), fuel - 1))))
detect_folder_conflict_resolution(st, inode, n) ==
    LET from == IF ~(FOLDER \subseteq n.flag) THEN inode ELSE IF is_empty(n.to) THEN start_pos(n.to) ELSE n.from
    IN  With(DeadFolders(st.g, <<from>>, {}, 2 * Cardinality(Vertices(st.g)) + 2), LAMBDA d :
             IF d.loops THEN Fail(st, "loops")
             ELSE FoldSet(LAMBDA x, s : DelEdge(s, x[2].flag \ PARENT, find_block_end(s.g, x[2].dest), x[1], x[2].by), st, d.del))
detect_folder_conflict_resolutions(st, ch) ==
    LET deletions == FlattenSeq([i \in DOMAIN atoms(ch) |->
                        LET n == atoms(ch)[i]
                            del == SelectSeq(n.edges, LAMBDA e : DELETED \subseteq e.flag)
                        IN  [j \in DOMAIN del |-> <<n.inode, del[j]>>]])
    IN  FoldLeft(LAMBDA s, x : IF Ok(s) THEN detect_folder_conflict_resolution(s, x[1], x[2]) ELSE s, st, deletions)

-----------------------------------------------------------------------------
(* An alive file is rooted if a path of folder edges that are not deleted  *)
(* goes up to the root; all that was met before is taken for rooted too.   *)
RECURSIVE RootSearch(_, _, _)
RootSearch(st, stack, visited) ==
    IF stack = <<>> THEN [rooted |-> FALSE, st |-> [st EXCEPT !.unrooted = @ \cup visited, !.rooted = @ \ visited]]
    ELSE LET to == Last(stack)
             rest == Front(stack)
             up == SortE(iter_adjacent(st.g, to, Folders, Folders \cup PSEUDO \cup BLOCK))
             seen == visited \cup {to}
             Yes(S) == [rooted |-> TRUE, st |-> [st EXCEPT !.rooted = @ \cup S, !.unrooted = @ \ S]]
         IN  CASE to = ROOT -> Yes(visited)
               [] to # ROOT /\ to \in visited -> RootSearch(st, rest, visited)
               [] to # ROOT /\ to \notin visited /\ to \in st.rooted -> Yes(seen)
               [] to # ROOT /\ to \notin visited /\ to \in st.unrooted -> RootSearch(st, rest, seen)
               [] OTHER -> RootSearch(st, rest \o [i \in DOMAIN up |-> find_block_end(st.g, up[i].dest)], seen)
is_rooted(st, v) ==
    LET alive == \E e \in iter_adj_all(st.g, v) : IF PARENT \subseteq e.flag THEN e.flag \cap (FOLDER \cup DELETED) = FOLDER
                                                  ELSE ~(DELETED \subseteq e.flag)
    IN  IF ~alive THEN [rooted |-> TRUE, st |-> st] ELSE RootSearch(st, <<v>>, {})

(* If not, pseudo-edges are put along a path to the root, or to a rooted   *)
(* folder, deleted edges included; alive folders are tried first.          *)
Step(v, on, del, al) == [v |-> v, on |-> on, del |-> del, al |-> al]
RECURSIVE PathToRoot(_, _, _, _)
PathToRoot(st, to0, stack, visited) ==
    IF stack = <<>> THEN stack
    ELSE LET s == Last(stack)
             rest == Front(stack)
             path == IF s.v = to0 THEN rest ELSE Append(rest, [s EXCEPT !.on = TRUE])
             Above(e, a) == Step(a, FALSE, DELETED \subseteq e.flag, iter_adjacent(st.g, a, Folders, Folders \cup BLOCK \cup PSEUDO) # {})
             Sorted(ups) == SelectSeq(ups, LAMBDA x : ~x.al) \o SelectSeq(ups, LAMBDA x : x.al)
         IN  CASE s.v \in visited -> PathToRoot(st, to0, rest, visited)
               [] s.v \notin visited /\ (s.v = ROOT \/ s.v \in st.rooted) -> path
               [] OTHER -> With(SelectSeq(SortE(iter_adjacent(st.g, s.v, Folders, ALL)), LAMBDA e : PARENT \subseteq e.flag), LAMBDA up :
                                PathToRoot(st, to0, IF up # <<>> THEN path \o Sorted([i \in DOMAIN up |-> Above(up[i], find_block_end(st.g, up[i].dest))])
                                                    ELSE IF path = <<>> THEN path ELSE Front(path), visited \cup {s.v}))
LinkPath(st, to0, path) ==
    FoldLeft(LAMBDA s, i : IF path[i].del THEN Put(s, FOLDER \cup PSEUDO, path[i].v, IF i = 1 THEN to0 ELSE path[i - 1].v, 0) ELSE s,
             st, [i \in DOMAIN path |-> i])
repair_edge(st, to0) ==
    LinkPath(st, to0, SelectSeq(PathToRoot(st, to0, <<Step(to0, TRUE, TRUE, TRUE)>>, {}), LAMBDA s : s.on))

repair_cyclic_path(st, file) ==
    LET below == iter_adjacent(st.g, file, FOLDER, FOLDER \cup BLOCK \cup PSEUDO)
    IN  IF ~Ok(st) \/ (~is_empty(file) /\ below = {}) THEN st
        ELSE With(IF is_empty(file) THEN file ELSE inode_vertex(SortE(below)[1].dest), LAMBDA v :
             IF ~is_empty(v) THEN Fail(st, "assert")
             ELSE With(is_rooted(st, v), LAMBDA r : IF r.rooted THEN r.st ELSE repair_edge(r.st, v)))
repair_cyclic_paths(st, rev) == FoldLeft(repair_cyclic_path, [st EXCEPT !.files = {}], SortV(st.files, rev))

-----------------------------------------------------------------------------
(* The graph after a change is applied: first what it inserts, then what it *)
(* deletes, then the repairs.                                              *)
ApplyAtom(st, ch, aware, n, deleted) ==
    LET edges == SelectSeq(n.edges, LAMBDA e : (DELETED \subseteq e.flag) = deleted)
    IN  IF n.is = "vertex" THEN IF deleted \/ ~Ok(st) THEN st ELSE put_newvertex(st, ch, aware, n)
        ELSE FoldLeft(LAMBDA s, e : IF Ok(s) THEN put_newedge(s, ch.id, ch.id, n.inode, e, Always, ch.knows) ELSE s, st, edges)
SortP(S, rev) ==
    LET up == InOrder(S, PLess) IN IF rev THEN Reverse(up) ELSE up
apply_change_to_channel(G, ch, aware, rev) ==
    Then(FoldLeft(LAMBDA st, deleted : FoldLeft(LAMBDA s, n : ApplyAtom(s, ch, aware, n, deleted), st, atoms(ch)),
                  Workspace(G), <<FALSE, TRUE>>), LAMBDA put :
    With(clean_obsolete_pseudo_edges(put), LAMBDA cleaned :
    Then(FoldLeft(repair_zombies, cleaned, SortP(collect_missing_contexts(cleaned, ch), rev)), LAMBDA repaired :
    Then(detect_folder_conflict_resolutions(repaired, ch), LAMBDA resolved : repair_cyclic_paths(resolved, rev)))))
=============================================================================
