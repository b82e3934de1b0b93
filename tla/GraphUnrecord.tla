--------------------------- MODULE GraphUnrecord ---------------------------
(***************************************************************************)
(* How a change is taken back from the graph of a channel                  *)
(* (libpijul/src/unrecord/mod.rs): its edges are put back as they were,    *)
(* unless another change removed them too, its vertices are deleted with   *)
(* all their edges, and marks and pseudo-edges it caused are removed.      *)
(* What it does to the tables of files is in module FileUnrecord.          *)
(***************************************************************************)
EXTENDS GraphRepair

(* The atoms of a change from the last, the root's name before its inode.  *)
rev_iter(ch) == FlattenSeq([i \in DOMAIN ch.hunks |->
                    LET h == ch.hunks[Len(ch.hunks) + 1 - i] IN IF h.kind = "root" THEN h.atoms ELSE Reverse(h.atoms)])

(* The changes that introduced the edges a change replaces at a position.  *)
deletes_pos(ch, pos) ==
    LET edges == UNION {ToSet(atoms(ch)[i].edges) : i \in DOMAIN atoms(ch)}
    IN  {e.by : e \in {e \in edges : e.to.change = pos.change /\ e.to.start <= pos.pos /\ pos.pos < e.to.end}}

(* An edge is put back unless a parallel one stands for it: one that comes *)
(* from a change that replaced it, directly or not.                        *)
RECURSIVE ReplacedBy(_, _, _)
ReplacedBy(library, pos, S) ==
    With(S \cup UNION {deletes_pos(library[c], pos) : c \in S \cap DOMAIN library}, LAMBDA T :
         IF T = S THEN S ELSE ReplacedBy(library, pos, T))
(* Mutant: edges are put back whatever else removed them.                  *)
must_reintroduce_all(G, library, a, b, intro, current) == TRUE
must_reintroduce(G, library, a, b, intro, current) ==
    LET parallel == {e \in iter_adj_all(G, a) : ~(PARENT \subseteq e.flag) /\ e.dest = start_pos(b) /\ e.by \notin {0, current}}
        from == {e.by : e \in parallel}
    IN  /\ ~(parallel # {} /\ intro \in {a.change, b.change})
        /\ intro \notin UNION {deletes_pos(library[c], start_pos(b)) : c \in ReplacedBy(library, start_pos(b), from) \cap DOMAIN library}

RECURSIVE Reintroduced(_, _, _, _, _, _)
Reintroduced(st, library, n, current, s, found) ==
    LET here == IF must_reintroduce(st.g, library, s.source, s.target, n.by, current) THEN {<<s.source, s.target>>} ELSE {}
    IN  With(found \cup here, LAMBDA now :
        IF s.target.end >= n.to.end THEN [st |-> st, only |-> now]
        ELSE With(find_block(st.g, end_pos(s.target)), LAMBDA next :
             IF next \in {NONE, s.target} THEN [st |-> Fail(st, IF next = NONE THEN "block" ELSE "assert"), only |-> now]
             ELSE Reintroduced(st, library, n, current, [source |-> s.target, target |-> next], now)))
FindReintroduced(s, library, inode, n, current) ==
    IF ~Ok(s.st) THEN s
    ELSE With(find_source_vertex(s.st, n.from, inode, n.flag), LAMBDA source :
         IF ~Ok(source.st) THEN [s EXCEPT !.st = source.st]
         ELSE With(find_target_vertex(source.st, n.to, inode, n.flag), LAMBDA target :
              IF ~Ok(target.st) THEN [s EXCEPT !.st = target.st]
              ELSE Reintroduced(target.st, library, n, current, [source |-> source.v, target |-> target.v], s.only)))
KnownBack(library, ch, e) == IF DELETED \subseteq e.previous THEN {ch.id} \cup library[e.by].knows ELSE DOMAIN library
unapply_edges(st, library, ch, n) ==
    With(FoldLeft(LAMBDA s, e : FindReintroduced(s, library, n.inode, e, ch.id), [st |-> st, only |-> {}], n.edges), LAMBDA r :
         FoldLeft(LAMBDA s, e : IF ~Ok(s) THEN s
                                ELSE put_newedge(s, e.by, ch.id, n.inode, reverse(e, ch.id), [all |-> FALSE, only |-> r.only], KnownBack(library, ch, e)),
                  r.st, n.edges))

FilesBelow(G, es) == {find_block(G, e.dest) : e \in {e \in es : e.flag \cap (DELETED \cup PARENT) = {} /\ FOLDER \subseteq e.flag}}
DelVertex(st, v, es) ==
    FoldSet(LAMBDA e, s : IF PARENT \subseteq e.flag THEN DelEdge(s, e.flag \ PARENT, find_block_end(s.g, e.dest), v, e.by)
                          ELSE DelEdge(s, e.flag, v, find_block(s.g, e.dest), e.by), st, es)
RECURSIVE unapply_newvertex(_, _, _, _)
unapply_newvertex(st, ch, n, pos) ==
    With(find_block(st.g, pos), LAMBDA v :
         IF v = NONE \/ ~Ok(st) THEN st
         ELSE With(iter_adj_all(st.g, v), LAMBDA es :
              unapply_newvertex(DelVertex([st EXCEPT !.files = @ \cup FilesBelow(st.g, es)], v, es), ch, n,
                                IF v.end < n.end THEN Pos(pos.change, v.end) ELSE pos)))

-----------------------------------------------------------------------------
(* Marks the change left around a zombie: reached from the target of an    *)
(* edge by its own edges, and upwards by parents that are not blocks.      *)
Other(G, e) == IF PARENT \subseteq e.flag THEN find_block_end(G, e.dest) ELSE find_block(G, e.dest)
Followed(e, by) == e.by = by \/ e.flag \cap (BLOCK \cup PARENT) = PARENT
RECURSIVE ZombiesFrom(_, _, _)
ZombiesFrom(G, by, S) ==
    With(S \cup UNION {{Other(G, e) : e \in {e \in iter_adj_all(G, v) : Followed(e, by)}} : v \in S}, LAMBDA T :
         IF T = S THEN S ELSE ZombiesFrom(G, by, T))
collect_zombies(G, by, to) ==
    UNION {{<<v, e>> : e \in {e \in iter_adj_all(G, v) : e.by = by}} : v \in ZombiesFrom(G, by, {find_block(G, to)})}
DelEdges(st, S) ==
    FoldSet(LAMBDA x, s : IF PARENT \subseteq x[2].flag THEN DelEdge(s, x[2].flag \ PARENT, Other(s.g, x[2]), x[1], x[2].by)
                          ELSE DelEdge(s, x[2].flag, x[1], Other(s.g, x[2]), x[2].by), st, S)
remove_zombies(st, ch, n) ==
    FoldLeft(LAMBDA s, e : IF ~Ok(s) THEN s ELSE IF find_block(s.g, start_pos(e.to)) = NONE THEN Fail(s, "block")
                           ELSE DelEdges(s, collect_zombies(s.g, ch.id, start_pos(e.to))), st, n.edges)

-----------------------------------------------------------------------------
(* A file with no alive line below loses its pseudo-edges, those of the    *)
(* dead lines it leads to, and those of the folders above that are dead.   *)
PseudoChild(G, v, t, c) ==
    IF is_alive(G, c) THEN [t EXCEPT !.stack = [i \in DOMAIN @ |-> [@[i] EXCEPT !.alive = @ \/ t.stack[i].on]]]
    ELSE [first |-> FALSE, stack |-> (IF t.first THEN Append(t.stack, [v |-> v, alive |-> FALSE, on |-> TRUE]) ELSE t.stack)
                                     \o <<[v |-> c, alive |-> FALSE, on |-> FALSE]>>]
RECURSIVE PseudoDown(_, _)
PseudoDown(G, s) ==
    IF s.stack = <<>> THEN s
    ELSE LET x == Last(s.stack)
             rest == Front(s.stack)
             pseudo == {<<x.v, e>> : e \in {e \in iter_adj_all(G, x.v) : PSEUDO \subseteq e.flag}}
         IN  CASE x.on -> PseudoDown(G, [stack |-> rest, seen |-> s.seen,
                                         del |-> IF x.alive THEN s.del ELSE s.del \cup pseudo,
                                         up |-> s.up \/ (~x.alive /\ rest = <<>>)])
               [] ~x.on /\ x.v \in s.seen -> PseudoDown(G, [s EXCEPT !.stack = rest])
               [] OTHER -> PseudoDown(G, [s EXCEPT !.seen = @ \cup {x.v}, !.stack =
                                FoldLeft(LAMBDA t, e : PseudoChild(G, x.v, t, find_block(G, e.dest)), [first |-> TRUE, stack |-> rest],
                                         SortE(iter_alive_children(G, x.v))).stack])
(* The edges of a vertex come in order: those before a parent that is      *)
(* neither deleted nor pseudo are forgotten.                               *)
RECURSIVE PseudoUp(_, _)
PseudoUp(G, s) ==
    IF s.stack = <<>> THEN s
    ELSE LET v == Last(s.stack)
             rest == Front(s.stack)
             parents == {e \in iter_adj_all(G, v) : PARENT \subseteq e.flag}
             real == {e \in parents : e.flag \cap (PSEUDO \cup DELETED) = {}}
             first == {e \in parents : \A r \in real : ELess(e, r)}
             in_file == {e \in (IF real = {} THEN parents ELSE first \cup {e \in real : \A r \in real : ~ELess(r, e)}) : ~(FOLDER \subseteq e.flag)}
         IN  IF v \in s.seen THEN PseudoUp(G, [s EXCEPT !.stack = rest])
             ELSE IF in_file # {} THEN [s EXCEPT !.failed = TRUE, !.stack = <<>>]
             ELSE IF real # {} THEN PseudoUp(G, [s EXCEPT !.stack = rest, !.seen = @ \cup {v}])
             ELSE PseudoUp(G, [failed |-> FALSE, seen |-> s.seen \cup {v},
                               stack |-> rest \o SelectSeq(With(SortE(parents), LAMBDA up : [i \in DOMAIN up |-> find_block_end(G, up[i].dest)]), LAMBDA u : u # NONE),
                               del |-> s.del \cup {<<v, e>> : e \in {e \in parents : PSEUDO \subseteq e.flag}}])
collect_zombies_pseudo(G, to) ==
    LET From(v) == IF v = NONE THEN <<>> ELSE <<[v |-> v, alive |-> FALSE, on |-> FALSE]>>
    IN  With(PseudoDown(G, [stack |-> From(find_block(G, to)), seen |-> {}, del |-> {}, up |-> FALSE]), LAMBDA down :
        IF ~down.up THEN [del |-> down.del, failed |-> FALSE]
        ELSE With(PseudoUp(G, [stack |-> <<find_block(G, to)>>, seen |-> {}, del |-> {}, failed |-> FALSE]), LAMBDA up :
                  [del |-> down.del \cup up.del, failed |-> up.failed]))
CleanInode(st, inode) ==
    Then(st, LAMBDA s :
    With(collect_zombies_pseudo(s.g, inode), LAMBDA c :
         IF c.failed THEN Fail(s, "assert")
         ELSE repair_zombies(FoldSet(LAMBDA x, t : IF Other(t.g, x[2]) = NONE THEN t ELSE DelEdges(t, {x}), s, c.del), inode)))

-----------------------------------------------------------------------------
UnapplyAtom(s, library, ch, n) ==
    LET Linked(st) == IF n.inode \in s.clean THEN st ELSE [st EXCEPT !.g = remove_forward_edges(@, n.inode)]
    IN  IF ~Ok(s.st) THEN s
        ELSE IF n.is = "edges" THEN [s EXCEPT !.st = unapply_edges(@, library, ch, n)]
        ELSE [st |-> unapply_newvertex(Linked(s.st), ch, n, Pos(ch.id, n.start)), clean |-> s.clean \cup {n.inode}]
(* Edges and vertices are undone first, then marks; the tables of files    *)
(* are mended in between, for the graph as it is then.                     *)
unapply_atoms(G, library, ch) ==
    With(rev_iter(ch), LAMBDA hunks :
    Then(FoldLeft(LAMBDA s, n : UnapplyAtom(s, library, ch, n), [st |-> Workspace(G), clean |-> {}], hunks).st, LAMBDA undone :
         FoldLeft(LAMBDA s, n : IF n.is = "edges" THEN remove_zombies(s, ch, n) ELSE s, undone, hunks)))
unapply_repairs(unmarked, ch, rev) ==
    Then(FoldLeft(CleanInode, unmarked, SortP({atoms(ch)[i].inode : i \in DOMAIN atoms(ch)}, rev)), LAMBDA cleaned :
    Then(clean_obsolete_pseudo_edges(cleaned), LAMBDA repaired : repair_cyclic_paths(repaired, rev)))
unapply(G, library, ch, rev) ==
    Then(unapply_atoms(G, library, ch), LAMBDA unmarked : unapply_repairs(unmarked, ch, rev))
=============================================================================
