----------------------------- MODULE GraphApply -----------------------------
(***************************************************************************)
(* How a change modifies the graph of a channel (libpijul/src/apply/       *)
(* vertex.rs, apply/edge.rs, apply.rs and missing_context.rs).             *)
(*                                                                         *)
(* A change is a record: id, knows (its dependencies and the changes it    *)
(* says it knows), and hunks, a sequence of records of a kind and a        *)
(* sequence of atoms.  An atom inserts a vertex or maps edges; hashes are  *)
(* already translated into ids, and the file of an atom is a position.     *)
(*                                                                         *)
(* The functions of the code thread a transaction and a workspace; here    *)
(* they take and return a record st: the graph g, err (what stopped the    *)
(* code: "block" for a block not found, "invalid" for an invalid change,   *)
(* "assert" for a panic, "loops" for a loop that does not end), and the    *)
(* fields of the workspace that outlive a call.                            *)
(***************************************************************************)
EXTENDS AliveGraph

NewVertex(inode, flag, up, start, end, down) ==
    [is |-> "vertex", inode |-> inode, flag |-> flag, up |-> up, start |-> start, end |-> end, down |-> down, edges |-> <<>>]
EdgeMap(inode, edges) ==
    [is |-> "edges", inode |-> inode, flag |-> NOFLAG, up |-> <<>>, start |-> 0, end |-> 0, down |-> <<>>, edges |-> edges]
NewEdge(previous, flag, from, to, by) == [previous |-> previous, flag |-> flag, from |-> from, to |-> to, by |-> by]
reverse(n, by) == [n EXCEPT !.previous = n.flag, !.flag = n.previous, !.by = by]
atoms(ch) == FlattenSeq([i \in DOMAIN ch.hunks |-> ch.hunks[i].atoms])

Workspace(G) ==
    [g |-> G, err |-> "", pseudo |-> <<>>, loaded |-> [p \in {} |-> 0], covered |-> {}, files |-> {}, unknown |-> {},
     alive_folder |-> {}, rooted |-> {}, unrooted |-> {}]
Fail(st, e) == IF st.err = "" THEN [st EXCEPT !.err = e] ELSE st
Ok(st) == st.err = ""
(* The ? of the code: the rest of a function runs unless something failed. *)
Then(st, Rest(_)) == IF Ok(st) THEN Rest(st) ELSE st
Put(st, flag, a, b, by) ==
    CASE ~Ok(st) -> st
      [] Ok(st) /\ NONE \in {a, b} -> Fail(st, "block")
      [] OTHER -> IF PutFails(st.g, flag, a, b, by) THEN Fail(st, "assert")
                  ELSE [st EXCEPT !.g = put_graph_with_rev(@, flag, a, b, by)]
DelEdge(st, flag, a, b, by) ==
    CASE ~Ok(st) -> st
      [] Ok(st) /\ NONE \in {a, b} -> Fail(st, "block")
      [] OTHER -> [st EXCEPT !.g = del_graph_with_rev(@, flag, a, b, by)]
PutAll(st, flag, A, B, by) == FoldSet(LAMBDA ab, s : Put(s, flag, ab[1], ab[2], by), st, A \X B)
SortE(E) == InOrder(E, ELess)
Split(st, inode, v, mid) ==
    IF SplitFails(st.g, v, mid) THEN Fail(st, "assert")
    ELSE [st EXCEPT !.g = split_block(@, v, mid),
                    !.loaded = IF inode \in DOMAIN @ THEN [@ EXCEPT ![inode] = SplitLoaded(@, v, mid)] ELSE @]

-----------------------------------------------------------------------------
(* New vertices.                                                           *)
DeletersOf(es, known) == {e.by : e \in {e \in es : PARENT \cup DELETED \cup BLOCK \subseteq e.flag /\ e.by \notin known}}

(* s is a record: st, the vertices of the contexts met so far, the changes *)
(* that deleted them.  The closure of apply_change_ws asks whether the     *)
(* change that deleted a context knows the one applied: aware is the set   *)
(* of the changes that do.                                                 *)
(* Mutant: a block is also cut at its end.                                 *)
is_inside_or_at_end(k, p) == k.start < p /\ p <= k.end
is_inside(k, p) == k.start < p /\ p < k.end
CutContext(st, k, p) ==
    IF k = NONE THEN Fail(st, "block")
    ELSE IF ~is_inside(k, p.pos) THEN st
    ELSE IF DOMAIN st.loaded # {} THEN Fail(st, "assert") ELSE Split(st, p, k, p.pos)
Met(s, v, parents, mixed, known) ==
    [st |-> IF mixed THEN Fail(s.st, "invalid") ELSE s.st,
     ctx |-> Append(s.ctx, v), deleted_by |-> s.deleted_by \cup DeletersOf(parents, known)]
MeetUp(s, flag, aware, v) ==
    LET parents == iter_adjacent(s.st.g, v, PARENT \cup BLOCK, PARENT \cup BLOCK \cup DELETED \cup FOLDER)
        in_file == \E e \in parents : PARENT \subseteq e.flag /\ ~(FOLDER \subseteq e.flag)
    IN  IF Ok(s.st) THEN Met(s, v, parents, in_file /\ FOLDER \subseteq flag, aware) ELSE s
MeetDown(s, flag, ch, v) ==
    LET parents == iter_adjacent(s.st.g, v, PARENT, PARENT \cup FOLDER \cup BLOCK \cup DELETED)
        is_folder == \E e \in parents : PARENT \cup FOLDER \subseteq e.flag
    IN  IF Ok(s.st) THEN Met(s, v, parents, is_folder /\ ~(FOLDER \subseteq flag), ch.knows) ELSE s
put_up_context(s, flag, aware, up) ==
    IF up.change = 0 THEN MeetUp(s, flag, aware, ROOT)
    ELSE With(find_block_end(s.st.g, up), LAMBDA k :
              MeetUp([s EXCEPT !.st = CutContext(@, k, up)], flag, aware, Vtx(k.change, k.start, up.pos)))
put_down_context(s, ch, flag, down) ==
    IF down.change = ch.id THEN [s EXCEPT !.st = Fail(@, "invalid")]
    ELSE With(find_block(s.st.g, down), LAMBDA k :
              MeetDown([s EXCEPT !.st = CutContext(@, k, down)], flag, ch, Vtx(k.change, down.pos, k.end)))
UpContexts(c, flag, aware, up) == FoldLeft(LAMBDA s, p : IF Ok(s.st) THEN put_up_context(s, flag, aware, p) ELSE s, c, up)
DownContexts(c, ch, flag, down) == FoldLeft(LAMBDA s, p : IF Ok(s.st) THEN put_down_context(s, ch, flag, p) ELSE s, c, down)
LinkVertex(st, own, flag, v, ups, downs, deleters) ==
    LET folder == FOLDER \subseteq flag
        dead == FoldSet(LAMBDA d, t : PutAll(t, flag \cup BLOCK \cup DELETED, ups, {v}, d), st, IF folder THEN {} ELSE deleters)
    IN  [PutAll(PutAll(dead, flag \cup BLOCK, ups, {v}, own), IF folder THEN flag ELSE flag \ BLOCK, {v}, downs, own)
         EXCEPT !.files = IF folder THEN @ \cup downs ELSE @]
put_newvertex(st, ch, aware, n) ==
    LET v == Vtx(ch.id, n.start, n.end)
    IN  IF find_block_end(st.g, end_pos(v)) # NONE \/ find_block(st.g, start_pos(v)) # NONE THEN Fail(st, "invalid")
        ELSE With(UpContexts([st |-> st, ctx |-> <<>>, deleted_by |-> {}], n.flag, aware, n.up), LAMBDA up :
             With(DownContexts([up EXCEPT !.ctx = <<>>], ch, n.flag, n.down), LAMBDA down :
             Then(down.st, LAMBDA s : LinkVertex(s, ch.id, n.flag, v, ToSet(up.ctx), ToSet(down.ctx), down.deleted_by))))

-----------------------------------------------------------------------------
(* Edges between blocks of other changes.                                  *)
CutVertex(st, inode, v, cut, pos, flag, part) ==
    CASE v = NONE -> [st |-> Fail(st, "block"), v |-> v]
      [] v # NONE /\ ~cut -> [st |-> st, v |-> v]
      [] OTHER -> IF FOLDER \subseteq flag THEN [st |-> Fail(st, "assert"), v |-> v] ELSE [st |-> Split(st, inode, v, pos), v |-> part]
find_source_vertex(st, from, inode, flag) ==
    With(find_block_end(st.g, from), LAMBDA v :
         CutVertex(st, inode, v, is_inside(v, from.pos), from.pos, flag, [v EXCEPT !.end = from.pos]))
find_target_vertex(st, to, inode, flag) ==
    With(find_block(st.g, start_pos(to)), LAMBDA v :
         CutVertex(st, inode, v, v.start < to.start, to.start, flag, [v EXCEPT !.start = to.start]))

(* A file introduced by the change itself has no graph to load.            *)
check_valid(st, own, inode, n) ==
    IF (BLOCK \subseteq n.previous /\ ~(BLOCK \subseteq n.flag)) \/ ((FOLDER \subseteq n.previous) # (FOLDER \subseteq n.flag))
    THEN Fail(st, "invalid")
    ELSE IF DELETED \subseteq n.flag /\ inode.change # own /\ inode \notin DOMAIN st.loaded
    THEN [st EXCEPT !.loaded = (inode :> Loaded(retrieve(st.g, inode, FALSE))) @@ @]
    ELSE st

collect_nondeleted_zombies(G, known, source, target) ==
    LET Deleters(v) == {e.dest.change : e \in iter_deleted_parents(G, v)} \ known
        children == {e \in iter_adjacent(G, target, NOFLAG, ALL) : ~(PARENT \subseteq e.flag)}
    IN  Deleters(source) \cup IF children = {} THEN {} ELSE Deleters(target)

collect_pseudo_edges(G, v) ==
    LET es == iter_adjacent(G, v, NOFLAG, ALL \ DELETED)
        in_file == {e \in es : ~(FOLDER \subseteq e.flag)}
        parents == {find_block_end(G, e.dest) : e \in {e \in in_file : PARENT \subseteq e.flag}}
        Child(e, c) == BLOCK \subseteq e.flag \/ (is_empty(c) /\ ~(PSEUDO \subseteq e.flag)) \/ is_alive(G, c)
        down == {e \in in_file : ~(PARENT \subseteq e.flag) /\ Child(e, find_block(G, e.dest))}
    IN  [parents |-> {p \in parents : is_alive(G, p)},
         children |-> {find_block(G, e.dest) : e \in down},
         pseudo |-> {e \in es : PSEUDO \subseteq e.flag}]

Bridge(st, up, down, target) ==
    FoldSet(LAMBDA pc, s : Put(s, PSEUDO, pc[1], pc[2], 0), [st EXCEPT !.covered = up.covered \cup (up.vertices \X {target})],
            {pc \in up.vertices \X down : pc[1] # pc[2]})
(* Mutant: nothing is put above the children of a line that is deleted.    *)
reconnect_no_pseudo_edges(st, inode, c, target) == st
reconnect_pseudo_edges(st, inode, c, target) ==
    IF c.parents = {} \/ c.children = {} THEN st
    ELSE IF inode \notin DOMAIN st.loaded THEN Fail(st, "invalid")
    ELSE Bridge(st, remove_redundant_parents(st.loaded[inode], c.parents, st.covered, target),
                remove_redundant_children(st.loaded[inode], c.children, target), target)

(* A change that deletes lines some unknown change attached to others makes *)
(* zombies of those, up to the beginning of their block.                   *)
RECURSIVE ZombifyUp(_, _, _)
ZombifyUp(st, by, v) ==
    With(find_block_end(st.g, start_pos(v)), LAMBDA u :
         IF u \in {NONE, v} THEN [st |-> st, v |-> v] ELSE ZombifyUp(Put(st, DELETED \cup BLOCK, u, v, by), by, u))
HoldZombie(st, by, v) ==
    FoldSet(LAMBDA e, t : Put(t, DELETED \cup BLOCK \cup (e.flag \cap FOLDER), find_block_end(t.g, e.dest), v, by), st,
            {e \in iter_adjacent(st.g, v, PARENT, ALL \ DELETED) : ~(PSEUDO \subseteq e.flag)})
zombify(st, by, inode, edge) ==
    With(find_block_end(st.g, edge.dest), LAMBDA p :
         IF p = NONE THEN Fail(st, "block")
         ELSE With(ZombifyUp([st EXCEPT !.unknown = @ \cup {inode}], by, p), LAMBDA s : HoldZombie(s.st, by, s.v)))
UnknownAbove(G, by, v, known) ==
    {e \in iter_adjacent(G, v, NOFLAG, ALL \ DELETED) : e.by \notin {by, 0} /\ e.dest.change \notin {0} \cup known /\ PARENT \subseteq e.flag}
RECURSIVE ZombieContext(_, _, _, _, _, _)
ZombieContext(st, by, inode, pos, end, known) ==
    With(find_block(st.g, pos), LAMBDA v :
         IF v = NONE \/ ~Ok(st) THEN st
         ELSE With(FoldSet(LAMBDA e, s : zombify(s, by, inode, e), st, UnknownAbove(st.g, by, v, known)), LAMBDA t :
                   IF v.end < end THEN ZombieContext(t, by, inode, Pos(pos.change, v.end), end, known) ELSE t))
collect_zombie_context(st, by, inode, n, known) ==
    IF FOLDER \subseteq n.flag THEN st ELSE ZombieContext(st, by, inode, start_pos(n.to), n.to.end, known)

(* The blocks of an edge, one after the other.  An edge is put only if its *)
(* ends are in the set only, unless that is empty.                         *)
(* Mutant: the last block is not cut where the edge ends.                  *)
ends_after_never(target, n) == FALSE
ends_after(target, n) == target.end > n.to.end
CutTarget(st, inode, n, target) ==
    IF ~ends_after(target, n) THEN st
    ELSE IF FOLDER \subseteq n.flag THEN Fail(st, "assert") ELSE Split(st, inode, target, n.to.end)
Unlink(st, inode, n, target, c) ==
    LET pseudos == SortE(c.pseudo)
        st1 == [st EXCEPT !.pseudo = @ \o [i \in DOMAIN pseudos |-> <<target, pseudos[i], inode>>]]
    IN  IF ~(DELETED \subseteq n.flag) THEN st
        ELSE IF FOLDER \subseteq n.flag THEN st1 ELSE reconnect_pseudo_edges(st1, inode, c, target)
Relink(st, by, flag, source, target, zombies) ==
    FoldSet(LAMBDA i, u : Put(u, DELETED, source, target, i), Put(st, flag, source, target, by), zombies)
RECURSIVE EdgeBlocks(_, _, _, _, _, _, _, _)
Following(st, by, inode, n, checked, known, target, next, zombies) ==
    CASE ~Ok(st) \/ target.end >= n.to.end -> st
      [] Ok(st) /\ target.end < n.to.end /\ next \in {NONE, target} -> Fail(st, IF next = NONE THEN "block" ELSE "assert")
      [] OTHER -> IF ~(BLOCK \subseteq n.flag) THEN st
                  ELSE EdgeBlocks(st, by, inode, n, checked, known, [source |-> target, target |-> next], zombies)
EdgeBlocks(st, by, inode, n, checked, known, s, zombies) ==
    LET target == IF ends_after(s.target, n) THEN [s.target EXCEPT !.end = n.to.end] ELSE s.target
        kept == ~checked.all /\ <<s.source, target>> \notin checked.only
        here == IF n.flag \cap (DELETED \cup FOLDER) # {} THEN {} ELSE collect_nondeleted_zombies(st.g, known, s.source, s.target)
    IN  With(zombies \cup here, LAMBDA z :
        Then(CutTarget(st, inode, n, s.target), LAMBDA cut :
        With(DelEdge(Unlink(cut, inode, n, target, collect_pseudo_edges(cut.g, target)), n.previous, s.source, target, n.by), LAMBDA del :
        With(IF kept THEN del ELSE Relink(del, by, n.flag, s.source, target, z), LAMBDA new :
             Following(new, by, inode, n, checked, known, target, find_block(new.g, end_pos(target)), IF kept THEN z ELSE {})))))
put_newedge(st, by, own, inode, n, checked, known) ==
    LET files(target) == IF FOLDER \subseteq n.flag THEN {target} ELSE {}
    IN  Then(check_valid(st, own, inode, n), LAMBDA valid :
        With(find_source_vertex(valid, n.from, inode, n.flag), LAMBDA source :
        Then(source.st, LAMBDA s :
        With(find_target_vertex(s, n.to, inode, n.flag), LAMBDA target :
        Then(target.st, LAMBDA t :
        With(EdgeBlocks([t EXCEPT !.files = @ \cup files(target.v)], by, inode, n, checked, known,
                        [source |-> source.v, target |-> target.v], {}), LAMBDA new :
             IF Ok(new) /\ DELETED \subseteq n.flag THEN collect_zombie_context(new, by, inode, n, known) ELSE new))))))
Always == [all |-> TRUE, only |-> {}]
=============================================================================
