----------------------------- MODULE FileRecord -----------------------------
(***************************************************************************)
(* Recording a working copy (libpijul/src/record.rs): what is tracked and   *)
(* new is added, what is tracked and gone from the disk or gone from the    *)
(* tables is deleted, what has another name is moved.                      *)
(*                                                                         *)
(* A context c is a record: own, the identifier of the change; graph and   *)
(* log of the channel; library; tables; disk, from the paths that exist to *)
(* what is there, dir and lines.  A name is a record of name and dir.  All *)
(* vertices of folders have one byte or none.                              *)
(***************************************************************************)
EXTENDS Record, Inodes

file_meta(c, v) == c.library[v.change].text[v.start]
age_of(c, change) == CHOOSE i \in DOMAIN c.log : c.log[i] = change
OnDisk(c, path) == path \in DOMAIN c.disk

(* Edges of folders at a vertex, in the order of the table.                *)
ParentsOf(G, v) == SelectSeq(SortE(iter_adjacent(G, v, FOLDER \cup PARENT, ALL)), LAMBDA e : PARENT \subseteq e.flag)
ChildrenOf(G, v) == SortE(iter_adjacent(G, v, FOLDER \cup BLOCK, FOLDER \cup BLOCK \cup PSEUDO))
Concat(s, Op(_)) == FlattenSeq([i \in DOMAIN s |-> Op(s[i])])

(* The position of an inode, if it is in this channel at all.              *)
get_inodes_in_channel(c, inode) ==
    LET pos == get_inodes(c.tables, inode)
        es == SortE(iter_adjacent(c.graph, inode_vertex(pos), PARENT, ALL))
    IN  IF pos = NoPos THEN NoPos
        ELSE IF es = <<>> THEN NoPos
        ELSE IF PARENT \subseteq es[1].flag THEN pos ELSE NoPos

-----------------------------------------------------------------------------
(* What is recorded: recs, each a sequence of hunks; updates, from the     *)
(* number of a rec and a number of hunks to what happens to the tables;    *)
(* known, where each inode goes; gone, the vertices deleted; root, where   *)
(* additions at the root go; stack, what is still to be looked at; work,   *)
(* existing files to be compared.                                          *)
Builder == [recs |-> <<>>, len |-> 0, text |-> [p \in {} |-> 0], panic |-> FALSE,
            updates |-> [k \in {} |-> 0], known |-> [i \in {} |-> NoPos], gone |-> {}, root |-> <<>>,
            stack |-> <<[inode |-> ROOTInode, papa |-> ROOTInode, v_papa |-> RootPos, name |-> 0, dir |-> TRUE, path |-> <<>>]>>,
            work |-> <<>>]
recorded(b) == [b EXCEPT !.recs = Append(@, <<>>)]
Panic(b) == [b EXCEPT !.panic = TRUE]
AsRec(b, i) == [hunks |-> b.recs[i], len |-> b.len, text |-> b.text, panic |-> b.panic]
WithRec(b, i, r) == [b EXCEPT !.recs[i] = r.hunks, !.len = r.len, !.text = r.text, !.panic = r.panic]
PushOn(b, i, h) == WithRec(b, i, Push(AsRec(b, i), h))
Update(b, i, n, u) == [b EXCEPT !.updates = (<<i, n>> :> u) @@ @]
AddUpdate(inode, pos) == [is |-> "add", inode |-> inode, pos |-> pos]
DeletedUpdate(inode) == [is |-> "deleted", inode |-> inode, pos |-> NoPos]

(* Additions at the root go under the root this channel got last, or under *)
(* a new one.                                                              *)
root_if_needed(c, b, i, v_papa) ==
    LET r == add_root_if_needed(AsRec(b, i), c.own, RootPos)
    IN  IF v_papa # RootPos THEN [b |-> b, papa |-> v_papa]
        ELSE IF b.root # <<>> THEN [b |-> b, papa |-> b.root[1]]
        ELSE [b |-> Update([WithRec(b, i, r.rec) EXCEPT !.root = <<r.papa, -1>>], i, Len(r.rec.hunks), AddUpdate(ROOTInode, r.papa)),
              papa |-> r.papa]
(* A file that is not a directory is not remembered as known.              *)
record_added_file(c, b0, item) ==
    With(root_if_needed(c, b0, Len(b0.recs), item.v_papa), LAMBDA r :
    With(AddFileAt(AsRec(r.b, Len(b0.recs)), c.own, r.papa, item.v_papa, [name |-> item.name, dir |-> item.dir],
                   c.disk[item.path].lines, ~item.dir), LAMBDA f :
    With(Update(WithRec(r.b, Len(b0.recs), f.rec), Len(b0.recs), Len(f.rec.hunks), AddUpdate(item.inode, f.inode)), LAMBDA b :
         [b |-> IF item.dir THEN [b EXCEPT !.known = (item.inode :> f.inode) @@ @] ELSE b, pos |-> f.inode])))

-----------------------------------------------------------------------------
(* Deletions: an inode loses all the edges of its names, its lines theirs. *)
DelFlag == FOLDER \cup BLOCK \cup DELETED
NotPseudo(es) == SelectSeq(es, LAMBDA e : ~(PSEUDO \subseteq e.flag))
Deleting(e, to) == NewEdge(e.flag \ PARENT, DelFlag, e.dest, to, e.by)
DeleteName(c, v, e) ==
    With(find_block_end(c.graph, e.dest), LAMBDA name :
    With(NotPseudo(ParentsOf(c.graph, name)), LAMBDA tops :
         [k \in DOMAIN tops |-> Deleting(tops[k], name)] \o (IF PSEUDO \subseteq e.flag THEN <<>> ELSE <<Deleting(e, v)>>)))
delete_inode_vertex(c, b, i, v) ==
    With(Concat(ParentsOf(c.graph, v), LAMBDA e : DeleteName(c, v, e)), LAMBDA edges :
         IF edges = <<>> THEN b ELSE PushOn(b, i, Hunk("file_del", 0, <<EdgeMap(start_pos(v), edges)>>)))
DeleteLine(e, to) == NewEdge(e.flag \ PARENT, (e.flag \ PARENT) \cup DELETED, e.dest, to, e.by)
delete_file_edge(c, b, i, to, inode) ==
    LET h == Last(b.recs[i])
        old == IF Len(h.atoms) > 1 THEN h.atoms[2].edges ELSE <<>>
        es == NotPseudo(SortE(iter_adjacent(c.graph, to, PARENT, ALL \ DELETED)))
    IN  IF b.recs[i] = <<>> \/ (b.recs[i] # <<>> /\ h.kind # "file_del") THEN Panic(b)
        ELSE With(old \o Concat(es, LAMBDA e : <<DeleteLine(e, to)>>), LAMBDA edges :
                  [b EXCEPT !.recs[i] = Append(Front(@), [h EXCEPT !.atoms = <<@[1]>> \o (IF edges = <<>> THEN <<>> ELSE <<EdgeMap(inode, edges)>>)])])
RECURSIVE DeleteFrom_(_, _, _, _, _)
DeleteVertex(c, b, i, v, inode) ==
    LET own == get_revinodes(c.tables, start_pos(v))
        b1 == [b EXCEPT !.gone = @ \cup {start_pos(v)}]
        b2 == IF own = NoInode THEN b1
              ELSE Update([b1 EXCEPT !.known = (own :> start_pos(v)) @@ @], i, Len(b.recs[i]) + 1, DeletedUpdate(own))
    IN  IF inode # NoPos THEN delete_file_edge(c, b, i, v, inode)
        ELSE IF is_empty(v) THEN delete_inode_vertex(c, b2, i, v) ELSE b
(* The vertices below, each once, with the file they are lines of.         *)
NextToDelete(c, v, inode, es, visited) ==
    LET To(e) == [v |-> find_block(c.graph, e.dest), at |-> e.dest,
                  inode |-> IF inode # NoPos THEN inode ELSE IF FOLDER \subseteq e.flag THEN NoPos ELSE start_pos(v)]
        first(k) == es[k].dest \notin visited /\ \A j \in 1..(k - 1) : es[j].dest # es[k].dest
    IN  Concat([k \in DOMAIN es |-> k], LAMBDA k : IF first(k) THEN <<To(es[k])>> ELSE <<>>)
DeleteBelow(c, b, i, v, inode, rest, visited) ==
    With(SortE(iter_adjacent(c.graph, v, NOFLAG, ALL \ (DELETED \cup PARENT))), LAMBDA es :
    With(DeleteVertex(c, b, i, v, inode), LAMBDA b1 :
         IF \E k \in DOMAIN es : IF inode # NoPos THEN FOLDER \subseteq es[k].flag ELSE ~(FOLDER \subseteq es[k].flag) /\ ~is_empty(v)
         THEN Panic(b1)
         ELSE DeleteFrom_(c, b1, i, rest \o NextToDelete(c, v, inode, es, visited), visited \cup {es[k].dest : k \in DOMAIN es})))
DeleteFrom_(c, b, i, stack, visited) ==
    IF stack = <<>> \/ b.panic THEN b
    ELSE With(tree_path(c.tables, start_pos(Last(stack).v)), LAMBDA path :
         With(get_revinodes(c.tables, start_pos(Last(stack).v)), LAMBDA own :
         LET v == Last(stack).v
             inode == Last(stack).inode
         IN  IF own \notin {NoInode, ROOTInode} /\ get_revtree(c.tables, own) # NoId /\ path = NoPath THEN Panic(b)
             ELSE IF (path # NoPath /\ OnDisk(c, path)) \/ (inode = NoPos /\ is_empty(v) /\ start_pos(v) \in b.gone)
             THEN DeleteFrom_(c, b, i, Front(stack), visited)
             ELSE DeleteBelow(c, b, i, v, inode, Front(stack), visited)))
record_deleted_file(c, b0, pos) ==
    With(recorded(b0), LAMBDA b : DeleteFrom_(c, b, Len(b.recs), <<[v |-> inode_vertex(pos), at |-> pos, inode |-> NoPos]>>, {}))

(* A file of the graph is deleted if the tables do not know where it is, or *)
(* if it is not there on disk.                                             *)
IsKnown(c, pos) == get_revinodes(c.tables, pos) # NoInode
IsThere(c, pos) ==
    IsKnown(c, pos) /\ With(inode_filename(c.tables, get_revinodes(c.tables, pos)), LAMBDA path : path # NoPath /\ OnDisk(c, path))
delete_obsolete_children(c, b, pos) ==
    With(SelectSeq(ChildrenOf(c.graph, inode_vertex(pos)), LAMBDA e : ~is_empty(find_block(c.graph, e.dest))), LAMBDA names :
         FoldLeft(LAMBDA s, e : IF ~IsThere(c, e.dest) THEN record_deleted_file(c, s, e.dest) ELSE s,
                  b, Concat(names, LAMBDA e : ChildrenOf(c.graph, find_block(c.graph, e.dest)))))

-----------------------------------------------------------------------------
is_root_vertex(G, pos) ==
    LET es == ParentsOf(G, inode_vertex(pos)) IN es # <<>> /\ is_empty(find_block_end(G, es[1].dest))

(* What becomes of the edges to the names of a file, and to its inode: edges *)
(* deleted; alive ones, put again; deleted ones put back (resurrect).  s.dead *)
(* and s.live are the edges that come in several copies, by their ends.    *)
Again(flag, from, to, by) == NewEdge(flag, FOLDER \cup BLOCK, from, to, by)
Moved == [edges |-> <<>>, alive |-> <<>>, resurrect |-> <<>>, need_new_name |-> TRUE, n_alive_names |-> 0,
          first |-> TRUE, dead |-> {}, live |-> {}]
DelAgain(x) == NewEdge(DelFlag, DelFlag, x[1], x[2], x[3])
IsChanged(c, name, papa, item, g) ==
    \/ IF papa.change = 0 THEN ~is_root_vertex(c.graph, g.dest) ELSE papa # g.dest
    \/ file_meta(c, name) # [name |-> item.name, dir |-> item.dir]
Alive(s, x) == [s EXCEPT !.alive = Append(@, x)]
MovedName(c, s, pos, papa, item, e, g) ==
    With(find_block_end(c.graph, e.dest), LAMBDA name :
    With(IsChanged(c, name, papa, item, g), LAMBDA changed :
    LET deleted == DELETED \subseteq e.flag /\ ~(PSEUDO \subseteq e.flag)
        kept == ~deleted /\ ~(PSEUDO \subseteq e.flag)
        alive_edge == Again(e.flag \ PARENT, e.dest, inode_vertex(pos), e.by)
        name_edge == Again(g.flag \ PARENT, g.dest, name, g.by)
        back == IF deleted THEN [s EXCEPT !.resurrect = Append(@, name_edge)] ELSE Alive(s, name_edge)
        cut == [s EXCEPT !.edges = Append(@, NewEdge((e.flag \ PARENT) \ PSEUDO, DelFlag, g.dest, name, g.by))]
    IN  CASE DELETED \subseteq g.flag /\ ~changed ->
               [IF kept THEN Alive(back, alive_edge) ELSE back EXCEPT !.need_new_name = FALSE, !.first = FALSE]
          [] DELETED \subseteq g.flag /\ changed -> [s EXCEPT !.dead = @ \cup {<<g.dest, name, g.by>>}]
          [] ~(DELETED \subseteq g.flag) /\ (changed \/ ~s.first) ->
               IF PSEUDO \subseteq e.flag THEN s ELSE IF kept THEN Alive(cut, alive_edge) ELSE cut
          [] OTHER -> [s EXCEPT !.live = @ \cup {<<g.dest, name, g.by>>}, !.need_new_name = FALSE, !.first = FALSE]))
MovedEdge(s, v, e) ==
    CASE PSEUDO \subseteq e.flag -> s
      [] DELETED \subseteq e.flag /\ ~(PSEUDO \subseteq e.flag) ->
            [s EXCEPT !.resurrect = Append(@, Again(e.flag \ PARENT, e.dest, v, e.by)), !.live = @ \cup {<<e.dest, v, 0>>}]
      [] OTHER -> [s EXCEPT !.live = @ \cup {<<e.dest, v, e.by>>}]
MovedParent(c, s, pos, papa, item, e) ==
    With(SelectSeq(ParentsOf(c.graph, find_block_end(c.graph, e.dest)),
                   LAMBDA g : FOLDER \subseteq g.flag /\ ~(PSEUDO \subseteq g.flag)), LAMBDA tops :
    With(FoldLeft(LAMBDA t, g : MovedName(c, t, pos, papa, item, e, g), MovedEdge(s, inode_vertex(pos), e), tops), LAMBDA t :
         [t EXCEPT !.n_alive_names = @ + IF \E k \in DOMAIN tops : ~(DELETED \subseteq tops[k].flag) THEN 1 ELSE 0]))
Copies(S, x) == Cardinality({y \in S : y[1] = x[1] /\ y[2] = x[2]})
EdgeLess(x, y) == DestLess(x[1], y[1]) \/ (x[1] = y[1] /\ (VLess(x[2], y[2]) \/ (x[2] = y[2] /\ x[3] < y[3])))
collect_moved_edges(c, pos, papa, item) ==
    With(FoldLeft(LAMBDA t, e : MovedParent(c, t, pos, papa, item, e), Moved,
                  SelectSeq(ParentsOf(c.graph, inode_vertex(pos)), LAMBDA e : FOLDER \subseteq e.flag)), LAMBDA s :
    With(InOrder({x \in s.dead : Copies(s.dead, x) > 1}, EdgeLess), LAMBDA dead :
    With(InOrder({x \in s.live : x[3] # 0 /\ (Copies(s.live, x) > 1 \/ s.resurrect # <<>>)}, EdgeLess), LAMBDA live :
         [s EXCEPT !.edges = @ \o [k \in DOMAIN dead |-> DelAgain(dead[k])],
                   !.alive = @ \o [k \in DOMAIN live |-> Again(FOLDER \cup BLOCK, live[k][1], live[k][2], live[k][3])]])))

(* A path of a file, up the graph by the oldest names, or the youngest:    *)
(* names that are all deleted leave no part of it.  NoPath if the channel  *)
(* does not have the file, <<NoInode>> if all names lead back.             *)
Lost == <<-2>>
TopOf(c, e) ==
    LET tops == SelectSeq(ParentsOf(c.graph, find_block_end(c.graph, e.dest)), LAMBDA g : FOLDER \subseteq g.flag)
    IN  IF tops = <<>> THEN <<>>
        ELSE <<[name |-> find_block_end(c.graph, e.dest), alive |-> ~(DELETED \subseteq tops[1].flag), dest |-> tops[1].dest,
                age |-> age_of(c, e.dest.change)]>>
PathStep(s, x, youngest, seen) ==
    CASE s.stop -> s
      [] ~s.stop /\ ~x.alive /\ s.alive -> [s EXCEPT !.stop = TRUE]
      [] OTHER -> [s EXCEPT !.alive = @ \/ x.alive,
                            !.next = IF (@ # <<>> /\ ((x.age > @[1].age) # youngest)) \/ x.dest \in seen THEN @ ELSE <<x>>]
RECURSIVE FindPath(_, _, _, _, _)
FindPath(c, youngest, pos, path, seen) ==
    IF pos.change = 0 THEN path
    ELSE IF find_block_end(c.graph, pos) # inode_vertex(pos) THEN NoPath
    ELSE With(ParentsOf(c.graph, inode_vertex(pos)), LAMBDA names :
         IF \E k \in DOMAIN names : names[k].dest.change = 0 THEN path
         ELSE With(FoldLeft(LAMBDA s, e : FoldLeft(LAMBDA t, x : PathStep(t, x, youngest, seen), s, TopOf(c, e)),
                            [next |-> <<>>, alive |-> FALSE, stop |-> FALSE], names), LAMBDA s :
              IF s.next = <<>> THEN Lost
              ELSE IF is_empty(s.next[1].name) THEN IF s.next[1].dest.change = 0 THEN path ELSE Lost
              ELSE FindPath(c, youngest, s.next[1].dest, IF s.alive THEN <<file_meta(c, s.next[1].name).name>> \o path ELSE path,
                            seen \cup {s.next[1].dest})))
find_path(c, youngest, pos) == FindPath(c, youngest, pos, <<>>, {})

(* A file that has another place, name or mode than in the graph, or none. *)
(* The code compares every existing file: is_deleted there is always true. *)
MoveFile_(c, r, i, item, pos, m, edges) ==
    LET start == r.b.len + 1
        back == m.resurrect # <<>>
        alive == IF back THEN <<>> ELSE m.alive
        named == m.need_new_name /\ ~back
        new == NewVertex(r.papa, FOLDER \cup BLOCK, <<r.papa>>, start, start + 1, <<pos>>)
        atoms_ == IF named THEN <<EdgeMap(item.v_papa, edges \o alive), new>>
                  ELSE <<EdgeMap(item.v_papa, edges), EdgeMap(r.papa, alive)>>
        written == [r.b EXCEPT !.len = start + 2, !.text = (start :> [name |-> item.name, dir |-> item.dir]) @@ @]
    IN  IF edges = <<>> THEN [r.b EXCEPT !.len = start]
        ELSE IF m.n_alive_names # 1 /\ ~named
        THEN PushOn([r.b EXCEPT !.len = start], i, Hunk("solve_name_conflict", 0, <<EdgeMap(item.v_papa, edges)>>))
        ELSE With(PushOn(written, i, Hunk("file_move", 0, atoms_)), LAMBDA b :
                  IF find_path(c, TRUE, pos) \in {NoPath, Lost} THEN Panic(b) ELSE b)
record_moved_file(c, b, i, item, pos, papa) ==
    With(collect_moved_edges(c, pos, papa, item), LAMBDA m :
    LET back == m.resurrect # <<>>
        all == m.resurrect \o m.alive \o (IF m.need_new_name THEN <<>> ELSE m.edges)
        edges == IF back /\ ~m.need_new_name THEN <<>> ELSE m.edges
        b1 == IF back THEN PushOn(b, i, Hunk("file_undel", 0, <<EdgeMap(item.v_papa, all)>>)) ELSE b
    IN  With(IF edges # <<>> /\ m.need_new_name THEN root_if_needed(c, b1, i, item.v_papa) ELSE [b |-> b1, papa |-> item.v_papa],
             LAMBDA r : MoveFile_(c, r, i, item, pos, m, edges)))

(* The lines of a file as output, 0 for a marker; and the replacements     *)
(* between two files that hold no line twice.                              *)
TextOf(library, events) ==
    LET Of(e) == IF e.is # "line" THEN <<0>>
                 ELSE IF e.vertex = BOTTOM THEN <<>>
                 ELSE [k \in 1..(e.vertex.end - e.vertex.start) |-> library[e.vertex.change].text[e.vertex.start + k - 1]]
    IN  FlattenSeq([i \in DOMAIN events |-> Of(events[i])])
AgesIn_(log) == [x \in ToSet(log) \cup {0} |-> IF x = 0 THEN 0 ELSE LeastOf({k \in DOMAIN log : log[k] = x})]
Differences(old, new) ==
    LET kept == InOrder({k \in DOMAIN old : \E j \in DOMAIN new : new[j] = old[k]}, LAMBDA j, k : j < k)
        at == [k \in DOMAIN kept |-> CHOOSE j \in DOMAIN new : new[j] = old[kept[k]]]
        Gap(k) == LET o1 == IF k = 0 THEN 0 ELSE kept[k]
                      n1 == IF k = 0 THEN 0 ELSE at[k]
                      o2 == IF k = Len(kept) THEN Len(old) + 1 ELSE kept[k + 1]
                      n2 == IF k = Len(kept) THEN Len(new) + 1 ELSE at[k + 1]
                  IN  Replacement(o1, o2 - o1 - 1, n1, SubSeq(new, n1 + 1, n2 - 1))
    IN  SelectSeq([k \in 1..(Len(kept) + 1) |-> Gap(k - 1)], LAMBDA r : r.old_len + r.new_len > 0)
RecordLines(c, b, w) ==
    With(output_graph(retrieve(c.graph, w.pos, FALSE), AgesIn_(c.log)), LAMBDA events :
    With(TextOf(c.library, events), LAMBDA old :
    With(c.disk[w.item.path].lines, LAMBDA new :
         IF old = new THEN b
         ELSE WithRec(b, w.rec, diff(AsRec(b, w.rec), c.own, c.graph, DiffBuffer(w.pos, events), Differences(old, new))))))
record_existing_file(c, b, w) ==
    CASE b.panic -> b
      [] ~b.panic /\ ~OnDisk(c, w.item.path) -> DeleteFrom_(c, b, w.rec, <<[v |-> inode_vertex(w.pos), inode |-> NoPos]>>, {})
      [] ~b.panic /\ OnDisk(c, w.item.path) /\ w.papa = NoPos -> Panic(b)
      [] OTHER -> With(record_moved_file(c, b, w.rec, w.item, w.pos, w.papa), LAMBDA moved :
                       IF w.item.dir \/ moved.panic THEN moved ELSE RecordLines(c, moved, w))

-----------------------------------------------------------------------------
(* From the root down, what is tracked; what is on disk is looked at later, *)
(* last first, the rest is deleted if this channel has it.                 *)
PushChild(c, b, item, pos, inode, name, path) ==
    IF OnDisk(c, path)
    THEN [b EXCEPT !.stack = Append(@, [inode |-> inode, papa |-> item.inode, v_papa |-> pos, name |-> name, path |-> path,
                                        dir |-> c.disk[path].dir])]
    ELSE With(get_inodes_in_channel(c, inode), LAMBDA at : IF at # NoPos THEN record_deleted_file(c, b, at) ELSE b)
push_children(c, b, item, pos) ==
    FoldLeft(LAMBDA s, x : PushChild(c, s, item, pos, x[2], x[1][2], Append(item.path, x[1][2])),
             b, SelectSeq(iter_tree(c.tables, item.inode), LAMBDA x : x[1][2] # 0))

(* Several roots come from repositories that began apart: the files at the *)
(* root are looked at once for each.                                       *)
root_vertices(G) ==
    LET tops == SelectSeq(ChildrenOf(G, ROOT), LAMBDA e : is_empty(find_block(G, e.dest)))
    IN  [k \in DOMAIN tops |-> ChildrenOf(G, find_block(G, tops[k].dest))[1].dest]
RecordUnder(c, b, item, r) ==
    LET age == age_of(c, r.change)
        newer == b.root = <<>> \/ (b.root # <<>> /\ b.root[2] >= 0 /\ b.root[2] < age)
    IN  push_children(c, IF newer THEN [b EXCEPT !.root = <<r, age>>] ELSE b, item, r)
RecordRoots(c, b, item) ==
    With(root_vertices(c.graph), LAMBDA roots :
    With(FoldLeft(LAMBDA s, r : delete_obsolete_children(c, s, r), [b EXCEPT !.known = (ROOTInode :> RootPos) @@ @], roots), LAMBDA b1 :
         IF roots = <<>> THEN push_children(c, b1, item, RootPos)
         ELSE FoldLeft(LAMBDA s, r : RecordUnder(c, s, item, r), b1, roots)))
Queued(b, item, at) ==
    LET papa == IF item.papa \in DOMAIN b.known THEN b.known[item.papa] ELSE NoPos
    IN  [b EXCEPT !.known = (item.inode :> at) @@ @,
                  !.work = Append(@, [item |-> item, pos |-> at, rec |-> Len(b.recs), papa |-> papa])]
(* What was looked at: the recording so far, and where its children go, if *)
(* anywhere.                                                               *)
RecordOne(c, b, item, at) ==
    CASE item.inode \in DOMAIN b.known -> [b |-> b, pos |-> b.known[item.inode]]
      [] item.inode \notin DOMAIN b.known /\ at # NoPos ->
           [b |-> Queued(recorded(delete_obsolete_children(c, b, at)), item, at), pos |-> at]
      [] OTHER -> With(record_added_file(c, recorded(b), item), LAMBDA new :
                       IF item.dir THEN new ELSE [new EXCEPT !.pos = NoPos])
RecordItem(c, b, item) ==
    IF item.inode = ROOTInode /\ item.inode \notin DOMAIN b.known THEN RecordRoots(c, b, item)
    ELSE With(RecordOne(c, b, item, get_inodes_in_channel(c, item.inode)), LAMBDA r :
              IF r.pos = NoPos THEN r.b ELSE push_children(c, r.b, item, r.pos))
RECURSIVE RecordLoop(_, _)
RecordLoop(c, b) ==
    IF b.stack = <<>> \/ b.panic THEN b ELSE RecordLoop(c, RecordItem(c, [b EXCEPT !.stack = Front(@)], Last(b.stack)))
record(c) ==
    With(RecordLoop(c, Builder), LAMBDA b : FoldLeft(LAMBDA s, w : record_existing_file(c, s, w), b, b.work))

(* All hunks in one change; the updates of each rec come after its hunks,  *)
(* and one that falls on the number of another replaces it.                *)
finish(b) ==
    LET off[i \in 0..Len(b.recs)] == IF i = 0 THEN 0 ELSE LET before == off[i - 1] IN before + Len(b.recs[i])
        Last_(k) == \A j \in DOMAIN b.updates : off[j[1] - 1] + j[2] = off[k[1] - 1] + k[2] => j[1] <= k[1]
    IN  [hunks |-> FlattenSeq(b.recs), len |-> b.len, text |-> b.text, panic |-> b.panic,
         updates |-> {b.updates[k] : k \in {k \in DOMAIN b.updates : Last_(k)}}]

(* What the change does to the tables, once it is applied.                 *)
ForgetDeleted(T, inode) ==
    LET id == get_revtree(T, inode)
        T1 == IF id = NoId THEN T ELSE del_tree_with_rev(T, id, inode)
    IN  forget_inode(del_tree(T1, DirMark(inode), inode), inode)
(* Mutant: the test of the graph is the wrong way round.                   *)
update_inode_absent(T, G, own, u) ==
    IF u.is # "add" THEN ForgetDeleted(T, u.inode)
    ELSE IF iter_adj_all(G, inode_vertex(u.pos)) # {} THEN T ELSE put_inodes_with_rev(T, u.inode, u.pos)
update_inode(T, G, own, u) ==
    IF u.is # "add" THEN ForgetDeleted(T, u.inode)
    ELSE IF iter_adj_all(G, inode_vertex(u.pos)) = {} THEN T ELSE put_inodes_with_rev(T, u.inode, u.pos)
=============================================================================
