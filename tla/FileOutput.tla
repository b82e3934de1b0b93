----------------------------- MODULE FileOutput -----------------------------
(***************************************************************************)
(* Output of a channel to the working copy (libpijul/src/output): files    *)
(* that are not in the channel any more are removed, the others are moved  *)
(* to their names, by way of temporary names, and written.                 *)
(*                                                                         *)
(* The disk is a function from the paths that exist, but the root, to      *)
(* records of dir and lines.  The name of a file in conflict ends with the *)
(* change of its name: name + change.  Temporary names are negative.       *)
(***************************************************************************)
EXTENDS FileRecord

TmpName(pos) == 0 - (1000 * pos.change + pos.pos)
PathLess(a, b) == \E n \in 0..Len(a) : /\ n < Len(b) /\ SubSeq(a, 1, n) = SubSeq(b, 1, n)
                                       /\ (n = Len(a) \/ (n < Len(a) /\ a[n + 1] < b[n + 1]))

-----------------------------------------------------------------------------
(* The file system: an operation returns the disk, and whether it failed.  *)
IsDir(D, p) == p = <<>> \/ (p \in DOMAIN D /\ D[p].dir)
Below(D, p) == {q \in DOMAIN D : IsPrefix(p, q) /\ q # p}
Ancestors(p) == {SubSeq(p, 1, n) : n \in 1..(Len(p) - 1)}
Without(D, P) == [q \in DOMAIN D \ P |-> D[q]]
ADir == [dir |-> TRUE, lines |-> <<>>]
create_dir_all(D, p) ==
    LET all == (Ancestors(p) \cup {p}) \ {<<>>}
    IN  IF \E q \in all : q \in DOMAIN D /\ ~D[q].dir THEN [disk |-> D, failed |-> TRUE]
        ELSE [disk |-> D @@ [q \in all |-> ADir], failed |-> FALSE]
(* A directory is removed only if it is empty.                             *)
(* Mutant: a directory is removed with what is in it.                      *)
remove_path_all(D, p) == Without(D, Below(D, p) \cup {p})
remove_path(D, p) == IF p \in DOMAIN D /\ Below(D, p) = {} THEN Without(D, {p}) ELSE D
(* A file takes the place of a file, a directory that of an empty one.     *)
CannotRename(D, from, to) ==
    \/ from \notin DOMAIN D
    \/ IsPrefix(from, to) /\ from # to
    \/ to \in DOMAIN D /\ (D[from].dir # D[to].dir \/ Below(D, to) # {}) /\ from # to
Renamed(D, from, to) ==
    LET moved == {q \in DOMAIN D : IsPrefix(from, q)}
    IN  [q \in {to \o SubSeq(q, Len(from) + 1, Len(q)) : q \in moved} |-> D[from \o SubSeq(q, Len(to) + 1, Len(q))]]
        @@ Without(D, moved)
rename(D, from, to) ==
    With(create_dir_all(D, Front(to)), LAMBDA r :
         IF r.failed \/ CannotRename(r.disk, from, to) THEN [disk |-> r.disk, failed |-> TRUE]
         ELSE [disk |-> Renamed(r.disk, from, to), failed |-> FALSE])
write_file(D, p, lines) ==
    With(create_dir_all(D, Front(p)), LAMBDA r :
         IF r.failed \/ IsDir(r.disk, p) THEN [disk |-> r.disk, failed |-> TRUE]
         ELSE [disk |-> (p :> [dir |-> FALSE, lines |-> lines]) @@ r.disk, failed |-> FALSE])

-----------------------------------------------------------------------------
(* The state of an output: tables and disk; done, the positions written    *)
(* and the name each was written for; moved, where inodes were moved;      *)
(* moves, what is left to rename; queue, files to write; following, while   *)
(* the prefix is not reached; err.                                         *)
State(c) ==
    [tables |-> c.tables, disk |-> c.disk, done |-> [p \in {} |-> ROOT], inodes |-> {}, moved |-> [i \in {} |-> <<>>],
     moves |-> <<>>, queue |-> <<>>, following |-> TRUE, conflicts |-> {}, err |-> ""]
Failing(s, e) == IF s.err = "" THEN [s EXCEPT !.err = e] ELSE s
Going(s, Rest(_)) == IF s.err # "" THEN s ELSE IF s.tables.err # "" THEN Failing(s, s.tables.err) ELSE Rest(s)
OnDiskNow(s, r) == Failing([s EXCEPT !.disk = r.disk], IF r.failed THEN "io" ELSE "")
filename(s, inode) == PathUp(s.tables, s.moved, inode, <<>>, Cardinality(s.tables.revtree) + 1)

(* Files of the tables that the channel does not have, or not any more.    *)
is_alive_or_zombie(G, v) ==
    \/ v = ROOT
    \/ \E e \in iter_adjacent(G, v, PARENT, ALL \ DELETED) : (PSEUDO \subseteq e.flag => FOLDER \subseteq e.flag) /\ (BLOCK \subseteq e.flag \/ is_empty(v))
RECURSIVE DeadBelow(_, _, _, _)
collect_dead_files(s, G) == DeadBelow(s, G, ROOTInode, FALSE)
DeadBelow(s, G, inode, parent_is_dead) ==
    LET Dead(x) == parent_is_dead \/ (x[1][2] # 0 /\ (get_inodes(s.tables, x[2]) = NoPos
                                                       \/ ~is_alive_or_zombie(G, inode_vertex(get_inodes(s.tables, x[2])))))
    IN  UNION {(IF Dead(x) THEN {[id |-> x[1], inode |-> x[2], name |-> filename(s, x[2])]} ELSE {})
               \cup (IF x[2] = inode THEN {} ELSE DeadBelow(s, G, x[2], Dead(x))) : x \in {x \in s.tables.tree : x[1][1] = inode}}
(* A file this channel never had is forgotten, but stays on disk.          *)
Kill(s, G, x) ==
    LET pos == get_inodes(s.tables, x.inode)
        T == del_tree(del_tree_with_rev(s.tables, x.id, x.inode), DirMark(x.inode), x.inode)
    IN  Going(s, LAMBDA t :
              IF pos = NoPos THEN [t EXCEPT !.tables = T]
              ELSE [t EXCEPT !.tables = del_inodes_with_rev(T, x.inode, pos),
                             !.disk = IF iter_adj_all(G, inode_vertex(pos)) = {} \/ x.name = NoPath THEN @ ELSE remove_path(@, x.name)])
LongestFirst(x, y) == PathLess(y.name, x.name) \/ (x.name = y.name /\ IdLess(y.id, x.id))
kill_dead_files(s, G, prefix) ==
    IF prefix # <<>> \/ ~s.following THEN s
    ELSE FoldLeft(LAMBDA t, x : Kill(t, G, x), [s EXCEPT !.following = FALSE], InOrder(collect_dead_files(s, G), LongestFirst))

-----------------------------------------------------------------------------
(* The names below a position, with the first file each leads to.          *)
FolderEdges(G, v) == SortE(iter_adjacent(G, v, FOLDER, FOLDER \cup PSEUDO \cup BLOCK))
is_zombie(G, pos) ==
    /\ iter_adjacent(G, inode_vertex(pos), FOLDER \cup PARENT \cup DELETED, FOLDER \cup PARENT \cup DELETED \cup BLOCK) # {}
    /\ \E e \in iter_adjacent(G, inode_vertex(pos), FOLDER \cup PARENT, FOLDER \cup PARENT \cup BLOCK) : FOLDER \cup PARENT \subseteq e.flag
collect(c, inode, path, tmp, prefix, v) ==
    LET meta == file_meta(c, v)
        children == FolderEdges(c.graph, v)
    IN  IF (prefix # <<>> /\ prefix[1] # meta.name) \/ children = <<>> THEN {}
        ELSE {[name |-> Append(path, meta.name), key |-> v, parent |-> inode, tmp |-> tmp, dir |-> meta.dir,
               pos |-> children[1].dest, zombie |-> is_zombie(c.graph, children[1].dest)]}
collect_children(c, pos, inode, path, tmp, prefix) ==
    LET NamesAt(p) == {find_block(c.graph, e.dest) : e \in ToSet(FolderEdges(c.graph, inode_vertex(p)))}
        names == NamesAt(pos)
        roots == {FolderEdges(c.graph, v)[1].dest : v \in {v \in names : is_empty(v)}}
    IN  UNION {collect(c, inode, path, tmp, prefix, v) : v \in {v \in names : ~is_empty(v)} \cup UNION {NamesAt(r) : r \in roots}}

(* A file that was written under another name has several; one whose name  *)
(* was used gets the change of its name in addition.                       *)
make_conflicting_name(name, key) == Append(Front(name), Last(name) + key.change)
MakeInode(s, item, is_first) ==
    LET name == IF is_first THEN item.name ELSE make_conflicting_name(item.name, item.key)
    IN  IF item.pos \in DOMAIN s.done
        THEN [s |-> IF s.done[item.pos] = item.key THEN s ELSE [s EXCEPT !.conflicts = @ \cup {<<"names", item.pos>>}], path |-> NoPath]
        ELSE [s |-> [s EXCEPT !.done = (item.pos :> item.key) @@ @,
                              !.conflicts = IF is_first THEN @ ELSE @ \cup {<<"name", item.pos>>}],
              path |-> name]

(* A file goes to its place in the tables: what was there is forgotten.    *)
DeleteThere(T, file_id) ==
    With(get_tree(T, file_id), LAMBDA there : IF there = NoInode THEN T ELSE rec_delete(T, file_id, there, TRUE))
(* Mutant: a directory has no mark.                                        *)
NameOnly(T, file_id, inode, pos, is_dir) == put_tree_with_rev(put_inodes_with_rev(T, inode, pos), file_id, inode)
Name(T, file_id, inode, pos, is_dir) ==
    With(put_tree_with_rev(put_inodes_with_rev(T, inode, pos), file_id, inode), LAMBDA U :
         IF is_dir THEN put_tree(U, DirMark(inode), inode) ELSE U)
Place(s, file_id, inode, pos, is_dir) == [s EXCEPT !.tables = Name(DeleteThere(@, file_id), file_id, inode, pos, is_dir)]
(* A file that has another name takes a temporary one, and is renamed when *)
(* all are; so are, then, the names of what is in it.                      *)
MoveAway(s, item, inode, current, actual, tmp) ==
    With([s EXCEPT !.tables = del_tree_with_rev(@, get_revtree(@, inode), inode),
                   !.moved = (inode :> tmp) @@ @, !.moves = Append(@, <<tmp, actual>>)], LAMBDA there :
         Going(OnDiskNow(there, rename(s.disk, current, tmp)), LAMBDA t :
               IF item.dir /\ get_tree(t.tables, DirMark(inode)) # inode THEN Failing(t, "assert") ELSE t))
Existing(s, item, inode, current, actual, file_id) ==
    LET away == current \notin {NoPath, actual}
        tmp == Append(Front(actual), TmpName(item.pos))
    IN  IF current = actual THEN [s |-> s, tmp |-> NoPath]
        ELSE [s |-> Going(IF away THEN MoveAway(s, item, inode, current, actual, tmp) ELSE s, LAMBDA t :
                          Place(t, file_id, inode, item.pos, item.dir /\ ~away)),
              tmp |-> IF away THEN tmp ELSE NoPath]
move_or_create(s, item, path, tmp) ==
    LET file_id == <<item.parent, Last(path)>>
    IN  With(get_revinodes(s.tables, item.pos), LAMBDA inode :
             IF inode = NoInode
             THEN With(DeleteThere(s.tables, file_id), LAMBDA T :
                  With(create_new_inode(T, file_id), LAMBDA new :
                       [s |-> [s EXCEPT !.tables = Name(T, file_id, new, item.pos, item.dir)], inode |-> new, tmp |-> tmp]))
             ELSE With(Existing(s, item, inode, filename(s, inode), IF tmp = NoPath THEN path ELSE tmp, file_id), LAMBDA m :
                       [s |-> m.s, inode |-> inode, tmp |-> IF m.tmp = NoPath THEN tmp ELSE m.tmp]))

(* One name: the files that have it, by the age of the name.               *)
OutputFile(c, o, item, path, prefix) ==
    With(move_or_create(o.s, item, path, IF item.tmp = NoPath THEN NoPath ELSE Append(item.tmp, Last(path))), LAMBDA m :
    With(Going(m.s, LAMBDA t : kill_dead_files(t, c.graph, prefix)), LAMBDA killed :
    With(Going(IF item.zombie THEN [killed EXCEPT !.conflicts = @ \cup {<<"zombie", item.pos>>}] ELSE killed, LAMBDA t :
               IF item.dir THEN OnDiskNow(t, create_dir_all(t.disk, IF m.tmp = NoPath THEN path ELSE m.tmp))
               ELSE [t EXCEPT !.queue = Append(@, [pos |-> item.pos, path |-> IF m.tmp = NoPath THEN path ELSE m.tmp])]), LAMBDA t :
         [s |-> t, first |-> o.first,
          next |-> o.next \cup IF item.dir /\ t.err = "" THEN collect_children(c, item.pos, m.inode, path, m.tmp, prefix) ELSE {}])))
OutputItem(c, o, item, prefix) ==
    With(MakeInode(o.s, item, o.first), LAMBDA made :
    With(get_revinodes(made.s.tables, item.pos), LAMBDA inode :
         IF o.s.err # "" THEN o
         ELSE IF made.path = NoPath THEN [o EXCEPT !.s = made.s]
         ELSE IF inode # NoInode /\ inode \in made.s.inodes THEN [o EXCEPT !.s = made.s, !.first = FALSE]
         ELSE OutputFile(c, [o EXCEPT !.s = [made.s EXCEPT !.inodes = @ \cup ({inode} \ {NoInode})], !.first = FALSE], item, made.path, prefix)))
output_name(c, s, next, items, prefix) ==
    LET Older(x, y) == age_of(c, x.key.change) < age_of(c, y.key.change)
                       \/ (x.key.change = y.key.change /\ (VLess(x.key, y.key) \/ (x.key = y.key /\ PLess(x.pos, y.pos))))
    IN  FoldLeft(LAMBDA o, x : OutputItem(c, o, x, prefix), [s |-> s, first |-> TRUE, next |-> next], InOrder(items, Older))

(* One level of the tree after the other, its names in any order.          *)
RECURSIVE Levels(_, _, _, _, _)
Levels(c, s, files, prefix, rev) ==
    LET names == InOrder({x.name : x \in files}, LAMBDA a, b : IF rev THEN PathLess(b, a) ELSE PathLess(a, b))
        Named(name) == {x \in files : x.name = name}
    IN  IF files = {} \/ s.err # "" THEN s
        ELSE With(FoldLeft(LAMBDA o, name : output_name(c, o.s, o.next, Named(name), prefix), [s |-> s, next |-> {}, first |-> TRUE], names), LAMBDA o :
                  Levels(c, o.s, o.next, IF prefix = <<>> THEN prefix ELSE Tail(prefix), rev))
(* Files are written where they are, and renamed in the end, what is in a  *)
(* directory before it.                                                    *)
LinesAt(c, pos) == TextOf(c.library, output_graph(retrieve(c.graph, pos, FALSE), AgesIn_(c.log)))
WriteFiles(c, s) ==
    FoldLeft(LAMBDA t, w : Going(t, LAMBDA u : OnDiskNow(u, write_file(u.disk, w.path, LinesAt(c, w.pos)))), s, s.queue)
RenameAll(s) == FoldLeft(LAMBDA t, m : Going(t, LAMBDA u : OnDiskNow(u, rename(u.disk, m[1], m[2]))), s, Reverse(s.moves))
output_repository(c, prefix, rev) ==
    With(Going(State(c), LAMBDA s : kill_dead_files(s, c.graph, prefix)), LAMBDA s :
    With(Levels(c, s, collect_children(c, RootPos, ROOTInode, <<>>, NoPath, prefix), IF prefix = <<>> THEN prefix ELSE Tail(prefix), rev), LAMBDA t :
         RenameAll(WriteFiles(c, t))))
(* The edges found redundant in the files written are deleted in the end.  *)
del_redundant(G, s) == FoldLeft(LAMBDA H, w : remove_forward_edges(H, w.pos), G, s.queue)
=============================================================================
