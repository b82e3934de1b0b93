---------------------------- MODULE FileUnrecord ----------------------------
(***************************************************************************)
(* What unrecording a change does to the tables of files                   *)
(* (libpijul/src/unrecord/working_copy.rs), after the graph has been       *)
(* undone: a file it added is a new file again, a file it deleted comes    *)
(* back if its name is free, a file it brought back is forgotten.  The log  *)
(* of the context c is without the change.                                 *)
(***************************************************************************)
EXTENDS FileRecord, GraphUnrecord

Forget(T, pos) == LET inode == get_revinodes(T, pos) IN IF inode = NoInode THEN T ELSE del_inodes_with_rev(T, inode, pos)
(* Mutant: the file keeps its position.                                    *)
keep_file_addition(T, own, n) == T
undo_file_addition(T, own, n) == IF n.start = n.end THEN Forget(T, Pos(own, n.start)) ELSE T
undo_file_reinsertion(T, n) ==
    FoldLeft(LAMBDA t, e : IF e.to.start = e.to.end THEN Forget(t, start_pos(e.to)) ELSE t, T, n.edges)

(* The file under its name, if no other file has it.                       *)
restore_inode(c, r, source, dest, parent) ==
    LET meta == file_meta(c, source)
        id == <<parent, meta.name>>
        known == get_revinodes(r.T, dest)
        new == create_new_inode(r.T, id)
        T == put_inodes_with_rev(put_tree_with_rev(r.T, id, new), new, dest)
    IN  IF known # NoInode THEN [r EXCEPT !.inode = known]
        ELSE IF get_tree(r.T, id) # NoInode THEN [r EXCEPT !.inode = NoInode]
        ELSE [T |-> IF meta.dir THEN put_tree(T, DirMark(new), new) ELSE T, inode |-> new]
(* The name a directory had last: one that is not deleted, or the one whose *)
(* deletion came last.                                                     *)
YoungestOf(c, es) ==
    LET alive == {i \in DOMAIN es : ~(DELETED \subseteq es[i].flag)}
        age == [i \in DOMAIN es |-> age_of(c, es[i].by)]
        last == {i \in DOMAIN es : \A j \in DOMAIN es : age[j] < age[i] \/ (age[j] = age[i] /\ i <= j)}
    IN  es[LeastOf(IF alive # {} THEN alive ELSE last)]
find_youngest_parent(c, v) ==
    With(SelectSeq(SortE(iter_adjacent(c.graph, v, FOLDER \cup PARENT, FOLDER \cup PARENT \cup DELETED \cup BLOCK)),
                   LAMBDA e : FOLDER \cup PARENT \subseteq e.flag), LAMBDA es :
         find_block_end(c.graph, YoungestOf(c, es).dest))
(* The directories above that are not in the tables come back before.      *)
RECURSIVE RestoreUnder(_, _, _, _)
RestoreBelow(c, T, source, dest, top, up) ==
    LET known == get_revinodes(T, top)
        above == IF top.change = 0 THEN [T |-> T, inode |-> ROOTInode]
                 ELSE IF known # NoInode THEN [T |-> T, inode |-> known]
                 ELSE IF up = ROOT \/ is_empty(up) THEN [T |-> T, inode |-> ROOTInode]
                 ELSE RestoreUnder(c, T, up, top)
    IN  With(above, LAMBDA r : IF r.inode = NoInode THEN r ELSE restore_inode(c, r, source, dest, r.inode))
RestoreUnder(c, T, source, dest) ==
    With(SelectSeq(SortE(iter_adjacent(c.graph, source, PARENT \cup FOLDER, ALL)), LAMBDA e : PARENT \cup FOLDER \subseteq e.flag)[1].dest, LAMBDA top :
    With(find_youngest_parent(c, inode_vertex(top)), LAMBDA up : RestoreBelow(c, T, source, dest, top, up)))
undo_file_deletion(c, T, n) ==
    FoldLeft(LAMBDA t, e : IF FOLDER \subseteq e.flag /\ e.to.start = e.to.end
                           THEN RestoreUnder(c, t, find_block_end(c.graph, e.from), start_pos(e.to)).T ELSE t,
             T, Reverse(n.edges))

UndoTables(c, own, T, n) ==
    CASE n.is = "edges" /\ n.edges # <<>> /\ FOLDER \subseteq n.edges[1].flag ->
           IF DELETED \subseteq n.edges[1].flag THEN undo_file_deletion(c, T, n) ELSE undo_file_reinsertion(T, n)
      [] n.is = "vertex" /\ FOLDER \subseteq n.flag /\ n.down = <<>> -> undo_file_addition(T, own, n)
      [] OTHER -> T
unapply_tables(c, ch) == FoldLeft(LAMBDA T, n : UndoTables(c, ch.id, T, n), c.tables, rev_iter(ch))
=============================================================================
