------------------------------- MODULE Inodes -------------------------------
(***************************************************************************)
(* The tables of files of the working copy (libpijul/src/fs.rs and         *)
(* pristine/mod.rs): tree from a parent and a name to an inode, inodes from *)
(* an inode to its position in the graph, and the reverse of both.  A      *)
(* directory has one more entry in tree, under itself and the empty name.  *)
(*                                                                         *)
(* A key of these tables may have several values, a search finds the least, *)
(* so a table is a set of pairs.  Inodes are numbers, 0 the root; names are *)
(* multiples of 100, 0 the empty name; a path is a sequence of names.  The *)
(* tables are a record T, with err, what stopped an operation on them.     *)
(***************************************************************************)
EXTENDS Graph

ROOTInode == 0
NoInode == -1
NoPath == <<-1>>
NoPos == Pos(-1, 0)
EmptyTables == [tree |-> {}, revtree |-> {}, inodes |-> {}, revinodes |-> {}, err |-> ""]
DirMark(inode) == <<inode, 0>>
Stop(T, e) == IF T.err = "" THEN [T EXCEPT !.err = e] ELSE T

Values(R, k) == {x[2] : x \in {x \in R : x[1] = k}}
LeastNumber(S) == CHOOSE i \in S : \A j \in S : i <= j
get_tree(T, id) == LET S == Values(T.tree, id) IN IF S = {} THEN NoInode ELSE LeastNumber(S)
get_revinodes(T, pos) == LET S == Values(T.revinodes, pos) IN IF S = {} THEN NoInode ELSE LeastNumber(S)
get_inodes(T, inode) ==
    LET S == Values(T.inodes, inode) IN IF S = {} THEN NoPos ELSE CHOOSE p \in S : \A q \in S : p = q \/ PLess(p, q)
IdLess(a, b) == a[1] < b[1] \/ (a[1] = b[1] /\ a[2] < b[2])
NoId == <<NoInode, 0>>
get_revtree(T, inode) ==
    LET S == Values(T.revtree, inode) IN IF S = {} THEN NoId ELSE CHOOSE a \in S : \A b \in S : a = b \/ IdLess(a, b)
(* The entries under an inode in the order of the table, its own first.    *)
iter_tree(T, inode) ==
    InOrder({x \in T.tree : x[1][1] = inode},
            LAMBDA x, y : IdLess(x[1], y[1]) \/ (x[1] = y[1] /\ x[2] < y[2]))

-----------------------------------------------------------------------------
(* A pair is put in both tables unless it is there, and deleted from both. *)
put_tree(T, id, inode) == [T EXCEPT !.tree = @ \cup {<<id, inode>>}]
del_tree(T, id, inode) == [T EXCEPT !.tree = @ \ {<<id, inode>>}]
put_inodes_with_rev(T, inode, pos) ==
    [T EXCEPT !.inodes = @ \cup {<<inode, pos>>}, !.revinodes = @ \cup {<<pos, inode>>}]
del_inodes_with_rev(T, inode, pos) ==
    IF <<inode, pos>> \notin T.inodes THEN T
    ELSE IF <<pos, inode>> \notin T.revinodes THEN Stop(T, "assert")
    ELSE [T EXCEPT !.inodes = @ \ {<<inode, pos>>}, !.revinodes = @ \ {<<pos, inode>>}]
put_tree_with_rev(T, id, inode) ==
    IF <<id, inode>> \in T.tree THEN T ELSE [put_tree(T, id, inode) EXCEPT !.revtree = @ \cup {<<inode, id>>}]
del_tree_with_rev(T, id, inode) ==
    IF <<id, inode>> \notin T.tree THEN T
    ELSE IF id[2] = 0 THEN del_tree(T, id, inode)
    ELSE IF <<inode, id>> \notin T.revtree THEN Stop(T, "assert")
    ELSE [del_tree(T, id, inode) EXCEPT !.revtree = @ \ {<<inode, id>>}]
forget_inode(T, inode) ==
    LET pos == get_inodes(T, inode) IN IF pos = NoPos THEN T ELSE del_inodes_with_rev(T, inode, pos)

(* A new inode is a hash of the parent, the name and a salt that commands  *)
(* leave at 0: a name that comes back gets the inode it had, unless that   *)
(* is used under another name.                                             *)
HashId(id) == 10 * id[1] + id[2]
create_new_inode(T, id) ==
    LET h == HashId(id)
        free == {i \in h..(h + Cardinality(T.revtree)) : get_revtree(T, i) = NoId}
    IN  LeastNumber(free)

-----------------------------------------------------------------------------
(* Paths.                                                                  *)
is_directory(T, inode) == inode = ROOTInode \/ iter_tree(T, inode) # <<>>

(* The inode of the longest tracked beginning of a path, and the rest.     *)
closest_in_repo_ancestor(T, path) ==
    LET at[n \in 0..Len(path)] ==
            IF n = 0 THEN ROOTInode
            ELSE LET above == at[n - 1] IN IF above = NoInode THEN NoInode ELSE get_tree(T, <<above, path[n]>>)
        tracked == {n \in 0..Len(path) : at[n] # NoInode}
        n == CHOOSE n \in tracked : \A m \in tracked : m <= n
    IN  [inode |-> at[n], rest |-> SubSeq(path, n + 1, Len(path))]
find_inode(T, path) ==
    LET c == closest_in_repo_ancestor(T, path) IN IF c.rest = <<>> THEN c.inode ELSE NoInode
is_tracked(T, path) == closest_in_repo_ancestor(T, path).rest = <<>>

(* From an inode up to the root; NoPath if it is not in the tree.  As many *)
(* steps as there are entries tell a path from a loop.                     *)
RECURSIVE PathUp(_, _, _, _, _)
PathUp(T, moved, inode, path, fuel) ==
    LET id == get_revtree(T, inode)
    IN  IF inode \in DOMAIN moved THEN moved[inode] \o path
        ELSE IF id = NoId \/ fuel = 0 THEN NoPath
        ELSE IF id[1] = ROOTInode THEN <<id[2]>> \o path
        ELSE PathUp(T, moved, id[1], <<id[2]>> \o path, fuel - 1)
inode_filename(T, inode) == PathUp(T, [i \in {} |-> <<>>], inode, <<>>, Cardinality(T.revtree) + 1)
tree_path(T, pos) == LET i == get_revinodes(T, pos) IN IF i \in {NoInode, ROOTInode} THEN NoPath ELSE inode_filename(T, i)

(* What is tracked: <<inode, path>> from the root down.                    *)
RECURSIVE TrackedBelow(_, _, _)
TrackedBelow(T, inode, path) ==
    UNION {{<<x[2], Append(path, x[1][2])>>} \cup TrackedBelow(T, x[2], Append(path, x[1][2]))
           : x \in {x \in T.tree : x[1][1] = inode /\ x[1][2] # 0}}
iter_working_copy(T) == TrackedBelow(T, ROOTInode, <<>>)

-----------------------------------------------------------------------------
(* A name under a parent.  A child of its own, if any, takes the place of  *)
(* what had that name; its mark of a directory is put with a new name only. *)
make_new_child(T, parent, name, is_dir, child) ==
    LET id == <<parent, name>>
        old == get_tree(T, id)
        new == IF child = NoInode THEN create_new_inode(T, id) ELSE child
    IN  IF old # NoInode
        THEN IF child = NoInode THEN [T |-> Stop(T, "exists"), inode |-> old]
             ELSE IF child = old THEN [T |-> T, inode |-> old]
             ELSE [T |-> put_tree_with_rev(forget_inode(del_tree_with_rev(T, id, old), old), id, child), inode |-> child]
        ELSE With(put_tree_with_rev(T, id, new), LAMBDA named :
                  [T |-> IF is_dir THEN put_tree(named, DirMark(new), new) ELSE named, inode |-> new])
add_inode(T, inode, path, is_dir) ==
    With(closest_in_repo_ancestor(T, Front(path)), LAMBDA above :
    With(FoldLeft(LAMBDA s, name : make_new_child(s.T, s.inode, name, TRUE, NoInode),
                  [T |-> T, inode |-> above.inode], above.rest), LAMBDA dirs :
         make_new_child(dirs.T, dirs.inode, Last(path), is_dir, inode)))

(* A move takes the name away first, with or without a directory's mark.   *)
MoveInode(T, inode, id, destination) ==
    IF inode = NoInode \/ id = NoId THEN Stop(T, "not found")
    ELSE add_inode(del_tree_with_rev(T, id, inode), inode, destination, get_tree(T, DirMark(inode)) # NoInode).T
move_file(T, origin, destination) ==
    With(find_inode(T, origin), LAMBDA inode : MoveInode(T, inode, get_revtree(T, inode), destination))

RECURSIVE rec_delete(_, _, _, _)
DeleteMark(T, inode) ==
    IF <<DirMark(inode), inode>> \in T.tree THEN del_tree(T, DirMark(inode), inode) ELSE Stop(T, "assert")
rec_delete(T, id, inode, delete_inodes) ==
    With(iter_tree(T, inode), LAMBDA entries :
    With(FoldLeft(LAMBDA s, x : IF x[2] = inode THEN Stop(s, "assert") ELSE rec_delete(s, x[1], x[2], delete_inodes),
                  T, SelectSeq(entries, LAMBDA x : x[1][2] # 0)), LAMBDA below :
    With(IF entries = <<>> \/ inode = ROOTInode THEN below ELSE DeleteMark(below, inode), LAMBDA T1 :
         IF T1.err # "" \/ inode = ROOTInode \/ <<id, inode>> \notin T1.tree THEN T1
         ELSE With(del_tree_with_rev(T1, id, inode), LAMBDA T2 : IF delete_inodes THEN forget_inode(T2, inode) ELSE T2))))
remove_file(T, path) ==
    With(find_inode(T, path), LAMBDA inode :
         IF inode = NoInode THEN Stop(T, "not found")
         ELSE rec_delete(T, IF inode = ROOTInode THEN DirMark(ROOTInode) ELSE get_revtree(T, inode), inode, FALSE))

-----------------------------------------------------------------------------
(* What check_tree_inodes asserts, but for the graph: a file that has a    *)
(* position is below the root, and a name has one file; and what the code  *)
(* relies on besides: each table is the other one reversed.                *)
Reachable(T) == \A x \in T.inodes : x[1] = ROOTInode \/ inode_filename(T, x[1]) # NoPath
OneInodePerName(T) == \A x, y \in T.tree : x[1] = y[1] => x[2] = y[2]
Mirrored(T) ==
    /\ T.revtree = {<<x[2], x[1]>> : x \in {x \in T.tree : x[1][2] # 0}}
    /\ T.revinodes = {<<x[2], x[1]>> : x \in T.inodes}
    /\ \A x, y \in T.inodes : x[1] = y[1] \/ x[2] = y[2] => x = y
=============================================================================
