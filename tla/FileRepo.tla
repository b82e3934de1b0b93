------------------------------ MODULE FileRepo ------------------------------
(***************************************************************************)
(* A repository with several channels and one working copy: files are      *)
(* added, edited, moved and removed, recorded, and the changes recorded on *)
(* a channel are pulled into others, unrecorded, and output when the       *)
(* current channel changes (pijul/src/commands, over modules FileRecord,   *)
(* FileOutput and FileUnrecord).                                           *)
(*                                                                         *)
(* Commands that output refuse, or put aside and bring back, what is not   *)
(* recorded; here they run only when everything is.                        *)
(***************************************************************************)
EXTENDS FileOutput, FileUnrecord

CONSTANTS Channels, Main,
          Names,         \* names of files
          MaxDepth,      \* bound: names in a path
          MaxSteps,      \* bound: operations on the working copy, and changes unrecorded
          MaxChanges,    \* bound: changes recorded after the first
          Moves,         \* bound: from where to where files are moved
          Longer         \* <<a, b>> when the name b begins with the name a

VARIABLES library,   \* change store: identifier -> change
          graph,     \* channel -> its graph
          log,       \* channel -> sequence of identifiers
          cur,       \* current channel
          tables,    \* files of the working copy
          disk,      \* path -> what is there
          steps,     \* operations on the working copy, and changes unrecorded, so far
          unsaved,   \* whether something may not be recorded
          err        \* what stopped a command, "" if nothing did
vars == <<library, graph, log, cur, tables, disk, steps, unsaved, err>>

Own == Cardinality(DOMAIN library) + 1
Context(lib, G, l, T, D) == [own |-> Cardinality(DOMAIN lib) + 1, library |-> lib, graph |-> G, log |-> l, tables |-> T, disk |-> D]
Here == Context(library, graph[cur], log[cur], tables, disk)
On(ch) == ToSet(log[ch])
Paths == UNION {[1..n -> Names] : n \in 1..MaxDepth}
Tracked(T) == {x[2] : x \in iter_working_copy(T)}

(* What record does: a change and the tables after it.                     *)
Recording(c) ==
    With(finish(record(c)), LAMBDA rec :
    With(make_change(c.graph, c.library, c.own, rec), LAMBDA ch :
    With(apply_change_to_channel(c.graph, ch, DOMAIN c.library, FALSE), LAMBDA st :
         [hunks |-> rec.hunks, change |-> ch, g |-> st.g,
          tables |-> FoldSet(LAMBDA u, T : update_inode(T, st.g, c.own, u), c.tables, rec.updates),
          err |-> IF rec.panic THEN "panic" ELSE st.err])))

(* One file in a directory, one beside it.                                 *)
First == <<1>>
BaseDisk == (<<100>> :> [dir |-> FALSE, lines |-> <<1>>]) @@ (<<200>> :> ADir)
            @@ (<<200, 100>> :> [dir |-> FALSE, lines |-> <<2>>])
BaseTables == FoldLeft(LAMBDA T, p : add_inode(T, NoInode, p, BaseDisk[p].dir).T, EmptyTables, <<<<100>>, <<200>>, <<200, 100>>>>)
Base == Recording(Context([c \in {} |-> 0], {}, <<>>, BaseTables, BaseDisk))

Init == With(Base, LAMBDA b :
        /\ library = (1 :> b.change) /\ graph = [ch \in Channels |-> b.g] /\ log = [ch \in Channels |-> First]
        /\ tables = b.tables /\ err = b.err)
        /\ cur = Main /\ disk = BaseDisk /\ steps = 0 /\ unsaved = FALSE

-----------------------------------------------------------------------------
(* Operations on the working copy.                                         *)
(* Bound: none while a file has lines in conflict (see GraphRepo).         *)
Markers(D) == \E p \in DOMAIN D : 0 \in ToSet(D[p].lines)
Working(T, D) ==
    /\ err = "" /\ ~Markers(disk) /\ steps < MaxSteps /\ Own <= MaxChanges + 1 /\ T.err \notin {"exists", "not found"}
    /\ tables' = [T EXCEPT !.err = ""] /\ disk' = D /\ err' = T.err
    /\ steps' = steps + 1 /\ unsaved' = TRUE /\ UNCHANGED <<library, graph, log, cur>>
Free(p) == p \notin DOMAIN disk /\ IsDir(disk, Front(p))
Fresh == 10 * Own + steps
Add(p, dir) ==
    /\ Free(p)
    /\ Working(IF is_tracked(tables, p) THEN tables ELSE add_inode(tables, NoInode, p, dir).T,
               (p :> IF dir THEN ADir ELSE [dir |-> FALSE, lines |-> <<Fresh>>]) @@ disk)
Edit(p) ==
    /\ p \in Tracked(tables) \cap DOMAIN disk /\ ~disk[p].dir
    /\ Working(tables, [disk EXCEPT ![p].lines = Append(@, Fresh)])
(* Bound: the destination is not a directory that is tracked and gone: the *)
(* move would leave its files in no directory, and record would panic.     *)
IsGone(T, q) == is_tracked(T, q) /\ get_tree(T, DirMark(find_inode(T, q))) # NoInode
Move(p, q) ==
    /\ p \in Tracked(tables) \cap DOMAIN disk /\ Free(q) /\ ~IsPrefix(p, q) /\ <<p, q>> \in Moves /\ ~IsGone(tables, q)
    /\ Working(move_file(tables, p, q), Renamed(disk, p, q))
RemoveFile(p) ==
    /\ p \in Tracked(tables) \cap DOMAIN disk
    /\ Working(remove_file(tables, p), disk)
Delete(p) ==
    /\ p \in DOMAIN disk
    /\ Working(tables, Without(disk, {q \in DOMAIN disk : IsPrefix(p, q)}))

-----------------------------------------------------------------------------
Record ==
    /\ err = "" /\ unsaved /\ Own <= MaxChanges + 1
    /\ With(Recording(Here), LAMBDA r :
         IF r.hunks = <<>> THEN UNCHANGED <<library, graph, log, tables, err>>
         ELSE /\ library' = library @@ (Own :> r.change)
              /\ graph' = [graph EXCEPT ![cur] = r.g] /\ log' = [log EXCEPT ![cur] = Append(@, Own)]
              /\ tables' = [r.tables EXCEPT !.err = ""] /\ err' = IF r.err = "" THEN r.tables.err ELSE r.err)
    /\ unsaved' = FALSE /\ UNCHANGED <<cur, disk, steps>>

(* The files a change touches, and where they are now: the least path, then *)
(* those that are not below it.  No path: everything.                      *)
touched(ch) ==
    {atoms(ch)[i].inode : i \in DOMAIN atoms(ch)}
    \cup {Pos(ch.id, n.start) : n \in {n \in ToSet(atoms(ch)) : n.is = "vertex" /\ FOLDER \subseteq n.flag /\ n.start = n.end}}
PathsOf(c, S) == {find_path(c, FALSE, p) : p \in S}
BeginsWith(p, q) == q = <<>> \/ (Len(q) <= Len(p) /\ Front(q) = SubSeq(p, 1, Len(q) - 1)
                                 /\ (p[Len(q)] = Last(q) \/ <<Last(q), p[Len(q)]>> \in Longer))
Outputs(c, paths, rev, Skip(_, _)) ==
    FoldLeft(LAMBDA s, p : IF s.err # "" \/ (s.last # <<NoPath>> /\ Skip(p, s.last[1])) THEN s
                           ELSE With(output_repository([c EXCEPT !.graph = s.graph, !.tables = s.tables, !.disk = s.disk], p, rev), LAMBDA o :
                                     [graph |-> IF o.err = "" THEN del_redundant(s.graph, o) ELSE s.graph,
                                      tables |-> o.tables, disk |-> o.disk, err |-> o.err, last |-> <<p>>]),
             [graph |-> c.graph, tables |-> c.tables, disk |-> c.disk, err |-> "", last |-> <<NoPath>>], InOrder(paths, PathLess))
(* A command that fails leaves everything as it was, but the disk.         *)
Outputting(ch, c, paths, rev, Skip(_, _)) ==
    With(Outputs(c, paths, rev, Skip), LAMBDA o :
         /\ disk' = o.disk /\ err' = o.err
         /\ IF o.err # "" THEN UNCHANGED <<graph, log, tables>>
            ELSE /\ graph' = [graph EXCEPT ![ch] = o.graph]
                 /\ log' = [log EXCEPT ![ch] = c.log] /\ tables' = o.tables)
SkipBelow(p, q) == q # <<>> /\ IsPrefix(q, p) /\ p # q
Everything(S) == IF NoPath \in S \/ S = {} THEN {<<>>} ELSE S

(* Bound: nothing comes alive in a file or a directory that was deleted:    *)
(* it would be in no directory, unless the deletion came last.             *)
Stranded(G) == {v \in {x[1] : x \in G} : is_empty(v) /\ v # ROOT /\ BelowFolders(G, v) # {}} \ FoldersBelow(G, {ROOT})
Pull(x, rev) ==
    /\ err = "" /\ ~unsaved /\ x \in DOMAIN library \ On(cur) /\ library[x].deps \subseteq On(cur)
    /\ With(apply_change_to_channel(graph[cur], library[x], aware(library, x), FALSE), LAMBDA st :
       With(Context(library, st.g, Append(log[cur], x), tables, disk), LAMBDA c :
         IF st.err # "" THEN err' = st.err /\ UNCHANGED <<graph, log, tables, disk>>
         ELSE /\ Stranded(st.g) = {}
              /\ Outputting(cur, c, Everything(PathsOf(c, touched(library[x]))), rev, SkipBelow)))
    /\ UNCHANGED <<library, cur, steps, unsaved>>

(* Unrecording leaves the files as they are, or outputs what remains.      *)
(* Bounds: no directory is removed from the tables and not recorded, as a  *)
(* file restored in it would make record panic; and no file is a zombie, as *)
(* one may stay so (MCGraphRepo).                                          *)
ZombieFiles(G) == {x \in G : FOLDER \cup PSEUDO \subseteq x[2].flag}
Unrecord(x, reset, rev) ==
    /\ err = "" /\ steps < MaxSteps /\ x \in On(cur) \ {1} /\ \A y \in On(cur) : x \notin library[y].deps
    /\ (IF reset THEN ~unsaved ELSE ~Markers(disk)) /\ Reachable(tables) /\ ZombieFiles(graph[cur]) = {}
    /\ With(unapply_atoms(graph[cur], library, library[x]), LAMBDA half :
       With(Then(half, LAMBDA u : unapply_repairs(u, library[x], FALSE)), LAMBDA st :
       With(Context(library, half.g, SelectSeq(log[cur], LAMBDA y : y # x), tables, disk), LAMBDA c :
       With([c EXCEPT !.graph = st.g, !.tables = unapply_tables(c, library[x])], LAMBDA d :
         IF st.err # "" THEN err' = st.err /\ UNCHANGED <<graph, log, tables, disk, unsaved>>
         ELSE /\ IF reset THEN Outputting(cur, d, {<<>>}, rev, SkipBelow)
                 ELSE /\ tables' = d.tables /\ disk' = disk /\ err' = d.tables.err
                      /\ graph' = [graph EXCEPT ![cur] = st.g] /\ log' = [log EXCEPT ![cur] = d.log]
              /\ unsaved' = ~reset))))
    /\ steps' = steps + 1 /\ UNCHANGED <<library, cur>>

(* The last state of c1 that c0 went through, by dichotomy: the positions  *)
(* in both, the least of which is 0; nothing if none is found.             *)
StateAt(l, n) == ToSet(SubSeq(l, 1, n + 1))
has_state(l, S) == {n \in 0..(Len(l) - 1) : StateAt(l, n) = S}
RECURSIVE Dichotomy(_, _, _, _, _)
Dichotomy(c0, c1, a, b, found) ==
    LET mid == (a + b) \div 2
        here == has_state(c0, StateAt(c1, mid))
        now == <<LeastNumber(here), mid>>
    IN  IF a >= b THEN found
        ELSE IF here = {} THEN Dichotomy(c0, c1, a, mid, found)
        ELSE IF a = mid THEN now ELSE Dichotomy(c0, c1, mid, b, now)
last_common_state(c0, c1) ==
    LET last == has_state(c0, ToSet(c1))
    IN  IF c1 = <<>> THEN <<>> ELSE IF last # {} THEN <<LeastNumber(last), Len(c1) - 1>>
        ELSE Dichotomy(c0, c1, 0, Len(c1) - 1, <<>>)
(* Mutant: one change too few.                                             *)
changes_after_next(l, found, i) == IF found = <<>> THEN ToSet(l) ELSE ToSet(SubSeq(l, found[i] + 3, Len(l)))
changes_after(l, found, i) == IF found = <<>> THEN ToSet(l) ELSE ToSet(SubSeq(l, found[i] + 2, Len(l)))
Switch(ch, rev) ==
    LET found == last_common_state(log[cur], log[ch])
        differing == changes_after(log[cur], found, 1) \cup changes_after(log[ch], found, 2)
        c == Context(library, graph[ch], log[ch], tables, disk)
        paths == PathsOf(c, UNION {touched(library[x]) : x \in differing})
    IN  /\ err = "" /\ ~unsaved /\ ch # cur
        /\ Outputting(ch, c, IF differing = {} THEN {} ELSE Everything(paths), rev, BeginsWith)
        /\ cur' = (IF err' = "" THEN ch ELSE cur) /\ UNCHANGED <<library, steps, unsaved>>

Next ==
    \/ \E p \in Paths : \/ \E dir \in BOOLEAN : Add(p, dir)
                        \/ Edit(p) \/ RemoveFile(p) \/ Delete(p)
                        \/ \E q \in Paths : Move(p, q)
    \/ Record
    \/ \E rev \in BOOLEAN : \/ \E x \in DOMAIN library : Pull(x, rev) \/ \E reset \in BOOLEAN : Unrecord(x, reset, rev)
                            \/ \E ch \in Channels : Switch(ch, rev)
Spec == Init /\ [][Next]_vars

-----------------------------------------------------------------------------
(* No command panics or meets an assertion.  An output may fail on the     *)
(* disk: when a directory takes the name of another one, or of a file.     *)
NoPanic == err \in {"", "io"}

(* The tables are the reverse of each other, every file that is known is   *)
(* below the root and a name has one file, whatever was moved, removed,    *)
(* unrecorded and output.                                                  *)
TablesSound == Mirrored(tables) /\ OneInodePerName(tables) /\ (~unsaved => Reachable(tables))

(* The working copy as a clone of the channel would be.                    *)
Clone == output_repository(Context(library, graph[cur], log[cur], EmptyTables, [p \in {} |-> ADir]), <<>>, FALSE)
ToRecord(c) == ToSet(FlattenSeq(record(c).recs))
UpToDate == err = "" /\ ~unsaved

(* Outputting what a change touched is enough: after each command the      *)
(* files that are tracked are those of a clone, with the same lines.       *)
SameFiles(new) == /\ new.err = "" /\ DOMAIN new.disk = Tracked(tables) \cap DOMAIN disk
                  /\ \A p \in DOMAIN new.disk : IF 0 \in ToSet(disk[p].lines) THEN ToSet(disk[p].lines) = ToSet(new.disk[p].lines)
                                                 ELSE disk[p] = new.disk[p]
LikeAClone == UpToDate => With(Clone, LAMBDA new : new.conflicts = {} => SameFiles(new))

(* After a command there is nothing to record, but what a clone would have *)
(* to record as well: the solution of conflicts.                           *)
NothingLeft ==
    UpToDate => With(Clone, LAMBDA new :
                new.conflicts = {} /\ ~Markers(disk) => Cardinality({ToRecord(c) : c \in {Here, [Here EXCEPT !.tables = new.tables, !.disk = new.disk]}}) = 1)

(* A file that is not tracked is never removed or written by a record, a   *)
(* pull or a switch, unless one that is tracked takes its name; it moves    *)
(* with its directory.  Unrecording with a reset does remove it, when the  *)
(* change deleted a file of that name and another one did as well: the     *)
(* file is known again, and dead.                                          *)
UntrackedKept ==
    [][~unsaved' /\ err' = "" /\ steps' = steps =>
         \A p \in DOMAIN disk \ Tracked(tables) :
            p \in Tracked(tables') \/ \E q \in DOMAIN disk' : Last(q) = Last(p) /\ disk'[q] = disk[p]]_vars
=============================================================================
