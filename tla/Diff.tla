-------------------------------- MODULE Diff --------------------------------
(***************************************************************************)
(* How the difference between a file as output and as edited becomes       *)
(* hunks (libpijul/src/diff): deletions and insertions of lines, deletions *)
(* of markers of conflicts, which solve them.  All lines have one byte and *)
(* end with a newline, so that a line and a byte have the same index.      *)
(* Indexes are those of the code, from 0.                                  *)
(*                                                                         *)
(* The difference is a sequence D of replacements, as the external crate   *)
(* diffs returns it: line old, old_len deleted lines, line new in the new  *)
(* file, new_len inserted lines, and their text.                           *)
(***************************************************************************)
EXTENDS AliveOutput, GraphApply

Replacement(old, old_len, new, text) == [old |-> old, old_len |-> old_len, new |-> new, new_len |-> Len(text), text |-> text]

-----------------------------------------------------------------------------
(* The buffer the file is output to: the vertices with their positions,    *)
(* the markers by position, where conflicts begin and end.                 *)
NewDiff(inode) ==
    [inode |-> inode, pos_a |-> <<>>, len |-> 0, marker |-> [p \in {} |-> ""], stack |-> <<0>>,
     ends |-> <<[start |-> 0, end |-> 0, end_pos |-> 0, kind |-> "root"]>>, cyclic |-> <<>>]
PutMarker(d, m) ==
    [d EXCEPT !.marker = (d.len :> m) @@ @, !.len = @ + 1,
              !.pos_a = Append(@, [pos |-> d.len, vertex |-> ROOT, conflict |-> Last(d.stack)])]
begin_conflict(d, kind) ==
    PutMarker([d EXCEPT !.stack = Append(@, Len(d.ends)),
                        !.ends = Append(@, [start |-> Len(d.pos_a), end |-> Len(d.pos_a), end_pos |-> d.len, kind |-> kind]),
                        !.cyclic = IF kind = "cyclic" THEN Append(@, <<d.len, d.len>>) ELSE @], "Begin")
end_conflict(d, kind) ==
    LET e == PutMarker(d, "End")
    IN  [e EXCEPT !.stack = Front(@), !.ends[Last(d.stack) + 1].end = Len(d.pos_a), !.ends[Last(d.stack) + 1].end_pos = d.len,
                  !.cyclic = IF kind = "cyclic" THEN Append(Front(@), <<Last(@)[1], e.len>>) ELSE @]
output_line(d, v) ==
    [d EXCEPT !.pos_a = Append(@, [pos |-> d.len, vertex |-> v, conflict |-> Last(d.stack)]), !.len = @ + (v.end - v.start)]
BufferEvent(d, e) ==
    CASE e.is = "line" -> IF e.vertex = BOTTOM THEN d ELSE output_line(d, e.vertex)
      [] e.is = "begin" -> begin_conflict(d, e.kind)
      [] e.is = "next" -> PutMarker(d, "Next")
      [] e.is = "end" -> end_conflict(d, e.kind)
DiffBuffer(inode, events) == FoldLeft(BufferEvent, NewDiff(inode), events)

At(d, i) == d.pos_a[i + 1]
MarkerAt(d, p) == IF p \in DOMAIN d.marker THEN d.marker[p] ELSE ""
MarkerOf(d, i) == MarkerAt(d, At(d, i).pos)
ConflictOf(d, i) == d.ends[At(d, i).conflict + 1]
IsCyclic(d, line) == \E i \in DOMAIN d.cyclic : d.cyclic[i][1] <= line /\ line < d.cyclic[i][2]

Indexes(d) == 0..(Len(d.pos_a) - 1)
Greatest(S) == CHOOSE n \in S : \A m \in S : m <= n
last_vertex_containing(d, p) == Greatest({i \in Indexes(d) : At(d, i).pos <= p})
first_vertex_containing(d, p) ==
    LET same == {i \in Indexes(d) : At(d, i).pos = p}
        i == Greatest({i \in Indexes(d) : At(d, i).pos < p})
        len == At(d, i).vertex.end - At(d, i).vertex.start
    IN  IF same # {} THEN LeastOf(same) ELSE IF p < At(d, i).pos + len \/ len = 0 THEN i ELSE i + 1
PartOf(d, i, p, end) ==
    LET v == At(d, i).vertex
        whole == i + 1 < Len(d.pos_a) /\ end >= At(d, i + 1).pos
    IN  [v EXCEPT !.start = IF p > At(d, i).pos THEN @ + (p - At(d, i).pos) ELSE @,
                  !.end = IF whole THEN @ ELSE v.start + (end - At(d, i).pos)]
position(d, i, p) ==
    LET s == start_pos(At(d, i).vertex) IN IF p > At(d, i).pos THEN [s EXCEPT !.pos = @ + (p - At(d, i).pos)] ELSE s

(* The code panics on a byte that begins no line.                          *)
PanicPos == Pos(-1, 0)
is_deleted(d, D, line) ==
    LET at == {r \in DOMAIN D : D[r].old <= line /\ line < D[r].old + D[r].old_len}
    IN  IF line >= d.len THEN "panic" ELSE IF at = {} THEN "kept" ELSE IF \E r \in at : D[r].new_len > 0 THEN "replaced" ELSE "deleted"

-----------------------------------------------------------------------------
(* What is recorded so far: hunks, the length of the contents, the text of *)
(* its bytes; and, for one file, the positions of this change that stand   *)
(* above a conflict (up), at the ends of its sides, or for its solution.   *)
Recorded == [hunks |-> <<>>, len |-> 0, text |-> [p \in {} |-> ""], panic |-> FALSE]
Contexts == [up |-> [c \in {} |-> 0], side_ends |-> [i \in {} |-> <<>>], reorderings |-> [l \in {} |-> 0]]
Hunk(kind, line, as) == [kind |-> kind, line |-> line, atoms |-> as]
Push(rec, h) == [rec EXCEPT !.hunks = Append(@, h)]

(* The lines above an insertion: the line before, or the ends of all the   *)
(* sides of the conflict before, or what was inserted above a conflict     *)
(* that begins there.                                                      *)
RECURSIVE UpSides(_, _, _, _, _, _)
UpSides(d, start, i, on, active, up) ==
    IF i <= start THEN up
    ELSE LET m == MarkerOf(d, i)
             c == At(d, i).conflict
             push == m = "" /\ on
         IN  UpSides(d, start, i - 1,
                     IF push THEN FALSE ELSE on \/ (m = "Next" /\ c \in active),
                     IF m = "End" /\ on THEN active \cup {c} ELSE active,
                     IF push THEN Append(up, end_pos(At(d, i).vertex)) ELSE up)
get_up_context_conflict(d, cc, own, i) ==
    LET sides == IF i \in DOMAIN cc.side_ends THEN cc.side_ends[i] ELSE <<>>
    IN  UpSides(d, ConflictOf(d, i).start, i, TRUE, {At(d, i).conflict}, [k \in DOMAIN sides |-> Pos(own, sides[k])])
RECURSIVE UpFrom(_, _, _, _, _, _)
UpFrom(d, cc, own, old, i, seen) ==
    LET m == MarkerOf(d, i)
        v == At(d, i).vertex
        c == At(d, i).conflict
        start == ConflictOf(d, i).start
    IN  CASE m = "" /\ seen -> <<end_pos(v)>>
          [] m = "" /\ ~seen -> LET p == v.start + (old - At(d, i).pos)
                                IN  <<IF p <= v.end THEN Pos(v.change, p) ELSE IF p = v.end + 1 THEN end_pos(v) ELSE PanicPos>>
          [] m = "End" -> get_up_context_conflict(d, cc, own, i)
          [] m \in {"Begin", "Next"} ->
                IF c \in DOMAIN cc.up THEN <<Pos(own, cc.up[c])>>
                ELSE IF start > 0 THEN UpFrom(d, cc, own, old, start - 1, TRUE) ELSE <<end_pos(At(d, 0).vertex)>>
get_up_context(d, cc, own, old) ==
    IF old \in DOMAIN cc.reorderings THEN <<Pos(own, cc.reorderings[old])>>
    ELSE IF old = 0 THEN <<end_pos(At(d, 0).vertex)>>
    ELSE UpFrom(d, cc, own, old, last_vertex_containing(d, old - 1), FALSE)

(* The lines below an insertion: the next line that is not deleted, none   *)
(* if it is replaced, the beginnings of all the sides of a conflict.  At   *)
(* the end of a side, the insertion is remembered instead.                 *)
NextPos(d, i) == IF i + 1 < Len(d.pos_a) THEN At(d, i + 1).pos ELSE d.len
RECURSIVE DownSides(_, _, _, _, _, _, _, _)
DownSides(d, D, end, i, p, on, active, down) ==
    LET m == MarkerAt(d, p)
        c == At(d, i).conflict
        status == is_deleted(d, D, p)
        again == m = "" /\ on /\ status = "deleted" /\ p + 1 < NextPos(d, i)
        on1 == IF m = "" /\ on THEN status = "deleted" ELSE on \/ (m = "Next" /\ c \in active)
        active1 == IF m = "Begin" /\ on THEN active \cup {c} ELSE active
        down1 == IF m = "" /\ on /\ status \in {"kept", "panic"} THEN Append(down, IF status = "kept" THEN position(d, i, p) ELSE PanicPos)
                 ELSE down
    IN  CASE again -> DownSides(d, D, end, i, p + 1, on, active, down)
          [] ~again /\ i + 1 > end -> down1
          [] OTHER -> DownSides(d, D, end, i + 1, At(d, i + 1).pos, on1, active1, down1)
(* What is remembered is the length of the insertion, not its end.         *)
get_down_context_conflict(d, D, cc, i, new_len) ==
    LET c == At(d, i).conflict
        end == LeastOf({ConflictOf(d, i).end, Len(d.pos_a) - 1})
    IN  [cc |-> [cc EXCEPT !.up = (c :> new_len) @@ @], down |-> DownSides(d, D, end, i, At(d, i).pos, TRUE, {c}, <<>>)]
FirstKept(d, D, i, p) == {q \in p..(NextPos(d, i) - 1) : is_deleted(d, D, q) # "deleted" /\ \A o \in p..(q - 1) : is_deleted(d, D, o) = "deleted"}
RECURSIVE DownFrom(_, _, _, _, _, _, _)
DownFrom(d, D, cc, i, p, new_len, contents_len) ==
    LET m == MarkerOf(d, i)
        at == IF m = "Next" THEN ConflictOf(d, i).end ELSE i
        ends == IF at \in DOMAIN cc.side_ends THEN cc.side_ends[at] ELSE <<>>
        from == IF At(d, i).pos > p THEN At(d, i).pos ELSE p
        kept == {q \in FirstKept(d, D, i, from) \cup (IF from >= NextPos(d, i) THEN {from} ELSE {}) : is_deleted(d, D, q) # "deleted"}
    IN  IF i >= Len(d.pos_a) THEN [cc |-> cc, down |-> <<>>]
        ELSE CASE m = "Begin" -> get_down_context_conflict(d, D, cc, i, new_len)
               [] m \in {"Next", "End"} ->
                    DownFrom(d, D, [cc EXCEPT !.side_ends = (at :> Append(ends, contents_len + new_len)) @@ @], at + 1, p, new_len, contents_len)
               [] OTHER -> IF kept = {} THEN DownFrom(d, D, cc, i + 1, IF from >= NextPos(d, i) THEN from + 1 ELSE NextPos(d, i), new_len, contents_len)
                           ELSE LET q == CHOOSE q \in kept : TRUE
                                IN  [cc |-> cc, down |-> CASE is_deleted(d, D, q) = "replaced" -> <<>>
                                                           [] is_deleted(d, D, q) = "kept" -> <<position(d, i, q)>>
                                                           [] is_deleted(d, D, q) = "panic" -> <<PanicPos>>]
get_down_context(d, D, cc, old, old_len, new_len, contents_len) ==
    LET p == old + old_len
    IN  IF p >= d.len THEN [cc |-> cc, down |-> <<>>]
        ELSE DownFrom(d, D, cc, IF p = 0 THEN 1 ELSE first_vertex_containing(d, p), p, new_len, contents_len)
-----------------------------------------------------------------------------
(* Deletion of lines: all the edges to the part of each block are deleted, *)
(* or, for the rest of a block, the edge that cutting it makes.            *)
delete_parents(G, v, part) ==
    LET es == SelectSeq(SortE(iter_adjacent(G, v, PARENT, ALL)), LAMBDA e :
                  /\ PARENT \subseteq e.flag /\ ~(PSEUDO \subseteq e.flag)
                  /\ v.start = part.start \/ is_empty(v) \/ BLOCK \subseteq e.flag)
        To(e) == NewEdge(e.flag \ PARENT, (e.flag \ PARENT) \cup DELETED, IF v.start = part.start THEN e.dest ELSE start_pos(part), part, e.by)
    IN  [k \in DOMAIN es |-> To(es[k])]
resurrect_zombie(G, v, part) ==
    LET es == SelectSeq(SortE(iter_adjacent(G, v, PARENT, PARENT \cup DELETED \cup BLOCK)),
                        LAMBDA e : PARENT \subseteq e.flag /\ ~(PSEUDO \subseteq e.flag))
        To(e) == NewEdge(e.flag \ PARENT, e.flag \ (PARENT \cup DELETED), IF v.start = part.start THEN e.dest ELSE start_pos(part), part, e.by)
    IN  [k \in DOMAIN es |-> To(es[k])]

(* A deleted marker of a zombie conflict resurrects what is kept of it.    *)
RECURSIVE DeleteFrom(_, _, _, _, _, _)
DeleteFrom(G, d, i, p, end, acc) ==
    LET m == MarkerOf(d, i)
        v == At(d, i).vertex
        c == ConflictOf(d, i)
        now == IF m = "" \/ (v # ROOT /\ is_empty(v))
               THEN [acc EXCEPT !.edges = @ \o delete_parents(G, v, PartOf(d, i, p, end))]
               ELSE IF m = "Begin" /\ c.kind = "zombie" /\ c.end_pos > acc.solved THEN [acc EXCEPT !.solved = c.end_pos] ELSE acc
    IN  IF p >= end THEN [acc EXCEPT !.i = i]
        ELSE IF i + 1 >= Len(d.pos_a) THEN [now EXCEPT !.i = i + 1]
        ELSE DeleteFrom(G, d, i + 1, At(d, i + 1).pos, end, now)

RECURSIVE Resurrect(_, _, _, _, _, _)
Resurrect(G, d, i, p, next, acc) ==
    IF i >= Len(d.pos_a) THEN [i |-> i, edges |-> acc]
    ELSE IF At(d, i).pos >= next THEN [i |-> i, edges |-> acc]
    ELSE Resurrect(G, d, i + 1, p, next,
                   IF At(d, i).vertex = ROOT \/ (i + 1 < Len(d.pos_a) /\ At(d, i + 1).pos <= p) THEN acc
                   ELSE acc \o resurrect_zombie(G, At(d, i).vertex, PartOf(d, i, p, next)))
RECURSIVE resurrect_zombies(_, _, _, _, _, _, _, _)
resurrect_zombies(G, d, D, r, i, p, solved, acc) ==
    LET later == {k \in DOMAIN D : k > r /\ ~(D[k].old_len = 0 /\ D[k].old < solved)}
        k == LeastOf(later)
        next == IF later = {} \/ D[k].old > solved THEN solved ELSE D[k].old
        s == Resurrect(G, d, i, p, next, acc)
    IN  IF p >= solved THEN acc
        ELSE IF later = {} THEN s.edges
        ELSE resurrect_zombies(G, d, D, k, s.i, D[k].old + D[k].old_len, solved, s.edges)
delete_lines(G, d, D, r) ==
    LET p == D[r].old
        end == p + D[r].old_len
        first == first_vertex_containing(d, p)
        from(i) == IF At(d, i).pos > end THEN i - 1 ELSE i
    IN  With(DeleteFrom(G, d, IF first = 0 THEN 1 ELSE first, p, end, [edges |-> <<>>, solved |-> 0, i |-> 0]), LAMBDA del :
             [edges |-> del.edges,
              resurrect |-> IF del.solved = 0 \/ del.i >= Len(d.pos_a) THEN <<>>
                            ELSE resurrect_zombies(G, d, D, r, from(del.i), end, del.solved, <<>>)])
DeleteLines(rec, G, d, D, r) ==
    LET PushEdges(s, kind, edges) == IF edges = <<>> THEN s ELSE Push(s, Hunk(kind, D[r].new, <<EdgeMap(d.inode, edges)>>))
    IN  With(delete_lines(G, d, D, r), LAMBDA del : PushEdges(PushEdges(rec, "edit", del.edges), "resurrect_zombies", del.resurrect))

(* A separator deleted between sides puts an empty line between what is    *)
(* above and what is below, in place of the conflict.                      *)
(* Mutant: only separators after the end of a conflict count.              *)
is_conflict_reordering_inside(d, old, len) ==
    LET level[q \in 0..len] ==
            IF q = 0 THEN 1
            ELSE LET l == level[q - 1]
                     m == MarkerAt(d, old + q - 1)
                 IN  IF m = "Begin" THEN l + 1 ELSE IF m = "End" /\ l > 0 THEN l - 1 ELSE l
    IN  \E q \in 0..(len - 1) : level[q] = 0 /\ MarkerAt(d, old + q) = "Next"
is_conflict_reordering(d, old, len) ==
    LET level[q \in 0..len] ==
            IF q = 0 THEN 0
            ELSE LET l == level[q - 1]
                     m == MarkerAt(d, old + q - 1)
                 IN  IF m = "Begin" THEN l + 1 ELSE IF m = "End" /\ l > 0 THEN l - 1 ELSE l
    IN  \E q \in 0..(len - 1) : level[q] = 0 /\ MarkerAt(d, old + q) = "Next"
order_conflict_sides(s, own, d, D, r) ==
    LET old == D[r].old
        p == s.rec.len + 1
        Ordered(up, below) ==
            [rec |-> Push([s.rec EXCEPT !.len = @ + 2, !.panic = @ \/ PanicPos \in ToSet(up \o below.down)],
                          Hunk("solve_order_conflict", D[r].new, <<NewVertex(d.inode, NOFLAG, up, p, p, below.down)>>)),
             cc |-> below.cc]
    IN  IF ~is_conflict_reordering(d, old, D[r].old_len) THEN s
        ELSE Ordered(get_up_context(d, s.cc, own, old),
                     IF D[r].new_len > 0 THEN [cc |-> [s.cc EXCEPT !.reorderings = (old :> p) @@ @], down |-> <<>>]
                     ELSE get_down_context(d, D, s.cc, old, D[r].old_len, 0, s.rec.len + 2))

(* Insertion of lines, in one hunk with the deletion it replaces.          *)
JoinsDeletion(D, r, hunks) == D[r].old_len > 0 /\ hunks # <<>> /\ Last(hunks).kind = "edit" /\ Last(hunks).line = D[r].new
PushLines(rec, D, r, n) ==
    IF JoinsDeletion(D, r, rec.hunks)
    THEN [rec EXCEPT !.hunks = Append(Front(@), Hunk("replacement", Last(@).line, Append(Last(@).atoms, n)))]
    ELSE Push(rec, Hunk("edit", D[r].new, <<n>>))
replace(s, own, d, D, r) ==
    LET start == s.rec.len
        end == start + D[r].new_len
        Written(up, down) == [s.rec EXCEPT !.len = end + 1, !.text = [p \in start..(end - 1) |-> D[r].text[p - start + 1]] @@ @,
                                           !.panic = @ \/ PanicPos \in ToSet(up \o down)]
    IN  With(get_up_context(d, s.cc, own, D[r].old), LAMBDA up :
        With(get_down_context(d, D, s.cc, D[r].old, D[r].old_len, D[r].new_len, start), LAMBDA below :
             [cc |-> below.cc,
              rec |-> PushLines(Written(up, below.down), D, r, NewVertex(d.inode, BLOCK, up, start, end, below.down))]))

DiffStep(s, own, G, d, D, r) ==
    With(IF D[r].old_len = 0 THEN s ELSE order_conflict_sides([s EXCEPT !.rec = DeleteLines(@, G, d, D, r)], own, d, D, r), LAMBDA t :
         IF D[r].new_len = 0 THEN t ELSE replace(t, own, d, D, r))
diff(rec0, own, G, d, D) ==
    FoldLeft(LAMBDA s, r : DiffStep(s, own, G, d, D, r), [rec |-> rec0, cc |-> Contexts], [r \in DOMAIN D |-> r]).rec
=============================================================================
