----------------------------- MODULE GraphRepo -----------------------------
(***************************************************************************)
(* Repositories whose users edit a file, record, pull changes from each    *)
(* other in any order and unrecord: record, apply and unrecord composed,   *)
(* over the graph of one channel each.                                     *)
(***************************************************************************)
EXTENDS Record, GraphUnrecord

CONSTANTS Users,
          Unrecorders,      \* the users who unrecord
          BaseLines,        \* lines of the file everyone starts from
          MaxChanges,       \* bound: changes recorded after the first
          MaxDeleted        \* bound: lines deleted at one place

VARIABLES library,   \* change store: identifier -> change
          graph,     \* user -> graph of the channel
          log,       \* user -> sequence of identifiers, in order of application
          err,       \* what stopped a command, "" if nothing did
          written    \* what the last user to record wrote, until the next command
vars == <<library, graph, log, err, written>>

Base == LET r == add_file(Recorded, 1, RootPos, "file", [i \in 1..BaseLines |-> "base"])
        IN  [change |-> make_change({}, [c \in {} |-> 0], 1, r.rec), inode |-> r.inode]
Inode == Base.inode
On(u) == ToSet(log[u])
Ages(l) == [c \in ToSet(l) \cup {0} |-> IF c = 0 THEN 0 ELSE CHOOSE i \in DOMAIN l : l[i] = c]
Apply(G, ch, known) == apply_change_to_channel(G, ch, known, FALSE)
BaseGraph == Apply({}, Base.change, {1}).g
Nobody == [user |-> {}, bytes |-> <<>>]

Init == /\ library = (1 :> Base.change)
        /\ graph = [u \in Users |-> BaseGraph]
        /\ log = [u \in Users |-> <<1>>]
        /\ err = ""
        /\ written = Nobody

-----------------------------------------------------------------------------
(* The file as output: its bytes, with MARK for a marker.                  *)
MARK == Pos(-2, 0)
Events(G, l) == output_graph(retrieve(G, Inode, FALSE), Ages(l))
Bytes(events) ==
    LET Of(e) == IF e.is # "line" THEN <<MARK>>
                 ELSE IF e.vertex = BOTTOM THEN <<>>
                 ELSE [k \in 1..(e.vertex.end - e.vertex.start) |-> Pos(e.vertex.change, e.vertex.start + k - 1)]
    IN  FlattenSeq([i \in DOMAIN events |-> Of(events[i])])
(* A user edits one place: some lines deleted, or one inserted, or both;   *)
(* or deletes all the markers of the conflicts, and some of the lines.     *)
Edits(d) ==
    LET Place(D) == /\ D.old_len + D.new_len > 0 /\ D.old + D.old_len <= d.len
                    /\ \A l \in D.old..(D.old + D.old_len - 1) : MarkerAt(d, l) = ""
        places == {Replacement(p[1], p[2], p[1], p[3]) : p \in (0..d.len) \X (0..MaxDeleted) \X {<<>>, <<"new">>}}
    IN  {<<D>> : D \in {D \in places : Place(D)}}
Solutions(d) ==
    LET markers == DOMAIN d.marker
        Runs(S) == {p \in S \X S : p[1] <= p[2] /\ p[1]..p[2] \subseteq S /\ p[1] - 1 \notin S /\ p[2] + 1 \notin S}
        Below(S, n) == Cardinality({p \in S : p < n})
        Deletions(S) == LET runs == InOrder(Runs(S), LAMBDA p, q : p[1] < q[1])
                            at == [i \in DOMAIN runs |-> runs[i][1]]
                        IN  [i \in DOMAIN runs |-> Replacement(at[i], runs[i][2] - at[i] + 1, at[i] - Below(S, at[i]), <<>>)]
    IN  IF markers = {} THEN {} ELSE {Deletions(markers \cup S) : S \in SUBSET ((0..(d.len - 1)) \ markers)}
Edited(bytes, D, own) ==
    LET Gone(l) == \E r \in DOMAIN D : D[r].old <= l - 1 /\ l - 1 < D[r].old + D[r].old_len
        Inserted(l) == FlattenSeq([r \in DOMAIN D |-> IF D[r].old = l - 1 THEN [k \in 1..D[r].new_len |-> Pos(own, k - 1)] ELSE <<>>])
    IN  FlattenSeq([l \in 1..(Len(bytes) + 1) |-> Inserted(l) \o (IF l > Len(bytes) \/ Gone(l) THEN <<>> ELSE <<bytes[l]>>)])

-----------------------------------------------------------------------------
Becomes(u, new) == With(new, LAMBDA st : err' = st.err /\ graph' = [graph EXCEPT ![u] = st.g])
(* Bound: once all users have all changes, one more may solve a conflict,  *)
(* and nothing happens after it.                                           *)
Room == err = "" /\ Cardinality(DOMAIN library) <= MaxChanges + 1
Record(u) ==
    LET own == Cardinality(DOMAIN library) + 1
    IN  /\ Room
        /\ own <= MaxChanges + 1 \/ \A w \in Users : On(w) = DOMAIN library
        /\ With(Events(graph[u], log[u]), LAMBDA events :
           With(DiffBuffer(Inode, events), LAMBDA d :
           \E D \in Solutions(d) \cup (IF own <= MaxChanges + 1 THEN Edits(d) ELSE {}) :
              /\ written' = [user |-> {u}, bytes |-> Edited(Bytes(events), D, own)]
              /\ With(diff(Recorded, own, graph[u], d, D), LAMBDA rec :
                 /\ rec.hunks # <<>>
                 /\ With(make_change(graph[u], library, own, rec), LAMBDA ch :
                    /\ Becomes(u, [Apply(graph[u], ch, DOMAIN library) EXCEPT !.err = IF rec.panic THEN "panic" ELSE @])
                    /\ library' = library @@ (own :> ch)
                    /\ log' = [log EXCEPT ![u] = Append(@, own)]))))
Pull(u, c) ==
    /\ Room /\ c \in DOMAIN library \ On(u) /\ library[c].deps \subseteq On(u)
    /\ Becomes(u, Apply(graph[u], library[c], aware(library, c)))
    /\ log' = [log EXCEPT ![u] = Append(@, c)]
    /\ written' = Nobody
    /\ UNCHANGED library
Unrecord(u, c) ==
    /\ Room /\ u \in Unrecorders /\ c \in On(u) \ {1} /\ \A x \in On(u) : c \notin library[x].deps
    /\ Becomes(u, unapply(graph[u], library, library[c], FALSE))
    /\ log' = [log EXCEPT ![u] = SelectSeq(@, LAMBDA x : x # c)]
    /\ written' = Nobody
    /\ UNCHANGED library
Next == \E u \in Users : Record(u) \/ \E c \in DOMAIN library : Pull(u, c) \/ Unrecord(u, c)
Spec == Init /\ [][Next]_vars

-----------------------------------------------------------------------------
(* No command panics, loops, or refuses what it should accept: the graph   *)
(* of a channel and the changes recorded on it always fit.                 *)
NoError == err = ""

(* What the graph says is alive: lines an edge that is not deleted holds,  *)
(* and, among them, those some change deleted without knowing that.        *)
AliveVertices(G) ==
    {v \in Vertices(G) : ~is_empty(v) /\ \E e \in iter_adjacent(G, v, PARENT, ALL \ DELETED) :
                            BLOCK \subseteq e.flag /\ e.flag \cap (PSEUDO \cup FOLDER) = {}}
BytesOf(V) == UNION {{Pos(v.change, p) : p \in v.start..(v.end - 1)} : v \in V}
AliveBytes(G) == BytesOf(AliveVertices(G))
ZombieBytes(G) == BytesOf({v \in AliveVertices(G) : ZombieVertex(G, v)})

(* The repairs after each change keep every alive line reachable from its  *)
(* file, however deleted and undone the lines around it: no line is lost.  *)
EveryLineShown ==
    \A u \in Users : AliveBytes(graph[u]) \subseteq BytesOf(ToSet(retrieve(graph[u], Inode, FALSE).vertex))

(* Independent changes commute (README.md): two users with the same        *)
(* changes have the same lines, in whatever order they got, recorded and   *)
(* unrecorded them.                                                        *)
SameLines == \A u, w \in Users : On(u) = On(w) => AliveBytes(graph[u]) = AliveBytes(graph[w])

(* They see the same conflicts.                                            *)
SameConflicts == \A u, w \in Users : On(u) = On(w) => ZombieBytes(graph[u]) = ZombieBytes(graph[w])

(* Unrecording is as if the change had never been there: the lines are     *)
(* those of the remaining changes applied one after the other.             *)
Replay(l) == FoldLeft(LAMBDA G, c : IF c = 1 THEN G ELSE Apply(G, library[c], aware(library, c)).g, BaseGraph, l)
UnrecordUndoes == \A u \in Users : AliveBytes(Replay(log[u])) = AliveBytes(graph[u])

(* A user who leaves no marker of a conflict in a file reads back, after   *)
(* recording, exactly what was written: the conflicts are solved, the      *)
(* deleted lines stay away and the order of the others is the one chosen.  *)
WrittenIsRead ==
    \A u \in written.user : MARK \in ToSet(written.bytes) \/ Bytes(Events(graph[u], log[u])) = written.bytes
=============================================================================
