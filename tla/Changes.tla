------------------------------ MODULE Changes ------------------------------
(***************************************************************************)
(* What a change says of itself (libpijul/src/change.rs): the changes it   *)
(* depends on, without those that others of them imply, and the changes it *)
(* knows of besides, around the edges it modifies.                         *)
(*                                                                         *)
(* A library is a function from identifiers to changes: records of id,     *)
(* deps, knows (deps and the changes known besides), hunks and text.       *)
(***************************************************************************)
EXTENDS GraphApply

(* The changes of the positions an atom names, itself excepted.            *)
NamedBy(n, own) ==
    ({n.up[i].change : i \in DOMAIN n.up} \cup {n.down[i].change : i \in DOMAIN n.down}
     \cup UNION {{e.from.change, e.to.change, e.by} : e \in ToSet(n.edges)}) \ {own, 0}

RECURSIVE DepsOf(_, _)
DepsOf(library, S) == With(S \cup UNION {library[c].deps : c \in S}, LAMBDA T : IF T = S THEN S ELSE DepsOf(library, T))
minimize_deps(library, deps) == {d \in deps : d \notin UNION {DepsOf(library, library[c].deps) : c \in deps}}

AroundVertex(G, v) == UNION {{e.by, e.dest.change} : e \in iter_adj_all(G, v)}
RECURSIVE AroundBlocks(_, _, _)
AroundBlocks(G, v, end) == AroundVertex(G, v) \cup IF v.end >= end THEN {} ELSE AroundBlocks(G, find_block(G, end_pos(v)), end)
add_zombie_deps_from(G, from) == AroundVertex(G, find_block_end(G, from))
add_zombie_deps_to(G, to) == AroundBlocks(G, find_block(G, start_pos(to)), to.end)
dependencies(G, library, own, as) ==
    LET edges == UNION {ToSet(as[i].edges) : i \in DOMAIN as}
        deps == minimize_deps(library, UNION {NamedBy(as[i], own) : i \in DOMAIN as})
        zombie_deps == UNION {(IF e.from.change = own THEN {} ELSE add_zombie_deps_from(G, e.from))
                              \cup (IF e.to.change = own THEN {} ELSE add_zombie_deps_to(G, e.to)) : e \in edges}
    IN  [deps |-> deps, extra |-> zombie_deps \ (deps \cup {0, own})]

make_change(G, library, own, rec) ==
    With(dependencies(G, library, own, FlattenSeq([i \in DOMAIN rec.hunks |-> rec.hunks[i].atoms])), LAMBDA d :
         [id |-> own, deps |-> d.deps, knows |-> d.deps \cup d.extra, hunks |-> rec.hunks, text |-> rec.text])
(* The changes that say they know a change, as the code asks.              *)
aware(library, c) == {h \in DOMAIN library : c \in library[h].knows}
=============================================================================
