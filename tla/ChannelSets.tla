----------------------------- MODULE ChannelSets -----------------------------
(***************************************************************************)
(* What the channels of a repository promise: each is a set of changes     *)
(* that contains the dependencies of its elements.  The order of a log,    *)
(* ids, tables and transactions are out of sight.                          *)
(***************************************************************************)
EXTENDS Integers, Sequences, FiniteSets

CONSTANTS Hash, Dependencies, Name

VARIABLE sets    \* name of a channel -> the changes on it

SetDeps(h) == {Dependencies[h][i] : i \in DOMAIN Dependencies[h]}
Closed(S) == \A h \in S : SetDeps(h) \subseteq S

Becomes(n, S) ==
  sets' = [m \in DOMAIN sets \cup {n} |-> IF m = n THEN S ELSE sets[m]]

Init == sets = [n \in {} |-> {}]

Create(n) == n \notin DOMAIN sets /\ Becomes(n, {})

(* Apply a change after its dependencies. *)
Apply(n, h) ==
  /\ n \in DOMAIN sets /\ h \notin sets[n] /\ SetDeps(h) \subseteq sets[n]
  /\ Becomes(n, sets[n] \cup {h})

(* Unrecord a change nothing on the channel depends on. *)
Unrecord(n, h) ==
  /\ n \in DOMAIN sets /\ h \in sets[n]
  /\ \A g \in sets[n] : h \notin SetDeps(g)
  /\ Becomes(n, sets[n] \ {h})

Copy(n, m) == n \in DOMAIN sets /\ m \notin DOMAIN sets /\ Becomes(m, sets[n])

Rename(n, m) ==
  /\ n \in DOMAIN sets /\ m \notin DOMAIN sets
  /\ sets' = [k \in (DOMAIN sets \ {n}) \cup {m} |-> IF k = m THEN sets[n] ELSE sets[k]]

Drop(n) ==
  /\ n \in DOMAIN sets
  /\ sets' = [k \in DOMAIN sets \ {n} |-> sets[k]]

Next ==
  \E n \in Name :
    \/ Create(n) \/ Drop(n)
    \/ \E h \in Hash : Apply(n, h) \/ Unrecord(n, h)
    \/ \E m \in Name : Copy(n, m) \/ Rename(n, m)

Spec == Init /\ [][Next]_sets

(* Every channel contains the dependencies of what it contains. *)
AllClosed == \A n \in DOMAIN sets : Closed(sets[n])
=============================================================================
