------------------------------- MODULE BTree -------------------------------
(***************************************************************************)
(* The tables of the pristine.  A sanakirja B-tree whose keys carry one    *)
(* value each is a function whose domain is the set of its keys.  The      *)
(* library is external to the repository; these operators are what         *)
(* libpijul/src/pristine/sanakirja.rs uses of it.                          *)
(***************************************************************************)
EXTENDS Integers

(* A table just created by btree::create_db. *)
EmptyDb == [k \in {} |-> k]

(* btree::put: the table with value v under key k. *)
Put(db, k, v) ==
  [x \in DOMAIN db \cup {k} |-> IF x = k THEN v ELSE db[x]]

(* btree::del: the table without key k. *)
Del(db, k) == [x \in DOMAIN db \ {k} |-> db[x]]

(* The greatest of a set of numeric keys: where btree::rev_iter starts. *)
LastOf(S) == CHOOSE x \in S : \A y \in S : y =< x

(* The keys of a table below t, and those up to t. *)
Below(db, t) == {u \in DOMAIN db : u < t}
UpTo(db, t) == {u \in DOMAIN db : u =< t}
=============================================================================
