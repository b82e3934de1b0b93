---------------------------- MODULE RemoteCache ----------------------------
(***************************************************************************)
(* What a repository remembers of a remote, and what it deduces from it:   *)
(* where the remote may differ, what to download and what to upload.       *)
(*                                                                         *)
(* A channel is [log, tags, next]: the change at each position, the state  *)
(* tagged at some positions, and the next position.  A state is the set of *)
(* the changes multiplied into it, the state of a tag the bag of the       *)
(* states tagged so far.  What is asked and sent is a pair <<"change", h>> *)
(* or <<"state", m>>.                                                      *)
(***************************************************************************)
EXTENDS BTree, SequencesExt

Requests(hs) == {<<"change", h>> : h \in hs}
ChangesOf(cs) == {c[2] : c \in {x \in cs : x[1] = "change"}}
NoTag(cs) == \A c \in cs : c[1] = "change"

-----------------------------------------------------------------------------
(* Sequences of what tables have, in the order of their keys.              *)
Ascending(S) ==
  [i \in 1 .. Cardinality(S) |-> CHOOSE x \in S : Cardinality({y \in S : y =< x}) = i]
InOrder(db) == LET ks == Ascending(DOMAIN db) IN [i \in DOMAIN ks |-> db[ks[i]]]
Chosen(list, at) == InOrder([i \in at |-> list[i]])

(* Requests by position, the one for a tag after the one for the change.   *)
Interleaved(hs, ms) ==
  InOrder([s \in {2 * k : k \in DOMAIN hs} \cup {2 * k + 1 : k \in DOMAIN ms} |->
             IF s % 2 = 0 THEN <<"change", hs[s \div 2]>> ELSE <<"state", ms[s \div 2]>>])

-----------------------------------------------------------------------------
(* Channels.                                                               *)
NoLog == [log |-> EmptyDb, tags |-> EmptyDb, next |-> 0]

On(ch) == {ch.log[n] : n \in DOMAIN ch.log}
StateAt(ch, n) == {ch.log[k] : k \in UpTo(ch.log, n)}
States(ch) == {StateAt(ch, n) : n \in DOMAIN ch.log}
TaggedStates(ch) == {StateAt(ch, n) : n \in DOMAIN ch.log \cap DOMAIN ch.tags}

From(db, n) == {k \in DOMAIN db : k >= n}
FirstOf(S) == CHOOSE x \in S : \A y \in S : x =< y

(* Where an iterator, and a reverse one, placed at key n starts.           *)
IterKey(db, n) == FirstOf(From(db, n))
RevIterKey(db, n) == IF From(db, n) = {} THEN LastOf(DOMAIN db) ELSE IterKey(db, n)

(* The product of the tags up to position n, then of the tag found from n. *)
TagBag(tags, n) ==
  [m \in {tags[k] : k \in UpTo(tags, n)} |-> Cardinality({k \in UpTo(tags, n) : tags[k] = m})]
TagFrom(tags, n) ==
  IF DOMAIN tags = {} THEN EmptyDb ELSE TagBag(tags, RevIterKey(tags, n))

(* The position, the state and the state of tags that a channel shows at n. *)
get_state(ch, n) ==
  LET k == RevIterKey(ch.log, n)
  IN  [n |-> k, state |-> StateAt(ch, k), tagged |-> TagFrom(ch.tags, k)]

changelist(ch, from) ==
  [k \in From(ch.log, from) |->
     [h |-> ch.log[k], m |-> StateAt(ch, k), tag |-> k \in DOMAIN ch.tags]]

-----------------------------------------------------------------------------
(* The cache of a remote: its log, and two tables that may hold several    *)
(* positions for a key.                                                    *)
NoCache == [remote |-> EmptyDb, rev |-> {}, states |-> {}, tags |-> EmptyDb]

(* Pairs of a key and a position, the first pair of a key deleted once for *)
(* each time that the key is gone.                                         *)
DelFirsts(pairs, gone) ==
  {p \in pairs : Cardinality({q \in pairs : q[1] = p[1] /\ q[2] < p[2]})
                   >= Cardinality({k \in DOMAIN gone : gone[k] = p[1]})}

(* Mutant: the changes stay in the table of changes of the remote. *)
del_remote_log_only(c, n) ==
  LET gone == From(c.remote, n)
  IN  [c EXCEPT !.remote = [k \in Below(c.remote, n) |-> c.remote[k]],
                !.states = DelFirsts(@, [k \in gone |-> c.remote[k].b])]

(* The entries from position n on are deleted, one after the other.        *)
del_remote(c, n) ==
  LET gone == From(c.remote, n)
  IN  [c EXCEPT !.remote = [k \in Below(c.remote, n) |-> c.remote[k]],
                !.rev    = DelFirsts(@, [k \in gone |-> c.remote[k].a]),
                !.states = DelFirsts(@, [k \in gone |-> c.remote[k].b])]

(* Entries are put in order, each at its position, and their tags unless   *)
(* there is one at that position or above.                                 *)
put_remote(c, theirs) ==
  [remote |-> [k \in DOMAIN c.remote \cup DOMAIN theirs |->
                 IF k \in DOMAIN theirs THEN [a |-> theirs[k].h, b |-> theirs[k].m]
                 ELSE c.remote[k]],
   rev    |-> c.rev \cup {<<theirs[k].h, k>> : k \in DOMAIN theirs},
   states |-> c.states \cup {<<theirs[k].m, k>> : k \in DOMAIN theirs},
   tags   |-> [k \in DOMAIN c.tags \cup {i \in DOMAIN theirs : theirs[i].tag /\ From(c.tags, i) = {}} |->
                 IF k \in DOMAIN c.tags THEN c.tags[k] ELSE theirs[k].m]]

remote_has_change(c, h) == \E p \in c.rev : p[1] = h
remote_has_state(c, m) == \E p \in c.states : p[1] = m

(* The change meant by a full name: a change at two positions is ambiguous. *)
hash_from_prefix_remote(c, h) == Cardinality({p \in c.rev : p[1] = h}) = 1

(* The cache whose entries from position n on are replaced.                *)
Replaced(c, n, theirs) == put_remote(del_remote(c, n), theirs)

(* The tags are dropped first by a clone, and never by a push or a pull.   *)
update_changelist(c, n, theirs) ==
  Replaced([c EXCEPT !.tags = [k \in Below(@, n) |-> @[k]]], n, theirs)

-----------------------------------------------------------------------------
(* What a remote answers when asked for its state at each of some          *)
(* positions: the channel of a path looks from the position on, the server *)
(* only at it, and says so if there is a later one.                        *)
NoState == [n |-> -1, state |-> {}, tagged |-> EmptyDb]

AnswersOfPath(ch, ks) ==
  [k \in ks |-> IF DOMAIN ch.log = {} THEN NoState ELSE get_state(ch, k)]
AnswersOfServer(ch, ks) ==
  [k \in ks |-> IF k \in DOMAIN ch.log THEN get_state(ch, k) ELSE NoState]

Agrees(c, k, tagged, s) ==
  s.n # -1 /\ s.state = c.remote[k].b /\ s.tagged = tagged

LastTag(tags) == IF DOMAIN tags = {} THEN EmptyDb ELSE TagBag(tags, LastOf(DOMAIN tags))

(* Mutant: the search ends after the last agreement, not on it. *)
SearchStep_past(c, answer, search, a, b) ==
  LET mid == IterKey(c.remote, (a + b) \div 2)
  IN  IF a >= b THEN a + 1
      ELSE IF Agrees(c, mid, TagFrom(c.tags, mid), answer[mid])
           THEN IF a = mid THEN a + 1 ELSE search[<<mid, b>>]
           ELSE IF b = mid THEN a + 1 ELSE search[<<a, mid>>]

(* The dichotomy between two positions, the second one in the log.         *)
SearchStep(c, answer, search, a, b) ==
  LET mid == IterKey(c.remote, (a + b) \div 2)
  IN  IF a >= b THEN a
      ELSE IF Agrees(c, mid, TagFrom(c.tags, mid), answer[mid])
           THEN IF a = mid THEN a + 1 ELSE search[<<mid, b>>]
           ELSE IF b = mid THEN a ELSE search[<<a, mid>>]

Search(c, answer) ==
  LET search[r \in (0 .. LastOf(DOMAIN c.remote)) \X DOMAIN c.remote] ==
        SearchStep(c, answer, search, r[1], r[2])
  IN  search

(* The position from which the cache and the remote may differ.            *)
dichotomy_changelist(c, answer) ==
  IF DOMAIN c.remote = {} THEN 0
  ELSE LET last == LastOf(DOMAIN c.remote)
       IN  IF Agrees(c, last, LastTag(c.tags), answer[last]) THEN last + 1
           ELSE Search(c, answer)[<<0, last>>]

-----------------------------------------------------------------------------
(* What to download.                                                       *)
Deduped(list) == Chosen(list, {i \in DOMAIN list : \A j \in 1 .. i - 1 : list[j] # list[i]})

(* The positions of a log above the newest one of a known state.           *)
Newest(state, known) ==
  {k \in DOMAIN state : \A j \in From(state, k) : state[j] \notin known}

(* What is missing of a changelist: changes, and tags of states that are   *)
(* not tagged.                                                             *)
Missing(ch, theirs) ==
  LET new == {k \in DOMAIN theirs : theirs[k].h \notin On(ch)}
      tag == {k \in DOMAIN theirs : theirs[k].tag /\ theirs[k].m \notin TaggedStates(ch)}
  IN  Interleaved([k \in new |-> theirs[k].h], [k \in tag |-> theirs[k].m])

(* Mutant: the cached log is read up to a change the channel has. *)
NewCached_until_known(c, ch) == Newest([k \in DOMAIN c.remote |-> c.remote[k].a], On(ch))

(* What the cached log has above the newest known state, and is missing.   *)
NewCached(c, ch) ==
  {k \in Newest([k \in DOMAIN c.remote |-> c.remote[k].b], States(ch)) :
     c.remote[k].a \notin On(ch)}

(* The cached log is read from its end.                                    *)
ToDownload(c, ch, theirs) ==
  Deduped(Reverse(InOrder([k \in NewCached(c, ch) |-> <<"change", c.remote[k].a>>]))
          \o Missing(ch, theirs))

(* The difference between the cache and the remote, and its consequences.  *)
remote_unrecs(ours, theirs, ch) ==
  {h \in ours : h \notin {theirs[i].h : i \in DOMAIN theirs} /\ h \in On(ch)}

Delta(c, ch, answer, remote, force) ==
  LET n      == dichotomy_changelist(c, answer)
      theirs == changelist(remote, n)
      ours   == {c.remote[k].a : k \in From(c.remote, n)}
      unrecs == remote_unrecs(ours, theirs, ch)
      cached == force \/ unrecs = {}
  IN  [n |-> n, theirs |-> theirs, unrecs |-> unrecs, cached |-> cached,
       cache |-> IF cached THEN Replaced(c, n, theirs) ELSE c]

(* A remote without an identifier has no cache.                            *)
from_scratch(ch, remote) == Missing(ch, changelist(remote, 0))

(* Another channel of the repository.                                      *)
local_channel_download(ch, other) ==
  LET new == {k \in Newest([k \in DOMAIN other.log |-> StateAt(other, k)], States(ch)) :
                other.log[k] \notin On(ch)}
  IN  Reverse(InOrder([k \in new |-> <<"change", other.log[k]>>]))

-----------------------------------------------------------------------------
(* What to upload, oldest first.                                           *)
to_local_channel_push(ch, other) ==
  InOrder([k \in {i \in DOMAIN ch.log : ch.log[i] \notin On(other)} |-> <<"change", ch.log[k]>>])

(* Tags are for the push of a channel to a remote of which no tag is known. *)
TagsToPush(c, ch) == IF DOMAIN c.tags = {} THEN {ch.tags[n] : n \in DOMAIN ch.tags} ELSE {}

(* The part of the log above the newest state the remote went through.     *)
PushedPart(c, ch, unrecs) ==
  {k \in DOMAIN ch.log : \A j \in From(ch.log, k) :
     ch.log[j] \in unrecs \/ ~ remote_has_state(c, StateAt(ch, j))}

to_remote_push(c, ch, theirs, unrecs) ==
  LET tags == TagsToPush(c, ch)
      seen == {theirs[k].h : k \in DOMAIN theirs}
      part == {k \in PushedPart(c, ch, unrecs) :
                 /\ ~ remote_has_change(c, ch.log[k]) \/ ch.log[k] \in unrecs
                 /\ ch.log[k] \notin seen}
      tagged == {k \in part : StateAt(ch, k) \in tags}
      left == {m \in tags \ {StateAt(ch, k) : k \in tagged} : remote_has_state(c, m)}
  IN  SetToSeq({<<"state", m>> : m \in left})
      \o Interleaved([k \in part |-> ch.log[k]], [k \in tagged |-> StateAt(ch, k)])
=============================================================================
