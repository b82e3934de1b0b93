------------------------------ MODULE Pristine ------------------------------
(***************************************************************************)
(* The pristine of libpijul, without the graph of file contents: the       *)
(* registry of known changes (tables internal, external, dep and revdep)   *)
(* and, for every channel, the log of the changes applied to it (tables    *)
(* changes, revchanges and states) and its tags.                           *)
(*                                                                         *)
(* One behaviour is a sequence of calls on one mutable transaction at a    *)
(* time, which sanakirja guarantees by its writer lock.  A call that       *)
(* returns an error changes nothing that survives it (every caller         *)
(* propagates the error and drops the transaction), so error returns are   *)
(* the guards of the actions.  A transaction dropped, or a crash before    *)
(* its commit, takes the tables back to a state they were in before.       *)
(*                                                                         *)
(* A Merkle state is modelled by what Merkle::next makes of it: the point  *)
(* of the curve multiplied by the scalar of each hash.  The product does   *)
(* not depend on the order, so the state of a channel is the SET of the    *)
(* changes applied, and the state of its tags is the BAG of the states     *)
(* tagged (two tags may hold the same state, a log never holds the same    *)
(* change twice).                                                          *)
(***************************************************************************)
EXTENDS BTree, Sequences, FiniteSets, Bags

CONSTANTS
  Hash,          \* the changes of the change store, named by their hashes
  Dependencies,  \* Dependencies[h]: the dependencies of h, in file order
  Prefix,        \* Prefix[h]: the first eight bytes of h, as a number
  Name,          \* channel names
  NoChannel,     \* stands for a channel name when no loop is running
  MaxTime,       \* bound: no call applies to a channel whose counter is here
  MaxTags        \* bound: no call tags a channel with so many tags

Deps(h) == {Dependencies[h][i] : i \in DOMAIN Dependencies[h]}

ASSUME HashFinite == IsFiniteSet(Hash)
ASSUME DependenciesType == Dependencies \in [Hash -> Seq(Hash)]
(* A hash covers the dependencies of its change, hence no cycles. *)
ASSUME DependenciesAcyclic ==
  \E rank \in [Hash -> 0 .. Cardinality(Hash)] :
    \A h \in Hash : \A d \in Deps(h) : rank[d] < rank[h]
ASSUME PrefixType == Prefix \in [Hash -> Nat]
ASSUME NoChannelType == NoChannel \notin Name
ASSUME BoundsType == MaxTime \in Nat /\ MaxTags \in Nat

VARIABLES
  internal,   \* table: hash -> change id
  external,   \* table: change id -> hash
  dep,        \* table: pairs <<p, d>>, change id p depends on change id d
  revdep,     \* table: pairs <<d, p>>, the same read backwards
  channels,   \* every channel of the transaction: name -> channel
  persisted,  \* names in the table "channels"; the others are only open
  rec         \* the stack machine of a running apply_change_rec_ws

registry == <<internal, external, dep, revdep>>
vars == <<internal, external, dep, revdep, channels, persisted, rec>>

-----------------------------------------------------------------------------
(* Channels *)

EmptyChannel ==
  [changes |-> EmptyDb, revchanges |-> EmptyDb, states |-> EmptyDb,
   tags |-> EmptyDb, apply_counter |-> 0]

OnChannel(ch, h) == h \in DOMAIN internal /\ internal[h] \in DOMAIN ch.changes

(* The state recorded at the greatest of the positions S of the log. *)
StateAt(ch, S) == IF S = {} THEN {} ELSE ch.revchanges[LastOf(S)].b

current_state(ch) == StateAt(ch, DOMAIN ch.revchanges)

(* Mutant: the position is the length of the log, not a counter. *)
put_changes_at_length(ch, p, h) ==
  LET t == Cardinality(DOMAIN ch.changes)
      m == current_state(ch) \cup {h}
  IN  [changes |-> Put(ch.changes, p, t),
       revchanges |-> Put(ch.revchanges, t, [a |-> p, b |-> m]),
       states |-> Put(ch.states, m, t),
       tags |-> ch.tags,
       apply_counter |-> t + 1]

(* Append change p, of hash h, at the position given by the counter. *)
put_changes(ch, p, h) ==
  LET t == ch.apply_counter
      m == current_state(ch) \cup {h}
  IN  [changes |-> Put(ch.changes, p, t),
       revchanges |-> Put(ch.revchanges, t, [a |-> p, b |-> m]),
       states |-> Put(ch.states, m, t),
       tags |-> ch.tags,
       apply_counter |-> t + 1]

(* The bag of the states tagged at the positions S. *)
TagBag(tags, S) ==
  [m \in {tags[v].a : v \in S} |-> Cardinality({v \in S : tags[v].a = m})]

(* Recompute the tag states from position t on, from the one before t. *)
replay_tags(tags, t) ==
  LET before == Below(tags, t)
      base == IF before = {} THEN EmptyBag ELSE tags[LastOf(before)].b
  IN  [u \in DOMAIN tags |->
         IF u < t THEN tags[u]
         ELSE [a |-> tags[u].a,
               b |-> base (+) TagBag(tags, {v \in DOMAIN tags : t =< v /\ v =< u})]]

(* Any tag from position t on is taken for one at t: the first key found   *)
(* is not compared with t.                                                 *)
put_tags(tags, t, m) ==
  IF \E u \in DOMAIN tags : t =< u THEN tags
  ELSE replay_tags(Put(tags, t, [a |-> m, b |-> EmptyBag]), t)

del_tags(tags, t) == replay_tags(Del(tags, t), t)

(* Mutant: the states after the position removed are left as they were. *)
del_changes_only(ch, ext, p, t) ==
  [ch EXCEPT !.changes = Del(@, p), !.revchanges = Del(@, t),
             !.states = Del(@, ch.revchanges[t].b), !.tags = Del(@, t)]

(* Remove change p at position t and rewrite every later state, starting   *)
(* from the one before t.  All the states from t on leave the table before *)
(* any new one enters it: the loop interleaves the two, but a state that   *)
(* leaves contains the change removed, and one that enters does not.       *)
del_changes(ch, ext, p, t) ==
  LET later == {u \in DOMAIN ch.revchanges : t < u}
      m(u) == StateAt(ch, Below(ch.revchanges, t))
                \cup {ext[ch.revchanges[v].a] : v \in {w \in later : w =< u}}
      kept == DOMAIN ch.states
                \ {ch.revchanges[u].b : u \in DOMAIN ch.revchanges \ Below(ch.revchanges, t)}
  IN  [changes |-> Del(ch.changes, p),
       revchanges |-> [u \in DOMAIN ch.revchanges \ {t} |->
          IF u < t THEN ch.revchanges[u]
          ELSE [a |-> ch.revchanges[u].a, b |-> m(u)]],
       states |-> [s \in kept \cup {m(u) : u \in later} |->
          IF \E u \in later : s = m(u) THEN CHOOSE u \in later : s = m(u)
          ELSE ch.states[s]],
       tags |-> Del(ch.tags, t),
       apply_counter |-> ch.apply_counter]

(* Mutant: the states of the tags after the position are not recomputed. *)
del_channel_changes_only(ch, ext, p) == del_changes(ch, ext, p, ch.changes[p])

(* What unrecording change p does to the log and the tags of its channel.  *)
del_channel_changes(ch, ext, p) ==
  LET t == ch.changes[p]
  IN  [del_changes(ch, ext, p, t) EXCEPT !.tags = del_tags(@, t)]

-----------------------------------------------------------------------------
(* The registry of changes *)

(* Mutant: ids that collide are not told apart. *)
make_changeid_prefix(h) == IF h \in DOMAIN internal THEN internal[h] ELSE Prefix[h]

(* The id of a change: the one it has, or the first one free from the      *)
(* number its hash starts with.                                            *)
make_changeid(h) ==
  IF h \in DOMAIN internal THEN internal[h]
  ELSE CHOOSE i \in Prefix[h] .. (Prefix[h] + Cardinality(DOMAIN external)) :
         /\ i \notin DOMAIN external
         /\ \A j \in Prefix[h] .. (i - 1) : j \in DOMAIN external

(* Record h under id p, and its dependencies in both directions: they must *)
(* have ids (the code unwraps them).                                       *)
register_change(p, h) ==
  /\ Deps(h) \subseteq DOMAIN internal
  /\ external' = Put(external, p, h)
  /\ internal' = Put(internal, h, p)
  /\ dep' = dep \cup {<<p, internal[d]>> : d \in Deps(h)}
  /\ revdep' = revdep \cup {<<internal[d], p>> : d \in Deps(h)}

(* A change with an id already is taken as registered. *)
RegisterIfUnknown(h) ==
  IF h \in DOMAIN internal THEN UNCHANGED registry
  ELSE register_change(make_changeid(h), h)

-----------------------------------------------------------------------------
(* Applying changes *)

NoRec == [channel |-> NoChannel, stack |-> <<>>, visited |-> {}]

Idle == rec = NoRec

(* The bound on the counter: calls stop there, a loop under way goes on.   *)
HasRoom(n) == channels[n].apply_counter < MaxTime

HasDependencies(ch, h) == \A d \in Deps(h) : OnChannel(ch, d)

(* apply_change_to_channel, of which only the log is modelled here. *)
ApplyToChannel(n, h) ==
  /\ ~ OnChannel(channels[n], h)
  /\ channels' = [channels EXCEPT ![n] = put_changes(@, make_changeid(h), h)]
  /\ UNCHANGED persisted

(* Apply a change of the store whose dependencies are on the channel. *)
apply_change(n, h) ==
  /\ Idle /\ HasRoom(n)
  /\ HasDependencies(channels[n], h)
  /\ RegisterIfUnknown(h)
  /\ ApplyToChannel(n, h)
  /\ UNCHANGED rec

(* Apply a change just recorded: it is registered whatever the tables say. *)
apply_local_change(n, h) ==
  /\ Idle /\ HasRoom(n)
  /\ HasDependencies(channels[n], h)
  /\ register_change(make_changeid(h), h)
  /\ ApplyToChannel(n, h)
  /\ UNCHANGED rec

(* Apply a change with the dependencies the channel lacks: a depth-first   *)
(* walk with an explicit stack, one action per iteration of the loop.      *)
Frame(h, first, apply) == [hash |-> h, first |-> first, apply |-> apply]

Top == rec.stack[Len(rec.stack)]
Rest == SubSeq(rec.stack, 1, Len(rec.stack) - 1)

(* The next iteration, or the return of the function. *)
Continue(stack, visited) ==
  rec' = IF stack = <<>> THEN NoRec
         ELSE [channel |-> rec.channel, stack |-> stack, visited |-> visited]

apply_change_rec(n, h, deps_only) ==
  /\ Idle /\ HasRoom(n)
  /\ rec' = [channel |-> n, stack |-> <<Frame(h, TRUE, ~ deps_only)>>, visited |-> {}]
  /\ UNCHANGED <<registry, channels, persisted>>

(* Mutant: a change is stacked above its dependencies, and leaves first. *)
RecVisit_above ==
  /\ ~ Idle /\ Top.first
  /\ LET h == Top.hash
         dependencies == [i \in DOMAIN Dependencies[h] |->
                            Frame(Dependencies[h][i], TRUE, TRUE)]
     IN  Continue(IF h \in rec.visited \/ OnChannel(channels[rec.channel], h)
                  THEN Rest
                  ELSE Append(Rest \o dependencies, Frame(h, FALSE, Top.apply)),
                  rec.visited \cup {h})
  /\ UNCHANGED <<registry, channels, persisted>>

(* Mutant: the frame goes back on the stack as it came. *)
RecVisit_again ==
  /\ ~ Idle /\ Top.first
  /\ LET h == Top.hash
     IN  Continue(IF OnChannel(channels[rec.channel], h) THEN Rest
                  ELSE rec.stack \o [i \in DOMAIN Dependencies[h] |->
                                       Frame(Dependencies[h][i], TRUE, TRUE)],
                  rec.visited \cup {h})
  /\ UNCHANGED <<registry, channels, persisted>>

(* A change met for the first time: nothing to do if it is on the channel, *)
(* otherwise it waits below its dependencies.                              *)
RecVisit ==
  /\ ~ Idle /\ Top.first
  /\ LET h == Top.hash
         below == Append(Rest, Frame(h, FALSE, Top.apply))
         dependencies == [i \in DOMAIN Dependencies[h] |->
                            Frame(Dependencies[h][i], TRUE, TRUE)]
     IN  Continue(IF h \in rec.visited \/ OnChannel(channels[rec.channel], h)
                  THEN Rest
                  ELSE below \o dependencies,
                  rec.visited \cup {h})
  /\ UNCHANGED <<registry, channels, persisted>>

(* A change whose dependencies were all popped is applied. *)
RecApply ==
  /\ ~ Idle /\ ~ Top.first
  /\ Continue(Rest, rec.visited)
  /\ IF Top.apply /\ ~ OnChannel(channels[rec.channel], Top.hash)
     THEN RegisterIfUnknown(Top.hash) /\ ApplyToChannel(rec.channel, Top.hash)
     ELSE UNCHANGED <<registry, channels, persisted>>

-----------------------------------------------------------------------------
(* Unrecording a change *)

(* Mutants: nobody looks for dependents; every channel looks empty; every  *)
(* channel looks full.                                                     *)
HasDependents_never(ch, p) == FALSE
unused_in_other_channels_always(n, p) == TRUE
unused_in_other_channels_never(n, p) == FALSE

(* Some change of the channel depends on p, as far as revdep knows. *)
HasDependents(ch, p) == \E d \in DOMAIN ch.changes : <<p, d>> \in revdep

unused_in_other_channels(n, p) ==
  \A m \in DOMAIN channels \ {n} : p \notin DOMAIN channels[m].changes

(* The assertion and the unwrap on the way to forgetting change h. *)
MayForget(h) ==
  /\ \A e \in revdep : e[1] # internal[h]
  /\ Deps(h) \subseteq DOMAIN internal

(* Mutant: revdep still says that h has dependencies. *)
Forget_but_revdep(h) ==
  LET p == internal[h]
  IN  /\ dep' = {e \in dep : e[1] # p}
      /\ external' = Del(external, p)
      /\ internal' = Del(internal, h)
      /\ UNCHANGED revdep

(* Remove every trace of h from the registry. *)
Forget(h) ==
  LET p == internal[h]
  IN  /\ dep' = {e \in dep : e[1] # p}
      /\ external' = Del(external, p)
      /\ internal' = Del(internal, h)
      /\ revdep' = revdep \ {<<internal[d], p>> : d \in Deps(h)}

unrecord(n, h) ==
  /\ Idle
  /\ OnChannel(channels[n], h)
  /\ LET p == internal[h]
     IN  /\ ~ HasDependents(channels[n], p)
         /\ channels' = [channels EXCEPT ![n] = del_channel_changes(@, external, p)]
         /\ IF unused_in_other_channels(n, p)
            THEN MayForget(h) /\ Forget(h)
            ELSE UNCHANGED registry
  /\ UNCHANGED <<persisted, rec>>

-----------------------------------------------------------------------------
(* Channels as a whole, tags, and the end of the transaction *)

open_or_create_channel(n) ==
  /\ Idle
  /\ n \notin DOMAIN channels
  /\ channels' = Put(channels, n, EmptyChannel)
  /\ persisted' = persisted \cup {n}
  /\ UNCHANGED <<registry, rec>>

(* Only names in the table are refused: a channel forked earlier in the    *)
(* same transaction is not there yet, and is replaced.                     *)
fork(n, m) ==
  /\ Idle
  /\ m \notin persisted
  /\ channels' = Put(channels, m, channels[n])
  /\ UNCHANGED <<registry, persisted, rec>>

(* Mutant: the old name stays in the table. *)
rename_channel_in_memory(n, m) ==
  /\ Idle
  /\ m \notin persisted
  /\ channels' = Put(Del(channels, n), m, channels[n])
  /\ UNCHANGED <<registry, persisted, rec>>

rename_channel(n, m) ==
  /\ Idle
  /\ m \notin persisted
  /\ channels' = Put(Del(channels, n), m, channels[n])
  /\ persisted' = persisted \ {n}
  /\ UNCHANGED <<registry, rec>>

(* The changes only channel n has.  The log is read from its end and not   *)
(* further than a state that some other channel went through.              *)
UnusedAfterDrop(n) ==
  LET log == channels[n].revchanges
      others == {channels[m] : m \in DOMAIN channels \ {n}}
      shared(t) == \E c \in others : log[t].b \in DOMAIN c.states
  IN  {log[t].a : t \in {u \in DOMAIN log :
         /\ \A v \in DOMAIN log : u =< v => ~ shared(v)
         /\ \A c \in others : log[u].a \notin DOMAIN c.changes}}

(* The changes no channel has any more lose their dependencies, and keep   *)
(* their ids.                                                              *)
drop_channel(n) ==
  /\ Idle
  /\ channels' = Del(channels, n)
  /\ persisted' = persisted \ {n}
  /\ dep' = {e \in dep : e[1] \notin UnusedAfterDrop(n)}
  /\ revdep' = revdep \ {<<e[2], e[1]>> : e \in dep \ dep'}
  /\ UNCHANGED <<internal, external, rec>>

(* Tag a state the channel went through: its last one for "pijul tag       *)
(* create", any one for a tag that comes from another repository, which is *)
(* not put if a later state has a tag.                                     *)
PutTag(n, m) ==
  /\ Idle /\ Cardinality(DOMAIN channels[n].tags) < MaxTags
  /\ m \in DOMAIN channels[n].states
  /\ channels' = [channels EXCEPT ![n].tags = put_tags(@, channels[n].states[m], m)]
  /\ UNCHANGED <<registry, persisted, rec>>

DelTag(n, m) ==
  /\ Idle
  /\ m \in DOMAIN channels[n].states
  /\ channels' = [channels EXCEPT ![n].tags = del_tags(@, channels[n].states[m])]
  /\ UNCHANGED <<registry, persisted, rec>>

(* The open channels are written to the table. *)
commit ==
  /\ Idle
  /\ persisted' = DOMAIN channels
  /\ UNCHANGED <<registry, channels, rec>>

-----------------------------------------------------------------------------
Init ==
  /\ internal = EmptyDb /\ external = EmptyDb
  /\ dep = {} /\ revdep = {}
  /\ channels = EmptyDb /\ persisted = {}
  /\ rec = NoRec

(* The calls that lose no channel. *)
Keep(n) ==
  \/ open_or_create_channel(n)
  \/ /\ n \in DOMAIN channels
     /\ \/ \E h \in Hash :
             \/ apply_change(n, h)
             \/ apply_local_change(n, h)
             \/ \E deps_only \in BOOLEAN : apply_change_rec(n, h, deps_only)
             \/ unrecord(n, h)
        \/ \E m \in Name \ DOMAIN channels : fork(n, m) \/ rename_channel(n, m)
        \/ \E m \in SUBSET Hash : PutTag(n, m) \/ DelTag(n, m)

Loop == RecVisit \/ RecApply

(* The program without "pijul channel delete": the channels dropped are    *)
(* the temporary forks of pijul apply and of pijul archive, and no change  *)
(* is on them alone.                                                       *)
DropCopy(n) == n \in DOMAIN channels /\ UnusedAfterDrop(n) = {} /\ drop_channel(n)
NextCopies == Loop \/ commit \/ \E n \in Name : Keep(n) \/ DropCopy(n)

(* The whole library: any channel may be dropped, and a fork or a renaming *)
(* may take the name of a channel not committed yet.                       *)
Lose(n) ==
  /\ n \in DOMAIN channels
  /\ \/ drop_channel(n)
     \/ \E m \in DOMAIN channels \ {n} : fork(n, m) \/ rename_channel(n, m)
Next == Loop \/ commit \/ \E n \in Name : Keep(n) \/ Lose(n)

(* The loop of apply_change_rec_ws runs without waiting for anything. *)
Fairness == WF_vars(Loop)
Spec == Init /\ [][Next]_vars /\ Fairness
SpecCopies == Init /\ [][NextCopies]_vars /\ Fairness

-----------------------------------------------------------------------------
(* Properties *)

Id == Nat
Channel(ch) ==
  /\ DOMAIN ch = {"changes", "revchanges", "states", "tags", "apply_counter"}
  /\ ch.apply_counter \in Nat
  /\ DOMAIN ch.changes \subseteq Id /\ DOMAIN ch.revchanges \subseteq Nat
  /\ DOMAIN ch.states \subseteq SUBSET Hash /\ DOMAIN ch.tags \subseteq Nat

(* Every table holds keys and values of its type. *)
TypeOK ==
  /\ DOMAIN internal \subseteq Hash /\ internal \in [DOMAIN internal -> Id]
  /\ DOMAIN external \subseteq Id /\ external \in [DOMAIN external -> Hash]
  /\ dep \subseteq Id \X Id /\ revdep \subseteq Id \X Id
  /\ DOMAIN channels \subseteq Name
  /\ \A n \in DOMAIN channels : Channel(channels[n])
  /\ persisted \subseteq DOMAIN channels
  /\ Idle \/ (rec.channel \in DOMAIN channels /\ rec.stack # <<>>)
  /\ rec.visited \subseteq Hash
  /\ rec.stack \in Seq([hash : Hash, first : BOOLEAN, apply : BOOLEAN])

(* Tables internal and external are inverse of one another, although ids   *)
(* are chosen by looking at one of them only and hashes may collide.       *)
IdsAgree ==
  /\ \A h \in DOMAIN internal :
       internal[h] \in DOMAIN external /\ external[internal[h]] = h
  /\ \A p \in DOMAIN external :
       external[p] \in DOMAIN internal /\ internal[external[p]] = p

(* A change on a channel has an id: it is forgotten with the last channel  *)
(* it is on.                                                               *)
UsedAreKnown ==
  \A n \in DOMAIN channels : DOMAIN channels[n].changes \subseteq DOMAIN external

(* The hashes of the log of a channel up to position t. *)
HashesUpTo(ch, ext, t) == {ext[ch.revchanges[u].a] : u \in UpTo(ch.revchanges, t)}

(* The three tables of the log agree: changes and revchanges are inverse,  *)
(* the state at a position is that of the changes up to it, states finds   *)
(* the position of each state and nothing else, and the next position is   *)
(* free.  Unrecording from the middle of the log rewrites all of them.     *)
LogAgrees(ch, ext) ==
  /\ \A p \in DOMAIN ch.changes :
       ch.changes[p] \in DOMAIN ch.revchanges /\ ch.revchanges[ch.changes[p]].a = p
  /\ \A t \in DOMAIN ch.revchanges :
       /\ t < ch.apply_counter
       /\ ch.revchanges[t].a \in DOMAIN ch.changes
       /\ ch.changes[ch.revchanges[t].a] = t
       /\ ch.revchanges[t].b = HashesUpTo(ch, ext, t)
       /\ ch.revchanges[t].b \in DOMAIN ch.states
       /\ ch.states[ch.revchanges[t].b] = t
  /\ \A m \in DOMAIN ch.states :
       ch.states[m] \in DOMAIN ch.revchanges /\ ch.revchanges[ch.states[m]].b = m

LogsAgree == \A n \in DOMAIN channels : LogAgrees(channels[n], external)

(* A tag sits on a change of the log, and the state of the tags at a       *)
(* position is that of the tags up to it, which remotes compare.           *)
TagsReplayed ==
  \A n \in DOMAIN channels : LET tags == channels[n].tags IN
    /\ DOMAIN tags \subseteq DOMAIN channels[n].revchanges
    /\ \A t \in DOMAIN tags : tags[t].b = TagBag(tags, UpTo(tags, t))

(* dep and revdep are the same relation, between known changes, and only   *)
(* say what the files of the changes say.                                  *)
DepsMirrored ==
  /\ revdep = {<<e[2], e[1]>> : e \in dep}
  /\ \A e \in dep : /\ e[1] \in DOMAIN external /\ e[2] \in DOMAIN external
                    /\ external[e[2]] \in Deps(external[e[1]])

(* What a channel holds is closed under dependency, and a change comes     *)
(* after its dependencies in the log.                                      *)
DependenciesBefore ==
  \A n \in DOMAIN channels : \A p \in DOMAIN channels[n].changes :
    \A d \in Deps(external[p]) :
      /\ OnChannel(channels[n], d)
      /\ channels[n].changes[internal[d]] < channels[n].changes[p]

(* No call to unrecord takes away a change that another on the channel     *)
(* depends on.  (The call looks it up in revdep, not in the files.)        *)
DependentsRefused ==
  [][\A n \in DOMAIN channels, h \in Hash : unrecord(n, h) =>
       \A p \in DOMAIN channels[n].changes : h \notin Deps(external[p])]_vars

(* unrecord never runs into its assertion or its unwrap.                   *)
UnrecordNeverPanics ==
  \A n \in DOMAIN channels : \A p \in DOMAIN channels[n].changes :
    (~ HasDependents(channels[n], p) /\ unused_in_other_channels(n, p))
      => MayForget(external[p])

(* Only changes of some channel are known. *)
KnownAreUsed ==
  \A p \in DOMAIN external : \E n \in DOMAIN channels : p \in DOMAIN channels[n].changes

(* A change stays at its position in the log of its channel while others   *)
(* come and go, and positions are never handed out twice.  (fork and       *)
(* rename_channel put another channel under the name.)                     *)
Replaces(m) == \E n \in DOMAIN channels : fork(n, m) \/ rename_channel(n, m)
PositionsStable ==
  [][\A n \in DOMAIN channels \cap DOMAIN channels' :
       Replaces(n) \/
       /\ \A p \in DOMAIN channels[n].changes \cap DOMAIN channels'[n].changes :
            channels'[n].changes[p] = channels[n].changes[p]
       /\ \A p \in DOMAIN channels'[n].changes \ DOMAIN channels[n].changes :
            channels[n].apply_counter =< channels'[n].changes[p]
       /\ channels[n].apply_counter =< channels'[n].apply_counter]_vars

(* apply_change_rec returns. *)
RecReturns == ~ Idle ~> Idle

(* Seen from outside, a channel is a set of changes: the calls above do to *)
(* those sets what module ChannelSets allows, and the steps of the loop of *)
(* apply_change_rec_ws, commits and tags do nothing else.                  *)
Sets == INSTANCE ChannelSets WITH
  sets <- [n \in DOMAIN channels |->
             {external[p] : p \in DOMAIN channels[n].changes}]
ImplementsSets == Sets!Spec
=============================================================================
