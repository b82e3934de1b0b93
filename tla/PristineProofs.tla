--------------------------- MODULE PristineProofs ---------------------------
(* Theorems about the pristine, for any finite set of changes.             *)
EXTENDS Pristine, FiniteSetTheorems, SequenceTheorems, TLAPS

(* A non-empty set of numbers below a bound has a greatest element. *)
LEMMA LastExists ==
  ASSUME NEW c \in Nat, NEW S \in SUBSET (0 .. c), S # {}
  PROVE  \E x \in S : \A y \in S : y =< x
<1> DEFINE Above(x) == {z \in 0 .. c : z > x}
           R == StrictSubsetOrdering(0 .. c)
           T == {Above(x) : x \in S}
<1>1. IsWellFoundedOn(R, FiniteSubsetsOf(0 .. c))
  BY FS_StrictSubsetOrderingWellFounded
<1>2. T \subseteq FiniteSubsetsOf(0 .. c) /\ T # {}
  <2>1. IsFiniteSet(0 .. c)
    BY FS_Interval
  <2>2. ASSUME NEW x \in S PROVE IsFiniteSet(Above(x))
    BY <2>1, FS_Subset, Above(x) \subseteq 0 .. c
  <2> QED BY <2>2 DEF FiniteSubsetsOf
<1>3. PICK m \in T : \A y \in T : ~(<<y, m>> \in R)
  <2> HIDE DEF R, T
  <2> QED BY <1>1, <1>2, WFMin
<1>4. PICK x \in S : m = Above(x)
  BY <1>3
<1>5. SUFFICES ASSUME NEW y \in S, x < y PROVE FALSE
  OBVIOUS
<1>6. y \in Above(x) /\ y \notin Above(y) /\ Above(y) \subseteq Above(x)
  BY <1>5
<1>7. <<Above(y), Above(x)>> \in R
  BY <1>6 DEF StrictSubsetOrdering
<1> QED BY <1>3, <1>4, <1>7

LEMMA LastOfSet ==
  ASSUME NEW c \in Nat, NEW S \in SUBSET (0 .. c), S # {}
  PROVE  LastOf(S) \in S /\ \A y \in S : y =< LastOf(S)
BY LastExists DEF LastOf

(* Only the hashes of the changes on a channel matter to its log. *)
LEMMA LogFrame ==
  ASSUME NEW ch, NEW ext, NEW ext2, LogAgrees(ch, ext),
         \A q \in DOMAIN ch.changes : ext2[q] = ext[q]
  PROVE  LogAgrees(ch, ext2)
<1>1. ASSUME NEW t \in DOMAIN ch.revchanges
      PROVE  HashesUpTo(ch, ext2, t) = HashesUpTo(ch, ext, t)
  BY DEF HashesUpTo, UpTo, LogAgrees
<1> QED BY <1>1 DEF LogAgrees

(* Appending a change the channel does not have keeps its log consistent. *)
LEMMA LogPut ==
  ASSUME NEW ch, Channel(ch), NEW ext, LogAgrees(ch, ext),
         NEW p \in Nat, p \notin DOMAIN ch.changes,
         NEW h \in Hash, ext[p] = h,
         \A q \in DOMAIN ch.changes : ext[q] \in Hash \ {h}
  PROVE  /\ Channel(put_changes(ch, p, h))
         /\ LogAgrees(put_changes(ch, p, h), ext)
         /\ DOMAIN put_changes(ch, p, h).changes = DOMAIN ch.changes \cup {p}
<1> DEFINE D == DOMAIN ch.revchanges
           t == ch.apply_counter
           m == current_state(ch) \cup {h}
           new == put_changes(ch, p, h)
<1>1. t \in Nat /\ D \subseteq 0 .. t /\ t \notin D /\ D \subseteq Nat
  BY DEF Channel, LogAgrees
<1>2. current_state(ch) = {ext[ch.revchanges[u].a] : u \in D}
  <2>1. CASE D = {}
    BY <2>1 DEF current_state, StateAt
  <2>2. CASE D # {}
    <3>1. LastOf(D) \in D /\ \A y \in D : y =< LastOf(D)
      BY <1>1, <2>2, LastOfSet
    <3>2. UpTo(ch.revchanges, LastOf(D)) = D
      BY <3>1 DEF UpTo
    <3> QED BY <2>2, <3>1, <3>2 DEF current_state, StateAt, LogAgrees, HashesUpTo
  <2> QED BY <2>1, <2>2
<1>3. \A u \in D : ext[ch.revchanges[u].a] \in Hash \ {h}
  BY DEF LogAgrees
<1>4. m \subseteq Hash /\ h \in m
  BY <1>2, <1>3
<1>5. \A u \in D : ch.revchanges[u].b # m
  <2> SUFFICES ASSUME NEW u \in D PROVE h \notin ch.revchanges[u].b
    BY <1>4
  <2>1. h \notin HashesUpTo(ch, ext, u)
    BY <1>3 DEF HashesUpTo, UpTo
  <2> QED BY <2>1 DEF LogAgrees
<1>6. new = [changes |-> Put(ch.changes, p, t),
             revchanges |-> Put(ch.revchanges, t, [a |-> p, b |-> m]),
             states |-> Put(ch.states, m, t), tags |-> ch.tags, apply_counter |-> t + 1]
  BY DEF put_changes
<1>7. /\ new.apply_counter = t + 1 /\ new.tags = ch.tags
      /\ DOMAIN new = {"changes", "revchanges", "states", "tags", "apply_counter"}
      /\ DOMAIN new.changes = DOMAIN ch.changes \cup {p}
      /\ new.changes[p] = t
      /\ \A q \in DOMAIN ch.changes : new.changes[q] = ch.changes[q]
      /\ DOMAIN new.revchanges = D \cup {t}
      /\ new.revchanges[t] = [a |-> p, b |-> m]
      /\ \A u \in D : new.revchanges[u] = ch.revchanges[u]
      /\ DOMAIN new.states = DOMAIN ch.states \cup {m}
      /\ new.states[m] = t
      /\ \A s \in DOMAIN ch.states \ {m} : new.states[s] = ch.states[s]
  BY <1>1, <1>6 DEF Put
<1> HIDE DEF m, new
<1>8. Channel(new)
  BY <1>1, <1>4, <1>7 DEF Channel, Id
<1>9. m \notin DOMAIN ch.states
  BY <1>5 DEF LogAgrees
<1>10. \A u \in D : HashesUpTo(new, ext, u) = HashesUpTo(ch, ext, u)
  <2> SUFFICES ASSUME NEW u \in D PROVE UpTo(new.revchanges, u) = UpTo(ch.revchanges, u)
    BY <1>7 DEF HashesUpTo, UpTo
  <2> QED BY <1>1, <1>7 DEF UpTo, LogAgrees
<1>11. HashesUpTo(new, ext, t) = m
  <2>1. UpTo(new.revchanges, t) = D \cup {t}
    BY <1>1, <1>7 DEF UpTo
  <2>2. HashesUpTo(new, ext, t) = {ext[new.revchanges[u].a] : u \in D \cup {t}}
    BY <2>1 DEF HashesUpTo
  <2>3. new.revchanges[t].a = p
    BY <1>7
  <2> QED BY <1>2, <1>7, <2>2, <2>3 DEF m
<1>12. LogAgrees(new, ext)
  <2>1. ASSUME NEW q \in DOMAIN new.changes
        PROVE  new.changes[q] \in DOMAIN new.revchanges /\ new.revchanges[new.changes[q]].a = q
    BY <1>7 DEF LogAgrees
  <2>2. ASSUME NEW u \in DOMAIN new.revchanges
        PROVE  /\ u < new.apply_counter
               /\ new.revchanges[u].a \in DOMAIN new.changes
               /\ new.changes[new.revchanges[u].a] = u
               /\ new.revchanges[u].b = HashesUpTo(new, ext, u)
               /\ new.revchanges[u].b \in DOMAIN new.states
               /\ new.states[new.revchanges[u].b] = u
    <3>1. CASE u = t
      BY <1>1, <1>7, <1>11, <3>1
    <3>2. CASE u \in D
      BY <1>1, <1>5, <1>7, <1>10, <3>2 DEF LogAgrees
    <3> QED BY <1>7, <3>1, <3>2
  <2>3. ASSUME NEW s \in DOMAIN new.states
        PROVE  new.states[s] \in DOMAIN new.revchanges /\ new.revchanges[new.states[s]].b = s
    BY <1>7, <1>9 DEF LogAgrees
  <2> QED BY <2>1, <2>2, <2>3 DEF LogAgrees
<1> QED BY <1>7, <1>8, <1>12 DEF new

(* Removing a change keeps the log consistent: what remains after the      *)
(* position removed is rewritten to the states it has without the change.  *)
LEMMA LogDel ==
  ASSUME NEW ch, Channel(ch), NEW ext, LogAgrees(ch, ext),
         \A q \in DOMAIN ch.changes : ext[q] \in Hash,
         \A q, r \in DOMAIN ch.changes : ext[q] = ext[r] => q = r,
         NEW p \in DOMAIN ch.changes
  PROVE  LET new == del_changes(ch, ext, p, ch.changes[p]) IN
         /\ Channel(new)
         /\ LogAgrees(new, ext)
         /\ DOMAIN new.changes = DOMAIN ch.changes \ {p}
<1> DEFINE D == DOMAIN ch.revchanges
           t == ch.changes[p]
           new == del_changes(ch, ext, p, t)
           later == {u \in D : t < u}
           H(u) == ext[ch.revchanges[u].a]
           m(u) == StateAt(ch, Below(ch.revchanges, t)) \cup {H(v) : v \in {w \in later : w =< u}}
           old == {ch.revchanges[u].b : u \in D \ Below(ch.revchanges, t)}
           kept == DOMAIN ch.states \ old
<1>1. /\ D \subseteq 0 .. ch.apply_counter /\ D \subseteq Nat /\ ch.apply_counter \in Nat
      /\ t \in D /\ ch.revchanges[t].a = p
  BY DEF Channel, LogAgrees
<1>2. /\ \A u \in D : H(u) \in Hash
      /\ \A u, v \in D : H(u) = H(v) => u = v
  BY DEF LogAgrees
<1>3. StateAt(ch, Below(ch.revchanges, t)) = {H(v) : v \in {w \in D : w < t}}
  <2> DEFINE S == Below(ch.revchanges, t)
  <2>1. CASE S = {}
    BY <2>1 DEF StateAt, Below
  <2>2. CASE S # {}
    <3>1. LastOf(S) \in S /\ \A y \in S : y =< LastOf(S)
      BY <1>1, <2>2, LastOfSet DEF Below
    <3>3. LastOf(S) \in D /\ LastOf(S) < t
      BY <3>1 DEF Below
    <3>4. \A w \in D : w < t <=> w =< LastOf(S)
      <4> HIDE DEF S
      <4>1. \A w \in D : w < t => w =< LastOf(S)
        BY <3>1 DEF S, Below
      <4> QED BY <1>1, <3>3, <4>1
    <3>2. UpTo(ch.revchanges, LastOf(S)) = {w \in D : w < t}
      BY <3>4 DEF UpTo
    <3> QED BY <2>2, <3>2, <3>3 DEF StateAt, LogAgrees, HashesUpTo
  <2> QED BY <2>1, <2>2
<1>4. \A u \in later : m(u) = {H(v) : v \in {w \in D \ {t} : w =< u}}
  BY <1>1, <1>3
<1>5. \A u \in D : ch.revchanges[u].b = {H(v) : v \in {w \in D : w =< u}}
  BY DEF LogAgrees, HashesUpTo, UpTo
<1>6. new = [changes |-> Del(ch.changes, p),
             revchanges |-> [u \in D \ {t} |->
                IF u < t THEN ch.revchanges[u] ELSE [a |-> ch.revchanges[u].a, b |-> m(u)]],
             states |-> [s \in kept \cup {m(u) : u \in later} |->
                IF \E u \in later : s = m(u) THEN CHOOSE u \in later : s = m(u) ELSE ch.states[s]],
             tags |-> Del(ch.tags, t),
             apply_counter |-> ch.apply_counter]
  BY DEF del_changes
<1> HIDE DEF new, m, H, kept
<1>7. /\ DOMAIN new = {"changes", "revchanges", "states", "tags", "apply_counter"}
      /\ new.apply_counter = ch.apply_counter
      /\ DOMAIN new.changes = DOMAIN ch.changes \ {p}
      /\ \A q \in DOMAIN new.changes : new.changes[q] = ch.changes[q]
      /\ DOMAIN new.revchanges = D \ {t}
      /\ \A u \in D \ {t} : new.revchanges[u].a = ch.revchanges[u].a
      /\ \A u \in D \ {t} : u < t => new.revchanges[u].b = ch.revchanges[u].b
      /\ \A u \in later : new.revchanges[u].b = m(u)
      /\ DOMAIN new.states = kept \cup {m(u) : u \in later}
      /\ \A s \in DOMAIN new.states :
           new.states[s] = IF \E u \in later : s = m(u)
                           THEN CHOOSE u \in later : s = m(u) ELSE ch.states[s]
      /\ new.tags = Del(ch.tags, t)
  <2>1. DOMAIN new = {"changes", "revchanges", "states", "tags", "apply_counter"}
    BY <1>6
  <2>2. new.apply_counter = ch.apply_counter /\ new.tags = Del(ch.tags, t)
    BY <1>6
  <2>3. new.changes = Del(ch.changes, p)
    BY <1>6
  <2>4. new.revchanges = [u \in D \ {t} |->
          IF u < t THEN ch.revchanges[u] ELSE [a |-> ch.revchanges[u].a, b |-> m(u)]]
    BY <1>6
  <2>5. new.states = [s \in kept \cup {m(u) : u \in later} |->
          IF \E u \in later : s = m(u) THEN CHOOSE u \in later : s = m(u) ELSE ch.states[s]]
    BY <1>6
  <2>6. \A u \in later : u \in D \ {t} /\ ~(u < t)
    BY <1>1
  <2>7. DOMAIN new.changes = DOMAIN ch.changes \ {p} /\ \A q \in DOMAIN new.changes : new.changes[q] = ch.changes[q]
    BY <2>3 DEF Del
  <2>8. /\ DOMAIN new.revchanges = D \ {t}
        /\ \A u \in D \ {t} : new.revchanges[u].a = ch.revchanges[u].a
        /\ \A u \in D \ {t} : u < t => new.revchanges[u].b = ch.revchanges[u].b
        /\ \A u \in later : new.revchanges[u].b = m(u)
    BY <2>4, <2>6
  <2>9. /\ DOMAIN new.states = kept \cup {m(u) : u \in later}
        /\ \A s \in DOMAIN new.states :
             new.states[s] = IF \E u \in later : s = m(u)
                             THEN CHOOSE u \in later : s = m(u) ELSE ch.states[s]
    BY <2>5
  <2> QED BY <2>1, <2>2, <2>7, <2>8, <2>9
<1>8. DOMAIN new.tags \subseteq DOMAIN ch.tags
  BY <1>7 DEF Del
<1>9. \A u \in D \ {t} : new.revchanges[u].b = {H(v) : v \in {w \in D \ {t} : w =< u}}
  <2>1. ASSUME NEW u \in D, u < t
        PROVE  {w \in D : w =< u} = {w \in D \ {t} : w =< u}
    BY <1>1, <2>1
  <2>2. \A u \in D \ {t} : u < t \/ u \in later
    BY <1>1
  <2> QED BY <1>4, <1>5, <1>7, <2>1, <2>2
<1>10. \A u, v \in later : m(u) = m(v) => u = v
  <2>1. ASSUME NEW u \in later, NEW v \in later, u < v PROVE m(u) # m(v)
    <3>1. H(v) \in m(v)
      BY <1>1, <1>4
    <3>2. H(v) \notin m(u)
      BY <1>1, <1>2, <1>4, <2>1
    <3> QED BY <3>1, <3>2
  <2> QED BY <1>1, <2>1
<1>11. \A s \in kept : /\ ch.states[s] \in D /\ ch.states[s] < t
                       /\ ch.revchanges[ch.states[s]].b = s
  BY <1>1 DEF LogAgrees, Below, kept
<1>12. \A s \in kept : \A u \in later : s # m(u)
  <2> SUFFICES ASSUME NEW s \in kept, NEW u \in later PROVE H(u) \in m(u) /\ H(u) \notin s
    OBVIOUS
  <2>1. H(u) \in m(u)
    BY <1>1, <1>4
  <2>2. H(u) \notin {H(v) : v \in {w \in D : w =< ch.states[s]}}
    BY <1>1, <1>2, <1>11
  <2> QED BY <1>5, <1>11, <2>1, <2>2
<1>13. Channel(new)
  <2>1. \A u \in later : m(u) \subseteq Hash
    BY <1>2, <1>4
  <2> QED BY <1>7, <1>8, <2>1 DEF Channel, Id, kept
<1>14. ASSUME NEW u \in D \ {t}
       PROVE  /\ new.revchanges[u].b = HashesUpTo(new, ext, u)
              /\ new.revchanges[u].b \in DOMAIN new.states
              /\ new.states[new.revchanges[u].b] = u
  <2>1. new.revchanges[u].b = HashesUpTo(new, ext, u)
    BY <1>7, <1>9 DEF HashesUpTo, UpTo, H
  <2>2. CASE u < t
    <3>1. ch.revchanges[u].b \in kept /\ ch.states[ch.revchanges[u].b] = u
      <4>1. ch.revchanges[u].b \in DOMAIN ch.states /\ ch.states[ch.revchanges[u].b] = u
        BY DEF LogAgrees
      <4>2. ASSUME NEW v \in D \ Below(ch.revchanges, t) PROVE ch.revchanges[v].b # ch.revchanges[u].b
        <5>1. ch.states[ch.revchanges[v].b] = v /\ v # u
          BY <1>1, <2>2 DEF LogAgrees, Below
        <5> QED BY <4>1, <5>1
      <4> QED BY <4>1, <4>2 DEF kept
    <3> QED BY <1>7, <1>12, <2>1, <2>2, <3>1
  <2>3. CASE u \in later
    <3>1. new.revchanges[u].b = m(u) /\ m(u) \in DOMAIN new.states
      BY <1>7, <2>3
    <3>2. new.states[m(u)] = CHOOSE v \in later : m(u) = m(v)
      BY <1>7, <2>3, <3>1
    <3>3. (CHOOSE v \in later : m(u) = m(v)) = u
      BY <1>10, <2>3
    <3> QED BY <2>1, <3>1, <3>2, <3>3
  <2> QED BY <1>1, <2>2, <2>3
<1>15. LogAgrees(new, ext)
  <2>1. ASSUME NEW q \in DOMAIN new.changes
        PROVE  new.changes[q] \in DOMAIN new.revchanges /\ new.revchanges[new.changes[q]].a = q
    BY <1>1, <1>7 DEF LogAgrees
  <2>2. ASSUME NEW u \in DOMAIN new.revchanges
        PROVE  /\ u < new.apply_counter
               /\ new.revchanges[u].a \in DOMAIN new.changes
               /\ new.changes[new.revchanges[u].a] = u
    BY <1>1, <1>7 DEF LogAgrees
  <2>3. ASSUME NEW s \in DOMAIN new.states
        PROVE  new.states[s] \in DOMAIN new.revchanges /\ new.revchanges[new.states[s]].b = s
    <3>1. CASE s \in kept
      BY <1>1, <1>7, <1>11, <1>12, <3>1
    <3>2. CASE s \in {m(u) : u \in later}
      <4>1. PICK u \in later : s = m(u)
        BY <3>2
      <4>2. u \in D \ {t} /\ new.revchanges[u].b = s
        BY <1>1, <1>7, <4>1
      <4> QED BY <1>7, <1>14, <4>2
    <3> QED BY <1>7, <3>1, <3>2
  <2> QED BY <1>7, <1>14, <2>1, <2>2, <2>3 DEF LogAgrees
<1> QED BY <1>7, <1>13, <1>15 DEF new

-----------------------------------------------------------------------------
(* The registry *)

RegistryOK ==
  /\ DOMAIN internal \subseteq Hash /\ internal \in [DOMAIN internal -> Id]
  /\ DOMAIN external \subseteq Id /\ external \in [DOMAIN external -> Hash]
  /\ dep \subseteq Id \X Id /\ revdep \subseteq Id \X Id
  /\ IdsAgree

(* There is a free id for a new change, whatever hashes collide. *)
LEMMA FreeId ==
  ASSUME RegistryOK, NEW h \in Hash, h \notin DOMAIN internal
  PROVE  make_changeid(h) \in Nat /\ make_changeid(h) \notin DOMAIN external
<1> DEFINE D == DOMAIN external
           c == Cardinality(D)
           lo == Prefix[h]
           R == lo .. (lo + c)
           Free == R \ D
<1>1. IsFiniteSet(D) /\ c \in Nat
  <2>1. external \in Injection(D, Hash)
    BY DEF RegistryOK, IdsAgree, Injection, IsInjective
  <2>2. IsFiniteSet(D)
    BY <2>1, FS_Injection, HashFinite
  <2> QED BY <2>2, FS_CardinalityType
<1>2. lo \in Nat
  BY PrefixType
<1>3. Cardinality(R) = c + 1
  BY <1>1, <1>2, FS_Interval
<1>4. Free # {}
  <2>1. SUFFICES ASSUME R \subseteq D PROVE FALSE
    OBVIOUS
  <2>2. Cardinality(R) =< c
    BY <1>1, <2>1, FS_Subset
  <2> QED BY <1>1, <1>3, <2>2
<1>5. \E i \in Free : \A j \in Free : i =< j
  <2> DEFINE Back == {lo + c - j : j \in Free}
  <2>1. Back \subseteq 0 .. c /\ Back # {}
    <3>1. ASSUME NEW j \in Free PROVE lo + c - j \in 0 .. c
      <4>1. j \in Int /\ lo =< j /\ j =< lo + c
        BY <1>1, <1>2
      <4> QED BY <1>1, <1>2, <4>1
    <3>2. PICK j \in Free : TRUE
      BY <1>4
    <3>3. Back \subseteq 0 .. c
      <4> HIDE DEF Free
      <4> QED BY <3>1
    <3>4. lo + c - j \in Back
      BY <3>2
    <3> QED BY <3>3, <3>4
  <2>2. PICK x \in Back : \A y \in Back : y =< x
    <3> HIDE DEF Back
    <3> QED BY <1>1, <2>1, LastExists
  <2>3. PICK i \in Free : x = lo + c - i
    BY <2>2
  <2>4. ASSUME NEW j \in Free PROVE i =< j
    <3>1. lo + c - j \in Back /\ j \in Int /\ i \in Int
      BY <1>1, <1>2
    <3>2. lo + c - j =< lo + c - i
      <4> HIDE DEF Back
      <4> QED BY <2>2, <2>3, <3>1
    <3> QED BY <1>1, <1>2, <3>1, <3>2
  <2> QED BY <2>4
<1>6. PICK i \in Free : \A j \in Free : i =< j
  BY <1>5
<1>7. /\ i \in lo .. (lo + c) /\ i \notin D
      /\ \A j \in lo .. (i - 1) : j \in D
  BY <1>1, <1>2, <1>6
<1>8. make_changeid(h) = CHOOSE k \in lo .. (lo + c) : k \notin D /\ \A j \in lo .. (k - 1) : j \in D
  BY DEF make_changeid
<1>9. make_changeid(h) \in lo .. (lo + c) /\ make_changeid(h) \notin D
  BY <1>7, <1>8
<1> QED BY <1>1, <1>2, <1>9

(* Applying a change leaves it with an id, and every other change with     *)
(* the one it had.                                                         *)
LEMMA Registered ==
  ASSUME RegistryOK, NEW h \in Hash,
         \/ RegisterIfUnknown(h)
         \/ register_change(make_changeid(h), h)
  PROVE  LET p == make_changeid(h) IN
         /\ RegistryOK'
         /\ p \in Nat
         /\ DOMAIN external' = DOMAIN external \cup {p}
         /\ DOMAIN internal' = DOMAIN internal \cup {h}
         /\ external'[p] = h /\ internal'[h] = p
         /\ \A q \in DOMAIN external : external'[q] = external[q]
         /\ h \in DOMAIN internal => p = internal[h]
         /\ h \notin DOMAIN internal => p \notin DOMAIN external
<1> DEFINE p == make_changeid(h)
<1>1. p \in Nat /\ (h \in DOMAIN internal => p = internal[h])
      /\ (h \notin DOMAIN internal => p \notin DOMAIN external)
  <2>1. CASE h \in DOMAIN internal
    BY <2>1 DEF make_changeid, RegistryOK, Id
  <2>2. CASE h \notin DOMAIN internal
    BY <2>2, FreeId
  <2> QED BY <2>1, <2>2
<1> HIDE DEF p
<1>2. CASE UNCHANGED registry /\ h \in DOMAIN internal
  <2>1. internal' = internal /\ external' = external /\ dep' = dep /\ revdep' = revdep
    BY <1>2 DEF registry
  <2>2. p \in DOMAIN external /\ external[p] = h
    BY <1>1, <1>2 DEF RegistryOK, IdsAgree
  <2>3. RegistryOK'
    BY <2>1 DEF RegistryOK, IdsAgree
  <2> QED BY <1>1, <1>2, <2>1, <2>2, <2>3 DEF p
<1>3. CASE register_change(p, h)
  <2>1. /\ external' = [x \in DOMAIN external \cup {p} |-> IF x = p THEN h ELSE external[x]]
        /\ internal' = [x \in DOMAIN internal \cup {h} |-> IF x = h THEN p ELSE internal[x]]
    BY <1>3 DEF register_change, Put
  <2>2. /\ DOMAIN external' = DOMAIN external \cup {p}
        /\ DOMAIN internal' = DOMAIN internal \cup {h}
        /\ external'[p] = h /\ internal'[h] = p
        /\ \A q \in DOMAIN external \ {p} : external'[q] = external[q]
        /\ \A g \in DOMAIN internal \ {h} : internal'[g] = internal[g]
    BY <2>1
  <2>3. p \in DOMAIN external => external[p] = h
    BY <1>1 DEF RegistryOK, IdsAgree
  <2>4. \A q \in DOMAIN external : external'[q] = external[q]
    BY <2>2, <2>3
  <2>5. \A g \in DOMAIN internal \ {h} : internal[g] # p
    BY <1>1 DEF RegistryOK, IdsAgree
  <2>6. IdsAgree'
    <3>1. ASSUME NEW g \in DOMAIN internal'
          PROVE  internal'[g] \in DOMAIN external' /\ external'[internal'[g]] = g
      BY <2>2, <2>4 DEF RegistryOK, IdsAgree
    <3>2. ASSUME NEW q \in DOMAIN external'
          PROVE  external'[q] \in DOMAIN internal' /\ internal'[external'[q]] = q
      <4>1. CASE q = p
        BY <2>2, <4>1
      <4>2. CASE q # p
        <5>1. q \in DOMAIN external /\ external[q] # h
          BY <1>1, <2>2, <4>2 DEF RegistryOK, IdsAgree
        <5> QED BY <2>2, <2>4, <5>1 DEF RegistryOK, IdsAgree
      <4> QED BY <4>1, <4>2
    <3> QED BY <3>1, <3>2 DEF IdsAgree
  <2>7. dep' \subseteq Id \X Id /\ revdep' \subseteq Id \X Id
    <3>1. \A d \in Deps(h) : internal[d] \in Id
      BY <1>3 DEF register_change, RegistryOK
    <3> QED BY <1>1, <1>3, <3>1 DEF register_change, RegistryOK, Id
  <2>8. /\ DOMAIN internal' \subseteq Hash /\ internal' \in [DOMAIN internal' -> Id]
        /\ DOMAIN external' \subseteq Id /\ external' \in [DOMAIN external' -> Hash]
    BY <1>1, <2>1 DEF RegistryOK, Id
  <2>9. RegistryOK'
    BY <2>6, <2>7, <2>8 DEF RegistryOK
  <2> QED BY <1>1, <2>2, <2>4, <2>9 DEF p
<1> QED BY <1>2, <1>3 DEF RegisterIfUnknown, p

(* Forgetting a change leaves the others with their ids. *)
LEMMA Forgotten ==
  ASSUME RegistryOK, NEW h \in DOMAIN internal, Forget(h)
  PROVE  /\ RegistryOK'
         /\ DOMAIN external' = DOMAIN external \ {internal[h]}
         /\ \A q \in DOMAIN external' : external'[q] = external[q]
<1> DEFINE p == internal[h]
<1>1. /\ external' = [x \in DOMAIN external \ {p} |-> external[x]]
      /\ internal' = [x \in DOMAIN internal \ {h} |-> internal[x]]
      /\ dep' \subseteq dep /\ revdep' \subseteq revdep
  BY DEF Forget, Del
<1>2. p \in DOMAIN external /\ external[p] = h
  BY DEF RegistryOK, IdsAgree
<1>3. IdsAgree'
  BY <1>1, <1>2 DEF RegistryOK, IdsAgree
<1>4. /\ DOMAIN internal' \subseteq Hash /\ internal' \in [DOMAIN internal' -> Id]
      /\ DOMAIN external' \subseteq Id /\ external' \in [DOMAIN external' -> Hash]
      /\ dep' \subseteq Id \X Id /\ revdep' \subseteq Id \X Id
  BY <1>1 DEF RegistryOK
<1> QED BY <1>1, <1>3, <1>4 DEF RegistryOK

-----------------------------------------------------------------------------
(* The inductive invariant *)

ChannelOK(ch, ext) ==
  /\ Channel(ch)
  /\ DOMAIN ch.changes \subseteq DOMAIN ext
  /\ LogAgrees(ch, ext)

ChannelsOK == \A n \in DOMAIN channels : ChannelOK(channels[n], external)

NamesOK == DOMAIN channels \subseteq Name /\ persisted \subseteq DOMAIN channels

FrameType == [hash : Hash, first : BOOLEAN, apply : BOOLEAN]

RecOK ==
  /\ Idle \/ (rec.channel \in DOMAIN channels /\ rec.stack # <<>>)
  /\ rec.visited \subseteq Hash
  /\ rec.stack \in Seq(FrameType)

IInv == RegistryOK /\ ChannelsOK /\ NamesOK /\ RecOK

(* The invariant says no more than the properties checked do together. *)
LEMMA IInvIs == IInv <=> TypeOK /\ IdsAgree /\ UsedAreKnown /\ LogsAgree
BY DEF IInv, RegistryOK, ChannelsOK, ChannelOK, NamesOK, RecOK, FrameType,
       TypeOK, UsedAreKnown, LogsAgree

(* A channel does not notice what happens to changes it does not have. *)
LEMMA ChannelFrame ==
  ASSUME NEW ch, NEW ext, NEW ext2, ChannelOK(ch, ext),
         \A q \in DOMAIN ch.changes : q \in DOMAIN ext2 /\ ext2[q] = ext[q]
  PROVE  ChannelOK(ch, ext2)
<1>1. LogAgrees(ch, ext2)
  BY LogFrame DEF ChannelOK
<1> QED BY <1>1 DEF ChannelOK

(* A step that touches neither ids nor channels' logs. *)
LEMMA SameRegistry ==
  ASSUME RegistryOK, UNCHANGED registry
  PROVE  RegistryOK' /\ external' = external
BY DEF RegistryOK, registry, IdsAgree

(* Tagging a channel does not touch its log. *)
LEMMA TagStep ==
  ASSUME NEW ch, NEW ext, ChannelOK(ch, ext), NEW tags, DOMAIN tags \subseteq Nat
  PROVE  ChannelOK([ch EXCEPT !.tags = tags], ext)
<1> DEFINE new == [ch EXCEPT !.tags = tags]
<1>1. DOMAIN ch = {"changes", "revchanges", "states", "tags", "apply_counter"}
  BY DEF ChannelOK, Channel
<1>2. /\ DOMAIN new = DOMAIN ch /\ new.tags = tags
      /\ new.changes = ch.changes /\ new.revchanges = ch.revchanges
      /\ new.states = ch.states /\ new.apply_counter = ch.apply_counter
  BY <1>1
<1> HIDE DEF new
<1>3. Channel(new)
  BY <1>2 DEF ChannelOK, Channel
<1>4. \A t : HashesUpTo(new, ext, t) = HashesUpTo(ch, ext, t)
  BY <1>2 DEF HashesUpTo
<1>5. LogAgrees(new, ext)
  BY <1>2, <1>4 DEF ChannelOK, LogAgrees
<1> QED BY <1>2, <1>3, <1>5 DEF ChannelOK, new

LEMMA ApplyStep ==
  ASSUME RegistryOK, ChannelsOK, NEW n \in DOMAIN channels, NEW h \in Hash,
         \/ RegisterIfUnknown(h)
         \/ register_change(make_changeid(h), h),
         ApplyToChannel(n, h)
  PROVE  /\ RegistryOK' /\ ChannelsOK'
         /\ DOMAIN channels' = DOMAIN channels /\ persisted' = persisted
<1> DEFINE p == make_changeid(h)
           ch == channels[n]
           new == put_changes(ch, p, h)
<1>1. /\ RegistryOK'
      /\ p \in Nat
      /\ DOMAIN external' = DOMAIN external \cup {p}
      /\ external'[p] = h /\ internal'[h] = p
      /\ \A q \in DOMAIN external : external'[q] = external[q]
      /\ h \in DOMAIN internal => p = internal[h]
      /\ h \notin DOMAIN internal => p \notin DOMAIN external
  BY Registered
<1>2. \A m \in DOMAIN channels : ChannelOK(channels[m], external)
  BY DEF ChannelsOK
<1>3. p \notin DOMAIN ch.changes
  BY <1>1, <1>2 DEF ApplyToChannel, OnChannel, ChannelOK
<1>4. channels' = [channels EXCEPT ![n] = new] /\ persisted' = persisted
  BY DEF ApplyToChannel
<1> HIDE DEF p, new
<1>5. ASSUME NEW m \in DOMAIN channels PROVE ChannelOK(channels[m], external')
  BY <1>1, <1>2, ChannelFrame DEF ChannelOK
<1>6. \A q \in DOMAIN ch.changes : external'[q] \in Hash \ {h}
  BY <1>1, <1>3, <1>5 DEF RegistryOK, IdsAgree, ChannelOK
<1>7. /\ Channel(new) /\ LogAgrees(new, external')
      /\ DOMAIN new.changes = DOMAIN ch.changes \cup {p}
  BY <1>1, <1>3, <1>5, <1>6, LogPut DEF ChannelOK, p, new
<1>8. ChannelOK(new, external')
  BY <1>1, <1>5, <1>7 DEF ChannelOK
<1>9. ChannelsOK'
  BY <1>4, <1>5, <1>8 DEF ChannelsOK
<1> QED BY <1>1, <1>4, <1>9

LEMMA UnrecordStep ==
  ASSUME RegistryOK, ChannelsOK, NEW n \in DOMAIN channels, NEW h \in Hash,
         unrecord(n, h)
  PROVE  /\ RegistryOK' /\ ChannelsOK'
         /\ DOMAIN channels' = DOMAIN channels
<1> DEFINE p == internal[h]
           ch == channels[n]
           t == ch.changes[p]
           cut == del_changes(ch, external, p, t)
           tags == del_tags(cut.tags, t)
           new == [cut EXCEPT !.tags = tags]
<1>1. /\ h \in DOMAIN internal /\ p \in DOMAIN ch.changes
      /\ channels' = [channels EXCEPT ![n] = new]
      /\ \/ unused_in_other_channels(n, p) /\ Forget(h)
         \/ UNCHANGED registry
  BY DEF unrecord, OnChannel, del_channel_changes
<1> HIDE DEF new, tags, cut
<1>2. \A m \in DOMAIN channels : ChannelOK(channels[m], external)
  BY DEF ChannelsOK
<1>3. /\ RegistryOK'
      /\ DOMAIN external' \in {DOMAIN external, DOMAIN external \ {p}}
      /\ \A q \in DOMAIN external' : external'[q] = external[q]
      /\ p \notin DOMAIN external' => unused_in_other_channels(n, p)
  <2>1. CASE unused_in_other_channels(n, p) /\ Forget(h)
    BY <1>1, <2>1, Forgotten
  <2>2. CASE UNCHANGED registry
    BY <1>1, <1>2, <2>2, SameRegistry DEF ChannelOK
  <2> QED BY <1>1, <2>1, <2>2
<1>4. \A q, r \in DOMAIN external : external[q] = external[r] => q = r
  BY DEF RegistryOK, IdsAgree
<1>5. \A q \in DOMAIN ch.changes : q \in DOMAIN external /\ external[q] \in Hash
  BY <1>2 DEF ChannelOK, RegistryOK
<1>6. /\ Channel(cut) /\ LogAgrees(cut, external)
      /\ DOMAIN cut.changes = DOMAIN ch.changes \ {p}
  BY <1>1, <1>2, <1>4, <1>5, LogDel DEF ChannelOK, cut
<1>7. ChannelOK(new, external')
  <2>1. DOMAIN tags \subseteq Nat
    BY <1>6 DEF tags, del_tags, replay_tags, Del, Channel
  <2>2. ChannelOK(new, external)
    BY <1>5, <1>6, <2>1, TagStep DEF ChannelOK, new
  <2>3. DOMAIN new.changes = DOMAIN cut.changes
    BY DEF new
  <2>4. \A q \in DOMAIN new.changes : q \in DOMAIN external' /\ external'[q] = external[q]
    BY <1>3, <1>5, <1>6, <2>3
  <2> QED BY <2>2, <2>4, ChannelFrame
<1>8. ASSUME NEW m \in DOMAIN channels \ {n} PROVE ChannelOK(channels[m], external')
  <2>1. \A q \in DOMAIN channels[m].changes : q \in DOMAIN external' /\ external'[q] = external[q]
    BY <1>2, <1>3 DEF unused_in_other_channels, ChannelOK
  <2> QED BY <1>2, <2>1, ChannelFrame
<1>9. ChannelsOK'
  BY <1>1, <1>7, <1>8 DEF ChannelsOK
<1> QED BY <1>1, <1>3, <1>9

LEMMA EmptyOK == \A ext : ChannelOK(EmptyChannel, ext)
BY DEF ChannelOK, Channel, EmptyChannel, EmptyDb, LogAgrees

(* The stack of apply_change_rec_ws holds frames, whatever is popped and   *)
(* pushed.                                                                 *)
LEMMA TopType ==
  ASSUME RecOK, ~ Idle
  PROVE  /\ rec.channel \in DOMAIN channels
         /\ Top \in FrameType
         /\ Rest \in Seq(FrameType)
<1>1. rec.stack \in Seq(FrameType) /\ rec.stack # <<>> /\ rec.channel \in DOMAIN channels
  BY DEF RecOK
<1>2. Len(rec.stack) \in Nat \ {0}
  BY <1>1
<1> QED BY <1>1, <1>2 DEF Top, Rest

LEMMA ContinueOK ==
  ASSUME NEW stack \in Seq(FrameType), NEW visited \in SUBSET Hash,
         rec.channel \in DOMAIN channels', Continue(stack, visited)
  PROVE  RecOK'
<1>1. CASE stack = <<>>
  BY <1>1 DEF Continue, RecOK, Idle, NoRec
<1>2. CASE stack # <<>>
  BY <1>2 DEF Continue, RecOK
<1> QED BY <1>1, <1>2

LEMMA RecVisitStep ==
  ASSUME RecOK, RecVisit
  PROVE  RecOK'
<1> DEFINE h == Top.hash
           below == Append(Rest, Frame(h, FALSE, Top.apply))
           dependencies == [i \in DOMAIN Dependencies[h] |->
                              Frame(Dependencies[h][i], TRUE, TRUE)]
           onIt == h \in rec.visited \/ OnChannel(channels[rec.channel], h)
           stack == IF onIt THEN Rest ELSE below \o dependencies
<1>1. /\ rec.channel \in DOMAIN channels /\ Top \in FrameType
      /\ Rest \in Seq(FrameType) /\ h \in Hash
  BY TopType DEF RecVisit, FrameType
<1>2. Frame(h, FALSE, Top.apply) \in FrameType
  BY <1>1 DEF Frame, FrameType
<1>3. below \in Seq(FrameType)
  <2> DEFINE frame == Frame(h, FALSE, Top.apply)
  <2> SUFFICES Append(Rest, frame) \in Seq(FrameType)
    OBVIOUS
  <2> HIDE DEF frame
  <2> QED BY <1>1, <1>2, AppendProperties DEF frame
<1>4. dependencies \in Seq(FrameType)
  <2>1. Dependencies[h] \in Seq(Hash)
    BY <1>1, DependenciesType
  <2>2. ASSUME NEW i \in DOMAIN Dependencies[h] PROVE Frame(Dependencies[h][i], TRUE, TRUE) \in FrameType
    BY <2>1 DEF Frame, FrameType
  <2>3. DOMAIN Dependencies[h] = 1 .. Len(Dependencies[h]) /\ Len(Dependencies[h]) \in Nat
    BY <2>1
  <2> DEFINE len == Len(Dependencies[h])
  <2>4. dependencies \in [1 .. len -> FrameType] /\ len \in Nat
    BY <2>2, <2>3
  <2> HIDE DEF dependencies, len
  <2> QED BY <2>4, SeqDef
<1>5. stack \in Seq(FrameType)
  <2> HIDE DEF below, dependencies
  <2>1. below \o dependencies \in Seq(FrameType)
    BY <1>3, <1>4, ConcatProperties
  <2> QED BY <1>1, <2>1
<1>6. rec.visited \cup {h} \in SUBSET Hash /\ channels' = channels
  BY <1>1 DEF RecOK, RecVisit
<1>7. Continue(stack, rec.visited \cup {h})
  BY DEF RecVisit
<1> HIDE DEF stack
<1> QED BY <1>1, <1>5, <1>6, <1>7, ContinueOK

-----------------------------------------------------------------------------
(* The theorems *)

LEMMA InitOK == Init => IInv
<1> SUFFICES ASSUME Init PROVE IInv
  OBVIOUS
<1> USE DEF Init, EmptyDb
<1>1. RegistryOK
  BY DEF RegistryOK, IdsAgree
<1>2. ChannelsOK /\ NamesOK
  BY DEF ChannelsOK, NamesOK
<1>3. RecOK
  BY DEF RecOK, Idle, NoRec
<1> QED BY <1>1, <1>2, <1>3 DEF IInv

(* A loop that is not running types whatever the channels are. *)
LEMMA IdleOK == Idle /\ UNCHANGED rec => RecOK'
BY DEF Idle, NoRec, RecOK

LEMMA LoopStep ==
  ASSUME IInv, Loop
  PROVE  IInv'
<1>1. RegistryOK /\ ChannelsOK /\ NamesOK /\ RecOK
  BY DEF IInv
<1>2. CASE RecVisit
  <2>1. UNCHANGED registry /\ channels' = channels /\ persisted' = persisted
    BY <1>2 DEF RecVisit
  <2>2. RegistryOK' /\ ChannelsOK' /\ NamesOK'
    BY <1>1, <2>1, SameRegistry DEF ChannelsOK, NamesOK
  <2> QED BY <1>1, <1>2, <2>2, RecVisitStep DEF IInv
<1>3. CASE RecApply
  <2>1. /\ rec.channel \in DOMAIN channels /\ Top.hash \in Hash
        /\ Rest \in Seq(FrameType) /\ rec.visited \in SUBSET Hash
    BY <1>1, <1>3, TopType DEF RecApply, FrameType, RecOK
  <2>2. /\ RegistryOK' /\ ChannelsOK'
        /\ DOMAIN channels' = DOMAIN channels /\ persisted' = persisted
    <3>1. CASE UNCHANGED <<registry, channels, persisted>>
      BY <1>1, <3>1, SameRegistry DEF ChannelsOK
    <3>2. CASE RegisterIfUnknown(Top.hash) /\ ApplyToChannel(rec.channel, Top.hash)
      BY <1>1, <2>1, <3>2, ApplyStep
    <3> QED BY <1>3, <3>1, <3>2 DEF RecApply
  <2>3. NamesOK'
    BY <1>1, <2>2 DEF NamesOK
  <2>4. RecOK'
    BY <1>3, <2>1, <2>2, ContinueOK DEF RecApply
  <2> QED BY <2>2, <2>3, <2>4 DEF IInv
<1> QED BY <1>2, <1>3 DEF Loop

(* The calls that work on the changes or the tags of channel n. *)
LEMMA ChangeStep ==
  ASSUME IInv, NEW n \in DOMAIN channels, NEW h \in Hash,
         \/ apply_change(n, h) \/ apply_local_change(n, h) \/ unrecord(n, h)
         \/ \E deps_only \in BOOLEAN : apply_change_rec(n, h, deps_only)
  PROVE  IInv'
<1>1. RegistryOK /\ ChannelsOK /\ NamesOK /\ RecOK
  BY DEF IInv
<1>2. CASE apply_change(n, h) \/ apply_local_change(n, h)
  <2>1. /\ Idle /\ UNCHANGED rec /\ ApplyToChannel(n, h)
        /\ RegisterIfUnknown(h) \/ register_change(make_changeid(h), h)
    BY <1>2 DEF apply_change, apply_local_change
  <2>2. /\ RegistryOK' /\ ChannelsOK'
        /\ DOMAIN channels' = DOMAIN channels /\ persisted' = persisted
    BY <1>1, <2>1, ApplyStep
  <2> QED BY <1>1, <2>1, <2>2, IdleOK DEF IInv, NamesOK
<1>3. CASE unrecord(n, h)
  <2>1. Idle /\ UNCHANGED rec /\ persisted' = persisted
    BY <1>3 DEF unrecord
  <2>2. RegistryOK' /\ ChannelsOK' /\ DOMAIN channels' = DOMAIN channels
    BY <1>1, <1>3, UnrecordStep
  <2> QED BY <1>1, <2>1, <2>2, IdleOK DEF IInv, NamesOK
<1>4. ASSUME NEW deps_only \in BOOLEAN, apply_change_rec(n, h, deps_only) PROVE IInv'
  <2> DEFINE frame == Frame(h, TRUE, ~ deps_only)
  <2>1. /\ UNCHANGED registry /\ channels' = channels /\ persisted' = persisted
        /\ rec' = [channel |-> n, stack |-> <<frame>>, visited |-> {}]
    BY <1>4 DEF apply_change_rec
  <2>2. frame \in FrameType
    BY DEF Frame, FrameType
  <2>3. RecOK'
    <3> HIDE DEF frame
    <3> QED BY <2>1, <2>2 DEF RecOK
  <2>4. RegistryOK' /\ ChannelsOK' /\ NamesOK'
    BY <1>1, <2>1, SameRegistry DEF ChannelsOK, NamesOK
  <2> QED BY <2>3, <2>4 DEF IInv
<1> QED BY <1>2, <1>3, <1>4

LEMMA TagsStep ==
  ASSUME IInv, NEW n \in DOMAIN channels, NEW m, PutTag(n, m) \/ DelTag(n, m)
  PROVE  IInv'
<1>1. RegistryOK /\ ChannelsOK /\ NamesOK /\ RecOK
  BY DEF IInv
<1> DEFINE ch == channels[n]
           t == ch.states[m]
           tags == IF PutTag(n, m) THEN put_tags(ch.tags, t, m) ELSE del_tags(ch.tags, t)
           new == [ch EXCEPT !.tags = tags]
<1>2. /\ Idle /\ UNCHANGED <<registry, persisted, rec>>
      /\ m \in DOMAIN ch.states
      /\ channels' = [channels EXCEPT ![n] = new]
  BY DEF PutTag, DelTag
<1>3. ChannelOK(ch, external) /\ t \in Nat /\ DOMAIN ch.tags \subseteq Nat
  BY <1>1, <1>2 DEF ChannelsOK, ChannelOK, LogAgrees, Channel
<1>4. DOMAIN tags \subseteq Nat
  BY <1>3 DEF put_tags, del_tags, replay_tags, Put, Del
<1>5. ChannelOK(new, external)
  <2> HIDE DEF tags
  <2> QED BY <1>3, <1>4, TagStep
<1> HIDE DEF new
<1>6. RegistryOK' /\ external' = external
  BY <1>1, <1>2, SameRegistry
<1>7. ChannelsOK' /\ DOMAIN channels' = DOMAIN channels
  BY <1>1, <1>2, <1>5, <1>6 DEF ChannelsOK
<1> QED BY <1>1, <1>2, <1>6, <1>7, IdleOK DEF IInv, NamesOK

(* The calls that work on channels as a whole, and commit. *)
LEMMA ChannelStep ==
  ASSUME IInv, NEW n \in Name, NEW m \in Name,
         \/ open_or_create_channel(n)
         \/ n \in DOMAIN channels /\ n # m /\ (fork(n, m) \/ rename_channel(n, m))
         \/ n \in DOMAIN channels /\ drop_channel(n)
         \/ commit
  PROVE  IInv'
<1>1. RegistryOK /\ ChannelsOK /\ NamesOK /\ RecOK
  BY DEF IInv
<1>2. CASE open_or_create_channel(n)
  <2>1. /\ Idle /\ UNCHANGED <<registry, rec>>
        /\ channels' = Put(channels, n, EmptyChannel) /\ persisted' = persisted \cup {n}
    BY <1>2 DEF open_or_create_channel
  <2>2. RegistryOK' /\ external' = external /\ RecOK'
    BY <1>1, <2>1, SameRegistry, IdleOK
  <2>3. ChannelsOK' /\ NamesOK'
    BY <1>1, <2>1, <2>2, EmptyOK DEF ChannelsOK, NamesOK, Put
  <2> QED BY <2>2, <2>3 DEF IInv
<1>3. CASE n \in DOMAIN channels /\ n # m /\ (fork(n, m) \/ rename_channel(n, m))
  <2>1. /\ Idle /\ UNCHANGED <<registry, rec>>
        /\ channels' \in {Put(channels, m, channels[n]), Put(Del(channels, n), m, channels[n])}
        /\ persisted' \subseteq DOMAIN channels'
    BY <1>1, <1>3 DEF fork, rename_channel, Put, Del, NamesOK
  <2>2. RegistryOK' /\ external' = external /\ RecOK'
    BY <1>1, <2>1, SameRegistry, IdleOK
  <2>3. ChannelsOK' /\ NamesOK'
    BY <1>1, <1>3, <2>1, <2>2 DEF ChannelsOK, NamesOK, Put, Del
  <2> QED BY <2>2, <2>3 DEF IInv
<1>4. CASE n \in DOMAIN channels /\ drop_channel(n)
  <2>1. /\ Idle /\ UNCHANGED rec /\ UNCHANGED internal /\ UNCHANGED external
        /\ channels' = Del(channels, n) /\ persisted' = persisted \ {n}
        /\ dep' \subseteq dep /\ revdep' \subseteq revdep
    BY <1>4 DEF drop_channel
  <2>2. RegistryOK' /\ RecOK'
    BY <1>1, <2>1, IdleOK DEF RegistryOK, IdsAgree
  <2>3. ChannelsOK' /\ NamesOK'
    BY <1>1, <2>1 DEF ChannelsOK, NamesOK, Del
  <2> QED BY <2>2, <2>3 DEF IInv
<1>5. CASE commit
  <2>1. Idle /\ UNCHANGED <<registry, channels, rec>> /\ persisted' = DOMAIN channels
    BY <1>5 DEF commit
  <2> QED BY <1>1, <2>1, SameRegistry, IdleOK DEF IInv, ChannelsOK, NamesOK
<1> QED BY <1>2, <1>3, <1>4, <1>5

LEMMA NextStep == IInv /\ [Next]_vars => IInv'
<1> SUFFICES ASSUME IInv, [Next]_vars PROVE IInv'
  OBVIOUS
<1>1. CASE Loop
  BY <1>1, LoopStep
<1>2. CASE commit
  <2>1. CASE Name = {}
    BY <1>2, <2>1, SameRegistry, IdleOK
       DEF IInv, commit, ChannelsOK, NamesOK
  <2> QED BY <1>2, <2>1, ChannelStep
<1>3. ASSUME NEW n \in Name, Keep(n) PROVE IInv'
  <2>1. CASE open_or_create_channel(n)
    BY <2>1, ChannelStep
  <2>2. ASSUME NEW h \in Hash, n \in DOMAIN channels,
               \/ apply_change(n, h) \/ apply_local_change(n, h) \/ unrecord(n, h)
               \/ \E deps_only \in BOOLEAN : apply_change_rec(n, h, deps_only)
        PROVE  IInv'
    BY <2>2, ChangeStep
  <2>3. ASSUME NEW m \in Name \ DOMAIN channels, n \in DOMAIN channels,
               fork(n, m) \/ rename_channel(n, m)
        PROVE  IInv'
    BY <2>3, ChannelStep
  <2>4. ASSUME NEW m \in SUBSET Hash, n \in DOMAIN channels, PutTag(n, m) \/ DelTag(n, m)
        PROVE  IInv'
    BY <2>4, TagsStep
  <2> QED BY <1>3, <2>1, <2>2, <2>3, <2>4 DEF Keep
<1>4. ASSUME NEW n \in Name, Lose(n) PROVE IInv'
  <2>1. DOMAIN channels \subseteq Name
    BY DEF IInv, NamesOK
  <2> QED BY <1>4, <2>1, ChannelStep DEF Lose
<1>5. CASE UNCHANGED vars
  BY <1>5, SameRegistry
     DEF vars, registry, IInv, ChannelsOK, NamesOK, RecOK, Idle
<1> QED BY <1>1, <1>2, <1>3, <1>4, <1>5 DEF Next

(* The invariant holds in every state the library reaches: whatever the    *)
(* changes and their dependencies, whatever hashes collide, however many   *)
(* channels there are.                                                     *)
THEOREM Inductive == Spec => []IInv
<1>1. Spec => Init /\ [][Next]_vars
  BY DEF Spec
<1> QED BY <1>1, InitOK, NextStep, PTL

(* Every table holds keys and values of its type. *)
THEOREM TypeCorrect == Spec => []TypeOK
<1>1. IInv => TypeOK
  BY IInvIs
<1> QED BY <1>1, Inductive, PTL

(* Ids and hashes are in one-to-one correspondence (make_changeid).        *)
THEOREM IdsStayInverse == Spec => []IdsAgree
<1>1. IInv => IdsAgree
  BY IInvIs
<1> QED BY <1>1, Inductive, PTL

(* No channel holds a change the registry has forgotten (unrecord).        *)
THEOREM NoUsedChangeForgotten == Spec => []UsedAreKnown
<1>1. IInv => UsedAreKnown
  BY IInvIs
<1> QED BY <1>1, Inductive, PTL

(* The tables changes, revchanges and states of every channel agree, under *)
(* apply and unrecord at any position (put_changes and del_changes).       *)
THEOREM LogsStayConsistent == Spec => []LogsAgree
<1>1. IInv => LogsAgree
  BY IInvIs
<1> QED BY <1>1, Inductive, PTL

-----------------------------------------------------------------------------
(* Positions *)

(* What a call may do to the positions of a channel. *)
Steady(ch, new) ==
  /\ \A p \in DOMAIN ch.changes \cap DOMAIN new.changes : new.changes[p] = ch.changes[p]
  /\ \A p \in DOMAIN new.changes \ DOMAIN ch.changes : ch.apply_counter =< new.changes[p]
  /\ ch.apply_counter =< new.apply_counter

LEMMA SteadySame == ASSUME NEW ch, Channel(ch) PROVE Steady(ch, ch)
BY DEF Steady, Channel

LEMMA SteadyPut ==
  ASSUME NEW ch, Channel(ch), NEW p, NEW h, p \notin DOMAIN ch.changes
  PROVE  Steady(ch, put_changes(ch, p, h))
<1>1. /\ put_changes(ch, p, h).changes = Put(ch.changes, p, ch.apply_counter)
      /\ put_changes(ch, p, h).apply_counter = ch.apply_counter + 1
  BY DEF put_changes
<1> QED BY <1>1 DEF Steady, Put, Channel

LEMMA SteadyDel ==
  ASSUME NEW ch, Channel(ch), NEW ext, NEW p
  PROVE  Steady(ch, del_channel_changes(ch, ext, p))
<1> DEFINE cut == del_changes(ch, ext, p, ch.changes[p])
<1>1. cut.changes = Del(ch.changes, p) /\ cut.apply_counter = ch.apply_counter
  BY DEF del_changes
<1>2. /\ del_channel_changes(ch, ext, p).changes = cut.changes
      /\ del_channel_changes(ch, ext, p).apply_counter = cut.apply_counter
  BY DEF del_channel_changes, del_changes
<1> HIDE DEF cut
<1> QED BY <1>1, <1>2 DEF Steady, Del, Channel

LEMMA SteadyTags ==
  ASSUME NEW ch, Channel(ch), NEW tags
  PROVE  Steady(ch, [ch EXCEPT !.tags = tags])
BY DEF Steady, Channel

LEMMA ApplySteady ==
  ASSUME IInv, NEW n \in DOMAIN channels, NEW h \in Hash, ApplyToChannel(n, h),
         NEW k \in DOMAIN channels
  PROVE  Steady(channels[k], channels'[k])
<1>1. \A m \in DOMAIN channels : /\ Channel(channels[m])
                                 /\ DOMAIN channels[m].changes \subseteq DOMAIN external
  BY DEF IInv, ChannelsOK, ChannelOK
<1>2. channels' = [channels EXCEPT ![n] = put_changes(@, make_changeid(h), h)]
  BY DEF ApplyToChannel
<1>3. make_changeid(h) \notin DOMAIN channels[n].changes
  <2>1. CASE h \in DOMAIN internal
    BY <2>1 DEF make_changeid, ApplyToChannel, OnChannel
  <2>2. CASE h \notin DOMAIN internal
    BY <1>1, <2>2, FreeId DEF IInv
  <2> QED BY <2>1, <2>2
<1>4. CASE k = n
  BY <1>1, <1>2, <1>3, <1>4, SteadyPut
<1>5. CASE k # n
  BY <1>1, <1>2, <1>5, SteadySame
<1> QED BY <1>4, <1>5

LEMMA SteadyStep ==
  ASSUME IInv, Next, NEW k \in DOMAIN channels \cap DOMAIN channels', ~ Replaces(k)
  PROVE  Steady(channels[k], channels'[k])
<1>1. \A m \in DOMAIN channels : Channel(channels[m])
  BY DEF IInv, ChannelsOK, ChannelOK
<1>2. ASSUME channels'[k] = channels[k] PROVE Steady(channels[k], channels'[k])
  BY <1>1, <1>2, SteadySame
<1>3. CASE Loop
  <2>1. CASE RecVisit
    BY <1>2, <2>1 DEF RecVisit
  <2>2. CASE RecApply
    <3>1. rec.channel \in DOMAIN channels /\ Top.hash \in Hash
      BY <2>2, TopType DEF RecApply, FrameType, IInv
    <3> QED BY <1>2, <2>2, <3>1, ApplySteady DEF RecApply
  <2> QED BY <1>3, <2>1, <2>2 DEF Loop
<1>4. CASE commit
  BY <1>2, <1>4 DEF commit
<1>5. ASSUME NEW n \in Name, Keep(n) PROVE Steady(channels[k], channels'[k])
  <2>1. CASE open_or_create_channel(n)
    BY <1>2, <2>1 DEF open_or_create_channel, Put
  <2>2. ASSUME NEW h \in Hash, n \in DOMAIN channels,
               apply_change(n, h) \/ apply_local_change(n, h)
        PROVE  Steady(channels[k], channels'[k])
    BY <2>2, ApplySteady DEF apply_change, apply_local_change
  <2>3. ASSUME NEW h \in Hash, NEW deps_only \in BOOLEAN, apply_change_rec(n, h, deps_only)
        PROVE  Steady(channels[k], channels'[k])
    BY <1>2, <2>3 DEF apply_change_rec
  <2>4. ASSUME NEW h \in Hash, n \in DOMAIN channels, unrecord(n, h)
        PROVE  Steady(channels[k], channels'[k])
    <3>1. channels' = [channels EXCEPT ![n] = del_channel_changes(@, external, internal[h])]
      BY <2>4 DEF unrecord
    <3>2. CASE k = n
      BY <1>1, <3>1, <3>2, SteadyDel
    <3>3. CASE k # n
      BY <1>2, <3>1, <3>3
    <3> QED BY <3>2, <3>3
  <2>5. ASSUME NEW m, n \in DOMAIN channels, fork(n, m) \/ rename_channel(n, m)
        PROVE  Steady(channels[k], channels'[k])
    <3>1. k # m
      BY <2>5 DEF Replaces
    <3>2. channels'[k] = channels[k]
      BY <2>5, <3>1 DEF fork, rename_channel, Put, Del
    <3> QED BY <1>2, <3>2
  <2>6. ASSUME NEW m, n \in DOMAIN channels, PutTag(n, m) \/ DelTag(n, m)
        PROVE  Steady(channels[k], channels'[k])
    <3>1. PICK tags : channels' = [channels EXCEPT ![n] = [@ EXCEPT !.tags = tags]]
      BY <2>6 DEF PutTag, DelTag
    <3>2. CASE k = n
      BY <1>1, <3>1, <3>2, SteadyTags
    <3>3. CASE k # n
      BY <1>2, <3>1, <3>3
    <3> QED BY <3>2, <3>3
  <2> QED BY <1>5, <2>1, <2>2, <2>3, <2>4, <2>5, <2>6 DEF Keep
<1>6. ASSUME NEW n \in Name, Lose(n) PROVE Steady(channels[k], channels'[k])
  <2>1. CASE drop_channel(n)
    BY <1>2, <2>1 DEF drop_channel, Del
  <2>2. ASSUME NEW m, n \in DOMAIN channels, fork(n, m) \/ rename_channel(n, m)
        PROVE  Steady(channels[k], channels'[k])
    <3>1. k # m
      BY <2>2 DEF Replaces
    <3>2. channels'[k] = channels[k]
      BY <2>2, <3>1 DEF fork, rename_channel, Put, Del
    <3> QED BY <1>2, <3>2
  <2> QED BY <1>6, <2>1, <2>2 DEF Lose
<1> QED BY <1>3, <1>4, <1>5, <1>6 DEF Next

(* A change keeps its position in the log for as long as it is there, and  *)
(* no position is used twice (put_changes, del_changes).                   *)
THEOREM PositionsStayStable == Spec => PositionsStable
<1> DEFINE A == \A n \in DOMAIN channels \cap DOMAIN channels' :
                  Replaces(n) \/ Steady(channels[n], channels'[n])
<1>1. IInv /\ [Next]_vars => [A]_vars
  BY SteadyStep
<1>2. Spec => Init /\ [][Next]_vars
  BY DEF Spec
<1>3. Spec => [][A]_vars
  BY <1>1, <1>2, Inductive, PTL
<1> QED BY <1>3 DEF PositionsStable, Steady

-----------------------------------------------------------------------------
(* Tags: wherever tags and tagged changes go, a tag holds the state        *)
(* that remotes compare.                                                   *)

(* The tags of a channel are consistent with those before them. *)
Replayed(tags, u) == tags[u].b = TagBag(tags, UpTo(tags, u))
TagsOK(ch) ==
  /\ DOMAIN ch.tags \subseteq DOMAIN ch.revchanges
  /\ \A t \in DOMAIN ch.tags : Replayed(ch.tags, t)

-----------------------------------------------------------------------------
(* Bags of states *)

(* Only the states tagged, not the bags next to them, make up a bag. *)
LEMMA TagBagFrame ==
  ASSUME NEW tags, NEW new, NEW S, \A v \in S : new[v].a = tags[v].a
  PROVE  TagBag(new, S) = TagBag(tags, S)
<1>1. {new[v].a : v \in S} = {tags[v].a : v \in S}
  OBVIOUS
<1>2. \A m : {v \in S : new[v].a = m} = {v \in S : tags[v].a = m}
  OBVIOUS
<1> QED BY <1>1, <1>2 DEF TagBag

LEMMA TagBagEmpty == ASSUME NEW tags PROVE TagBag(tags, {}) = EmptyBag
BY DEF TagBag, EmptyBag, SetToBag

(* The bag of two sets of positions is the sum of their bags. *)
LEMMA TagBagUnion ==
  ASSUME NEW tags, NEW S, IsFiniteSet(S), NEW T, IsFiniteSet(T), S \cap T = {}
  PROVE  TagBag(tags, S) (+) TagBag(tags, T) = TagBag(tags, S \cup T)
<1> DEFINE at(m, X) == {v \in X : tags[v].a = m}
           states(X) == {tags[v].a : v \in X}
           bag(X) == [m \in states(X) |-> Cardinality(at(m, X))]
<1>1. \A X : TagBag(tags, X) = bag(X)
  BY DEF TagBag
<1>2. states(S \cup T) = states(S) \cup states(T)
  OBVIOUS
<1>3. ASSUME NEW m, NEW X, IsFiniteSet(X)
      PROVE  /\ IsFiniteSet(at(m, X)) /\ Cardinality(at(m, X)) \in Nat
             /\ m \notin states(X) => Cardinality(at(m, X)) = 0
  <2>1. IsFiniteSet(at(m, X))
    BY <1>3, FS_Subset
  <2>2. Cardinality(at(m, X)) \in Nat
    BY <2>1, FS_CardinalityType
  <2>3. m \notin states(X) => at(m, X) = {}
    OBVIOUS
  <2> QED BY <2>1, <2>2, <2>3, FS_EmptySet
<1>4. ASSUME NEW m
      PROVE  Cardinality(at(m, S \cup T)) = Cardinality(at(m, S)) + Cardinality(at(m, T))
  <2>1. at(m, S \cup T) = at(m, S) \cup at(m, T) /\ at(m, S) \cap at(m, T) = {}
    OBVIOUS
  <2>2. /\ IsFiniteSet(at(m, S)) /\ Cardinality(at(m, S)) \in Nat
        /\ IsFiniteSet(at(m, T)) /\ Cardinality(at(m, T)) \in Nat
    BY <1>3
  <2> HIDE DEF at
  <2>3. Cardinality(at(m, S) \cup at(m, T))
          = Cardinality(at(m, S)) + Cardinality(at(m, T)) - Cardinality(at(m, S) \cap at(m, T))
    BY <2>2, FS_Union
  <2>4. Cardinality(at(m, S) \cap at(m, T)) = 0
    BY <2>1, FS_EmptySet
  <2>5. Cardinality(at(m, S \cup T)) = Cardinality(at(m, S) \cup at(m, T))
    BY <2>1
  <2> DEFINE x == Cardinality(at(m, S))
             y == Cardinality(at(m, T))
  <2>6. x \in Nat /\ y \in Nat /\ Cardinality(at(m, S \cup T)) = x + y - 0
    BY <2>2, <2>3, <2>4, <2>5
  <2> HIDE DEF x, y
  <2>7. Cardinality(at(m, S \cup T)) = x + y
    BY <2>6
  <2> QED BY <2>7 DEF x, y
<1>5. bag(S) (+) bag(T)
        = [m \in states(S) \cup states(T) |->
             (IF m \in states(S) THEN Cardinality(at(m, S)) ELSE 0)
             + (IF m \in states(T) THEN Cardinality(at(m, T)) ELSE 0)]
  <2> HIDE DEF states, at
  <2> QED BY DEF (+)
<1>6. \A m : (IF m \in states(S) THEN Cardinality(at(m, S)) ELSE 0)
             + (IF m \in states(T) THEN Cardinality(at(m, T)) ELSE 0)
             = Cardinality(at(m, S \cup T))
  <2>1. \A m : /\ (IF m \in states(S) THEN Cardinality(at(m, S)) ELSE 0) = Cardinality(at(m, S))
               /\ (IF m \in states(T) THEN Cardinality(at(m, T)) ELSE 0) = Cardinality(at(m, T))
    BY <1>3
  <2> HIDE DEF states, at
  <2> QED BY <1>4, <2>1
<1> HIDE DEF states, at
<1> QED BY <1>1, <1>2, <1>5, <1>6

-----------------------------------------------------------------------------
(* What the operations on tags compute *)

(* Recomputing from a position on, when the tags before it are right, makes *)
(* all of them right, and tags the same states.                            *)
LEMMA ReplayIsRight ==
  ASSUME NEW c \in Nat, NEW tags, DOMAIN tags \subseteq 0 .. c, NEW t \in Nat,
         \A u \in DOMAIN tags : u < t => Replayed(tags, u)
  PROVE  LET new == replay_tags(tags, t) IN
         /\ DOMAIN new = DOMAIN tags
         /\ \A u \in DOMAIN new : new[u].a = tags[u].a /\ Replayed(new, u)
<1> DEFINE new == replay_tags(tags, t)
           D == DOMAIN tags
           before == Below(tags, t)
           base == IF before = {} THEN EmptyBag ELSE tags[LastOf(before)].b
           between(u) == {v \in D : t =< v /\ v =< u}
<1>1. /\ DOMAIN new = D
      /\ \A u \in D : u < t => new[u] = tags[u]
      /\ \A u \in D : ~ (u < t) => /\ new[u].a = tags[u].a
                                   /\ new[u].b = base (+) TagBag(tags, between(u))
  BY DEF replay_tags
<1>2. \A u \in D : new[u].a = tags[u].a
  BY <1>1
<1>3. base = TagBag(tags, before)
  <2>1. CASE before = {}
    BY <2>1, TagBagEmpty
  <2>2. CASE before # {}
    <3>1. before \subseteq 0 .. c
      BY DEF Below
    <3> DEFINE l == LastOf(before)
    <3>2. l \in before /\ \A v \in before : v =< l
      BY <2>2, <3>1, LastOfSet
    <3>3. l \in D /\ l < t
      BY <3>2 DEF Below
    <3>4. UpTo(tags, l) = before
      <4>1. \A v \in D : v =< l => v < t
        BY <3>3
      <4>2. \A v \in D : v < t => v =< l
        BY <3>2 DEF Below
      <4> HIDE DEF l
      <4> QED BY <4>1, <4>2 DEF UpTo, Below
    <3> QED BY <2>2, <3>3, <3>4 DEF Replayed
  <2> QED BY <2>1, <2>2
<1>4. IsFiniteSet(D) /\ IsFiniteSet(before) /\ \A u : IsFiniteSet(between(u))
  <2>1. IsFiniteSet(D)
    <3>1. IsFiniteSet(0 .. c)
      BY FS_Interval
    <3> QED BY <3>1, FS_Subset
  <2>2. before \subseteq D /\ \A u : between(u) \subseteq D
    BY DEF Below
  <2> HIDE DEF between, before
  <2> QED BY <2>1, <2>2, FS_Subset
<1> HIDE DEF new
<1>5. ASSUME NEW u \in D PROVE new[u].b = TagBag(tags, UpTo(tags, u))
  <2>1. CASE u < t
    BY <1>1, <2>1 DEF Replayed
  <2>2. CASE ~ (u < t)
    <3>1. before \cap between(u) = {}
      BY DEF Below
    <3>2. before \cup between(u) = UpTo(tags, u)
      BY <2>2 DEF Below, UpTo
    <3>3. new[u].b = TagBag(tags, before) (+) TagBag(tags, between(u))
      BY <1>1, <1>3, <2>2
    <3>4. IsFiniteSet(before) /\ IsFiniteSet(between(u))
      BY <1>4
    <3> HIDE DEF before, between
    <3> QED BY <3>1, <3>2, <3>3, <3>4, TagBagUnion
  <2> QED BY <2>1, <2>2
<1>6. ASSUME NEW u \in D PROVE TagBag(new, UpTo(new, u)) = TagBag(tags, UpTo(tags, u))
  <2>1. UpTo(new, u) = UpTo(tags, u) /\ UpTo(tags, u) \subseteq D
    BY <1>1 DEF UpTo
  <2> QED BY <1>2, <2>1, TagBagFrame
<1> QED BY <1>1, <1>2, <1>5, <1>6 DEF Replayed, new

(* A table that has the same tags before a position as one that is right.  *)
LEMMA ReplayedBefore ==
  ASSUME NEW tags, NEW new, NEW t \in Nat, DOMAIN tags \subseteq Nat, DOMAIN new \subseteq Nat,
         \A u \in Nat : u < t => (u \in DOMAIN new <=> u \in DOMAIN tags),
         \A u \in DOMAIN tags : u < t => new[u] = tags[u] /\ Replayed(tags, u)
  PROVE  \A u \in DOMAIN new : u < t => Replayed(new, u)
<1> SUFFICES ASSUME NEW u \in DOMAIN new, u < t PROVE Replayed(new, u)
  OBVIOUS
<1>1. UpTo(new, u) = UpTo(tags, u)
  BY DEF UpTo
<1>2. \A v \in UpTo(tags, u) : new[v].a = tags[v].a
  BY DEF UpTo
<1>3. TagBag(new, UpTo(new, u)) = TagBag(tags, UpTo(tags, u))
  BY <1>1, <1>2, TagBagFrame
<1> QED BY <1>3 DEF Replayed

LEMMA PutTagsRight ==
  ASSUME NEW c \in Nat, NEW tags, DOMAIN tags \subseteq 0 .. c,
         \A u \in DOMAIN tags : Replayed(tags, u),
         NEW t \in 0 .. c, NEW m
  PROVE  LET new == put_tags(tags, t, m) IN
         /\ DOMAIN new \subseteq DOMAIN tags \cup {t}
         /\ \A u \in DOMAIN new : Replayed(new, u)
         /\ \A u \in DOMAIN new : u \in DOMAIN tags => new[u].a = tags[u].a
         /\ \A u \in DOMAIN new : u \notin DOMAIN tags =>
              new[u].a = m /\ \A v \in DOMAIN tags : v < u
<1>1. CASE \E u \in DOMAIN tags : t =< u
  <2>1. put_tags(tags, t, m) = tags
    BY <1>1 DEF put_tags
  <2> QED BY <1>1, <2>1
<1>2. CASE ~ \E u \in DOMAIN tags : t =< u
  <2>0. t \notin DOMAIN tags /\ \A v \in DOMAIN tags : v < t
    BY <1>2
  <2> DEFINE more == Put(tags, t, [a |-> m, b |-> EmptyBag])
  <2>1. put_tags(tags, t, m) = replay_tags(more, t)
    BY <1>2 DEF put_tags
  <2>2. /\ DOMAIN more = DOMAIN tags \cup {t}
        /\ \A u \in DOMAIN tags : more[u] = tags[u]
        /\ more[t].a = m
    BY <2>0 DEF Put
  <2> HIDE DEF more
  <2>3. \A u \in DOMAIN more : u < t => Replayed(more, u)
    <3>1. \A u \in Nat : u < t => (u \in DOMAIN more <=> u \in DOMAIN tags)
      BY <2>2
    <3>2. t \in Nat /\ DOMAIN tags \subseteq Nat /\ DOMAIN more \subseteq Nat
      BY <2>2
    <3> QED BY <2>2, <3>1, <3>2, ReplayedBefore
  <2>4. t \in Nat /\ DOMAIN more \subseteq 0 .. c
    BY <2>2
  <2>5. LET new == replay_tags(more, t) IN
        /\ DOMAIN new = DOMAIN more
        /\ \A u \in DOMAIN new : new[u].a = more[u].a /\ Replayed(new, u)
    BY <2>3, <2>4, ReplayIsRight
  <2> QED BY <2>0, <2>1, <2>2, <2>5
<1> QED BY <1>1, <1>2

(* Only the tags before the position need to be right beforehand. *)
LEMMA DelTagsRight ==
  ASSUME NEW c \in Nat, NEW tags, DOMAIN tags \subseteq 0 .. c, NEW t \in Nat,
         \A u \in DOMAIN tags : u < t => Replayed(tags, u)
  PROVE  LET new == del_tags(tags, t) IN
         /\ DOMAIN new = DOMAIN tags \ {t}
         /\ \A u \in DOMAIN new : Replayed(new, u) /\ new[u].a = tags[u].a
<1> DEFINE less == Del(tags, t)
<1>1. del_tags(tags, t) = replay_tags(less, t)
  BY DEF del_tags
<1>2. /\ DOMAIN less = DOMAIN tags \ {t}
      /\ \A u \in DOMAIN less : less[u] = tags[u]
  BY DEF Del
<1> HIDE DEF less
<1>3. \A u \in DOMAIN less : u < t => Replayed(less, u)
  <2>1. \A u \in Nat : u < t => (u \in DOMAIN less <=> u \in DOMAIN tags)
    BY <1>2
  <2>2. DOMAIN tags \subseteq Nat /\ DOMAIN less \subseteq Nat
    BY <1>2
  <2>3. \A u \in DOMAIN tags : u < t => less[u] = tags[u] /\ Replayed(tags, u)
    BY <1>2
  <2> QED BY <2>1, <2>2, <2>3, ReplayedBefore
<1>4. DOMAIN less \subseteq 0 .. c
  BY <1>2
<1>5. LET new == replay_tags(less, t) IN
      /\ DOMAIN new = DOMAIN less
      /\ \A u \in DOMAIN new : new[u].a = less[u].a /\ Replayed(new, u)
  BY <1>3, <1>4, ReplayIsRight
<1> QED BY <1>1, <1>2, <1>5

-----------------------------------------------------------------------------
(* Channels *)

(* Tags that stay are of the same states, and a new one is of state m and  *)
(* above all the others.                                                   *)
TagsMoved(tags, new, m) ==
  /\ \A u \in DOMAIN new : u \in DOMAIN tags => new[u].a = tags[u].a
  /\ \A u \in DOMAIN new : u \notin DOMAIN tags =>
       new[u].a = m /\ \A v \in DOMAIN tags : v < u

LEMMA EmptyTags == TagsOK(EmptyChannel)
BY DEF TagsOK, EmptyChannel, EmptyDb

(* The positions of a channel are below its counter. *)
LEMMA PositionsBounded ==
  ASSUME NEW ch, NEW ext, ChannelOK(ch, ext)
  PROVE  /\ ch.apply_counter \in Nat
         /\ DOMAIN ch.revchanges \subseteq 0 .. ch.apply_counter
BY DEF ChannelOK, Channel, LogAgrees

(* Appending a change leaves the tags where they are. *)
LEMMA TagsPut ==
  ASSUME NEW ch, TagsOK(ch), NEW p, NEW h
  PROVE  TagsOK(put_changes(ch, p, h)) /\ put_changes(ch, p, h).tags = ch.tags
<1>1. /\ put_changes(ch, p, h).tags = ch.tags
      /\ DOMAIN ch.revchanges \subseteq DOMAIN put_changes(ch, p, h).revchanges
  BY DEF put_changes, Put
<1> QED BY <1>1 DEF TagsOK

(* Removing a change takes its tag away and recomputes the later ones. *)
LEMMA TagsDel ==
  ASSUME NEW ch, NEW ext, ChannelOK(ch, ext), TagsOK(ch), NEW p \in DOMAIN ch.changes
  PROVE  LET new == del_channel_changes(ch, ext, p) IN
         /\ TagsOK(new)
         /\ DOMAIN new.tags \subseteq DOMAIN ch.tags
         /\ \A u \in DOMAIN new.tags : new.tags[u].a = ch.tags[u].a
<1> DEFINE t == ch.changes[p]
           cut == del_changes(ch, ext, p, t)
           less == Del(ch.tags, t)
           tags == del_tags(less, t)
           new == del_channel_changes(ch, ext, p)
<1>1. t \in DOMAIN ch.revchanges /\ t \in Nat
  BY DEF ChannelOK, Channel, LogAgrees
<1>2. cut.tags = less /\ DOMAIN cut.revchanges = DOMAIN ch.revchanges \ {t}
  BY DEF del_changes
<1>3. new.tags = tags /\ new.revchanges = cut.revchanges
  <2>1. new = [cut EXCEPT !.tags = del_tags(@, t)]
    BY DEF del_channel_changes
  <2>2. DOMAIN cut = {"changes", "revchanges", "states", "tags", "apply_counter"}
    BY DEF del_changes
  <2> HIDE DEF cut, new
  <2> QED BY <1>2, <2>1, <2>2
<1>4. /\ DOMAIN less = DOMAIN ch.tags \ {t}
      /\ \A u \in DOMAIN less : less[u] = ch.tags[u]
  BY DEF Del
<1> HIDE DEF t, cut, less, new
<1>5. DOMAIN ch.tags \subseteq 0 .. ch.apply_counter /\ ch.apply_counter \in Nat
  BY PositionsBounded DEF TagsOK
<1>6. \A u \in DOMAIN less : u < t => Replayed(less, u)
  <2>1. \A u \in Nat : u < t => (u \in DOMAIN less <=> u \in DOMAIN ch.tags)
    BY <1>1, <1>4
  <2>2. DOMAIN ch.tags \subseteq Nat /\ DOMAIN less \subseteq Nat
    BY <1>4, <1>5
  <2>3. \A u \in DOMAIN ch.tags : u < t => less[u] = ch.tags[u] /\ Replayed(ch.tags, u)
    BY <1>1, <1>4, <2>2 DEF TagsOK
  <2> QED BY <1>1, <2>1, <2>2, <2>3, ReplayedBefore
<1>7. DOMAIN less \subseteq 0 .. ch.apply_counter
  BY <1>4, <1>5
<1>8. /\ DOMAIN tags = DOMAIN less \ {t}
      /\ \A u \in DOMAIN tags : Replayed(tags, u) /\ tags[u].a = less[u].a
  BY <1>1, <1>5, <1>6, <1>7, DelTagsRight
<1> QED BY <1>2, <1>3, <1>4, <1>8 DEF TagsOK, new

(* Tagging a state of the channel, and removing the tag. *)
LEMMA TagsSet ==
  ASSUME NEW ch, NEW ext, ChannelOK(ch, ext), TagsOK(ch),
         NEW t \in DOMAIN ch.revchanges, NEW m,
         NEW tags, tags = put_tags(ch.tags, t, m) \/ tags = del_tags(ch.tags, t)
  PROVE  /\ TagsOK([ch EXCEPT !.tags = tags])
         /\ TagsMoved(ch.tags, tags, m)
<1>1. /\ ch.apply_counter \in Nat /\ DOMAIN ch.revchanges \subseteq 0 .. ch.apply_counter
      /\ DOMAIN ch.tags \subseteq 0 .. ch.apply_counter
      /\ t \in 0 .. ch.apply_counter /\ t \in Nat
  BY PositionsBounded DEF TagsOK
<1>0. \A u \in DOMAIN ch.tags : Replayed(ch.tags, u)
  BY DEF TagsOK
<1>2. CASE tags = put_tags(ch.tags, t, m)
  <2>1. /\ DOMAIN tags \subseteq DOMAIN ch.tags \cup {t}
        /\ \A u \in DOMAIN tags : Replayed(tags, u)
        /\ TagsMoved(ch.tags, tags, m)
    <3>1. LET new == put_tags(ch.tags, t, m) IN
          /\ DOMAIN new \subseteq DOMAIN ch.tags \cup {t}
          /\ \A u \in DOMAIN new : Replayed(new, u)
          /\ \A u \in DOMAIN new : u \in DOMAIN ch.tags => new[u].a = ch.tags[u].a
          /\ \A u \in DOMAIN new : u \notin DOMAIN ch.tags =>
               new[u].a = m /\ \A v \in DOMAIN ch.tags : v < u
      BY <1>0, <1>1, PutTagsRight, Zenon
    <3> QED BY <1>2, <3>1 DEF TagsMoved
  <2>2. "tags" \in DOMAIN ch
    BY DEF ChannelOK, Channel
  <2> QED BY <2>1, <2>2 DEF TagsOK
<1>3. CASE tags = del_tags(ch.tags, t)
  <2>1. /\ DOMAIN tags = DOMAIN ch.tags \ {t}
        /\ \A u \in DOMAIN tags : Replayed(tags, u) /\ tags[u].a = ch.tags[u].a
    <3>1. /\ DOMAIN del_tags(ch.tags, t) = DOMAIN ch.tags \ {t}
          /\ \A u \in DOMAIN del_tags(ch.tags, t) :
               /\ Replayed(del_tags(ch.tags, t), u)
               /\ del_tags(ch.tags, t)[u].a = ch.tags[u].a
      BY <1>0, <1>1, DelTagsRight
    <3> QED BY <1>3, <3>1
  <2>2. "tags" \in DOMAIN ch
    BY DEF ChannelOK, Channel
  <2> QED BY <2>1, <2>2 DEF TagsOK, TagsMoved
<1> QED BY <1>2, <1>3

-----------------------------------------------------------------------------
(* The theorem *)

TagsReplayedIs == \A n \in DOMAIN channels : TagsOK(channels[n])

LEMMA SameProperty == TagsReplayed <=> TagsReplayedIs
BY DEF TagsReplayed, TagsReplayedIs, TagsOK, Replayed

LEMMA TagsStay ==
  ASSUME IInv, TagsReplayedIs, [Next]_vars
  PROVE  TagsReplayedIs'
<1>1. \A k \in DOMAIN channels : TagsOK(channels[k]) /\ ChannelOK(channels[k], external)
  BY DEF TagsReplayedIs, IInv, ChannelsOK
<1>2. ASSUME channels' = channels PROVE TagsReplayedIs'
  BY <1>1, <1>2 DEF TagsReplayedIs
<1>3. ASSUME NEW n \in DOMAIN channels, NEW new, TagsOK(new),
             channels' = [channels EXCEPT ![n] = new]
      PROVE  TagsReplayedIs'
  BY <1>1, <1>3 DEF TagsReplayedIs
<1>4. ASSUME NEW n, NEW h, n \in DOMAIN channels, ApplyToChannel(n, h) PROVE TagsReplayedIs'
  BY <1>1, <1>3, <1>4, TagsPut DEF ApplyToChannel
<1>5. CASE Loop
  <2>1. CASE RecVisit
    BY <1>2, <2>1 DEF RecVisit
  <2>2. CASE RecApply
    <3>1. rec.channel \in DOMAIN channels
      BY <2>2, TopType DEF RecApply, IInv
    <3> QED BY <1>2, <1>4, <2>2, <3>1 DEF RecApply
  <2> QED BY <1>5, <2>1, <2>2 DEF Loop
<1>6. CASE commit \/ UNCHANGED vars
  BY <1>2, <1>6 DEF commit, vars
<1>7. ASSUME NEW n \in DOMAIN channels, NEW m, fork(n, m) \/ rename_channel(n, m)
      PROVE  TagsReplayedIs'
  BY <1>1, <1>7 DEF fork, rename_channel, Put, Del, TagsReplayedIs
<1>8. ASSUME NEW n \in Name, Keep(n) PROVE TagsReplayedIs'
  <2>1. CASE open_or_create_channel(n)
    BY <1>1, <2>1, EmptyTags DEF open_or_create_channel, Put, TagsReplayedIs
  <2>2. ASSUME NEW h \in Hash, n \in DOMAIN channels, apply_change(n, h) \/ apply_local_change(n, h)
        PROVE  TagsReplayedIs'
    BY <1>4, <2>2 DEF apply_change, apply_local_change
  <2>3. ASSUME NEW h \in Hash, NEW deps_only \in BOOLEAN, apply_change_rec(n, h, deps_only)
        PROVE  TagsReplayedIs'
    BY <1>2, <2>3 DEF apply_change_rec
  <2>4. ASSUME NEW h \in Hash, n \in DOMAIN channels, unrecord(n, h)
        PROVE  TagsReplayedIs'
    <3> DEFINE new == del_channel_changes(channels[n], external, internal[h])
    <3>1. /\ internal[h] \in DOMAIN channels[n].changes
          /\ channels' = [channels EXCEPT ![n] = new]
      BY <2>4 DEF unrecord, OnChannel
    <3>2. TagsOK(new)
      BY <1>1, <2>4, <3>1, TagsDel
    <3> HIDE DEF new
    <3> QED BY <1>3, <2>4, <3>1, <3>2
  <2>5. ASSUME NEW m, n \in DOMAIN channels, PutTag(n, m) \/ DelTag(n, m)
        PROVE  TagsReplayedIs'
    <3> DEFINE t == channels[n].states[m]
    <3>1. t \in DOMAIN channels[n].revchanges
      BY <1>1, <2>5 DEF PutTag, DelTag, ChannelOK, LogAgrees
    <3>2. PICK tags : /\ tags = put_tags(channels[n].tags, t, m) \/ tags = del_tags(channels[n].tags, t)
                      /\ channels' = [channels EXCEPT ![n] = [@ EXCEPT !.tags = tags]]
      BY <2>5 DEF PutTag, DelTag
    <3> HIDE DEF t
    <3>3. TagsOK([channels[n] EXCEPT !.tags = tags])
      BY <1>1, <2>5, <3>1, <3>2, TagsSet
    <3> QED BY <1>3, <2>5, <3>2, <3>3
  <2> QED BY <1>7, <1>8, <2>1, <2>2, <2>3, <2>4, <2>5 DEF Keep
<1>9. ASSUME NEW n \in Name, Lose(n) PROVE TagsReplayedIs'
  <2>1. CASE drop_channel(n)
    BY <1>1, <2>1 DEF drop_channel, Del, TagsReplayedIs
  <2> QED BY <1>7, <1>9, <2>1 DEF Lose
<1> QED BY <1>5, <1>6, <1>8, <1>9 DEF Next

(* Every tag sits on a change of the log of its channel, and its bag holds *)
(* the states tagged up to it, whatever was unrecorded or untagged before  *)
(* it since (del_channel_changes and del_tags); put_tags only puts a tag    *)
(* above all others, and does nothing below one.                           *)
THEOREM TagsStayReplayed == Spec => []TagsReplayed
<1>1. Init => TagsReplayedIs
  BY DEF Init, EmptyDb, TagsReplayedIs
<1>2. IInv /\ TagsReplayedIs /\ [Next]_vars => TagsReplayedIs'
  BY TagsStay
<1>3. Spec => Init /\ [][Next]_vars
  BY DEF Spec
<1>4. Spec => []TagsReplayedIs
  BY <1>1, <1>2, <1>3, Inductive, PTL
<1> QED BY <1>4, SameProperty, PTL
=============================================================================
