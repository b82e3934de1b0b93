---------------------------- MODULE RemoteProofs ----------------------------
(* Theorems about a repository and its remote: what is remembered of the   *)
(* remote stays comparable to it, so that what the comparison skips is the *)
(* same on both sides, and a push lists exactly what the remote lacks; a   *)
(* pull or a clone that ends well got all that was wanted, and the tasks   *)
(* of its download do not all wait for one another.                        *)
EXTENDS Remotes, RemoteCacheProofs

-----------------------------------------------------------------------------
(* Channels *)

Shaped(ch) == ch = [log |-> ch.log, tags |-> ch.tags, next |-> ch.next]
LogGood(ch) == Shaped(ch) /\ LogOK(ch)

(* A change is after those it depends on.                                  *)
Ordered(ch) ==
  \A n \in DOMAIN ch.log : \A x \in DependsOn(ch.log[n]) :
    \E k \in DOMAIN ch.log : k < n /\ ch.log[k] = x

(* A sequence, whatever is in it. *)
Listing(s) == Len(s) \in Nat /\ DOMAIN s = 1 .. Len(s)

LEMMA ExtendedIs ==
  ASSUME NEW ch, LogGood(ch), NEW hs, Listing(hs), NEW new, new = Extended(ch, hs)
  PROVE  /\ Shaped(new) /\ Positions(new.log, new.next)
         /\ new.tags = ch.tags /\ new.next = ch.next + Len(hs)
         /\ \A n \in DOMAIN ch.log : n \in DOMAIN new.log /\ new.log[n] = ch.log[n]
         /\ \A i \in DOMAIN hs :
              /\ ch.next + i - 1 \in DOMAIN new.log
              /\ new.log[ch.next + i - 1] = hs[i]
         /\ \A n \in DOMAIN new.log : n \notin DOMAIN ch.log =>
              n >= ch.next /\ \E i \in DOMAIN hs : n = ch.next + i - 1
         /\ On(new) = On(ch) \cup {hs[i] : i \in DOMAIN hs}
<1> DEFINE added == ch.next .. ch.next + Len(hs) - 1
<1>1. /\ ch.next \in Nat /\ Len(hs) \in Nat /\ DOMAIN hs = 1 .. Len(hs)
      /\ \A n \in DOMAIN ch.log : n \in Nat /\ n < ch.next
  BY PositionsAre DEF LogGood, LogOK, Positions, Listing
<1>2. /\ new.log = [n \in DOMAIN ch.log \cup added |->
                      IF n \in DOMAIN ch.log THEN ch.log[n] ELSE hs[n - ch.next + 1]]
      /\ new.tags = ch.tags /\ new.next = ch.next + Len(hs)
      /\ Shaped(new)
  BY DEF Extended, LogGood, Shaped
<1>3. DOMAIN new.log = DOMAIN ch.log \cup added
  BY <1>2
<1>4. \A n \in DOMAIN new.log : n \in 0 .. new.next - 1
  BY <1>1, <1>2, <1>3
<1>5. \A n \in DOMAIN ch.log : n \in DOMAIN new.log /\ new.log[n] = ch.log[n]
  BY <1>2
<1>6. ASSUME NEW i \in DOMAIN hs
      PROVE  ch.next + i - 1 \in DOMAIN new.log /\ new.log[ch.next + i - 1] = hs[i]
  <2>1. i \in Nat /\ i >= 1 /\ i =< Len(hs)
    BY <1>1
  <2> DEFINE m == ch.next + i - 1
  <2>2. m \in added /\ m \notin DOMAIN ch.log /\ m - ch.next + 1 = i
    BY <1>1, <2>1
  <2> HIDE DEF added
  <2>3. \A n \in added : n \notin DOMAIN ch.log => n \in DOMAIN new.log /\ new.log[n] = hs[n - ch.next + 1]
    BY <1>2
  <2>4. m \in DOMAIN new.log /\ new.log[m] = hs[i]
    <3> HIDE DEF m
    <3> QED BY <2>2, <2>3
  <2> QED BY <2>4
<1>7. ASSUME NEW n \in DOMAIN new.log, n \notin DOMAIN ch.log
      PROVE  n >= ch.next /\ \E i \in DOMAIN hs : n = ch.next + i - 1
  <2>1. n \in added
    BY <1>3, <1>7
  <2>2. n \in Int /\ n >= ch.next /\ n =< ch.next + Len(hs) - 1
    BY <1>1, <2>1
  <2>3. n - ch.next + 1 \in DOMAIN hs /\ n = ch.next + (n - ch.next + 1) - 1
    BY <1>1, <2>2
  <2> QED BY <2>2, <2>3
<1>8. On(new) = On(ch) \cup {hs[i] : i \in DOMAIN hs}
  <2>1. ASSUME NEW n \in DOMAIN new.log PROVE new.log[n] \in On(ch) \cup {hs[i] : i \in DOMAIN hs}
    BY <1>5, <1>6, <1>7 DEF On
  <2>2. \A n \in DOMAIN ch.log : ch.log[n] \in On(new)
    BY <1>5 DEF On
  <2>3. \A i \in DOMAIN hs : hs[i] \in On(new)
    BY <1>6 DEF On
  <2> QED BY <2>1, <2>2, <2>3 DEF On
<1>9. Positions(new.log, new.next)
  BY <1>1, <1>2, <1>4 DEF Positions
<1> HIDE DEF added
<1> QED BY <1>2, <1>5, <1>6, <1>7, <1>8, <1>9

(* Changes that a channel lacks are put on it once each. *)
LEMMA ExtendedGood ==
  ASSUME NEW ch, LogGood(ch), NEW hs, Listing(hs),
         \A i \in DOMAIN hs : hs[i] \notin On(ch),
         \A i \in DOMAIN hs, j \in DOMAIN hs : hs[i] = hs[j] => i = j
  PROVE  LogGood(Extended(ch, hs))
<1> DEFINE new == Extended(ch, hs)
<1>1. /\ Shaped(new) /\ Positions(new.log, new.next)
      /\ \A n \in DOMAIN ch.log : n \in DOMAIN new.log /\ new.log[n] = ch.log[n]
      /\ \A i \in DOMAIN hs : new.log[ch.next + i - 1] = hs[i]
      /\ \A n \in DOMAIN new.log : n \notin DOMAIN ch.log =>
           \E i \in DOMAIN hs : n = ch.next + i - 1
  BY ExtendedIs
<1> HIDE DEF new
<1>2. ASSUME NEW n \in DOMAIN new.log, NEW m \in DOMAIN new.log, new.log[n] = new.log[m]
      PROVE  n = m
  <2>1. \A k \in DOMAIN new.log :
          \/ k \in DOMAIN ch.log /\ new.log[k] = ch.log[k]
          \/ \E i \in DOMAIN hs : k = ch.next + i - 1 /\ new.log[k] = hs[i]
    BY <1>1
  <2>2. CASE n \in DOMAIN ch.log /\ new.log[n] = ch.log[n]
    <3>1. new.log[m] \in On(ch)
      BY <1>2, <2>2 DEF On
    <3>2. m \in DOMAIN ch.log /\ new.log[m] = ch.log[m]
      BY <2>1, <3>1
    <3> QED BY <1>2, <2>2, <3>2 DEF LogGood, LogOK
  <2>3. CASE \E i \in DOMAIN hs : n = ch.next + i - 1 /\ new.log[n] = hs[i]
    <3>1. PICK i \in DOMAIN hs : n = ch.next + i - 1 /\ new.log[n] = hs[i]
      BY <2>3
    <3>2. ~ (m \in DOMAIN ch.log /\ new.log[m] = ch.log[m])
      BY <1>2, <3>1 DEF On
    <3>3. PICK j \in DOMAIN hs : m = ch.next + j - 1 /\ new.log[m] = hs[j]
      BY <2>1, <3>2
    <3>4. i = j
      BY <1>2, <3>1, <3>3
    <3> QED BY <3>1, <3>3, <3>4
  <2> QED BY <2>1, <2>2, <2>3
<1> QED BY <1>1, <1>2 DEF LogGood, LogOK, new

(* ... each after those it depends on. *)
LEMMA ExtendedOrdered ==
  ASSUME NEW ch, LogGood(ch), Ordered(ch), NEW hs, Listing(hs),
         \A i \in DOMAIN hs : \A x \in DependsOn(hs[i]) :
           x \in On(ch) \/ \E j \in DOMAIN hs : j < i /\ hs[j] = x
  PROVE  Ordered(Extended(ch, hs))
<1> DEFINE new == Extended(ch, hs)
<1>1. /\ \A n \in DOMAIN ch.log : n \in DOMAIN new.log /\ new.log[n] = ch.log[n]
      /\ \A i \in DOMAIN hs : ch.next + i - 1 \in DOMAIN new.log /\ new.log[ch.next + i - 1] = hs[i]
      /\ \A n \in DOMAIN new.log : n \notin DOMAIN ch.log =>
           n >= ch.next /\ \E i \in DOMAIN hs : n = ch.next + i - 1
  BY ExtendedIs
<1>2. /\ ch.next \in Nat /\ DOMAIN hs = 1 .. Len(hs) /\ Len(hs) \in Nat
      /\ \A n \in DOMAIN ch.log : n \in Nat /\ n < ch.next
  BY PositionsAre DEF LogGood, LogOK, Positions, Listing
<1> HIDE DEF new
<1>3. ASSUME NEW n \in DOMAIN new.log, NEW x \in DependsOn(new.log[n])
      PROVE  \E k \in DOMAIN new.log : k < n /\ new.log[k] = x
  <2>1. CASE n \in DOMAIN ch.log
    <3>1. PICK k \in DOMAIN ch.log : k < n /\ ch.log[k] = x
      BY <1>1, <1>3, <2>1 DEF Ordered
    <3> QED BY <1>1, <3>1
  <2>2. CASE n \notin DOMAIN ch.log
    <3>1. PICK i \in DOMAIN hs : n = ch.next + i - 1
      BY <1>1, <2>2
    <3>2. new.log[n] = hs[i]
      BY <1>1, <3>1
    <3>3. x \in On(ch) \/ \E j \in DOMAIN hs : j < i /\ hs[j] = x
      BY <1>3, <3>2
    <3>4. CASE x \in On(ch)
      <4>1. PICK k \in DOMAIN ch.log : ch.log[k] = x
        BY <3>4 DEF On
      <4>2. k < n
        BY <1>1, <1>2, <2>2, <3>1
      <4> QED BY <1>1, <4>1, <4>2
    <3>5. CASE \E j \in DOMAIN hs : j < i /\ hs[j] = x
      <4>1. PICK j \in DOMAIN hs : j < i /\ hs[j] = x
        BY <3>5
      <4>2. ch.next + j - 1 < n
        BY <1>2, <3>1, <4>1
      <4>3. ch.next + j - 1 \in DOMAIN new.log /\ new.log[ch.next + j - 1] = x
        BY <1>1, <4>1
      <4> QED BY <4>2, <4>3
    <3> QED BY <3>3, <3>4, <3>5
  <2> QED BY <2>1, <2>2
<1> QED BY <1>3 DEF Ordered, new

LEMMA PutGood ==
  ASSUME NEW ch, LogGood(ch), NEW h, MayApply(ch, h)
  PROVE  LogGood(put_change(ch, h)) /\ (Ordered(ch) => Ordered(put_change(ch, h)))
<1> DEFINE hs == <<h>>
<1>1. Len(hs) = 1 /\ DOMAIN hs = 1 .. 1 /\ hs[1] = h
  OBVIOUS
<1>2. \A i \in DOMAIN hs : i = 1
  BY <1>1
<1> HIDE DEF hs
<1>3. Listing(hs)
  BY <1>1 DEF Listing
<1>4. /\ \A i \in DOMAIN hs : hs[i] \notin On(ch)
      /\ \A i \in DOMAIN hs, j \in DOMAIN hs : hs[i] = hs[j] => i = j
      /\ \A i \in DOMAIN hs : \A x \in DependsOn(hs[i]) : x \in On(ch)
  BY <1>1, <1>2 DEF MayApply
<1>5. put_change(ch, h) = Extended(ch, hs)
  BY DEF put_change, hs
<1>6. LogGood(Extended(ch, hs))
  BY <1>3, <1>4, ExtendedGood
<1>7. Ordered(ch) => Ordered(Extended(ch, hs))
  BY <1>3, <1>4, ExtendedOrdered
<1> QED BY <1>5, <1>6, <1>7

LEMMA UnrecordIs ==
  ASSUME NEW ch, LogGood(ch), NEW h, MayUnrecord(ch, h)
  PROVE  /\ LogGood(unrecord(ch, h)) /\ unrecord(ch, h).next = ch.next
         /\ \A n \in DOMAIN unrecord(ch, h).log :
              n \in DOMAIN ch.log /\ unrecord(ch, h).log[n] = ch.log[n]
         /\ Ordered(ch) => Ordered(unrecord(ch, h))
<1> DEFINE new == unrecord(ch, h)
           p == PositionOf(ch, h)
<1>1. /\ Shaped(new) /\ new.next = ch.next
      /\ new.log = [x \in DOMAIN ch.log \ {p} |-> ch.log[x]]
  <2>1. new = [ch EXCEPT !.log = Del(@, p), !.tags = Del(@, p)]
    BY DEF unrecord
  <2> HIDE DEF new, p
  <2>2. Shaped(new) /\ new.next = ch.next /\ new.log = Del(ch.log, p)
    BY <2>1 DEF LogGood, Shaped
  <2> QED BY <2>2 DEF Del
<1>2. \A n \in DOMAIN new.log : n \in DOMAIN ch.log /\ n # p /\ new.log[n] = ch.log[n]
  BY <1>1
<1>3. \A n \in DOMAIN ch.log : n # p => n \in DOMAIN new.log
  BY <1>1
<1>4. p \in DOMAIN ch.log /\ ch.log[p] = h
  BY DEF PositionOf, MayUnrecord, On
<1> HIDE DEF new, p
<1>5. LogGood(new)
  <2>1. Positions(new.log, new.next)
    BY <1>1, <1>2 DEF Positions, LogGood, LogOK
  <2> QED BY <1>1, <1>2, <2>1 DEF LogGood, LogOK
<1>6. ASSUME Ordered(ch) PROVE Ordered(new)
  <2> SUFFICES ASSUME NEW n \in DOMAIN new.log, NEW x \in DependsOn(new.log[n])
               PROVE  \E k \in DOMAIN new.log : k < n /\ new.log[k] = x
    BY DEF Ordered
  <2>1. n \in DOMAIN ch.log /\ x \in DependsOn(ch.log[n]) /\ ch.log[n] \in On(ch)
    BY <1>2 DEF On
  <2>2. PICK k \in DOMAIN ch.log : k < n /\ ch.log[k] = x
    BY <1>6, <2>1 DEF Ordered
  <2>3. x # h
    BY <2>1 DEF MayUnrecord
  <2> QED BY <1>2, <1>3, <1>4, <2>2, <2>3
<1> QED BY <1>1, <1>2, <1>5, <1>6 DEF new

LEMMA RenumberedGood ==
  ASSUME NEW ch, LogGood(ch), Ordered(ch)
  PROVE  LogGood(Renumbered(ch)) /\ Ordered(Renumbered(ch)) /\ On(Renumbered(ch)) \subseteq On(ch)
<1> DEFINE ks == Ascending(DOMAIN ch.log)
           m == Cardinality(DOMAIN ch.log)
           new == Renumbered(ch)
<1>1. DOMAIN ch.log \in SUBSET Nat /\ IsFiniteSet(DOMAIN ch.log) /\ \A k \in DOMAIN ch.log : k \in Nat
  BY PositionsAre DEF LogGood, LogOK
<1>2. /\ m \in Nat /\ ks \in [1 .. m -> DOMAIN ch.log]
      /\ \A i \in 1 .. m, j \in 1 .. m : i < j <=> ks[i] < ks[j]
      /\ \A x \in DOMAIN ch.log : \E i \in 1 .. m : ks[i] = x
  BY <1>1, AscendingIs
<1>3. Len(ks) = m
  <2>1. ks \in Seq(DOMAIN ch.log)
    <3> HIDE DEF ks, m
    <3> QED BY <1>2
  <2> QED BY <1>2, <2>1
<1>4. /\ Shaped(new) /\ new.next = m
      /\ new.log = [i \in 0 .. m - 1 |-> ch.log[ks[i + 1]]]
  BY <1>3 DEF Renumbered, Shaped
<1> HIDE DEF ks, m, new
<1>5. ASSUME NEW i \in DOMAIN new.log
      PROVE  i \in Nat /\ i + 1 \in 1 .. m /\ ks[i + 1] \in DOMAIN ch.log
             /\ new.log[i] = ch.log[ks[i + 1]]
  <2>1. i \in 0 .. m - 1 /\ new.log[i] = ch.log[ks[i + 1]]
    BY <1>4
  <2>2. i \in Nat /\ i + 1 \in 1 .. m
    BY <1>2, <2>1
  <2> QED BY <1>2, <2>1, <2>2
<1>6. ASSUME NEW x \in DOMAIN ch.log
      PROVE  \E i \in DOMAIN new.log : ks[i + 1] = x
  <2>1. PICK j \in 1 .. m : ks[j] = x
    BY <1>2
  <2>2. j - 1 \in 0 .. m - 1 /\ j - 1 + 1 = j
    BY <1>2
  <2> QED BY <1>4, <2>1, <2>2
<1>7. ASSUME NEW i \in DOMAIN new.log, NEW j \in DOMAIN new.log
      PROVE  i < j <=> ks[i + 1] < ks[j + 1]
  <2>1. i + 1 < j + 1 <=> ks[i + 1] < ks[j + 1]
    BY <1>2, <1>5
  <2>2. i \in Nat /\ j \in Nat
    BY <1>5
  <2> QED BY <2>1, <2>2
<1>8. ASSUME NEW i \in DOMAIN new.log, NEW j \in DOMAIN new.log, new.log[i] = new.log[j]
      PROVE  i = j
  <2>1. ks[i + 1] = ks[j + 1]
    BY <1>5, <1>8 DEF LogGood, LogOK
  <2>2. ~ (i < j) /\ ~ (j < i)
    <3>1. ks[i + 1] \in Nat
      BY <1>1, <1>5
    <3>2. (i < j <=> ks[i + 1] < ks[j + 1]) /\ (j < i <=> ks[j + 1] < ks[i + 1])
      BY <1>7
    <3> QED BY <2>1, <3>1, <3>2
  <2>3. i \in Nat /\ j \in Nat
    BY <1>5
  <2> QED BY <2>2, <2>3
<1>9. LogGood(new)
  <2>1. Positions(new.log, new.next)
    BY <1>2, <1>4 DEF Positions
  <2> QED BY <1>4, <1>8, <2>1 DEF LogGood, LogOK
<1>10. ASSUME NEW n \in DOMAIN new.log, NEW x \in DependsOn(new.log[n])
       PROVE  \E k \in DOMAIN new.log : k < n /\ new.log[k] = x
  <2>1. ks[n + 1] \in DOMAIN ch.log /\ x \in DependsOn(ch.log[ks[n + 1]])
    BY <1>5, <1>10
  <2>2. PICK z \in DOMAIN ch.log : z < ks[n + 1] /\ ch.log[z] = x
    BY <2>1 DEF Ordered
  <2>3. PICK k \in DOMAIN new.log : ks[k + 1] = z
    BY <1>6
  <2>4. k < n
    BY <1>7, <2>2, <2>3
  <2>5. new.log[k] = x
    BY <1>5, <2>2, <2>3
  <2> QED BY <2>4, <2>5
<1>11. On(new) \subseteq On(ch)
  BY <1>5 DEF On
<1> QED BY <1>9, <1>10, <1>11 DEF Ordered, new

LEMMA TagGood ==
  ASSUME NEW ch, LogGood(ch), NEW n
  PROVE  /\ LogGood(put_tag_here(ch, n))
         /\ put_tag_here(ch, n).log = ch.log /\ put_tag_here(ch, n).next = ch.next
         /\ Ordered(ch) => Ordered(put_tag_here(ch, n))
BY DEF put_tag_here, LogGood, Shaped, LogOK, Ordered

-----------------------------------------------------------------------------
(* What is remembered *)

(* What the remote may become under a cache: it loses changes, and gets    *)
(* changes after the positions it used.                                    *)
Later(ch, new) ==
  /\ new.next \in Nat /\ ch.next =< new.next
  /\ \A j \in DOMAIN new.log :
       (j \in DOMAIN ch.log /\ new.log[j] = ch.log[j]) \/ (j \in Nat /\ j >= ch.next)

LEMMA CacheStays ==
  ASSUME NEW c, NEW ch, NEW new, CacheOK(c, ch), Later(ch, new)
  PROVE  CacheOK(c, new)
<1>1. Positions(c.remote, ch.next) /\ ch.next \in Nat /\ \A k \in DOMAIN c.remote : k \in Nat /\ k < ch.next
  BY PositionsAre DEF CacheOK, Positions
<1>2. Positions(c.remote, new.next)
  <2>1. \A k \in DOMAIN c.remote : k \in 0 .. new.next - 1
    BY <1>1 DEF Later
  <2> QED BY <2>1 DEF Positions, Later
<1>3. ASSUME NEW k \in DOMAIN c.remote, NEW j \in DOMAIN new.log, new.log[j] = c.remote[k].a
      PROVE  j >= k
  <2>1. CASE j \in DOMAIN ch.log /\ new.log[j] = ch.log[j]
    BY <1>3, <2>1 DEF CacheOK
  <2>2. CASE j \in Nat /\ j >= ch.next
    <3>1. k \in Nat /\ k < ch.next
      BY <1>1
    <3> QED BY <1>1, <2>2, <3>1
  <2> QED BY <2>1, <2>2 DEF Later
<1> QED BY <1>2, <1>3 DEF CacheOK

LEMMA NoCacheOK ==
  ASSUME NEW ch, LogGood(ch)
  PROVE  CacheOK(NoCache, ch) /\ SameBelow(NoCache, ch, 0)
<1>1. /\ NoCache = [remote |-> NoCache.remote, rev |-> NoCache.rev,
                    states |-> NoCache.states, tags |-> NoCache.tags]
      /\ DOMAIN NoCache.remote = {} /\ NoCache.rev = {} /\ NoCache.states = {}
  BY DEF NoCache, EmptyDb
<1>2. Positions(NoCache.remote, ch.next)
  BY <1>1 DEF Positions, LogGood, LogOK
<1>3. Keyed({})
  BY FS_EmptySet DEF Keyed
<1>4. ASSUME NEW val, DOMAIN val = {} PROVE Counted({}, val)
  <2>1. ASSUME NEW x PROVE Of({}, x) = {} /\ Times(val, x) = {}
    BY <1>4 DEF Of, Times
  <2>2. Cardinality({}) = 0
    BY FS_EmptySet
  <2> QED BY <2>1, <2>2 DEF Counted
<1>5. Counted(NoCache.rev, ChangesIn(NoCache)) /\ Counted(NoCache.states, StatesIn(NoCache))
  <2>1. DOMAIN ChangesIn(NoCache) = {} /\ DOMAIN StatesIn(NoCache) = {}
    BY <1>1 DEF ChangesIn, StatesIn
  <2> QED BY <1>1, <1>4, <2>1
<1>6. CacheOK(NoCache, ch)
  BY <1>1, <1>2, <1>3, <1>5 DEF CacheOK
<1>7. SameBelow(NoCache, ch, 0)
  <2>1. \A k \in DOMAIN ch.log : ~ (k < 0)
    BY PositionsAre DEF LogGood, LogOK
  <2>2. Below(NoCache.remote, 0) = {} /\ Below(ch.log, 0) = {}
    BY <1>1, <2>1 DEF Below
  <2> QED BY <2>2 DEF SameBelow, Known
<1> QED BY <1>6, <1>7

(* What a command remembers after it compared, and, when that is all the   *)
(* remote has, what it found.                                              *)
LEMMA DeltaRight ==
  ASSUME NEW R, LogGood(R), NEW c, CacheOK(c, R), NEW answer, AnswersRight(c, R, answer),
         NEW ch, NEW force, NEW d, d = Delta(c, ch, answer, R, force)
  PROVE  /\ CacheOK(d.cache, R)
         /\ d.cached => {d.cache.remote[k].a : k \in DOMAIN d.cache.remote} = On(R)
         /\ {d.theirs[k].h : k \in DOMAIN d.theirs} \subseteq On(R)
         /\ d.unrecs \subseteq On(ch) \ On(R)
<1> DEFINE n == dichotomy_changelist(c, answer)
           theirs == changelist(R, n)
           ours == {c.remote[k].a : k \in From(c.remote, n)}
           unrecs == remote_unrecs(ours, theirs, ch)
           cached == force \/ unrecs = {}
<1>1. n \in Nat /\ SameBelow(c, R, n)
  BY DichotomyRight DEF LogGood
<1>2. /\ d.theirs = theirs /\ d.unrecs = unrecs /\ d.cached = cached
      /\ d.cache = IF cached THEN Replaced(c, n, theirs) ELSE c
  BY DEF Delta
<1>3. /\ DOMAIN theirs = From(R.log, n)
      /\ \A k \in From(R.log, n) : theirs[k].h = R.log[k]
  BY DEF changelist
<1>4. unrecs = {h \in ours : h \notin {theirs[k].h : k \in DOMAIN theirs} /\ h \in On(ch)}
  BY DEF remote_unrecs
<1>5. {theirs[k].h : k \in DOMAIN theirs} \subseteq On(R)
  BY <1>3 DEF On, From
<1>6. (\A k \in DOMAIN c.remote : k \in Nat) /\ (\A k \in DOMAIN R.log : k \in Nat)
  BY PositionsAre DEF CacheOK, LogGood, LogOK
<1>7. ASSUME NEW h \in unrecs PROVE h \in On(ch) /\ h \notin On(R)
  <2>1. h \in ours /\ h \in On(ch) /\ \A k \in DOMAIN theirs : theirs[k].h # h
    BY <1>4
  <2>2. PICK k \in From(c.remote, n) : h = c.remote[k].a
    BY <2>1
  <2>3. k \in DOMAIN c.remote /\ k >= n
    BY DEF From
  <2> HIDE DEF n, theirs, unrecs, ours
  <2>4. ASSUME NEW j \in DOMAIN R.log, R.log[j] = h PROVE FALSE
    <3>1. j >= k
      BY <2>2, <2>3, <2>4 DEF CacheOK
    <3>2. j >= n
      BY <1>1, <1>6, <2>3, <3>1
    <3> QED BY <1>3, <2>1, <2>4, <3>2 DEF From
  <2> QED BY <2>1, <2>4 DEF On
<1>8. LET new == Replaced(c, n, theirs)
      IN  CacheOK(new, R) /\ {new.remote[k].a : k \in DOMAIN new.remote} = On(R)
  <2> HIDE DEF n
  <2> QED BY <1>1, ReplacedOK DEF LogGood
<1> HIDE DEF n, theirs, unrecs, ours, cached
<1>9. CASE cached
  <2>1. d.cache = Replaced(c, n, theirs)
    BY <1>2, <1>9
  <2> QED BY <1>2, <1>5, <1>7, <1>8, <2>1
<1>10. CASE ~ cached
  <2>1. d.cache = c
    BY <1>2, <1>10
  <2> QED BY <1>2, <1>5, <1>7, <1>10, <2>1
<1> QED BY <1>9, <1>10

-----------------------------------------------------------------------------
(* Lists *)

(* The changes in a list are the values of a table, in the order of its    *)
(* keys.                                                                   *)
IsChange(list, i) == i \in DOMAIN list /\ list[i][1] = "change"
AtKeys(list, db, at) ==
  /\ \A i \in DOMAIN list : IsChange(list, i) => at[i] \in DOMAIN db /\ list[i][2] = db[at[i]]
  /\ \A i \in DOMAIN list, j \in DOMAIN list :
       IsChange(list, i) /\ IsChange(list, j) => (i < j <=> at[i] < at[j])
  /\ \A k \in DOMAIN db : \E i \in DOMAIN list : IsChange(list, i) /\ at[i] = k
Lists(list, db) == Listing(list) /\ \E at : AtKeys(list, db, at)

LEMMA InOrderListing ==
  ASSUME NEW db, DOMAIN db \in SUBSET Nat, IsFiniteSet(DOMAIN db)
  PROVE  Listing(InOrder(db))
BY InOrderIs DEF Listing

LEMMA InOrderLists ==
  ASSUME NEW db, DOMAIN db \in SUBSET Nat, IsFiniteSet(DOMAIN db),
         NEW asked, DOMAIN asked = DOMAIN db,
         \A k \in DOMAIN db : asked[k] = <<"change", db[k]>>
  PROVE  Lists(InOrder(asked), db)
<1> DEFINE S == DOMAIN db
           m == Cardinality(S)
           up == Ascending(S)
           list == InOrder(asked)
<1>1. /\ m \in Nat /\ up \in [1 .. m -> S]
      /\ \A i \in 1 .. m, j \in 1 .. m : i < j <=> up[i] < up[j]
      /\ \A k \in S : \E i \in 1 .. m : up[i] = k
  BY AscendingIs
<1>2. /\ Listing(list) /\ DOMAIN list = 1 .. m
      /\ \A i \in 1 .. m : list[i] = asked[up[i]]
  <2>1. DOMAIN asked = S
    OBVIOUS
  <2>2. /\ Cardinality(DOMAIN asked) \in Nat
        /\ list = [i \in 1 .. Cardinality(DOMAIN asked) |-> asked[Ascending(DOMAIN asked)[i]]]
        /\ Len(list) = Cardinality(DOMAIN asked)
    <3> HIDE DEF list
    <3>1. DOMAIN asked \in SUBSET Nat /\ IsFiniteSet(DOMAIN asked)
      BY <2>1
    <3> QED BY <3>1, InOrderIs DEF list
  <2> QED BY <2>1, <2>2 DEF Listing
<1> HIDE DEF S, m, up, list
<1>3. ASSUME NEW i \in 1 .. m
      PROVE  up[i] \in S /\ IsChange(list, i) /\ list[i][2] = db[up[i]]
  <2>1. up[i] \in S
    BY <1>1
  <2>2. list[i] = <<"change", db[up[i]]>>
    BY <1>2, <2>1 DEF S
  <2> QED BY <1>2, <2>1, <2>2 DEF IsChange
<1>4. AtKeys(list, db, up)
  BY <1>1, <1>2, <1>3 DEF AtKeys, S
<1> QED BY <1>2, <1>4 DEF Lists, list

LEMMA InterleavedLists ==
  ASSUME NEW next \in Nat, NEW hs, NEW ms, DOMAIN hs \subseteq 0 .. next - 1, DOMAIN ms \subseteq 0 .. next - 1
  PROVE  Lists(Interleaved(hs, ms), hs)
<1> DEFINE S == {2 * k : k \in DOMAIN hs} \cup {2 * k + 1 : k \in DOMAIN ms}
           m == Cardinality(S)
           up == Ascending(S)
           f == [s \in S |-> IF s % 2 = 0 THEN <<"change", hs[s \div 2]>>
                             ELSE <<"state", ms[s \div 2]>>]
           list == Interleaved(hs, ms)
           at == [i \in 1 .. m |-> up[i] \div 2]
<1>0. \A k : k \in DOMAIN hs \/ k \in DOMAIN ms => k \in Nat /\ k =< next - 1
  <2>1. \A k \in 0 .. next - 1 : k \in Nat /\ k =< next - 1
    OBVIOUS
  <2> QED BY <2>1
<1>1. S \in SUBSET Nat /\ IsFiniteSet(S)
  <2>1. ASSUME NEW s \in S PROVE s \in 0 .. 2 * next
    BY <1>0
  <2>2. IsFiniteSet(0 .. 2 * next)
    BY FS_Interval
  <2>3. S \in SUBSET (0 .. 2 * next)
    BY <2>1
  <2> HIDE DEF S
  <2>4. 0 .. 2 * next \in SUBSET Nat
    OBVIOUS
  <2> QED BY <2>2, <2>3, <2>4, FS_Subset
<1>2. \A s \in S : \/ \E k \in DOMAIN hs : s = 2 * k /\ s % 2 = 0 /\ s \div 2 = k
                   \/ \E k \in DOMAIN ms : s = 2 * k + 1 /\ s % 2 = 1
  BY <1>0
<1>3. \A k \in DOMAIN hs : 2 * k \in S /\ k \in Nat
  BY <1>0
<1>4. list = InOrder(f)
  BY DEF Interleaved
<1>5. DOMAIN f = S
  OBVIOUS
<1>6. \A s \in S : f[s] = IF s % 2 = 0 THEN <<"change", hs[s \div 2]>> ELSE <<"state", ms[s \div 2]>>
  OBVIOUS
<1> HIDE DEF S, f, list
<1>7. /\ m \in Nat /\ up \in [1 .. m -> S]
      /\ \A i \in 1 .. m, j \in 1 .. m : i < j <=> up[i] < up[j]
      /\ \A k \in S : \E i \in 1 .. m : up[i] = k
  BY <1>1, AscendingIs
<1>8. /\ Listing(list) /\ DOMAIN list = 1 .. m
      /\ \A i \in 1 .. m : list[i] = f[up[i]]
  <2>1. /\ Cardinality(DOMAIN f) \in Nat
        /\ list = [i \in 1 .. Cardinality(DOMAIN f) |-> f[Ascending(DOMAIN f)[i]]]
        /\ Len(list) = Cardinality(DOMAIN f)
    BY <1>1, <1>4, <1>5, InOrderIs
  <2> QED BY <1>5, <2>1 DEF Listing
<1> HIDE DEF m, up
<1>9. ASSUME NEW i \in 1 .. m, IsChange(list, i)
      PROVE  at[i] \in DOMAIN hs /\ list[i][2] = hs[at[i]] /\ up[i] = 2 * at[i] /\ at[i] \in Nat
  <2>1. up[i] \in S /\ list[i] = f[up[i]]
    BY <1>7, <1>8
  <2>2. ~ (up[i] % 2 = 1)
    <3> DEFINE s == up[i]
    <3>1. s \in S /\ list[i] = f[s]
      BY <2>1
    <3> HIDE DEF s
    <3>2. ASSUME s % 2 = 1 PROVE list[i][1] = "state"
      <4>1. s % 2 # 0
        BY <3>2
      <4>2. f[s] = <<"state", ms[s \div 2]>>
        BY <1>6, <3>1, <4>1
      <4> QED BY <3>1, <4>2
    <3> QED BY <1>9, <3>2 DEF IsChange, s
  <2>3. PICK k \in DOMAIN hs : up[i] = 2 * k /\ up[i] % 2 = 0 /\ up[i] \div 2 = k
    BY <1>2, <2>1, <2>2
  <2>4. list[i] = <<"change", hs[k]>>
    BY <1>6, <2>1, <2>3
  <2> QED BY <1>3, <2>3, <2>4
<1>10. ASSUME NEW k \in DOMAIN hs
       PROVE  \E i \in 1 .. m : IsChange(list, i) /\ at[i] = k
  <2>1. PICK i \in 1 .. m : up[i] = 2 * k
    BY <1>3, <1>7
  <2>2. up[i] % 2 = 0 /\ up[i] \div 2 = k
    BY <1>3, <2>1
  <2>3. list[i] = <<"change", hs[k]>>
    BY <1>3, <1>6, <1>8, <2>1, <2>2
  <2> QED BY <1>8, <2>2, <2>3 DEF IsChange
<1> HIDE DEF at
<1>11. ASSUME NEW i \in 1 .. m, NEW j \in 1 .. m, IsChange(list, i), IsChange(list, j)
       PROVE  i < j <=> at[i] < at[j]
  BY <1>7, <1>9, <1>11
<1>12. AtKeys(list, hs, at)
  BY <1>8, <1>9, <1>10, <1>11 DEF AtKeys
<1> QED BY <1>8, <1>12 DEF Lists, list

(* Requests for tags before a list change nothing of it. *)
LEMMA PrefixLists ==
  ASSUME NEW P, NEW pre \in Seq(P), \A i \in DOMAIN pre : pre[i][1] = "state",
         NEW Q, NEW rest \in Seq(Q), NEW db, Lists(rest, db)
  PROVE  Lists(pre \o rest, db)
<1> DEFINE list == pre \o rest
           p == Len(pre)
<1>1. PICK at : AtKeys(rest, db, at)
  BY DEF Lists
<1>2. /\ p \in Nat /\ Len(rest) \in Nat /\ Len(list) = p + Len(rest)
      /\ DOMAIN list = 1 .. p + Len(rest) /\ DOMAIN pre = 1 .. p /\ DOMAIN rest = 1 .. Len(rest)
      /\ \A i \in 1 .. p : list[i] = pre[i]
      /\ \A i \in 1 .. Len(rest) : list[p + i] = rest[i]
  OBVIOUS
<1> HIDE DEF list, p
<1> DEFINE to == [i \in DOMAIN list |-> at[i - p]]
<1>3. ASSUME NEW i \in DOMAIN list, IsChange(list, i)
      PROVE  i \in Int /\ i - p \in DOMAIN rest /\ IsChange(rest, i - p) /\ list[i] = rest[i - p]
  <2>1. i \notin 1 .. p
    BY <1>2, <1>3 DEF IsChange
  <2>2. i - p \in 1 .. Len(rest) /\ p + (i - p) = i /\ i \in Int
    BY <1>2, <2>1
  <2>3. list[p + (i - p)] = rest[i - p]
    BY <1>2, <2>2
  <2>4. list[i] = rest[i - p]
    BY <2>2, <2>3
  <2> QED BY <1>2, <1>3, <2>2, <2>4 DEF IsChange
<1>4. ASSUME NEW k \in DOMAIN rest, IsChange(rest, k)
      PROVE  \E j \in DOMAIN list : IsChange(list, j) /\ j - p = k
  <2> DEFINE j == p + k
  <2>1. j \in DOMAIN list /\ list[j] = rest[k] /\ j - p = k
    BY <1>2
  <2> HIDE DEF j
  <2> QED BY <1>4, <2>1 DEF IsChange
<1>5. AtKeys(list, db, to)
  <2>1. ASSUME NEW i \in DOMAIN list, IsChange(list, i)
        PROVE  to[i] \in DOMAIN db /\ list[i][2] = db[to[i]]
    BY <1>1, <1>3, <2>1 DEF AtKeys
  <2>2. ASSUME NEW i \in DOMAIN list, NEW j \in DOMAIN list, IsChange(list, i), IsChange(list, j)
        PROVE  i < j <=> to[i] < to[j]
    <3>1. i - p < j - p <=> at[i - p] < at[j - p]
      BY <1>1, <1>3, <2>2 DEF AtKeys
    <3>2. i \in Int /\ j \in Int
      BY <1>3, <2>2
    <3>3. i < j <=> i - p < j - p
      BY <1>2, <3>2
    <3>4. to[i] = at[i - p] /\ to[j] = at[j - p]
      OBVIOUS
    <3> QED BY <3>1, <3>3, <3>4
  <2>3. ASSUME NEW k \in DOMAIN db PROVE \E i \in DOMAIN list : IsChange(list, i) /\ to[i] = k
    <3>1. PICK i \in DOMAIN rest : IsChange(rest, i) /\ at[i] = k
      BY <1>1 DEF AtKeys
    <3>2. PICK j \in DOMAIN list : IsChange(list, j) /\ j - p = i
      BY <1>4, <3>1
    <3>3. to[j] = at[i]
      BY <3>2
    <3> QED BY <3>1, <3>2, <3>3
  <2> QED BY <2>1, <2>2, <2>3 DEF AtKeys
<1>6. Listing(list)
  BY <1>2 DEF Listing
<1> QED BY <1>5, <1>6 DEF Lists, list

(* Any sequence of a finite set. *)
LEMMA SetToSeqIs ==
  ASSUME NEW S, IsFiniteSet(S)
  PROVE  SetToSeq(S) \in Seq(S)
<1> DEFINE n == Cardinality(S)
           Right(f) == f \in [1 .. n -> S] /\ IsInjective(f)
<1>1. n \in Nat
  BY FS_CardinalityType
<1>2. \E f : Right(f)
  <2>1. ExistsBijection(1 .. n, S)
    BY FS_CardinalityType
  <2>2. PICK f : f \in Bijection(1 .. n, S)
    BY <2>1 DEF ExistsBijection
  <2> QED BY <2>2 DEF Bijection, Injection, IsInjective
<1>3. Right(SetToSeq(S))
  BY <1>2 DEF SetToSeq
<1>4. SetToSeq(S) \in [1 .. n -> S]
  BY <1>3
<1> HIDE DEF n
<1> QED BY <1>1, <1>4

(* What PushExact says of a list. *)
PushedRight(list, ch, seen) ==
  LET at == {i \in DOMAIN list : list[i][1] = "change"}
  IN  /\ {list[i][2] : i \in at} = On(ch) \ seen
      /\ \A i \in at, j \in at : list[i] = list[j] => i = j
      /\ \A i \in at : DependsOn(list[i][2]) \subseteq
           seen \cup {list[j][2] : j \in {k \in at : k < i}}

LEMMA ListsRight ==
  ASSUME NEW ch, LogGood(ch), Ordered(ch), NEW seen,
         NEW db, DOMAIN db = {k \in DOMAIN ch.log : ch.log[k] \notin seen},
         \A k \in DOMAIN db : db[k] = ch.log[k],
         NEW list, Lists(list, db)
  PROVE  PushedRight(list, ch, seen)
<1> DEFINE at == {i \in DOMAIN list : list[i][1] = "change"}
<1>0. PICK to : AtKeys(list, db, to)
  BY DEF Lists
<1>1. /\ \A i \in at : to[i] \in DOMAIN db /\ list[i][2] = db[to[i]]
      /\ \A i \in at, j \in at : i < j <=> to[i] < to[j]
      /\ \A k \in DOMAIN db : \E i \in at : to[i] = k
      /\ \A i \in at : i \in Nat
  BY <1>0 DEF AtKeys, IsChange, Lists, Listing
<1>2. \A k \in DOMAIN db : k \in DOMAIN ch.log /\ db[k] = ch.log[k] /\ ch.log[k] \notin seen
  OBVIOUS
<1>3. \A k \in DOMAIN ch.log : ch.log[k] \notin seen => k \in DOMAIN db
  OBVIOUS
<1>4. \A k \in DOMAIN ch.log : k \in Nat
  BY PositionsAre DEF LogGood, LogOK
<1> HIDE DEF at
<1>5. {list[i][2] : i \in at} = On(ch) \ seen
  <2>1. \A i \in at : list[i][2] \in On(ch) \ seen
    BY <1>1, <1>2 DEF On
  <2>2. ASSUME NEW x \in On(ch), x \notin seen PROVE \E i \in at : list[i][2] = x
    <3>1. PICK k \in DOMAIN ch.log : ch.log[k] = x
      BY DEF On
    <3>2. k \in DOMAIN db /\ db[k] = x
      BY <1>2, <1>3, <2>2, <3>1
    <3> QED BY <1>1, <3>2
  <2> QED BY <2>1, <2>2
<1>6. ASSUME NEW i \in at, NEW j \in at, list[i] = list[j] PROVE i = j
  <2>1. to[i] \in DOMAIN ch.log /\ to[j] \in DOMAIN ch.log /\ ch.log[to[i]] = ch.log[to[j]]
    BY <1>1, <1>2, <1>6
  <2>2. to[i] = to[j] /\ to[i] \in Nat
    BY <1>4, <2>1 DEF LogGood, LogOK
  <2>3. ~ (i < j) /\ ~ (j < i)
    <3>1. (i < j <=> to[i] < to[j]) /\ (j < i <=> to[j] < to[i])
      BY <1>1
    <3> QED BY <2>2, <3>1
  <2> QED BY <1>1, <2>3
<1>7. ASSUME NEW i \in at, NEW x \in DependsOn(list[i][2]), x \notin seen
      PROVE  \E j \in at : j < i /\ list[j][2] = x
  <2>1. to[i] \in DOMAIN ch.log /\ list[i][2] = ch.log[to[i]]
    BY <1>1, <1>2
  <2>2. PICK k \in DOMAIN ch.log : k < to[i] /\ ch.log[k] = x
    BY <1>7, <2>1 DEF Ordered
  <2>3. k \in DOMAIN db /\ db[k] = x
    BY <1>2, <1>3, <1>7, <2>2
  <2>4. PICK j \in at : to[j] = k
    BY <1>1, <2>3
  <2>5. j < i
    BY <1>1, <2>2, <2>4
  <2> QED BY <1>1, <2>3, <2>4, <2>5
<1> QED BY <1>5, <1>6, <1>7 DEF PushedRight, at

(* The list of a push to another channel. *)
LEMMA ToChannelLists ==
  ASSUME NEW ch, LogGood(ch), NEW other
  PROVE  LET db == [k \in {i \in DOMAIN ch.log : ch.log[i] \notin On(other)} |-> ch.log[k]]
         IN  Lists(to_local_channel_push(ch, other), db)
<1> DEFINE S == {i \in DOMAIN ch.log : ch.log[i] \notin On(other)}
           db == [k \in S |-> ch.log[k]]
           asked == [k \in S |-> <<"change", ch.log[k]>>]
<1>1. S \in SUBSET DOMAIN ch.log
  OBVIOUS
<1>2. S \in SUBSET Nat /\ IsFiniteSet(S)
  <2>1. DOMAIN ch.log \in SUBSET Nat /\ IsFiniteSet(DOMAIN ch.log)
    BY PositionsAre DEF LogGood, LogOK
  <2> HIDE DEF S
  <2> QED BY <1>1, <2>1, FS_Subset
<1>3. /\ DOMAIN db = S /\ DOMAIN asked = S
      /\ \A k \in S : asked[k] = <<"change", db[k]>>
  OBVIOUS
<1>4. to_local_channel_push(ch, other) = InOrder(asked)
  BY DEF to_local_channel_push
<1> HIDE DEF S, db, asked
<1>5. Lists(InOrder(asked), db)
  BY <1>2, <1>3, InOrderLists
<1> QED BY <1>4, <1>5 DEF db, S

(* The positions of the changes that a push to a remote lists. *)
RemotePart(c, ch, theirs, unrecs) ==
  {k \in PushedPart(c, ch, unrecs) :
     /\ ~ remote_has_change(c, ch.log[k]) \/ ch.log[k] \in unrecs
     /\ ch.log[k] \notin {theirs[i].h : i \in DOMAIN theirs}}
LogPart(ch, part) == [k \in part |-> ch.log[k]]

LEMMA ToRemoteLists ==
  ASSUME NEW ch, LogGood(ch), NEW c, Keyed(c.states), NEW theirs, NEW unrecs
  PROVE  Lists(to_remote_push(c, ch, theirs, unrecs), LogPart(ch, RemotePart(c, ch, theirs, unrecs)))
<1> DEFINE tags == TagsToPush(c, ch)
           part == RemotePart(c, ch, theirs, unrecs)
           tagged == {k \in part : StateAt(ch, k) \in tags}
           left == {m \in tags \ {StateAt(ch, k) : k \in tagged} : remote_has_state(c, m)}
           asks == {<<"state", m>> : m \in left}
           ms == [k \in tagged |-> StateAt(ch, k)]
           pre == SetToSeq(asks)
           rest == Interleaved(LogPart(ch, part), ms)
<1>1. to_remote_push(c, ch, theirs, unrecs) = pre \o rest
  <2>1. part = {k \in PushedPart(c, ch, unrecs) :
                 /\ ~ remote_has_change(c, ch.log[k]) \/ ch.log[k] \in unrecs
                 /\ ch.log[k] \notin {theirs[i].h : i \in DOMAIN theirs}}
    BY DEF RemotePart
  <2>2. LogPart(ch, part) = [k \in part |-> ch.log[k]]
    BY DEF LogPart
  <2> QED BY <2>1, <2>2 DEF to_remote_push
<1>2. /\ part \subseteq DOMAIN ch.log /\ DOMAIN LogPart(ch, part) = part
      /\ DOMAIN ms = tagged /\ tagged \subseteq part
  BY DEF RemotePart, PushedPart, LogPart
<1>3. ch.next \in Nat /\ DOMAIN ch.log \subseteq 0 .. ch.next - 1
  BY DEF LogGood, LogOK, Positions
<1>4. Lists(rest, LogPart(ch, part))
  <2> HIDE DEF part, tagged, ms
  <2>1. DOMAIN LogPart(ch, part) \subseteq 0 .. ch.next - 1 /\ DOMAIN ms \subseteq 0 .. ch.next - 1
    BY <1>2, <1>3
  <2> QED BY <1>3, <2>1, InterleavedLists
<1>5. IsFiniteSet(asks)
  <2> DEFINE f == [p \in c.states |-> <<"state", p[1]>>]
             image == {f[p] : p \in c.states}
  <2>1. f \in Surjection(c.states, image)
    BY DEF Surjection
  <2>2. IsFiniteSet(c.states)
    BY DEF Keyed
  <2>3. IsFiniteSet(image)
    <3> HIDE DEF f, image
    <3> QED BY <2>1, <2>2, FS_Surjection
  <2>4. ASSUME NEW m \in left PROVE <<"state", m>> \in image
    <3>1. PICK p \in c.states : p[1] = m
      BY DEF remote_has_state
    <3>2. f[p] = <<"state", m>>
      BY <3>1
    <3> QED BY <3>2
  <2>5. asks \in SUBSET image
    <3> HIDE DEF image, left
    <3> QED BY <2>4
  <2> HIDE DEF image, asks
  <2> QED BY <2>3, <2>5, FS_Subset
<1>6. pre \in Seq(asks) /\ \A i \in DOMAIN pre : pre[i][1] = "state"
  <2>1. pre \in Seq(asks)
    BY <1>5, SetToSeqIs
  <2>2. \A a \in asks : a[1] = "state"
    OBVIOUS
  <2> HIDE DEF pre, asks
  <2> QED BY <2>1, <2>2
<1> HIDE DEF part, ms, pre, asks, rest
<1>7. \E Q : rest \in Seq(Q)
  <2>1. Listing(rest) /\ \E f : rest = [i \in 1 .. Len(rest) |-> f[i]]
    <3>1. Listing(rest)
      BY <1>4 DEF Lists
    <3>2. rest = [i \in DOMAIN rest |-> rest[i]]
      BY DEF rest, Interleaved, InOrder
    <3> QED BY <3>1, <3>2 DEF Listing
  <2>2. rest \in Seq({rest[i] : i \in 1 .. Len(rest)})
    BY <2>1 DEF Listing
  <2> QED BY <2>2
<1> QED BY <1>1, <1>4, <1>6, <1>7, PrefixLists DEF part

(* Nothing but what the remote lacks, and all of it: the tables of the     *)
(* cache never exceed its log, which has the changes of the remote.        *)
LEMMA RemotePartIs ==
  ASSUME NEW R, NEW ch, LogGood(ch), NEW c, CacheOK(c, R),
         \A k \in DOMAIN c.remote : c.remote[k].a \in On(R),
         \A h \in On(R) : \E k \in DOMAIN c.remote : c.remote[k].a = h,
         NEW theirs, \A k \in DOMAIN theirs : theirs[k].h \in On(R),
         NEW unrecs, unrecs \subseteq On(ch) \ On(R)
  PROVE  \A k : k \in RemotePart(c, ch, theirs, unrecs)
                  <=> k \in DOMAIN ch.log /\ ch.log[k] \notin On(R)
<1> DEFINE part == RemotePart(c, ch, theirs, unrecs)
<1>0. /\ IsFiniteSet(DOMAIN c.remote)
      /\ \A k \in DOMAIN ch.log : k \in Nat
  BY PositionsAre DEF CacheOK, LogGood, LogOK
<1>1. ASSUME NEW x, NEW p \in c.rev, p[1] = x PROVE x \in On(R)
  <2>1. Keyed(c.rev) /\ Counted(c.rev, ChangesIn(c)) /\ DOMAIN ChangesIn(c) = DOMAIN c.remote
    BY DEF CacheOK, ChangesIn
  <2>2. /\ IsFiniteSet(Of(c.rev, x)) /\ Cardinality(Of(c.rev, x)) \in Nat
        /\ IsFiniteSet(Times(ChangesIn(c), x)) /\ Cardinality(Times(ChangesIn(c), x)) \in Nat
    BY <1>0, <2>1, FiniteParts
  <2>3. Cardinality(Of(c.rev, x)) # 0
    <3>1. p \in Of(c.rev, x)
      BY <1>1 DEF Of
    <3> QED BY <2>2, <3>1, FS_EmptySet
  <2>4. Cardinality(Times(ChangesIn(c), x)) # 0
    BY <2>1, <2>2, <2>3 DEF Counted
  <2>5. Times(ChangesIn(c), x) # {}
    BY <2>4, FS_EmptySet
  <2> QED BY <2>5 DEF Times, ChangesIn
<1>2. ASSUME NEW m, NEW p \in c.states, p[1] = m PROVE m \subseteq On(R)
  <2>1. Keyed(c.states) /\ Counted(c.states, StatesIn(c)) /\ DOMAIN StatesIn(c) = DOMAIN c.remote
    BY DEF CacheOK, StatesIn
  <2>2. /\ IsFiniteSet(Of(c.states, m)) /\ Cardinality(Of(c.states, m)) \in Nat
        /\ IsFiniteSet(Times(StatesIn(c), m)) /\ Cardinality(Times(StatesIn(c), m)) \in Nat
    BY <1>0, <2>1, FiniteParts
  <2>3. Cardinality(Of(c.states, m)) # 0
    <3>1. p \in Of(c.states, m)
      BY <1>2 DEF Of
    <3> QED BY <2>2, <3>1, FS_EmptySet
  <2>4. Cardinality(Times(StatesIn(c), m)) # 0
    BY <2>1, <2>2, <2>3 DEF Counted
  <2>5. Times(StatesIn(c), m) # {}
    BY <2>4, FS_EmptySet
  <2>6. PICK k \in DOMAIN c.remote : c.remote[k].b = m
    BY <2>5 DEF Times, StatesIn
  <2>7. m = {c.remote[j].a : j \in UpTo(c.remote, k)}
    BY <2>6 DEF CacheOK
  <2>8. \A j \in DOMAIN c.remote : c.remote[j].a \in On(R)
    OBVIOUS
  <2> QED BY <2>7, <2>8 DEF UpTo
<1>3. ASSUME NEW k \in part PROVE k \in DOMAIN ch.log /\ ch.log[k] \notin On(R)
  <2>1. /\ k \in DOMAIN ch.log
        /\ ~ remote_has_change(c, ch.log[k]) \/ ch.log[k] \in unrecs
    BY DEF RemotePart, PushedPart
  <2>2. CASE ~ remote_has_change(c, ch.log[k])
    <3>1. ASSUME NEW i \in DOMAIN c.remote PROVE c.remote[i].a # ch.log[k]
      BY <2>2 DEF remote_has_change, CacheOK
    <3> QED BY <2>1, <3>1
  <2> QED BY <2>1, <2>2
<1>4. ASSUME NEW k \in DOMAIN ch.log, ch.log[k] \notin On(R) PROVE k \in part
  <2>1. ~ remote_has_change(c, ch.log[k])
    BY <1>1, <1>4 DEF remote_has_change
  <2>2. ASSUME NEW j \in From(ch.log, k) PROVE ~ remote_has_state(c, StateAt(ch, j))
    <3>1. j \in DOMAIN ch.log /\ k =< j
      BY <1>0 DEF From
    <3>2. ch.log[k] \in StateAt(ch, j)
      BY <3>1 DEF StateAt, UpTo
    <3>3. \A p \in c.states : p[1] # StateAt(ch, j)
      BY <1>2, <1>4, <3>2
    <3> QED BY <3>3 DEF remote_has_state
  <2>3. k \in PushedPart(c, ch, unrecs)
    BY <2>2 DEF PushedPart
  <2> QED BY <1>4, <2>1, <2>3 DEF RemotePart
<1> QED BY <1>3, <1>4

-----------------------------------------------------------------------------
(* What a remote becomes *)

LEMMA ExtendedLater ==
  ASSUME NEW ch, LogGood(ch), NEW hs, Listing(hs)
  PROVE  Later(ch, Extended(ch, hs))
<1> DEFINE new == Extended(ch, hs)
<1>1. /\ Positions(new.log, new.next) /\ new.next = ch.next + Len(hs)
      /\ \A n \in DOMAIN ch.log : n \in DOMAIN new.log /\ new.log[n] = ch.log[n]
      /\ \A n \in DOMAIN new.log : n \notin DOMAIN ch.log => n >= ch.next
  BY ExtendedIs
<1> HIDE DEF new
<1>2. new.next \in Nat /\ \A n \in DOMAIN new.log : n \in Nat
  BY <1>1, PositionsAre DEF Positions
<1>3. ch.next \in Nat /\ Len(hs) \in Nat
  BY DEF LogGood, LogOK, Positions, Listing
<1> QED BY <1>1, <1>2, <1>3 DEF Later, new

LEMMA PutLater ==
  ASSUME NEW ch, LogGood(ch), NEW h
  PROVE  Later(ch, put_change(ch, h))
<1> DEFINE hs == <<h>>
<1>1. Listing(hs)
  BY DEF Listing
<1> QED BY <1>1, ExtendedLater DEF put_change

LEMMA UnrecordLater ==
  ASSUME NEW ch, LogGood(ch), NEW h, MayUnrecord(ch, h)
  PROVE  Later(ch, unrecord(ch, h))
BY UnrecordIs DEF Later, LogGood, LogOK, Positions

LEMMA TagLater ==
  ASSUME NEW ch, LogGood(ch), NEW n
  PROVE  Later(ch, put_tag_here(ch, n))
BY TagGood DEF Later, LogGood, LogOK, Positions

(* The changes before a position of a list. *)
ChangesBefore(list, i) == [j \in {k \in 1 .. i - 1 : list[k][1] = "change"} |-> list[j][2]]

LEMMA UptoIs ==
  ASSUME NEW ch, LogGood(ch), NEW list, NEW i \in Nat
  PROVE  /\ Upto(ch, list, i) = Extended(ch, InOrder(ChangesBefore(list, i)))
         /\ DOMAIN ChangesBefore(list, i) \in SUBSET Nat /\ IsFiniteSet(DOMAIN ChangesBefore(list, i))
         /\ Listing(InOrder(ChangesBefore(list, i)))
         /\ \A j \in 1 .. i - 1 : list[j][1] = "change" => list[j][2] \in On(Upto(ch, list, i))
         /\ On(ch) \subseteq On(Upto(ch, list, i))
         /\ \A x \in On(Upto(ch, list, i)) :
              x \in On(ch) \/ \E j \in 1 .. i - 1 : list[j][1] = "change" /\ list[j][2] = x
<1> DEFINE db == ChangesBefore(list, i)
           hs == InOrder(db)
<1>1. Upto(ch, list, i) = Extended(ch, hs)
  BY DEF Upto, ChangesBefore
<1>2. /\ DOMAIN db = {k \in 1 .. i - 1 : list[k][1] = "change"}
      /\ \A j \in DOMAIN db : db[j] = list[j][2]
  BY DEF ChangesBefore
<1> HIDE DEF db
<1>3. DOMAIN db \in SUBSET Nat /\ IsFiniteSet(DOMAIN db)
  <2>1. DOMAIN db \in SUBSET (1 .. i - 1) /\ IsFiniteSet(1 .. i - 1)
    BY <1>2, FS_Interval
  <2>2. 1 .. i - 1 \in SUBSET Nat
    OBVIOUS
  <2> QED BY <2>1, <2>2, FS_Subset
<1>4. Listing(hs) /\ {hs[j] : j \in DOMAIN hs} = {db[k] : k \in DOMAIN db}
  BY <1>3, InOrderIs DEF Listing
<1> HIDE DEF hs
<1>5. On(Extended(ch, hs)) = On(ch) \cup {hs[j] : j \in DOMAIN hs}
  BY <1>4, ExtendedIs
<1>6. \A j \in 1 .. i - 1 : list[j][1] = "change" => list[j][2] \in {hs[k] : k \in DOMAIN hs}
  <2> SUFFICES ASSUME NEW j \in 1 .. i - 1, list[j][1] = "change"
               PROVE  list[j][2] \in {hs[k] : k \in DOMAIN hs}
    OBVIOUS
  <2>1. j \in DOMAIN db /\ db[j] = list[j][2]
    BY <1>2
  <2>2. list[j][2] \in {db[k] : k \in DOMAIN db}
    BY <2>1
  <2> QED BY <1>4, <2>2
<1>7. ASSUME NEW x \in {hs[k] : k \in DOMAIN hs}
      PROVE  \E j \in 1 .. i - 1 : list[j][1] = "change" /\ list[j][2] = x
  <2>1. PICK k \in DOMAIN db : x = db[k]
    BY <1>4
  <2> QED BY <1>2, <2>1
<1> QED BY <1>1, <1>3, <1>4, <1>5, <1>6, <1>7 DEF db, hs

(* A list that is accepted leaves a log with a change at one position,     *)
(* after those it depends on.                                              *)
LEMMA UploadedGood ==
  ASSUME NEW ch, LogGood(ch), NEW list, Listing(list), Accepts(ch, list)
  PROVE  /\ LogGood(Uploaded(ch, list)) /\ Later(ch, Uploaded(ch, list))
         /\ Ordered(ch) => Ordered(Uploaded(ch, list))
         /\ \A x \in On(Uploaded(ch, list)) :
              x \in On(ch) \/ \E i \in DOMAIN list : list[i][1] = "change" /\ list[i][2] = x
<1> DEFINE m == Len(list) + 1
           db == ChangesBefore(list, m)
           hs == InOrder(db)
           all == Upto(ch, list, m)
           up == Ascending(DOMAIN db)
           n == Cardinality(DOMAIN db)
<1>1. m \in Nat /\ DOMAIN list = 1 .. m - 1
  BY DEF Listing
<1> HIDE DEF m
<1>2. /\ all = Extended(ch, hs) /\ Listing(hs)
      /\ DOMAIN db \in SUBSET Nat /\ IsFiniteSet(DOMAIN db)
  BY <1>1, UptoIs
<1>3. \A j : j \in DOMAIN db <=> j \in DOMAIN list /\ list[j][1] = "change"
  BY <1>1 DEF ChangesBefore
<1>3a. \A j \in DOMAIN db : db[j] = list[j][2]
  BY DEF ChangesBefore
<1> HIDE DEF db
<1>4. /\ n \in Nat /\ up \in [1 .. n -> DOMAIN db]
      /\ \A i \in 1 .. n, j \in 1 .. n : i < j <=> up[i] < up[j]
      /\ \A k \in DOMAIN db : \E i \in 1 .. n : up[i] = k
  BY <1>2, AscendingIs
<1>5. DOMAIN hs = 1 .. n /\ \A a \in 1 .. n : hs[a] = db[up[a]]
  BY <1>2, InOrderIs
<1> HIDE DEF n, up, hs
<1>6. ASSUME NEW a \in 1 .. n
      PROVE  /\ up[a] \in DOMAIN list /\ up[a] \in Nat /\ list[up[a]][1] = "change"
             /\ hs[a] = list[up[a]][2] /\ hs[a] \notin On(Upto(ch, list, up[a]))
             /\ DependsOn(hs[a]) \subseteq On(Upto(ch, list, up[a]))
  <2>1. up[a] \in DOMAIN db
    BY <1>4
  <2>2. up[a] \in DOMAIN list /\ up[a] \in Nat /\ list[up[a]][1] = "change" /\ hs[a] = list[up[a]][2]
    BY <1>2, <1>3, <1>3a, <1>5, <2>1
  <2>3. MayApply(Upto(ch, list, up[a]), list[up[a]][2])
    BY <2>2 DEF Accepts
  <2> QED BY <2>2, <2>3 DEF MayApply
<1>7. \A a \in DOMAIN hs : hs[a] \notin On(ch)
  BY <1>5, <1>6, UptoIs
<1>8. ASSUME NEW a \in 1 .. n, NEW b \in 1 .. n, a < b PROVE hs[a] # hs[b]
  <2>1. up[a] < up[b]
    BY <1>4, <1>8
  <2>2. up[a] \in Nat /\ up[b] \in Nat /\ up[a] \in 1 .. m - 1
    BY <1>1, <1>6
  <2>3. up[a] \in 1 .. up[b] - 1
    BY <1>1, <2>1, <2>2
  <2>4. hs[a] \in On(Upto(ch, list, up[b]))
    BY <1>6, <2>2, <2>3, UptoIs
  <2> QED BY <1>6, <2>4
<1>9. \A a \in DOMAIN hs, b \in DOMAIN hs : hs[a] = hs[b] => a = b
  <2>1. \A a \in 1 .. n, b \in 1 .. n : a = b \/ a < b \/ b < a
    BY <1>4
  <2> QED BY <1>5, <1>8, <2>1
<1>10. LogGood(all) /\ Later(ch, all)
  BY <1>2, <1>7, <1>9, ExtendedGood, ExtendedLater
<1>10a. ASSUME NEW a \in DOMAIN hs, NEW x \in DependsOn(hs[a]), x \notin On(ch)
        PROVE  \E b \in DOMAIN hs : b < a /\ hs[b] = x
  <2>1. a \in 1 .. n /\ x \in On(Upto(ch, list, up[a])) /\ up[a] \in Nat /\ up[a] \in 1 .. m - 1
    BY <1>1, <1>5, <1>6, <1>10a
  <2>2. PICK j \in 1 .. up[a] - 1 : list[j][1] = "change" /\ list[j][2] = x
    BY <1>10a, <2>1, UptoIs
  <2>3. j \in DOMAIN list /\ j < up[a]
    BY <1>1, <2>1
  <2>4. j \in DOMAIN db /\ db[j] = x
    BY <1>3, <1>3a, <2>2, <2>3
  <2>5. PICK b \in 1 .. n : up[b] = j
    BY <1>4, <2>4
  <2> QED BY <1>4, <1>5, <2>1, <2>3, <2>4, <2>5
<1>10b. Ordered(ch) => Ordered(all)
  BY <1>2, <1>10a, ExtendedOrdered
<1>10c. \A x \in On(all) : x \in On(ch) \/ \E i \in DOMAIN list : list[i][1] = "change" /\ list[i][2] = x
  BY <1>1, UptoIs
<1>11. \E tags : Uploaded(ch, list) = [all EXCEPT !.tags = tags]
  BY DEF Uploaded, m
<1> HIDE DEF all
<1>12. PICK tags : Uploaded(ch, list) = [all EXCEPT !.tags = tags]
  BY <1>11
<1>13. Shaped(Uploaded(ch, list)) /\ Uploaded(ch, list).log = all.log /\ Uploaded(ch, list).next = all.next
  BY <1>10, <1>12 DEF LogGood, Shaped
<1> QED BY <1>10, <1>10b, <1>10c, <1>13 DEF LogGood, LogOK, Later, Ordered, On

LEMMA SentListing ==
  ASSUME NEW list, Listing(list), NEW sel
  PROVE  /\ Listing(parse_changelist(list, sel))
         /\ \A i \in 0 .. Len(parse_changelist(list, sel)) :
              Listing(SubSeq(parse_changelist(list, sel), 1, i))
<1> DEFINE at == {i \in DOMAIN list : list[i] \in sel}
           db == [i \in at |-> list[i]]
           sent == parse_changelist(list, sel)
<1>1. sent = InOrder(db) /\ DOMAIN db = at
  BY DEF parse_changelist, Chosen
<1>2. at \in SUBSET Nat /\ IsFiniteSet(at)
  <2>1. at \in SUBSET (1 .. Len(list)) /\ IsFiniteSet(1 .. Len(list))
    BY FS_Interval DEF Listing
  <2>2. 1 .. Len(list) \in SUBSET Nat
    BY DEF Listing
  <2> HIDE DEF at
  <2> QED BY <2>1, <2>2, FS_Subset
<1> HIDE DEF at, db, sent
<1>3. Listing(sent)
  BY <1>1, <1>2, InOrderListing
<1>4. sent \in Seq({sent[i] : i \in 1 .. Len(sent)})
  <2>1. sent = [i \in DOMAIN sent |-> sent[i]]
    BY <1>1 DEF InOrder
  <2> QED BY <1>3, <2>1 DEF Listing
<1>5. ASSUME NEW i \in 0 .. Len(sent) PROVE Listing(SubSeq(sent, 1, i))
  <2>1. i \in Nat /\ i =< Len(sent)
    BY <1>3 DEF Listing
  <2> QED BY <1>3, <1>4, <2>1 DEF Listing
<1> QED BY <1>3, <1>5 DEF sent

(* A change that is applied comes with those it depends on, each after     *)
(* its own.                                                                *)
LEMMA AppliedIs ==
  ASSUME NEW ch, LogGood(ch), Ordered(ch), NEW h, NEW after \in apply_change_rec(ch, h)
  PROVE  /\ LogGood(after) /\ Ordered(after)
         /\ On(after) = On(ch) \cup Closure(h)
<1> DEFINE S == Closure(h) \ On(ch)
           m == Cardinality(S)
<1>1. IsFiniteSet(S) /\ m \in Nat
  <2>1. S \in SUBSET Changes
    BY DEF Closure
  <2> HIDE DEF S
  <2> QED BY <2>1, ChangesFinite, FS_Subset, FS_CardinalityType
<1>2. PICK hs \in SetToSeqs(S) :
        /\ after = Extended(ch, hs)
        /\ \A i \in DOMAIN hs : DependsOn(hs[i]) \subseteq On(ch) \cup {hs[j] : j \in 1 .. i - 1}
  BY DEF apply_change_rec
<1>3. hs \in [1 .. m -> S] /\ \A i \in 1 .. m, j \in 1 .. m : i # j => hs[i] # hs[j]
  BY <1>2 DEF SetToSeqs
<1>4. \A x \in S : x \notin On(ch)
  OBVIOUS
<1>5. {hs[i] : i \in DOMAIN hs} = S
  <2>1. hs \in Injection(1 .. m, S)
    BY <1>3 DEF Injection, IsInjective
  <2>2. IsFiniteSet(1 .. m) /\ Cardinality(1 .. m) = m
    BY <1>1, FS_Interval
  <2> HIDE DEF S
  <2>3. hs \in Surjection(1 .. m, S)
    BY <1>1, <2>1, <2>2, FS_Injection DEF m
  <2> HIDE DEF m
  <2> QED BY <1>3, <2>3 DEF Surjection
<1> HIDE DEF S, m
<1>6. Listing(hs) /\ DOMAIN hs = 1 .. m
  <2>1. hs \in Seq(S)
    BY <1>1, <1>3
  <2> QED BY <1>1, <1>3, <2>1 DEF Listing
<1>7. LogGood(after)
  BY <1>2, <1>3, <1>4, <1>6, ExtendedGood
<1>8. \A i \in DOMAIN hs : \A x \in DependsOn(hs[i]) :
        x \in On(ch) \/ \E j \in DOMAIN hs : j < i /\ hs[j] = x
  <2> SUFFICES ASSUME NEW i \in DOMAIN hs, NEW x \in DependsOn(hs[i]), x \notin On(ch)
               PROVE  \E j \in DOMAIN hs : j < i /\ hs[j] = x
    OBVIOUS
  <2>1. PICK j \in 1 .. i - 1 : hs[j] = x
    BY <1>2
  <2>2. i \in 1 .. m
    BY <1>6
  <2>3. j \in 1 .. m /\ j < i
    BY <1>1, <2>1, <2>2
  <2> QED BY <1>6, <2>1, <2>3
<1>9. Ordered(after)
  BY <1>2, <1>6, <1>8, ExtendedOrdered
<1>10. On(after) = On(ch) \cup Closure(h)
  <2>1. On(Extended(ch, hs)) = On(ch) \cup {hs[i] : i \in DOMAIN hs}
    BY <1>6, ExtendedIs
  <2> QED BY <1>2, <1>5, <2>1 DEF S
<1> QED BY <1>7, <1>9, <1>10

-----------------------------------------------------------------------------
(* The inductive invariant *)

Pulling == session.phase \in {"download", "choose", "apply"}
Holding == Pulling \/ session.phase \in {"push", "uploaded"}

PullShaped(s) ==
  s = [phase |-> s.phase, op |-> s.op, cache |-> s.cache, list |-> s.list, named |-> s.named,
       want |-> s.want, exact |-> s.exact, ch |-> s.ch]
PushShaped(s) ==
  s = [phase |-> s.phase, op |-> s.op, seen |-> s.seen, cache |-> s.cache, list |-> s.list,
       complete |-> s.complete]

(* Both channels hold a change once, the repository's in an order the      *)
(* dependencies allow; what is remembered of the remote is worth comparing *)
(* to it, and so is what a command is about to remember; the list of a     *)
(* push is right.                                                          *)
ChannelsGood == LogGood(remote) /\ LogGood(local) /\ Ordered(local)
CachesGood == CacheOK(cache, remote) /\ (Holding => CacheOK(session.cache, remote))
PullGood == Pulling => PullShaped(session) /\ LogGood(session.ch) /\ Ordered(session.ch)
PushGood ==
  session.phase = "push" =>
    /\ PushShaped(session) /\ Listing(session.list)
    /\ session.complete => PushedRight(session.list, local, session.seen)

RInv == ChannelsGood /\ CachesGood /\ PullGood /\ PushGood

LEMMA RInvInit == Init => RInv
<1> SUFFICES ASSUME Init PROVE RInv
  OBVIOUS
<1>1. remote = NoLog /\ local = NoLog /\ cache = NoCache /\ session = [phase |-> "idle"]
  BY DEF Init, NoSession
<1>2. NoLog = [log |-> NoLog.log, tags |-> NoLog.tags, next |-> NoLog.next] /\ NoLog.next = 0
      /\ DOMAIN NoLog.log = {}
  BY DEF NoLog, EmptyDb
<1>3. LogGood(NoLog) /\ Ordered(NoLog)
  BY <1>2 DEF LogGood, Shaped, LogOK, Positions, Ordered
<1>4. CacheOK(NoCache, NoLog)
  BY <1>3, NoCacheOK
<1>5. session.phase = "idle"
  BY <1>1
<1> QED BY <1>1, <1>3, <1>4, <1>5 DEF RInv, ChannelsGood, CachesGood, PullGood, PushGood, Pulling, Holding

(* A step after which no command holds anything.                           *)
LEMMA ReleasedInv ==
  ASSUME session'.phase \notin {"download", "choose", "apply", "push", "uploaded"},
         LogGood(remote'), LogGood(local'), Ordered(local'), CacheOK(cache', remote')
  PROVE  RInv'
BY DEF RInv, ChannelsGood, CachesGood, PullGood, PushGood, Pulling, Holding

LEMMA CommitInv ==
  ASSUME RInv, Holding, NEW ch, Commit(ch), LogGood(ch), Ordered(ch),
         LogGood(remote'), Later(remote, remote')
  PROVE  RInv'
<1>1. local' = ch /\ cache' = session.cache /\ session'.phase = "idle"
  BY DEF Commit, NoSession
<1>2. CacheOK(session.cache, remote)
  BY DEF RInv, CachesGood
<1>3. CacheOK(cache', remote')
  BY <1>1, <1>2, CacheStays
<1> QED BY <1>1, <1>3, ReleasedInv

LEMMA StaysLater ==
  ASSUME NEW ch, LogGood(ch)
  PROVE  Later(ch, ch)
BY DEF LogGood, LogOK, Positions, Later

(* The command ends, or begins, without a trace in the tables. *)
LEMMA EndedInv ==
  ASSUME RInv, UNCHANGED <<remote, local, cache>>,
         session'.phase \notin {"download", "choose", "apply", "push", "uploaded"}
  PROVE  RInv'
BY ReleasedInv DEF RInv, ChannelsGood, CachesGood

(* The tables and the command stay as they are. *)
LEMMA FrameInv ==
  ASSUME RInv, UNCHANGED <<remote, local, cache, session>>
  PROVE  RInv'
BY DEF RInv, ChannelsGood, CachesGood, PullGood, PushGood, Pulling, Holding

LEMMA RemoteChangesInv ==
  ASSUME RInv, RemoteChanges
  PROVE  RInv'
<1>1. UNCHANGED <<local, cache, session>>
  BY DEF RemoteChanges
<1>2. LogGood(remote') /\ Later(remote, remote')
  <2>0. LogGood(remote)
    BY DEF RInv, ChannelsGood
  <2>1. CASE \E h \in Changes : MayApply(remote, h) /\ remote' = put_change(remote, h)
    BY <2>0, <2>1, PutGood, PutLater
  <2>2. CASE \E h \in Changes : MayUnrecord(remote, h) /\ remote' = unrecord(remote, h)
    BY <2>0, <2>2, UnrecordIs, UnrecordLater
  <2>3. CASE \E n : remote' = put_tag_here(remote, n)
    BY <2>0, <2>3, TagGood, TagLater
  <2> QED BY <2>1, <2>2, <2>3 DEF RemoteChanges
<1>3. CacheOK(cache', remote') /\ (Holding' => CacheOK(session'.cache, remote'))
  <2>1. CacheOK(cache, remote) /\ (Holding => CacheOK(session.cache, remote))
    BY DEF RInv, CachesGood
  <2>2. Holding' <=> Holding
    BY <1>1 DEF Holding, Pulling
  <2> QED BY <1>1, <1>2, <2>1, <2>2, CacheStays
<1> QED BY <1>1, <1>2, <1>3 DEF RInv, ChannelsGood, CachesGood, PullGood, PushGood, Pulling

LEMMA LocalChangesInv ==
  ASSUME RInv, LocalChanges
  PROVE  RInv'
<1>1. UNCHANGED <<remote, cache, session>> /\ session.phase = "idle"
  BY DEF LocalChanges, Idle
<1>2. LogGood(local') /\ Ordered(local')
  <2>0. LogGood(local) /\ Ordered(local)
    BY DEF RInv, ChannelsGood
  <2>1. CASE \E h \in Changes : MayApply(local, h) /\ local' = put_change(local, h)
    BY <2>0, <2>1, PutGood
  <2>2. CASE \E h \in Changes : MayUnrecord(local, h) /\ local' = Renumbered(unrecord(local, h))
    BY <2>0, <2>2, UnrecordIs, RenumberedGood
  <2>3. CASE \E n : local' = put_tag_here(local, n)
    BY <2>0, <2>3, TagGood
  <2> QED BY <2>1, <2>2, <2>3 DEF LocalChanges
<1> QED BY <1>1, <1>2, ReleasedInv DEF RInv, ChannelsGood, CachesGood

LEMMA AnswersGood ==
  ASSUME RInv
  PROVE  LogOK(remote) /\ CacheOK(cache, remote) /\ AnswersRight(cache, remote, Answers)
<1>1. LogOK(remote) /\ CacheOK(cache, remote) /\ Positions(cache.remote, remote.next)
  BY DEF RInv, ChannelsGood, CachesGood, LogGood, CacheOK
<1> QED BY <1>1, PathAnswersRight, ServerAnswersRight DEF Answers

LEMMA ComparedGood ==
  ASSUME RInv, NEW force
  PROVE  LET d == Compared(force)
         IN  /\ CacheOK(d.cache, remote)
             /\ d.cached => {d.cache.remote[k].a : k \in DOMAIN d.cache.remote} = On(remote)
             /\ {d.theirs[k].h : k \in DOMAIN d.theirs} \subseteq On(remote)
             /\ d.unrecs \subseteq On(local) \ On(remote)
<1>1. LogGood(remote) /\ CacheOK(cache, remote) /\ AnswersRight(cache, remote, Answers)
  BY AnswersGood DEF RInv, ChannelsGood
<1> DEFINE d == Compared(force)
<1>2. d = Delta(cache, local, Answers, remote, force)
  BY DEF Compared
<1> HIDE DEF d
<1> SUFFICES /\ CacheOK(d.cache, remote)
             /\ d.cached => {d.cache.remote[k].a : k \in DOMAIN d.cache.remote} = On(remote)
             /\ {d.theirs[k].h : k \in DOMAIN d.theirs} \subseteq On(remote)
             /\ d.unrecs \subseteq On(local) \ On(remote)
  BY DEF d
<1> QED BY <1>1, <1>2, DeltaRight

LEMMA DownloadingInv ==
  ASSUME RInv, NEW op, NEW c, NEW list, NEW named, NEW want, NEW exact,
         Downloading(op, c, list, named, want, exact), CacheOK(c, remote)
  PROVE  RInv'
<1>1. /\ session' = [phase |-> "download", op |-> op, cache |-> c, list |-> list, named |-> named,
                     want |-> want, exact |-> exact, ch |-> local]
      /\ UNCHANGED <<remote, local, cache>>
  BY DEF Downloading
<1>2. session'.phase = "download" /\ session'.cache = c /\ session'.ch = local /\ PullShaped(session')
  BY <1>1 DEF PullShaped
<1>3. LogGood(remote) /\ LogGood(local) /\ Ordered(local) /\ CacheOK(cache, remote)
  BY DEF RInv, ChannelsGood, CachesGood
<1> QED BY <1>1, <1>2, <1>3 DEF RInv, ChannelsGood, CachesGood, PullGood, PushGood, Pulling, Holding

LEMMA NewCacheGood ==
  ASSUME RInv
  PROVE  CacheOK(NewCache, remote) /\ {NewCache.remote[k].a : k \in DOMAIN NewCache.remote} = On(remote)
<1>0. LogGood(remote) /\ LogOK(remote)
  BY DEF RInv, ChannelsGood, LogGood
<1>1. [NoCache EXCEPT !.tags = [k \in Below(@, 0) |-> @[k]]] = NoCache
  <2>1. NoCache.tags = EmptyDb
    BY DEF NoCache
  <2>2. [k \in Below(EmptyDb, 0) |-> EmptyDb[k]] = EmptyDb
    BY DEF Below, EmptyDb
  <2>3. [NoCache EXCEPT !.tags = EmptyDb] = NoCache
    BY DEF NoCache
  <2> QED BY <2>1, <2>2, <2>3
<1>2. NewCache = Replaced(NoCache, 0, changelist(remote, 0))
  BY <1>1 DEF NewCache, update_changelist
<1>3. CacheOK(NoCache, remote) /\ SameBelow(NoCache, remote, 0)
  BY <1>0, NoCacheOK
<1> QED BY <1>0, <1>2, <1>3, ReplacedOK

LEMMA PullsInv ==
  ASSUME RInv, NEW force,
         \/ update_changelist_pushpull(force) \/ \E h \in Changes : pull_named(force, h)
         \/ pull_uncached \/ \E h \in Changes : pull_named_channel(h)
  PROVE  RInv'
<1>1. CacheOK(cache, remote)
  BY DEF RInv, CachesGood
<1>2. CASE update_changelist_pushpull(force)
  BY <1>2, ComparedGood, DownloadingInv DEF update_changelist_pushpull
<1>3. CASE \E h \in Changes : pull_named(force, h)
  BY <1>3, ComparedGood, DownloadingInv DEF pull_named
<1>4. CASE pull_uncached
  BY <1>1, <1>4, DownloadingInv DEF pull_uncached
<1>5. CASE \E h \in Changes : pull_named_channel(h)
  BY <1>1, <1>5, DownloadingInv DEF pull_named_channel
<1> QED BY <1>2, <1>3, <1>4, <1>5

LEMMA ClonesInv ==
  ASSUME RInv,
         clone_channel \/ (\E m \in States(remote) : clone_state(m)) \/ (\E h \in Changes : clone_tag(h))
  PROVE  RInv'
<1>1. CacheOK(NewCache, remote) /\ CacheOK(NoCache, remote)
  BY NewCacheGood, NoCacheOK DEF RInv, ChannelsGood
<1>2. ASSUME NEW c, NEW list, NEW goal, Cloning(c, list, goal), CacheOK(c, remote) PROVE RInv'
  BY <1>2, DownloadingInv DEF Cloning
<1>3. CASE clone_channel
  BY <1>1, <1>2, <1>3 DEF clone_channel
<1>4. CASE \E m \in States(remote) : clone_state(m)
  BY <1>1, <1>2, <1>4 DEF clone_state
<1>5. CASE \E h \in Changes : clone_tag(h)
  BY <1>1, <1>2, <1>5 DEF clone_tag
<1> QED BY <1>3, <1>4, <1>5

LEMMA PushInv ==
  ASSUME RInv, NEW force, push(force)
  PROVE  RInv'
<1> DEFINE d == Compared(force)
           kept == IF HasId THEN d.cache ELSE cache
           list == CASE HasId -> to_remote_push(d.cache, local, d.theirs, d.unrecs)
                     [] kind = "channel" -> to_local_channel_push(local, remote)
                     [] OTHER -> <<>>
           complete == IF HasId THEN d.cached ELSE kind = "channel"
<1>1. /\ session' = [phase |-> "push", op |-> "push", seen |-> On(remote), cache |-> kept,
                     list |-> list, complete |-> complete]
      /\ UNCHANGED <<remote, local, cache>>
  BY DEF push
<1>2. /\ CacheOK(d.cache, remote)
      /\ d.cached => {d.cache.remote[k].a : k \in DOMAIN d.cache.remote} = On(remote)
      /\ {d.theirs[k].h : k \in DOMAIN d.theirs} \subseteq On(remote)
      /\ d.unrecs \subseteq On(local) \ On(remote)
  BY ComparedGood
<1>3. LogGood(remote) /\ LogGood(local) /\ Ordered(local) /\ CacheOK(cache, remote)
  BY DEF RInv, ChannelsGood, CachesGood
<1> HIDE DEF d
<1>4. CacheOK(kept, remote)
  BY <1>2, <1>3
<1>5. Listing(list) /\ (complete => PushedRight(list, local, On(remote)))
  <2>1. CASE HasId
    <3> DEFINE part == RemotePart(d.cache, local, d.theirs, d.unrecs)
    <3>1. list = to_remote_push(d.cache, local, d.theirs, d.unrecs) /\ complete = d.cached
      BY <2>1 DEF HasId
    <3>2. Lists(list, LogPart(local, part))
      BY <1>2, <1>3, <3>1, ToRemoteLists DEF CacheOK
    <3>3. ASSUME d.cached PROVE PushedRight(list, local, On(remote))
      <4>1. part = {k \in DOMAIN local.log : local.log[k] \notin On(remote)}
        <5> DEFINE c == d.cache
                   theirs == d.theirs
                   unrecs == d.unrecs
        <5>1. /\ CacheOK(c, remote)
              /\ \A k \in DOMAIN c.remote : c.remote[k].a \in On(remote)
              /\ \A h \in On(remote) : \E k \in DOMAIN c.remote : c.remote[k].a = h
              /\ \A k \in DOMAIN theirs : theirs[k].h \in On(remote)
              /\ unrecs \subseteq On(local) \ On(remote)
          BY <1>2, <3>3
        <5> HIDE DEF c, theirs, unrecs
        <5>2. \A k : k \in RemotePart(c, local, theirs, unrecs)
                       <=> k \in DOMAIN local.log /\ local.log[k] \notin On(remote)
          BY <1>3, <5>1, RemotePartIs
        <5> QED BY <5>2 DEF c, theirs, unrecs
      <4>2. DOMAIN LogPart(local, part) = part /\ \A k \in part : LogPart(local, part)[k] = local.log[k]
        BY DEF LogPart
      <4> HIDE DEF list, part
      <4> QED BY <1>3, <3>2, <4>1, <4>2, ListsRight
    <3> QED BY <3>1, <3>2, <3>3 DEF Lists
  <2>2. CASE ~ HasId /\ kind = "channel"
    <3> DEFINE S == {i \in DOMAIN local.log : local.log[i] \notin On(remote)}
               db == [k \in S |-> local.log[k]]
    <3>1. list = to_local_channel_push(local, remote)
      BY <2>2
    <3>2. Lists(list, db)
      BY <1>3, <3>1, ToChannelLists
    <3>3. DOMAIN db = S /\ \A k \in S : db[k] = local.log[k]
      OBVIOUS
    <3> HIDE DEF list, db
    <3>4. PushedRight(list, local, On(remote))
      BY <1>3, <3>2, <3>3, ListsRight
    <3> QED BY <3>2, <3>4 DEF Lists
  <2>3. CASE ~ HasId /\ kind # "channel"
    <3>1. list = <<>> /\ complete = FALSE
      BY <2>3
    <3> QED BY <3>1 DEF Listing
  <2> QED BY <2>1, <2>2, <2>3
<1> HIDE DEF kept, list, complete
<1>6. /\ session'.phase = "push" /\ session'.cache = kept /\ session'.list = list
      /\ session'.complete = complete /\ session'.seen = On(remote) /\ PushShaped(session')
  BY <1>1 DEF PushShaped
<1> QED BY <1>1, <1>3, <1>4, <1>5, <1>6
     DEF RInv, ChannelsGood, CachesGood, PullGood, PushGood, Pulling, Holding

LEMMA TablesInv ==
  ASSUME RInv, UNCHANGED <<remote, local, cache>>
  PROVE  LogGood(remote') /\ LogGood(local') /\ Ordered(local') /\ CacheOK(cache', remote')
BY DEF RInv, ChannelsGood, CachesGood

(* The command goes on pulling, with the channel it works on. *)
LEMMA PullingInv ==
  ASSUME RInv, UNCHANGED <<remote, local, cache>>, Pulling, Pulling', PullShaped(session'),
         session'.cache = session.cache, LogGood(session'.ch), Ordered(session'.ch)
  PROVE  RInv'
<1>1. CacheOK(session'.cache, remote')
  BY DEF RInv, CachesGood, Holding
<1>2. session'.phase # "push"
  BY DEF Pulling
<1> QED BY <1>1, <1>2, TablesInv DEF RInv, ChannelsGood, CachesGood, PullGood, PushGood

LEMMA ApplyingInv ==
  ASSUME RInv, UNCHANGED <<remote, local, cache>>, Pulling, NEW h, NEW rest, Applying(h, rest)
  PROVE  RInv'
<1>1. PullShaped(session) /\ LogGood(session.ch) /\ Ordered(session.ch)
  BY DEF RInv, PullGood
<1>2. PICK after \in apply_change_rec(session.ch, h) :
        IF Readable(session.ch, after) THEN session' = [session EXCEPT !.ch = after, !.list = rest]
        ELSE session' = [phase |-> "failed", clone |-> session.op = "clone"]
  BY DEF Applying
<1>3. CASE Readable(session.ch, after)
  <2>0. session' = [session EXCEPT !.ch = after, !.list = rest]
    BY <1>2, <1>3
  <2>1. PullShaped(session') /\ session'.phase = session.phase /\ session'.cache = session.cache
        /\ session'.ch = after
    BY <1>1, <2>0 DEF PullShaped
  <2>2. LogGood(after) /\ Ordered(after)
    BY <1>1, AppliedIs
  <2> QED BY <2>1, <2>2, PullingInv DEF Pulling
<1>4. CASE ~ Readable(session.ch, after)
  <2>1. session' = [phase |-> "failed", clone |-> session.op = "clone"]
    BY <1>2, <1>4
  <2>2. session'.phase = "failed"
    BY <2>1
  <2> QED BY <2>2, EndedInv
<1> QED BY <1>3, <1>4

LEMMA DownloadStepInv ==
  ASSUME RInv, DownloadStep
  PROVE  RInv'
<1>1. CASE Fetch \/ AnswerArrives \/ DownloaderEnds \/ ReceiverStep
  <2>1. UNCHANGED <<remote, local, cache, session>>
    BY <1>1 DEF Fetch, AnswerArrives, DownloaderEnds, ReceiverStep, TasksOnly
  <2> QED BY <2>1, FrameInv
<1>2. CASE TakeReady
  <2>1. session.phase = "download" /\ UNCHANGED <<remote, local, cache>>
    BY <1>2 DEF TakeReady
  <2>2. CASE session.op = "clone"
    BY <1>2, <2>1, <2>2, ApplyingInv DEF TakeReady, Pulling
  <2>3. CASE session.op # "clone"
    BY <1>2, <2>1, <2>3, FrameInv DEF TakeReady
  <2> QED BY <2>2, <2>3
<1>3. CASE pull
  <2>1. session.phase = "download"
    BY <1>3 DEF pull, TasksEnd, Working
  <2>2. PullShaped(session) /\ LogGood(session.ch) /\ Ordered(session.ch) /\ LogGood(remote)
    BY <2>1 DEF RInv, PullGood, Pulling, ChannelsGood
  <2>3. CASE Fail
    BY <2>3, EndedInv DEF Fail
  <2>4. CASE Commit(session.ch) /\ UNCHANGED remote
    BY <2>1, <2>2, <2>4, CommitInv, StaysLater DEF Holding, Pulling
  <2>5. CASE session' = [session EXCEPT !.phase = "choose", !.list = Result]
             /\ UNCHANGED <<kind, remote, local, cache, files>>
    <3>1. PullShaped(session') /\ session'.phase = "choose" /\ session'.cache = session.cache
          /\ session'.ch = session.ch
      BY <2>2, <2>5 DEF PullShaped
    <3> QED BY <2>1, <2>2, <2>5, <3>1, PullingInv DEF Pulling
  <2> QED BY <1>3, <2>3, <2>4, <2>5 DEF pull
<1> QED BY <1>1, <1>2, <1>3 DEF DownloadStep

LEMMA ChooseInv ==
  ASSUME RInv, Choose
  PROVE  RInv'
<1>1. session.phase = "choose" /\ UNCHANGED <<remote, local, cache>>
  BY DEF Choose
<1>2. PullShaped(session) /\ LogGood(session.ch) /\ Ordered(session.ch)
  BY <1>1 DEF RInv, PullGood, Pulling
<1>3. PICK sel : session' = [session EXCEPT
         !.phase = "apply", !.list = parse_changelist(@, sel),
         !.want  = IF sel = Range(session.list) THEN @ ELSE ChangesOf(sel),
         !.exact = @ \/ sel # Range(session.list)]
  BY DEF Choose
<1>5. PullShaped(session') /\ session'.phase = "apply" /\ session'.cache = session.cache
      /\ session'.ch = session.ch
  <2> DEFINE list == parse_changelist(session.list, sel)
             want == IF sel = Range(session.list) THEN session.want ELSE ChangesOf(sel)
             exact == session.exact \/ sel # Range(session.list)
  <2>1. session' = [session EXCEPT
          !.phase = "apply", !.list = list, !.want = want, !.exact = exact]
    BY <1>3
  <2> HIDE DEF list, want, exact
  <2> QED BY <1>2, <2>1 DEF PullShaped
<1> QED BY <1>1, <1>2, <1>5, PullingInv DEF Pulling

LEMMA ApplyInv ==
  ASSUME RInv, apply_pulled
  PROVE  RInv'
<1>1. session.phase = "apply"
  BY DEF apply_pulled
<1>2. LogGood(session.ch) /\ Ordered(session.ch) /\ LogGood(remote)
  BY <1>1 DEF RInv, PullGood, Pulling, ChannelsGood
<1>3. CASE Commit(session.ch) /\ UNCHANGED remote
  BY <1>1, <1>2, <1>3, CommitInv, StaysLater DEF Holding, Pulling
<1>4. CASE UNCHANGED <<remote, local, cache>> /\ \E h, rest : Applying(h, rest)
  BY <1>1, <1>4, ApplyingInv DEF Pulling
<1> QED BY <1>3, <1>4 DEF apply_pulled

LEMMA UploadsInv ==
  ASSUME RInv,
         nothing_to_push \/ upload_to_path \/ commit_push \/ upload_to_channel \/ upload_over_ssh
  PROVE  RInv'
<1>0. LogGood(remote) /\ LogGood(local) /\ Ordered(local) /\ Later(remote, remote)
  BY StaysLater DEF RInv, ChannelsGood
<1>1. ASSUME Pushing, NEW sel
      PROVE  /\ PushShaped(session) /\ CacheOK(session.cache, remote)
             /\ Listing(Sent(sel))
             /\ \A i \in 0 .. Len(Sent(sel)) : Listing(SubSeq(Sent(sel), 1, i))
  <2>1. PushShaped(session) /\ CacheOK(session.cache, remote) /\ Listing(session.list)
    BY <1>1 DEF RInv, PushGood, CachesGood, Pushing, Holding
  <2> QED BY <2>1, SentListing DEF Sent
<1>2. CASE nothing_to_push
  BY <1>0, <1>2, CommitInv DEF nothing_to_push, Pushing, Holding
<1>3. CASE upload_to_path
  <2>1. Pushing
    BY <1>3 DEF upload_to_path
  <2>2. CASE Fail
    BY <2>2, EndedInv DEF Fail
  <2>3. CASE ~ Fail
    <3>1. PICK sel : /\ Accepts(remote, Sent(sel)) /\ remote' = Uploaded(remote, Sent(sel))
                     /\ session' = [session EXCEPT !.phase = "uploaded", !.list = <<>>]
                     /\ UNCHANGED <<local, cache>>
      BY <1>3, <2>3 DEF upload_to_path
    <3>2. LogGood(remote') /\ Later(remote, remote')
      BY <1>0, <1>1, <2>1, <3>1, UploadedGood
    <3>3. session'.phase = "uploaded" /\ session'.cache = session.cache
      BY <1>1, <2>1, <3>1 DEF PushShaped
    <3>4. CacheOK(cache', remote') /\ CacheOK(session'.cache, remote')
      <4>1. CacheOK(cache, remote) /\ CacheOK(session.cache, remote)
        BY <1>1, <2>1 DEF RInv, CachesGood
      <4> QED BY <3>1, <3>2, <3>3, <4>1, CacheStays
    <3> QED BY <1>0, <3>1, <3>2, <3>3, <3>4
         DEF RInv, ChannelsGood, CachesGood, PullGood, PushGood, Pulling
  <2> QED BY <2>2, <2>3
<1>4. CASE commit_push
  BY <1>0, <1>4, CommitInv DEF commit_push, Holding
<1>5. CASE upload_to_channel
  <2>1. Pushing
    BY <1>5 DEF upload_to_channel
  <2>2. CASE Fail
    BY <2>2, EndedInv DEF Fail
  <2>3. CASE ~ Fail
    <3>1. PICK sel : /\ Accepts(remote, Sent(sel)) /\ remote' = Uploaded(remote, Sent(sel))
                     /\ Commit(local)
      BY <1>5, <2>3 DEF upload_to_channel
    <3>2. LogGood(remote') /\ Later(remote, remote')
      BY <1>0, <1>1, <2>1, <3>1, UploadedGood
    <3> QED BY <1>0, <2>1, <3>1, <3>2, CommitInv DEF Pushing, Holding
  <2> QED BY <2>2, <2>3
<1>6. CASE upload_over_ssh
  <2>1. Pushing
    BY <1>6 DEF upload_over_ssh
  <2>2. PICK sel : \E i \in 0 .. Len(Sent(sel)) :
          LET sent == SubSeq(Sent(sel), 1, i)
          IN  /\ remote' = remote \/ (Accepts(remote, sent) /\ remote' = Uploaded(remote, sent))
              /\ \/ Commit(local)
                 \/ session'.phase = "failed" /\ UNCHANGED <<local, cache>>
    BY <1>6 DEF upload_over_ssh, AcceptsOverSsh
  <2>3. PICK i \in 0 .. Len(Sent(sel)) :
          LET sent == SubSeq(Sent(sel), 1, i)
          IN  /\ remote' = remote \/ (Accepts(remote, sent) /\ remote' = Uploaded(remote, sent))
              /\ \/ Commit(local)
                 \/ session'.phase = "failed" /\ UNCHANGED <<local, cache>>
    BY <2>2
  <2> DEFINE sent == SubSeq(Sent(sel), 1, i)
  <2>4. Listing(sent)
    BY <1>1, <2>1
  <2> HIDE DEF sent
  <2>5. /\ remote' = remote \/ (Accepts(remote, sent) /\ remote' = Uploaded(remote, sent))
        /\ \/ Commit(local)
           \/ session'.phase = "failed" /\ UNCHANGED <<local, cache>>
    BY <2>3 DEF sent
  <2>6. LogGood(remote') /\ Later(remote, remote')
    BY <1>0, <2>4, <2>5, UploadedGood
  <2>7. CASE Commit(local)
    BY <1>0, <2>1, <2>6, <2>7, CommitInv DEF Pushing, Holding
  <2>8. CASE session'.phase = "failed" /\ UNCHANGED <<local, cache>>
    <3>1. CacheOK(cache', remote')
      <4>1. CacheOK(cache, remote)
        BY DEF RInv, CachesGood
      <4> QED BY <2>6, <2>8, <4>1, CacheStays
    <3> QED BY <1>0, <2>6, <2>8, <3>1, ReleasedInv
  <2> QED BY <2>5, <2>7, <2>8
<1> QED BY <1>2, <1>3, <1>4, <1>5, <1>6

LEMMA RInvStep ==
  ASSUME RInv, [Next]_vars
  PROVE  RInv'
<1>1. CASE RemoteChanges \/ LocalChanges
  BY <1>1, RemoteChangesInv, LocalChangesInv
<1>2. CASE Commands
  <2>1. CASE ask_for_state
    BY <2>1, EndedInv DEF ask_for_state
  <2>2. CASE \E force \in BOOLEAN : push(force)
    BY <2>2, PushInv
  <2>3. CASE \E force \in BOOLEAN : \/ update_changelist_pushpull(force)
                                    \/ \E h \in Changes : pull_named(force, h)
    BY <2>3, PullsInv
  <2>4. CASE pull_uncached \/ \E h \in Changes : pull_named_channel(h)
    BY <2>4, PullsInv
  <2> QED BY <1>2, <2>1, <2>2, <2>3, <2>4, ClonesInv DEF Commands
<1>3. CASE DownloadStep \/ Choose \/ apply_pulled
  BY <1>3, DownloadStepInv, ChooseInv, ApplyInv
<1>4. CASE nothing_to_push \/ upload_to_path \/ commit_push \/ upload_to_channel \/ upload_over_ssh
  BY <1>4, UploadsInv
<1>5. CASE Kill
  BY <1>5, EndedInv DEF Kill, Fail
<1>6. CASE Exit
  BY <1>6, EndedInv DEF Exit, NoSession
<1>7. CASE UNCHANGED vars
  BY <1>7, FrameInv DEF vars
<1> QED BY <1>1, <1>2, <1>3, <1>4, <1>5, <1>6, <1>7 DEF Next

-----------------------------------------------------------------------------
(* The inductive invariant of downloads *)

Sound(ch) == Ordered(ch) /\ On(ch) \subseteq Changes
Remembered(c) == {c.remote[k].a : k \in DOMAIN c.remote}
KnownWhole(c) == Closed(Remembered(c)) /\ Remembered(c) \subseteq Changes

(* What may be asked for. *)
Requestable == Requests(Changes) \cup {<<"state", m>> : m \in SUBSET Changes}

Has(s, c) == \E i \in DOMAIN s : s[i] = c

(* A request is somewhere on its way through the tasks; how many are on    *)
(* their way to the receiver.                                              *)
Somewhere(t, c) ==
  \/ Has(t.queue, c)
  \/ \E i \in DOMAIN t.sent : i > t.current /\ t.sent[i] = c
  \/ \E follow \in BOOLEAN : Has(t.arrived, <<c, follow>>)
  \/ Has(t.held, c) \/ Has(t.ready, c) \/ c \in t.taken
Pending(t) == Len(t.queue) + (Len(t.sent) - t.current) + Len(t.arrived)

TaskShaped(t) ==
  t = [queue |-> t.queue, asked |-> t.asked, arrived |-> t.arrived, waiting |-> t.waiting,
       held |-> t.held, ready |-> t.ready, taken |-> t.taken, lost |-> t.lost,
       sent |-> t.sent, current |-> t.current, closed |-> t.closed, broken |-> t.broken,
       downloader |-> t.downloader, receiver |-> t.receiver]
TaskTyped(t) ==
  /\ t.queue \in Seq(Requestable) /\ t.sent \in Seq(Requestable)
  /\ t.arrived \in Seq(Requestable \X BOOLEAN)
  /\ t.held \in Seq(Requests(Changes)) /\ t.ready \in Seq(Requests(Changes))
  /\ t.taken \subseteq Requests(Changes) /\ t.asked \subseteq Requestable
  /\ t.waiting \in Int /\ t.current \in Nat /\ t.current =< Len(t.sent)

(* The receiver waits for all that is on its way to it, and for the tags   *)
(* that it was given, which it keeps counting; unless it was given any, no *)
(* request is lost on the way.                                             *)
Counting(t) ==
  /\ t.waiting >= Pending(t) /\ (NoTag(t.asked) => t.waiting = Pending(t))
  /\ t.waiting = Pending(t) => \A c \in t.asked : Somewhere(t, c)
  /\ \A c : Somewhere(t, c) => c \in t.asked

(* A downloader ends well only after a receiver that waits for nothing.    *)
Ending(t) ==
  /\ t.downloader \in {"running", "done", "failed"} /\ t.receiver \in {"running", "done"}
  /\ t.receiver = "done" => t.held = <<>> /\ (t.waiting = 0 \/ t.downloader = "failed")
  /\ t.downloader = "done" => t.receiver = "done"

(* A receiver that runs waits for something.                               *)
Awake(t) == t.receiver = "running" => t.waiting # 0

TaskGood(t) == TaskShaped(t) /\ TaskTyped(t) /\ Counting(t) /\ Ending(t)

(* What is wanted is on the channel or comes with the requests; what is on *)
(* the channel or comes with them is wanted, or was there.                 *)
Brought(ch, R, want) == \A x \in want : x \in On(ch) \/ \E h \in ChangesOf(R) : x \in Closure(h)
Bounded(ch, had, R, want) ==
  On(ch) \subseteq had \cup want /\ \A h \in ChangesOf(R) : Closure(h) \subseteq had \cup want

(* Both channels, and what is remembered or about to be remembered of the  *)
(* remote, are closed under the dependencies.                              *)
ClosedGood ==
  /\ Sound(remote) /\ Sound(local)
  /\ KnownWhole(cache) /\ (Holding => KnownWhole(session.cache))
  /\ session.phase = "push" => \A i \in DOMAIN session.list :
       session.list[i][1] = "change" => session.list[i][2] \in Changes

(* What a pull is to get comes with its list, and only that if it is exact. *)
GoalGood ==
  Pulling =>
    LET R == Range(session.list)
    IN  /\ session.list \in Seq(Requestable)
        /\ session.phase # "download" =>
             session.op = "pull" /\ session.list \in Seq(Requests(Changes))
        /\ session.phase # "apply" /\ session.op = "pull" => session.ch = local
        /\ On(local) \subseteq On(session.ch) /\ On(session.ch) \subseteq Changes
        /\ session.op \in {"pull", "clone"}
        /\ session.op = "pull" =>
             /\ Brought(session.ch, R, session.want)
             /\ session.exact => Bounded(session.ch, On(local), R, session.want)
             /\ session.phase # "apply" /\ ~ session.named => Closed(On(local) \cup ChangesOf(R))

(* A clone applies while it downloads: what was taken is on its channel.   *)
ClonedGood ==
  session.phase = "download" /\ session.op = "clone" =>
    /\ Brought(NoLog, Range(session.list), session.want)
    /\ On(local) = {} /\ session.want \subseteq Changes /\ Closed(session.want)
    /\ On(session.ch) \subseteq session.want /\ ChangesOf(task.asked) \subseteq session.want
    /\ \A h \in ChangesOf(task.taken) : Closure(h) \subseteq On(session.ch)

DownloadGood ==
  session.phase = "download" =>
    /\ TaskGood(task) /\ Awake(task) /\ (kind # "ssh" => task.sent = <<>>)
    /\ Range(session.list) \subseteq task.asked

WInv == ClosedGood /\ GoalGood /\ ClonedGood /\ DownloadGood

-----------------------------------------------------------------------------
(* Sequences *)

LEMMA TailHas ==
  ASSUME NEW S, NEW q \in Seq(S), q # <<>>
  PROVE  /\ Head(q) \in S /\ Tail(q) \in Seq(S) /\ Len(q) \in Nat /\ Len(Tail(q)) = Len(q) - 1
         /\ \A c : Has(q, c) <=> c = Head(q) \/ Has(Tail(q), c)
<1> DEFINE r == Tail(q)
<1>1. /\ Len(q) \in Nat /\ Len(q) >= 1 /\ Head(q) = q[1] /\ Head(q) \in S
      /\ r \in Seq(S) /\ Len(r) = Len(q) - 1 /\ DOMAIN q = 1 .. Len(q) /\ DOMAIN r = 1 .. Len(r)
      /\ \A i \in 1 .. Len(r) : r[i] = q[i + 1]
  OBVIOUS
<1> HIDE DEF r
<1>2. ASSUME NEW i \in DOMAIN q, i # 1 PROVE \E j \in DOMAIN r : r[j] = q[i]
  <2> DEFINE j == i - 1
  <2>1. j \in 1 .. Len(r) /\ j + 1 = i
    BY <1>1, <1>2
  <2> HIDE DEF j
  <2> QED BY <1>1, <2>1
<1>3. ASSUME NEW i \in DOMAIN r PROVE \E j \in DOMAIN q : q[j] = r[i]
  <2> DEFINE j == i + 1
  <2>1. j \in DOMAIN q /\ q[j] = r[i]
    BY <1>1
  <2> QED BY <2>1
<1>4. 1 \in DOMAIN q
  BY <1>1
<1>5. \A c : Has(q, c) <=> c = Head(q) \/ Has(r, c)
  BY <1>1, <1>2, <1>3, <1>4 DEF Has
<1> QED BY <1>1, <1>5 DEF r

LEMMA ConcatHas ==
  ASSUME NEW S, NEW q \in Seq(S), NEW r \in Seq(S)
  PROVE  /\ q \o r \in Seq(S) /\ Len(q) \in Nat /\ Len(r) \in Nat /\ Len(q \o r) = Len(q) + Len(r)
         /\ \A c : Has(q \o r, c) <=> Has(q, c) \/ Has(r, c)
<1> DEFINE all == q \o r
           n == Len(q)
<1>1. /\ n \in Nat /\ Len(r) \in Nat /\ all \in Seq(S) /\ Len(all) = n + Len(r)
      /\ DOMAIN all = 1 .. n + Len(r) /\ DOMAIN q = 1 .. n /\ DOMAIN r = 1 .. Len(r)
      /\ \A i \in 1 .. n : all[i] = q[i]
      /\ \A i \in 1 .. Len(r) : all[n + i] = r[i]
  OBVIOUS
<1> HIDE DEF all, n
<1>2. ASSUME NEW i \in DOMAIN r PROVE \E j \in DOMAIN all : all[j] = r[i]
  <2> DEFINE j == n + i
  <2>1. j \in DOMAIN all /\ all[j] = r[i]
    BY <1>1
  <2> QED BY <2>1
<1>3. ASSUME NEW i \in DOMAIN all, i \notin DOMAIN q PROVE \E j \in DOMAIN r : r[j] = all[i]
  <2> DEFINE j == i - n
  <2>1. j \in 1 .. Len(r) /\ n + j = i
    BY <1>1, <1>3
  <2> HIDE DEF j
  <2> QED BY <1>1, <2>1
<1>4. \A i \in DOMAIN q : i \in DOMAIN all /\ all[i] = q[i]
  BY <1>1
<1>5. \A c : Has(all, c) <=> Has(q, c) \/ Has(r, c)
  BY <1>2, <1>3, <1>4 DEF Has
<1> QED BY <1>1, <1>5 DEF all, n

LEMMA AppendHas ==
  ASSUME NEW S, NEW s \in Seq(S), NEW x \in S
  PROVE  /\ Append(s, x) \in Seq(S) /\ Len(s) \in Nat /\ Len(Append(s, x)) = Len(s) + 1
         /\ \A i \in DOMAIN s : i \in DOMAIN Append(s, x) /\ Append(s, x)[i] = s[i]
         /\ \A i \in DOMAIN Append(s, x) : i \in DOMAIN s \/ i = Len(s) + 1
         /\ Len(s) + 1 \in DOMAIN Append(s, x) /\ Append(s, x)[Len(s) + 1] = x
         /\ \A c : Has(Append(s, x), c) <=> c = x \/ Has(s, c)
<1> DEFINE all == Append(s, x)
           n == Len(s)
           m == n + 1
<1>1. /\ n \in Nat /\ all \in Seq(S) /\ Len(all) = m
      /\ DOMAIN all = 1 .. m /\ DOMAIN s = 1 .. n
      /\ \A i \in 1 .. n : all[i] = s[i]
      /\ all[m] = x
  OBVIOUS
<1>2. /\ \A i \in DOMAIN s : i \in DOMAIN all /\ all[i] = s[i]
      /\ \A i \in DOMAIN all : i \in DOMAIN s \/ i = m
      /\ m \in DOMAIN all
  BY <1>1
<1> HIDE DEF all, m, n
<1>3. \A c : Has(all, c) <=> c = x \/ Has(s, c)
  BY <1>1, <1>2 DEF Has
<1> QED BY <1>1, <1>2, <1>3 DEF all, m, n

-----------------------------------------------------------------------------
(* The tasks *)

LEMMA AskingGood ==
  ASSUME NEW list \in Seq(Requestable), NEW t, t = Asking(list)
  PROVE  TaskGood(t) /\ Awake(t) /\ t.sent = <<>> /\ t.asked = Range(list) /\ t.taken = {}
<1>1. /\ TaskShaped(t) /\ t.queue = list /\ t.asked = Range(list) /\ t.arrived = <<>> /\ t.waiting = Len(list)
      /\ t.held = <<>> /\ t.ready = <<>> /\ t.taken = {} /\ t.sent = <<>> /\ t.current = 0
      /\ t.downloader = "running" /\ t.receiver = IF list = <<>> THEN "done" ELSE "running"
  BY DEF Asking, TaskShaped
<1>2. DOMAIN list = 1 .. Len(list) /\ Len(list) \in Nat /\ \A i \in DOMAIN list : list[i] \in Requestable
  OBVIOUS
<1>3. \A c : c \in Range(list) <=> Has(list, c)
  BY DEF Range, Has
<1>4. TaskTyped(t)
  BY <1>1, <1>2, <1>3 DEF TaskTyped, Has
<1>5. Counting(t)
  BY <1>1, <1>2, <1>3 DEF Counting, Somewhere, Pending, Has
<1>6. Ending(t)
  BY <1>1 DEF Ending
<1>7. Awake(t)
  BY <1>1, <1>2 DEF Awake
<1> QED BY <1>1, <1>4, <1>5, <1>6, <1>7 DEF TaskGood

(* A request leaves the queue and is answered at once. *)
LEMMA FetchedGood ==
  ASSUME NEW t, TaskGood(t), t.queue # <<>>, NEW follow \in BOOLEAN, NEW new,
         TaskShaped(new), new.queue = Tail(t.queue), new.arrived = Append(t.arrived, <<Head(t.queue), follow>>),
         new.asked = t.asked, new.waiting = t.waiting, new.held = t.held, new.ready = t.ready,
         new.taken = t.taken, new.sent = t.sent, new.current = t.current,
         new.downloader = t.downloader, new.receiver = t.receiver
  PROVE  TaskGood(new)
<1> DEFINE c0 == Head(t.queue)
<1>1. t.queue \in Seq(Requestable) /\ t.arrived \in Seq(Requestable \X BOOLEAN)
      /\ t.queue # <<>> /\ Len(t.sent) \in Nat /\ t.current \in Nat
  BY DEF TaskGood, TaskTyped
<1>2. /\ c0 \in Requestable /\ new.queue \in Seq(Requestable)
      /\ Len(t.queue) \in Nat /\ Len(new.queue) = Len(t.queue) - 1
      /\ \A c : Has(t.queue, c) <=> c = c0 \/ Has(new.queue, c)
  BY <1>1, TailHas
<1>3. /\ new.arrived \in Seq(Requestable \X BOOLEAN)
      /\ Len(t.arrived) \in Nat /\ Len(new.arrived) = Len(t.arrived) + 1
      /\ \A p : Has(new.arrived, p) <=> p = <<c0, follow>> \/ Has(t.arrived, p)
  <2>1. <<c0, follow>> \in Requestable \X BOOLEAN
    BY <1>2
  <2> QED BY <1>1, <2>1, AppendHas
<1> HIDE DEF c0
<1>4. \A c : Somewhere(new, c) <=> Somewhere(t, c)
  <2>1. ASSUME NEW c PROVE (\E f \in BOOLEAN : Has(new.arrived, <<c, f>>))
                             <=> c = c0 \/ \E f \in BOOLEAN : Has(t.arrived, <<c, f>>)
    BY <1>3
  <2> QED BY <1>2, <2>1 DEF Somewhere
<1>5. Pending(new) = Pending(t)
  <2>1. /\ Len(new.queue) = Len(t.queue) - 1 /\ Len(new.arrived) = Len(t.arrived) + 1
        /\ Len(t.queue) \in Nat /\ Len(t.arrived) \in Nat /\ Len(t.sent) \in Nat /\ t.current \in Nat
    BY <1>1, <1>2, <1>3
  <2>2. new.sent = t.sent /\ new.current = t.current
    OBVIOUS
  <2>3. Pending(new) = (Len(t.queue) - 1) + (Len(t.sent) - t.current) + (Len(t.arrived) + 1)
    BY <2>1, <2>2 DEF Pending
  <2> DEFINE q == Len(t.queue)
             s == Len(t.sent)
             a == Len(t.arrived)
             n == t.current
  <2>4. q \in Int /\ s \in Int /\ a \in Int /\ n \in Int
        /\ Pending(new) = (q - 1) + (s - n) + (a + 1) /\ Pending(t) = q + (s - n) + a
    BY <2>1, <2>3 DEF Pending
  <2> HIDE DEF q, s, a, n
  <2> QED BY <2>4
<1>6. TaskTyped(new)
  BY <1>2, <1>3 DEF TaskGood, TaskTyped
<1> QED BY <1>4, <1>5, <1>6 DEF TaskGood, Counting, Ending

(* A request leaves the queue and is sent. *)
LEMMA SentGood ==
  ASSUME NEW t, TaskGood(t), t.queue # <<>>, NEW new,
         TaskShaped(new), new.queue = Tail(t.queue), new.sent = Append(t.sent, Head(t.queue)),
         new.asked = t.asked, new.waiting = t.waiting, new.held = t.held, new.ready = t.ready,
         new.taken = t.taken, new.arrived = t.arrived, new.current = t.current,
         new.downloader = t.downloader, new.receiver = t.receiver
  PROVE  TaskGood(new)
<1> DEFINE c0 == Head(t.queue)
           n == t.current
           s == t.sent
           s1 == new.sent
<1>1. t.queue \in Seq(Requestable) /\ s \in Seq(Requestable)
      /\ t.queue # <<>> /\ Len(t.arrived) \in Nat /\ n \in Nat /\ n =< Len(s)
  BY DEF TaskGood, TaskTyped
<1>2. /\ c0 \in Requestable /\ new.queue \in Seq(Requestable)
      /\ Len(t.queue) \in Nat /\ Len(new.queue) = Len(t.queue) - 1
      /\ \A c : Has(t.queue, c) <=> c = c0 \/ Has(new.queue, c)
  BY <1>1, TailHas
<1>3. /\ s1 \in Seq(Requestable) /\ Len(s) \in Nat /\ Len(s1) = Len(s) + 1
      /\ \A i \in DOMAIN s : i \in DOMAIN s1 /\ s1[i] = s[i]
      /\ \A i \in DOMAIN s1 : i \in DOMAIN s \/ i = Len(s) + 1
      /\ Len(s) + 1 \in DOMAIN s1 /\ s1[Len(s) + 1] = c0
  BY <1>1, <1>2, AppendHas
<1> HIDE DEF c0, n, s, s1
<1>4. \A c : Somewhere(new, c) <=> Somewhere(t, c)
  <2>1. ASSUME NEW c PROVE (\E i \in DOMAIN s1 : i > n /\ s1[i] = c)
                             <=> c = c0 \/ \E i \in DOMAIN s : i > n /\ s[i] = c
    <3>1. Len(s) + 1 > n
      BY <1>1, <1>3
    <3> QED BY <1>3, <3>1
  <2> QED BY <1>2, <2>1 DEF Somewhere, n, s, s1
<1>5. Pending(new) = Pending(t)
  <2>1. Len(new.sent) = Len(t.sent) + 1 /\ Len(t.sent) \in Nat /\ t.current \in Nat
    BY <1>1, <1>3 DEF s, s1, n
  <2> QED BY <1>1, <1>2, <2>1 DEF Pending
<1>6. TaskTyped(new)
  <2>1. new.current \in Nat /\ new.current =< Len(s1)
    BY <1>1, <1>3 DEF n
  <2> QED BY <1>2, <1>3, <2>1 DEF TaskGood, TaskTyped, s1
<1> QED BY <1>4, <1>5, <1>6 DEF TaskGood, Counting, Ending

(* An answer over ssh is passed on. *)
LEMMA AnsweredGood ==
  ASSUME NEW t, TaskGood(t), t.current < Len(t.sent), NEW follow \in BOOLEAN, NEW new,
         TaskShaped(new), new.arrived = Append(t.arrived, <<Answer(t), follow>>), new.current = t.current + 1,
         new.asked = t.asked, new.waiting = t.waiting, new.held = t.held, new.ready = t.ready,
         new.taken = t.taken, new.queue = t.queue, new.sent = t.sent,
         new.downloader = t.downloader, new.receiver = t.receiver
  PROVE  TaskGood(new)
<1> DEFINE s == t.sent
           n == t.current
           c0 == Answer(t)
<1>1. /\ s \in Seq(Requestable) /\ n \in Nat /\ Len(s) \in Nat /\ DOMAIN s = 1 .. Len(s)
      /\ t.arrived \in Seq(Requestable \X BOOLEAN) /\ Len(t.queue) \in Nat
  BY DEF TaskGood, TaskTyped
<1>2. n + 1 \in DOMAIN s /\ c0 = s[n + 1] /\ c0 \in Requestable
  BY <1>1 DEF Answer
<1>3. /\ new.arrived \in Seq(Requestable \X BOOLEAN)
      /\ Len(t.arrived) \in Nat /\ Len(new.arrived) = Len(t.arrived) + 1
      /\ \A p : Has(new.arrived, p) <=> p = <<c0, follow>> \/ Has(t.arrived, p)
  <2>1. <<c0, follow>> \in Requestable \X BOOLEAN
    BY <1>2
  <2> QED BY <1>1, <2>1, AppendHas
<1> HIDE DEF c0, s, n
<1>4. ASSUME NEW c PROVE Somewhere(new, c) <=> Somewhere(t, c)
  <2> DEFINE Unanswered == \E i \in DOMAIN s : i > n /\ s[i] = c
             Left == \E i \in DOMAIN s : i > n + 1 /\ s[i] = c
             In(a) == \E f \in BOOLEAN : Has(a, <<c, f>>)
  <2>1. In(new.arrived) <=> c = c0 \/ In(t.arrived)
    BY <1>3
  <2>2. Unanswered <=> c = c0 \/ Left
    <3>1. \A i \in DOMAIN s : i > n <=> i = n + 1 \/ i > n + 1
      BY <1>1
    <3> QED BY <1>2, <3>1
  <2>3. Somewhere(t, c) <=> \/ Has(t.queue, c) \/ Unanswered \/ In(t.arrived)
                            \/ Has(t.held, c) \/ Has(t.ready, c) \/ c \in t.taken
    BY DEF Somewhere, s, n
  <2>4. Somewhere(new, c) <=> \/ Has(t.queue, c) \/ Left \/ In(new.arrived)
                              \/ Has(t.held, c) \/ Has(t.ready, c) \/ c \in t.taken
    BY DEF Somewhere, s, n
  <2> HIDE DEF Unanswered, Left, In
  <2> QED BY <2>1, <2>2, <2>3, <2>4
<1>5. Pending(new) = Pending(t)
  <2>1. /\ Len(new.arrived) = Len(t.arrived) + 1 /\ new.current = t.current + 1
        /\ Len(t.queue) \in Nat /\ Len(t.arrived) \in Nat /\ Len(t.sent) \in Nat /\ t.current \in Nat
    BY <1>1, <1>3 DEF s, n
  <2>2. new.sent = t.sent /\ new.queue = t.queue
    OBVIOUS
  <2>3. Pending(new) = Len(t.queue) + (Len(t.sent) - (t.current + 1)) + (Len(t.arrived) + 1)
    BY <2>1, <2>2 DEF Pending
  <2> DEFINE q == Len(t.queue)
             m == Len(t.sent)
             a == Len(t.arrived)
             k == t.current
  <2>4. q \in Int /\ m \in Int /\ a \in Int /\ k \in Int
        /\ Pending(new) = q + (m - (k + 1)) + (a + 1) /\ Pending(t) = q + (m - k) + a
    BY <2>1, <2>3 DEF Pending
  <2> HIDE DEF q, m, a, k
  <2> QED BY <2>4
<1>6. TaskTyped(new)
  <2>1. new.current \in Nat /\ new.current =< Len(new.sent)
    BY <1>1 DEF s, n
  <2> QED BY <1>3, <2>1 DEF TaskGood, TaskTyped
<1> QED BY <1>4, <1>5, <1>6 DEF TaskGood, Counting, Ending

(* Only what may end the tasks changes. *)
LEMMA MarkedGood ==
  ASSUME NEW t, TaskGood(t), NEW new, TaskShaped(new), new.queue = t.queue, new.arrived = t.arrived,
         new.asked = t.asked, new.waiting = t.waiting, new.held = t.held, new.ready = t.ready,
         new.taken = t.taken, new.sent = t.sent, new.current = t.current,
         new.receiver = t.receiver, t.downloader = "running",
         \/ new.downloader \in {"running", "failed"}
         \/ new.downloader = "done" /\ t.receiver = "done"
  PROVE  TaskGood(new)
<1>1. (\A c : Somewhere(new, c) <=> Somewhere(t, c)) /\ Pending(new) = Pending(t)
  BY DEF Somewhere, Pending
<1>2. TaskTyped(new) /\ Counting(new)
  BY <1>1 DEF TaskGood, TaskTyped, Counting
<1>3. Ending(new)
  BY DEF TaskGood, Ending
<1> QED BY <1>2, <1>3 DEF TaskGood

(* What is held becomes ready, once nothing is waited for or the           *)
(* downloader failed.                                                      *)
LEMMA FlushedGood ==
  ASSUME NEW t, TaskShaped(t), TaskTyped(t), Counting(t), t.downloader \in {"running", "failed"},
         t.waiting = 0 \/ t.downloader = "failed"
  PROVE  /\ TaskGood(Flushed(t)) /\ Flushed(t).asked = t.asked /\ Flushed(t).taken = t.taken
         /\ Awake(Flushed(t)) /\ Flushed(t).sent = t.sent
<1> DEFINE new == Flushed(t)
           all == t.ready \o t.held
<1>1. /\ TaskShaped(new) /\ new.queue = t.queue /\ new.arrived = t.arrived
      /\ new.asked = t.asked /\ new.waiting = t.waiting /\ new.held = <<>> /\ new.ready = all
      /\ new.taken = t.taken /\ new.sent = t.sent /\ new.current = t.current
      /\ new.receiver = "done" /\ new.downloader = t.downloader
  <2>1. new = [t EXCEPT !.ready = all, !.held = <<>>, !.receiver = "done"]
    BY DEF Flushed
  <2> HIDE DEF all, new
  <2> QED BY <2>1 DEF TaskShaped
<1>2. t.ready \in Seq(Requests(Changes)) /\ t.held \in Seq(Requests(Changes))
  BY DEF TaskTyped
<1>3. all \in Seq(Requests(Changes)) /\ \A c : Has(all, c) <=> Has(t.ready, c) \/ Has(t.held, c)
  BY <1>2, ConcatHas
<1> HIDE DEF new, all
<1>4. \A c : ~ Has(new.held, c)
  BY <1>1 DEF Has
<1>5. \A c : Somewhere(new, c) <=> Somewhere(t, c)
  BY <1>1, <1>3, <1>4 DEF Somewhere
<1>6. Pending(new) = Pending(t)
  BY <1>1 DEF Pending
<1>7. TaskTyped(new)
  BY <1>1, <1>3 DEF TaskTyped
<1>8. Counting(new)
  BY <1>1, <1>5, <1>6 DEF Counting
<1>9. Ending(new)
  BY <1>1 DEF Ending
<1> QED BY <1>1, <1>7, <1>8, <1>9 DEF TaskGood, Awake, new

(* The main task takes what is ready. *)
LEMMA TakenGood ==
  ASSUME NEW t, TaskGood(t), t.ready # <<>>
  PROVE  /\ TaskGood(Taken(t)) /\ Taken(t).asked = t.asked
         /\ Head(t.ready) \in Requests(Changes) /\ Head(t.ready) \in t.asked
         /\ Taken(t).taken = t.taken \cup {Head(t.ready)}
         /\ Taken(t).sent = t.sent /\ (Awake(t) => Awake(Taken(t)))
<1> DEFINE new == Taken(t)
           rest == Tail(t.ready)
           c0 == Head(t.ready)
<1>1. /\ TaskShaped(new) /\ new.queue = t.queue /\ new.arrived = t.arrived
      /\ new.asked = t.asked /\ new.waiting = t.waiting /\ new.held = t.held /\ new.ready = rest
      /\ new.taken = t.taken \cup {c0} /\ new.sent = t.sent /\ new.current = t.current
      /\ new.receiver = t.receiver /\ new.downloader = t.downloader
  <2> DEFINE more == t.taken \cup {c0}
  <2>1. new = [t EXCEPT !.ready = rest, !.taken = more]
    BY DEF Taken
  <2>2. TaskShaped(t)
    BY DEF TaskGood
  <2> HIDE DEF rest, more, new
  <2>3. /\ TaskShaped(new) /\ new.queue = t.queue /\ new.arrived = t.arrived
        /\ new.asked = t.asked /\ new.waiting = t.waiting /\ new.held = t.held /\ new.ready = rest
        /\ new.taken = more /\ new.sent = t.sent /\ new.current = t.current
        /\ new.receiver = t.receiver /\ new.downloader = t.downloader
    BY <2>1, <2>2 DEF TaskShaped
  <2> QED BY <2>3 DEF more
<1>2. t.ready \in Seq(Requests(Changes)) /\ t.ready # <<>>
  BY DEF TaskGood, TaskTyped
<1>3. /\ rest \in Seq(Requests(Changes)) /\ c0 \in Requests(Changes)
      /\ \A c : Has(t.ready, c) <=> c = c0 \/ Has(rest, c)
  BY <1>2, TailHas
<1> HIDE DEF new, rest, c0
<1>4. \A c : Somewhere(new, c) <=> Somewhere(t, c)
  BY <1>1, <1>3 DEF Somewhere
<1>5. Pending(new) = Pending(t)
  BY <1>1 DEF Pending
<1>6. TaskTyped(new)
  BY <1>1, <1>3 DEF TaskTyped, TaskGood
<1>7. Counting(new) /\ Ending(new)
  BY <1>1, <1>4, <1>5 DEF Counting, Ending, TaskGood
<1>8. c0 \in t.asked
  BY <1>3 DEF Counting, TaskGood, Somewhere
<1> QED BY <1>1, <1>3, <1>6, <1>7, <1>8 DEF TaskGood, Awake, new, c0

-----------------------------------------------------------------------------
(* What arrives *)

LEMMA ChosenIs ==
  ASSUME NEW S, NEW list \in Seq(S), NEW at \in SUBSET (DOMAIN list)
  PROVE  /\ Chosen(list, at) \in Seq(S)
         /\ \A c : Has(Chosen(list, at), c) <=> \E i \in at : list[i] = c
<1> DEFINE db == [i \in at |-> list[i]]
           m == Cardinality(DOMAIN db)
           up == Ascending(DOMAIN db)
           out == Chosen(list, at)
<1>1. at \in SUBSET Nat /\ IsFiniteSet(at)
  <2>1. at \in SUBSET (1 .. Len(list)) /\ Len(list) \in Nat /\ IsFiniteSet(1 .. Len(list))
    BY FS_Interval
  <2>2. 1 .. Len(list) \in SUBSET Nat
    BY <2>1
  <2> QED BY <2>1, <2>2, FS_Subset
<1>2. DOMAIN db = at /\ (\A i \in at : db[i] = list[i]) /\ (\A i \in at : list[i] \in S) /\ out = InOrder(db)
  BY DEF Chosen
<1> HIDE DEF db, out
<1>3. DOMAIN db \in SUBSET Nat /\ IsFiniteSet(DOMAIN db)
  BY <1>1, <1>2
<1>4. /\ m \in Nat /\ DOMAIN out = 1 .. m /\ out = [i \in 1 .. m |-> db[up[i]]]
  BY <1>2, <1>3, InOrderIs
<1>5. /\ up \in [1 .. m -> DOMAIN db]
      /\ \A x \in DOMAIN db : \E i \in 1 .. m : up[i] = x
  BY <1>3, AscendingIs
<1> HIDE DEF m, up
<1>6. out \in [1 .. m -> S]
  BY <1>2, <1>4, <1>5
<1>7. \A i \in 1 .. m : up[i] \in at /\ out[i] = list[up[i]]
  BY <1>2, <1>4, <1>5
<1>8. \A c : Has(out, c) <=> \E i \in at : list[i] = c
  <2> SUFFICES ASSUME NEW c PROVE Has(out, c) <=> \E i \in at : list[i] = c
    OBVIOUS
  <2>1. ASSUME Has(out, c) PROVE \E i \in at : list[i] = c
    BY <1>4, <1>7, <2>1 DEF Has
  <2>2. ASSUME NEW i \in at, list[i] = c PROVE Has(out, c)
    <3>1. PICK j \in 1 .. m : up[j] = i
      BY <1>2, <1>5
    <3> QED BY <1>4, <1>7, <2>2, <3>1 DEF Has
  <2> QED BY <2>1, <2>2
<1>9. out \in Seq(S)
  BY <1>4, <1>6
<1> QED BY <1>8, <1>9 DEF out

LEMMA RequestsAre ==
  /\ \A S : \A c : c \in Requests(S) <=> \E h \in S : c = <<"change", h>>
  /\ \A R \in SUBSET Requestable : \A h : h \in ChangesOf(R) <=> <<"change", h>> \in R
  /\ \A c \in Requestable : c[1] # "state" => c = <<"change", c[2]>> /\ c[2] \in Changes
  /\ \A c \in Requestable : c[1] = "change" => c = <<"change", c[2]>> /\ c[2] \in Changes
  /\ Requests(Changes) \subseteq Requestable
<1>1. \A S : \A c : c \in Requests(S) <=> \E h \in S : c = <<"change", h>>
  BY DEF Requests
<1>2. ASSUME NEW c \in Requestable
      PROVE  \/ \E h \in Changes : c = <<"change", h>>
             \/ \E m \in SUBSET Changes : c = <<"state", m>>
  BY DEF Requestable, Requests
<1>3. ASSUME NEW c \in Requestable, c[1] = "change" \/ c[1] # "state"
      PROVE  c = <<"change", c[2]>> /\ c[2] \in Changes
  <2>1. CASE \E h \in Changes : c = <<"change", h>>
    BY <2>1
  <2>2. CASE \E m \in SUBSET Changes : c = <<"state", m>>
    BY <1>3, <2>2
  <2> QED BY <1>2, <2>1, <2>2
<1>4. ASSUME NEW R \in SUBSET Requestable, NEW h PROVE h \in ChangesOf(R) <=> <<"change", h>> \in R
  <2>1. ASSUME h \in ChangesOf(R) PROVE <<"change", h>> \in R
    <3>1. PICK c \in R : c[1] = "change" /\ h = c[2]
      BY <2>1 DEF ChangesOf
    <3> QED BY <1>3, <3>1
  <2>2. ASSUME <<"change", h>> \in R PROVE h \in ChangesOf(R)
    <3> DEFINE c == <<"change", h>>
    <3>1. c \in R /\ c[1] = "change" /\ c[2] = h
      BY <2>2
    <3> HIDE DEF c
    <3> QED BY <3>1 DEF ChangesOf
  <2> QED BY <2>1, <2>2
<1>5. Requests(Changes) \subseteq Requestable
  BY DEF Requestable
<1> QED BY <1>1, <1>3, <1>4, <1>5

LEMMA MissingIs ==
  ASSUME NEW h \in Changes, NEW had
  PROVE  /\ MissingDependencies(h, had) \in Seq(Requestable)
         /\ \A c : Has(MissingDependencies(h, had), c) => c \in Requests(DependsOn(h))
<1> DEFINE deps == Dependencies[h]
           asks == [i \in DOMAIN deps |-> <<"change", deps[i]>>]
           at == {i \in DOMAIN asks : asks[i] \notin had}
<1>1. deps \in Seq(Changes) /\ DOMAIN deps = 1 .. Len(deps) /\ Len(deps) \in Nat
  BY DependenciesAreChanges
<1>2. \A i \in DOMAIN deps : deps[i] \in DependsOn(h) /\ deps[i] \in Changes
  BY <1>1 DEF DependsOn, Range
<1>3. DOMAIN asks = DOMAIN deps /\ \A i \in DOMAIN deps : asks[i] = <<"change", deps[i]>>
  OBVIOUS
<1>4. at \in SUBSET (DOMAIN asks) /\ MissingDependencies(h, had) = Chosen(asks, at)
  BY DEF MissingDependencies
<1>5. asks \in Seq(Requestable)
  <2>1. \A i \in DOMAIN deps : asks[i] \in Requestable
    BY <1>2, <1>3, RequestsAre
  <2>2. asks = [i \in 1 .. Len(deps) |-> asks[i]]
    BY <1>1
  <2> HIDE DEF asks, deps
  <2>3. asks \in [1 .. Len(deps) -> Requestable]
    BY <1>1, <2>1, <2>2
  <2> QED BY <1>1, <2>3
<1> HIDE DEF asks, at, deps
<1>6. /\ Chosen(asks, at) \in Seq(Requestable)
      /\ \A c : Has(Chosen(asks, at), c) <=> \E i \in at : asks[i] = c
  BY <1>4, <1>5, ChosenIs
<1>7. \A i \in at : asks[i] \in Requests(DependsOn(h))
  BY <1>2, <1>3, <1>4, RequestsAre
<1> QED BY <1>4, <1>6, <1>7

(* A change that arrived leaves the wait, the requests for what it misses  *)
(* join it.                                                                *)
LEMMA CountedGood ==
  ASSUME NEW t, TaskGood(t), t.arrived # <<>>, t.receiver = "running",
         Head(t.arrived)[1] \in Requests(Changes), NEW fresh \in Seq(Requestable),
         NEW new, TaskShaped(new), new.arrived = Tail(t.arrived),
         new.queue = t.queue \o fresh, new.asked = t.asked \cup Range(fresh),
         new.waiting = t.waiting - 1 + Len(fresh),
         \/ new.ready = Append(t.ready, Head(t.arrived)[1]) /\ new.held = t.held
         \/ new.held = Append(t.held, Head(t.arrived)[1]) /\ new.ready = t.ready,
         new.taken = t.taken, new.sent = t.sent, new.current = t.current,
         new.downloader = t.downloader, new.receiver = t.receiver
  PROVE  TaskGood(new)
<1> DEFINE p0 == Head(t.arrived)
           c0 == p0[1]
<1>1. /\ t.queue \in Seq(Requestable) /\ t.arrived \in Seq(Requestable \X BOOLEAN)
      /\ t.held \in Seq(Requests(Changes)) /\ t.ready \in Seq(Requests(Changes))
      /\ Len(t.sent) \in Nat /\ t.current \in Nat /\ t.waiting \in Int
  BY DEF TaskGood, TaskTyped
<1>2. /\ p0 \in Requestable \X BOOLEAN /\ new.arrived \in Seq(Requestable \X BOOLEAN)
      /\ Len(t.arrived) \in Nat /\ Len(new.arrived) = Len(t.arrived) - 1
      /\ \A p : Has(t.arrived, p) <=> p = p0 \/ Has(new.arrived, p)
  BY <1>1, TailHas
<1>3. /\ new.queue \in Seq(Requestable) /\ Len(t.queue) \in Nat /\ Len(fresh) \in Nat
      /\ Len(new.queue) = Len(t.queue) + Len(fresh)
      /\ \A c : Has(new.queue, c) <=> Has(t.queue, c) \/ Has(fresh, c)
  BY <1>1, ConcatHas
<1>4. \A c : c \in Range(fresh) <=> Has(fresh, c)
  BY DEF Range, Has
<1>5. \A c : c \in Range(fresh) => c \in Requestable
  BY DEF Range
<1>6. PICK follow \in BOOLEAN : p0 = <<c0, follow>>
  BY <1>2
<1>7. /\ c0 \in Requests(Changes)
      /\ \/ new.ready = Append(t.ready, c0) /\ new.held = t.held
         \/ new.held = Append(t.held, c0) /\ new.ready = t.ready
  OBVIOUS
<1> HIDE DEF p0, c0
<1>8. /\ new.held \in Seq(Requests(Changes)) /\ new.ready \in Seq(Requests(Changes))
      /\ \A c : Has(new.held, c) \/ Has(new.ready, c) <=> c = c0 \/ Has(t.held, c) \/ Has(t.ready, c)
  <2>1. ASSUME NEW s \in Seq(Requests(Changes))
        PROVE  /\ Append(s, c0) \in Seq(Requests(Changes))
               /\ \A c : Has(Append(s, c0), c) <=> c = c0 \/ Has(s, c)
    BY <1>7, AppendHas
  <2>2. CASE new.ready = Append(t.ready, c0) /\ new.held = t.held
    <3>1. /\ new.ready \in Seq(Requests(Changes)) /\ \A c : Has(new.ready, c) <=> c = c0 \/ Has(t.ready, c)
      BY <1>1, <2>1, <2>2
    <3> QED BY <1>1, <2>2, <3>1
  <2>3. CASE new.held = Append(t.held, c0) /\ new.ready = t.ready
    <3>1. /\ new.held \in Seq(Requests(Changes)) /\ \A c : Has(new.held, c) <=> c = c0 \/ Has(t.held, c)
      BY <1>1, <2>1, <2>3
    <3> QED BY <1>1, <2>3, <3>1
  <2> QED BY <1>7, <2>2, <2>3
<1>9. \A c : Somewhere(new, c) <=> Somewhere(t, c) \/ Has(fresh, c)
  <2> SUFFICES ASSUME NEW c PROVE Somewhere(new, c) <=> Somewhere(t, c) \/ Has(fresh, c)
    OBVIOUS
  <2> DEFINE Unanswered == \E i \in DOMAIN t.sent : i > t.current /\ t.sent[i] = c
             In(a) == \E f \in BOOLEAN : Has(a, <<c, f>>)
  <2>1. In(t.arrived) <=> c = c0 \/ In(new.arrived)
    <3>1. \A f \in BOOLEAN : <<c, f>> = p0 => c = c0
      BY <1>6
    <3>2. c = c0 => In(t.arrived)
      BY <1>2, <1>6
    <3> QED BY <1>2, <3>1, <3>2
  <2>2. Somewhere(t, c) <=> \/ Has(t.queue, c) \/ Unanswered \/ In(t.arrived)
                            \/ Has(t.held, c) \/ Has(t.ready, c) \/ c \in t.taken
    BY DEF Somewhere
  <2>3. Somewhere(new, c) <=> \/ Has(new.queue, c) \/ Unanswered \/ In(new.arrived)
                              \/ Has(new.held, c) \/ Has(new.ready, c) \/ c \in t.taken
    BY DEF Somewhere
  <2> HIDE DEF Unanswered, In
  <2> QED BY <1>3, <1>8, <2>1, <2>2, <2>3
<1>10. Pending(new) = Pending(t) - 1 + Len(fresh) /\ Pending(t) \in Int
  <2> DEFINE q == Len(t.queue)
             m == Len(t.sent)
             a == Len(t.arrived)
             k == t.current
             f == Len(fresh)
  <2>1. /\ q \in Int /\ m \in Int /\ a \in Int /\ k \in Int /\ f \in Int
        /\ Pending(new) = (q + f) + (m - k) + (a - 1) /\ Pending(t) = q + (m - k) + a
    BY <1>1, <1>2, <1>3 DEF Pending
  <2> HIDE DEF q, m, a, k
  <2> QED BY <2>1
<1>11. TaskTyped(new)
  <2>1. new.asked \subseteq Requestable /\ new.waiting \in Int
    BY <1>1, <1>3, <1>5 DEF TaskGood, TaskTyped
  <2> QED BY <1>2, <1>3, <1>8, <2>1 DEF TaskGood, TaskTyped
<1>12. Counting(new)
  <2> DEFINE w == t.waiting
             v == Pending(t)
             f == Len(fresh)
  <2>1. w \in Int /\ v \in Int /\ f \in Int /\ new.waiting = w - 1 + f /\ Pending(new) = v - 1 + f /\ w >= v
    BY <1>1, <1>3, <1>10 DEF TaskGood, Counting
  <2> HIDE DEF w, v, f
  <2>2. new.waiting >= Pending(new) /\ (new.waiting = Pending(new) => w = v)
    BY <2>1
  <2>3. \A c : Somewhere(new, c) => c \in new.asked
    BY <1>4, <1>9 DEF TaskGood, Counting
  <2>4. w = v => \A c \in new.asked : Somewhere(new, c)
    BY <1>4, <1>9 DEF TaskGood, Counting, w, v
  <2>5. NoTag(new.asked) => w = v
    BY DEF NoTag, TaskGood, Counting, w, v
  <2>6. NoTag(new.asked) => new.waiting = Pending(new)
    BY <2>1, <2>5
  <2> QED BY <2>2, <2>3, <2>4, <2>6 DEF Counting
<1>13. Ending(new)
  BY DEF TaskGood, Ending
<1> QED BY <1>11, <1>12, <1>13 DEF TaskGood

(* A tag that arrived stays in the wait for good. *)
LEMMA TagReceivedGood ==
  ASSUME NEW t, TaskGood(t), t.arrived # <<>>, Head(t.arrived)[1][1] = "state",
         NEW new, TaskShaped(new), new.arrived = Tail(t.arrived),
         new.queue = t.queue, new.asked = t.asked, new.waiting = t.waiting,
         new.ready = t.ready, new.held = t.held,
         new.taken = t.taken, new.sent = t.sent, new.current = t.current,
         new.downloader = t.downloader, new.receiver = t.receiver
  PROVE  TaskGood(new)
<1>1. /\ t.arrived \in Seq(Requestable \X BOOLEAN) /\ Len(t.queue) \in Nat
      /\ Len(t.sent) \in Nat /\ t.current \in Nat /\ t.waiting \in Int
  BY DEF TaskGood, TaskTyped
<1>2. /\ new.arrived \in Seq(Requestable \X BOOLEAN)
      /\ Len(t.arrived) \in Nat /\ Len(new.arrived) = Len(t.arrived) - 1
      /\ \A p : Has(new.arrived, p) => Has(t.arrived, p)
  BY <1>1, TailHas
<1>3. \A c : Somewhere(new, c) => Somewhere(t, c)
  BY <1>2 DEF Somewhere
<1>4. Pending(new) = Pending(t) - 1 /\ Pending(t) \in Int
  <2> DEFINE q == Len(t.queue)
             m == Len(t.sent)
             a == Len(t.arrived)
             k == t.current
  <2>1. /\ q \in Int /\ m \in Int /\ a \in Int /\ k \in Int
        /\ Pending(new) = q + (m - k) + (a - 1) /\ Pending(t) = q + (m - k) + a
    BY <1>1, <1>2 DEF Pending
  <2> HIDE DEF q, m, a, k
  <2> QED BY <2>1
<1>5. TaskTyped(new)
  BY <1>2 DEF TaskGood, TaskTyped
<1>6. Counting(new)
  <2>1. t.waiting >= Pending(t) /\ \A c : Somewhere(t, c) => c \in t.asked
    BY DEF TaskGood, Counting
  <2>2. new.waiting > Pending(new) /\ new.waiting >= Pending(new)
    BY <1>1, <1>4, <2>1
  <2>3. new.waiting # Pending(new)
    BY <1>1, <1>4, <2>2
  <2>4. ~ NoTag(new.asked)
    <3>1. /\ Head(t.arrived) \in Requestable \X BOOLEAN /\ Has(t.arrived, Head(t.arrived))
      BY <1>1, TailHas
    <3>2. PICK c \in Requestable, follow \in BOOLEAN : Head(t.arrived) = <<c, follow>>
      BY <3>1
    <3>3. c[1] = "state"
      BY <3>2
    <3>4. Somewhere(t, c)
      BY <3>1, <3>2 DEF Somewhere
    <3> QED BY <2>1, <3>3, <3>4 DEF NoTag
  <2> QED BY <1>3, <2>1, <2>2, <2>3, <2>4 DEF Counting
<1>7. Ending(new)
  BY DEF TaskGood, Ending
<1> QED BY <1>5, <1>6, <1>7 DEF TaskGood

LEMMA ReceivedGood ==
  ASSUME NEW t, TaskGood(t), t.arrived # <<>>, t.receiver = "running", NEW had,
         NEW new, new = Receive(t, had)
  PROVE  /\ TaskGood(new) /\ new.taken = t.taken /\ t.asked \subseteq new.asked
         /\ new.sent = t.sent /\ (Awake(t) => Awake(new))
         /\ \A c \in new.asked : c \in t.asked \/
              \E h \in Changes : <<"change", h>> \in t.asked /\ c \in Requests(DependsOn(h))
<1> DEFINE p0 == Head(t.arrived)
           c0 == p0[1]
           h0 == c0[2]
           rest == Tail(t.arrived)
           t0 == [t EXCEPT !.arrived = rest]
           follow == p0[2]
<1>1. /\ t.arrived \in Seq(Requestable \X BOOLEAN) /\ t.queue \in Seq(Requestable)
      /\ t.ready \in Seq(Requests(Changes)) /\ t.held \in Seq(Requests(Changes))
      /\ t.downloader \in {"running", "failed"} /\ TaskShaped(t)
  BY DEF TaskGood, TaskTyped, Ending
<1>2. p0 \in Requestable \X BOOLEAN /\ \A p : p = p0 => Has(t.arrived, p)
  BY <1>1, TailHas
<1>3. c0 \in Requestable /\ follow \in BOOLEAN /\ p0 = <<c0, follow>>
  BY <1>2
<1>4. new = IF c0[1] = "state" THEN t0 ELSE ReceiveChange(t0, h0, follow, had)
  BY DEF Receive
<1>5. /\ TaskShaped(t0) /\ t0.arrived = rest /\ t0.queue = t.queue /\ t0.asked = t.asked
      /\ t0.waiting = t.waiting /\ t0.ready = t.ready /\ t0.held = t.held
      /\ t0.taken = t.taken /\ t0.sent = t.sent /\ t0.current = t.current
      /\ t0.downloader = t.downloader /\ t0.receiver = t.receiver
  <2>1. t0 = [t EXCEPT !.arrived = rest]
    OBVIOUS
  <2> HIDE DEF rest, t0
  <2> QED BY <1>1, <2>1 DEF TaskShaped
<1>6. CASE c0[1] = "state"
  <2>1. new = t0
    BY <1>4, <1>6
  <2> HIDE DEF t0
  <2>2. TaskGood(new)
    BY <1>5, <1>6, <2>1, TagReceivedGood
  <2> QED BY <1>5, <2>1, <2>2 DEF Awake
<1>7. CASE c0[1] # "state"
  <2>1. c0 = <<"change", h0>> /\ h0 \in Changes /\ c0 \in Requests(Changes)
    BY <1>3, <1>7, RequestsAre
  <2>2. c0 \in t.asked
    <3>1. Has(t.arrived, <<c0, follow>>)
      BY <1>2, <1>3
    <3>2. Somewhere(t, c0)
      <4> HIDE DEF c0, follow
      <4> QED BY <1>3, <3>1 DEF Somewhere
    <3> QED BY <3>2 DEF TaskGood, Counting
  <2> DEFINE missing == IF follow THEN MissingDependencies(h0, had) ELSE <<>>
             at == {i \in DOMAIN missing : missing[i] \notin t0.asked}
             fresh == Chosen(missing, at)
             asked == t0.asked \cup Range(fresh)
             queue == t0.queue \o fresh
             waiting == t0.waiting - 1 + Len(fresh)
             t1 == [t0 EXCEPT !.asked = asked, !.queue = queue, !.waiting = waiting]
             ready == Append(t1.ready, <<"change", h0>>)
             held == Append(t1.held, <<"change", h0>>)
             t2 == IF missing = <<>> THEN [t1 EXCEPT !.ready = ready] ELSE [t1 EXCEPT !.held = held]
  <2>3. /\ missing \in Seq(Requestable)
        /\ \A c : Has(missing, c) => c \in Requests(DependsOn(h0))
    <3>1. /\ MissingDependencies(h0, had) \in Seq(Requestable)
          /\ \A c : Has(MissingDependencies(h0, had), c) => c \in Requests(DependsOn(h0))
      BY <2>1, MissingIs
    <3>2. \A c : ~ Has(<<>>, c)
      BY DEF Has
    <3>3. <<>> \in Seq(Requestable)
      OBVIOUS
    <3> HIDE DEF h0, follow
    <3> QED BY <3>1, <3>2, <3>3
  <2>4. new = IF t2.waiting = 0 THEN Flushed(t2) ELSE t2
    <3>1. new = ReceiveChange(t0, h0, follow, had)
      BY <1>4, <1>7
    <3> HIDE DEF t0, h0, follow, c0
    <3> QED BY <3>1 DEF ReceiveChange
  <2>5. fresh \in Seq(Requestable) /\ \A c : Has(fresh, c) => Has(missing, c)
    <3>1. at \in SUBSET (DOMAIN missing)
      OBVIOUS
    <3> HIDE DEF at, missing
    <3>2. fresh \in Seq(Requestable) /\ \A c : Has(fresh, c) <=> \E i \in at : missing[i] = c
      BY <2>3, <3>1, ChosenIs
    <3> QED BY <3>1, <3>2 DEF Has
  <2>6. \A c \in Range(fresh) : c \in Requests(DependsOn(h0))
    <3> HIDE DEF fresh, missing
    <3> QED BY <2>3, <2>5 DEF Range, Has
  <2> HIDE DEF t0, t1
  <2>7. /\ TaskShaped(t1) /\ t1.arrived = rest /\ t1.queue = queue /\ t1.asked = asked
        /\ t1.waiting = waiting /\ t1.ready = t.ready /\ t1.held = t.held
        /\ t1.taken = t.taken /\ t1.sent = t.sent /\ t1.current = t.current
        /\ t1.downloader = t.downloader /\ t1.receiver = t.receiver
    <3>1. t1 = [t0 EXCEPT !.asked = asked, !.queue = queue, !.waiting = waiting]
      BY DEF t1
    <3> HIDE DEF asked, queue, waiting, rest
    <3> QED BY <1>5, <3>1 DEF TaskShaped
  <2>8. /\ TaskShaped(t2) /\ t2.arrived = rest /\ t2.queue = queue /\ t2.asked = asked
        /\ t2.waiting = waiting /\ t2.taken = t.taken /\ t2.sent = t.sent /\ t2.current = t.current
        /\ t2.downloader = t.downloader /\ t2.receiver = t.receiver
        /\ (t2.ready = ready /\ t2.held = t.held) \/ (t2.held = held /\ t2.ready = t.ready)
    <3> HIDE DEF asked, queue, waiting, rest, ready, held, missing
    <3>1. CASE missing = <<>>
      <4>1. t2 = [t1 EXCEPT !.ready = ready]
        BY <3>1
      <4> HIDE DEF t2
      <4> QED BY <2>7, <4>1 DEF TaskShaped
    <3>2. CASE missing # <<>>
      <4>1. t2 = [t1 EXCEPT !.held = held]
        BY <3>2
      <4> HIDE DEF t2
      <4> QED BY <2>7, <4>1 DEF TaskShaped
    <3> QED BY <3>1, <3>2
  <2> HIDE DEF t2, fresh, missing, at
  <2>9. TaskGood(t2)
    <3>1. /\ queue = t.queue \o fresh /\ asked = t.asked \cup Range(fresh)
          /\ waiting = t.waiting - 1 + Len(fresh)
          /\ ready = Append(t.ready, c0) /\ held = Append(t.held, c0)
      BY <1>5, <2>1, <2>7
    <3> HIDE DEF asked, queue, waiting, ready, held
    <3> QED BY <2>1, <2>5, <2>8, <3>1, CountedGood
  <2>10. TaskGood(new) /\ Awake(new) /\ new.asked = asked /\ new.taken = t.taken /\ new.sent = t.sent
    <3>1. CASE t2.waiting = 0
      <4>1. new = Flushed(t2)
        BY <2>4, <3>1
      <4>2. TaskShaped(t2) /\ TaskTyped(t2) /\ Counting(t2) /\ t2.downloader \in {"running", "failed"}
        BY <1>1, <2>8, <2>9 DEF TaskGood
      <4>3. /\ TaskGood(Flushed(t2)) /\ Flushed(t2).asked = t2.asked /\ Flushed(t2).taken = t2.taken
            /\ Awake(Flushed(t2)) /\ Flushed(t2).sent = t2.sent
        BY <3>1, <4>2, FlushedGood
      <4> QED BY <2>8, <4>1, <4>3
    <3>2. CASE t2.waiting # 0
      BY <2>4, <2>8, <2>9, <3>2 DEF Awake
    <3> QED BY <3>1, <3>2
  <2>11. \A c \in asked : c \in t.asked \/ c \in Requests(DependsOn(h0))
    BY <1>5, <2>6
  <2> HIDE DEF h0, c0, asked
  <2>12. <<"change", h0>> \in t.asked /\ h0 \in Changes
    BY <2>1, <2>2
  <2>13. t.asked \subseteq asked
    BY <1>5 DEF asked
  <2> QED BY <2>10, <2>11, <2>12, <2>13
<1> QED BY <1>6, <1>7

-----------------------------------------------------------------------------
(* Closed sets of changes *)

LEMMA DependenciesIn ==
  ASSUME NEW h \in Changes PROVE DependsOn(h) \subseteq Changes
<1>1. Dependencies[h] \in Seq(Changes)
  BY DependenciesAreChanges
<1> DEFINE d == Dependencies[h]
<1>2. \A i \in DOMAIN d : d[i] \in Changes
  BY <1>1
<1> QED BY <1>2 DEF DependsOn, Range

LEMMA ClosureIs ==
  ASSUME NEW h \in Changes
  PROVE  /\ h \in Closure(h) /\ Closure(h) \subseteq Changes /\ Closed(Closure(h))
         /\ \A S \in SUBSET Changes : h \in S /\ Closed(S) => Closure(h) \subseteq S
<1>1. h \in Closure(h) /\ Closure(h) \subseteq Changes
  BY DEF Closure
<1>2. ASSUME NEW S \in SUBSET Changes, h \in S, Closed(S) PROVE Closure(h) \subseteq S
  BY <1>2 DEF Closure
<1>3. ASSUME NEW x \in Closure(h), NEW y \in DependsOn(x) PROVE y \in Closure(h)
  <2>1. x \in Changes /\ y \in Changes
    BY <1>1, DependenciesIn
  <2>2. ASSUME NEW S \in SUBSET Changes, h \in S, Closed(S) PROVE y \in S
    <3>1. x \in S
      BY <1>2, <2>2
    <3> QED BY <2>2, <3>1 DEF Closed
  <2> QED BY <2>1, <2>2 DEF Closure
<1> QED BY <1>1, <1>2, <1>3 DEF Closed

LEMMA SoundClosed ==
  ASSUME NEW ch, Sound(ch)
  PROVE  /\ Closed(On(ch)) /\ On(ch) \in SUBSET Changes
         /\ \A n : StateAt(ch, n) \subseteq On(ch)
         /\ LogGood(ch) => \A n \in DOMAIN ch.log : Closed(StateAt(ch, n))
<1>1. Closed(On(ch))
  BY DEF Sound, Ordered, Closed, On
<1>2. \A n : StateAt(ch, n) \subseteq On(ch)
  BY DEF StateAt, UpTo, On
<1>3. ASSUME LogGood(ch), NEW n \in DOMAIN ch.log, NEW k \in UpTo(ch.log, n), NEW x \in DependsOn(ch.log[k])
      PROVE  x \in StateAt(ch, n)
  <2>1. \A i \in DOMAIN ch.log : i \in Nat
    BY <1>3, PositionsAre DEF LogGood, LogOK
  <2>2. k \in DOMAIN ch.log /\ k =< n
    BY DEF UpTo
  <2>3. PICK i \in DOMAIN ch.log : i < k /\ ch.log[i] = x
    BY <2>2 DEF Sound, Ordered
  <2>4. i =< n
    BY <2>1, <2>2, <2>3
  <2> QED BY <2>3, <2>4 DEF StateAt, UpTo
<1>4. LogGood(ch) => \A n \in DOMAIN ch.log : Closed(StateAt(ch, n))
  BY <1>3 DEF Closed, StateAt
<1> QED BY <1>1, <1>2, <1>4 DEF Sound

(* A channel stays sound, whatever is done to it. *)
LEMMA PutSound ==
  ASSUME NEW ch, LogGood(ch), Sound(ch), NEW h \in Changes, MayApply(ch, h)
  PROVE  Sound(put_change(ch, h))
<1> DEFINE hs == <<h>>
<1>1. Listing(hs) /\ \A i \in DOMAIN hs : hs[i] = h
  BY DEF Listing
<1>2. put_change(ch, h) = Extended(ch, hs)
  BY DEF put_change
<1> HIDE DEF hs
<1>3. On(put_change(ch, h)) \subseteq On(ch) \cup {h}
  BY <1>1, <1>2, ExtendedIs
<1> QED BY <1>3, PutGood DEF Sound

LEMMA UnrecordSound ==
  ASSUME NEW ch, LogGood(ch), Sound(ch), NEW h, MayUnrecord(ch, h)
  PROVE  Sound(unrecord(ch, h)) /\ LogGood(unrecord(ch, h))
<1>1. On(unrecord(ch, h)) \subseteq On(ch)
  BY UnrecordIs DEF On
<1> QED BY <1>1, UnrecordIs DEF Sound

LEMMA TagSound ==
  ASSUME NEW ch, LogGood(ch), Sound(ch), NEW n
  PROVE  Sound(put_tag_here(ch, n))
<1>1. On(put_tag_here(ch, n)) = On(ch)
  BY TagGood DEF On
<1> QED BY <1>1, TagGood DEF Sound

LEMMA RenumberedSound ==
  ASSUME NEW ch, LogGood(ch), Sound(ch)
  PROVE  Sound(Renumbered(ch))
BY RenumberedGood DEF Sound

LEMMA AppliedSound ==
  ASSUME NEW ch, LogGood(ch), Sound(ch), NEW h \in Changes, NEW after \in apply_change_rec(ch, h)
  PROVE  Sound(after) /\ On(after) = On(ch) \cup Closure(h)
<1>1. Ordered(ch) /\ On(ch) \subseteq Changes
  BY DEF Sound
<1>2. Ordered(after) /\ On(after) = On(ch) \cup Closure(h)
  BY <1>1, AppliedIs
<1> QED BY <1>1, <1>2, ClosureIs DEF Sound

-----------------------------------------------------------------------------
(* What is in a list *)

LEMMA RangeHas == \A s, c : c \in Range(s) <=> Has(s, c)
BY DEF Range, Has

LEMMA InOrderHas ==
  ASSUME NEW S, NEW db, DOMAIN db \in SUBSET Nat, IsFiniteSet(DOMAIN db),
         \A k \in DOMAIN db : db[k] \in S
  PROVE  InOrder(db) \in Seq(S) /\ \A c : Has(InOrder(db), c) <=> \E k \in DOMAIN db : db[k] = c
<1> DEFINE m == Cardinality(DOMAIN db)
           up == Ascending(DOMAIN db)
           out == InOrder(db)
<1>1. /\ m \in Nat /\ DOMAIN out = 1 .. m /\ out = [i \in 1 .. m |-> db[up[i]]]
  BY InOrderIs
<1>2. /\ up \in [1 .. m -> DOMAIN db]
      /\ \A x \in DOMAIN db : \E i \in 1 .. m : up[i] = x
  BY AscendingIs
<1> HIDE DEF m, up, out
<1>3. out \in [1 .. m -> S]
  BY <1>1, <1>2
<1>4. \A i \in 1 .. m : up[i] \in DOMAIN db /\ out[i] = db[up[i]]
  BY <1>1, <1>2
<1>5. \A c : Has(out, c) <=> \E k \in DOMAIN db : db[k] = c
  BY <1>1, <1>2, <1>4 DEF Has
<1>6. out \in Seq(S)
  BY <1>1, <1>3
<1> QED BY <1>5, <1>6 DEF out

LEMMA ReverseHas ==
  ASSUME NEW S, NEW list \in Seq(S)
  PROVE  Reverse(list) \in Seq(S) /\ \A c : Has(Reverse(list), c) <=> Has(list, c)
<1> DEFINE n == Len(list)
           out == Reverse(list)
<1>1. n \in Nat /\ DOMAIN list = 1 .. n /\ \A i \in 1 .. n : list[i] \in S
  OBVIOUS
<1>2. out = [i \in 1 .. n |-> list[(n - i) + 1]]
  BY DEF Reverse
<1> HIDE DEF n, out
<1>3. \A i \in 1 .. n : (n - i) + 1 \in 1 .. n /\ (n - ((n - i) + 1)) + 1 = i
  BY <1>1
<1>4. DOMAIN out = 1 .. n /\ \A i \in 1 .. n : out[i] = list[(n - i) + 1]
  BY <1>2
<1>5. out \in [1 .. n -> S]
  BY <1>1, <1>2, <1>3
<1>6. \A c : Has(out, c) => Has(list, c)
  BY <1>1, <1>3, <1>4 DEF Has
<1>7. ASSUME NEW i \in 1 .. n PROVE Has(out, list[i])
  <2> DEFINE j == (n - i) + 1
  <2>1. j \in 1 .. n /\ (n - j) + 1 = i
    BY <1>3
  <2> HIDE DEF j
  <2>2. out[j] = list[i]
    BY <1>4, <2>1
  <2> QED BY <1>4, <2>1, <2>2 DEF Has
<1>8. \A c : Has(list, c) => Has(out, c)
  BY <1>1, <1>7 DEF Has
<1>9. out \in Seq(S)
  BY <1>1, <1>5
<1> QED BY <1>6, <1>8, <1>9 DEF out

LEMMA DedupedHas ==
  ASSUME NEW S, NEW list \in Seq(S)
  PROVE  Deduped(list) \in Seq(S) /\ \A c : Has(Deduped(list), c) <=> Has(list, c)
<1> DEFINE at == {i \in DOMAIN list : \A j \in 1 .. i - 1 : list[j] # list[i]}
<1>1. Deduped(list) = Chosen(list, at)
  BY DEF Deduped
<1>2. at \in SUBSET (DOMAIN list)
  OBVIOUS
<1>3. ASSUME NEW c, Has(list, c) PROVE \E i \in at : list[i] = c
  <2> DEFINE where == {i \in DOMAIN list : list[i] = c}
             first == FirstOf(where)
  <2>0. DOMAIN list = 1 .. Len(list) /\ Len(list) \in Nat
    OBVIOUS
  <2>1. where \in SUBSET Nat /\ where # {}
    BY <1>3, <2>0 DEF Has
  <2>2. first \in where /\ \A i \in where : first =< i
    <3> HIDE DEF where
    <3> QED BY <2>1, FirstOfSet
  <2> HIDE DEF first
  <2>3. first \in 1 .. Len(list) /\ list[first] = c
    BY <2>0, <2>2
  <2>4. ASSUME NEW j \in 1 .. first - 1 PROVE list[j] # c
    <3>1. j \in DOMAIN list /\ ~ (first =< j)
      BY <2>0, <2>3
    <3> QED BY <2>2, <3>1
  <2> QED BY <2>0, <2>3, <2>4
<1>4. \A i \in at : Has(list, list[i])
  BY DEF Has
<1> HIDE DEF at
<1> QED BY <1>1, <1>2, <1>3, <1>4, ChosenIs

LEMMA InterleavedHas ==
  ASSUME NEW next \in Nat, NEW hs, NEW ms, DOMAIN hs \subseteq 0 .. next - 1, DOMAIN ms \subseteq 0 .. next - 1,
         \A k \in DOMAIN hs : hs[k] \in Changes, \A k \in DOMAIN ms : ms[k] \in SUBSET Changes
  PROVE  /\ Interleaved(hs, ms) \in Seq(Requestable)
         /\ \A h : Has(Interleaved(hs, ms), <<"change", h>>) <=> \E k \in DOMAIN hs : hs[k] = h
<1> DEFINE S == {2 * k : k \in DOMAIN hs} \cup {2 * k + 1 : k \in DOMAIN ms}
           f == [s \in S |-> IF s % 2 = 0 THEN <<"change", hs[s \div 2]>>
                             ELSE <<"state", ms[s \div 2]>>]
           list == Interleaved(hs, ms)
<1>0. \A k : k \in DOMAIN hs \/ k \in DOMAIN ms => k \in Nat /\ k =< next - 1
  <2>1. \A k \in 0 .. next - 1 : k \in Nat /\ k =< next - 1
    OBVIOUS
  <2> QED BY <2>1
<1>1. S \in SUBSET Nat /\ IsFiniteSet(S)
  <2>1. ASSUME NEW s \in S PROVE s \in 0 .. 2 * next
    BY <1>0
  <2>2. IsFiniteSet(0 .. 2 * next)
    BY FS_Interval
  <2>3. S \in SUBSET (0 .. 2 * next)
    BY <2>1
  <2> HIDE DEF S
  <2>4. 0 .. 2 * next \in SUBSET Nat
    OBVIOUS
  <2> QED BY <2>2, <2>3, <2>4, FS_Subset
<1>2. \A s \in S : \/ \E k \in DOMAIN hs : s = 2 * k /\ s % 2 = 0 /\ s \div 2 = k
                   \/ \E k \in DOMAIN ms : s = 2 * k + 1 /\ s % 2 = 1 /\ s \div 2 = k
  BY <1>0
<1>3. \A k \in DOMAIN hs : 2 * k \in S /\ (2 * k) % 2 = 0 /\ (2 * k) \div 2 = k
  BY <1>0
<1>4. list = InOrder(f) /\ DOMAIN f = S
  BY DEF Interleaved
<1>5. \A s \in S : f[s] = IF s % 2 = 0 THEN <<"change", hs[s \div 2]>> ELSE <<"state", ms[s \div 2]>>
  OBVIOUS
<1> HIDE DEF S, f, list
<1>6. ASSUME NEW s \in S
      PROVE  \/ \E k \in DOMAIN hs : f[s] = <<"change", hs[k]>>
             \/ \E k \in DOMAIN ms : f[s] = <<"state", ms[k]>>
  <2>1. CASE \E k \in DOMAIN hs : s = 2 * k /\ s % 2 = 0 /\ s \div 2 = k
    BY <1>5, <2>1
  <2>2. CASE \E k \in DOMAIN ms : s = 2 * k + 1 /\ s % 2 = 1 /\ s \div 2 = k
    <3>1. PICK k \in DOMAIN ms : s = 2 * k + 1 /\ s % 2 = 1 /\ s \div 2 = k
      BY <2>2
    <3>2. s % 2 # 0
      BY <3>1
    <3> QED BY <1>5, <3>1, <3>2
  <2> QED BY <1>2, <2>1, <2>2
<1>7. \A k \in DOMAIN hs : \E s \in S : f[s] = <<"change", hs[k]>>
  BY <1>3, <1>5
<1>8. \A s \in S : f[s] \in Requestable
  <2>1. \A h \in Changes : <<"change", h>> \in Requestable
    BY DEF Requestable, Requests
  <2>2. \A m \in SUBSET Changes : <<"state", m>> \in Requestable
    BY DEF Requestable
  <2> QED BY <1>6, <2>1, <2>2
<1>9. list \in Seq(Requestable) /\ \A c : Has(list, c) <=> \E s \in S : f[s] = c
  BY <1>1, <1>4, <1>8, InOrderHas
<1>10. ASSUME NEW h, NEW s \in S, f[s] = <<"change", h>> PROVE \E k \in DOMAIN hs : hs[k] = h
  <2>1. \A k : f[s] # <<"state", ms[k]>>
    BY <1>10
  <2> QED BY <1>6, <1>10, <2>1
<1> QED BY <1>7, <1>9, <1>10 DEF list


-----------------------------------------------------------------------------
(* What is asked for *)

(* What a changelist shows is on the channel. *)
LEMMA ChangelistIs ==
  ASSUME NEW ch, LogGood(ch), Sound(ch), NEW n
  PROVE  LET theirs == changelist(ch, n)
         IN  /\ DOMAIN theirs = From(ch.log, n) /\ DOMAIN theirs \subseteq 0 .. ch.next - 1
             /\ \A k \in DOMAIN theirs :
                  /\ theirs[k].h = ch.log[k] /\ theirs[k].h \in On(ch)
                  /\ theirs[k].h \in Changes /\ theirs[k].m \in SUBSET Changes
<1> DEFINE theirs == changelist(ch, n)
<1>1. /\ DOMAIN theirs = From(ch.log, n)
      /\ \A k \in DOMAIN theirs : theirs[k].h = ch.log[k] /\ theirs[k].m = StateAt(ch, k)
  BY DEF changelist
<1>2. \A k \in From(ch.log, n) : k \in DOMAIN ch.log
  BY DEF From
<1> HIDE DEF theirs
<1>3. \A k \in DOMAIN theirs : theirs[k].h \in On(ch) /\ theirs[k].m \subseteq On(ch)
  <2>1. \A k \in DOMAIN theirs : theirs[k].h \in On(ch)
    BY <1>1, <1>2 DEF On
  <2>2. \A k \in DOMAIN theirs : theirs[k].m \subseteq On(ch)
    BY <1>1, SoundClosed
  <2> QED BY <2>1, <2>2
<1>4. On(ch) \subseteq Changes /\ DOMAIN ch.log \subseteq 0 .. ch.next - 1
  BY DEF Sound, LogGood, LogOK, Positions
<1> SUFFICES /\ DOMAIN theirs = From(ch.log, n) /\ DOMAIN theirs \subseteq 0 .. ch.next - 1
             /\ \A k \in DOMAIN theirs :
                  /\ theirs[k].h = ch.log[k] /\ theirs[k].h \in On(ch)
                  /\ theirs[k].h \in Changes /\ theirs[k].m \in SUBSET Changes
  BY DEF theirs
<1>5. \A k \in DOMAIN theirs : theirs[k].h \in Changes /\ theirs[k].m \in SUBSET Changes
  BY <1>3, <1>4
<1> QED BY <1>1, <1>2, <1>3, <1>4, <1>5

(* What is missing is what the channel lacks. *)
LEMMA MissingHas ==
  ASSUME NEW next \in Nat, NEW theirs, DOMAIN theirs \subseteq 0 .. next - 1,
         \A k \in DOMAIN theirs : theirs[k].h \in Changes /\ theirs[k].m \in SUBSET Changes, NEW ch
  PROVE  /\ Missing(ch, theirs) \in Seq(Requestable)
         /\ \A h : Has(Missing(ch, theirs), <<"change", h>>)
                     <=> h \notin On(ch) /\ \E k \in DOMAIN theirs : theirs[k].h = h
<1> DEFINE new == {k \in DOMAIN theirs : theirs[k].h \notin On(ch)}
           tag == {k \in DOMAIN theirs : theirs[k].tag /\ theirs[k].m \notin TaggedStates(ch)}
           hs == [k \in new |-> theirs[k].h]
           ms == [k \in tag |-> theirs[k].m]
<1>1. Missing(ch, theirs) = Interleaved(hs, ms)
  BY DEF Missing
<1>2. /\ DOMAIN hs = new /\ (\A k \in DOMAIN hs : hs[k] = theirs[k].h /\ hs[k] \in Changes)
      /\ DOMAIN ms = tag /\ (\A k \in DOMAIN ms : ms[k] \in SUBSET Changes)
  OBVIOUS
<1>3. DOMAIN hs \subseteq 0 .. next - 1 /\ DOMAIN ms \subseteq 0 .. next - 1
  BY <1>2
<1>4. \A h : (\E k \in DOMAIN hs : hs[k] = h) <=> h \notin On(ch) /\ \E k \in DOMAIN theirs : theirs[k].h = h
  OBVIOUS
<1> HIDE DEF new, tag, hs, ms
<1>5. /\ Interleaved(hs, ms) \in Seq(Requestable)
      /\ \A h : Has(Interleaved(hs, ms), <<"change", h>>) <=> \E k \in DOMAIN hs : hs[k] = h
  <2>1. next \in Nat
    OBVIOUS
  <2> QED BY ONLY <1>2, <1>3, <2>1, InterleavedHas
<1> QED BY ONLY <1>1, <1>4, <1>5

(* A change that the channel lacks is above the newest state it knows. *)
LEMMA NewestHas ==
  ASSUME NEW ch, NEW state, NEW k \in DOMAIN state, NEW h, h \notin On(ch),
         \A j \in From(state, k) : h \in state[j]
  PROVE  k \in Newest(state, States(ch))
<1>1. \A m \in States(ch) : h \notin m
  BY DEF States, StateAt, UpTo, On
<1> QED BY <1>1 DEF Newest

(* The requests at some positions, in their order or from the end. *)
LEMMA AskedHas ==
  ASSUME NEW asked, DOMAIN asked \in SUBSET Nat, IsFiniteSet(DOMAIN asked),
         \A k \in DOMAIN asked : asked[k] \in Requests(Changes)
  PROVE  /\ InOrder(asked) \in Seq(Requests(Changes)) /\ Reverse(InOrder(asked)) \in Seq(Requests(Changes))
         /\ \A c : Has(InOrder(asked), c) <=> \E k \in DOMAIN asked : asked[k] = c
         /\ \A c : Has(Reverse(InOrder(asked)), c) <=> \E k \in DOMAIN asked : asked[k] = c
<1> DEFINE list == InOrder(asked)
<1>1. /\ list \in Seq(Requests(Changes))
      /\ \A c : Has(list, c) <=> \E k \in DOMAIN asked : asked[k] = c
  BY InOrderHas
<1> HIDE DEF list
<1>2. /\ Reverse(list) \in Seq(Requests(Changes))
      /\ \A c : Has(Reverse(list), c) <=> Has(list, c)
  BY <1>1, ReverseHas
<1> QED BY <1>1, <1>2 DEF list

(* A pull asks for all that is remembered or newly listed, and that the    *)
(* channel lacks.                                                          *)
LEMMA ToDownloadHas ==
  ASSUME NEW R, NEW c, CacheOK(c, R), Remembered(c) \subseteq Changes,
         NEW next \in Nat, NEW theirs, DOMAIN theirs \subseteq 0 .. next - 1,
         \A k \in DOMAIN theirs : theirs[k].h \in Changes /\ theirs[k].m \in SUBSET Changes, NEW ch
  PROVE  LET list == ToDownload(c, ch, theirs)
             all == Remembered(c) \cup {theirs[k].h : k \in DOMAIN theirs}
         IN  /\ list \in Seq(Requestable)
             /\ \A h : Has(list, <<"change", h>>) => h \in all
             /\ \A h \in all : h \in On(ch) \/ Has(list, <<"change", h>>)
<1> DEFINE new == NewCached(c, ch)
           asked == [k \in NewCached(c, ch) |-> <<"change", c.remote[k].a>>]
           first == Reverse(InOrder(asked))
           rest == Missing(ch, theirs)
           list == ToDownload(c, ch, theirs)
           all == Remembered(c) \cup {theirs[k].h : k \in DOMAIN theirs}
           a == [k \in DOMAIN c.remote |-> c.remote[k].a]
           state == [k \in DOMAIN c.remote |-> c.remote[k].b]
<1>1. list = Deduped(first \o rest)
  BY DEF ToDownload
<1>2. new = {k \in Newest(state, States(ch)) : c.remote[k].a \notin On(ch)}
  BY DEF NewCached
<1>3. Positions(c.remote, R.next) /\ DOMAIN c.remote \in SUBSET Nat /\ IsFiniteSet(DOMAIN c.remote)
  BY PositionsAre DEF CacheOK
<1>4. DOMAIN state = DOMAIN c.remote /\ \A k \in DOMAIN c.remote : state[k] = c.remote[k].b
  OBVIOUS
<1>5. DOMAIN asked = new /\ (\A k \in new : asked[k] = <<"change", c.remote[k].a>>)
  OBVIOUS
<1>6. \A k \in DOMAIN c.remote : a[k] = c.remote[k].a /\ a[k] \in Remembered(c)
  BY DEF Remembered
<1> HIDE DEF state, asked, a
<1>7. new \in SUBSET DOMAIN c.remote
  BY <1>2, <1>4 DEF Newest
<1> HIDE DEF new
<1>8. new \in SUBSET Nat /\ IsFiniteSet(new)
  BY <1>3, <1>7, FS_Subset
<1>9. \A k \in new : a[k] \in Changes /\ asked[k] = <<"change", a[k]>>
  BY <1>5, <1>6, <1>7
<1>10. /\ first \in Seq(Requests(Changes))
       /\ \A h : Has(first, <<"change", h>>) <=> \E k \in new : a[k] = h
  <2>1. \A k \in DOMAIN asked : asked[k] \in Requests(Changes)
    BY <1>5, <1>9 DEF Requests
  <2>2. DOMAIN asked \in SUBSET Nat /\ IsFiniteSet(DOMAIN asked)
    BY <1>5, <1>8
  <2>3. /\ first \in Seq(Requests(Changes))
        /\ \A d : Has(first, d) <=> \E k \in DOMAIN asked : asked[k] = d
    BY ONLY <2>1, <2>2, AskedHas
  <2>4. \A h : \A k \in new : asked[k] = <<"change", h>> <=> a[k] = h
    BY <1>9
  <2> QED BY <1>5, <2>3, <2>4
<1>11. /\ rest \in Seq(Requestable)
       /\ \A h : Has(rest, <<"change", h>>) <=> h \notin On(ch) /\ \E k \in DOMAIN theirs : theirs[k].h = h
  BY MissingHas
<1> HIDE DEF first, rest, list
<1>12. first \in Seq(Requestable)
  <2>1. Requests(Changes) \subseteq Requestable
    BY RequestsAre
  <2> QED BY <1>10, <2>1
<1>13. list \in Seq(Requestable) /\ \A d : Has(list, d) <=> Has(first, d) \/ Has(rest, d)
  <2>1. first \o rest \in Seq(Requestable) /\ \A d : Has(first \o rest, d) <=> Has(first, d) \/ Has(rest, d)
    BY <1>11, <1>12, ConcatHas
  <2> QED BY <1>1, <2>1, DedupedHas
<1>14. ASSUME NEW k \in DOMAIN c.remote, a[k] \notin On(ch) PROVE k \in new
  <2>1. ASSUME NEW j \in From(state, k) PROVE a[k] \in state[j]
    <3>1. j \in DOMAIN c.remote /\ j >= k
      BY <1>4 DEF From
    <3>2. k \in UpTo(c.remote, j)
      BY <1>3, <3>1 DEF UpTo
    <3>3. c.remote[j].b = {c.remote[i].a : i \in UpTo(c.remote, j)}
      BY <3>1 DEF CacheOK
    <3> QED BY <1>4, <1>6, <3>1, <3>2, <3>3
  <2>2. k \in Newest(state, States(ch))
    BY <1>4, <1>14, <2>1, NewestHas
  <2> QED BY <1>2, <1>6, <1>14, <2>2
<1>15. ASSUME NEW h, Has(list, <<"change", h>>) PROVE h \in all
  BY <1>6, <1>7, <1>10, <1>11, <1>13, <1>15
<1>16. ASSUME NEW h \in all, h \notin On(ch) PROVE Has(list, <<"change", h>>)
  <2>1. CASE h \in Remembered(c)
    <3>1. PICK k \in DOMAIN c.remote : a[k] = h
      BY <1>6, <2>1 DEF Remembered
    <3>2. k \in new
      BY <1>14, <1>16, <3>1
    <3> QED BY <1>10, <1>13, <3>1, <3>2
  <2>2. CASE \E k \in DOMAIN theirs : theirs[k].h = h
    BY <1>11, <1>13, <1>16, <2>2
  <2> QED BY <2>1, <2>2
<1> HIDE DEF all
<1> QED BY <1>13, <1>15, <1>16 DEF list, all


LEMMA ChangesHas ==
  ASSUME NEW list \in Seq(Requestable)
  PROVE  /\ Range(list) \in SUBSET Requestable
         /\ \A h : h \in ChangesOf(Range(list)) <=> Has(list, <<"change", h>>)
         /\ ChangesOf(Range(list)) \in SUBSET Changes
<1>1. \A i \in DOMAIN list : list[i] \in Requestable
  OBVIOUS
<1>2. Range(list) \in SUBSET Requestable
  BY <1>1 DEF Range
<1>3. \A h : h \in ChangesOf(Range(list)) <=> Has(list, <<"change", h>>)
  BY <1>2, RequestsAre, RangeHas
<1>4. \A h : <<"change", h>> \in Requestable => h \in Changes
  <2> SUFFICES ASSUME NEW h, <<"change", h>> \in Requestable PROVE h \in Changes
    OBVIOUS
  <2> DEFINE c == <<"change", h>>
  <2>1. c[1] = "change" /\ c[2] = h /\ c \in Requestable
    OBVIOUS
  <2> HIDE DEF c
  <2> QED BY <2>1, RequestsAre
<1>5. \A h : h \in ChangesOf(Range(list)) => h \in Changes
  BY <1>2, <1>4, RequestsAre
<1> QED BY <1>2, <1>3, <1>5

(* Another channel is read like what is remembered of a remote. *)
LEMMA LocalListHas ==
  ASSUME NEW other, LogGood(other), Sound(other), NEW ch
  PROVE  LET list == local_channel_download(ch, other)
         IN  /\ list \in Seq(Requestable)
             /\ \A h : Has(list, <<"change", h>>) => h \in On(other)
             /\ \A h \in On(other) : h \in On(ch) \/ Has(list, <<"change", h>>)
<1> DEFINE state == [k \in DOMAIN other.log |-> StateAt(other, k)]
           new == {k \in Newest([k \in DOMAIN other.log |-> StateAt(other, k)], States(ch)) :
                     other.log[k] \notin On(ch)}
           asked == [k \in new |-> <<"change", other.log[k]>>]
           list == local_channel_download(ch, other)
<1>1. list = Reverse(InOrder(asked))
  BY DEF local_channel_download
<1>2. /\ DOMAIN other.log \in SUBSET Nat /\ IsFiniteSet(DOMAIN other.log)
      /\ \A k \in DOMAIN other.log : other.log[k] \in On(other) /\ other.log[k] \in Changes
  BY PositionsAre DEF LogGood, LogOK, Sound, On
<1>3. DOMAIN state = DOMAIN other.log /\ (\A k \in DOMAIN other.log : state[k] = StateAt(other, k))
  OBVIOUS
<1>4. new = {k \in Newest(state, States(ch)) : other.log[k] \notin On(ch)}
  OBVIOUS
<1>5. DOMAIN asked = new /\ (\A k \in new : asked[k] = <<"change", other.log[k]>>)
  OBVIOUS
<1> HIDE DEF state, asked, new, list
<1>6. new \in SUBSET DOMAIN other.log
  BY <1>3, <1>4 DEF Newest
<1>7. DOMAIN asked \in SUBSET Nat /\ IsFiniteSet(DOMAIN asked)
  BY <1>2, <1>5, <1>6, FS_Subset
<1>8. \A k \in DOMAIN asked : asked[k] \in Requests(Changes)
  BY <1>2, <1>5, <1>6 DEF Requests
<1>9. /\ list \in Seq(Requests(Changes))
      /\ \A c : Has(list, c) <=> \E k \in DOMAIN asked : asked[k] = c
  BY ONLY <1>1, <1>7, <1>8, AskedHas
<1>10. ASSUME NEW k \in DOMAIN other.log, other.log[k] \notin On(ch) PROVE k \in new
  <2>1. ASSUME NEW j \in From(state, k) PROVE other.log[k] \in state[j]
    <3>1. j \in DOMAIN other.log /\ j >= k
      BY <1>3 DEF From
    <3>2. k \in UpTo(other.log, j)
      BY <1>2, <3>1 DEF UpTo
    <3> QED BY <1>3, <3>1, <3>2 DEF StateAt
  <2>2. k \in Newest(state, States(ch))
    BY <1>3, <1>10, <2>1, NewestHas
  <2> QED BY <1>4, <1>10, <2>2
<1>11. \A h : \A k \in new : asked[k] = <<"change", h>> <=> other.log[k] = h
  BY <1>5
<1>12. ASSUME NEW h \in On(other), h \notin On(ch) PROVE Has(list, <<"change", h>>)
  <2>1. PICK k \in DOMAIN other.log : other.log[k] = h
    BY DEF On
  <2>2. k \in new
    BY <1>10, <1>12, <2>1
  <2> QED BY <1>5, <1>9, <1>11, <2>1, <2>2
<1>13. ASSUME NEW h, Has(list, <<"change", h>>) PROVE h \in On(other)
  <2>1. PICK k \in new : asked[k] = <<"change", h>>
    BY <1>5, <1>9, <1>13
  <2> QED BY <1>2, <1>6, <1>11, <2>1
<1>14. list \in Seq(Requestable)
  <2>1. Requests(Changes) \subseteq Requestable
    BY RequestsAre
  <2> QED BY <1>9, <2>1
<1> QED BY <1>12, <1>13, <1>14 DEF list

Found(d) == Remembered(d.cache) \cup {d.theirs[k].h : k \in DOMAIN d.theirs}

(* What a comparison finds, with what is remembered, is closed, and has    *)
(* all that the remote has.                                                *)
LEMMA DeltaWhole ==
  ASSUME NEW R, LogGood(R), Sound(R), NEW c, CacheOK(c, R), KnownWhole(c),
         NEW answer, AnswersRight(c, R, answer), NEW ch, NEW force, NEW d, d = Delta(c, ch, answer, R, force)
  PROVE  /\ KnownWhole(d.cache) /\ CacheOK(d.cache, R)
         /\ DOMAIN d.theirs \subseteq 0 .. R.next - 1
         /\ \A k \in DOMAIN d.theirs : d.theirs[k].h \in Changes /\ d.theirs[k].m \in SUBSET Changes
         /\ Found(d) \in SUBSET Changes /\ Closed(Found(d))
         /\ On(R) \subseteq Found(d) /\ (d.cached => Found(d) = On(R))
<1> DEFINE n == dichotomy_changelist(c, answer)
           theirs == changelist(R, n)
           all == Remembered(d.cache) \cup {d.theirs[k].h : k \in DOMAIN d.theirs}
<1>1. n \in Nat /\ SameBelow(c, R, n)
  BY DichotomyRight DEF LogGood
<1>2. d.theirs = theirs /\ (~ d.cached => d.cache = c)
  <2> DEFINE ours == {c.remote[k].a : k \in From(c.remote, n)}
             unrecs == remote_unrecs(ours, theirs, ch)
             cached == force \/ unrecs = {}
  <2>1. /\ d.theirs = theirs /\ d.cached = cached
        /\ d.cache = IF cached THEN Replaced(c, n, theirs) ELSE c
    BY DEF Delta
  <2> HIDE DEF n, theirs, cached
  <2> QED BY <2>1
<1>3. /\ CacheOK(d.cache, R)
      /\ d.cached => Remembered(d.cache) = On(R)
  BY DeltaRight DEF Remembered
<1> HIDE DEF n, theirs
<1>4. /\ DOMAIN theirs = From(R.log, n) /\ DOMAIN theirs \subseteq 0 .. R.next - 1
      /\ \A k \in DOMAIN theirs :
           /\ theirs[k].h = R.log[k] /\ theirs[k].h \in On(R)
           /\ theirs[k].h \in Changes /\ theirs[k].m \in SUBSET Changes
  BY ChangelistIs DEF theirs
<1>5. Closed(On(R)) /\ On(R) \in SUBSET Changes
  BY SoundClosed
<1>6. KnownWhole(d.cache)
  BY <1>2, <1>3, <1>5 DEF KnownWhole
<1>7. ASSUME ~ d.cached PROVE On(R) \subseteq all
  <2> SUFFICES ASSUME NEW k \in DOMAIN R.log PROVE R.log[k] \in all
    BY DEF On
  <2>1. k \in Nat
    BY PositionsAre DEF LogGood, LogOK
  <2>2. CASE k < n
    <3>1. R.log[k] \in Known(c, n)
      BY <1>1, <2>2 DEF SameBelow, Below
    <3>2. R.log[k] \in Remembered(c)
      BY <3>1 DEF Known, Remembered, Below
    <3> QED BY <1>2, <1>7, <3>2
  <2>3. CASE k >= n
    <3>1. k \in DOMAIN theirs
      BY <1>4, <2>3 DEF From
    <3> QED BY <1>2, <1>4, <3>1
  <2> QED BY <1>1, <2>1, <2>2, <2>3
<1>8. {d.theirs[k].h : k \in DOMAIN d.theirs} \subseteq On(R)
  BY <1>2, <1>4
<1>9. On(R) \subseteq all /\ (d.cached => all = On(R))
  BY <1>2, <1>3, <1>7, <1>8
<1>10. all \in SUBSET Changes
  BY <1>5, <1>6, <1>8 DEF KnownWhole
<1>11. Closed(all)
  <2> SUFFICES ASSUME NEW x \in all, NEW y \in DependsOn(x) PROVE y \in all
    BY DEF Closed
  <2>1. CASE x \in Remembered(d.cache)
    BY <1>6, <2>1 DEF KnownWhole, Closed
  <2>2. CASE x \in On(R)
    BY <1>5, <1>9, <2>2 DEF Closed
  <2> QED BY <1>8, <2>1, <2>2
<1> HIDE DEF all
<1>12. Found(d) = all
  BY DEF Found, all
<1> QED BY <1>2, <1>3, <1>4, <1>6, <1>9, <1>10, <1>11, <1>12

(* A list that asks for all that the channel lacks of a closed set. *)
LEMMA ListBrings ==
  ASSUME LogGood(local), Sound(local), NEW list \in Seq(Requestable), NEW all \in SUBSET Changes, Closed(all),
         \A h : Has(list, <<"change", h>>) => h \in all,
         \A h \in all : h \in On(local) \/ Has(list, <<"change", h>>),
         NEW want, want \subseteq all
  PROVE  /\ Brought(local, Range(list), want)
         /\ Closed(On(local) \cup ChangesOf(Range(list)))
         /\ want = all => Bounded(local, On(local), Range(list), want)
<1> DEFINE hs == ChangesOf(Range(list))
<1>1. hs \in SUBSET Changes /\ \A h : h \in hs <=> Has(list, <<"change", h>>)
  BY ChangesHas
<1>2. Closed(On(local)) /\ On(local) \in SUBSET Changes
  BY SoundClosed
<1>3. hs \subseteq all /\ \A h \in all : h \in On(local) \/ h \in hs
  BY <1>1
<1>4. \A h \in hs : h \in Closure(h) /\ Closure(h) \subseteq all
  BY <1>1, <1>3, ClosureIs
<1> HIDE DEF hs
<1>5. Brought(local, Range(list), want)
  BY <1>3, <1>4 DEF Brought, hs
<1>6. Closed(On(local) \cup hs)
  <2>1. ASSUME NEW x \in hs, NEW y \in DependsOn(x) PROVE y \in On(local) \cup hs
    BY <1>3 DEF Closed
  <2> QED BY <1>2, <2>1 DEF Closed
<1>7. want = all => Bounded(local, On(local), Range(list), want)
  BY <1>4 DEF Bounded, hs
<1> QED BY <1>5, <1>6, <1>7 DEF hs


-----------------------------------------------------------------------------
(* A command starts *)

LEMMA StartGood ==
  ASSUME RInv, WInv, NEW op \in {"pull", "clone"}, NEW c, NEW list \in Seq(Requestable),
         NEW named, NEW want, NEW exact, Downloading(op, c, list, named, want, exact), KnownWhole(c),
         op = "pull" =>
           /\ Brought(local, Range(list), want)
           /\ exact => Bounded(local, On(local), Range(list), want)
           /\ ~ named => Closed(On(local) \cup ChangesOf(Range(list))),
         op = "clone" =>
           /\ Brought(NoLog, Range(list), want)
           /\ On(local) = {} /\ want \subseteq Changes /\ Closed(want)
           /\ ChangesOf(Range(list)) \subseteq want
  PROVE  WInv'
<1>1. /\ session' = [phase |-> "download", op |-> op, cache |-> c, list |-> list, named |-> named,
                     want |-> want, exact |-> exact, ch |-> local]
      /\ task' = Asking(list) /\ UNCHANGED <<remote, local, cache>>
  BY DEF Downloading
<1>2. /\ session'.phase = "download" /\ session'.op = op /\ session'.cache = c /\ session'.list = list
      /\ session'.named = named /\ session'.want = want /\ session'.exact = exact /\ session'.ch = local
  BY <1>1
<1>3. TaskGood(task') /\ Awake(task') /\ task'.sent = <<>> /\ task'.asked = Range(list) /\ task'.taken = {}
  BY <1>1, AskingGood
<1>4. ClosedGood'
  BY <1>1, <1>2 DEF WInv, ClosedGood, Holding, Pulling
<1>5. On(local) \subseteq Changes
  BY DEF WInv, ClosedGood, Sound
<1>6. ChangesOf({}) = {}
  BY DEF ChangesOf
<1>7. DownloadGood'
  BY <1>2, <1>3 DEF DownloadGood
<1>8. ClonedGood'
  BY <1>1, <1>2, <1>3, <1>6 DEF ClonedGood
<1>9. GoalGood'
  <2>1. On(session'.ch) \subseteq Changes /\ On(local') \subseteq On(session'.ch)
    BY <1>1, <1>2, <1>5
  <2>2. session'.op = "pull" =>
          /\ Brought(session'.ch, Range(session'.list), session'.want)
          /\ session'.exact => Bounded(session'.ch, On(local'), Range(session'.list), session'.want)
          /\ ~ session'.named => Closed(On(local') \cup ChangesOf(Range(session'.list)))
    BY <1>1, <1>2
  <2> QED BY <1>1, <1>2, <2>1, <2>2 DEF GoalGood
<1> QED BY <1>4, <1>7, <1>8, <1>9 DEF WInv


LEMMA WholeNow ==
  ASSUME RInv, WInv
  PROVE  /\ LogGood(remote) /\ Sound(remote) /\ LogGood(local) /\ Sound(local)
         /\ CacheOK(cache, remote) /\ KnownWhole(cache) /\ AnswersRight(cache, remote, Answers)
BY AnswersGood DEF RInv, WInv, ChannelsGood, CachesGood, ClosedGood

LEMMA ComparedWhole ==
  ASSUME RInv, WInv, NEW force, NEW d, d = Compared(force)
  PROVE  /\ KnownWhole(d.cache) /\ CacheOK(d.cache, remote)
         /\ DOMAIN d.theirs \subseteq 0 .. remote.next - 1
         /\ \A k \in DOMAIN d.theirs : d.theirs[k].h \in Changes /\ d.theirs[k].m \in SUBSET Changes
         /\ Found(d) \in SUBSET Changes /\ Closed(Found(d))
         /\ On(remote) \subseteq Found(d) /\ (d.cached => Found(d) = On(remote))
<1>1. /\ LogGood(remote) /\ Sound(remote) /\ CacheOK(cache, remote) /\ KnownWhole(cache)
      /\ AnswersRight(cache, remote, Answers)
  BY WholeNow
<1>2. d = Delta(cache, local, Answers, remote, force)
  BY DEF Compared
<1> QED BY ONLY <1>1, <1>2, DeltaWhole

(* A list of one change. *)
LEMMA OneHas ==
  ASSUME NEW h \in Changes
  PROVE  <<<<"change", h>>>> \in Seq(Requestable) /\ ChangesOf(Range(<<<<"change", h>>>>)) = {h}
<1> DEFINE list == <<<<"change", h>>>>
<1>1. list \in Seq(Requestable)
  BY DEF Requestable, Requests
<1>2. DOMAIN list = 1 .. 1 /\ list[1] = <<"change", h>>
  OBVIOUS
<1> HIDE DEF list
<1>3. \A c : Has(list, c) <=> c = <<"change", h>>
  BY <1>2 DEF Has
<1>4. \A x : <<"change", x>> = <<"change", h>> <=> x = h
  OBVIOUS
<1> QED BY <1>1, <1>3, <1>4, ChangesHas DEF list

LEMMA PullStarts ==
  ASSUME RInv, WInv, NEW force,
         \/ update_changelist_pushpull(force) \/ \E h \in Changes : pull_named(force, h)
         \/ pull_uncached \/ \E h \in Changes : pull_named_channel(h)
  PROVE  WInv'
<1>0. /\ LogGood(remote) /\ Sound(remote) /\ LogGood(local) /\ Sound(local) /\ KnownWhole(cache)
      /\ Closed(On(remote)) /\ On(remote) \in SUBSET Changes /\ remote.next \in Nat
  BY WholeNow, SoundClosed DEF LogGood, LogOK, Positions
<1>1. CASE update_changelist_pushpull(force)
  <2> DEFINE d == Compared(force)
             list == ToDownload(d.cache, local, d.theirs)
             all == Found(d)
  <2>1. Downloading("pull", d.cache, list, FALSE, On(remote), d.cached)
    BY <1>1 DEF update_changelist_pushpull
  <2> HIDE DEF d
  <2>2. /\ KnownWhole(d.cache) /\ CacheOK(d.cache, remote)
        /\ DOMAIN d.theirs \subseteq 0 .. remote.next - 1
        /\ \A k \in DOMAIN d.theirs : d.theirs[k].h \in Changes /\ d.theirs[k].m \in SUBSET Changes
        /\ all \in SUBSET Changes /\ Closed(all) /\ On(remote) \subseteq all /\ (d.cached => all = On(remote))
    BY ComparedWhole DEF d
  <2>3. /\ list \in Seq(Requestable)
        /\ \A h : Has(list, <<"change", h>>) => h \in all
        /\ \A h \in all : h \in On(local) \/ Has(list, <<"change", h>>)
    <3>1. Remembered(d.cache) \subseteq Changes
      BY <2>2 DEF KnownWhole
    <3> DEFINE c == d.cache
               theirs == d.theirs
    <3>2. /\ CacheOK(c, remote) /\ Remembered(c) \subseteq Changes /\ remote.next \in Nat
          /\ DOMAIN theirs \subseteq 0 .. remote.next - 1
          /\ \A k \in DOMAIN theirs : theirs[k].h \in Changes /\ theirs[k].m \in SUBSET Changes
      BY <1>0, <2>2, <3>1
    <3>3. /\ list = ToDownload(c, local, theirs)
          /\ all = Remembered(c) \cup {theirs[k].h : k \in DOMAIN theirs}
      BY DEF Found
    <3> HIDE DEF c, theirs, list, all
    <3> QED BY ONLY <3>2, <3>3, ToDownloadHas
  <2> HIDE DEF list, all
  <2>4. /\ Brought(local, Range(list), On(remote))
        /\ Closed(On(local) \cup ChangesOf(Range(list)))
        /\ d.cached => Bounded(local, On(local), Range(list), On(remote))
    BY <1>0, <2>2, <2>3, ListBrings
  <2> QED BY <2>1, <2>2, <2>3, <2>4, StartGood
<1>2. CASE \E h \in Changes : pull_named(force, h)
  <2>1. PICK h \in Changes : Downloading("pull", Compared(force).cache, <<<<"change", h>>>>, TRUE, Closure(h), TRUE)
    BY <1>2 DEF pull_named
  <2>2. KnownWhole(Compared(force).cache)
    BY ComparedWhole
  <2> DEFINE list == <<<<"change", h>>>>
             c == Compared(force).cache
  <2>3. list \in Seq(Requestable) /\ ChangesOf(Range(list)) = {h}
    BY OneHas
  <2> HIDE DEF list, c
  <2>4. Brought(local, Range(list), Closure(h)) /\ Bounded(local, On(local), Range(list), Closure(h))
    BY <2>3 DEF Brought, Bounded
  <2>5. Downloading("pull", c, list, TRUE, Closure(h), TRUE) /\ KnownWhole(c)
    BY <2>1, <2>2 DEF list, c
  <2> QED BY <2>3, <2>4, <2>5, StartGood
<1>3. CASE pull_uncached
  <2> DEFINE list == IF kind = "nest" THEN from_scratch(local, remote) ELSE local_channel_download(local, remote)
  <2>1. Downloading("pull", cache, list, FALSE, On(remote), TRUE)
    BY <1>3 DEF pull_uncached
  <2>2. /\ list \in Seq(Requestable)
        /\ \A h : Has(list, <<"change", h>>) => h \in On(remote)
        /\ \A h \in On(remote) : h \in On(local) \/ Has(list, <<"change", h>>)
    <3>1. CASE kind = "nest"
      <4> DEFINE theirs == changelist(remote, 0)
      <4>1. /\ DOMAIN theirs = From(remote.log, 0) /\ DOMAIN theirs \subseteq 0 .. remote.next - 1
            /\ \A k \in DOMAIN theirs :
                 /\ theirs[k].h = remote.log[k] /\ theirs[k].h \in On(remote)
                 /\ theirs[k].h \in Changes /\ theirs[k].m \in SUBSET Changes
        BY <1>0, ChangelistIs
      <4>2. list = Missing(local, theirs)
        BY <3>1 DEF from_scratch
      <4> HIDE DEF list, theirs
      <4>3. /\ list \in Seq(Requestable)
            /\ \A h : Has(list, <<"change", h>>)
                        <=> h \notin On(local) /\ \E k \in DOMAIN theirs : theirs[k].h = h
        BY <1>0, <4>1, <4>2, MissingHas
      <4>4. \A k \in DOMAIN remote.log : k \in From(remote.log, 0)
        BY <1>0, PositionsAre DEF From, LogGood, LogOK
      <4>5. \A h \in On(remote) : \E k \in DOMAIN theirs : theirs[k].h = h
        BY <4>1, <4>4 DEF On
      <4> QED BY <4>1, <4>3, <4>5
    <3>2. CASE kind # "nest"
      <4>1. list = local_channel_download(local, remote)
        BY <3>2
      <4> HIDE DEF list
      <4> QED BY <1>0, <4>1, LocalListHas
    <3> QED BY <3>1, <3>2
  <2> HIDE DEF list
  <2>3. /\ Brought(local, Range(list), On(remote))
        /\ Closed(On(local) \cup ChangesOf(Range(list)))
        /\ Bounded(local, On(local), Range(list), On(remote))
    BY <1>0, <2>2, ListBrings
  <2> QED BY <1>0, <2>1, <2>2, <2>3, StartGood
<1>4. CASE \E h \in Changes : pull_named_channel(h)
  <2>1. PICK h \in Changes : Downloading("pull", cache, IF h \in On(local) THEN <<>> ELSE <<<<"change", h>>>>,
                                         TRUE, Closure(h), TRUE)
    BY <1>4 DEF pull_named_channel
  <2> DEFINE list == IF h \in On(local) THEN <<>> ELSE <<<<"change", h>>>>
  <2>2. h \in Closure(h) /\ (h \in On(local) => Closure(h) \subseteq On(local))
    BY <1>0, ClosureIs, SoundClosed
  <2>3. /\ list \in Seq(Requestable)
        /\ ChangesOf(Range(list)) = IF h \in On(local) THEN {} ELSE {h}
    <3>1. CASE h \in On(local)
      <4>1. Range(<<>>) = {} /\ ChangesOf({}) = {} /\ <<>> \in Seq(Requestable)
        BY DEF Range, ChangesOf
      <4>2. list = <<>>
        BY <3>1
      <4> HIDE DEF list
      <4> QED BY <3>1, <4>1, <4>2
    <3>2. CASE h \notin On(local)
      BY <3>2, OneHas
    <3> QED BY <3>1, <3>2
  <2>4. Downloading("pull", cache, list, TRUE, Closure(h), TRUE)
    BY <2>1
  <2> HIDE DEF list
  <2>5. Brought(local, Range(list), Closure(h)) /\ Bounded(local, On(local), Range(list), Closure(h))
    BY <2>2, <2>3 DEF Brought, Bounded
  <2> QED BY <1>0, <2>3, <2>4, <2>5, StartGood
<1> QED BY <1>1, <1>2, <1>3, <1>4


(* What a clone knows of the remote is the whole of it. *)
LEMMA NewCacheIs ==
  ASSUME RInv, WInv
  PROVE  /\ KnownWhole(NewCache) /\ Remembered(NewCache) = On(remote) /\ CacheOK(NewCache, remote)
         /\ DOMAIN NewCache.remote = DOMAIN remote.log
         /\ \A k \in DOMAIN remote.log : NewCache.remote[k].b = StateAt(remote, k)
<1>0. /\ LogGood(remote) /\ Closed(On(remote)) /\ On(remote) \in SUBSET Changes
      /\ DOMAIN NoCache.remote = {} /\ \A k \in DOMAIN remote.log : k \in Nat
  BY WholeNow, SoundClosed, PositionsAre DEF LogGood, LogOK, NoCache, EmptyDb
<1>1. CacheOK(NewCache, remote) /\ Remembered(NewCache) = On(remote)
  BY NewCacheGood DEF Remembered
<1>2. NewCache = Replaced(NoCache, 0, changelist(remote, 0))
  <2>1. [NoCache EXCEPT !.tags = [k \in Below(@, 0) |-> @[k]]] = NoCache
    <3>1. NoCache.tags = EmptyDb
      BY DEF NoCache
    <3>2. [k \in Below(EmptyDb, 0) |-> EmptyDb[k]] = EmptyDb
      BY DEF Below, EmptyDb
    <3>3. [NoCache EXCEPT !.tags = EmptyDb] = NoCache
      BY DEF NoCache
    <3> QED BY <3>1, <3>2, <3>3
  <2> QED BY <2>1 DEF NewCache, update_changelist
<1>3. CacheOK(NoCache, remote)
  BY <1>0, NoCacheOK
<1>4. /\ DOMAIN NewCache.remote = Below(NoCache.remote, 0) \cup From(remote.log, 0)
      /\ \A k \in From(remote.log, 0) : NewCache.remote[k].b = StateAt(remote, k)
  BY <1>2, <1>3, ReplacedIs
<1>5. Below(NoCache.remote, 0) = {} /\ From(remote.log, 0) = DOMAIN remote.log
  BY <1>0 DEF Below, From
<1>6. KnownWhole(NewCache)
  BY <1>0, <1>1 DEF KnownWhole
<1> QED BY <1>1, <1>4, <1>5, <1>6

LEMMA ListedHas ==
  ASSUME NEW c, NEW next, Positions(c.remote, next), Remembered(c) \subseteq Changes, NEW ks \in SUBSET DOMAIN c.remote
  PROVE  /\ Listed(c, ks) \in Seq(Requestable)
         /\ ChangesOf(Range(Listed(c, ks))) = {c.remote[k].a : k \in ks}
<1> DEFINE asked == [k \in ks |-> <<"change", c.remote[k].a>>]
           list == Listed(c, ks)
<1>1. DOMAIN asked = ks /\ (\A k \in ks : asked[k] = <<"change", c.remote[k].a>>) /\ list = InOrder(asked)
  BY DEF Listed
<1> HIDE DEF asked, list
<1>2. DOMAIN asked \in SUBSET Nat /\ IsFiniteSet(DOMAIN asked)
  BY <1>1, PositionsAre, FS_Subset
<1>3. \A k \in DOMAIN asked : asked[k] \in Requests(Changes)
  BY <1>1 DEF Requests, Remembered
<1>4. list \in Seq(Requests(Changes)) /\ \A d : Has(list, d) <=> \E k \in DOMAIN asked : asked[k] = d
  BY ONLY <1>1, <1>2, <1>3, AskedHas
<1>5. list \in Seq(Requestable)
  <2>1. Requests(Changes) \subseteq Requestable
    BY RequestsAre
  <2> QED BY <1>4, <2>1
<1>6. \A h : \A k \in ks : asked[k] = <<"change", h>> <=> c.remote[k].a = h
  BY <1>1
<1>7. \A h : h \in ChangesOf(Range(list)) <=> \E k \in ks : c.remote[k].a = h
  <2>1. \A h : h \in ChangesOf(Range(list)) <=> Has(list, <<"change", h>>)
    BY <1>5, ChangesHas
  <2>2. \A h : Has(list, <<"change", h>>) <=> \E k \in ks : asked[k] = <<"change", h>>
    BY <1>1, <1>4
  <2>3. ASSUME NEW h PROVE (\E k \in ks : asked[k] = <<"change", h>>) <=> \E k \in ks : c.remote[k].a = h
    <3>1. \A k \in ks : asked[k] = <<"change", h>> <=> c.remote[k].a = h
      BY <1>6
    <3> QED BY <3>1
  <2> QED BY <2>1, <2>2, <2>3
<1> QED BY <1>5, <1>7 DEF list

LEMMA CloneBrings ==
  ASSUME NEW list \in Seq(Requestable), NEW want, want \subseteq Changes, ChangesOf(Range(list)) = want
  PROVE  Brought(NoLog, Range(list), want)
BY ClosureIs DEF Brought

LEMMA CloneStarts ==
  ASSUME RInv, WInv,
         clone_channel \/ (\E m \in States(remote) : clone_state(m)) \/ (\E h \in Changes : clone_tag(h))
  PROVE  WInv'
<1>0. /\ LogGood(remote) /\ Sound(remote) /\ Closed(On(remote)) /\ On(remote) \in SUBSET Changes
      /\ \A n \in DOMAIN remote.log : Closed(StateAt(remote, n)) /\ StateAt(remote, n) \subseteq On(remote)
  BY WholeNow, SoundClosed
<1>1. /\ KnownWhole(NewCache) /\ Remembered(NewCache) = On(remote) /\ CacheOK(NewCache, remote)
      /\ DOMAIN NewCache.remote = DOMAIN remote.log
      /\ \A k \in DOMAIN remote.log : NewCache.remote[k].b = StateAt(remote, k)
  BY NewCacheIs
<1>2. ASSUME NEW c, NEW list \in Seq(Requestable), NEW want, Cloning(c, list, want), KnownWhole(c),
             want \subseteq Changes, Closed(want), ChangesOf(Range(list)) \subseteq want,
             Brought(NoLog, Range(list), want)
      PROVE  WInv'
  <2>1. Downloading("clone", c, list, FALSE, want, TRUE) /\ local = NoLog
    BY <1>2 DEF Cloning
  <2>2. On(local) = {}
    BY <2>1 DEF On, NoLog, EmptyDb
  <2> QED BY <1>2, <2>1, <2>2, StartGood
<1>3. Positions(NewCache.remote, remote.next) /\ Remembered(NewCache) \subseteq Changes
  BY <1>1 DEF CacheOK, KnownWhole
<1>4. CASE clone_channel
  <2> DEFINE c == NewCache
             list == Listed(c, DOMAIN c.remote)
  <2>1. Cloning(c, list, On(remote))
    BY <1>4 DEF clone_channel
  <2> HIDE DEF c
  <2>2. list \in Seq(Requestable) /\ ChangesOf(Range(list)) = {c.remote[k].a : k \in DOMAIN c.remote}
    BY <1>3, ListedHas DEF c
  <2> HIDE DEF list
  <2>3. ChangesOf(Range(list)) = On(remote)
    BY <1>1, <2>2 DEF Remembered, c
  <2>4. Brought(NoLog, Range(list), On(remote))
    BY <1>0, <2>2, <2>3, CloneBrings
  <2>5. KnownWhole(c)
    BY <1>1 DEF c
  <2> QED BY <1>0, <1>2, <2>1, <2>2, <2>3, <2>4, <2>5
<1>5. CASE \E m \in States(remote) : clone_state(m)
  <2>1. PICK m \in States(remote) : clone_state(m)
    BY <1>5
  <2> DEFINE c == NewCache
             at == {k \in DOMAIN c.remote : c.remote[k].b = m}
             last == FirstOf(at)
             list == Listed(c, UpTo(c.remote, last))
  <2>2. Cloning(c, list, m)
    BY <2>1 DEF clone_state
  <2>3. PICK n \in DOMAIN remote.log : m = StateAt(remote, n)
    BY DEF States
  <2>4. m \subseteq Changes /\ Closed(m)
    BY <1>0, <2>3
  <2>5. at \in SUBSET Nat /\ at # {}
    <3>1. n \in at
      BY <1>1, <2>3
    <3>2. \A k \in DOMAIN NewCache.remote : k \in Nat
      BY <1>3, PositionsAre
    <3> QED BY <3>1, <3>2
  <2> HIDE DEF c
  <2>6. last \in DOMAIN c.remote /\ c.remote[last].b = m
    <3> HIDE DEF at
    <3>1. last \in at
      BY <2>5, FirstOfSet
    <3> QED BY <3>1 DEF at
  <2> HIDE DEF last
  <2>7. m = {c.remote[j].a : j \in UpTo(c.remote, last)}
    BY <1>1, <2>6 DEF CacheOK, c
  <2>8. UpTo(c.remote, last) \in SUBSET DOMAIN c.remote
    BY DEF UpTo
  <2>9. list \in Seq(Requestable) /\ ChangesOf(Range(list)) = m
    BY <1>3, <2>7, <2>8, ListedHas DEF c
  <2> HIDE DEF list
  <2>10. Brought(NoLog, Range(list), m)
    BY <2>4, <2>9, CloneBrings
  <2>11. KnownWhole(c)
    BY <1>1 DEF c
  <2> QED BY <1>2, <2>2, <2>4, <2>9, <2>10, <2>11
<1>6. CASE \E h \in Changes : clone_tag(h)
  <2>1. PICK h \in Changes : Cloning(NoCache, <<<<"change", h>>>>, Closure(h))
    BY <1>6 DEF clone_tag
  <2> DEFINE list == <<<<"change", h>>>>
  <2>2. list \in Seq(Requestable) /\ ChangesOf(Range(list)) = {h}
    BY OneHas
  <2>3. Cloning(NoCache, list, Closure(h))
    BY <2>1
  <2> HIDE DEF list
  <2>4. h \in Closure(h) /\ Closure(h) \subseteq Changes /\ Closed(Closure(h))
    BY ClosureIs
  <2>5. Brought(NoLog, Range(list), Closure(h))
    BY <2>2 DEF Brought
  <2>6. KnownWhole(NoCache)
    BY DEF KnownWhole, Remembered, NoCache, EmptyDb, Closed
  <2> QED BY <1>2, <2>2, <2>3, <2>4, <2>5, <2>6
<1> QED BY <1>4, <1>5, <1>6

LEMMA PushStarts ==
  ASSUME RInv, WInv, NEW force, push(force)
  PROVE  WInv'
<1> DEFINE d == Compared(force)
           kept == IF HasId THEN d.cache ELSE cache
           list == CASE HasId -> to_remote_push(d.cache, local, d.theirs, d.unrecs)
                     [] kind = "channel" -> to_local_channel_push(local, remote)
                     [] OTHER -> <<>>
           complete == IF HasId THEN d.cached ELSE kind = "channel"
<1>1. /\ session' = [phase |-> "push", op |-> "push", seen |-> On(remote), cache |-> kept,
                     list |-> list, complete |-> complete]
      /\ UNCHANGED <<remote, local, cache>>
  BY DEF push
<1>2. /\ LogGood(local) /\ Sound(local) /\ KnownWhole(cache)
      /\ KnownWhole(d.cache) /\ CacheOK(d.cache, remote)
  BY WholeNow, ComparedWhole
<1> HIDE DEF d
<1>3. KnownWhole(kept)
  BY <1>2
<1>4. ASSUME NEW db, Lists(list, db), \A k \in DOMAIN db : db[k] \in On(local), NEW i \in DOMAIN list, list[i][1] = "change"
      PROVE  list[i][2] \in Changes
  <2> HIDE DEF list
  <2>1. PICK at : AtKeys(list, db, at)
    BY <1>4 DEF Lists
  <2>2. at[i] \in DOMAIN db /\ list[i][2] = db[at[i]]
    BY <1>4, <2>1 DEF AtKeys, IsChange
  <2> QED BY <1>2, <1>4, <2>2 DEF Sound
<1>5. \A i \in DOMAIN list : list[i][1] = "change" => list[i][2] \in Changes
  <2>1. CASE HasId
    <3> DEFINE part == RemotePart(d.cache, local, d.theirs, d.unrecs)
               db == LogPart(local, part)
    <3>1. list = to_remote_push(d.cache, local, d.theirs, d.unrecs)
      BY <2>1 DEF HasId
    <3>2. Lists(list, db)
      BY <1>2, <3>1, ToRemoteLists DEF CacheOK
    <3>3. part \subseteq DOMAIN local.log
      BY DEF RemotePart, PushedPart
    <3>4. \A k \in DOMAIN db : db[k] \in On(local)
      BY <3>3 DEF LogPart, On
    <3> HIDE DEF list, db, part
    <3> QED BY <1>4, <3>2, <3>4
  <2>2. CASE ~ HasId /\ kind = "channel"
    <3> DEFINE S == {i \in DOMAIN local.log : local.log[i] \notin On(remote)}
               db == [k \in S |-> local.log[k]]
    <3>1. list = to_local_channel_push(local, remote)
      BY <2>2
    <3>2. Lists(list, db)
      BY <1>2, <3>1, ToChannelLists
    <3>3. \A k \in DOMAIN db : db[k] \in On(local)
      BY DEF On
    <3> HIDE DEF list, db
    <3> QED BY <1>4, <3>2, <3>3
  <2>3. CASE ~ HasId /\ kind # "channel"
    <3>1. list = <<>>
      BY <2>3
    <3> QED BY <3>1
  <2> QED BY <2>1, <2>2, <2>3
<1> HIDE DEF kept, list, complete
<1>6. session'.phase = "push" /\ session'.cache = kept /\ session'.list = list
  BY <1>1
<1>7. ClosedGood'
  BY <1>1, <1>3, <1>5, <1>6 DEF WInv, ClosedGood
<1>8. GoalGood' /\ ClonedGood' /\ DownloadGood'
  BY <1>6 DEF GoalGood, ClonedGood, DownloadGood, Pulling
<1> QED BY <1>7, <1>8 DEF WInv


-----------------------------------------------------------------------------
(* Steps of others, and steps of the tasks *)

LEMMA NothingHeld ==
  ASSUME session'.phase \notin {"download", "choose", "apply", "push", "uploaded"},
         Sound(remote'), Sound(local'), KnownWhole(cache')
  PROVE  WInv'
BY DEF WInv, ClosedGood, GoalGood, ClonedGood, DownloadGood, Pulling, Holding

LEMMA StoppedGood ==
  ASSUME WInv, UNCHANGED <<remote, local, cache>>,
         session'.phase \notin {"download", "choose", "apply", "push", "uploaded"}
  PROVE  WInv'
BY NothingHeld DEF WInv, ClosedGood

LEMMA FrameGood ==
  ASSUME WInv, Sound(remote'), UNCHANGED <<kind, local, cache, session, task>>
  PROVE  WInv'
BY DEF WInv, ClosedGood, GoalGood, ClonedGood, DownloadGood, Pulling, Holding

LEMMA OthersGood ==
  ASSUME RInv, WInv, RemoteChanges \/ LocalChanges
  PROVE  WInv'
<1>0. LogGood(remote) /\ Sound(remote) /\ LogGood(local) /\ Sound(local) /\ KnownWhole(cache)
  BY WholeNow
<1>1. CASE RemoteChanges
  <2>1. UNCHANGED <<kind, local, cache, session, task>>
    BY <1>1 DEF RemoteChanges
  <2>2. CASE \E h \in Changes : MayApply(remote, h) /\ remote' = put_change(remote, h)
    BY <1>0, <2>1, <2>2, PutSound, FrameGood
  <2>3. CASE \E h \in Changes : MayUnrecord(remote, h) /\ remote' = unrecord(remote, h)
    BY <1>0, <2>1, <2>3, UnrecordSound, FrameGood
  <2>4. CASE \E n : remote' = put_tag_here(remote, n)
    BY <1>0, <2>1, <2>4, TagSound, FrameGood
  <2> QED BY <1>1, <2>2, <2>3, <2>4 DEF RemoteChanges
<1>2. CASE LocalChanges
  <2>1. UNCHANGED <<remote, cache, session>> /\ session.phase = "idle"
    BY <1>2 DEF LocalChanges, Idle
  <2>2. CASE \E h \in Changes : MayApply(local, h) /\ local' = put_change(local, h)
    BY <1>0, <2>1, <2>2, PutSound, NothingHeld
  <2>3. CASE \E h \in Changes : MayUnrecord(local, h) /\ local' = Renumbered(unrecord(local, h))
    BY <1>0, <2>1, <2>3, UnrecordSound, RenumberedSound, NothingHeld
  <2>4. CASE \E n : local' = put_tag_here(local, n)
    BY <1>0, <2>1, <2>4, TagSound, NothingHeld
  <2> QED BY <1>2, <2>2, <2>3, <2>4 DEF LocalChanges
<1> QED BY <1>1, <1>2

LEMMA TasksGood ==
  ASSUME WInv, session.phase = "download", UNCHANGED <<remote, local, cache, session>>,
         TaskGood(task'), Awake(task'), kind' # "ssh" => task'.sent = <<>>, task'.taken = task.taken, task.asked \subseteq task'.asked,
         session.op = "clone" => ChangesOf(task'.asked) \subseteq session.want
  PROVE  WInv'
<1>1. ClosedGood' /\ GoalGood'
  BY DEF WInv, ClosedGood, GoalGood, Pulling, Holding
<1>2. ClonedGood' /\ DownloadGood'
  BY DEF WInv, ClonedGood, DownloadGood
<1> QED BY <1>1, <1>2 DEF WInv

LEMMA ArrivedShape ==
  ASSUME NEW t, TaskShaped(t), NEW c, NEW follow, NEW new,
         \/ new = Arrived(Dequeued(t), c, follow)
         \/ new = [Arrived(Dequeued(t), c, follow) EXCEPT !.lost = TRUE]
  PROVE  /\ TaskShaped(new) /\ new.queue = Tail(t.queue) /\ new.arrived = Append(t.arrived, <<c, follow>>)
         /\ new.asked = t.asked /\ new.waiting = t.waiting /\ new.held = t.held /\ new.ready = t.ready
         /\ new.taken = t.taken /\ new.sent = t.sent /\ new.current = t.current
         /\ new.downloader = t.downloader /\ new.receiver = t.receiver
<1> DEFINE rest == Tail(t.queue)
           got == Append(t.arrived, <<c, follow>>)
           first == Dequeued(t)
           second == Arrived(first, c, follow)
<1>1. first = [t EXCEPT !.queue = rest]
  BY DEF Dequeued
<1> HIDE DEF rest, first
<1>2. /\ TaskShaped(first) /\ first.queue = rest /\ first.arrived = t.arrived
      /\ first.asked = t.asked /\ first.waiting = t.waiting /\ first.held = t.held /\ first.ready = t.ready
      /\ first.taken = t.taken /\ first.sent = t.sent /\ first.current = t.current
      /\ first.downloader = t.downloader /\ first.receiver = t.receiver
  BY <1>1 DEF TaskShaped
<1>3. second = [first EXCEPT !.arrived = got]
  BY <1>2 DEF Arrived
<1> HIDE DEF got, second
<1>4. /\ TaskShaped(second) /\ second.queue = rest /\ second.arrived = got
      /\ second.asked = t.asked /\ second.waiting = t.waiting /\ second.held = t.held /\ second.ready = t.ready
      /\ second.taken = t.taken /\ second.sent = t.sent /\ second.current = t.current
      /\ second.downloader = t.downloader /\ second.receiver = t.receiver
  BY <1>2, <1>3 DEF TaskShaped
<1>5. CASE new = second
  BY <1>4, <1>5 DEF rest, got
<1>6. CASE new = [second EXCEPT !.lost = TRUE]
  <2>1. /\ TaskShaped(new) /\ new.queue = rest /\ new.arrived = got
        /\ new.asked = t.asked /\ new.waiting = t.waiting /\ new.held = t.held /\ new.ready = t.ready
        /\ new.taken = t.taken /\ new.sent = t.sent /\ new.current = t.current
        /\ new.downloader = t.downloader /\ new.receiver = t.receiver
    BY <1>4, <1>6 DEF TaskShaped
  <2> QED BY <2>1 DEF rest, got
<1> QED BY <1>5, <1>6 DEF first, second

LEMMA GotGood ==
  ASSUME NEW t, TaskGood(t), t.queue # <<>>, NEW follow \in BOOLEAN, NEW new,
         \/ new = Arrived(Dequeued(t), Head(t.queue), follow)
         \/ new = [Arrived(Dequeued(t), Head(t.queue), follow) EXCEPT !.lost = TRUE]
  PROVE  /\ TaskGood(new) /\ new.taken = t.taken /\ new.asked = t.asked
         /\ (Awake(t) => Awake(new)) /\ new.sent = t.sent
<1> DEFINE c == Head(t.queue)
<1>1. TaskShaped(t)
  BY DEF TaskGood
<1> HIDE DEF c
<1>2. \/ new = Arrived(Dequeued(t), c, follow)
      \/ new = [Arrived(Dequeued(t), c, follow) EXCEPT !.lost = TRUE]
  BY DEF c
<1>3. /\ TaskShaped(new) /\ new.queue = Tail(t.queue) /\ new.arrived = Append(t.arrived, <<c, follow>>)
      /\ new.asked = t.asked /\ new.waiting = t.waiting /\ new.held = t.held /\ new.ready = t.ready
      /\ new.taken = t.taken /\ new.sent = t.sent /\ new.current = t.current
      /\ new.downloader = t.downloader /\ new.receiver = t.receiver
  BY ONLY <1>1, <1>2, ArrivedShape
<1>4. TaskGood(new)
  BY <1>3, FetchedGood DEF c
<1> QED BY <1>3, <1>4 DEF Awake

(* Only what nobody counts is changed, or how the downloader ended. *)
LEMMA NotedGood ==
  ASSUME NEW t, TaskGood(t), t.downloader = "running", NEW new,
         \/ new = [t EXCEPT !.downloader = "failed"]
         \/ new = [t EXCEPT !.broken = TRUE]
         \/ new = [t EXCEPT !.downloader = "done"] /\ t.receiver = "done"
  PROVE  /\ TaskGood(new) /\ new.taken = t.taken /\ new.asked = t.asked
         /\ (Awake(t) => Awake(new)) /\ new.sent = t.sent
<1>1. TaskShaped(t)
  BY DEF TaskGood
<1>2. /\ TaskShaped(new) /\ new.queue = t.queue /\ new.arrived = t.arrived
      /\ new.asked = t.asked /\ new.waiting = t.waiting /\ new.held = t.held /\ new.ready = t.ready
      /\ new.taken = t.taken /\ new.sent = t.sent /\ new.current = t.current
      /\ new.receiver = t.receiver
      /\ \/ new.downloader \in {"running", "failed"}
         \/ new.downloader = "done" /\ t.receiver = "done"
  <2>1. CASE new = [t EXCEPT !.downloader = "failed"]
    BY <1>1, <2>1 DEF TaskShaped
  <2>2. CASE new = [t EXCEPT !.broken = TRUE]
    BY <1>1, <2>2 DEF TaskShaped
  <2>3. CASE new = [t EXCEPT !.downloader = "done"] /\ t.receiver = "done"
    BY <1>1, <2>3 DEF TaskShaped
  <2> QED BY <2>1, <2>2, <2>3
<1>3. TaskGood(new)
  BY <1>2, MarkedGood
<1> QED BY <1>2, <1>3 DEF Awake


LEMMA SentTaskGood ==
  ASSUME NEW t, TaskGood(t), t.queue # <<>>, NEW new,
         new = [Dequeued(t) EXCEPT !.sent = Append(@, Head(t.queue))]
  PROVE  /\ TaskGood(new) /\ new.taken = t.taken /\ new.asked = t.asked
         /\ (Awake(t) => Awake(new))
<1> DEFINE rest == Tail(t.queue)
           all == Append(t.sent, Head(t.queue))
           first == Dequeued(t)
<1>1. TaskShaped(t)
  BY DEF TaskGood
<1>2. first = [t EXCEPT !.queue = rest]
  BY DEF Dequeued
<1> HIDE DEF rest, first
<1>3. TaskShaped(first) /\ first.queue = rest /\ first.sent = t.sent /\ first.arrived = t.arrived
      /\ first.asked = t.asked /\ first.waiting = t.waiting /\ first.held = t.held /\ first.ready = t.ready
      /\ first.taken = t.taken /\ first.current = t.current
      /\ first.downloader = t.downloader /\ first.receiver = t.receiver
  BY <1>1, <1>2 DEF TaskShaped
<1>4. new = [first EXCEPT !.sent = all]
  BY <1>3 DEF first
<1> HIDE DEF all
<1>5. TaskShaped(new) /\ new.queue = rest /\ new.sent = all /\ new.arrived = t.arrived
      /\ new.asked = t.asked /\ new.waiting = t.waiting /\ new.held = t.held /\ new.ready = t.ready
      /\ new.taken = t.taken /\ new.current = t.current
      /\ new.downloader = t.downloader /\ new.receiver = t.receiver
  BY <1>3, <1>4 DEF TaskShaped
<1>6. TaskGood(new)
  BY <1>5, SentGood DEF rest, all
<1> QED BY <1>5, <1>6 DEF Awake

LEMMA AnsweredTaskGood ==
  ASSUME NEW t, TaskGood(t), t.current < Len(t.sent), NEW new,
         new = [Arrived(t, Answer(t), TRUE) EXCEPT !.current = @ + 1,
                                                  !.closed = (t.current + 1 = Len(t.sent))]
  PROVE  /\ TaskGood(new) /\ new.taken = t.taken /\ new.asked = t.asked
         /\ (Awake(t) => Awake(new)) /\ new.sent = t.sent
<1> DEFINE got == Append(t.arrived, <<Answer(t), TRUE>>)
           n == t.current + 1
           last == (t.current + 1 = Len(t.sent))
           first == Arrived(t, Answer(t), TRUE)
<1>1. TaskShaped(t)
  BY DEF TaskGood
<1>2. first = [t EXCEPT !.arrived = got]
  BY DEF Arrived
<1> HIDE DEF got, first
<1>3. TaskShaped(first) /\ first.queue = t.queue /\ first.sent = t.sent /\ first.arrived = got
      /\ first.asked = t.asked /\ first.waiting = t.waiting /\ first.held = t.held /\ first.ready = t.ready
      /\ first.taken = t.taken /\ first.current = t.current
      /\ first.downloader = t.downloader /\ first.receiver = t.receiver
  BY <1>1, <1>2 DEF TaskShaped
<1>4. new = [first EXCEPT !.current = n, !.closed = last]
  BY <1>3 DEF first
<1> HIDE DEF n, last
<1>5. TaskShaped(new) /\ new.queue = t.queue /\ new.sent = t.sent /\ new.arrived = got
      /\ new.asked = t.asked /\ new.waiting = t.waiting /\ new.held = t.held /\ new.ready = t.ready
      /\ new.taken = t.taken /\ new.current = n
      /\ new.downloader = t.downloader /\ new.receiver = t.receiver
  BY <1>3, <1>4 DEF TaskShaped
<1>6. TaskGood(new)
  BY <1>5, AnsweredGood DEF got, n
<1> QED BY <1>5, <1>6 DEF Awake

(* The tasks keep what was taken, and ask for what is wanted only.         *)
LEMMA TasksKeep ==
  ASSUME WInv, Fetch \/ AnswerArrives \/ DownloaderEnds
  PROVE  WInv'
<1>1. session.phase = "download" /\ UNCHANGED <<remote, local, cache, session>>
  BY DEF Fetch, AnswerArrives, DownloaderEnds, Working, TasksOnly
<1>2. /\ TaskGood(task) /\ Awake(task) /\ task.downloader = "running"
      /\ kind' = kind /\ (kind # "ssh" => task.sent = <<>>)
  BY <1>1 DEF WInv, DownloadGood, Fetch, AnswerArrives, DownloaderEnds, TasksOnly
<1> SUFFICES /\ TaskGood(task') /\ task'.taken = task.taken /\ task'.asked = task.asked
             /\ Awake(task') /\ (kind # "ssh" => task'.sent = task.sent)
  BY <1>1, <1>2, TasksGood DEF WInv, ClonedGood
<1>3. CASE Fetch
  <2>1. task.queue # <<>>
    BY <1>3 DEF Fetch
  <2>2. CASE task' = CopyFromPath(task, files)
    <3>1. CASE task' = [task EXCEPT !.downloader = "failed"]
      BY ONLY <1>2, <3>1, NotedGood
    <3>2. CASE \E follow \in BOOLEAN :
                 \/ task' = Arrived(Dequeued(task), Head(task.queue), follow)
                 \/ task' = [Arrived(Dequeued(task), Head(task.queue), follow) EXCEPT !.lost = TRUE]
      BY ONLY <1>2, <2>1, <3>2, GotGood
    <3> QED BY <2>2, <3>1, <3>2 DEF CopyFromPath
  <2>3. CASE kind = "ssh" /\ task' = RequestOverSsh(task)
    <3>1. CASE task' = [task EXCEPT !.downloader = "failed"]
      BY ONLY <1>2, <3>1, NotedGood
    <3>2. CASE task' = [Dequeued(task) EXCEPT !.sent = Append(@, Head(task.queue))]
      BY ONLY <1>2, <2>1, <2>3, <3>2, SentTaskGood
    <3> QED BY <2>3, <3>1, <3>2 DEF RequestOverSsh
  <2>4. CASE task' = GetOne(task)
    BY <1>2, <2>1, <2>4, GotGood DEF GetOne
  <2> QED BY <1>3, <2>2, <2>3, <2>4 DEF Fetch
<1>4. CASE AnswerArrives
  <2>1. task.current < Len(task.sent) /\ task' = AnswerOverSsh(task)
    BY <1>4 DEF AnswerArrives
  <2>2. CASE task' = [task EXCEPT !.broken = TRUE]
    BY ONLY <1>2, <2>2, NotedGood
  <2>3. CASE task' = [Arrived(task, Answer(task), TRUE) EXCEPT
                        !.current = @ + 1, !.closed = (task.current + 1 = Len(task.sent))]
    BY ONLY <1>2, <2>1, <2>3, AnsweredTaskGood
  <2> QED BY <2>1, <2>2, <2>3 DEF AnswerOverSsh
<1>5. CASE DownloaderEnds
  <2>1. task' = [task EXCEPT !.downloader = "done"] /\ task.receiver = "done"
    BY <1>5 DEF DownloaderEnds, DownloaderReturns
  <2> QED BY ONLY <1>2, <2>1, NotedGood
<1> QED BY <1>3, <1>4, <1>5

LEMMA ReceiverKeeps ==
  ASSUME WInv, ReceiverStep
  PROVE  WInv'
<1>1. /\ session.phase = "download" /\ UNCHANGED <<remote, local, cache, session>>
      /\ task.receiver = "running"
  BY DEF ReceiverStep, Working, TasksOnly
<1>2. TaskGood(task) /\ Awake(task) /\ kind' = kind /\ (kind # "ssh" => task.sent = <<>>)
  BY <1>1 DEF WInv, DownloadGood, ReceiverStep, TasksOnly
<1>3. CASE task.arrived # <<>> /\ task' = Receive(task, files)
  <2>1. /\ TaskGood(task') /\ task'.taken = task.taken /\ task.asked \subseteq task'.asked
        /\ Awake(task') /\ task'.sent = task.sent
        /\ \A c \in task'.asked : c \in task.asked \/
             \E h \in Changes : <<"change", h>> \in task.asked /\ c \in Requests(DependsOn(h))
    BY <1>1, <1>2, <1>3, ReceivedGood
  <2>2. task.asked \in SUBSET Requestable /\ task'.asked \in SUBSET Requestable
    BY <1>2, <2>1 DEF TaskGood, TaskTyped
  <2>3. ASSUME session.op = "clone" PROVE ChangesOf(task'.asked) \subseteq session.want
    <3>1. Closed(session.want) /\ ChangesOf(task.asked) \subseteq session.want
      BY <1>1, <2>3 DEF WInv, ClonedGood
    <3> SUFFICES ASSUME NEW x \in ChangesOf(task'.asked) PROVE x \in session.want
      OBVIOUS
    <3>2. <<"change", x>> \in task'.asked
      BY <2>2, RequestsAre
    <3>3. CASE <<"change", x>> \in task.asked
      BY <2>2, <3>1, <3>3, RequestsAre
    <3>4. CASE \E h \in Changes : <<"change", h>> \in task.asked /\ <<"change", x>> \in Requests(DependsOn(h))
      <4>1. PICK h \in Changes : <<"change", h>> \in task.asked /\ <<"change", x>> \in Requests(DependsOn(h))
        BY <3>4
      <4>2. PICK y \in DependsOn(h) : <<"change", x>> = <<"change", y>>
        BY <4>1, RequestsAre
      <4>3. x \in DependsOn(h)
        BY <4>2
      <4>4. h \in session.want
        BY <2>2, <3>1, <4>1, RequestsAre
      <4> QED BY <3>1, <4>3, <4>4 DEF Closed
    <3> QED BY <2>1, <3>2, <3>3, <3>4
  <2> QED BY <1>1, <1>2, <2>1, <2>3, TasksGood
<1>4. CASE task.downloader # "running" /\ task' = Flushed(task)
  <2>1. task.downloader = "failed"
    BY <1>1, <1>2, <1>4 DEF TaskGood, Ending
  <2>2. /\ TaskGood(task') /\ task'.asked = task.asked /\ task'.taken = task.taken
        /\ Awake(task') /\ task'.sent = task.sent
    BY <1>2, <1>4, <2>1, FlushedGood DEF TaskGood
  <2> QED BY <1>1, <1>2, <2>2, TasksGood DEF WInv, ClonedGood
<1> QED BY <1>3, <1>4 DEF ReceiverStep


(* A change is applied with what it depends on, or the command fails. *)
LEMMA ApplyingIs ==
  ASSUME RInv, WInv, Pulling, NEW h \in Changes, NEW rest, Applying(h, rest)
  PROVE  \/ session'.phase = "failed"
         \/ /\ Sound(session'.ch) /\ On(session'.ch) = On(session.ch) \cup Closure(h)
            /\ PullShaped(session') /\ session'.list = rest
            /\ session'.phase = session.phase /\ session'.op = session.op
            /\ session'.cache = session.cache /\ session'.named = session.named
            /\ session'.want = session.want /\ session'.exact = session.exact
<1>1. PullShaped(session) /\ LogGood(session.ch) /\ Ordered(session.ch)
  BY DEF RInv, PullGood
<1>2. Sound(session.ch)
  BY <1>1 DEF WInv, GoalGood, Sound
<1>3. PICK after \in apply_change_rec(session.ch, h) :
        IF Readable(session.ch, after) THEN session' = [session EXCEPT !.ch = after, !.list = rest]
        ELSE session' = [phase |-> "failed", clone |-> session.op = "clone"]
  BY DEF Applying
<1>4. CASE Readable(session.ch, after)
  <2>1. session' = [session EXCEPT !.ch = after, !.list = rest]
    BY <1>3, <1>4
  <2>2. /\ PullShaped(session') /\ session'.list = rest /\ session'.ch = after
        /\ session'.phase = session.phase /\ session'.op = session.op
        /\ session'.cache = session.cache /\ session'.named = session.named
        /\ session'.want = session.want /\ session'.exact = session.exact
    BY <1>1, <2>1 DEF PullShaped
  <2>3. Sound(after) /\ On(after) = On(session.ch) \cup Closure(h)
    BY <1>1, <1>2, AppliedSound
  <2> QED BY <2>2, <2>3
<1>5. CASE ~ Readable(session.ch, after)
  <2>1. session' = [phase |-> "failed", clone |-> session.op = "clone"]
    BY <1>3, <1>5
  <2> QED BY <2>1
<1> QED BY <1>4, <1>5

LEMMA TakenKeeps ==
  ASSUME RInv, WInv, TakeReady
  PROVE  WInv'
<1> DEFINE h == Head(task.ready)[2]
<1>1. session.phase = "download" /\ task.ready # <<>> /\ UNCHANGED <<remote, local, cache>>
  BY DEF TakeReady
<1>2. /\ TaskGood(task) /\ Range(session.list) \subseteq task.asked
      /\ Awake(task) /\ kind' = kind /\ (kind # "ssh" => task.sent = <<>>)
  BY <1>1 DEF WInv, DownloadGood, TakeReady
<1>3. /\ TaskGood(Taken(task)) /\ Taken(task).asked = task.asked
      /\ Head(task.ready) \in Requests(Changes) /\ Head(task.ready) \in task.asked
      /\ Taken(task).taken = task.taken \cup {Head(task.ready)}
      /\ Taken(task).sent = task.sent /\ Awake(Taken(task))
  BY <1>1, <1>2, TakenGood
<1>4. /\ task.asked \in SUBSET Requestable /\ task.taken \in SUBSET Requestable
      /\ task.taken \in SUBSET Requests(Changes)
  BY <1>2, RequestsAre DEF TaskGood, TaskTyped
<1>5. Head(task.ready) = <<"change", h>> /\ h \in Changes
  BY <1>3, RequestsAre
<1>6. CASE session.op = "clone"
  <2>0. Applying(h, session.list) /\ (session'.phase # "failed" => task' = Taken(task))
    BY <1>6 DEF TakeReady
  <2>1. CASE session'.phase = "failed"
    BY <1>1, <2>1, StoppedGood
  <2>2. CASE session'.phase # "failed"
    <3> HIDE DEF h
    <3>1. /\ Sound(session'.ch) /\ On(session'.ch) = On(session.ch) \cup Closure(h)
          /\ session'.list = session.list
          /\ session'.phase = session.phase /\ session'.op = session.op
          /\ session'.cache = session.cache /\ session'.want = session.want
      BY <1>1, <1>5, <2>0, <2>2, ApplyingIs DEF Pulling
    <3>2. ClosedGood'
      BY <1>1, <3>1 DEF WInv, ClosedGood, Pulling, Holding
    <3>3. GoalGood'
      BY <1>1, <1>6, <3>1 DEF WInv, GoalGood, Pulling, Sound
    <3>4. DownloadGood'
      BY <1>2, <1>3, <2>0, <2>2, <3>1 DEF DownloadGood
    <3>5. ClonedGood'
      <4>1. /\ Brought(NoLog, Range(session.list), session.want)
            /\ On(local) = {} /\ session.want \subseteq Changes /\ Closed(session.want)
            /\ On(session.ch) \subseteq session.want /\ ChangesOf(task.asked) \subseteq session.want
            /\ \A x \in ChangesOf(task.taken) : Closure(x) \subseteq On(session.ch)
        BY <1>1, <1>6 DEF WInv, ClonedGood
      <4>2. h \in session.want
        BY <1>3, <1>4, <1>5, <4>1, RequestsAre
      <4>3. Closure(h) \subseteq session.want
        BY <1>5, <4>1, <4>2, ClosureIs
      <4>4. ASSUME NEW x \in ChangesOf(task'.taken) PROVE Closure(x) \subseteq On(session'.ch)
        <5>1. task'.taken = task.taken \cup {<<"change", h>>}
          BY <1>3, <1>5, <2>0, <2>2
        <5>2. task'.taken \in SUBSET Requestable
          BY <1>3, <1>4, <1>5, <5>1, RequestsAre
        <5>3. <<"change", x>> \in task'.taken
          BY <5>2, RequestsAre
        <5>4. CASE <<"change", x>> \in task.taken
          <6>1. x \in ChangesOf(task.taken)
            BY <1>4, <5>4, RequestsAre
          <6> QED BY <3>1, <4>1, <6>1
        <5>5. CASE <<"change", x>> = <<"change", h>>
          <6>1. x = h
            BY <5>5
          <6> QED BY <3>1, <6>1
        <5> QED BY <5>1, <5>3, <5>4, <5>5
      <4>5. ChangesOf(task'.asked) \subseteq session.want
        BY <1>3, <2>0, <2>2, <4>1
      <4>6. On(session'.ch) \subseteq session.want
        BY <3>1, <4>1, <4>3
      <4> QED BY <1>1, <3>1, <4>1, <4>4, <4>5, <4>6 DEF ClonedGood
    <3> QED BY <3>2, <3>3, <3>4, <3>5 DEF WInv
  <2> QED BY <2>1, <2>2
<1>7. CASE session.op # "clone"
  <2>1. session' = session /\ task' = Taken(task)
    BY <1>1, <1>7 DEF TakeReady
  <2>2. ClosedGood' /\ GoalGood'
    BY <1>1, <2>1 DEF WInv, ClosedGood, GoalGood, Pulling, Holding
  <2>3. ClonedGood' /\ DownloadGood'
    BY <1>2, <1>3, <1>7, <2>1 DEF ClonedGood, DownloadGood
  <2> QED BY <2>2, <2>3 DEF WInv
<1> QED BY <1>6, <1>7


(* When the tasks end well everything that was asked for was taken: the    *)
(* receiver waits for at least what is on its way, and it waits for        *)
(* nothing.                                                                *)
LEMMA AllTaken ==
  ASSUME NEW t, TaskGood(t), t.receiver = "done", t.downloader = "done", t.ready = <<>>
  PROVE  t.asked \subseteq t.taken
<1>1. t.held = <<>> /\ t.waiting = 0
  BY DEF TaskGood, Ending
<1>2. /\ Len(t.queue) \in Nat /\ Len(t.sent) \in Nat /\ Len(t.arrived) \in Nat
      /\ DOMAIN t.queue = 1 .. Len(t.queue) /\ DOMAIN t.sent = 1 .. Len(t.sent)
      /\ DOMAIN t.arrived = 1 .. Len(t.arrived)
      /\ t.current \in Nat /\ t.current =< Len(t.sent)
  BY DEF TaskGood, TaskTyped
<1>3. t.waiting >= Pending(t)
  BY DEF TaskGood, Counting
<1>4. Pending(t) = 0 /\ Len(t.queue) = 0 /\ Len(t.sent) = t.current /\ Len(t.arrived) = 0
  <2> DEFINE q == Len(t.queue)
             s == Len(t.sent)
             a == Len(t.arrived)
             c == t.current
  <2>1. q \in Nat /\ s \in Nat /\ a \in Nat /\ c \in Nat /\ c =< s
    BY <1>2
  <2>2. Pending(t) = q + (s - c) + a /\ 0 >= Pending(t)
    BY <1>1, <1>3 DEF Pending
  <2> HIDE DEF q, s, a, c
  <2>3. 0 >= q + (s - c) + a
    BY ONLY <2>2
  <2>4. q = 0 /\ s = c /\ a = 0
    BY ONLY <2>1, <2>3
  <2>5. Pending(t) = 0
    BY ONLY <2>1, <2>2, <2>4
  <2> QED BY <2>4, <2>5 DEF q, s, a, c
<1>5. \A c \in t.asked : Somewhere(t, c)
  BY <1>1, <1>4 DEF TaskGood, Counting
<1> SUFFICES ASSUME NEW c \in t.asked PROVE c \in t.taken
  OBVIOUS
<1>6. ~ Has(t.queue, c) /\ \A follow \in BOOLEAN : ~ Has(t.arrived, <<c, follow>>)
  BY <1>2, <1>4 DEF Has
<1>7. ~ \E i \in DOMAIN t.sent : i > t.current /\ t.sent[i] = c
  BY <1>2, <1>4
<1>8. ~ Has(t.held, c) /\ ~ Has(t.ready, c)
  BY <1>1 DEF Has
<1> QED BY <1>5, <1>6, <1>7, <1>8 DEF Somewhere

(* What is left of a list of which everything was taken.                   *)
LEMMA ResultIs ==
  ASSUME WInv, TasksEnd, task.downloader = "done"
  PROVE  /\ Range(session.list) \subseteq task.taken
         /\ Result \in Seq(Requests(Changes)) /\ Range(Result) = Range(session.list)
<1>1. session.phase = "download" /\ task.ready = <<>> /\ task.receiver = "done"
  BY DEF TasksEnd, Working
<1>2. TaskGood(task) /\ Range(session.list) \subseteq task.asked /\ session.list \in Seq(Requestable)
  BY <1>1 DEF WInv, DownloadGood, GoalGood, Pulling
<1>3. Range(session.list) \subseteq task.taken /\ task.taken \subseteq Requests(Changes)
  BY <1>1, <1>2, AllTaken DEF TaskGood, TaskTyped
<1> DEFINE at == {i \in DOMAIN session.list : session.list[i] \in task.taken}
<1>4. Result = Chosen(session.list, at)
  BY DEF Result, parse_changelist
<1>5. at \in SUBSET (DOMAIN session.list)
  OBVIOUS
<1>6. \A c : (\E i \in at : session.list[i] = c) <=> Has(session.list, c)
  BY <1>3, RangeHas DEF Has
<1> HIDE DEF at
<1>7. Result \in Seq(Requestable) /\ \A c : Has(Result, c) <=> Has(session.list, c)
  BY <1>2, <1>4, <1>5, <1>6, ChosenIs
<1>8. \A c : c \in Range(Result) <=> c \in Range(session.list)
  BY <1>7, RangeHas
<1>9. \A i \in DOMAIN Result : Result[i] \in Requests(Changes)
  <2> SUFFICES ASSUME NEW i \in DOMAIN Result PROVE Result[i] \in Requests(Changes)
    OBVIOUS
  <2>1. Has(Result, Result[i])
    BY DEF Has
  <2> QED BY <1>3, <1>8, <2>1, RangeHas
<1>10. Result \in Seq(Requests(Changes))
  BY <1>7, <1>9
<1>11. Range(Result) = Range(session.list)
  BY <1>8
<1> QED BY <1>3, <1>10, <1>11

LEMMA CommitGood ==
  ASSUME RInv, WInv, Holding, NEW ch, Commit(ch), Sound(ch), Sound(remote')
  PROVE  WInv'
<1>1. local' = ch /\ cache' = session.cache /\ session'.phase = "idle"
  BY DEF Commit, NoSession
<1>2. KnownWhole(session.cache)
  BY DEF WInv, ClosedGood
<1> QED BY <1>1, <1>2, NothingHeld

LEMMA PulledSound ==
  ASSUME RInv, WInv, Pulling
  PROVE  Sound(session.ch) /\ Sound(remote) /\ PullShaped(session)
BY DEF RInv, PullGood, WInv, GoalGood, ClosedGood, Sound

LEMMA PullKeeps ==
  ASSUME RInv, WInv, pull
  PROVE  WInv'
<1>1. TasksEnd /\ session.phase = "download"
  BY DEF pull, TasksEnd, Working
<1>2. Sound(session.ch) /\ Sound(remote) /\ PullShaped(session)
  BY <1>1, PulledSound DEF Pulling
<1>3. CASE Fail
  BY <1>3, StoppedGood DEF Fail
<1>4. CASE Commit(session.ch) /\ UNCHANGED remote
  BY <1>1, <1>2, <1>4, CommitGood DEF Pulling, Holding
<1>5. CASE /\ task.downloader = "done" /\ session.op = "pull"
           /\ session' = [session EXCEPT !.phase = "choose", !.list = Result]
           /\ UNCHANGED <<kind, remote, local, cache, files>>
  <2>1. Result \in Seq(Requests(Changes)) /\ Range(Result) = Range(session.list)
    BY <1>1, <1>5, ResultIs
  <2>2. Result \in Seq(Requestable)
    BY <2>1, RequestsAre
  <2> DEFINE list == Result
  <2> HIDE DEF list
  <2>3. session' = [session EXCEPT !.phase = "choose", !.list = list]
    BY <1>5 DEF list
  <2>4. /\ session'.phase = "choose" /\ session'.list = list
        /\ session'.op = session.op /\ session'.ch = session.ch
        /\ session'.cache = session.cache /\ session'.named = session.named
        /\ session'.want = session.want /\ session'.exact = session.exact
    BY <1>2, <2>3 DEF PullShaped
  <2>5. ClosedGood'
    BY <1>1, <1>5, <2>4 DEF WInv, ClosedGood, Pulling, Holding
  <2>6. GoalGood'
    BY <1>1, <1>5, <2>1, <2>2, <2>4 DEF WInv, GoalGood, Pulling, list
  <2>7. ClonedGood' /\ DownloadGood'
    BY <2>4 DEF ClonedGood, DownloadGood
  <2> QED BY <2>5, <2>6, <2>7 DEF WInv
<1> QED BY <1>3, <1>4, <1>5 DEF pull

(* A pull that found nothing to select, or a clone, ends with what it was  *)
(* to get.                                                                 *)
LEMMA PullGot ==
  ASSUME RInv, WInv, pull, session'.phase = "idle"
  PROVE  /\ session.want \subseteq On(local')
         /\ session.exact => On(local') = On(local) \cup session.want
<1>1. TasksEnd /\ session.phase = "download"
  BY DEF pull, TasksEnd, Working
<1>2. PullShaped(session)
  BY <1>1, PulledSound DEF Pulling
<1>3. /\ task.downloader = "done" /\ (session.op = "clone" \/ Result = <<>>)
      /\ local' = session.ch
  <2>1. CASE Fail
    BY <2>1 DEF Fail
  <2>2. CASE session' = [session EXCEPT !.phase = "choose", !.list = Result]
    <3> DEFINE list == Result
    <3> HIDE DEF list
    <3>1. session' = [session EXCEPT !.phase = "choose", !.list = list]
      BY <2>2 DEF list
    <3>2. session'.phase = "choose"
      BY <1>2, <3>1 DEF PullShaped
    <3> QED BY <3>2
  <2> QED BY <2>1, <2>2 DEF pull, Commit
<1>4. Range(session.list) \subseteq task.taken /\ Range(Result) = Range(session.list)
  BY <1>1, <1>3, ResultIs
<1>5. /\ On(local) \subseteq On(session.ch) /\ session.op \in {"pull", "clone"}
      /\ session.list \in Seq(Requestable) /\ task.taken \in SUBSET Requestable
  BY <1>1, RequestsAre DEF WInv, GoalGood, Pulling, DownloadGood, TaskGood, TaskTyped
<1>6. CASE session.op = "clone"
  <2>1. /\ Brought(NoLog, Range(session.list), session.want) /\ On(local) = {}
        /\ On(session.ch) \subseteq session.want
        /\ \A h \in ChangesOf(task.taken) : Closure(h) \subseteq On(session.ch)
    BY <1>1, <1>6 DEF WInv, ClonedGood
  <2>2. On(NoLog) = {}
    BY DEF On, NoLog, EmptyDb
  <2>3. ASSUME NEW x \in session.want PROVE x \in On(session.ch)
    <3>1. PICK h \in ChangesOf(Range(session.list)) : x \in Closure(h)
      BY <2>1, <2>2 DEF Brought
    <3>2. <<"change", h>> \in task.taken
      BY <1>4, <1>5, <3>1, ChangesHas, RangeHas
    <3>3. h \in ChangesOf(task.taken)
      BY <1>5, <3>2, RequestsAre
    <3> QED BY <2>1, <3>1, <3>3
  <2> QED BY <1>3, <2>1, <2>3
<1>7. CASE session.op = "pull"
  <2>1. Range(session.list) = {}
    <3>1. Result = <<>>
      BY <1>3, <1>7
    <3>2. Range(Result) = {}
      BY <3>1, RangeHas DEF Has
    <3> QED BY <1>4, <3>2
  <2>2. /\ Brought(session.ch, Range(session.list), session.want)
        /\ session.exact => Bounded(session.ch, On(local), Range(session.list), session.want)
    BY <1>1, <1>7 DEF WInv, GoalGood, Pulling
  <2>3. \A h : h \notin ChangesOf({})
    BY DEF ChangesOf
  <2>4. session.want \subseteq On(session.ch)
    BY <2>1, <2>2, <2>3 DEF Brought
  <2>5. session.exact => On(session.ch) \subseteq On(local) \cup session.want
    BY <2>2 DEF Bounded
  <2> QED BY <1>3, <1>5, <2>4, <2>5
<1> QED BY <1>5, <1>6, <1>7


(* The lines left of a list, when they are lines of it. *)
LEMMA LeftIs ==
  ASSUME NEW list \in Seq(Requests(Changes)), NEW sel \in SUBSET Range(list)
  PROVE  /\ parse_changelist(list, sel) \in Seq(Requests(Changes))
         /\ Range(parse_changelist(list, sel)) = sel
<1> DEFINE at == {i \in DOMAIN list : list[i] \in sel}
           left == parse_changelist(list, sel)
<1>1. left = Chosen(list, at)
  BY DEF parse_changelist
<1>2. at \in SUBSET (DOMAIN list)
  OBVIOUS
<1>3. \A c : (\E i \in at : list[i] = c) <=> c \in sel
  BY RangeHas DEF Has
<1> HIDE DEF at, left
<1>4. left \in Seq(Requests(Changes)) /\ \A c : Has(left, c) <=> c \in sel
  BY <1>1, <1>2, <1>3, ChosenIs
<1>5. \A c : c \in Range(left) <=> c \in sel
  BY <1>4, RangeHas
<1> QED BY <1>4, <1>5 DEF left

LEMMA ChooseKeeps ==
  ASSUME RInv, WInv, Choose
  PROVE  WInv'
<1> DEFINE R == Range(session.list)
<1>1. session.phase = "choose" /\ UNCHANGED <<remote, local, cache>>
  BY DEF Choose
<1>2. PullShaped(session)
  BY <1>1, PulledSound DEF Pulling
<1>3. PICK sel \in SUBSET R :
        /\ sel = R \/ (~ session.named /\ check_deps(R, sel))
        /\ session' = [session EXCEPT
             !.phase = "apply", !.list = parse_changelist(@, sel),
             !.want  = IF sel = Range(session.list) THEN @ ELSE ChangesOf(sel),
             !.exact = @ \/ sel # Range(session.list)]
  <2>1. PICK sel \in IF session.named THEN {Range(session.list)} ELSE Selections(session.list) :
          session' = [session EXCEPT
             !.phase = "apply", !.list = parse_changelist(@, sel),
             !.want  = IF sel = Range(session.list) THEN @ ELSE ChangesOf(sel),
             !.exact = @ \/ sel # Range(session.list)]
    BY DEF Choose
  <2>2. sel \in SUBSET R /\ (sel = R \/ (~ session.named /\ check_deps(R, sel)))
    <3>1. CASE session.named
      BY <2>1, <3>1
    <3>2. CASE ~ session.named
      BY <2>1, <3>2 DEF Selections
    <3> QED BY <3>1, <3>2
  <2> QED BY <2>1, <2>2
<1> DEFINE list == parse_changelist(session.list, sel)
           want == IF sel = Range(session.list) THEN session.want ELSE ChangesOf(sel)
           exact == session.exact \/ sel # Range(session.list)
<1>4. session' = [session EXCEPT !.phase = "apply", !.list = list, !.want = want, !.exact = exact]
  BY <1>3
<1>5. /\ session.op = "pull" /\ session.ch = local
      /\ session.list \in Seq(Requests(Changes)) /\ session.list \in Seq(Requestable)
      /\ Brought(session.ch, R, session.want)
      /\ session.exact => Bounded(session.ch, On(local), R, session.want)
      /\ ~ session.named => Closed(On(local) \cup ChangesOf(R))
  BY <1>1 DEF WInv, GoalGood, Pulling
<1>6. R \in SUBSET Requestable /\ R \in SUBSET Requests(Changes) /\ ChangesOf(R) \in SUBSET Changes
  <2>1. \A c \in R : c \in Requests(Changes)
    BY <1>5, RangeHas DEF Has
  <2> QED BY <1>5, <2>1, ChangesHas
<1>7. list \in Seq(Requests(Changes)) /\ Range(list) = sel
  BY <1>5, LeftIs
<1>8. list \in Seq(Requestable)
  BY <1>7, RequestsAre
<1>9. Sound(local)
  BY DEF WInv, ClosedGood
<1>10. Brought(local, sel, want) /\ (exact => Bounded(local, On(local), sel, want))
  <2>1. CASE sel = R
    BY <1>5, <2>1
  <2>2. CASE sel # R
    <3>1. want = ChangesOf(sel) /\ ChangesOf(sel) \in SUBSET Changes /\ sel \in SUBSET Requestable
      BY <1>6, <1>7, <1>8, <2>2, ChangesHas
    <3>2. Brought(local, sel, ChangesOf(sel))
      <4> SUFFICES ASSUME NEW x \in ChangesOf(sel) PROVE x \in Closure(x)
        BY DEF Brought
      <4> QED BY <3>1, ClosureIs
    <3>3. Closed(On(local) \cup ChangesOf(sel))
      <4> SUFFICES ASSUME NEW x \in On(local) \cup ChangesOf(sel), NEW y \in DependsOn(x)
                   PROVE  y \in On(local) \cup ChangesOf(sel)
        BY DEF Closed
      <4>1. CASE x \in On(local)
        BY <1>9, <4>1, SoundClosed DEF Closed
      <4>2. CASE x \in ChangesOf(sel)
        <5>1. Closed(On(local) \cup ChangesOf(R)) /\ check_deps(R, sel)
          BY <1>3, <1>5, <2>2
        <5>2. x \in ChangesOf(R)
          BY <1>3, <4>2 DEF ChangesOf
        <5>3. y \in On(local) \cup ChangesOf(R)
          BY <5>1, <5>2 DEF Closed
        <5>4. ASSUME y \in ChangesOf(R) PROVE y \in ChangesOf(sel)
          <6>1. <<"change", y>> \in R
            BY <1>6, <5>4, RequestsAre
          <6>2. <<"change", y>> \in Requests(DependsOn(x))
            BY RequestsAre
          <6>3. <<"change", y>> \in sel
            BY <4>2, <5>1, <6>1, <6>2 DEF check_deps
          <6> QED BY <3>1, <6>3, RequestsAre
        <5> QED BY <5>3, <5>4
      <4> QED BY <4>1, <4>2
    <3>4. Bounded(local, On(local), sel, ChangesOf(sel))
      <4> SUFFICES ASSUME NEW h \in ChangesOf(sel) PROVE Closure(h) \subseteq On(local) \cup ChangesOf(sel)
        BY DEF Bounded
      <4>1. On(local) \cup ChangesOf(sel) \in SUBSET Changes /\ h \in Changes
        BY <1>9, <3>1 DEF Sound
      <4> QED BY <3>3, <4>1, ClosureIs
    <3> QED BY <3>1, <3>2, <3>4
  <2> QED BY <2>1, <2>2
<1> HIDE DEF list, want, exact
<1>11. /\ session'.phase = "apply" /\ session'.list = list
       /\ session'.op = session.op /\ session'.ch = session.ch
       /\ session'.cache = session.cache /\ session'.want = want /\ session'.exact = exact
  BY <1>2, <1>4 DEF PullShaped
<1>12. ClosedGood'
  BY <1>1, <1>11 DEF WInv, ClosedGood, Pulling, Holding
<1>13. GoalGood'
  BY <1>1, <1>5, <1>7, <1>8, <1>9, <1>10, <1>11 DEF GoalGood, Sound
<1>14. ClonedGood' /\ DownloadGood'
  BY <1>11 DEF ClonedGood, DownloadGood
<1> QED BY <1>12, <1>13, <1>14 DEF WInv

LEMMA FrontHas ==
  ASSUME NEW S, NEW s \in Seq(S), s # <<>>
  PROVE  /\ s[Len(s)] \in S /\ SubSeq(s, 1, Len(s) - 1) \in Seq(S)
         /\ \A c : Has(s, c) <=> c = s[Len(s)] \/ Has(SubSeq(s, 1, Len(s) - 1), c)
<1> DEFINE n == Len(s)
           front == SubSeq(s, 1, n - 1)
<1>1. n \in Nat /\ n > 0 /\ DOMAIN s = 1 .. n
  OBVIOUS
<1>2. front \in Seq(S) /\ Len(front) = n - 1 /\ \A i \in 1 .. n - 1 : front[i] = s[i]
  BY <1>1
<1>3. DOMAIN front = 1 .. n - 1
  BY <1>2
<1> HIDE DEF n, front
<1>4. s[n] \in S
  BY <1>1
<1>5. ASSUME NEW c, Has(s, c) PROVE c = s[n] \/ Has(front, c)
  <2>1. PICK i \in 1 .. n : s[i] = c
    BY <1>1, <1>5 DEF Has
  <2>2. i = n \/ i \in 1 .. n - 1
    BY <1>1
  <2> QED BY <1>2, <1>3, <2>1, <2>2 DEF Has
<1>6. ASSUME NEW c, c = s[n] \/ Has(front, c) PROVE Has(s, c)
  <2>1. n \in 1 .. n /\ 1 .. n - 1 \subseteq 1 .. n
    BY <1>1
  <2> QED BY <1>1, <1>2, <1>3, <1>6, <2>1 DEF Has
<1> QED BY <1>2, <1>4, <1>5, <1>6 DEF n, front

LEMMA ApplyKeeps ==
  ASSUME RInv, WInv, apply_pulled
  PROVE  WInv'
<1> DEFINE c == session.list[Len(session.list)]
           rest == SubSeq(session.list, 1, Len(session.list) - 1)
           h == c[2]
<1>1. session.phase = "apply"
  BY DEF apply_pulled
<1>2. Sound(session.ch) /\ Sound(remote) /\ PullShaped(session)
  BY <1>1, PulledSound DEF Pulling
<1>3. CASE session.list = <<>>
  BY <1>1, <1>2, <1>3, CommitGood DEF apply_pulled, Pulling, Holding
<1>4. CASE session.list # <<>>
  <2>1. Applying(h, rest) /\ UNCHANGED <<remote, local, cache>>
    BY <1>4 DEF apply_pulled
  <2>2. /\ session.list \in Seq(Requests(Changes)) /\ session.list \in Seq(Requestable)
        /\ session.op = "pull"
        /\ On(local) \subseteq On(session.ch)
        /\ Brought(session.ch, Range(session.list), session.want)
        /\ session.exact => Bounded(session.ch, On(local), Range(session.list), session.want)
    BY <1>1 DEF WInv, GoalGood, Pulling
  <2>3. /\ c \in Requests(Changes) /\ rest \in Seq(Requests(Changes))
        /\ \A d : Has(session.list, d) <=> d = c \/ Has(rest, d)
    BY <1>4, <2>2, FrontHas
  <2>4. c = <<"change", h>> /\ h \in Changes
    BY <2>3, RequestsAre
  <2>5. rest \in Seq(Requestable)
    BY <2>3, RequestsAre
  <2> HIDE DEF rest, c, h
  <2>6. CASE session'.phase = "failed"
    BY <2>1, <2>6, StoppedGood
  <2>7. CASE session'.phase # "failed"
    <3>1. /\ Sound(session'.ch) /\ On(session'.ch) = On(session.ch) \cup Closure(h)
          /\ session'.list = rest
          /\ session'.phase = session.phase /\ session'.op = session.op
          /\ session'.cache = session.cache
          /\ session'.want = session.want /\ session'.exact = session.exact
      BY <1>1, <2>1, <2>4, <2>7, ApplyingIs DEF Pulling
    <3>2. \A x : x \in ChangesOf(Range(session.list)) <=> x = h \/ x \in ChangesOf(Range(rest))
      <4> TAKE x
      <4>1. x \in ChangesOf(Range(session.list)) <=> Has(session.list, <<"change", x>>)
        BY <2>2, ChangesHas
      <4>2. x \in ChangesOf(Range(rest)) <=> Has(rest, <<"change", x>>)
        BY <2>5, ChangesHas
      <4>3. <<"change", x>> = c <=> x = h
        BY <2>4
      <4> QED BY <2>3, <4>1, <4>2, <4>3
    <3>3. Brought(session'.ch, Range(rest), session.want)
      BY <2>2, <3>1, <3>2 DEF Brought
    <3>4. session.exact => Bounded(session'.ch, On(local), Range(rest), session.want)
      BY <2>2, <3>1, <3>2 DEF Bounded
    <3>5. ClosedGood'
      BY <1>1, <2>1, <3>1 DEF WInv, ClosedGood, Pulling, Holding
    <3>6. GoalGood'
      BY <1>1, <2>1, <2>2, <2>3, <2>5, <3>1, <3>3, <3>4 DEF GoalGood, Sound
    <3>7. ClonedGood' /\ DownloadGood'
      BY <1>1, <3>1 DEF ClonedGood, DownloadGood
    <3> QED BY <3>5, <3>6, <3>7 DEF WInv
  <2> QED BY <2>6, <2>7
<1> QED BY <1>3, <1>4

(* A pull that applied all that was selected ends with it. *)
LEMMA ApplyGot ==
  ASSUME RInv, WInv, apply_pulled, session'.phase = "idle"
  PROVE  /\ session.want \subseteq On(local')
         /\ session.exact => On(local') = On(local) \cup session.want
<1>1. session.phase = "apply"
  BY DEF apply_pulled
<1>2. PullShaped(session)
  BY <1>1, PulledSound DEF Pulling
<1>3. session.list = <<>> /\ local' = session.ch
  <2>1. CASE session.list # <<>>
    <3>1. PICK after :
            IF Readable(session.ch, after) THEN \E rest : session' = [session EXCEPT !.ch = after, !.list = rest]
            ELSE session' = [phase |-> "failed", clone |-> session.op = "clone"]
      BY <2>1 DEF apply_pulled, Applying
    <3>2. CASE session' = [phase |-> "failed", clone |-> session.op = "clone"]
      BY <3>2
    <3>3. CASE \E rest : session' = [session EXCEPT !.ch = after, !.list = rest]
      <4>1. PICK rest : session' = [session EXCEPT !.ch = after, !.list = rest]
        BY <3>3
      <4> QED BY <1>1, <1>2, <4>1 DEF PullShaped
    <3> QED BY <3>1, <3>2, <3>3
  <2> QED BY <2>1 DEF apply_pulled, Commit
<1>4. /\ Brought(session.ch, Range(session.list), session.want)
      /\ session.exact => Bounded(session.ch, On(local), Range(session.list), session.want)
      /\ On(local) \subseteq On(session.ch)
  BY <1>1 DEF WInv, GoalGood, Pulling
<1>5. \A h : h \notin ChangesOf(Range(session.list))
  <2>1. Range(session.list) = {}
    BY <1>3, RangeHas DEF Has
  <2> QED BY <2>1 DEF ChangesOf
<1>6. session.want \subseteq On(session.ch)
  BY <1>4, <1>5 DEF Brought
<1>7. session.exact => On(session.ch) \subseteq On(local) \cup session.want
  BY <1>4 DEF Bounded
<1> QED BY <1>3, <1>4, <1>6, <1>7


-----------------------------------------------------------------------------
(* What a push leaves on the remote *)

LEMMA SentIn ==
  ASSUME NEW list, Listing(list), NEW sel
  PROVE  /\ \A j \in DOMAIN parse_changelist(list, sel) :
              \E k \in DOMAIN list : parse_changelist(list, sel)[j] = list[k]
         /\ \A i \in 0 .. Len(parse_changelist(list, sel)) :
              \A j \in DOMAIN SubSeq(parse_changelist(list, sel), 1, i) :
                \E k \in DOMAIN list : SubSeq(parse_changelist(list, sel), 1, i)[j] = list[k]
<1> DEFINE at == {i \in DOMAIN list : list[i] \in sel}
           db == [i \in at |-> list[i]]
           sent == parse_changelist(list, sel)
<1>1. sent = InOrder(db) /\ DOMAIN db = at
  BY DEF parse_changelist, Chosen
<1>2. at \in SUBSET Nat /\ IsFiniteSet(at)
  <2>1. at \in SUBSET (1 .. Len(list)) /\ IsFiniteSet(1 .. Len(list))
    BY FS_Interval DEF Listing
  <2>2. 1 .. Len(list) \in SUBSET Nat
    BY DEF Listing
  <2> HIDE DEF at
  <2> QED BY <2>1, <2>2, FS_Subset
<1>3. \A k \in DOMAIN db : k \in DOMAIN list /\ db[k] = list[k]
  OBVIOUS
<1> HIDE DEF at, db, sent
<1>4. Listing(sent) /\ {sent[j] : j \in DOMAIN sent} = {db[k] : k \in DOMAIN db}
  <2> DEFINE hs == InOrder(db)
  <2>1. DOMAIN db \in SUBSET Nat /\ IsFiniteSet(DOMAIN db)
    BY <1>1, <1>2
  <2>2. Listing(hs) /\ {hs[j] : j \in DOMAIN hs} = {db[k] : k \in DOMAIN db}
    BY <2>1, InOrderIs DEF Listing
  <2>3. sent = hs
    BY <1>1
  <2> HIDE DEF hs
  <2> QED BY <2>2, <2>3
<1>5. ASSUME NEW j \in DOMAIN sent PROVE \E k \in DOMAIN list : sent[j] = list[k]
  <2>1. PICK k \in DOMAIN db : sent[j] = db[k]
    BY <1>4
  <2> QED BY <1>3, <2>1
<1>6. sent \in Seq({sent[i] : i \in 1 .. Len(sent)})
  <2>1. sent = [i \in DOMAIN sent |-> sent[i]]
    BY <1>1 DEF InOrder
  <2> QED BY <1>4, <2>1 DEF Listing
<1>7. ASSUME NEW i \in 0 .. Len(sent), NEW j \in DOMAIN SubSeq(sent, 1, i)
      PROVE  \E k \in DOMAIN list : SubSeq(sent, 1, i)[j] = list[k]
  <2>1. i \in Nat /\ i =< Len(sent) /\ Len(sent) \in Nat
    BY <1>4 DEF Listing
  <2>2. j \in DOMAIN sent /\ SubSeq(sent, 1, i)[j] = sent[j]
    BY <1>4, <1>6, <2>1 DEF Listing
  <2> QED BY <1>5, <2>2
<1> QED BY <1>5, <1>7 DEF sent

LEMMA UploadsSound ==
  ASSUME RInv, WInv, Pushing, NEW sel
  PROVE  /\ Accepts(remote, Sent(sel)) => Sound(Uploaded(remote, Sent(sel)))
         /\ \A i \in 0 .. Len(Sent(sel)) :
              Accepts(remote, SubSeq(Sent(sel), 1, i)) => Sound(Uploaded(remote, SubSeq(Sent(sel), 1, i)))
<1>1. /\ Listing(session.list) /\ LogGood(remote) /\ Sound(remote)
      /\ \A i \in DOMAIN session.list : session.list[i][1] = "change" => session.list[i][2] \in Changes
  BY DEF RInv, ChannelsGood, PushGood, WInv, ClosedGood, Pushing
<1>2. ASSUME NEW sent, Listing(sent), Accepts(remote, sent),
             \A j \in DOMAIN sent : \E k \in DOMAIN session.list : sent[j] = session.list[k]
      PROVE  Sound(Uploaded(remote, sent))
  <2>1. /\ Ordered(Uploaded(remote, sent))
        /\ \A x \in On(Uploaded(remote, sent)) :
             x \in On(remote) \/ \E i \in DOMAIN sent : sent[i][1] = "change" /\ sent[i][2] = x
    BY <1>1, <1>2, UploadedGood DEF Sound
  <2>2. \A i \in DOMAIN sent : sent[i][1] = "change" => sent[i][2] \in Changes
    BY <1>1, <1>2
  <2> QED BY <1>1, <2>1, <2>2 DEF Sound
<1>3. /\ Listing(Sent(sel))
      /\ \A i \in 0 .. Len(Sent(sel)) : Listing(SubSeq(Sent(sel), 1, i))
      /\ \A j \in DOMAIN Sent(sel) : \E k \in DOMAIN session.list : Sent(sel)[j] = session.list[k]
      /\ \A i \in 0 .. Len(Sent(sel)) :
           \A j \in DOMAIN SubSeq(Sent(sel), 1, i) :
             \E k \in DOMAIN session.list : SubSeq(Sent(sel), 1, i)[j] = session.list[k]
  BY <1>1, SentListing, SentIn DEF Sent
<1> QED BY <1>2, <1>3

LEMMA UploadsKeep ==
  ASSUME RInv, WInv,
         nothing_to_push \/ upload_to_path \/ commit_push \/ upload_to_channel \/ upload_over_ssh
  PROVE  WInv'
<1>0. Sound(remote) /\ Sound(local) /\ KnownWhole(cache)
  BY DEF WInv, ClosedGood
<1>1. CASE nothing_to_push
  BY <1>0, <1>1, CommitGood DEF nothing_to_push, Pushing, Holding
<1>2. CASE commit_push
  BY <1>0, <1>2, CommitGood DEF commit_push, Holding
<1>3. CASE Fail
  BY <1>3, StoppedGood DEF Fail
<1>4. CASE upload_to_path /\ ~ Fail
  <2>1. Pushing
    BY <1>4 DEF upload_to_path
  <2>2. PICK sel : /\ Accepts(remote, Sent(sel)) /\ remote' = Uploaded(remote, Sent(sel))
                   /\ session' = [session EXCEPT !.phase = "uploaded", !.list = <<>>]
                   /\ UNCHANGED <<local, cache>>
    BY <1>4 DEF upload_to_path
  <2>3. Sound(remote')
    BY <2>1, <2>2, UploadsSound
  <2>4. PushShaped(session) /\ KnownWhole(session.cache)
    BY <2>1 DEF RInv, PushGood, WInv, ClosedGood, Pushing, Holding
  <2>5. session'.phase = "uploaded" /\ session'.cache = session.cache
    BY <2>2, <2>4 DEF PushShaped
  <2> QED BY <1>0, <2>2, <2>3, <2>4, <2>5
       DEF WInv, ClosedGood, GoalGood, ClonedGood, DownloadGood, Pulling, Holding
<1>5. CASE upload_to_channel /\ ~ Fail
  <2>1. Pushing
    BY <1>5 DEF upload_to_channel
  <2>2. PICK sel : /\ Accepts(remote, Sent(sel)) /\ remote' = Uploaded(remote, Sent(sel))
                   /\ Commit(local)
    BY <1>5 DEF upload_to_channel
  <2>3. Sound(remote')
    BY <2>1, <2>2, UploadsSound
  <2> QED BY <1>0, <2>1, <2>2, <2>3, CommitGood DEF Pushing, Holding
<1>6. CASE upload_over_ssh
  <2>1. Pushing
    BY <1>6 DEF upload_over_ssh
  <2>2. PICK sel : \E i \in 0 .. Len(Sent(sel)) :
          LET sent == SubSeq(Sent(sel), 1, i)
          IN  /\ remote' = remote \/ (Accepts(remote, sent) /\ remote' = Uploaded(remote, sent))
              /\ \/ Commit(local)
                 \/ session'.phase = "failed" /\ UNCHANGED <<local, cache>>
    BY <1>6 DEF upload_over_ssh, AcceptsOverSsh
  <2>3. PICK i \in 0 .. Len(Sent(sel)) :
          LET sent == SubSeq(Sent(sel), 1, i)
          IN  /\ remote' = remote \/ (Accepts(remote, sent) /\ remote' = Uploaded(remote, sent))
              /\ \/ Commit(local)
                 \/ session'.phase = "failed" /\ UNCHANGED <<local, cache>>
    BY <2>2
  <2> DEFINE sent == SubSeq(Sent(sel), 1, i)
  <2>4. Accepts(remote, sent) => Sound(Uploaded(remote, sent))
    BY <2>1, UploadsSound
  <2>5. Sound(remote')
    BY <1>0, <2>3, <2>4
  <2>6. CASE Commit(local)
    BY <1>0, <2>1, <2>5, <2>6, CommitGood DEF Pushing, Holding
  <2>7. CASE session'.phase = "failed" /\ UNCHANGED <<local, cache>>
    BY <1>0, <2>5, <2>7, NothingHeld
  <2> QED BY <2>3, <2>6, <2>7
<1> QED BY <1>1, <1>2, <1>3, <1>4, <1>5, <1>6

-----------------------------------------------------------------------------
(* The invariant of downloads is inductive *)

LEMMA WInvInit == Init => WInv
<1> SUFFICES ASSUME Init PROVE WInv
  OBVIOUS
<1>1. remote = NoLog /\ local = NoLog /\ cache = NoCache /\ session = [phase |-> "idle"]
  BY DEF Init, NoSession
<1>2. DOMAIN NoLog.log = {} /\ DOMAIN NoCache.remote = {}
  BY DEF NoLog, NoCache, EmptyDb
<1>3. Sound(NoLog) /\ KnownWhole(NoCache)
  BY <1>2 DEF Sound, Ordered, On, KnownWhole, Closed, Remembered
<1>4. session.phase = "idle"
  BY <1>1
<1> QED BY <1>1, <1>3, <1>4 DEF WInv, ClosedGood, GoalGood, ClonedGood, DownloadGood, Pulling, Holding

LEMMA WInvStep ==
  ASSUME RInv, WInv, [Next]_vars
  PROVE  WInv'
<1>1. CASE RemoteChanges \/ LocalChanges
  BY <1>1, OthersGood
<1>2. CASE Commands
  <2>1. CASE ask_for_state
    BY <2>1, StoppedGood DEF ask_for_state
  <2>2. CASE \E force \in BOOLEAN : push(force)
    BY <2>2, PushStarts
  <2>3. CASE \E force \in BOOLEAN : \/ update_changelist_pushpull(force)
                                    \/ \E h \in Changes : pull_named(force, h)
    BY <2>3, PullStarts
  <2>4. CASE pull_uncached \/ \E h \in Changes : pull_named_channel(h)
    BY <2>4, PullStarts
  <2> QED BY <1>2, <2>1, <2>2, <2>3, <2>4, CloneStarts DEF Commands
<1>3. CASE DownloadStep
  BY <1>3, TasksKeep, ReceiverKeeps, TakenKeeps, PullKeeps DEF DownloadStep
<1>4. CASE Choose \/ apply_pulled
  BY <1>4, ChooseKeeps, ApplyKeeps
<1>5. CASE nothing_to_push \/ upload_to_path \/ commit_push \/ upload_to_channel \/ upload_over_ssh
  BY <1>5, UploadsKeep
<1>6. CASE Kill
  BY <1>6, StoppedGood DEF Kill, Fail
<1>7. CASE Exit
  BY <1>7, StoppedGood DEF Exit, NoSession
<1>8. CASE UNCHANGED vars
  BY <1>8, FrameGood DEF vars, WInv, ClosedGood
<1> QED BY <1>1, <1>2, <1>3, <1>4, <1>5, <1>6, <1>7, <1>8 DEF Next

(* A pull or a clone ends well in two ways. *)
LEMMA EndsAre ==
  ASSUME RInv, WInv, [Next]_vars, session.phase \in {"download", "apply"}, session'.phase = "idle"
  PROVE  pull \/ apply_pulled
<1>1. CASE RemoteChanges \/ LocalChanges \/ Fetch \/ AnswerArrives \/ DownloaderEnds \/ ReceiverStep
  <2>1. session' = session
    BY <1>1 DEF RemoteChanges, LocalChanges, Fetch, AnswerArrives, DownloaderEnds, ReceiverStep, TasksOnly
  <2> QED BY <2>1
<1>2. CASE Commands
  <2>1. Idle
    BY <1>2 DEF Commands, ask_for_state, update_changelist_pushpull, pull_named, pull_uncached,
                pull_named_channel, clone_channel, clone_state, clone_tag, Cloning, push
  <2> QED BY <2>1 DEF Idle
<1>3. CASE TakeReady
  <2>1. PullShaped(session)
    BY PulledSound DEF Pulling
  <2>2. CASE \E rest, after : session' = [session EXCEPT !.ch = after, !.list = rest]
    <3>1. PICK rest, after : session' = [session EXCEPT !.ch = after, !.list = rest]
      BY <2>2
    <3>2. session'.phase = session.phase
      BY <2>1, <3>1 DEF PullShaped
    <3> QED BY <3>2
  <2>3. CASE session' = [phase |-> "failed", clone |-> session.op = "clone"]
    BY <2>3
  <2>4. CASE session' = session
    BY <2>4
  <2> QED BY <1>3, <2>2, <2>3, <2>4 DEF TakeReady, Applying
<1>4. CASE Choose \/ nothing_to_push \/ upload_to_path \/ commit_push \/ upload_to_channel \/ upload_over_ssh
  BY <1>4 DEF Choose, nothing_to_push, upload_to_path, commit_push, upload_to_channel,
              upload_over_ssh, Pushing
<1>5. CASE Kill
  BY <1>5 DEF Kill, Fail
<1>6. CASE Exit
  BY <1>6 DEF Exit
<1>7. CASE UNCHANGED vars
  BY <1>7 DEF vars
<1> QED BY <1>1, <1>2, <1>3, <1>4, <1>5, <1>6, <1>7 DEF Next, DownloadStep

-----------------------------------------------------------------------------
(* The theorems *)

(* In every state what is remembered of the remote is comparable to it, on *)
(* both channels a change is at one position, and the repository's has     *)
(* every change after those it depends on.                                 *)
THEOREM CachesComparable == Spec => []RInv
<1>1. Init => RInv
  BY RInvInit
<1>2. RInv /\ [Next]_vars => RInv'
  BY RInvStep
<1> QED BY <1>1, <1>2, PTL DEF Spec

(* What the comparison of a pull or a push skips is the same on both       *)
(* sides, whatever both sides recorded and unrecorded since the last one.  *)
THEOREM DichotomyAlwaysSound == Spec => []DichotomySound
<1>1. RInv => DichotomySound
  <2> SUFFICES ASSUME RInv PROVE DichotomySound
    OBVIOUS
  <2>1. SameBelow(cache, remote, dichotomy_changelist(cache, Answers))
    BY AnswersGood, DichotomyRight
  <2> QED BY <2>1 DEF DichotomySound, SameBelow, Known
<1> QED BY <1>1, CachesComparable, PTL

(* The list of a push has what the remote lacked, once each, in an order   *)
(* the remote can apply.                                                   *)
THEOREM PushListsExact == Spec => []PushExact
<1>1. RInv => PushExact
  BY DEF RInv, PushGood, PushedRight, PushExact
<1> QED BY <1>1, CachesComparable, PTL

(* In every state both channels and what is remembered of the remote are   *)
(* closed under the dependencies, the receiver of a download waits for at  *)
(* least what is on its way to it, and what a pull is to get is on its     *)
(* channel or comes with what it asks for.                                 *)
THEOREM DownloadsCount == Spec => []WInv
<1>1. Init => WInv
  BY WInvInit
<1>2. RInv /\ WInv /\ [Next]_vars => WInv'
  BY WInvStep
<1> QED BY <1>1, <1>2, CachesComparable, PTL DEF Spec

(* A task of a download has something to do, or all have ended: the guards *)
(* of TakeReady, Fetch, DownloaderEnds, ReceiverStep and pull.             *)
NeverStalls ==
  session.phase = "download" /\ kind # "ssh" /\ NoTag(task.asked) =>
    \/ task.ready # <<>>
    \/ task.downloader = "running" /\ (task.queue # <<>> \/ DownloaderReturns(task))
    \/ task.receiver = "running" /\ (task.arrived # <<>> \/ task.downloader # "running")
    \/ TasksEnd

(* The tasks of a pull or a clone that asks for no tag never all wait for  *)
(* one another, except over ssh: the receiver waits only for what the      *)
(* downloader still has to get.                                            *)
THEOREM DownloadsNeverStall == Spec => []NeverStalls
<1>1. WInv => NeverStalls
  <2> SUFFICES ASSUME WInv, session.phase = "download", kind # "ssh", NoTag(task.asked), task.ready = <<>>
               PROVE  \/ task.downloader = "running" /\ (task.queue # <<>> \/ DownloaderReturns(task))
                      \/ task.receiver = "running" /\ (task.arrived # <<>> \/ task.downloader # "running")
                      \/ TasksEnd
    BY DEF NeverStalls
  <2>1. TaskGood(task) /\ Awake(task) /\ task.sent = <<>>
    BY DEF WInv, DownloadGood
  <2>2. task.receiver \in {"running", "done"}
    BY <2>1 DEF TaskGood, Ending
  <2>3. CASE task.receiver = "done"
    BY <2>1, <2>3 DEF TasksEnd, Working, DownloaderReturns
  <2>4. CASE task.receiver = "running"
    <3> SUFFICES ASSUME task.queue = <<>>, task.arrived = <<>> PROVE FALSE
      BY <2>1, <2>4
    <3>1. task.current \in Nat /\ task.current =< 0
      BY <2>1 DEF TaskGood, TaskTyped
    <3>2. Pending(task) = 0
      BY <2>1, <3>1 DEF Pending
    <3>3. task.waiting = 0
      BY <2>1, <3>2 DEF TaskGood, Counting
    <3> QED BY <2>1, <2>4, <3>3 DEF Awake
  <2> QED BY <2>2, <2>3, <2>4
<1> QED BY <1>1, DownloadsCount, PTL

(* A pull or a clone that ends well leaves the channel with all that was   *)
(* wanted and its dependencies, and, unless the user was told that the     *)
(* remote unrecorded some, with nothing else, however its tasks took turns *)
(* and whatever others did to the remote meanwhile.                        *)
THEOREM PullsGetWanted == Spec => PullGetsWanted
<1> DEFINE Gets == session.phase \in {"download", "apply"} /\ session'.phase = "idle" =>
                     /\ session.want \subseteq On(local')
                     /\ session.exact => On(local') = On(local) \cup session.want
<1>1. RInv /\ WInv /\ [Next]_vars => [Gets]_vars
  BY EndsAre, PullGot, ApplyGot
<1>2. Spec => [][Gets]_vars
  BY <1>1, CachesComparable, DownloadsCount, PTL DEF Spec
<1> QED BY <1>2 DEF PullGetsWanted
=============================================================================
