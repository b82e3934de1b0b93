-------------------------- MODULE DependencyProofs --------------------------
(* Theorems about what channels hold, as long as no last copy of a change  *)
(* is dropped with its channel (SpecCopies): the tables of dependencies    *)
(* are exact, channels are closed under dependency, and the library        *)
(* implements module ChannelSets.                                          *)
EXTENDS PristineProofs

(* A measure that decreases from a change to its dependencies. *)
Rank ==
  CHOOSE rank \in [Hash -> 0 .. Cardinality(Hash)] :
    \A h \in Hash : \A d \in Deps(h) : rank[d] < rank[h]

LEMMA RankDecreases ==
  /\ Rank \in [Hash -> Nat]
  /\ \A h \in Hash : Deps(h) \subseteq Hash /\ \A d \in Deps(h) : Rank[d] < Rank[h]
<1>1. Cardinality(Hash) \in Nat
  BY HashFinite, FS_CardinalityType
<1>2. /\ Rank \in [Hash -> 0 .. Cardinality(Hash)]
      /\ \A h \in Hash : \A d \in Deps(h) : Rank[d] < Rank[h]
  BY DependenciesAcyclic DEF Rank
<1>3. \A h \in Hash : Deps(h) \subseteq Hash
  BY DependenciesType DEF Deps
<1> QED BY <1>1, <1>2, <1>3

(* Two tables that say the same, one read backwards. *)
LEMMA MirrorIs ==
  ASSUME NEW R \in SUBSET (Id \X Id), NEW S \in SUBSET (Id \X Id)
  PROVE  S = {<<e[2], e[1]>> : e \in R} <=> \A a, b : <<b, a>> \in S <=> <<a, b>> \in R
<1> DEFINE Flip(e) == <<e[2], e[1]>>
           F == {Flip(e) : e \in R}
<1>1. \A a, b : <<b, a>> \in F <=> <<a, b>> \in R
  <2>1. ASSUME NEW a, NEW b, <<a, b>> \in R PROVE <<b, a>> \in F
    <3>1. Flip(<<a, b>>) = <<b, a>>
      OBVIOUS
    <3> HIDE DEF Flip
    <3> QED BY <2>1, <3>1
  <2>2. ASSUME NEW a, NEW b, <<b, a>> \in F PROVE <<a, b>> \in R
    <3>1. PICK e \in R : <<b, a>> = Flip(e)
      BY <2>2
    <3>2. e = <<e[1], e[2]>>
      OBVIOUS
    <3>3. e[2] = b /\ e[1] = a
      BY <3>1
    <3> QED BY <3>2, <3>3
  <2> QED BY <2>1, <2>2
<1>2. F \subseteq Id \X Id
  OBVIOUS
<1>3. (\A a, b : <<b, a>> \in S <=> <<b, a>> \in F) => S = F
  <2> HIDE DEF F
  <2>1. \A x \in Id \X Id : x = <<x[1], x[2]>>
    OBVIOUS
  <2> QED BY <1>2, <2>1
<1> HIDE DEF F
<1>4. S = F <=> \A a, b : <<b, a>> \in S <=> <<a, b>> \in R
  BY <1>1, <1>3
<1> QED BY <1>4 DEF F

-----------------------------------------------------------------------------
(* The inductive invariant *)

(* dep has every dependency of every change with an id. *)
DepsComplete ==
  \A p \in DOMAIN external : \A d \in Deps(external[p]) :
    d \in DOMAIN internal /\ <<p, internal[d]>> \in dep

(* The walk of apply_change_rec_ws over dependencies.  Above a change that *)
(* waits are only changes it depends on, with each of its dependencies     *)
(* that is not on the channel yet; everything but the change the walk      *)
(* started from will be applied; a change met before is on the channel, or *)
(* waits.                                                                  *)
Waits(i) == ~ rec.stack[i].first
WalkOrdered ==
  /\ \A i \in DOMAIN rec.stack : 1 < i => rec.stack[i].apply
  /\ \A i, j \in DOMAIN rec.stack :
       Waits(i) /\ i < j => Rank[rec.stack[j].hash] < Rank[rec.stack[i].hash]
  /\ \A i \in DOMAIN rec.stack : Waits(i) =>
       \A d \in Deps(rec.stack[i].hash) :
         \/ OnChannel(channels[rec.channel], d)
         \/ \E j \in DOMAIN rec.stack : i < j /\ rec.stack[j].hash = d
  /\ \A h \in rec.visited :
       \/ OnChannel(channels[rec.channel], h)
       \/ \E i \in DOMAIN rec.stack : Waits(i) /\ rec.stack[i].hash = h

DInv ==
  /\ IInv
  /\ DepsMirrored /\ DepsComplete /\ KnownAreUsed
  /\ DependenciesBefore
  /\ WalkOrdered

-----------------------------------------------------------------------------
(* What the calls do to the tables *)

(* What the invariant of PristineProofs says of the ids of a channel. *)
LEMMA ChannelIds ==
  ASSUME IInv, NEW n \in DOMAIN channels
  PROVE  /\ Channel(channels[n]) /\ LogAgrees(channels[n], external)
         /\ \A q \in DOMAIN channels[n].changes :
              /\ q \in DOMAIN external /\ external[q] \in DOMAIN internal
              /\ external[q] \in Hash
              /\ internal[external[q]] = q
              /\ OnChannel(channels[n], external[q])
              /\ channels[n].changes[q] < channels[n].apply_counter
BY DEF IInv, ChannelsOK, ChannelOK, RegistryOK, IdsAgree, LogAgrees, OnChannel

(* Applying change h to channel n: it gets an id, of which the registry    *)
(* knows all dependencies, and the last position of the channel.           *)
LEMMA ApplyEffect ==
  ASSUME IInv, NEW n \in DOMAIN channels, NEW h \in Hash,
         \/ RegisterIfUnknown(h)
         \/ register_change(make_changeid(h), h),
         ApplyToChannel(n, h)
  PROVE  LET p == make_changeid(h) IN
         /\ DOMAIN external' = DOMAIN external \cup {p} /\ external'[p] = h
         /\ DOMAIN internal' = DOMAIN internal \cup {h} /\ internal'[h] = p
         /\ \A q \in DOMAIN external : external'[q] = external[q]
         /\ \A g \in DOMAIN internal : internal'[g] = internal[g]
         /\ p \notin DOMAIN channels[n].changes
         /\ DOMAIN channels' = DOMAIN channels
         /\ channels'[n].changes = Put(channels[n].changes, p, channels[n].apply_counter)
         /\ \A m \in DOMAIN channels \ {n} : channels'[m] = channels[m]
<1> DEFINE p == make_changeid(h)
<1>1. /\ RegistryOK'
      /\ DOMAIN external' = DOMAIN external \cup {p} /\ external'[p] = h
      /\ DOMAIN internal' = DOMAIN internal \cup {h} /\ internal'[h] = p
      /\ \A q \in DOMAIN external : external'[q] = external[q]
      /\ h \in DOMAIN internal => p = internal[h]
      /\ h \notin DOMAIN internal => p \notin DOMAIN external
  BY Registered DEF IInv
<1>2. \A g \in DOMAIN internal : internal'[g] = internal[g]
  BY <1>1 DEF IInv, RegistryOK, IdsAgree
<1>3. p \notin DOMAIN channels[n].changes
  <2>1. DOMAIN channels[n].changes \subseteq DOMAIN external
    BY DEF IInv, ChannelsOK, ChannelOK
  <2> QED BY <1>1, <2>1 DEF ApplyToChannel, OnChannel
<1>4. channels' = [channels EXCEPT ![n] = put_changes(@, p, h)]
  BY DEF ApplyToChannel
<1>5. put_changes(channels[n], p, h).changes
        = Put(channels[n].changes, p, channels[n].apply_counter)
  BY DEF put_changes
<1> HIDE DEF p
<1>6. /\ DOMAIN channels' = DOMAIN channels
      /\ channels'[n].changes = Put(channels[n].changes, p, channels[n].apply_counter)
      /\ \A m \in DOMAIN channels \ {n} : channels'[m] = channels[m]
  BY <1>4, <1>5
<1> QED BY <1>1, <1>2, <1>3, <1>6 DEF p

(* The tables of dependencies after a change is registered. *)
LEMMA DepsApplied ==
  ASSUME DInv, NEW n \in DOMAIN channels, NEW h \in Hash,
         \/ RegisterIfUnknown(h)
         \/ register_change(make_changeid(h), h),
         ApplyToChannel(n, h)
  PROVE  DepsMirrored' /\ DepsComplete'
<1> DEFINE p == make_changeid(h)
<1>1. /\ DOMAIN external' = DOMAIN external \cup {p} /\ external'[p] = h
      /\ DOMAIN internal' = DOMAIN internal \cup {h} /\ internal'[h] = p
      /\ \A q \in DOMAIN external : external'[q] = external[q]
      /\ \A g \in DOMAIN internal : internal'[g] = internal[g]
  BY ApplyEffect DEF DInv
<1>2. /\ DepsMirrored /\ DepsComplete
      /\ \A g \in DOMAIN internal : internal[g] \in DOMAIN external /\ external[internal[g]] = g
      /\ \A q \in DOMAIN external : external[q] \in DOMAIN internal /\ internal[external[q]] = q
  BY DEF DInv, IInv, RegistryOK, IdsAgree
<1>3. CASE UNCHANGED registry /\ h \in DOMAIN internal
  <2>1. /\ internal' = internal /\ external' = external
        /\ dep' = dep /\ revdep' = revdep
    BY <1>3 DEF registry
  <2> QED BY <1>2, <2>1 DEF DepsMirrored, DepsComplete
<1>4. CASE register_change(p, h)
  <2>1. /\ Deps(h) \subseteq DOMAIN internal
        /\ dep' = dep \cup {<<p, internal[d]>> : d \in Deps(h)}
        /\ revdep' = revdep \cup {<<internal[d], p>> : d \in Deps(h)}
    BY <1>4 DEF register_change
  <2> HIDE DEF p
  <2>2. DepsMirrored'
    <3>1. revdep' = {<<e[2], e[1]>> : e \in dep'}
      <4>1. \A a, b : <<b, a>> \in revdep' <=> <<a, b>> \in dep'
        <5>1. revdep \subseteq Id \X Id /\ dep \subseteq Id \X Id
          BY DEF DInv, IInv, RegistryOK
        <5>2. \A a, b : <<b, a>> \in revdep <=> <<a, b>> \in dep
          BY <1>2, <5>1, MirrorIs DEF DepsMirrored
        <5> QED BY <2>1, <5>2
      <4>2. revdep' \subseteq Id \X Id /\ dep' \subseteq Id \X Id
        BY Registered DEF DInv, IInv, RegistryOK
      <4> QED BY <4>1, <4>2, MirrorIs
    <3>2. ASSUME NEW e \in dep'
          PROVE  /\ e[1] \in DOMAIN external' /\ e[2] \in DOMAIN external'
                 /\ external'[e[2]] \in Deps(external'[e[1]])
      <4>1. CASE e \in dep
        BY <1>1, <1>2, <4>1 DEF DepsMirrored
      <4>2. CASE \E d \in Deps(h) : e = <<p, internal[d]>>
        BY <1>1, <1>2, <2>1, <4>2
      <4> QED BY <2>1, <4>1, <4>2
    <3> QED BY <3>1, <3>2 DEF DepsMirrored
  <2>3. DepsComplete'
    <3> SUFFICES ASSUME NEW q \in DOMAIN external', NEW d \in Deps(external'[q])
                 PROVE  d \in DOMAIN internal' /\ <<q, internal'[d]>> \in dep'
      BY DEF DepsComplete
    <3>1. CASE q \in DOMAIN external
      <4>1. d \in DOMAIN internal /\ <<q, internal[d]>> \in dep
        BY <1>1, <1>2, <3>1 DEF DepsComplete
      <4> QED BY <1>1, <2>1, <4>1
    <3>2. CASE q = p
      <4>1. d \in DOMAIN internal /\ <<q, internal[d]>> \in dep'
        BY <1>1, <2>1, <3>2
      <4> QED BY <1>1, <4>1
    <3> QED BY <1>1, <3>1, <3>2
  <2> QED BY <2>2, <2>3
<1> QED BY <1>3, <1>4 DEF RegisterIfUnknown

(* Channels after a change is applied: still closed under dependency if    *)
(* the channel had those of the change.                                    *)
LEMMA ClosedApplied ==
  ASSUME DInv, NEW n \in DOMAIN channels, NEW h \in Hash,
         \/ RegisterIfUnknown(h)
         \/ register_change(make_changeid(h), h),
         HasDependencies(channels[n], h),
         ApplyToChannel(n, h)
  PROVE  DependenciesBefore' /\ KnownAreUsed'
<1> DEFINE p == make_changeid(h)
<1>1. /\ DOMAIN external' = DOMAIN external \cup {p} /\ external'[p] = h
      /\ DOMAIN internal' = DOMAIN internal \cup {h} /\ internal'[h] = p
      /\ \A q \in DOMAIN external : external'[q] = external[q]
      /\ \A g \in DOMAIN internal : internal'[g] = internal[g]
      /\ p \notin DOMAIN channels[n].changes
      /\ DOMAIN channels' = DOMAIN channels
      /\ channels'[n].changes = Put(channels[n].changes, p, channels[n].apply_counter)
      /\ \A m \in DOMAIN channels \ {n} : channels'[m] = channels[m]
  BY ApplyEffect DEF DInv
<1>2. IInv /\ DependenciesBefore /\ KnownAreUsed
  BY DEF DInv
<1> HIDE DEF p
<1>3. /\ DOMAIN channels'[n].changes = DOMAIN channels[n].changes \cup {p}
      /\ channels'[n].changes[p] = channels[n].apply_counter
      /\ \A q \in DOMAIN channels[n].changes : channels'[n].changes[q] = channels[n].changes[q]
  BY <1>1 DEF Put
<1>4. ASSUME NEW m \in DOMAIN channels, NEW q \in DOMAIN channels[m].changes
      PROVE  q \in DOMAIN channels'[m].changes /\ channels'[m].changes[q] = channels[m].changes[q]
  BY <1>1, <1>3
<1>5. ASSUME NEW m \in DOMAIN channels', NEW q \in DOMAIN channels'[m].changes,
             NEW d \in Deps(external'[q])
      PROVE  /\ d \in DOMAIN internal' /\ internal'[d] \in DOMAIN channels'[m].changes
             /\ channels'[m].changes[internal'[d]] < channels'[m].changes[q]
  <2>1. CASE q \in DOMAIN channels[m].changes
    <3>1. external'[q] = external[q]
      BY <1>1, <1>2, <2>1, ChannelIds
    <3>2. /\ d \in DOMAIN internal /\ internal[d] \in DOMAIN channels[m].changes
          /\ channels[m].changes[internal[d]] < channels[m].changes[q]
      BY <1>1, <1>2, <2>1, <3>1 DEF DependenciesBefore, OnChannel
    <3> QED BY <1>1, <1>4, <2>1, <3>2
  <2>2. CASE m = n /\ q = p
    <3>1. d \in DOMAIN internal /\ internal[d] \in DOMAIN channels[n].changes
      BY <1>1, <2>2 DEF HasDependencies, OnChannel
    <3>2. channels[n].changes[internal[d]] < channels[n].apply_counter
      BY <1>2, <3>1, ChannelIds
    <3> QED BY <1>1, <1>3, <1>4, <2>2, <3>1, <3>2
  <2> QED BY <1>1, <1>3, <2>1, <2>2
<1>6. DependenciesBefore'
  BY <1>5 DEF DependenciesBefore, OnChannel
<1>7. KnownAreUsed'
  <2> SUFFICES ASSUME NEW q \in DOMAIN external'
               PROVE  \E m \in DOMAIN channels' : q \in DOMAIN channels'[m].changes
    BY DEF KnownAreUsed
  <2>1. CASE q = p
    BY <1>1, <1>3, <2>1
  <2>2. CASE q \in DOMAIN external
    BY <1>1, <1>2, <1>4, <2>2 DEF KnownAreUsed
  <2> QED BY <1>1, <2>1, <2>2
<1> QED BY <1>6, <1>7
-----------------------------------------------------------------------------
(* Unrecording *)

(* The assertion and the unwrap of unrecord hold.  A change that depends   *)
(* on the one unrecorded is on some channel, where what it depends on      *)
(* comes before it: on the same channel, if that one is on no other, where *)
(* it was found to have no dependents.                                     *)
LEMMA ForgetsSafely == DInv => UnrecordNeverPanics
<1> SUFFICES ASSUME DInv, NEW n \in DOMAIN channels, NEW p \in DOMAIN channels[n].changes,
                    ~ HasDependents(channels[n], p), unused_in_other_channels(n, p)
             PROVE  MayForget(external[p])
  BY DEF UnrecordNeverPanics
<1>1. IInv /\ DepsMirrored /\ DepsComplete /\ KnownAreUsed /\ DependenciesBefore
  BY DEF DInv
<1> DEFINE h == external[p]
<1>2. p \in DOMAIN external /\ h \in DOMAIN internal /\ internal[h] = p
  BY <1>1, ChannelIds
<1>3. ASSUME NEW e \in revdep, e[1] = p PROVE FALSE
  <2>1. PICK q : <<q, p>> \in dep /\ e = <<p, q>>
    <3>1. revdep \subseteq Id \X Id /\ dep \subseteq Id \X Id
      BY <1>1 DEF IInv, RegistryOK
    <3>2. e = <<p, e[2]>>
      BY <1>3, <3>1
    <3>3. \A a, b : <<b, a>> \in revdep <=> <<a, b>> \in dep
      BY <1>1, <3>1, MirrorIs DEF DepsMirrored
    <3>4. <<e[2], p>> \in dep
      BY <3>2, <3>3
    <3> QED BY <3>2, <3>4
  <2>2. q \in DOMAIN external /\ h \in Deps(external[q])
    BY <1>1, <2>1 DEF DepsMirrored
  <2>3. PICK m \in DOMAIN channels : q \in DOMAIN channels[m].changes
    BY <1>1, <2>2 DEF KnownAreUsed
  <2>4. p \in DOMAIN channels[m].changes
    BY <1>1, <1>2, <2>2, <2>3 DEF DependenciesBefore, OnChannel
  <2>5. m = n
    BY <2>4 DEF unused_in_other_channels
  <2> QED BY <2>1, <2>3, <2>5 DEF HasDependents
<1>4. Deps(h) \subseteq DOMAIN internal
  BY <1>1, <1>2 DEF DepsComplete
<1> QED BY <1>2, <1>3, <1>4 DEF MayForget

(* What a call to unrecord does to the tables. *)
LEMMA UnrecordEffect ==
  ASSUME IInv, NEW n \in DOMAIN channels, NEW h \in Hash, unrecord(n, h)
  PROVE  LET p == internal[h] IN
         /\ h \in DOMAIN internal /\ p \in DOMAIN channels[n].changes
         /\ DOMAIN channels' = DOMAIN channels
         /\ channels'[n].changes = Del(channels[n].changes, p)
         /\ \A m \in DOMAIN channels \ {n} : channels'[m] = channels[m]
         /\ ~ HasDependents(channels[n], p)
         /\ \/ /\ \A m \in DOMAIN channels \ {n} : p \notin DOMAIN channels[m].changes
               /\ MayForget(h) /\ Forget(h)
               /\ DOMAIN internal' = DOMAIN internal \ {h}
               /\ DOMAIN external' = DOMAIN external \ {p}
            \/ /\ \E m \in DOMAIN channels \ {n} : p \in DOMAIN channels[m].changes
               /\ internal' = internal /\ external' = external
               /\ dep' = dep /\ revdep' = revdep
         /\ \A q \in DOMAIN external' : external'[q] = external[q]
         /\ \A g \in DOMAIN internal' : internal'[g] = internal[g]
<1> DEFINE p == internal[h]
<1>1. /\ h \in DOMAIN internal /\ p \in DOMAIN channels[n].changes
      /\ ~ HasDependents(channels[n], p)
      /\ channels' = [channels EXCEPT ![n] = del_channel_changes(@, external, p)]
      /\ IF unused_in_other_channels(n, p) THEN MayForget(h) /\ Forget(h) ELSE UNCHANGED registry
  BY DEF unrecord, OnChannel
<1>2. del_channel_changes(channels[n], external, p).changes = Del(channels[n].changes, p)
  <2> DEFINE cut == del_changes(channels[n], external, p, channels[n].changes[p])
  <2>1. cut.changes = Del(channels[n].changes, p)
    BY DEF del_changes
  <2>2. del_channel_changes(channels[n], external, p).changes = cut.changes
    BY DEF del_channel_changes, del_changes
  <2> QED BY <2>1, <2>2
<1>3. CASE unused_in_other_channels(n, p)
  <2>1. MayForget(h) /\ Forget(h)
    BY <1>1, <1>3
  <2>2. /\ external' = Del(external, p) /\ internal' = Del(internal, h)
    BY <2>1 DEF Forget
  <2>3. /\ DOMAIN internal' = DOMAIN internal \ {h}
        /\ DOMAIN external' = DOMAIN external \ {p}
        /\ \A q \in DOMAIN external' : external'[q] = external[q]
        /\ \A g \in DOMAIN internal' : internal'[g] = internal[g]
    BY <2>2 DEF Del
  <2>4. \A m \in DOMAIN channels \ {n} : p \notin DOMAIN channels[m].changes
    BY <1>3 DEF unused_in_other_channels
  <2> QED BY <1>1, <1>2, <2>1, <2>3, <2>4
<1>4. CASE ~ unused_in_other_channels(n, p)
  <2>1. /\ internal' = internal /\ external' = external
        /\ dep' = dep /\ revdep' = revdep
    BY <1>1, <1>4 DEF registry
  <2>2. \E m \in DOMAIN channels \ {n} : p \in DOMAIN channels[m].changes
    BY <1>4 DEF unused_in_other_channels
  <2> QED BY <1>1, <1>2, <2>1, <2>2
<1> QED BY <1>3, <1>4

(* No change of the channel depends on the one unrecorded, in the files as *)
(* well as in the table of dependents.                                     *)
LEMMA NoDependents ==
  ASSUME DInv, NEW n \in DOMAIN channels, NEW h \in Hash, unrecord(n, h),
         NEW q \in DOMAIN channels[n].changes
  PROVE  h \notin Deps(external[q])
<1>1. /\ DepsMirrored /\ DepsComplete /\ ~ HasDependents(channels[n], internal[h])
      /\ dep \subseteq Id \X Id /\ revdep \subseteq Id \X Id
      /\ q \in DOMAIN external
  BY UnrecordEffect, ChannelIds DEF DInv, IInv, RegistryOK
<1>2. SUFFICES ASSUME h \in Deps(external[q]) PROVE FALSE
  OBVIOUS
<1>3. <<q, internal[h]>> \in dep
  BY <1>1, <1>2 DEF DepsComplete
<1>4. <<internal[h], q>> \in revdep
  BY <1>1, <1>3, MirrorIs DEF DepsMirrored
<1> QED BY <1>1, <1>4 DEF HasDependents

LEMMA DepsUnrecorded ==
  ASSUME DInv, NEW n \in DOMAIN channels, NEW h \in Hash, unrecord(n, h)
  PROVE  DepsMirrored' /\ DepsComplete'
<1> DEFINE p == internal[h]
<1>1. /\ DepsMirrored /\ DepsComplete /\ IInv
      /\ dep \subseteq Id \X Id /\ revdep \subseteq Id \X Id
      /\ h \in DOMAIN internal /\ external[p] = h
      /\ \A q \in DOMAIN external : external[q] \in DOMAIN internal /\ internal[external[q]] = q
  BY UnrecordEffect DEF DInv, IInv, RegistryOK, IdsAgree
<1>2. CASE internal' = internal /\ external' = external /\ dep' = dep /\ revdep' = revdep
  BY <1>1, <1>2 DEF DepsMirrored, DepsComplete
<1>3. CASE /\ MayForget(h) /\ Forget(h)
           /\ DOMAIN internal' = DOMAIN internal \ {h}
           /\ DOMAIN external' = DOMAIN external \ {p}
           /\ \A q \in DOMAIN external' : external'[q] = external[q]
           /\ \A g \in DOMAIN internal' : internal'[g] = internal[g]
  <2>1. /\ dep' = {e \in dep : e[1] # p}
        /\ revdep' = revdep \ {<<internal[d], p>> : d \in Deps(h)}
        /\ \A e \in revdep : e[1] # p
    BY <1>3 DEF Forget, MayForget
  <2>2. \A a, b : <<b, a>> \in revdep <=> <<a, b>> \in dep
    BY <1>1, MirrorIs DEF DepsMirrored
  <2>3. ASSUME NEW e \in dep'
        PROVE  /\ e[1] \in DOMAIN external' /\ e[2] \in DOMAIN external'
               /\ external'[e[2]] \in Deps(external'[e[1]])
    <3>1. /\ e \in dep /\ e[1] # p /\ e = <<e[1], e[2]>>
          /\ e[1] \in DOMAIN external /\ e[2] \in DOMAIN external
          /\ external[e[2]] \in Deps(external[e[1]])
      BY <1>1, <2>1 DEF DepsMirrored
    <3>2. e[2] # p
      <4>1. <<e[2], e[1]>> \in revdep
        BY <2>2, <3>1
      <4> QED BY <2>1, <4>1
    <3> QED BY <1>3, <3>1, <3>2
  <2>4. \A a, b : <<b, a>> \in revdep' <=> <<a, b>> \in dep'
    <3>1. ASSUME NEW a, NEW b, <<b, a>> \in revdep' PROVE <<a, b>> \in dep'
      <4>1. <<b, a>> \in revdep /\ <<a, b>> \in dep
        BY <2>1, <2>2, <3>1
      <4>2. SUFFICES ASSUME a = p PROVE FALSE
        BY <2>1, <4>1
      <4>3. b \in DOMAIN external /\ external[b] \in Deps(h)
        BY <1>1, <4>1, <4>2 DEF DepsMirrored
      <4>4. b = internal[external[b]]
        BY <1>1, <4>3
      <4> QED BY <2>1, <3>1, <4>2, <4>3, <4>4
    <3>2. ASSUME NEW a, NEW b, <<a, b>> \in dep' PROVE <<b, a>> \in revdep'
      BY <2>1, <2>2, <3>2
    <3> QED BY <3>1, <3>2
  <2>5. DepsMirrored'
    <3>1. revdep' \subseteq Id \X Id /\ dep' \subseteq Id \X Id
      BY <1>1, <2>1
    <3>2. revdep' = {<<e[2], e[1]>> : e \in dep'}
      BY <2>4, <3>1, MirrorIs
    <3> QED BY <2>3, <3>2 DEF DepsMirrored
  <2>6. DepsComplete'
    <3> SUFFICES ASSUME NEW q \in DOMAIN external', NEW d \in Deps(external'[q])
                 PROVE  d \in DOMAIN internal' /\ <<q, internal'[d]>> \in dep'
      BY DEF DepsComplete
    <3>1. /\ q \in DOMAIN external /\ q # p
          /\ d \in DOMAIN internal /\ <<q, internal[d]>> \in dep
      BY <1>1, <1>3 DEF DepsComplete
    <3>2. <<internal[d], q>> \in revdep
      BY <2>2, <3>1
    <3>3. d # h
      BY <2>1, <3>2
    <3> QED BY <1>3, <2>1, <3>1, <3>3
  <2> QED BY <2>5, <2>6
<1> QED BY <1>2, <1>3, UnrecordEffect DEF DInv

LEMMA ClosedUnrecorded ==
  ASSUME DInv, NEW n \in DOMAIN channels, NEW h \in Hash, unrecord(n, h)
  PROVE  DependenciesBefore' /\ KnownAreUsed'
<1> DEFINE p == internal[h]
<1>1. /\ h \in DOMAIN internal /\ p \in DOMAIN channels[n].changes
      /\ DOMAIN channels' = DOMAIN channels
      /\ channels'[n].changes = Del(channels[n].changes, p)
      /\ \A m \in DOMAIN channels \ {n} : channels'[m] = channels[m]
      /\ \/ /\ \A m \in DOMAIN channels \ {n} : p \notin DOMAIN channels[m].changes
            /\ DOMAIN internal' = DOMAIN internal \ {h}
            /\ DOMAIN external' = DOMAIN external \ {p}
         \/ /\ \E m \in DOMAIN channels \ {n} : p \in DOMAIN channels[m].changes
            /\ internal' = internal /\ external' = external
      /\ \A q \in DOMAIN external' : external'[q] = external[q]
      /\ \A g \in DOMAIN internal' : internal'[g] = internal[g]
  BY UnrecordEffect DEF DInv
<1>2. IInv /\ DependenciesBefore /\ KnownAreUsed
  BY DEF DInv
<1>3. /\ DOMAIN channels'[n].changes = DOMAIN channels[n].changes \ {p}
      /\ \A q \in DOMAIN channels[n].changes \ {p} : channels'[n].changes[q] = channels[n].changes[q]
  BY <1>1 DEF Del
<1>4. ASSUME NEW m \in DOMAIN channels, NEW q \in DOMAIN channels[m].changes, m # n \/ q # p
      PROVE  q \in DOMAIN channels'[m].changes /\ channels'[m].changes[q] = channels[m].changes[q]
  BY <1>1, <1>3, <1>4
<1>5. ASSUME NEW m \in DOMAIN channels', NEW q \in DOMAIN channels'[m].changes,
             NEW d \in Deps(external'[q])
      PROVE  /\ d \in DOMAIN internal' /\ internal'[d] \in DOMAIN channels'[m].changes
             /\ channels'[m].changes[internal'[d]] < channels'[m].changes[q]
  <2>1. /\ m \in DOMAIN channels /\ q \in DOMAIN channels[m].changes /\ (m # n \/ q # p)
        /\ q \in DOMAIN external
    BY <1>1, <1>2, <1>3, ChannelIds
  <2>2. q \in DOMAIN external' /\ external'[q] = external[q]
    BY <1>1, <2>1
  <2>3. /\ d \in DOMAIN internal /\ internal[d] \in DOMAIN channels[m].changes
        /\ channels[m].changes[internal[d]] < channels[m].changes[q]
    BY <1>2, <2>1, <2>2 DEF DependenciesBefore, OnChannel
  <2>4. m = n => d # h
    BY <2>1, <2>2, NoDependents
  <2>5. internal[d] = p => d = h
    BY <1>1, <1>2, <2>3 DEF IInv, RegistryOK, IdsAgree
  <2>6. m # n \/ internal[d] # p
    BY <2>4, <2>5
  <2>7. d \in DOMAIN internal' /\ internal'[d] = internal[d]
    BY <1>1, <2>3, <2>4
  <2> QED BY <1>4, <2>1, <2>3, <2>6, <2>7
<1>6. DependenciesBefore'
  BY <1>5 DEF DependenciesBefore, OnChannel
<1>7. KnownAreUsed'
  <2> SUFFICES ASSUME NEW q \in DOMAIN external'
               PROVE  \E m \in DOMAIN channels' : q \in DOMAIN channels'[m].changes
    BY DEF KnownAreUsed
  <2>1. CASE q = p
    BY <1>1, <1>4, <2>1
  <2>2. CASE q # p
    <3>1. PICK m \in DOMAIN channels : q \in DOMAIN channels[m].changes
      BY <1>1, <1>2 DEF KnownAreUsed
    <3> QED BY <1>1, <1>4, <2>2, <3>1
  <2> QED BY <2>1, <2>2
<1> QED BY <1>6, <1>7
-----------------------------------------------------------------------------
(* The walk over dependencies *)

(* Its stack, taken apart: the frame on top is replaced by the same frame, *)
(* waiting, and one frame for each dependency.                             *)
LEMMA StackBelow ==
  ASSUME IInv, ~ Idle
  PROVE  LET L == Len(rec.stack) IN
         /\ L \in Nat \ {0} /\ DOMAIN rec.stack = 1 .. L
         /\ Top = rec.stack[L] /\ Top \in FrameType
         /\ Rest \in Seq(FrameType) /\ Len(Rest) = L - 1
         /\ DOMAIN Rest = 1 .. (L - 1)
         /\ \A i \in 1 .. (L - 1) : Rest[i] = rec.stack[i]
<1>1. rec.stack \in Seq(FrameType) /\ rec.stack # <<>>
  BY DEF IInv, RecOK
<1>2. Len(rec.stack) \in Nat \ {0} /\ DOMAIN rec.stack = 1 .. Len(rec.stack)
  BY <1>1
<1>3. Top \in FrameType /\ Rest \in Seq(FrameType)
  BY TopType DEF IInv
<1>4. Len(Rest) = Len(rec.stack) - 1 /\ \A i \in 1 .. (Len(rec.stack) - 1) : Rest[i] = rec.stack[i]
  BY <1>1, <1>2 DEF Rest
<1> QED BY <1>2, <1>3, <1>4 DEF Top

(* The frames of a list of changes. *)
Frames(ds) == [i \in DOMAIN ds |-> Frame(ds[i], TRUE, TRUE)]
Pushed(rest, frame, ds) == Append(rest, frame) \o Frames(ds)

LEMMA FramesAre ==
  ASSUME NEW ds \in Seq(Hash)
  PROVE  /\ Frames(ds) \in Seq(FrameType) /\ Len(Frames(ds)) = Len(ds)
         /\ \A k \in 1 .. Len(ds) : Frames(ds)[k] = Frame(ds[k], TRUE, TRUE)
<1>1. DOMAIN ds = 1 .. Len(ds) /\ Len(ds) \in Nat
  OBVIOUS
<1>2. \A k \in 1 .. Len(ds) : Frame(ds[k], TRUE, TRUE) \in FrameType
  BY <1>1 DEF Frame, FrameType
<1>3. Frames(ds) \in [1 .. Len(ds) -> FrameType]
  BY <1>1, <1>2 DEF Frames
<1>4. Frames(ds) \in Seq(FrameType) /\ Len(Frames(ds)) = Len(ds)
  BY <1>1, <1>3, SeqDef
<1> QED BY <1>1, <1>4 DEF Frames

LEMMA StackAbove ==
  ASSUME NEW rest \in Seq(FrameType), NEW frame \in FrameType, NEW ds \in Seq(Hash)
  PROVE  LET L == Len(rest) + 1
             stack == Pushed(rest, frame, ds)
         IN  /\ stack \in Seq(FrameType) /\ DOMAIN stack = 1 .. (L + Len(ds))
             /\ \A i \in 1 .. (L - 1) : stack[i] = rest[i]
             /\ stack[L] = frame
             /\ \A k \in 1 .. Len(ds) : stack[L + k] = Frame(ds[k], TRUE, TRUE)
<1> DEFINE L == Len(rest) + 1
           frames == Frames(ds)
           stack == Pushed(rest, frame, ds)
           below == Append(rest, frame)
<1>0. /\ frames \in Seq(FrameType) /\ Len(frames) = Len(ds)
      /\ \A k \in 1 .. Len(ds) : frames[k] = Frame(ds[k], TRUE, TRUE)
  BY FramesAre
<1>1. /\ below \in Seq(FrameType) /\ Len(below) = L
      /\ \A i \in 1 .. (L - 1) : below[i] = rest[i]
      /\ below[L] = frame
  BY AppendProperties
<1>2. L \in Nat \ {0} /\ Len(ds) \in Nat
  OBVIOUS
<1> HIDE DEF below, L, stack, frames
<1>3. /\ stack \in Seq(FrameType) /\ Len(stack) = Len(below) + Len(frames)
      /\ \A i \in 1 .. Len(below) + Len(frames) :
           stack[i] = IF i <= Len(below) THEN below[i] ELSE frames[i - Len(below)]
  <2>1. below \in Seq(FrameType) /\ frames \in Seq(FrameType)
    BY <1>0, <1>1
  <2>2. /\ below \o frames \in Seq(FrameType) /\ Len(below \o frames) = Len(below) + Len(frames)
        /\ \A i \in 1 .. Len(below) + Len(frames) :
             (below \o frames)[i] = IF i <= Len(below) THEN below[i] ELSE frames[i - Len(below)]
    BY <2>1, ConcatProperties, Zenon
  <2>3. stack = below \o frames
    BY DEF below, stack, frames, Pushed
  <2> QED BY <2>2, <2>3, Zenon
<1>4. ASSUME NEW k \in 1 .. Len(ds) PROVE stack[L + k] = Frame(ds[k], TRUE, TRUE)
  <2>1. /\ L + k \in 1 .. L + Len(ds) /\ ~(L + k <= L) /\ (L + k) - L = k
    BY <1>2
  <2>2. stack[L + k] = frames[(L + k) - L]
    BY <1>0, <1>1, <1>3, <2>1
  <2> QED BY <1>0, <2>1, <2>2
<1>5. stack[L] = frame /\ \A i \in 1 .. (L - 1) : stack[i] = rest[i]
  BY <1>0, <1>1, <1>2, <1>3
<1>6. DOMAIN stack = 1 .. (L + Len(ds))
  BY <1>0, <1>1, <1>3
<1> QED BY <1>3, <1>4, <1>5, <1>6 DEF L, stack

(* When the walk is over there is nothing to say about its stack. *)
LEMMA WalkOver == Idle => WalkOrdered
BY DEF Idle, NoRec, WalkOrdered

(* Visiting a change: one met before is on the channel already, since the  *)
(* walk cannot be above it; any other waits below its dependencies.        *)
LEMMA WalkVisits ==
  ASSUME DInv, RecVisit
  PROVE  WalkOrdered'
<1> DEFINE st == rec.stack
           L == Len(st)
           h == Top.hash
           ch == channels[rec.channel]
           known == h \in rec.visited \/ OnChannel(ch, h)
           frame == Frame(h, FALSE, Top.apply)
           ds == Dependencies[h]
           above == Pushed(Rest, frame, ds)
<1>1. /\ L \in Nat \ {0} /\ DOMAIN st = 1 .. L
      /\ Top = st[L] /\ Top \in FrameType
      /\ Rest \in Seq(FrameType) /\ DOMAIN Rest = 1 .. (L - 1) /\ Len(Rest) = L - 1
      /\ \A i \in 1 .. (L - 1) : Rest[i] = st[i]
  BY StackBelow DEF RecVisit, DInv
<1>2. /\ Top.first /\ h \in Hash /\ \A i \in DOMAIN st : st[i].hash \in Hash
      /\ Continue(IF known THEN Rest ELSE above, rec.visited \cup {h})
      /\ internal' = internal /\ channels' = channels
  <2>1. st \in Seq(FrameType)
    BY DEF DInv, IInv, RecOK
  <2>2. ASSUME NEW i \in DOMAIN st PROVE st[i].hash \in Hash
    <3>1. st[i] \in FrameType
      BY <2>1
    <3> QED BY <3>1 DEF FrameType
  <2> QED BY <1>1, <2>2 DEF RecVisit, registry, FrameType, Pushed, Frames
<1>3. /\ \A i \in 1 .. L : 1 < i => st[i].apply
      /\ \A i, j \in 1 .. L : ~ st[i].first /\ i < j => Rank[st[j].hash] < Rank[st[i].hash]
      /\ \A i \in 1 .. L : ~ st[i].first => \A d \in Deps(st[i].hash) :
           OnChannel(ch, d) \/ \E j \in 1 .. L : i < j /\ st[j].hash = d
      /\ \A g \in rec.visited :
           OnChannel(ch, g) \/ \E i \in 1 .. L : ~ st[i].first /\ st[i].hash = g
  <2>1. WalkOrdered
    BY DEF DInv
  <2> HIDE DEF h, known, frame, ds, above
  <2>2. DOMAIN st = 1 .. L
    BY <1>1
  <2> QED BY <2>1, <2>2 DEF WalkOrdered, Waits
<1>4. /\ Rank \in [Hash -> Nat]
      /\ \A g \in Hash : Deps(g) \subseteq Hash /\ \A d \in Deps(g) : Rank[d] < Rank[g]
  BY RankDecreases
<1> HIDE DEF st, L
<1>5. ASSUME known PROVE OnChannel(ch, h)
  <2>1. SUFFICES ASSUME NEW i \in 1 .. L, ~ st[i].first, st[i].hash = h PROVE FALSE
    BY <1>3, <1>5
  <2>2. i < L
    BY <1>1, <1>2, <2>1
  <2>3. Rank[h] < Rank[h]
    BY <1>1, <1>3, <2>1, <2>2
  <2> QED BY <1>2, <1>4, <2>3
<1>6. CASE known /\ Rest # <<>>
  <2>1. /\ rec'.stack = Rest /\ rec'.visited = rec.visited \cup {h} /\ rec'.channel = rec.channel
    BY <1>2, <1>6 DEF Continue
  <2>2. \A g : OnChannel(ch, g) => OnChannel(channels[rec.channel], g)'
    BY <1>2, <2>1 DEF OnChannel
  <2>3. ASSUME NEW i \in 1 .. (L - 1) PROVE i \in 1 .. L /\ i < L /\ rec'.stack[i] = st[i]
    BY <1>1, <2>1
  <2>4. DOMAIN rec'.stack = 1 .. (L - 1)
    BY <1>1, <2>1
  <2>5. \A i \in DOMAIN rec'.stack : 1 < i => rec'.stack[i].apply
    BY <1>3, <2>3, <2>4
  <2>6. ASSUME NEW i \in DOMAIN rec'.stack, NEW j \in DOMAIN rec'.stack,
               ~ rec'.stack[i].first, i < j
        PROVE  Rank[rec'.stack[j].hash] < Rank[rec'.stack[i].hash]
    BY <1>3, <2>3, <2>4, <2>6
  <2>7. ASSUME NEW i \in DOMAIN rec'.stack, ~ rec'.stack[i].first,
               NEW d \in Deps(rec'.stack[i].hash)
        PROVE  \/ OnChannel(channels[rec.channel], d)'
               \/ \E j \in DOMAIN rec'.stack : i < j /\ rec'.stack[j].hash = d
    <3>1. OnChannel(ch, d) \/ \E j \in 1 .. L : i < j /\ st[j].hash = d
      BY <1>3, <2>3, <2>4, <2>7
    <3>2. \A j \in 1 .. L : j = L \/ j \in 1 .. (L - 1)
      BY <1>1
    <3> QED BY <1>1, <1>5, <1>6, <2>2, <2>3, <2>4, <3>1, <3>2
  <2>8. ASSUME NEW g \in rec'.visited
        PROVE  \/ OnChannel(channels[rec.channel], g)'
               \/ \E i \in DOMAIN rec'.stack : ~ rec'.stack[i].first /\ rec'.stack[i].hash = g
    <3>1. OnChannel(ch, g) \/ \E i \in 1 .. L : ~ st[i].first /\ st[i].hash = g
      BY <1>3, <1>5, <1>6, <2>1
    <3>2. \A i \in 1 .. L : ~ st[i].first => i \in 1 .. (L - 1)
      BY <1>1, <1>2
    <3> QED BY <2>2, <2>3, <2>4, <3>1, <3>2
  <2> QED BY <2>5, <2>6, <2>7, <2>8 DEF WalkOrdered, Waits
<1>7. CASE known /\ Rest = <<>>
  <2>1. Idle'
    BY <1>2, <1>7 DEF Continue, Idle, NoRec
  <2> QED BY <2>1, WalkOver, PTL
<1>8. CASE ~ known
  <2>1. /\ ds \in Seq(Hash) /\ DOMAIN ds = 1 .. Len(ds) /\ Len(ds) \in Nat
    BY <1>2, DependenciesType
  <2>2. frame \in FrameType /\ frame.hash = h /\ ~ frame.first /\ frame.apply = Top.apply
    BY <1>1, <1>2 DEF Frame, FrameType
  <2> HIDE DEF known, h, ch, ds, frame
  <2>3. LET M == Len(Rest) + 1 IN
        /\ above \in Seq(FrameType) /\ DOMAIN above = 1 .. (M + Len(ds))
        /\ \A i \in 1 .. (M - 1) : above[i] = Rest[i]
        /\ above[M] = frame
        /\ \A k \in 1 .. Len(ds) : above[M + k] = Frame(ds[k], TRUE, TRUE)
    <3>1. Rest \in Seq(FrameType) /\ frame \in FrameType /\ ds \in Seq(Hash)
      BY <1>1, <2>1, <2>2
    <3> QED BY <3>1, StackAbove, Zenon
  <2> HIDE DEF above
  <2>4. /\ DOMAIN above = 1 .. (L + Len(ds))
        /\ \A i \in 1 .. (L - 1) : above[i] = st[i]
        /\ above[L] = frame
        /\ \A k \in 1 .. Len(ds) : above[L + k] = Frame(ds[k], TRUE, TRUE)
    <3>1. L = Len(Rest) + 1
      BY <1>1
    <3> QED BY <1>1, <2>3, <3>1
  <2> USE DEF known, h, ch, ds
  <2>5. above # <<>>
    <3>1. 1 \in DOMAIN above
      BY <1>1, <2>1, <2>4
    <3> QED BY <3>1
  <2>6. /\ rec'.stack = above /\ rec'.visited = rec.visited \cup {h} /\ rec'.channel = rec.channel
    BY <1>2, <1>8, <2>5 DEF Continue
  <2>7. \A g : OnChannel(ch, g) => OnChannel(channels[rec.channel], g)'
    BY <1>2, <2>6 DEF OnChannel
  <2>8. ASSUME NEW i \in 1 .. (L + Len(ds))
        PROVE  \/ i \in 1 .. (L - 1) /\ i \in 1 .. L /\ above[i] = st[i]
               \/ i = L /\ i \in 1 .. L /\ above[i].hash = h /\ ~ above[i].first /\ above[i].apply = st[i].apply
               \/ \E k \in 1 .. Len(ds) :
                    /\ i = L + k /\ above[i].hash = ds[k] /\ above[i].first /\ above[i].apply
    <3>1. CASE i < L
      BY <1>1, <2>4, <3>1
    <3>2. CASE i = L
      BY <1>1, <2>2, <2>4, <3>2
    <3>3. CASE L < i
      <4>1. i - L \in 1 .. Len(ds) /\ i = L + (i - L)
        BY <1>1, <2>1, <3>3
      <4>2. above[L + (i - L)] = Frame(ds[i - L], TRUE, TRUE)
        BY <2>4, <4>1
      <4>3. above[i].hash = ds[i - L] /\ above[i].first /\ above[i].apply
        BY <4>1, <4>2 DEF Frame
      <4> QED BY <4>1, <4>3
    <3> QED BY <1>1, <2>1, <3>1, <3>2, <3>3
  <2>9. \A k \in 1 .. Len(ds) : ds[k] \in Deps(h) /\ ds[k] \in Hash
    BY <2>1 DEF Deps
  <2>10. \A i \in DOMAIN above : 1 < i => above[i].apply
    BY <1>3, <2>4, <2>8
  <2>11. ASSUME NEW i \in DOMAIN above, NEW j \in DOMAIN above, ~ above[i].first, i < j
         PROVE  Rank[above[j].hash] < Rank[above[i].hash]
    <3>1. i \in 1 .. L /\ above[i].hash = st[i].hash
      BY <1>1, <2>4, <2>8, <2>11
    <3>2. CASE j \in 1 .. (L - 1)
      <4>1. ~ st[i].first /\ i \in 1 .. (L - 1)
        BY <1>1, <2>4, <2>11, <3>1, <3>2
      <4>2. j \in 1 .. L /\ above[j].hash = st[j].hash
        BY <1>1, <2>4, <3>2
      <4> QED BY <1>3, <2>11, <3>1, <4>1, <4>2
    <3>3. CASE j = L
      <4>1. ~ st[i].first /\ i \in 1 .. (L - 1)
        BY <1>1, <2>4, <2>11, <3>1, <3>3
      <4>2. above[j].hash = st[L].hash
        BY <1>1, <2>2, <2>4, <3>3
      <4> QED BY <1>1, <1>3, <2>11, <3>1, <3>3, <4>1, <4>2
    <3>4. ASSUME NEW k \in 1 .. Len(ds), j = L + k, above[j].hash = ds[k]
          PROVE  Rank[above[j].hash] < Rank[above[i].hash]
      <4>1. Rank[ds[k]] < Rank[h] /\ Rank[ds[k]] \in Nat /\ Rank[h] \in Nat
        BY <1>2, <1>4, <2>9
      <4>2. CASE i = L
        BY <1>1, <3>1, <3>4, <4>1, <4>2
      <4>3. CASE i # L
        <5>1. i < L /\ ~ st[i].first
          BY <1>1, <2>4, <2>11, <3>1, <4>3
        <5>2. Rank[st[L].hash] < Rank[st[i].hash]
          BY <1>1, <1>3, <3>1, <5>1
        <5>3. Rank[st[i].hash] \in Nat
          BY <1>1, <1>2, <1>4, <3>1
        <5> QED BY <1>1, <3>1, <3>4, <4>1, <5>2, <5>3
      <4> QED BY <4>2, <4>3
    <3> QED BY <2>4, <2>8, <3>2, <3>3, <3>4
  <2>12. ASSUME NEW i \in DOMAIN above, ~ above[i].first, NEW d \in Deps(above[i].hash)
         PROVE  \/ OnChannel(channels[rec.channel], d)'
                \/ \E j \in DOMAIN above : i < j /\ above[j].hash = d
    <3>1. CASE i = L
      <4>1. above[i].hash = h
        BY <2>2, <2>4, <3>1
      <4>2. PICK k \in DOMAIN ds : d = ds[k]
        BY <2>12, <4>1 DEF Deps
      <4>3. k \in 1 .. Len(ds) /\ L + k \in DOMAIN above /\ L < L + k
        BY <1>1, <2>1, <2>4, <4>2
      <4>4. above[L + k].hash = d
        <5>1. above[L + k] = Frame(ds[k], TRUE, TRUE)
          BY <2>4, <4>3
        <5> QED BY <4>2, <5>1 DEF Frame
      <4> QED BY <3>1, <4>3, <4>4
    <3>2. CASE i # L
      <4>1. i \in 1 .. (L - 1) /\ i \in 1 .. L /\ above[i] = st[i]
        BY <2>4, <2>8, <2>12, <3>2
      <4>2. OnChannel(ch, d) \/ \E j \in 1 .. L : i < j /\ st[j].hash = d
        BY <1>3, <2>12, <4>1
      <4>3. \A j \in 1 .. L : j \in DOMAIN above /\ above[j].hash = st[j].hash
        <5>1. above[L].hash = st[L].hash
          BY <1>1, <2>2, <2>4
        <5>2. \A j \in 1 .. L : j = L \/ j \in 1 .. (L - 1)
          BY <1>1
        <5>3. \A j \in 1 .. L : j \in DOMAIN above
          BY <1>1, <2>1, <2>4
        <5> QED BY <2>4, <5>1, <5>2, <5>3
      <4> QED BY <2>7, <4>2, <4>3
    <3> QED BY <3>1, <3>2
  <2>13. ASSUME NEW g \in rec'.visited
         PROVE  \/ OnChannel(channels[rec.channel], g)'
                \/ \E i \in DOMAIN above : ~ above[i].first /\ above[i].hash = g
    <3>1. L \in DOMAIN above /\ ~ above[L].first /\ above[L].hash = h
      BY <1>1, <2>1, <2>2, <2>4
    <3>2. CASE g \in rec.visited
      <4>1. OnChannel(ch, g) \/ \E i \in 1 .. L : ~ st[i].first /\ st[i].hash = g
        BY <1>3, <3>2
      <4>2. ASSUME NEW i \in 1 .. L, ~ st[i].first PROVE i \in DOMAIN above /\ above[i] = st[i]
        <5>1. i \in 1 .. (L - 1)
          BY <1>1, <1>2, <4>2
        <5> QED BY <1>1, <2>1, <2>4, <5>1
      <4> QED BY <2>7, <4>1, <4>2
    <3> QED BY <2>6, <3>1, <3>2
  <2> QED BY <2>6, <2>10, <2>11, <2>12, <2>13 DEF WalkOrdered, Waits
<1> QED BY <1>6, <1>7, <1>8

(* What the invariant says of the tables alone. *)
Tables == DepsMirrored /\ DepsComplete /\ KnownAreUsed /\ DependenciesBefore

LEMMA TablesSame ==
  ASSUME Tables, UNCHANGED registry, channels' = channels
  PROVE  Tables'
BY DEF Tables, registry, DepsMirrored, DepsComplete, KnownAreUsed, DependenciesBefore, OnChannel

(* A change that was waiting: its dependencies are all on the channel now. *)
LEMMA WaitingHasAll ==
  ASSUME DInv, RecApply
  PROVE  HasDependencies(channels[rec.channel], Top.hash)
<1> DEFINE L == Len(rec.stack)
<1>1. L \in Nat \ {0} /\ DOMAIN rec.stack = 1 .. L /\ Top = rec.stack[L] /\ ~ Top.first
  BY StackBelow DEF RecApply, DInv
<1> SUFFICES ASSUME NEW d \in Deps(Top.hash) PROVE OnChannel(channels[rec.channel], d)
  BY DEF HasDependencies
<1> HIDE DEF L
<1>2. L \in DOMAIN rec.stack /\ Waits(L) /\ \A j \in DOMAIN rec.stack : ~ (L < j)
  BY <1>1 DEF Waits
<1>3. WalkOrdered
  BY DEF DInv
<1> QED BY <1>1, <1>2, <1>3 DEF WalkOrdered

(* It is applied, and leaves the stack. *)
LEMMA WalkApplies ==
  ASSUME DInv, RecApply
  PROVE  Tables' /\ WalkOrdered'
<1> DEFINE st == rec.stack
           L == Len(st)
           h == Top.hash
           n == rec.channel
<1>1. /\ L \in Nat \ {0} /\ DOMAIN st = 1 .. L
      /\ Top = st[L] /\ Top \in FrameType
      /\ DOMAIN Rest = 1 .. (L - 1) /\ Len(Rest) = L - 1
      /\ Rest \in Seq(FrameType)
      /\ \A i \in 1 .. (L - 1) : Rest[i] = st[i]
  BY StackBelow DEF RecApply, DInv
<1>2. /\ ~ Top.first /\ h \in Hash /\ n \in DOMAIN channels
      /\ Continue(Rest, rec.visited)
  BY <1>1, TopType DEF RecApply, FrameType, DInv, IInv
<1>3. /\ \A i \in 1 .. L : 1 < i => st[i].apply
      /\ \A i, j \in 1 .. L : ~ st[i].first /\ i < j => Rank[st[j].hash] < Rank[st[i].hash]
      /\ \A i \in 1 .. L : ~ st[i].first => \A d \in Deps(st[i].hash) :
           OnChannel(channels[n], d) \/ \E j \in 1 .. L : i < j /\ st[j].hash = d
      /\ \A g \in rec.visited :
           OnChannel(channels[n], g) \/ \E i \in 1 .. L : ~ st[i].first /\ st[i].hash = g
  <2>1. WalkOrdered
    BY DEF DInv
  <2>2. DOMAIN st = 1 .. L
    BY <1>1
  <2> QED BY <2>1, <2>2 DEF WalkOrdered, Waits
<1>4. HasDependencies(channels[n], h)
  BY WaitingHasAll
<1> DEFINE On(g) == g \in DOMAIN internal' /\ internal'[g] \in DOMAIN channels'[n].changes
<1>5. /\ Tables'
      /\ \A g : OnChannel(channels[n], g) => On(g)
      /\ Top.apply => On(h)
  <2>1. CASE Top.apply /\ ~ OnChannel(channels[n], h)
    <3>1. RegisterIfUnknown(h) /\ ApplyToChannel(n, h)
      BY <2>1 DEF RecApply
    <3>2. Tables'
      BY <1>2, <1>4, <3>1, DepsApplied, ClosedApplied DEF Tables
    <3>3. LET p == make_changeid(h) IN
          /\ DOMAIN internal' = DOMAIN internal \cup {h} /\ internal'[h] = p
          /\ \A g \in DOMAIN internal : internal'[g] = internal[g]
          /\ channels'[n].changes = Put(channels[n].changes, p, channels[n].apply_counter)
      BY <1>2, <3>1, ApplyEffect DEF DInv
    <3> HIDE DEF h, n
    <3> QED BY <3>2, <3>3 DEF OnChannel, Put
  <2>2. CASE ~ (Top.apply /\ ~ OnChannel(channels[n], h))
    <3>1. UNCHANGED registry /\ channels' = channels
      BY <2>2 DEF RecApply
    <3>2. Tables'
      BY <3>1, TablesSame DEF DInv, Tables
    <3>3. internal' = internal
      BY <3>1 DEF registry
    <3> QED BY <2>2, <3>1, <3>2, <3>3 DEF OnChannel
  <2> QED BY <2>1, <2>2
<1>6. CASE Rest = <<>>
  <2>1. Idle'
    BY <1>2, <1>6 DEF Continue, Idle, NoRec
  <2>2. WalkOrdered'
    BY <2>1, WalkOver, PTL
  <2> QED BY <1>5, <2>2
<1>7. CASE Rest # <<>>
  <2>1. /\ rec'.stack = Rest /\ rec'.visited = rec.visited /\ rec'.channel = rec.channel
    BY <1>2, <1>7 DEF Continue
  <2>2. 1 < L
    <3>1. Len(Rest) # 0
      BY <1>1, <1>7
    <3> HIDE DEF L
    <3> QED BY <1>1, <3>1
  <2>3. Top.apply
    BY <1>1, <1>3, <2>2
  <2>4. \A g : On(g) => OnChannel(channels[rec.channel], g)'
    BY <2>1 DEF OnChannel
  <2> HIDE DEF st, L, h, n, On
  <2>5. ASSUME NEW i \in 1 .. (L - 1) PROVE i \in 1 .. L /\ i < L /\ rec'.stack[i] = st[i]
    BY <1>1, <2>1
  <2>6. DOMAIN rec'.stack = 1 .. (L - 1)
    BY <1>1, <2>1
  <2>7. \A i \in DOMAIN rec'.stack : 1 < i => rec'.stack[i].apply
    BY <1>3, <2>5, <2>6
  <2>8. ASSUME NEW i \in DOMAIN rec'.stack, NEW j \in DOMAIN rec'.stack,
               ~ rec'.stack[i].first, i < j
        PROVE  Rank[rec'.stack[j].hash] < Rank[rec'.stack[i].hash]
    BY <1>3, <2>5, <2>6, <2>8
  <2>9. ASSUME NEW i \in DOMAIN rec'.stack, ~ rec'.stack[i].first,
               NEW d \in Deps(rec'.stack[i].hash)
        PROVE  \/ OnChannel(channels[rec.channel], d)'
               \/ \E j \in DOMAIN rec'.stack : i < j /\ rec'.stack[j].hash = d
    <3>1. OnChannel(channels[n], d) \/ \E j \in 1 .. L : i < j /\ st[j].hash = d
      BY <1>3, <2>5, <2>6, <2>9
    <3>2. \A j \in 1 .. L : j = L \/ j \in 1 .. (L - 1)
      BY <1>1
    <3>3. st[L].hash = h
      BY <1>1 DEF h
    <3> QED BY <1>5, <2>3, <2>4, <2>5, <2>6, <3>1, <3>2, <3>3
  <2>10. ASSUME NEW g \in rec'.visited
         PROVE  \/ OnChannel(channels[rec.channel], g)'
                \/ \E i \in DOMAIN rec'.stack : ~ rec'.stack[i].first /\ rec'.stack[i].hash = g
    <3>1. OnChannel(channels[n], g) \/ \E i \in 1 .. L : ~ st[i].first /\ st[i].hash = g
      BY <1>3, <2>1
    <3>2. \A i \in 1 .. L : i = L \/ i \in 1 .. (L - 1)
      BY <1>1
    <3>3. st[L].hash = h
      BY <1>1 DEF h
    <3> QED BY <1>5, <2>3, <2>4, <2>5, <2>6, <3>1, <3>2, <3>3
  <2>11. WalkOrdered'
    BY <2>7, <2>8, <2>9, <2>10 DEF WalkOrdered, Waits
  <2> QED BY <1>5, <2>11
<1> QED BY <1>6, <1>7
-----------------------------------------------------------------------------
(* The other calls *)

(* Channels that are copied, moved, created empty or tagged: no log        *)
(* changes, and every change stays on some channel.                        *)
LEMMA TablesLogs ==
  ASSUME Tables, UNCHANGED registry,
         \A m \in DOMAIN channels' :
           \/ channels'[m].changes = EmptyDb
           \/ \E k \in DOMAIN channels : channels'[m].changes = channels[k].changes,
         \A k \in DOMAIN channels : \A q \in DOMAIN channels[k].changes :
           \E m \in DOMAIN channels' : q \in DOMAIN channels'[m].changes
  PROVE  Tables'
<1>1. /\ internal' = internal /\ external' = external
      /\ dep' = dep /\ revdep' = revdep
  BY DEF registry
<1>2. DepsMirrored' /\ DepsComplete'
  BY <1>1 DEF Tables, DepsMirrored, DepsComplete
<1>3. KnownAreUsed'
  BY <1>1 DEF Tables, KnownAreUsed
<1>4. ASSUME NEW m \in DOMAIN channels', NEW q \in DOMAIN channels'[m].changes,
             NEW d \in Deps(external'[q])
      PROVE  /\ d \in DOMAIN internal' /\ internal'[d] \in DOMAIN channels'[m].changes
             /\ channels'[m].changes[internal'[d]] < channels'[m].changes[q]
  <2>1. PICK k \in DOMAIN channels : channels'[m].changes = channels[k].changes
    BY <1>4 DEF EmptyDb
  <2> QED BY <1>1, <1>4, <2>1 DEF Tables, DependenciesBefore, OnChannel
<1>5. DependenciesBefore'
  BY <1>4 DEF DependenciesBefore, OnChannel
<1> QED BY <1>2, <1>3, <1>5 DEF Tables

(* If drop_channel finds no change that only this channel has, then there  *)
(* is none: the states it stops at are compared by what they hold, so any  *)
(* change below such a state is on the other channel too.                  *)
LEMMA CopiesElsewhere ==
  ASSUME IInv, NEW n \in DOMAIN channels, UnusedAfterDrop(n) = {},
         NEW p \in DOMAIN channels[n].changes
  PROVE  \E m \in DOMAIN channels \ {n} : p \in DOMAIN channels[m].changes
<1> DEFINE log == channels[n].revchanges
           t == channels[n].changes[p]
           others == {channels[m] : m \in DOMAIN channels \ {n}}
           shared(v) == \E c \in others : log[v].b \in DOMAIN c.states
           only(u) == /\ \A v \in DOMAIN log : u =< v => ~ shared(v)
                      /\ \A c \in others : log[u].a \notin DOMAIN c.changes
<1>1. /\ t \in DOMAIN log /\ log[t].a = p /\ DOMAIN log \subseteq Nat
      /\ LogAgrees(channels[n], external)
  BY ChannelIds DEF LogAgrees, Channel
<1>2. ~ only(t)
  <2>1. UnusedAfterDrop(n) = {log[u].a : u \in {v \in DOMAIN log : only(v)}}
    BY DEF UnusedAfterDrop
  <2> HIDE DEF only, log, t
  <2> QED BY <1>1, <2>1
<1>3. CASE \E c \in others : log[t].a \in DOMAIN c.changes
  BY <1>1, <1>3
<1>4. ASSUME NEW v \in DOMAIN log, t =< v, shared(v)
      PROVE  \E m \in DOMAIN channels \ {n} : p \in DOMAIN channels[m].changes
  <2>1. PICK m \in DOMAIN channels \ {n} : log[v].b \in DOMAIN channels[m].states
    BY <1>4
  <2> DEFINE c == channels[m]
             w == c.states[log[v].b]
  <2>2. LogAgrees(c, external)
    BY ChannelIds
  <2>3. w \in DOMAIN c.revchanges /\ c.revchanges[w].b = log[v].b
    BY <2>1, <2>2 DEF LogAgrees
  <2>4. log[v].b = HashesUpTo(channels[n], external, v)
    BY <1>1, <1>4 DEF LogAgrees
  <2>5. c.revchanges[w].b = HashesUpTo(c, external, w)
    BY <2>2, <2>3 DEF LogAgrees
  <2>6. external[p] \in log[v].b
    BY <1>1, <1>4, <2>4 DEF HashesUpTo, UpTo
  <2>7. PICK u \in DOMAIN c.revchanges : external[p] = external[c.revchanges[u].a]
    BY <2>3, <2>5, <2>6 DEF HashesUpTo, UpTo
  <2>8. c.revchanges[u].a \in DOMAIN c.changes
    BY <2>2, <2>7 DEF LogAgrees
  <2>9. /\ internal[external[p]] = p
        /\ internal[external[c.revchanges[u].a]] = c.revchanges[u].a
    BY <2>8, ChannelIds
  <2> QED BY <2>7, <2>8, <2>9
<1> QED BY <1>2, <1>3, <1>4

LEMMA TablesDropped ==
  ASSUME DInv, NEW n \in Name, DropCopy(n)
  PROVE  Tables' /\ UNCHANGED registry
<1>1. /\ n \in DOMAIN channels /\ UnusedAfterDrop(n) = {}
      /\ channels' = Del(channels, n)
      /\ internal' = internal /\ external' = external
      /\ dep' = {e \in dep : e[1] \notin UnusedAfterDrop(n)}
      /\ revdep' = revdep \ {<<e[2], e[1]>> : e \in dep \ dep'}
  BY DEF DropCopy, drop_channel
<1>2. dep' = dep
  BY <1>1
<1>3. dep \ dep' = {}
  BY <1>2
<1>4. revdep' = revdep
  BY <1>1, <1>3
<1>5. UNCHANGED registry
  BY <1>1, <1>2, <1>4 DEF registry
<1>6. /\ DOMAIN channels' = DOMAIN channels \ {n}
      /\ \A m \in DOMAIN channels' : channels'[m] = channels[m]
  BY <1>1 DEF Del
<1>7. ASSUME NEW k \in DOMAIN channels, NEW q \in DOMAIN channels[k].changes
      PROVE  \E m \in DOMAIN channels' : q \in DOMAIN channels'[m].changes
  <2>1. CASE k # n
    BY <1>6, <1>7, <2>1
  <2>2. CASE k = n
    <3>1. PICK m \in DOMAIN channels \ {n} : q \in DOMAIN channels[m].changes
      BY <1>1, <1>7, <2>2, CopiesElsewhere DEF DInv
    <3> QED BY <1>6, <3>1
  <2> QED BY <2>1, <2>2
<1>8. \A m \in DOMAIN channels' :
        \E k \in DOMAIN channels : channels'[m].changes = channels[k].changes
  BY <1>6
<1>9. Tables
  BY DEF DInv, Tables
<1> QED BY <1>5, <1>7, <1>8, <1>9, TablesLogs

(* The calls that work on channels as a whole or on tags. *)
LEMMA TablesKept ==
  ASSUME IInv, Tables, NEW n \in Name,
         \/ commit
         \/ open_or_create_channel(n)
         \/ /\ n \in DOMAIN channels
            /\ \E m \in Name \ DOMAIN channels : fork(n, m) \/ rename_channel(n, m)
         \/ n \in DOMAIN channels /\ \E m \in SUBSET Hash : PutTag(n, m) \/ DelTag(n, m)
  PROVE  Tables'
<1>1. CASE commit
  <2>1. UNCHANGED registry /\ channels' = channels
    BY <1>1 DEF commit
  <2> QED BY <2>1, TablesSame
<1>2. CASE open_or_create_channel(n)
  <2>1. UNCHANGED registry /\ n \notin DOMAIN channels /\ channels' = Put(channels, n, EmptyChannel)
    BY <1>2 DEF open_or_create_channel
  <2>2. EmptyChannel.changes = EmptyDb
    BY DEF EmptyChannel
  <2>3. /\ DOMAIN channels' = DOMAIN channels \cup {n}
        /\ channels'[n].changes = EmptyDb
        /\ \A k \in DOMAIN channels : channels'[k] = channels[k]
    BY <2>1, <2>2 DEF Put
  <2> QED BY <2>1, <2>3, TablesLogs
<1>3. ASSUME NEW m \in Name \ DOMAIN channels, n \in DOMAIN channels, fork(n, m)
      PROVE  Tables'
  <2>1. UNCHANGED registry /\ channels' = Put(channels, m, channels[n])
    BY <1>3 DEF fork
  <2>2. /\ DOMAIN channels' = DOMAIN channels \cup {m}
        /\ channels'[m] = channels[n]
        /\ \A k \in DOMAIN channels : channels'[k] = channels[k]
    BY <2>1 DEF Put
  <2> QED BY <1>3, <2>1, <2>2, TablesLogs
<1>4. ASSUME NEW m \in Name \ DOMAIN channels, n \in DOMAIN channels, rename_channel(n, m)
      PROVE  Tables'
  <2>1. UNCHANGED registry /\ channels' = Put(Del(channels, n), m, channels[n])
    BY <1>4 DEF rename_channel
  <2>2. /\ DOMAIN channels' = (DOMAIN channels \ {n}) \cup {m}
        /\ channels'[m] = channels[n]
        /\ \A k \in DOMAIN channels \ {n} : channels'[k] = channels[k]
    BY <2>1 DEF Put, Del
  <2> QED BY <1>4, <2>1, <2>2, TablesLogs
<1>5. ASSUME NEW m \in SUBSET Hash, n \in DOMAIN channels, PutTag(n, m) \/ DelTag(n, m)
      PROVE  Tables'
  <2>1. PICK tags : channels' = [channels EXCEPT ![n] = [@ EXCEPT !.tags = tags]]
    BY <1>5 DEF PutTag, DelTag
  <2>2. UNCHANGED registry
    BY <1>5 DEF PutTag, DelTag
  <2>3. /\ DOMAIN channels' = DOMAIN channels
        /\ \A k \in DOMAIN channels : channels'[k].changes = channels[k].changes
    BY <1>5, <2>1, ChannelIds DEF Channel
  <2> QED BY <2>2, <2>3, TablesLogs
<1> QED BY <1>1, <1>2, <1>3, <1>4, <1>5

LEMMA IdleWalk == Idle /\ UNCHANGED rec => WalkOrdered'
<1>1. Idle /\ UNCHANGED rec => Idle'
  BY DEF Idle, NoRec
<1> QED BY <1>1, WalkOver, PTL

(* A walk starts with one change, met before by nobody. *)
LEMMA WalkStarts ==
  ASSUME NEW n, NEW h, NEW deps_only, apply_change_rec(n, h, deps_only)
  PROVE  WalkOrdered'
<1> DEFINE frame == Frame(h, TRUE, ~ deps_only)
<1>1. /\ rec' = [channel |-> n, stack |-> <<frame>>, visited |-> {}]
      /\ frame.first
  BY DEF apply_change_rec, Frame
<1> HIDE DEF frame
<1>2. /\ rec'.visited = {} /\ DOMAIN rec'.stack = {1} /\ rec'.stack[1].first
  BY <1>1
<1> QED BY <1>2 DEF WalkOrdered, Waits

LEMMA CopiesStep == DInv /\ [NextCopies]_vars => DInv'
<1> SUFFICES ASSUME DInv, [NextCopies]_vars PROVE DInv'
  OBVIOUS
<1>1. IInv /\ Tables
  BY DEF DInv, Tables
<1>2. [Next]_vars
  BY DEF NextCopies, Next, DropCopy, Lose
<1>3. IInv'
  BY <1>1, <1>2, NextStep
<1>4. Tables' /\ WalkOrdered'
  <2>1. CASE Loop
    <3>1. CASE RecVisit
      <4>1. UNCHANGED registry /\ channels' = channels
        BY <3>1 DEF RecVisit
      <4> QED BY <1>1, <3>1, <4>1, TablesSame, WalkVisits
    <3>2. CASE RecApply
      BY <3>2, WalkApplies
    <3> QED BY <2>1, <3>1, <3>2 DEF Loop
  <2>2. CASE commit
    <3>1. WalkOrdered'
      BY <2>2, IdleWalk DEF commit
    <3>2. CASE Name = {}
      <4>1. UNCHANGED registry /\ channels' = channels
        BY <2>2 DEF commit
      <4> QED BY <1>1, <3>1, <4>1, TablesSame
    <3> QED BY <1>1, <2>2, <3>1, <3>2, TablesKept
  <2>3. ASSUME NEW n \in Name, NEW h \in Hash, n \in DOMAIN channels,
               apply_change(n, h) \/ apply_local_change(n, h)
        PROVE  Tables' /\ WalkOrdered'
    <3>1. /\ HasDependencies(channels[n], h) /\ ApplyToChannel(n, h)
          /\ RegisterIfUnknown(h) \/ register_change(make_changeid(h), h)
          /\ Idle /\ UNCHANGED rec
      BY <2>3 DEF apply_change, apply_local_change
    <3> QED BY <2>3, <3>1, DepsApplied, ClosedApplied, IdleWalk DEF Tables
  <2>4. ASSUME NEW n \in Name, NEW h \in Hash, n \in DOMAIN channels, unrecord(n, h)
        PROVE  Tables' /\ WalkOrdered'
    <3>1. Idle /\ UNCHANGED rec
      BY <2>4 DEF unrecord
    <3> QED BY <2>4, <3>1, DepsUnrecorded, ClosedUnrecorded, IdleWalk DEF Tables
  <2>5. ASSUME NEW n \in Name, NEW h \in Hash, NEW deps_only \in BOOLEAN,
               apply_change_rec(n, h, deps_only)
        PROVE  Tables' /\ WalkOrdered'
    <3>1. UNCHANGED registry /\ channels' = channels
      BY <2>5 DEF apply_change_rec
    <3> QED BY <1>1, <2>5, <3>1, TablesSame, WalkStarts
  <2>6. ASSUME NEW n \in Name,
               \/ open_or_create_channel(n)
               \/ /\ n \in DOMAIN channels
                  /\ \E m \in Name \ DOMAIN channels : fork(n, m) \/ rename_channel(n, m)
               \/ n \in DOMAIN channels /\ \E m \in SUBSET Hash : PutTag(n, m) \/ DelTag(n, m)
        PROVE  Tables' /\ WalkOrdered'
    <3>1. Idle /\ UNCHANGED rec
      BY <2>6 DEF open_or_create_channel, fork, rename_channel, PutTag, DelTag
    <3> QED BY <1>1, <2>6, <3>1, TablesKept, IdleWalk
  <2>7. ASSUME NEW n \in Name, DropCopy(n) PROVE Tables' /\ WalkOrdered'
    <3>1. Idle /\ UNCHANGED rec
      BY <2>7 DEF DropCopy, drop_channel
    <3> QED BY <2>7, <3>1, TablesDropped, IdleWalk
  <2>8. CASE UNCHANGED vars
    <3>1. UNCHANGED registry /\ channels' = channels /\ rec' = rec /\ internal' = internal
      BY <2>8 DEF vars, registry
    <3>2. WalkOrdered'
      BY <3>1 DEF DInv, WalkOrdered, Waits, OnChannel
    <3> QED BY <1>1, <3>1, <3>2, TablesSame
  <2>9. ASSUME NEW n \in Name, Keep(n) PROVE Tables' /\ WalkOrdered'
    BY <2>3, <2>4, <2>5, <2>6, <2>9 DEF Keep
  <2> QED BY <2>1, <2>2, <2>7, <2>8, <2>9 DEF NextCopies
<1> QED BY <1>3, <1>4 DEF DInv, Tables

LEMMA CopiesInit == Init => DInv
<1> SUFFICES ASSUME Init PROVE DInv
  OBVIOUS
<1>1. IInv
  BY InitOK
<1>2. Tables
  BY DEF Init, EmptyDb, Tables, DepsMirrored, DepsComplete, KnownAreUsed, DependenciesBefore
<1>3. WalkOrdered
  BY WalkOver DEF Init, Idle
<1> QED BY <1>1, <1>2, <1>3 DEF DInv, Tables

(* The invariant holds as long as no last copy of a change is dropped with *)
(* its channel.                                                            *)
THEOREM CopiesInductive == SpecCopies => []DInv
<1>1. SpecCopies => Init /\ [][NextCopies]_vars
  BY DEF SpecCopies
<1> QED BY <1>1, CopiesInit, CopiesStep, PTL

(* The tables dep and revdep say the same, and nothing the files of the    *)
(* changes do not say (register_change and unrecord).                      *)
THEOREM DepsStayMirrored == SpecCopies => []DepsMirrored
<1>1. DInv => DepsMirrored
  BY DEF DInv
<1> QED BY <1>1, CopiesInductive, PTL

(* A channel never holds a change without its dependencies, earlier in the *)
(* log: apply_change checks it, apply_change_rec_ws walks the dependencies *)
(* so, and unrecord refuses what would break it.                           *)
THEOREM DependenciesStayBefore == SpecCopies => []DependenciesBefore
<1>1. DInv => DependenciesBefore
  BY DEF DInv
<1> QED BY <1>1, CopiesInductive, PTL

(* Neither the assertion nor the unwrap in unrecord fails. *)
THEOREM UnrecordIsSafe == SpecCopies => []UnrecordNeverPanics
<1>1. DInv => UnrecordNeverPanics
  BY ForgetsSafely
<1> QED BY <1>1, CopiesInductive, PTL

(* The registry keeps no change that is on no channel. *)
THEOREM NothingForgottenLate == SpecCopies => []KnownAreUsed
<1>1. DInv => KnownAreUsed
  BY DEF DInv
<1> QED BY <1>1, CopiesInductive, PTL

(* unrecord refuses a change that another one on the channel depends on,   *)
(* by the files of the changes, though it looks in revdep.  (Once the last *)
(* copy of a change was dropped, it may not: run dropped.)                 *)
THEOREM DependentsStayRefused == SpecCopies => DependentsRefused
<1> DEFINE A == \A n \in DOMAIN channels, h \in Hash : unrecord(n, h) =>
                  \A p \in DOMAIN channels[n].changes : h \notin Deps(external[p])
<1>1. DInv /\ [NextCopies]_vars => [A]_vars
  BY NoDependents
<1>2. SpecCopies => Init /\ [][NextCopies]_vars
  BY DEF SpecCopies
<1>3. SpecCopies => [][A]_vars
  BY <1>1, <1>2, CopiesInductive, PTL
<1> QED BY <1>3 DEF DependentsRefused

-----------------------------------------------------------------------------
(* Refinement: the calls, seen from outside *)

SetOf(ch, ext) == {ext[p] : p \in DOMAIN ch.changes}
SetsNow == [n \in DOMAIN channels |-> SetOf(channels[n], external)]

(* What is on a channel by the tables is in its set. *)
LEMMA SetHas ==
  ASSUME IInv, NEW n \in DOMAIN channels, NEW h
  PROVE  OnChannel(channels[n], h) <=> h \in SetOf(channels[n], external)
<1>1. ASSUME OnChannel(channels[n], h) PROVE h \in SetOf(channels[n], external)
  <2>1. internal[h] \in DOMAIN channels[n].changes /\ external[internal[h]] = h
    BY <1>1 DEF OnChannel, IInv, RegistryOK, IdsAgree
  <2> QED BY <2>1 DEF SetOf
<1>2. ASSUME h \in SetOf(channels[n], external) PROVE OnChannel(channels[n], h)
  BY <1>2, ChannelIds DEF SetOf
<1> QED BY <1>1, <1>2

LEMMA ApplyRefines ==
  ASSUME DInv, NEW n \in DOMAIN channels, NEW h \in Hash,
         \/ RegisterIfUnknown(h)
         \/ register_change(make_changeid(h), h),
         HasDependencies(channels[n], h), ApplyToChannel(n, h)
  PROVE  Sets!Apply(n, h)
<1> DEFINE p == make_changeid(h)
<1>1. /\ DOMAIN channels' = DOMAIN channels
      /\ channels'[n].changes = Put(channels[n].changes, p, channels[n].apply_counter)
      /\ \A m \in DOMAIN channels \ {n} : channels'[m] = channels[m]
      /\ external'[p] = h
      /\ \A q \in DOMAIN external : external'[q] = external[q]
  BY ApplyEffect DEF DInv
<1> HIDE DEF p
<1>2. IInv
  BY DEF DInv
<1>3. ASSUME NEW m \in DOMAIN channels, NEW q \in DOMAIN channels[m].changes
      PROVE  external'[q] = external[q]
  BY <1>1, <1>2, <1>3, ChannelIds
<1>4. SetOf(channels'[n], external') = SetOf(channels[n], external) \cup {h}
  <2>1. DOMAIN channels'[n].changes = DOMAIN channels[n].changes \cup {p}
    BY <1>1 DEF Put
  <2> QED BY <1>1, <1>3, <2>1 DEF SetOf
<1>5. \A m \in DOMAIN channels \ {n} : SetOf(channels'[m], external') = SetOf(channels[m], external)
  BY <1>1, <1>3 DEF SetOf
<1>6. SetsNow' = [m \in DOMAIN SetsNow \cup {n} |->
                    IF m = n THEN SetsNow[n] \cup {h} ELSE SetsNow[m]]
  BY <1>1, <1>4, <1>5 DEF SetsNow
<1>7. n \in DOMAIN SetsNow /\ h \notin SetsNow[n] /\ Deps(h) \subseteq SetsNow[n]
  BY <1>2, SetHas DEF SetsNow, ApplyToChannel, HasDependencies
<1> QED BY <1>6, <1>7 DEF Sets!Apply, Sets!Becomes, Sets!SetDeps, Deps, SetsNow, SetOf

LEMMA UnrecordRefines ==
  ASSUME DInv, NEW n \in DOMAIN channels, NEW h \in Hash, unrecord(n, h)
  PROVE  Sets!Unrecord(n, h)
<1> DEFINE p == internal[h]
<1>1. /\ h \in DOMAIN internal /\ p \in DOMAIN channels[n].changes
      /\ DOMAIN channels' = DOMAIN channels
      /\ channels'[n].changes = Del(channels[n].changes, p)
      /\ \A m \in DOMAIN channels \ {n} : channels'[m] = channels[m]
      /\ \/ /\ \A m \in DOMAIN channels \ {n} : p \notin DOMAIN channels[m].changes
            /\ DOMAIN external' = DOMAIN external \ {p}
         \/ external' = external
      /\ \A q \in DOMAIN external' : external'[q] = external[q]
      /\ external[p] = h
  BY UnrecordEffect DEF DInv, IInv, RegistryOK, IdsAgree
<1>2. IInv
  BY DEF DInv
<1>3. \A q \in DOMAIN channels[n].changes : external[q] = h => q = p
  BY <1>2, ChannelIds
<1> HIDE DEF p
<1>4. ASSUME NEW m \in DOMAIN channels, NEW q \in DOMAIN channels[m].changes, m # n \/ q # p
      PROVE  external'[q] = external[q]
  <2>1. q \in DOMAIN external
    BY <1>2, ChannelIds
  <2>2. q # p \/ external' = external
    BY <1>1, <1>4
  <2> QED BY <1>1, <2>1, <2>2
<1>5. SetOf(channels'[n], external') = SetOf(channels[n], external) \ {h}
  <2>1. DOMAIN channels'[n].changes = DOMAIN channels[n].changes \ {p}
    BY <1>1 DEF Del
  <2> QED BY <1>1, <1>3, <1>4, <2>1 DEF SetOf
<1>6. \A m \in DOMAIN channels \ {n} : SetOf(channels'[m], external') = SetOf(channels[m], external)
  BY <1>1, <1>4 DEF SetOf
<1>7. SetsNow' = [m \in DOMAIN SetsNow \cup {n} |->
                    IF m = n THEN SetsNow[n] \ {h} ELSE SetsNow[m]]
  BY <1>1, <1>5, <1>6 DEF SetsNow
<1>8. n \in DOMAIN SetsNow /\ h \in SetsNow[n]
  BY <1>1 DEF SetsNow, SetOf
<1>9. \A g \in SetsNow[n] : h \notin Deps(g)
  BY NoDependents DEF SetsNow, SetOf
<1> QED BY <1>7, <1>8, <1>9 DEF Sets!Unrecord, Sets!Becomes, Sets!SetDeps, Deps, SetsNow, SetOf

(* Calls after which the channels hold the same sets. *)
LEMMA SetsStay ==
  ASSUME UNCHANGED registry, DOMAIN channels' = DOMAIN channels,
         \A k \in DOMAIN channels : channels'[k].changes = channels[k].changes
  PROVE  SetsNow' = SetsNow
<1>1. external' = external
  BY DEF registry
<1>2. \A k \in DOMAIN channels : SetOf(channels'[k], external') = SetOf(channels[k], external)
  BY <1>1 DEF SetOf
<1> QED BY <1>2 DEF SetsNow

(* The calls that copy, move, make or drop a channel. *)
LEMMA WholeRefines ==
  ASSUME DInv, NEW n \in Name,
         \/ open_or_create_channel(n)
         \/ DropCopy(n)
         \/ /\ n \in DOMAIN channels
            /\ \E m \in Name \ DOMAIN channels : fork(n, m) \/ rename_channel(n, m)
  PROVE  Sets!Next
<1> USE DEF SetsNow
<1>1. CASE open_or_create_channel(n)
  <2>1. /\ external' = external /\ n \notin DOMAIN channels
        /\ channels' = Put(channels, n, EmptyChannel)
    BY <1>1 DEF open_or_create_channel, registry
  <2>2. SetOf(EmptyChannel, external) = {}
    BY DEF SetOf, EmptyChannel, EmptyDb
  <2>3. SetsNow' = [k \in DOMAIN SetsNow \cup {n} |-> IF k = n THEN {} ELSE SetsNow[k]]
    BY <2>1, <2>2 DEF Put
  <2>4. Sets!Create(n)
    BY <2>1, <2>3 DEF Sets!Create, Sets!Becomes, SetOf
  <2> QED BY <2>4 DEF Sets!Next
<1>2. CASE DropCopy(n)
  <2>1. external' = external
    BY <1>2, TablesDropped DEF registry
  <2>2. n \in DOMAIN channels /\ channels' = Del(channels, n)
    BY <1>2 DEF DropCopy, drop_channel
  <2>3. SetsNow' = [k \in DOMAIN SetsNow \ {n} |-> SetsNow[k]]
    BY <2>1, <2>2 DEF Del
  <2>4. Sets!Drop(n)
    BY <2>2, <2>3 DEF Sets!Drop, SetOf
  <2> QED BY <2>4 DEF Sets!Next
<1>3. ASSUME n \in DOMAIN channels, NEW m \in Name \ DOMAIN channels, fork(n, m)
      PROVE  Sets!Next
  <2>1. external' = external /\ channels' = Put(channels, m, channels[n])
    BY <1>3 DEF fork, registry
  <2>2. SetsNow' = [k \in DOMAIN SetsNow \cup {m} |-> IF k = m THEN SetsNow[n] ELSE SetsNow[k]]
    BY <1>3, <2>1 DEF Put
  <2>3. Sets!Copy(n, m)
    BY <1>3, <2>2 DEF Sets!Copy, Sets!Becomes, SetOf
  <2> QED BY <2>3 DEF Sets!Next
<1>4. ASSUME n \in DOMAIN channels, NEW m \in Name \ DOMAIN channels, rename_channel(n, m)
      PROVE  Sets!Next
  <2>1. external' = external /\ channels' = Put(Del(channels, n), m, channels[n])
    BY <1>4 DEF rename_channel, registry
  <2>2. SetsNow' = [k \in (DOMAIN SetsNow \ {n}) \cup {m} |->
                      IF k = m THEN SetsNow[n] ELSE SetsNow[k]]
    BY <1>4, <2>1 DEF Put, Del
  <2>3. Sets!Rename(n, m)
    BY <1>4, <2>2 DEF Sets!Rename, SetOf
  <2> QED BY <2>3 DEF Sets!Next
<1> QED BY <1>1, <1>2, <1>3, <1>4

LEMMA StepRefines ==
  DInv /\ [NextCopies]_vars => Sets!Next \/ SetsNow' = SetsNow
<1> SUFFICES ASSUME DInv, [NextCopies]_vars PROVE Sets!Next \/ SetsNow' = SetsNow
  OBVIOUS
<1>0. IInv
  BY DEF DInv
<1>1. CASE UNCHANGED <<registry, channels>>
  BY <1>1, SetsStay
<1>2. CASE RecApply
  <2>1. rec.channel \in DOMAIN channels /\ Top.hash \in Hash
    BY <1>0, <1>2, TopType DEF RecApply, FrameType, IInv
  <2>2. CASE Top.apply /\ ~ OnChannel(channels[rec.channel], Top.hash)
    <3>1. RegisterIfUnknown(Top.hash) /\ ApplyToChannel(rec.channel, Top.hash)
      BY <1>2, <2>2 DEF RecApply
    <3>2. HasDependencies(channels[rec.channel], Top.hash)
      BY <1>2, WaitingHasAll
    <3>3. rec.channel \in Name
      BY <1>0, <2>1 DEF IInv, NamesOK
    <3> QED BY <2>1, <3>1, <3>2, <3>3, ApplyRefines DEF Sets!Next
  <2>3. CASE ~ (Top.apply /\ ~ OnChannel(channels[rec.channel], Top.hash))
    BY <1>1, <1>2, <2>3 DEF RecApply
  <2> QED BY <2>2, <2>3
<1>3. ASSUME NEW n \in Name, Keep(n) PROVE Sets!Next \/ SetsNow' = SetsNow
  <2>1. ASSUME NEW h \in Hash, n \in DOMAIN channels, apply_change(n, h) \/ apply_local_change(n, h)
        PROVE  Sets!Next
    <3>1. Sets!Apply(n, h)
      BY <2>1, ApplyRefines DEF apply_change, apply_local_change
    <3> QED BY <3>1 DEF Sets!Next
  <2>2. ASSUME NEW h \in Hash, n \in DOMAIN channels, unrecord(n, h)
        PROVE  Sets!Next
    <3>1. Sets!Unrecord(n, h)
      BY <2>2, UnrecordRefines
    <3> QED BY <3>1 DEF Sets!Next
  <2>3. ASSUME NEW h \in Hash, NEW deps_only \in BOOLEAN, apply_change_rec(n, h, deps_only)
        PROVE  SetsNow' = SetsNow
    BY <1>1, <2>3, SetsStay DEF apply_change_rec
  <2>4. ASSUME NEW m \in SUBSET Hash, n \in DOMAIN channels, PutTag(n, m) \/ DelTag(n, m)
        PROVE  SetsNow' = SetsNow
    <3>1. PICK tags : channels' = [channels EXCEPT ![n] = [@ EXCEPT !.tags = tags]]
      BY <2>4 DEF PutTag, DelTag
    <3>2. UNCHANGED registry
      BY <2>4 DEF PutTag, DelTag
    <3>3. /\ DOMAIN channels' = DOMAIN channels
          /\ \A k \in DOMAIN channels : channels'[k].changes = channels[k].changes
      BY <1>0, <2>4, <3>1, ChannelIds DEF Channel
    <3> QED BY <3>2, <3>3, SetsStay
  <2> QED BY <1>3, <2>1, <2>2, <2>3, <2>4, WholeRefines DEF Keep
<1>4. ASSUME NEW n \in Name, DropCopy(n) PROVE Sets!Next
  BY <1>4, WholeRefines
<1>5. RecVisit \/ commit \/ UNCHANGED vars => UNCHANGED <<registry, channels>>
  BY DEF RecVisit, commit, vars, registry
<1> QED BY <1>1, <1>2, <1>3, <1>4, <1>5 DEF NextCopies, Loop

(* The library implements ChannelSets, which is the contract its callers   *)
(* use: channels are sets of changes closed under dependency.              *)
THEOREM Refinement == SpecCopies => ImplementsSets
<1>1. Init => Sets!Init
  BY DEF Init, EmptyDb, Sets!Init
<1>2. DInv /\ [NextCopies]_vars => [Sets!Next]_SetsNow
  BY StepRefines
<1>3. SpecCopies => Init /\ [][NextCopies]_vars
  BY DEF SpecCopies
<1>4. SpecCopies => [][Sets!Next]_SetsNow
  BY <1>2, <1>3, CopiesInductive, PTL
<1> QED BY <1>1, <1>3, <1>4, PTL DEF ImplementsSets, Sets!Spec, SetsNow, SetOf
=============================================================================
