---------------------------- MODULE ServerProofs ----------------------------
(* Theorems about pijul protocol: what a session was sent is committed when *)
(* it ends well, and every change a channel refers to has its file.         *)
EXTENDS Server, TagFilesProofs

-----------------------------------------------------------------------------
(* The inductive invariant *)

SessionOK ==
  /\ store \subseteq Hash
  /\ session \in [open : BOOLEAN, applied : SUBSET DOMAIN channels,
                  pushed : SUBSET (Name \X Hash), tagged : SUBSET (Name \X SUBSET Hash)]
  /\ ~ session.open => session = NoSession

(* What was pushed in the session is there, and marked as applied: nothing *)
(* a session does takes a change off a channel, except its end.            *)
PushedOn ==
  \A r \in session.pushed :
    r[1] \in session.applied /\ OnChannel(channels[r[1]], r[2])

(* The changes of a channel have their files, be the channel one of the    *)
(* transaction, one committed or one in the file of a tag, from which it   *)
(* may come back.                                                          *)
Stored(ch, ext, st) == \A p \in DOMAIN ch.changes : ext[p] \in st
AllStored ==
  /\ \A n \in DOMAIN channels : Stored(channels[n], external, store)
  /\ \A n \in DOMAIN saved.channels : Stored(saved.channels[n], saved.external, store)
  /\ \A m \in DOMAIN files : Stored(files[m].channel, files[m].external, store)

SInv == TInv /\ SessionOK /\ PushedOn /\ AllStored

-----------------------------------------------------------------------------
(* Calls *)

(* A channel is stored in any larger store, and under any registry that    *)
(* agrees on its ids.                                                      *)
LEMMA StoredFrame ==
  ASSUME NEW ch, NEW ext, NEW ext2, NEW st, NEW st2, Stored(ch, ext, st), st \subseteq st2,
         \A p \in DOMAIN ch.changes : ext2[p] = ext[p]
  PROVE  Stored(ch, ext2, st2)
BY DEF Stored

(* Applying h needs the file of h and no other, and takes nothing off a    *)
(* channel.                                                                *)
LEMMA ApplyStored ==
  ASSUME IInv, NEW n \in DOMAIN channels, NEW h \in Hash, apply_change(n, h),
         NEW st, \A k \in DOMAIN channels : Stored(channels[k], external, st)
  PROVE  /\ DOMAIN channels' = DOMAIN channels
         /\ \A k \in DOMAIN channels' : Stored(channels'[k], external', st \cup {h})
         /\ h \in DOMAIN internal' /\ internal'[h] \in DOMAIN channels'[n].changes
         /\ \A k \in DOMAIN channels, g \in Hash :
              OnChannel(channels[k], g) =>
                g \in DOMAIN internal' /\ internal'[g] \in DOMAIN channels'[k].changes
<1> DEFINE p == make_changeid(h)
<1>1. /\ DOMAIN external' = DOMAIN external \cup {p} /\ external'[p] = h
      /\ DOMAIN internal' = DOMAIN internal \cup {h} /\ internal'[h] = p
      /\ \A q \in DOMAIN external : external'[q] = external[q]
      /\ \A g \in DOMAIN internal : internal'[g] = internal[g]
      /\ DOMAIN channels' = DOMAIN channels
      /\ channels'[n].changes = Put(channels[n].changes, p, channels[n].apply_counter)
      /\ \A m \in DOMAIN channels \ {n} : channels'[m] = channels[m]
  BY ApplyEffect DEF apply_change
<1> HIDE DEF p
<1>2. \A k \in DOMAIN channels : DOMAIN channels[k].changes \subseteq DOMAIN external
  BY DEF IInv, ChannelsOK, ChannelOK
<1>3. DOMAIN channels'[n].changes = DOMAIN channels[n].changes \cup {p}
  BY <1>1 DEF Put
<1>4. ASSUME NEW k \in DOMAIN channels PROVE Stored(channels'[k], external', st \cup {h})
  <2>1. CASE k = n
    BY <1>1, <1>2, <1>3, <2>1 DEF Stored
  <2>2. CASE k # n
    BY <1>1, <1>2, <2>2 DEF Stored
  <2> QED BY <2>1, <2>2
<1>5. ASSUME NEW k \in DOMAIN channels, NEW g \in Hash, OnChannel(channels[k], g)
      PROVE  g \in DOMAIN internal' /\ internal'[g] \in DOMAIN channels'[k].changes
  <2>1. g \in DOMAIN internal /\ internal[g] \in DOMAIN channels[k].changes
    BY <1>5 DEF OnChannel
  <2>2. CASE k = n
    BY <1>1, <1>3, <2>1, <2>2
  <2>3. CASE k # n
    BY <1>1, <2>1, <2>3
  <2> QED BY <2>2, <2>3
<1> QED BY <1>1, <1>3, <1>4, <1>5

(* Nothing else a command does needs a file that is not there.             *)
LEMMA CallStored ==
  ASSUME IInv, NEW n \in Name, NEW st, \A k \in DOMAIN channels : Stored(channels[k], external, st),
         \/ open_or_create_channel(n)
         \/ n \in DOMAIN channels /\ \E h \in Hash : unrecord(n, h)
         \/ n \in DOMAIN channels /\ \E m : PutTag(n, m) \/ DelTag(n, m)
  PROVE  \A k \in DOMAIN channels' : Stored(channels'[k], external', st)
<1>1. \A k \in DOMAIN channels : /\ Channel(channels[k])
                                 /\ DOMAIN channels[k].changes \subseteq DOMAIN external
  BY DEF IInv, ChannelsOK, ChannelOK
<1>2. CASE open_or_create_channel(n)
  <2>1. /\ external' = external
        /\ \A k \in DOMAIN channels' :
             \/ channels'[k] = EmptyChannel
             \/ k \in DOMAIN channels /\ channels'[k] = channels[k]
    BY <1>2 DEF open_or_create_channel, Put, registry
  <2>2. Stored(EmptyChannel, external, st)
    BY DEF Stored, EmptyChannel, EmptyDb
  <2> QED BY <2>1, <2>2
<1>3. ASSUME n \in DOMAIN channels, NEW h \in Hash, unrecord(n, h)
      PROVE  \A k \in DOMAIN channels' : Stored(channels'[k], external', st)
  <2> DEFINE p == internal[h]
  <2>1. /\ DOMAIN channels' = DOMAIN channels
        /\ channels'[n].changes = Del(channels[n].changes, p)
        /\ \A m \in DOMAIN channels \ {n} : channels'[m] = channels[m]
        /\ \/ /\ \A m \in DOMAIN channels \ {n} : p \notin DOMAIN channels[m].changes
              /\ DOMAIN external' = DOMAIN external \ {p}
           \/ external' = external
        /\ \A q \in DOMAIN external' : external'[q] = external[q]
    BY <1>3, UnrecordEffect
  <2> HIDE DEF p
  <2>2. DOMAIN channels'[n].changes = DOMAIN channels[n].changes \ {p}
    BY <2>1 DEF Del
  <2>3. ASSUME NEW k \in DOMAIN channels PROVE Stored(channels'[k], external', st)
    <3>1. CASE k = n
      BY <1>1, <2>1, <2>2, <3>1 DEF Stored
    <3>2. CASE k # n
      BY <1>1, <2>1, <3>2 DEF Stored
    <3> QED BY <3>1, <3>2
  <2> QED BY <2>1, <2>3
<1>4. ASSUME n \in DOMAIN channels, NEW m, PutTag(n, m) \/ DelTag(n, m)
      PROVE  \A k \in DOMAIN channels' : Stored(channels'[k], external', st)
  <2>1. PICK tags : channels' = [channels EXCEPT ![n] = [@ EXCEPT !.tags = tags]]
    BY <1>4 DEF PutTag, DelTag
  <2>2. external' = external
    BY <1>4 DEF PutTag, DelTag, registry
  <2>3. DOMAIN channels[n] = {"changes", "revchanges", "states", "tags", "apply_counter"}
    BY <1>1, <1>4 DEF Channel
  <2>4. DOMAIN channels' = DOMAIN channels
    BY <2>1
  <2>5. \A k \in DOMAIN channels : channels'[k].changes = channels[k].changes
    BY <1>4, <2>1, <2>3
  <2> QED BY <2>2, <2>4, <2>5 DEF Stored
<1> QED BY <1>2, <1>3, <1>4

(* The tables of a committed or a dropped transaction, and of the files.   *)
LEMMA RollbackStored ==
  ASSUME AllStored, Rollback, store \subseteq store'
  PROVE  AllStored'
<1>1. /\ channels' = saved.channels /\ external' = saved.external
      /\ saved' = saved /\ files' = files
  BY DEF Rollback
<1> QED BY <1>1 DEF AllStored, Stored

LEMMA CommitStored ==
  ASSUME AllStored, CommitTables, store' = store
  PROVE  AllStored'
<1>1. /\ channels' = channels /\ external' = external /\ files' = files
      /\ saved'.channels = channels' /\ saved'.external = external'
  BY DEF CommitTables, commit, registry, Saved
<1> QED BY <1>1 DEF AllStored, Stored

LEMMA TagStored ==
  ASSUME TInv, AllStored, NEW n \in Name, TagCommand(n), store' = store
  PROVE  /\ AllStored' /\ UNCHANGED <<internal, external, saved>>
         /\ DOMAIN channels' = DOMAIN channels
         /\ \A k \in DOMAIN channels : channels'[k].changes = channels[k].changes
<1>1. IInv /\ \A k \in DOMAIN channels : Stored(channels[k], external, store)
  BY DEF TInv, AllStored
<1>2. n \in DOMAIN channels
  BY DEF TagCommand
<1>3. /\ \E m : PutTag(n, m) \/ DelTag(n, m)
      /\ saved' = saved
      /\ \/ files' = files
         \/ files' = Put(files, current_state(channels[n]), from_channel(n))
  BY <1>1, <1>2, CreateIsPut DEF TagCommand, create_tag, pull_tag, delete_tag
<1>4. \A k \in DOMAIN channels' : Stored(channels'[k], external', store)
  BY <1>1, <1>2, <1>3, CallStored
<1>5. internal' = internal /\ external' = external
  BY <1>3 DEF PutTag, DelTag, registry
<1>6. PICK tags : channels' = [channels EXCEPT ![n] = [@ EXCEPT !.tags = tags]]
  BY <1>3 DEF PutTag, DelTag
<1>7. DOMAIN channels[n] = {"changes", "revchanges", "states", "tags", "apply_counter"}
  BY <1>1, <1>2 DEF IInv, ChannelsOK, ChannelOK, Channel
<1>8. /\ DOMAIN channels' = DOMAIN channels
      /\ \A k \in DOMAIN channels : channels'[k].changes = channels[k].changes
  BY <1>6, <1>7
<1>9. \A m \in DOMAIN files' : Stored(files'[m].channel, files'[m].external, store)
  <2>1. \A m \in DOMAIN files : Stored(files[m].channel, files[m].external, store)
    BY DEF AllStored
  <2>2. CASE files' = files
    BY <2>1, <2>2
  <2>3. CASE files' = Put(files, current_state(channels[n]), from_channel(n))
    <3>1. Stored(from_channel(n).channel, from_channel(n).external, store)
      BY <1>1, <1>2 DEF Stored, from_channel
    <3> HIDE DEF from_channel
    <3>2. \A m \in DOMAIN files' : \/ files'[m] = from_channel(n)
                                   \/ m \in DOMAIN files /\ files'[m] = files[m]
      BY <2>3 DEF Put
    <3> QED BY <2>1, <3>1, <3>2
  <2> QED BY <1>3, <2>2, <2>3
<1>10. AllStored'
  BY <1>3, <1>4, <1>9 DEF AllStored
<1> QED BY <1>3, <1>5, <1>8, <1>10

LEMMA RestoreStored ==
  ASSUME TInv, AllStored, NEW n \in Name, NEW m \in KnownTags, restore_channel(m, n),
         store' = store
  PROVE  AllStored'
<1>1. /\ external' = external /\ files' = files /\ saved' = saved
      /\ channels' = Put(channels, n, files[m].channel) /\ SameIds(files[m])
  BY DEF restore_channel, registry
<1>2. m \in DOMAIN files
  BY DEF KnownTags
<1>3. Stored(files[m].channel, external, store)
  <2>1. \A p \in DOMAIN files[m].channel.changes : external[p] = files[m].external[p]
    BY <1>1, FileRead DEF TInv
  <2> QED BY <1>2, <2>1 DEF AllStored, Stored
<1>4. \A k \in DOMAIN channels' : \/ channels'[k] = files[m].channel
                                  \/ k \in DOMAIN channels /\ channels'[k] = channels[k]
  BY <1>1 DEF Put
<1>5. \A k \in DOMAIN channels' : Stored(channels'[k], external, store)
  BY <1>3, <1>4 DEF AllStored
<1> QED BY <1>1, <1>5 DEF AllStored

-----------------------------------------------------------------------------
(* Steps *)

LEMMA ServerSteps == NextServer => AnyTagStep \/ UNCHANGED tagvars
<1> SUFFICES ASSUME NextServer PROVE AnyTagStep \/ UNCHANGED tagvars
  OBVIOUS
<1>1. CASE Begin
  BY <1>1 DEF Begin
<1>2. CASE End \/ Crash \/ OwnerCommits \/ OwnerStops
  BY <1>2 DEF End, Crash, Fail, OwnerCommits, OwnerStops, AnyTagStep
<1>3. ASSUME NEW n \in Name, Owner(n) PROVE AnyTagStep
  BY <1>3 DEF Owner, AnyTagStep, Call
<1>4. ASSUME NEW n \in Name, NEW h \in Hash, apply(n, h) PROVE AnyTagStep
  BY <1>4 DEF apply, AnyTagStep, Call
<1>5. ASSUME NEW n \in Name, NEW h \in Hash, apply_refused(n, h) PROVE AnyTagStep
  BY <1>5 DEF apply_refused, Fail, AnyTagStep
<1>6. ASSUME NEW n \in Name, NEW m \in SUBSET Hash, tagup(n, m) PROVE AnyTagStep
  BY <1>6 DEF tagup, Taggable, TagCommand, AnyTagStep
<1>7. ASSUME NEW n \in Name, NEW m \in SUBSET Hash, tagup_refused(n, m) PROVE AnyTagStep
  BY <1>7 DEF tagup_refused, Fail, AnyTagStep
<1>8. ASSUME NEW n \in Name, NEW m \in SUBSET Hash, archive(n, m)
      PROVE  AnyTagStep \/ UNCHANGED tagvars
  BY <1>8 DEF archive, Fail, AnyTagStep, tagvars, vars, tables
<1> QED BY <1>1, <1>2, <1>3, <1>4, <1>5, <1>6, <1>7, <1>8 DEF NextServer

(* A session that ended, or did not begin, promises nothing.               *)
LEMMA NoSessionOK ==
  ASSUME store' \subseteq Hash, session' = NoSession
  PROVE  SessionOK' /\ PushedOn'
BY DEF SessionOK, PushedOn, NoSession

LEMMA ServerStepKeeps == SInv /\ [NextServer]_servervars => SInv'
<1> SUFFICES ASSUME SInv, NextServer \/ UNCHANGED servervars PROVE SInv'
  OBVIOUS
<1>1. /\ TInv /\ SessionOK /\ PushedOn /\ AllStored
      /\ IInv /\ store \subseteq Hash
      /\ session \in [open : BOOLEAN, applied : SUBSET DOMAIN channels,
                      pushed : SUBSET (Name \X Hash), tagged : SUBSET (Name \X SUBSET Hash)]
  BY DEF SInv, TInv, SessionOK
<1>2. TInv'
  <2>1. UNCHANGED servervars => UNCHANGED tagvars
    BY DEF servervars
  <2> QED BY <1>1, <2>1, ServerSteps, TagStepKeeps
<1>3. ASSUME UNCHANGED tagvars, store' = store
      PROVE  /\ AllStored' /\ UNCHANGED <<internal, channels>>
  <2>1. /\ internal' = internal /\ external' = external /\ channels' = channels
        /\ files' = files /\ saved' = saved
    BY <1>3 DEF tagvars, vars
  <2> QED BY <1>1, <1>3, <2>1 DEF AllStored
<1>4. ASSUME UNCHANGED <<internal, channels, session, store>> PROVE SessionOK' /\ PushedOn'
  BY <1>1, <1>4 DEF SessionOK, PushedOn, OnChannel
<1>5. ASSUME AllStored', store' \subseteq Hash, session' = NoSession PROVE SInv'
  BY <1>2, <1>5, NoSessionOK DEF SInv
<1>6. ASSUME Rollback, session' = NoSession, store' \subseteq Hash, store \subseteq store'
      PROVE  SInv'
  BY <1>1, <1>5, <1>6, RollbackStored
<1>7. ASSUME CommitTables, session' = NoSession, store' = store PROVE SInv'
  BY <1>1, <1>5, <1>7, CommitStored
<1>8. CASE UNCHANGED servervars
  BY <1>2, <1>3, <1>4, <1>8 DEF SInv, servervars
<1>9. CASE Begin
  <2>1. session' = [NoSession EXCEPT !.open = TRUE] /\ UNCHANGED tagvars /\ store' = store
    BY <1>9 DEF Begin
  <2>2. session' = [open |-> TRUE, applied |-> {}, pushed |-> {}, tagged |-> {}]
    BY <2>1 DEF NoSession
  <2>3. /\ session'.open = TRUE /\ session'.pushed = {}
        /\ session' \in [open : BOOLEAN, applied : SUBSET DOMAIN channels',
                         pushed : SUBSET (Name \X Hash), tagged : SUBSET (Name \X SUBSET Hash)]
    BY <2>2
  <2>4. SessionOK'
    BY <1>1, <2>1, <2>3 DEF SessionOK
  <2>5. PushedOn'
    BY <2>3 DEF PushedOn
  <2> QED BY <1>2, <1>3, <2>1, <2>4, <2>5 DEF SInv
<1>10. CASE End \/ Crash
  BY <1>1, <1>6, <1>7, <1>10 DEF End, Crash, Fail
<1>11. CASE OwnerCommits \/ OwnerStops
  <2>1. ~ session.open /\ store' = store /\ session' = session /\ (CommitTables \/ Rollback)
    BY <1>11 DEF OwnerCommits, OwnerStops
  <2>2. session' = NoSession
    BY <1>1, <2>1 DEF SessionOK
  <2> QED BY <1>1, <1>6, <1>7, <2>1, <2>2
<1>12. ASSUME NEW n \in Name, Owner(n) PROVE SInv'
  <2>1. ~ session.open /\ store' = store /\ session' = session
    BY <1>12 DEF Owner
  <2>2. session' = NoSession
    BY <1>1, <2>1 DEF SessionOK
  <2>3. CASE TagCommand(n)
    BY <1>1, <1>5, <2>1, <2>2, <2>3, TagStored
  <2>4. CASE \E m \in KnownTags : restore_channel(m, n)
    BY <1>1, <1>5, <2>1, <2>2, <2>4, RestoreStored
  <2>5. CASE /\ \/ open_or_create_channel(n)
                \/ n \in DOMAIN channels /\ \E h \in Hash : unrecord(n, h)
             /\ files' = files /\ saved' = saved
    <3>1. \A k \in DOMAIN channels : Stored(channels[k], external, store)
      BY <1>1 DEF AllStored
    <3>2. \A k \in DOMAIN channels' : Stored(channels'[k], external', store)
      BY <1>1, <2>5, <3>1, CallStored
    <3>3. AllStored'
      BY <1>1, <2>1, <2>5, <3>2 DEF AllStored
    <3> QED BY <1>1, <1>5, <2>1, <2>2, <3>3
  <2> QED BY <1>12, <2>3, <2>4, <2>5 DEF Owner
<1>13. ASSUME NEW n \in Name, NEW h \in Hash, apply(n, h) PROVE SInv'
  <2>1. /\ n \in DOMAIN channels /\ apply_change(n, h) /\ session.open
        /\ store' = store \cup {h} /\ files' = files /\ saved' = saved
        /\ session' = [session EXCEPT !.pushed = @ \cup {<<n, h>>}, !.applied = @ \cup {n}]
    BY <1>13 DEF apply, Open
  <2>2. \A k \in DOMAIN channels : Stored(channels[k], external, store)
    BY <1>1 DEF AllStored
  <2>3. /\ DOMAIN channels' = DOMAIN channels
        /\ \A k \in DOMAIN channels' : Stored(channels'[k], external', store \cup {h})
        /\ h \in DOMAIN internal' /\ internal'[h] \in DOMAIN channels'[n].changes
        /\ \A k \in DOMAIN channels, g \in Hash :
             OnChannel(channels[k], g) =>
               g \in DOMAIN internal' /\ internal'[g] \in DOMAIN channels'[k].changes
    BY <1>1, <2>1, <2>2, ApplyStored
  <2>4. AllStored'
    BY <1>1, <2>1, <2>3 DEF AllStored, Stored
  <2>5. /\ session'.open = session.open /\ session'.tagged = session.tagged
        /\ session'.pushed = session.pushed \cup {<<n, h>>}
        /\ session'.applied = session.applied \cup {n}
        /\ DOMAIN session' = {"open", "applied", "pushed", "tagged"}
        /\ session' = [open |-> session'.open, applied |-> session'.applied,
                       pushed |-> session'.pushed, tagged |-> session'.tagged]
    BY <1>1, <2>1
  <2>6. /\ session'.open \in BOOLEAN /\ session'.applied \subseteq DOMAIN channels
        /\ session'.pushed \subseteq Name \X Hash /\ session'.tagged \subseteq Name \X SUBSET Hash
    BY <1>1, <2>1, <2>5
  <2>7. session' \in [open : BOOLEAN, applied : SUBSET DOMAIN channels,
                         pushed : SUBSET (Name \X Hash), tagged : SUBSET (Name \X SUBSET Hash)]
    BY <2>5, <2>6
  <2>8. SessionOK'
    BY <1>1, <2>1, <2>3, <2>7, <2>5 DEF SessionOK
  <2>9. \A r \in session'.pushed :
          /\ r[1] \in session'.applied
          /\ r[2] \in DOMAIN internal' /\ internal'[r[2]] \in DOMAIN channels'[r[1]].changes
    <3> SUFFICES ASSUME NEW r \in session'.pushed
                 PROVE  /\ r[1] \in session'.applied
                        /\ r[2] \in DOMAIN internal'
                        /\ internal'[r[2]] \in DOMAIN channels'[r[1]].changes
      OBVIOUS
    <3>1. CASE r = <<n, h>>
      BY <2>3, <2>5, <3>1
    <3>2. CASE r \in session.pushed
      BY <1>1, <2>3, <2>5, <3>2 DEF PushedOn
    <3> QED BY <2>5, <3>1, <3>2
  <2>10. PushedOn'
    BY <2>9 DEF PushedOn, OnChannel
  <2> QED BY <1>2, <2>4, <2>8, <2>10 DEF SInv
<1>14. ASSUME NEW n \in Name, NEW h \in Hash, apply_refused(n, h) PROVE SInv'
  BY <1>1, <1>6, <1>14 DEF apply_refused, Fail
<1>15. ASSUME NEW n \in Name, NEW m \in SUBSET Hash, tagup(n, m) PROVE SInv'
  <2>1. /\ TagCommand(n) /\ store' = store /\ session.open
        /\ session' = [session EXCEPT !.tagged = @ \cup {<<n, m>>}]
    BY <1>15 DEF tagup, Open, Taggable, TagCommand
  <2>2. /\ AllStored' /\ UNCHANGED <<internal, external, saved>>
        /\ DOMAIN channels' = DOMAIN channels
        /\ \A k \in DOMAIN channels : channels'[k].changes = channels[k].changes
    BY <1>1, <2>1, TagStored
  <2>3. /\ session'.open = session.open /\ session'.pushed = session.pushed
        /\ session'.applied = session.applied
        /\ session'.tagged = session.tagged \cup {<<n, m>>}
        /\ DOMAIN session' = {"open", "applied", "pushed", "tagged"}
        /\ session' = [open |-> session'.open, applied |-> session'.applied,
                       pushed |-> session'.pushed, tagged |-> session'.tagged]
    BY <1>1, <2>1
  <2>4. /\ session'.open \in BOOLEAN /\ session'.applied \subseteq DOMAIN channels
        /\ session'.pushed \subseteq Name \X Hash /\ session'.tagged \subseteq Name \X SUBSET Hash
    BY <1>1, <2>1, <2>3
  <2>5. session' \in [open : BOOLEAN, applied : SUBSET DOMAIN channels,
                         pushed : SUBSET (Name \X Hash), tagged : SUBSET (Name \X SUBSET Hash)]
    BY <2>3, <2>4
  <2>6. SessionOK'
    BY <1>1, <2>1, <2>2, <2>5, <2>3 DEF SessionOK
  <2>7. PushedOn'
    BY <1>1, <2>2, <2>3 DEF PushedOn, OnChannel
  <2> QED BY <1>2, <2>2, <2>6, <2>7 DEF SInv
<1>16. ASSUME NEW n \in Name, NEW m \in SUBSET Hash, tagup_refused(n, m) PROVE SInv'
  BY <1>1, <1>6, <1>16 DEF tagup_refused, Fail
<1>17. ASSUME NEW n \in Name, NEW m \in SUBSET Hash, archive(n, m) PROVE SInv'
  <2>1. CASE Fail /\ store' = store
    BY <1>1, <1>6, <2>1 DEF Fail
  <2>2. CASE UNCHANGED <<tables, rec, files, saved, session>> /\ store' = store
    <3>1. UNCHANGED servervars
      BY <2>2 DEF servervars, tagvars, vars, tables
    <3> QED BY <1>8, <3>1
  <2> QED BY <1>17, <2>1, <2>2 DEF archive
<1> QED BY <1>8, <1>9, <1>10, <1>11, <1>12, <1>13, <1>14, <1>15, <1>16, <1>17 DEF NextServer

-----------------------------------------------------------------------------
(* Theorems *)

LEMMA ServerInit == InitServer => SInv
<1> SUFFICES ASSUME InitServer PROVE SInv
  OBVIOUS
<1>1. TInv /\ DOMAIN channels = {} /\ DOMAIN files = {} /\ saved.channels = channels
  BY TagsInit DEF InitServer, InitTags, Init, EmptyDb, Saved
<1>2. AllStored
  BY <1>1 DEF AllStored
<1>3. SessionOK /\ PushedOn
  BY DEF InitServer, SessionOK, PushedOn, NoSession
<1> QED BY <1>1, <1>2, <1>3 DEF SInv

(* Along sessions, commands of the owner, errors and crashes, the tables,  *)
(* what was committed, the files of tags and the store of changes stay     *)
(* consistent with one another.                                            *)
THEOREM ServerInductive == SpecServer => []SInv
BY ServerInit, ServerStepKeeps, PTL DEF SpecServer

(* The server's state has its type, and a session that is not open leaves  *)
(* nothing behind in the process.                                          *)
THEOREM ServerTypeCorrect == SpecServer => []ServerTypeOK
<1>1. SInv => ServerTypeOK
  BY TagsTypes DEF SInv, SessionOK, ServerTypeOK
<1> QED BY <1>1, ServerInductive, PTL

(* Every change on a committed channel has its file: it is written before  *)
(* the change is applied and nothing removes it, and a tag only brings     *)
(* back changes that had theirs (protocol.rs, apply; tag checkout).        *)
THEOREM CommittedKeepFiles == SpecServer => []CommittedHaveFiles
<1>1. SInv => CommittedHaveFiles
  BY DEF SInv, AllStored, Stored, CommittedHaveFiles
<1> QED BY <1>1, ServerInductive, PTL

(* The loop of changelist, which moves past a tag only when it meets it in *)
(* the log, misses none, because no tag is without a change in the log.    *)
THEOREM ChangelistShowsAllTags == SpecServer => []ChangelistShowsTags
<1>1. SInv => ChangelistShowsTags
  <2> SUFFICES ASSUME SInv, NEW n \in DOMAIN channels, NEW from \in 0 .. channels[n].apply_counter
               PROVE  changelist_tags(channels[n], from) = {t \in DOMAIN channels[n].tags : from =< t}
    BY DEF ChangelistShowsTags
  <2>1. DOMAIN channels[n].tags \subseteq DOMAIN channels[n].revchanges
    BY DEF SInv, TInv, TagsReplayedIs, TagsOK
  <2> QED BY <2>1 DEF changelist_tags
<1> QED BY <1>1, ServerInductive, PTL

(* A session that ends well has committed every change it was sent, on the *)
(* channel it was sent to: what was pushed stays applied until the end,    *)
(* and then there was something to commit (protocol.rs, protocol).         *)
THEOREM PushStaysKept == SpecServer => PushKept
<1>1. SInv /\ [NextServer]_servervars =>
        [End => \A r \in session.pushed :
           /\ r[1] \in DOMAIN saved'.channels
           /\ r[2] \in DOMAIN saved'.internal
           /\ saved'.internal[r[2]] \in DOMAIN saved'.channels[r[1]].changes]_servervars
  <2> SUFFICES ASSUME SInv, End, NEW r \in session.pushed
               PROVE  /\ r[1] \in DOMAIN saved'.channels
                      /\ r[2] \in DOMAIN saved'.internal
                      /\ saved'.internal[r[2]] \in DOMAIN saved'.channels[r[1]].changes
    OBVIOUS
  <2>1. /\ r[1] \in session.applied /\ r[1] \in DOMAIN channels
        /\ r[2] \in DOMAIN internal /\ internal[r[2]] \in DOMAIN channels[r[1]].changes
    BY DEF SInv, SessionOK, PushedOn, OnChannel
  <2>2. CommitTables
    BY <2>1 DEF End
  <2>3. saved'.channels = channels /\ saved'.internal = internal
    BY <2>2 DEF CommitTables, commit, registry, Saved
  <2> QED BY <2>1, <2>3
<1> QED BY <1>1, ServerInductive, PTL DEF SpecServer, PushKept

(* Sessions and commands of the owner keep every committed channel closed  *)
(* under dependency: a client can apply the log in its order.              *)
LEMMA ServerClosed == SpecServer => []CInv
<1>1. CInv /\ [NextServer]_servervars => CInv'
  <2>1. UNCHANGED servervars => UNCHANGED tagvars
    BY DEF servervars
  <2> QED BY <2>1, ServerSteps, ClosureStep
<1>2. InitServer => CInv
  BY ClosureInit DEF InitServer
<1> QED BY <1>1, <1>2, PTL DEF SpecServer

THEOREM ServerKeepsClosed == SpecServer => []CommittedClosed
BY ServerClosed, ClosureKept, PTL

(* No unrecord of the owner runs into an assertion, whatever the sessions  *)
(* applied and the checkouts brought back.                                 *)
THEOREM ServerUnrecordSafe == SpecServer => []UnrecordNeverPanics
<1>1. CInv => UnrecordNeverPanics
  BY InvIs, ForgetsSafely
<1> QED BY <1>1, ServerClosed, PTL
=============================================================================
