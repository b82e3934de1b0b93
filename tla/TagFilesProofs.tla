--------------------------- MODULE TagFilesProofs ---------------------------
(* Theorems about tags on disk: files of tags outlive the transactions     *)
(* they were written in, and are read back under a registry that moved on. *)
EXTENDS TagFiles, DependencyProofs

-----------------------------------------------------------------------------
(* The inductive invariant *)

(* The registry, as the transaction or the last commit has it. *)
RegistryIs(int, ext, d, r) ==
  /\ DOMAIN int \subseteq Hash /\ int \in [DOMAIN int -> Id]
  /\ DOMAIN ext \subseteq Id /\ ext \in [DOMAIN ext -> Hash]
  /\ d \subseteq Id \X Id /\ r \subseteq Id \X Id
  /\ \A h \in DOMAIN int : int[h] \in DOMAIN ext /\ ext[int[h]] = h
  /\ \A p \in DOMAIN ext : ext[p] \in DOMAIN int /\ int[ext[p]] = p

(* What was committed is as consistent as what the transaction sees. *)
SavedOK ==
  /\ RegistryIs(saved.internal, saved.external, saved.dep, saved.revdep)
  /\ DOMAIN saved.channels \subseteq Name
  /\ \A n \in DOMAIN saved.channels :
       ChannelOK(saved.channels[n], saved.external) /\ TagsOK(saved.channels[n])

(* A file is consistent by itself, and named after the state in it. *)
FilesOK ==
  \A m \in DOMAIN files :
    /\ m \subseteq Hash
    /\ ChannelOK(files[m].channel, files[m].external) /\ TagsOK(files[m].channel)
    /\ current_state(files[m].channel) = m

(* Every tag has its file: those of the transaction, those committed, and  *)
(* those in the channel of a file, which a restored channel gets.          *)
HaveFiles(tags) == \A t \in DOMAIN tags : tags[t].a \in DOMAIN files
TaggedHaveFiles ==
  /\ \A n \in DOMAIN channels : HaveFiles(channels[n].tags)
  /\ \A n \in DOMAIN saved.channels : HaveFiles(saved.channels[n].tags)
  /\ \A m \in DOMAIN files : HaveFiles(files[m].channel.tags)

TInv ==
  /\ IInv /\ Idle /\ TagsReplayedIs
  /\ SavedOK /\ FilesOK /\ TaggedHaveFiles

-----------------------------------------------------------------------------
(* Channels and files *)

LEMMA RegistryIsOK == RegistryOK <=> RegistryIs(internal, external, dep, revdep)
BY DEF RegistryOK, RegistryIs, IdsAgree

(* The state of a channel is that of all its changes, and stands at its    *)
(* last position.                                                          *)
LEMMA CurrentIs ==
  ASSUME NEW ch, NEW ext, ChannelOK(ch, ext)
  PROVE  /\ current_state(ch) = {ext[p] : p \in DOMAIN ch.changes}
         /\ DOMAIN ch.revchanges # {} =>
              /\ LastPosition(ch) \in DOMAIN ch.revchanges
              /\ current_state(ch) \in DOMAIN ch.states
              /\ ch.states[current_state(ch)] = LastPosition(ch)
<1> DEFINE D == DOMAIN ch.revchanges
           l == LastOf(D)
<1>1. /\ D \subseteq 0 .. ch.apply_counter /\ ch.apply_counter \in Nat
      /\ LogAgrees(ch, ext)
  BY PositionsBounded DEF ChannelOK
<1>2. {ext[ch.revchanges[u].a] : u \in D} = {ext[p] : p \in DOMAIN ch.changes}
  <2>1. \A u \in D : ch.revchanges[u].a \in DOMAIN ch.changes
    BY <1>1 DEF LogAgrees
  <2>2. \A p \in DOMAIN ch.changes : ch.changes[p] \in D /\ ch.revchanges[ch.changes[p]].a = p
    BY <1>1 DEF LogAgrees
  <2> QED BY <2>1, <2>2
<1>3. CASE D = {}
  BY <1>2, <1>3 DEF current_state, StateAt
<1>4. CASE D # {}
  <2>1. l \in D /\ \A u \in D : u =< l
    BY <1>1, <1>4, LastOfSet
  <2>2. current_state(ch) = ch.revchanges[l].b
    BY <1>4 DEF current_state, StateAt
  <2>3. UpTo(ch.revchanges, l) = D
    BY <2>1 DEF UpTo
  <2>4. ch.revchanges[l].b = {ext[ch.revchanges[u].a] : u \in D}
    BY <1>1, <2>1, <2>3 DEF LogAgrees, HashesUpTo
  <2>5. ch.revchanges[l].b \in DOMAIN ch.states /\ ch.states[ch.revchanges[l].b] = l
    BY <1>1, <2>1 DEF LogAgrees
  <2> QED BY <1>2, <2>1, <2>2, <2>4, <2>5 DEF LastPosition
<1> QED BY <1>3, <1>4

(* pijul tag create tags the last state of the log. *)
LEMMA CreateIsPut ==
  ASSUME IInv, NEW n \in DOMAIN channels, create_tag(n)
  PROVE  PutTag(n, current_state(channels[n]))
<1>1. ChannelOK(channels[n], external)
  BY DEF IInv, ChannelsOK
<1>2. /\ current_state(channels[n]) \in DOMAIN channels[n].states
      /\ channels[n].states[current_state(channels[n])] = LastPosition(channels[n])
  BY <1>1, CurrentIs DEF create_tag
<1> QED BY <1>2 DEF create_tag, PutTag

(* The file of a channel, when it is written. *)
LEMMA FileWritten ==
  ASSUME IInv, TagsReplayedIs, NEW n \in DOMAIN channels
  PROVE  LET f == from_channel(n) IN
         /\ current_state(channels[n]) \subseteq Hash
         /\ f.channel = channels[n]
         /\ ChannelOK(f.channel, f.external) /\ TagsOK(f.channel)
         /\ current_state(f.channel) = current_state(channels[n])
<1> DEFINE f == from_channel(n)
<1>1. /\ f.channel = channels[n]
      /\ DOMAIN f.external = DOMAIN channels[n].changes
      /\ \A p \in DOMAIN channels[n].changes : f.external[p] = external[p]
  BY DEF from_channel
<1>2. ChannelOK(channels[n], external) /\ TagsOK(channels[n])
  BY DEF IInv, ChannelsOK, TagsReplayedIs
<1> HIDE DEF f
<1>3. ChannelOK(f.channel, f.external)
  BY <1>1, <1>2, ChannelFrame
<1>4. current_state(channels[n]) \subseteq Hash
  <2>1. \A p \in DOMAIN channels[n].changes : external[p] \in Hash
    BY <1>2 DEF ChannelOK, IInv, RegistryOK
  <2> QED BY <1>2, <2>1, CurrentIs
<1> QED BY <1>1, <1>2, <1>3, <1>4 DEF f

(* A channel restored from a file with changes that are all known: the ids *)
(* in the file are those of today.                                         *)
LEMMA FileRead ==
  ASSUME IInv, FilesOK, NEW m \in KnownTags, SameIds(files[m])
  PROVE  /\ \A p \in DOMAIN files[m].channel.changes :
              p \in DOMAIN external /\ external[p] = files[m].external[p]
         /\ ChannelOK(files[m].channel, external)
<1> DEFINE f == files[m]
<1>1. /\ m \in DOMAIN files /\ m \subseteq DOMAIN internal
      /\ ChannelOK(f.channel, f.external) /\ current_state(f.channel) = m
  BY DEF KnownTags, FilesOK
<1>2. m = {f.external[p] : p \in DOMAIN f.channel.changes}
  BY <1>1, CurrentIs
<1>3. ASSUME NEW p \in DOMAIN f.channel.changes
      PROVE  p \in DOMAIN external /\ external[p] = f.external[p]
  <2>1. f.external[p] \in DOMAIN internal
    BY <1>1, <1>2
  <2>2. make_changeid(f.external[p]) = p
    BY DEF SameIds
  <2>3. internal[f.external[p]] = p
    BY <2>1, <2>2 DEF make_changeid
  <2> QED BY <2>1, <2>3 DEF IInv, RegistryOK, IdsAgree
<1> HIDE DEF f
<1>4. ChannelOK(f.channel, external)
  BY <1>1, <1>3, ChannelFrame
<1> QED BY <1>3, <1>4 DEF f

-----------------------------------------------------------------------------
(* Steps *)

(* The steps of this module, wherever transactions begin and end. *)
AnyTagStep ==
  \/ CommitTables \/ Rollback
  \/ \E n \in Name :
       Call(n) \/ TagCommand(n) \/ \E m \in KnownTags : restore_channel(m, n)

(* Tags of the tables have their files after every call. *)
LEMMA CallsKeepFiles ==
  ASSUME IInv, TagsReplayedIs, \A k \in DOMAIN channels : HaveFiles(channels[k].tags),
         DOMAIN files \subseteq DOMAIN files', NEW n \in Name,
         \/ open_or_create_channel(n)
         \/ n \in DOMAIN channels /\ \E h \in Hash : apply_change(n, h) \/ unrecord(n, h)
         \/ /\ n \in DOMAIN channels
            /\ \E m \in DOMAIN files' : PutTag(n, m) \/ DelTag(n, m)
  PROVE  \A k \in DOMAIN channels' : HaveFiles(channels[k].tags)'
<1> DEFINE Kept(tags) == \A t \in DOMAIN tags : tags[t].a \in DOMAIN files'
<1>1. \A k \in DOMAIN channels : /\ ChannelOK(channels[k], external) /\ TagsOK(channels[k])
                                 /\ Kept(channels[k].tags)
  BY DEF IInv, ChannelsOK, TagsReplayedIs, HaveFiles
<1>2. SUFFICES \A k \in DOMAIN channels' : Kept(channels'[k].tags)
  BY DEF HaveFiles
<1>3. ASSUME n \in DOMAIN channels, NEW new, Kept(new.tags), channels' = [channels EXCEPT ![n] = new]
      PROVE  \A k \in DOMAIN channels' : Kept(channels'[k].tags)
  <2>1. \A k \in DOMAIN channels : channels'[k] = IF k = n THEN new ELSE channels[k]
    BY <1>3
  <2>2. DOMAIN channels' = DOMAIN channels
    BY <1>3
  <2> HIDE DEF Kept
  <2> QED BY <1>1, <1>3, <2>1, <2>2
<1>4. CASE open_or_create_channel(n)
  <2>1. EmptyChannel.tags = EmptyDb
    BY DEF EmptyChannel
  <2>2. Kept(EmptyChannel.tags)
    BY <2>1 DEF EmptyDb
  <2> HIDE DEF Kept
  <2> QED BY <1>1, <1>4, <2>2 DEF open_or_create_channel, Put
<1>5. ASSUME NEW h \in Hash, n \in DOMAIN channels, apply_change(n, h)
      PROVE  \A k \in DOMAIN channels' : Kept(channels'[k].tags)
  <2> DEFINE new == put_changes(channels[n], make_changeid(h), h)
  <2>1. channels' = [channels EXCEPT ![n] = new]
    BY <1>5 DEF apply_change, ApplyToChannel
  <2>2. new.tags = channels[n].tags
    BY <1>1, <1>5, TagsPut
  <2>3. Kept(new.tags)
    BY <1>1, <1>5, <2>2
  <2> HIDE DEF Kept, new
  <2> QED BY <1>3, <1>5, <2>1, <2>3
<1>6. ASSUME NEW h \in Hash, n \in DOMAIN channels, unrecord(n, h)
      PROVE  \A k \in DOMAIN channels' : Kept(channels'[k].tags)
  <2> DEFINE new == del_channel_changes(channels[n], external, internal[h])
  <2>1. /\ channels' = [channels EXCEPT ![n] = new]
        /\ internal[h] \in DOMAIN channels[n].changes
    BY <1>6 DEF unrecord, OnChannel
  <2>2. /\ DOMAIN new.tags \subseteq DOMAIN channels[n].tags
        /\ \A u \in DOMAIN new.tags : new.tags[u].a = channels[n].tags[u].a
    BY <1>1, <1>6, <2>1, TagsDel
  <2> HIDE DEF new
  <2>3. Kept(new.tags)
    BY <1>1, <1>6, <2>2
  <2> HIDE DEF Kept
  <2> QED BY <1>3, <1>6, <2>1, <2>3
<1>7. ASSUME NEW m \in DOMAIN files', n \in DOMAIN channels, PutTag(n, m) \/ DelTag(n, m)
      PROVE  \A k \in DOMAIN channels' : Kept(channels'[k].tags)
  <2> DEFINE t == channels[n].states[m]
  <2>1. t \in DOMAIN channels[n].revchanges
    BY <1>1, <1>7 DEF PutTag, DelTag, ChannelOK, LogAgrees
  <2>2. PICK tags : /\ tags = put_tags(channels[n].tags, t, m) \/ tags = del_tags(channels[n].tags, t)
                    /\ channels' = [channels EXCEPT ![n] = [@ EXCEPT !.tags = tags]]
    BY <1>7 DEF PutTag, DelTag
  <2> HIDE DEF t
  <2> DEFINE new == [channels[n] EXCEPT !.tags = tags]
  <2>3. \A u \in DOMAIN tags : tags[u].a \in {channels[n].tags[v].a : v \in DOMAIN channels[n].tags} \cup {m}
    <3>1. ChannelOK(channels[n], external) /\ TagsOK(channels[n])
      BY <1>1, <1>7
    <3>2. tags = put_tags(channels[n].tags, t, m) \/ tags = del_tags(channels[n].tags, t)
      BY <2>2
    <3> HIDE DEF Kept, new
    <3>3. /\ TagsOK([channels[n] EXCEPT !.tags = tags])
          /\ TagsMoved(channels[n].tags, tags, m)
      BY <2>1, <3>1, <3>2, TagsSet
    <3> QED BY <3>3 DEF TagsMoved
  <2>4. new.tags = tags
    BY <1>1, <1>7 DEF ChannelOK, Channel
  <2>5. channels' = [channels EXCEPT ![n] = new]
    BY <2>2
  <2> HIDE DEF new
  <2>6. Kept(new.tags)
    BY <1>1, <1>7, <2>3, <2>4
  <2> HIDE DEF Kept
  <2> QED BY <1>3, <1>7, <2>5, <2>6
<1> HIDE DEF Kept
<1> QED BY <1>4, <1>5, <1>6, <1>7

(* The calls, as steps of Pristine. *)
LEMMA CallsAreSteps ==
  ASSUME TInv, NEW n \in Name, Call(n) \/ TagCommand(n)
  PROVE  /\ [Next]_vars /\ saved' = saved /\ Idle' /\ DOMAIN files \subseteq DOMAIN files'
         /\ \/ open_or_create_channel(n)
            \/ n \in DOMAIN channels /\ \E h \in Hash : apply_change(n, h) \/ unrecord(n, h)
            \/ /\ n \in DOMAIN channels
               /\ \E m \in DOMAIN files' : PutTag(n, m) \/ DelTag(n, m)
         /\ \/ files' = files
            \/ /\ n \in DOMAIN channels
               /\ files' = Put(files, current_state(channels[n]), from_channel(n))
<1>1. DOMAIN files \subseteq SUBSET Hash /\ IInv /\ TagsReplayedIs
  BY DEF TInv, FilesOK
<1>2. CASE Call(n)
  <2>1. [Next]_vars
    BY <1>2 DEF Call, Next, Keep
  <2>2. saved' = saved /\ files' = files
    BY <1>2 DEF Call
  <2>3. Idle'
    BY <1>2 DEF Call, open_or_create_channel, apply_change, unrecord, Idle, NoRec
  <2> QED BY <1>2, <2>1, <2>2, <2>3 DEF Call
<1>3. ASSUME n \in DOMAIN channels, create_tag(n) PROVE
         /\ [Next]_vars /\ saved' = saved /\ Idle' /\ DOMAIN files \subseteq DOMAIN files'
         /\ \E m \in DOMAIN files' : PutTag(n, m)
         /\ files' = Put(files, current_state(channels[n]), from_channel(n))
  <2> DEFINE m == current_state(channels[n])
  <2>1. PutTag(n, m) /\ m \subseteq Hash
    BY <1>1, <1>3, CreateIsPut, FileWritten
  <2>2. saved' = saved /\ files' = Put(files, m, from_channel(n))
    BY <1>3 DEF create_tag
  <2> HIDE DEF m
  <2>3. [Next]_vars
    BY <1>3, <2>1 DEF Next, Keep
  <2>4. Idle'
    BY <1>3 DEF create_tag, Idle, NoRec
  <2>5. m \in DOMAIN files' /\ DOMAIN files \subseteq DOMAIN files'
    BY <2>2 DEF Put
  <2> QED BY <2>1, <2>2, <2>3, <2>4, <2>5 DEF m
<1>4. ASSUME n \in DOMAIN channels, NEW m \in DOMAIN files, pull_tag(n, m) \/ delete_tag(n, m)
      PROVE  /\ [Next]_vars /\ saved' = saved /\ Idle' /\ files' = files
             /\ PutTag(n, m) \/ DelTag(n, m)
  <2>1. /\ saved' = saved /\ files' = files /\ (PutTag(n, m) \/ DelTag(n, m))
    BY <1>4 DEF pull_tag, delete_tag
  <2>2. Idle'
    BY <2>1 DEF PutTag, DelTag, Idle, NoRec
  <2>3. [Next]_vars
    BY <1>1, <1>4, <2>1 DEF Next, Keep
  <2> QED BY <2>1, <2>2, <2>3
<1> QED BY <1>2, <1>3, <1>4 DEF TagCommand

(* Tables alone decide whether the invariant of the tables holds. *)
LEMMA SavedIsOK ==
  ASSUME SavedOK,
         internal' = saved.internal, external' = saved.external,
         dep' = saved.dep, revdep' = saved.revdep,
         channels' = saved.channels, persisted' = DOMAIN saved.channels, rec' = NoRec
  PROVE  IInv' /\ Idle' /\ TagsReplayedIs'
<1>1. RegistryIs(internal', external', dep', revdep')
  BY DEF SavedOK
<1>2. RegistryOK'
  BY <1>1 DEF RegistryIs, RegistryOK, IdsAgree
<1>3. ChannelsOK' /\ NamesOK' /\ TagsReplayedIs'
  BY DEF SavedOK, ChannelsOK, NamesOK, TagsReplayedIs
<1>4. RecOK' /\ Idle'
  BY DEF RecOK, NoRec, Idle
<1> QED BY <1>2, <1>3, <1>4 DEF IInv

LEMMA TagStepKeeps == TInv /\ (AnyTagStep \/ UNCHANGED tagvars) => TInv'
<1> SUFFICES ASSUME TInv, AnyTagStep \/ UNCHANGED tagvars PROVE TInv'
  OBVIOUS
<1>1. IInv /\ Idle /\ TagsReplayedIs /\ SavedOK /\ FilesOK /\ TaggedHaveFiles
  BY DEF TInv
<1>2. ASSUME IInv', TagsReplayedIs', Idle', saved' = saved,
             DOMAIN files \subseteq DOMAIN files', FilesOK',
             \A k \in DOMAIN channels' : HaveFiles(channels[k].tags)',
             \A m \in DOMAIN files' : HaveFiles(files[m].channel.tags)'
      PROVE  TInv'
  <2>1. SavedOK'
    BY <1>1, <1>2 DEF SavedOK
  <2>2. \A n \in DOMAIN saved'.channels : HaveFiles(saved.channels[n].tags)'
    BY <1>1, <1>2 DEF TaggedHaveFiles, HaveFiles
  <2> QED BY <1>2, <2>1, <2>2 DEF TInv, TaggedHaveFiles
<1>3. ASSUME files' = files
      PROVE  /\ FilesOK' /\ DOMAIN files \subseteq DOMAIN files'
             /\ \A m \in DOMAIN files' : HaveFiles(files[m].channel.tags)'
  BY <1>1, <1>3 DEF FilesOK, TaggedHaveFiles, HaveFiles
<1>4. ASSUME NEW n \in Name, Call(n) \/ TagCommand(n) PROVE TInv'
  <2>1. /\ [Next]_vars /\ saved' = saved /\ Idle' /\ DOMAIN files \subseteq DOMAIN files'
        /\ \/ open_or_create_channel(n)
           \/ n \in DOMAIN channels /\ \E h \in Hash : apply_change(n, h) \/ unrecord(n, h)
           \/ /\ n \in DOMAIN channels
              /\ \E m \in DOMAIN files' : PutTag(n, m) \/ DelTag(n, m)
        /\ \/ files' = files
           \/ /\ n \in DOMAIN channels
              /\ files' = Put(files, current_state(channels[n]), from_channel(n))
    BY <1>4, CallsAreSteps
  <2>2. IInv' /\ TagsReplayedIs'
    BY <1>1, <2>1, NextStep, TagsStay
  <2>3. \A k \in DOMAIN channels' : HaveFiles(channels[k].tags)'
    <3>1. \A k \in DOMAIN channels : HaveFiles(channels[k].tags)
      BY <1>1 DEF TaggedHaveFiles
    <3> QED BY <1>1, <2>1, <3>1, CallsKeepFiles
  <2>4. FilesOK' /\ \A m \in DOMAIN files' : HaveFiles(files[m].channel.tags)'
    <3>1. CASE files' = files
      BY <1>3, <3>1
    <3>2. CASE /\ n \in DOMAIN channels
               /\ files' = Put(files, current_state(channels[n]), from_channel(n))
      <4> DEFINE m0 == current_state(channels[n])
                 f == from_channel(n)
      <4>1. /\ m0 \subseteq Hash /\ f.channel = channels[n]
            /\ ChannelOK(f.channel, f.external) /\ TagsOK(f.channel)
            /\ current_state(f.channel) = m0
        BY <1>1, <3>2, FileWritten
      <4>2. HaveFiles(f.channel.tags)
        BY <1>1, <3>2, <4>1 DEF TaggedHaveFiles
      <4>3. files' = Put(files, m0, f)
        BY <3>2
      <4> HIDE DEF m0, f
      <4>4. /\ DOMAIN files' = DOMAIN files \cup {m0}
            /\ \A m \in DOMAIN files' : files'[m] = IF m = m0 THEN f ELSE files[m]
        BY <4>3 DEF Put
      <4>5. \A m \in DOMAIN files' :
              /\ m \subseteq Hash
              /\ ChannelOK(files'[m].channel, files'[m].external) /\ TagsOK(files'[m].channel)
              /\ current_state(files'[m].channel) = m
              /\ HaveFiles(files'[m].channel.tags)
        BY <1>1, <4>1, <4>2, <4>4 DEF FilesOK, TaggedHaveFiles
      <4>6. FilesOK'
        BY <4>5 DEF FilesOK
      <4>7. \A m \in DOMAIN files' : HaveFiles(files[m].channel.tags)'
        BY <4>4, <4>5 DEF HaveFiles
      <4> QED BY <4>6, <4>7
    <3> QED BY <2>1, <3>1, <3>2
  <2> QED BY <1>2, <2>1, <2>2, <2>3, <2>4
<1>5. ASSUME NEW n \in Name, NEW m \in KnownTags, restore_channel(m, n) PROVE TInv'
  <2>1. /\ UNCHANGED registry /\ persisted' = persisted /\ rec' = rec
        /\ files' = files /\ saved' = saved
        /\ n \notin DOMAIN channels /\ SameIds(files[m])
        /\ channels' = Put(channels, n, files[m].channel)
    BY <1>5 DEF restore_channel
  <2>2. m \in DOMAIN files /\ ChannelOK(files[m].channel, external)
    BY <1>1, <2>1, FileRead DEF KnownTags
  <2>3. TagsOK(files[m].channel) /\ HaveFiles(files[m].channel.tags)
    BY <1>1, <2>2 DEF FilesOK, TaggedHaveFiles
  <2>4. RegistryOK' /\ external' = external
    BY <1>1, <2>1, SameRegistry DEF IInv
  <2>5. /\ DOMAIN channels' = DOMAIN channels \cup {n}
        /\ \A k \in DOMAIN channels' : channels'[k] = IF k = n THEN files[m].channel ELSE channels[k]
    BY <2>1 DEF Put
  <2>6. \A k \in DOMAIN channels' :
          /\ ChannelOK(channels'[k], external) /\ TagsOK(channels'[k])
          /\ HaveFiles(channels'[k].tags)
    BY <1>1, <2>2, <2>3, <2>5 DEF IInv, ChannelsOK, TagsReplayedIs, TaggedHaveFiles
  <2>7. ChannelsOK' /\ TagsReplayedIs'
    BY <2>4, <2>6 DEF ChannelsOK, TagsReplayedIs
  <2>8. NamesOK'
    BY <1>1, <2>1, <2>5 DEF IInv, NamesOK
  <2>9. RecOK' /\ Idle'
    BY <1>1, <2>1, IdleOK DEF Idle, NoRec
  <2>10. \A k \in DOMAIN channels' : HaveFiles(channels[k].tags)'
    BY <2>1, <2>6 DEF HaveFiles
  <2> QED BY <1>2, <1>3, <2>1, <2>4, <2>7, <2>8, <2>9, <2>10 DEF IInv
<1>6. CASE CommitTables
  <2>1. commit /\ saved' = Saved' /\ files' = files
    BY <1>6 DEF CommitTables
  <2>2. [Next]_vars
    BY <2>1 DEF Next
  <2>3. IInv' /\ TagsReplayedIs'
    BY <1>1, <2>2, NextStep, TagsStay
  <2>4. Idle' /\ channels' = channels
    BY <2>1 DEF commit, Idle, NoRec
  <2>5. /\ saved'.internal = internal' /\ saved'.external = external'
        /\ saved'.dep = dep' /\ saved'.revdep = revdep' /\ saved'.channels = channels'
    BY <2>1 DEF Saved
  <2>6. SavedOK'
    <3>1. RegistryIs(internal, external, dep, revdep)'
      <4>1. RegistryOK'
        BY <2>3 DEF IInv
      <4> QED BY <4>1 DEF RegistryOK, IdsAgree, RegistryIs
    <3> QED BY <2>3, <2>5, <3>1 DEF SavedOK, IInv, ChannelsOK, NamesOK, TagsReplayedIs, RegistryIs
  <2>7. TaggedHaveFiles'
    BY <1>1, <2>1, <2>4, <2>5 DEF TaggedHaveFiles, HaveFiles
  <2> QED BY <1>3, <2>1, <2>3, <2>4, <2>6, <2>7 DEF TInv
<1>7. CASE Rollback
  <2>1. IInv' /\ Idle' /\ TagsReplayedIs'
    BY <1>1, <1>7, SavedIsOK DEF Rollback
  <2>2. files' = files /\ saved' = saved /\ channels' = saved.channels
    BY <1>7 DEF Rollback
  <2>3. \A k \in DOMAIN channels' : HaveFiles(channels[k].tags)'
    BY <1>1, <2>2 DEF TaggedHaveFiles, HaveFiles
  <2> QED BY <1>2, <1>3, <2>1, <2>2, <2>3
<1>8. CASE UNCHANGED tagvars
  <2>1. UNCHANGED vars /\ files' = files /\ saved' = saved /\ channels' = channels /\ rec' = rec
    BY <1>8 DEF tagvars, vars
  <2>2. IInv' /\ TagsReplayedIs'
    BY <1>1, <2>1, NextStep, TagsStay
  <2>3. Idle'
    BY <1>1, <2>1 DEF Idle, NoRec
  <2>4. \A k \in DOMAIN channels' : HaveFiles(channels[k].tags)'
    BY <1>1, <2>1 DEF TaggedHaveFiles, HaveFiles
  <2> QED BY <1>2, <1>3, <2>1, <2>2, <2>3, <2>4
<1> QED BY <1>4, <1>5, <1>6, <1>7, <1>8 DEF AnyTagStep

(* A step that puts the channel of a file under a new name is the checkout *)
(* of that file, and all its changes are known.                            *)
LEMMA RestoresKnown ==
  ASSUME TInv, AnyTagStep, NEW m \in DOMAIN files, NEW n \in Name, restore_channel(m, n)
  PROVE  m \in KnownTags
<1>1. /\ n \notin DOMAIN channels /\ persisted' = persisted /\ saved' = saved
      /\ channels' = Put(channels, n, files[m].channel)
  BY DEF restore_channel
<1>2. DOMAIN channels' = DOMAIN channels \cup {n} /\ channels'[n] = files[m].channel
  BY <1>1 DEF Put
<1>3. persisted \subseteq DOMAIN channels
  BY DEF TInv, IInv, NamesOK
<1>4. ~ CommitTables
  BY <1>1, <1>2 DEF CommitTables, commit
<1>5. ~ Rollback
  BY <1>1, <1>2, <1>3 DEF Rollback
<1>6. ASSUME NEW k \in Name, Call(k) \/ TagCommand(k) PROVE FALSE
  <2>1. \/ open_or_create_channel(k)
        \/ k \in DOMAIN channels /\ \E h \in Hash : apply_change(k, h) \/ unrecord(k, h)
        \/ k \in DOMAIN channels /\ \E l \in DOMAIN files' : PutTag(k, l) \/ DelTag(k, l)
    BY <1>6, CallsAreSteps
  <2>2. CASE open_or_create_channel(k)
    BY <1>1, <1>2, <1>3, <2>2 DEF open_or_create_channel, Put
  <2>3. CASE \E h \in Hash : apply_change(k, h) \/ unrecord(k, h)
    BY <1>1, <1>2, <2>3 DEF apply_change, ApplyToChannel, unrecord
  <2>4. CASE \E l \in DOMAIN files' : PutTag(k, l) \/ DelTag(k, l)
    BY <1>1, <1>2, <2>4 DEF PutTag, DelTag
  <2> QED BY <2>1, <2>2, <2>3, <2>4
<1>7. PICK k \in Name, l \in KnownTags : restore_channel(l, k)
  BY <1>4, <1>5, <1>6 DEF AnyTagStep
<1>8. k \notin DOMAIN channels /\ channels' = Put(channels, k, files[l].channel)
  BY <1>7 DEF restore_channel
<1>9. DOMAIN channels' = DOMAIN channels \cup {k} /\ channels'[k] = files[l].channel
  BY <1>8 DEF Put
<1>10. k = n /\ files[l].channel = files[m].channel
  BY <1>1, <1>2, <1>8, <1>9
<1>11. current_state(files[l].channel) = l /\ current_state(files[m].channel) = m
  BY <1>7 DEF TInv, FilesOK, KnownTags
<1> QED BY <1>7, <1>10, <1>11

LEMMA RestoresRight ==
  ASSUME TInv, AnyTagStep, NEW m \in DOMAIN files, NEW n \in Name, restore_channel(m, n)
  PROVE  /\ DOMAIN channels'[n].changes \subseteq DOMAIN external
         /\ LogAgrees(channels'[n], external)
         /\ current_state(channels'[n]) = m
<1>1. m \in KnownTags
  BY RestoresKnown
<1>2. SameIds(files[m]) /\ channels'[n] = files[m].channel
  BY DEF restore_channel, Put
<1>3. /\ \A p \in DOMAIN files[m].channel.changes : p \in DOMAIN external
      /\ ChannelOK(files[m].channel, external)
  BY <1>1, <1>2, FileRead DEF TInv
<1>4. current_state(files[m].channel) = m
  BY DEF TInv, FilesOK
<1> QED BY <1>2, <1>3, <1>4 DEF ChannelOK

-----------------------------------------------------------------------------
(* Theorems *)

LEMMA TagsInit == InitTags => TInv
<1> SUFFICES ASSUME InitTags PROVE TInv
  OBVIOUS
<1>1. IInv /\ Idle
  BY InitOK DEF InitTags, Init, Idle
<1>2. TagsReplayedIs
  BY DEF InitTags, Init, EmptyDb, TagsReplayedIs
<1>3. /\ saved.internal = internal /\ saved.external = external
      /\ saved.dep = dep /\ saved.revdep = revdep /\ saved.channels = channels
  BY DEF InitTags, Saved
<1>4. SavedOK
  <2>1. RegistryIs(internal, external, dep, revdep)
    BY <1>1, RegistryIsOK DEF IInv
  <2>2. DOMAIN channels = {}
    BY DEF InitTags, Init, EmptyDb
  <2> QED BY <1>3, <2>1, <2>2 DEF SavedOK
<1>5. FilesOK /\ TaggedHaveFiles
  BY <1>3 DEF InitTags, Init, EmptyDb, FilesOK, TaggedHaveFiles
<1> QED BY <1>1, <1>2, <1>4, <1>5 DEF TInv

LEMMA TagsNext == NextTags => AnyTagStep
BY DEF NextTags, AnyTagStep

(* The invariant that makes the four properties of TagFiles hold together: *)
(* what the transaction sees, what was committed and what the files hold   *)
(* are each consistent, and tags of all three have their files.            *)
THEOREM TagsInductive == SpecTags => []TInv
<1>1. TInv /\ [NextTags]_tagvars => TInv'
  BY TagsNext, TagStepKeeps
<1> QED BY <1>1, TagsInit, PTL DEF SpecTags

LEMMA TagsTypes == TInv => TagsTypeOK
BY IInvIs DEF TInv, TagsTypeOK, FilesOK, SavedOK, ChannelOK

(* The tables and the files have their types, in any transaction and after *)
(* any rollback.                                                           *)
THEOREM TagsTypeCorrect == SpecTags => []TagsTypeOK
BY TagsInductive, TagsTypes, PTL

(* A file is named after the state of the channel in it, and complete by   *)
(* itself, whatever became of the transaction it was written in            *)
(* (from_channel in tag/mod.rs, pijul tag create).                         *)
THEOREM FilesStayComplete == SpecTags => []FilesComplete
<1>1. TInv => FilesComplete
  BY DEF TInv, FilesOK, FilesComplete, ChannelOK
<1> QED BY <1>1, TagsInductive, PTL

(* The bags of tags stay right across checkouts, commits and rollbacks.    *)
THEOREM TagsStayReplayedOnDisk == SpecTags => []TagsReplayed
<1>1. TInv => TagsReplayed
  BY SameProperty DEF TInv
<1> QED BY <1>1, TagsInductive, PTL

(* A committed tag has its file, wherever the process stopped: the file is *)
(* written before the entry, and nothing removes it.                       *)
THEOREM CommittedTagsKeepFiles == SpecTags => []CommittedTagsHaveFiles
<1>1. TInv => CommittedTagsHaveFiles
  BY DEF TInv, TaggedHaveFiles, HaveFiles, CommittedTagsHaveFiles
<1> QED BY <1>1, TagsInductive, PTL

(* A checkout of a tag whose changes are all known gives a channel in the  *)
(* state tagged, as the registry of today reads its ids: the check of      *)
(* restore_channel on each id suffices, although ids change hands.         *)
THEOREM RestoredStaysTagged == SpecTags => RestoredIsTagged
<1>1. TInv /\ [NextTags]_tagvars =>
        [\A m \in DOMAIN files, n \in Name : restore_channel(m, n) =>
           /\ DOMAIN channels'[n].changes \subseteq DOMAIN external
           /\ LogAgrees(channels'[n], external)
           /\ current_state(channels'[n]) = m]_tagvars
  BY TagsNext, RestoresRight
<1> QED BY <1>1, TagsInductive, PTL DEF SpecTags, RestoredIsTagged

-----------------------------------------------------------------------------
(* What is committed in the presence of tags: channels stay closed under   *)
(* dependency, and unrecord safe, although a checkout brings a whole       *)
(* channel back and registers nothing.                                     *)

(* Tables, as the transaction or the last commit has them. *)
TablesAre(int, ext, d, r, chs) ==
  /\ r = {<<e[2], e[1]>> : e \in d}
  /\ \A e \in d : /\ e[1] \in DOMAIN ext /\ e[2] \in DOMAIN ext
                  /\ ext[e[2]] \in Deps(ext[e[1]])
  /\ \A p \in DOMAIN ext : \A g \in Deps(ext[p]) : g \in DOMAIN int /\ <<p, int[g]>> \in d
  /\ \A p \in DOMAIN ext : \E n \in DOMAIN chs : p \in DOMAIN chs[n].changes
  /\ \A n \in DOMAIN chs : \A p \in DOMAIN chs[n].changes : \A g \in Deps(ext[p]) :
       /\ g \in DOMAIN int /\ int[g] \in DOMAIN chs[n].changes
       /\ chs[n].changes[int[g]] < chs[n].changes[p]

SavedTables ==
  TablesAre(saved.internal, saved.external, saved.dep, saved.revdep, saved.channels)

(* The channel of a file is closed as well, under the ids in the file. *)
FilesClosed == \A m \in DOMAIN files : Closed(files[m].channel, files[m].external)

CInv == TInv /\ Tables /\ SavedTables /\ FilesClosed

-----------------------------------------------------------------------------
LEMMA TablesAreTables == Tables <=> TablesAre(internal, external, dep, revdep, channels)
BY DEF Tables, TablesAre, DepsMirrored, DepsComplete, KnownAreUsed, DependenciesBefore, OnChannel

(* A closed channel, read by hashes or by ids. *)
LEMMA ClosedIs ==
  ASSUME NEW int, NEW ext, NEW d, NEW r, RegistryIs(int, ext, d, r),
         NEW ch, DOMAIN ch.changes \subseteq DOMAIN ext
  PROVE  Closed(ch, ext) <=>
           \A p \in DOMAIN ch.changes : \A g \in Deps(ext[p]) :
             /\ g \in DOMAIN int /\ int[g] \in DOMAIN ch.changes
             /\ ch.changes[int[g]] < ch.changes[p]
<1>1. \A q \in DOMAIN ext : ext[q] \in DOMAIN int /\ int[ext[q]] = q
  BY DEF RegistryIs
<1>2. \A g \in DOMAIN int : int[g] \in DOMAIN ext /\ ext[int[g]] = g
  BY DEF RegistryIs
<1> QED BY <1>1, <1>2 DEF Closed

LEMMA InvIs == CInv => DInv
BY WalkOver DEF CInv, TInv, DInv, Tables

-----------------------------------------------------------------------------
(* Steps *)

(* The file of a channel, when it is written, is closed. *)
LEMMA FileClosed ==
  ASSUME CInv, NEW n \in DOMAIN channels
  PROVE  Closed(from_channel(n).channel, from_channel(n).external)
<1>1. /\ RegistryIs(internal, external, dep, revdep)
      /\ DOMAIN channels[n].changes \subseteq DOMAIN external
  BY RegistryIsOK DEF CInv, TInv, IInv, ChannelsOK, ChannelOK
<1>2. \A p \in DOMAIN channels[n].changes : \A g \in Deps(external[p]) :
        /\ g \in DOMAIN internal /\ internal[g] \in DOMAIN channels[n].changes
        /\ channels[n].changes[internal[g]] < channels[n].changes[p]
  BY DEF CInv, Tables, DependenciesBefore, OnChannel
<1>3. Closed(channels[n], external)
  BY <1>1, <1>2, ClosedIs
<1>4. /\ from_channel(n).channel = channels[n]
      /\ \A p \in DOMAIN channels[n].changes : from_channel(n).external[p] = external[p]
  BY DEF from_channel
<1> HIDE DEF from_channel
<1> QED BY <1>3, <1>4 DEF Closed

(* A checkout finds the dependencies of what it brings back in the tables: *)
(* its changes are known, and known changes have theirs registered.        *)
LEMMA RestoreClosed ==
  ASSUME CInv, NEW n \in Name, NEW m \in KnownTags, restore_channel(m, n)
  PROVE  Tables'
<1>1. /\ UNCHANGED registry /\ SameIds(files[m]) /\ n \notin DOMAIN channels
      /\ channels' = Put(channels, n, files[m].channel)
  BY DEF restore_channel
<1>2. /\ internal' = internal /\ external' = external /\ dep' = dep /\ revdep' = revdep
  BY <1>1 DEF registry
<1>3. /\ DOMAIN channels' = DOMAIN channels \cup {n}
      /\ channels'[n] = files[m].channel
      /\ \A k \in DOMAIN channels : channels'[k] = channels[k]
  BY <1>1 DEF Put
<1> DEFINE ch == files[m].channel
<1>4. \A p \in DOMAIN ch.changes : p \in DOMAIN external /\ external[p] = files[m].external[p]
  BY <1>1, FileRead DEF CInv, TInv
<1>5. Closed(ch, external)
  BY <1>4 DEF CInv, FilesClosed, KnownTags, Closed
<1>6. RegistryIs(internal, external, dep, revdep)
  BY RegistryIsOK DEF CInv, TInv, IInv
<1> HIDE DEF ch
<1>7. \A p \in DOMAIN ch.changes : \A g \in Deps(external[p]) :
        /\ g \in DOMAIN internal /\ internal[g] \in DOMAIN ch.changes
        /\ ch.changes[internal[g]] < ch.changes[p]
  BY <1>4, <1>5, <1>6, ClosedIs
<1>8. TablesAre(internal, external, dep, revdep, channels)
  BY TablesAreTables DEF CInv
<1>9. TablesAre(internal', external', dep', revdep', channels')
  BY <1>2, <1>3, <1>7, <1>8 DEF TablesAre, ch
<1>10. (Tables <=> TablesAre(internal, external, dep, revdep, channels))'
  BY TablesAreTables, PTL
<1> QED BY <1>9, <1>10

LEMMA ClosureStep == CInv /\ (AnyTagStep \/ UNCHANGED tagvars) => CInv'
<1> SUFFICES ASSUME CInv, AnyTagStep \/ UNCHANGED tagvars PROVE CInv'
  OBVIOUS
<1>1. TInv /\ Tables /\ SavedTables /\ FilesClosed /\ DInv
  BY InvIs DEF CInv
<1>2. TInv'
  BY <1>1, TagStepKeeps
<1>3. (Tables <=> TablesAre(internal, external, dep, revdep, channels))'
  BY TablesAreTables, PTL
<1>4. saved' = saved => SavedTables'
  BY <1>1 DEF SavedTables
<1>5. files' = files => FilesClosed'
  BY <1>1 DEF FilesClosed
<1>6. ASSUME NEW n \in Name, Call(n) \/ TagCommand(n) PROVE CInv'
  <2>1. /\ saved' = saved
        /\ \/ open_or_create_channel(n)
           \/ n \in DOMAIN channels /\ \E h \in Hash : apply_change(n, h) \/ unrecord(n, h)
           \/ /\ n \in DOMAIN channels
              /\ \E m \in DOMAIN files' : PutTag(n, m) \/ DelTag(n, m)
        /\ \/ files' = files
           \/ /\ n \in DOMAIN channels
              /\ files' = Put(files, current_state(channels[n]), from_channel(n))
    BY <1>1, <1>6, CallsAreSteps
  <2>2. DOMAIN files' \subseteq SUBSET Hash
    BY <1>2 DEF TInv, FilesOK
  <2>3. Keep(n)
    BY <2>1, <2>2 DEF Keep
  <2>4. [NextCopies]_vars
    BY <2>3 DEF NextCopies
  <2>5. Tables'
    <3>1. DInv'
      BY <1>1, <2>4, CopiesStep
    <3> QED BY <3>1 DEF DInv, Tables
  <2>6. CASE files' = files
    BY <1>2, <1>4, <1>5, <2>1, <2>5, <2>6 DEF CInv
  <2>7. CASE /\ n \in DOMAIN channels
             /\ files' = Put(files, current_state(channels[n]), from_channel(n))
    <3>1. Closed(from_channel(n).channel, from_channel(n).external)
      BY <2>7, FileClosed
    <3>2. \A m \in DOMAIN files' :
            files'[m] = from_channel(n) \/ (m \in DOMAIN files /\ files'[m] = files[m])
      BY <2>7 DEF Put
    <3>3. FilesClosed'
      BY <1>1, <3>1, <3>2 DEF FilesClosed
    <3> QED BY <1>2, <1>4, <2>1, <2>5, <3>3 DEF CInv
  <2> QED BY <2>1, <2>6, <2>7
<1>7. ASSUME NEW n \in Name, NEW m \in KnownTags, restore_channel(m, n) PROVE CInv'
  <2>1. saved' = saved /\ files' = files
    BY <1>7 DEF restore_channel
  <2> QED BY <1>2, <1>4, <1>5, <1>7, <2>1, RestoreClosed DEF CInv
<1>8. CASE CommitTables
  <2>1. commit /\ saved' = Saved' /\ files' = files
    BY <1>8 DEF CommitTables
  <2>2. Tables'
    BY <1>1, <2>1, TablesSame DEF commit
  <2>3. /\ saved'.internal = internal' /\ saved'.external = external'
        /\ saved'.dep = dep' /\ saved'.revdep = revdep' /\ saved'.channels = channels'
    BY <2>1 DEF Saved
  <2>4. SavedTables'
    BY <1>3, <2>2, <2>3 DEF SavedTables
  <2> QED BY <1>2, <1>5, <2>1, <2>2, <2>4 DEF CInv
<1>9. CASE Rollback
  <2>1. /\ internal' = saved.internal /\ external' = saved.external
        /\ dep' = saved.dep /\ revdep' = saved.revdep /\ channels' = saved.channels
        /\ saved' = saved /\ files' = files
    BY <1>9 DEF Rollback
  <2>2. TablesAre(internal', external', dep', revdep', channels')
    BY <1>1, <2>1 DEF SavedTables
  <2> QED BY <1>2, <1>3, <1>4, <1>5, <2>1, <2>2 DEF CInv
<1>10. CASE UNCHANGED tagvars
  <2>1. UNCHANGED registry /\ channels' = channels /\ saved' = saved /\ files' = files
    BY <1>10 DEF tagvars, vars, registry
  <2> QED BY <1>1, <1>2, <1>4, <1>5, <2>1, TablesSame DEF CInv
<1> QED BY <1>6, <1>7, <1>8, <1>9, <1>10 DEF AnyTagStep

-----------------------------------------------------------------------------
(* Theorems *)

LEMMA ClosureInit == InitTags => CInv
<1> SUFFICES ASSUME InitTags PROVE CInv
  OBVIOUS
<1>1. TInv /\ Tables
  BY TagsInit, CopiesInit DEF InitTags, DInv, Tables
<1>2. /\ saved.internal = internal /\ saved.external = external
      /\ saved.dep = dep /\ saved.revdep = revdep /\ saved.channels = channels
  BY DEF InitTags, Saved
<1>3. SavedTables
  BY <1>1, <1>2, TablesAreTables DEF SavedTables
<1>4. FilesClosed
  BY DEF InitTags, EmptyDb, FilesClosed
<1> QED BY <1>1, <1>3, <1>4 DEF CInv

LEMMA ClosureKept == CInv => CommittedClosed
<1> SUFFICES ASSUME CInv, NEW n \in DOMAIN saved.channels
             PROVE  /\ DOMAIN saved.channels[n].changes \subseteq DOMAIN saved.external
                    /\ Closed(saved.channels[n], saved.external)
  BY DEF CommittedClosed
<1>1. DOMAIN saved.channels[n].changes \subseteq DOMAIN saved.external
  BY DEF CInv, TInv, SavedOK, ChannelOK
<1>2. RegistryIs(saved.internal, saved.external, saved.dep, saved.revdep)
  BY DEF CInv, TInv, SavedOK
<1>3. \A p \in DOMAIN saved.channels[n].changes : \A g \in Deps(saved.external[p]) :
        /\ g \in DOMAIN saved.internal /\ saved.internal[g] \in DOMAIN saved.channels[n].changes
        /\ saved.channels[n].changes[saved.internal[g]] < saved.channels[n].changes[p]
  BY DEF CInv, SavedTables, TablesAre
<1> QED BY <1>1, <1>2, <1>3, ClosedIs

(* What the transaction sees, what was committed and what the files of     *)
(* tags hold stay closed under dependency together.                        *)
THEOREM ClosureInductive == SpecTags => []CInv
<1>1. CInv /\ [NextTags]_tagvars => CInv'
  BY TagsNext, ClosureStep
<1> QED BY <1>1, ClosureInit, PTL DEF SpecTags

(* No commit, rollback or checkout leaves a committed channel with a       *)
(* change that lacks a dependency.                                         *)
THEOREM TagsKeepClosed == SpecTags => []CommittedClosed
BY ClosureInductive, ClosureKept, PTL

(* A checkout registers nothing, and unrecord on what it brought back runs *)
(* into no assertion all the same (restore_channel, unrecord).             *)
THEOREM TagsKeepUnrecordSafe == SpecTags => []UnrecordNeverPanics
<1>1. CInv => UnrecordNeverPanics
  BY InvIs, ForgetsSafely
<1> QED BY <1>1, ClosureInductive, PTL
=============================================================================
