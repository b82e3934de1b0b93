------------------------------- MODULE Server -------------------------------
(***************************************************************************)
(* pijul protocol: the process a client runs on the server over ssh.  One  *)
(* session is one mutable transaction and a loop over requests; the end of *)
(* the input, whether the client closed it or was lost between two         *)
(* requests, commits what was applied.  The first request that fails ends  *)
(* the process, without a commit and without an answer.  The writer lock   *)
(* of sanakirja lets one session, or command of the owner, run at a time.  *)
(*                                                                         *)
(* The answers that only read the tables are operators, not steps.         *)
(***************************************************************************)
EXTENDS TagFiles

VARIABLES
  store,    \* changes/<hash>.change: the changes that have a file
  session   \* the local variables of the process, and what it was sent

servervars == <<tagvars, store, session>>

(* pushed and tagged are history: the requests carried out in the session. *)
NoSession == [open |-> FALSE, applied |-> {}, pushed |-> {}, tagged |-> {}]

Open == session.open /\ Idle

Begin ==
  /\ ~ session.open /\ Fresh
  /\ session' = [NoSession EXCEPT !.open = TRUE]
  /\ UNCHANGED <<tagvars, store>>

(* An error: the process ends and its transaction is dropped. *)
Fail == Rollback /\ session' = NoSession

-----------------------------------------------------------------------------
(* Mutant: a change the server knew already does not count as applied. *)
apply_unmarked(n, h) ==
  /\ Open
  /\ n \in DOMAIN channels /\ apply_change(n, h)
  /\ store' = store \cup {h}
  /\ session' = [session EXCEPT !.pushed = @ \cup {<<n, h>>},
                   !.applied = IF h \in DOMAIN internal THEN @ ELSE @ \cup {n}]
  /\ UNCHANGED <<files, saved>>

(* apply <channel> <hash> <length>, and the change: its file is written    *)
(* first.                                                                  *)
apply(n, h) ==
  /\ Open
  /\ n \in DOMAIN channels /\ apply_change(n, h)
  /\ store' = store \cup {h}
  /\ session' = [session EXCEPT !.pushed = @ \cup {<<n, h>>}, !.applied = @ \cup {n}]
  /\ UNCHANGED <<files, saved>>

(* Mutant: the file of a change that is refused is removed. *)
apply_refused_clean(n, h) ==
  /\ Open
  /\ n \in DOMAIN channels
       => ~ HasDependencies(channels[n], h) \/ OnChannel(channels[n], h)
  /\ store' = store \ {h}
  /\ Fail

(* The file stays if there is no such channel, or it cannot take the       *)
(* change.                                                                 *)
apply_refused(n, h) ==
  /\ Open
  /\ n \in DOMAIN channels
       => ~ HasDependencies(channels[n], h) \/ OnChannel(channels[n], h)
  /\ store' = store \cup {h}
  /\ Fail

(* tagup <state> <channel> <length>, and the header of the tag: the server *)
(* makes the tag file from its own channel, if in that state.              *)
Taggable(n, m) ==
  /\ n \in DOMAIN channels
  /\ m = current_state(channels[n])
  /\ m \notin DOMAIN files
  /\ DOMAIN channels[n].revchanges # {}
  /\ LastPosition(channels[n]) \notin DOMAIN channels[n].tags

tagup(n, m) ==
  /\ Open /\ Taggable(n, m)
  /\ create_tag(n)
  /\ session' = [session EXCEPT !.tagged = @ \cup {<<n, m>>}]
  /\ UNCHANGED store

tagup_refused(n, m) == Open /\ ~ Taggable(n, m) /\ Fail /\ UNCHANGED store

(* An older state is archived from a fork, dropped at the end while the    *)
(* variable "fork" refers to it, which drop_channel refuses.               *)
ForkIsHeld == TRUE

(* archive <channel> <state> *)
archive(n, m) ==
  /\ Open
  /\ IF /\ n \in DOMAIN channels
        /\ \/ m = current_state(channels[n])
           \/ m \in DOMAIN channels[n].states /\ ~ ForkIsHeld
     THEN UNCHANGED <<tables, rec, files, saved, session>>
     ELSE Fail
  /\ UNCHANGED store

(* The end of the input. *)
End ==
  /\ Open
  /\ IF session.applied # {} THEN CommitTables ELSE Rollback
  /\ session' = NoSession
  /\ UNCHANGED store

(* Killed, or an error while the working copies are written at the end. *)
Crash == Open /\ Fail /\ UNCHANGED store

(* Commands of the owner, between sessions: one call, then its commit or   *)
(* what stops it.                                                          *)
Owner(n) ==
  /\ ~ session.open /\ Fresh
  /\ \/ /\ \/ open_or_create_channel(n)
           \/ n \in DOMAIN channels /\ \E h \in Hash : unrecord(n, h)
        /\ UNCHANGED <<files, saved>>
     \/ TagCommand(n)
     \/ \E m \in KnownTags : restore_channel(m, n)
  /\ UNCHANGED <<store, session>>
OwnerStops == ~ session.open /\ ~ Fresh /\ Rollback /\ UNCHANGED <<store, session>>
OwnerCommits == ~ session.open /\ ~ Fresh /\ CommitTables /\ UNCHANGED <<store, session>>

-----------------------------------------------------------------------------
(* Answers *)

(* Mutant: tags are read from the first one on. *)
changelist_tags_from_start(ch, from) ==
  LET log == {t \in DOMAIN ch.revchanges : from =< t}
  IN  {t \in log \cap DOMAIN ch.tags : \A u \in DOMAIN ch.tags : u < t => u \in log}

(* changelist <channel> <from>: the positions sent with the mark of a tag. *)
(* One index runs over the tags from there on, and only moves past a tag   *)
(* it met in the log.                                                      *)
changelist_tags(ch, from) ==
  LET log == {t \in DOMAIN ch.revchanges : from =< t}
      tags == {t \in DOMAIN ch.tags : from =< t}
  IN  {t \in log \cap tags : \A u \in tags : u < t => u \in log}

-----------------------------------------------------------------------------
InitServer == InitTags /\ store = {} /\ session = NoSession

NextServer ==
  \/ Begin \/ End \/ Crash \/ OwnerCommits \/ OwnerStops
  \/ \E n \in Name :
       \/ Owner(n)
       \/ \E h \in Hash : apply(n, h) \/ apply_refused(n, h)
       \/ \E m \in SUBSET Hash : tagup(n, m) \/ tagup_refused(n, m) \/ archive(n, m)

SpecServer == InitServer /\ [][NextServer]_servervars

-----------------------------------------------------------------------------
(* Properties *)

ServerTypeOK ==
  /\ TagsTypeOK
  /\ store \subseteq Hash
  /\ session.open \in BOOLEAN
  /\ session.applied \subseteq DOMAIN channels
  /\ session.pushed \subseteq Name \X Hash
  /\ session.tagged \subseteq Name \X SUBSET Hash
  /\ ~ session.open => session = NoSession

(* When the process ends well, which is what the client takes for success, *)
(* all the changes it was sent are committed on the channels they were     *)
(* sent to.                                                                *)
PushKept ==
  [][End => \A r \in session.pushed :
       /\ r[1] \in DOMAIN saved'.channels
       /\ r[2] \in DOMAIN saved'.internal
       /\ saved'.internal[r[2]] \in DOMAIN saved'.channels[r[1]].changes]_servervars

(* A change on a committed channel has its file, which the server needs to *)
(* send it and to unrecord it.                                             *)
CommittedHaveFiles ==
  \A n \in DOMAIN saved.channels : \A p \in DOMAIN saved.channels[n].changes :
    saved.external[p] \in store

(* A client that reads the log of a channel from any position is told      *)
(* about exactly the tags from there on.                                   *)
ChangelistShowsTags ==
  \A n \in DOMAIN channels : \A from \in 0 .. channels[n].apply_counter :
    changelist_tags(channels[n], from) = {t \in DOMAIN channels[n].tags : from =< t}
=============================================================================
