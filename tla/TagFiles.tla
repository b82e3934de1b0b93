------------------------------ MODULE TagFiles ------------------------------
(***************************************************************************)
(* Tags on disk, and the transactions they live beside.  A tag file holds  *)
(* the tables of a channel and the ids of all changes as they were when    *)
(* the tag was made; it is written outside of any transaction, and read    *)
(* back into a repository whose registry has moved on.                     *)
(*                                                                         *)
(* The variables of Pristine are the tables as the transaction under way   *)
(* sees them; saved holds them as of the last commit.  A transaction is    *)
(* one call here, and ends by a commit or without one: an error or a crash *)
(* after the call.                                                         *)
(***************************************************************************)
EXTENDS Pristine

VARIABLES
  files,   \* changes/<state>.tag: state -> what the file holds
  saved    \* the tables as of the last commit

tables == <<internal, external, dep, revdep, channels, persisted>>
tagvars == <<vars, files, saved>>

Saved == [internal |-> internal, external |-> external, dep |-> dep,
          revdep |-> revdep, channels |-> channels]

(* No call was made since the last commit: the bound on transactions.      *)
Fresh == saved = Saved

(* The file holds the ids of the whole registry; those of other changes    *)
(* than the ones on the channel are never read.                            *)
from_channel(n) ==
  [external |-> [p \in DOMAIN channels[n].changes |-> external[p]],
   channel |-> channels[n]]

LastPosition(ch) == LastOf(DOMAIN ch.revchanges)

(* pijul tag create: the file gets its name, then the tag its entry.       *)
create_tag(n) ==
  LET ch == channels[n]
      m == current_state(ch)
  IN  /\ Idle
      /\ Cardinality(DOMAIN ch.tags) < MaxTags
      /\ DOMAIN ch.revchanges # {}
      /\ LastPosition(ch) \notin DOMAIN ch.tags
      /\ files' = Put(files, m, from_channel(n))
      /\ channels' = [channels EXCEPT ![n].tags = put_tags(@, LastPosition(ch), m)]
      /\ UNCHANGED <<registry, persisted, rec, saved>>

(* Mutant: ids are taken as they are in the file. *)
SameIds_unchecked(file) == TRUE

(* Every change gets the id it would be given now, and the code asserts    *)
(* that this is the id it has in the file.                                 *)
SameIds(file) ==
  \A p \in DOMAIN file.channel.changes : make_changeid(file.external[p]) = p

(* pijul tag checkout: the channel of the file under a new name.  Nothing  *)
(* is registered.                                                          *)
restore_channel(m, n) ==
  /\ Idle
  /\ n \notin DOMAIN channels
  /\ m \in DOMAIN files
  /\ SameIds(files[m])
  /\ channels' = Put(channels, n, files[m].channel)
  /\ UNCHANGED <<registry, persisted, rec, files, saved>>

(* Mutant: the file goes with the tag. *)
delete_tag_and_file(n, m) == DelTag(n, m) /\ files' = Del(files, m) /\ UNCHANGED saved

(* pijul tag delete.  The file stays. *)
delete_tag(n, m) == DelTag(n, m) /\ UNCHANGED <<files, saved>>

(* The end of a transaction. *)
CommitTables == commit /\ saved' = Saved' /\ UNCHANGED files

Rollback ==
  /\ internal' = saved.internal /\ external' = saved.external
  /\ dep' = saved.dep /\ revdep' = saved.revdep
  /\ channels' = saved.channels /\ persisted' = DOMAIN saved.channels
  /\ rec' = NoRec
  /\ UNCHANGED <<files, saved>>

-----------------------------------------------------------------------------
InitTags == Init /\ files = EmptyDb /\ saved = Saved

(* The calls of Pristine this module is run with. *)
Call(n) ==
  /\ UNCHANGED <<files, saved>>
  /\ \/ open_or_create_channel(n)
     \/ n \in DOMAIN channels /\ \E h \in Hash : apply_change(n, h) \/ unrecord(n, h)

(* Tags whose changes are all known: what a repository that never          *)
(* unrecorded the last copy of a tagged change can check out.              *)
KnownTags == {m \in DOMAIN files : m \subseteq DOMAIN internal}

(* A tag that comes from another repository with its file may be for an    *)
(* older state.                                                            *)
pull_tag(n, m) == PutTag(n, m) /\ UNCHANGED <<files, saved>>

TagCommand(n) ==
  \/ n \in DOMAIN channels /\ create_tag(n)
  \/ n \in DOMAIN channels /\ \E m \in DOMAIN files : pull_tag(n, m) \/ delete_tag(n, m)

NextTags ==
  \/ ~ Fresh /\ (CommitTables \/ Rollback)
  \/ /\ Fresh
     /\ \E n \in Name :
          Call(n) \/ TagCommand(n) \/ \E m \in KnownTags : restore_channel(m, n)

SpecTags == InitTags /\ [][NextTags]_tagvars

-----------------------------------------------------------------------------
(* Properties *)

TagsTypeOK ==
  /\ TypeOK
  /\ DOMAIN files \subseteq SUBSET Hash
  /\ \A m \in DOMAIN files : Channel(files[m].channel)
  /\ DOMAIN saved.channels \subseteq Name

(* The state a file is named after is the state of the channel in it, and  *)
(* its log is consistent under the ids in it: a file is complete by        *)
(* itself, whatever was unrecorded, or rolled back, since.                 *)
FilesComplete ==
  \A m \in DOMAIN files :
    /\ current_state(files[m].channel) = m
    /\ LogAgrees(files[m].channel, files[m].external)

(* A tag committed in some channel has its file, whenever the process      *)
(* stopped between writing the one and committing the other.               *)
CommittedTagsHaveFiles ==
  \A n \in DOMAIN saved.channels : \A t \in DOMAIN saved.channels[n].tags :
    saved.channels[n].tags[t].a \in DOMAIN files

(* Every change on a committed channel has its dependencies there, before  *)
(* it in the log, and the committed registry resolves them: whoever reads  *)
(* the log can apply it in order.                                          *)
Closed(ch, ext) ==
  \A p \in DOMAIN ch.changes : \A d \in Deps(ext[p]) :
    \E q \in DOMAIN ch.changes : ext[q] = d /\ ch.changes[q] < ch.changes[p]
CommittedClosed ==
  \A n \in DOMAIN saved.channels :
    /\ DOMAIN saved.channels[n].changes \subseteq DOMAIN saved.external
    /\ Closed(saved.channels[n], saved.external)

(* A channel restored from a tag is in the state tagged, as the registry   *)
(* of today reads its ids, although ids may have changed hands since.      *)
RestoredIsTagged ==
  [][\A m \in DOMAIN files, n \in Name : restore_channel(m, n) =>
       /\ DOMAIN channels'[n].changes \subseteq DOMAIN external
       /\ LogAgrees(channels'[n], external)
       /\ current_state(channels'[n]) = m]_tagvars
=============================================================================
