------------------------------ MODULE Remotes ------------------------------
(***************************************************************************)
(* A repository and one of its remotes: pull, push and clone, while other  *)
(* people record and unrecord on both sides.  A command is one transaction *)
(* of the repository, which holds its lock: what it writes to the tables   *)
(* (local, cache) is kept if it ends well and dropped otherwise, what it   *)
(* downloads (files) stays.                                                *)
(***************************************************************************)
EXTENDS Download

CONSTANTS
  Changes,
  Kinds,     \* the kinds of remotes: subset of {"path", "ssh", "nest", "channel"}
  MaxNext,   \* bound: positions of the remote
  Taggable   \* bound: the states that may be tagged

ASSUME ChangesFinite == IsFiniteSet(Changes)
ASSUME DependenciesAreChanges == \A h \in Changes : Dependencies[h] \in Seq(Changes)
ASSUME KindsKnown == Kinds \subseteq {"path", "ssh", "nest", "channel"}

VARIABLES
  kind,      \* what the remote is: never changes
  remote,    \* the channel of the remote
  local,     \* the channel of the repository, its positions renumbered
  cache,     \* what the repository knows of the remote
  files,     \* the requests that have a file in .pijul/changes
  session,   \* the command that runs
  task       \* its downloads

vars == <<kind, remote, local, cache, files, session, task>>

HasId == kind \in {"path", "ssh"}
NoSession == [phase |-> "idle"]
NoTask == [downloader |-> "none"]
Idle == session.phase = "idle"

Init ==
  /\ kind \in Kinds
  /\ remote = NoLog /\ local = NoLog /\ cache = NoCache
  /\ files = {} /\ session = NoSession /\ task = NoTask

-----------------------------------------------------------------------------
(* Changes on a channel.                                                   *)
DependsOn(h) == Range(Dependencies[h])

(* A change and all it depends on: the least set that is closed.           *)
Closed(S) == \A x \in S : DependsOn(x) \subseteq S
Closure(h) ==
  {x \in Changes : \A S \in SUBSET Changes : h \in S /\ Closed(S) => x \in S}

(* The channel with some changes after those it has.                       *)
Extended(ch, hs) ==
  [ch EXCEPT !.log  = [n \in DOMAIN ch.log \cup ch.next .. ch.next + Len(hs) - 1 |->
                         IF n \in DOMAIN ch.log THEN ch.log[n] ELSE hs[n - ch.next + 1]],
             !.next = @ + Len(hs)]

put_change(ch, h) == Extended(ch, <<h>>)
MayApply(ch, h) == h \notin On(ch) /\ DependsOn(h) \subseteq On(ch)

MayUnrecord(ch, h) == h \in On(ch) /\ \A x \in On(ch) : h \notin DependsOn(x)
PositionOf(ch, h) == CHOOSE n \in DOMAIN ch.log : ch.log[n] = h
unrecord(ch, h) ==
  [ch EXCEPT !.log = Del(@, PositionOf(ch, h)), !.tags = Del(@, PositionOf(ch, h))]

MayTag(ch) ==
  /\ DOMAIN ch.log # {} /\ On(ch) \in Taggable
  /\ LastOf(DOMAIN ch.log) \notin DOMAIN ch.tags
put_tag_here(ch, n) == [ch EXCEPT !.tags = Put(@, n, StateAt(ch, n))]

(* Only the order of the positions of the repository's channel matters.    *)
Renumbered(ch) ==
  LET ks == Ascending(DOMAIN ch.log)
  IN  [log  |-> [i \in 0 .. Len(ks) - 1 |-> ch.log[ks[i + 1]]],
       tags |-> [i \in {j \in 0 .. Len(ks) - 1 : ks[j + 1] \in DOMAIN ch.tags} |-> ch.tags[ks[i + 1]]],
       next |-> Len(ks)]

-----------------------------------------------------------------------------
(* Other people, and the user between two commands.  A session over ssh is *)
(* a transaction of the server; another channel is under the same lock; a  *)
(* pull reads the log of the remote in its first step only.                *)
RemoteMayChange == Idle \/ (kind = "path" /\ session.phase = "push")

RemoteChanges ==
  /\ RemoteMayChange
  /\ \/ \E h \in Changes :
          /\ MayApply(remote, h) /\ remote.next < MaxNext
          /\ remote' = put_change(remote, h)
          /\ files' = IF kind = "channel" THEN files \cup Requests({h}) ELSE files
     \/ \E h \in Changes :
          /\ MayUnrecord(remote, h)
          /\ remote' = unrecord(remote, h) /\ UNCHANGED files
     \/ /\ kind # "channel" /\ MayTag(remote)
        /\ remote' = put_tag_here(remote, LastOf(DOMAIN remote.log)) /\ UNCHANGED files
  /\ UNCHANGED <<kind, local, cache, session, task>>

LocalChanges ==
  /\ Idle
  /\ \/ \E h \in Changes :
          /\ MayApply(local, h)
          /\ local' = put_change(local, h) /\ files' = files \cup Requests({h})
     \/ \E h \in Changes :
          /\ MayUnrecord(local, h)
          /\ local' = Renumbered(unrecord(local, h)) /\ UNCHANGED files
     \/ /\ kind # "channel" /\ MayTag(local)
        /\ local' = put_tag_here(local, LastOf(DOMAIN local.log))
        /\ UNCHANGED files
  /\ UNCHANGED <<kind, remote, cache, session, task>>

-----------------------------------------------------------------------------
(* The comparison and the list of changes: one step.                       *)
Answers ==
  IF kind = "ssh" THEN AnswersOfServer(remote, DOMAIN cache.remote)
  ELSE AnswersOfPath(remote, DOMAIN cache.remote)

(* The server says nothing at all of a position past the end of its log.   *)
NeverAnswered ==
  /\ kind = "ssh" /\ DOMAIN cache.remote # {}
  /\ From(remote.log, LastOf(DOMAIN cache.remote)) = {}

Compared(force) == Delta(cache, local, Answers, remote, force)

ask_for_state ==
  /\ Idle /\ NeverAnswered
  /\ session' = [phase |-> "asking", op |-> "pull"]
  /\ UNCHANGED <<kind, remote, local, cache, files, task>>

(* want is what the channel should have after the command; exact, that it  *)
(* should have nothing more.                                               *)
Downloading(op, c, list, named, want, exact) ==
  /\ session' = [phase |-> "download", op |-> op, cache |-> c, list |-> list, named |-> named,
                 want |-> want, exact |-> exact, ch |-> local]
  /\ task' = Asking(list)
  /\ UNCHANGED <<kind, remote, local, cache, files>>

update_changelist_pushpull(force) ==
  /\ Idle /\ HasId /\ ~ NeverAnswered
  /\ LET d == Compared(force)
     IN  Downloading("pull", d.cache, ToDownload(d.cache, local, d.theirs),
                     FALSE, On(remote), d.cached)

(* A change by name; bound: one the channel lacks.                         *)
pull_named(force, h) ==
  /\ Idle /\ HasId /\ ~ NeverAnswered /\ h \notin On(local)
  /\ LET d == Compared(force)
     IN  /\ hash_from_prefix_remote(d.cache, h)
         /\ Downloading("pull", d.cache, <<<<"change", h>>>>, TRUE, Closure(h), TRUE)

pull_uncached ==
  /\ Idle /\ ~ HasId
  /\ Downloading("pull", cache, IF kind = "nest" THEN from_scratch(local, remote)
                                ELSE local_channel_download(local, remote),
                 FALSE, On(remote), TRUE)

(* The changes that are registered: those on a channel of the repository. *)
hash_from_prefix(h) == h \in On(local) \cup On(remote)

pull_named_channel(h) ==
  /\ Idle /\ kind = "channel" /\ hash_from_prefix(h)
  /\ Downloading("pull", cache, IF h \in On(local) THEN <<>> ELSE <<<<"change", h>>>>,
                 TRUE, Closure(h), TRUE)

(* A new repository.                                                       *)
Cloning(c, list, goal) ==
  /\ Idle /\ local = NoLog /\ cache = NoCache /\ files = {}
  /\ Downloading("clone", c, list, FALSE, goal, TRUE)

Listed(c, ks) == InOrder([k \in ks |-> <<"change", c.remote[k].a>>])

NewCache == update_changelist(NoCache, 0, changelist(remote, 0))

clone_channel == HasId /\ Cloning(NewCache, Listed(NewCache, DOMAIN NewCache.remote), On(remote))

clone_state(m) ==
  /\ HasId /\ m \in States(remote)
  /\ LET last == FirstOf({k \in DOMAIN NewCache.remote : NewCache.remote[k].b = m})
     IN  Cloning(NewCache, Listed(NewCache, UpTo(NewCache.remote, last)), m)

clone_tag(h) ==
  kind # "channel" /\ h \in On(remote) /\ Cloning(NoCache, <<<<"change", h>>>>, Closure(h))

-----------------------------------------------------------------------------
(* The tasks.  What is ready is taken before the others go on: taking it   *)
(* later finds more files, and changes nothing of theirs.                  *)
Working == session.phase = "download" /\ task.ready = <<>>

Fail ==
  /\ session' = [phase |-> "failed", clone |-> session.op = "clone"] /\ task' = NoTask
  /\ UNCHANGED <<kind, remote, local, cache, files>>

(* The files of tags are not told apart: a pull that asks for one never    *)
(* gets as far as to read it.                                              *)
Kept(c) == IF c[1] = "change" THEN files \cup {c} ELSE files

TasksOnly == UNCHANGED <<kind, remote, local, cache, session>>

Fetch ==
  /\ Working /\ task.downloader = "running" /\ task.queue # <<>>
  /\ CASE kind = "path" ->
            /\ task' = CopyFromPath(task, files)
            /\ files' = IF task'.downloader = "failed" THEN files ELSE Kept(Head(task.queue))
       [] kind = "ssh" -> task' = RequestOverSsh(task) /\ UNCHANGED files
       [] kind = "nest" -> task' = GetOne(task) /\ files' = Kept(Head(task.queue))
       [] OTHER -> task' = GetOne(task) /\ UNCHANGED files
  /\ TasksOnly

AnswerArrives ==
  /\ Working /\ kind = "ssh" /\ task.downloader = "running"
  /\ ~ task.broken /\ task.current < Len(task.sent)
  /\ task' = AnswerOverSsh(task)
  /\ files' = IF task.closed THEN files ELSE Kept(Answer(task))
  /\ TasksOnly

DownloaderEnds ==
  /\ Working /\ task.downloader = "running" /\ DownloaderReturns(task)
  /\ task' = [task EXCEPT !.downloader = "done"]
  /\ TasksOnly /\ UNCHANGED files

ReceiverStep ==
  /\ Working /\ task.receiver = "running"
  /\ \/ task.arrived # <<>> /\ task' = Receive(task, files)
     \/ task.arrived = <<>> /\ task.downloader # "running" /\ task' = Flushed(task)
  /\ TasksOnly /\ UNCHANGED files

(* A change is applied after those it depends on and the channel lacks;    *)
(* which of two that are independent goes first is left open.              *)
apply_change_rec(ch, h) ==
  {Extended(ch, hs) : hs \in {s \in SetToSeqs(Closure(h) \ On(ch)) :
     \A i \in DOMAIN s : DependsOn(s[i]) \subseteq On(ch) \cup {s[j] : j \in 1 .. i - 1}}}

(* The files of what it applies are there. *)
Readable(before, after) == Requests(On(after) \ On(before)) \subseteq files

(* A clone applies what is ready; a change whose file is missing fails.    *)
Applying(h, rest) ==
  \E after \in apply_change_rec(session.ch, h) :
    IF Readable(session.ch, after) THEN session' = [session EXCEPT !.ch = after, !.list = rest]
    ELSE session' = [phase |-> "failed", clone |-> session.op = "clone"]

TakeReady ==
  /\ session.phase = "download" /\ task.ready # <<>>
  /\ IF session.op = "clone" THEN Applying(Head(task.ready)[2], session.list)
     ELSE UNCHANGED session
  /\ task' = IF session'.phase = "failed" THEN NoTask ELSE Taken(task)
  /\ UNCHANGED <<kind, remote, local, cache, files>>

(* The lines left of a list.                                               *)
parse_changelist(list, sel) == Chosen(list, {i \in DOMAIN list : list[i] \in sel})

TasksEnd ==
  Working /\ task.receiver = "done" /\ task.downloader # "running"

Commit(ch) ==
  /\ local' = ch /\ cache' = session.cache
  /\ session' = NoSession /\ task' = NoTask
  /\ UNCHANGED <<kind, files>>

Result == parse_changelist(session.list, task.taken)

pull ==
  /\ TasksEnd
  /\ \/ task.downloader = "failed" /\ Fail
     \/ /\ task.downloader = "done" /\ (session.op = "clone" \/ Result = <<>>)
        /\ Commit(session.ch) /\ UNCHANGED remote
     \/ /\ task.downloader = "done" /\ session.op = "pull" /\ Result # <<>>
        /\ session' = [session EXCEPT !.phase = "choose", !.list = Result]
        /\ task' = NoTask
        /\ UNCHANGED <<kind, remote, local, cache, files>>

-----------------------------------------------------------------------------
(* What the user selects has its dependencies, as far as they are listed.  *)
check_deps(original, now) ==
  \A h \in ChangesOf(now) : Requests(DependsOn(h)) \cap original \subseteq now
Selections(list) == {sel \in SUBSET Range(list) : check_deps(Range(list), sel)}

Choose ==
  /\ session.phase = "choose"
  /\ \E sel \in IF session.named THEN {Range(session.list)} ELSE Selections(session.list) :
       session' = [session EXCEPT
         !.phase = "apply", !.list = parse_changelist(@, sel),
         !.want  = IF sel = Range(session.list) THEN @ ELSE ChangesOf(sel),
         !.exact = @ \/ sel # Range(session.list)]
  /\ UNCHANGED <<kind, remote, local, cache, files, task>>

(* The last of the list is the first to be applied.                        *)
apply_pulled ==
  /\ session.phase = "apply"
  /\ IF session.list = <<>> THEN Commit(session.ch) /\ UNCHANGED remote
     ELSE /\ Applying(session.list[Len(session.list)][2],
                      SubSeq(session.list, 1, Len(session.list) - 1))
          /\ UNCHANGED <<kind, remote, local, cache, files, task>>

-----------------------------------------------------------------------------
push(force) ==
  /\ Idle /\ ~ NeverAnswered /\ (force => HasId)
  /\ LET d == Compared(force)
     IN  session' =
           [phase |-> "push", op |-> "push", seen |-> On(remote),
            cache |-> IF HasId THEN d.cache ELSE cache,
            list  |-> CASE HasId -> to_remote_push(d.cache, local, d.theirs, d.unrecs)
                        [] kind = "channel" -> to_local_channel_push(local, remote)
                        [] OTHER -> <<>>,
            complete |-> IF HasId THEN d.cached ELSE kind = "channel"]
  /\ UNCHANGED <<kind, remote, local, cache, files, task>>

(* A channel that takes requests one after the other, unless it refuses    *)
(* one: the changes among them, in order, before position i.               *)
Upto(ch, list, i) ==
  Extended(ch, InOrder([j \in {k \in 1 .. i - 1 : list[k][1] = "change"} |-> list[j][2]]))

Accepts(ch, list) ==
  \A i \in DOMAIN list :
    IF list[i][1] = "change" THEN MayApply(Upto(ch, list, i), list[i][2])
    ELSE list[i][2] \in States(Upto(ch, list, i))

(* A tag is put where its state is, unless there is one at that position   *)
(* or above, from before or from earlier in the list.                      *)
Uploaded(ch, list) ==
  LET all == Upto(ch, list, Len(list) + 1)
      Asks(i, n) == list[i] = <<"state", StateAt(all, n)>>
      new == {n \in DOMAIN all.log :
                /\ From(ch.tags, n) = {}
                /\ \E i \in DOMAIN list :
                     Asks(i, n) /\ \A j \in 1 .. i - 1 : \A k \in From(all.log, n) : ~ Asks(j, k)}
  IN  [all EXCEPT !.tags = [n \in DOMAIN @ \cup new |->
                              IF n \in DOMAIN ch.tags THEN ch.tags[n] ELSE StateAt(all, n)]]

Pushing == session.phase = "push"
Sent(sel) == parse_changelist(session.list, sel)
WithinBounds(list) == remote.next + Len(list) =< MaxNext

nothing_to_push ==
  Pushing /\ session.list = <<>> /\ Commit(local) /\ UNCHANGED remote

(* A path: one transaction of the remote, then the repository's.           *)
upload_to_path ==
  /\ Pushing /\ kind = "path"
  /\ \E sel \in Selections(session.list) \ {{}} :
       IF Accepts(remote, Sent(sel))
       THEN /\ WithinBounds(Sent(sel)) /\ remote' = Uploaded(remote, Sent(sel))
            /\ session' = [session EXCEPT !.phase = "uploaded", !.list = <<>>]
            /\ UNCHANGED <<kind, local, cache, files, task>>
       ELSE Fail

commit_push == session.phase = "uploaded" /\ Commit(local) /\ UNCHANGED remote

(* Another channel: the repository's own transaction.                      *)
upload_to_channel ==
  /\ Pushing /\ kind = "channel"
  /\ \E sel \in Selections(session.list) \ {{}} :
       IF Accepts(remote, Sent(sel))
       THEN WithinBounds(Sent(sel)) /\ remote' = Uploaded(remote, Sent(sel)) /\ Commit(local)
       ELSE Fail

(* The server takes a tag for its current state only, if that has none.    *)
AcceptsOverSsh(ch, list) ==
  /\ Accepts(ch, list)
  /\ \A i \in DOMAIN list : list[i][1] = "state" =>
       LET now == Upto(ch, list, i)
       IN  list[i][2] = On(now) /\ LastOf(DOMAIN now.log) \notin DOMAIN ch.tags

(* ssh: the server commits at the end of what it is sent if that has a     *)
(* change, unless it refuses something: a tag also for a file left behind. *)
(* The repository does not wait for any of that.                           *)
upload_over_ssh ==
  /\ Pushing /\ kind = "ssh"
  /\ \E sel \in Selections(session.list) \ {{}} : \E i \in 0 .. Len(Sent(sel)) :
       LET sent == SubSeq(Sent(sel), 1, i)
           kept == AcceptsOverSsh(remote, sent) /\ ChangesOf(Range(sent)) # {}
       IN  /\ WithinBounds(sent)
           /\ \/ kept /\ remote' = Uploaded(remote, sent)
              \/ ~ (kept /\ NoTag(Range(sent))) /\ UNCHANGED remote
           /\ IF i = Len(Sent(sel)) THEN Commit(local)
              ELSE /\ session' = [phase |-> "failed", clone |-> FALSE]
                   /\ UNCHANGED <<kind, local, cache, files, task>>

(* The command is killed, or loses the remote. *)
Kill == ~ Idle /\ session.phase # "failed" /\ Fail

(* The directory of a clone that failed is removed. *)
Exit ==
  /\ session.phase = "failed"
  /\ session' = NoSession
  /\ files' = IF session.clone THEN {} ELSE files
  /\ UNCHANGED <<kind, remote, local, cache, task>>

-----------------------------------------------------------------------------
Commands ==
  \/ ask_for_state
  \/ \E force \in BOOLEAN : update_changelist_pushpull(force)
  \/ \E force \in BOOLEAN, h \in Changes : pull_named(force, h)
  \/ pull_uncached
  \/ \E h \in Changes : pull_named_channel(h)
  \/ clone_channel
  \/ \E m \in States(remote) : clone_state(m)
  \/ \E h \in Changes : clone_tag(h)
  \/ \E force \in BOOLEAN : push(force)

DownloadStep ==
  Fetch \/ AnswerArrives \/ DownloaderEnds \/ ReceiverStep \/ TakeReady \/ pull

Next ==
  \/ RemoteChanges \/ LocalChanges
  \/ Commands
  \/ DownloadStep \/ Choose \/ apply_pulled
  \/ nothing_to_push \/ upload_to_path \/ commit_push \/ upload_to_channel \/ upload_over_ssh
  \/ Kill \/ Exit

(* The tasks run and the user chooses; nobody has to start a command.      *)
Fairness == WF_vars(DownloadStep \/ Choose \/ apply_pulled \/ Exit)

Spec == Init /\ [][Next]_vars /\ Fairness

-----------------------------------------------------------------------------
(* What the comparison skips is the same on both sides: below the position *)
(* it answers, the cache has every change the remote has there, and only   *)
(* changes the remote still has.                                           *)
DichotomySound ==
  Idle /\ HasId /\ ~ NeverAnswered =>
    LET n == dichotomy_changelist(cache, Answers)
        known == {cache.remote[k].a : k \in Below(cache.remote, n)}
    IN  /\ known \subseteq On(remote)
        /\ {remote.log[k] : k \in Below(remote.log, n)} \subseteq known

(* A pull or a clone that ends well leaves the channel with every change   *)
(* that was asked for and its dependencies, and, unless the user was told  *)
(* that the remote unrecorded some, with nothing else.                     *)
PullGetsWanted ==
  [][session.phase \in {"download", "apply"} /\ session'.phase = "idle" =>
       /\ session.want \subseteq On(local')
       /\ session.exact => On(local') = On(local) \cup session.want]_vars

(* The list of a push is what the remote lacks, once each, and every       *)
(* change in it has its dependencies on the remote or before it.           *)
PushExact ==
  session.phase = "push" /\ session.complete =>
    LET list == session.list
        at == {i \in DOMAIN list : list[i][1] = "change"}
    IN  /\ {list[i][2] : i \in at} = On(local) \ session.seen
        /\ \A i \in at, j \in at : list[i] = list[j] => i = j
        /\ \A i \in at : DependsOn(list[i][2]) \subseteq
             session.seen \cup {list[j][2] : j \in {k \in at : k < i}}

(* A pull or a clone that asks for no tag returns, except over ssh.        *)
PullReturns ==
  (session.phase = "download" /\ kind # "ssh" /\ NoTag(task.asked)) ~> Idle
=============================================================================
