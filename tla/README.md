# Verification of pijul

TLA+ models of [pijul](../src/README.md), a distributed version control
system built on a theory of patches, with TLC configurations that check them on
small instances and proofs that TLAPS checks for instances of every size. Paths
below are relative to `src/`.

## The system

Pijul stores a repository in `.pijul`: a transactional key-value store (the
*pristine*, sanakirja B-trees in one file) and a directory of *change* and *tag*
files. A *channel* (branch) is a set of changes; changes that do not depend on
one another commute, so two channels with the same set are in the same state.

| Component | State it keeps | Operations | Hard parts |
|---|---|---|---|
| Registry of changes (`libpijul/src/pristine`) | tables `internal`, `external`, `dep`, `revdep`, `touched_files` | `make_changeid`, `register_change`, removal by `unrecord` and `drop_channel` | ids are 8-byte prefixes of hashes that may collide; entries shared by all channels and removed by only some of the calls |
| Channel logs and tags (`pristine/sanakirja.rs`) | per channel `changes`, `revchanges`, `states`, `tags`, `apply_counter` | `put_changes`, `del_changes`, `put_tags`, `del_tags`, `fork`, `rename_channel`, `drop_channel` | rewriting of every later state when a change leaves the middle of the log; memory and table disagree inside a transaction |
| Graph (`apply`, `unrecord`, `missing_context.rs`) | vertices (byte ranges of changes) and labelled edges, both ways | `put_newvertex`, `put_newedge`, `split_block`, `unapply`, repair of contexts | applying in any order must give the same graph up to pseudo-edges; unrecord must undo apply |
| Alive graph and output (`alive`, `output`) | none of its own | retrieval, strongly connected components, linearisation, conflicts | determinism of the order, cycles, zombies |
| Inodes (`fs.rs`) | tables `tree`, `revtree`, `inodes`, `revinodes` | add, move, remove, `update_inode` | two views (working copy and pristine) of one hierarchy |
| Record (`record.rs`, `diff`) | a queue of files shared by threads | difference of the working copy with the pristine | the queue must empty, and only then |
| Changes and tags on disk (`change.rs`, `changestore`, `tag.rs`) | files, an LRU cache of open ones | save, load, delete | written before the transaction commits |
| Remotes (`pijul-remote`) | cached log of each remote | dichotomy on states, push, pull, parallel downloads | stale caches, reordered completions, lost connections |
| Server (`pijul/src/commands/protocol.rs`) | one transaction per session | `state`, `changelist`, `changes`, `apply`, `tag`, `archive` | partial sessions |
| Commands (`pijul/src/commands`) | current channel, working copy | record, unrecord, apply, push, pull, fork, channel, tag, reset, ... | order of the steps that touch files and the commit |

Interaction: commands open one mutable transaction (sanakirja admits a single
writer; readers see the last commit), call the library on `ChannelRef`s shared
inside the transaction, write files, and commit. Channels are read and written
through their in-memory copies (`open_channels`), written back by `commit`.
Apply calls the registry, then the log, then the graph; unrecord goes the other
way round and looks at all other channels; remotes and the server call apply.

What makes each component correct:

- registry: ids and hashes in bijection, dependency tables exact, nothing
  forgotten that is in use, nothing kept that is not;
- logs: the three tables describe one sequence, whose states are those of the
  prefixes; positions stable under apply and unrecord; tags likewise;
- channels: closed under dependency, whatever calls are made;
- graph: edges in pairs, blocks disjoint and covering, everything reachable from
  the root through alive vertices, result independent of the order;
- remotes and server: what is reported as applied is committed, what is missing
  is downloaded, and a session that ends early loses nothing it acknowledged.

## Modules

| Module | Models |
|---|---|
| `BTree` | the operations of the sanakirja library the pristine uses (external) |
| `Pristine` | the registry, and the logs and tags of all channels, with every call on them |
| `ChannelSets` | the abstract specification: a channel is a dependency-closed set of changes |
| `TagFiles` | the tag files beside the pristine: the tag commands, commits and crashes |
| `Server` | sessions of `pijul protocol`, the owner's commands between them, and the change files |
| `Graph` | blocks and edges of a channel, and the searches in the table (`pristine/mod.rs`, `edge.rs`, `vertex.rs`) |
| `GraphStore` | the same graph as a state machine, one call on the tables at a time |
| `GraphApply`, `GraphRepair` | what a change does to the graph, and the repairs after it (`apply/`, `missing_context.rs`) |
| `GraphUnrecord` | what unrecording undoes in the graph (`unrecord/mod.rs`) |
| `AliveGraph`, `AliveOutput` | a file as a graph of lines, its components and conflicts, and how it is written (`alive/`, `vertex_buffer.rs`) |
| `Diff`, `Record`, `Changes` | from an edited file to hunks, and from hunks to a change and its dependencies (`diff/`, `record.rs`, `change.rs`) |
| `GraphRepo` | users who record, pull and unrecord one file: the composition of the seven above |
| `Inodes` | the tables of files of the working copy (`fs.rs`) |
| `FileRecord`, `FileOutput`, `FileUnrecord` | recording, outputting and unrecording files and directories (`record.rs`, `output/`, `unrecord/working_copy.rs`) |
| `FileRepo` | one working copy and several channels: commands over files, composed of all the modules on graphs and files |
| `RemoteCache` | what is remembered of a remote, the comparison with it, what to download and to upload |
| `Download` | the tasks that download: one asks, one receives, the command takes what is ready |
| `Remotes` | a repository and a remote that both move: pull, push, clone |
| `MCPristine`, `MCTagFiles`, `MCServer`, `MCGraphStore`, `MCAlive`, `MCGraphRepo`, `MCFileRepo`, `MCRemotes` | their instances for TLC (`MCAlive` also has the steps that build the files and the properties of `AliveGraph`) |
| `PristineProofs` | the inductive invariant of `Pristine` and its theorems, those on tags included |
| `DependencyProofs` | `SpecCopies`: tables of dependencies, order of the logs, refinement of `ChannelSets` |
| `TagFilesProofs` | `TagFiles`: files, tags and checkouts; dependencies of what is committed |
| `ServerProofs` | sessions: what is committed, what a push and a changelist promise |
| `GraphProofs` | `GraphStore`: searches of blocks, edges in pairs, blocks that are cut |
| `RemoteCacheProofs` | lemmas on `RemoteCache`: the search in the cached log, and what is left in the tables |
| `RemoteProofs` | `Remotes`: the cache, the list of a push, what a pull or a clone gets |
| `ChannelSetsProofs` | the theorem about `ChannelSets` |

### Pristine

State. `internal`, `external`, `dep`, `revdep` are the tables of the same names:
functions for tables with one value per key, sets of pairs for the two others.
`channels` are the channels as the transaction sees them (`open_channels` over
the table), each a record with the fields of `struct Channel` but for the graph;
`persisted` are the names that are in the table, which is what `fork` and
`rename_channel` look at. `rec` is the local state of `apply_change_rec_ws`: its
stack and its set of visited hashes, so that each iteration of its loop is one
action (`RecVisit`, `RecApply`). Every other call is one action, named as in the
code.

Abstractions. A Merkle state is a point multiplied by the scalar of each hash
(`Merkle::next`), a product that forgets the order: the state of a log is the
set of its hashes, that of the tags the bag of the states tagged. Change files
hold their dependencies and never change: the constant `Dependencies`, acyclic
because hashes cover dependencies. Ids are numbers; `Prefix` gives the first
eight bytes of each hash, so that collisions are an instance like any other.
The carry out of 64 bits when the search for a free id passes the last number
is not modelled. An error return leaves the transaction to be dropped by the
caller, so it is the negation of a guard; a dropped transaction, and a crash
before commit, go back to a state the model was in before. Panics (an `unwrap`
or an `assert!`) are guards too, and `UnrecordNeverPanics` states that the guard
never stops a call that would otherwise go through.

Two specifications differ in one thing. `Spec` allows every call. `SpecCopies`
is the program without `pijul channel delete` and without reuse of a name inside
a transaction: the channels dropped are then the temporary forks that `pijul
apply` and the server make, which never hold the last copy of a change.

### TagFiles

`TagFiles` extends `Pristine` with what is on disk: `files`, from states to what
`from_channel` writes (the tables of the channel, and the ids of its changes),
and `saved`, the tables as of the last commit. `pijul tag create` gives the file
its final name first, and the transaction that records the tag commits later or
never: each transaction is one call followed by `CommitTables` or by `Rollback`
(an error or a crash), which is the bound `Fresh` names. `restore_channel`
computes the id every change of the file would be given today, asserts that it
is the one in the file (`SameIds`) and copies the tables as they are; it
registers nothing. Only tags whose changes are all known (`KnownTags`) are
checked out: see below.

### Server

`Server` extends `TagFiles` with `store`, the changes that have a file, and
`session`: the map `applied` of the code, and two histories of what the session
was sent. A session is one transaction of many requests, each an action; a
request that fails, or a crash, drops the transaction (`Fail`), while files stay.
`End` is the end of the input, also when the client was lost between two
requests. The requests that only read are operators: `changelist_tags` is the
index over tags that `changelist` runs along the log. Between sessions the owner
creates channels, unrecords changes and checks out tags.

### Graph, and what changes do to it

A graph is a set of pairs of a block (change, start, end) and a half of an edge
(flags, the block or position it leads to, the change that introduced it), as
the table holds them; a position is looked up as in the code, by the block that
contains or ends at it, and `split_block` cuts a block with all its edges.
`GraphApply` has `put_newvertex` and `put_newedge` with all they call: the
repair of contexts, the marks of a zombie conflict (`zombify`), the cycles of
directories. The functions of the code thread a transaction and a workspace; here
they take and return a record with the graph, the sets of the workspace and
`err`, which names what stopped the code: a block not found, an invalid change,
an assertion, a loop that does not end. `GraphRepair` has the passes over the
workspace after the atoms of a change (`clean_obsolete_pseudo_edges`,
`repair_missing_contexts`, ...). The code walks hash sets, whose order is
arbitrary; `rev` takes them in one order or the reverse.

`GraphStore` is the graph by itself, in the hands of any caller: an edge is put
or deleted with its reverse, or a block is cut. Apply, unrecord and the repairs
change a graph by these three calls only. A caller passes blocks that a search
found, or the block of a new vertex, which `put_newvertex` refuses when there is
something where it goes (`apply/vertex.rs:15`); and an empty block, the inode of
a file, has a byte on each side that no block takes (`record.rs:1003`). `Fits`
says so: blocks of one change are apart, the two of the call included. With a
block that is not apart from the others a search would not find an edge's end,
so this is where the correctness of the whole graph rests. To delete an edge
that is not there changes nothing and is no step.

A line is one byte: what the algorithms tell apart is where a block starts and
ends, which positions of a change of several bytes give. Every change of
`GraphRepo` is what `Diff`, `Record` and `Changes` make of an edit: the action
`Record` outputs the file, picks an edit, and translates the difference into
hunks as `record_with_edges` does, markers of conflicts included.

### Alive graph and output

`AliveGraph` retrieves the alive lines below a file, finds the strongly
connected components with Tarjan's algorithm on an explicit stack, and cuts the
depth-first path into a tree of conflicts, all as recursive operators with the
state of the loops as a record. `AliveOutput` writes the tree as a sequence of
events, lines and markers. `MCAlive` starts from lines inserted at the top of a
file and lets other changes order them, reattach them and mark them as zombies,
so that every order of the lines, with at most one line above an earlier one or
one zombie (`MaxUnusual`), is a state.

### Files

`Inodes` keeps the tables `tree`, `revtree`, `inodes`, `revinodes` as sets of
pairs, because a search takes the least of several values. The disk is a
function from paths to lines. A command is one action, made of what the code
does in order: record (walk over the tracked files, deletions, then the hunks,
the change, its application and `update_inode`), output (removal of the dead,
walk by levels, name conflicts, temporary names, final renames), unrecord (the
graph, the tables of files, then the repairs), reset to another channel (the
last common state by dichotomy, the paths of the files touched by the changes
after it, outputs of these paths). An error of a command leaves the tables and
the log as they were and the disk as it is; a panic stops the model, and
`NoPanic` says there is none.

Abstractions: one worker (the queues of threads of `record.rs` and `output.rs`
are taken in order), no ignored files, no permissions but the directory bit, no
times of modification (every file is compared), no prefixes, no binary files.

### Remotes

State: the channel of the remote, the channel of the repository, the `cache` of
the remote (its log, and the tables `rev`, `states` and `tags`; a key of the
first two may have several positions, and `del_remote` deletes the first of
them), the files of changes, the command that runs and its tasks. A command is
one transaction: what it writes to the tables is kept if it ends well, the files
it downloaded stay.

There are four kinds of remotes, of which `kind` never changes: a directory
(`path`), a server over ssh, a remote without an identifier over http (`nest`:
no cache), and another channel of the repository. What differs is taken from
each client: `AnswersOfPath` and `AnswersOfServer` (the local client looks for a
state from a position on, the server only at it), `CopyFromPath` (a file that is
there is not followed further, and the name of it stays in the path of the
next), `RequestOverSsh` and `AnswerOverSsh` (requests and answers overlap), and
the uploads (one transaction for a path, requests that the server commits at the
end for ssh).

A pull is the comparison and its consequences (one step, see the bounds), then
the three tasks of `RemoteRepo::pull` and `download_changes_rec` interleaved,
then the user's selection, then the application, one request of the list per
step, each with the dependencies the channel lacks (which of two independent
changes goes first is left open). The remote
changes between commands and while a push to a path waits for the user; a pull
and a session over ssh see one state of it.

### Fairness

`Pristine`: `WF(Loop)`. The loop of `apply_change_rec_ws` runs on the caller's
thread and waits for nothing, so it takes its next iteration; no other action is
assumed to happen.

`Remotes`: `WF(DownloadStep \/ Choose \/ apply_pulled \/ Exit)`. The tasks are
futures of one executor that runs whatever is ready; the user answers the
editor, and a command that failed exits. Nobody has to start a command, nothing
has to change, and `Kill` may always happen.

## Runs

| Run | Question |
|---|---|
| `pristine_logs` | Do the tables stay consistent under every call, in any order? `B` depends on `A`, `C` on nothing: `B` and `C` may leave the middle of a log. The two names are symmetric. |
| `pristine_deps` | Without loss of a last copy, do channels implement `ChannelSets`, is the dependency information exact, and does the recursive apply return? Chain `A <- B <- C`, with `C` also on `A`. |
| `pristine_dropped` | The first finding below. |
| `tag_files` | Does every committed tag have its file, complete by itself, wherever a command stops? Is a channel checked out in the state tagged, although ids changed hands in between? Are the states of tags recomputed whenever a tag or a tagged change below them goes? Two changes with colliding ids, two channels, `MaxTime = 3`: room for both changes to leave and come back in the other order. |
| `server` | Is what a push reports as done committed, with its files, does `changelist` show the tags, and are committed channels closed under dependency, also after the owner checked out a tag? Sessions of any length on two channels, `B` on `A`; `MaxTime = 3` lets each change be pushed, unrecorded by the owner and one be pushed again. |
| `graph_store` | Can every edge be followed both ways, by the searches in the table, and does a cut change nothing of what the graph means? One change of three bytes, whose blocks begin and end anywhere; edges that insert, that delete, and pseudo-edges; three halves of edges or fewer when one is put, while cuts add any number. |
| `alive` | Are the components, the tree of conflicts and the redundant edges right, and is every line written once between balanced markers? All files of four lines. |
| `graph_lines` | Do changes commute, is no line lost, does unrecord undo, does a conflict solved in the editor stay solved? Two users, a file of two lines, two changes, deletions of up to two lines at one place; then one more change that solves a conflict everyone has. |
| `graph_zombies` | The second finding. |
| `files` | After any command, are the files those of a clone, with nothing to record, no assertion met and no untracked file lost? Two channels, two names, paths of two names, two operations and two changes. |
| `files_moved` | The third finding. |
| `remotes` | Does the comparison with the cache skip only what is equal, does a pull get what was wanted and no more, does a push send what is missing, once and in order, and do pulls return? Three changes, `B` on `A`, all four kinds of remotes, three positions of the remote, one state that may be tagged. |

Bounds of the first five: three changes, two of which (A and B) start with the
same eight bytes; one or two channel names; `MaxTime` stops calls on a channel
whose counter has reached it (a loop under way goes on), `MaxTags` stops tagging.
`MaxTime = 4` with three changes leaves room for each change once and for one of
them to leave and come back, behind the others. Three changes are the least for
which an unrecorded change has a neighbour before and one after it, and a
dependency is met by two dependents.

Bounds of the others. The calls of `GraphStore` keep no memory, and an edge
concerns the blocks at its ends: `MaxHalves = 3` lets an edge be put beside one
that was cut, on three blocks of one change, and the theorems of `GraphProofs`
have no such bound. Two changes of two users are enough for each conflict of
two edits, in both orders and with both undone; `MaxDeleted = 2` makes an edit
reach across a block and its neighbour. Two operations and two changes of
`files` are enough for a removal of a directory and a move out of it, on two
channels. Three positions of a remote let a change leave the middle of its log
and return behind the others, so that states are found out of order; with four
positions the remotes of kind `path` were checked too (4.7 million states).

In every run some states at the bounds have no successor, and the program itself
waits for commands: hence `CHECK_DEADLOCK FALSE`.

What the bounds of `FileRepo` leave out, each because the code does not do what
the properties say there (the comments of the module say where):

- `Stranded`: nothing comes alive in a file or a directory that was deleted. An
  edit, or the addition of a file, that is applied after the deletion of what it
  is in is not connected to the root (`apply/vertex.rs:71` looks for the deleted
  context and leaves the file of the vertex alone), so it is shown only if the
  deletion came last.
- `IsGone` and `Reachable(tables)`: moves onto a tracked directory that is gone
  from the disk, and unrecords after a directory was removed from the tables and
  not recorded. Both put a file in a directory that leaves the tables, and
  `record` panics in `tree_path` (`pristine/mod.rs:764`): `rm -r d; pijul mv f d;
  pijul record`, or `d/f` deleted and recorded, `d` removed, the deletion
  unrecorded, record.
- `Markers` and `ZombieFiles`: no operation on the working copy while a file has
  lines in conflict, and no unrecord while a file is alive and deleted
  (`graph_zombies` shows that who sees such a conflict depends on the order).
- `Longer = {}`: `reset.rs:205` compares paths as strings, and skips `ab` after
  `a`. With a pair of names in `Longer`, `LikeAClone` fails.
- `Moves <- Outwards`: files move out of directories, not into them
  (`files_moved`).

What `Remotes` leaves out: the comparison, a request per state, and the list of
changes are one step (over http and to a path they are separate transactions of
the remote, and a remote that moves in between leaves a wrong cache); the remote
changes only between commands, or during a push to a path; files of a remote are
never deleted; the files of tags are not told apart, and only the states in
`Taggable` are tagged; a change pulled by name is one the channel lacks; the
changes of a remote without an identifier arrive in the order asked; what is
ready is taken at once (taking it later finds more files and changes nothing
for the other tasks). Over ssh, the server takes a tag for its current state
only, and for any file of a tag that was left behind it refuses it: as the files
of tags are not told apart, the model may refuse every list with a tag
(`Server` has the files). `PullReturns` is about pulls that ask for no tag, from remotes
other than ssh: see below.

### Findings

`drop_channel` deletes the `dep` and `revdep` entries of the changes that only
the dropped channel had (`libpijul/src/pristine/sanakirja.rs:2196`), but not
their ids. Applying such a change again finds its id and skips `register_change`
(`libpijul/src/apply.rs:185`), so its dependencies are never recorded again, and
`unrecord` then lets a change go that others on the channel depend on. The run
`pristine_dropped` shows the shortest such history; `pristine_deps` shows that
this is the only way: with last copies kept, the guard of `ChannelSets!Unrecord`
is never violated.

`put_newedge` marks the children of a line it deletes that are unknown to the
change, but follows only the edges upwards (`libpijul/src/apply/edge.rs:340`),
while `put_newvertex` does mark a line whose upper context is deleted. A line
inserted below a line that another change deletes is a conflict for who got the
insertion last and none for who got the deletion last (`graph_zombies`). The
lines themselves do not depend on the order (`graph_lines`).

A recorded move of a file into a directory carries the position of the directory
only (`libpijul/src/record.rs:1338`), and `reset --channel` outputs the paths of
the files the differing changes touch: after a switch to a channel without the
move the file is still in the directory (`files_moved`).

### Not so in the code, and without a run

Met while modelling, and left out by a bound or a guard that says so:

- `collect_zombies` (`libpijul/src/unrecord/mod.rs:542`) starts from the first
  block of each deleted edge and follows only some edges: marks on lines beside
  it stay when another change deleted the same block, so a channel keeps edges of
  a change it no longer has. The lines are right (`UnrecordUndoes`).
- `must_reintroduce` takes a mark of a conflict for a deletion
  (`libpijul/src/unrecord/mod.rs:473`): when a line was inserted below a deleted
  one, and a later change that solves the conflict deletes the line, unrecording
  the solution does not bring the line back. `Room` of `GraphRepo` lets nothing
  happen after a solution; without it TLC finds `UnrecordUndoes` violated, by
  who got the insertion after the deletion.
- `is_zombie` (`libpijul/src/output/mod.rs:300`) does not see a file that only
  pseudo-edges keep. `collect_former_parents` takes every vertex for deleted.
- `restore_channel` (`libpijul/src/tag.rs:152`) does not register the changes of
  a tag. After the last copy of a tagged change is unrecorded, and so forgotten,
  checking the tag out commits a channel whose ids the registry does not resolve.
  `tag_files` restores only tags whose changes are known.
- `put_tags` (`libpijul/src/pristine/sanakirja.rs:1854`) searches the position and
  does not compare the key it gets, which is the first one at or above the
  position (`is_tagged`, line 949, compares it). A tag below another one is thus
  "already tagged": it is not put and no error is returned. A pull
  (`pijul/src/commands/pushpull.rs:471`), a push to a path
  (`pijul-remote/src/local.rs:286`) and the cache of a remote
  (`pijul-remote/src/lib.rs:795`, `887`, `1089`) lose such a tag. The models do
  as the code does.
- `pijul tag delete` is documented to delete the file of a tag no other channel
  has (`pijul/src/commands/tag.rs:69`) and never deletes one.
- `tagup` puts the tag file in place at once, but a session commits only if it
  applied a change and met no error (`pijul/src/commands/protocol.rs:374`). After
  a push of tags only, or one that failed, the tag is on no channel and its
  upload is refused for ever with "Tag for state {} already exists".
- An archive of another state than the current one never comes: the server drops
  the fork it worked on while it still holds a reference to it, which
  `drop_channel` refuses (`sanakirja.rs:2130`, after taking the channel out of
  the open ones), and the session ends with the error.
- A tag whose state is no longer the state at its position is listed with that
  position's state (`pijul/src/commands/tag.rs:253`).
- `pijul channel rename` switches to the new name also when another channel was
  current (`pijul/src/commands/channel.rs:87`).
- Output of a directory that takes the name of another one, or of a file, fails
  on the last rename and leaves the disk half renamed (`output/output.rs:325`);
  the model takes the step and does not compare the disk after the failure.
- `unrecord --reset` removes an untracked file when the change deleted a file of
  that name and another change did as well.
- `pijul apply` outputs nothing when no touched file has a path
  (`pijul/src/commands/apply.rs:188`); "Nothing to pull" unrecords the pending
  change and keeps its file.
- Over ssh, the answer to the last request made so far drops the sender
  (`pijul-remote/src/ssh.rs:575`). `pijul clone --change` of a change with a
  dependency asks for the dependency afterwards: its bytes go to the end of the
  previous file, the rename fails, and downloader, receiver and command wait on
  each other for good. `Download` models the step; `PullReturns` leaves ssh out.
  Nor does the server answer at all when asked for its state past the end of its
  log (`pijul/src/commands/protocol.rs:80`, where the client expects "-",
  `pijul-remote/src/ssh.rs:485`): the action `ask_for_state`, which waits for
  ever.
- Tags asked for by a pull are counted and never told to be ready
  (`pijul-remote/src/lib.rs:1356`), so a pull that asks for one waits for ever.
- The downloader of a path `continue`s without taking the name of a change it
  has out of the path of the remote (`pijul-remote/src/local.rs:213`), so the
  next one is not found: after a pull that was killed, the next pull from a path
  fails while some of its changes are there and others not.
- `update_changelist_pushpull` never deletes cached tags and keeps those it has,
  so a push sends tags only while none is cached; a change that the remote
  unrecorded and applied again is cached at two positions, and cannot be pulled
  by name any more, as it is ambiguous (`sanakirja.rs:1308`).
- While the remote has unrecorded something the repository has, the cache is not
  updated (unless forced): a pull brings back what the remote unrecorded, and a
  push may be refused for a missing dependency.
- A clone of a state from a remote without an identifier returns an empty
  repository (`pijul-remote/src/lib.rs:1474`), and a push to one never finds
  anything to push.
- Downloads over http that are still in the pool when the requests end are
  dropped (`pijul-remote/src/http.rs:200`).

## Proofs

Every theorem is for any finite set of changes, any prefixes (so with or without
collisions of ids), any names of channels, and any of the bounds of the runs.

### Registry and logs (`PristineProofs`)

`Inductive`: `Spec => []IInv`, where `IInv` is the conjunction of the registry
(typed, `internal` and `external` inverse), of every channel (typed, its changes
known to the registry, its three tables in agreement), of the names and of the
loop's stack. `LogsAgree` alone is not inductive: `put_changes` keeps it only if
the new hash is on no earlier position, which needs ids and hashes in bijection
(`IdsAgree`); `del_changes` resolves ids, which needs them in the registry
(`UsedAreKnown`), and `UsedAreKnown` in turn needs `unrecord` to look at every
other channel. Its consequences are `TypeCorrect`, `IdsStayInverse`,
`NoUsedChangeForgotten`, `LogsStayConsistent`, and `PositionsStayStable`: no step
moves a change that stays on its channel or reuses a position.

The lemmas carry the argument: `FreeId` (by counting, the probe of
`make_changeid` finds a free id among the first `Cardinality(external) + 1`),
`LogPut` and `LogDel` (the two log updates preserve `LogAgrees`), `Registered`
and `Forgotten` (the registry updates).

### Dependencies and refinement (`DependencyProofs`)

For `SpecCopies`, the inductive invariant `DInv` is `IInv` with `DepsMirrored`,
`DepsComplete`, `KnownAreUsed`, `DependenciesBefore` and `WalkOrdered`.

- `DepsComplete`: for every change the registry knows, the dependencies are known
  and in `dep`. It is what is false after `drop_channel` has dropped a last copy
  (the first finding), and what makes an empty `revdep` mean that nothing depends
  on a change.
- `WalkOrdered` is about the stack of `apply_change_rec_ws`: a frame that waits
  (its dependencies are pushed) has above it only changes it comes after in the
  order of dependencies, each of its dependencies is on the channel or above it,
  and a visited change is on the channel or waits. The last part is why a change
  that was visited may be skipped: the walk meets a change that is visited and
  waits below only around a cycle, and there are none (`DependenciesAcyclic`).

From it: `DepsStayMirrored`, `DependenciesStayBefore`, `NothingForgottenLate`,
`UnrecordIsSafe` (`unrecord`'s assertion about positions), `DependentsStayRefused`
(the action property that `pristine_dropped` shows to fail under `Spec`), and
`Refinement`: `SpecCopies` implements `ChannelSets`, each call being one step of
it or a stutter. `ChannelSetsProofs` proves that every channel of the abstract
specification is closed under dependency.

### Tags (`PristineProofs`, `TagFilesProofs`)

`TagsStayReplayed`, for `Spec`: the state of every tag is the bag of the tags up
to it, although `del_tags` and `del_channel_changes` rewrite only those after the
position they touch, and wherever that is. `put_tags` puts a tag above all
others or not at all, which `TagsMoved` says of the two updates together: a tag
that stays is of the same state, a new one is above the rest. `TagBagUnion` adds
the bags of two parts of a log; `del_tags` cuts the log at its position.

For `SpecTags`, `TInv` adds to it that the tables of the last commit are as
consistent as those of the transaction (`SavedOK`; without it a rollback is not
an inductive step), that each file is consistent under its own ids and named
after its state (`FilesOK`), and that the tags of the transaction, of the commit
and of the channel inside each file all have files (`TaggedHaveFiles`; the last
part is what a checkout needs). From it: `TagsTypeCorrect` (in no run), `FilesStayComplete`,
`TagsStayReplayedOnDisk`, `CommittedTagsKeepFiles`, and `RestoredStaysTagged`.

`CInv` adds the tables of dependencies to both sides of the commit and says that
the channel in a file is closed under dependency. A checkout registers nothing:
the channel it brings back has its dependencies in the tables because only known
changes are in it, and known changes have theirs registered (`RestoreClosed`).
From it: `TagsKeepClosed` and `TagsKeepUnrecordSafe`.

### Server (`ServerProofs`)

`SInv` adds the session (`SessionOK`), that what was pushed is still on its
channel and the channel marked as applied (`PushedOn`), and that every change of
every channel has its file, be the channel in the transaction, committed or in
the file of a tag (`AllStored`). From it: `ServerTypeCorrect` (in no
run), `CommittedKeepFiles`, `PushStaysKept`, `ChangelistShowsAllTags` (the index over
tags advances with the log because a tag is at a position of the log), and, with
`CInv`, `ServerKeepsClosed` and `ServerUnrecordSafe`.

### Graph (`GraphProofs`)

For any changes, positions and flags, `GInv` says that edges are between blocks,
that the blocks with edges are apart, and that every half has its reverse at a
block where it leads (`Paired`). `EdgesResolve` is about searches, and needs the
blocks apart: `SearchFinds` and `SearchFindsEnd` prove that `find_block` and
`find_block_end` return the block that contains, or ends at, a position, in any
set of blocks that are apart, although both look only at the neighbours of a key
in the order of the table (`LeastKey` and `GreatestKey` prove that a finite set
has them). Then: `GraphInductive`, `EdgesAlwaysResolve`, and `SplitIsSilent`,
which needs no invariant: in any graph whatever, `split_block` leaves the graph
of bytes as it was; `SplitsStaySilent` is its consequence for `Spec`.

### Remotes (`RemoteCacheProofs`, `RemoteProofs`)

The comparison of a pull or a push goes by the cached log: `dichotomy_changelist`
looks for the end of what is the same on both sides by asking the remote for its
state at cached positions. Its test is not monotone: once the remote unrecorded
a change, the two may agree at a position and not at an earlier one. The search
is sound all the same. It returns the start, or a position where the test it
made held, or the next one (`DichotomyAgreed`, from `SearchIs`: what the recursive
function of the search is, by well-founded descent on the width of the interval).
Where it held, the remote has exactly the changes the cache lists up to there,
so those below are known and still there; and a change of the remote is not at a
lower position than the cache has it, so what the remote has below is listed
below (`DichotomyRight`).

`CachesComparable` proves the inductive invariant `RInv`: both logs hold a change
once, and the repository's in an order its dependencies allow; `CacheOK` for the
cache and for what the running command will write; the list of a push is right.
`CacheOK` is what the argument above needs: the states in the cached log are
those of the changes in it, and the remote has no change at a lower position
than the cache. Both survive whatever the remote does, since it loses changes
or puts them at positions it never used (`Later`, `CacheStays`). It also speaks of
the tables `rev` and `states`, which decide what a push sends:
`update_changelist` deletes from them by `del_remote`, which takes the first pair
of a key and not the one of the position. `Counted` says that a key has no more
pairs than positions in the log; `TableReplaced` counts that this stays so, and
with it that no key outlives its last position. From `RInv`:
`DichotomyAlwaysSound`, and `PushListsExact`, for which `ToRemoteLists` and
`ToChannelLists` show that the slots of a list are those of the positions it is
made from, in their order.

`DownloadsCount` proves a second invariant, `WInv`, relative to `RInv`:

- `ClosedGood`: both logs, and the changes in every cache, are closed under the
  dependencies. The second is what makes a list by cached positions bring the
  whole of the remote.
- `DownloadGood`: the count `waiting` of the receiver is at least the number of
  requests on their way to it; if it is no more, everything asked for is on its
  way, held, ready or taken. The count is more when a tag arrived, which the
  receiver counts and tells to nobody; if no tag was asked for, it is exactly
  that number, and a receiver that runs waits for something (`Awake`). A
  downloader is done only after the receiver, and a receiver that did not see the downloader fail is done only when
  it waits for nothing: then everything asked for was taken (`AllTaken`),
  whatever the order of requests, answers and dependencies found on the way.
- `GoalGood` and `ClonedGood`: each change wanted is on the channel of the command
  or in the closure of a request in its list, and, if the pull is exact, what the
  list brings is wanted or was on the channel before. A clone applies what is
  taken at once. What the user selects keeps this, by `check_deps`: with the
  local channel, the listed changes are closed under the dependencies, so those
  selected are as well (`ChooseKeeps`).

From both: `PullsGetWanted`, the action property `PullGetsWanted`, for all four
kinds of remotes, pulls of everything and by name, and the three clones. From
`DownloadGood`: `DownloadsNeverStall`, that the tasks of a download without tags
never all wait for one another, except over ssh: a receiver that still waits, with
nothing in hand, waits for what the downloader has in its queue. That is the
safety part of `PullReturns`, at the level of the guards of the tasks' steps.

### Assumptions

`HashFinite`, `DependenciesType`, `DependenciesAcyclic`, `PrefixType`,
`NoChannelType` and `BoundsType` of `Pristine`: hashes cover dependencies, so
there are no cycles among them. `IdsType`, `PositionsType` and `FlagsType` of
`GraphStore`: numbers, and flags from among those of `edge.rs`, seen from the
source of an edge. `ChangesFinite`, `DependenciesAreChanges` and `KindsKnown` of
`Remotes`: the changes of an instance are finitely many (nothing is assumed of
`Taggable` and `MaxNext`, nor that dependencies have no cycle). TLC evaluates
them on every run of these modules.

### Only model-checked

- `GraphRepo`, `FileRepo` and `MCAlive`: what apply, unrecord and output do with
  a graph is written with recursive operators, which the prover does not accept.
  That their calls have blocks that fit (`Fits`) is argued above from the code,
  and not a theorem.
- `RecReturns` and `PullReturns` are liveness properties, out of the prover's
  reach. What `PullReturns` needs from the state is proved, by
  `DownloadsNeverStall`, but for one thing: that what a clone took can be applied,
  in some order, which needs that dependencies have no cycle. That the steps left
  are finitely many stays with TLC.

## Plan

1. Proofs: that the calls `put_newvertex` makes of `GraphStore` fit, which needs
   `GraphApply` without recursive operators.
2. Remotes: the comparison request by request, against a remote that moves in
   between; tags that are pulled.
3. Commands that put pending changes aside, the import of partial clones, the
   change store's cache.

## Not modelled

The textual form of changes and their serialised layout (formatting and parsing),
the layout of tag files, connection and authentication of the network clients,
identities, keys and signatures, configuration, prompts, listings (log, diff,
credit), the import from git, and the macros that generate accessors of tables.
These keep no state of their own that others depend on, or are input and output
only. Inside modelled components: partial clones and prefixes, ignored files,
permissions and times, binary files and encodings, several workers, archives.

`PROJECT.json` lists the components left out, with the reason for each.
