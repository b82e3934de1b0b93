------------------------------ MODULE Download ------------------------------
(***************************************************************************)
(* The tasks that download changes: one asks the remote for what it finds  *)
(* in a queue (downloader), one receives what arrived, asks for the        *)
(* dependencies that have no file and tells what is ready (receiver), and  *)
(* the main task takes what is ready.  The receiver holds the sending end  *)
(* of the queue until it returns; the downloader holds the sending end of  *)
(* what arrived.                                                           *)
(***************************************************************************)
EXTENDS RemoteCache

CONSTANT Dependencies   \* the dependencies of each change, in the order of its file

(* arrived: pairs of a request and whether to follow its dependencies.     *)
(* lost: the name of an earlier request is left in the path of the next.   *)
(* sent, current: what was asked over ssh, and the number of answers.      *)
(* closed: nobody passes on the answers any more; broken: nor reads them.  *)
Asking(list) ==
  [queue |-> list, asked |-> Range(list), arrived |-> <<>>, waiting |-> Len(list),
   held |-> <<>>, ready |-> <<>>, taken |-> {}, lost |-> FALSE,
   sent |-> <<>>, current |-> 0, closed |-> FALSE, broken |-> FALSE,
   downloader |-> "running", receiver |-> IF list = <<>> THEN "done" ELSE "running"]

Dequeued(t) == [t EXCEPT !.queue = Tail(@)]
Arrived(t, c, follow) == [t EXCEPT !.arrived = Append(@, <<c, follow>>)]

(* A path: a file that is there is not copied again.                       *)
CopyFromPath(t, files) ==
  LET c == Head(t.queue)
  IN  IF c \in files THEN [Arrived(Dequeued(t), c, FALSE) EXCEPT !.lost = TRUE]
      ELSE IF t.lost THEN [t EXCEPT !.downloader = "failed"]
      ELSE Arrived(Dequeued(t), c, TRUE)

(* Another channel has nothing to copy; http writes the file, again if it  *)
(* was there.                                                              *)
GetOne(t) == Arrived(Dequeued(t), Head(t.queue), TRUE)

(* ssh: requests and answers overlap.  The answer to the last request made *)
(* so far ends the task that passes them on, and the next one finds its    *)
(* temporary file gone.                                                    *)
RequestOverSsh(t) ==
  IF t.broken THEN [t EXCEPT !.downloader = "failed"]
  ELSE [Dequeued(t) EXCEPT !.sent = Append(@, Head(t.queue))]

Answer(t) == t.sent[t.current + 1]

AnswerOverSsh(t) ==
  IF t.closed THEN [t EXCEPT !.broken = TRUE]
  ELSE [Arrived(t, Answer(t), TRUE) EXCEPT !.current = @ + 1,
                                          !.closed = (t.current + 1 = Len(t.sent))]

(* The queue is closed and empty, and every answer was passed on.          *)
DownloaderReturns(t) ==
  /\ t.queue = <<>> /\ t.receiver = "done"
  /\ t.sent # <<>> => t.closed

-----------------------------------------------------------------------------
(* What is held is told to be ready in the end.                            *)
Flushed(t) == [t EXCEPT !.ready = @ \o t.held, !.held = <<>>, !.receiver = "done"]

MissingDependencies(h, files) ==
  LET asks == [i \in DOMAIN Dependencies[h] |-> <<"change", Dependencies[h][i]>>]
  IN  Chosen(asks, {i \in DOMAIN asks : asks[i] \notin files})

(* Mutant: a dependency that was asked for is waited for twice. *)
ReceiveChange_twice(t, h, follow, files) ==
  LET missing == IF follow THEN MissingDependencies(h, files) ELSE <<>>
      new == Chosen(missing, {i \in DOMAIN missing : missing[i] \notin t.asked})
      t1  == [t EXCEPT !.asked = @ \cup Range(new), !.queue = @ \o new,
                       !.waiting = @ - 1 + Len(missing)]
      t2  == IF missing = <<>> THEN [t1 EXCEPT !.ready = Append(@, <<"change", h>>)]
             ELSE [t1 EXCEPT !.held = Append(@, <<"change", h>>)]
  IN  IF t2.waiting = 0 THEN Flushed(t2) ELSE t2

(* A change arrived. *)
ReceiveChange(t, h, follow, files) ==
  LET missing == IF follow THEN MissingDependencies(h, files) ELSE <<>>
      new == Chosen(missing, {i \in DOMAIN missing : missing[i] \notin t.asked})
      t1  == [t EXCEPT !.asked = @ \cup Range(new), !.queue = @ \o new,
                       !.waiting = @ - 1 + Len(new)]
      t2  == IF missing = <<>> THEN [t1 EXCEPT !.ready = Append(@, <<"change", h>>)]
             ELSE [t1 EXCEPT !.held = Append(@, <<"change", h>>)]
  IN  IF t2.waiting = 0 THEN Flushed(t2) ELSE t2

(* Tags that arrive are counted, and told to nobody.                       *)
Receive(t, files) ==
  LET c  == Head(t.arrived)[1]
      t1 == [t EXCEPT !.arrived = Tail(@)]
  IN  IF c[1] = "state" THEN t1 ELSE ReceiveChange(t1, c[2], Head(t.arrived)[2], files)

Taken(t) == [t EXCEPT !.ready = Tail(@), !.taken = @ \cup {Head(t.ready)}]
=============================================================================
