------------------------------ MODULE Recorder ------------------------------
(***************************************************************************)
(* ResultRecorder (recorder.py) over atomic_write_text (io.py), and the    *)
(* file system under it.                                                   *)
(*                                                                         *)
(* A call holds the recorder's lock from its guard to its return, so at    *)
(* most one is in progress; it makes its directory and replaces its        *)
(* documents one after the other, and the process may die or a write may   *)
(* fail between any two steps.  A replacement is a new temporary file, a   *)
(* rename over the old document and an fsync of the directory: after the   *)
(* rename everybody sees the new document, but until the fsync a power     *)
(* loss may bring an older one back.                                       *)
(*                                                                         *)
(* The callers are those of orchestrator.py: start() once, the episodes in *)
(* order, complete_episode() once for an episode and no event after it,    *)
(* and finish() from the control thread or from stop().                    *)
(***************************************************************************)
EXTENDS ResultTree

CONSTANTS Texts,           \* details of events
          Metrics,         \* what an evaluator may hand over: metrics and
          Trajectories,    \* points that their constructors let pass
          MaxEvents,       \* bound: record_event calls per episode
          MaxFailures,     \* bound: writes that fail
          EntriesSynced    \* a file system on which the fsync of a directory
                           \* also makes its own entry durable (POSIX does
                           \* not promise it)

ASSUME RecorderAssumption ==
  /\ Metrics \subseteq EpisodeMetrics /\ Trajectories \subseteq Seq(TrajectoryPoints)
  /\ MaxEvents \in Nat /\ MaxFailures \in Nat /\ EntriesSynced \in BOOLEAN

(* What an event record, the commit marker of an episode and the manifest   *)
(* may be; a path without a document holds none of them.                    *)
EventRecords == [sequence : Nat, text : Texts]

MetricsDocuments ==
  [complete : BOOLEAN, reason : Reasons \cup {"NONE"}, success : BOOLEAN, timeout : BOOLEAN,
   samples : Nat]

SummaryEntries == [episode : Episodes, complete : BOOLEAN, reason : Reasons \cup {"NONE"}]

SummaryDocuments ==
  [complete : BOOLEAN, counts : [Reasons -> Nat], episodes : Seq(SummaryEntries)]

EpisodeResults == [metrics : MetricsDocuments, trajectory : Trajectories]

ASSUME AbsentAssumption ==
  /\ Absent # Directory /\ Absent # Configured /\ Absent \notin Episodes
  /\ Absent \notin SummaryDocuments
  /\ Absent \notin Seq(EventRecords) /\ Absent \notin Seq(TrajectoryPoints)
  /\ Absent \notin [complete : BOOLEAN]
  /\ Absent \notin MetricsDocuments
  /\ Absent \notin EpisodeResults
  /\ Absent \notin [metrics : MetricsDocuments, trajectory : Trajectories,
                   events : Seq(EventRecords)]

VARIABLES started, finished,  \* _started and _finished
          begun,              \* the keys of _episodes, in insertion order
          buffer,             \* the values of _episodes
          call,               \* the call that holds the lock
          todo,               \* the paths it has still to write
          stage,              \* how far the write of the first of them is
          disk,               \* the document at each path
          older,              \* what a power loss may bring back at a path, in order
          litter,             \* directories that hold a temporary file
          up,                 \* the process runs
          failures,           \* writes that have failed
          promised            \* what calls have been asked and have answered

memory == <<started, finished, begun, buffer>>
storage == <<disk, older, litter>>
recorderVars == <<memory, call, todo, stage, storage, up, failures, promised>>

-----------------------------------------------------------------------------
(* Documents.                                                               *)

OpenMetrics ==
  [complete |-> FALSE, reason |-> "NONE", success |-> FALSE, timeout |-> FALSE, samples |-> 0]

CompleteMetrics(m) ==
  [complete |-> TRUE, reason |-> m.reason, success |-> m.success, timeout |-> m.timeout,
   samples |-> m.samples]

NoCall ==
  [op |-> "none", episode |-> Absent, metrics |-> OpenMetrics, trajectory |-> <<>>,
   complete |-> FALSE]

EmptyBuffer == [events |-> <<>>, complete |-> FALSE, reason |-> "NONE"]

SummaryDocument(complete) ==
  [complete |-> complete,
   counts   |-> [r \in Reasons |-> Cardinality({e \in Episodes :
                                      buffer[e].complete /\ buffer[e].reason = r})],
   episodes |-> [i \in DOMAIN begun |->
                   [episode  |-> begun[i], complete |-> buffer[begun[i]].complete,
                    reason   |-> buffer[begun[i]].reason]]]

MetadataDocument(complete) == [complete |-> complete]

EventsDocument(e) == buffer[e].events

(* The document that the call in progress writes at a path.                 *)
Document(p) ==
  CASE p = Config          -> Configured
    [] p = Metadata        -> MetadataDocument(call.complete)
    [] p = Summary         -> SummaryDocument(call.complete)
    [] p[2] = "episode"    -> p[1]
    [] p[2] = "events"     -> EventsDocument(p[1])
    [] p[2] = "trajectory" -> call.trajectory
    [] p[2] = "metrics"    -> call.metrics
    [] OTHER               -> Directory

IsDirectory(p) == p[2] = "." \/ p = EpisodesDirectory

-----------------------------------------------------------------------------
RecorderInit ==
  /\ started = FALSE /\ finished = FALSE
  /\ begun = <<>>
  /\ buffer = [e \in Episodes |-> EmptyBuffer]
  /\ call = NoCall /\ todo = <<>> /\ stage = "new"
  /\ disk = [p \in Paths |-> Absent]
  /\ older = [p \in Paths |-> <<>>]
  /\ litter = {}
  /\ up = TRUE /\ failures = 0
  /\ promised = [opened |-> {}, events |-> [e \in Episodes |-> <<>>],
                 results |-> [e \in Episodes |-> Absent], closed |-> "no"]

(* A call takes the lock, passes its guard and sets out to write; when      *)
(* start() has raised there is no node to call again.                       *)
Enters(c, paths) ==
  /\ up /\ call.op = "none"
  /\ c.op # "start" => "root" \in promised.opened
  /\ call' = c /\ todo' = paths /\ stage' = "new"
  /\ UNCHANGED <<started, finished, begun, storage, up, failures>>

Active == started /\ ~finished

Begun == {begun[i] : i \in DOMAIN begun}
Open(e) == e \in Begun /\ ~buffer[e].complete

(* Stands for the call of start() among the promises, where no episode has  *)
(* its name.                                                                *)
Asked == "episodes"

Start ==
  /\ disk[Entry(Root)] = Absent /\ ~started /\ Asked \notin promised.opened
  /\ Enters([NoCall EXCEPT !.op = "start"],
            <<Entry(Root), EpisodesDirectory, Config, Summary, Metadata>>)
  /\ promised' = [promised EXCEPT !.opened = {Asked}]
  /\ UNCHANGED buffer

(* The orchestrator begins an episode when the one before has been filed.   *)
BeginEpisode(e) ==
  /\ Active
  /\ Len(begun) < Len(Configured) /\ e = Configured[Len(begun) + 1]
  /\ Len(begun) > 0 => promised.results[begun[Len(begun)]] # Absent
  /\ disk[Entry(e)] = Absent
  /\ Enters([NoCall EXCEPT !.op = "begin", !.episode = e],
            <<Entry(e), <<e, "episode">>, <<e, "events">>, <<e, "trajectory">>,
              <<e, "metrics">>, Summary>>)
  /\ UNCHANGED <<buffer, promised>>

RecordEvent(e, text) ==
  /\ Active /\ Open(e)
  /\ promised.results[e] = Absent
  /\ Len(buffer[e].events) < MaxEvents
  /\ Enters([NoCall EXCEPT !.op = "record", !.episode = e], << <<e, "events">> >>)
  /\ buffer' = [buffer EXCEPT ![e].events =
                  Append(@, [sequence |-> Len(@), text |-> text])]
  /\ UNCHANGED promised

(* _validate_trajectory.                                                    *)
ValidTrajectory(points, count) ==
  /\ Len(points) = count
  /\ \A i, j \in DOMAIN points :
       i < j => points[i].time < points[j].time /\ points[i].frame = points[j].frame

(* fault: the commit marker of the episode is replaced first *)
MetricsFirst(e) == << <<e, "metrics">>, <<e, "trajectory">>, <<e, "events">>, Summary>>

CompletionOrder(e) == << <<e, "trajectory">>, <<e, "events">>, <<e, "metrics">>, Summary>>

CompleteEpisode(e, metrics, trajectory) ==
  /\ Active /\ Open(e)
  /\ promised.results[e] = Absent
  /\ ValidTrajectory(trajectory, metrics.samples)
  /\ Enters([NoCall EXCEPT !.op = "complete", !.episode = e,
                           !.metrics = CompleteMetrics(metrics), !.trajectory = trajectory],
            CompletionOrder(e))
  /\ promised' = [promised EXCEPT !.results[e] =
                    [metrics |-> CompleteMetrics(metrics), trajectory |-> trajectory]]
  /\ UNCHANGED buffer

(* fault: the manifest is replaced before the summary *)
ManifestFirst == <<Metadata, Summary>>

FinishOrder == <<Summary, Metadata>>

Finish(complete) ==
  /\ Active
  /\ complete => /\ Begun = Episodes
                 /\ \A e \in Episodes : buffer[e].complete
  /\ Enters([NoCall EXCEPT !.op = "finish", !.complete = complete], FinishOrder)
  /\ UNCHANGED <<buffer, promised>>

-----------------------------------------------------------------------------
(* The steps of a call.                                                     *)

(* What the call does in memory once the write of p has returned, and what  *)
(* its caller knows when it was the last one.                               *)
Wrote(p) ==
  LET last == Len(todo) = 1
      e == call.episode
  IN  /\ todo' = Tail(todo) /\ stage' = "new"
      /\ call' = IF last THEN NoCall ELSE call
      /\ started' = (started \/ p = EpisodesDirectory)
      /\ begun' = IF p[2] = "." /\ p[1] # Root THEN Append(begun, p[1]) ELSE begun
      /\ buffer' = IF call.op = "complete" /\ p[2] = "metrics"
                   THEN [buffer EXCEPT ![e].complete = TRUE, ![e].reason = call.metrics.reason]
                   ELSE buffer
      /\ finished' = (finished \/ (last /\ call.op = "finish"))
      /\ promised' =
           IF ~last THEN promised
           ELSE CASE call.op = "start"    -> [promised EXCEPT !.opened = @ \cup {"root"}]
                  [] call.op = "begin"    -> [promised EXCEPT !.opened = @ \cup {e}]
                  [] call.op = "record"   -> [promised EXCEPT !.events[e] = buffer[e].events]
                  [] call.op = "complete" -> promised
                  [] call.op = "finish"   ->
                       [promised EXCEPT !.closed = IF call.complete THEN "complete" ELSE "partial"]

MakeDirectory ==
  /\ up /\ todo # <<>> /\ IsDirectory(Head(todo))
  /\ LET p == Head(todo)
     IN  /\ disk' = [disk EXCEPT ![p] = Directory]
         /\ older' = [older EXCEPT ![p] = <<Absent>>]
         /\ Wrote(p)
  /\ UNCHANGED <<litter, up, failures>>

(* fault: the temporary file of a failed write stays *)
LeftBehind(d) == litter

Unlinked(d) == litter \ {d}

(* The temporary file is written and its content synced.                    *)
WriteTemporary ==
  /\ up /\ todo # <<>> /\ ~IsDirectory(Head(todo))
  /\ stage = "new"
  /\ stage' = "written"
  /\ litter' = litter \cup {Head(todo)[1]}
  /\ UNCHANGED <<memory, call, todo, disk, older, up, failures, promised>>

Replace ==
  /\ up /\ stage = "written"
  /\ LET p == Head(todo)
     IN  /\ disk' = [disk EXCEPT ![p] = Document(p)]
         /\ older' = [older EXCEPT ![p] = Append(@, disk[p])]
         /\ litter' = Unlinked(p[1])
  /\ stage' = "replaced"
  /\ UNCHANGED <<memory, call, todo, up, failures, promised>>

(* fault: the directory is not synced after the rename *)
NotSynced(d) == older

(* The fsync makes the names in a directory durable, the entry of the       *)
(* directory itself only on some file systems.                              *)
Synced(d) ==
  [p \in Paths |-> IF p[1] = d /\ (p[2] = "." => EntriesSynced) THEN <<>> ELSE older[p]]

SyncDirectory ==
  /\ up /\ stage = "replaced"
  /\ older' = Synced(Head(todo)[1])
  /\ Wrote(Head(todo))
  /\ UNCHANGED <<disk, litter, up, failures>>

(* A step of the write raises: the temporary file is removed, what has been *)
(* replaced stays, and the exception leaves the call.                       *)
WriteFails ==
  /\ up /\ todo # <<>>
  /\ failures < MaxFailures /\ failures' = failures + 1
  /\ litter' = Unlinked(Head(todo)[1])
  /\ buffer' = IF call.op = "record"
               THEN [buffer EXCEPT ![call.episode].events = SubSeq(@, 1, Len(@) - 1)]
               ELSE buffer
  /\ promised' = IF call.op = "finish" /\ call.complete
                 THEN [promised EXCEPT !.closed = "failed"] ELSE promised
  /\ call' = NoCall /\ todo' = <<>> /\ stage' = "new"
  /\ UNCHANGED <<started, finished, begun, disk, older, up>>

-----------------------------------------------------------------------------
(* Crashes.                                                                 *)

(* The process dies and the files stay as they are.                         *)
Crash ==
  /\ up /\ up' = FALSE
  /\ UNCHANGED <<memory, call, todo, stage, storage, failures, promised>>

(* Any name that has not been synced may come back older; a directory       *)
(* without its entry takes everything in it along.                          *)
PowerLoss ==
  /\ up
  /\ LET unsynced == {p \in Paths : older[p] # <<>>}
     IN  \E age \in [unsynced -> 0..(MaxFailures + 1)] :
           /\ \A p \in unsynced : age[p] <= Len(older[p])
           /\ LET left == [p \in Paths |-> IF p \in unsynced /\ age[p] > 0
                                          THEN older[p][age[p]] ELSE disk[p]]
                  Gone(d) == left[Entry(d)] = Absent
              IN  disk' = [p \in Paths |->
                             IF Gone(Root) \/ Gone(p[1])
                                  \/ (p[1] # Root /\ left[EpisodesDirectory] = Absent)
                             THEN Absent ELSE left[p]]
  /\ older' = [p \in Paths |-> <<>>]
  /\ \E kept \in SUBSET litter : litter' = kept
  /\ up' = FALSE
  /\ UNCHANGED <<memory, call, todo, stage, failures, promised>>

Calls ==
  \/ Start
  \/ \E e \in Episodes : BeginEpisode(e)
  \/ \E e \in Episodes, text \in Texts : RecordEvent(e, text)
  \/ \E e \in Episodes, m \in Metrics, t \in Trajectories : CompleteEpisode(e, m, t)
  \/ \E complete \in BOOLEAN : Finish(complete)

Writes == MakeDirectory \/ WriteTemporary \/ Replace \/ SyncDirectory \/ WriteFails

RecorderNext == Calls \/ Writes \/ Crash \/ PowerLoss

=============================================================================
