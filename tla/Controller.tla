----------------------------- MODULE Controller -----------------------------
(***************************************************************************)
(* ExperimentController (rh_experiment/controller.py): the ordered         *)
(* multi-episode lifecycle, without ROS.                                   *)
(*                                                                         *)
(* Each method is an operator from the controller's state to its next      *)
(* state, so that the orchestrator can call two of them under one lock.    *)
(* A method that can raise also has a predicate Can... that says when it   *)
(* returns.  CtlSpec lets any method be called at any time, the contract   *)
(* the class offers to every caller; Orchestrator.tla is the one caller    *)
(* the repository has.                                                     *)
(***************************************************************************)
EXTENDS Lifecycle, Sequences

CONSTANT NumEpisodes     \* the length of the configured episode list

ASSUME NumEpisodesAssumption == NumEpisodes \in Nat \ {0}

VARIABLE ctl             \* the fields of the one ExperimentController

EpisodeIds == 1..NumEpisodes

(* What a request may name: an episode of this experiment, or (0) an        *)
(* episode or an experiment that is not this one.                           *)
TargetIds == 0..NumEpisodes

-----------------------------------------------------------------------------
InitialController ==
  [ experiment |-> "STARTING",
    index      |-> 1,
    episode    |-> NewEpisode(1),
    completed  |-> << >> ]

HasNextEpisode(c) == c.index < NumEpisodes

CanMarkComponentsReady(c) == "RUNNING" \in ExperimentTransitions[c.experiment]
MarkComponentsReady(c) == [c EXCEPT !.experiment = "RUNNING"]

CanMarkPrepared(c) == CanMoveEpisode(c.episode, "READY", "NONE")
MarkPrepared(c) == [c EXCEPT !.episode = MoveEpisode(@, "READY", "NONE")]

StartAccepted(c, id) == id = c.episode.id /\ c.episode.state = "READY"
RequestStart(c) == [c EXCEPT !.episode = MoveEpisode(@, "RUNNING", "NONE")]

(* fault: the state of the episode is not looked at *)
TerminationAcceptedAnyState(c, reason) == reason # "NONE"

TerminationAccepted(c, reason) ==
  reason # "NONE" /\ c.episode.state \in OpenStates
RequestTermination(c, reason) ==
  [c EXCEPT !.episode = MoveEpisode(@, "TERMINATING", reason)]

(* request_abort: the identity of the request, then request_termination;    *)
(* reason is "ABORTED", or "NONE" when the operator gave a blank text.      *)
AbortAccepted(c, id, reason) ==
  id = c.episode.id /\ TerminationAccepted(c, reason)

FailExperiment(c) ==
  IF c.experiment \in {"STARTING", "RUNNING"}
    THEN [c EXCEPT !.experiment = "FAILED"]
    ELSE c

CanFinishTermination(c) == CanMoveEpisode(c.episode, "FINISHED", "NONE")

(* fault: a stopped experiment returns before its last episode is filed *)
FinishTerminationUnfiled(c, stopExperiment) ==
  LET finished == MoveEpisode(c.episode, "FINISHED", "NONE")
  IN  IF stopExperiment
        THEN FailExperiment([c EXCEPT !.episode = finished])
        ELSE [c EXCEPT !.episode = finished, !.completed = Append(@, finished)]

(* finish_termination: RUNNING passes through FINALIZING to FINISHED under  *)
(* one lock; an experiment that never left STARTING fails.                  *)
FinishTermination(c, stopExperiment) ==
  LET finished == MoveEpisode(c.episode, "FINISHED", "NONE")
      closed == [c EXCEPT !.episode = finished, !.completed = Append(@, finished)]
  IN  IF stopExperiment
        THEN FailExperiment(closed)
        ELSE [closed EXCEPT !.experiment =
                CASE @ = "RUNNING" /\ ~HasNextEpisode(c) -> "FINISHED"
                  [] @ = "STARTING"                      -> "FAILED"
                  [] OTHER                               -> @]

CanAdvanceEpisode(c) ==
  /\ c.episode.state = "FINISHED"
  /\ HasNextEpisode(c)
  /\ c.experiment = "RUNNING"

(* fault: the snapshot is renamed and rewound, its sequence number kept *)
AdvanceEpisodeKeepingSequence(c) ==
  [c EXCEPT !.index = @ + 1,
            !.episode = [NewEpisode(c.index + 1)
                           EXCEPT !.sequence = c.episode.sequence]]

AdvanceEpisode(c) ==
  [c EXCEPT !.index = @ + 1, !.episode = NewEpisode(c.index + 1)]

-----------------------------------------------------------------------------
(* One action per method, called in any order; a call that raises or is     *)
(* refused changes nothing.                                                 *)

CtlInit == ctl = InitialController

DoMarkComponentsReady ==
  CanMarkComponentsReady(ctl) /\ ctl' = MarkComponentsReady(ctl)

DoMarkPrepared == CanMarkPrepared(ctl) /\ ctl' = MarkPrepared(ctl)

DoRequestStart ==
  \E id \in TargetIds : StartAccepted(ctl, id) /\ ctl' = RequestStart(ctl)

DoRequestTermination ==
  \E reason \in Reasons :
    TerminationAccepted(ctl, reason) /\ ctl' = RequestTermination(ctl, reason)

DoRequestAbort ==
  \E id \in TargetIds, reason \in {"ABORTED", "NONE"} :
    AbortAccepted(ctl, id, reason) /\ ctl' = RequestTermination(ctl, reason)

DoFinishTermination ==
  \E stopExperiment \in BOOLEAN :
    CanFinishTermination(ctl) /\ ctl' = FinishTermination(ctl, stopExperiment)

DoAdvanceEpisode == CanAdvanceEpisode(ctl) /\ ctl' = AdvanceEpisode(ctl)

DoFailExperiment == ctl' = FailExperiment(ctl)

CtlNext ==
  \/ DoMarkComponentsReady
  \/ DoMarkPrepared
  \/ DoRequestStart
  \/ DoRequestTermination
  \/ DoRequestAbort
  \/ DoFinishTermination
  \/ DoAdvanceEpisode
  \/ DoFailExperiment

CtlSpec == CtlInit /\ [][CtlNext]_ctl

-----------------------------------------------------------------------------
Snapshots ==
  [id : EpisodeIds, state : EpisodeStates, reason : Reasons \cup {"NONE"},
   sequence : 0..4]

(* Type of the controller's state, controller.py:43-49; in particular the   *)
(* sequence number of a snapshot never passes 4, so that the uint64 limit   *)
(* of lifecycle.py:185 is never met.                                        *)
CtlTypeOK ==
  ctl \in [ experiment : ExperimentStates,
            index      : EpisodeIds,
            episode    : Snapshots,
            completed  : Seq(Snapshots) ]

(* The completed list holds the snapshots of the episodes 1, 2, ... in the  *)
(* configured order, each one finished with a reason, and misses only the   *)
(* episode that is still open: no episode is skipped, closed twice or       *)
(* closed out of order, whatever the order of the calls.                    *)
CompletedInOrder ==
  /\ Len(ctl.completed) =
       IF ctl.episode.state = "FINISHED" THEN ctl.index ELSE ctl.index - 1
  /\ \A k \in 1..Len(ctl.completed) :
       /\ ctl.completed[k].id = k
       /\ ctl.completed[k].state = "FINISHED"
       /\ ctl.completed[k].reason # "NONE"

(* A FINISHED experiment has run its whole list: "finished" is never said   *)
(* of an experiment with an episode missing.                                *)
FinishedRanAll ==
  ctl.experiment = "FINISHED" => Len(ctl.completed) = NumEpisodes

(* The inductive invariant behind these: a snapshot has the sequence number *)
(* and the reason of its state, and is that of the episode at the index; a  *)
(* finished experiment is at the end of its list.                           *)
SnapshotOK(e) ==
  /\ e.state = "PREPARING"   => e.sequence = 0
  /\ e.state = "READY"       => e.sequence = 1
  /\ e.state = "RUNNING"     => e.sequence = 2
  /\ e.state = "TERMINATING" => e.sequence <= 3
  /\ e.reason = "NONE" <=> e.state \in OpenStates

CtlInv ==
  /\ SnapshotOK(ctl.episode)
  /\ ctl.episode.id = ctl.index
  /\ CompletedInOrder
  /\ ctl.experiment \notin {"CREATED", "FINALIZING"}
  /\ ctl.experiment = "FINISHED" =>
       ctl.index = NumEpisodes /\ ctl.episode.state = "FINISHED"

(* What a subscriber of the state topic may rely on: between two different  *)
(* snapshots of one episode the sequence number grows, and a reason that    *)
(* was committed is the reason of every later snapshot.                     *)
SnapshotsProgress ==
  [][ ctl'.episode # ctl.episode /\ ctl'.index = ctl.index
        => /\ ctl'.episode.sequence > ctl.episode.sequence
           /\ ctl.episode.reason # "NONE"
                => ctl'.episode.reason = ctl.episode.reason ]_ctl

-----------------------------------------------------------------------------
(* The controller keeps the ledger of VerdictLedger.tla: the committed      *)
(* reasons of the completed episodes and, while it is terminating, of the   *)
(* current one.                                                             *)
VerdictsOf(c) ==
  LET given == IF c.episode.state = "TERMINATING"
                 THEN Append(c.completed, c.episode)
                 ELSE c.completed
  IN  [k \in 1..Len(given) |-> given[k].reason]

OutcomeOf(c) ==
  CASE c.experiment = "FINISHED" -> "complete"
    [] c.experiment = "FAILED"   -> "failed"
    [] OTHER                     -> "open"

Ledger == INSTANCE VerdictLedger
            WITH opened   <- ctl.index,
                 verdicts <- VerdictsOf(ctl),
                 outcome  <- OutcomeOf(ctl)

(* Every behaviour of the controller is one of the ledger: in particular no *)
(* verdict already given ever changes and nothing follows the end of an     *)
(* experiment but the verdict on the episode that was open.                 *)
KeepsLedger == Ledger!Spec
=============================================================================
