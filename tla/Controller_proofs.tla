-------------------------- MODULE Controller_proofs --------------------------
(***************************************************************************)
(* What Controller.cfg checks for three episodes, for every length of the  *)
(* episode list and every width of the sequence number that the            *)
(* assumptions of the modules allow.                                       *)
(***************************************************************************)
EXTENDS Controller, SequenceTheorems, TLAPS

IInv == CtlTypeOK /\ CtlInv

-----------------------------------------------------------------------------
(* The absent argument is not one of the reasons, and ABORTED is one.       *)
LEMMA ReasonFacts == "NONE" \notin Reasons /\ "ABORTED" \in Reasons
BY DEF Reasons, TerminationPriority

(* A transition that returns, from a well-formed snapshot, gives one of the *)
(* same episode, with the state asked for and the next sequence number.     *)
LEMMA MoveFacts ==
  ASSUME NEW e \in Snapshots, SnapshotOK(e),
         NEW target \in EpisodeStates,
         NEW reason \in Reasons \cup {"NONE"},
         target \in EpisodeTransitions[e.state],
         target = "TERMINATING" <=> reason # "NONE"
  PROVE  LET m == MoveEpisode(e, target, reason)
         IN  /\ m \in Snapshots
             /\ SnapshotOK(m)
             /\ m.id = e.id
             /\ m.state = target
             /\ m.sequence = e.sequence + 1
             /\ m.reason = IF e.reason # "NONE" THEN e.reason ELSE reason
<1> DEFINE m == MoveEpisode(e, target, reason)
<1>1. /\ e.id \in EpisodeIds
      /\ e.state \in EpisodeStates
      /\ e.reason \in Reasons \cup {"NONE"}
      /\ e.sequence \in 0..4
      /\ e = [id |-> e.id, state |-> e.state, reason |-> e.reason,
              sequence |-> e.sequence]
  BY DEF Snapshots
<1>2. m = [id |-> e.id, state |-> target,
           reason |-> IF e.reason # "NONE" THEN e.reason ELSE reason,
           sequence |-> e.sequence + 1]
  <2>1. CASE e.reason = "NONE"
    <3>1. m = [e EXCEPT !.state = target, !.reason = reason,
                        !.sequence = e.sequence + 1]
      BY <2>1 DEF MoveEpisode
    <3> HIDE DEF m
    <3> QED BY <1>1, <2>1, <3>1
  <2>2. CASE e.reason # "NONE"
    <3>1. m = [e EXCEPT !.state = target, !.reason = e.reason,
                        !.sequence = e.sequence + 1]
      BY <2>2 DEF MoveEpisode
    <3> HIDE DEF m
    <3> QED BY <1>1, <2>2, <3>1
  <2> QED BY <2>1, <2>2
<1>3. \/ e.state = "PREPARING" /\ target \in {"READY", "TERMINATING"}
      \/ e.state = "READY" /\ target \in {"RUNNING", "TERMINATING"}
      \/ e.state = "RUNNING" /\ target = "TERMINATING"
      \/ e.state = "TERMINATING" /\ target = "FINISHED"
  BY <1>1 DEF EpisodeTransitions, EpisodeStates
<1>4. e.sequence <= 3
  BY <1>1, <1>3 DEF SnapshotOK
<1>5. m \in Snapshots
  BY <1>1, <1>2, <1>4 DEF Snapshots
<1>6. SnapshotOK(m)
  <2>1. m.sequence = e.sequence + 1 /\ m.state = target
        /\ m.reason = IF e.reason # "NONE" THEN e.reason ELSE reason
    BY <1>2
  <2>2. m.reason = "NONE" <=> m.state \in OpenStates
    BY <2>1, <1>3 DEF SnapshotOK, OpenStates
  <2> QED BY <2>1, <2>2, <1>1, <1>3, <1>4 DEF SnapshotOK
<1> QED BY <1>2, <1>5, <1>6

(* The first snapshot of an episode is well-formed.                         *)
LEMMA NewFacts ==
  ASSUME NEW id \in EpisodeIds
  PROVE  /\ NewEpisode(id) \in Snapshots
         /\ SnapshotOK(NewEpisode(id))
         /\ NewEpisode(id).id = id
         /\ NewEpisode(id).state = "PREPARING"
         /\ NewEpisode(id).reason = "NONE"
BY ReasonFacts DEF NewEpisode, Snapshots, SnapshotOK, OpenStates, EpisodeStates

-----------------------------------------------------------------------------
(* What the invariant says of the fields, for use in the steps below.       *)
LEMMA Fields ==
  ASSUME IInv
  PROVE  /\ ctl = [experiment |-> ctl.experiment, index |-> ctl.index,
                   episode |-> ctl.episode, completed |-> ctl.completed]
         /\ ctl.experiment \in ExperimentStates
         /\ ctl.index \in EpisodeIds
         /\ ctl.episode \in Snapshots
         /\ ctl.episode.state \in EpisodeStates
         /\ ctl.episode.reason \in Reasons \cup {"NONE"}
         /\ ctl.episode.sequence \in 0..4
         /\ ctl.completed \in Seq(Snapshots)
         /\ SnapshotOK(ctl.episode)
         /\ ctl.episode.id = ctl.index
         /\ CompletedInOrder
         /\ ctl.experiment \notin {"CREATED", "FINALIZING"}
         /\ ctl.experiment = "FINISHED" =>
              ctl.index = NumEpisodes /\ ctl.episode.state = "FINISHED"
BY DEF IInv, CtlTypeOK, CtlInv, Snapshots

(* A method that moves the current episode along the table and touches      *)
(* nothing else, short of finishing it.                                     *)
LEMMA MovePreserves ==
  ASSUME IInv,
         NEW target \in {"READY", "RUNNING", "TERMINATING"},
         NEW reason \in Reasons \cup {"NONE"},
         target \in EpisodeTransitions[ctl.episode.state],
         target = "TERMINATING" <=> reason # "NONE",
         ctl' = [ctl EXCEPT !.episode = MoveEpisode(@, target, reason)]
  PROVE  /\ IInv'
         /\ ctl'.episode = MoveEpisode(ctl.episode, target, reason)
         /\ ctl'.episode.state = target
         /\ ctl'.episode.sequence = ctl.episode.sequence + 1
         /\ ctl'.episode.reason = IF ctl.episode.reason # "NONE"
                                    THEN ctl.episode.reason ELSE reason
         /\ UNCHANGED <<ctl.experiment, ctl.index, ctl.completed>>
<1> DEFINE m == MoveEpisode(ctl.episode, target, reason)
<1>1. target \in EpisodeStates
  BY DEF EpisodeStates
<1>2. /\ m \in Snapshots /\ SnapshotOK(m) /\ m.id = ctl.episode.id
      /\ m.state = target /\ m.sequence = ctl.episode.sequence + 1
      /\ m.reason = IF ctl.episode.reason # "NONE"
                      THEN ctl.episode.reason ELSE reason
  BY Fields, MoveFacts, <1>1
<1>3. /\ ctl' = [experiment |-> ctl.experiment, index |-> ctl.index,
                 episode |-> m, completed |-> ctl.completed]
  BY Fields
<1> HIDE DEF m
<1>4. ctl.episode.state # "FINISHED" /\ m.state # "FINISHED"
  BY Fields, <1>2 DEF EpisodeTransitions, EpisodeStates
<1>5. CtlTypeOK'
  BY Fields, <1>2, <1>3 DEF CtlTypeOK
<1>6. CompletedInOrder'
  BY Fields, <1>3, <1>4 DEF CompletedInOrder
<1>7. CtlInv'
  BY Fields, <1>2, <1>3, <1>4, <1>6 DEF CtlInv, SnapshotOK
<1> QED BY <1>2, <1>3, <1>5, <1>7 DEF IInv, m

(* finish_termination files the snapshot of the episode that was open.      *)
LEMMA FinishPreserves ==
  ASSUME IInv, NEW stopExperiment \in BOOLEAN,
         CanFinishTermination(ctl),
         ctl' = FinishTermination(ctl, stopExperiment)
  PROVE  /\ IInv'
         /\ ctl.episode.state = "TERMINATING"
         /\ ctl'.episode.state = "FINISHED"
         /\ ctl'.episode.sequence = ctl.episode.sequence + 1
         /\ ctl'.episode.reason = ctl.episode.reason
         /\ ctl'.index = ctl.index
         /\ ctl'.completed = Append(ctl.completed, ctl'.episode)
         /\ ctl'.experiment \in {ctl.experiment, "FINISHED", "FAILED"}
         /\ ctl.experiment \in {"FINISHED", "FAILED"} =>
              ctl'.experiment = ctl.experiment
         /\ ctl'.experiment = "FINISHED" => ctl.index = NumEpisodes
<1> DEFINE m == MoveEpisode(ctl.episode, "FINISHED", "NONE")
           x == ctl'.experiment
<1>1. ctl.episode.state = "TERMINATING"
  BY Fields DEF CanFinishTermination, CanMoveEpisode, EpisodeTransitions,
                EpisodeStates
<1>2. ctl.episode.reason # "NONE"
  BY Fields, <1>1 DEF SnapshotOK, OpenStates
<1>3. /\ m \in Snapshots /\ SnapshotOK(m) /\ m.id = ctl.episode.id
      /\ m.state = "FINISHED" /\ m.sequence = ctl.episode.sequence + 1
      /\ m.reason = ctl.episode.reason
  BY Fields, MoveFacts, <1>1, <1>2 DEF EpisodeTransitions, EpisodeStates
<1> HIDE DEF m
<1>4. /\ ctl' = [experiment |-> x, index |-> ctl.index, episode |-> m,
                 completed |-> Append(ctl.completed, m)]
      /\ x \in {ctl.experiment, "FINISHED", "FAILED"}
      /\ ctl.experiment \in {"FINISHED", "FAILED"} => x = ctl.experiment
      /\ x = "FINISHED" /\ ctl.experiment # "FINISHED" => ~HasNextEpisode(ctl)
  BY Fields DEF FinishTermination, FailExperiment, m
<1>5. x = "FINISHED" => ctl.index = NumEpisodes
  BY <1>4, Fields, NumEpisodesAssumption DEF HasNextEpisode, EpisodeIds
<1>6. CtlTypeOK'
  <2>1. Append(ctl.completed, m) \in Seq(Snapshots)
    BY Fields, <1>3, AppendProperties
  <2>2. x \in ExperimentStates
    BY Fields, <1>4 DEF ExperimentStates
  <2> HIDE DEF x
  <2> QED BY <2>1, <2>2, Fields, <1>3, <1>4 DEF CtlTypeOK
<1>7. CompletedInOrder'
  <2>1. /\ Len(ctl.completed) = ctl.index - 1
        /\ \A k \in 1..Len(ctl.completed) :
             /\ ctl.completed[k].id = k
             /\ ctl.completed[k].state = "FINISHED"
             /\ ctl.completed[k].reason # "NONE"
    BY Fields, <1>1 DEF CompletedInOrder
  <2>2. /\ ctl'.completed = Append(ctl.completed, m)
        /\ ctl'.index = ctl.index /\ ctl'.episode = m
    BY <1>4
  <2>3. /\ Len(ctl'.completed) = ctl.index
        /\ \A k \in 1..(ctl.index - 1) : ctl'.completed[k] = ctl.completed[k]
        /\ ctl'.completed[ctl.index] = m
    BY Fields, <1>3, <2>1, <2>2, AppendProperties DEF EpisodeIds
  <2>4. m.id = ctl.index /\ m.state = "FINISHED" /\ m.reason # "NONE"
    BY Fields, <1>2, <1>3
  <2>5. ASSUME NEW k \in 1..ctl.index
        PROVE  /\ ctl'.completed[k].id = k
               /\ ctl'.completed[k].state = "FINISHED"
               /\ ctl'.completed[k].reason # "NONE"
    <3>1. CASE k = ctl.index
      BY <3>1, <2>3, <2>4
    <3>2. CASE k \in 1..(ctl.index - 1)
      BY <3>2, <2>1, <2>3
    <3> QED BY <3>1, <3>2, Fields, NumEpisodesAssumption DEF EpisodeIds
  <2> QED BY <2>2, <2>3, <2>4, <2>5 DEF CompletedInOrder
<1>8. CtlInv'
  <2>1. /\ SnapshotOK(ctl.episode)' /\ (ctl.episode.id = ctl.index)'
    BY Fields, <1>3, <1>4 DEF SnapshotOK
  <2>2. x \notin {"CREATED", "FINALIZING"}
    BY Fields, <1>4
  <2> QED BY <2>1, <2>2, <1>3, <1>4, <1>5, <1>7 DEF CtlInv
<1> QED BY <1>1, <1>3, <1>4, <1>5, <1>6, <1>8 DEF IInv

(* _advance_episode opens the next episode of the list.                     *)
LEMMA AdvancePreserves ==
  ASSUME IInv, DoAdvanceEpisode
  PROVE  /\ IInv'
         /\ ctl.episode.state = "FINISHED"
         /\ ctl.experiment = "RUNNING" /\ ctl'.experiment = "RUNNING"
         /\ ctl.index < NumEpisodes /\ ctl'.index = ctl.index + 1
         /\ ctl'.episode.state = "PREPARING"
         /\ ctl'.completed = ctl.completed
<1> DEFINE n == NewEpisode(ctl.index + 1)
<1>1. /\ ctl.episode.state = "FINISHED"
      /\ ctl.index < NumEpisodes
      /\ ctl.experiment = "RUNNING"
  BY DEF DoAdvanceEpisode, CanAdvanceEpisode, HasNextEpisode
<1>2. ctl.index + 1 \in EpisodeIds
  BY Fields, <1>1, NumEpisodesAssumption DEF EpisodeIds
<1>3. /\ n \in Snapshots /\ SnapshotOK(n) /\ n.id = ctl.index + 1
      /\ n.state = "PREPARING"
  BY <1>2, NewFacts
<1>4. ctl' = [experiment |-> "RUNNING", index |-> ctl.index + 1,
              episode |-> n, completed |-> ctl.completed]
  BY Fields, <1>1 DEF DoAdvanceEpisode, AdvanceEpisode
<1> HIDE DEF n
<1>5. CtlTypeOK'
  BY Fields, <1>2, <1>3, <1>4 DEF CtlTypeOK, ExperimentStates
<1>6. CompletedInOrder'
  BY Fields, <1>1, <1>2, <1>3, <1>4 DEF CompletedInOrder, EpisodeIds
<1>7. CtlInv'
  BY <1>3, <1>4, <1>6 DEF CtlInv, SnapshotOK
<1> QED BY <1>1, <1>3, <1>4, <1>5, <1>7 DEF IInv

(* A method that touches only the state of the experiment, and does not     *)
(* finish it.                                                               *)
LEMMA ExperimentPreserves ==
  ASSUME IInv, NEW x \in {"RUNNING", "FAILED", ctl.experiment},
         ctl' = [ctl EXCEPT !.experiment = x]
  PROVE  /\ IInv' /\ ctl'.experiment = x
         /\ UNCHANGED <<ctl.index, ctl.episode, ctl.completed>>
<1>1. ctl' = [experiment |-> x, index |-> ctl.index,
              episode |-> ctl.episode, completed |-> ctl.completed]
  BY Fields
<1>2. CtlTypeOK'
  BY <1>1, Fields DEF CtlTypeOK, ExperimentStates
<1>3. CompletedInOrder'
  BY <1>1, Fields DEF CompletedInOrder
<1>4. CtlInv'
  BY <1>1, <1>3, Fields DEF CtlInv, SnapshotOK
<1> QED BY <1>1, <1>2, <1>4 DEF IInv

(* The same when the experiment fails in the step that ends the episode, as *)
(* an infrastructure failure makes it.                                      *)
LEMMA FailAndMovePreserves ==
  ASSUME IInv,
         NEW x \in {"FAILED", ctl.experiment},
         NEW reason \in Reasons,
         "TERMINATING" \in EpisodeTransitions[ctl.episode.state],
         ctl' = [experiment |-> x, index |-> ctl.index,
                 episode    |-> MoveEpisode(ctl.episode, "TERMINATING", reason),
                 completed  |-> ctl.completed]
  PROVE  /\ IInv'
         /\ ctl'.episode.state = "TERMINATING"
         /\ ctl'.episode.sequence = ctl.episode.sequence + 1
         /\ ctl'.episode.reason = reason
<1> DEFINE m == MoveEpisode(ctl.episode, "TERMINATING", reason)
<1>1. /\ m \in Snapshots /\ SnapshotOK(m) /\ m.id = ctl.episode.id
      /\ m.state = "TERMINATING" /\ m.sequence = ctl.episode.sequence + 1
      /\ m.reason = IF ctl.episode.reason # "NONE"
                      THEN ctl.episode.reason ELSE reason
  BY Fields, ReasonFacts, MoveFacts DEF EpisodeStates
<1> HIDE DEF m
<1>2. ctl.episode.state \in OpenStates /\ ctl.episode.reason = "NONE"
  BY Fields DEF EpisodeTransitions, EpisodeStates, OpenStates, SnapshotOK
<1>3. ctl' = [experiment |-> x, index |-> ctl.index, episode |-> m,
              completed |-> ctl.completed]
  BY DEF m
<1>4. CtlTypeOK'
  BY Fields, <1>1, <1>3 DEF CtlTypeOK, ExperimentStates
<1>5. CompletedInOrder'
  BY Fields, <1>1, <1>2, <1>3 DEF CompletedInOrder, OpenStates
<1>6. CtlInv'
  <2>1. x # "FINISHED"
    BY <1>2, Fields DEF OpenStates
  <2> QED BY Fields, <1>1, <1>3, <1>5, <2>1 DEF CtlInv, SnapshotOK
<1> QED BY <1>1, <1>2, <1>3, <1>4, <1>6 DEF IInv

-----------------------------------------------------------------------------
(* The three requests are moves of the table: each guard, which does not    *)
(* mention the table, implies that the transition it makes is in it.        *)
LEMMA RequestFacts ==
  ASSUME IInv
  PROVE  /\ DoMarkPrepared => "READY" \in EpisodeTransitions[ctl.episode.state]
         /\ DoRequestStart => "RUNNING" \in EpisodeTransitions[ctl.episode.state]
         /\ DoRequestTermination \/ DoRequestAbort =>
              /\ "TERMINATING" \in EpisodeTransitions[ctl.episode.state]
              /\ \E reason \in Reasons : ctl' = RequestTermination(ctl, reason)
<1>1. DoMarkPrepared => "READY" \in EpisodeTransitions[ctl.episode.state]
  BY DEF DoMarkPrepared, CanMarkPrepared, CanMoveEpisode
<1>2. DoRequestStart => "RUNNING" \in EpisodeTransitions[ctl.episode.state]
  BY DEF DoRequestStart, StartAccepted, EpisodeTransitions
<1>3. ctl.episode.state \in OpenStates =>
        "TERMINATING" \in EpisodeTransitions[ctl.episode.state]
  BY DEF OpenStates, EpisodeTransitions
<1>4. DoRequestAbort => /\ ctl.episode.state \in OpenStates
                        /\ ctl' = RequestTermination(ctl, "ABORTED")
  BY DEF DoRequestAbort, AbortAccepted, TerminationAccepted
<1>5. DoRequestTermination =>
        /\ ctl.episode.state \in OpenStates
        /\ \E reason \in Reasons : ctl' = RequestTermination(ctl, reason)
  BY DEF DoRequestTermination, TerminationAccepted
<1> QED BY <1>1, <1>2, <1>3, <1>4, <1>5, ReasonFacts

(* The invariant is inductive.                                              *)
LEMMA InitIInv == CtlInit => IInv
<1> SUFFICES ASSUME CtlInit PROVE IInv
  OBVIOUS
<1>1. 1 \in EpisodeIds
  BY NumEpisodesAssumption DEF EpisodeIds
<1>2. /\ NewEpisode(1) \in Snapshots /\ SnapshotOK(NewEpisode(1))
      /\ NewEpisode(1).id = 1 /\ NewEpisode(1).state = "PREPARING"
  BY <1>1, NewFacts
<1>3. ctl = [experiment |-> "STARTING", index |-> 1,
             episode |-> NewEpisode(1), completed |-> << >>]
  BY DEF CtlInit, InitialController
<1>4. << >> \in Seq(Snapshots) /\ Len(<< >>) = 0
  BY EmptySeq
<1>5. CtlTypeOK
  BY <1>1, <1>2, <1>3, <1>4 DEF CtlTypeOK, ExperimentStates
<1>6. CompletedInOrder
  BY <1>2, <1>3, <1>4 DEF CompletedInOrder
<1> QED BY <1>2, <1>3, <1>5, <1>6 DEF IInv, CtlInv

LEMMA StepIInv == IInv /\ [CtlNext]_ctl => IInv'
<1> SUFFICES ASSUME IInv, [CtlNext]_ctl PROVE IInv'
  OBVIOUS
<1>1. CASE DoMarkComponentsReady
  BY <1>1, ExperimentPreserves DEF DoMarkComponentsReady, MarkComponentsReady
<1>2. CASE DoMarkPrepared
  BY <1>2, RequestFacts, MovePreserves DEF DoMarkPrepared, MarkPrepared
<1>3. CASE DoRequestStart
  BY <1>3, RequestFacts, MovePreserves DEF DoRequestStart, RequestStart
<1>4. CASE DoRequestTermination \/ DoRequestAbort
  <2>1. PICK reason \in Reasons : ctl' = RequestTermination(ctl, reason)
    BY <1>4, RequestFacts
  <2> QED BY <1>4, <2>1, RequestFacts, ReasonFacts, MovePreserves
          DEF RequestTermination
<1>5. CASE DoFinishTermination
  BY <1>5, FinishPreserves DEF DoFinishTermination
<1>6. CASE DoAdvanceEpisode
  BY <1>6, AdvancePreserves
<1>7. CASE DoFailExperiment
  <2>1. ctl' = [ctl EXCEPT !.experiment = "FAILED"]
        \/ ctl' = [ctl EXCEPT !.experiment = ctl.experiment]
    BY <1>7, Fields DEF DoFailExperiment, FailExperiment
  <2> QED BY <2>1, ExperimentPreserves
<1>8. CASE UNCHANGED ctl
  BY <1>8 DEF IInv, CtlTypeOK, CtlInv, CompletedInOrder, SnapshotOK
<1> QED BY <1>1, <1>2, <1>3, <1>4, <1>5, <1>6, <1>7, <1>8 DEF CtlNext

LEMMA InvariantHolds == CtlSpec => []IInv
BY InitIInv, StepIInv, PTL DEF CtlSpec

-----------------------------------------------------------------------------
(* The state of the controller has its type for every list of episodes and  *)
(* every order of the calls; no snapshot needs a sequence number above 4,   *)
(* so EpisodeLifecycle.transition never meets the uint64 limit.             *)
THEOREM CtlTypeCorrect == CtlSpec => []CtlTypeOK
<1>1. IInv => CtlTypeOK
  BY DEF IInv
<1> QED BY <1>1, InvariantHolds, PTL

(* The inductive invariant of the controller.                               *)
THEOREM CtlInvHolds == CtlSpec => []CtlInv
<1>1. IInv => CtlInv
  BY DEF IInv
<1> QED BY <1>1, InvariantHolds, PTL

(* The completed episodes are the configured ones, in order, each finished  *)
(* with a reason, and only the open one is missing.                         *)
THEOREM NoEpisodeSkipped == CtlSpec => []CompletedInOrder
<1>1. IInv => CompletedInOrder
  BY DEF IInv, CtlInv
<1> QED BY <1>1, InvariantHolds, PTL

(* An experiment that reports FINISHED has closed every configured episode. *)
THEOREM FinishedMeansAll == CtlSpec => []FinishedRanAll
<1>1. IInv => FinishedRanAll
  BY DEF IInv, CtlInv, CompletedInOrder, FinishedRanAll
<1> QED BY <1>1, InvariantHolds, PTL

(* Two different snapshots of one episode are told apart by their sequence  *)
(* numbers, the later one has the larger, and a committed reason is never   *)
(* replaced.                                                                *)
THEOREM SnapshotsAlwaysProgress == CtlSpec => SnapshotsProgress
<1> DEFINE Progress ==
      ctl'.episode # ctl.episode /\ ctl'.index = ctl.index
        => /\ ctl'.episode.sequence > ctl.episode.sequence
           /\ ctl.episode.reason # "NONE"
                => ctl'.episode.reason = ctl.episode.reason
<1>1. IInv /\ [CtlNext]_ctl => [Progress]_ctl
  <2> SUFFICES ASSUME IInv, CtlNext PROVE Progress
    OBVIOUS
  <2>1. CASE DoMarkComponentsReady
    BY <2>1, ExperimentPreserves DEF DoMarkComponentsReady, MarkComponentsReady
  <2>2. CASE DoMarkPrepared
    BY <2>2, RequestFacts, MovePreserves, Fields DEF DoMarkPrepared, MarkPrepared
  <2>3. CASE DoRequestStart
    BY <2>3, RequestFacts, MovePreserves, Fields DEF DoRequestStart, RequestStart
  <2>4. CASE DoRequestTermination \/ DoRequestAbort
    <3>1. PICK reason \in Reasons : ctl' = RequestTermination(ctl, reason)
      BY <2>4, RequestFacts
    <3> QED BY <2>4, <3>1, RequestFacts, ReasonFacts, MovePreserves, Fields
            DEF RequestTermination
  <2>5. CASE DoFinishTermination
    BY <2>5, FinishPreserves, Fields DEF DoFinishTermination
  <2>6. CASE DoAdvanceEpisode
    BY <2>6, AdvancePreserves, Fields DEF EpisodeIds
  <2>7. CASE DoFailExperiment
    BY <2>7, Fields DEF DoFailExperiment, FailExperiment
  <2> QED BY <2>1, <2>2, <2>3, <2>4, <2>5, <2>6, <2>7 DEF CtlNext
<1> QED BY <1>1, InvariantHolds, PTL DEF CtlSpec, SnapshotsProgress

(* A request that passes the guard of its method is never refused by the    *)
(* transition the method then makes: request_start and request_termination  *)
(* return, they do not raise half way.                                      *)
AcceptedMoves ==
  /\ \A id \in TargetIds :
       StartAccepted(ctl, id) => CanMoveEpisode(ctl.episode, "RUNNING", "NONE")
  /\ \A reason \in Reasons :
       TerminationAccepted(ctl, reason) =>
         CanMoveEpisode(ctl.episode, "TERMINATING", reason)

THEOREM AcceptedNeverRaises == CtlSpec => []AcceptedMoves
<1>1. IInv => AcceptedMoves
  <2> SUFFICES ASSUME IInv PROVE AcceptedMoves
    OBVIOUS
  <2>1. ctl.episode.state \in OpenStates => ctl.episode.sequence # UInt64Max
    BY Fields, UInt64MaxAssumption DEF SnapshotOK, OpenStates
  <2>2. ASSUME NEW id \in TargetIds, StartAccepted(ctl, id)
        PROVE  CanMoveEpisode(ctl.episode, "RUNNING", "NONE")
    BY <2>1, <2>2 DEF StartAccepted, CanMoveEpisode, EpisodeTransitions, OpenStates
  <2>3. ASSUME NEW reason \in Reasons, TerminationAccepted(ctl, reason)
        PROVE  CanMoveEpisode(ctl.episode, "TERMINATING", reason)
    <3>1. "TERMINATING" \in EpisodeTransitions[ctl.episode.state]
      BY <2>3 DEF TerminationAccepted, EpisodeTransitions, OpenStates
    <3> QED BY <2>1, <2>3, <3>1, ReasonFacts DEF TerminationAccepted, CanMoveEpisode
  <2> QED BY <2>2, <2>3 DEF AcceptedMoves
<1> QED BY <1>1, InvariantHolds, PTL

-----------------------------------------------------------------------------
(* The reasons in a list of snapshots, as VerdictsOf collects them.         *)
ReasonsIn(list) == [k \in 1..Len(list) |-> list[k].reason]

LEMMA ReasonsInType ==
  ASSUME NEW list \in Seq(Snapshots)
  PROVE  /\ ReasonsIn(list) \in Seq(Reasons \cup {"NONE"})
         /\ Len(ReasonsIn(list)) = Len(list)
         /\ \A k \in 1..Len(list) : ReasonsIn(list)[k] = list[k].reason
<1>1. Len(list) \in Nat
  BY LenProperties
<1>2. \A k \in 1..Len(list) : list[k].reason \in Reasons \cup {"NONE"}
  <2>1. \A k \in 1..Len(list) : list[k] \in Snapshots
    BY ElementOfSeq
  <2>2. \A e \in Snapshots : e.reason \in Reasons \cup {"NONE"}
    BY DEF Snapshots
  <2> QED BY <2>1, <2>2
<1>3. ReasonsIn(list) \in [1..Len(list) -> Reasons \cup {"NONE"}]
  BY <1>2 DEF ReasonsIn
<1>4. ReasonsIn(list) \in Seq(Reasons \cup {"NONE"})
  BY <1>1, <1>3, SeqDef
<1>5. Len(ReasonsIn(list)) = Len(list)
  BY <1>1, <1>3, <1>4, LenProperties
<1> QED BY <1>4, <1>5 DEF ReasonsIn

(* Filing a snapshot appends its reason.                                    *)
LEMMA ReasonsInAppend ==
  ASSUME NEW list \in Seq(Snapshots), NEW e \in Snapshots
  PROVE  ReasonsIn(Append(list, e)) = Append(ReasonsIn(list), e.reason)
<1> DEFINE T == Reasons \cup {"NONE"}
           left == ReasonsIn(Append(list, e))
           right == Append(ReasonsIn(list), e.reason)
<1>1. e.reason \in T
  BY DEF Snapshots
<1>2. /\ Append(list, e) \in Seq(Snapshots)
      /\ Len(Append(list, e)) = Len(list) + 1
      /\ \A k \in 1..Len(list) : Append(list, e)[k] = list[k]
      /\ Append(list, e)[Len(list) + 1] = e
      /\ Len(list) \in Nat
  BY AppendProperties, LenProperties
<1>3. /\ left \in Seq(T) /\ Len(left) = Len(list) + 1
      /\ \A k \in 1..(Len(list) + 1) : left[k] = Append(list, e)[k].reason
  BY <1>2, ReasonsInType
<1>4. /\ right \in Seq(T) /\ Len(right) = Len(list) + 1
      /\ \A k \in 1..Len(list) : right[k] = list[k].reason
      /\ right[Len(list) + 1] = e.reason
  BY <1>1, ReasonsInType, AppendProperties
<1> HIDE DEF left, right, T
<1>5. ASSUME NEW k \in 1..Len(left) PROVE left[k] = right[k]
  <2>1. CASE k \in 1..Len(list)
    BY <2>1, <1>2, <1>3, <1>4
  <2>2. CASE k = Len(list) + 1
    BY <2>2, <1>2, <1>3, <1>4
  <2> QED BY <2>1, <2>2, <1>2, <1>3
<1>6. left = right
  BY <1>3, <1>4, <1>5, SeqEqual
<1> QED BY <1>6 DEF left, right

(* The verdicts of the ledger, in the two cases of its definition.          *)
LEMMA VerdictFacts ==
  VerdictsOf(ctl) = IF ctl.episode.state = "TERMINATING"
                      THEN ReasonsIn(Append(ctl.completed, ctl.episode))
                      ELSE ReasonsIn(ctl.completed)
BY DEF VerdictsOf, ReasonsIn

(* How many verdicts the ledger holds: one for each episode before the      *)
(* index, and one for the current episode once it is terminating.           *)
LEMMA VerdictCount ==
  ASSUME IInv
  PROVE  Len(VerdictsOf(ctl)) = IF ctl.episode.state \in OpenStates
                                  THEN ctl.index - 1 ELSE ctl.index
<1>1. ctl.index \in Nat \ {0}
  BY Fields DEF EpisodeIds
<1>2. CASE ctl.episode.state = "TERMINATING"
  <2>1. Len(ctl.completed) = ctl.index - 1
    BY <1>2, Fields DEF CompletedInOrder
  <2>2. /\ Append(ctl.completed, ctl.episode) \in Seq(Snapshots)
        /\ Len(Append(ctl.completed, ctl.episode)) = ctl.index
    BY <2>1, <1>1, Fields, AppendProperties
  <2> QED BY <1>2, <2>2, VerdictFacts, ReasonsInType DEF OpenStates
<1>3. CASE ctl.episode.state # "TERMINATING"
  <2>1. Len(VerdictsOf(ctl)) = Len(ctl.completed)
    BY <1>3, VerdictFacts, Fields, ReasonsInType
  <2> QED BY <1>3, <2>1, Fields
          DEF CompletedInOrder, OpenStates, EpisodeStates
<1> QED BY <1>2, <1>3

(* A step that changes neither the list nor the episode gives no verdict.   *)
LEMMA SameVerdicts ==
  ASSUME UNCHANGED <<ctl.episode, ctl.completed>>
  PROVE  UNCHANGED VerdictsOf(ctl)
BY DEF VerdictsOf

(* A step to READY or RUNNING gives no verdict either.                      *)
LEMMA NoVerdict ==
  ASSUME ctl.episode.state # "TERMINATING", ctl'.episode.state # "TERMINATING",
         UNCHANGED ctl.completed
  PROVE  UNCHANGED VerdictsOf(ctl)
BY DEF VerdictsOf

(* A step that ends the open episode gives its reason as one more verdict.  *)
LEMMA VerdictGiven ==
  ASSUME IInv, IInv', ctl.episode.state \in OpenStates,
         ctl'.episode.state = "TERMINATING", UNCHANGED <<ctl.index, ctl.completed>>
  PROVE  /\ Len(VerdictsOf(ctl)) < ctl.index
         /\ ctl'.episode.reason \in Reasons
         /\ VerdictsOf(ctl)' = Append(VerdictsOf(ctl), ctl'.episode.reason)
<1>1. Len(VerdictsOf(ctl)) < ctl.index
  BY VerdictCount, Fields DEF EpisodeIds
<1>2. ctl'.episode \in Snapshots /\ ctl'.episode.reason \in Reasons
  BY DEF IInv, CtlTypeOK, CtlInv, SnapshotOK, Snapshots, OpenStates
<1>3. VerdictsOf(ctl)' = ReasonsIn(Append(ctl.completed, ctl'.episode))
  BY DEF VerdictsOf, ReasonsIn
<1>4. VerdictsOf(ctl) = ReasonsIn(ctl.completed)
  BY VerdictFacts DEF OpenStates
<1> QED BY <1>1, <1>2, <1>3, <1>4, Fields, ReasonsInAppend

(* Committing the reason of an open episode is a Judge step of the ledger.  *)
LEMMA TerminationJudges ==
  ASSUME IInv, DoRequestTermination \/ DoRequestAbort
  PROVE  Ledger!Judge
<1>1. PICK reason \in Reasons : ctl' = RequestTermination(ctl, reason)
  BY RequestFacts
<1>2. "TERMINATING" \in EpisodeTransitions[ctl.episode.state]
  BY RequestFacts
<1>3. /\ IInv' /\ ctl'.episode.state = "TERMINATING"
      /\ UNCHANGED <<ctl.experiment, ctl.index, ctl.completed>>
  BY <1>1, <1>2, ReasonFacts, MovePreserves DEF RequestTermination
<1>4. ctl.episode.state \in OpenStates
  BY <1>2, Fields DEF EpisodeTransitions, EpisodeStates, OpenStates
<1>5. UNCHANGED OutcomeOf(ctl)
  BY <1>3 DEF OutcomeOf
<1> QED BY <1>3, <1>4, <1>5, VerdictGiven DEF Ledger!Judge

(* Closing an episode gives no further verdict; it ends the experiment or   *)
(* leaves the ledger as it is.                                              *)
LEMMA FinishEnds ==
  ASSUME IInv, DoFinishTermination
  PROVE  Ledger!Complete \/ Ledger!Fail \/ UNCHANGED Ledger!vars
<1>1. PICK stopExperiment \in BOOLEAN :
        CanFinishTermination(ctl) /\ ctl' = FinishTermination(ctl, stopExperiment)
  BY DEF DoFinishTermination
<1>2. /\ ctl.episode.state = "TERMINATING"
      /\ ctl'.episode.state = "FINISHED"
      /\ ctl'.episode.reason = ctl.episode.reason
      /\ ctl'.index = ctl.index
      /\ ctl'.completed = Append(ctl.completed, ctl'.episode)
      /\ ctl'.experiment \in {ctl.experiment, "FINISHED", "FAILED"}
      /\ ctl.experiment \in {"FINISHED", "FAILED"} =>
           ctl'.experiment = ctl.experiment
      /\ ctl'.experiment = "FINISHED" => ctl.index = NumEpisodes
      /\ IInv'
  BY <1>1, FinishPreserves
<1>3. UNCHANGED VerdictsOf(ctl)
  <2>1. ctl'.episode \in Snapshots
    BY <1>2 DEF IInv, CtlTypeOK
  <2>2. VerdictsOf(ctl) = Append(ReasonsIn(ctl.completed), ctl.episode.reason)
    BY <1>2, VerdictFacts, Fields, ReasonsInAppend
  <2>3. VerdictsOf(ctl)' = ReasonsIn(Append(ctl.completed, ctl'.episode))
    BY <1>2 DEF VerdictsOf, ReasonsIn
  <2> QED BY <1>2, <2>1, <2>2, <2>3, Fields, ReasonsInAppend
<1>4. Len(VerdictsOf(ctl)) = ctl.index
  BY <1>2, VerdictCount DEF OpenStates
<1>5. CASE ctl'.experiment = ctl.experiment
  BY <1>2, <1>3, <1>5 DEF Ledger!vars, OutcomeOf
<1>6. CASE ctl'.experiment = "FINISHED" /\ ctl.experiment # "FINISHED"
  <2>1. OutcomeOf(ctl) = "open" /\ OutcomeOf(ctl)' = "complete"
    BY <1>2, <1>6 DEF OutcomeOf
  <2>2. Ledger!Complete
    BY <1>2, <1>3, <1>4, <1>6, <2>1 DEF Ledger!Complete
  <2> QED BY <2>2
<1>7. CASE ctl'.experiment = "FAILED" /\ ctl.experiment # "FAILED"
  <2>1. OutcomeOf(ctl) = "open" /\ OutcomeOf(ctl)' = "failed"
    BY <1>2, <1>7 DEF OutcomeOf
  <2>2. Ledger!Fail
    BY <1>2, <1>3, <2>1 DEF Ledger!Fail
  <2> QED BY <2>2
<1> QED BY <1>2, <1>5, <1>6, <1>7

(* A new controller is a ledger with one episode opened and no verdict.     *)
LEMMA LedgerStarts == CtlInit => Ledger!Init
<1> SUFFICES ASSUME CtlInit PROVE Ledger!Init
  OBVIOUS
<1>1. /\ ctl = [experiment |-> "STARTING", index |-> 1,
                episode |-> NewEpisode(1), completed |-> << >>]
      /\ NewEpisode(1).state = "PREPARING"
  BY DEF CtlInit, InitialController, NewEpisode
<1>2. VerdictsOf(ctl) = << >>
  <2>1. VerdictsOf(ctl) = ReasonsIn(<< >>)
    BY <1>1, VerdictFacts
  <2>2. << >> \in Seq(Snapshots) /\ Len(<< >>) = 0
    BY EmptySeq
  <2>3. ReasonsIn(<< >>) \in Seq(Reasons \cup {"NONE"})
        /\ Len(ReasonsIn(<< >>)) = 0
    BY <2>2, ReasonsInType
  <2> QED BY <2>1, <2>3, EmptySeq
<1>3. ctl.index = 1 /\ OutcomeOf(ctl) = "open"
  BY <1>1 DEF OutcomeOf
<1> QED BY <1>2, <1>3 DEF Ledger!Init

(* Each method is one step of the ledger, or none.                          *)
LEMMA LedgerSteps == IInv /\ [CtlNext]_ctl => [Ledger!Next]_(Ledger!vars)
<1> SUFFICES ASSUME IInv, CtlNext \/ UNCHANGED ctl
             PROVE  Ledger!Next \/ UNCHANGED Ledger!vars
  OBVIOUS
<1>1. CASE DoMarkComponentsReady
  <2>1. /\ ctl.experiment = "STARTING"
        /\ ctl' = [ctl EXCEPT !.experiment = "RUNNING"]
    BY <1>1, Fields DEF DoMarkComponentsReady, CanMarkComponentsReady,
         MarkComponentsReady, ExperimentTransitions, ExperimentStates
  <2>2. /\ ctl'.experiment = "RUNNING"
        /\ UNCHANGED <<ctl.index, ctl.episode, ctl.completed>>
    BY <2>1, ExperimentPreserves
  <2> QED BY <2>1, <2>2, SameVerdicts DEF Ledger!vars, OutcomeOf
<1>2. CASE DoMarkPrepared
  <2>1. /\ "READY" \in EpisodeTransitions[ctl.episode.state]
        /\ ctl'.episode.state = "READY"
        /\ UNCHANGED <<ctl.experiment, ctl.index, ctl.completed>>
    BY <1>2, RequestFacts, MovePreserves DEF DoMarkPrepared, MarkPrepared
  <2>2. ctl.episode.state # "TERMINATING"
    BY <2>1 DEF EpisodeTransitions
  <2>3. UNCHANGED OutcomeOf(ctl)
    BY <2>1 DEF OutcomeOf
  <2> QED BY <2>1, <2>2, <2>3, NoVerdict DEF Ledger!vars
<1>3. CASE DoRequestStart
  <2>1. /\ "RUNNING" \in EpisodeTransitions[ctl.episode.state]
        /\ ctl'.episode.state = "RUNNING"
        /\ UNCHANGED <<ctl.experiment, ctl.index, ctl.completed>>
    BY <1>3, RequestFacts, MovePreserves DEF DoRequestStart, RequestStart
  <2>2. ctl.episode.state # "TERMINATING"
    BY <2>1 DEF EpisodeTransitions
  <2>3. UNCHANGED OutcomeOf(ctl)
    BY <2>1 DEF OutcomeOf
  <2> QED BY <2>1, <2>2, <2>3, NoVerdict DEF Ledger!vars
<1>4. CASE DoRequestTermination \/ DoRequestAbort
  BY <1>4, TerminationJudges DEF Ledger!Next
<1>5. CASE DoFinishTermination
  BY <1>5, FinishEnds DEF Ledger!Next
<1>6. CASE DoAdvanceEpisode
  <2>1. /\ ctl.episode.state = "FINISHED"
        /\ ctl.experiment = "RUNNING" /\ ctl'.experiment = "RUNNING"
        /\ ctl.index < NumEpisodes /\ ctl'.index = ctl.index + 1
        /\ ctl'.episode.state = "PREPARING"
        /\ ctl'.completed = ctl.completed
    BY <1>6, AdvancePreserves
  <2>2. Len(VerdictsOf(ctl)) = ctl.index
    BY <2>1, VerdictCount DEF OpenStates
  <2>3. UNCHANGED VerdictsOf(ctl)
    BY <2>1, NoVerdict
  <2>4. OutcomeOf(ctl) = "open" /\ OutcomeOf(ctl)' = "open"
    BY <2>1 DEF OutcomeOf
  <2> QED BY <2>1, <2>2, <2>3, <2>4 DEF Ledger!Next, Ledger!OpenNext
<1>7. CASE DoFailExperiment
  <2>1. CASE ctl.experiment \in {"STARTING", "RUNNING"}
    <3>1. ctl' = [ctl EXCEPT !.experiment = "FAILED"]
      BY <1>7, <2>1 DEF DoFailExperiment, FailExperiment
    <3>2. /\ ctl'.experiment = "FAILED"
          /\ UNCHANGED <<ctl.index, ctl.episode, ctl.completed>>
      BY <3>1, ExperimentPreserves
    <3>3. OutcomeOf(ctl) = "open" /\ OutcomeOf(ctl)' = "failed"
      BY <2>1, <3>2 DEF OutcomeOf
    <3> QED BY <3>2, <3>3, SameVerdicts DEF Ledger!Next, Ledger!Fail
  <2>2. CASE ctl.experiment \notin {"STARTING", "RUNNING"}
    BY <1>7, <2>2, SameVerdicts
    DEF DoFailExperiment, FailExperiment, Ledger!vars, OutcomeOf
  <2> QED BY <2>1, <2>2
<1>8. CASE UNCHANGED ctl
  BY <1>8 DEF Ledger!vars, VerdictsOf, OutcomeOf
<1> QED BY <1>1, <1>2, <1>3, <1>4, <1>5, <1>6, <1>7, <1>8 DEF CtlNext

(* The controller implements the ledger: each method is one step of it or   *)
(* none, so no verdict is skipped, doubled, reordered or rewritten by any   *)
(* order of calls, for any number of episodes.                              *)
THEOREM ImplementsLedger == CtlSpec => KeepsLedger
BY LedgerStarts, LedgerSteps, InvariantHolds, PTL DEF CtlSpec, KeepsLedger, Ledger!Spec
=============================================================================
