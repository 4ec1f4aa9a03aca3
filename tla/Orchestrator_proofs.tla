------------------------- MODULE Orchestrator_proofs -------------------------
(***************************************************************************)
(* What MCOrchestrator.cfg and MCOrchestratorLive.cfg check of the node    *)
(* for two episodes and short queues, for every episode list, every bound  *)
(* of the queue and every set of faults.                                   *)
(***************************************************************************)
EXTENDS RequestHistory, Controller_proofs

Infrastructure == {"ENV_ERROR", "AGENT_ERROR"}

Prefix(k) == SubSeq(PreparationSteps, 1, k)

-----------------------------------------------------------------------------
(* The inductive invariant, one part for each idea.                         *)

(* What the place of the control thread says of the episode; a decision is  *)
(* forgotten before the next event is looked at.                            *)
PlaceInv ==
  /\ pc \in {"prepare", "create", "resetEnv", "resetAgent", "publishTask", "ready"}
       => ctl.episode.state = "PREPARING"
  /\ pc \in {"create", "resetEnv", "resetAgent", "publishTask", "ready"}
       => locals.startup
  /\ pc = "start" => ctl.episode.state = "READY"
  /\ pc \in {"handshake", "evaluate", "persist", "finish", "fallback", "close"}
       => ctl.episode.state = "TERMINATING"
  /\ pc = "advance" => ctl.episode.state = "FINISHED" /\ ~locals.stopAfter
  /\ pc \notin {"top", "except"} => decision = "none"

(* While an episode is open the experiment is, and _startup_complete tells  *)
(* whether it is STARTING or RUNNING.                                       *)
ExperimentInv ==
  /\ ctl.experiment = "RUNNING" => locals.startup
  /\ ctl.experiment = "STARTING" => ~locals.startup
  /\ ctl.episode.state \in OpenStates => ctl.experiment \in {"STARTING", "RUNNING"}

WholePreparation ==
  \/ steps = Prefix(4)
  \/ StopRequested /\ steps = Prefix(3)

(* The preparation has done the steps that come before its place, and has   *)
(* done nothing for an episode it has not reached.                          *)
StepsInv ==
  /\ ctl.episode.state = "PREPARING" =>
       /\ pc = "resetEnv" => steps = Prefix(1)
       /\ pc = "resetAgent" => steps = Prefix(2)
       /\ pc = "publishTask" => steps = Prefix(3)
       /\ pc = "ready" => WholePreparation
       /\ pc \notin {"resetEnv", "resetAgent", "publishTask", "ready"} => steps = Prefix(0)
  /\ pc \in {"resetEnv", "resetAgent", "publishTask"} => resources \/ StopRequested
  /\ ctl.episode.state \in {"READY", "RUNNING"} => WholePreparation /\ locals.startup

(* Only begin_episode, raising when the controller has moved on, leaves the *)
(* topic behind, and then the handler finds the new episode open.           *)
TopicInv ==
  topic # ctl.episode =>
    pc = "except" /\ topic.state = "FINISHED" /\ ctl.episode.state = "PREPARING"

FiledInv ==
  ctl.episode.state = "FINISHED" => ctl.completed[ctl.index] = ctl.episode

CoreInv ==
  IInv /\ OrchTypeOK /\ PlaceInv /\ ExperimentInv /\ StepsInv /\ TopicInv /\ FiledInv

-----------------------------------------------------------------------------
(* The steps of the preparation and their prefixes.                         *)
LEMMA PrefixFacts ==
  /\ Prefix(0) = << >>
  /\ Append(Prefix(0), "create") = Prefix(1)
  /\ Append(Prefix(1), "resetEnv") = Prefix(2)
  /\ Append(Prefix(2), "resetAgent") = Prefix(3)
  /\ Append(Prefix(3), "publishTask") = Prefix(4)
  /\ Prefix(4) = PreparationSteps
<1> DEFINE P == PreparationSteps
           Names == {"create", "resetEnv", "resetAgent", "publishTask"}
<1>1. P \in Seq(Names) /\ Len(P) = 4
  BY DEF PreparationSteps
<1>2. /\ P[1] = "create" /\ P[2] = "resetEnv" /\ P[3] = "resetAgent"
      /\ P[4] = "publishTask"
  BY DEF PreparationSteps
<1> HIDE DEF P
<1>3. ASSUME NEW k \in 0..3
      PROVE  Append(SubSeq(P, 1, k), P[k + 1]) = SubSeq(P, 1, k + 1)
  <2>1. \A i \in 1..4 : P[i] \in Names
    BY <1>2
  <2> HIDE DEF Names
  <2> DEFINE s == SubSeq(P, 1, k)
             t == SubSeq(P, 1, k + 1)
  <2>2. /\ s \in Seq(Names) /\ Len(s) = k
        /\ \A i \in 1..k : s[i] = P[i]
    <3>1. \A i \in 1..k : P[i] \in Names
      BY <2>1
    <3> QED BY <3>1, SubSeqProperties
  <2>3. /\ t \in Seq(Names) /\ Len(t) = k + 1
        /\ \A i \in 1..(k + 1) : t[i] = P[i]
    <3>1. \A i \in 1..(k + 1) : P[i] \in Names
      BY <2>1
    <3> QED BY <3>1, SubSeqProperties
  <2>4. P[k + 1] \in Names
    BY <2>1
  <2> HIDE DEF s, t
  <2>5. /\ Append(s, P[k + 1]) \in Seq(Names)
        /\ Len(Append(s, P[k + 1])) = k + 1
        /\ \A i \in 1..(k + 1) : Append(s, P[k + 1])[i] = P[i]
    BY <2>2, <2>4, AppendProperties
  <2>6. Append(s, P[k + 1]) = t
    BY <2>3, <2>5, SeqEqual
  <2> QED BY <2>6 DEF s, t
<1>4. SubSeq(P, 1, 0) = << >>
  BY SubSeqEmpty
<1>5. SubSeq(P, 1, 4) = P
  BY <1>1, SubSeqFull
<1>6. /\ Append(SubSeq(P, 1, 0), P[1]) = SubSeq(P, 1, 1)
      /\ Append(SubSeq(P, 1, 1), P[2]) = SubSeq(P, 1, 2)
      /\ Append(SubSeq(P, 1, 2), P[3]) = SubSeq(P, 1, 3)
      /\ Append(SubSeq(P, 1, 3), P[4]) = SubSeq(P, 1, 4)
  <2>1. /\ 0 \in 0..3 /\ 1 \in 0..3 /\ 2 \in 0..3 /\ 3 \in 0..3
        /\ 0 + 1 = 1 /\ 1 + 1 = 2 /\ 2 + 1 = 3 /\ 3 + 1 = 4
    OBVIOUS
  <2> QED BY <1>3, <2>1
<1> QED BY <1>2, <1>4, <1>5, <1>6 DEF P, Prefix

(* CommitTermination moves an open episode to TERMINATING with the reason   *)
(* and tells everybody, or finds it closed and leaves it as it is; either   *)
(* way a failing experiment has failed.                                     *)
LEMMA CommitFacts ==
  ASSUME IInv, NEW reason \in Reasons, NEW stop \in BOOLEAN, NEW next, NEW onRaise,
         CommitTermination(reason, stop, next, onRaise)
  PROVE  /\ IInv'
         /\ locals' = [locals EXCEPT !.stopAfter = @ \/ stop]
         /\ pc' \in {next, onRaise}
         /\ UNCHANGED <<ctl.index, ctl.completed>>
         /\ ctl'.experiment = IF stop /\ ctl.experiment \in {"STARTING", "RUNNING"}
                                THEN "FAILED" ELSE ctl.experiment
         /\ \/ /\ ctl.episode.state \in OpenStates
               /\ ctl'.episode.state = "TERMINATING"
               /\ ctl'.episode.reason = reason
               /\ topic' = ctl'.episode
            \/ /\ ctl.episode.state \notin OpenStates
               /\ pc' = next
               /\ UNCHANGED <<ctl.episode, topic>>
<1> DEFINE x == IF stop /\ ctl.experiment \in {"STARTING", "RUNNING"}
                  THEN "FAILED" ELSE ctl.experiment
           c == IF stop THEN FailExperiment(ctl) ELSE ctl
<1>1. c = [experiment |-> x, index |-> ctl.index, episode |-> ctl.episode,
           completed |-> ctl.completed]
  BY Fields DEF FailExperiment
<1>2. reason # "NONE"
  BY ReasonFacts
<1>3. TerminationAccepted(c, reason) <=> ctl.episode.state \in OpenStates
  BY <1>1, <1>2 DEF TerminationAccepted
<1>4. /\ locals' = [locals EXCEPT !.stopAfter = @ \/ stop]
      /\ IF TerminationAccepted(c, reason)
           THEN Publish(RequestTermination(c, reason), next, onRaise)
           ELSE ctl' = c /\ UNCHANGED topic /\ Goto(next)
  BY DEF CommitTermination
<1>5. x \in {"FAILED", ctl.experiment}
  OBVIOUS
<1> HIDE DEF c, x
<1>6. CASE ctl.episode.state \in OpenStates
  <2>1. "TERMINATING" \in EpisodeTransitions[ctl.episode.state]
    BY <1>6 DEF OpenStates, EpisodeTransitions
  <2>2. /\ ctl' = RequestTermination(c, reason) /\ topic' = ctl'.episode
        /\ pc' \in {next, onRaise}
    BY <1>3, <1>4, <1>6 DEF Publish, Goto
  <2>3. ctl' = [experiment |-> x, index |-> ctl.index,
                episode |-> MoveEpisode(ctl.episode, "TERMINATING", reason),
                completed |-> ctl.completed]
    BY <1>1, <2>2 DEF RequestTermination
  <2>4. /\ IInv' /\ ctl'.episode.state = "TERMINATING"
        /\ ctl'.episode.reason = reason
    BY <1>2, <1>5, <1>6, <2>1, <2>3, FailAndMovePreserves, Fields DEF SnapshotOK
  <2> QED BY <1>4, <1>6, <2>2, <2>3, <2>4 DEF x
<1>7. CASE ctl.episode.state \notin OpenStates
  <2>1. ctl' = c /\ UNCHANGED topic /\ pc' = next
    BY <1>3, <1>4, <1>7 DEF Goto
  <2>2. ctl' = [ctl EXCEPT !.experiment = x]
    BY <1>1, <2>1, Fields
  <2>3. IInv'
    BY <1>5, <2>2, ExperimentPreserves
  <2> QED BY <1>1, <1>4, <1>7, <2>1, <2>3 DEF x
<1> QED BY <1>6, <1>7

(* What the type invariant says of the records, for use in the steps below. *)
LEMMA TypeFacts ==
  ASSUME OrchTypeOK
  PROVE  /\ locals = [startup |-> locals.startup, finalizing |-> locals.finalizing,
                      stopAfter |-> locals.stopAfter, uri |-> locals.uri]
         /\ locals.startup \in BOOLEAN /\ locals.finalizing \in BOOLEAN
         /\ locals.stopAfter \in BOOLEAN /\ locals.uri \in BOOLEAN
         /\ setup.automatic \in BOOLEAN /\ setup.recording \in BOOLEAN
         /\ recorder = [episodes |-> recorder.episodes, finished |-> recorder.finished,
                        complete |-> recorder.complete]
         /\ recorder.episodes \in [EpisodeIds -> {"none", "open", "complete"}]
         /\ recorder.finished \in BOOLEAN /\ recorder.complete \in BOOLEAN
BY DEF OrchTypeOK

(* The type invariant after a step, part by part.                           *)
LEMMA TypePreserves ==
  ASSUME OrchTypeOK,
         UNCHANGED setup,
         CtlTypeOK' \/ UNCHANGED ctl,
         topic' \in Snapshots \/ UNCHANGED topic,
         results' \in Seq([id : EpisodeIds, reason : Reasons, uri : BOOLEAN])
           \/ UNCHANGED results,
         pc' \in Places, expired' \in BOOLEAN, resources' \in BOOLEAN, finalized' \in BOOLEAN,
         locals' \in [startup : BOOLEAN, finalizing : BOOLEAN, stopAfter : BOOLEAN,
                      uri : BOOLEAN],
         (\E k \in 0..4 : steps' = Prefix(k)) \/ UNCHANGED steps,
         events' \in Seq([command : Commands, cancelled : BOOLEAN]) \/ UNCHANGED events,
         decision' \in {"none", "accepted", "rejected", "failed", "expired"},
         recorder' \in [episodes : [EpisodeIds -> {"none", "open", "complete"}],
                        finished : BOOLEAN, complete : BOOLEAN] \/ UNCHANGED recorder,
         stopper' \in StopPlaces
  PROVE  OrchTypeOK'
<1>1. (\E j \in 0..4 : steps = SubSeq(PreparationSteps, 1, j))'
  <2>1. CASE \E k \in 0..4 : steps' = Prefix(k)
    BY <2>1 DEF Prefix
  <2>2. CASE UNCHANGED steps
    <3>1. \E k \in 0..4 : steps = SubSeq(PreparationSteps, 1, k)
      BY DEF OrchTypeOK
    <3> QED BY <2>2, <3>1
  <2> QED BY <2>1, <2>2
<1>2. CtlTypeOK'
  BY DEF OrchTypeOK, CtlTypeOK
<1>3. (events \in Seq([command : Commands, cancelled : BOOLEAN]))'
  BY DEF OrchTypeOK
<1>4. (recorder \in [episodes : [EpisodeIds -> {"none", "open", "complete"}],
                     finished : BOOLEAN, complete : BOOLEAN])'
  BY DEF OrchTypeOK
<1>5. /\ (setup \in [automatic : BOOLEAN, recording : BOOLEAN])'
      /\ (topic \in Snapshots)'
      /\ (results \in Seq([id : EpisodeIds, reason : Reasons, uri : BOOLEAN]))'
  BY DEF OrchTypeOK
<1> QED BY <1>1, <1>2, <1>3, <1>4, <1>5 DEF OrchTypeOK

(* The same for a step that leaves the controller and its messages alone.   *)
LEMMA QuietType ==
  ASSUME OrchTypeOK,
         UNCHANGED <<setup, ctl, topic, results, recorder, locals, finalized, stopper>>,
         pc' \in Places, expired' \in BOOLEAN, resources' \in BOOLEAN,
         (\E k \in 0..4 : steps' = Prefix(k)) \/ UNCHANGED steps,
         UNCHANGED events,
         decision' \in {"none", "accepted", "rejected", "failed", "expired"}
  PROVE  OrchTypeOK'
<1>1. locals' \in [startup : BOOLEAN, finalizing : BOOLEAN, stopAfter : BOOLEAN,
                   uri : BOOLEAN]
  BY DEF OrchTypeOK
<1>2. finalized' \in BOOLEAN /\ stopper' \in StopPlaces
  BY DEF OrchTypeOK
<1> QED BY <1>1, <1>2, TypePreserves

(* A step that commits a termination, at any place of the control thread,   *)
(* and then goes where nothing is claimed of an open episode.               *)
LEMMA CommitPreserves ==
  ASSUME CoreInv, NEW reason \in Reasons, NEW stop \in BOOLEAN,
         NEW next \in {"finalize", "top"}, NEW onRaise \in {"except", "dead"},
         CommitTermination(reason, stop, next, onRaise),
         decision' = "none", resources' \in BOOLEAN,
         UNCHANGED <<setup, expired, steps, events, results, recorder, stopper, finalized>>
  PROVE  CoreInv'
<1>1. /\ IInv'
      /\ locals' = [locals EXCEPT !.stopAfter = @ \/ stop]
      /\ pc' \in {next, onRaise}
      /\ UNCHANGED <<ctl.index, ctl.completed>>
      /\ ctl'.experiment = IF stop /\ ctl.experiment \in {"STARTING", "RUNNING"}
                             THEN "FAILED" ELSE ctl.experiment
      /\ \/ /\ ctl.episode.state \in OpenStates
            /\ ctl'.episode.state = "TERMINATING"
            /\ ctl'.episode.reason = reason
            /\ topic' = ctl'.episode
         \/ /\ ctl.episode.state \notin OpenStates
            /\ pc' = next
            /\ UNCHANGED <<ctl.episode, topic>>
  BY CommitFacts DEF CoreInv
<1>2. locals' = [startup |-> locals.startup, finalizing |-> locals.finalizing,
                 stopAfter |-> locals.stopAfter \/ stop, uri |-> locals.uri]
  BY <1>1, TypeFacts DEF CoreInv
<1>3. ctl'.episode.state \notin OpenStates
  BY <1>1 DEF OpenStates
<1>4. OrchTypeOK'
  <2>1. topic' \in Snapshots
    BY <1>1 DEF IInv, CtlTypeOK, CoreInv, OrchTypeOK
  <2> QED BY <1>1, <1>2, <2>1, TypeFacts DEF CoreInv, OrchTypeOK, IInv, Places
<1>5. PlaceInv'
  BY <1>1, <1>3 DEF PlaceInv, OpenStates
<1>6. ExperimentInv'
  BY <1>1, <1>2, <1>3 DEF CoreInv, ExperimentInv
<1>7. StepsInv'
  BY <1>1, <1>3 DEF StepsInv, OpenStates
<1>8. TopicInv'
  BY <1>1 DEF CoreInv, TopicInv, OpenStates
<1>9. FiledInv'
  BY <1>1 DEF CoreInv, FiledInv
<1> QED BY <1>1, <1>4, <1>5, <1>6, <1>7, <1>8, <1>9 DEF CoreInv

(* A step that leaves the controller, the topic and the preparation alone   *)
(* and goes to a place that claims no more than the invariant gives.        *)
LEMMA QuietPreserves ==
  ASSUME CoreInv,
         UNCHANGED <<setup, ctl, steps, topic, locals.startup, locals.stopAfter>>,
         StopRequested => StopRequested',
         PlaceInv', OrchTypeOK',
         pc' # pc => /\ pc \notin {"except", "resetEnv", "resetAgent", "publishTask", "ready"}
                     /\ pc' \notin {"resetEnv", "resetAgent", "publishTask", "ready"},
         resources => resources' \/ StopRequested'
  PROVE  CoreInv'
<1>1. IInv'
  BY DEF CoreInv, IInv, CtlTypeOK, CtlInv, CompletedInOrder, SnapshotOK
<1>2. ExperimentInv'
  BY DEF CoreInv, ExperimentInv
<1>3. StepsInv'
  BY DEF CoreInv, StepsInv, WholePreparation
<1>4. TopicInv'
  BY DEF CoreInv, TopicInv
<1>5. FiledInv'
  BY DEF CoreInv, FiledInv
<1> QED BY <1>1, <1>2, <1>3, <1>4, <1>5 DEF CoreInv

-----------------------------------------------------------------------------
(* The loop, the health check and the events.                               *)
LEMMA LoopPreserves ==
  ASSUME CoreInv, LoopTop \/ HandleException \/ Health \/ NoEvent
  PROVE  CoreInv'
<1>1. CASE LoopTop
  <2>1. OrchTypeOK'
    <3>1. /\ UNCHANGED <<setup, ctl, topic, results, recorder, locals, finalized, stopper,
                         expired, resources, steps, events>>
          /\ pc' \in Places /\ decision' \in {"none", decision}
      BY <1>1 DEF LoopTop, Goto, Places, workerVars
    <3> QED BY <3>1, QuietType DEF CoreInv, OrchTypeOK
  <2>2. PlaceInv'
    BY <1>1 DEF LoopTop, Goto, CoreInv, PlaceInv, workerVars
  <2> QED BY <1>1, <2>1, <2>2, QuietPreserves
          DEF LoopTop, Goto, StopRequested, workerVars
<1>2. CASE HandleException
  <2>1. "FAILURE" \in Reasons
    BY DEF Reasons, TerminationPriority
  <2> QED BY <1>2, <2>1, CommitPreserves DEF HandleException, CoreInv, OrchTypeOK
<1>3. CASE HealthFails
  <2>1. PICK reason \in {"ENV_ERROR", "AGENT_ERROR"} : FailWith(reason)
    BY <1>3 DEF HealthFails
  <2>2. reason \in Reasons
    BY DEF Reasons, TerminationPriority
  <2> QED BY <1>3, <2>1, <2>2, CommitPreserves
          DEF HealthFails, FailWith, Unprepared, CoreInv, OrchTypeOK, PlaceInv
<1>4. CASE HealthPasses
  <2>1. OrchTypeOK'
    <3>1. /\ UNCHANGED <<setup, ctl, topic, results, recorder, locals, finalized, stopper,
                         expired, resources, steps, events>>
          /\ pc' \in Places /\ decision' \in {"none", decision}
      BY <1>4 DEF HealthPasses, Goto, Places, Unprepared
    <3> QED BY <3>1, QuietType DEF CoreInv, OrchTypeOK
  <2>2. PlaceInv'
    BY <1>4 DEF HealthPasses, Goto, CoreInv, PlaceInv, Unprepared
  <2> QED BY <1>4, <2>1, <2>2, QuietPreserves
          DEF HealthPasses, Goto, StopRequested, Unprepared
<1>5. CASE NoEvent
  <2>1. OrchTypeOK'
    <3>1. /\ UNCHANGED <<setup, ctl, topic, results, recorder, locals, finalized, stopper,
                         expired, resources, steps, events>>
          /\ pc' \in Places /\ decision' \in {"none", decision}
      BY <1>5 DEF NoEvent, Goto, Places, workerVars
    <3> QED BY <3>1, QuietType DEF CoreInv, OrchTypeOK
  <2>2. PlaceInv'
    BY <1>5 DEF NoEvent, Goto, CoreInv, PlaceInv, workerVars
  <2> QED BY <1>5, <2>1, <2>2, QuietPreserves
          DEF NoEvent, Goto, StopRequested, workerVars
<1> QED BY <1>1, <1>2, <1>3, <1>4, <1>5 DEF Health

(* The steps of the other threads.                                          *)
LEMMA OthersPreserve ==
  ASSUME CoreInv, StopThread \/ Stop \/ Callers \/ DeadlinePasses
  PROVE  CoreInv'
<1>1. CASE StopThread \/ Stop
  <2>1. UNCHANGED <<setup, ctl, pc, locals, expired, steps, events, decision, topic, results>>
    BY <1>1 DEF StopThread, Stop, StopPart, JoinEndsOrTimesOut, StopClosesResources,
      StopFinishesRecorder, workerVars
  <2>2. /\ stopper' \in StopPlaces /\ StopRequested'
        /\ resources' \in {resources, FALSE} /\ finalized' \in BOOLEAN
    BY <1>1 DEF StopThread, Stop, JoinEndsOrTimesOut, StopClosesResources,
      StopFinishesRecorder, StopPlaces, StopRequested, CoreInv, OrchTypeOK
  <2>3. recorder' \in [episodes : [EpisodeIds -> {"none", "open", "complete"}],
                       finished : BOOLEAN, complete : BOOLEAN]
    <3>1. CASE UNCHANGED recorder
      BY <3>1 DEF CoreInv, OrchTypeOK
    <3>2. CASE StopFinishesRecorder
      BY <3>2, TypeFacts DEF StopFinishesRecorder, FinishReturns, FinishRaises, CoreInv,
        OrchTypeOK
    <3> QED BY <1>1, <3>1, <3>2 DEF StopThread, Stop, JoinEndsOrTimesOut, StopClosesResources
  <2>4. OrchTypeOK'
    BY ZenonT(30), <2>1, <2>2, <2>3, TypePreserves DEF CoreInv, OrchTypeOK
  <2>5. PlaceInv'
    BY <2>1 DEF CoreInv, PlaceInv
  <2> QED BY <2>1, <2>2, <2>4, <2>5, QuietPreserves
<1>2. CASE Callers
  <2>1. UNCHANGED <<setup, ctl, pc, locals, expired, steps, resources, decision, topic,
                    results, recorder, stopper, finalized>>
    BY <1>2 DEF Callers, Submit, TimeOut, workerVars
  <2>2. events' \in Seq([command : Commands, cancelled : BOOLEAN])
    <3>1. CASE \E command \in Commands : Submit(command)
      BY <3>1 DEF Submit, CoreInv, OrchTypeOK
    <3>2. CASE \E k \in DOMAIN events : TimeOut(k)
      <4>1. PICK k \in DOMAIN events : events' = [events EXCEPT ![k].cancelled = TRUE]
        BY <3>2 DEF TimeOut
      <4> DEFINE E == [command : Commands, cancelled : BOOLEAN]
      <4>2. events \in Seq(E)
        BY DEF CoreInv, OrchTypeOK
      <4>3. k \in 1..Len(events) /\ events[k] \in E
        BY <4>2, ElementOfSeq, LenProperties
      <4>4. [events[k] EXCEPT !.cancelled = TRUE] \in E
        BY <4>3
      <4> HIDE DEF E
      <4>5. [events EXCEPT ![k] = [events[k] EXCEPT !.cancelled = TRUE]] \in Seq(E)
        BY <4>2, <4>3, <4>4, ExceptSeq
      <4> QED BY <4>1, <4>5 DEF E
    <3> QED BY <1>2, <3>1, <3>2 DEF Callers
  <2>3. OrchTypeOK'
    BY ZenonT(30), <2>1, <2>2, TypePreserves DEF CoreInv, OrchTypeOK
  <2>4. PlaceInv'
    BY <2>1 DEF CoreInv, PlaceInv
  <2> QED BY <2>1, <2>3, <2>4, QuietPreserves DEF StopRequested
<1>3. CASE DeadlinePasses
  <2>1. OrchTypeOK'
    BY <1>3, TypePreserves DEF DeadlinePasses, CoreInv, OrchTypeOK
  <2>2. PlaceInv'
    BY <1>3 DEF DeadlinePasses, CoreInv, PlaceInv
  <2> QED BY <1>3, <2>1, <2>2, QuietPreserves DEF DeadlinePasses, StopRequested
<1> QED BY <1>1, <1>2, <1>3

-----------------------------------------------------------------------------
(* The preparation.                                                         *)

(* A preparation step that returns, with the invariant's claims on its      *)
(* place and the next one.                                                  *)
LEMMA StepDonePreserves ==
  ASSUME CoreInv,
         NEW next \in {"resetEnv", "resetAgent", "publishTask"},
         NEW k \in 0..2, NEW step,
         StepDone(step, next),
         \/ step = "create" /\ next = "resetEnv" /\ k = 0
         \/ step = "resetEnv" /\ next = "resetAgent" /\ k = 1
         \/ step = "resetAgent" /\ next = "publishTask" /\ k = 2,
         resources' = TRUE \/ (step # "create" /\ UNCHANGED resources)
  PROVE  CoreInv'
<1>1. /\ pc = step /\ pc' = next /\ steps' = Append(steps, step)
      /\ UNCHANGED <<setup, ctl, locals, expired, topic, events, decision, results,
                     recorder, stopper, finalized>>
  BY DEF StepDone, Goto, Unprepared
<1>2. steps = Prefix(k)
  BY <1>1 DEF CoreInv, PlaceInv, StepsInv
<1>3. steps' = Prefix(k + 1)
  <2>1. 0 + 1 = 1 /\ 1 + 1 = 2 /\ 2 + 1 = 3
    OBVIOUS
  <2> QED BY <1>1, <1>2, <2>1, PrefixFacts
<1>4. IInv'
  BY <1>1 DEF CoreInv, IInv, CtlTypeOK, CtlInv, CompletedInOrder, SnapshotOK
<1>5. OrchTypeOK'
  <2>1. \E j \in 0..4 : steps' = Prefix(j)
    BY <1>3
  <2>2. resources' \in BOOLEAN
    BY DEF CoreInv, OrchTypeOK
  <2>3. pc' \in Places /\ expired' \in BOOLEAN
    BY <1>1 DEF CoreInv, OrchTypeOK, Places
  <2>4. decision' \in {"none", "accepted", "rejected", "failed", "expired"}
    BY <1>1 DEF CoreInv, OrchTypeOK
  <2> QED BY <1>1, <2>1, <2>2, <2>3, <2>4, QuietType DEF CoreInv
<1>6. PlaceInv'
  BY <1>1 DEF CoreInv, PlaceInv
<1>7. ExperimentInv' /\ TopicInv' /\ FiledInv'
  BY <1>1 DEF CoreInv, ExperimentInv, TopicInv, FiledInv
<1>8. StepsInv'
  BY <1>1, <1>3 DEF CoreInv, PlaceInv, StepsInv, StopRequested
<1> QED BY <1>4, <1>5, <1>6, <1>7, <1>8 DEF CoreInv

(* Env and Agent are READY: the experiment is RUNNING, now or already.      *)
LEMMA ComponentsReadyPreserves ==
  ASSUME CoreInv, ComponentsReady
  PROVE  CoreInv'
<1>1. /\ pc = "prepare" /\ ctl.episode.state = "PREPARING" /\ decision = "none"
      /\ UNCHANGED <<setup, expired, events, decision, results, recorder, stopper,
                     finalized, steps, resources, topic>>
  BY DEF ComponentsReady, Unprepared, CoreInv, PlaceInv
<1>2. ctl.experiment \in {"STARTING", "RUNNING"}
  BY <1>1 DEF CoreInv, ExperimentInv, OpenStates
<1>3. CASE locals.startup
  <2>1. pc' = "create" /\ UNCHANGED <<ctl, locals>>
    BY <1>3 DEF ComponentsReady, Goto
  <2>2. OrchTypeOK'
    BY <1>1, <2>1, TypePreserves DEF CoreInv, OrchTypeOK, Places
  <2>3. PlaceInv'
    BY <1>1, <1>3, <2>1 DEF CoreInv, PlaceInv
  <2> QED BY <1>1, <2>1, <2>2, <2>3, QuietPreserves DEF StopRequested
<1>4. CASE ~locals.startup
  <2>1. ctl.experiment = "STARTING"
    BY <1>2, <1>4 DEF CoreInv, ExperimentInv
  <2>2. /\ ctl' = [ctl EXCEPT !.experiment = "RUNNING"]
        /\ locals' = [locals EXCEPT !.startup = TRUE]
        /\ pc' = "create"
    BY <1>4, <2>1 DEF ComponentsReady, CanMarkComponentsReady, MarkComponentsReady,
      ExperimentTransitions, Goto
  <2>3. /\ IInv' /\ ctl'.experiment = "RUNNING"
        /\ UNCHANGED <<ctl.index, ctl.episode, ctl.completed>>
    BY <2>2, ExperimentPreserves DEF CoreInv
  <2>4. /\ locals' = [startup |-> TRUE, finalizing |-> locals.finalizing,
                      stopAfter |-> locals.stopAfter, uri |-> locals.uri]
    BY <2>2, TypeFacts DEF CoreInv
  <2>5. OrchTypeOK'
    BY <1>1, <2>2, <2>3, <2>4, TypeFacts DEF CoreInv, IInv, OrchTypeOK, Places
  <2>6. PlaceInv'
    BY <1>1, <2>2, <2>3, <2>4 DEF PlaceInv
  <2>7. ExperimentInv' /\ TopicInv' /\ FiledInv'
    BY <1>1, <2>2, <2>3, <2>4 DEF CoreInv, ExperimentInv, TopicInv, FiledInv
  <2>8. StepsInv'
    BY <1>1, <2>2, <2>3, <2>4 DEF CoreInv, StepsInv
  <2> QED BY <2>3, <2>5, <2>6, <2>7, <2>8 DEF CoreInv
<1> QED BY <1>3, <1>4 DEF CoreInv, OrchTypeOK

(* A published move of the open episode to READY or RUNNING.                *)
LEMMA MoveAndPublishPreserves ==
  ASSUME CoreInv,
         NEW target \in {"READY", "RUNNING"},
         target \in EpisodeTransitions[ctl.episode.state],
         ctl' = [ctl EXCEPT !.episode = MoveEpisode(@, target, "NONE")],
         topic' = ctl'.episode,
         NEW next \in {"start", "health", "top"}, pc' \in {next, "except"},
         next = "start" => target = "READY",
         WholePreparation /\ locals.startup,
         decision' \in {"none", "accepted", "failed"},
         next # "top" => decision' = "none",
         events' \in Seq([command : Commands, cancelled : BOOLEAN]),
         UNCHANGED <<setup, locals, expired, steps, resources, results, recorder, stopper,
                     finalized>>
  PROVE  CoreInv'
<1>1. /\ IInv' /\ ctl'.episode.state = target
      /\ UNCHANGED <<ctl.experiment, ctl.index, ctl.completed>>
  BY MovePreserves DEF CoreInv
<1>2. ctl.episode.state \in OpenStates
  BY Fields DEF CoreInv, EpisodeTransitions, EpisodeStates, OpenStates
<1>3. topic' \in Snapshots
  BY <1>1 DEF IInv, CtlTypeOK
<1>4. OrchTypeOK'
  BY ZenonT(30), <1>1, <1>3, TypePreserves DEF CoreInv, OrchTypeOK, IInv, Places
<1>5. PlaceInv'
  BY <1>1 DEF PlaceInv
<1>6. ExperimentInv' /\ TopicInv' /\ FiledInv'
  BY <1>1, <1>2 DEF CoreInv, ExperimentInv, TopicInv, FiledInv
<1>7. StepsInv'
  BY <1>1 DEF CoreInv, StepsInv, WholePreparation, StopRequested
<1> QED BY <1>1, <1>4, <1>5, <1>6, <1>7 DEF CoreInv

LEMMA PreparationPreserves ==
  ASSUME CoreInv, Preparation
  PROVE  CoreInv'
<1>1. {"ENV_ERROR", "AGENT_ERROR", "FAILURE", "INVALID_TASK"} \subseteq Reasons
  BY DEF Reasons, TerminationPriority
<1> USE DEF Unprepared
<1>2. CASE PrepareFails
  <2>1. PICK reason \in {"ENV_ERROR", "AGENT_ERROR"} : FailWith(reason)
    BY <1>2 DEF PrepareFails
  <2> QED BY <1>1, <1>2, <2>1, CommitPreserves
          DEF PrepareFails, FailWith, CoreInv, OrchTypeOK, PlaceInv
<1>3. CASE PrepareWaits
  <2>1. OrchTypeOK'
    <3>1. /\ UNCHANGED <<setup, ctl, topic, results, recorder, locals, finalized, stopper,
                         expired, resources, steps, events, decision>>
          /\ pc' \in Places
      BY <1>3 DEF PrepareWaits, Goto, Places
    <3> QED BY <3>1, QuietType DEF CoreInv, OrchTypeOK
  <2>2. PlaceInv'
    BY <1>3 DEF PrepareWaits, Goto, CoreInv, PlaceInv
  <2> QED BY <1>3, <2>1, <2>2, QuietPreserves DEF PrepareWaits, Goto, StopRequested
<1>4. CASE ComponentsReady
  BY <1>4, ComponentsReadyPreserves
<1>5. CASE CreateResources
  BY <1>5, StepDonePreserves DEF CreateResources
<1>6. CASE CreateResourcesFails
  BY <1>1, <1>6, CommitPreserves DEF CreateResourcesFails, CoreInv, OrchTypeOK, PlaceInv
<1>7. CASE ResetEnvironment
  <2>1. StepDone("resetEnv", "resetAgent") /\ UNCHANGED resources /\ 1 \in 0..2
    BY <1>7 DEF ResetEnvironment
  <2> QED BY <2>1, StepDonePreserves
<1>8. CASE ResetEnvironmentFails
  BY <1>1, <1>8, CommitPreserves
  DEF ResetEnvironmentFails, StepFails, FailWith, CoreInv, OrchTypeOK, PlaceInv
<1>9. CASE ResetAgent
  <2>1. StepDone("resetAgent", "publishTask") /\ UNCHANGED resources /\ 2 \in 0..2
    BY <1>9 DEF ResetAgent
  <2> QED BY <2>1, StepDonePreserves
<1>10. CASE ResetAgentFails
  BY <1>1, <1>10, CommitPreserves
  DEF ResetAgentFails, StepFails, FailWith, CoreInv, OrchTypeOK, PlaceInv
<1>11. CASE PublishTask
  <2>1. /\ pc = "publishTask" /\ pc' = "ready"
        /\ steps' = IF resources THEN Append(steps, "publishTask") ELSE steps
        /\ UNCHANGED <<setup, ctl, locals, expired, topic, events, decision, results,
                       recorder, stopper, finalized, resources>>
    BY <1>11 DEF PublishTask, Goto
  <2>2. steps = Prefix(3) /\ (resources \/ StopRequested)
    BY <2>1 DEF CoreInv, PlaceInv, StepsInv
  <2>3. WholePreparation'
    BY <2>1, <2>2, PrefixFacts DEF WholePreparation, StopRequested
  <2>4. IInv'
    BY <2>1 DEF CoreInv, IInv, CtlTypeOK, CtlInv, CompletedInOrder, SnapshotOK
  <2>5. OrchTypeOK'
    <3>1. \E k \in 0..4 : steps' = Prefix(k)
      BY <2>3 DEF WholePreparation
    <3> QED BY ZenonT(30), <2>1, <3>1, TypePreserves DEF CoreInv, OrchTypeOK, Places
  <2>6. PlaceInv' /\ ExperimentInv' /\ TopicInv' /\ FiledInv'
    BY <2>1 DEF CoreInv, PlaceInv, ExperimentInv, TopicInv, FiledInv
  <2>7. StepsInv'
    BY <2>1, <2>3 DEF CoreInv, PlaceInv, StepsInv
  <2> QED BY <2>4, <2>5, <2>6, <2>7 DEF CoreInv
<1>12. CASE PublishTaskFails
  BY <1>1, <1>12, CommitPreserves
  DEF PublishTaskFails, StepFails, FailWith, CoreInv, OrchTypeOK, PlaceInv
<1>13. CASE EpisodeReady
  <2> DEFINE next == IF setup.automatic THEN "start" ELSE "health"
  <2>1. /\ pc = "ready" /\ pc' \in {next, "except"}
        /\ ctl' = [ctl EXCEPT !.episode = MoveEpisode(@, "READY", "NONE")]
        /\ topic' = ctl'.episode
    BY <1>13 DEF EpisodeReady, Publish, Goto, MarkPrepared
  <2>2. /\ ctl.episode.state = "PREPARING" /\ locals.startup /\ WholePreparation
        /\ decision = "none"
    BY <2>1 DEF CoreInv, PlaceInv, StepsInv
  <2>3. "READY" \in EpisodeTransitions[ctl.episode.state]
    BY <2>2 DEF EpisodeTransitions
  <2>4. UNCHANGED <<setup, locals, expired, steps, resources, decision, events, results,
                    recorder, stopper, finalized>>
    BY <1>13 DEF EpisodeReady
  <2>5. events' \in Seq([command : Commands, cancelled : BOOLEAN])
    BY <2>4 DEF CoreInv, OrchTypeOK
  <2> QED BY <2>1, <2>2, <2>3, <2>4, <2>5, MoveAndPublishPreserves
<1>14. CASE AutomaticStart
  <2>1. /\ ctl.episode.state = "READY" /\ decision = "none"
        /\ WholePreparation /\ locals.startup
        /\ UNCHANGED <<setup, expired, steps, resources, decision, events, results,
                       recorder, stopper, finalized>>
    BY <1>14 DEF AutomaticStart, CoreInv, PlaceInv, StepsInv
  <2>2. /\ ctl' = [ctl EXCEPT !.episode = MoveEpisode(@, "RUNNING", "NONE")]
        /\ topic' = ctl'.episode /\ pc' \in {"health", "except"} /\ UNCHANGED locals
    BY <1>14, <2>1 DEF AutomaticStart, StartAccepted, Publish, Goto, RequestStart
  <2>3. "RUNNING" \in EpisodeTransitions[ctl.episode.state]
    BY <2>1 DEF EpisodeTransitions
  <2>4. events' \in Seq([command : Commands, cancelled : BOOLEAN])
    BY <2>1 DEF CoreInv, OrchTypeOK
  <2> QED BY <2>1, <2>2, <2>3, <2>4, MoveAndPublishPreserves
<1> QED
  BY <1>2, <1>3, <1>4, <1>5, <1>6, <1>7, <1>8, <1>9, <1>10, <1>11, <1>12, <1>13, <1>14
  DEF Preparation

-----------------------------------------------------------------------------
(* The finalization.                                                        *)

(* The calls of the recorder keep its type, whether they return or raise.   *)
LEMMA RecorderTyped ==
  ASSUME OrchTypeOK, NEW id \in EpisodeIds, NEW complete \in BOOLEAN,
         \/ UNCHANGED recorder
         \/ BeginReturns(id) \/ BeginRaises(id)
         \/ CompleteReturns(id) \/ CompleteRaises(id)
         \/ FinishReturns(complete) \/ FinishRaises(complete)
  PROVE  recorder' \in [episodes : [EpisodeIds -> {"none", "open", "complete"}],
                        finished : BOOLEAN, complete : BOOLEAN]
<1> DEFINE R == [episodes : [EpisodeIds -> {"none", "open", "complete"}],
                 finished : BOOLEAN, complete : BOOLEAN]
<1>1. recorder \in R
  BY DEF OrchTypeOK
<1>2. ASSUME NEW s \in {"open", "complete"}
      PROVE  [recorder EXCEPT !.episodes[id] = s] \in R
  <2>1. [recorder.episodes EXCEPT ![id] = s] \in [EpisodeIds -> {"none", "open", "complete"}]
    BY TypeFacts
  <2> QED BY <1>1, <2>1
<1>3. /\ [recorder EXCEPT !.complete = complete] \in R
      /\ [recorder EXCEPT !.finished = TRUE, !.complete = complete] \in R
  BY <1>1
<1>4. \/ recorder' = recorder
      \/ \E s \in {"open", "complete"} : recorder' = [recorder EXCEPT !.episodes[id] = s]
      \/ recorder' = [recorder EXCEPT !.complete = complete]
      \/ recorder' = [recorder EXCEPT !.finished = TRUE, !.complete = complete]
  BY DEF BeginReturns, BeginRaises, CompleteReturns, CompleteRaises, FinishReturns,
    FinishRaises
<1> HIDE DEF R
<1>5. recorder' \in R
  BY <1>1, <1>2, <1>3, <1>4
<1> QED BY <1>5 DEF R

(* A finalization that cannot keep its artifacts fails the experiment.      *)
LEMMA AbandonFacts ==
  ASSUME CoreInv, Abandon
  PROVE  /\ IInv'
         /\ UNCHANGED <<ctl.index, ctl.episode, ctl.completed>>
         /\ ctl'.experiment = IF ctl.experiment \in {"STARTING", "RUNNING"}
                                THEN "FAILED" ELSE ctl.experiment
         /\ locals' = [startup |-> locals.startup, finalizing |-> locals.finalizing,
                       stopAfter |-> TRUE, uri |-> locals.uri]
<1> DEFINE x == IF ctl.experiment \in {"STARTING", "RUNNING"}
                  THEN "FAILED" ELSE ctl.experiment
<1>1. ctl' = [ctl EXCEPT !.experiment = x]
  BY Fields DEF Abandon, FailExperiment, CoreInv
<1>2. x \in {"RUNNING", "FAILED", ctl.experiment}
  OBVIOUS
<1> HIDE DEF x
<1>3. IInv' /\ ctl'.experiment = x /\ UNCHANGED <<ctl.index, ctl.episode, ctl.completed>>
  BY <1>1, <1>2, ExperimentPreserves DEF CoreInv
<1> QED BY <1>3, TypeFacts DEF Abandon, CoreInv, x

(* A step of the finalization that leaves the episode TERMINATING.          *)
LEMMA FinalStepPreserves ==
  ASSUME CoreInv,
         pc \in {"handshake", "evaluate", "persist", "finish", "fallback"},
         pc' \in {"evaluate", "persist", "finish", "fallback", "close"},
         \/ Abandon
         \/ /\ UNCHANGED <<ctl, locals.startup>>
            /\ locals' \in [startup : BOOLEAN, finalizing : BOOLEAN, stopAfter : BOOLEAN,
                            uri : BOOLEAN],
         recorder' \in [episodes : [EpisodeIds -> {"none", "open", "complete"}],
                        finished : BOOLEAN, complete : BOOLEAN],
         UNCHANGED <<Finalizing, resources, topic, results, finalized>>
  PROVE  CoreInv'
<1>1. ctl.episode.state = "TERMINATING" /\ decision = "none"
  BY DEF CoreInv, PlaceInv
<1>2. /\ IInv' /\ UNCHANGED <<ctl.index, ctl.episode, ctl.completed, locals.startup>>
      /\ ctl'.experiment \in {ctl.experiment, "FAILED"}
  <2>1. CASE Abandon
    BY <2>1, AbandonFacts
  <2>2. CASE UNCHANGED ctl /\ UNCHANGED locals.startup
    BY <2>2 DEF CoreInv, IInv, CtlTypeOK, CtlInv, CompletedInOrder, SnapshotOK
  <2> QED BY <2>1, <2>2
<1>3. OrchTypeOK'
  <2>1. locals' \in [startup : BOOLEAN, finalizing : BOOLEAN, stopAfter : BOOLEAN,
                     uri : BOOLEAN]
    <3>1. locals.startup \in BOOLEAN /\ locals.finalizing \in BOOLEAN /\ locals.uri \in BOOLEAN
      BY TypeFacts DEF CoreInv
    <3>2. CASE Abandon
      <4>1. locals' = [startup |-> locals.startup, finalizing |-> locals.finalizing,
                       stopAfter |-> TRUE, uri |-> locals.uri]
        BY <3>2, AbandonFacts
      <4> QED BY <3>1, <4>1
    <3> QED BY <3>2
  <2>2. /\ pc' \in Places /\ expired' \in BOOLEAN /\ resources' \in BOOLEAN
        /\ finalized' \in BOOLEAN /\ stopper' \in StopPlaces /\ CtlTypeOK'
        /\ decision' \in {"none", "accepted", "rejected", "failed", "expired"}
    BY <1>1, <1>2 DEF CoreInv, OrchTypeOK, Places, Finalizing, IInv
  <2>3. UNCHANGED <<setup, steps, events, topic, results>>
    BY DEF Finalizing
  <2> QED BY <2>1, <2>2, <2>3, TypePreserves DEF CoreInv
<1>4. PlaceInv'
  BY <1>1, <1>2 DEF PlaceInv, Finalizing
<1>5. ExperimentInv'
  BY <1>1, <1>2 DEF CoreInv, ExperimentInv, OpenStates
<1>6. StepsInv'
  BY <1>1, <1>2 DEF StepsInv
<1>7. TopicInv' /\ FiledInv'
  BY <1>1, <1>2 DEF CoreInv, TopicInv, FiledInv
<1> QED BY <1>2, <1>3, <1>4, <1>5, <1>6, <1>7 DEF CoreInv

(* finish_termination, called for a TERMINATING episode, returns.           *)
LEMMA TerminatingFinishes ==
  ASSUME IInv, ctl.episode.state = "TERMINATING"
  PROVE  CanFinishTermination(ctl)
BY Fields, UInt64MaxAssumption
DEF CanFinishTermination, CanMoveEpisode, EpisodeTransitions, SnapshotOK

LEMMA ClosePreserves ==
  ASSUME CoreInv, CloseEpisode
  PROVE  CoreInv'
<1> DEFINE c == FinishTermination(ctl, locals.stopAfter)
           r == [id |-> c.episode.id, reason |-> c.episode.reason, uri |-> locals.uri]
<1>1. /\ ctl.episode.state = "TERMINATING" /\ decision = "none"
      /\ locals.stopAfter \in BOOLEAN /\ locals.uri \in BOOLEAN
  BY TypeFacts DEF CloseEpisode, CoreInv, PlaceInv
<1>2. /\ ctl' = c /\ topic' = c.episode /\ results' = Append(results, r)
      /\ resources' = FALSE /\ finalized' \in {finalized, TRUE}
      /\ pc' \in {"advance", "event"} /\ (pc' = "advance" => ~locals.stopAfter)
      /\ UNCHANGED <<setup, expired, steps, events, decision, stopper, locals, recorder>>
  <2>1. finalized \in BOOLEAN
    BY DEF CoreInv, OrchTypeOK
  <2> QED BY <2>1 DEF CloseEpisode, Goto, Finalizing
<1>3. /\ IInv'
      /\ ctl'.episode.state = "FINISHED"
      /\ ctl'.index = ctl.index
      /\ ctl'.completed = Append(ctl.completed, ctl'.episode)
      /\ ctl'.experiment \in {ctl.experiment, "FINISHED", "FAILED"}
  BY <1>1, <1>2, TerminatingFinishes, FinishPreserves DEF CoreInv
<1>4. /\ ctl'.episode \in Snapshots
      /\ ctl'.episode.reason \in Reasons /\ ctl'.episode.id \in EpisodeIds
  BY <1>3 DEF IInv, CtlTypeOK, CtlInv, SnapshotOK, OpenStates, Snapshots
<1> HIDE DEF c
<1>5. r \in [id : EpisodeIds, reason : Reasons, uri : BOOLEAN]
  BY <1>1, <1>2, <1>4
<1> HIDE DEF r
<1>6. OrchTypeOK'
  <2>1. results' \in Seq([id : EpisodeIds, reason : Reasons, uri : BOOLEAN])
    BY <1>2, <1>5, AppendProperties DEF CoreInv, OrchTypeOK
  <2>2. /\ pc' \in Places /\ expired' \in BOOLEAN /\ resources' \in BOOLEAN
        /\ finalized' \in BOOLEAN /\ stopper' \in StopPlaces
        /\ decision' \in {"none", "accepted", "rejected", "failed", "expired"}
    BY <1>1, <1>2 DEF CoreInv, OrchTypeOK, Places
  <2>3. /\ CtlTypeOK' /\ topic' \in Snapshots
        /\ locals' \in [startup : BOOLEAN, finalizing : BOOLEAN, stopAfter : BOOLEAN,
                        uri : BOOLEAN]
    BY <1>2, <1>3, <1>4 DEF IInv, CoreInv, OrchTypeOK
  <2> QED BY <1>2, <2>1, <2>2, <2>3, TypePreserves DEF CoreInv
<1>7. PlaceInv'
  BY <1>1, <1>2, <1>3 DEF PlaceInv
<1>8. ExperimentInv' /\ TopicInv'
  BY <1>2, <1>3 DEF CoreInv, ExperimentInv, TopicInv, OpenStates
<1>9. StepsInv'
  BY <1>2, <1>3 DEF StepsInv
<1>10. FiledInv'
  <2>1. Len(ctl.completed) + 1 = ctl.index
    BY <1>1, Fields DEF CoreInv, CompletedInOrder, EpisodeIds
  <2>2. Append(ctl.completed, ctl'.episode)[Len(ctl.completed) + 1] = ctl'.episode
    BY <1>4, Fields, AppendProperties DEF CoreInv
  <2> QED BY <1>3, <2>1, <2>2 DEF FiledInv
<1> QED BY <1>3, <1>6, <1>7, <1>8, <1>9, <1>10 DEF CoreInv

LEMMA AdvancesPreserves ==
  ASSUME CoreInv, AdvanceToNext
  PROVE  CoreInv'
<1>1. /\ pc = "advance" /\ ctl.episode.state = "FINISHED" /\ decision = "none"
      /\ topic = ctl.episode
      /\ UNCHANGED <<setup, events, decision, results, stopper, finalized>>
  BY DEF AdvanceToNext, CoreInv, PlaceInv, TopicInv
<1>2. CASE ~CanAdvanceEpisode(ctl)
  <2>1. /\ pc' = "except"
        /\ UNCHANGED <<ctl, locals, expired, steps, resources, topic, recorder>>
    BY <1>2 DEF AdvanceToNext, Goto, workerVars
  <2>2. OrchTypeOK'
    <3>1. pc' \in Places
      BY <2>1 DEF Places
    <3> QED BY <1>1, <2>1, <3>1, QuietType DEF CoreInv, OrchTypeOK
  <2>3. PlaceInv'
    BY <1>1, <2>1 DEF PlaceInv
  <2> QED BY <1>1, <2>1, <2>2, <2>3, QuietPreserves DEF StopRequested
<1>3. CASE CanAdvanceEpisode(ctl)
  <2>1. /\ DoAdvanceEpisode
        /\ locals' = FreshLocals(locals.startup)
        /\ expired' = FALSE /\ steps' = << >> /\ resources' = FALSE
        /\ BeginReturns(ctl'.episode.id) \/ BeginRaises(ctl'.episode.id)
        /\ pc' \in {"event", "except"}
        /\ \/ topic' = ctl'.episode
           \/ UNCHANGED topic /\ pc' = "except"
    BY <1>3 DEF AdvanceToNext, DoAdvanceEpisode, Goto
  <2>2. /\ IInv' /\ ctl.experiment = "RUNNING" /\ ctl'.experiment = "RUNNING"
        /\ ctl'.episode.state = "PREPARING"
    BY <2>1, AdvancePreserves DEF CoreInv
  <2>3. locals' = [startup |-> TRUE, finalizing |-> FALSE, stopAfter |-> FALSE, uri |-> FALSE]
    BY <2>1, <2>2, TypeFacts DEF FreshLocals, CoreInv, ExperimentInv
  <2>4. ctl'.episode \in Snapshots /\ ctl'.episode.id \in EpisodeIds
    BY <2>2 DEF IInv, CtlTypeOK, Snapshots
  <2>5. OrchTypeOK'
    <3>1. recorder' \in [episodes : [EpisodeIds -> {"none", "open", "complete"}],
                         finished : BOOLEAN, complete : BOOLEAN]
      <4>1. TRUE \in BOOLEAN
        OBVIOUS
      <4> QED BY <2>1, <2>4, <4>1, RecorderTyped DEF CoreInv
    <3>2. \E k \in 0..4 : steps' = Prefix(k)
      BY <2>1, PrefixFacts
    <3>3. /\ pc' \in Places /\ expired' \in BOOLEAN /\ resources' \in BOOLEAN
          /\ finalized' \in BOOLEAN /\ stopper' \in StopPlaces
          /\ decision' \in {"none", "accepted", "rejected", "failed", "expired"}
      BY <1>1, <2>1 DEF CoreInv, OrchTypeOK, Places
    <3>4. /\ CtlTypeOK' /\ topic' \in Snapshots
          /\ locals' \in [startup : BOOLEAN, finalizing : BOOLEAN, stopAfter : BOOLEAN,
                          uri : BOOLEAN]
      BY <1>1, <2>1, <2>2, <2>3, <2>4 DEF IInv, CoreInv, OrchTypeOK
    <3> QED BY <1>1, <3>1, <3>2, <3>3, <3>4, TypePreserves DEF CoreInv
  <2>6. PlaceInv'
    BY <1>1, <2>1 DEF PlaceInv
  <2>7. ExperimentInv'
    BY <2>2, <2>3 DEF ExperimentInv
  <2>8. StepsInv'
    BY <2>1, <2>2, PrefixFacts DEF StepsInv
  <2>9. TopicInv' /\ FiledInv'
    BY <1>1, <2>1, <2>2 DEF TopicInv, FiledInv
  <2> QED BY <2>2, <2>5, <2>6, <2>7, <2>8, <2>9 DEF CoreInv
<1> QED BY <1>2, <1>3

LEMMA FinalizationPreserves ==
  ASSUME CoreInv, Finalization
  PROVE  CoreInv'
<1>1. CASE FinalizationStarts
  <2>1. /\ pc = "finalize" /\ pc' \in {"handshake", "event"}
        /\ pc' = "handshake" => ctl.episode.state = "TERMINATING"
        /\ locals' \in {locals, [locals EXCEPT !.finalizing = TRUE]}
        /\ UNCHANGED <<setup, expired, steps, events, decision, stopper, ctl, resources,
                       topic, results, recorder, finalized>>
    BY <1>1 DEF FinalizationStarts, Goto, Finalizing
  <2>2. /\ UNCHANGED <<locals.startup, locals.stopAfter>>
        /\ locals' \in [startup : BOOLEAN, finalizing : BOOLEAN, stopAfter : BOOLEAN,
                        uri : BOOLEAN]
    BY <2>1 DEF CoreInv, OrchTypeOK
  <2>3. OrchTypeOK'
    <3>1. /\ pc' \in Places /\ expired' \in BOOLEAN /\ resources' \in BOOLEAN
          /\ finalized' \in BOOLEAN /\ stopper' \in StopPlaces
          /\ decision' \in {"none", "accepted", "rejected", "failed", "expired"}
      BY <2>1 DEF CoreInv, OrchTypeOK, Places
    <3> QED BY <2>1, <2>2, <3>1, TypePreserves DEF CoreInv
  <2>4. PlaceInv'
    BY <2>1 DEF CoreInv, PlaceInv
  <2> QED BY <2>1, <2>2, <2>3, <2>4, QuietPreserves DEF StopRequested
<1>2. CASE SafeStopHandshake \/ FinalizeEvaluation
  BY <1>2, FinalStepPreserves
  DEF SafeStopHandshake, FinalizeEvaluation, Goto, CoreInv, OrchTypeOK
<1>3. CASE FinalizeEvaluationFails
  BY <1>3, FinalStepPreserves DEF FinalizeEvaluationFails, Goto, CoreInv, OrchTypeOK
<1>4. CASE PersistEpisode
  <2>1. /\ pc = "persist" /\ pc' = "finish"
        /\ UNCHANGED <<Finalizing, resources, topic, results, finalized>>
        /\ \/ Abandon
           \/ UNCHANGED ctl /\ locals' \in {locals, [locals EXCEPT !.uri = TRUE]}
        /\ \/ CompleteReturns(ctl.episode.id) \/ CompleteRaises(ctl.episode.id)
           \/ UNCHANGED recorder
    BY <1>4 DEF PersistEpisode, Goto
  <2>2. ctl.episode.id \in EpisodeIds
    BY Fields DEF CoreInv
  <2>3. recorder' \in [episodes : [EpisodeIds -> {"none", "open", "complete"}],
                       finished : BOOLEAN, complete : BOOLEAN]
    <3>1. TRUE \in BOOLEAN
      OBVIOUS
    <3> QED BY <2>1, <2>2, <3>1, RecorderTyped DEF CoreInv
  <2>4. ASSUME locals' \in {locals, [locals EXCEPT !.uri = TRUE]}
        PROVE  /\ UNCHANGED locals.startup
               /\ locals' \in [startup : BOOLEAN, finalizing : BOOLEAN, stopAfter : BOOLEAN,
                               uri : BOOLEAN]
    BY <2>4 DEF CoreInv, OrchTypeOK
  <2> QED BY <2>1, <2>3, <2>4, FinalStepPreserves
<1>5. CASE FinishRecorder
  <2>1. /\ pc = "finish" /\ pc' \in {"close", "fallback"}
        /\ UNCHANGED <<Finalizing, resources, topic, results, finalized>>
        /\ Abandon \/ UNCHANGED <<ctl, locals>>
        /\ \/ FinishReturns(ManifestComplete) \/ FinishRaises(ManifestComplete)
           \/ UNCHANGED recorder
    BY <1>5 DEF FinishRecorder, Goto
  <2>2. ManifestComplete \in BOOLEAN /\ ctl.index \in EpisodeIds
    BY Fields DEF CoreInv, ManifestComplete
  <2>3. recorder' \in [episodes : [EpisodeIds -> {"none", "open", "complete"}],
                       finished : BOOLEAN, complete : BOOLEAN]
    BY <2>1, <2>2, RecorderTyped DEF CoreInv
  <2> QED BY <2>1, <2>3, FinalStepPreserves DEF CoreInv, OrchTypeOK
<1>6. CASE FinishIncomplete
  <2>1. /\ pc = "fallback" /\ pc' = "close"
        /\ UNCHANGED <<Finalizing, ctl, locals, resources, topic, results, finalized>>
        /\ FinishReturns(FALSE) \/ FinishRaises(FALSE)
    BY <1>6 DEF FinishIncomplete, Goto
  <2>2. FALSE \in BOOLEAN /\ ctl.index \in EpisodeIds
    BY Fields DEF CoreInv
  <2>3. recorder' \in [episodes : [EpisodeIds -> {"none", "open", "complete"}],
                       finished : BOOLEAN, complete : BOOLEAN]
    BY <2>1, <2>2, RecorderTyped DEF CoreInv
  <2> QED BY <2>1, <2>3, FinalStepPreserves DEF CoreInv, OrchTypeOK
<1> QED BY <1>1, <1>2, <1>3, <1>4, <1>5, <1>6, ClosePreserves, AdvancesPreserves
        DEF Finalization

-----------------------------------------------------------------------------
(* The event at the head of the queue, whatever is answered.                *)
LEMMA EventPreserves ==
  ASSUME CoreInv, ProcessEvent
  PROVE  CoreInv'
<1> DEFINE E == [command : Commands, cancelled : BOOLEAN]
           event == Head(events)
           command == event.command
<1>1. /\ pc = "event" /\ decision = "none" /\ topic = ctl.episode
      /\ events \in Seq(E) /\ events # << >> /\ events' = Tail(events)
      /\ UNCHANGED <<setup, locals, expired, steps, resources, results, recorder, stopper,
                     finalized>>
  BY DEF ProcessEvent, workerVars, CoreInv, PlaceInv, TopicInv, OrchTypeOK
<1>2. event \in E /\ events' \in Seq(E)
  BY <1>1, HeadTailProperties
<1>3. command \in Commands
  BY <1>2
<1>4. command.reason \in Reasons \cup {"NONE"}
  BY <1>3, ReasonFacts, CandidatesAssumption DEF Commands
<1>5. \/ /\ Accepts(ctl, command)
         /\ ctl' = Applied(ctl, command) /\ topic' = ctl'.episode
         /\ pc' \in {"top", "except"} /\ decision' \in {"accepted", "failed"}
      \/ /\ UNCHANGED <<ctl, topic>> /\ pc' = "top"
         /\ decision' \in {"expired", "rejected"}
  BY DEF ProcessEvent, Publish, Goto
<1> HIDE DEF E, command, event
<1>6. CASE /\ Accepts(ctl, command) /\ command.kind = "start"
           /\ ctl' = Applied(ctl, command) /\ topic' = ctl'.episode
           /\ pc' \in {"top", "except"} /\ decision' \in {"accepted", "failed"}
  <2>1. /\ ctl.episode.state = "READY"
        /\ ctl' = [ctl EXCEPT !.episode = MoveEpisode(@, "RUNNING", "NONE")]
    BY <1>6 DEF Accepts, StartAccepted, Applied, RequestStart
  <2>2. "RUNNING" \in EpisodeTransitions[ctl.episode.state]
    BY <2>1 DEF EpisodeTransitions
  <2>3. WholePreparation /\ locals.startup
    BY <2>1 DEF CoreInv, StepsInv
  <2>4. events' \in Seq([command : Commands, cancelled : BOOLEAN])
    BY <1>2 DEF E
  <2> QED BY <1>1, <1>6, <2>1, <2>2, <2>3, <2>4, MoveAndPublishPreserves
<1>7. CASE /\ Accepts(ctl, command) /\ command.kind # "start"
           /\ ctl' = Applied(ctl, command) /\ topic' = ctl'.episode
           /\ pc' \in {"top", "except"} /\ decision' \in {"accepted", "failed"}
  <2>1. command.kind \in {"abort", "terminate"}
    BY <1>3, <1>7 DEF Commands
  <2>2. TerminationAccepted(ctl, command.reason)
    BY <1>7, <2>1 DEF Accepts, AbortAccepted
  <2>3. /\ ctl' = [ctl EXCEPT !.episode = MoveEpisode(@, "TERMINATING", command.reason)]
        /\ "TERMINATING" \in EpisodeTransitions[ctl.episode.state]
        /\ ctl.episode.state \in OpenStates /\ command.reason # "NONE"
    BY <1>7, <2>2 DEF Applied, RequestTermination, TerminationAccepted, OpenStates,
      EpisodeTransitions
  <2>4. /\ IInv' /\ ctl'.episode.state = "TERMINATING"
        /\ UNCHANGED <<ctl.experiment, ctl.index, ctl.completed>>
    BY <1>4, <2>3, MovePreserves DEF CoreInv
  <2>5. OrchTypeOK'
    <3>1. /\ pc' \in Places /\ expired' \in BOOLEAN /\ resources' \in BOOLEAN
          /\ finalized' \in BOOLEAN /\ stopper' \in StopPlaces
          /\ decision' \in {"none", "accepted", "rejected", "failed", "expired"}
          /\ locals' \in [startup : BOOLEAN, finalizing : BOOLEAN, stopAfter : BOOLEAN,
                          uri : BOOLEAN]
      BY <1>1, <1>7 DEF CoreInv, OrchTypeOK, Places
    <3>2. CtlTypeOK' /\ topic' \in Snapshots
      BY <1>7, <2>4 DEF IInv, CtlTypeOK
    <3>3. events' \in Seq([command : Commands, cancelled : BOOLEAN])
      BY <1>2 DEF E
    <3> QED BY <1>1, <3>1, <3>2, <3>3, TypePreserves DEF CoreInv
  <2>6. PlaceInv'
    BY <1>7 DEF PlaceInv
  <2>7. ExperimentInv' /\ TopicInv' /\ FiledInv'
    BY <1>1, <1>7, <2>4 DEF CoreInv, ExperimentInv, TopicInv, FiledInv, OpenStates
  <2>8. StepsInv'
    BY <1>7, <2>4 DEF StepsInv
  <2> QED BY <2>4, <2>5, <2>6, <2>7, <2>8 DEF CoreInv
<1>8. CASE UNCHANGED <<ctl, topic>> /\ pc' = "top" /\ decision' \in {"expired", "rejected"}
  <2>1. OrchTypeOK'
    <3>1. /\ pc' \in Places /\ expired' \in BOOLEAN /\ resources' \in BOOLEAN
          /\ finalized' \in BOOLEAN /\ stopper' \in StopPlaces
          /\ decision' \in {"none", "accepted", "rejected", "failed", "expired"}
          /\ locals' \in [startup : BOOLEAN, finalizing : BOOLEAN, stopAfter : BOOLEAN,
                          uri : BOOLEAN]
      BY <1>1, <1>8 DEF CoreInv, OrchTypeOK, Places
    <3>2. events' \in Seq([command : Commands, cancelled : BOOLEAN])
      BY <1>2 DEF E
    <3> QED BY <1>1, <1>8, <3>1, <3>2, TypePreserves DEF CoreInv
  <2>2. PlaceInv'
    BY <1>8 DEF PlaceInv
  <2> QED BY <1>1, <1>8, <2>1, <2>2, QuietPreserves DEF StopRequested
<1> QED BY <1>5, <1>6, <1>7, <1>8

-----------------------------------------------------------------------------
(* The invariant of the node.                                               *)
LEMMA CoreHoldsFirst == Init => CoreInv
<1> SUFFICES ASSUME Init PROVE CoreInv
  OBVIOUS
<1>1. IInv
  BY InitIInv DEF Init, CtlInit
<1>2. /\ ctl.experiment = "STARTING" /\ ctl.episode = NewEpisode(1)
      /\ ctl.episode.state = "PREPARING" /\ topic = ctl.episode
      /\ pc = "top" /\ steps = Prefix(0)
      /\ locals = [startup |-> FALSE, finalizing |-> FALSE, stopAfter |-> FALSE,
                   uri |-> FALSE]
  BY PrefixFacts DEF Init, InitialController, NewEpisode, FreshLocals
<1>3. OrchTypeOK
  <2>1. \E k \in 0..4 : steps = SubSeq(PreparationSteps, 1, k)
    BY <1>2 DEF Prefix
  <2>2. CtlTypeOK /\ topic \in Snapshots
    BY <1>1, <1>2 DEF IInv, CtlTypeOK
  <2>3. /\ events \in Seq([command : Commands, cancelled : BOOLEAN])
        /\ results \in Seq([id : EpisodeIds, reason : Reasons, uri : BOOLEAN])
    BY EmptySeq DEF Init
  <2>4. /\ setup \in [automatic : BOOLEAN, recording : BOOLEAN]
        /\ pc \in Places /\ expired \in BOOLEAN /\ resources \in BOOLEAN
        /\ decision \in {"none", "accepted", "rejected", "failed", "expired"}
        /\ recorder \in [episodes : [EpisodeIds -> {"none", "open", "complete"}],
                         finished : BOOLEAN, complete : BOOLEAN]
        /\ stopper \in StopPlaces /\ finalized \in BOOLEAN
    BY DEF Init, Places, StopPlaces
  <2>5. locals \in [startup : BOOLEAN, finalizing : BOOLEAN, stopAfter : BOOLEAN,
                    uri : BOOLEAN]
    BY <1>2
  <2> QED BY <2>1, <2>2, <2>3, <2>4, <2>5 DEF OrchTypeOK
<1>4. PlaceInv /\ ExperimentInv /\ StepsInv /\ TopicInv /\ FiledInv
  BY <1>2 DEF PlaceInv, ExperimentInv, StepsInv, TopicInv, FiledInv
<1> QED BY <1>1, <1>3, <1>4 DEF CoreInv

LEMMA CoreStep == CoreInv /\ [Next]_vars => CoreInv'
<1> SUFFICES ASSUME CoreInv, Next \/ UNCHANGED vars
             PROVE  CoreInv'
  OBVIOUS
<1>1. CASE UNCHANGED vars
  <2>1. UNCHANGED <<setup, ctl, pc, locals, expired, steps, resources, events, decision,
                    topic, results, recorder, stopper, finalized>>
    BY <1>1 DEF vars, workerVars
  <2>2. OrchTypeOK'
    BY <2>1, QuietType DEF CoreInv, OrchTypeOK
  <2>3. PlaceInv'
    BY <2>1 DEF CoreInv, PlaceInv
  <2> QED BY <2>1, <2>2, <2>3, QuietPreserves DEF StopRequested
<1> QED BY <1>1, LoopPreserves, OthersPreserve, PreparationPreserves,
             FinalizationPreserves, EventPreserves DEF Next, ControlThread

LEMMA CoreHolds == Spec => []CoreInv
BY CoreHoldsFirst, CoreStep, PTL DEF Spec

(* Whatever the threads do, the state of the node is of its type; in        *)
(* particular a snapshot that is published has a place in the lifecycle and *)
(* a result always carries a reason.                                        *)
THEOREM NodeTypeCorrect == Spec => []OrchTypeOK
<1>1. CoreInv => OrchTypeOK
  BY DEF CoreInv
<1> QED BY <1>1, CoreHolds, PTL

(* No episode moves before its own preparation is whole: for any list, any  *)
(* fault and any moment at which stop() is called.                          *)
THEOREM PreparedBeforeMotion == Spec => []MotionIsPrepared
<1>1. CoreInv => MotionIsPrepared
  BY PrefixFacts
  DEF CoreInv, StepsInv, ExperimentInv, WholePreparation, MotionIsPrepared, OpenStates,
      Prefix
<1> QED BY <1>1, CoreHolds, PTL

(* The latched snapshot is the controller's, whatever step failed.          *)
THEOREM TopicFollows == Spec => []TopicIsCurrent
<1>1. CoreInv => TopicIsCurrent
  BY DEF CoreInv, TopicInv, TopicIsCurrent
<1> QED BY <1>1, CoreHolds, PTL

-----------------------------------------------------------------------------
(* What a step of the node can be, for the ledger and for the record.       *)

RecordPlaces == {"finish", "fallback", "close", "advance"}

(* The control thread is not brought to a place where the record matters.   *)
ElsewhereOrSame == pc' = pc \/ pc' \notin RecordPlaces

Apart == UNCHANGED <<setup, recorder, finalized>> /\ ElsewhereOrSame

QuietStep == Apart /\ UNCHANGED <<ctl, locals.stopAfter>>

MoveStep ==
  /\ Apart /\ pc' \notin RecordPlaces /\ UNCHANGED locals.stopAfter
  /\ DoMarkComponentsReady \/ DoMarkPrepared \/ DoRequestStart

RequestStep ==
  /\ Apart /\ pc' \notin RecordPlaces /\ UNCHANGED locals.stopAfter
  /\ \E reason \in Candidates \cup {"ABORTED"} :
       TerminationAccepted(ctl, reason) /\ ctl' = RequestTermination(ctl, reason)

(* The reasons the node commits by itself.                                  *)
OwnReasons == Infrastructure \cup {"FAILURE", "INVALID_TASK"}

(* A commit that an infrastructure failure causes stops the experiment.     *)
CommitStep ==
  /\ Apart /\ pc' \notin RecordPlaces
  /\ \E reason \in OwnReasons, stop \in BOOLEAN, next \in Places, onRaise \in Places :
       /\ reason \in Infrastructure => stop
       /\ CommitTermination(reason, stop, next, onRaise)

RecordStep ==
  \/ FinalizeEvaluationFails \/ PersistEpisode \/ FinishRecorder \/ FinishIncomplete
  \/ CloseEpisode \/ AdvanceToNext \/ StopFinishesRecorder

LEMMA OwnReasonsAreReasons == OwnReasons \subseteq Reasons
BY DEF OwnReasons, Infrastructure, Reasons, TerminationPriority

LEMMA LoopKinds ==
  ASSUME CoreInv, LoopTop \/ HandleException \/ Health \/ NoEvent \/ Callers \/ Stop
                  \/ JoinEndsOrTimesOut \/ StopClosesResources \/ DeadlinePasses
  PROVE  QuietStep \/ CommitStep
<1> USE DEF Apart, ElsewhereOrSame, RecordPlaces
<1>1. /\ Infrastructure \cup {"FAILURE"} \subseteq Reasons
      /\ Infrastructure \cup {"FAILURE"} \subseteq OwnReasons
      /\ "FAILURE" \notin Infrastructure
      /\ {"finalize", "top", "except", "dead"} \subseteq Places
  BY OwnReasonsAreReasons DEF Places, OwnReasons, Infrastructure
<1>2. CASE \/ LoopTop \/ HealthPasses \/ NoEvent \/ Callers \/ Stop \/ JoinEndsOrTimesOut
           \/ StopClosesResources \/ DeadlinePasses
  BY <1>2 DEF QuietStep, LoopTop, HealthPasses, NoEvent, Callers, Submit, TimeOut, Stop,
    JoinEndsOrTimesOut, StopClosesResources, StopPart, DeadlinePasses, Unprepared,
    workerVars, Goto
<1>3. CASE HandleException
  <2>1. /\ CommitTermination("FAILURE", TRUE, "top", "dead")
        /\ UNCHANGED <<setup, recorder, finalized>>
    BY <1>3 DEF HandleException
  <2>2. pc' \in {"top", "dead"}
    BY <1>1, <2>1, CommitFacts DEF CoreInv
  <2> QED BY <1>1, <2>1, <2>2 DEF CommitStep
<1>4. CASE HealthFails
  <2>1. PICK reason \in Infrastructure : FailWith(reason)
    BY <1>4 DEF HealthFails, Infrastructure
  <2>2. /\ CommitTermination(reason, TRUE, "finalize", "except") /\ reason \in Reasons
        /\ UNCHANGED <<setup, recorder, finalized>>
    BY <1>1, <1>4, <2>1 DEF HealthFails, FailWith, Unprepared, Infrastructure
  <2>3. pc' \in {"finalize", "except"}
    BY <2>2, CommitFacts DEF CoreInv
  <2> QED BY <1>1, <2>2, <2>3 DEF CommitStep
<1> QED BY <1>2, <1>3, <1>4 DEF Health

LEMMA PreparationKinds ==
  ASSUME CoreInv, Preparation
  PROVE  QuietStep \/ CommitStep \/ MoveStep
<1> USE DEF Apart, ElsewhereOrSame, RecordPlaces
<1>1. /\ Infrastructure \cup {"FAILURE", "INVALID_TASK"} \subseteq Reasons
      /\ OwnReasons = Infrastructure \cup {"FAILURE", "INVALID_TASK"}
      /\ {"finalize", "except"} \subseteq Places
      /\ "INVALID_TASK" \notin Infrastructure
  BY OwnReasonsAreReasons DEF Places, OwnReasons, Infrastructure
<1>2. ASSUME NEW reason \in Infrastructure \cup {"FAILURE"}, FailWith(reason),
             UNCHANGED <<setup, recorder, finalized>>
      PROVE  CommitStep
  <2>1. CommitTermination(reason, TRUE, "finalize", "except") /\ reason \in Reasons
    BY <1>1, <1>2 DEF FailWith
  <2>2. pc' \in {"finalize", "except"}
    BY <2>1, CommitFacts DEF CoreInv
  <2> QED BY <1>1, <1>2, <2>1, <2>2 DEF CommitStep
<1>3. CASE PrepareFails
  BY <1>2, <1>3 DEF PrepareFails, Unprepared, Infrastructure
<1>4. CASE ResetEnvironmentFails
  BY <1>2, <1>4 DEF ResetEnvironmentFails, StepFails, Unprepared, Infrastructure
<1>5. CASE ResetAgentFails
  BY <1>2, <1>5 DEF ResetAgentFails, StepFails, Unprepared, Infrastructure
<1>6. CASE PublishTaskFails
  BY <1>2, <1>6 DEF PublishTaskFails, StepFails, Unprepared
<1>7. CASE CreateResourcesFails
  <2>1. /\ CommitTermination("INVALID_TASK", FALSE, "finalize", "except")
        /\ UNCHANGED <<setup, recorder, finalized>>
    BY <1>7 DEF CreateResourcesFails, Unprepared
  <2>2. pc' \in {"finalize", "except"}
    BY <1>1, <2>1, CommitFacts DEF CoreInv
  <2> QED BY <1>1, <2>1, <2>2 DEF CommitStep
<1>8. CASE PrepareWaits \/ CreateResources \/ ResetEnvironment \/ ResetAgent \/ PublishTask
  BY <1>8 DEF QuietStep, PrepareWaits, CreateResources, ResetEnvironment, ResetAgent,
    PublishTask, StepDone, Unprepared, Goto
<1>9. CASE ComponentsReady
  <2>1. /\ UNCHANGED <<setup, recorder, finalized>> /\ pc' \in {"create", "except"}
        /\ UNCHANGED locals.stopAfter
        /\ UNCHANGED ctl \/ DoMarkComponentsReady
    BY <1>9, TypeFacts DEF ComponentsReady, Unprepared, Goto, DoMarkComponentsReady, CoreInv
  <2> QED BY <2>1 DEF QuietStep, MoveStep
<1>10. CASE EpisodeReady
  <2>1. /\ pc = "ready" /\ ctl' = MarkPrepared(ctl)
        /\ pc' \in {"start", "health", "except"}
        /\ UNCHANGED <<setup, recorder, finalized, locals>>
    BY <1>10 DEF EpisodeReady, Publish, Goto, Unprepared
  <2>2. CanMarkPrepared(ctl)
    <3>1. ctl.episode.state = "PREPARING" /\ ctl.episode.sequence = 0
      BY <2>1, Fields DEF CoreInv, PlaceInv, SnapshotOK
    <3> QED BY <3>1, UInt64MaxAssumption
            DEF CanMarkPrepared, CanMoveEpisode, EpisodeTransitions
  <2> QED BY <2>1, <2>2 DEF MoveStep, DoMarkPrepared
<1>11. CASE AutomaticStart
  <2>1. pc = "start" /\ ctl.episode.state = "READY" /\ ctl.episode.id \in TargetIds
    BY <1>11, Fields DEF AutomaticStart, CoreInv, PlaceInv, EpisodeIds, TargetIds
  <2>2. /\ StartAccepted(ctl, ctl.episode.id) /\ ctl' = RequestStart(ctl)
        /\ pc' \in {"health", "except"} /\ UNCHANGED <<setup, recorder, finalized, locals>>
    BY <1>11, <2>1 DEF AutomaticStart, StartAccepted, Publish, Goto, Unprepared
  <2> QED BY <2>1, <2>2 DEF MoveStep, DoRequestStart
<1> QED BY <1>3, <1>4, <1>5, <1>6, <1>7, <1>8, <1>9, <1>10, <1>11 DEF Preparation

LEMMA EventKinds ==
  ASSUME CoreInv, ProcessEvent
  PROVE  QuietStep \/ MoveStep \/ RequestStep
<1> USE DEF Apart, ElsewhereOrSame, RecordPlaces
<1> DEFINE command == Head(events).command
<1>1. command \in Commands
  <2>1. Head(events) \in [command : Commands, cancelled : BOOLEAN]
    BY HeadTailProperties DEF ProcessEvent, CoreInv, OrchTypeOK
  <2> QED BY <2>1
<1>2. /\ UNCHANGED <<setup, recorder, finalized, locals>> /\ pc' \in {"top", "except"}
      /\ \/ UNCHANGED ctl
         \/ Accepts(ctl, command) /\ ctl' = Applied(ctl, command)
  BY DEF ProcessEvent, Publish, Goto, workerVars
<1> HIDE DEF command
<1>3. CASE UNCHANGED ctl
  BY <1>2, <1>3 DEF QuietStep
<1>4. CASE /\ command.kind = "start"
           /\ Accepts(ctl, command) /\ ctl' = Applied(ctl, command)
  <2>1. command.id \in TargetIds /\ StartAccepted(ctl, command.id)
    BY <1>1, <1>4 DEF Commands, Accepts
  <2> QED BY <1>2, <1>4, <2>1 DEF MoveStep, DoRequestStart, Applied
<1>5. CASE /\ command.kind # "start"
           /\ Accepts(ctl, command) /\ ctl' = Applied(ctl, command)
  <2>1. /\ command.kind \in {"abort", "terminate"}
        /\ command.reason \in Candidates \cup {"ABORTED", "NONE"}
    BY <1>1, <1>5 DEF Commands
  <2>2. TerminationAccepted(ctl, command.reason) /\ command.reason # "NONE"
    BY <1>5, <2>1 DEF Accepts, AbortAccepted, TerminationAccepted
  <2> QED BY <1>2, <1>5, <2>1, <2>2 DEF RequestStep, Applied
<1> QED BY <1>2, <1>3, <1>4, <1>5

(* Without an event the node moves an episode by its preparation alone and  *)
(* ends it for reasons of its own.                                          *)
LEMMA OwnKinds ==
  ASSUME CoreInv, Next, ~ProcessEvent
  PROVE  QuietStep \/ (MoveStep /\ Preparation) \/ CommitStep \/ RecordStep
<1>1. CASE FinalizationStarts \/ SafeStopHandshake \/ FinalizeEvaluation
  <2>1. QuietStep
    BY <1>1 DEF QuietStep, Apart, ElsewhereOrSame, RecordPlaces, FinalizationStarts,
      SafeStopHandshake, FinalizeEvaluation, Finalizing, Goto, CoreInv, OrchTypeOK
  <2> QED BY <2>1
<1> QED BY <1>1, LoopKinds, PreparationKinds
        DEF Next, ControlThread, Finalization, StopThread, RecordStep

LEMMA StepKinds ==
  ASSUME CoreInv, Next
  PROVE  QuietStep \/ MoveStep \/ RequestStep \/ CommitStep \/ RecordStep
BY OwnKinds, EventKinds

-----------------------------------------------------------------------------
(* The ledger.                                                              *)

(* Failing the experiment, when nothing else moves, is a step of the ledger *)
(* or none.                                                                 *)
LEMMA FailingIsFail ==
  ASSUME UNCHANGED <<ctl.index, ctl.episode, ctl.completed>>,
         ctl'.experiment = IF ctl.experiment \in {"STARTING", "RUNNING"}
                             THEN "FAILED" ELSE ctl.experiment
  PROVE  Ledger!Fail \/ UNCHANGED Ledger!vars
<1>1. CASE ctl.experiment \in {"STARTING", "RUNNING"}
  <2>1. OutcomeOf(ctl) = "open" /\ OutcomeOf(ctl)' = "failed"
    BY <1>1 DEF OutcomeOf
  <2> QED BY <2>1, SameVerdicts DEF Ledger!Fail
<1>2. CASE ctl.experiment \notin {"STARTING", "RUNNING"}
  BY <1>2, SameVerdicts DEF Ledger!vars, OutcomeOf
<1> QED BY <1>1, <1>2

(* A commit gives the verdict and may end the experiment in the same step.  *)
LEMMA CommitJudges ==
  ASSUME CoreInv, CommitStep
  PROVE  Ledger!Next \/ UNCHANGED Ledger!vars
<1>1. PICK reason \in Reasons, stop \in BOOLEAN, next \in Places, onRaise \in Places :
        CommitTermination(reason, stop, next, onRaise)
  BY OwnReasonsAreReasons DEF CommitStep
<1>2. /\ IInv' /\ UNCHANGED <<ctl.index, ctl.completed>>
      /\ ctl'.experiment = IF stop /\ ctl.experiment \in {"STARTING", "RUNNING"}
                             THEN "FAILED" ELSE ctl.experiment
      /\ \/ /\ ctl.episode.state \in OpenStates
            /\ ctl'.episode.state = "TERMINATING"
         \/ UNCHANGED ctl.episode
  BY <1>1, CommitFacts DEF CoreInv
<1>3. CASE ctl.episode.state \in OpenStates /\ ctl'.episode.state = "TERMINATING"
  <2>1. OutcomeOf(ctl)' \in {OutcomeOf(ctl), "failed"}
    BY <1>2 DEF OutcomeOf
  <2> QED BY <1>2, <1>3, <2>1, VerdictGiven DEF CoreInv, Ledger!Next, Ledger!Judge
<1>4. CASE UNCHANGED ctl.episode
  <2>1. CASE stop
    BY <1>2, <1>4, <2>1, FailingIsFail DEF Ledger!Next
  <2>2. CASE ~stop
    BY <1>2, <1>4, <2>2, SameVerdicts DEF Ledger!vars, OutcomeOf
  <2> QED BY <2>1, <2>2
<1> QED BY <1>2, <1>3, <1>4

LEMMA NodeLedgerSteps == CoreInv /\ [Next]_vars => [Ledger!Next]_(Ledger!vars)
<1> SUFFICES ASSUME CoreInv, Next \/ UNCHANGED vars
             PROVE  Ledger!Next \/ UNCHANGED Ledger!vars
  OBVIOUS
<1>1. ASSUME CtlNext \/ UNCHANGED ctl
      PROVE  Ledger!Next \/ UNCHANGED Ledger!vars
  BY <1>1, LedgerSteps DEF CoreInv
<1>2. CASE UNCHANGED vars \/ QuietStep
  BY <1>1, <1>2 DEF vars, QuietStep
<1>3. CASE MoveStep
  BY <1>1, <1>3 DEF MoveStep, CtlNext
<1>4. CASE RequestStep
  <2>1. PICK reason \in Candidates \cup {"ABORTED"} :
          TerminationAccepted(ctl, reason) /\ ctl' = RequestTermination(ctl, reason)
    BY <1>4 DEF RequestStep
  <2>2. reason \in Reasons
    BY ReasonFacts, CandidatesAssumption
  <2> QED BY <1>1, <2>1, <2>2 DEF CtlNext, DoRequestTermination
<1>5. CASE CommitStep
  BY <1>5, CommitJudges
<1>6. CASE RecordStep
  <2>1. CASE Abandon
    <3>1. UNCHANGED <<ctl.index, ctl.episode, ctl.completed>>
          /\ ctl'.experiment = IF ctl.experiment \in {"STARTING", "RUNNING"}
                                 THEN "FAILED" ELSE ctl.experiment
      BY <2>1, AbandonFacts
    <3> QED BY <3>1, FailingIsFail DEF Ledger!Next
  <2>2. CASE CloseEpisode
    <3>1. /\ ctl.episode.state = "TERMINATING" /\ locals.stopAfter \in BOOLEAN
          /\ ctl' = FinishTermination(ctl, locals.stopAfter)
      BY <2>2, TypeFacts DEF CloseEpisode, CoreInv, PlaceInv
    <3>2. DoFinishTermination
      BY <3>1, TerminatingFinishes DEF DoFinishTermination, CoreInv
    <3> QED BY <1>1, <3>2 DEF CtlNext
  <2>3. CASE AdvanceToNext
    <3>1. DoAdvanceEpisode \/ UNCHANGED ctl
      BY <2>3 DEF AdvanceToNext, DoAdvanceEpisode
    <3> QED BY <1>1, <3>1 DEF CtlNext
  <2>4. CASE UNCHANGED ctl
    BY <1>1, <2>4
  <2>5. Abandon \/ CloseEpisode \/ AdvanceToNext \/ UNCHANGED ctl
    BY <1>6 DEF RecordStep, FinalizeEvaluationFails, PersistEpisode, FinishRecorder,
      FinishIncomplete, StopFinishesRecorder, StopPart
  <2> QED BY <2>1, <2>2, <2>3, <2>4, <2>5
<1> QED BY <1>2, <1>3, <1>4, <1>5, <1>6, StepKinds

(* The whole node, with its failures, its queue and its stop(), keeps the   *)
(* ledger: no interleaving rewrites, skips or doubles a verdict, or reopens *)
(* an experiment that has ended.                                            *)
THEOREM NodeImplementsLedger == Spec => KeepsLedger
<1>1. Init => Ledger!Init
  BY LedgerStarts DEF Init, CtlInit
<1> QED BY <1>1, NodeLedgerSteps, CoreHolds, PTL DEF Spec, KeepsLedger, Ledger!Spec

-----------------------------------------------------------------------------
(* The requests.  The node answers a caller with a transition committed     *)
(* only where it commits one for it, and commits a reason that was asked    *)
(* for nowhere else.                                                        *)

HistoryInv ==
  /\ heeded \in Seq(Commands)
  /\ VerdictsAnswerRequests
  /\ pc = "start" => setup.automatic

LEMMA VerdictsTyped ==
  ASSUME IInv
  PROVE  VerdictsOf(ctl) \in Seq(Reasons \cup {"NONE"})
<1>1. ctl.completed \in Seq(Snapshots) /\ ctl.episode \in Snapshots
  BY Fields
<1>2. Append(ctl.completed, ctl.episode) \in Seq(Snapshots)
  BY <1>1, AppendProperties
<1> QED BY <1>1, <1>2, VerdictFacts, ReasonsInType

(* Only the processing of an event takes one from the queue.                *)
LEMMA OnlyEventsAreHeard ==
  ASSUME CoreInv, Next, ~ProcessEvent
  PROVE  ~CallerHears
<1> DEFINE E == [command : Commands, cancelled : BOOLEAN]
<1>1. events \in Seq(E)
  BY DEF CoreInv, OrchTypeOK
<1>2. CASE \E command \in Commands : Submit(command)
  <2>1. PICK command \in Commands : Submit(command)
    BY <1>2
  <2>2. /\ events' = Append(events, [command |-> command, cancelled |-> FALSE])
        /\ [command |-> command, cancelled |-> FALSE] \in E
    BY <2>1 DEF Submit
  <2> HIDE DEF E
  <2> QED BY <1>1, <2>2, AppendProperties, LenProperties DEF CallerHears
<1>3. CASE \E k \in DOMAIN events : TimeOut(k)
  <2>1. PICK k \in DOMAIN events : events' = [events EXCEPT ![k].cancelled = TRUE]
    BY <1>3 DEF TimeOut
  <2>2. DOMAIN events' = DOMAIN events /\ DOMAIN events = 1..Len(events)
    BY <1>1, <2>1, LenProperties
  <2>3. Len(events) \in Nat /\ events' \in Seq(E)
    <3>1. events' \in [1..Len(events) -> E]
      <4>1. events \in [1..Len(events) -> E] /\ k \in 1..Len(events)
        BY <1>1, <2>1, LenProperties
      <4>2. [events[k] EXCEPT !.cancelled = TRUE] \in E
        BY <4>1
      <4> HIDE DEF E
      <4> QED BY <2>1, <4>1, <4>2
    <3> QED BY <1>1, <3>1, LenProperties, SeqDef
  <2>4. Len(events') = Len(events)
    <3> HIDE DEF E
    <3> QED BY <1>1, <2>2, <2>3, LenProperties
  <2> QED BY <1>1, <2>4, LenProperties DEF CallerHears
<1>4. CASE ~Callers
  <2>1. UNCHANGED events
    BY <1>4 DEF Next, ControlThread, LoopTop, HandleException, Preparation, PrepareFails,
      PrepareWaits, ComponentsReady, CreateResources, CreateResourcesFails,
      ResetEnvironment, ResetEnvironmentFails, ResetAgent, ResetAgentFails, PublishTask,
      PublishTaskFails, EpisodeReady, AutomaticStart, StepDone, StepFails, Unprepared,
      Health, HealthFails, HealthPasses, Finalization, Finalizing, FinalizationStarts,
      SafeStopHandshake, FinalizeEvaluation, FinalizeEvaluationFails, PersistEpisode,
      FinishRecorder, FinishIncomplete, CloseEpisode, AdvanceToNext, NoEvent, Stop,
      StopThread, JoinEndsOrTimesOut, StopClosesResources, StopFinishesRecorder,
      StopPart, DeadlinePasses
  <2> QED BY <1>1, <2>1, LenProperties DEF CallerHears
<1> QED BY <1>2, <1>3, <1>4 DEF Callers

(* The place before an automatic start is reached in the automatic mode.    *)
LEMMA StartsAreAutomatic ==
  ASSUME CoreInv, Next, ~ProcessEvent, pc = "start" => setup.automatic
  PROVE  setup' = setup /\ (pc' = "start" => setup.automatic)
<1>1. CASE pc' = pc
  <2>1. setup' = setup
    BY StepKinds DEF QuietStep, MoveStep, RequestStep, CommitStep, RecordStep, Apart,
      FinalizeEvaluationFails, PersistEpisode, FinishRecorder, FinishIncomplete,
      CloseEpisode, AdvanceToNext, StopFinishesRecorder, Finalizing, StopPart
  <2> QED BY <1>1, <2>1
<1>2. CASE pc' # pc /\ ~EpisodeReady
  <2>1. ASSUME NEW reason, NEW stop, NEW next, NEW onRaise, next # "start",
               onRaise # "start", CommitTermination(reason, stop, next, onRaise)
        PROVE  pc' # "start"
    BY <2>1 DEF CommitTermination, Publish, Goto
  <2>2. ASSUME NEW reason, FailWith(reason)
        PROVE  pc' # "start"
    BY <2>1, <2>2 DEF FailWith
  <2>3. CASE LoopTop \/ HandleException \/ Health \/ NoEvent
    BY <2>1, <2>2, <2>3 DEF LoopTop, HandleException, Health, HealthFails, HealthPasses,
      NoEvent, Unprepared, Goto
  <2>4. CASE Preparation
    BY <1>2, <2>1, <2>2, <2>4 DEF Preparation, PrepareFails, PrepareWaits, ComponentsReady,
      CreateResources, CreateResourcesFails, ResetEnvironment, ResetEnvironmentFails,
      ResetAgent, ResetAgentFails, PublishTask, PublishTaskFails, AutomaticStart, Publish,
      StepDone, StepFails, Unprepared, Goto
  <2>5. CASE Finalization
    BY <2>5 DEF Finalization, Finalizing, FinalizationStarts, SafeStopHandshake,
      FinalizeEvaluation, FinalizeEvaluationFails, PersistEpisode, FinishRecorder,
      FinishIncomplete, CloseEpisode, AdvanceToNext, Goto
  <2>6. CASE Stop \/ StopThread \/ Callers \/ DeadlinePasses
    BY <1>2, <2>6 DEF Stop, StopThread, JoinEndsOrTimesOut, StopClosesResources,
      StopFinishesRecorder, StopPart, Callers, Submit, TimeOut, DeadlinePasses
  <2> QED BY <2>3, <2>4, <2>5, <2>6 DEF Next, ControlThread
<1>3. CASE EpisodeReady
  BY <1>3 DEF EpisodeReady, Publish, Goto, Unprepared
<1> QED BY <1>1, <1>2, <1>3

(* What a step without an event does to the verdicts and to the run.        *)
LEMMA OwnSteps ==
  ASSUME CoreInv, Next, ~ProcessEvent
  PROVE  /\ \/ UNCHANGED VerdictsOf(ctl)
            \/ \E reason \in OwnReasons :
                 VerdictsOf(ctl)' = Append(VerdictsOf(ctl), reason)
         /\ ctl'.episode.state = "RUNNING" =>
              pc = "start" \/ UNCHANGED <<ctl.episode.id, ctl.episode.state>>
<1> USE DEF CoreInv
<1>1. CASE QuietStep
  BY <1>1 DEF QuietStep, VerdictsOf
<1>2. CASE MoveStep /\ Preparation
  <2>1. DoMarkComponentsReady \/ DoMarkPrepared \/ DoRequestStart
    BY <1>2 DEF MoveStep
  <2>2. CASE DoMarkComponentsReady
    <3>1. ctl' = [ctl EXCEPT !.experiment = "RUNNING"]
      BY <2>2 DEF DoMarkComponentsReady, MarkComponentsReady
    <3>2. UNCHANGED <<ctl.episode, ctl.completed>>
      BY <3>1, Fields
    <3> QED BY <3>2, SameVerdicts
  <2>3. CASE DoMarkPrepared
    <3>1. /\ "READY" \in EpisodeTransitions[ctl.episode.state]
          /\ ctl' = [ctl EXCEPT !.episode = MoveEpisode(@, "READY", "NONE")]
      BY <2>3 DEF DoMarkPrepared, CanMarkPrepared, CanMoveEpisode, MarkPrepared
    <3>2. ctl'.episode.state = "READY" /\ UNCHANGED ctl.completed
      BY <3>1, MovePreserves DEF EpisodeStates
    <3>3. ctl.episode.state # "TERMINATING"
      BY <3>1 DEF EpisodeTransitions
    <3> QED BY <3>2, <3>3, NoVerdict
  <2>4. CASE DoRequestStart
    <3>1. /\ ctl.episode.state = "READY"
          /\ ctl' = [ctl EXCEPT !.episode = MoveEpisode(@, "RUNNING", "NONE")]
      BY <2>4 DEF DoRequestStart, StartAccepted, RequestStart
    <3>2. "RUNNING" \in EpisodeTransitions[ctl.episode.state]
      BY <3>1 DEF EpisodeTransitions
    <3>3. ctl'.episode.state = "RUNNING" /\ UNCHANGED ctl.completed
      BY <3>1, <3>2, MovePreserves DEF EpisodeStates
    <3>4. pc = "start"
      BY <1>2, <3>1 DEF Preparation, PrepareFails, PrepareWaits, ComponentsReady,
        CreateResources, CreateResourcesFails, ResetEnvironment, ResetEnvironmentFails,
        ResetAgent, ResetAgentFails, PublishTask, PublishTaskFails, EpisodeReady,
        AutomaticStart, StepDone, StepFails, PlaceInv
    <3> QED BY <3>1, <3>3, <3>4, NoVerdict
  <2> QED BY <2>1, <2>2, <2>3, <2>4
<1>3. CASE CommitStep
  <2>1. PICK reason \in OwnReasons, stop \in BOOLEAN, next \in Places, onRaise \in Places :
          CommitTermination(reason, stop, next, onRaise)
    BY <1>3 DEF CommitStep
  <2>2. /\ IInv' /\ UNCHANGED <<ctl.index, ctl.completed>>
        /\ \/ /\ ctl.episode.state \in OpenStates
              /\ ctl'.episode.state = "TERMINATING"
              /\ ctl'.episode.reason = reason
           \/ UNCHANGED ctl.episode
    BY <2>1, OwnReasonsAreReasons, CommitFacts
  <2>3. CASE UNCHANGED ctl.episode
    BY <2>2, <2>3, SameVerdicts
  <2>4. CASE /\ ctl.episode.state \in OpenStates
             /\ ctl'.episode.state = "TERMINATING"
             /\ ctl'.episode.reason = reason
    BY <2>2, <2>4, VerdictGiven
  <2> QED BY <2>2, <2>3, <2>4
<1>4. CASE RecordStep
  <2>1. CASE Abandon
    BY <2>1, AbandonFacts, SameVerdicts
  <2>2. CASE CloseEpisode
    <3>1. /\ ctl.episode.state = "TERMINATING" /\ locals.stopAfter \in BOOLEAN
          /\ ctl' = FinishTermination(ctl, locals.stopAfter)
      BY <2>2, TypeFacts DEF CloseEpisode, PlaceInv
    <3>2. CanFinishTermination(ctl) /\ DoFinishTermination
      BY <3>1, TerminatingFinishes DEF DoFinishTermination
    <3>3. UNCHANGED VerdictsOf(ctl)
      BY <3>2, FinishEnds DEF Ledger!Complete, Ledger!Fail, Ledger!vars
    <3>4. ctl'.episode.state = "FINISHED"
      BY <3>1, <3>2, FinishPreserves
    <3> QED BY <3>3, <3>4
  <2>3. CASE AdvanceToNext
    <3>1. CASE UNCHANGED ctl
      BY <3>1, SameVerdicts
    <3>2. CASE CanAdvanceEpisode(ctl) /\ ctl' = AdvanceEpisode(ctl)
      <4>1. /\ ctl.episode.state = "FINISHED" /\ ctl'.episode.state = "PREPARING"
            /\ UNCHANGED ctl.completed
        BY <3>2, AdvancePreserves, Fields DEF CanAdvanceEpisode, NewEpisode, AdvanceEpisode
      <4> QED BY <4>1, NoVerdict
    <3> QED BY <2>3, <3>1, <3>2 DEF AdvanceToNext
  <2>4. CASE UNCHANGED ctl
    BY <2>4, SameVerdicts
  <2>5. Abandon \/ CloseEpisode \/ AdvanceToNext \/ UNCHANGED ctl
    BY <1>4 DEF RecordStep, FinalizeEvaluationFails, PersistEpisode, FinishRecorder,
      FinishIncomplete, StopFinishesRecorder, StopPart
  <2> QED BY <2>1, <2>2, <2>3, <2>4, <2>5
<1> QED BY <1>1, <1>2, <1>3, <1>4, OwnKinds

(* What the processing of an event does to them: a caller that hears of a   *)
(* transition has asked for it, and one that does not has caused none.      *)
LEMMA EventSteps ==
  ASSUME CoreInv, ProcessEvent, HistoryGrows, heeded \in Seq(Commands)
  PROVE  \/ /\ UNCHANGED <<heeded, setup, ctl>>
         \/ \E command \in Commands :
              /\ heeded' = Append(heeded, command)
              /\ setup' = setup
              /\ command.id = ctl.episode.id
              /\ UNCHANGED <<ctl.episode.id, ctl.index>>
              /\ \/ /\ command.kind = "start"
                    /\ ctl'.episode.state = "RUNNING"
                    /\ UNCHANGED VerdictsOf(ctl)
                 \/ /\ Closing(command)
                    /\ ctl'.episode.state = "TERMINATING"
                    /\ ctl.episode.state \in OpenStates
                    /\ command.reason \in Reasons
                    /\ VerdictsOf(ctl)' = Append(VerdictsOf(ctl), command.reason)
<1> DEFINE E == [command : Commands, cancelled : BOOLEAN]
           event == Head(events)
           command == event.command
<1>1. /\ events \in Seq(E) /\ events # << >> /\ events' = Tail(events)
      /\ UNCHANGED setup
  BY DEF ProcessEvent, CoreInv, OrchTypeOK
<1>2. event \in E /\ Len(events') < Len(events)
  <2>1. /\ event \in E /\ Len(Tail(events)) = Len(events) - 1
        /\ Len(events) \in Nat
    BY <1>1, HeadTailProperties, LenProperties
  <2> QED BY <1>1, <2>1
<1>3. command \in Commands
  BY <1>2
<1>4. \/ /\ ~event.cancelled /\ Accepts(ctl, command)
         /\ ctl' = Applied(ctl, command) /\ decision' \in TookEffect
      \/ UNCHANGED ctl /\ decision' \notin TookEffect
  BY DEF ProcessEvent, Publish, Goto, TookEffect
<1>5. CASE UNCHANGED ctl /\ decision' \notin TookEffect
  BY <1>1, <1>5 DEF HistoryGrows, CallerHears
<1>6. CASE /\ ~event.cancelled /\ Accepts(ctl, command)
           /\ ctl' = Applied(ctl, command) /\ decision' \in TookEffect
  <2>1. heeded' = Append(heeded, command)
    BY <1>2, <1>6 DEF HistoryGrows, CallerHears
  <2> HIDE DEF command, event, E
  <2>2. CASE command.kind = "start"
    <3>1. /\ ctl.episode.state = "READY" /\ command.id = ctl.episode.id
          /\ ctl' = [ctl EXCEPT !.episode = MoveEpisode(@, "RUNNING", "NONE")]
      BY <1>6, <2>2 DEF Accepts, StartAccepted, Applied, RequestStart
    <3>2. "RUNNING" \in EpisodeTransitions[ctl.episode.state]
      BY <3>1 DEF EpisodeTransitions
    <3>3. /\ ctl'.episode.state = "RUNNING" /\ IInv'
          /\ UNCHANGED <<ctl.completed, ctl.index>>
      BY <3>1, <3>2, MovePreserves DEF CoreInv, EpisodeStates
    <3>4. UNCHANGED <<ctl.episode.id, ctl.index>>
      BY <3>3, Fields DEF CoreInv, IInv, CtlInv
    <3> QED BY <1>1, <1>3, <2>1, <2>2, <3>1, <3>3, <3>4, NoVerdict
  <2>3. CASE command.kind # "start"
    <3>1. /\ command.kind \in {"abort", "terminate"}
          /\ command.reason \in Reasons \cup {"NONE"}
      BY <1>3, <2>3, ReasonFacts, CandidatesAssumption DEF Commands
    <3>2. TerminationAccepted(ctl, command.reason) /\ command.id = ctl.episode.id
      BY <1>6, <3>1 DEF Accepts, AbortAccepted
    <3>3. /\ ctl' = [ctl EXCEPT !.episode = MoveEpisode(@, "TERMINATING", command.reason)]
          /\ "TERMINATING" \in EpisodeTransitions[ctl.episode.state]
          /\ ctl.episode.state \in OpenStates /\ command.reason # "NONE"
      BY <1>6, <2>3, <3>2 DEF Applied, RequestTermination, TerminationAccepted, OpenStates,
        EpisodeTransitions
    <3>4. /\ IInv' /\ ctl'.episode.state = "TERMINATING"
          /\ ctl'.episode.reason = command.reason
          /\ UNCHANGED <<ctl.index, ctl.completed>>
      <4>1. ctl.episode.reason = "NONE"
        BY <3>3, Fields DEF CoreInv, SnapshotOK
      <4> QED BY <3>1, <3>3, <4>1, MovePreserves DEF CoreInv, EpisodeStates
    <3>5. UNCHANGED <<ctl.episode.id, ctl.index>>
      BY <3>4, Fields DEF CoreInv, IInv, CtlInv
    <3>6. VerdictsOf(ctl)' = Append(VerdictsOf(ctl), command.reason)
      BY <3>3, <3>4, VerdictGiven DEF CoreInv
    <3> QED BY <1>1, <1>3, <2>1, <2>3, <3>1, <3>2, <3>3, <3>4, <3>5, <3>6 DEF Closing
  <2> QED BY <2>2, <2>3
<1> QED BY <1>4, <1>5, <1>6

(* Whichever threads step, and in whatever order, the history and the       *)
(* verdicts keep agreeing.                                                  *)
LEMMA HistoryStep ==
  ASSUME CoreInv, HistoryInv, [HistoryNext]_<<vars, heeded>>
  PROVE  HistoryInv'
<1> DEFINE V == VerdictsOf(ctl)
           T == Reasons \cup {"NONE"}
<1>1. /\ heeded \in Seq(Commands) /\ V \in Seq(T)
      /\ DOMAIN heeded = 1..Len(heeded) /\ DOMAIN V = 1..Len(V)
      /\ Len(heeded) \in Nat /\ Len(V) \in Nat
  BY VerdictsTyped, LenProperties DEF HistoryInv, CoreInv
<1>2. Len(V) = IF ctl.episode.state \in OpenStates THEN ctl.index - 1 ELSE ctl.index
  BY VerdictCount DEF CoreInv
<1>3. ctl.index \in Nat \ {0} /\ ctl.episode.id = ctl.index
  BY Fields DEF CoreInv, EpisodeIds
<1> HIDE DEF V, T
<1>4. ASSUME UNCHANGED <<heeded, setup, ctl>>, pc' = "start" => pc = "start"
      PROVE  HistoryInv'
  <2>1. UNCHANGED V
    BY <1>4 DEF V, VerdictsOf
  <2>2. ToldIsCommitted' /\ CommittedIsTold'
    BY <1>4, <2>1
    DEF V, HistoryInv, VerdictsAnswerRequests, ToldIsCommitted, CommittedIsTold
  <2>3. OneIsTold' /\ RunIsTold'
    BY <1>4 DEF HistoryInv, VerdictsAnswerRequests, OneIsTold, RunIsTold
  <2> QED BY <1>4, <2>2, <2>3 DEF HistoryInv, VerdictsAnswerRequests
<1>5. CASE Next /\ HistoryGrows /\ ~ProcessEvent
  <2>1. UNCHANGED heeded
    BY <1>5, OnlyEventsAreHeard DEF HistoryGrows
  <2>2. setup' = setup /\ (pc' = "start" => setup.automatic)
    BY <1>5, StartsAreAutomatic DEF HistoryInv
  <2>3. RunIsTold'
    <3>1. ctl'.episode.state = "RUNNING" =>
            pc = "start" \/ UNCHANGED <<ctl.episode.id, ctl.episode.state>>
      BY <1>5, OwnSteps
    <3> QED BY <2>1, <2>2, <3>1 DEF HistoryInv, VerdictsAnswerRequests, RunIsTold
  <2>4. CASE UNCHANGED V
    BY <2>1, <2>2, <2>3, <2>4 DEF V, HistoryInv, VerdictsAnswerRequests, ToldIsCommitted,
      OneIsTold, CommittedIsTold
  <2>5. CASE \E reason \in OwnReasons : V' = Append(V, reason)
    <3>1. PICK reason \in OwnReasons : V' = Append(V, reason)
      BY <2>5
    <3>2. reason \in T /\ reason \notin AskedReasons
      BY OwnReasonsAreReasons DEF T, OwnReasons, Infrastructure, AskedReasons
    <3>3. /\ DOMAIN V' = 1..(Len(V) + 1) /\ V'[Len(V) + 1] = reason
          /\ \A k \in 1..Len(V) : V'[k] = V[k]
      BY <1>1, <3>1, <3>2, AppendProperties, LenProperties
    <3>4. ToldIsCommitted'
      BY <1>1, <2>1, <3>3 DEF HistoryInv, VerdictsAnswerRequests, ToldIsCommitted, V
    <3>5. OneIsTold'
      BY <2>1 DEF HistoryInv, VerdictsAnswerRequests, OneIsTold
    <3>6. CommittedIsTold'
      BY <1>1, <2>1, <3>2, <3>3
      DEF HistoryInv, VerdictsAnswerRequests, CommittedIsTold, V
    <3> QED BY <2>1, <2>2, <2>3, <3>4, <3>5, <3>6 DEF HistoryInv, VerdictsAnswerRequests
  <2> QED BY <1>5, <2>4, <2>5, OwnSteps DEF V
<1>6. CASE ProcessEvent /\ HistoryGrows
  <2>1. heeded \in Seq(Commands)
    BY <1>1
  <2>2. pc' # "start"
    BY <1>6 DEF ProcessEvent, Publish, Goto
  <2>3. CASE UNCHANGED <<heeded, setup, ctl>>
    BY <1>4, <2>2, <2>3
  <2>4. ASSUME NEW command \in Commands,
               heeded' = Append(heeded, command),
               setup' = setup,
               command.id = ctl.episode.id,
               UNCHANGED <<ctl.episode.id, ctl.index>>,
               \/ /\ command.kind = "start"
                  /\ ctl'.episode.state = "RUNNING"
                  /\ UNCHANGED V
               \/ /\ Closing(command)
                  /\ ctl'.episode.state = "TERMINATING"
                  /\ ctl.episode.state \in OpenStates
                  /\ command.reason \in Reasons
                  /\ V' = Append(V, command.reason)
        PROVE  HistoryInv'
    <3> DEFINE n == Len(heeded) + 1
    <3>1. /\ heeded' \in Seq(Commands) /\ DOMAIN heeded' = 1..n /\ heeded'[n] = command
          /\ \A i \in 1..Len(heeded) : heeded'[i] = heeded[i]
      <4>1. /\ Append(heeded, command) \in Seq(Commands)
            /\ Len(Append(heeded, command)) = n
            /\ Append(heeded, command)[n] = command
            /\ \A i \in 1..Len(heeded) : Append(heeded, command)[i] = heeded[i]
        BY <2>1, AppendProperties
      <4> QED BY <2>4, <4>1, LenProperties
    <3>2. CASE command.kind = "start" /\ ctl'.episode.state = "RUNNING" /\ UNCHANGED V
      <4>1. ~Closing(command)
        BY <3>2 DEF Closing
      <4>2. ToldIsCommitted' /\ OneIsTold'
        <5>1. \A i \in DOMAIN heeded' :
                Closing(heeded'[i]) => i \in DOMAIN heeded /\ heeded'[i] = heeded[i]
          BY <1>1, <3>1, <4>1
        <5>2. ToldIsCommitted'
          BY <3>2, <5>1 DEF HistoryInv, VerdictsAnswerRequests, ToldIsCommitted, V
        <5>3. OneIsTold'
          BY <5>1 DEF HistoryInv, VerdictsAnswerRequests, OneIsTold
        <5> QED BY <5>2, <5>3
      <4>3. CommittedIsTold'
        BY <1>1, <3>1, <3>2 DEF HistoryInv, VerdictsAnswerRequests, CommittedIsTold, V
      <4>4. RunIsTold'
        <5>1. /\ n \in DOMAIN heeded' /\ heeded'[n].kind = "start"
              /\ heeded'[n].id = ctl'.episode.id
          <6>1. n \in DOMAIN heeded' /\ heeded'[n] = command
            BY <1>1, <3>1
          <6>2. ctl'.episode.id = command.id
            BY <2>4
          <6> QED BY <3>2, <6>1, <6>2
        <5> QED BY <5>1 DEF RunIsTold
      <4> QED BY <2>2, <3>1, <4>2, <4>3, <4>4 DEF HistoryInv, VerdictsAnswerRequests
    <3>3. CASE /\ Closing(command)
               /\ ctl'.episode.state = "TERMINATING"
               /\ ctl.episode.state \in OpenStates
               /\ command.reason \in Reasons
               /\ V' = Append(V, command.reason)
      <4>1. /\ DOMAIN V' = 1..(Len(V) + 1) /\ V'[Len(V) + 1] = command.reason
            /\ \A k \in 1..Len(V) : V'[k] = V[k]
        BY <1>1, <3>3, AppendProperties, LenProperties DEF T
      <4>2. command.id = Len(V) + 1
        BY <1>2, <1>3, <2>4, <3>3
      <4>3. \A i \in 1..Len(heeded) : Closing(heeded[i]) => heeded[i].id # command.id
        BY <1>1, <4>2 DEF HistoryInv, VerdictsAnswerRequests, ToldIsCommitted, V
      <4>4. ToldIsCommitted'
        BY <1>1, <3>1, <4>1, <4>2
        DEF HistoryInv, VerdictsAnswerRequests, ToldIsCommitted, V
      <4>5. OneIsTold'
        BY <1>1, <3>1, <4>3 DEF HistoryInv, VerdictsAnswerRequests, OneIsTold
      <4>6. CommittedIsTold'
        <5>1. ASSUME NEW k \in DOMAIN V', V'[k] \in AskedReasons
              PROVE  \E i \in DOMAIN heeded' : /\ Closing(heeded'[i]) /\ heeded'[i].id = k
                                               /\ heeded'[i].reason = V'[k]
          <6>1. CASE k \in 1..Len(V)
            <7>1. PICK i \in 1..Len(heeded) : /\ Closing(heeded[i]) /\ heeded[i].id = k
                                              /\ heeded[i].reason = V[k]
              BY <1>1, <4>1, <5>1, <6>1
              DEF HistoryInv, VerdictsAnswerRequests, CommittedIsTold, V
            <7> QED BY <1>1, <3>1, <4>1, <6>1, <7>1 DEF Closing
          <6>2. CASE k = Len(V) + 1
            <7>1. /\ n \in DOMAIN heeded' /\ heeded'[n] = command
                  /\ V'[k] = command.reason
              BY <1>1, <3>1, <4>1, <6>2
            <7>2. Closing(heeded'[n]) /\ heeded'[n].id = k /\ heeded'[n].reason = V'[k]
              BY <3>3, <4>2, <6>2, <7>1 DEF Closing
            <7> QED BY <7>1, <7>2
          <6> QED BY <1>1, <4>1, <5>1, <6>1, <6>2
        <5> QED BY <5>1 DEF CommittedIsTold, V
      <4>7. RunIsTold'
        BY <3>3 DEF RunIsTold
      <4> QED BY <2>2, <3>1, <4>4, <4>5, <4>6, <4>7 DEF HistoryInv, VerdictsAnswerRequests
    <3> QED BY <2>4, <3>2, <3>3
  <2> QED BY <1>6, <2>1, <2>3, <2>4, EventSteps DEF V
<1> QED BY <1>4, <1>5, <1>6 DEF HistoryNext, vars

(* What callers were told agrees with what the node has committed, for any  *)
(* list of episodes, any length of the queue and any failures: a request    *)
(* that was withdrawn, or that waited until its episode had ended, never    *)
(* ends or starts one, and an accepted one is never undone.                 *)
THEOREM RequestsAnswered == HistorySpec => []VerdictsAnswerRequests
<1>1. HistorySpec => []CoreInv
  <2>1. HistoryInit => CoreInv
    BY CoreHoldsFirst DEF HistoryInit
  <2>2. CoreInv /\ [HistoryNext]_<<vars, heeded>> => CoreInv'
    <3>1. [HistoryNext]_<<vars, heeded>> => [Next]_vars
      BY DEF HistoryNext
    <3> QED BY <3>1, CoreStep
  <2> QED BY <2>1, <2>2, PTL DEF HistorySpec
<1>2. HistoryInit => HistoryInv
  <2> SUFFICES ASSUME HistoryInit PROVE HistoryInv
    OBVIOUS
  <2>1. /\ heeded = << >> /\ pc = "top" /\ ctl.episode.state = "PREPARING"
    BY DEF HistoryInit, Init, InitialController, NewEpisode
  <2>2. heeded \in Seq(Commands) /\ DOMAIN heeded = {}
    BY <2>1
  <2>3. VerdictsOf(ctl) = << >>
    BY LedgerStarts DEF HistoryInit, Init, CtlInit, Ledger!Init
  <2>4. DOMAIN VerdictsOf(ctl) = {}
    BY <2>3
  <2> QED BY <2>1, <2>2, <2>4 DEF HistoryInv, VerdictsAnswerRequests, ToldIsCommitted,
          OneIsTold, CommittedIsTold, RunIsTold
<1>3. CoreInv /\ HistoryInv /\ [HistoryNext]_<<vars, heeded>> => HistoryInv'
  BY HistoryStep
<1>4. HistoryInv => VerdictsAnswerRequests
  BY DEF HistoryInv
<1> QED BY <1>1, <1>2, <1>3, <1>4, PTL DEF HistorySpec

-----------------------------------------------------------------------------
(* The record.  The evaluator of the code submits SUCCESS, FAILURE and      *)
(* TIMEOUT only (evaluation.py:104-163), which is the hypothesis here: a    *)
(* candidate with a component's reason would end its episode without        *)
(* stopping the experiment.                                                 *)

AllWell ==
  /\ AllComplete
  /\ ctl.index = NumEpisodes
  /\ ctl.episode.state \in TerminalStates
  /\ ctl.episode.reason \notin Infrastructure

RecordInv ==
  /\ ctl.episode.reason \in Infrastructure => locals.stopAfter
  /\ InfrastructureStops
  /\ pc \in RecordPlaces /\ ~locals.stopAfter /\ setup.recording
       => recorder.episodes[ctl.index] = "complete"
  /\ recorder.finished /\ recorder.complete => AllWell

(* What a step within an episode has to show.                               *)
LEMMA RecordPreserved ==
  ASSUME CoreInv, RecordInv,
         UNCHANGED <<setup, ctl.index>>,
         \A k \in 1..(ctl.index - 1) : ctl'.completed[k] = ctl.completed[k],
         ctl'.episode.reason \in Infrastructure => locals'.stopAfter,
         ctl.episode.state \in TerminalStates
           => ctl'.episode.state \in TerminalStates /\ UNCHANGED ctl.episode.reason,
         pc' \in RecordPlaces /\ ~locals'.stopAfter /\ setup.recording
           => recorder'.episodes[ctl.index] = "complete",
         \A id \in EpisodeIds :
           recorder.episodes[id] = "complete" => recorder'.episodes[id] = "complete",
         recorder'.finished /\ recorder'.complete
           => \/ recorder.finished /\ recorder.complete
              \/ AllWell'
  PROVE  RecordInv'
<1>1. InfrastructureStops'
  <2>1. \A k \in 1..(ctl.index - 1) : k \in EpisodeIds
    BY Fields, NumEpisodesAssumption DEF CoreInv, EpisodeIds
  <2> QED BY <2>1 DEF RecordInv, InfrastructureStops, Infrastructure
<1>2. (recorder.finished /\ recorder.complete => AllWell)'
  BY DEF RecordInv, AllWell, AllComplete
<1> QED BY <1>1, <1>2 DEF RecordInv

(* The recorder's calls: what is complete stays so but for a buffer begun   *)
(* anew, and a recorder that is finished no longer changes.                 *)
LEMMA CompletesOnly ==
  ASSUME CoreInv, NEW id \in EpisodeIds, NEW complete \in BOOLEAN,
         \/ UNCHANGED recorder
         \/ CompleteReturns(id) \/ CompleteRaises(id)
         \/ FinishReturns(complete) \/ FinishRaises(complete)
  PROVE  /\ \A k \in EpisodeIds :
              recorder.episodes[k] = "complete" => recorder'.episodes[k] = "complete"
         /\ recorder.finished => UNCHANGED recorder
         /\ recorder'.finished /\ recorder'.complete =>
              \/ recorder.finished /\ recorder.complete
              \/ complete /\ AllComplete /\ UNCHANGED recorder.episodes
<1> USE TypeFacts DEF CoreInv
<1>1. CASE UNCHANGED recorder
  BY <1>1
<1>2. CASE CompleteReturns(id) \/ CompleteRaises(id)
  BY <1>2 DEF CompleteReturns, CompleteRaises, BufferOpen, RecorderActive
<1>3. CASE FinishReturns(complete) \/ FinishRaises(complete)
  BY <1>3 DEF FinishReturns, FinishRaises, RecorderActive
<1> QED BY <1>1, <1>2, <1>3

LEMMA RecordQuiet ==
  ASSUME CoreInv, RecordInv, Candidates \cap Infrastructure = {},
         QuietStep \/ MoveStep \/ RequestStep \/ CommitStep
  PROVE  RecordInv'
<1>1. UNCHANGED <<setup, recorder>> /\ ElsewhereOrSame
  BY DEF QuietStep, MoveStep, RequestStep, CommitStep, Apart
<1>2. CASE QuietStep
  BY <1>1, <1>2, RecordPreserved DEF QuietStep, ElsewhereOrSame, RecordInv
<1>3. CASE MoveStep
  <2>1. /\ UNCHANGED <<ctl.index, ctl.completed, locals.stopAfter>>
        /\ \/ UNCHANGED ctl.episode
           \/ /\ ctl.episode.state \in OpenStates
              /\ ctl'.episode.reason = ctl.episode.reason
    <3>1. CASE DoMarkComponentsReady
      BY <1>3, <3>1, ExperimentPreserves
      DEF CoreInv, MoveStep, DoMarkComponentsReady, MarkComponentsReady
    <3>2. CASE DoMarkPrepared
      BY <1>3, <3>2, RequestFacts, MovePreserves, Fields
      DEF CoreInv, MoveStep, DoMarkPrepared, MarkPrepared, EpisodeTransitions, OpenStates,
          EpisodeStates
    <3>3. CASE DoRequestStart
      BY <1>3, <3>3, RequestFacts, MovePreserves, Fields
      DEF CoreInv, MoveStep, DoRequestStart, RequestStart, EpisodeTransitions, OpenStates,
          EpisodeStates
    <3> QED BY <1>3, <3>1, <3>2, <3>3 DEF MoveStep
  <2>2. ctl.episode.state \in OpenStates => ctl.episode.state \notin TerminalStates
    BY DEF OpenStates, TerminalStates
  <2> QED BY <1>1, <2>1, <2>2, RecordPreserved DEF ElsewhereOrSame, RecordInv
<1>4. CASE RequestStep
  <2>1. PICK reason \in Candidates \cup {"ABORTED"} :
          TerminationAccepted(ctl, reason) /\ ctl' = RequestTermination(ctl, reason)
    BY <1>4 DEF RequestStep
  <2>2. reason \in Reasons /\ reason # "NONE" /\ reason \notin Infrastructure
    BY ReasonFacts, CandidatesAssumption DEF Infrastructure
  <2>3. /\ ctl.episode.state \in OpenStates /\ ctl.episode.state \notin TerminalStates
        /\ "TERMINATING" \in EpisodeTransitions[ctl.episode.state]
        /\ ctl.episode.reason = "NONE"
    BY <2>1, Fields DEF TerminationAccepted, OpenStates, EpisodeTransitions, SnapshotOK,
      CoreInv, TerminalStates
  <2>4. /\ UNCHANGED <<ctl.index, ctl.completed, locals.stopAfter>>
        /\ ctl'.episode.reason = reason
    BY <1>4, <2>1, <2>2, <2>3, MovePreserves DEF RequestTermination, RequestStep, CoreInv
  <2> QED BY <1>1, <2>2, <2>3, <2>4, RecordPreserved DEF ElsewhereOrSame, RecordInv
<1>5. CASE CommitStep
  <2>1. PICK reason \in Reasons, stop \in BOOLEAN, next \in Places, onRaise \in Places :
          /\ reason \in Infrastructure => stop
          /\ CommitTermination(reason, stop, next, onRaise)
    BY <1>5, OwnReasonsAreReasons DEF CommitStep
  <2>2. /\ UNCHANGED <<ctl.index, ctl.completed>>
        /\ locals' = [locals EXCEPT !.stopAfter = @ \/ stop]
        /\ \/ /\ ctl.episode.state \in OpenStates
              /\ ctl'.episode.reason = reason
           \/ UNCHANGED ctl.episode
    BY <2>1, CommitFacts DEF CoreInv
  <2>3. locals'.stopAfter = (locals.stopAfter \/ stop)
    BY <2>2, TypeFacts DEF CoreInv
  <2>4. ctl.episode.state \in OpenStates => ctl.episode.state \notin TerminalStates
    BY DEF OpenStates, TerminalStates
  <2> QED BY <1>1, <2>1, <2>2, <2>3, <2>4, RecordPreserved DEF ElsewhereOrSame, RecordInv
<1> QED BY <1>2, <1>3, <1>4, <1>5

LEMMA RecordAdvances ==
  ASSUME CoreInv, RecordInv, AdvanceToNext
  PROVE  RecordInv'
<1>1. /\ pc = "advance" /\ pc' \in {"event", "except"} /\ UNCHANGED setup
      /\ ctl.episode.state = "FINISHED" /\ ~locals.stopAfter
      /\ ctl.index \in EpisodeIds
  BY Fields DEF AdvanceToNext, Goto, CoreInv, PlaceInv
<1>2. CASE ~CanAdvanceEpisode(ctl)
  <2>1. UNCHANGED <<ctl, locals, recorder>>
    BY <1>2 DEF AdvanceToNext, workerVars
  <2> QED BY <1>1, <2>1, RecordPreserved DEF RecordPlaces, RecordInv
<1>3. CASE CanAdvanceEpisode(ctl)
  <2>1. /\ DoAdvanceEpisode
        /\ BeginReturns(ctl'.episode.id) \/ BeginRaises(ctl'.episode.id)
    BY <1>3 DEF AdvanceToNext, DoAdvanceEpisode
  <2>2. /\ IInv' /\ ctl.index < NumEpisodes /\ ctl'.index = ctl.index + 1
        /\ ctl'.completed = ctl.completed /\ ctl'.episode.state = "PREPARING"
    BY <2>1, AdvancePreserves DEF CoreInv
  <2>3. ctl'.episode.id = ctl.index + 1 /\ ctl'.episode.reason = "NONE"
    BY <2>2 DEF IInv, CtlInv, SnapshotOK, OpenStates
  <2>4. /\ ctl.completed[ctl.index].reason \notin Infrastructure
        /\ setup.recording => recorder.episodes[ctl.index] = "complete"
    BY <1>1 DEF RecordInv, CoreInv, FiledInv, RecordPlaces
  <2>5. /\ \A k \in 1..ctl.index :
             recorder.episodes[k] = "complete" => recorder'.episodes[k] = "complete"
        /\ recorder.finished => recorder' = recorder
        /\ recorder'.finished = recorder.finished
    <3>1. /\ \/ recorder' = recorder
             \/ recorder' = [recorder EXCEPT !.episodes[ctl.index + 1] = "open"]
          /\ recorder.finished => recorder' = recorder
      BY <2>1, <2>3 DEF BeginReturns, BeginRaises, RecorderActive
    <3>2. \A k \in 1..ctl.index : k # ctl.index + 1
      BY <1>1 DEF EpisodeIds
    <3>3. \A k \in 1..ctl.index : k \in EpisodeIds
      BY <1>1, NumEpisodesAssumption DEF EpisodeIds
    <3>4. CASE UNCHANGED recorder
      BY <3>4
    <3>5. CASE recorder' = [recorder EXCEPT !.episodes[ctl.index + 1] = "open"]
      <4>1. /\ recorder'.episodes = [recorder.episodes EXCEPT ![ctl.index + 1] = "open"]
            /\ recorder'.finished = recorder.finished
        BY <3>5, TypeFacts DEF CoreInv
      <4>2. \A k \in 1..ctl.index : recorder'.episodes[k] = recorder.episodes[k]
        BY <3>2, <3>3, <4>1, TypeFacts DEF CoreInv
      <4> QED BY <3>1, <4>1, <4>2
    <3> QED BY <3>1, <3>4, <3>5
  <2>6. InfrastructureStops'
    <3>1. \A k \in 1..ctl.index :
            /\ ctl.completed[k].reason \notin Infrastructure
            /\ setup.recording => recorder.episodes[k] = "complete"
      <4>1. ASSUME NEW k \in 1..ctl.index
            PROVE  k = ctl.index \/ k \in 1..(ctl.index - 1)
        BY <1>1 DEF EpisodeIds
      <4> QED BY <4>1, <2>4 DEF RecordInv, InfrastructureStops, Infrastructure
    <3>2. ctl'.index - 1 = ctl.index
      BY <1>1, <2>2 DEF EpisodeIds
    <3> QED BY <1>1, <2>2, <2>5, <3>1, <3>2 DEF InfrastructureStops, Infrastructure
  <2>7. ~(recorder'.finished /\ recorder'.complete)
    <3>1. ~(recorder.finished /\ recorder.complete)
      BY <1>1, <2>2, NumEpisodesAssumption DEF RecordInv, AllWell, EpisodeIds
    <3> QED BY <2>5, <3>1
  <2> QED BY <1>1, <2>3, <2>6, <2>7 DEF RecordInv, RecordPlaces, Infrastructure
<1> QED BY <1>2, <1>3

LEMMA RecordCloses ==
  ASSUME CoreInv, RecordInv, RecordStep
  PROVE  RecordInv'
<1>1. ctl.index \in EpisodeIds /\ ctl.episode.id = ctl.index
  BY Fields DEF CoreInv
<1>2. ASSUME UNCHANGED <<setup, ctl.index, ctl.episode, ctl.completed>>,
             UNCHANGED locals.stopAfter \/ locals'.stopAfter,
             NEW complete \in BOOLEAN,
             \/ UNCHANGED recorder
             \/ CompleteReturns(ctl.index) \/ CompleteRaises(ctl.index)
             \/ FinishReturns(complete) \/ FinishRaises(complete),
             complete => ManifestComplete /\ pc = "finish",
             pc' \in RecordPlaces /\ ~locals'.stopAfter /\ setup.recording
               => recorder'.episodes[ctl.index] = "complete"
      PROVE  RecordInv'
  <2>1. complete /\ AllComplete /\ UNCHANGED recorder.episodes => AllWell'
    <3> SUFFICES ASSUME complete, AllComplete, UNCHANGED recorder.episodes
                 PROVE  AllWell'
      OBVIOUS
    <3>1. /\ ~locals.stopAfter /\ ~(ctl.index < NumEpisodes)
          /\ ctl.episode.state = "TERMINATING"
      BY <1>2 DEF ManifestComplete, LastEpisode, HasNextEpisode, CoreInv, PlaceInv
    <3>2. ctl.index = NumEpisodes
      BY <1>1, <3>1, NumEpisodesAssumption DEF EpisodeIds
    <3>3. ctl.episode.reason \notin Infrastructure
      BY <3>1 DEF RecordInv
    <3> QED BY <1>2, <3>1, <3>2, <3>3 DEF AllWell, AllComplete, TerminalStates
  <2>2. /\ \A k \in EpisodeIds :
             recorder.episodes[k] = "complete" => recorder'.episodes[k] = "complete"
        /\ recorder'.finished /\ recorder'.complete =>
             \/ recorder.finished /\ recorder.complete
             \/ AllWell'
    BY <1>1, <1>2, <2>1, CompletesOnly
  <2> QED BY <1>2, <2>2, RecordPreserved DEF RecordInv
<1>3. CASE FinalizeEvaluationFails
  <2>1. /\ UNCHANGED <<setup, recorder, ctl.index, ctl.episode, ctl.completed>>
        /\ locals'.stopAfter /\ pc' = "persist"
    BY <1>3, AbandonFacts DEF FinalizeEvaluationFails, Finalizing, Goto
  <2> QED BY <1>2, <2>1 DEF RecordPlaces
<1>4. CASE PersistEpisode
  <2>1. UNCHANGED setup
    BY <1>4 DEF PersistEpisode, Finalizing
  <2>2. CASE Abandon /\ CompleteRaises(ctl.index)
    <3>1. UNCHANGED <<ctl.index, ctl.episode, ctl.completed>> /\ locals'.stopAfter
      BY <2>2, AbandonFacts
    <3> QED BY <1>2, <2>1, <2>2, <3>1
  <2>3. CASE CompleteReturns(ctl.index) /\ UNCHANGED ctl
             /\ locals' = [locals EXCEPT !.uri = TRUE]
    <3>1. UNCHANGED locals.stopAfter
      BY <2>3, TypeFacts DEF CoreInv
    <3>2. recorder'.episodes[ctl.index] = "complete"
      BY <1>1, <2>3, TypeFacts DEF CompleteReturns, CoreInv
    <3> QED BY <1>2, <2>1, <2>3, <3>1, <3>2
  <2>4. CASE ~setup.recording /\ UNCHANGED <<ctl, locals, recorder>>
    BY <1>2, <2>1, <2>4
  <2> QED BY <1>1, <1>4, <2>2, <2>3, <2>4 DEF PersistEpisode
<1>5. CASE FinishRecorder
  <2>1. /\ pc = "finish" /\ UNCHANGED setup /\ ManifestComplete \in BOOLEAN
        /\ \/ FinishReturns(ManifestComplete) \/ FinishRaises(ManifestComplete)
           \/ UNCHANGED recorder
    BY <1>5 DEF FinishRecorder, Finalizing, ManifestComplete
  <2>2. /\ UNCHANGED <<ctl.index, ctl.episode, ctl.completed>>
        /\ locals'.stopAfter \/ UNCHANGED locals
    BY <1>5, AbandonFacts DEF FinishRecorder
  <2>3. ~locals'.stopAfter /\ setup.recording => recorder'.episodes[ctl.index] = "complete"
    <3>1. ~locals'.stopAfter /\ setup.recording => recorder.episodes[ctl.index] = "complete"
      BY <2>1, <2>2 DEF RecordInv, RecordPlaces
    <3> QED BY <1>1, <2>1, <3>1, CompletesOnly
  <2> QED BY <1>2, <2>1, <2>2, <2>3
<1>6. CASE FinishIncomplete
  <2>1. /\ UNCHANGED <<setup, ctl, locals>> /\ pc = "fallback"
        /\ FinishReturns(FALSE) \/ FinishRaises(FALSE)
    BY <1>6 DEF FinishIncomplete, Finalizing
  <2>2. UNCHANGED recorder.episodes
    BY <2>1, TypeFacts DEF FinishReturns, FinishRaises, CoreInv
  <2>3. ~locals'.stopAfter /\ setup.recording => recorder'.episodes[ctl.index] = "complete"
    BY <2>1, <2>2 DEF RecordInv, RecordPlaces
  <2> QED BY <1>2, <2>1, <2>3
<1>7. CASE CloseEpisode
  <2>1. /\ pc = "close" /\ UNCHANGED <<setup, locals, recorder>>
        /\ locals.stopAfter \in BOOLEAN
        /\ ctl.episode.state = "TERMINATING"
        /\ ctl' = FinishTermination(ctl, locals.stopAfter)
    BY <1>7, TypeFacts DEF CloseEpisode, Finalizing, CoreInv, PlaceInv
  <2>2. /\ IInv' /\ ctl'.episode.state = "FINISHED"
        /\ ctl'.episode.reason = ctl.episode.reason
        /\ ctl'.index = ctl.index
        /\ ctl'.completed = Append(ctl.completed, ctl'.episode)
    BY <2>1, TerminatingFinishes, FinishPreserves DEF CoreInv
  <2>3. \A k \in 1..(ctl.index - 1) : ctl'.completed[k] = ctl.completed[k]
    <3>1. /\ Len(ctl.completed) = ctl.index - 1 /\ ctl.completed \in Seq(Snapshots)
          /\ ctl'.episode \in Snapshots
      BY <2>1, <2>2, Fields DEF CoreInv, CompletedInOrder, IInv, CtlTypeOK
    <3> QED BY <2>2, <3>1, AppendProperties
  <2> QED BY <2>1, <2>2, <2>3, RecordPreserved DEF RecordInv, RecordPlaces, TerminalStates
<1>8. CASE StopFinishesRecorder
  <2>1. /\ UNCHANGED <<setup, ctl, locals, pc>>
        /\ FinishReturns(FALSE) \/ FinishRaises(FALSE)
    BY <1>8 DEF StopFinishesRecorder, StopPart, workerVars
  <2>2. UNCHANGED recorder.episodes
    BY <2>1, TypeFacts DEF FinishReturns, FinishRaises, CoreInv
  <2> QED BY <1>2, <2>1, <2>2 DEF RecordInv
<1> QED BY <1>3, <1>4, <1>5, <1>6, <1>7, <1>8, RecordAdvances DEF RecordStep

LEMMA RecordHolds ==
  ASSUME Candidates \cap Infrastructure = {}
  PROVE  Spec => []RecordInv
<1>1. Init => RecordInv
  <2> SUFFICES ASSUME Init PROVE RecordInv
    OBVIOUS
  <2>1. /\ ctl.index = 1 /\ ctl.episode.reason = "NONE" /\ pc = "top"
        /\ ~recorder.finished
    BY DEF Init, InitialController, NewEpisode
  <2> QED BY <2>1 DEF RecordInv, InfrastructureStops, RecordPlaces, Infrastructure
<1>2. CoreInv /\ RecordInv /\ [Next]_vars => RecordInv'
  <2> SUFFICES ASSUME CoreInv, RecordInv, Next \/ UNCHANGED vars
               PROVE  RecordInv'
    OBVIOUS
  <2>1. CASE UNCHANGED vars
    <3>1. QuietStep
      BY <2>1 DEF vars, workerVars, QuietStep, Apart, ElsewhereOrSame
    <3> QED BY <3>1, RecordQuiet
  <2> QED BY <2>1, StepKinds, RecordQuiet, RecordCloses
<1> QED BY <1>1, <1>2, CoreHolds, PTL DEF Spec

(* A component, status or reset failure is the end of the experiment, and   *)
(* so is an artifact that was not committed.                                *)
THEOREM FailuresStop ==
  ASSUME Candidates \cap Infrastructure = {}
  PROVE  Spec => []InfrastructureStops
<1>1. RecordInv => InfrastructureStops
  BY DEF RecordInv
<1> QED BY <1>1, RecordHolds, PTL

(* A manifest closed as complete is that of an experiment all of whose      *)
(* episodes were committed and none of which a component ended, whichever   *)
(* thread closed it and however its own writes failed.                      *)
THEOREM MarkerIsTrue ==
  ASSUME Candidates \cap Infrastructure = {}
  PROVE  Spec => []CompleteMarkerTruthful
<1>1. CoreInv /\ RecordInv => CompleteMarkerTruthful
  <2> SUFFICES ASSUME CoreInv, RecordInv, recorder.finished, recorder.complete
               PROVE  /\ AllComplete
                      /\ \A k \in 1..Len(VerdictsOf(ctl)) :
                           VerdictsOf(ctl)[k] \notin {"ENV_ERROR", "AGENT_ERROR"}
    BY DEF CompleteMarkerTruthful
  <2>1. AllWell /\ ctl.index \in Nat \ {0}
    BY Fields DEF RecordInv, CoreInv, EpisodeIds
  <2>2. Len(VerdictsOf(ctl)) = ctl.index
    BY <2>1, VerdictCount DEF AllWell, CoreInv, OpenStates, TerminalStates
  <2>3. ASSUME NEW k \in 1..ctl.index
        PROVE  VerdictsOf(ctl)[k] =
                 IF k < ctl.index THEN ctl.completed[k].reason ELSE ctl.episode.reason
    <3>1. CASE ctl.episode.state = "TERMINATING"
      <4>1. Len(ctl.completed) = ctl.index - 1
        BY <3>1, Fields DEF CoreInv, CompletedInOrder
      <4>2. /\ Append(ctl.completed, ctl.episode) \in Seq(Snapshots)
            /\ Len(Append(ctl.completed, ctl.episode)) = ctl.index
            /\ \A i \in 1..(ctl.index - 1) :
                 Append(ctl.completed, ctl.episode)[i] = ctl.completed[i]
            /\ Append(ctl.completed, ctl.episode)[ctl.index] = ctl.episode
        BY <2>1, <4>1, Fields, AppendProperties DEF CoreInv
      <4>3. VerdictsOf(ctl)[k] = Append(ctl.completed, ctl.episode)[k].reason
        BY <3>1, <4>2, VerdictFacts, ReasonsInType
      <4> QED BY <2>1, <2>3, <4>2, <4>3
    <3>2. CASE ctl.episode.state # "TERMINATING"
      <4>1. ctl.episode.state = "FINISHED"
        BY <2>1, <3>2 DEF AllWell, TerminalStates
      <4>2. Len(ctl.completed) = ctl.index /\ ctl.completed[ctl.index] = ctl.episode
        BY <4>1, Fields DEF CoreInv, CompletedInOrder, FiledInv
      <4>3. VerdictsOf(ctl)[k] = ctl.completed[k].reason
        BY <3>2, <4>2, VerdictFacts, ReasonsInType, Fields DEF CoreInv
      <4> QED BY <2>1, <2>3, <4>2, <4>3
    <3> QED BY <3>1, <3>2
  <2>4. \A k \in 1..ctl.index : k < ctl.index => k \in 1..(ctl.index - 1)
    BY <2>1
  <2> QED BY <2>1, <2>2, <2>3, <2>4
          DEF AllWell, RecordInv, InfrastructureStops, Infrastructure
<1> QED BY <1>1, CoreHolds, RecordHolds, PTL

-----------------------------------------------------------------------------
(* stop() and the control thread each close the recorder unless the other   *)
(* has.  With a file system that takes the writes, neither can say that the *)
(* experiment is finalized before one of them has.                          *)

FinalInv ==
  /\ FinalizedIsRecorded
  /\ pc = "close" /\ RecorderDue => recorder.finished

(* No call reopens a finished recorder, and one that finishes it and may    *)
(* not fail to write leaves it finished.                                    *)
LEMMA FinishCloses ==
  ASSUME CoreInv, "recorder" \notin Faults
  PROVE  /\ FinishReturns(FALSE) \/ FinishRaises(FALSE) => recorder'.finished
         /\ \A complete \in BOOLEAN : FinishReturns(complete) => recorder'.finished
         /\ \A id \in EpisodeIds :
              \/ BeginReturns(id) \/ BeginRaises(id)
              \/ CompleteReturns(id) \/ CompleteRaises(id)
              => recorder'.finished = recorder.finished
<1>1. /\ FinishReturns(FALSE) \/ FinishRaises(FALSE) => recorder'.finished
      /\ \A complete \in BOOLEAN : FinishReturns(complete) => recorder'.finished
  BY TypeFacts DEF FinishReturns, FinishRaises, RecorderActive, WritesMayFail, CoreInv
<1>2. ASSUME NEW id \in EpisodeIds,
             \/ BeginReturns(id) \/ BeginRaises(id)
             \/ CompleteReturns(id) \/ CompleteRaises(id)
      PROVE  recorder'.finished = recorder.finished
  <2>1. \/ recorder' = recorder
        \/ \E s \in {"open", "complete"} : recorder' = [recorder EXCEPT !.episodes[id] = s]
    BY <1>2 DEF BeginReturns, BeginRaises, CompleteReturns, CompleteRaises
  <2> QED BY <2>1, TypeFacts DEF CoreInv
<1> QED BY <1>1, <1>2

LEMMA FinalPreserved ==
  ASSUME CoreInv, FinalInv, "recorder" \notin Faults, Next
  PROVE  FinalInv'
<1>1. CASE QuietStep
  <2>1. UNCHANGED RecorderDue \/ pc' # "close"
    BY <1>1 DEF QuietStep, Apart, RecorderDue, LastEpisode
  <2>2. pc' = "close" => pc = "close"
    BY <1>1 DEF QuietStep, Apart, ElsewhereOrSame, RecordPlaces
  <2> QED BY <1>1, <2>1, <2>2 DEF QuietStep, Apart, FinalInv, FinalizedIsRecorded
<1>2. CASE MoveStep \/ RequestStep \/ CommitStep
  BY <1>2 DEF MoveStep, RequestStep, CommitStep, Apart, RecordPlaces, FinalInv,
    FinalizedIsRecorded
<1>3. CASE FinalizeEvaluationFails \/ PersistEpisode
  <2>1. /\ UNCHANGED <<setup, finalized>> /\ pc' # "close"
        /\ \/ UNCHANGED recorder
           \/ CompleteReturns(ctl.episode.id) \/ CompleteRaises(ctl.episode.id)
    BY <1>3 DEF FinalizeEvaluationFails, PersistEpisode, Finalizing, Goto
  <2>2. recorder'.finished = recorder.finished
    BY <2>1, FinishCloses, Fields DEF CoreInv
  <2> QED BY <2>1, <2>2 DEF FinalInv, FinalizedIsRecorded
<1>4. CASE FinishRecorder
  <2>1. /\ pc = "finish" /\ UNCHANGED <<setup, finalized>>
        /\ ctl.index = ctl'.index /\ ManifestComplete \in BOOLEAN
    BY <1>4, AbandonFacts DEF FinishRecorder, Finalizing, ManifestComplete
  <2>2. CASE ~RecorderDue /\ UNCHANGED <<ctl, locals, recorder>>
    BY <2>1, <2>2 DEF FinalInv, FinalizedIsRecorded, RecorderDue, LastEpisode
  <2>3. CASE FinishReturns(ManifestComplete)
    BY <2>1, <2>3, FinishCloses DEF FinalInv, FinalizedIsRecorded
  <2>4. CASE FinishRaises(ManifestComplete) /\ ManifestComplete /\ pc' = "fallback"
    <3>1. recorder' = recorder
      BY <2>4 DEF FinishRaises, WritesMayFail
    <3> QED BY <2>1, <2>4, <3>1 DEF FinalInv, FinalizedIsRecorded
  <2>5. CASE FinishRaises(ManifestComplete) /\ ~ManifestComplete
    <3>1. recorder'.finished
      BY <2>1, <2>5, FinishCloses
    <3> QED BY <2>1, <3>1 DEF FinalInv, FinalizedIsRecorded
  <2> QED BY <1>4, <2>2, <2>3, <2>4, <2>5 DEF FinishRecorder, Goto
<1>5. CASE FinishIncomplete \/ StopFinishesRecorder
  BY <1>5, FinishCloses DEF FinishIncomplete, StopFinishesRecorder, FinalInv,
    FinalizedIsRecorded
<1>6. CASE CloseEpisode
  <2>1. /\ pc = "close" /\ pc' # "close" /\ UNCHANGED <<setup, recorder>>
        /\ finalized' => finalized \/ locals.stopAfter
                           \/ ~HasNextEpisode(FinishTermination(ctl, locals.stopAfter))
    BY <1>6 DEF CloseEpisode, Finalizing, Goto
  <2>2. FinishTermination(ctl, locals.stopAfter).index = ctl.index
    <3>1. ctl.episode.state = "TERMINATING" /\ locals.stopAfter \in BOOLEAN
      BY <2>1, TypeFacts DEF CoreInv, PlaceInv
    <3>2. ctl' = FinishTermination(ctl, locals.stopAfter)
      BY <1>6 DEF CloseEpisode
    <3>3. ctl'.index = ctl.index
      BY <3>1, <3>2, TerminatingFinishes, FinishPreserves DEF CoreInv
    <3> QED BY <3>2, <3>3
  <2>3. finalized' /\ setup.recording => finalized \/ RecorderDue
    BY <2>1, <2>2 DEF RecorderDue, LastEpisode, HasNextEpisode
  <2> QED BY <2>1, <2>3 DEF FinalInv, FinalizedIsRecorded
<1>7. CASE AdvanceToNext
  <2>1. /\ pc' # "close" /\ UNCHANGED <<setup, finalized>>
        /\ \/ UNCHANGED recorder
           \/ /\ DoAdvanceEpisode
              /\ BeginReturns(ctl'.episode.id) \/ BeginRaises(ctl'.episode.id)
    BY <1>7 DEF AdvanceToNext, DoAdvanceEpisode, Goto
  <2>2. DoAdvanceEpisode => ctl'.episode.id \in EpisodeIds
    BY AdvancePreserves DEF CoreInv, IInv, CtlTypeOK, Snapshots
  <2>3. recorder'.finished = recorder.finished
    BY <2>1, <2>2, FinishCloses
  <2> QED BY <2>1, <2>3 DEF FinalInv, FinalizedIsRecorded
<1> QED BY <1>1, <1>2, <1>3, <1>4, <1>5, <1>6, <1>7, StepKinds DEF RecordStep

(* When the node says the experiment is finalized its record is closed, in  *)
(* whatever order stop() and the control thread got there, unless a write   *)
(* failed.                                                                  *)
THEOREM FinalizedMeansRecorded ==
  ASSUME "recorder" \notin Faults
  PROVE  Spec => []FinalizedIsRecorded
<1>1. Init => FinalInv
  BY DEF Init, FinalInv, FinalizedIsRecorded
<1>2. CoreInv /\ FinalInv /\ [Next]_vars => FinalInv'
  <2> SUFFICES ASSUME CoreInv, FinalInv, UNCHANGED vars
               PROVE  FinalInv'
    BY FinalPreserved
  <2> QED BY DEF vars, workerVars, FinalInv, FinalizedIsRecorded, RecorderDue, LastEpisode
<1>3. FinalInv => FinalizedIsRecorded
  BY DEF FinalInv
<1> QED BY <1>1, <1>2, <1>3, CoreHolds, PTL DEF Spec
=============================================================================
