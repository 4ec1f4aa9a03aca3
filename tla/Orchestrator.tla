---------------------------- MODULE Orchestrator ----------------------------
(***************************************************************************)
(* ExperimentOrchestratorNode (rh_experiment/orchestrator.py).             *)
(*                                                                         *)
(* Three kinds of threads touch the node.  The control thread is the only  *)
(* one that moves the controller: it runs _control_loop, one iteration of  *)
(* which is preparation, health check, finalization and one event of the   *)
(* queue.  Executor threads and evaluators put events into the queue and   *)
(* may give up on them.  The main thread calls stop(), which waits for the *)
(* control thread only for a time and then closes resources and recorder   *)
(* whether it has ended or not.                                            *)
(*                                                                         *)
(* pc names the place the control thread has reached; a place is a point   *)
(* where it blocks (a reset call, the handshake, the queue, file writes)   *)
(* or where another thread can change what it reads next.  A commit and    *)
(* the publication that follows it are one step: nothing but the control   *)
(* thread writes either, and no reader is told which came first.           *)
(***************************************************************************)
EXTENDS Controller

CONSTANTS
  Faults,        \* which of FaultKinds the environment may inject
  Candidates,    \* the reasons evaluators submit
  QueueBound     \* bound of the model: events waiting at one time

FaultKinds == {"component", "reset", "resources", "task", "evaluator", "recorder"}

ASSUME FaultsAssumption == Faults \subseteq FaultKinds
ASSUME CandidatesAssumption == Candidates \subseteq Reasons
ASSUME QueueBoundAssumption == QueueBound \in Nat

VARIABLES
  setup,         \* [automatic, recording]: how the node was constructed
  pc,            \* where the control thread is
  locals,        \* its flags _startup_complete, _finalization_started,
                 \* _stop_after_episode, and the local result_uri
  expired,       \* the preparation deadline has passed
  steps,         \* the preparation steps done for the active episode
  resources,     \* _task_publisher and _evaluator exist
  events,        \* the queue: events with their cancelled flag
  decision,      \* what the event just processed was answered
  topic,         \* the latched snapshot on /roboharness/episode/state
  results,       \* the EpisodeResult messages published so far
  recorder,      \* the state of the ResultRecorder
  stopper,       \* where stop() is
  finalized      \* _experiment_finalized

workerVars == <<locals, expired, steps>>
vars == <<setup, ctl, pc, workerVars, resources, events, decision, topic,
          results, recorder, stopper, finalized>>

-----------------------------------------------------------------------------
(* A control event.  reason is what the request would commit; an abort with *)
(* a blank text carries "NONE".  A start or an abort names any episode; an  *)
(* evaluator is bound to the episode it was made for.                       *)
Commands ==
  [kind : {"start"}, id : TargetIds, reason : {"NONE"}]
    \cup [kind : {"abort"}, id : TargetIds, reason : {"ABORTED", "NONE"}]
    \cup [kind : {"terminate"}, id : EpisodeIds, reason : Candidates]

Places ==
  {"top", "prepare", "create", "resetEnv", "resetAgent", "publishTask", "ready",
   "start", "health", "finalize", "handshake", "evaluate", "persist", "finish",
   "fallback", "close", "advance", "event", "except", "exited", "dead"}

StopPlaces == {"running", "joining", "closing", "finishing", "stopped"}

PreparationSteps == <<"create", "resetEnv", "resetAgent", "publishTask">>

StopRequested == stopper # "running"

Goto(place) == pc' = place

-----------------------------------------------------------------------------
(* The recorder as the orchestrator sees it: buffers of the episodes, the   *)
(* finished flag and the complete marker of metadata.json.  A call either   *)
(* returns or raises; it must raise when the recorder is finished or the    *)
(* episode has no open buffer, and may raise when a write fails.            *)

RecorderActive == ~recorder.finished

BufferOpen(id) == RecorderActive /\ recorder.episodes[id] = "open"

WritesMayFail == "recorder" \in Faults

RecordReturns(id) == setup.recording => BufferOpen(id)
RecordRaises(id) == setup.recording /\ (WritesMayFail \/ ~BufferOpen(id))

(* begin_episode has made the buffer when one of its later writes fails.    *)
BeginReturns(id) ==
  IF setup.recording
    THEN RecorderActive /\ recorder' = [recorder EXCEPT !.episodes[id] = "open"]
    ELSE UNCHANGED recorder
BeginRaises(id) ==
  /\ setup.recording
  /\ \/ ~RecorderActive /\ UNCHANGED recorder
     \/ /\ RecorderActive /\ WritesMayFail
        /\ recorder' \in {recorder, [recorder EXCEPT !.episodes[id] = "open"]}

(* complete_episode has closed the buffer when the summary cannot be written. *)
CompleteReturns(id) ==
  BufferOpen(id) /\ recorder' = [recorder EXCEPT !.episodes[id] = "complete"]
CompleteRaises(id) ==
  \/ ~BufferOpen(id) /\ UNCHANGED recorder
  \/ /\ BufferOpen(id) /\ WritesMayFail
     /\ recorder' \in {recorder, [recorder EXCEPT !.episodes[id] = "complete"]}

AllComplete == \A id \in EpisodeIds : recorder.episodes[id] = "complete"

FinishReturns(complete) ==
  /\ RecorderActive
  /\ complete => AllComplete
  /\ recorder' = [recorder EXCEPT !.finished = TRUE, !.complete = complete]

(* A failing write leaves the recorder active; metadata.json may have been  *)
(* replaced before the failure is noticed.                                  *)
FinishRaises(complete) ==
  \/ /\ ~RecorderActive \/ (complete /\ ~AllComplete)
     /\ UNCHANGED recorder
  \/ /\ RecorderActive /\ (complete => AllComplete) /\ WritesMayFail
     /\ recorder' \in {recorder, [recorder EXCEPT !.complete = complete]}

-----------------------------------------------------------------------------
(* fault: the snapshot is recorded first, and not published when that fails *)
PublishRecordedFirst(c, next, onRaise) ==
  /\ ctl' = c
  /\ \/ RecordReturns(c.episode.id) /\ topic' = c.episode /\ Goto(next)
     \/ RecordRaises(c.episode.id) /\ UNCHANGED topic /\ Goto(onRaise)

(* _publish_state: the snapshot is latched on the topic, then recorded; a   *)
(* failing record raises out of the step that published.                    *)
Publish(c, next, onRaise) ==
  /\ ctl' = c
  /\ topic' = c.episode
  /\ \/ RecordReturns(c.episode.id) /\ Goto(next)
     \/ RecordRaises(c.episode.id) /\ Goto(onRaise)

(* _commit_episode_termination; with stop it is _commit_infrastructure_failure. *)
CommitTermination(reason, stop, next, onRaise) ==
  LET c == IF stop THEN FailExperiment(ctl) ELSE ctl
  IN  /\ locals' = [locals EXCEPT !.stopAfter = @ \/ stop]
      /\ IF TerminationAccepted(c, reason)
           THEN Publish(RequestTermination(c, reason), next, onRaise)
           ELSE ctl' = c /\ UNCHANGED topic /\ Goto(next)

(* fault: an infrastructure failure ends the episode like any other reason *)
FailWithoutStop(reason) == CommitTermination(reason, FALSE, "finalize", "except")

(* A failure inside a tick: the tick returns and finalization is next.      *)
FailWith(reason) == CommitTermination(reason, TRUE, "finalize", "except")

-----------------------------------------------------------------------------
(* _control_loop *)

(* fault: the loop does not look at the stop flag *)
LoopTopForever ==
  /\ pc = "top"
  /\ Goto(IF ctl.episode.state = "PREPARING" THEN "prepare" ELSE "health")
  /\ decision' = "none"
  /\ UNCHANGED <<setup, ctl, workerVars, resources, events, topic, results,
                 recorder, stopper, finalized>>

LoopTop ==
  /\ pc = "top"
  /\ Goto(CASE StopRequested                    -> "exited"
            [] ctl.episode.state = "PREPARING"  -> "prepare"
            [] OTHER                            -> "health")
  /\ decision' = "none"
  /\ UNCHANGED <<setup, ctl, workerVars, resources, events, topic, results,
                 recorder, stopper, finalized>>

(* The handler of the loop: it fails the episode; when that publication     *)
(* cannot be recorded either, the exception leaves the thread.              *)
HandleException ==
  /\ pc = "except"
  /\ CommitTermination("FAILURE", TRUE, "top", "dead")
  /\ decision' = "none"
  /\ UNCHANGED <<setup, expired, steps, resources, events, results, recorder,
                 stopper, finalized>>

-----------------------------------------------------------------------------
(* _preparation_tick, one step per blocking call *)

Unprepared == <<setup, expired, events, decision, results, recorder, stopper,
                finalized>>

(* A component reports ERROR, or is not ready when the deadline is over.    *)
PrepareFails ==
  /\ pc = "prepare"
  /\ expired \/ "component" \in Faults
  /\ \E reason \in {"ENV_ERROR", "AGENT_ERROR"} : FailWith(reason)
  /\ UNCHANGED <<Unprepared, steps, resources>>

(* fault: the deadline is not looked at *)
PrepareWaitsForever ==
  /\ pc = "prepare"
  /\ Goto("event")
  /\ UNCHANGED <<Unprepared, ctl, locals, steps, resources, topic>>

PrepareWaits ==
  /\ pc = "prepare"
  /\ ~expired
  /\ Goto("event")
  /\ UNCHANGED <<Unprepared, ctl, locals, steps, resources, topic>>

(* Env and Agent are READY: the first time, the experiment starts running.  *)
ComponentsReady ==
  /\ pc = "prepare"
  /\ IF locals.startup
       THEN Goto("create") /\ UNCHANGED <<ctl, locals>>
       ELSE IF CanMarkComponentsReady(ctl)
         THEN /\ ctl' = MarkComponentsReady(ctl)
              /\ locals' = [locals EXCEPT !.startup = TRUE]
              /\ Goto("create")
         ELSE Goto("except") /\ UNCHANGED <<ctl, locals>>
  /\ UNCHANGED <<Unprepared, steps, resources, topic>>

(* A preparation step that returns, and one that ends the tick.             *)
StepDone(step, next) ==
  /\ pc = step
  /\ steps' = Append(steps, step)
  /\ Goto(next)
  /\ UNCHANGED <<Unprepared, ctl, locals, topic>>

StepFails(step, fault, reason) ==
  /\ pc = step
  /\ fault \in Faults
  /\ FailWith(reason)
  /\ UNCHANGED <<Unprepared, steps>>

CreateResources == StepDone("create", "resetEnv") /\ resources' = TRUE

(* The task is refused: this ends the episode and not the experiment.       *)
CreateResourcesFails ==
  /\ pc = "create"
  /\ "resources" \in Faults
  /\ resources' = FALSE
  /\ CommitTermination("INVALID_TASK", FALSE, "finalize", "except")
  /\ UNCHANGED <<Unprepared, steps>>

(* fault: the agent is not reset *)
ResetEnvironmentOnly == StepDone("resetEnv", "publishTask") /\ UNCHANGED resources

ResetEnvironment == StepDone("resetEnv", "resetAgent") /\ UNCHANGED resources
ResetEnvironmentFails ==
  StepFails("resetEnv", "reset", "ENV_ERROR") /\ UNCHANGED resources

ResetAgent == StepDone("resetAgent", "publishTask") /\ UNCHANGED resources
ResetAgentFails ==
  StepFails("resetAgent", "reset", "AGENT_ERROR") /\ UNCHANGED resources

(* With its publisher closed by stop() there is no task to publish.         *)
PublishTask ==
  /\ pc = "publishTask"
  /\ steps' = IF resources THEN Append(steps, "publishTask") ELSE steps
  /\ Goto("ready")
  /\ UNCHANGED <<Unprepared, ctl, locals, resources, topic>>
PublishTaskFails ==
  resources /\ StepFails("publishTask", "task", "FAILURE") /\ UNCHANGED resources

EpisodeReady ==
  /\ pc = "ready"
  /\ Publish(MarkPrepared(ctl), IF setup.automatic THEN "start" ELSE "health",
             "except")
  /\ UNCHANGED <<Unprepared, locals, steps, resources>>

(* _start_active_episode: the request of the automatic mode names the       *)
(* active episode.                                                          *)
AutomaticStart ==
  /\ pc = "start"
  /\ IF StartAccepted(ctl, ctl.episode.id)
       THEN Publish(RequestStart(ctl), "health", "except") /\ UNCHANGED locals
       ELSE FailWith("FAILURE")
  /\ UNCHANGED <<Unprepared, steps, resources>>

Preparation ==
  \/ PrepareFails \/ PrepareWaits \/ ComponentsReady
  \/ CreateResources \/ CreateResourcesFails
  \/ ResetEnvironment \/ ResetEnvironmentFails
  \/ ResetAgent \/ ResetAgentFails
  \/ PublishTask \/ PublishTaskFails
  \/ EpisodeReady \/ AutomaticStart

-----------------------------------------------------------------------------
(* _runtime_health_tick: an ERROR or a stale heartbeat of either component,  *)
(* or a simulation clock that stands still while RUNNING.                    *)
HealthFails ==
  /\ pc = "health"
  /\ "component" \in Faults
  /\ ctl.episode.state \in {"READY", "RUNNING"}
  /\ \E reason \in {"ENV_ERROR", "AGENT_ERROR"} : FailWith(reason)
  /\ UNCHANGED <<Unprepared, steps, resources>>

HealthPasses ==
  /\ pc = "health"
  /\ Goto("finalize")
  /\ UNCHANGED <<Unprepared, ctl, locals, steps, resources, topic>>

Health == HealthFails \/ HealthPasses
-----------------------------------------------------------------------------
(* _finalization_tick, one step per place where it blocks or writes files *)

Finalizing == <<setup, expired, steps, events, decision, stopper>>

LastEpisode == ~HasNextEpisode(ctl)

FinalizationStarts ==
  /\ pc = "finalize"
  /\ IF ctl.episode.state = "TERMINATING" /\ ~locals.finalizing
       THEN locals' = [locals EXCEPT !.finalizing = TRUE] /\ Goto("handshake")
       ELSE UNCHANGED locals /\ Goto("event")
  /\ UNCHANGED <<Finalizing, ctl, resources, topic, results, recorder, finalized>>

(* Acknowledged, out of time or told to stop: the tick goes on all the same, *)
(* and the snapshot it repeats is the one already latched.                   *)
SafeStopHandshake ==
  /\ pc = "handshake"
  /\ Goto("evaluate")
  /\ UNCHANGED <<Finalizing, ctl, locals, resources, topic, results, recorder,
                 finalized>>

Abandon == /\ ctl' = FailExperiment(ctl)
           /\ locals' = [locals EXCEPT !.stopAfter = TRUE]

FinalizeEvaluation ==
  /\ pc = "evaluate"
  /\ Goto("persist")
  /\ UNCHANGED <<Finalizing, ctl, locals, resources, topic, results, recorder,
                 finalized>>

(* The evaluator raises, or stop() takes it away between test and call.     *)
FinalizeEvaluationFails ==
  /\ pc = "evaluate"
  /\ resources
  /\ "evaluator" \in Faults \/ stopper = "closing"
  /\ Abandon
  /\ Goto("persist")
  /\ UNCHANGED <<Finalizing, resources, topic, results, recorder, finalized>>

PersistEpisode ==
  /\ pc = "persist"
  /\ \/ /\ setup.recording
        /\ CompleteReturns(ctl.episode.id)
        /\ locals' = [locals EXCEPT !.uri = TRUE]
        /\ UNCHANGED ctl
     \/ /\ setup.recording
        /\ CompleteRaises(ctl.episode.id)
        /\ Abandon
     \/ ~setup.recording /\ UNCHANGED <<ctl, locals, recorder>>
  /\ Goto("finish")
  /\ UNCHANGED <<Finalizing, resources, topic, results, finalized>>

(* fault: an infrastructure failure does not close the recorder *)
RecorderDueLastOnly == setup.recording /\ LastEpisode

RecorderDue == setup.recording /\ (locals.stopAfter \/ LastEpisode)

(* fault: the last episode completes the manifest however it ended *)
ManifestCompleteLastOnly == LastEpisode

ManifestComplete == LastEpisode /\ ~locals.stopAfter

FinishRecorder ==
  /\ pc = "finish"
  /\ \/ ~RecorderDue /\ Goto("close") /\ UNCHANGED <<ctl, locals, recorder>>
     \/ /\ RecorderDue /\ FinishReturns(ManifestComplete)
        /\ Goto("close") /\ UNCHANGED <<ctl, locals>>
     \/ /\ RecorderDue /\ FinishRaises(ManifestComplete)
        /\ Abandon
        /\ Goto(IF ManifestComplete THEN "fallback" ELSE "close")
  /\ UNCHANGED <<Finalizing, resources, topic, results, finalized>>

FinishIncomplete ==
  /\ pc = "fallback"
  /\ FinishReturns(FALSE) \/ FinishRaises(FALSE)
  /\ Goto("close")
  /\ UNCHANGED <<Finalizing, ctl, locals, resources, topic, results, finalized>>

(* finish_termination, the FINISHED snapshot, the result, the resources.    *)
CloseEpisode ==
  LET c == FinishTermination(ctl, locals.stopAfter)
      goesOn == ~locals.stopAfter /\ HasNextEpisode(c)
  IN  /\ pc = "close"
      /\ ctl' = c
      /\ topic' = c.episode
      /\ results' = Append(results, [id     |-> c.episode.id,
                                     reason |-> c.episode.reason,
                                     uri    |-> locals.uri])
      /\ resources' = FALSE
      /\ finalized' = (finalized \/ ~goesOn)
      /\ Goto(IF goesOn THEN "advance" ELSE "event")
      /\ UNCHANGED <<Finalizing, locals, recorder>>

(* fault: _finalization_started is left set for the next episode *)
FreshLocalsStillFinalizing(startup) ==
  [startup |-> startup, finalizing |-> startup, stopAfter |-> FALSE, uri |-> FALSE]

FreshLocals(startup) ==
  [startup |-> startup, finalizing |-> FALSE, stopAfter |-> FALSE, uri |-> FALSE]

(* _advance_episode: the controller may refuse, and begin_episode may fail  *)
(* when the controller has already moved on.                                *)
AdvanceToNext ==
  LET c == AdvanceEpisode(ctl)
  IN  /\ pc = "advance"
      /\ IF ~CanAdvanceEpisode(ctl)
           THEN Goto("except") /\ UNCHANGED <<ctl, workerVars, resources, topic, recorder>>
           ELSE /\ ctl' = c
                /\ locals' = FreshLocals(locals.startup)
                /\ expired' = FALSE /\ steps' = << >> /\ resources' = FALSE
                /\ \/ /\ BeginReturns(c.episode.id)
                      /\ topic' = c.episode
                      /\ \/ Goto("event")
                         \/ setup.recording /\ WritesMayFail /\ Goto("except")
                   \/ /\ BeginRaises(c.episode.id)
                      /\ Goto("except")
                      /\ UNCHANGED topic
      /\ UNCHANGED <<setup, events, decision, results, stopper, finalized>>

Finalization ==
  \/ FinalizationStarts \/ SafeStopHandshake
  \/ FinalizeEvaluation \/ FinalizeEvaluationFails
  \/ PersistEpisode \/ FinishRecorder \/ FinishIncomplete
  \/ CloseEpisode \/ AdvanceToNext

-----------------------------------------------------------------------------
(* The queue: _submit_event and its timeout, _process_event, _handle_event.  *)
(* ControlRequest.tla looks into the claim between the two sides.            *)

Submit(command) ==
  /\ ~StopRequested
  /\ Len(events) < QueueBound
  /\ command.kind = "terminate" => command.id <= ctl.index
  /\ events' = Append(events, [command |-> command, cancelled |-> FALSE])
  /\ UNCHANGED <<setup, ctl, pc, workerVars, resources, decision, topic, results,
                 recorder, stopper, finalized>>

TimeOut(k) ==
  /\ ~events[k].cancelled
  /\ events' = [events EXCEPT ![k].cancelled = TRUE]
  /\ UNCHANGED <<setup, ctl, pc, workerVars, resources, decision, topic, results,
                 recorder, stopper, finalized>>

(* fault: a termination candidate is not asked for its episode *)
AcceptsAnyEpisode(c, command) ==
  CASE command.kind = "start"     -> StartAccepted(c, command.id)
    [] command.kind = "abort"     -> AbortAccepted(c, command.id, command.reason)
    [] command.kind = "terminate" -> TerminationAccepted(c, command.reason)

Accepts(c, command) ==
  CASE command.kind = "start"     -> StartAccepted(c, command.id)
    [] command.kind = "abort"     -> AbortAccepted(c, command.id, command.reason)
    [] command.kind = "terminate" -> /\ command.id = c.episode.id
                                     /\ TerminationAccepted(c, command.reason)

Applied(c, command) ==
  IF command.kind = "start" THEN RequestStart(c)
                            ELSE RequestTermination(c, command.reason)

NoEvent ==
  /\ pc = "event"
  /\ events = << >>
  /\ Goto("top")
  /\ UNCHANGED <<setup, ctl, workerVars, resources, events, decision, topic,
                 results, recorder, stopper, finalized>>

(* An accepted request is answered when its snapshot has been recorded; a   *)
(* raising record answers "failed".                                         *)
ProcessEvent ==
  /\ pc = "event"
  /\ events # << >>
  /\ LET event == Head(events)
     IN  IF ~event.cancelled /\ Accepts(ctl, event.command)
           THEN /\ Publish(Applied(ctl, event.command), "top", "except")
                /\ decision' = IF pc' = "except" THEN "failed" ELSE "accepted"
           ELSE /\ decision' = IF event.cancelled THEN "expired" ELSE "rejected"
                /\ Goto("top")
                /\ UNCHANGED <<ctl, topic>>
  /\ events' = Tail(events)
  /\ UNCHANGED <<setup, workerVars, resources, results, recorder, stopper, finalized>>

-----------------------------------------------------------------------------
(* stop(): the control thread is given control_request_timeout_s to end.    *)

StopPart == <<setup, ctl, pc, workerVars, events, decision, topic, results>>

Stop ==
  /\ stopper = "running"
  /\ stopper' = "joining"
  /\ UNCHANGED <<StopPart, resources, recorder, finalized>>

JoinEndsOrTimesOut ==
  /\ stopper = "joining"
  /\ stopper' = "closing"
  /\ UNCHANGED <<StopPart, resources, recorder, finalized>>

StopClosesResources ==
  /\ stopper = "closing"
  /\ resources' = FALSE
  /\ stopper' = IF setup.recording /\ ~finalized THEN "finishing" ELSE "stopped"
  /\ UNCHANGED <<StopPart, recorder, finalized>>

StopFinishesRecorder ==
  /\ stopper = "finishing"
  /\ FinishReturns(FALSE) \/ FinishRaises(FALSE)
  /\ finalized' = TRUE
  /\ stopper' = "stopped"
  /\ UNCHANGED <<StopPart, resources>>

(* Time: the startup deadline of the episode being prepared passes.         *)
DeadlinePasses ==
  /\ ctl.episode.state = "PREPARING"
  /\ ~expired
  /\ expired' = TRUE
  /\ UNCHANGED <<setup, ctl, pc, locals, steps, resources, events, decision, topic,
                 results, recorder, stopper, finalized>>

-----------------------------------------------------------------------------
(* The constructor has begun the first episode and published its snapshot.  *)
Init ==
  /\ setup \in [automatic : BOOLEAN, recording : BOOLEAN]
  /\ ctl = InitialController
  /\ pc = "top"
  /\ locals = FreshLocals(FALSE)
  /\ expired = FALSE
  /\ steps = << >>
  /\ resources = FALSE
  /\ events = << >>
  /\ decision = "none"
  /\ topic = NewEpisode(1)
  /\ results = << >>
  /\ recorder = [ episodes |-> [id \in EpisodeIds |->
                                 IF setup.recording /\ id = 1 THEN "open" ELSE "none"],
                  finished |-> FALSE,
                  complete |-> FALSE ]
  /\ stopper = "running"
  /\ finalized = FALSE

ControlThread ==
  \/ LoopTop \/ HandleException
  \/ Preparation \/ Health \/ Finalization
  \/ NoEvent \/ ProcessEvent

StopThread == JoinEndsOrTimesOut \/ StopClosesResources \/ StopFinishesRecorder

Callers ==
  \/ \E command \in Commands : Submit(command)
  \/ \E k \in DOMAIN events : TimeOut(k)

Next == ControlThread \/ StopThread \/ Stop \/ Callers \/ DeadlinePasses

Spec == Init /\ [][Next]_vars

(* The control thread keeps running and its calls return in bounded time    *)
(* (call_service_with_deadline, the handshake's deadline); the clock moves; *)
(* stop(), once called, runs on.  No request need ever come, nor stop().    *)
FairSpec ==
  Spec /\ WF_vars(ControlThread) /\ WF_vars(DeadlinePasses) /\ WF_vars(StopThread)
-----------------------------------------------------------------------------
(* Type of the node's state.                                                *)
OrchTypeOK ==
  /\ CtlTypeOK
  /\ setup \in [automatic : BOOLEAN, recording : BOOLEAN]
  /\ pc \in Places
  /\ locals \in [startup : BOOLEAN, finalizing : BOOLEAN, stopAfter : BOOLEAN,
                 uri : BOOLEAN]
  /\ expired \in BOOLEAN
  /\ \E k \in 0..4 : steps = SubSeq(PreparationSteps, 1, k)
  /\ resources \in BOOLEAN
  /\ events \in Seq([command : Commands, cancelled : BOOLEAN])
  /\ decision \in {"none", "accepted", "rejected", "failed", "expired"}
  /\ topic \in Snapshots
  /\ results \in Seq([id : EpisodeIds, reason : Reasons, uri : BOOLEAN])
  /\ recorder \in [episodes : [EpisodeIds -> {"none", "open", "complete"}],
                   finished : BOOLEAN, complete : BOOLEAN]
  /\ stopper \in StopPlaces
  /\ finalized \in BOOLEAN

(* An episode is READY or RUNNING only after its own preparation, whole and *)
(* in order: environment reset, agent reset, task published (a stop() in    *)
(* progress may have taken the task publisher away), and only in an         *)
(* experiment that is RUNNING: no robot moves after a failure was decided.  *)
MotionIsPrepared ==
  ctl.episode.state \in {"READY", "RUNNING"} =>
    /\ ctl.experiment = "RUNNING"
    /\ \/ steps = PreparationSteps
       \/ StopRequested /\ steps = SubSeq(PreparationSteps, 1, 3)

(* The snapshot latched on the state topic, on which Env and Agent gate     *)
(* their motion, is the controller's, whatever step failed; only while an   *)
(* exception is on its way to the handler can it be that of the episode     *)
(* before, which is FINISHED.                                               *)
TopicIsCurrent ==
  topic # ctl.episode => pc = "except" /\ topic.state = "FINISHED"

(* A manifest the recorder closed as complete belongs to an experiment all  *)
(* of whose episodes were committed, none of them ended by a component.     *)
CompleteMarkerTruthful ==
  recorder.finished /\ recorder.complete =>
    /\ AllComplete
    /\ \A k \in 1..Len(VerdictsOf(ctl)) :
         VerdictsOf(ctl)[k] \notin {"ENV_ERROR", "AGENT_ERROR"}

(* A component, status or reset failure stops the experiment: no episode    *)
(* follows one that ended so, or one whose artifacts were not committed.    *)
InfrastructureStops ==
  \A k \in 1..(ctl.index - 1) :
    /\ ctl.completed[k].reason \notin {"ENV_ERROR", "AGENT_ERROR"}
    /\ setup.recording => recorder.episodes[k] = "complete"

(* A committed termination is always finalized, unless the node is stopped. *)
TerminatingEnds ==
  ctl.episode.state = "TERMINATING" ~>
    ctl.episode.state = "FINISHED" \/ StopRequested

(* Preparation ends, with READY or a termination: nothing waits for ever    *)
(* for a component that does not come.                                      *)
PreparingEnds ==
  ctl.episode.state = "PREPARING" ~>
    ctl.episode.state # "PREPARING" \/ StopRequested

(* stop() and the control thread both end, wherever stop() finds the thread; *)
(* a thread still preparing when stop() has closed the recorder dies of it. *)
StopEnds == StopRequested ~> stopper = "stopped" /\ pc \in {"exited", "dead"}

(* When the node says the experiment is finalized, its record is closed:    *)
(* stop() and the control thread, which both may close it, never both leave *)
(* it to the other.                                                         *)
FinalizedIsRecorded ==
  finalized /\ setup.recording => recorder.finished
=============================================================================
