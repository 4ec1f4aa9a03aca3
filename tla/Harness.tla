------------------------------ MODULE Harness ------------------------------
(***************************************************************************)
(* The running system: the control thread of the orchestrator (worker),    *)
(* the Environment and the Agent as the Mock nodes of the tests implement  *)
(* them, and what rh_ros puts between them: latched state snapshots with   *)
(* a sequence guard (sequence.py), status heartbeats with a tracker        *)
(* (status.py), reset calls with deadlines (service.py).  Orchestrator.tla *)
(* has the control thread in full; here it is reduced to what its peers    *)
(* can observe.                                                            *)
(*                                                                         *)
(* Topics keep one message (qos.py): publishing replaces what the          *)
(* subscriber has not taken.  Env and Agent are single-threaded, so a      *)
(* callback is a step; a reset is two, because the status it publishes     *)
(* first can be heard before it is over.                                   *)
(***************************************************************************)
EXTENDS Integers, FiniteSets

CONSTANTS
  NumEpisodes,     \* episodes configured
  WatchdogSteps,   \* simulation steps a command outlives its last renewal
  MaxFaults,       \* bound: component faults in a behaviour
  LateSnapshots,   \* may a snapshot reach a callback late, twice, out of order?
  None             \* nothing there

ASSUME HarnessAssumption ==
  /\ NumEpisodes \in Nat \ {0}
  /\ WatchdogSteps \in Nat
  /\ MaxFaults \in Nat
  /\ LateSnapshots \in BOOLEAN

VARIABLES
  worker,      \* the orchestrator: episode, phase, sequence, pc, stopping
  ready,       \* what is_ready answered in this tick, per component
  published,   \* ghost: the distinct snapshots published so far
  inbox,       \* per component: the snapshot not yet taken
  tracker,     \* per component: the heartbeat recorded last, and its age
  node,        \* per component: status, alive, guard (episode, last), running
  request,     \* per component: the episode of a reset request in its queue
  answer,      \* per component: the answer to the call the worker waits in
  taskInbox,   \* the task the Agent has not taken
  hasTask,     \* the Agent accepted the task of its episode
  wire,        \* the velocity command the Env has not taken
  command,     \* the velocity command the Env applies
  silence,     \* simulation steps since the Env received it
  faults

vars == << worker, ready, published, inbox, tracker, node, request, answer,
           taskInbox, hasTask, wire, command, silence, faults >>

ros      == << node, request, answer, taskInbox, hasTask, wire, command, silence, faults >>
robot    == << command, silence >>
protocol == << worker, ready, published, tracker >>

Components == {"Env", "Agent"}
Episodes   == 1..NumEpisodes
Unset      == -1        \* _last_sequence is None
NoEpisode  == 0         \* _identity is None
Zero       == 0         \* the zero velocity command; a moving one is the
                        \* episode the Agent was in when it published it

Phases   == {"PREPARING", "READY", "RUNNING", "TERMINATING", "FINISHED"}
Statuses == {"STARTING", "RESETTING", "READY", "ERROR"}

-----------------------------------------------------------------------------
(* The orchestrator publishes.  *)
Snapshot(w) == [episode |-> w.episode, sequence |-> w.sequence, phase |-> w.phase]

PublishState(w) ==
  /\ published' = published \cup {Snapshot(w)}
  /\ inbox' = [c \in Components |-> IF node[c].alive THEN Snapshot(w) ELSE None]

(* The lifecycle moves to a phase, is published, and the thread goes on at pc. *)
Move(phase, pc) ==
  /\ worker' = [worker EXCEPT !.phase = phase, !.pc = pc,
                              !.sequence = worker.sequence + 1]
  /\ PublishState(worker')

(* _commit_infrastructure_failure: the episode ends and no other follows. *)
Fail ==
  /\ worker' = [worker EXCEPT !.phase = "TERMINATING", !.pc = "loop",
                              !.sequence = worker.sequence + 1, !.stopping = TRUE]
  /\ PublishState(worker')

At(pc) == worker.pc = pc
Go(pc) == worker' = [worker EXCEPT !.pc = pc] /\ UNCHANGED << published, inbox >>

(* What the orchestrator tells apart in a status; no status is neither. *)
Told(status) == IF status \in {"READY", "ERROR"} THEN status ELSE None

(* StatusTracker: one entry per component. *)
Latest(c) == tracker[c].state

(* ... and its age, read under the lock taken again. *)
IsStale(c) == ~tracker[c].fresh

(* fault: the guard does not compare the identity *)
AcceptsAnyEpisode(c, m) ==
  node[c].episode # NoEpisode /\ m.sequence > node[c].last

(* fault: the guard does not compare the sequence *)
AcceptsAnyOrder(c, m) ==
  node[c].episode # NoEpisode /\ m.episode = node[c].episode

(* EpisodeSequenceGuard.accept *)
Accepts(c, m) ==
  /\ node[c].episode # NoEpisode
  /\ m.episode = node[c].episode
  /\ m.sequence > node[c].last

-----------------------------------------------------------------------------
Booting == [status |-> "STARTING", alive |-> TRUE, episode |-> NoEpisode,
            last |-> Unset, running |-> FALSE]

Init ==
  /\ worker = [episode |-> 1, phase |-> "PREPARING", sequence |-> 0,
               pc |-> "loop", stopping |-> FALSE]
  /\ ready = [c \in Components |-> FALSE]
  /\ published = {Snapshot(worker)}
  /\ inbox = [c \in Components |-> Snapshot(worker)]
  /\ tracker = [c \in Components |-> [state |-> None, fresh |-> FALSE]]
  /\ node = [c \in Components |-> Booting]
  /\ request = [c \in Components |-> NoEpisode]
  /\ answer = [c \in Components |-> None]
  /\ taskInbox = NoEpisode
  /\ hasTask = FALSE
  /\ wire = None
  /\ command = Zero
  /\ silence = 0
  /\ faults = 0

-----------------------------------------------------------------------------
(* The control thread.  _preparation_tick first looks for errors ...        *)
Look ==
  /\ At("loop") /\ worker.phase = "PREPARING"
  /\ IF \E c \in Components : Latest(c) = "ERROR"
       THEN Fail
       ELSE Go("Env state")
  /\ UNCHANGED << ready, tracker, ros >>

Reads == [Env |-> [state |-> "Env state", age |-> "Env age", next |-> "Agent state"],
          Agent |-> [state |-> "Agent state", age |-> "Agent age", next |-> "decide"]]

(* ... then asks is_ready of each: the state is read under the lock ...     *)
ReadState(c) ==
  /\ At(Reads[c].state)
  /\ IF Latest(c) = "READY" THEN Go(Reads[c].age) ELSE Go(Reads[c].next)
  /\ UNCHANGED << ready, tracker, ros >>

(* ... and its age under the lock taken again.                              *)
ReadAge(c) ==
  /\ At(Reads[c].age)
  /\ ready' = [ready EXCEPT ![c] = ~IsStale(c)]
  /\ Go(Reads[c].next)
  /\ UNCHANGED << tracker, ros >>

(* With both READY, _create_episode_resources is next: a task the plug-ins   *)
(* reject ends this episode only.                                            *)
Decide ==
  /\ At("decide")
  /\ \/ (\A c \in Components : ready[c]) /\ (Go("Env call") \/ Move("TERMINATING", "loop"))
     \/ (\E c \in Components : ~ready[c]) /\ Go("loop")
  /\ ready' = [c \in Components |-> FALSE]
  /\ UNCHANGED << tracker, ros >>

(* fault: the deadline is looked at for the Env only *)
DeadlineOfEnvPasses ==
  /\ At("decide") /\ ~ready["Env"]
  /\ Fail
  /\ ready' = [c \in Components |-> FALSE]
  /\ UNCHANGED << tracker, ros >>

(* The startup deadline of the episode has passed. *)
DeadlinePasses ==
  /\ At("decide") /\ \E c \in Components : ~ready[c]
  /\ Fail
  /\ ready' = [c \in Components |-> FALSE]
  /\ UNCHANGED << tracker, ros >>

Calls == [Env |-> [call |-> "Env call", wait |-> "Env wait", next |-> "Agent call"],
          Agent |-> [call |-> "Agent call", wait |-> "Agent wait", next |-> "task"]]

(* call_service_with_deadline: without a service the call fails at once;   *)
(* otherwise the request is sent.                                          *)
Call(c) ==
  /\ At(Calls[c].call)
  /\ \/ /\ Fail
        /\ UNCHANGED << request, answer >>
     \/ /\ node[c].alive
        /\ request' = [request EXCEPT ![c] = worker.episode]
        /\ Go(Calls[c].wait)
        /\ UNCHANGED answer
  /\ UNCHANGED << ready, tracker, node, taskInbox, hasTask, wire, robot, faults >>

EndCall(c) ==
  /\ answer' = [answer EXCEPT ![c] = None]
  /\ UNCHANGED << ready, tracker, node, request, taskInbox, hasTask, wire, robot, faults >>

(* The answer is there in time; a refusal ends the experiment. *)
Answered(c) ==
  /\ At(Calls[c].wait) /\ answer[c] # None
  /\ IF answer[c] = "success" THEN Go(Calls[c].next) ELSE Fail
  /\ EndCall(c)

(* The deadline passes first: the future is cancelled, but the request may *)
(* still be in the queue of the server, or being executed.                 *)
CallExpires(c) ==
  /\ At(Calls[c].wait)
  /\ Fail
  /\ EndCall(c)

(* _publish_episode_task, then mark_prepared. *)
PublishTask ==
  /\ At("task")
  /\ taskInbox' = IF node["Agent"].alive THEN worker.episode ELSE NoEpisode
  /\ Move("READY", "loop")
  /\ UNCHANGED << ready, tracker, node, request, answer, hasTask, wire, robot, faults >>

(* The episode is started, automatically or by the operator. *)
Start ==
  /\ At("loop") /\ worker.phase = "READY"
  /\ Move("RUNNING", "loop")
  /\ UNCHANGED << ready, tracker, ros >>

(* The operator aborts, or the evaluator ends the run. *)
Terminate ==
  /\ At("loop") /\ worker.phase \in {"PREPARING", "READY", "RUNNING"}
  /\ Move("TERMINATING", "loop")
  /\ UNCHANGED << ready, tracker, ros >>

(* _runtime_health_tick *)
HealthTick ==
  /\ At("loop") /\ worker.phase \in {"READY", "RUNNING"}
  /\ \E c \in Components : Latest(c) = "ERROR" \/ IsStale(c)
  /\ Fail
  /\ UNCHANGED << ready, tracker, ros >>

(* _safe_stop_handshake: the same snapshot again, until it is acknowledged *)
(* (it is in the inbox, taken or not) or the deadline passes ...           *)
Republish ==
  /\ At("loop") /\ worker.phase = "TERMINATING"
  /\ PublishState(worker)
  /\ UNCHANGED << worker, ready, tracker, ros >>

(* ... and either way the episode is finished; an evaluator or a recorder   *)
(* that breaks makes it the last.                                           *)
Finalize ==
  /\ At("loop") /\ worker.phase = "TERMINATING"
  /\ \E broken \in BOOLEAN :
       LET stop == worker.stopping \/ broken
       IN  worker' = [worker EXCEPT
                        !.phase = "FINISHED", !.stopping = stop,
                        !.sequence = worker.sequence + 1,
                        !.pc = IF stop \/ worker.episode = NumEpisodes
                                 THEN "over" ELSE "advance"]
  /\ PublishState(worker')
  /\ UNCHANGED << ready, tracker, ros >>

(* _advance_episode *)
Advance ==
  /\ At("advance")
  /\ worker' = [episode |-> worker.episode + 1, phase |-> "PREPARING", sequence |-> 0,
                pc |-> "loop", stopping |-> FALSE]
  /\ PublishState(worker')
  /\ UNCHANGED << ready, tracker, ros >>

Tick ==
  \/ Look \/ Decide \/ PublishTask \/ HealthTick \/ Advance
  \/ \E c \in Components : ReadState(c) \/ ReadAge(c) \/ Call(c) \/ Answered(c)

-----------------------------------------------------------------------------
(* StatusTracker.update: a transition or a heartbeat of a live component.   *)
Hear(c) ==
  /\ node[c].alive
  /\ tracker' = [tracker EXCEPT ![c] = [state |-> Told(node[c].status), fresh |-> TRUE]]
  /\ UNCHANGED << worker, ready, published, inbox, ros >>

(* No heartbeat for longer than the timeout: the component died, suppresses *)
(* its heartbeat, or is late.                                               *)
Expire(c) ==
  /\ tracker[c].fresh
  /\ tracker' = [tracker EXCEPT ![c].fresh = FALSE]
  /\ IF node[c].alive THEN faults < MaxFaults /\ faults' = faults + 1 ELSE UNCHANGED faults
  /\ UNCHANGED << worker, ready, published, inbox, node, request, answer, taskInbox, hasTask, wire, robot >>

-----------------------------------------------------------------------------
(* Env and Agent.  A node that resets or is dead runs no other callback.    *)
Free(c) == node[c].alive /\ node[c].status # "RESETTING"

BecomeReady(c) ==
  /\ Free(c) /\ node[c].status = "STARTING"
  /\ node' = [node EXCEPT ![c].status = "READY"]
  /\ UNCHANGED << protocol, inbox, request, answer, taskInbox, hasTask, wire, robot, faults >>

TakeReset(c) ==
  /\ Free(c) /\ request[c] # NoEpisode
  /\ node' = [node EXCEPT ![c].status = "RESETTING"]
  /\ UNCHANGED << protocol, inbox, request, answer, taskInbox, hasTask, wire, robot, faults >>

(* The client that gave up hears no answer. *)
Answer(c, outcome) ==
  /\ request' = [request EXCEPT ![c] = NoEpisode]
  /\ answer' = [answer EXCEPT ![c] = IF At(Calls[c].wait) THEN outcome ELSE None]

(* EpisodeSequenceGuard.activate, the model at rest *)
Activated(n, episode) ==
  [n EXCEPT !.status = "READY", !.episode = episode, !.last = Unset, !.running = FALSE]

ResetEnv ==
  /\ node["Env"].alive /\ node["Env"].status = "RESETTING"
  /\ node' = [node EXCEPT !["Env"] = Activated(node["Env"], request["Env"])]
  /\ Answer("Env", "success")
  /\ command' = Zero /\ silence' = 0
  /\ UNCHANGED << protocol, inbox, taskInbox, hasTask, wire, faults >>

(* fault: the last command before the reset is left on its way *)
ResetAgentSilently ==
  /\ node["Agent"].alive /\ node["Agent"].status = "RESETTING"
  /\ node' = [node EXCEPT !["Agent"] = Activated(node["Agent"], request["Agent"])]
  /\ Answer("Agent", "success")
  /\ hasTask' = FALSE
  /\ UNCHANGED << protocol, inbox, taskInbox, wire, robot, faults >>

(* The Agent forgets its task and publishes a zero command. *)
ResetAgent ==
  /\ node["Agent"].alive /\ node["Agent"].status = "RESETTING"
  /\ node' = [node EXCEPT !["Agent"] = Activated(node["Agent"], request["Agent"])]
  /\ Answer("Agent", "success")
  /\ hasTask' = FALSE
  /\ wire' = Zero
  /\ UNCHANGED << protocol, inbox, taskInbox, robot, faults >>

(* The injected reset failure. *)
ResetFails(c) ==
  /\ node[c].alive /\ node[c].status = "RESETTING" /\ faults < MaxFaults
  /\ node' = [node EXCEPT ![c].status = "ERROR"]
  /\ Answer(c, "failure")
  /\ wire' = IF c = "Agent" THEN Zero ELSE wire
  /\ faults' = faults + 1
  /\ UNCHANGED << protocol, inbox, taskInbox, hasTask, robot >>

(* The Agent drives in a run whose task it has; a segment may be at rest.   *)
CanDrive(n, task) == n.running /\ task
AgentCommands(n, task) == {Zero} \cup IF CanDrive(n, task) THEN {n.episode} ELSE {}

(* _on_episode_state of each node, with an accepted snapshot. *)
Obey(c, m) ==
  /\ Accepts(c, m)
  /\ node' = [node EXCEPT ![c].last = m.sequence, ![c].running = (m.phase = "RUNNING")]
  /\ \/ /\ c = "Env"
        /\ command' = IF m.phase = "RUNNING" THEN command ELSE Zero
        /\ silence' = IF m.phase = "RUNNING" THEN silence ELSE 0
        /\ UNCHANGED wire
     \/ /\ c = "Agent"
        /\ wire' \in AgentCommands(node'["Agent"], hasTask)
        /\ UNCHANGED robot
  /\ UNCHANGED << protocol, request, answer, taskInbox, hasTask, faults >>

(* The callback takes the newest snapshot; one the guard rejects is gone.   *)
TakeState(c) ==
  /\ Free(c) /\ inbox[c] # None
  /\ inbox' = [inbox EXCEPT ![c] = None]
  /\ \/ Obey(c, inbox[c])
     \/ /\ ~Accepts(c, inbox[c])
        /\ UNCHANGED << protocol, ros >>

(* A delayed, duplicated or reordered snapshot reaches the callback.        *)
Redeliver(c) ==
  /\ LateSnapshots /\ Free(c)
  /\ \E m \in published : Obey(c, m)
  /\ UNCHANGED inbox

(* MockAgentModel.accept_task *)
TakeTask ==
  /\ Free("Agent") /\ taskInbox # NoEpisode
  /\ taskInbox' = NoEpisode
  /\ \/ /\ taskInbox = node["Agent"].episode
        /\ hasTask' = TRUE
        /\ wire' \in AgentCommands(node["Agent"], TRUE)
     \/ /\ taskInbox # node["Agent"].episode
        /\ UNCHANGED << hasTask, wire >>
  /\ UNCHANGED << protocol, inbox, node, request, answer, robot, faults >>

(* The Agent's _on_clock publishes the command of its script. *)
AgentDrives ==
  /\ Free("Agent")
  /\ wire' \in AgentCommands(node["Agent"], hasTask)
  /\ UNCHANGED << protocol, inbox, node, request, answer, taskInbox, hasTask, robot, faults >>

(* MockEnvironmentModel.receive_command *)
TakeCommand ==
  /\ Free("Env") /\ wire # None
  /\ wire' = None
  /\ command' = IF node["Env"].running THEN wire ELSE Zero
  /\ silence' = IF node["Env"].running THEN 0 ELSE silence
  /\ UNCHANGED << protocol, inbox, node, request, answer, taskInbox, hasTask, faults >>

(* fault: the watchdog lets a command live one step longer *)
EnvStepsOnceMore ==
  /\ Free("Env") /\ command # Zero
  /\ IF silence <= WatchdogSteps
       THEN silence' = silence + 1 /\ UNCHANGED command
       ELSE silence' = 0 /\ command' = Zero
  /\ UNCHANGED << protocol, inbox, node, request, answer, taskInbox, hasTask, wire, faults >>

(* MockEnvironmentModel.step: the watchdog of a moving robot. *)
EnvSteps ==
  /\ Free("Env") /\ command # Zero
  /\ IF silence < WatchdogSteps
       THEN silence' = silence + 1 /\ UNCHANGED command
       ELSE silence' = 0 /\ command' = Zero
  /\ UNCHANGED << protocol, inbox, node, request, answer, taskInbox, hasTask, wire, faults >>

(* An injected runtime error of the Agent. *)
AgentError ==
  /\ Free("Agent") /\ faults < MaxFaults
  /\ node' = [node EXCEPT !["Agent"].status = "ERROR", !["Agent"].running = FALSE]
  /\ wire' = Zero
  /\ faults' = faults + 1
  /\ UNCHANGED << protocol, inbox, request, answer, taskInbox, hasTask, robot >>

(* The process of a component dies at any point, and its memory with it;    *)
(* nobody restarts it.  The injected crash of the Agent publishes a zero    *)
(* command first.                                                           *)
Die(c) ==
  /\ node[c].alive /\ faults < MaxFaults
  /\ node' = [node EXCEPT ![c] = [Booting EXCEPT !.alive = FALSE]]
  /\ inbox' = [inbox EXCEPT ![c] = None]
  /\ request' = [request EXCEPT ![c] = NoEpisode]
  /\ \/ /\ c = "Env"
        /\ wire' = None /\ command' = Zero /\ silence' = 0
        /\ UNCHANGED << taskInbox, hasTask >>
     \/ /\ c = "Agent"
        /\ wire' \in {wire, Zero} /\ taskInbox' = NoEpisode /\ hasTask' = FALSE
        /\ UNCHANGED robot
  /\ faults' = faults + 1
  /\ UNCHANGED << protocol, answer >>

-----------------------------------------------------------------------------
Orchestrate ==
  \/ Tick \/ DeadlinePasses \/ Start \/ Terminate \/ Republish \/ Finalize
  \/ \E c \in Components : CallExpires(c) \/ Hear(c) \/ Expire(c)

Serve(c) == BecomeReady(c) \/ TakeReset(c) \/ TakeState(c) \/ Redeliver(c)

Respond ==
  \/ ResetEnv \/ ResetAgent \/ TakeTask \/ AgentDrives \/ TakeCommand \/ EnvSteps
  \/ \E c \in Components : Serve(c)

Break == AgentError \/ \E c \in Components : ResetFails(c) \/ Die(c)

Next == Orchestrate \/ Respond \/ Break

Spec == Init /\ [][Next]_vars

(* The control thread runs, and a service call or the preparation does not  *)
(* outlast its deadline; the safe-stop handshake ends; a live component is  *)
(* heard and a dead one falls silent; the executor of the Env comes round   *)
(* to each of its callbacks, and a reset ends.  Nothing promises that a     *)
(* component becomes ready, that an episode is started or ended from        *)
(* outside, or that a call is answered in time.                             *)
FairSpec ==
  /\ Spec
  /\ WF_vars(Tick \/ Finalize \/ \E c \in Components : CallExpires(c))
  /\ SF_vars(DeadlinePasses)
  /\ WF_vars(\E c \in Components : Hear(c) \/ (~node[c].alive /\ Expire(c)))
  /\ WF_vars(TakeState("Env") \/ ResetEnv)

(* Every callback of both nodes gets its turn. *)
AttentiveSpec ==
  /\ FairSpec
  /\ WF_vars(TakeCommand) /\ WF_vars(EnvSteps)
  /\ WF_vars(TakeState("Agent")) /\ WF_vars(ResetAgent) /\ WF_vars(AgentDrives)
  /\ \A c \in Components : WF_vars(TakeReset(c))

-----------------------------------------------------------------------------
(* Every variable has its type, and each topic holds what was published.    *)
HarnessTypeOK ==
  LET Snapshots == [episode : Episodes, sequence : 0..4, phase : Phases]
  IN  /\ worker.episode \in Episodes /\ worker.phase \in Phases
      /\ worker.sequence \in 0..4
      /\ worker.stopping \in BOOLEAN
      /\ ready \in [Components -> BOOLEAN]
      /\ published \subseteq Snapshots
      /\ inbox \in [Components -> published \cup {None}]
      /\ tracker \in [Components -> [state : {"READY", "ERROR", None}, fresh : BOOLEAN]]
      /\ node \in [Components -> [status : Statuses, alive : BOOLEAN,
                                  episode : Episodes \cup {NoEpisode},
                                  last : 0..4 \cup {Unset}, running : BOOLEAN]]
      /\ request \in [Components -> Episodes \cup {NoEpisode}]
      /\ answer \in [Components -> {None, "success", "failure"}]
      /\ taskInbox \in Episodes \cup {NoEpisode} /\ hasTask \in BOOLEAN
      /\ wire \in Episodes \cup {Zero, None} /\ command \in Episodes \cup {Zero}
      /\ silence \in 0..WatchdogSteps /\ faults \in 0..MaxFaults

Announced(episode, phases) ==
  \E m \in published : m.episode = episode /\ m.phase \in phases

(* The robot moves only in a run the orchestrator announced, and only by a  *)
(* command the Agent published in the same episode: commands carry no       *)
(* identity, so this rests on the order of the resets (orchestrator.py      *)
(* 428-431), the zero command of the Agent's reset and the guard.           *)
ObeysItsOwnRun ==
  command # Zero =>
    /\ node["Env"].running
    /\ command = node["Env"].episode
    /\ Announced(command, {"RUNNING"})

(* A node that has seen the end of its episode never runs it again, whatever *)
(* snapshots arrive late, twice or out of order (sequence.py:48-62).         *)
StopsForGood ==
  [][\A c \in Components :
       (\E m \in published : /\ m.episode = node[c].episode
                             /\ m.phase \in {"TERMINATING", "FINISHED"}
                             /\ m.sequence <= node[c].last)
         => ~node'[c].running]_vars

(* When the orchestrator announces RUNNING, both components were reset for   *)
(* this very episode and no command of an earlier one can reach the robot:   *)
(* a refused, late or half-done reset never leads to a run (orchestrator.py  *)
(* 440-470, 525-553; service.py:53-68).                                      *)
PreparedBeforeRun ==
  worker.phase = "RUNNING" =>
    /\ \A c \in Components : node[c].alive => node[c].episode = worker.episode
    /\ {wire, command} \subseteq {None, Zero, worker.episode}

Broken == \E c \in Components : ~node[c].alive \/ node[c].status = "ERROR"
AtRest == command = Zero

(* A component that dies, or reports an error that no reset clears, ends the *)
(* experiment: every wait of the control thread on it has a deadline, and    *)
(* its silence or its error is noticed (orchestrator.py 391-438, 555-605).   *)
(* And when the experiment is over, for this reason or another, and the Env  *)
(* was reset for its last episode, the robot comes to rest, whatever the     *)
(* safe-stop handshake reported.  (The formula is P ~> Q for a Q that holds  *)
(* wherever P does not.)                                                     *)
ComesToRest ==
  []<>(Broken \/ At("over") =>
         At("over") /\ (AtRest \/ node["Env"].episode # worker.episode))

(* What docs/architecture-and-development-plan.md:121 promises of the Env,  *)
(* "unconditionally" and as the last safety boundary: once the end of its    *)
(* episode is announced, it comes to refuse motion.                          *)
EndsAreObeyed ==
  Announced(node["Env"].episode, {"TERMINATING", "FINISHED"}) ~> ~node["Env"].running
=============================================================================
