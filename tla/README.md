# Verification of RoboHarness

TLA+ specifications of the RoboHarness experiment engine, the TLC runs that check them on small
instances, and TLAPS proofs of what matters most for every instance. Paths below are those of the
repository (`src/` in the manifest `PROJECT.json`); the manifest maps each definition to the lines it
models.

## 1. The system

RoboHarness runs *experiments*: an ordered list of *episodes* in which an Agent drives a robot in an
Env (a simulator). One ROS node, the orchestrator, owns the lifecycle; Env and Agent are components
that report a status and offer a reset service; an Evaluator watches an episode and proposes how it
ended; a Recorder keeps the results.

| Component | State it keeps | Operations | Correct when |
|---|---|---|---|
| Lifecycle (`rh_core/lifecycle.py`, `termination.py`) | immutable snapshots: state, reason, sequence | `transition` | only moves of the tables; a reason is committed once |
| Controller (`rh_experiment/controller.py`) | experiment state, index, episode, completed list | 8 methods | episodes in order, each closed once, FINISHED only after the last |
| Orchestrator (`orchestrator.py`) | event queue, flags of the active episode, resources, latched topic, stop flag | control loop, service callbacks, `stop()` | no motion without preparation; a failure stops the experiment; every termination is finalized; the topic tells the truth |
| Control request (`_submit_event`, `_process_event`) | per event: claimed, cancelled, completed, decision | submit, time out, claim, answer | no answer contradicts what happens |
| Reset guard (`rh_ros/reset_guard.py`) | ordered dictionary of records | `execute`, eviction | one execution per id, replayed to duplicates, bounded memory |
| Recorder (`recorder/recorder.py`, `io.py`) | buffers, files, finished flag | start, begin, record, complete, finish | complete markers last and truthful, also after a crash |
| Reader (`recorder/reader.py`) | none | check a directory | never takes an unfinished result for a finished one, reads what an interrupted run leaves |
| Evaluator (`evaluators/simple_navigation`) | trajectory, candidate, sequence guards | 5 subscriptions, `finalize` | one candidate per episode, in simulation time |
| Sequence guard, status, service (`rh_ros`) | last sequence; last heartbeat; none | accept; update, query; call | no stale snapshot, staleness by wall clock, bounded calls |
| Mock Env / Agent (`tests/fixtures`) | gate, task, command, watchdog | callbacks | moves only in its own episode's run, and comes to rest |
| Config, models, conversions, QoS, paths, PointNav task, bring-up, Isaac, interfaces | none, or data | parsing, conversion, wiring | (sequential, stateless) |

**How they interact.** Executor threads (start and abort services), evaluators and tests put events
into one queue; only the *control thread* moves the controller. It publishes every snapshot on a
latched topic, which Env, Agent and Evaluator obey, and then records it. It calls the two reset
services, guarded on the server side by the reset guard. The main thread calls `stop()`, which waits
for the control thread only for `control_request_timeout_s` and then closes evaluator, publisher and
recorder whether it has ended or not.

**What is hard.** The race between a request's time-out and its claim; a snapshot published and then
not recorded; flags that belong to an episode but live in the node; finalization in ten steps, each
of which may fail; `stop()` running beside any of them; candidates and requests of an episode that is
over; eviction around resets in flight; a crash between two of the files that together are one result,
and a reader that looks at that moment; topics that keep one message, so that the end of an episode may
never be seen; resets that go on when their caller has given up. `PROJECT.json` lists each hazard at its line, with the
properties that cover it and what they leave out.

## 2. Modules

| Module | Models | Checked by | Proved in |
|---|---|---|---|
| `Lifecycle` | transition tables, `transition`, priority | through the others | |
| `Controller` | `ExperimentController` | `controller` | `Controller_proofs` |
| `VerdictLedger` | abstract: what an experiment promises | implemented by `Controller`, `Orchestrator` | `Controller_proofs`, `Orchestrator_proofs` |
| `Orchestrator` | `ExperimentOrchestratorNode` | `orchestrator`, `orchestrator_live`, `recorder_kills_thread` | `Orchestrator_proofs` |
| `RequestHistory` | the node beside what its callers were told | `orchestrator` | `Orchestrator_proofs` |
| `ControlRequest` | the hand-over at the grain of its locks | `control_request` | `ControlRequest_proofs` |
| `AtomicRequest` | abstract: what a caller is promised | implemented by `ControlRequest` | `ControlRequest_proofs` |
| `ResetGuard`, `MCResetGuard` | `IdempotentResetGuard` | `reset_guard` | `ResetGuard_proofs` |
| `Evaluation` | `SimpleNavigationObserver` over `SimpleNavigationEvaluation` | `evaluation`, `reported_success` | `Evaluation_proofs` |
| `ResultTree` | the layout of a result tree and the reader's checks | through the next | |
| `Recorder` | `ResultRecorder` over `atomic_write_text`, the file system, crashes | through the next | |
| `Results`, `MCResults` | recorder and a reader that races it | `results`, `interrupted_run` | `Results_proofs`, `Readable_proofs` |
| `ResultJournal` | abstract: what a result tree promises | implemented by `Results` | `Results_proofs` |
| `Harness` | orchestrator, Env and Agent over the helpers of `rh_ros` | `harness`, `missed_end` | `Harness_proofs` |

### Lifecycle and Controller

A Python method that either returns or raises is a pair of operators: `Can…` says when it returns,
the other one what the state is then. `Controller` keeps one variable `ctl`, a record with the fields
of the class, so that the orchestrator can call two methods under one lock
(`FailExperiment`, then `RequestTermination`). An episode is named by its position in the list;
`TargetIds` adds 0 for an identity that is not of this experiment. `CtlSpec` calls the methods in any
order, a caller more hostile than the orchestrator. `finish_termination` passes through FINALIZING
inside one method under one lock, so FINALIZING is never seen (part of `CtlInv`).

`VerdictLedger` is the abstract specification: episodes opened one after the other, one verdict each,
never rewritten, complete only with the last one, complete or failed for ever. The refinement mapping
takes the reasons of the completed list and, while the current episode is TERMINATING, its reason.

### Orchestrator

`pc` is the place the control thread has reached. A place is a point where the thread blocks (reset
call, handshake, queue, file writes) or where another thread can change what it reads next; between
two places no other thread writes what it uses. One iteration of `_control_loop` is
`top → prepare … → health → finalize … → event → top`; `except` is the handler of the loop, `dead` a
thread whose handler raised.

| Code | Actions |
|---|---|
| `_preparation_tick` | `PrepareFails`, `PrepareWaits`, `ComponentsReady`, `CreateResources(Fails)`, `ResetEnvironment(Fails)`, `ResetAgent(Fails)`, `PublishTask(Fails)`, `EpisodeReady`, `AutomaticStart` |
| `_runtime_health_tick` | `HealthPasses`, `HealthFails` |
| `_finalization_tick` | `FinalizationStarts`, `SafeStopHandshake`, `FinalizeEvaluation(Fails)`, `PersistEpisode`, `FinishRecorder`, `FinishIncomplete`, `CloseEpisode`, `AdvanceToNext` |
| queue | `Submit`, `TimeOut`, `NoEvent`, `ProcessEvent` |
| handler of the loop | `HandleException` |
| `stop()` | `Stop`, `JoinEndsOrTimesOut`, `StopClosesResources`, `StopFinishesRecorder` |
| clock | `DeadlinePasses` |

Status messages, the simulation clock and the answers of services are the choices a call may return
with; the constant `Faults` says which of them may be failures. The recorder is the automaton the
node sees: a call must raise when the recorder is finished or the buffer closed, and with the fault
`"recorder"` may raise anyway, before or after its last effect on the buffers (`CompleteRaises`,
`BeginRaises`, `FinishRaises`). Two dimensions of construction, automatic or manual start and with or
without recorder, are chosen in `Init`.

Simplifications: both resource factories are given, so `resources` is one Boolean; the claim inside
`_process_event` is one step here (`TimeOut` cancels an event that is still queued) and is taken apart
in `ControlRequest`; `Submit` tests the stop flag and puts the event in one step (taken apart there
too); publishing on a topic does not fail; `destroy_node`'s second `stop()` is left out.

### RequestHistory

The node of `Orchestrator` forgets a request once it has been answered. `RequestHistory` adds the variable
`heeded`, the commands whose caller was still waiting and was told that they took effect, in order; no
step of the node reads it. `VerdictsAnswerRequests` compares this history with the verdicts of the
controller (`VerdictsOf`, the refinement mapping of the ledger):

* who was told that it ended an episode has its reason as the verdict of that episode, for good;
* of all who would end one episode at most one is told so;
* no episode ends for SUCCESS, TIMEOUT or ABORTED unless somebody asked for it and was told;
* in manual mode no episode runs unless somebody started it and was told.

So a request that waited until its episode was over, one whose caller gave up on it, and one that found
another reason committed, are without effect on every episode. "failed", the answer to a request whose
snapshot was committed and published but not recorded, counts as having taken effect; that a caller
should be told so is another matter (§3).

### ControlRequest

One `_ControlEvent` per call, its four fields as functions of the request, the queue, and the place
of each caller and of the control thread. Each section under `event.guard` is one step, and so is
each assignment outside it. The handler either takes the request (`effect`) or refuses it; recording
what was taken may raise. `AtomicRequest` promises that a request takes effect at one instant, before
its answer, and never after a refusal.

### ResetGuard

A call of `execute()` is a thread; a record is named by the call that made it, since a waiting thread
keeps its reference when the dictionary has let the record go. Each section under the condition's lock
is one step. `operation()` returns or raises. The ordered dictionary is the sequence of its records,
least recent first; `move_to_end` removes a record where it is and appends it. `_evict_completed` loops
until no more than `capacity` completed records are left, and `Evicted` lets one go: the loop follows
every completion and each completion adds one record, so it never has two to remove. That this is so,
and not assumed, is what `MemoryBounded` says.

### Evaluation

One episode as its evaluator sees it. `SimpleNavigationEvaluation` is a record and a function of the
record for each method (`Started`, `Observed`, `AgentSucceeded`, `AgentFailed`, `ClockAdvanced`,
`Finished`); a method returns a candidate exactly when it commits one, which is what `Hand` looks at.
The observer's callbacks exclude each other, since its subscriptions share the node's default callback
group, and each runs under its lock; so one callback is one step (`OnTask`, `OnState`, `OnReport`,
`OnOdometry`, `OnClock`), and a candidate takes two more, outside of the first lock: `Claim` and the
answer (`Decide`, `SubmissionTimesOut`). Between any two of them the control thread may `Finalize`.
What was published of a topic is a log; a message may be delivered late, repeatedly or never, and the
place in the log is its sequence number. `Abort` stands for every termination that is not this
evaluator's. The agent, the simulation and its clock are external: an agent reports IDLE, RUNNING and
one outcome, with a stamp that may lag by one unit, and the robot may be inside or outside of the
radius at each time, also after the agent has reported. Positions are abstracted to inside or outside,
so a sample is its time, and path length and distance, functions of the samples, are left out.
`VerdictIsJustified` says what is common to the code and to its documents: a verdict rests on a report
and on positions no earlier than it, and no time-out is declared while a position is there that could
settle a reported success. Where they differ, which of several such positions decides and whether a
pending report excludes a time-out, the documents' side is stated in `ReportedSuccessIsChecked`,
and refuted (§3).
Transform failures and messages that do not convert or name another episode change nothing; a callback
that was taken from its queue before `close()` and runs behind it does what it would have done before.

### ResultTree, Recorder, Results

`ResultTree` gives every path a name (a directory and a file in it, "." for the entry of the directory
itself) and says which trees `validate_result_tree` accepts. A document is what the reader can tell
apart: of the summary its marker, its counts and its entries; of the metrics the marker, the reason and
what must agree with it; of a trajectory the times and the frames. Schema versions, identities and types are right by
construction of the writer and left out. `LineBreaking` is the set of texts with a Unicode line
boundary. `Absent`, a path without a document, is assumed to be none of them (`AbsentAssumption` in `Recorder`,
after the types of the documents).

`Recorder` has one call in progress at a time (`call`, `todo`: the lock), with one step for each
directory made and three for each file replaced: `WriteTemporary`, `Replace` (the rename), and
`SyncDirectory`, which ends the write. What the code does in memory between two writes happens with the
end of the first (`Wrote`). Any step may fail (`WriteFails`), the process may die (`Crash`), and the
machine may (`PowerLoss`): then a name that was not synced shows an older document, chosen for each name
by itself, and a directory without its entry takes what is in it along. The callers are those of
`orchestrator.py`: `start` once, episodes in order, `complete_episode` once for an episode and no event
after it, `finish` again with `complete=False` when it has raised. `promised` records what calls have
been asked and have answered; only properties and these conditions on the caller look at it.

`Results` adds the reader. It lists the root, reads configuration, manifest and summary, then for each
episode the summary names its five places, then the directory of the episodes, one step each, with any
number of recorder steps in between, and judges what it has found (`copy`). A missing file ends it at
once.

| Property | Says |
|---|---|
| `MarkersAreTrue` | a reader, at any moment, that accepts a complete episode has read the metrics, trajectory and events handed over, and a complete manifest only with all episodes |
| `InterruptedReadable` | the tree is acceptable at every instant outside of `start` and `begin_episode` |
| `KeepsJournal` | `ResultJournal`: a result appears at one instant, never changes, survives every crash once the recorder holds it for complete, and a settled seal is for ever |

`InterruptedReadable` makes two exceptions. A temporary file that a killed process leaves behind makes
the reader reject the tree (`reader.py:270`, `333`). And when the manifest of `finish(complete=True)` is
renamed but its fsync fails, the fallback `finish(complete=False)` replaces the summary first, and until
it replaces the manifest too the tree has a complete manifest over an incomplete summary. Two more
limits of the promise are constants: with `EntriesSynced = FALSE`, which is all POSIX says, a power loss
may take away a whole tree that was finished, because nothing syncs the parent of a new directory; with
a text of `LineBreaking` among the `Texts`, an event detail with U+0085, U+2028 or U+2029 makes the tree
unreadable, because the recorder writes it as it is (`recorder.py:363`) and the reader splits lines
there (`reader.py:241`). With `EntriesSynced = FALSE` both `KeepsJournal` and `InterruptedReadable` fail;
with such a text `InterruptedReadable` fails.

### Harness

The protocol between the nodes. The orchestrator (`worker`) is reduced to what its peers observe: the
phase and sequence number it publishes, and the place of the control thread where that matters, which is
in the preparation. `Orchestrator` has the rest, and its actions are the reason for the choices here
(`Terminate`, `Finalize` with something broken, a task that is rejected).

| Code | Actions |
|---|---|
| `_preparation_tick` | `Look` (errors), `ReadState` and `ReadAge` (the two locked reads of `is_ready`), `Decide`, `DeadlinePasses`, `Call`, `Answered`, `CallExpires`, `PublishTask` |
| the rest of the control loop | `Start`, `Terminate`, `HealthTick`, `Republish` (the handshake), `Finalize`, `Advance` |
| `StatusTracker`, heartbeats | `Hear`, `Expire` |
| `EpisodeSequenceGuard` | `Accepts`, `Activated` |
| reset services | `TakeReset`, then `ResetEnv`, `ResetAgent` or `ResetFails` |
| `_on_episode_state` | `TakeState`, and `Redeliver` for a late or repeated snapshot; both by `Obey` |
| task and commands | `TakeTask`, `AgentDrives`, `TakeCommand`, `EnvSteps` (the watchdog) |
| faults | `AgentError`, `Die` |

Every topic keeps one message: publishing replaces the one not taken. Env and Agent are single-threaded,
so a callback is one step; a reset is two, since the RESETTING it publishes can be heard before it ends.
A moving command is the episode the Agent was in when it published it: the message carries no identity,
and `ObeysItsOwnRun` and `PreparedBeforeRun` say that none outlives its episode. A call that expires
leaves its request with the server, which may still execute it.

Simplifications: a command published replaces the older ones on their way, so a command cannot be late
by itself; a script may drive whenever the Agent may; a frozen clock, the changing of fault parameters
and reset requests with invalid content are left out; the reset guard is transparent, since request ids
are never reused (`ResetGuard` has the duplicates); a component that dies loses its memory and is not restarted, as
nothing in the repository does that. A heartbeat that is late, or suppressed, counts as a fault; the silence of a
dead component does not.

## 3. Runs

| Run | Instance | Shows |
|---|---|---|
| `controller` | 3 episodes | the invariants of the controller, its snapshots' progress, and the ledger |
| `orchestrator` | 2 episodes, all faults, candidates SUCCESS and TIMEOUT, 1 queued event | safety: preparation before motion, topic, manifest, stopping on failure, what callers were told against what was committed, ledger |
| `orchestrator_live` | 2 episodes, all faults but those of the recorder, 1 queued event | preparation ends, termination is finalized, `stop()` ends; a finalized experiment has a closed record |
| `control_request` | 3 requests | true answers, one effect, an answer for everybody; refinement of `AtomicRequest` |
| `reset_guard` | 4 calls, 2 ids, 2 contents, capacity 1 | one execution per id, right replay, bounded memory, every waiter ends |
| `results` | 2 episodes, 1 event each, 1 failing write, crash or power loss at any step, one reader | markers are true to any reader, a begun tree stays readable, the journal is kept |
| `harness` | 2 episodes, 1 fault, late snapshots | the robot moves only in its own announced and prepared run and comes to rest when a component breaks or the experiment is over |
| `evaluation` | times 0 to 2, time-out 2, one outcome | the verdict follows from what was published, recorded metrics agree, due and reported episodes end unless the candidate goes unanswered |

Bounds. Two episodes have a first and a last one and the hand-over between them; three give the
controller a middle one. One queued event is enough for a stale one to be there when the next episode
opens. Three
requests give one that is queued, one that is held and one that is cancelled. Four calls on two ids
with room for one completed record make every eviction and reuse of an id happen.
Three points of time give a position before, at and after a report, a clock that lags, and a run that
times out or is late for it.
`results`: two episodes, one event in each, one write that fails; metrics with and without samples, and
trajectories in every order that the recorder has to reject. Two episodes give a summary with one entry
less than the tree while the second begins, and a crash between the completion of the first and of the
second. One failure, in any write, reaches the fallback: `finish` called again with `complete=False`. `harness`: two
episodes, a watchdog of one step, one fault of any kind, and any number of late snapshots: one episode to
be late from and one to be late in. Calls that expire and discoveries that fail are not counted.
`UInt64Max = 20` stands for 2^64 − 1: `CtlTypeOK` says that a sequence number never passes 4, so the
limit is not met, and the proofs hold for every limit of at least 4. `CHECK_DEADLOCK FALSE` is said where the
modelled system stops by itself: after `stop()`, or when every call has returned.

Fairness. `FairSpec` of the orchestrator: the control thread keeps running (its reset calls and its handshake
have deadlines, its queue read a time-out), the wall clock reaches the startup deadline, and `stop()`
goes on once called (its join has a time-out). No request, candidate or stop need ever come. In
`ControlRequest`: the control thread runs, and a caller that has begun goes on, which includes the end
of its wait; a caller need not begin. In `ResetGuard`: a call that has begun goes on and `operation()`
ends. In `Evaluation`: the latest message of each reliable topic arrives and so does the periodic clock, and
the control thread answers; time need not pass, nor the agent report, nor the operator abort, and
odometry, a best-effort topic, is assumed only by `ReportedEpisodeEnds`, in its antecedent, since a
reported success cannot be confirmed without a position. Both liveness properties have one exception
in their conclusion: a submission that times out is never repeated (`observer.py:293`), and only
another termination ends that episode. `orchestrator_live` leaves out recorder faults, because with them termination is *not* always finalized
(the run `recorder_kills_thread`). In `Harness`: the control thread runs and its calls end at their deadline, the startup
deadline passes (strongly fair, since the thread looks at it once in each round), a live component is
heard and a dead one falls silent, and the Env takes its messages and ends its resets. Nothing promises
that a component becomes ready, that a call is answered, or that an episode is started or ended from
outside. `AttentiveSpec`, for `missed_end`, gives every callback of both nodes its turn, so that the
counterexample is not one of starvation. `Results` states no fairness: its properties are about safety.

### Where code and documents part

| Run | Found |
|---|---|
| `recorder_kills_thread` | Two failing records in a row end the control thread with the episode TERMINATING for ever. |
| `interrupted_run` | A crash inside `begin_episode` leaves a directory that the summary does not list, or one with files missing: the reader rejects the tree with everything in it (`recorder.py:182`, `reader.py:333`, `374`). The README of `rh_experiment`, lines 41-43, says that interrupted runs remain parseable. |
| `missed_end` | The first snapshot of the next episode replaces the last one of this episode before the Env has taken it, and the guard then rejects every snapshot until the next reset. If the next episode ends before its reset, the Env goes on accepting commands for ever; the architecture document, line 121, has the Env refuse motion outside of RUNNING unconditionally. The Agent may have missed the same snapshots, and goes on driving. |
| `reported_success` | Of two positions at or after the agent's success that arrive before its report, the later one is judged (`evaluation.py:127`); the evaluator's README, lines 19-20, and the architecture document, lines 332 and 672, say the first. The run puts the time limit out of reach. |

Six more, seen while modelling and kept here without a run:

* An abort before the components are ready fails the experiment (`controller.py:130`), and
  `advance_episode` then raises into the loop's handler; the README of `rh_experiment`, lines 56-57, says
  that ABORTED allows the next episode.
* A start that was committed and published is answered "control request failed" when the record fails
  (`orchestrator.py:367`), against the comment at `orchestrator.py:347`. `AnswersAreTrue` says nothing of
  this answer.
* Candidates that wait together are taken first come, first served (`orchestrator.py:380`);
  `resolve_termination_reason`, the priority the README of `rh_core` gives, has no caller.
* A duplicate that waited for a reset gets a `KeyError` when capacity-many other resets complete before
  it wakes (`reset_guard.py:60`), where the docstring of `execute` promises the original result. The
  default capacity is 128. `EveryCallEnds` counts this as an end.
* `advance_clock` returns TIMEOUT also when a reported success still waits for its position
  (`evaluation.py:162`), where the architecture document, line 673, reserves TIMEOUT for an agent that
  has reported nothing. With a time limit within reach (`Timeout = 2`) `ReportedSuccessIsChecked` is
  refuted by this.
* An event whose text holds U+0085, U+2028 or U+2029 makes even a tree that finished without a failure
  unreadable (`recorder.py:363`, `reader.py:241`); the architecture document, line 831, has the reader
  verify normal results.

## 4. Proofs

`Controller_proofs`, from `NumEpisodes ∈ Nat \ {0}` and `UInt64Max ≥ 4`:

* The inductive invariant is `CtlTypeOK ∧ CtlInv`. `CompletedInOrder` alone is not inductive: that the
  snapshot filed next has a reason, and the id of the index, needs `SnapshotOK` and
  `episode.id = index`; that a finished experiment opens no further episode needs the last conjunct.
* `MoveFacts` says once what a legal transition does to a well-formed snapshot; `MovePreserves`,
  `FinishPreserves`, `AdvancePreserves`, `ExperimentPreserves` say what each kind of method preserves
  and are used again for the action property and the refinement.
* Results: `CtlTypeCorrect`, `CtlInvHolds`, `NoEpisodeSkipped`, `FinishedMeansAll`,
  `SnapshotsAlwaysProgress`, `AcceptedNeverRaises` (a request that passes its guard is not refused by
  the transition) and `ImplementsLedger`, the refinement of `VerdictLedger`:
  `TerminationJudges` and `FinishEnds` map the two interesting methods, everything else is a step of
  the ledger's index or outcome, or a stutter.

`ControlRequest_proofs`, for any set of requests: `TypeCorrect`; `InvHolds`, where `RequestInv` says of
each event that it is in the queue, held, or done, never both claimed and cancelled, and that what was
returned is what was decided; from it `AnswersTrue`, `DecisionAlwaysThere` and the refinement
`Refinement` of `AtomicRequest`. The step to "timed out" needs `cancelled ⇒ ¬claimed` and
`effect ⇒ claimed`, which is the whole point of the guard.

`Orchestrator_proofs`, for any number of episodes, any `Faults`, `Candidates` and bound of the queue.
The invariant is `CoreInv`: the controller's `IInv` and type, what the place of the control thread says
of the episode (`PlaceInv`), that `_startup_complete` tells STARTING from RUNNING (`ExperimentInv`),
which preparation steps have been done at each place (`StepsInv`), where alone the topic may be behind
(`TopicInv`), and that a finished episode is filed (`FiledInv`).

* `PreparedBeforeMotion` reads `StepsInv` and `ExperimentInv`, which are not inductive without the rest:
  an episode can only be READY or RUNNING by a request that names it, and `PlaceInv` says that no such
  request is looked at while a preparation is under way. `TopicFollows` needs that only a
  `begin_episode` that raised separates topic and controller, and that the handler then runs.
* `RequestsAnswered` proves `VerdictsAnswerRequests` of `HistorySpec`. Beside `CoreInv`, `HistoryInv` adds to it
  only types and that an automatic start needs the automatic mode: each step of the node leaves verdicts
  and history alone, gives the open episode the verdict that its caller is told in that very step, or
  judges it for a reason nobody asks for (`OwnSteps`, `EventSteps`). `NodeImplementsLedger` is the
  refinement of `VerdictLedger` by the whole node: `StepKinds` sorts its steps into those that leave
  the controller alone, fail the experiment, judge the episode, file it, or open the next one, and each
  kind is a step of the ledger by a lemma of `Controller_proofs`.
* `FailuresStop` and `MarkerIsTrue` rest on `RecordInv` and on the hypothesis
  `Candidates ∩ {ENV_ERROR, AGENT_ERROR} = {}`: an evaluator submits SUCCESS, FAILURE or TIMEOUT
  (`evaluation.py:104-163`), and one that submitted a component's failure would end an episode with it
  while the experiment goes on.
* `FinalizedMeansRecorded` needs `"recorder" ∉ Faults`: with failing writes it is false, since `stop()`
  and the handler go on when `finish` raises.

`Harness_proofs`, for any number of episodes, of faults and of watchdog steps, with or without late
snapshots. `Inv` is the type, the place of the worker against its phase (`WorkerInv`), the order of
what has been published (`PublishedInv`: nothing of a later episode, and RUNNING before the end),
what the two reset calls have achieved at each place (`CallInv`), by which snapshot a node runs
(`RunInv`), and `ObeysItsOwnRun`. The step that needs them all is a RUNNING snapshot taken late: it
must not set a node in motion whose episode is over (the guard's monotonicity, also the theorem
`NodesStopForGood`), nor one that a request which outlived its call has reset (such a request belongs
to an experiment that is stopping, and its episode never ran). `RobotObeysItsRun` and `BothWereReset`
follow.

`Evaluation_proofs`, for any length of the simulation and any time limit. `Good(e)` is what is true of
an evaluation object after each of its methods (one lemma for each: `StartedGood`, `ObservedGood`, …);
`StatesInv` and `ReportsInv` order what was published, `StartInv` ties the start to a RUNNING that the
observer has taken, `SubmissionInv` the submission to the candidate. `VerdictsAreJustified` reads
`CandidateInv`, and for a time-out `OpenInv`: while the evaluation runs, and after it timed out, every
sample is older than a reported success. `SuccessEndsInside` needs that no callback touches the samples once a candidate is
committed, whatever runs between candidate, decision and `finalize`; `MetricsAgree` that a committed
verdict is the candidate. `EvaluationTypeCorrect` contains a counting argument: at most one sample of each
time, because each is later than the one before and none is from before the start.

`ResetGuard_proofs`, for any calls, ids, contents and capacity. `Inv` adds to type and `MemoryBounded`
that what the dictionary holds is in flight or complete and that everything in flight is in it
(`RecordsInv`), that a complete record has an outcome (`CompleteInv`), and that a thread waits for a
record of its own content (`AwaitedInv`). `ExecutesOnce` holds because eviction takes only completed
records, and the dictionary has one record of an id; `ReplaysRightResult` because a thread keeps its
record and not its id. The lemmas on `RemoveAt` and on cardinalities are the rest.

`Results_proofs`, for any episodes, metrics, trajectories, texts and bounds. What a path *shows* is its
document and all that a power loss may bring back. `Inv` says: each is a document of its path
(`DiskInv`); the call in progress is a tail of its plan (`CallInv`), has done what it has behind it
(`ProgressInv`), and what the caller has been promised agrees with the buffers (`OpenInv`,
`PromiseInv`); wherever complete metrics show, trajectory and events show those of the call or nothing
(`FixedInv`); where a complete manifest shows, every episode is complete in memory and every summary
that shows lists all (`SealInv`); what is durable while the process runs (`DurableInv`); and the reader
has still to read what it has not yet compared (`ReaderInv`, `CopyInv`). The order of replacements is
what carries it: metrics may be replaced last because trajectory and events are then *settled*, so no
power loss can separate them; the reader reads metrics first because whatever it finds then is fixed.

* `ResultsTypeCorrect` and `MarkersAreTruthful` need no hypothesis on the file system:
  a reader never accepts a wrong result, even where a power loss may take a whole tree.
* `ImplementsJournal` assumes `EntriesSynced`, as the run does; without it the journal loses confirmed
  results (§2). `Replace` of complete metrics files a result, the sync after it confirms it, `Replace`
  of the manifest seals, the last sync of `finish(complete=True)` settles, `Crash` and `PowerLoss` are
  the journal's fall. Every other step is a stutter (`Quiet`).

`Readable_proofs` adds `InterruptedTreesAreReadable`: an interrupted run leaves a tree the reader
accepts, for any episodes, metrics, trajectories, texts and bounds. It is the promise of
`rh_experiment/README.md:41` as far as the code keeps it: not during `begin_episode`, where
`interrupted_run` refutes it, nor beside a temporary file or after a failed `finish(complete=True)`. `Inv` is about what a reader may conclude from what it finds, and allows any file to be missing;
`ReadableInv` beside it says what is there, and that it can be read:

* whatever shows at a path is a document the reader can parse (`DocumentsReadable`), because buffers and
  the call's arguments are (`InputsReadable`), and a result has as many samples as its metrics say
  (`ResultsAgree`);
* in a directory whose `start` or `begin_episode` has returned nothing is missing, not even after a power
  loss (`PresentInv`, and `PresentProgress` for the call on its way there), and an episode that has not
  been begun has no directory (`DirectoriesInv`);
* once all of them have returned, every summary that shows lists the episodes begun, in order
  (`ListedInv`). While `begin_episode` runs this is false, which is why `InterruptedReadable` waits for it;
* the metrics of an episode that memory holds for complete show as complete or not at all
  (`ConfirmedInv`); and beside a complete manifest, unless a `finish` has failed, every summary that shows
  is the one of all episodes (`MarkedInv`), because `finish` settles the summary before it writes the
  manifest (`SummaryFirst`) and nothing writes the summary after it (`MarkedLast`).

The rest is the reader's own reasoning: no episode is listed twice (`ListedOnce`, a counting argument on
the summary), the listing of `episodes` is what the summary lists, each entry agrees with the metrics it
names (`EpisodeAccepted`), and the counts by reason are cardinalities of the episodes with complete
metrics (`CountsAccepted`). Both hypotheses are needed, and TLC shows a counterexample without either:
`EntriesSynced`, or a power loss takes a whole directory; and `Texts \cap LineBreaking = {}`, or the
recorder writes an event the reader cannot parse (§2).

The invariants were checked by TLC on the instances of §3 before they were proved.

Only model-checked: every liveness property (fairness and ENABLED are outside the prover). Every
invariant and every action property or refinement of a passing run that is not liveness has a theorem.
The four runs with a counterexample have nothing to prove. `CtlInv`, `FinishedRanAll`,
`DecisionIsThere` and the invariants `Inv` and `ReadableInv` of the results are stated and proved without
a run of their own.

## 5. Plan

In order; all of it is done.

1. `Lifecycle`, `Controller` with `VerdictLedger`; `Orchestrator`; `ControlRequest` with
   `AtomicRequest`; `ResetGuard`; proofs about controller and control request.
2. `Evaluation`: the observer's callbacks, the submission of its candidate, finalization beside them.
3. `ResultTree`, `Recorder`, `Results` with `ResultJournal`: the files of a result, crashes, the reader.
4. `Harness`: orchestrator, Env and Agent over topics, guards, heartbeats and service calls.
5. Proofs of type, safety and refinement: `Orchestrator_proofs`, `Harness_proofs`,
   `Evaluation_proofs`, `ResetGuard_proofs`, `Results_proofs`.
6. The proof of `InterruptedReadable` in `Readable_proofs`, from `Inv` and an account of the
   summary's entries against the directories and metrics that show.

## 6. Not modelled

Configuration parsing, conversions, QoS, path escaping, message definitions and the PointNav task
definition are stateless or sequential validation; the bring-up module only wires; the Isaac extension
is glue to a simulator outside the repository; deployment and tools have no state of the system.
`PROJECT.json` gives the reason for each. Of the
fixtures, poses, odometry, transforms and the parsing of parameters are left out. Path length and distances of the evaluation are data
no modelled property distinguishes.

## 7. Running it

    tlc -workers 2 -config Controller.cfg Controller
    tlc -workers 2 -config MCOrchestrator.cfg RequestHistory
    tlc -workers 2 -config MCOrchestratorLive.cfg Orchestrator
    tlc -workers 2 -config ControlRequest.cfg ControlRequest
    tlc -workers 2 -config MCResetGuard.cfg MCResetGuard
    tlc -workers 2 -config Evaluation.cfg Evaluation
    tlc -workers 2 -config MCResults.cfg MCResults
    tlc -workers 2 -config Harness.cfg Harness
    tlapm Controller_proofs.tla
    tlapm ControlRequest_proofs.tla
    tlapm Orchestrator_proofs.tla
    tlapm Harness_proofs.tla
    tlapm Evaluation_proofs.tla
    tlapm ResetGuard_proofs.tla
    tlapm Results_proofs.tla
    tlapm Readable_proofs.tla

The four runs of the table of disagreements end with a counterexample:

    tlc -workers 2 -config RecorderKillsThread.cfg Orchestrator
    tlc -workers 2 -config InterruptedRun.cfg MCResults
    tlc -workers 2 -config MissedEnd.cfg Harness
    tlc -workers 2 -config ReportedSuccess.cfg Evaluation
