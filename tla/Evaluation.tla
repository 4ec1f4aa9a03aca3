----------------------------- MODULE Evaluation -----------------------------
(***************************************************************************)
(* The evaluator of simple navigation during one episode                   *)
(* (rh_eval_simple_navigation): the callbacks of SimpleNavigationObserver  *)
(* over SimpleNavigationEvaluation and TrajectorySampler, and finalize()   *)
(* called by the control thread.                                           *)
(*                                                                         *)
(* The callbacks exclude each other (they share the node's callback group) *)
(* and each holds the observer's lock; the lock is free between the        *)
(* section that commits a candidate, the one that claims its submission    *)
(* and the answer, and there the control thread may finalize.  A message   *)
(* may arrive late, again, or not at all; what was published of a topic    *)
(* stays in a log, and its sequence number is its place in the log.        *)
(*                                                                         *)
(* Time is simulation time in whole units; a position is inside or outside *)
(* of the success radius, so that a sample is its time and the path is the *)
(* sequence of samples.                                                    *)
(***************************************************************************)
EXTENDS Integers, Sequences

CONSTANTS MaxTime,        \* bound: simulation time stops here
          Timeout         \* timeout_s of the task

ASSUME TimesAssumption == MaxTime \in Nat /\ Timeout \in Nat \ {0}

VARIABLES now,            \* simulation time
          inside,         \* whether the robot is within the radius, at each time
          published,      \* the episode states published so far
          reports,        \* the agent task states published so far
          observer,       \* the observer's own fields
          evaluation,     \* SimpleNavigationEvaluation and its trajectory
          submission,     \* the candidate in the hands of the callback thread
          answer,         \* how the submission ended
          result,         \* what finalize() returned
          closed          \* the subscriptions are destroyed

vars == <<now, inside, published, reports, observer, evaluation, submission, answer,
          result, closed>>

None == -1

Times == 0..MaxTime
Verdicts == {"SUCCESS", "FAILURE", "TIMEOUT"}
Reasons == Verdicts \cup {"NONE", "ABORTED"}
TaskStates == {"IDLE", "RUNNING", "SUCCEEDED", "FAILED"}
EpisodeStates == {"PREPARING", "READY", "RUNNING", "TERMINATING", "FINISHED"}

EpisodeState == published[Len(published)].state
CommittedReason == published[Len(published)].reason
EpisodeEnded == EpisodeState \in {"TERMINATING", "FINISHED"}

(* A clock read in another callback or process lags by at most one unit.    *)
Recent == {t \in Times : t = now \/ t + 1 = now}

-----------------------------------------------------------------------------
(* SimpleNavigationEvaluation; an operation returns a candidate exactly     *)
(* when it commits one.                                                     *)

Prepared ==
  [running |-> FALSE, start |-> None, lastClock |-> None, elapsed |-> 0,
   candidate |-> "none", reason |-> "NONE", successTime |-> None, samples |-> << >>]

Started(e, t) ==
  IF e.running THEN e
  ELSE [e EXCEPT !.start = t, !.lastClock = t, !.elapsed = 0, !.running = TRUE]

InSegment(e, t) == e.running /\ t >= e.start

(* fault: the elapsed time follows a clock that lags *)
AdvancedToLatest(e, t) == [e EXCEPT !.elapsed = t - e.start]

Advanced(e, t) == [e EXCEPT !.elapsed = IF @ >= t - e.start THEN @ ELSE t - e.start]

(* fault: the evaluation runs on behind its candidate *)
CommittedRunning(e, reason) ==
  IF e.candidate # "none" THEN e ELSE [e EXCEPT !.candidate = reason, !.reason = reason]

(* _commit_candidate: one per segment, and the evaluation stops.            *)
Committed(e, reason) ==
  IF e.candidate # "none" THEN e
  ELSE [e EXCEPT !.candidate = reason, !.reason = reason, !.running = FALSE]

(* fault: a sample that is older than the last one is taken *)
NewerThanFirst(e, t) == e.samples = << >> \/ t > e.samples[1]

(* TrajectorySampler.observe takes strictly newer samples only.             *)
Newer(e, t) == e.samples = << >> \/ t > e.samples[Len(e.samples)]

LastSample(e) == IF e.samples = << >> THEN None ELSE e.samples[Len(e.samples)]

VerdictAt(t) == IF inside[t] THEN "SUCCESS" ELSE "FAILURE"

WithTimeout(e) == IF e.elapsed >= Timeout THEN Committed(e, "TIMEOUT") ELSE e

(* fault: any sample confirms the agent's success *)
ObservedAny(e, t) ==
  IF ~InSegment(e, t) \/ ~Newer(e, t) THEN e
  ELSE LET sampled == Advanced([e EXCEPT !.samples = Append(@, t)], t)
       IN  IF e.successTime # None THEN Committed(sampled, VerdictAt(t))
           ELSE WithTimeout(sampled)

(* observe_position *)
Observed(e, t) ==
  IF ~InSegment(e, t) \/ ~Newer(e, t) THEN e
  ELSE LET sampled == Advanced([e EXCEPT !.samples = Append(@, t)], t)
       IN  IF e.successTime # None /\ t >= e.successTime
             THEN Committed(sampled, VerdictAt(t))
             ELSE WithTimeout(sampled)

(* report_agent_succeeded: the last sample confirms when it is not older    *)
(* than the report; otherwise a sample to come does.                        *)
AgentSucceeded(e, t) ==
  IF ~InSegment(e, t) THEN e
  ELSE LET success == IF e.successTime = None THEN t ELSE e.successTime
           told == Advanced([e EXCEPT !.successTime = success], t)
       IN  IF LastSample(e) # None /\ LastSample(e) >= success
             THEN Committed(told, VerdictAt(LastSample(e)))
             ELSE told

AgentFailed(e, t) ==
  IF InSegment(e, t) THEN Committed(Advanced(e, t), "FAILURE") ELSE e

(* fault: the deadline itself does not time out *)
ClockAdvancedLate(e, t) ==
  IF ~e.running \/ t <= e.lastClock THEN e
  ELSE LET told == Advanced([e EXCEPT !.lastClock = t], t)
       IN  IF told.elapsed > Timeout THEN Committed(told, "TIMEOUT") ELSE told

(* advance_clock *)
ClockAdvanced(e, t) ==
  IF ~e.running \/ t <= e.lastClock THEN e
  ELSE WithTimeout(Advanced([e EXCEPT !.lastClock = t], t))

(* finish: the committed reason replaces the evaluation's own.              *)
Finished(e, reason, t) ==
  [(IF e.start # None THEN Advanced(e, t) ELSE e) EXCEPT
      !.reason = reason, !.running = FALSE]

-----------------------------------------------------------------------------
Init ==
  /\ now = 0
  /\ inside \in {[t \in Times |-> t = 0 /\ first] : first \in BOOLEAN}
  /\ published = <<[state |-> "PREPARING", reason |-> "NONE", stamp |-> 0]>>
  /\ reports = << >>
  /\ observer = [verified |-> FALSE, lastState |-> 0, lastReport |-> 0, pending |-> 0,
                 submitted |-> FALSE]
  /\ evaluation = Prepared
  /\ submission = [phase |-> "none", reason |-> "none"]
  /\ answer = "none"
  /\ result = [reason |-> "none", elapsed |-> 0, samples |-> << >>]
  /\ closed = FALSE

-----------------------------------------------------------------------------
(* The surroundings: the simulation, the controller, the agent (external)   *)

Tick ==
  /\ now < MaxTime
  /\ now' = now + 1
  /\ \E b \in BOOLEAN : inside' = [inside EXCEPT ![now + 1] = b]
  /\ UNCHANGED <<published, reports, observer, evaluation, submission, answer,
                 result, closed>>

Publish(state, reason, stamp) ==
  published' = Append(published, [state |-> state, reason |-> reason, stamp |-> stamp])

(* The components are reset and the task is out, then the episode runs.     *)
(* Nobody reads the stamp of READY.                                         *)
Proceed ==
  /\ \/ EpisodeState = "PREPARING" /\ reports # << >> /\ Publish("READY", "NONE", 0)
     \/ EpisodeState = "READY" /\ Publish("RUNNING", "NONE", now)
  /\ UNCHANGED <<now, inside, reports, observer, evaluation, submission, answer,
                 result, closed>>

(* A termination of other origin: an operator's abort stands for them all.  *)
Abort ==
  /\ ~EpisodeEnded
  /\ Publish("TERMINATING", "ABORTED", now)
  /\ UNCHANGED <<now, inside, reports, observer, evaluation, submission, answer,
                 result, closed>>

(* The agent publishes IDLE when it is reset, RUNNING when it starts, and   *)
(* one outcome, whose stamp is the only one that is read.                   *)
MayReport(state) ==
  CASE state = "IDLE"    -> EpisodeState = "PREPARING" /\ reports = << >>
    [] state = "RUNNING" -> EpisodeState = "RUNNING" /\ Len(reports) = 1
    [] OTHER             -> Len(reports) = 2

AgentReports(state) ==
  /\ MayReport(state)
  /\ \E t \in (IF state \in {"IDLE", "RUNNING"} THEN {0} ELSE Recent) :
       reports' = Append(reports, [state |-> state, stamp |-> t])
  /\ UNCHANGED <<now, inside, published, observer, evaluation, submission, answer,
                 result, closed>>

-----------------------------------------------------------------------------
(* The callbacks of SimpleNavigationObserver                                *)

CallbackFree == ~closed /\ submission.phase = "none"

(* A candidate the evaluation returned is taken out of the lock.            *)
Hand(e) ==
  /\ evaluation' = e
  /\ submission' = IF evaluation.candidate = "none" /\ e.candidate # "none"
                     THEN [phase |-> "returned", reason |-> e.candidate]
                     ELSE submission

Around == <<now, inside, published, reports, answer, result, closed>>

(* _on_task: the latched task is the expected one.                          *)
OnTask ==
  /\ CallbackFree
  /\ reports # << >>
  /\ observer' = [observer EXCEPT !.verified = TRUE]
  /\ UNCHANGED <<Around, evaluation, submission>>

(* _apply_agent_terminal_locked, for the pending report k (0: none)         *)
WithTerminal(e, k) ==
  IF k = 0 THEN e
  ELSE LET report == reports[k]
       IN  IF report.state = "SUCCEEDED" THEN AgentSucceeded(e, report.stamp)
           ELSE AgentFailed(e, report.stamp)

(* fault: a report that came before the start is forgotten *)
EnterForgetting(e, message) ==
  CASE message.state \in {"PREPARING", "READY"} -> Prepared
    [] message.state = "RUNNING" -> Started(e, message.stamp)
    [] OTHER -> Finished(e, message.reason, message.stamp)

(* What the evaluation does for an episode state; a report that came before *)
(* the start is applied with it.                                            *)
Enter(e, message) ==
  CASE message.state \in {"PREPARING", "READY"} -> Prepared
    [] message.state = "RUNNING" ->
         WithTerminal(Started(e, message.stamp), observer.pending)
    [] OTHER -> Finished(e, message.reason, message.stamp)

(* _on_state, for a snapshot newer than the last one seen                   *)
OnState(k) ==
  /\ CallbackFree
  /\ k \in DOMAIN published
  /\ k > observer.lastState
  /\ observer' = [observer EXCEPT
                    !.lastState = k,
                    !.submitted = @ /\ published[k].state \notin {"PREPARING", "READY"}]
  /\ Hand(Enter(evaluation, published[k]))
  /\ UNCHANGED Around

(* _on_agent_task_state, for a report newer than the last one seen          *)
OnReport(k) ==
  /\ CallbackFree
  /\ k \in DOMAIN reports
  /\ k > observer.lastReport
  /\ LET pending == IF reports[k].state \in {"IDLE", "RUNNING"} THEN 0 ELSE k
     IN  /\ observer' = [observer EXCEPT !.lastReport = k, !.pending = pending]
         /\ Hand(WithTerminal(evaluation, pending))
  /\ UNCHANGED Around

(* _on_odometry, a position measured at t                                   *)
OnOdometry(t) ==
  /\ CallbackFree
  /\ t <= now
  /\ observer.verified
  /\ Hand(Observed(evaluation, t))
  /\ UNCHANGED <<Around, observer>>

(* _on_clock *)
OnClock(t) ==
  /\ CallbackFree
  /\ t <= now
  /\ observer.verified
  /\ Hand(ClockAdvanced(evaluation, t))
  /\ UNCHANGED <<Around, observer>>

-----------------------------------------------------------------------------
(* _submit_candidate, still in the callback                                 *)

(* Only the first candidate since the preparation is submitted.             *)
Claim ==
  /\ submission.phase = "returned"
  /\ observer' = [observer EXCEPT !.submitted = TRUE]
  /\ submission' = IF observer.submitted THEN [phase |-> "none", reason |-> "none"]
                   ELSE [submission EXCEPT !.phase = "submitted"]
  /\ UNCHANGED <<Around, evaluation>>

Answered(how) ==
  /\ submission.phase = "submitted"
  /\ submission' = [phase |-> "none", reason |-> "none"]
  /\ answer' = how
  /\ UNCHANGED <<now, inside, reports, observer, evaluation, result, closed>>

(* The control thread commits the candidate, or refuses it when another     *)
(* termination came first.                                                  *)
Decide ==
  \/ /\ ~EpisodeEnded
     /\ Publish("TERMINATING", submission.reason, now)
     /\ Answered("accepted")
  \/ EpisodeEnded /\ UNCHANGED published /\ Answered("refused")

(* The control thread was busy for too long: the candidate is withdrawn,    *)
(* and nothing submits it again.                                            *)
SubmissionTimesOut ==
  /\ UNCHANGED published
  /\ Answered("timedOut")

-----------------------------------------------------------------------------
(* The control thread at the end of the episode                             *)

(* finalize(): the metrics and samples are copied under the lock.           *)
Finalize ==
  /\ EpisodeState = "TERMINATING"
  /\ result.reason = "none"
  /\ \E t \in Recent :
       LET e == Finished(evaluation, CommittedReason, t)
       IN  /\ evaluation' = e
           /\ result' = [reason |-> e.reason, elapsed |-> e.elapsed,
                         samples |-> e.samples]
  /\ UNCHANGED <<now, inside, published, reports, observer, submission, answer, closed>>

PublishFinished ==
  /\ EpisodeState = "TERMINATING"
  /\ result.reason # "none"
  /\ Publish("FINISHED", CommittedReason, now)
  /\ UNCHANGED <<now, inside, reports, observer, evaluation, submission, answer,
                 result, closed>>

(* close(): no callback begins any more; one that is under way ends.        *)
Close ==
  /\ EpisodeState = "FINISHED"
  /\ ~closed
  /\ closed' = TRUE
  /\ UNCHANGED <<now, inside, published, reports, observer, evaluation, submission,
                 answer, result>>

-----------------------------------------------------------------------------
Callback ==
  \/ OnTask
  \/ \E k \in DOMAIN published : OnState(k)
  \/ \E k \in DOMAIN reports : OnReport(k)
  \/ \E t \in Times : OnOdometry(t) \/ OnClock(t)

Next ==
  \/ Tick \/ Proceed \/ Abort
  \/ \E state \in TaskStates : AgentReports(state)
  \/ Callback
  \/ Claim \/ Decide \/ SubmissionTimesOut
  \/ Finalize \/ PublishFinished \/ Close

Spec == Init /\ [][Next]_vars

(* The latest message of a reliable topic arrives, and so does a clock that *)
(* is published periodically; the control thread answers.  Nothing is       *)
(* assumed of the progress of time, of odometry (best effort), of the agent *)
(* or of the operator.                                                      *)
Fairness ==
  /\ WF_vars(OnTask)
  /\ WF_vars(OnState(Len(published)))
  /\ WF_vars(OnReport(Len(reports)))
  /\ WF_vars(OnClock(now))
  /\ WF_vars(Claim)
  /\ WF_vars(Decide)

FairSpec == Spec /\ Fairness

-----------------------------------------------------------------------------
(* Properties                                                               *)

SampleTimes == UNION {[1..n -> Times] : n \in 0..(MaxTime + 1)}

EvalTypeOK ==
  /\ now \in Times
  /\ inside \in [Times -> BOOLEAN]
  /\ \A k \in DOMAIN published :
       published[k] \in [state : EpisodeStates, reason : Reasons, stamp : Times]
  /\ \A k \in DOMAIN reports : reports[k] \in [state : TaskStates, stamp : Times]
  /\ observer \in [verified : BOOLEAN, lastState : 0..Len(published),
                   lastReport : 0..Len(reports), pending : 0..observer.lastReport,
                   submitted : BOOLEAN]
  /\ evaluation \in [running : BOOLEAN, start : Times \cup {None},
                     lastClock : Times \cup {None}, elapsed : Times,
                     candidate : Verdicts \cup {"none"}, reason : Reasons,
                     successTime : Times \cup {None}, samples : SampleTimes]
  /\ submission \in [phase : {"none", "returned", "submitted"},
                     reason : Verdicts \cup {"none"}]
  /\ answer \in {"none", "accepted", "refused", "timedOut"}
  /\ result \in [reason : Reasons \cup {"none"}, elapsed : Times, samples : SampleTimes]
  /\ closed \in BOOLEAN

Reported(state, from) ==
  \E k \in DOMAIN reports : reports[k].state = state /\ reports[k].stamp >= from

(* The sampled times at or after t.                                         *)
SamplesFrom(t) ==
  {s \in Times : s >= t /\ \E i \in DOMAIN evaluation.samples : evaluation.samples[i] = s}

SuccessReports ==
  {k \in DOMAIN reports :
     reports[k].state = "SUCCEEDED" /\ reports[k].stamp >= evaluation.start}

(* A position at or after the agent's own report of success settles it so.  *)
Settled(outcome) ==
  \E k \in SuccessReports : \E s \in SamplesFrom(reports[k].stamp) : inside[s] = outcome

(* A verdict follows from what was published, however reports, positions,   *)
(* clocks and states overtake each other (_on_state, _on_agent_task_state,  *)
(* _on_odometry, report_agent_succeeded, observe_position): success, from a *)
(* report of it during the run and positions of which one no earlier than   *)
(* the report, and the final one, are inside of the radius; failure, from a *)
(* report of failure, or one of success with such a position outside; a     *)
(* time-out, from a clock that has reached the limit while no position      *)
(* could settle a reported success.  Which position decides when several    *)
(* are no earlier than the report, and whether a report that still waits    *)
(* for one excludes a time-out, is left to ReportedSuccessIsChecked.        *)
VerdictIsJustified ==
  /\ evaluation.candidate = "SUCCESS" =>
       Settled(TRUE) /\ inside[LastSample(evaluation)]
  /\ evaluation.candidate = "FAILURE" =>
       Settled(FALSE) \/ Reported("FAILED", evaluation.start)
  /\ evaluation.candidate = "TIMEOUT" =>
       /\ now - evaluation.start >= Timeout
       /\ evaluation.successTime # None => SamplesFrom(evaluation.successTime) = {}

(* An episode recorded as a success ends, in the recorded trajectory, with  *)
(* the robot inside of the radius: nothing is sampled between the candidate *)
(* and finalize(), whatever happens while the candidate is being decided.   *)
RecordedSuccessIsInside ==
  result.reason = "SUCCESS" =>
    /\ result.samples # << >>
    /\ inside[result.samples[Len(result.samples)]]

(* The recorded metrics agree with each other and with the episode: the     *)
(* reason is the committed one, the samples are in order and none is from   *)
(* before the run, the elapsed time covers them, and a time-out has taken   *)
(* its time (finish, _advance_elapsed, TrajectorySampler.observe).          *)
RecordedMetricsAgree ==
  result.reason # "none" =>
    /\ result.reason = CommittedReason
    /\ \A i, j \in DOMAIN result.samples : i < j => result.samples[i] < result.samples[j]
    /\ \A i \in DOMAIN result.samples :
         \E k \in DOMAIN published :
           /\ published[k].state = "RUNNING"
           /\ result.samples[i] \in published[k].stamp..(published[k].stamp + result.elapsed)
    /\ result.reason = "TIMEOUT" => result.elapsed >= Timeout

Unanswered == answer = "timedOut"

Due ==
  /\ EpisodeState = "RUNNING"
  /\ now - published[Len(published)].stamp >= Timeout

OutcomeReported ==
  /\ EpisodeState = "RUNNING"
  /\ \/ Reported("SUCCEEDED", published[Len(published)].stamp)
     \/ Reported("FAILED", published[Len(published)].stamp)

(* When the clock has reached the limit of a running episode, the episode   *)
(* ends, unless the one submission of the candidate went unanswered: then   *)
(* nothing else ends it (advance_clock, _submit_candidate).                 *)
DueEpisodeEnds == Due ~> (EpisodeEnded \/ Unanswered)

(* When the agent has reported an outcome during the run and positions go   *)
(* on arriving, the episode ends, even if the report overtakes the episode  *)
(* state and even if simulation time stands still; with the same exception  *)
(* (_apply_agent_terminal_locked, report_agent_succeeded).                  *)
ReportedEpisodeEnds ==
  WF_vars(OnOdometry(now)) => (OutcomeReported ~> (EpisodeEnded \/ Unanswered))

-----------------------------------------------------------------------------
(* What the documents say and the code does not do.                         *)

FirstSampleFrom(t) == CHOOSE s \in SamplesFrom(t) : \A u \in SamplesFrom(t) : s <= u

(* evaluators/simple_navigation/README.md:19-20: "An Agent SUCCEEDED result *)
(* is checked against the first ground-truth odometry sample at or after    *)
(* that result."  So no verdict falls over a reported success without such  *)
(* a sample, and the first of them decides.  (report_agent_succeeded takes  *)
(* the last sample it has when positions overtook the report; advance_clock *)
(* looks at the elapsed time alone, also while a reported success waits.)   *)
ReportedSuccessIsChecked ==
  evaluation.successTime # None /\ evaluation.candidate # "none" =>
    /\ SamplesFrom(evaluation.successTime) # {}
    /\ evaluation.candidate = VerdictAt(FirstSampleFrom(evaluation.successTime))
=============================================================================
