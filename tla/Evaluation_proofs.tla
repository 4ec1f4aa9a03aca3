------------------------- MODULE Evaluation_proofs -------------------------
(***************************************************************************)
(* What Evaluation.cfg checks for a short simulation, for every length of  *)
(* the simulation and every time limit.                                    *)
(***************************************************************************)
EXTENDS Evaluation, SequenceTheorems, TLAPS

StateRec == [state : EpisodeStates, reason : Reasons, stamp : Times]
ReportRec == [state : TaskStates, stamp : Times]

(* SimpleNavigationEvaluation without the bound on its samples.             *)
EvalRec ==
  [running : BOOLEAN, start : Times \cup {None}, lastClock : Times \cup {None},
   elapsed : Times, candidate : Verdicts \cup {"none"}, reason : Reasons,
   successTime : Times \cup {None}, samples : Seq(Times)]

-----------------------------------------------------------------------------
(* What is true of an evaluation e in a state of its surroundings, one part *)
(* for each idea.                                                           *)

(* Before it starts, nothing has happened to it.                            *)
Unstarted(e) ==
  e.start = None =>
    /\ e.running = FALSE /\ e.candidate = "none"
    /\ e.samples = << >> /\ e.successTime = None

(* The elapsed time has elapsed.                                            *)
ElapsedInv(e) == e.start # None => e.start + e.elapsed <= now

(* The samples are in order, and all from the elapsed time.                 *)
SamplesInv(e) ==
  /\ \A i \in DOMAIN e.samples :
       /\ e.start <= e.samples[i] /\ e.samples[i] <= e.start + e.elapsed
       /\ e.samples[i] >= i - 1
  /\ \A i, j \in DOMAIN e.samples : i < j => e.samples[i] < e.samples[j]

(* The time of success is the stamp of a report during the run.             *)
SuccessInv(e) ==
  e.successTime # None =>
    /\ e.successTime >= e.start
    /\ \E k \in DOMAIN reports :
         reports[k].state = "SUCCEEDED" /\ reports[k].stamp = e.successTime

(* A position inside, or outside, confirms the success the agent reported.  *)
ConfirmedFor(e, outcome) ==
  \E k \in DOMAIN reports :
    /\ reports[k].state = "SUCCEEDED"
    /\ reports[k].stamp >= e.start
    /\ LastSample(e) >= reports[k].stamp
    /\ inside[LastSample(e)] = outcome

Justifies(e, verdict) ==
  CASE verdict = "SUCCESS" -> ConfirmedFor(e, TRUE)
    [] verdict = "FAILURE" -> ConfirmedFor(e, FALSE) \/ Reported("FAILED", e.start)
    [] verdict = "TIMEOUT" -> e.elapsed >= Timeout
    [] OTHER               -> TRUE

(* There is no candidate without a reason, and the evaluation stops with it. *)
CandidateInv(e) ==
  /\ e.candidate # "none" => e.running = FALSE
  /\ Justifies(e, e.candidate)

Good(e) ==
  /\ e \in EvalRec
  /\ Unstarted(e) /\ ElapsedInv(e) /\ SamplesInv(e) /\ SuccessInv(e) /\ CandidateInv(e)

-----------------------------------------------------------------------------
(* The surroundings.                                                        *)

Rank(state) ==
  CASE state = "PREPARING"   -> 1
    [] state = "READY"       -> 2
    [] state = "RUNNING"     -> 3
    [] state = "TERMINATING" -> 4
    [] state = "FINISHED"    -> 5

(* Episode states come in order, and none has a reason before the end.      *)
StatesInv ==
  /\ published \in Seq(StateRec) /\ published # << >>
  /\ \A k \in DOMAIN published :
       /\ published[k].stamp <= now
       /\ published[k].state \notin {"TERMINATING", "FINISHED"} => published[k].reason = "NONE"
  /\ \A j, k \in DOMAIN published :
       j < k => Rank(published[j].state) < Rank(published[k].state)

ReportsInv ==
  /\ reports \in Seq(ReportRec)
  /\ \A k \in DOMAIN reports : reports[k].stamp <= now

ObserverInv ==
  /\ observer \in [verified : BOOLEAN, lastState : 0..Len(published),
                   lastReport : 0..Len(reports), pending : 0..Len(reports),
                   submitted : BOOLEAN]
  /\ observer.pending <= observer.lastReport
  /\ observer.pending # 0 => reports[observer.pending].state \in {"SUCCEEDED", "FAILED"}

(* A started evaluation has seen the episode run.                           *)
StartInv ==
  evaluation.start # None =>
    \E k \in DOMAIN published : /\ k <= observer.lastState
                                /\ published[k].state = "RUNNING"
                                /\ published[k].stamp = evaluation.start

(* What is submitted, and what the controller commits as a verdict, is the  *)
(* candidate.                                                               *)
SubmissionInv ==
  /\ submission \in [phase : {"none", "returned", "submitted"},
                     reason : Verdicts \cup {"none"}]
  /\ submission.phase # "none" =>
       submission.reason # "none" /\ submission.reason = evaluation.candidate
  /\ CommittedReason \in Verdicts => evaluation.candidate = CommittedReason

(* What finalize() returned is about the evaluation as it was.              *)
ResultInv ==
  /\ result \in [reason : Reasons \cup {"none"}, elapsed : Times, samples : Seq(Times)]
  /\ \A i \in DOMAIN result.samples : result.samples[i] <= now /\ result.samples[i] >= i - 1
  /\ result.reason # "none" => EpisodeEnded /\ result.reason = CommittedReason

SimulationInv ==
  /\ now \in Times /\ inside \in [Times -> BOOLEAN]
  /\ answer \in {"none", "accepted", "refused", "timedOut"} /\ closed \in BOOLEAN

Inv ==
  /\ SimulationInv /\ StatesInv /\ ReportsInv /\ ObserverInv
  /\ Good(evaluation) /\ StartInv /\ SubmissionInv
  /\ ResultInv /\ RecordedSuccessIsInside /\ RecordedMetricsAgree

-----------------------------------------------------------------------------
(* The operations of SimpleNavigationEvaluation.                            *)

LEMMA TimesFacts ==
  /\ \A t \in Times : t \in Int /\ 0 <= t /\ t <= MaxTime /\ t # None
  /\ MaxTime \in Nat /\ Timeout \in Nat /\ 0 \in Times
BY TimesAssumption DEF Times, None

LEMMA VerdictFacts ==
  "none" \notin Verdicts /\ \A v \in Verdicts : v \in Reasons /\ v # "NONE" /\ v # "ABORTED"
BY DEF Verdicts, Reasons

(* Advancing changes the elapsed time only, and covers t.                   *)
LEMMA AdvancedIs ==
  ASSUME NEW e \in EvalRec, e.start # None, NEW t \in Times
  PROVE  /\ Advanced(e, t) \in EvalRec
         /\ Advanced(e, t).elapsed >= e.elapsed
         /\ Advanced(e, t).elapsed >= t - e.start
         /\ Advanced(e, t).elapsed \in {e.elapsed, t - e.start}
         /\ Advanced(e, t).running = e.running
         /\ Advanced(e, t).start = e.start
         /\ Advanced(e, t).candidate = e.candidate
         /\ Advanced(e, t).successTime = e.successTime
         /\ Advanced(e, t).samples = e.samples
<1>1. e.start \in Times /\ e.elapsed \in Times
  BY DEF EvalRec
<1> DEFINE x == IF e.elapsed >= t - e.start THEN e.elapsed ELSE t - e.start
<1>2. /\ x \in Times /\ x >= e.elapsed /\ x >= t - e.start
      /\ x \in {e.elapsed, t - e.start}
  BY <1>1, TimesAssumption DEF Times
<1>3. Advanced(e, t) = [e EXCEPT !.elapsed = x]
  BY DEF Advanced
<1> HIDE DEF x
<1> QED BY <1>2, <1>3 DEF EvalRec

LEMMA AdvancedGood ==
  ASSUME NEW e, Good(e), e.start # None, NEW t \in Times, now \in Times, t <= now
  PROVE  Good(Advanced(e, t))
<1> DEFINE a == Advanced(e, t)
<1>1. /\ a \in EvalRec /\ a.elapsed >= e.elapsed /\ a.elapsed \in {e.elapsed, t - e.start}
      /\ a.running = e.running /\ a.start = e.start /\ a.candidate = e.candidate
      /\ a.successTime = e.successTime /\ a.samples = e.samples
  BY AdvancedIs DEF Good
<1> HIDE DEF a
<1>2. /\ e.start \in Int /\ e.elapsed \in Int /\ a.elapsed \in Int /\ t \in Int
      /\ now \in Int /\ Timeout \in Int
  BY <1>1, TimesFacts DEF Good, EvalRec
<1>3. \A i \in DOMAIN e.samples : e.samples[i] \in Int
  BY TimesFacts DEF Good, EvalRec
<1>4. ElapsedInv(a)
  BY <1>1, <1>2 DEF Good, ElapsedInv
<1>5. SamplesInv(a)
  BY <1>1, <1>2, <1>3 DEF Good, SamplesInv
<1>6. Justifies(a, a.candidate)
  BY <1>1, <1>2 DEF Good, CandidateInv, Justifies, ConfirmedFor, LastSample
<1>7. Good(a)
  BY <1>1, <1>4, <1>5, <1>6 DEF Good, Unstarted, SuccessInv, CandidateInv
<1> QED BY <1>7 DEF a

(* Committing a verdict that is justified.                                  *)
LEMMA CommittedGood ==
  ASSUME NEW e, Good(e), NEW v \in Verdicts, e.start # None, Justifies(e, v)
  PROVE  /\ Good(Committed(e, v))
         /\ Committed(e, v).start = e.start
<1>1. CASE e.candidate # "none"
  BY <1>1 DEF Committed
<1>2. CASE e.candidate = "none"
  <2> DEFINE c == [e EXCEPT !.candidate = v, !.reason = v, !.running = FALSE]
  <2>1. Committed(e, v) = c
    BY <1>2 DEF Committed
  <2>2. /\ v \in Verdicts \cup {"none"} /\ v \in Reasons /\ FALSE \in BOOLEAN
        /\ e \in EvalRec
    BY DEF Verdicts, Reasons, Good
  <2>3. /\ c \in EvalRec /\ c.start = e.start /\ c.elapsed = e.elapsed
        /\ c.candidate = v /\ c.running = FALSE
        /\ c.successTime = e.successTime /\ c.samples = e.samples
    BY <2>2 DEF EvalRec
  <2> HIDE DEF c
  <2>4. Justifies(c, v)
    BY <2>3 DEF Justifies, ConfirmedFor, LastSample
  <2>5. /\ Unstarted(c) /\ ElapsedInv(c) /\ SamplesInv(c) /\ SuccessInv(c)
    BY <2>3 DEF Good, Unstarted, ElapsedInv, SamplesInv, SuccessInv
  <2>6. CandidateInv(c)
    BY <2>3, <2>4 DEF CandidateInv
  <2> QED BY <2>1, <2>3, <2>5, <2>6 DEF Good
<1> QED BY <1>1, <1>2

LEMMA WithTimeoutGood ==
  ASSUME NEW e, Good(e), e.start # None
  PROVE  Good(WithTimeout(e)) /\ WithTimeout(e).start = e.start
<1>1. CASE e.elapsed >= Timeout
  <2>1. Justifies(e, "TIMEOUT") /\ "TIMEOUT" \in Verdicts
    BY <1>1 DEF Justifies, Verdicts
  <2> QED BY <1>1, <2>1, CommittedGood DEF WithTimeout
<1>2. CASE ~(e.elapsed >= Timeout)
  BY <1>2 DEF WithTimeout
<1> QED BY <1>1, <1>2

(* A running evaluation has started and has no candidate yet.               *)
LEMMA RunningFacts ==
  ASSUME NEW e, Good(e), e.running
  PROVE  e.start # None /\ e.start \in Times /\ e.candidate = "none" /\ e \in EvalRec
BY DEF Good, Unstarted, CandidateInv, EvalRec

LEMMA LastSampleFacts ==
  ASSUME NEW e \in EvalRec
  PROVE  /\ LastSample(e) # None => /\ e.samples # << >> /\ LastSample(e) \in Times
                                    /\ LastSample(e) = e.samples[Len(e.samples)]
         /\ e.samples # << >> => LastSample(e) \in Times
<1>1. e.samples # << >> => e.samples[Len(e.samples)] \in Times
  BY DEF EvalRec
<1> QED BY <1>1 DEF LastSample

LEMMA VerdictAtJustified ==
  ASSUME NEW e, inside \in [Times -> BOOLEAN], LastSample(e) \in Times,
         NEW k \in DOMAIN reports, reports[k].state = "SUCCEEDED",
         reports[k].stamp >= e.start, LastSample(e) >= reports[k].stamp
  PROVE  Justifies(e, VerdictAt(LastSample(e))) /\ VerdictAt(LastSample(e)) \in Verdicts
<1>1. inside[LastSample(e)] \in BOOLEAN
  OBVIOUS
<1>2. ConfirmedFor(e, inside[LastSample(e)])
  BY DEF ConfirmedFor
<1>3. CASE inside[LastSample(e)] = TRUE
  BY <1>2, <1>3 DEF VerdictAt, Justifies, Verdicts
<1>4. CASE inside[LastSample(e)] = FALSE
  BY <1>2, <1>4 DEF VerdictAt, Justifies, Verdicts
<1> QED BY <1>1, <1>3, <1>4

(* A newer sample is in order and in the elapsed time.                      *)
LEMMA SampledGood ==
  ASSUME NEW e, Good(e), NEW t \in Times, now \in Times, t <= now,
         InSegment(e, t), Newer(e, t)
  PROVE  LET s == Advanced([e EXCEPT !.samples = Append(@, t)], t)
         IN  /\ Good(s) /\ s.start = e.start /\ s.successTime = e.successTime
             /\ s.candidate = e.candidate /\ LastSample(s) = t
<1> DEFINE q == [e EXCEPT !.samples = Append(@, t)]
           s == Advanced(q, t)
           n == Len(e.samples)
<1>1. e \in EvalRec /\ e.running /\ e.start # None /\ e.candidate = "none" /\ t >= e.start
  BY RunningFacts DEF InSegment
<1>2. e.samples \in Seq(Times) /\ n \in Nat /\ e.start \in Times /\ e.elapsed \in Times
  BY <1>1 DEF EvalRec
<1>3. /\ Append(e.samples, t) \in Seq(Times)
      /\ Len(Append(e.samples, t)) = n + 1
      /\ \A i \in 1..n : Append(e.samples, t)[i] = e.samples[i]
      /\ Append(e.samples, t)[n + 1] = t
  BY <1>2, AppendProperties
<1>4. /\ q \in EvalRec /\ q.start = e.start /\ q.elapsed = e.elapsed /\ q.running = e.running
      /\ q.candidate = e.candidate /\ q.successTime = e.successTime
      /\ q.samples = Append(e.samples, t)
  BY <1>1, <1>3 DEF EvalRec
<1> HIDE DEF q
<1>5. /\ s \in EvalRec /\ s.elapsed >= e.elapsed /\ s.elapsed >= t - e.start
      /\ s.elapsed \in {e.elapsed, t - e.start} /\ s.running = e.running
      /\ s.start = e.start /\ s.candidate = e.candidate /\ s.successTime = e.successTime
      /\ s.samples = Append(e.samples, t)
  BY <1>1, <1>4, AdvancedIs
<1> HIDE DEF s
<1>6. s.elapsed \in Int /\ e.elapsed \in Int /\ e.start \in Int /\ t \in Int /\ t >= 0
      /\ now \in Int
  BY <1>2, <1>5, TimesFacts DEF EvalRec
<1>7. LastSample(s) = t
  BY <1>2, <1>3, <1>5 DEF LastSample
<1>8. \A i \in 1..n : e.samples[i] \in Int /\ e.samples[i] < t
  <2>1. ASSUME NEW i \in 1..n
        PROVE  e.samples[i] \in Int /\ e.samples[i] < t
    <3>1. e.samples[i] \in Times /\ e.samples[n] \in Times /\ e.samples # << >>
      BY <1>2
    <3>2. e.samples[n] < t
      BY <1>6, <3>1, TimesFacts DEF Newer
    <3>3. e.samples[i] \in Int /\ e.samples[n] \in Int
      BY <3>1, TimesFacts
    <3>4. i < n => e.samples[i] < e.samples[n]
      BY <1>2 DEF Good, SamplesInv
    <3>5. i = n \/ i < n
      BY <1>2
    <3> QED BY <1>6, <3>2, <3>3, <3>4, <3>5
  <2> QED BY <2>1
<1>9. SamplesInv(s)
  <2>1. DOMAIN s.samples = 1..(n + 1)
    BY <1>3, <1>5
  <2>2. ASSUME NEW i \in 1..(n + 1)
        PROVE  /\ s.start <= s.samples[i] /\ s.samples[i] <= s.start + s.elapsed
               /\ s.samples[i] >= i - 1
    <3>1. CASE i = n + 1
      <4>1. n > 0 => e.samples[n] \in Int /\ e.samples[n] >= n - 1 /\ e.samples[n] < t
        BY <1>2, <1>8 DEF Good, SamplesInv
      <4> QED BY SMTT(30), <1>1, <1>2, <1>3, <1>5, <1>6, <3>1, <4>1
    <3>2. CASE i \in 1..n
      <4>1. /\ e.start <= e.samples[i] /\ e.samples[i] <= e.start + e.elapsed
            /\ e.samples[i] >= i - 1 /\ e.samples[i] \in Int
        BY <1>2, <1>8, <3>2 DEF Good, SamplesInv
      <4> QED BY SMTT(30), <1>3, <1>5, <1>6, <3>2, <4>1
    <3> QED BY <1>2, <3>1, <3>2
  <2>3. ASSUME NEW i \in 1..(n + 1), NEW j \in 1..(n + 1), i < j
        PROVE  s.samples[i] < s.samples[j]
    <3>1. i \in 1..n
      BY <1>2, <2>3
    <3>2. CASE j = n + 1
      BY <1>3, <1>5, <1>8, <3>1, <3>2
    <3>3. CASE j \in 1..n
      BY <1>2, <1>3, <1>5, <2>3, <3>1, <3>3 DEF Good, SamplesInv
    <3> QED BY <1>2, <3>2, <3>3
  <2> QED BY <2>1, <2>2, <2>3 DEF SamplesInv
<1>10. ElapsedInv(s)
  BY <1>5, <1>6 DEF Good, ElapsedInv
<1>11. CandidateInv(s)
  BY <1>1, <1>5 DEF CandidateInv, Justifies
<1>12. Unstarted(s) /\ SuccessInv(s)
  BY <1>1, <1>5 DEF Good, Unstarted, SuccessInv
<1>13. Good(s)
  BY <1>5, <1>9, <1>10, <1>11, <1>12 DEF Good
<1> QED BY <1>5, <1>7, <1>13 DEF s, q

LEMMA ObservedGood ==
  ASSUME NEW e, Good(e), NEW t \in Times, now \in Times, t <= now,
         inside \in [Times -> BOOLEAN], ReportsInv
  PROVE  /\ Good(Observed(e, t)) /\ Observed(e, t).start = e.start
         /\ ~e.running => Observed(e, t) = e
<1>1. CASE ~InSegment(e, t) \/ ~Newer(e, t)
  BY <1>1 DEF Observed
<1>2. CASE InSegment(e, t) /\ Newer(e, t)
  <2> DEFINE s == Advanced([e EXCEPT !.samples = Append(@, t)], t)
  <2>1. /\ Good(s) /\ s.start = e.start /\ s.successTime = e.successTime
        /\ LastSample(s) = t
    BY <1>2, SampledGood
  <2>2. Observed(e, t) = IF e.successTime # None /\ t >= e.successTime
                           THEN Committed(s, VerdictAt(t)) ELSE WithTimeout(s)
    BY <1>2 DEF Observed
  <2> HIDE DEF s
  <2>3. e.running /\ e.start # None
    BY <1>2, RunningFacts DEF InSegment
  <2>4. CASE e.successTime # None /\ t >= e.successTime
    <3>1. PICK k \in DOMAIN reports :
            /\ reports[k].state = "SUCCEEDED" /\ reports[k].stamp = e.successTime
            /\ e.successTime >= e.start
      BY <2>4 DEF Good, SuccessInv
    <3>2. Justifies(s, VerdictAt(t)) /\ VerdictAt(t) \in Verdicts
      BY <2>1, <2>4, <3>1, VerdictAtJustified
    <3> QED BY <2>1, <2>2, <2>3, <2>4, <3>2, CommittedGood
  <2>5. CASE ~(e.successTime # None /\ t >= e.successTime)
    BY <2>1, <2>2, <2>3, <2>5, WithTimeoutGood
  <2> QED BY <2>3, <2>4, <2>5
<1> QED BY <1>1, <1>2

LEMMA AgentSucceededGood ==
  ASSUME NEW e, Good(e), NEW t \in Times, now \in Times, t <= now,
         inside \in [Times -> BOOLEAN], ReportsInv,
         NEW k \in DOMAIN reports, reports[k].state = "SUCCEEDED", reports[k].stamp = t
  PROVE  /\ Good(AgentSucceeded(e, t)) /\ AgentSucceeded(e, t).start = e.start
         /\ ~e.running => AgentSucceeded(e, t) = e
<1>1. CASE ~InSegment(e, t)
  BY <1>1 DEF AgentSucceeded, InSegment
<1>2. CASE InSegment(e, t)
  <2> DEFINE success == IF e.successTime = None THEN t ELSE e.successTime
             q == [e EXCEPT !.successTime = success]
             told == Advanced(q, t)
  <2>1. /\ e \in EvalRec /\ e.running /\ e.start # None /\ e.start \in Times
        /\ e.candidate = "none" /\ t >= e.start
    BY <1>2, RunningFacts DEF InSegment
  <2>2. AgentSucceeded(e, t) = IF LastSample(e) # None /\ LastSample(e) >= success
                                 THEN Committed(told, VerdictAt(LastSample(e))) ELSE told
    BY <1>2 DEF AgentSucceeded
  <2>3. PICK j \in DOMAIN reports :
          /\ reports[j].state = "SUCCEEDED" /\ reports[j].stamp = success
          /\ success >= e.start /\ success \in Times
    BY <2>1 DEF Good, SuccessInv, EvalRec
  <2>4. success # None
    BY <2>3, TimesFacts
  <2> HIDE DEF success
  <2>5. /\ q \in EvalRec /\ q.start = e.start /\ q.elapsed = e.elapsed
        /\ q.running = e.running /\ q.candidate = e.candidate
        /\ q.successTime = success /\ q.samples = e.samples
    BY <2>1, <2>3 DEF EvalRec
  <2> HIDE DEF q
  <2>6. Good(q)
    <3>1. Unstarted(q) /\ ElapsedInv(q) /\ SamplesInv(q)
      BY <2>1, <2>5 DEF Good, Unstarted, ElapsedInv, SamplesInv
    <3>2. SuccessInv(q)
      BY <2>3, <2>5 DEF SuccessInv
    <3>3. CandidateInv(q)
      BY <2>1, <2>5 DEF CandidateInv, Justifies
    <3> QED BY <2>5, <3>1, <3>2, <3>3 DEF Good
  <2>7. Good(told) /\ told.start = e.start /\ told.samples = e.samples
    BY <2>1, <2>5, <2>6, AdvancedGood, AdvancedIs
  <2> HIDE DEF told
  <2>8. CASE LastSample(e) # None /\ LastSample(e) >= success
    <3>1. LastSample(told) = LastSample(e) /\ LastSample(e) \in Times
      BY <2>1, <2>7, <2>8, LastSampleFacts DEF LastSample
    <3>2. /\ Justifies(told, VerdictAt(LastSample(e)))
          /\ VerdictAt(LastSample(e)) \in Verdicts
      BY <2>3, <2>7, <2>8, <3>1, VerdictAtJustified
    <3> QED BY <2>1, <2>2, <2>7, <2>8, <3>2, CommittedGood
  <2>9. CASE ~(LastSample(e) # None /\ LastSample(e) >= success)
    BY <2>1, <2>2, <2>7, <2>9
  <2> QED BY <2>8, <2>9
<1> QED BY <1>1, <1>2

LEMMA AgentFailedGood ==
  ASSUME NEW e, Good(e), NEW t \in Times, now \in Times, t <= now,
         NEW k \in DOMAIN reports, reports[k].state = "FAILED", reports[k].stamp = t
  PROVE  /\ Good(AgentFailed(e, t)) /\ AgentFailed(e, t).start = e.start
         /\ ~e.running => AgentFailed(e, t) = e
<1>1. CASE ~InSegment(e, t)
  BY <1>1 DEF AgentFailed, InSegment
<1>2. CASE InSegment(e, t)
  <2>1. e \in EvalRec /\ e.running /\ e.start # None /\ t >= e.start
    BY <1>2, RunningFacts DEF InSegment
  <2>2. Good(Advanced(e, t)) /\ Advanced(e, t).start = e.start
    BY <2>1, AdvancedGood, AdvancedIs
  <2>3. Justifies(Advanced(e, t), "FAILURE") /\ "FAILURE" \in Verdicts
    BY <2>1, <2>2 DEF Justifies, Reported, Verdicts
  <2> QED BY <1>2, <2>1, <2>2, <2>3, CommittedGood DEF AgentFailed
<1> QED BY <1>1, <1>2

LEMMA ClockAdvancedGood ==
  ASSUME NEW e, Good(e), NEW t \in Times, now \in Times, t <= now
  PROVE  /\ Good(ClockAdvanced(e, t)) /\ ClockAdvanced(e, t).start = e.start
         /\ ~e.running => ClockAdvanced(e, t) = e
<1>1. CASE ~e.running \/ t <= e.lastClock
  BY <1>1 DEF ClockAdvanced
<1>2. CASE ~(~e.running \/ t <= e.lastClock)
  <2> DEFINE q == [e EXCEPT !.lastClock = t]
  <2>1. e \in EvalRec /\ e.running /\ e.start # None /\ e.candidate = "none"
    BY <1>2, RunningFacts
  <2>2. /\ q \in EvalRec /\ q.start = e.start /\ q.elapsed = e.elapsed
        /\ q.running = e.running /\ q.candidate = e.candidate
        /\ q.successTime = e.successTime /\ q.samples = e.samples
    BY <2>1 DEF EvalRec
  <2>3. ClockAdvanced(e, t) = WithTimeout(Advanced(q, t))
    BY <1>2 DEF ClockAdvanced
  <2> HIDE DEF q
  <2>4. Good(q)
    BY <2>1, <2>2 DEF Good, Unstarted, ElapsedInv, SamplesInv, SuccessInv, CandidateInv,
      Justifies
  <2>5. Good(Advanced(q, t)) /\ Advanced(q, t).start = e.start
    BY <2>1, <2>2, <2>4, AdvancedGood, AdvancedIs
  <2> QED BY <2>1, <2>3, <2>5, WithTimeoutGood
<1> QED BY <1>1, <1>2

(* At the end: the reason changes, the samples and the candidate do not.    *)
LEMMA FinishedGood ==
  ASSUME NEW e, Good(e), NEW t \in Times, now \in Times, t <= now, NEW r \in Reasons
  PROVE  /\ Good(Finished(e, r, t))
         /\ Finished(e, r, t).start = e.start
         /\ Finished(e, r, t).candidate = e.candidate
         /\ Finished(e, r, t).samples = e.samples
         /\ Finished(e, r, t).successTime = e.successTime
         /\ Finished(e, r, t).running = FALSE
         /\ Finished(e, r, t).reason = r
<1> DEFINE a == IF e.start # None THEN Advanced(e, t) ELSE e
           f == [a EXCEPT !.reason = r, !.running = FALSE]
<1>1. /\ Good(a) /\ a.start = e.start /\ a.candidate = e.candidate /\ a.samples = e.samples
      /\ a.successTime = e.successTime
  BY AdvancedGood, AdvancedIs DEF Good
<1>2. Finished(e, r, t) = f
  BY DEF Finished
<1> HIDE DEF a
<1>3. a \in EvalRec /\ FALSE \in BOOLEAN
  BY <1>1 DEF Good
<1>4. /\ f \in EvalRec /\ f.start = a.start /\ f.elapsed = a.elapsed
      /\ f.running = FALSE /\ f.candidate = a.candidate /\ f.reason = r
      /\ f.successTime = a.successTime /\ f.samples = a.samples
  BY <1>3 DEF EvalRec
<1> HIDE DEF f
<1>5. Justifies(f, f.candidate)
  BY <1>1, <1>4 DEF Good, CandidateInv, Justifies, ConfirmedFor, LastSample
<1>6. Good(f)
  BY <1>1, <1>4, <1>5 DEF Good, Unstarted, ElapsedInv, SamplesInv, SuccessInv, CandidateInv
<1> QED BY <1>1, <1>2, <1>4, <1>6

LEMMA StartedGood ==
  ASSUME NEW e, Good(e), e.start = None, NEW t \in Times, now \in Times, t <= now
  PROVE  Good(Started(e, t)) /\ Started(e, t).start = t /\ Started(e, t).candidate = "none"
<1> DEFINE s == [e EXCEPT !.start = t, !.lastClock = t, !.elapsed = 0, !.running = TRUE]
<1>1. /\ e \in EvalRec /\ e.running = FALSE /\ e.candidate = "none"
      /\ e.samples = << >> /\ e.successTime = None
  BY DEF Good, Unstarted
<1>2. TRUE \in BOOLEAN /\ 0 \in Times /\ t # None
  BY TimesFacts
<1>3. /\ s \in EvalRec /\ s.start = t /\ s.elapsed = 0 /\ s.running = TRUE
      /\ s.candidate = e.candidate /\ s.successTime = e.successTime /\ s.samples = e.samples
  BY <1>1, <1>2 DEF EvalRec
<1>4. Started(e, t) = s
  BY <1>1 DEF Started
<1> HIDE DEF s
<1>5. ElapsedInv(s)
  BY <1>3, TimesFacts DEF ElapsedInv
<1>6. SamplesInv(s)
  BY <1>1, <1>3 DEF SamplesInv
<1> QED BY <1>1, <1>2, <1>3, <1>4, <1>5, <1>6
      DEF Good, Unstarted, SuccessInv, CandidateInv, Justifies

LEMMA PreparedGood == Good(Prepared) /\ Prepared.start = None /\ Prepared.candidate = "none"
<1>1. /\ FALSE \in BOOLEAN /\ 0 \in Times /\ "NONE" \in Reasons /\ << >> \in Seq(Times)
  BY TimesFacts DEF Reasons
<1>2. Prepared \in EvalRec
  BY <1>1 DEF Prepared, EvalRec
<1>3. /\ Prepared.start = None /\ Prepared.running = FALSE /\ Prepared.candidate = "none"
      /\ Prepared.samples = << >> /\ Prepared.successTime = None
  BY DEF Prepared
<1> QED BY <1>2, <1>3
      DEF Good, Unstarted, ElapsedInv, SamplesInv, SuccessInv, CandidateInv, Justifies

LEMMA ReportFacts ==
  ASSUME ReportsInv, NEW k \in DOMAIN reports
  PROVE  /\ reports[k].state \in TaskStates /\ reports[k].stamp \in Times
         /\ reports[k].stamp <= now /\ reports[k] \in ReportRec
<1>1. reports[k] \in ReportRec
  BY DEF ReportsInv
<1> QED BY <1>1 DEF ReportRec, ReportsInv

LEMMA StateFacts ==
  ASSUME StatesInv, NEW k \in DOMAIN published
  PROVE  /\ published[k].state \in EpisodeStates /\ published[k].reason \in Reasons
         /\ published[k].stamp \in Times /\ published[k].stamp <= now
         /\ published[k] \in StateRec
<1>1. published[k] \in StateRec
  BY DEF StatesInv
<1> QED BY <1>1 DEF StateRec, StatesInv

LEMMA WithTerminalGood ==
  ASSUME NEW e, Good(e), ReportsInv, now \in Times, inside \in [Times -> BOOLEAN], NEW k,
         k # 0 => k \in DOMAIN reports /\ reports[k].state \in {"SUCCEEDED", "FAILED"}
  PROVE  /\ Good(WithTerminal(e, k)) /\ WithTerminal(e, k).start = e.start
         /\ ~e.running => WithTerminal(e, k) = e
<1>1. CASE k = 0
  BY <1>1 DEF WithTerminal
<1>2. CASE k # 0
  <2>1. reports[k].stamp \in Times /\ reports[k].stamp <= now
    BY <1>2, ReportFacts
  <2>2. CASE reports[k].state = "SUCCEEDED"
    BY <1>2, <2>1, <2>2, AgentSucceededGood DEF WithTerminal
  <2>3. CASE reports[k].state = "FAILED"
    BY <1>2, <2>1, <2>3, AgentFailedGood DEF WithTerminal
  <2> QED BY <1>2, <2>2, <2>3
<1> QED BY <1>1, <1>2

-----------------------------------------------------------------------------
(* A message is added to a log.                                             *)

LEMMA RankFacts ==
  /\ \A s \in EpisodeStates : Rank(s) \in Nat
  /\ Rank("PREPARING") = 1 /\ Rank("READY") = 2 /\ Rank("RUNNING") = 3
  /\ Rank("TERMINATING") = 4 /\ Rank("FINISHED") = 5
BY DEF Rank, EpisodeStates

LEMMA LatestState ==
  ASSUME StatesInv
  PROVE  /\ Len(published) \in DOMAIN published /\ Len(published) \in Nat
         /\ EpisodeState \in EpisodeStates /\ CommittedReason \in Reasons
         /\ ~EpisodeEnded => CommittedReason = "NONE"
<1>1. Len(published) \in DOMAIN published /\ Len(published) \in Nat
  BY DEF StatesInv
<1>2. EpisodeState \in EpisodeStates /\ CommittedReason \in Reasons
  BY <1>1, StateFacts DEF EpisodeState, CommittedReason
<1>3. ~EpisodeEnded => CommittedReason = "NONE"
  BY <1>1 DEF StatesInv, EpisodeState, CommittedReason, EpisodeEnded
<1> QED BY <1>1, <1>2, <1>3

LEMMA Published ==
  ASSUME StatesInv, NEW state \in EpisodeStates, NEW reason \in Reasons, NEW stamp \in Times,
         Publish(state, reason, stamp), now \in Times, now' = now, stamp <= now,
         Rank(EpisodeState) < Rank(state),
         state \notin {"TERMINATING", "FINISHED"} => reason = "NONE"
  PROVE  /\ StatesInv' /\ EpisodeState' = state /\ CommittedReason' = reason
         /\ Len(published') = Len(published) + 1
         /\ \A k \in DOMAIN published : k \in DOMAIN published' /\ published'[k] = published[k]
<1> DEFINE m == [state |-> state, reason |-> reason, stamp |-> stamp]
           n == Len(published)
<1>1. /\ m \in StateRec /\ m.state = state /\ m.reason = reason /\ m.stamp = stamp
      /\ published' = Append(published, m)
  BY DEF StateRec, Publish
<1> HIDE DEF m
<1>2. published \in Seq(StateRec) /\ n \in Nat \ {0} /\ DOMAIN published = 1..n
  BY DEF StatesInv
<1>3. /\ published' \in Seq(StateRec) /\ published' # << >> /\ Len(published') = n + 1
      /\ \A k \in 1..n : published'[k] = published[k]
      /\ published'[n + 1] = m /\ DOMAIN published' = 1..(n + 1)
  BY <1>1, <1>2, AppendProperties
<1>4. EpisodeState' = state /\ CommittedReason' = reason
  BY <1>1, <1>3 DEF EpisodeState, CommittedReason
<1>5. ASSUME NEW k \in DOMAIN published'
      PROVE  /\ published'[k].stamp <= now'
             /\ published'[k].state \notin {"TERMINATING", "FINISHED"}
                  => published'[k].reason = "NONE"
  <2>1. CASE k = n + 1
    BY <1>1, <1>3, <2>1
  <2>2. CASE k \in 1..n
    BY <1>2, <1>3, <2>2 DEF StatesInv
  <2> QED BY <1>2, <1>3, <2>1, <2>2
<1>6. ASSUME NEW j \in DOMAIN published', NEW k \in DOMAIN published', j < k
      PROVE  Rank(published'[j].state) < Rank(published'[k].state)
  <2>1. j \in 1..n /\ published'[j] = published[j]
    BY <1>2, <1>3, <1>6
  <2>2. CASE k \in 1..n
    BY <1>2, <1>3, <1>6, <2>1, <2>2 DEF StatesInv
  <2>3. CASE k = n + 1
    <3>1. /\ Rank(published[j].state) \in Nat /\ Rank(published[n].state) \in Nat
          /\ Rank(state) \in Nat
      <4>1. n \in DOMAIN published /\ j \in DOMAIN published
        BY <1>2, <2>1
      <4> QED BY <4>1, StateFacts, RankFacts
    <3>2. j < n => Rank(published[j].state) < Rank(published[n].state)
      BY <1>2, <2>1 DEF StatesInv
    <3>3. j = n \/ j < n
      BY <1>2, <2>1
    <3>4. Rank(published[n].state) < Rank(state)
      BY DEF EpisodeState
    <3>5. Rank(published[j].state) < Rank(state)
      BY <3>1, <3>2, <3>3, <3>4
    <3> QED BY <1>1, <1>3, <2>1, <2>3, <3>5
  <2> QED BY <1>2, <1>3, <2>2, <2>3
<1>7. StatesInv'
  BY <1>3, <1>5, <1>6 DEF StatesInv
<1> QED BY <1>2, <1>3, <1>4, <1>7

-----------------------------------------------------------------------------
(* The surroundings take a step: time goes on, logs grow.                   *)
LEMMA SurroundingsPreserve ==
  ASSUME Inv, UNCHANGED <<evaluation, result, observer>>,
         SimulationInv', now <= now', \A t \in Times : t <= now => inside'[t] = inside[t],
         StatesInv', ReportsInv', SubmissionInv',
         Len(published) <= Len(published'), Len(reports) <= Len(reports'),
         \A k \in DOMAIN published : k \in DOMAIN published' /\ published'[k] = published[k],
         \A k \in DOMAIN reports : k \in DOMAIN reports' /\ reports'[k] = reports[k],
         result.reason # "none" => EpisodeEnded' /\ CommittedReason' = CommittedReason
  PROVE  Inv'
<1>1. now \in Int /\ now' \in Int /\ now \in Times
  BY TimesFacts DEF Inv, SimulationInv
<1>2. ObserverInv'
  <2>1. /\ Len(published) \in Nat /\ Len(published') \in Nat
        /\ Len(reports) \in Nat /\ Len(reports') \in Nat
        /\ DOMAIN reports = 1..Len(reports)
    BY DEF Inv, StatesInv, ReportsInv
  <2>2. 0..Len(published) \subseteq 0..Len(published') /\ 0..Len(reports) \subseteq 0..Len(reports')
    BY <2>1
  <2>3. observer' \in [verified : BOOLEAN, lastState : 0..Len(published'),
                       lastReport : 0..Len(reports'), pending : 0..Len(reports'),
                       submitted : BOOLEAN]
    BY <2>2 DEF Inv, ObserverInv
  <2>4. observer.pending # 0 => observer.pending \in DOMAIN reports
    BY <2>1 DEF Inv, ObserverInv
  <2> QED BY <2>3, <2>4 DEF Inv, ObserverInv
<1>3. Good(evaluation)'
  <2>1. /\ evaluation \in EvalRec /\ Unstarted(evaluation) /\ ElapsedInv(evaluation)
        /\ SamplesInv(evaluation) /\ SuccessInv(evaluation) /\ CandidateInv(evaluation)
    BY DEF Inv, Good
  <2>2. ElapsedInv(evaluation)'
    <3>1. evaluation.start # None => evaluation.start \in Int /\ evaluation.elapsed \in Int
      BY <2>1, TimesFacts DEF EvalRec
    <3> QED BY <1>1, <2>1, <3>1 DEF ElapsedInv
  <2>3. /\ evaluation' \in EvalRec /\ Unstarted(evaluation)' /\ SamplesInv(evaluation)'
        /\ SuccessInv(evaluation)'
    BY <2>1 DEF Unstarted, SamplesInv, SuccessInv
  <2>4. ASSUME NEW outcome, ConfirmedFor(evaluation, outcome)
        PROVE  ConfirmedFor(evaluation, outcome)'
    <3>1. PICK k \in DOMAIN reports :
            /\ reports[k].state = "SUCCEEDED" /\ reports[k].stamp >= evaluation.start
            /\ LastSample(evaluation) >= reports[k].stamp
            /\ inside[LastSample(evaluation)] = outcome
      BY <2>4 DEF ConfirmedFor
    <3>2. reports[k].stamp \in Int /\ reports[k].stamp >= 0
      BY TimesFacts, ReportFacts DEF Inv
    <3>3. LastSample(evaluation) # None
      BY <3>1, <3>2 DEF None
    <3>4. /\ LastSample(evaluation) \in Times /\ evaluation.samples # << >>
          /\ LastSample(evaluation) = evaluation.samples[Len(evaluation.samples)]
      BY <2>1, <3>3, LastSampleFacts
    <3>5. Len(evaluation.samples) \in DOMAIN evaluation.samples
      BY <2>1, <3>4 DEF EvalRec
    <3>6. evaluation.start # None
      BY <2>1, <3>4 DEF Unstarted
    <3>7. LastSample(evaluation) <= now
      <4>1. /\ LastSample(evaluation) <= evaluation.start + evaluation.elapsed
            /\ evaluation.start + evaluation.elapsed <= now
        BY <2>1, <3>4, <3>5, <3>6 DEF SamplesInv, ElapsedInv
      <4>2. /\ LastSample(evaluation) \in Int /\ evaluation.start \in Int
            /\ evaluation.elapsed \in Int
        BY <2>1, <3>4, <3>6, TimesFacts DEF EvalRec
      <4> QED BY <1>1, <4>1, <4>2
    <3>8. inside'[LastSample(evaluation)] = outcome
      BY <3>1, <3>4, <3>7
    <3> QED BY <3>1, <3>8 DEF ConfirmedFor, LastSample
  <2>5. Reported("FAILED", evaluation.start) => Reported("FAILED", evaluation.start)'
    BY DEF Reported
  <2>6. CandidateInv(evaluation)'
    <3>1. evaluation.candidate = "SUCCESS" => ConfirmedFor(evaluation, TRUE)'
      BY <2>1, <2>4 DEF CandidateInv, Justifies
    <3>2. evaluation.candidate = "FAILURE" =>
            ConfirmedFor(evaluation, FALSE)' \/ Reported("FAILED", evaluation.start)'
      BY <2>1, <2>4, <2>5 DEF CandidateInv, Justifies
    <3>3. evaluation.candidate = "TIMEOUT" => evaluation.elapsed >= Timeout
      BY <2>1 DEF CandidateInv, Justifies
    <3>4. Justifies(evaluation, evaluation.candidate)'
      BY <3>1, <3>2, <3>3 DEF Justifies, ConfirmedFor, Reported, LastSample
    <3> QED BY <2>1, <3>4 DEF CandidateInv
  <2> QED BY <2>2, <2>3, <2>6 DEF Good
<1>4. StartInv'
  BY DEF Inv, StartInv
<1>5. ResultInv'
  <2>1. \A i \in DOMAIN result.samples : result.samples[i] \in Int
    BY TimesFacts DEF Inv, ResultInv
  <2> QED BY <1>1, <2>1 DEF Inv, ResultInv
<1>6. RecordedSuccessIsInside'
  <2> SUFFICES ASSUME result.reason = "SUCCESS"
               PROVE  /\ result.samples # << >>
                      /\ inside'[result.samples[Len(result.samples)]]
    BY DEF RecordedSuccessIsInside
  <2>1. /\ result.samples # << >> /\ inside[result.samples[Len(result.samples)]]
        /\ result.samples \in Seq(Times)
    BY DEF Inv, RecordedSuccessIsInside, ResultInv
  <2>2. /\ Len(result.samples) \in DOMAIN result.samples
        /\ result.samples[Len(result.samples)] \in Times
    BY <2>1
  <2>3. result.samples[Len(result.samples)] <= now
    BY <2>2 DEF Inv, ResultInv
  <2> QED BY <2>1, <2>2, <2>3
<1>7. RecordedMetricsAgree'
  <2>1. result.reason # "none" => CommittedReason' = CommittedReason
    OBVIOUS
  <2> QED BY <2>1 DEF Inv, RecordedMetricsAgree
<1> QED BY <1>2, <1>3, <1>4, <1>5, <1>6, <1>7 DEF Inv

LEMMA SurroundingsSteps ==
  ASSUME Inv,
         \/ Tick \/ Proceed \/ Abort \/ \E state \in TaskStates : AgentReports(state)
         \/ Decide \/ PublishFinished
  PROVE  Inv'
<1>1. /\ now \in Times /\ now \in Int /\ inside \in [Times -> BOOLEAN] /\ 0 \in Times
      /\ 0 <= now /\ MaxTime \in Nat
  BY TimesFacts DEF Inv, SimulationInv
<1>2. /\ StatesInv /\ ReportsInv /\ SubmissionInv
      /\ Len(published) \in Nat /\ Len(reports) \in Nat
  BY LatestState DEF Inv, ReportsInv
<1>3. \A k \in DOMAIN published : k \in DOMAIN published /\ published[k] = published[k]
  OBVIOUS
<1>4. result.reason # "none" => EpisodeEnded
  BY DEF Inv, ResultInv
<1>5. CASE Tick
  <2>1. /\ now < MaxTime /\ now' = now + 1
        /\ UNCHANGED <<published, reports, observer, evaluation, submission, answer,
                       result, closed>>
    BY <1>5 DEF Tick
  <2>2. PICK b \in BOOLEAN : inside' = [inside EXCEPT ![now + 1] = b]
    BY <1>5 DEF Tick
  <2>3. now' \in Times /\ now <= now'
    BY <1>1, <2>1 DEF Times
  <2>4. inside' \in [Times -> BOOLEAN] /\ \A t \in Times : t <= now => inside'[t] = inside[t]
    <3>1. inside' \in [Times -> BOOLEAN]
      BY <1>1, <2>2
    <3>2. ASSUME NEW t \in Times, t <= now
          PROVE  inside'[t] = inside[t]
      <4>1. t # now + 1
        BY <1>1, <3>2, TimesFacts
      <4> QED BY <1>1, <2>2, <4>1
    <3> QED BY <3>1, <3>2
  <2>5. SimulationInv'
    BY <2>1, <2>3, <2>4 DEF Inv, SimulationInv
  <2>6. StatesInv'
    <3>1. \A k \in DOMAIN published : published[k].stamp \in Int /\ published[k].stamp <= now
      BY <1>2, StateFacts, TimesFacts
    <3> QED BY <1>1, <1>2, <2>1, <3>1 DEF StatesInv
  <2>7. ReportsInv'
    <3>1. \A k \in DOMAIN reports : reports[k].stamp \in Int /\ reports[k].stamp <= now
      BY <1>2, ReportFacts, TimesFacts
    <3> QED BY <1>1, <1>2, <2>1, <3>1 DEF ReportsInv
  <2>8. /\ SubmissionInv' /\ CommittedReason' = CommittedReason
        /\ EpisodeEnded' = EpisodeEnded
    BY <1>2, <2>1 DEF SubmissionInv, CommittedReason, EpisodeEnded, EpisodeState
  <2> QED BY <1>2, <1>4, <2>1, <2>3, <2>4, <2>5, <2>6, <2>7, <2>8, SurroundingsPreserve
<1>6. ASSUME NEW state \in EpisodeStates, NEW reason \in Reasons, NEW stamp \in Times,
             Publish(state, reason, stamp), stamp <= now,
             Rank(EpisodeState) < Rank(state),
             state \notin {"TERMINATING", "FINISHED"} => reason = "NONE",
             UNCHANGED <<now, inside, reports, observer, evaluation, result, closed>>,
             answer' \in {"none", "accepted", "refused", "timedOut"},
             submission' = submission \/ submission' = [phase |-> "none", reason |-> "none"],
             reason \in Verdicts => evaluation.candidate = reason,
             result.reason # "none" =>
               state \in {"TERMINATING", "FINISHED"} /\ reason = CommittedReason
      PROVE  Inv'
  <2>1. /\ StatesInv' /\ EpisodeState' = state /\ CommittedReason' = reason
        /\ Len(published') = Len(published) + 1
        /\ \A k \in DOMAIN published : k \in DOMAIN published' /\ published'[k] = published[k]
    BY <1>1, <1>2, <1>6, Published
  <2>2. SimulationInv' /\ ReportsInv'
    BY <1>6 DEF Inv, SimulationInv, ReportsInv
  <2>3. submission' \in [phase : {"none", "returned", "submitted"},
                         reason : Verdicts \cup {"none"}]
        /\ (submission'.phase # "none" => submission' = submission)
    BY <1>2, <1>6 DEF SubmissionInv
  <2>4. SubmissionInv'
    BY <1>2, <1>6, <2>1, <2>3 DEF SubmissionInv
  <2>5. result.reason # "none" => EpisodeEnded' /\ CommittedReason' = CommittedReason
    BY <1>6, <2>1 DEF EpisodeEnded
  <2>6. now <= now' /\ \A t \in Times : t <= now => inside'[t] = inside[t]
    BY <1>1, <1>6
  <2>7. /\ Len(published) <= Len(published') /\ Len(reports) <= Len(reports')
        /\ \A k \in DOMAIN reports : k \in DOMAIN reports' /\ reports'[k] = reports[k]
    BY <1>2, <1>6, <2>1
  <2> QED BY <1>6, <2>1, <2>2, <2>4, <2>5, <2>6, <2>7, SurroundingsPreserve
<1>7. \A s \in {"READY", "RUNNING", "TERMINATING", "FINISHED"} : s \in EpisodeStates
  BY DEF EpisodeStates
<1>8. /\ "NONE" \in Reasons /\ "ABORTED" \in Reasons
      /\ "NONE" \notin Verdicts /\ "ABORTED" \notin Verdicts
      /\ \A v \in Verdicts : v \in Reasons
  BY DEF Reasons, Verdicts
<1>9. answer \in {"none", "accepted", "refused", "timedOut"}
  BY DEF Inv, SimulationInv
<1>10. EpisodeState \in EpisodeStates /\ CommittedReason \in Reasons
  BY <1>2, LatestState
<1>11. ~EpisodeEnded => Rank(EpisodeState) < Rank("TERMINATING")
  BY <1>10, RankFacts DEF EpisodeEnded, EpisodeStates
<1>12. CASE Proceed
  <2>1. /\ UNCHANGED <<now, inside, reports, observer, evaluation, submission, answer,
                       result, closed>>
        /\ result.reason = "none"
    BY <1>4, <1>12 DEF Proceed, EpisodeEnded
  <2>2. CASE EpisodeState = "PREPARING" /\ Publish("READY", "NONE", 0)
    <3>1. Rank(EpisodeState) < Rank("READY")
      BY <2>2, RankFacts
    <3> QED BY <1>1, <1>6, <1>7, <1>8, <1>9, <2>1, <2>2, <3>1
  <2>3. CASE EpisodeState = "READY" /\ Publish("RUNNING", "NONE", now)
    <3>1. Rank(EpisodeState) < Rank("RUNNING")
      BY <2>3, RankFacts
    <3> QED BY <1>1, <1>6, <1>7, <1>8, <1>9, <2>1, <2>3, <3>1
  <2> QED BY <1>12, <2>2, <2>3 DEF Proceed
<1>13. CASE Abort
  <2>1. /\ UNCHANGED <<now, inside, reports, observer, evaluation, submission, answer,
                       result, closed>>
        /\ result.reason = "none" /\ Publish("TERMINATING", "ABORTED", now)
        /\ Rank(EpisodeState) < Rank("TERMINATING")
    BY <1>4, <1>11, <1>13 DEF Abort
  <2> QED BY <1>1, <1>6, <1>7, <1>8, <1>9, <2>1
<1>14. CASE PublishFinished
  <2>1. /\ UNCHANGED <<now, inside, reports, observer, evaluation, submission, answer,
                       result, closed>>
        /\ Publish("FINISHED", CommittedReason, now)
        /\ Rank(EpisodeState) < Rank("FINISHED")
    BY <1>14, RankFacts DEF PublishFinished
  <2>2. CommittedReason \in Verdicts => evaluation.candidate = CommittedReason
    BY <1>2 DEF SubmissionInv
  <2> QED BY <1>1, <1>6, <1>7, <1>9, <1>10, <2>1, <2>2
<1>15. CASE Decide /\ ~EpisodeEnded
  <2>1. /\ Publish("TERMINATING", submission.reason, now) /\ submission.phase = "submitted"
        /\ submission' = [phase |-> "none", reason |-> "none"] /\ answer' = "accepted"
        /\ UNCHANGED <<now, inside, reports, observer, evaluation, result, closed>>
        /\ result.reason = "none" /\ Rank(EpisodeState) < Rank("TERMINATING")
    BY <1>4, <1>11, <1>15 DEF Decide, Answered
  <2>2. /\ submission.reason \in Verdicts /\ evaluation.candidate = submission.reason
        /\ submission.reason \in Reasons
    BY <1>2, <1>8, <2>1 DEF SubmissionInv
  <2> QED BY <1>1, <1>6, <1>7, <2>1, <2>2
<1>16. CASE Decide /\ EpisodeEnded
  <2>1. /\ submission' = [phase |-> "none", reason |-> "none"] /\ answer' = "refused"
        /\ UNCHANGED <<now, inside, published, reports, observer, evaluation, result, closed>>
    BY <1>16 DEF Decide, Answered
  <2>2. SimulationInv' /\ StatesInv' /\ ReportsInv'
    BY <2>1 DEF Inv, SimulationInv, StatesInv, ReportsInv
  <2>3. /\ CommittedReason' = CommittedReason /\ EpisodeEnded' = EpisodeEnded
    BY <2>1 DEF CommittedReason, EpisodeEnded, EpisodeState
  <2>4. SubmissionInv'
    BY <1>2, <2>1, <2>3 DEF SubmissionInv
  <2> QED BY <1>1, <1>2, <1>3, <1>16, <2>1, <2>2, <2>3, <2>4, SurroundingsPreserve
<1>17. ASSUME NEW state \in TaskStates, AgentReports(state)
       PROVE  Inv'
  <2>1. PICK t \in (IF state \in {"IDLE", "RUNNING"} THEN {0} ELSE Recent) :
          reports' = Append(reports, [state |-> state, stamp |-> t])
    BY <1>17 DEF AgentReports
  <2>2. t \in Times /\ t <= now
    BY <1>1, <2>1, TimesFacts DEF Recent
  <2> DEFINE m == [state |-> state, stamp |-> t]
             n == Len(reports)
  <2>3. m \in ReportRec /\ m.stamp = t
    BY <2>2 DEF ReportRec
  <2> HIDE DEF m
  <2>4. /\ reports' \in Seq(ReportRec) /\ Len(reports') = n + 1
        /\ \A k \in 1..n : reports'[k] = reports[k]
        /\ reports'[n + 1] = m /\ DOMAIN reports' = 1..(n + 1) /\ DOMAIN reports = 1..n
        /\ n \in Nat
    <3>1. reports \in Seq(ReportRec) /\ reports' = Append(reports, m)
      BY <1>2, <2>1 DEF ReportsInv, m
    <3> QED BY <2>3, <3>1, AppendProperties
  <2>5. UNCHANGED <<now, inside, published, observer, evaluation, submission, answer,
                    result, closed>>
    BY <1>17 DEF AgentReports
  <2>6. ReportsInv'
    <3>1. ASSUME NEW k \in 1..(n + 1)
          PROVE  reports'[k].stamp <= now
      <4>1. CASE k = n + 1
        BY <2>2, <2>3, <2>4, <4>1
      <4>2. CASE k \in 1..n
        BY <1>2, <2>4, <4>2 DEF ReportsInv
      <4> QED BY <2>4, <4>1, <4>2
    <3> QED BY <2>4, <2>5, <3>1 DEF ReportsInv
  <2>7. SimulationInv' /\ StatesInv'
    BY <2>5 DEF Inv, SimulationInv, StatesInv
  <2>8. /\ CommittedReason' = CommittedReason /\ EpisodeEnded' = EpisodeEnded
        /\ SubmissionInv'
    BY <1>2, <2>5 DEF SubmissionInv, CommittedReason, EpisodeEnded, EpisodeState
  <2>9. \A k \in DOMAIN reports : k \in DOMAIN reports' /\ reports'[k] = reports[k]
    BY <2>4
  <2>10. /\ now <= now' /\ \A t0 \in Times : t0 <= now => inside'[t0] = inside[t0]
         /\ Len(published) <= Len(published') /\ Len(reports) <= Len(reports')
    BY <1>1, <1>2, <2>4, <2>5
  <2>11. \A k \in DOMAIN published : k \in DOMAIN published' /\ published'[k] = published[k]
    BY <2>5
  <2> QED BY <1>4, <2>5, <2>6, <2>7, <2>8, <2>9, <2>10, <2>11, SurroundingsPreserve
<1> QED BY <1>5, <1>12, <1>13, <1>14, <1>15, <1>16, <1>17

-----------------------------------------------------------------------------
(* The observer and the control thread take a step: the simulation and the  *)
(* logs stay as they are.                                                   *)

(* What finalize() returned stays true.                                     *)
LEMMA ResultStays ==
  ASSUME Inv, UNCHANGED <<now, inside, published, result>>
  PROVE  ResultInv' /\ RecordedSuccessIsInside' /\ RecordedMetricsAgree'
<1>1. EpisodeEnded' = EpisodeEnded /\ CommittedReason' = CommittedReason
  BY DEF EpisodeEnded, CommittedReason, EpisodeState
<1>2. ResultInv'
  BY <1>1 DEF Inv, ResultInv
<1>3. RecordedSuccessIsInside'
  BY DEF Inv, RecordedSuccessIsInside
<1>4. RecordedMetricsAgree'
  BY <1>1 DEF Inv, RecordedMetricsAgree
<1> QED BY <1>2, <1>3, <1>4

LEMMA GoodCarries ==
  ASSUME NEW e, Good(e), evaluation' = e, UNCHANGED <<now, inside, reports>>
  PROVE  Good(evaluation)'
<1>1. /\ Unstarted(evaluation)' /\ ElapsedInv(evaluation)' /\ SamplesInv(evaluation)'
      /\ SuccessInv(evaluation)' /\ evaluation' \in EvalRec
  BY DEF Good, Unstarted, ElapsedInv, SamplesInv, SuccessInv
<1>2. CandidateInv(evaluation)'
  BY DEF Good, CandidateInv, Justifies, ConfirmedFor, Reported, LastSample
<1> QED BY <1>1, <1>2 DEF Good

LEMMA BookkeepingPreserves ==
  ASSUME Inv, UNCHANGED <<now, inside, published, reports, evaluation, result>>,
         SimulationInv', ObserverInv', SubmissionInv',
         observer'.lastState = observer.lastState
  PROVE  Inv'
<1>1. StatesInv' /\ ReportsInv' /\ StartInv'
  BY DEF Inv, StatesInv, ReportsInv, StartInv
<1>2. Good(evaluation)'
  BY GoodCarries DEF Inv
<1> QED BY <1>1, <1>2, ResultStays DEF Inv

(* An operation's outcome e is stored, and a candidate it commits is taken  *)
(* to be submitted.                                                         *)
LEMMA HandedPreserves ==
  ASSUME Inv, NEW e, Good(e), Hand(e), submission.phase = "none", UNCHANGED Around,
         evaluation.candidate # "none" => e.candidate = evaluation.candidate,
         ObserverInv',
         e.start # None =>
           \E k \in DOMAIN published : /\ k <= observer'.lastState
                                       /\ published[k].state = "RUNNING"
                                       /\ published[k].stamp = e.start
  PROVE  Inv'
<1>1. evaluation' = e /\ UNCHANGED <<now, inside, published, reports, answer, result, closed>>
  BY DEF Hand, Around
<1>2. SimulationInv' /\ StatesInv' /\ ReportsInv' /\ StartInv'
  BY <1>1 DEF Inv, SimulationInv, StatesInv, ReportsInv, StartInv
<1>3. Good(evaluation)'
  BY <1>1, GoodCarries
<1>4. SubmissionInv'
  <2>1. /\ e.candidate \in Verdicts \cup {"none"}
        /\ evaluation.candidate \in Verdicts \cup {"none"}
    BY DEF Inv, Good, EvalRec
  <2>2. CommittedReason' = CommittedReason /\ SubmissionInv
    BY <1>1 DEF CommittedReason, Inv
  <2>3. CASE evaluation.candidate = "none" /\ e.candidate # "none"
    <3> DEFINE s == [phase |-> "returned", reason |-> e.candidate]
    <3>1. submission' = s
      BY <2>3 DEF Hand
    <3>2. s \in [phase : {"none", "returned", "submitted"}, reason : Verdicts \cup {"none"}]
          /\ s.reason = e.candidate
      BY <2>1
    <3>3. CommittedReason \notin Verdicts
      BY <2>2, <2>3, VerdictFacts DEF SubmissionInv
    <3> QED BY <1>1, <2>2, <2>3, <3>1, <3>2, <3>3 DEF SubmissionInv
  <2>4. CASE ~(evaluation.candidate = "none" /\ e.candidate # "none")
    <3>1. submission' = submission /\ e.candidate = evaluation.candidate
      BY <2>4 DEF Hand
    <3> QED BY <1>1, <2>2, <3>1 DEF SubmissionInv
  <2> QED BY <2>3, <2>4
<1> QED BY <1>1, <1>2, <1>3, <1>4, ResultStays DEF Inv

(* An operation on an evaluation that does not run changes nothing, so that *)
(* a candidate stays.                                                       *)
LEMMA KeptPreserves ==
  ASSUME Inv, NEW e, Good(e), Hand(e), submission.phase = "none", UNCHANGED Around,
         e.start = evaluation.start, ~evaluation.running => e = evaluation,
         ObserverInv', observer.lastState <= observer'.lastState
  PROVE  Inv'
<1>1. evaluation.candidate # "none" => e.candidate = evaluation.candidate
  BY DEF Inv, Good, CandidateInv
<1>2. ASSUME e.start # None
      PROVE  \E k \in DOMAIN published : /\ k <= observer'.lastState
                                         /\ published[k].state = "RUNNING"
                                         /\ published[k].stamp = e.start
  <2>1. PICK k \in DOMAIN published : /\ k <= observer.lastState
                                      /\ published[k].state = "RUNNING"
                                      /\ published[k].stamp = e.start
    BY <1>2 DEF Inv, StartInv
  <2>2. k \in Int /\ observer.lastState \in Int /\ observer'.lastState \in Int
    <3>1. Len(published) \in Int /\ Len(published') \in Int /\ DOMAIN published = 1..Len(published)
      BY DEF Inv, StatesInv, Around
    <3> QED BY <3>1 DEF Inv, ObserverInv
  <2> QED BY <2>1, <2>2
<1> QED BY <1>1, <1>2, HandedPreserves

(* A started evaluation has seen the run; the states to come end it.        *)
LEMMA RunsOnce ==
  ASSUME Inv, NEW k \in DOMAIN published, k > observer.lastState, evaluation.start # None
  PROVE  published[k].state \in {"TERMINATING", "FINISHED"}
<1>1. StatesInv /\ ObserverInv /\ StartInv
  BY DEF Inv
<1>2. Len(published) \in Nat /\ k \in 1..Len(published)
  BY <1>1 DEF StatesInv
<1>3. PICK j \in DOMAIN published : j <= observer.lastState /\ published[j].state = "RUNNING"
  BY <1>1 DEF StartInv
<1>4. j < k
  <2>1. j \in Int /\ observer.lastState \in Int /\ k \in Int
    BY <1>1, <1>2 DEF ObserverInv, StatesInv
  <2> QED BY <1>3, <2>1
<1>5. Rank(published[j].state) < Rank(published[k].state)
  BY <1>1, <1>4 DEF StatesInv
<1>6. published[k].state \in EpisodeStates
  BY <1>1, StateFacts
<1> QED BY <1>3, <1>5, <1>6, RankFacts DEF EpisodeStates

LEMMA OnStatePreserves ==
  ASSUME Inv, NEW k \in DOMAIN published, OnState(k)
  PROVE  Inv'
<1> DEFINE message == published[k]
           e == Enter(evaluation, message)
<1>1. /\ submission.phase = "none" /\ k > observer.lastState /\ Hand(e) /\ UNCHANGED Around
      /\ observer' = [observer EXCEPT
                        !.lastState = k,
                        !.submitted = @ /\ published[k].state \notin {"PREPARING", "READY"}]
  BY DEF OnState, CallbackFree
<1>2. /\ StatesInv /\ ReportsInv /\ ObserverInv /\ StartInv /\ Good(evaluation)
      /\ now \in Times /\ inside \in [Times -> BOOLEAN]
  BY DEF Inv, SimulationInv
<1>3. Len(published) \in Nat /\ k \in 1..Len(published) /\ Len(reports) \in Nat
      /\ DOMAIN reports = 1..Len(reports)
  BY <1>2 DEF StatesInv, ReportsInv
<1>4. ObserverInv' /\ observer'.lastState = k
  <2>1. /\ observer \in [verified : BOOLEAN, lastState : 0..Len(published),
                         lastReport : 0..Len(reports), pending : 0..Len(reports),
                         submitted : BOOLEAN]
        /\ k \in 0..Len(published)
    BY <1>2, <1>3 DEF ObserverInv
  <2>2. (observer.submitted /\ published[k].state \notin {"PREPARING", "READY"}) \in BOOLEAN
    BY <2>1
  <2>3. /\ observer' \in [verified : BOOLEAN, lastState : 0..Len(published),
                          lastReport : 0..Len(reports), pending : 0..Len(reports),
                          submitted : BOOLEAN]
        /\ observer'.lastState = k /\ observer'.pending = observer.pending
        /\ observer'.lastReport = observer.lastReport
    BY <1>1, <2>1, <2>2
  <2> QED BY <1>1, <1>2, <2>3 DEF ObserverInv, Around
<1>5. /\ message.state \in EpisodeStates /\ message.reason \in Reasons
      /\ message.stamp \in Times /\ message.stamp <= now
  BY <1>2, StateFacts
<1>6. evaluation.start # None => message.state \in {"TERMINATING", "FINISHED"}
  BY <1>1, RunsOnce
<1>7. observer.pending # 0 =>
        /\ observer.pending \in DOMAIN reports
        /\ reports[observer.pending].state \in {"SUCCEEDED", "FAILED"}
  BY <1>2, <1>3 DEF ObserverInv
<1>8. CASE message.state \in {"PREPARING", "READY"}
  <2>1. e = Prepared /\ evaluation.start = None
    BY <1>6, <1>8 DEF Enter
  <2>2. evaluation.candidate = "none"
    BY <1>2, <2>1 DEF Good, Unstarted
  <2> HIDE DEF e
  <2> QED BY <1>1, <1>4, <2>1, <2>2, PreparedGood, HandedPreserves
<1>9. CASE message.state = "RUNNING"
  <2> DEFINE s == Started(evaluation, message.stamp)
  <2>1. e = WithTerminal(s, observer.pending) /\ evaluation.start = None
    BY <1>6, <1>9 DEF Enter
  <2>2. Good(s) /\ s.start = message.stamp
    BY <1>2, <1>5, <2>1, StartedGood
  <2> HIDE DEF s
  <2>3. Good(e) /\ e.start = message.stamp
    BY <1>2, <1>7, <2>1, <2>2, WithTerminalGood
  <2>4. evaluation.candidate = "none"
    BY <1>2, <2>1 DEF Good, Unstarted
  <2>5. k <= observer'.lastState
    BY <1>3, <1>4
  <2> HIDE DEF e
  <2> QED BY <1>1, <1>4, <1>9, <2>3, <2>4, <2>5, HandedPreserves
<1>10. CASE message.state \in {"TERMINATING", "FINISHED"}
  <2>1. e = Finished(evaluation, message.reason, message.stamp)
    BY <1>10 DEF Enter
  <2>2. Good(e) /\ e.start = evaluation.start /\ e.candidate = evaluation.candidate
    <3> DEFINE r == message.reason
               t == message.stamp
    <3>1. Good(evaluation) /\ r \in Reasons /\ t \in Times /\ now \in Times /\ t <= now
      BY <1>2, <1>5
    <3>2. e = Finished(evaluation, r, t)
      BY <2>1
    <3> HIDE DEF e, r, t
    <3>3. /\ Good(Finished(evaluation, r, t))
          /\ Finished(evaluation, r, t).start = evaluation.start
          /\ Finished(evaluation, r, t).candidate = evaluation.candidate
      BY <3>1, FinishedGood
    <3> QED BY <3>2, <3>3
  <2> HIDE DEF e
  <2>3. ASSUME e.start # None
        PROVE  \E j \in DOMAIN published : /\ j <= observer'.lastState
                                           /\ published[j].state = "RUNNING"
                                           /\ published[j].stamp = e.start
    <3>1. PICK j \in DOMAIN published : /\ j <= observer.lastState
                                        /\ published[j].state = "RUNNING"
                                        /\ published[j].stamp = e.start
      BY <1>2, <2>2, <2>3 DEF StartInv
    <3>2. j \in Int /\ observer.lastState \in Int /\ k \in Int
      BY <1>2, <1>3 DEF ObserverInv, StatesInv
    <3>3. j <= k
      BY <1>1, <3>1, <3>2
    <3> QED BY <1>4, <3>1, <3>3
  <2> QED BY <1>1, <1>4, <2>2, <2>3, HandedPreserves
<1> QED BY <1>5, <1>8, <1>9, <1>10 DEF EpisodeStates

LEMMA CallbacksPreserve ==
  ASSUME Inv, Callback
  PROVE  Inv'
<1>1. /\ ReportsInv /\ ObserverInv /\ Good(evaluation)
      /\ now \in Times /\ inside \in [Times -> BOOLEAN]
  BY DEF Inv, SimulationInv
<1>2. Len(reports) \in Nat /\ DOMAIN reports = 1..Len(reports) /\ Len(published) \in Nat
  BY <1>1 DEF ReportsInv, Inv, StatesInv
<1>3. observer \in [verified : BOOLEAN, lastState : 0..Len(published),
                    lastReport : 0..Len(reports), pending : 0..Len(reports),
                    submitted : BOOLEAN]
  BY <1>1 DEF ObserverInv
<1>4. observer.lastState <= observer.lastState
  BY <1>2, <1>3
<1>5. CASE OnTask
  <2>1. /\ observer' = [observer EXCEPT !.verified = TRUE]
        /\ UNCHANGED <<now, inside, published, reports, answer, result, closed,
                       evaluation, submission>>
    BY <1>5 DEF OnTask, Around
  <2>2. /\ observer' \in [verified : BOOLEAN, lastState : 0..Len(published),
                          lastReport : 0..Len(reports), pending : 0..Len(reports),
                          submitted : BOOLEAN]
        /\ observer'.lastState = observer.lastState /\ observer'.pending = observer.pending
        /\ observer'.lastReport = observer.lastReport
    BY <1>3, <2>1
  <2>3. ObserverInv'
    BY <1>1, <2>1, <2>2 DEF ObserverInv
  <2>4. SimulationInv' /\ SubmissionInv'
    BY <2>1 DEF Inv, SimulationInv, SubmissionInv, CommittedReason
  <2> QED BY <2>1, <2>2, <2>3, <2>4, BookkeepingPreserves
<1>6. ASSUME NEW k \in DOMAIN reports, OnReport(k)
      PROVE  Inv'
  <2> DEFINE pending == IF reports[k].state \in {"IDLE", "RUNNING"} THEN 0 ELSE k
             e == WithTerminal(evaluation, pending)
  <2>1. /\ submission.phase = "none" /\ UNCHANGED Around /\ Hand(e)
        /\ observer' = [observer EXCEPT !.lastReport = k, !.pending = pending]
    BY <1>6 DEF OnReport, CallbackFree
  <2>2. /\ pending \in 0..Len(reports) /\ k \in 0..Len(reports) /\ pending <= k
        /\ pending # 0 => pending \in DOMAIN reports
    BY <1>2
  <2>3. pending # 0 => reports[pending].state \in {"SUCCEEDED", "FAILED"}
    BY <1>1, ReportFacts DEF TaskStates
  <2> HIDE DEF pending
  <2>4. /\ observer' \in [verified : BOOLEAN, lastState : 0..Len(published),
                          lastReport : 0..Len(reports), pending : 0..Len(reports),
                          submitted : BOOLEAN]
        /\ observer'.lastState = observer.lastState /\ observer'.pending = pending
        /\ observer'.lastReport = k
    BY <1>3, <2>1, <2>2
  <2>5. ObserverInv'
    BY <2>1, <2>2, <2>3, <2>4 DEF ObserverInv, Around
  <2>6. Good(e) /\ e.start = evaluation.start /\ (~evaluation.running => e = evaluation)
    BY <1>1, <2>2, <2>3, WithTerminalGood
  <2> HIDE DEF e
  <2> QED BY <1>4, <2>1, <2>4, <2>5, <2>6, KeptPreserves
<1>7. ASSUME NEW e, Good(e), e.start = evaluation.start, ~evaluation.running => e = evaluation,
             CallbackFree, Hand(e), UNCHANGED <<Around, observer>>
      PROVE  Inv'
  <2>1. ObserverInv'
    BY <1>1, <1>7 DEF ObserverInv, Around
  <2> QED BY <1>4, <1>7, <2>1, KeptPreserves DEF CallbackFree
<1>8. ASSUME NEW t \in Times, OnOdometry(t)
      PROVE  Inv'
  BY <1>1, <1>7, <1>8, ObservedGood DEF OnOdometry
<1>9. ASSUME NEW t \in Times, OnClock(t)
      PROVE  Inv'
  BY <1>1, <1>7, <1>9, ClockAdvancedGood DEF OnClock
<1> QED BY <1>5, <1>6, <1>8, <1>9, OnStatePreserves DEF Callback

LEMMA SubmissionSteps ==
  ASSUME Inv, Claim \/ SubmissionTimesOut \/ Close \/ UNCHANGED vars
  PROVE  Inv'
<1>1. SimulationInv /\ ObserverInv /\ SubmissionInv /\ reports \in Seq(ReportRec)
  BY DEF Inv, ReportsInv
<1>2. [phase |-> "none", reason |-> "none"] \in
        [phase : {"none", "returned", "submitted"}, reason : Verdicts \cup {"none"}]
  OBVIOUS
<1>3. CASE Claim
  <2>1. /\ observer' = [observer EXCEPT !.submitted = TRUE]
        /\ UNCHANGED <<now, inside, published, reports, answer, result, closed, evaluation>>
    BY <1>3 DEF Claim, Around
  <2>2. /\ observer' \in [verified : BOOLEAN, lastState : 0..Len(published),
                          lastReport : 0..Len(reports), pending : 0..Len(reports),
                          submitted : BOOLEAN]
        /\ observer'.lastState = observer.lastState /\ observer'.pending = observer.pending
        /\ observer'.lastReport = observer.lastReport
    BY <1>1, <2>1 DEF ObserverInv
  <2>3. ObserverInv' /\ SimulationInv'
    BY <1>1, <2>1, <2>2 DEF ObserverInv, SimulationInv
  <2>4. /\ submission' \in [phase : {"none", "returned", "submitted"},
                            reason : Verdicts \cup {"none"}]
        /\ submission'.phase # "none" =>
             submission.phase # "none" /\ submission'.reason = submission.reason
    <3>1. CASE observer.submitted
      BY <1>2, <1>3, <3>1 DEF Claim
    <3>2. CASE ~observer.submitted
      BY <1>1, <1>3, <3>2 DEF Claim, SubmissionInv
    <3> QED BY <3>1, <3>2
  <2>5. SubmissionInv'
    BY <1>1, <2>1, <2>4 DEF SubmissionInv, CommittedReason
  <2> QED BY <2>1, <2>2, <2>3, <2>5, BookkeepingPreserves
<1>4. CASE SubmissionTimesOut
  <2>1. /\ submission' = [phase |-> "none", reason |-> "none"] /\ answer' = "timedOut"
        /\ UNCHANGED <<now, inside, published, reports, observer, evaluation, result, closed>>
    BY <1>4 DEF SubmissionTimesOut, Answered
  <2>2. SimulationInv' /\ ObserverInv'
    BY <1>1, <2>1 DEF SimulationInv, ObserverInv
  <2>3. SubmissionInv'
    BY <1>1, <1>2, <2>1 DEF SubmissionInv, CommittedReason
  <2> QED BY <2>1, <2>2, <2>3, BookkeepingPreserves
<1>5. CASE Close \/ UNCHANGED vars
  <2>1. /\ UNCHANGED <<now, inside, published, reports, observer, evaluation, submission,
                       answer, result>>
        /\ closed' \in BOOLEAN
    BY <1>1, <1>5 DEF Close, vars, SimulationInv
  <2>2. SimulationInv' /\ ObserverInv' /\ SubmissionInv'
    BY <1>1, <2>1 DEF SimulationInv, ObserverInv, SubmissionInv, CommittedReason
  <2> QED BY <2>1, <2>2, BookkeepingPreserves
<1> QED BY <1>3, <1>4, <1>5

(* finalize(): the candidate, the samples and the elapsed time agree when   *)
(* they are copied.                                                         *)
LEMMA FinalizePreserves ==
  ASSUME Inv, Finalize
  PROVE  Inv'
<1>1. /\ SimulationInv /\ StatesInv /\ ReportsInv /\ ObserverInv /\ StartInv
      /\ SubmissionInv /\ Good(evaluation) /\ now \in Times
  BY DEF Inv, SimulationInv
<1>2. /\ EpisodeState = "TERMINATING"
      /\ UNCHANGED <<now, inside, published, reports, observer, submission, answer, closed>>
  BY DEF Finalize
<1>3. PICK t \in Recent :
        /\ evaluation' = Finished(evaluation, CommittedReason, t)
        /\ result' = [reason |-> evaluation'.reason, elapsed |-> evaluation'.elapsed,
                      samples |-> evaluation'.samples]
  BY DEF Finalize
<1> DEFINE e == Finished(evaluation, CommittedReason, t)
<1>4. t \in Times /\ t <= now
  BY <1>1, TimesFacts DEF Recent
<1>5. CommittedReason \in Reasons
  BY <1>1, LatestState
<1>6. /\ Good(e) /\ e.start = evaluation.start /\ e.candidate = evaluation.candidate
      /\ e.samples = evaluation.samples /\ e.reason = CommittedReason
  BY <1>1, <1>4, <1>5, FinishedGood
<1>7. evaluation' = e
  BY <1>3
<1> HIDE DEF e
<1>8. /\ result'.reason = e.reason /\ result'.elapsed = e.elapsed /\ result'.samples = e.samples
      /\ result' \in [reason : Reasons \cup {"none"}, elapsed : Times, samples : Seq(Times)]
  BY <1>3, <1>6, <1>7 DEF Good, EvalRec
<1>9. SimulationInv' /\ StatesInv' /\ ReportsInv' /\ ObserverInv' /\ Good(evaluation)'
  BY <1>1, <1>2, <1>6, <1>7, GoodCarries
  DEF SimulationInv, StatesInv, ReportsInv, ObserverInv
<1>10. /\ StartInv' /\ CommittedReason' = CommittedReason /\ EpisodeEnded'
  BY <1>1, <1>2, <1>6, <1>7 DEF StartInv, CommittedReason, EpisodeEnded, EpisodeState
<1>11. SubmissionInv'
  BY <1>1, <1>2, <1>6, <1>7, <1>10 DEF SubmissionInv
<1>12. CommittedReason \in Verdicts => e.candidate = CommittedReason
  BY <1>1, <1>6 DEF SubmissionInv
<1>13. \A i \in DOMAIN e.samples :
         /\ e.start # None /\ e.start \in Times /\ e.elapsed \in Times /\ e.samples[i] \in Times
         /\ e.start <= e.samples[i] /\ e.samples[i] <= e.start + e.elapsed
         /\ e.samples[i] >= i - 1 /\ e.start + e.elapsed <= now
  BY <1>6 DEF Good, EvalRec, Unstarted, ElapsedInv, SamplesInv
<1>14. ResultInv'
  <2>1. \A i \in DOMAIN e.samples : e.samples[i] <= now /\ e.samples[i] >= i - 1
    BY <1>1, <1>13, TimesFacts
  <2> QED BY <1>2, <1>6, <1>8, <1>10, <2>1 DEF ResultInv
<1>15. RecordedSuccessIsInside'
  <2> SUFFICES ASSUME CommittedReason = "SUCCESS"
               PROVE  /\ e.samples # << >> /\ inside[e.samples[Len(e.samples)]]
    BY <1>2, <1>6, <1>8 DEF RecordedSuccessIsInside
  <2>1. ConfirmedFor(e, TRUE)
    BY <1>6, <1>12 DEF Verdicts, Good, CandidateInv, Justifies
  <2>2. PICK k \in DOMAIN reports :
          LastSample(e) >= reports[k].stamp /\ inside[LastSample(e)] = TRUE
    BY <2>1 DEF ConfirmedFor
  <2>3. reports[k].stamp \in Int /\ reports[k].stamp >= 0
    BY <1>1, ReportFacts, TimesFacts
  <2>4. LastSample(e) # None
    BY <2>2, <2>3 DEF None
  <2> QED BY <1>6, <2>2, <2>4, LastSampleFacts DEF Good
<1>16. RecordedMetricsAgree'
  <2>1. \A i, j \in DOMAIN e.samples : i < j => e.samples[i] < e.samples[j]
    BY <1>6 DEF Good, SamplesInv
  <2>2. ASSUME NEW i \in DOMAIN e.samples
        PROVE  \E k \in DOMAIN published :
                 /\ published[k].state = "RUNNING"
                 /\ e.samples[i] \in published[k].stamp..(published[k].stamp + e.elapsed)
    <3>1. PICK k \in DOMAIN published :
            published[k].state = "RUNNING" /\ published[k].stamp = e.start
      BY <1>1, <1>6, <1>13 DEF StartInv
    <3>2. e.samples[i] \in e.start..(e.start + e.elapsed)
      BY <1>13, TimesFacts
    <3> QED BY <3>1, <3>2
  <2>3. CommittedReason = "TIMEOUT" => e.elapsed >= Timeout
    BY <1>6, <1>12 DEF Verdicts, Good, CandidateInv, Justifies
  <2> QED BY <1>2, <1>6, <1>8, <1>10, <2>1, <2>2, <2>3 DEF RecordedMetricsAgree
<1> QED BY <1>9, <1>10, <1>11, <1>14, <1>15, <1>16 DEF Inv

-----------------------------------------------------------------------------
LEMMA InitInv == Init => Inv
<1> SUFFICES ASSUME Init PROVE Inv
  OBVIOUS
<1> DEFINE m == [state |-> "PREPARING", reason |-> "NONE", stamp |-> 0]
<1>1. now = 0 /\ now \in Times /\ 0 \in Nat /\ 0 \in Times
  BY TimesFacts DEF Init
<1>2. m \in StateRec /\ m.state = "PREPARING" /\ m.reason = "NONE" /\ m.stamp = 0
  BY <1>1 DEF StateRec, EpisodeStates, Reasons
<1>3. published = <<m>> /\ reports = << >>
  BY DEF Init
<1> HIDE DEF m
<1>4. /\ published \in Seq(StateRec) /\ published # << >> /\ Len(published) = 1
      /\ DOMAIN published = {1} /\ published[1] = m
  BY <1>2, <1>3
<1>5. StatesInv
  BY <1>1, <1>2, <1>4 DEF StatesInv
<1>6. ReportsInv /\ Len(reports) = 0
  BY <1>3 DEF ReportsInv
<1>7. SimulationInv
  <2>1. PICK first \in BOOLEAN : inside = [t \in Times |-> t = 0 /\ first]
    BY DEF Init
  <2>2. inside \in [Times -> BOOLEAN]
    BY <2>1
  <2> QED BY <1>1, <2>2 DEF SimulationInv, Init
<1>8. ObserverInv
  BY <1>4, <1>6 DEF ObserverInv, Init
<1>9. evaluation = Prepared /\ submission = [phase |-> "none", reason |-> "none"]
  BY DEF Init
<1>10. Good(evaluation) /\ StartInv /\ evaluation.candidate = "none"
  BY <1>9, PreparedGood DEF StartInv
<1>11. CommittedReason = "NONE"
  BY <1>2, <1>4 DEF CommittedReason
<1>12. SubmissionInv
  BY <1>9, <1>11, VerdictFacts DEF SubmissionInv
<1>13. /\ result.reason = "none" /\ result.samples = << >>
       /\ result \in [reason : Reasons \cup {"none"}, elapsed : Times, samples : Seq(Times)]
  BY <1>1 DEF Init
<1>14. ResultInv /\ RecordedSuccessIsInside /\ RecordedMetricsAgree
  BY <1>13 DEF ResultInv, RecordedSuccessIsInside, RecordedMetricsAgree
<1> QED BY <1>5, <1>6, <1>7, <1>8, <1>10, <1>12, <1>14 DEF Inv

LEMMA NextPreserves == Inv /\ [Next]_vars => Inv'
BY CallbacksPreserve, SubmissionSteps, FinalizePreserves, SurroundingsSteps DEF Next

LEMMA AlwaysInv == Spec => []Inv
BY InitInv, NextPreserves, PTL DEF Spec

-----------------------------------------------------------------------------
(* While the evaluation is open, and when it has timed out, no position is  *)
(* as late as the success the agent reported.                               *)
Unsettled(e) ==
  e.successTime # None /\ e.samples # << >> => LastSample(e) < e.successTime

OpenInv(e) == e.running \/ e.candidate = "TIMEOUT" => Unsettled(e)

LEMMA CommittedIs ==
  ASSUME NEW e \in EvalRec, e.candidate = "none", NEW v \in Verdicts
  PROVE  /\ Committed(e, v).candidate = v /\ Committed(e, v).running = FALSE
         /\ Committed(e, v).successTime = e.successTime
         /\ Committed(e, v).samples = e.samples
<1> DEFINE c == [e EXCEPT !.candidate = v, !.reason = v, !.running = FALSE]
<1>1. Committed(e, v) = c
  BY DEF Committed
<1>2. /\ c.candidate = v /\ c.running = FALSE
      /\ c.successTime = e.successTime /\ c.samples = e.samples
  BY DEF EvalRec
<1> QED BY <1>1, <1>2

(* A verdict other than a time-out closes the evaluation.                   *)
LEMMA SettledIsClosed ==
  ASSUME NEW e \in EvalRec, e.candidate = "none", NEW v \in Verdicts, v # "TIMEOUT"
  PROVE  OpenInv(Committed(e, v))
BY CommittedIs DEF OpenInv

LEMMA WithTimeoutOpen ==
  ASSUME NEW e \in EvalRec, e.candidate = "none", Unsettled(e)
  PROVE  OpenInv(WithTimeout(e))
<1>1. CASE e.elapsed >= Timeout
  <2> DEFINE v == "TIMEOUT"
  <2>1. WithTimeout(e) = Committed(e, v) /\ v \in Verdicts
    BY <1>1 DEF WithTimeout, Verdicts
  <2> HIDE DEF v
  <2>2. /\ Committed(e, v).successTime = e.successTime
        /\ Committed(e, v).samples = e.samples
    BY <2>1, CommittedIs
  <2>3. Unsettled(WithTimeout(e))
    BY <2>1, <2>2 DEF Unsettled, LastSample
  <2> QED BY <2>3 DEF OpenInv
<1>2. CASE ~(e.elapsed >= Timeout)
  BY <1>2 DEF WithTimeout, OpenInv
<1> QED BY <1>1, <1>2

LEMMA VerdictAtDecides == \A t : VerdictAt(t) \in Verdicts /\ VerdictAt(t) # "TIMEOUT"
BY DEF VerdictAt, Verdicts

LEMMA ObservedOpen ==
  ASSUME NEW e, Good(e), OpenInv(e), NEW t \in Times, now \in Times, t <= now
  PROVE  OpenInv(Observed(e, t))
<1>1. CASE ~InSegment(e, t) \/ ~Newer(e, t)
  BY <1>1 DEF Observed
<1>2. CASE InSegment(e, t) /\ Newer(e, t)
  <2> DEFINE s == Advanced([e EXCEPT !.samples = Append(@, t)], t)
  <2>1. /\ Good(s) /\ s.successTime = e.successTime /\ s.candidate = e.candidate
        /\ LastSample(s) = t
    BY <1>2, SampledGood
  <2>2. Observed(e, t) = IF e.successTime # None /\ t >= e.successTime
                           THEN Committed(s, VerdictAt(t)) ELSE WithTimeout(s)
    BY <1>2 DEF Observed
  <2> HIDE DEF s
  <2>3. s \in EvalRec /\ s.candidate = "none"
    BY <1>2, <2>1, RunningFacts DEF InSegment, Good
  <2>4. CASE e.successTime # None /\ t >= e.successTime
    BY <2>2, <2>3, <2>4, VerdictAtDecides, SettledIsClosed
  <2>5. CASE ~(e.successTime # None /\ t >= e.successTime)
    <3>1. Unsettled(s)
      <4>1. t \in Int /\ (s.successTime # None => s.successTime \in Int)
        BY <2>3, TimesFacts DEF EvalRec
      <4> QED BY <2>1, <2>5, <4>1 DEF Unsettled
    <3> QED BY <2>2, <2>3, <2>5, <3>1, WithTimeoutOpen
  <2> QED BY <2>4, <2>5
<1> QED BY <1>1, <1>2

LEMMA AgentSucceededOpen ==
  ASSUME NEW e, Good(e), OpenInv(e), NEW t \in Times
  PROVE  OpenInv(AgentSucceeded(e, t))
<1>1. CASE ~InSegment(e, t)
  BY <1>1 DEF AgentSucceeded
<1>2. CASE InSegment(e, t)
  <2> DEFINE success == IF e.successTime = None THEN t ELSE e.successTime
             q == [e EXCEPT !.successTime = success]
             told == Advanced(q, t)
  <2>1. e \in EvalRec /\ e.start # None /\ e.candidate = "none"
    BY <1>2, RunningFacts DEF InSegment
  <2>2. AgentSucceeded(e, t) = IF LastSample(e) # None /\ LastSample(e) >= success
                                 THEN Committed(told, VerdictAt(LastSample(e))) ELSE told
    BY <1>2 DEF AgentSucceeded
  <2>3. success \in Times /\ success \in Int
    BY <2>1, TimesFacts DEF EvalRec
  <2> HIDE DEF success
  <2>4. /\ q \in EvalRec /\ q.start = e.start /\ q.candidate = e.candidate
        /\ q.successTime = success /\ q.samples = e.samples
    BY <2>1, <2>3 DEF EvalRec
  <2> HIDE DEF q
  <2>5. /\ told \in EvalRec /\ told.candidate = "none" /\ told.successTime = success
        /\ told.samples = e.samples
    BY <2>1, <2>4, AdvancedIs
  <2> HIDE DEF told
  <2>6. CASE LastSample(e) # None /\ LastSample(e) >= success
    BY <2>2, <2>5, <2>6, VerdictAtDecides, SettledIsClosed
  <2>7. CASE ~(LastSample(e) # None /\ LastSample(e) >= success)
    <3>1. e.samples # << >> => LastSample(e) \in Int /\ LastSample(e) # None
      BY <2>1, LastSampleFacts, TimesFacts
    <3>2. Unsettled(told)
      BY <2>3, <2>5, <2>7, <3>1 DEF Unsettled, LastSample
    <3> QED BY <2>2, <2>7, <3>2 DEF OpenInv
  <2> QED BY <2>6, <2>7
<1> QED BY <1>1, <1>2

LEMMA AgentFailedOpen ==
  ASSUME NEW e, Good(e), OpenInv(e), NEW t \in Times
  PROVE  OpenInv(AgentFailed(e, t))
<1>1. CASE ~InSegment(e, t)
  BY <1>1 DEF AgentFailed
<1>2. CASE InSegment(e, t)
  <2>1. e \in EvalRec /\ e.start # None /\ e.candidate = "none"
    BY <1>2, RunningFacts DEF InSegment
  <2>2. Advanced(e, t) \in EvalRec /\ Advanced(e, t).candidate = "none"
    BY <2>1, AdvancedIs
  <2>3. "FAILURE" \in Verdicts /\ "FAILURE" # "TIMEOUT"
    BY DEF Verdicts
  <2> QED BY <1>2, <2>2, <2>3, SettledIsClosed DEF AgentFailed
<1> QED BY <1>1, <1>2

LEMMA ClockAdvancedOpen ==
  ASSUME NEW e, Good(e), OpenInv(e), NEW t \in Times
  PROVE  OpenInv(ClockAdvanced(e, t))
<1>1. CASE ~e.running \/ t <= e.lastClock
  BY <1>1 DEF ClockAdvanced
<1>2. CASE ~(~e.running \/ t <= e.lastClock)
  <2> DEFINE q == [e EXCEPT !.lastClock = t]
  <2>1. e \in EvalRec /\ e.start # None /\ e.candidate = "none"
    BY <1>2, RunningFacts
  <2>2. /\ q \in EvalRec /\ q.start = e.start /\ q.candidate = e.candidate
        /\ q.successTime = e.successTime /\ q.samples = e.samples
    BY <2>1 DEF EvalRec
  <2>3. ClockAdvanced(e, t) = WithTimeout(Advanced(q, t))
    BY <1>2 DEF ClockAdvanced
  <2> HIDE DEF q
  <2>4. /\ Advanced(q, t) \in EvalRec /\ Advanced(q, t).candidate = "none"
        /\ Advanced(q, t).successTime = e.successTime /\ Advanced(q, t).samples = e.samples
    BY <2>1, <2>2, AdvancedIs
  <2>5. Unsettled(Advanced(q, t))
    BY <1>2, <2>4 DEF OpenInv, Unsettled, LastSample
  <2> QED BY <2>3, <2>4, <2>5, WithTimeoutOpen
<1> QED BY <1>1, <1>2

LEMMA FinishedOpen ==
  ASSUME NEW e, Good(e), OpenInv(e), NEW t \in Times, now \in Times, t <= now, NEW r \in Reasons
  PROVE  OpenInv(Finished(e, r, t))
BY FinishedGood DEF OpenInv, Unsettled, LastSample

LEMMA WithTerminalOpen ==
  ASSUME NEW e, Good(e), OpenInv(e), ReportsInv, NEW k,
         k # 0 => k \in DOMAIN reports
  PROVE  OpenInv(WithTerminal(e, k))
<1>1. CASE k = 0
  BY <1>1 DEF WithTerminal
<1>2. CASE k # 0
  <2>1. reports[k].stamp \in Times
    BY <1>2, ReportFacts
  <2> QED BY <1>2, <2>1, AgentSucceededOpen, AgentFailedOpen DEF WithTerminal
<1> QED BY <1>1, <1>2

LEMMA EnterOpen ==
  ASSUME Inv, OpenInv(evaluation), NEW k \in DOMAIN published, k > observer.lastState
  PROVE  OpenInv(Enter(evaluation, published[k]))
<1>1. /\ Good(evaluation) /\ now \in Times /\ StatesInv /\ ReportsInv /\ ObserverInv
  BY DEF Inv, SimulationInv
<1>2. /\ published[k].state \in EpisodeStates /\ published[k].reason \in Reasons
      /\ published[k].stamp \in Times /\ published[k].stamp <= now
  BY <1>1, StateFacts
<1>3. CASE published[k].state \in {"PREPARING", "READY"}
  BY <1>3 DEF Enter, Prepared, OpenInv
<1>4. CASE published[k].state = "RUNNING"
  <2> DEFINE s == Started(evaluation, published[k].stamp)
  <2>1. evaluation.start = None
    BY <1>4, RunsOnce
  <2>2. Good(s)
    BY <1>1, <1>2, <2>1, StartedGood
  <2>3. OpenInv(s)
    <3>1. evaluation \in EvalRec /\ evaluation.running = FALSE /\ evaluation.samples = << >>
      BY <1>1, <2>1 DEF Good, Unstarted
    <3>2. s.samples = << >>
      BY <3>1 DEF Started, EvalRec
    <3> QED BY <3>2 DEF OpenInv, Unsettled
  <2>4. observer.pending # 0 => observer.pending \in DOMAIN reports
    <3>1. Len(reports) \in Nat /\ DOMAIN reports = 1..Len(reports)
      BY <1>1 DEF ReportsInv
    <3> QED BY <1>1, <3>1 DEF ObserverInv
  <2>5. Enter(evaluation, published[k]) = WithTerminal(s, observer.pending)
    BY <1>4 DEF Enter
  <2> HIDE DEF s
  <2> QED BY <1>1, <2>2, <2>3, <2>4, <2>5, WithTerminalOpen
<1>5. CASE published[k].state \in {"TERMINATING", "FINISHED"}
  <2>1. Enter(evaluation, published[k]) =
          Finished(evaluation, published[k].reason, published[k].stamp)
    BY <1>5 DEF Enter
  <2> QED BY <1>1, <1>2, <2>1, FinishedOpen
<1> QED BY <1>2, <1>3, <1>4, <1>5 DEF EpisodeStates

(* No step leaves a position that settles the reported success unused.      *)
LEMMA OpenStep ==
  ASSUME Inv, OpenInv(evaluation), [Next]_vars
  PROVE  OpenInv(evaluation')
<1>1. /\ Good(evaluation) /\ now \in Times /\ StatesInv /\ ReportsInv /\ ObserverInv
  BY DEF Inv, SimulationInv
<1>2. CASE \E k \in DOMAIN published : OnState(k)
  BY <1>2, EnterOpen DEF OnState, Hand
<1>3. CASE \E k \in DOMAIN reports : OnReport(k)
  <2>1. PICK k \in DOMAIN reports : OnReport(k)
    BY <1>3
  <2>2. PICK pending \in {0, k} : evaluation' = WithTerminal(evaluation, pending)
    BY <2>1 DEF OnReport, Hand
  <2> QED BY <1>1, <2>1, <2>2, WithTerminalOpen
<1>4. CASE \E t \in Times : OnOdometry(t) \/ OnClock(t)
  <2>1. PICK t \in Times : OnOdometry(t) \/ OnClock(t)
    BY <1>4
  <2>2. CASE OnOdometry(t)
    BY <1>1, <2>2, ObservedOpen DEF OnOdometry, Hand
  <2>3. CASE OnClock(t)
    BY <1>1, <2>3, ClockAdvancedOpen DEF OnClock, Hand
  <2> QED BY <2>1, <2>2, <2>3
<1>5. CASE Finalize
  <2>1. PICK t \in Recent : evaluation' = Finished(evaluation, CommittedReason, t)
    BY <1>5 DEF Finalize
  <2>2. t \in Times /\ t <= now /\ CommittedReason \in Reasons
    BY <1>1, TimesFacts, LatestState DEF Recent
  <2> QED BY <1>1, <2>1, <2>2, FinishedOpen
<1>6. CASE UNCHANGED evaluation
  BY <1>6
<1>7. \/ UNCHANGED evaluation
      \/ \E k \in DOMAIN published : OnState(k)
      \/ \E k \in DOMAIN reports : OnReport(k)
      \/ \E t \in Times : OnOdometry(t) \/ OnClock(t)
      \/ Finalize
  BY DEF Next, vars, Tick, Proceed, Abort, AgentReports, Callback, OnTask, Around, Claim,
    Decide, SubmissionTimesOut, Answered, PublishFinished, Close
<1> QED BY <1>2, <1>3, <1>4, <1>5, <1>6, <1>7

LEMMA AlwaysOpen == Spec => []OpenInv(evaluation)
<1>1. Init => OpenInv(evaluation)
  BY DEF Init, Prepared, OpenInv
<1>2. Inv /\ OpenInv(evaluation) /\ [Next]_vars => OpenInv(evaluation)'
  BY OpenStep
<1> QED BY <1>1, <1>2, AlwaysInv, PTL DEF Spec

-----------------------------------------------------------------------------
(* The state of the evaluation keeps its type; the trajectory takes at most *)
(* one sample of each time, because TrajectorySampler.observe takes only    *)
(* strictly newer ones and the first is not from before the start.          *)
THEOREM EvaluationTypeCorrect == Spec => []EvalTypeOK
<1>1. ASSUME NEW s \in Seq(Times), \A i \in DOMAIN s : s[i] >= i - 1
      PROVE  s \in SampleTimes
  <2>1. Len(s) \in Nat /\ DOMAIN s = 1..Len(s) /\ s \in [1..Len(s) -> Times]
    OBVIOUS
  <2>2. Len(s) <= MaxTime + 1
    <3>1. CASE Len(s) = 0
      BY <3>1, TimesFacts
    <3>2. CASE Len(s) # 0
      <4>1. s[Len(s)] \in Times /\ s[Len(s)] >= Len(s) - 1
        BY <1>1, <2>1, <3>2
      <4> QED BY <2>1, <4>1, TimesFacts
    <3> QED BY <3>1, <3>2
  <2>3. Len(s) \in 0..(MaxTime + 1)
    BY <2>1, <2>2, TimesFacts
  <2> QED BY <2>1, <2>3 DEF SampleTimes
<1>2. Inv => EvalTypeOK
  <2> SUFFICES ASSUME Inv PROVE EvalTypeOK
    OBVIOUS
  <2>1. /\ now \in Times /\ inside \in [Times -> BOOLEAN] /\ closed \in BOOLEAN
        /\ answer \in {"none", "accepted", "refused", "timedOut"}
    BY DEF Inv, SimulationInv
  <2>2. \A k \in DOMAIN published :
          published[k] \in [state : EpisodeStates, reason : Reasons, stamp : Times]
    BY StateFacts DEF Inv, StateRec
  <2>3. \A k \in DOMAIN reports : reports[k] \in [state : TaskStates, stamp : Times]
    BY ReportFacts DEF Inv, ReportRec
  <2>4. observer \in [verified : BOOLEAN, lastState : 0..Len(published),
                      lastReport : 0..Len(reports), pending : 0..observer.lastReport,
                      submitted : BOOLEAN]
    <3>1. /\ observer \in [verified : BOOLEAN, lastState : 0..Len(published),
                           lastReport : 0..Len(reports), pending : 0..Len(reports),
                           submitted : BOOLEAN]
          /\ observer.pending <= observer.lastReport /\ Len(reports) \in Nat
      BY DEF Inv, ObserverInv, ReportsInv
    <3>2. observer.pending \in 0..observer.lastReport
      BY <3>1
    <3> QED BY <3>1, <3>2
  <2>5. evaluation \in EvalRec /\ evaluation.samples \in SampleTimes
    <3>1. evaluation.samples \in Seq(Times)
      BY DEF Inv, Good, EvalRec
    <3>2. \A i \in DOMAIN evaluation.samples : evaluation.samples[i] >= i - 1
      BY DEF Inv, Good, SamplesInv
    <3> QED BY <1>1, <3>1, <3>2 DEF Inv, Good
  <2>6. evaluation \in [running : BOOLEAN, start : Times \cup {None},
                        lastClock : Times \cup {None}, elapsed : Times,
                        candidate : Verdicts \cup {"none"}, reason : Reasons,
                        successTime : Times \cup {None}, samples : SampleTimes]
    BY <2>5 DEF EvalRec
  <2>7. submission \in [phase : {"none", "returned", "submitted"},
                        reason : Verdicts \cup {"none"}]
    BY DEF Inv, SubmissionInv
  <2>8. result.samples \in SampleTimes
    BY <1>1 DEF Inv, ResultInv
  <2>9. result \in [reason : Reasons \cup {"none"}, elapsed : Times, samples : SampleTimes]
    BY <2>8 DEF Inv, ResultInv
  <2> QED BY <2>1, <2>2, <2>3, <2>4, <2>6, <2>7, <2>9 DEF EvalTypeOK
<1> QED BY <1>2, AlwaysInv, PTL

(* Every verdict follows from what was published, in whatever order reports,*)
(* positions, clocks and states reach the callbacks (_on_state,             *)
(* _on_agent_task_state, _on_odometry, _on_clock): success, from a report   *)
(* that positions settle; failure, from a refuted report or one of failure; *)
(* a time-out, from a clock past the limit while none settles a report.     *)
THEOREM VerdictsAreJustified == Spec => []VerdictIsJustified
<1>1. Inv /\ OpenInv(evaluation) => VerdictIsJustified
  <2> SUFFICES ASSUME Inv, OpenInv(evaluation) PROVE VerdictIsJustified
    OBVIOUS
  <2>1. Good(evaluation) /\ evaluation \in EvalRec /\ ReportsInv
    BY DEF Inv, Good
  <2>2. ASSUME NEW outcome, ConfirmedFor(evaluation, outcome)
        PROVE  Settled(outcome) /\ inside[LastSample(evaluation)] = outcome
    <3>1. PICK k \in DOMAIN reports :
            /\ reports[k].state = "SUCCEEDED" /\ reports[k].stamp >= evaluation.start
            /\ LastSample(evaluation) >= reports[k].stamp
            /\ inside[LastSample(evaluation)] = outcome
      BY <2>2 DEF ConfirmedFor
    <3>2. reports[k].stamp \in Int /\ reports[k].stamp >= 0
      BY <2>1, ReportFacts, TimesFacts
    <3>3. LastSample(evaluation) # None
      BY <3>1, <3>2 DEF None
    <3>4. /\ LastSample(evaluation) \in Times /\ evaluation.samples # << >>
          /\ LastSample(evaluation) = evaluation.samples[Len(evaluation.samples)]
      BY <2>1, <3>3, LastSampleFacts
    <3>5. Len(evaluation.samples) \in DOMAIN evaluation.samples
      BY <2>1, <3>4 DEF EvalRec
    <3>6. k \in SuccessReports /\ LastSample(evaluation) \in SamplesFrom(reports[k].stamp)
      BY <3>1, <3>4, <3>5 DEF SuccessReports, SamplesFrom
    <3> QED BY <3>1, <3>6 DEF Settled
  <2>3. evaluation.candidate = "SUCCESS" => Settled(TRUE) /\ inside[LastSample(evaluation)]
    BY <2>1, <2>2 DEF Good, CandidateInv, Justifies
  <2>4. evaluation.candidate = "FAILURE" =>
          Settled(FALSE) \/ Reported("FAILED", evaluation.start)
    BY <2>1, <2>2 DEF Good, CandidateInv, Justifies
  <2>5. ASSUME evaluation.candidate = "TIMEOUT"
        PROVE  now - evaluation.start >= Timeout
    <3>1. /\ evaluation.elapsed >= Timeout /\ evaluation.start # None
          /\ evaluation.start + evaluation.elapsed <= now
      BY <2>1, <2>5 DEF Good, CandidateInv, Justifies, Unstarted, ElapsedInv
    <3>2. /\ evaluation.start \in Int /\ evaluation.elapsed \in Int /\ now \in Int
          /\ Timeout \in Int
      BY <2>1, <3>1, TimesFacts DEF EvalRec, Inv, SimulationInv
    <3> QED BY <3>1, <3>2
  <2>6. ASSUME evaluation.candidate = "TIMEOUT", evaluation.successTime # None,
               NEW s \in SamplesFrom(evaluation.successTime)
        PROVE  FALSE
    <3> DEFINE n == Len(evaluation.samples)
    <3>1. PICK i \in DOMAIN evaluation.samples :
            evaluation.samples[i] = s /\ s >= evaluation.successTime /\ s \in Int
      BY <2>6, TimesFacts DEF SamplesFrom
    <3>2. /\ evaluation.samples # << >> /\ n \in DOMAIN evaluation.samples /\ i \in 1..n
          /\ evaluation.samples[n] \in Times /\ LastSample(evaluation) = evaluation.samples[n]
          /\ evaluation.successTime \in Times
      BY <2>1, <2>6, <3>1 DEF EvalRec, LastSample
    <3>3. evaluation.samples[n] \in Int /\ evaluation.successTime \in Int
      BY <3>2, TimesFacts
    <3>4. evaluation.samples[n] < evaluation.successTime
      BY <2>6, <3>2 DEF OpenInv, Unsettled
    <3>5. i < n => s < evaluation.samples[n]
      BY <2>1, <3>1, <3>2 DEF Good, SamplesInv
    <3>6. i = n \/ i < n
      BY <3>2
    <3> QED BY <3>1, <3>3, <3>4, <3>5, <3>6
  <2> QED BY <2>3, <2>4, <2>5, <2>6 DEF VerdictIsJustified
<1> QED BY <1>1, AlwaysInv, AlwaysOpen, PTL

(* The recorded trajectory of a success ends inside of the radius, although *)
(* the lock is free between the candidate, its decision and finalize().     *)
THEOREM SuccessEndsInside == Spec => []RecordedSuccessIsInside
<1>1. Inv => RecordedSuccessIsInside
  BY DEF Inv
<1> QED BY <1>1, AlwaysInv, PTL

(* What finalize() copies agrees with the committed reason and with itself, *)
(* whichever callbacks come before it and after it.                         *)
THEOREM MetricsAgree == Spec => []RecordedMetricsAgree
<1>1. Inv => RecordedMetricsAgree
  BY DEF Inv
<1> QED BY <1>1, AlwaysInv, PTL
=============================================================================
