------------------------ MODULE ControlRequest_proofs ------------------------
(***************************************************************************)
(* For any set of requests: the hand-over of a control request is type     *)
(* correct, keeps its inductive invariant, never answers untruly, and      *)
(* implements atomic requests.                                             *)
(***************************************************************************)
EXTENDS ControlRequest, SequenceTheorems, TLAPS

(* The protocol's state has its type: the first fact every other proof uses. *)
THEOREM TypeCorrect == Spec => []ReqTypeOK
<1>1. Init => ReqTypeOK
  <2> SUFFICES ASSUME Init PROVE ReqTypeOK
    OBVIOUS
  <2>1. queue \in Seq(Requests) /\ worker \in WorkerPlaces /\ current \in Requests
    BY DEF Init, WorkerPlaces
  <2>2. caller \in [Requests -> CallerPlaces] /\ answer \in [Requests -> Answers]
    BY DEF Init, CallerPlaces, Answers, Verdicts
  <2>3. verdict \in [Requests -> Verdicts] /\ stopping \in BOOLEAN
    BY DEF Init, Verdicts
  <2>4. /\ claimed \in [Requests -> BOOLEAN] /\ cancelled \in [Requests -> BOOLEAN]
        /\ completed \in [Requests -> BOOLEAN] /\ effect \in [Requests -> BOOLEAN]
    BY Zenon DEF Init
  <2> QED
    BY <2>1, <2>2, <2>3, <2>4 DEF ReqTypeOK
<1>2. ReqTypeOK /\ [Next]_vars => ReqTypeOK'
  <2> SUFFICES ASSUME ReqTypeOK, [Next]_vars PROVE ReqTypeOK'
    OBVIOUS
  <2> USE DEF ReqTypeOK, CallerPlaces, WorkerPlaces, Verdicts, Answers
  <2>1. ASSUME NEW r \in Requests, CallerStep(r) PROVE ReqTypeOK'
    <3>1. CASE CheckStop(r)
      BY <3>1 DEF CheckStop, Return, eventVars
    <3>2. CASE Put(r)
      BY <3>2 DEF Put, eventVars
    <3>3. CASE WaitTimesOut(r)
      BY <3>3 DEF WaitTimesOut, eventVars
    <3>4. CASE CancelOrWaitOn(r)
      BY <3>4 DEF CancelOrWaitOn, Return
    <3>5. CASE ReturnDecision(r)
      BY <3>5 DEF ReturnDecision, Return, eventVars
    <3> QED
      BY <2>1, <3>1, <3>2, <3>3, <3>4, <3>5 DEF CallerStep
  <2>2. CASE Loop
    BY <2>2 DEF Loop, CallersOnly, callerVars, eventVars
  <2>3. CASE Get
    BY <2>3 DEF Get, CallersOnly, callerVars, eventVars
  <2>4. CASE ExpireOrClaim
    BY <2>4 DEF ExpireOrClaim, CallersOnly, callerVars
  <2>5. CASE HandleTakes \/ HandleRefuses
    BY <2>5 DEF HandleTakes, HandleRefuses, CallersOnly, callerVars, eventVars
  <2>6. CASE PublishReturns \/ PublishRaises
    BY <2>6 DEF PublishReturns, PublishRaises, CallersOnly, callerVars
  <2>7. CASE Complete
    BY <2>7 DEF Complete, CallersOnly, callerVars
  <2>8. CASE Stop
    BY <2>8 DEF Stop, callerVars, eventVars
  <2>9. CASE UNCHANGED vars
    BY <2>9 DEF vars, callerVars, eventVars
  <2> QED
    BY <2>1, <2>2, <2>3, <2>4, <2>5, <2>6, <2>7, <2>8, <2>9 DEF Next, WorkerStep
<1> QED
  BY <1>1, <1>2, PTL DEF Spec

-----------------------------------------------------------------------------
(* What the steps of a caller do to the events of other requests: nothing.  *)
Others(r) == \A s \in Requests \ {r} :
               /\ caller'[s] = caller[s] /\ answer'[s] = answer[s]
               /\ claimed'[s] = claimed[s] /\ cancelled'[s] = cancelled[s]
               /\ completed'[s] = completed[s] /\ verdict'[s] = verdict[s]
               /\ effect'[s] = effect[s]

(* An event that looks the same stays as good as it was.                    *)
LEMMA OthersKeepTheirEvents ==
  ASSUME NEW r \in Requests, NEW s \in Requests \ {r}, Others(r), EventOK(s)
  PROVE  EventOK(s)' /\ (Outstanding(s) => Outstanding(s)')
BY DEF Others, EventOK, Outstanding

(* The queue and the event in hand are kept by a step that leaves both in   *)
(* place, claims and completes nothing, gives no decision, and lets no      *)
(* outstanding request go.                                                  *)
LEMMA QueueAndWorkerKept ==
  ASSUME ReqTypeOK, QueueOK, WorkerOK,
         UNCHANGED <<queue, worker, current, claimed, completed, verdict, effect>>,
         \A s \in Requests : Outstanding(s) /\ ~completed[s] => Outstanding(s)'
  PROVE  QueueOK' /\ WorkerOK'
<1>1. \A i \in 1..Len(queue) : queue[i] \in Requests
  BY DEF ReqTypeOK
<1>2. current \in Requests
  BY DEF ReqTypeOK
<1>3. QueueOK'
  BY <1>1 DEF QueueOK, Outstanding
<1>4. WorkerOK'
  BY <1>2 DEF WorkerOK, Holding, Outstanding
<1> QED
  BY <1>3, <1>4
-----------------------------------------------------------------------------
(* The steps of a caller *)

LEMMA CallerKeepsInv ==
  ASSUME ReqTypeOK, RequestInv, NEW r \in Requests, CallerStep(r)
  PROVE  RequestInv'
<1> USE DEF ReqTypeOK, CallerPlaces, Verdicts, Answers
<1>r. /\ \A s \in Requests : EventOK(s)
      /\ QueueOK
      /\ WorkerOK
  BY DEF RequestInv
<1>1. Others(r)
  BY DEF Others, CallerStep, CheckStop, Put, WaitTimesOut, CancelOrWaitOn,
         ReturnDecision, Return, eventVars
<1>2. EventOK(r)'
  <2>1. EventOK(r)
    BY <1>r
  <2>2. CASE CheckStop(r)
    BY <2>1, <2>2 DEF EventOK, CheckStop, Return, eventVars
  <2>3. CASE Put(r)
    BY <2>1, <2>3 DEF EventOK, Put, eventVars
  <2>4. CASE WaitTimesOut(r)
    BY <2>1, <2>4 DEF EventOK, WaitTimesOut, eventVars
  <2>5. CASE CancelOrWaitOn(r)
    BY <2>1, <2>5 DEF EventOK, CancelOrWaitOn, Return
  <2>6. CASE ReturnDecision(r)
    BY <2>1, <2>6 DEF EventOK, ReturnDecision, Return, eventVars
  <2> QED
    BY <2>2, <2>3, <2>4, <2>5, <2>6 DEF CallerStep
<1>3. \A s \in Requests : EventOK(s)'
  BY <1>r, <1>1, <1>2, OthersKeepTheirEvents
<1>4. QueueOK' /\ WorkerOK'
  <2>1. CASE Put(r)
    <3>1. /\ queue \in Seq(Requests) /\ queue' = Append(queue, r)
          /\ caller[r] = "checked" /\ caller'[r] = "waiting"
          /\ UNCHANGED <<worker, current, claimed, completed, verdict, effect>>
      BY <2>1 DEF Put, eventVars
    <3>2. ~claimed[r] /\ ~completed[r] /\ ~Outstanding(r)
      BY <1>r, <3>1 DEF EventOK, Outstanding
    <3>3. /\ Len(queue') = Len(queue) + 1
          /\ queue'[Len(queue) + 1] = r
          /\ \A i \in 1..Len(queue) : queue'[i] = queue[i] /\ queue[i] \in Requests
      BY <3>1
    <3>4. \A i \in 1..Len(queue) : queue[i] # r
      BY <1>r, <3>2 DEF QueueOK
    <3>5. \A s \in Requests : Outstanding(s) => Outstanding(s)'
      BY <1>1, <1>r, <3>1, <3>2 DEF Others, Outstanding
    <3>6. Outstanding(r)'
      BY <3>1 DEF Outstanding
    <3>7. QueueOK'
      <4>1. \A i \in 1..Len(queue') : i \in 1..Len(queue) \/ i = Len(queue) + 1
        BY <3>1, <3>3
      <4>2. \A i, j \in 1..Len(queue') : queue'[i] = queue'[j] => i = j
        BY <1>r, <4>1, <3>3, <3>4 DEF QueueOK
      <4>3. \A i \in 1..Len(queue') :
              Outstanding(queue[i])' /\ ~claimed'[queue'[i]] /\ ~completed'[queue'[i]]
        BY <1>r, <4>1, <3>1, <3>2, <3>3, <3>5, <3>6 DEF QueueOK, Outstanding
      <4> QED
        BY <4>2, <4>3 DEF QueueOK
    <3>8. WorkerOK'
      <4>1. Holding => current # r
        BY <1>r, <3>2 DEF WorkerOK
      <4>2. Holding => \A i \in 1..Len(queue') : queue'[i] # current
        <5>1. \A i \in 1..Len(queue') : i \in 1..Len(queue) \/ i = Len(queue) + 1
          BY <3>1, <3>3
        <5> QED
          BY <1>r, <5>1, <4>1, <3>3 DEF WorkerOK
      <4>3. Holding => Outstanding(current)'
        BY <1>r, <3>1, <3>5 DEF WorkerOK, Outstanding
      <4> QED
        BY <1>r, <3>1, <4>2, <4>3 DEF WorkerOK, Holding
    <3> QED
      BY <3>7, <3>8
  <2>2. CASE CheckStop(r)
    <3>1. UNCHANGED <<queue, worker, current, claimed, completed, verdict, effect>>
      BY <2>2 DEF CheckStop, eventVars
    <3>2. ~Outstanding(r)
      BY <1>r, <2>2 DEF CheckStop, EventOK, Outstanding
    <3>3. \A s \in Requests : Outstanding(s) => Outstanding(s)'
      BY <1>1, <3>2 DEF Others, Outstanding
    <3> QED
      BY <1>r, <3>1, <3>3, QueueAndWorkerKept
  <2>3. CASE WaitTimesOut(r) \/ CancelOrWaitOn(r) \/ ReturnDecision(r)
    <3>1. UNCHANGED <<queue, worker, current, claimed, completed, verdict, effect>>
      BY <2>3 DEF WaitTimesOut, CancelOrWaitOn, ReturnDecision, eventVars
    <3>2. completed[r] \/ Outstanding(r)'
      BY <2>3 DEF WaitTimesOut, CancelOrWaitOn, ReturnDecision, Return, Outstanding
    <3>3. \A s \in Requests : Outstanding(s) /\ ~completed[s] => Outstanding(s)'
      BY <1>1, <3>2 DEF Others, Outstanding
    <3> QED
      BY <1>r, <3>1, <3>3, QueueAndWorkerKept
  <2> QED
    BY <2>1, <2>2, <2>3 DEF CallerStep
<1> QED
  BY <1>3, <1>4 DEF RequestInv
-----------------------------------------------------------------------------
(* The steps of the control thread *)

(* A step that touches only the event in hand, and leaves queue and callers *)
(* alone, keeps the queue.                                                  *)
LEMMA QueueKeptByWorker ==
  ASSUME ReqTypeOK, QueueOK, WorkerOK, Holding, Others(current),
         UNCHANGED <<queue, caller, answer>>
  PROVE  QueueOK'
<1>1. \A i \in 1..Len(queue) : queue[i] \in Requests \ {current}
  BY DEF ReqTypeOK, WorkerOK
<1> QED
  BY <1>1 DEF QueueOK, Others, Outstanding

LEMMA WorkerKeepsInv ==
  ASSUME ReqTypeOK, RequestInv, WorkerStep
  PROVE  RequestInv'
<1> USE DEF ReqTypeOK, WorkerPlaces, Verdicts, Answers
<1>r. /\ \A s \in Requests : EventOK(s)
      /\ QueueOK
      /\ WorkerOK
  BY DEF RequestInv
<1>c. UNCHANGED <<caller, answer>>
  BY DEF WorkerStep, Loop, Get, ExpireOrClaim, HandleTakes, HandleRefuses,
         PublishReturns, PublishRaises, Complete, CallersOnly, callerVars
<1>1. CASE Loop
  <2>1. \A s \in Requests : EventOK(s)'
    BY <1>r, <1>1 DEF Loop, CallersOnly, callerVars, eventVars, EventOK
  <2>2. QueueOK' /\ WorkerOK'
    BY <1>r, <1>1 DEF Loop, CallersOnly, callerVars, eventVars, QueueOK, WorkerOK,
                      Holding, Outstanding
  <2> QED
    BY <2>1, <2>2 DEF RequestInv
<1>2. CASE Get
  <2>1. \A s \in Requests : EventOK(s)'
    BY <1>r, <1>2 DEF Get, CallersOnly, callerVars, eventVars, EventOK
  <2>2. CASE queue = << >>
    BY <1>r, <1>2, <2>1, <2>2
       DEF Get, CallersOnly, callerVars, eventVars, QueueOK, WorkerOK, Holding,
           Outstanding, RequestInv
  <2>3. CASE queue # << >>
    <3>1. /\ Len(queue) \in Nat /\ Len(queue) >= 1
          /\ Len(queue') = Len(queue) - 1
          /\ \A i \in 1..Len(queue') : queue'[i] = queue[i + 1]
          /\ current' = queue[1]
      <4>1. queue \in Seq(Requests) /\ queue' = Tail(queue) /\ current' = Head(queue)
        BY <1>2, <2>3 DEF Get
      <4>2. Len(queue) \in Nat \ {0}
        BY <2>3, <4>1, EmptySeq
      <4>3. /\ Len(queue') = Len(queue) - 1
            /\ \A i \in 1..Len(queue') : queue'[i] = queue[i + 1]
        BY <2>3, <4>1, HeadTailProperties
      <4>4. Head(queue) = queue[1]
        BY <2>3, <4>1
      <4> QED
        BY <4>1, <4>2, <4>3, <4>4
    <3>2. \A i \in 1..Len(queue') : i + 1 \in 1..Len(queue) /\ i + 1 # 1
      BY <3>1
    <3>3. /\ worker' = "guard"
          /\ UNCHANGED <<caller, answer, claimed, cancelled, completed, verdict, effect>>
      BY <1>2, <2>3 DEF Get, CallersOnly, callerVars, eventVars
    <3>4. QueueOK'
      <4>1. \A i, j \in 1..Len(queue') : queue'[i] = queue'[j] => i = j
        BY <1>r, <3>1, <3>2 DEF QueueOK
      <4>2. \A i \in 1..Len(queue') :
              /\ Outstanding(queue[i + 1]) /\ ~claimed[queue[i + 1]]
              /\ ~completed[queue[i + 1]]
        BY <1>r, <3>2 DEF QueueOK
      <4> QED
        BY <4>1, <4>2, <3>1, <3>3 DEF QueueOK, Outstanding
    <3>5. 1 \in 1..Len(queue)
      BY <3>1
    <3>6. /\ Outstanding(queue[1]) /\ ~claimed[queue[1]] /\ ~completed[queue[1]]
          /\ queue[1] \in Requests
      BY <1>r, <3>5 DEF QueueOK
    <3>7. ~effect[queue[1]]
      BY <1>r, <3>6 DEF EventOK
    <3>8. \A i \in 1..Len(queue') : queue'[i] # current'
      BY <1>r, <3>1, <3>2, <3>5 DEF QueueOK
    <3>9. WorkerOK'
      BY <3>1, <3>3, <3>6, <3>7, <3>8 DEF WorkerOK, Holding, Outstanding
    <3> QED
      BY <2>1, <3>4, <3>9 DEF RequestInv
  <2> QED
    BY <2>2, <2>3
<1>3. CASE WorkerStep /\ ~Loop /\ ~Get
  <2>1. Holding
    BY <1>3 DEF WorkerStep, ExpireOrClaim, HandleTakes, HandleRefuses, PublishReturns,
                PublishRaises, Complete, Holding
  <2>2. Others(current) /\ UNCHANGED <<queue, current, cancelled>>
    BY <1>3 DEF WorkerStep, ExpireOrClaim, HandleTakes, HandleRefuses, PublishReturns,
                PublishRaises, Complete, CallersOnly, callerVars, eventVars, Others
  <2>3. QueueOK'
    BY <1>r, <1>c, <2>1, <2>2, QueueKeptByWorker
  <2>4. /\ EventOK(current) /\ WorkerOK
        /\ Outstanding(current) /\ ~completed[current]
        /\ \A i \in 1..Len(queue) : queue[i] # current
    BY <1>r, <2>1 DEF WorkerOK
  <2>5. EventOK(current)' /\ WorkerOK'
    <3>1. CASE ExpireOrClaim
      BY <1>c, <2>2, <2>4, <3>1
         DEF ExpireOrClaim, EventOK, WorkerOK, Holding, Outstanding
    <3>2. CASE HandleTakes
      BY <1>c, <2>2, <2>4, <3>2
         DEF HandleTakes, eventVars, EventOK, WorkerOK, Holding, Outstanding
    <3>3. CASE HandleRefuses
      BY <1>c, <2>2, <2>4, <3>3
         DEF HandleRefuses, EventOK, WorkerOK, Holding, Outstanding
    <3>4. CASE PublishReturns
      BY <1>c, <2>2, <2>4, <3>4
         DEF PublishReturns, EventOK, WorkerOK, Holding, Outstanding
    <3>5. CASE PublishRaises
      BY <1>c, <2>2, <2>4, <3>5
         DEF PublishRaises, EventOK, WorkerOK, Holding, Outstanding
    <3>6. CASE Complete
      BY <1>c, <2>2, <2>4, <3>6
         DEF Complete, EventOK, WorkerOK, Holding, Outstanding
    <3> QED
      BY <1>3, <3>1, <3>2, <3>3, <3>4, <3>5, <3>6 DEF WorkerStep
  <2>6. \A s \in Requests : EventOK(s)'
    BY <1>r, <2>2, <2>5, OthersKeepTheirEvents
  <2> QED
    BY <2>3, <2>5, <2>6 DEF RequestInv
<1> QED
  BY <1>1, <1>2, <1>3

-----------------------------------------------------------------------------
(* The inductive invariant holds: an event is queued, held or done, never   *)
(* both claimed and cancelled, and answered by what was decided on it.      *)
THEOREM InvHolds == Spec => []RequestInv
<1>1. Init => RequestInv
  BY DEF Init, RequestInv, EventOK, QueueOK, WorkerOK, Holding, Verdicts
<1>2. ReqTypeOK /\ RequestInv /\ [Next]_vars => RequestInv'
  <2> SUFFICES ASSUME ReqTypeOK, RequestInv, [Next]_vars PROVE RequestInv'
    OBVIOUS
  <2>1. CASE WorkerStep
    BY <2>1, WorkerKeepsInv
  <2>2. ASSUME NEW r \in Requests, CallerStep(r) PROVE RequestInv'
    BY <2>2, CallerKeepsInv
  <2>3. CASE Stop \/ UNCHANGED vars
    BY <2>3 DEF Stop, vars, callerVars, eventVars, RequestInv, EventOK, QueueOK,
                WorkerOK, Holding, Outstanding
  <2> QED
    BY <2>1, <2>2, <2>3 DEF Next
<1> QED
  BY <1>1, <1>2, TypeCorrect, PTL DEF Spec

(* No caller is ever told something else than what happens to its request:  *)
(* one answered as timed out or refused has no effect then or later.        *)
THEOREM AnswersTrue == Spec => []AnswersAreTrue
<1>1. ReqTypeOK /\ RequestInv => AnswersAreTrue
  BY DEF ReqTypeOK, RequestInv, EventOK, AnswersAreTrue, Verdicts, Answers
<1> QED
  BY <1>1, TypeCorrect, InvHolds, PTL

(* The assertion of _submit_event: a completed event carries a decision.    *)
THEOREM DecisionAlwaysThere == Spec => []DecisionIsThere
<1>1. RequestInv => DecisionIsThere
  BY DEF RequestInv, EventOK, DecisionIsThere
<1> QED
  BY <1>1, InvHolds, PTL
-----------------------------------------------------------------------------
(* A return of a caller is an answer of the abstract request, when the      *)
(* answer is true.                                                          *)
LEMMA ReturnAnswers ==
  ASSUME ReqTypeOK, NEW r \in Requests, NEW a \in Answers \ {"none"}, Return(r, a),
         answer[r] = "none", UNCHANGED effect,
         a = "accepted" => effect[r],
         a \in {"timedOut", "expired", "rejected", "shuttingDown"} => ~effect[r]
  PROVE  Atomic!Next
<1> DEFINE Abs == [s \in Requests |-> Plain(answer[s])]
<1>1. /\ Abs[r] = "none"
      /\ Plain(a) \in {"accepted", "refused", "failed"}
      /\ Plain(a) = "accepted" => effect[r]
      /\ Plain(a) = "refused" => ~effect[r]
  BY DEF Plain, Answers, Verdicts
<1>2. answer' = [answer EXCEPT ![r] = a] /\ answer \in [Requests -> Answers]
  BY DEF Return, ReqTypeOK
<1>3. Abs' = [Abs EXCEPT ![r] = Plain(a)]
  BY <1>2
<1>4. Atomic!Answer(r, Plain(a))
  BY <1>1, <1>3 DEF Atomic!Answer
<1> QED
  BY <1>1, <1>4 DEF Atomic!Next

(* The hand-over of a request through queue, guard and timeout implements   *)
(* requests that take effect at one instant and are answered after it.      *)
THEOREM Refinement == Spec => RequestsAreAtomic
<1>1. Init => Atomic!Init
  BY DEF Init, Atomic!Init, Plain
<1>2. ReqTypeOK /\ RequestInv /\ RequestInv' /\ [Next]_vars => [Atomic!Next]_(Atomic!vars)
  <2> SUFFICES ASSUME ReqTypeOK, RequestInv, RequestInv', [Next]_vars
               PROVE  Atomic!Next \/ UNCHANGED Atomic!vars
    OBVIOUS
  <2>1. CASE UNCHANGED <<effect, answer>>
    BY <2>1 DEF Atomic!vars
  <2>2. ASSUME NEW r \in Requests, CallerStep(r), answer' # answer PROVE Atomic!Next
    <3>1. PICK a \in Answers \ {"none"} : Return(r, a)
      <4>1. EventOK(r)
        BY DEF RequestInv
      <4> QED
        BY <2>2, <4>1 DEF CallerStep, CheckStop, Put, WaitTimesOut, CancelOrWaitOn,
              ReturnDecision, ReqTypeOK, Answers, Verdicts, EventOK
    <3>2. EventOK(r) /\ EventOK(r)'
      BY DEF RequestInv
    <3>3. UNCHANGED effect
      BY <2>2 DEF CallerStep, CheckStop, Put, WaitTimesOut, CancelOrWaitOn,
                  ReturnDecision, eventVars
    <3>4. answer'[r] = a /\ caller[r] # "returned"
      BY <2>2, <3>1 DEF Return, ReqTypeOK, CallerStep, CheckStop, Put, WaitTimesOut,
                        CancelOrWaitOn, ReturnDecision
    <3>5. answer[r] = "none"
      BY <3>2, <3>4 DEF EventOK
    <3>6. /\ a = "accepted" => effect[r]
          /\ a \in {"timedOut", "expired", "rejected", "shuttingDown"} => ~effect[r]
      BY <3>2, <3>3, <3>4 DEF EventOK, Verdicts
    <3> QED
      BY <3>1, <3>3, <3>5, <3>6, ReturnAnswers
  <2>3. CASE HandleTakes
    <3>1. /\ current \in Requests /\ worker = "handle"
          /\ effect' = [effect EXCEPT ![current] = TRUE] /\ answer' = answer
      BY <2>3 DEF HandleTakes, ReqTypeOK, CallersOnly, callerVars
    <3>2. EventOK(current) /\ WorkerOK
      BY <3>1 DEF RequestInv
    <3>3. ~effect[current] /\ answer[current] = "none"
      BY <3>1, <3>2 DEF WorkerOK, Holding, EventOK, Outstanding
    <3>4. Atomic!TakeEffect(current)
      BY <3>1, <3>3 DEF Atomic!TakeEffect, Plain
    <3> QED
      BY <3>1, <3>4 DEF Atomic!Next
  <2>4. CASE WorkerStep /\ ~HandleTakes
    BY <2>1, <2>4 DEF WorkerStep, Loop, Get, ExpireOrClaim, HandleRefuses,
                PublishReturns, PublishRaises, Complete, CallersOnly, callerVars
  <2>5. CASE Stop \/ UNCHANGED vars
    BY <2>1, <2>5 DEF Stop, vars, callerVars
  <2>6. ASSUME NEW r \in Requests, CallerStep(r), answer' = answer
        PROVE  UNCHANGED <<effect, answer>>
    BY <2>6 DEF CallerStep, CheckStop, Put, WaitTimesOut, CancelOrWaitOn,
                ReturnDecision, eventVars
  <2> QED
    BY <2>1, <2>2, <2>3, <2>4, <2>5, <2>6 DEF Next
<1> QED
  BY <1>1, <1>2, TypeCorrect, InvHolds, PTL DEF Spec, Atomic!Spec, RequestsAreAtomic
=============================================================================
