--------------------------- MODULE ControlRequest ---------------------------
(***************************************************************************)
(* The hand-over of a control request from the thread that makes it to the *)
(* control thread: _submit_event and _process_event of orchestrator.py.    *)
(*                                                                         *)
(* A caller puts its event into the queue and waits for a time.  When the  *)
(* wait runs out, caller and control thread race for the event's guard:    *)
(* the caller cancels an event nobody has claimed, the control thread      *)
(* claims one nobody has cancelled.  Orchestrator.tla abstracts all this   *)
(* into the steps Submit, TimeOut and ProcessEvent.                        *)
(*                                                                         *)
(* Each section under event.guard is one step; so are the single           *)
(* assignments to the fields of an event that only one thread writes.      *)
(***************************************************************************)
EXTENDS Naturals, Sequences

CONSTANT Requests        \* the calls of _submit_event, one event each

VARIABLES
  caller,        \* where the caller of each request is
  answer,        \* what it has returned
  claimed,       \* the fields of the events ...
  cancelled,
  completed,
  verdict,       \*   (decision)
  queue,         \* _events
  worker,        \* where the control thread is
  current,       \* the event it took last
  effect,        \* the request has moved the lifecycle
  stopping       \* _stop_requested

callerVars == <<caller, answer>>
eventVars == <<claimed, cancelled, completed, verdict>>
vars == <<callerVars, eventVars, queue, worker, current, effect, stopping>>

CallerPlaces == {"idle", "checked", "waiting", "gaveUp", "waitingOn", "returned"}
WorkerPlaces == {"loop", "get", "guard", "handle", "publish", "complete",
                 "completeRaising", "exited", "dead"}
Verdicts == {"none", "accepted", "rejected", "expired", "failed"}
Answers == Verdicts \cup {"timedOut", "shuttingDown"}

Init ==
  /\ caller    = [r \in Requests |-> "idle"]
  /\ answer    = [r \in Requests |-> "none"]
  /\ claimed   = [r \in Requests |-> FALSE]
  /\ cancelled = [r \in Requests |-> FALSE]
  /\ completed = [r \in Requests |-> FALSE]
  /\ verdict   = [r \in Requests |-> "none"]
  /\ effect    = [r \in Requests |-> FALSE]
  /\ queue     = << >>
  /\ worker    = "loop"
  /\ current   \in Requests
  /\ stopping  = FALSE

-----------------------------------------------------------------------------
(* _submit_event *)

Return(r, a) == /\ caller' = [caller EXCEPT ![r] = "returned"]
                /\ answer' = [answer EXCEPT ![r] = a]

CheckStop(r) ==
  /\ caller[r] = "idle"
  /\ IF stopping
       THEN Return(r, "shuttingDown")
       ELSE caller' = [caller EXCEPT ![r] = "checked"] /\ UNCHANGED answer
  /\ UNCHANGED <<eventVars, queue, worker, current, effect, stopping>>

Put(r) ==
  /\ caller[r] = "checked"
  /\ queue' = Append(queue, r)
  /\ caller' = [caller EXCEPT ![r] = "waiting"]
  /\ UNCHANGED <<answer, eventVars, worker, current, effect, stopping>>

(* completed.wait(timeout) returns False *)
WaitTimesOut(r) ==
  /\ caller[r] = "waiting"
  /\ ~completed[r]
  /\ caller' = [caller EXCEPT ![r] = "gaveUp"]
  /\ UNCHANGED <<answer, eventVars, queue, worker, current, effect, stopping>>

(* fault: the event is cancelled whoever has it *)
CancelAlways(r) ==
  /\ caller[r] = "gaveUp"
  /\ cancelled' = [cancelled EXCEPT ![r] = TRUE]
  /\ Return(r, "timedOut")
  /\ UNCHANGED <<claimed, completed, verdict, queue, worker, current, effect, stopping>>

(* Under the guard: cancel the event, or learn that it has been claimed.    *)
CancelOrWaitOn(r) ==
  /\ caller[r] = "gaveUp"
  /\ IF claimed[r]
       THEN /\ caller' = [caller EXCEPT ![r] = "waitingOn"]
            /\ UNCHANGED <<answer, cancelled>>
       ELSE /\ cancelled' = [cancelled EXCEPT ![r] = TRUE]
            /\ Return(r, "timedOut")
  /\ UNCHANGED <<claimed, completed, verdict, queue, worker, current, effect, stopping>>

ReturnDecision(r) ==
  /\ caller[r] \in {"waiting", "waitingOn"}
  /\ completed[r]
  /\ Return(r, verdict[r])
  /\ UNCHANGED <<eventVars, queue, worker, current, effect, stopping>>

-----------------------------------------------------------------------------
(* _control_loop and _process_event *)

CallersOnly == <<callerVars, stopping>>

Loop ==
  /\ worker = "loop"
  /\ worker' = IF stopping THEN "exited" ELSE "get"
  /\ UNCHANGED <<CallersOnly, eventVars, queue, current, effect>>

Get ==
  /\ worker = "get"
  /\ IF queue = << >>
       THEN worker' = "loop" /\ UNCHANGED <<queue, current>>
       ELSE /\ worker' = "guard"
            /\ current' = Head(queue)
            /\ queue' = Tail(queue)
  /\ UNCHANGED <<CallersOnly, eventVars, effect>>

(* fault: a cancelled event is handled like any other *)
ClaimAlways ==
  /\ worker = "guard"
  /\ claimed' = [claimed EXCEPT ![current] = TRUE]
  /\ worker' = "handle"
  /\ UNCHANGED <<CallersOnly, cancelled, completed, verdict, queue, current, effect>>

(* Under the guard: answer a cancelled event, or claim it.                  *)
ExpireOrClaim ==
  /\ worker = "guard"
  /\ IF cancelled[current]
       THEN /\ verdict' = [verdict EXCEPT ![current] = "expired"]
            /\ completed' = [completed EXCEPT ![current] = TRUE]
            /\ worker' = "loop"
            /\ UNCHANGED claimed
       ELSE /\ claimed' = [claimed EXCEPT ![current] = TRUE]
            /\ worker' = "handle"
            /\ UNCHANGED <<verdict, completed>>
  /\ UNCHANGED <<CallersOnly, cancelled, queue, current, effect>>

(* _handle_event: the controller takes the request or refuses it ...        *)
HandleTakes ==
  /\ worker = "handle"
  /\ effect' = [effect EXCEPT ![current] = TRUE]
  /\ worker' = "publish"
  /\ UNCHANGED <<CallersOnly, eventVars, queue, current>>

HandleRefuses ==
  /\ worker = "handle"
  /\ verdict' = [verdict EXCEPT ![current] = "rejected"]
  /\ worker' = "complete"
  /\ UNCHANGED <<CallersOnly, claimed, cancelled, completed, queue, current, effect>>

(* ... and the snapshot of a request that was taken is published; recording *)
(* it may raise.                                                            *)
PublishReturns ==
  /\ worker = "publish"
  /\ verdict' = [verdict EXCEPT ![current] = "accepted"]
  /\ worker' = "complete"
  /\ UNCHANGED <<CallersOnly, claimed, cancelled, completed, queue, current, effect>>

(* fault: the exception is left in the place of a decision *)
PublishRaisesUnwrapped ==
  /\ worker = "publish"
  /\ verdict' = [verdict EXCEPT ![current] = "exception"]
  /\ worker' = "completeRaising"
  /\ UNCHANGED <<CallersOnly, claimed, cancelled, completed, queue, current, effect>>

PublishRaises ==
  /\ worker = "publish"
  /\ verdict' = [verdict EXCEPT ![current] = "failed"]
  /\ worker' = "completeRaising"
  /\ UNCHANGED <<CallersOnly, claimed, cancelled, completed, queue, current, effect>>

(* fault: no finally clause, a handler that raises leaves the event open *)
CompleteUnlessRaising ==
  /\ worker \in {"complete", "completeRaising"}
  /\ completed' = IF worker = "complete"
                    THEN [completed EXCEPT ![current] = TRUE] ELSE completed
  /\ worker' \in {"loop"} \cup (IF worker = "complete" THEN {} ELSE {"dead"})
  /\ UNCHANGED <<CallersOnly, claimed, cancelled, verdict, queue, current, effect>>

(* finally: completed.set(); the exception of a handler ends the thread     *)
(* when the loop's own handler cannot record the failure either.            *)
Complete ==
  /\ worker \in {"complete", "completeRaising"}
  /\ completed' = [completed EXCEPT ![current] = TRUE]
  /\ worker' \in {"loop"} \cup (IF worker = "complete" THEN {} ELSE {"dead"})
  /\ UNCHANGED <<CallersOnly, claimed, cancelled, verdict, queue, current, effect>>

-----------------------------------------------------------------------------
Stop ==
  /\ ~stopping
  /\ stopping' = TRUE
  /\ UNCHANGED <<callerVars, eventVars, queue, worker, current, effect>>

CallerStep(r) ==
  \/ CheckStop(r) \/ Put(r) \/ WaitTimesOut(r) \/ CancelOrWaitOn(r) \/ ReturnDecision(r)

WorkerStep ==
  \/ Loop \/ Get \/ ExpireOrClaim \/ HandleTakes \/ HandleRefuses
  \/ PublishReturns \/ PublishRaises \/ Complete

Next == WorkerStep \/ Stop \/ \E r \in Requests : CallerStep(r)

Spec == Init /\ [][Next]_vars

(* The control thread runs; a caller that has begun goes on: in particular  *)
(* a wait with a timeout ends.                                              *)
FairSpec ==
  /\ Spec
  /\ WF_vars(WorkerStep)
  /\ \A r \in Requests : WF_vars(caller[r] # "idle" /\ CallerStep(r))

-----------------------------------------------------------------------------
(* Type of the protocol's state.                                            *)
ReqTypeOK ==
  /\ caller \in [Requests -> CallerPlaces]
  /\ answer \in [Requests -> Answers]
  /\ claimed \in [Requests -> BOOLEAN]
  /\ cancelled \in [Requests -> BOOLEAN]
  /\ completed \in [Requests -> BOOLEAN]
  /\ verdict \in [Requests -> Verdicts]
  /\ effect \in [Requests -> BOOLEAN]
  /\ queue \in Seq(Requests)
  /\ worker \in WorkerPlaces
  /\ current \in Requests
  /\ stopping \in BOOLEAN

(* No caller is told something else than what happens: a request answered   *)
(* "accepted" has moved the lifecycle, and one that was answered as timed   *)
(* out, expired, rejected or refused for shutdown has not, and does not     *)
(* later.  This is what the guard of an event is for.  Of a request answered *)
(* "failed" nothing is said: its snapshot may have been published and only  *)
(* the record of it have raised, against the comment at                     *)
(* orchestrator.py:347-349.                                                 *)
AnswersAreTrue ==
  \A r \in Requests :
    /\ answer[r] = "accepted" => effect[r]
    /\ answer[r] \in {"timedOut", "expired", "rejected", "shuttingDown"} => ~effect[r]

(* The assertion "event.decision is not None" of _submit_event holds.       *)
DecisionIsThere ==
  \A r \in Requests : completed[r] => verdict[r] # "none"

-----------------------------------------------------------------------------
(* The inductive invariant behind AnswersAreTrue and DecisionIsThere, in    *)
(* three parts: the event of a request, the waiting events, and the event   *)
(* the control thread holds.                                                *)

(* The caller of an event that is queued or held is waiting, or cancelled it. *)
Outstanding(r) ==
  caller[r] \in {"waiting", "gaveUp", "waitingOn"} \/ answer[r] = "timedOut"

EventOK(r) ==
  /\ caller[r] \in {"idle", "checked"} \/ answer[r] = "shuttingDown" =>
       ~claimed[r] /\ ~cancelled[r] /\ ~completed[r] /\ ~effect[r]
  /\ caller[r] = "returned" <=> answer[r] # "none"
  /\ caller[r] = "waitingOn" => claimed[r]
  /\ cancelled[r] <=> answer[r] = "timedOut"
  /\ cancelled[r] => ~claimed[r]
  /\ effect[r] => claimed[r]
  /\ answer[r] \in Verdicts \ {"none"} => completed[r] /\ answer[r] = verdict[r]
  /\ completed[r] =>
       /\ verdict[r] # "none"
       /\ verdict[r] = "accepted" => effect[r]
       /\ verdict[r] \in {"rejected", "expired"} => ~effect[r]

QueueOK ==
  /\ \A i, j \in 1..Len(queue) : queue[i] = queue[j] => i = j
  /\ \A i \in 1..Len(queue) :
       Outstanding(queue[i]) /\ ~claimed[queue[i]] /\ ~completed[queue[i]]

Holding ==
  worker \in {"guard", "handle", "publish", "complete", "completeRaising"}

WorkerOK ==
  /\ Holding => /\ Outstanding(current)
                /\ ~completed[current]
                /\ \A i \in 1..Len(queue) : queue[i] # current
  /\ Holding => (worker = "guard" <=> ~claimed[current])
  /\ worker \in {"guard", "handle"} => ~effect[current]
  /\ worker = "publish" => effect[current]
  /\ worker = "complete" =>
       \/ verdict[current] = "accepted" /\ effect[current]
       \/ verdict[current] = "rejected" /\ ~effect[current]
  /\ worker = "completeRaising" => verdict[current] = "failed"

(* An event is in the queue, in the hands of the control thread or done, in *)
(* one of these only; it is never both claimed and cancelled; what has been *)
(* returned is what was decided.                                            *)
RequestInv ==
  /\ \A r \in Requests : EventOK(r)
  /\ QueueOK
  /\ WorkerOK

-----------------------------------------------------------------------------
Plain(a) ==
  CASE a \in {"none", "accepted", "failed"} -> a
    [] OTHER                                -> "refused"

Atomic == INSTANCE AtomicRequest WITH answer <- [r \in Requests |-> Plain(answer[r])]

(* The protocol implements requests that take effect at one instant, before *)
(* the answer and never after it.                                           *)
RequestsAreAtomic == Atomic!Spec

(* Every caller gets an answer, also from a control thread that is stopped  *)
(* or has died: the wait without a timeout on a claimed event ends.         *)
EveryCallReturns ==
  \A r \in Requests : caller[r] = "checked" ~> caller[r] = "returned"
=============================================================================
