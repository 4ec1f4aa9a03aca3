--------------------------- MODULE RequestHistory ---------------------------
(***************************************************************************)
(* The node of Orchestrator.tla beside a history of what its callers were  *)
(* told (rh_experiment/orchestrator.py, _submit_event and _process_event). *)
(*                                                                         *)
(* The node forgets a request once it has answered it.  The history does   *)
(* not: it keeps, in order, every request whose caller was still waiting   *)
(* and was told that it took effect.  No step of the node reads it; the    *)
(* property compares it with the verdicts the node has committed.          *)
(***************************************************************************)
EXTENDS Orchestrator

VARIABLE heeded    \* the commands answered as having taken effect

(* The answers that leave the event's caller with a transition committed:   *)
(* "failed" is what it hears when only the record of its snapshot raised.   *)
TookEffect == {"accepted", "failed"}

(* An event leaves the queue when it is processed; its caller hears of the  *)
(* decision unless it has withdrawn the event.                              *)
CallerHears ==
  /\ Len(events') < Len(events)
  /\ ~Head(events).cancelled
  /\ decision' \in TookEffect

HistoryGrows ==
  heeded' = IF CallerHears THEN Append(heeded, Head(events).command) ELSE heeded

HistoryInit == Init /\ heeded = << >>
HistoryNext == Next /\ HistoryGrows

HistorySpec == HistoryInit /\ [][HistoryNext]_<<vars, heeded>>

-----------------------------------------------------------------------------
Closing(command) == command.kind # "start"

(* The reasons the node never decides on by itself: they come from an       *)
(* operator or an evaluator.                                                *)
AskedReasons == {"SUCCESS", "TIMEOUT", "ABORTED"}

(* A caller told that it ended an episode did: its reason is the verdict on *)
(* the episode it named, then and for good.                                 *)
ToldIsCommitted ==
  \A i \in DOMAIN heeded :
    Closing(heeded[i]) =>
      /\ heeded[i].id \in DOMAIN VerdictsOf(ctl)
      /\ VerdictsOf(ctl)[heeded[i].id] = heeded[i].reason

(* Of all the callers that would end one episode at most one is told so.    *)
OneIsTold ==
  \A i, j \in DOMAIN heeded :
    Closing(heeded[i]) /\ Closing(heeded[j]) /\ heeded[i].id = heeded[j].id => i = j

(* No episode ends for a reason that was asked for unless someone asked it  *)
(* of that episode and was told.                                            *)
CommittedIsTold ==
  \A k \in DOMAIN VerdictsOf(ctl) :
    VerdictsOf(ctl)[k] \in AskedReasons =>
      \E i \in DOMAIN heeded :
        Closing(heeded[i]) /\ heeded[i].id = k /\ heeded[i].reason = VerdictsOf(ctl)[k]

(* Without the automatic mode no episode runs that nobody started.          *)
RunIsTold ==
  ctl.episode.state = "RUNNING" /\ ~setup.automatic =>
    \E i \in DOMAIN heeded :
      heeded[i].kind = "start" /\ heeded[i].id = ctl.episode.id

(* What callers were told and what the node committed agree over the whole  *)
(* experiment.  A request that waited in the queue while its episode ended  *)
(* (orchestrator.py:639), one whose caller gave up on it (:346, :358), or   *)
(* one that found another reason committed (controller.py:91) has no effect *)
(* on its episode or on any later one; and a request told "accepted" keeps  *)
(* its effect whatever fails, stops or is asked afterwards.                 *)
VerdictsAnswerRequests ==
  ToldIsCommitted /\ OneIsTold /\ CommittedIsTold /\ RunIsTold
=============================================================================
