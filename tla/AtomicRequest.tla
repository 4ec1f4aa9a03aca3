---------------------------- MODULE AtomicRequest ----------------------------
(***************************************************************************)
(* What a caller of a control request is promised, without threads, queue  *)
(* or timeouts: a request takes effect at one instant, before its answer,  *)
(* and the answer is true.  "accepted" is said only of a request that took *)
(* effect, "refused" only of one that did not and never will.  "failed"    *)
(* promises nothing of the past, but it too is the end of the request.     *)
(***************************************************************************)
CONSTANT Requests

VARIABLES effect,      \* [Requests -> BOOLEAN]: the request has taken effect
          answer       \* [Requests -> {"none", "accepted", "refused", "failed"}]

vars == <<effect, answer>>

Init == /\ effect = [r \in Requests |-> FALSE]
        /\ answer = [r \in Requests |-> "none"]

TakeEffect(r) ==
  /\ answer[r] = "none"
  /\ ~effect[r]
  /\ effect' = [effect EXCEPT ![r] = TRUE]
  /\ UNCHANGED answer

Answer(r, a) ==
  /\ answer[r] = "none"
  /\ a = "accepted" => effect[r]
  /\ a = "refused"  => ~effect[r]
  /\ answer' = [answer EXCEPT ![r] = a]
  /\ UNCHANGED effect

Next == \E r \in Requests :
          \/ TakeEffect(r)
          \/ \E a \in {"accepted", "refused", "failed"} : Answer(r, a)

Spec == Init /\ [][Next]_vars
=============================================================================
