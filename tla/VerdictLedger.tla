---------------------------- MODULE VerdictLedger ----------------------------
(***************************************************************************)
(* What an experiment promises to whoever reads its results, without any   *)
(* of the lifecycle: a ledger of one verdict per episode, in the order of  *)
(* the configured list.                                                    *)
(*                                                                         *)
(* Episodes are opened one after the other, each one only after the        *)
(* verdict on the one before it; a verdict is given once and never         *)
(* rewritten; the experiment is complete only with the last verdict in the *)
(* ledger, and complete or failed is for ever.                             *)
(***************************************************************************)
EXTENDS Naturals, Sequences

CONSTANTS NumEpisodes, Reasons

VARIABLES opened,      \* how many episodes have been opened
          verdicts,    \* the reasons committed so far
          outcome      \* "open", "complete" or "failed"

vars == <<opened, verdicts, outcome>>

Init == opened = 1 /\ verdicts = << >> /\ outcome = "open"

(* The open episode gets its verdict; an infrastructure failure ends the    *)
(* experiment in the same step.                                             *)
Judge ==
  /\ Len(verdicts) < opened
  /\ \E reason \in Reasons : verdicts' = Append(verdicts, reason)
  /\ outcome' \in {outcome, "failed"}
  /\ UNCHANGED opened

OpenNext ==
  /\ outcome = "open"
  /\ opened < NumEpisodes
  /\ Len(verdicts) = opened
  /\ opened' = opened + 1
  /\ UNCHANGED <<verdicts, outcome>>

Complete ==
  /\ outcome = "open"
  /\ Len(verdicts) = NumEpisodes
  /\ outcome' = "complete"
  /\ UNCHANGED <<opened, verdicts>>

Fail ==
  /\ outcome = "open"
  /\ outcome' = "failed"
  /\ UNCHANGED <<opened, verdicts>>

Next == Judge \/ OpenNext \/ Complete \/ Fail

Spec == Init /\ [][Next]_vars
=============================================================================
