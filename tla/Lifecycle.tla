------------------------------ MODULE Lifecycle ------------------------------
(***************************************************************************)
(* The transition guards of rh_core/lifecycle.py and the priority of       *)
(* rh_core/termination.py, as operators on immutable snapshots.            *)
(*                                                                         *)
(* A Python method that either returns a new snapshot or raises is a pair: *)
(* a predicate that says when it returns (CanMoveEpisode) and the snapshot *)
(* it returns (MoveEpisode).                                               *)
(***************************************************************************)
EXTENDS Integers, FiniteSets

CONSTANT UInt64Max       \* the largest sequence number, 2^64 - 1 in the code

(* An episode publishes at most five snapshots; the width leaves room for them. *)
ASSUME UInt64MaxAssumption == UInt64Max \in Nat /\ UInt64Max >= 4

-----------------------------------------------------------------------------
ExperimentStates ==
  {"CREATED", "STARTING", "RUNNING", "FINALIZING", "FINISHED", "FAILED"}

EpisodeStates == {"PREPARING", "READY", "RUNNING", "TERMINATING", "FINISHED"}

OpenStates == {"PREPARING", "READY", "RUNNING"}
TerminalStates == {"TERMINATING", "FINISHED"}

(* TERMINATION_PRIORITY; resolve_termination_reason, which would compare   *)
(* two reasons by it, has no caller.                                        *)
TerminationPriority ==
  << "ENV_ERROR", "AGENT_ERROR", "FAILURE", "INVALID_TASK",
     "ABORTED", "SUCCESS", "TIMEOUT" >>

Reasons == { TerminationPriority[k] : k \in 1..7 }

ExperimentTransitions ==
  [ CREATED    |-> {"STARTING"},
    STARTING   |-> {"RUNNING", "FAILED"},
    RUNNING    |-> {"FINALIZING", "FAILED"},
    FINALIZING |-> {"FINISHED", "FAILED"},
    FINISHED   |-> {},
    FAILED     |-> {} ]

EpisodeTransitions ==
  [ PREPARING   |-> {"READY", "TERMINATING"},
    READY       |-> {"RUNNING", "TERMINATING"},
    RUNNING     |-> {"TERMINATING"},
    TERMINATING |-> {"FINISHED"},
    FINISHED    |-> {} ]

-----------------------------------------------------------------------------
(* EpisodeLifecycle(episode_id): the first snapshot of an episode.  An      *)
(* episode is named by its position in the configured list.                 *)
NewEpisode(id) ==
  [id |-> id, state |-> "PREPARING", reason |-> "NONE", sequence |-> 0]

(* EpisodeLifecycle.transition returns; reason = "NONE" is the absent argument. *)
CanMoveEpisode(e, target, reason) ==
  /\ target \in EpisodeTransitions[e.state]
  /\ (target = "TERMINATING") <=> (reason # "NONE")
  /\ e.sequence # UInt64Max

(* fault: the argument overwrites a committed reason *)
MoveEpisodeOverwriting(e, target, reason) ==
  [e EXCEPT !.state = target, !.reason = reason, !.sequence = e.sequence + 1]

(* ... and this is what it returns: a committed reason is carried along. *)
MoveEpisode(e, target, reason) ==
  [e EXCEPT !.state    = target,
            !.reason   = IF e.reason # "NONE" THEN e.reason ELSE reason,
            !.sequence = e.sequence + 1]
=============================================================================
