----------------------------- MODULE MCResults -----------------------------
(* Two episodes; trajectories of two points in every order the recorder     *)
(* must tell apart.                                                         *)
EXTENDS Results

Point(t, frame) == [time |-> t, frame |-> frame]

MCConfigured == <<"first", "second">>
MCMetrics ==
  {[reason |-> "SUCCESS", success |-> TRUE, timeout |-> FALSE, samples |-> 2],
   [reason |-> "TIMEOUT", success |-> FALSE, timeout |-> TRUE, samples |-> 0]}
MCTrajectories ==
  {<<>>, <<Point(0, "map"), Point(1, "map")>>, <<Point(1, "map"), Point(0, "map")>>,
   <<Point(0, "map"), Point(1, "odom")>>}

=============================================================================
