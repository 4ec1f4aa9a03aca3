---------------------------- MODULE MCResetGuard ----------------------------
(* Four calls, two ids, two contents and room for one completed record: ids *)
(* are reused with equal and other content while records come and go.       *)
EXTENDS ResetGuard, TLC

CONSTANTS c1, c2, c3, c4, i1, i2, f1, f2

MCCalls == {c1, c2, c3, c4}
MCIds == {i1, i2}
MCFingerprints == {f1, f2}
MCSymmetry ==
  Permutations(MCCalls) \cup Permutations(MCIds) \cup Permutations(MCFingerprints)
=============================================================================
