---------------------------- MODULE ResultJournal ----------------------------
(***************************************************************************)
(* What the result tree promises, without its documents: a journal in      *)
(* which the result of an episode appears at one instant, stays as it is,  *)
(* and is permanent once the recorder holds it for complete; and a seal    *)
(* that says so of every result.                                           *)
(***************************************************************************)
CONSTANTS Episodes, Absent

VARIABLES filed,       \* the result of each episode
          confirmed,   \* episodes the recorder holds for complete
          sealed,      \* the manifest says complete
          settled,     \* finish(complete=True) has returned
          down         \* the recorder is gone

vars == <<filed, confirmed, sealed, settled, down>>

Init ==
  /\ filed = [e \in Episodes |-> Absent] /\ confirmed = {}
  /\ sealed = FALSE /\ settled = FALSE /\ down = FALSE

File(e) ==
  /\ ~down /\ ~sealed /\ filed[e] = Absent
  /\ filed'[e] # Absent
  /\ filed' = [filed EXCEPT ![e] = filed'[e]]
  /\ UNCHANGED <<confirmed, sealed, settled, down>>

Confirm(e) ==
  /\ ~down /\ filed[e] # Absent
  /\ confirmed' = confirmed \cup {e}
  /\ UNCHANGED <<filed, sealed, settled, down>>

Seal ==
  /\ ~down /\ confirmed = Episodes
  /\ sealed' = TRUE
  /\ UNCHANGED <<filed, confirmed, settled, down>>

Settle ==
  /\ ~down /\ sealed
  /\ settled' = TRUE
  /\ UNCHANGED <<filed, confirmed, sealed, down>>

(* The commit of the experiment raised: the caller takes the seal back.     *)
Unseal ==
  /\ ~down /\ ~settled
  /\ sealed' = FALSE
  /\ UNCHANGED <<filed, confirmed, settled, down>>

(* The end of the process or of the machine may cost what nobody has been   *)
(* told.                                                                    *)
Fall ==
  /\ down' = TRUE
  /\ \E kept \in SUBSET Episodes :
       /\ confirmed \subseteq kept
       /\ filed' = [e \in Episodes |-> IF e \in kept THEN filed[e] ELSE Absent]
  /\ sealed' \in (IF settled THEN {TRUE} ELSE BOOLEAN)
  /\ sealed' => confirmed = Episodes
  /\ UNCHANGED <<confirmed, settled>>

Next ==
  \/ \E e \in Episodes : File(e) \/ Confirm(e)
  \/ Seal \/ Settle \/ Unseal \/ Fall

Spec == Init /\ [][Next]_vars

=============================================================================
