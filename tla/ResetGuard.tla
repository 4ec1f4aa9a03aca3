----------------------------- MODULE ResetGuard -----------------------------
(***************************************************************************)
(* IdempotentResetGuard (rh_ros/reset_guard.py): service threads of Env or *)
(* Agent execute a reset once per request id and replay its result to      *)
(* every equivalent duplicate, with a bounded memory of completed resets.  *)
(*                                                                         *)
(* A call is one thread in execute().  A record is named by the call that  *)
(* made it, because a thread that waits keeps its reference to the record  *)
(* when the dictionary has let it go.  Each section under the condition's  *)
(* lock is one step; the operation runs outside of it.                     *)
(***************************************************************************)
EXTENDS SequencesExt

CONSTANTS Calls,          \* the calls of execute()
          Ids,            \* request ids
          Fingerprints,   \* contents of a request
          Capacity        \* completed records kept

ASSUME CapacityAssumption == Capacity \in Nat \ {0}

VARIABLES place,          \* where each call is
          request,        \* [id, fingerprint] of each call
          awaited,        \* the record a call waits for or has been answered from
          complete,       \* of the record a call has made
          outcome,        \*   what its operation did
          records         \* the ordered dictionary: records, least recent first

vars == <<place, request, awaited, complete, outcome, records>>

Places == {"idle", "waiting", "running", "executed", "answered", "conflict", "keyError"}
Requests == [id : Ids, fingerprint : Fingerprints]

InRecords(id) == \E k \in DOMAIN records : request[records[k]].id = id

(* The place of the record of an id that is there, and records.get(id) *)
PlaceOf(id) == CHOOSE k \in DOMAIN records : request[records[k]].id = id
RecordOf(id) == records[PlaceOf(id)]

(* fault: the record is put at the end and left where it was *)
MovedTwice(id) == Append(records, RecordOf(id))

(* records.move_to_end(id), for an id that is there *)
MovedToEnd(id) == Append(RemoveAt(records, PlaceOf(id)), RecordOf(id))

Completed(recs, done) == {c \in Range(recs) : done[c]}

(* fault: a record in flight is let go like a completed one *)
EvictedAny(recs, done) == IF Len(recs) > Capacity THEN RemoveAt(recs, 1) ELSE recs

(* fault: one completed record too many is kept *)
EvictedLate(recs, done) ==
  IF Cardinality(Completed(recs, done)) > Capacity + 1
  THEN RemoveAt(recs, Min({k \in DOMAIN recs : done[recs[k]]}))
  ELSE recs

(* _evict_completed: the oldest completed record goes when there are more   *)
(* than Capacity.  The loop lets no second one go: it follows every         *)
(* completion, and one completion adds one record (else MemoryBounded would *)
(* be false here).                                                          *)
Evicted(recs, done) ==
  IF Cardinality(Completed(recs, done)) > Capacity
  THEN RemoveAt(recs, Min({k \in DOMAIN recs : done[recs[k]]}))
  ELSE recs

Init ==
  /\ place = [c \in Calls |-> "idle"]
  /\ request \in [Calls -> Requests]
  /\ awaited = [c \in Calls |-> c]
  /\ complete = [c \in Calls |-> FALSE]
  /\ outcome = [c \in Calls |-> "none"]
  /\ records = << >>

-----------------------------------------------------------------------------
(* execute(), first section under the lock *)

(* A new id: this call executes it.                                         *)
Register(c) ==
  /\ place[c] = "idle"
  /\ ~InRecords(request[c].id)
  /\ records' = Append(records, c)
  /\ place' = [place EXCEPT ![c] = "running"]
  /\ UNCHANGED <<request, awaited, complete, outcome>>

Known(c) == place[c] = "idle" /\ InRecords(request[c].id)

SameContent(c) == request[RecordOf(request[c].id)].fingerprint = request[c].fingerprint

Conflict(c) ==
  /\ Known(c)
  /\ ~SameContent(c)
  /\ place' = [place EXCEPT ![c] = "conflict"]
  /\ UNCHANGED <<request, awaited, complete, outcome, records>>

(* fault: a record is found by its id alone *)
FindById(c) ==
  /\ Known(c)
  /\ awaited' = [awaited EXCEPT ![c] = RecordOf(request[c].id)]
  /\ IF complete[RecordOf(request[c].id)]
       THEN /\ place' = [place EXCEPT ![c] = "answered"]
            /\ records' = MovedToEnd(request[c].id)
       ELSE /\ place' = [place EXCEPT ![c] = "waiting"]
            /\ UNCHANGED records
  /\ UNCHANGED <<request, complete, outcome>>

(* A duplicate: its result is there, or it waits on the condition, which    *)
(* lets go of the lock.                                                     *)
Find(c) ==
  /\ Known(c)
  /\ SameContent(c)
  /\ awaited' = [awaited EXCEPT ![c] = RecordOf(request[c].id)]
  /\ IF complete[RecordOf(request[c].id)]
       THEN /\ place' = [place EXCEPT ![c] = "answered"]
            /\ records' = MovedToEnd(request[c].id)
       ELSE /\ place' = [place EXCEPT ![c] = "waiting"]
            /\ UNCHANGED records
  /\ UNCHANGED <<request, complete, outcome>>

(* The wait ends when the record is complete; by then the dictionary may    *)
(* have let the record go, and move_to_end raises KeyError.                 *)
Wake(c) ==
  /\ place[c] = "waiting"
  /\ complete[awaited[c]]
  /\ IF InRecords(request[c].id)
       THEN /\ place' = [place EXCEPT ![c] = "answered"]
            /\ records' = MovedToEnd(request[c].id)
       ELSE /\ place' = [place EXCEPT ![c] = "keyError"]
            /\ UNCHANGED records
  /\ UNCHANGED <<request, awaited, complete, outcome>>

-----------------------------------------------------------------------------
(* operation(), outside of the lock, returns or raises.                     *)
Execute(c) ==
  /\ place[c] = "running"
  /\ place' = [place EXCEPT ![c] = "executed"]
  /\ \E o \in {"result", "error"} : outcome' = [outcome EXCEPT ![c] = o]
  /\ UNCHANGED <<request, awaited, complete, records>>

(* fault: an operation that raises leaves its record open *)
CommitResultsOnly(c) ==
  /\ place[c] = "executed"
  /\ place' = [place EXCEPT ![c] = "answered"]
  /\ IF outcome[c] = "error"
       THEN UNCHANGED <<complete, records>>
       ELSE /\ complete' = [complete EXCEPT ![c] = TRUE]
            /\ records' = Evicted(MovedToEnd(request[c].id), complete')
  /\ UNCHANGED <<request, awaited, outcome>>

(* The result or the error is filed, old records go, the waiters are told.  *)
Commit(c) ==
  /\ place[c] = "executed"
  /\ complete' = [complete EXCEPT ![c] = TRUE]
  /\ records' = Evicted(MovedToEnd(request[c].id), complete')
  /\ place' = [place EXCEPT ![c] = "answered"]
  /\ UNCHANGED <<request, awaited, outcome>>

Step(c) ==
  Register(c) \/ Conflict(c) \/ Find(c) \/ Wake(c) \/ Execute(c) \/ Commit(c)

Next == \E c \in Calls : Step(c)

Spec == Init /\ [][Next]_vars

(* A thread that is in execute() goes on, operation() returns.              *)
FairSpec == Spec /\ \A c \in Calls : WF_vars(place[c] # "idle" /\ Step(c))

-----------------------------------------------------------------------------
(* Type of the guard's state; the dictionary holds one record of an id.     *)
GuardTypeOK ==
  /\ place \in [Calls -> Places]
  /\ request \in [Calls -> Requests]
  /\ awaited \in [Calls -> Calls]
  /\ complete \in [Calls -> BOOLEAN]
  /\ outcome \in [Calls -> {"none", "result", "error"}]
  /\ records \in Seq(Calls)
  /\ \A j, k \in DOMAIN records :
       request[records[j]].id = request[records[k]].id => j = k

InFlight(c) == place[c] \in {"running", "executed"}

(* Two resets with one request id never run at the same time: the record of *)
(* a reset in flight stays in the dictionary, whatever is let go around it. *)
OneExecutionPerId ==
  \A c, d \in Calls :
    InFlight(c) /\ InFlight(d) /\ request[c].id = request[d].id => c = d

(* A call is answered from one execution of its very request, finished when *)
(* it is answered: a duplicate never gets the result of other content, nor  *)
(* a result before there is one.                                            *)
ReplaysItsOwnRequest ==
  \A c \in Calls : place[c] = "answered" =>
    /\ request[awaited[c]] = request[c]
    /\ complete[awaited[c]]
    /\ outcome[awaited[c]] # "none"

(* The memory of completed resets is bounded, whatever the order in which   *)
(* operations end.                                                          *)
MemoryBounded ==
  Cardinality({c \in Range(records) : complete[c]}) <= Capacity

(* No duplicate waits for ever, also when the original raised.              *)
EveryCallEnds ==
  \A c \in Calls :
    place[c] = "waiting" ~> place[c] \in {"answered", "keyError"}

=============================================================================
