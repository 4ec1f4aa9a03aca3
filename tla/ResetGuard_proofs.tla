-------------------------- MODULE ResetGuard_proofs --------------------------
(***************************************************************************)
(* What MCResetGuard.cfg checks for four calls, for any calls, ids,        *)
(* contents and capacity.                                                  *)
(***************************************************************************)
EXTENDS ResetGuard, SequenceTheorems, FiniteSetTheorems, WellFoundedInduction, TLAPS

(* The dictionary has one entry of an id.                                   *)
Distinct(s) ==
  \A j, k \in DOMAIN s : request[s[j]].id = request[s[k]].id => j = k

(* What is in the dictionary is in flight or complete, and a reset in       *)
(* flight is there.                                                         *)
RecordsInv ==
  /\ \A c \in Range(records) : InFlight(c) \/ complete[c]
  /\ \A c \in Calls : InFlight(c) => c \in Range(records) /\ ~complete[c]

(* A complete record is that of a call which has returned.                  *)
CompleteInv ==
  \A c \in Calls :
    /\ complete[c] => place[c] = "answered" /\ outcome[c] # "none"
    /\ place[c] = "executed" => outcome[c] # "none"

(* A call that has not found a record speaks of its own; one that has found *)
(* a record, of one with its content.                                       *)
AwaitedInv ==
  \A c \in Calls :
    /\ place[c] \in {"idle", "running", "executed"} => awaited[c] = c
    /\ place[c] \in {"waiting", "answered"} => request[awaited[c]] = request[c]
    /\ place[c] = "answered" => complete[awaited[c]]

Inv == GuardTypeOK /\ RecordsInv /\ CompleteInv /\ AwaitedInv /\ MemoryBounded

-----------------------------------------------------------------------------
(* Sequences and sets.                                                      *)

LEMMA NaturalsHaveMin ==
  ASSUME NEW T, T \subseteq Nat, T # {}
  PROVE  Min(T) \in T
<1>1. \E x \in T : \A y \in T : ~ (<<y, x>> \in OpToRel(<, Nat))
  BY WFMin, NatLessThanWellFounded
<1>2. ASSUME NEW x \in Nat, NEW y \in Nat, ~ (<<y, x>> \in OpToRel(<, Nat))
      PROVE  x <= y
  BY <1>2 DEF OpToRel
<1>3. \E x \in T : \A y \in T : x <= y
  BY <1>1, <1>2
<1> QED BY <1>3 DEF Min

LEMMA RangeFacts ==
  ASSUME NEW S, NEW s \in Seq(S)
  PROVE  /\ \A x : x \in Range(s) <=> \E k \in 1..Len(s) : s[k] = x
         /\ Range(s) \subseteq S /\ DOMAIN s = 1..Len(s) /\ Len(s) \in Nat
BY DEF Range

LEMMA RangeFinite ==
  ASSUME NEW S, NEW s \in Seq(S)
  PROVE  IsFiniteSet(Range(s))
<1>1. IsFiniteSet(1..Len(s)) /\ DOMAIN s = 1..Len(s)
  BY FS_Interval
<1>2. s \in Surjection(1..Len(s), Range(s))
  BY DEF Surjection, Range
<1> QED BY <1>1, <1>2, FS_Surjection

LEMMA RemoveAtFacts ==
  ASSUME NEW S, NEW s \in Seq(S), NEW k \in 1..Len(s)
  PROVE  /\ RemoveAt(s, k) \in Seq(S) /\ Len(RemoveAt(s, k)) = Len(s) - 1
         /\ \A i \in 1..(Len(s) - 1) :
              RemoveAt(s, k)[i] = IF i < k THEN s[i] ELSE s[i + 1]
<1> DEFINE a == SubSeq(s, 1, k - 1)
           b == SubSeq(s, k + 1, Len(s))
<1>1. Len(s) \in Nat /\ k \in Nat /\ 1 <= k /\ k <= Len(s) /\ \A i \in 1..Len(s) : s[i] \in S
  OBVIOUS
<1>2. /\ a \in Seq(S) /\ Len(a) = k - 1 /\ \A i \in 1..(k - 1) : a[i] = s[i]
  <2>1. \A i \in 1..(k - 1) : s[i] \in S
    BY <1>1
  <2> QED BY <1>1, <2>1, SubSeqProperties
<1>3. /\ b \in Seq(S) /\ Len(b) = Len(s) - k
      /\ \A i \in 1..(Len(s) - k) : b[i] = s[k + i]
  <2>1. \A i \in (k + 1)..Len(s) : s[i] \in S
    BY <1>1
  <2> QED BY <1>1, <2>1, SubSeqProperties
<1>4. RemoveAt(s, k) = a \o b
  BY DEF RemoveAt
<1> HIDE DEF a, b
<1>5. /\ a \o b \in Seq(S) /\ Len(a \o b) = Len(s) - 1
      /\ \A i \in 1..(Len(s) - 1) : (a \o b)[i] = IF i <= k - 1 THEN a[i] ELSE b[i - (k - 1)]
  BY <1>1, <1>2, <1>3, ConcatProperties
<1>6. ASSUME NEW i \in 1..(Len(s) - 1)
      PROVE  (a \o b)[i] = IF i < k THEN s[i] ELSE s[i + 1]
  <2>1. CASE i < k
    BY <1>1, <1>2, <1>5, <2>1
  <2>2. CASE ~(i < k)
    <3>1. i - (k - 1) \in 1..(Len(s) - k) /\ k + (i - (k - 1)) = i + 1
      BY <1>1, <2>2
    <3> QED BY <1>1, <1>3, <1>5, <2>2, <3>1
  <2> QED BY <2>1, <2>2
<1> QED BY <1>4, <1>5, <1>6

(* What is taken out of a sequence of distinct ids is gone, and nothing     *)
(* else.                                                                    *)
LEMMA RemovedFrom ==
  ASSUME NEW s \in Seq(Calls), Distinct(s), NEW k \in 1..Len(s)
  PROVE  /\ RemoveAt(s, k) \in Seq(Calls) /\ Distinct(RemoveAt(s, k))
         /\ Range(RemoveAt(s, k)) = Range(s) \ {s[k]}
<1> DEFINE r == RemoveAt(s, k)
<1>1. /\ r \in Seq(Calls) /\ Len(r) = Len(s) - 1 /\ DOMAIN r = 1..(Len(s) - 1)
      /\ \A i \in 1..(Len(s) - 1) : r[i] = IF i < k THEN s[i] ELSE s[i + 1]
  BY RemoveAtFacts
<1> HIDE DEF r
<1>2. Len(s) \in Nat /\ k \in Nat /\ 1 <= k /\ k <= Len(s) /\ DOMAIN s = 1..Len(s)
  OBVIOUS
<1>3. Distinct(r)
  <2> SUFFICES ASSUME NEW i \in 1..(Len(s) - 1), NEW j \in 1..(Len(s) - 1),
                      request[r[i]].id = request[r[j]].id
               PROVE  i = j
    BY <1>1 DEF Distinct
  <2> DEFINE p == IF i < k THEN i ELSE i + 1
             q == IF j < k THEN j ELSE j + 1
  <2>1. p \in 1..Len(s) /\ q \in 1..Len(s) /\ r[i] = s[p] /\ r[j] = s[q]
    BY <1>1, <1>2
  <2>2. p = q
    BY <1>2, <2>1 DEF Distinct
  <2> QED BY <1>2, <2>2
<1>4. ASSUME NEW x
      PROVE  x \in Range(r) <=> x \in Range(s) \ {s[k]}
  <2>1. x \in Range(r) <=> \E i \in 1..(Len(s) - 1) : r[i] = x
    BY <1>1, RangeFacts
  <2>2. x \in Range(s) <=> \E i \in 1..Len(s) : s[i] = x
    BY RangeFacts
  <2>3. ASSUME x \in Range(r)
        PROVE  x \in Range(s) \ {s[k]}
    <3>1. PICK i \in 1..(Len(s) - 1) : r[i] = x
      BY <2>1, <2>3
    <3>2. PICK p \in 1..Len(s) : p # k /\ s[p] = x
      <4>1. CASE i < k
        BY <1>1, <1>2, <3>1, <4>1
      <4>2. CASE ~(i < k)
        <5>1. i + 1 \in 1..Len(s) /\ i + 1 # k /\ s[i + 1] = x
          BY <1>1, <1>2, <3>1, <4>2
        <5> QED BY <5>1
      <4> QED BY <4>1, <4>2
    <3> QED BY <1>2, <2>2, <3>2 DEF Distinct
  <2>4. ASSUME x \in Range(s) \ {s[k]}
        PROVE  x \in Range(r)
    <3>1. PICK p \in 1..Len(s) : s[p] = x /\ p # k
      BY <2>2, <2>4
    <3>2. CASE p < k
      BY <1>1, <1>2, <2>1, <3>1, <3>2
    <3>3. CASE p > k
      <4>1. p - 1 \in 1..(Len(s) - 1) /\ ~(p - 1 < k) /\ (p - 1) + 1 = p
        BY <1>2, <3>3
      <4>2. r[p - 1] = x
        BY <1>1, <3>1, <4>1
      <4> QED BY <2>1, <4>1, <4>2
    <3> QED BY <1>2, <3>1, <3>2, <3>3
  <2> QED BY <2>3, <2>4
<1> QED BY <1>1, <1>3, <1>4 DEF r

(* What is put at the end is there, and everything else too.                *)
LEMMA PutAtEnd ==
  ASSUME NEW s \in Seq(Calls), Distinct(s), NEW c \in Calls,
         \A d \in Range(s) : request[d].id # request[c].id
  PROVE  /\ Append(s, c) \in Seq(Calls) /\ Distinct(Append(s, c))
         /\ Range(Append(s, c)) = Range(s) \cup {c}
<1> DEFINE a == Append(s, c)
           n == Len(s)
<1>1. /\ a \in Seq(Calls) /\ Len(a) = n + 1 /\ DOMAIN a = 1..(n + 1)
      /\ \A i \in 1..n : a[i] = s[i]
      /\ a[n + 1] = c
  BY AppendProperties
<1> HIDE DEF a
<1>2. n \in Nat /\ DOMAIN s = 1..n
  OBVIOUS
<1>3. \A i \in 1..n : s[i] \in Range(s)
  BY RangeFacts
<1>4. Distinct(a)
  <2> SUFFICES ASSUME NEW i \in 1..(n + 1), NEW j \in 1..(n + 1),
                      request[a[i]].id = request[a[j]].id
               PROVE  i = j
    BY <1>1 DEF Distinct
  <2>1. CASE i \in 1..n /\ j \in 1..n
    BY <1>1, <1>2, <2>1 DEF Distinct
  <2>2. CASE i = n + 1 /\ j \in 1..n
    BY <1>1, <1>3, <2>2
  <2>3. CASE i \in 1..n /\ j = n + 1
    BY <1>1, <1>3, <2>3
  <2> QED BY <1>2, <2>1, <2>2, <2>3
<1>5. ASSUME NEW x
      PROVE  x \in Range(a) <=> x \in Range(s) \cup {c}
  <2>1. x \in Range(a) <=> \E i \in 1..(n + 1) : a[i] = x
    BY <1>1, RangeFacts
  <2>2. x \in Range(s) <=> \E i \in 1..n : s[i] = x
    BY RangeFacts
  <2>3. n + 1 \in 1..(n + 1) /\ \A i \in 1..n : i \in 1..(n + 1)
    BY <1>2
  <2>4. \A i \in 1..(n + 1) : i = n + 1 \/ i \in 1..n
    BY <1>2
  <2> QED BY <1>1, <2>1, <2>2, <2>3, <2>4
<1> QED BY <1>1, <1>4, <1>5 DEF a

-----------------------------------------------------------------------------
(* The dictionary's operations.                                             *)

LEMMA Found ==
  ASSUME GuardTypeOK, NEW id, InRecords(id)
  PROVE  /\ PlaceOf(id) \in 1..Len(records) /\ RecordOf(id) \in Range(records)
         /\ RecordOf(id) \in Calls /\ request[RecordOf(id)].id = id
<1>1. records \in Seq(Calls) /\ DOMAIN records = 1..Len(records)
  BY DEF GuardTypeOK
<1>2. PlaceOf(id) \in DOMAIN records /\ request[records[PlaceOf(id)]].id = id
  BY DEF InRecords, PlaceOf
<1> QED BY <1>1, <1>2, RangeFacts DEF RecordOf

(* move_to_end loses nothing.                                               *)
LEMMA MovedFacts ==
  ASSUME GuardTypeOK, NEW id, InRecords(id)
  PROVE  /\ MovedToEnd(id) \in Seq(Calls) /\ Distinct(MovedToEnd(id))
         /\ Range(MovedToEnd(id)) = Range(records)
<1> DEFINE r == RemoveAt(records, PlaceOf(id))
<1>1. records \in Seq(Calls) /\ Distinct(records)
  BY DEF GuardTypeOK, Distinct
<1>2. /\ PlaceOf(id) \in 1..Len(records) /\ RecordOf(id) \in Range(records)
      /\ RecordOf(id) \in Calls /\ records[PlaceOf(id)] = RecordOf(id)
  BY Found DEF RecordOf
<1>3. r \in Seq(Calls) /\ Distinct(r) /\ Range(r) = Range(records) \ {RecordOf(id)}
  BY <1>1, <1>2, RemovedFrom
<1>4. ASSUME NEW d \in Range(r)
      PROVE  request[d].id # request[RecordOf(id)].id
  <2>1. PICK j \in 1..Len(records) : records[j] = d
    BY <1>1, <1>3, <1>4, RangeFacts
  <2>2. j # PlaceOf(id)
    BY <1>2, <1>3, <1>4, <2>1
  <2> QED BY <1>1, <1>2, <2>1, <2>2 DEF Distinct
<1>5. MovedToEnd(id) = Append(r, RecordOf(id))
  BY DEF MovedToEnd
<1> HIDE DEF r
<1>6. /\ Append(r, RecordOf(id)) \in Seq(Calls) /\ Distinct(Append(r, RecordOf(id)))
      /\ Range(Append(r, RecordOf(id))) = Range(r) \cup {RecordOf(id)}
  BY <1>2, <1>3, <1>4, PutAtEnd
<1> QED BY <1>2, <1>3, <1>5, <1>6

LEMMA CompletedFinite ==
  ASSUME NEW recs \in Seq(Calls), NEW done
  PROVE  /\ IsFiniteSet(Completed(recs, done))
         /\ Cardinality(Completed(recs, done)) \in Nat
<1>1. IsFiniteSet(Range(recs)) /\ Completed(recs, done) \subseteq Range(recs)
  BY RangeFinite DEF Completed
<1> QED BY <1>1, FS_Subset, FS_CardinalityType

(* Eviction lets no record go that is not complete, and is enough for one   *)
(* record too many.                                                         *)
LEMMA EvictedFacts ==
  ASSUME NEW recs \in Seq(Calls), Distinct(recs), NEW done,
         Cardinality(Completed(recs, done)) <= Capacity + 1
  PROVE  /\ Evicted(recs, done) \in Seq(Calls) /\ Distinct(Evicted(recs, done))
         /\ Range(Evicted(recs, done)) \subseteq Range(recs)
         /\ \A c \in Range(recs) : ~done[c] => c \in Range(Evicted(recs, done))
         /\ Cardinality(Completed(Evicted(recs, done), done)) <= Capacity
<1> DEFINE n == Cardinality(Completed(recs, done))
<1>1. n \in Nat /\ Capacity \in Nat /\ IsFiniteSet(Completed(recs, done))
  BY CompletedFinite, CapacityAssumption
<1>2. CASE ~(n > Capacity)
  BY <1>1, <1>2 DEF Evicted
<1>3. CASE n > Capacity
  <2> DEFINE K == {k \in DOMAIN recs : done[recs[k]]}
             m == Min(K)
  <2>1. K # {} /\ K \subseteq Nat
    <3>1. Completed(recs, done) # {}
      BY <1>1, <1>3, FS_EmptySet
    <3> QED BY <3>1 DEF Completed, Range
  <2>2. m \in 1..Len(recs) /\ done[recs[m]]
    <3>1. m \in K
      BY <2>1, NaturalsHaveMin
    <3> QED BY <3>1
  <2> HIDE DEF m
  <2>3. Evicted(recs, done) = RemoveAt(recs, m)
    BY <1>3 DEF Evicted, m
  <2>4. /\ RemoveAt(recs, m) \in Seq(Calls) /\ Distinct(RemoveAt(recs, m))
        /\ Range(RemoveAt(recs, m)) = Range(recs) \ {recs[m]}
    BY <2>2, RemovedFrom
  <2>5. /\ recs[m] \in Completed(recs, done)
        /\ Completed(RemoveAt(recs, m), done) = Completed(recs, done) \ {recs[m]}
    BY <2>2, <2>4, RangeFacts DEF Completed
  <2>6. Cardinality(Completed(RemoveAt(recs, m), done)) = n - 1
    BY <1>1, <2>5, FS_RemoveElement
  <2> QED BY <1>1, <2>2, <2>3, <2>4, <2>6
<1> QED BY <1>2, <1>3

-----------------------------------------------------------------------------
(* The steps of a call.                                                     *)

LEMMA InitInv == Init => Inv
<1> SUFFICES ASSUME Init PROVE Inv
  OBVIOUS
<1>1. /\ place = [c \in Calls |-> "idle"] /\ request \in [Calls -> Requests]
      /\ awaited = [c \in Calls |-> c] /\ complete = [c \in Calls |-> FALSE]
      /\ outcome = [c \in Calls |-> "none"] /\ records = << >>
  BY DEF Init
<1>2. Range(records) = {} /\ records \in Seq(Calls) /\ DOMAIN records = {}
  BY <1>1 DEF Range
<1>3. GuardTypeOK
  BY <1>1, <1>2 DEF GuardTypeOK, Places
<1>4. RecordsInv /\ CompleteInv /\ AwaitedInv
  BY <1>1, <1>2 DEF RecordsInv, CompleteInv, AwaitedInv, InFlight
<1>5. MemoryBounded
  <2>1. {c \in Range(records) : complete[c]} = {}
    BY <1>2
  <2> QED BY <2>1, FS_EmptySet, CapacityAssumption DEF MemoryBounded
<1> QED BY <1>3, <1>4, <1>5 DEF Inv

LEMMA RegisterPreserves ==
  ASSUME Inv, NEW c \in Calls, Register(c)
  PROVE  Inv'
<1>1. /\ place[c] = "idle" /\ ~InRecords(request[c].id) /\ records' = Append(records, c)
      /\ place' = [place EXCEPT ![c] = "running"]
      /\ UNCHANGED <<request, awaited, complete, outcome>>
  BY DEF Register
<1>2. /\ GuardTypeOK /\ records \in Seq(Calls) /\ Distinct(records)
      /\ RecordsInv /\ CompleteInv /\ AwaitedInv /\ MemoryBounded
  BY DEF Inv, GuardTypeOK, Distinct
<1>3. \A d \in Range(records) : request[d].id # request[c].id
  BY <1>1, <1>2, RangeFacts DEF InRecords
<1>4. records' \in Seq(Calls) /\ Distinct(records') /\ Range(records') = Range(records) \cup {c}
  BY <1>1, <1>2, <1>3, PutAtEnd
<1>5. place' \in [Calls -> Places] /\ place'[c] = "running"
      /\ \A d \in Calls : d # c => place'[d] = place[d]
  BY <1>1, <1>2 DEF GuardTypeOK, Places
<1>6. GuardTypeOK'
  BY <1>1, <1>2, <1>4, <1>5 DEF GuardTypeOK, Distinct
<1>7. ~complete[c]
  BY <1>1, <1>2 DEF CompleteInv
<1>8. Range(records) \subseteq Calls
  BY <1>2, RangeFacts
<1>9. RecordsInv'
  BY <1>1, <1>2, <1>4, <1>5, <1>7, <1>8 DEF RecordsInv, InFlight
<1>10. CompleteInv' /\ AwaitedInv'
  BY <1>1, <1>2, <1>5, <1>7 DEF CompleteInv, AwaitedInv
<1>11. MemoryBounded'
  <2>1. {d \in Range(records') : complete'[d]} = {d \in Range(records) : complete[d]}
    BY <1>1, <1>4, <1>7
  <2> QED BY <1>2, <2>1 DEF MemoryBounded
<1> QED BY <1>6, <1>9, <1>10, <1>11 DEF Inv

(* A call that is neither in flight nor answered from its own record takes  *)
(* its place, and the dictionary keeps its records.                         *)
LEMMA DuplicatePreserves ==
  ASSUME Inv, NEW c \in Calls, ~InFlight(c), ~complete[c],
         NEW p \in {"waiting", "answered", "conflict", "keyError"},
         place' = [place EXCEPT ![c] = p],
         NEW a \in Calls, awaited' = [awaited EXCEPT ![c] = a],
         p \in {"waiting", "answered"} => request[a] = request[c],
         p = "answered" => complete[a],
         records' \in Seq(Calls), Distinct(records'), Range(records') = Range(records),
         UNCHANGED <<request, complete, outcome>>
  PROVE  Inv'
<1>1. /\ GuardTypeOK /\ records \in Seq(Calls)
      /\ RecordsInv /\ CompleteInv /\ AwaitedInv /\ MemoryBounded
  BY DEF Inv, GuardTypeOK
<1>2. /\ place' \in [Calls -> Places] /\ place'[c] = p
      /\ \A d \in Calls : d # c => place'[d] = place[d]
  BY <1>1 DEF GuardTypeOK, Places
<1>3. /\ awaited' \in [Calls -> Calls] /\ awaited'[c] = a
      /\ \A d \in Calls : d # c => awaited'[d] = awaited[d]
  BY <1>1 DEF GuardTypeOK
<1>4. GuardTypeOK'
  BY <1>1, <1>2, <1>3 DEF GuardTypeOK, Distinct
<1>5. Range(records) \subseteq Calls /\ \A d \in Calls : InFlight(d)' <=> InFlight(d)
  BY <1>1, <1>2, RangeFacts DEF InFlight
<1>6. RecordsInv'
  BY <1>1, <1>5 DEF RecordsInv
<1>7. CompleteInv' /\ AwaitedInv'
  BY <1>1, <1>2, <1>3 DEF CompleteInv, AwaitedInv
<1>8. MemoryBounded'
  BY <1>1 DEF MemoryBounded
<1> QED BY <1>4, <1>6, <1>7, <1>8 DEF Inv

LEMMA ExecutePreserves ==
  ASSUME Inv, NEW c \in Calls, Execute(c)
  PROVE  Inv'
<1>1. /\ place[c] = "running" /\ place' = [place EXCEPT ![c] = "executed"]
      /\ UNCHANGED <<request, awaited, complete, records>>
  BY DEF Execute
<1>2. PICK o \in {"result", "error"} : outcome' = [outcome EXCEPT ![c] = o]
  BY DEF Execute
<1>3. /\ GuardTypeOK /\ records \in Seq(Calls)
      /\ RecordsInv /\ CompleteInv /\ AwaitedInv /\ MemoryBounded
  BY DEF Inv, GuardTypeOK
<1>4. /\ place' \in [Calls -> Places] /\ place'[c] = "executed"
      /\ \A d \in Calls : d # c => place'[d] = place[d]
  BY <1>1, <1>3 DEF GuardTypeOK, Places
<1>5. /\ outcome' \in [Calls -> {"none", "result", "error"}] /\ outcome'[c] # "none"
      /\ \A d \in Calls : d # c => outcome'[d] = outcome[d]
  BY <1>2, <1>3 DEF GuardTypeOK
<1>6. GuardTypeOK'
  BY <1>1, <1>3, <1>4, <1>5 DEF GuardTypeOK
<1>7. Range(records) \subseteq Calls /\ \A d \in Calls : InFlight(d)' <=> InFlight(d)
  BY <1>1, <1>3, <1>4, RangeFacts DEF InFlight
<1>8. RecordsInv'
  BY <1>1, <1>3, <1>7 DEF RecordsInv
<1>9. CompleteInv' /\ AwaitedInv'
  BY <1>1, <1>3, <1>4, <1>5 DEF CompleteInv, AwaitedInv
<1>10. MemoryBounded'
  BY <1>1, <1>3 DEF MemoryBounded
<1> QED BY <1>6, <1>8, <1>9, <1>10 DEF Inv

LEMMA CommitPreserves ==
  ASSUME Inv, NEW c \in Calls, Commit(c)
  PROVE  Inv'
<1> DEFINE moved == MovedToEnd(request[c].id)
<1>1. /\ place[c] = "executed" /\ place' = [place EXCEPT ![c] = "answered"]
      /\ complete' = [complete EXCEPT ![c] = TRUE] /\ records' = Evicted(moved, complete')
      /\ UNCHANGED <<request, awaited, outcome>>
  BY DEF Commit
<1>2. /\ GuardTypeOK /\ records \in Seq(Calls)
      /\ RecordsInv /\ CompleteInv /\ AwaitedInv /\ MemoryBounded
  BY DEF Inv, GuardTypeOK
<1>3. /\ place' \in [Calls -> Places] /\ place'[c] = "answered"
      /\ \A d \in Calls : d # c => place'[d] = place[d]
  BY <1>1, <1>2 DEF GuardTypeOK, Places
<1>4. /\ complete' \in [Calls -> BOOLEAN] /\ complete'[c]
      /\ \A d \in Calls : d # c => complete'[d] = complete[d]
  BY <1>1, <1>2 DEF GuardTypeOK
<1>5. c \in Range(records) /\ ~complete[c]
  BY <1>1, <1>2 DEF RecordsInv, InFlight
<1>6. InRecords(request[c].id)
  BY <1>2, <1>5, RangeFacts DEF InRecords
<1>7. moved \in Seq(Calls) /\ Distinct(moved) /\ Range(moved) = Range(records)
  BY <1>2, <1>6, MovedFacts
<1> HIDE DEF moved
<1>8. Cardinality(Completed(moved, complete')) <= Capacity + 1
  <2>1. Completed(moved, complete') = Completed(records, complete) \cup {c}
    <3>1. Range(records) \subseteq Calls
      BY <1>2, RangeFacts
    <3> QED BY <1>4, <1>5, <1>7, <3>1 DEF Completed
  <2>2. /\ IsFiniteSet(Completed(records, complete))
        /\ Cardinality(Completed(records, complete)) \in Nat
        /\ Cardinality(Completed(records, complete)) <= Capacity
    BY <1>2, CompletedFinite DEF MemoryBounded, Completed
  <2>3. c \notin Completed(records, complete)
    BY <1>5 DEF Completed
  <2> QED BY <2>1, <2>2, <2>3, FS_AddElement, CapacityAssumption
<1>9. /\ records' \in Seq(Calls) /\ Distinct(records')
      /\ Range(records') \subseteq Range(records)
      /\ \A d \in Range(records) : ~complete'[d] => d \in Range(records')
      /\ Cardinality(Completed(records', complete')) <= Capacity
  BY <1>1, <1>7, <1>8, EvictedFacts
<1>10. GuardTypeOK'
  BY <1>1, <1>2, <1>3, <1>4, <1>9 DEF GuardTypeOK, Distinct
<1>11. RecordsInv'
  <2>1. Range(records) \subseteq Calls
    BY <1>2, RangeFacts
  <2>2. \A d \in Calls : InFlight(d)' <=> InFlight(d) /\ d # c
    BY <1>3 DEF InFlight
  <2>3. \A d \in Range(records') : InFlight(d)' \/ complete'[d]
    BY <1>2, <1>4, <1>9, <2>1, <2>2 DEF RecordsInv
  <2>4. \A d \in Calls : InFlight(d)' => d \in Range(records') /\ ~complete'[d]
    BY <1>2, <1>4, <1>9, <2>2 DEF RecordsInv
  <2> QED BY <2>3, <2>4 DEF RecordsInv
<1>12. CompleteInv'
  BY <1>1, <1>2, <1>3, <1>4 DEF CompleteInv
<1>13. AwaitedInv'
  <2>1. awaited[c] = c
    BY <1>1, <1>2 DEF AwaitedInv
  <2>2. \A d \in Calls : awaited[d] \in Calls
    BY <1>2 DEF GuardTypeOK
  <2> QED BY <1>1, <1>2, <1>3, <1>4, <2>1, <2>2 DEF AwaitedInv
<1>14. MemoryBounded'
  BY <1>9 DEF MemoryBounded, Completed
<1> QED BY <1>10, <1>11, <1>12, <1>13, <1>14 DEF Inv

LEMMA NextPreserves == Inv /\ [Next]_vars => Inv'
<1> SUFFICES ASSUME Inv, [Next]_vars PROVE Inv'
  OBVIOUS
<1>1. /\ GuardTypeOK /\ records \in Seq(Calls) /\ Distinct(records)
      /\ CompleteInv /\ AwaitedInv /\ request \in [Calls -> Requests]
      /\ awaited \in [Calls -> Calls]
  BY DEF Inv, GuardTypeOK, Distinct
<1>2. ASSUME NEW c \in Calls, Conflict(c)
      PROVE  Inv'
  <2>1. /\ place[c] = "idle" /\ place' = [place EXCEPT ![c] = "conflict"]
        /\ UNCHANGED <<request, awaited, complete, outcome, records>>
    BY <1>2 DEF Conflict, Known
  <2>2. awaited' = [awaited EXCEPT ![c] = awaited[c]] /\ awaited[c] \in Calls
    BY <1>1, <2>1
  <2>3. ~InFlight(c) /\ ~complete[c]
    BY <1>1, <2>1 DEF InFlight, CompleteInv
  <2>4. records' \in Seq(Calls) /\ Distinct(records') /\ Range(records') = Range(records)
    BY <1>1, <2>1
  <2> QED BY <2>1, <2>2, <2>3, <2>4, DuplicatePreserves
<1>3. ASSUME NEW c \in Calls, Find(c)
      PROVE  Inv'
  <2> DEFINE r == RecordOf(request[c].id)
  <2>1. /\ place[c] = "idle" /\ InRecords(request[c].id) /\ SameContent(c)
        /\ awaited' = [awaited EXCEPT ![c] = r]
        /\ UNCHANGED <<request, complete, outcome>>
    BY <1>3 DEF Find, Known
  <2>2. r \in Calls /\ request[r].id = request[c].id
    BY <1>1, <2>1, Found
  <2>3. request[r].fingerprint = request[c].fingerprint
    BY <2>1 DEF SameContent
  <2>4. request[r] = request[c]
    <3>1. request[r] \in Requests /\ request[c] \in Requests
      BY <1>1, <2>2
    <3> QED BY <2>2, <2>3, <3>1 DEF Requests
  <2>5. ~InFlight(c) /\ ~complete[c]
    BY <1>1, <2>1 DEF InFlight, CompleteInv
  <2>6. CASE complete[r]
    <3>1. /\ place' = [place EXCEPT ![c] = "answered"]
          /\ records' = MovedToEnd(request[c].id)
      BY <1>3, <2>6 DEF Find
    <3>2. records' \in Seq(Calls) /\ Distinct(records') /\ Range(records') = Range(records)
      BY <1>1, <2>1, <3>1, MovedFacts
    <3> HIDE DEF r
    <3> QED BY <2>1, <2>2, <2>4, <2>5, <2>6, <3>1, <3>2, DuplicatePreserves
  <2>7. CASE ~complete[r]
    <3>1. place' = [place EXCEPT ![c] = "waiting"] /\ records' = records
      BY <1>3, <2>7 DEF Find
    <3>2. records' \in Seq(Calls) /\ Distinct(records') /\ Range(records') = Range(records)
      BY <1>1, <3>1
    <3> HIDE DEF r
    <3> QED BY <2>1, <2>2, <2>4, <2>5, <2>7, <3>1, <3>2, DuplicatePreserves
  <2> QED BY <2>6, <2>7
<1>4. ASSUME NEW c \in Calls, Wake(c)
      PROVE  Inv'
  <2>1. /\ place[c] = "waiting" /\ complete[awaited[c]] /\ awaited[c] \in Calls
        /\ awaited' = [awaited EXCEPT ![c] = awaited[c]]
        /\ UNCHANGED <<request, complete, outcome>>
    BY <1>1, <1>4 DEF Wake
  <2>2. ~InFlight(c) /\ ~complete[c] /\ request[awaited[c]] = request[c]
    BY <1>1, <2>1 DEF InFlight, CompleteInv, AwaitedInv
  <2>3. CASE InRecords(request[c].id)
    <3>1. /\ place' = [place EXCEPT ![c] = "answered"]
          /\ records' = MovedToEnd(request[c].id)
      BY <1>4, <2>3 DEF Wake
    <3>2. records' \in Seq(Calls) /\ Distinct(records') /\ Range(records') = Range(records)
      BY <1>1, <2>3, <3>1, MovedFacts
    <3> QED BY <2>1, <2>2, <3>1, <3>2, DuplicatePreserves
  <2>4. CASE ~InRecords(request[c].id)
    <3>1. place' = [place EXCEPT ![c] = "keyError"] /\ records' = records
      BY <1>4, <2>4 DEF Wake
    <3>2. records' \in Seq(Calls) /\ Distinct(records') /\ Range(records') = Range(records)
      BY <1>1, <3>1
    <3> QED BY <2>1, <2>2, <3>1, <3>2, DuplicatePreserves
  <2> QED BY <2>3, <2>4
<1>5. CASE UNCHANGED vars
  BY <1>5 DEF vars, Inv, GuardTypeOK, RecordsInv, CompleteInv, AwaitedInv, MemoryBounded,
    InFlight
<1> QED BY <1>2, <1>3, <1>4, <1>5, RegisterPreserves, ExecutePreserves, CommitPreserves
      DEF Next, Step

LEMMA AlwaysInv == Spec => []Inv
BY InitInv, NextPreserves, PTL DEF Spec

-----------------------------------------------------------------------------
(* The guard's state keeps its type, and the ordered dictionary never holds *)
(* two records of one id, also when a record is put at its end.             *)
THEOREM GuardTypeCorrect == Spec => []GuardTypeOK
<1>1. Inv => GuardTypeOK
  BY DEF Inv
<1> QED BY <1>1, AlwaysInv, PTL

(* execute() never runs two resets with one request id at the same time:    *)
(* eviction leaves the record of a reset in flight, whatever the capacity.  *)
THEOREM ExecutesOnce == Spec => []OneExecutionPerId
<1>1. Inv => OneExecutionPerId
  <2> SUFFICES ASSUME Inv, NEW c \in Calls, NEW d \in Calls, InFlight(c), InFlight(d),
                      request[c].id = request[d].id
               PROVE  c = d
    BY DEF OneExecutionPerId
  <2>1. c \in Range(records) /\ d \in Range(records) /\ records \in Seq(Calls)
    BY DEF Inv, RecordsInv, GuardTypeOK
  <2>2. PICK j \in DOMAIN records : records[j] = c
    BY <2>1, RangeFacts
  <2>3. PICK k \in DOMAIN records : records[k] = d
    BY <2>1, RangeFacts
  <2>4. j = k
    BY <2>2, <2>3 DEF Inv, GuardTypeOK
  <2> QED BY <2>2, <2>3, <2>4
<1> QED BY <1>1, AlwaysInv, PTL

(* A duplicate is answered from a finished execution of its own id and      *)
(* content, also when the record it waited for has been let go and its id   *)
(* has come back with other content (execute).                              *)
THEOREM ReplaysRightResult == Spec => []ReplaysItsOwnRequest
<1>1. Inv => ReplaysItsOwnRequest
  BY DEF Inv, AwaitedInv, CompleteInv, GuardTypeOK, ReplaysItsOwnRequest
<1> QED BY <1>1, AlwaysInv, PTL

(* At most Capacity completed records are kept, whatever the number of      *)
(* resets in flight: the one pass of _evict_completed after a completion    *)
(* lets one record go, and one is enough.                                   *)
THEOREM MemoryIsBounded == Spec => []MemoryBounded
<1>1. Inv => MemoryBounded
  BY DEF Inv
<1> QED BY <1>1, AlwaysInv, PTL
=============================================================================
