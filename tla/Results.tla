------------------------------- MODULE Results -------------------------------
(***************************************************************************)
(* The recorder together with a reader of its tree, which may look at it   *)
(* while it is being written or after a crash.  validate_result_tree lists *)
(* the root, reads the documents one by one in the order below, and judges *)
(* what it has found; the recorder may take any number of steps between    *)
(* two reads.                                                              *)
(***************************************************************************)
EXTENDS Recorder

VARIABLES reading,   \* what the reader has still to look at
          copy,      \* what it has found
          verdict    \* what it says of the tree

reader == <<reading, copy, verdict>>
vars == <<recorderVars, reader>>

Places == Paths \cup Listings
NothingFound == [i \in Places |-> Absent]

Look(i) ==
  IF i[2] # "ls" THEN disk[i]
  ELSE IF i[1] = "episodes" THEN {e \in Episodes : disk[Entry(e)] # Absent}
  ELSE {n \in FilesOf(i[1]) : disk[<<i[1], n>>] # Absent}
         \cup (IF i[1] \in litter THEN {".tmp"} ELSE {})

(* After the summary, the reader visits the episodes it lists in its order. *)
PlacesOf(e) ==
  <<Listing(e), <<e, "episode">>, <<e, "metrics">>, <<e, "trajectory">>, <<e, "events">> >>

Visits(episodes) ==
  [k \in 1..(5 * Len(episodes) + 1) |->
     IF k <= 5 * Len(episodes)
     THEN PlacesOf(episodes[(k + 4) \div 5].episode)[((k - 1) % 5) + 1]
     ELSE Listing("episodes")]

ReaderInit == reading = <<>> /\ copy = NothingFound /\ verdict = "none"

Init == RecorderInit /\ ReaderInit

StartReading ==
  /\ verdict = "none"
  /\ disk[Entry(Root)] # Absent
  /\ verdict' = "reading"
  /\ reading' = <<Listing(Root), Config, Metadata, Summary>>
  /\ UNCHANGED copy

(* A listing of a directory with a file too few or too many, or a document  *)
(* that is not there, ends the reading at once.                             *)
Missing(i) ==
  \/ disk[Entry(Root)] = Absent
  \/ i[2] # "ls" /\ disk[i] = Absent
  \/ i[2] = "ls" /\ i[1] \in Directories /\ Look(i) # FilesOf(i[1])

ReadNext ==
  /\ verdict = "reading"
  /\ LET i == Head(reading)
         found == [copy EXCEPT ![i] = Look(i)]
         rest == Tail(reading) \o (IF i = Summary THEN Visits(disk[Summary].episodes) ELSE <<>>)
     IN  IF Missing(i) \/ (rest = <<>> /\ ~Accepts(found))
         THEN verdict' = "rejected" /\ reading' = <<>> /\ copy' = NothingFound
         ELSE /\ reading' = rest /\ copy' = found
              /\ verdict' = IF rest = <<>> THEN "accepted" ELSE "reading"

ReaderNext == StartReading \/ ReadNext

Next ==
  \/ RecorderNext /\ UNCHANGED reader
  \/ ReaderNext /\ UNCHANGED recorderVars

Spec == Init /\ [][Next]_vars

-----------------------------------------------------------------------------
(* Properties.                                                              *)

(* Every document is one of its path; a temporary file belongs to the write *)
(* in progress while the process runs.                                      *)
ResTypeOK ==
  /\ started \in BOOLEAN /\ finished \in BOOLEAN /\ up \in BOOLEAN
  /\ \A i \in DOMAIN begun : begun[i] = Configured[i]
  /\ call.op \in {"none", "start", "begin", "record", "complete", "finish"}
  /\ stage \in {"new", "written", "replaced"}
  /\ up => litter = (IF stage = "written" THEN {Head(todo)[1]} ELSE {})
  /\ \A p \in Paths : IsDirectory(p) => disk[p] \in {Absent, Directory}
  /\ \A e \in Episodes : disk[<<e, "episode">>] \in {Absent, e}
  /\ disk[Metadata] \in {Absent} \cup [complete : BOOLEAN]
  /\ verdict \in {"none", "reading", "accepted", "rejected"}
  /\ DOMAIN copy = Places

(* The two commit markers mean what RESULT_SCHEMA.md:31-36 says, to a       *)
(* reader that races the recorder or comes after a crash: where it accepts  *)
(* a complete episode it has read exactly the metrics, the trajectory and   *)
(* the events of the calls, and a complete manifest only with all of the    *)
(* configured episodes.                                                     *)
MarkersAreTrue ==
  verdict = "accepted" =>
    /\ \A e \in ListedIn(copy[Summary]) :
         copy[<<e, "metrics">>].complete =>
           /\ promised.results[e] # Absent
           /\ copy[<<e, "metrics">>] = promised.results[e].metrics
           /\ copy[<<e, "trajectory">>] = promised.results[e].trajectory
           /\ copy[<<e, "events">>] = promised.events[e]
    /\ copy[Metadata].complete => ListedIn(copy[Summary]) = Episodes

(* Once start() and every begin_episode() have returned, the tree is one    *)
(* the reader accepts at every instant, between two replacements of one     *)
(* call, when writes have failed, and after a crash or a power loss: except *)
(* with a temporary file in it, and except after a finish(complete=True)    *)
(* that raised, whose fallback takes the summary back before the manifest.  *)
(* This is for a file system on which the fsync of a directory makes the    *)
(* entry of a new one durable (EntriesSynced), and for events without a     *)
(* Unicode line boundary (no text in LineBreaking): with such a text even a *)
(* tree that nothing has interrupted is unreadable (recorder.py:363,        *)
(* reader.py:241).                                                          *)
Snapshot == [i \in Places |-> Look(i)]

InterruptedReadable ==
  (/\ {"root"} \cup Begun \subseteq promised.opened
   /\ litter = {} /\ promised.closed # "failed")
    => Accepts(Snapshot)

(* What the visible tree promises about results is what a journal promises  *)
(* that files each of them at one instant (ResultJournal.tla).              *)
Filed(e) ==
  IF disk[<<e, "metrics">>] # Absent /\ disk[<<e, "metrics">>].complete
  THEN [metrics |-> disk[<<e, "metrics">>], trajectory |-> disk[<<e, "trajectory">>],
        events |-> disk[<<e, "events">>]]
  ELSE Absent

Journal == INSTANCE ResultJournal WITH
             filed <- [e \in Episodes |-> Filed(e)], confirmed <- {e \in Episodes : buffer[e].complete},
             sealed <- disk[Metadata] # Absent /\ disk[Metadata].complete,
             settled <- promised.closed = "complete", down <- ~up

KeepsJournal == Journal!Spec

(* rh_experiment/README.md:41: "Recording begins with durable               *)
(* `complete=false` commit markers, so interrupted runs remain              *)
(* independently parseable": once start() has returned, a crash leaves a    *)
(* tree that the reader accepts (a temporary file granted).                 *)
InterruptedRunsParse ==
  "root" \in promised.opened /\ ~up /\ litter = {} => Accepts(Snapshot)

=============================================================================
