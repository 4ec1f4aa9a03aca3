--------------------------- MODULE Results_proofs ---------------------------
(***************************************************************************)
(* What MCResults.cfg checks for two episodes, for any configuration,      *)
(* metrics, trajectories, texts and bounds.                                *)
(***************************************************************************)
EXTENDS Results, SequenceTheorems, TLAPS

(* What a name shows now or after a power loss.                             *)
Shows(p) == {disk[p]} \cup {older[p][k] : k \in DOMAIN older[p]}

MetricsOf(e) == <<e, "metrics">>
TrajectoryOf(e) == <<e, "trajectory">>
EventsOf(e) == <<e, "events">>
EpisodeOf(e) == <<e, "episode">>

Complete(d) == d # Absent /\ d.complete
ShowsComplete(p) == \E d \in Shows(p) : Complete(d)

Entries == [episode : Episodes, complete : BOOLEAN, reason : Reasons \cup {"NONE"}]

IsDocument(p, d) ==
  /\ IsDirectory(p) => d = Directory
  /\ p = Metadata => d \in [complete : BOOLEAN]
  /\ p = Summary => d.episodes \in Seq(Entries)
  /\ p[2] = "episode" => d = p[1]
  /\ p[2] = "metrics" => d \in MetricsDocuments

DiskInv ==
  /\ DOMAIN disk = Paths /\ DOMAIN older = Paths
  /\ \A p \in Paths : older[p] \in Seq(Shows(p))
  /\ \A p \in Paths : \A d \in Shows(p) : d = Absent \/ IsDocument(p, d)

MemoryInv ==
  /\ started \in BOOLEAN /\ finished \in BOOLEAN /\ up \in BOOLEAN /\ failures \in Nat
  /\ begun \in Seq(Episodes) /\ Len(begun) <= Len(Configured)
  /\ \A i \in DOMAIN begun : begun[i] = Configured[i]
  /\ buffer \in [Episodes -> [events : Seq(EventRecords), complete : BOOLEAN,
                              reason : Reasons \cup {"NONE"}]]
  /\ promised \in [opened : SUBSET ({Asked, "root"} \cup Episodes),
                   events : [Episodes -> Seq(EventRecords)],
                   results : [Episodes -> EpisodeResults \cup {Absent}],
                   closed : {"no", "partial", "complete", "failed"}]

(* The call in progress and what it has left to write.                      *)
Plan ==
  CASE call.op = "none" -> <<>>
    [] call.op = "start" -> <<Entry(Root), EpisodesDirectory, Config, Summary, Metadata>>
    [] call.op = "begin" -> <<Entry(call.episode), EpisodeOf(call.episode), EventsOf(call.episode),
                              TrajectoryOf(call.episode), MetricsOf(call.episode), Summary>>
    [] call.op = "record" -> <<EventsOf(call.episode)>>
    [] call.op = "complete" -> <<TrajectoryOf(call.episode), EventsOf(call.episode), MetricsOf(call.episode), Summary>>
    [] call.op = "finish" -> <<Summary, Metadata>>

CallInv ==
  /\ call \in [op : {"none", "start", "begin", "record", "complete", "finish"},
               episode : Episodes \cup {Absent}, metrics : MetricsDocuments,
               trajectory : Trajectories \cup {<<>>}, complete : BOOLEAN]
  /\ (call.op = "none") = (todo = <<>>)
  /\ call.op \in {"begin", "record", "complete"} => call.episode \in Episodes
  /\ todo \in Seq(Paths) /\ Len(todo) <= Len(Plan)
  /\ \A k \in 1..Len(todo) : todo[k] = Plan[k + Len(Plan) - Len(todo)]
  /\ stage \in {"new", "written", "replaced"}
  /\ stage # "new" => todo # <<>> /\ ~IsDirectory(Head(todo))
  /\ up => litter = (IF stage = "written" THEN {Head(todo)[1]} ELSE {})

OpenInv ==
  /\ "root" \in promised.opened => Asked \in promised.opened
  /\ call.op = "start" =>
       Asked \in promised.opened /\ "root" \notin promised.opened /\ ~call.complete
  /\ call.op \notin {"none", "start"} => "root" \in promised.opened
  /\ begun # <<>> => "root" \in promised.opened
  /\ call.op # "none" => ~finished
  /\ finished => "root" \in promised.opened
  /\ promised.closed = "complete" => finished
  /\ call.op = "begin" =>
       IF Len(todo) = 6
       THEN Len(begun) < Len(Configured) /\ call.episode = Configured[Len(begun) + 1]
       ELSE call.episode \in Begun

PromiseInv ==
  \A e \in Episodes :
    /\ promised.results[e] # Absent => e \in Begun
    /\ buffer[e].complete => promised.results[e] # Absent
    /\ call.op \in {"begin", "record"} /\ call.episode = e => promised.results[e] = Absent
    /\ call.op = "complete" /\ call.episode = e =>
         /\ promised.results[e] = [metrics |-> call.metrics, trajectory |-> call.trajectory]
         /\ promised.results[e] # Absent
         /\ call.metrics.complete
         /\ Len(todo) >= 2 => ~buffer[e].complete
    /\ IF call.op = "record" /\ call.episode = e
       THEN SubSeq(buffer[e].events, 1, Len(buffer[e].events) - 1) = promised.events[e]
       ELSE buffer[e].events = promised.events[e]

(* A result that is or was on disk stays what it is.                        *)
Fixed(e) ==
  /\ promised.results[e] # Absent
  /\ \A d \in Shows(MetricsOf(e)) : Complete(d) => d = promised.results[e].metrics
  /\ \A d \in Shows(TrajectoryOf(e)) : d \in {Absent, promised.results[e].trajectory}
  /\ \A d \in Shows(EventsOf(e)) : d \in {Absent, promised.events[e]}

FixedInv == \A e \in Episodes : ShowsComplete(MetricsOf(e)) => Fixed(e)

Full(s) == ListedIn(s) = Episodes

Sealed ==
  /\ Begun = Episodes
  /\ \A e \in Episodes : buffer[e].complete
  /\ \A s \in Shows(Summary) : s = Absent \/ Full(s)

SealInv == ShowsComplete(Metadata) => Sealed

(* What is durable while the process runs.                                  *)
Settled(p, d) == disk[p] = d /\ older[p] = <<>>
EntrySettled(p) == disk[p] = Directory /\ (EntriesSynced => older[p] = <<>>)

ResultDurable(e) ==
  /\ Settled(TrajectoryOf(e), promised.results[e].trajectory)
  /\ Settled(EventsOf(e), promised.events[e])
  /\ EntrySettled(Entry(e))

RootDurable == EntrySettled(Entry(Root)) /\ Settled(EpisodesDirectory, Directory)

DurableInv == up =>
  /\ "root" \in promised.opened => RootDurable
  /\ \A e \in Begun : disk[Entry(e)] = Directory
  /\ \A e \in Episodes :
       /\ Complete(disk[MetricsOf(e)]) => ResultDurable(e)
       /\ \A k \in DOMAIN older[MetricsOf(e)] : ~Complete(older[MetricsOf(e)][k])
       /\ buffer[e].complete => Complete(disk[MetricsOf(e)]) /\ older[MetricsOf(e)] = <<>>
  /\ promised.closed = "complete" => Complete(disk[Metadata]) /\ older[Metadata] = <<>>

(* How far the call in progress has come, while it goes on.                 *)
ProgressInv == up =>
  /\ stage = "replaced" => disk[Head(todo)] = Document(Head(todo))
  /\ call.op = "start" =>
       /\ Len(todo) <= 4 => disk[Entry(Root)] = Directory
       /\ Len(todo) <= 3 => disk[EpisodesDirectory] = Directory
  /\ call.op = "begin" => call.metrics = OpenMetrics
  /\ call.op = "complete" =>
       LET e == call.episode
       IN  /\ Len(todo) <= 3 => Settled(TrajectoryOf(e), call.trajectory) /\ EntrySettled(Entry(e))
           /\ Len(todo) <= 2 => Settled(EventsOf(e), promised.events[e])
           /\ Len(todo) >= 2 /\ ~(Len(todo) = 2 /\ stage = "replaced") => ~ShowsComplete(MetricsOf(e))
           /\ Len(todo) = 1 => Complete(disk[MetricsOf(e)])
  /\ call.op = "finish" =>
       /\ call.complete => Begun = Episodes /\ \A e \in Episodes : buffer[e].complete
       /\ Len(todo) = 1 /\ Begun = Episodes =>
            \A s \in Shows(Summary) : s = Absent \/ Full(s)

(* The reader.                                                              *)
Ahead == {reading[k] : k \in DOMAIN reading}

(* What it reads of an episode it reads in this order, and the manifest     *)
(* before the summary.                                                      *)
InOrder(s) ==
  /\ \A k \in DOMAIN s : s[k][2] = "metrics" =>
       /\ k + 2 \in DOMAIN s
       /\ s[k + 1] = TrajectoryOf(s[k][1]) /\ s[k + 2] = EventsOf(s[k][1])
  /\ \A k \in DOMAIN s : s[k] = Metadata => k + 1 \in DOMAIN s /\ s[k + 1] = Summary

ReaderInv ==
  /\ verdict \in {"none", "reading", "accepted", "rejected"}
  /\ reading \in Seq(Places) /\ (verdict = "reading" <=> reading # <<>>)
  /\ verdict = "none" => copy = NothingFound
  /\ InOrder(reading)
  /\ DOMAIN copy = Places
  /\ \A p \in Paths : copy[p] = Absent \/ IsDocument(p, copy[p])

CopyInv ==
  /\ \A e \in Episodes : Complete(copy[MetricsOf(e)]) =>
       /\ Fixed(e)
       /\ copy[MetricsOf(e)] = promised.results[e].metrics
       /\ TrajectoryOf(e) \in Ahead \/ copy[TrajectoryOf(e)] = promised.results[e].trajectory
       /\ EventsOf(e) \in Ahead \/ copy[EventsOf(e)] = promised.events[e]
  /\ Complete(copy[Metadata]) =>
       Sealed /\ (Summary \in Ahead \/ (copy[Summary] # Absent => Full(copy[Summary])))
  /\ verdict \in {"reading", "accepted"} =>
       /\ Metadata \in Ahead \/ copy[Metadata] # Absent
       /\ Summary \in Ahead \/ copy[Summary] # Absent
       /\ copy[Summary] # Absent =>
            \A e \in ListedIn(copy[Summary]) : MetricsOf(e) \in Ahead \/ copy[MetricsOf(e)] # Absent

Inv ==
  /\ DiskInv /\ MemoryInv /\ CallInv /\ OpenInv /\ PromiseInv
  /\ FixedInv /\ SealInv /\ DurableInv /\ ProgressInv /\ ReaderInv /\ CopyInv

-----------------------------------------------------------------------------
(* Names and sequences.                                                     *)

LEMMA EpisodeNames ==
  ASSUME NEW e \in Episodes
  PROVE  /\ e # "root" /\ e # "episodes" /\ e \in STRING
         /\ MetricsOf(e) \in Paths /\ TrajectoryOf(e) \in Paths /\ EventsOf(e) \in Paths
         /\ Entry(e) \in Paths /\ EpisodeOf(e) \in Paths
         /\ e \in Directories
BY ConfiguredAssumption
   DEF Episodes, Paths, Entry, Directories, EpisodeFiles, MetricsOf, TrajectoryOf, EventsOf, EpisodeOf

LEMMA RootNames ==
  /\ Entry(Root) \in Paths /\ Config \in Paths /\ Metadata \in Paths /\ Summary \in Paths
  /\ EpisodesDirectory \in Paths /\ Root \in Directories /\ Root \notin Episodes
BY ConfiguredAssumption
   DEF Episodes, Paths, Entry, Directories, RootFiles, Config, Metadata, Summary,
       EpisodesDirectory, Root

LEMMA TailFacts ==
  ASSUME NEW S, NEW s \in Seq(S), s # <<>>
  PROVE  /\ Tail(s) \in Seq(S) /\ Len(s) \in Nat /\ Len(s) > 0 /\ Len(Tail(s)) = Len(s) - 1
         /\ Head(s) = s[1] /\ Head(s) \in S
         /\ \A k \in 1..Len(Tail(s)) : Tail(s)[k] = s[k + 1]
         /\ Tail(s) = <<>> <=> Len(s) = 1
<1>1. Tail(s) \in Seq(S) /\ Head(s) = s[1] /\ Head(s) \in S /\ Len(s) \in Nat \ {0}
      /\ Len(Tail(s)) = Len(s) - 1
  BY HeadTailProperties, EmptySeq
<1>2. \A k \in 1..Len(Tail(s)) : Tail(s)[k] = s[k + 1]
  BY HeadTailProperties
<1>3. Tail(s) = <<>> <=> Len(Tail(s)) = 0
  BY <1>1, EmptySeq
<1> QED BY <1>1, <1>2, <1>3

LEMMA EpisodesInOrder ==
  ASSUME MemoryInv
  PROVE  /\ Begun \subseteq Episodes
         /\ Len(begun) < Len(Configured) => Configured[Len(begun) + 1] \in Episodes \ Begun
<1>1. begun \in Seq(Episodes) /\ Configured \in Seq(STRING)
  BY ConfiguredAssumption DEF MemoryInv
<1>2. \A i \in 1..Len(begun) : begun[i] = Configured[i]
  BY <1>1 DEF MemoryInv
<1>3. \A i, j \in 1..Len(Configured) : Configured[i] = Configured[j] => i = j
  BY <1>1, ConfiguredAssumption
<1>4. ASSUME Len(begun) < Len(Configured)
      PROVE  Configured[Len(begun) + 1] \in Episodes \ Begun
  <2>1. Len(begun) + 1 \in 1..Len(Configured)
    BY <1>1, <1>4
  <2>2. \A i \in 1..Len(begun) : i \in 1..Len(Configured) /\ i # Len(begun) + 1
    BY <1>1, <1>4
  <2>3. Configured[Len(begun) + 1] \in Episodes
    BY <2>1, <1>1 DEF Episodes
  <2>4. \A i \in 1..Len(begun) : begun[i] # Configured[Len(begun) + 1]
    BY <1>2, <1>3, <2>1, <2>2
  <2>5. DOMAIN begun = 1..Len(begun)
    BY <1>1
  <2> QED BY <2>3, <2>4, <2>5 DEF Begun
<1> QED BY <1>1, <1>4 DEF Begun

-----------------------------------------------------------------------------
(* The call in progress.                                                    *)

(* Where a call stands says what it writes next.                            *)
AtStart(p, n) ==
  \/ n = 5 /\ p = Entry(Root)
  \/ n = 4 /\ p = EpisodesDirectory
  \/ n = 3 /\ p = Config
  \/ n = 2 /\ p = Summary
  \/ n = 1 /\ p = Metadata

AtBegin(e, p, n) ==
  \/ n = 6 /\ p = Entry(e)
  \/ n = 5 /\ p = EpisodeOf(e)
  \/ n = 4 /\ p = EventsOf(e)
  \/ n = 3 /\ p = TrajectoryOf(e)
  \/ n = 2 /\ p = MetricsOf(e)
  \/ n = 1 /\ p = Summary

AtComplete(e, p, n) ==
  \/ n = 4 /\ p = TrajectoryOf(e)
  \/ n = 3 /\ p = EventsOf(e)
  \/ n = 2 /\ p = MetricsOf(e)
  \/ n = 1 /\ p = Summary

AtFinish(p, n) ==
  \/ n = 2 /\ p = Summary
  \/ n = 1 /\ p = Metadata

LEMMA PlanFacts ==
  /\ call.op = "none" => Len(Plan) = 0
  /\ call.op = "start" => Plan = <<Entry(Root), EpisodesDirectory, Config, Summary, Metadata>>
  /\ call.op = "begin" =>
       Plan = <<Entry(call.episode), EpisodeOf(call.episode), EventsOf(call.episode),
                TrajectoryOf(call.episode), MetricsOf(call.episode), Summary>>
  /\ call.op = "record" => Plan = <<EventsOf(call.episode)>>
  /\ call.op = "complete" =>
       Plan = <<TrajectoryOf(call.episode), EventsOf(call.episode), MetricsOf(call.episode),
                Summary>>
  /\ call.op = "finish" => Plan = <<Summary, Metadata>>
BY DEF Plan

LEMMA NextPath ==
  ASSUME CallInv, todo # <<>>
  PROVE  /\ Head(todo) \in Paths /\ call.op # "none" /\ Len(todo) \in Nat
         /\ call.op = "start" => AtStart(Head(todo), Len(todo))
         /\ call.op = "begin" => call.episode \in Episodes /\ AtBegin(call.episode, Head(todo), Len(todo))
         /\ call.op = "record" =>
              call.episode \in Episodes /\ Len(todo) = 1 /\ Head(todo) = EventsOf(call.episode)
         /\ call.op = "complete" => call.episode \in Episodes /\ AtComplete(call.episode, Head(todo), Len(todo))
         /\ call.op = "finish" => AtFinish(Head(todo), Len(todo))
<1> DEFINE n == Len(todo)
           m == Len(Plan)
<1>1. n \in Nat /\ n > 0
  BY TailFacts DEF CallInv
<1>10. Head(todo) = todo[1] /\ Head(todo) \in Paths
  BY TailFacts DEF CallInv
<1>2. n <= m
  BY DEF CallInv
<1>11. todo[1] = Plan[1 + m - n]
  BY <1>1 DEF CallInv
<1>3. call.op # "none"
  BY DEF CallInv
<1>12. /\ call.op = "start" => m = 5
       /\ call.op = "begin" => m = 6
       /\ call.op = "record" => m = 1
       /\ call.op = "complete" => m = 4
       /\ call.op = "finish" => m = 2
  BY PlanFacts
<1> HIDE DEF n, m
<1>4. ASSUME call.op = "start"
      PROVE  AtStart(Head(todo), Len(todo))
  <2>1. m = 5
    BY <1>4, <1>12
  <2>2. n = 5 \/ n = 4 \/ n = 3 \/ n = 2 \/ n = 1
    BY <1>1, <1>2, <2>1
  <2>3. /\ Plan[1] = Entry(Root)
        /\ Plan[2] = EpisodesDirectory
        /\ Plan[3] = Config
        /\ Plan[4] = Summary
        /\ Plan[5] = Metadata
    BY <1>4, PlanFacts
  <2>4. \E k \in 1..5 : n = 5 + 1 - k /\ Head(todo) = Plan[k]
    BY <1>1, <1>10, <1>11, <2>1, <2>2
  <2> QED BY <2>3, <2>4 DEF AtStart, n
<1>5. ASSUME call.op = "begin"
      PROVE  AtBegin(call.episode, Head(todo), Len(todo))
  <2>1. m = 6
    BY <1>5, <1>12
  <2>2. n = 6 \/ n = 5 \/ n = 4 \/ n = 3 \/ n = 2 \/ n = 1
    BY <1>1, <1>2, <2>1
  <2>3. /\ Plan[1] = Entry(call.episode)
        /\ Plan[2] = EpisodeOf(call.episode)
        /\ Plan[3] = EventsOf(call.episode)
        /\ Plan[4] = TrajectoryOf(call.episode)
        /\ Plan[5] = MetricsOf(call.episode)
        /\ Plan[6] = Summary
    BY <1>5, PlanFacts
  <2>4. \E k \in 1..6 : n = 6 + 1 - k /\ Head(todo) = Plan[k]
    BY <1>1, <1>10, <1>11, <2>1, <2>2
  <2> QED BY <2>3, <2>4 DEF AtBegin, n
<1>6. call.op = "record" => Len(todo) = 1 /\ Head(todo) = EventsOf(call.episode)
  <2>1. call.op = "record" => n = 1 /\ Head(todo) = Plan[1]
    BY <1>1, <1>2, <1>10, <1>11, <1>12
  <2>2. call.op = "record" => Plan[1] = EventsOf(call.episode)
    BY PlanFacts
  <2> QED BY <2>1, <2>2 DEF n
<1>7. ASSUME call.op = "complete"
      PROVE  AtComplete(call.episode, Head(todo), Len(todo))
  <2>1. m = 4
    BY <1>7, <1>12
  <2>2. n = 4 \/ n = 3 \/ n = 2 \/ n = 1
    BY <1>1, <1>2, <2>1
  <2>3. /\ Plan[1] = TrajectoryOf(call.episode)
        /\ Plan[2] = EventsOf(call.episode)
        /\ Plan[3] = MetricsOf(call.episode)
        /\ Plan[4] = Summary
    BY <1>7, PlanFacts
  <2>4. \E k \in 1..4 : n = 4 + 1 - k /\ Head(todo) = Plan[k]
    BY <1>1, <1>10, <1>11, <2>1, <2>2
  <2> QED BY <2>3, <2>4 DEF AtComplete, n
<1>8. ASSUME call.op = "finish"
      PROVE  AtFinish(Head(todo), Len(todo))
  <2>1. m = 2
    BY <1>8, <1>12
  <2>2. n = 2 \/ n = 1
    BY <1>1, <1>2, <2>1
  <2>3. /\ Plan[1] = Summary
        /\ Plan[2] = Metadata
    BY <1>8, PlanFacts
  <2>4. \E k \in 1..2 : n = 2 + 1 - k /\ Head(todo) = Plan[k]
    BY <1>1, <1>10, <1>11, <2>1, <2>2
  <2> QED BY <2>3, <2>4 DEF AtFinish, n
<1>9. call.op \in {"begin", "record", "complete"} => call.episode \in Episodes
  BY DEF CallInv
<1>13. Len(todo) \in Nat
  BY <1>1 DEF n
<1> QED BY <1>3, <1>4, <1>5, <1>6, <1>7, <1>8, <1>9, <1>10, <1>13

(* What is left of a call after its first write.                            *)
LEMMA RestOfPlan ==
  ASSUME CallInv, todo # <<>>, todo' = Tail(todo), call' = call
  PROVE  /\ todo' \in Seq(Paths) /\ Len(todo') = Len(todo) - 1
         /\ Len(todo') <= Len(Plan')
         /\ \A k \in 1..Len(todo') : todo'[k] = Plan'[k + Len(Plan') - Len(todo')]
<1> DEFINE n == Len(todo)
           m == Len(Plan)
<1>1. Plan' = Plan
  BY DEF Plan
<1>2. todo \in Seq(Paths) /\ n <= m /\ \A k \in 1..n : todo[k] = Plan[k + m - n]
  BY DEF CallInv
<1>3. todo' \in Seq(Paths) /\ n \in Nat /\ Len(todo') = n - 1
      /\ \A k \in 1..Len(todo') : todo'[k] = todo[k + 1]
  BY <1>2, TailFacts
<1>4. m \in Nat
  BY PlanFacts DEF CallInv
<1> HIDE DEF n, m
<1>5. n - 1 <= m
  BY <1>2, <1>3, <1>4
<1>6. ASSUME NEW k \in 1..(n - 1)
      PROVE  todo'[k] = Plan[k + m - (n - 1)]
  <2>1. k + 1 \in 1..n /\ (k + 1) + m - n = k + m - (n - 1)
    BY <1>3, <1>4, <1>6
  <2> QED BY <1>2, <1>3, <2>1
<1>7. Len(Plan') = m
  BY <1>1 DEF m
<1> QED BY <1>1, <1>3, <1>5, <1>6, <1>7 DEF n

LEMMA Documents ==
  /\ Document(Config) = Configured
  /\ Document(Metadata) = MetadataDocument(call.complete)
  /\ Document(Summary) = SummaryDocument(call.complete)
  /\ \A e \in Episodes :
       /\ Document(EpisodeOf(e)) = e
       /\ Document(EventsOf(e)) = EventsDocument(e)
       /\ Document(TrajectoryOf(e)) = call.trajectory
       /\ Document(MetricsOf(e)) = call.metrics
<1>1. Document(Config) = Configured /\ Document(Metadata) = MetadataDocument(call.complete)
      /\ Document(Summary) = SummaryDocument(call.complete)
  BY DEF Document, Config, Metadata, Summary
<1>2. ASSUME NEW e \in Episodes
      PROVE  /\ Document(EpisodeOf(e)) = e
             /\ Document(EventsOf(e)) = EventsDocument(e)
             /\ Document(TrajectoryOf(e)) = call.trajectory
             /\ Document(MetricsOf(e)) = call.metrics
  BY DEF Document, Config, Metadata, Summary, EventsOf, TrajectoryOf, MetricsOf, EpisodeOf
<1> QED BY <1>1, <1>2

(* The parts of the names, which tell them apart.                           *)
LEMMA RootParts ==
  /\ Entry(Root)[1] = "root" /\ Entry(Root)[2] = "." /\ Root = "root"
  /\ EpisodesDirectory[1] = "root" /\ EpisodesDirectory[2] = "episodes"
  /\ Config[1] = "root" /\ Config[2] = "config"
  /\ Metadata[1] = "root" /\ Metadata[2] = "metadata"
  /\ Summary[1] = "root" /\ Summary[2] = "summary"
  /\ IsDirectory(Entry(Root)) /\ IsDirectory(EpisodesDirectory)
  /\ ~IsDirectory(Config) /\ ~IsDirectory(Metadata) /\ ~IsDirectory(Summary)
BY DEF Config, Metadata, Summary, IsDirectory, EpisodesDirectory, Entry, Root

LEMMA EpisodeParts ==
  ASSUME NEW e \in Episodes
  PROVE  /\ e # "root"
         /\ Entry(e)[1] = e /\ Entry(e)[2] = "."
         /\ EpisodeOf(e)[1] = e /\ EpisodeOf(e)[2] = "episode"
         /\ EventsOf(e)[1] = e /\ EventsOf(e)[2] = "events"
         /\ TrajectoryOf(e)[1] = e /\ TrajectoryOf(e)[2] = "trajectory"
         /\ MetricsOf(e)[1] = e /\ MetricsOf(e)[2] = "metrics"
         /\ IsDirectory(Entry(e)) /\ ~IsDirectory(EpisodeOf(e))
         /\ ~IsDirectory(EventsOf(e)) /\ ~IsDirectory(TrajectoryOf(e))
         /\ ~IsDirectory(MetricsOf(e))
<1>1. e # "root"
  BY EpisodeNames
<1>2. /\ Entry(e)[1] = e /\ Entry(e)[2] = "."
      /\ EventsOf(e)[1] = e /\ EventsOf(e)[2] = "events"
      /\ TrajectoryOf(e)[1] = e /\ TrajectoryOf(e)[2] = "trajectory"
      /\ MetricsOf(e)[1] = e /\ MetricsOf(e)[2] = "metrics"
      /\ EpisodeOf(e)[1] = e /\ EpisodeOf(e)[2] = "episode"
  BY DEF Entry, EventsOf, TrajectoryOf, MetricsOf, EpisodeOf
<1>3. EpisodesDirectory[2] = "episodes"
  BY RootParts
<1>4. /\ IsDirectory(Entry(e)) /\ ~IsDirectory(EpisodeOf(e))
      /\ ~IsDirectory(EventsOf(e)) /\ ~IsDirectory(TrajectoryOf(e))
      /\ ~IsDirectory(MetricsOf(e))
  BY <1>2, <1>3 DEF IsDirectory
<1> QED BY <1>1, <1>2, <1>4

LEMMA StartPlaces ==
  ASSUME NEW p, NEW n \in Nat, AtStart(p, n)
  PROVE  /\ p[1] = "root" /\ n \in 1..5
         /\ p = EpisodesDirectory <=> n = 4
         /\ p[2] = "." <=> n = 5
         /\ IsDirectory(p) <=> n \in {4, 5}
BY RootParts DEF AtStart

LEMMA BeginPlaces ==
  ASSUME NEW e \in Episodes, NEW p, NEW n \in Nat, AtBegin(e, p, n)
  PROVE  /\ p # EpisodesDirectory /\ n \in 1..6
         /\ p[1] = (IF n = 1 THEN "root" ELSE e) /\ e # "root"
         /\ p[2] = "." <=> n = 6
         /\ p[2] = "metrics" <=> n = 2
         /\ IsDirectory(p) <=> n = 6
<1>1. CASE n = 6 /\ p = Entry(e)
  BY <1>1, EpisodeParts, RootParts
<1>2. CASE n = 5 /\ p = EpisodeOf(e)
  BY <1>2, EpisodeParts, RootParts
<1>3. CASE n = 4 /\ p = EventsOf(e)
  BY <1>3, EpisodeParts, RootParts
<1>4. CASE n = 3 /\ p = TrajectoryOf(e)
  BY <1>4, EpisodeParts, RootParts
<1>5. CASE n = 2 /\ p = MetricsOf(e)
  BY <1>5, EpisodeParts, RootParts
<1>6. CASE n = 1 /\ p = Summary
  BY <1>6, EpisodeParts, RootParts
<1> QED BY <1>1, <1>2, <1>3, <1>4, <1>5, <1>6 DEF AtBegin

LEMMA RecordPlaces ==
  ASSUME NEW e \in Episodes, NEW p, p = EventsOf(e)
  PROVE  p # EpisodesDirectory /\ p[1] = e /\ p[2] = "events" /\ ~IsDirectory(p)
BY EpisodeParts, RootParts

LEMMA CompletePlaces ==
  ASSUME NEW e \in Episodes, NEW p, NEW n \in Nat, AtComplete(e, p, n)
  PROVE  /\ p # EpisodesDirectory /\ n \in 1..4
         /\ p[1] = (IF n = 1 THEN "root" ELSE e) /\ e # "root" /\ p[2] # "."
         /\ p[2] = "metrics" <=> n = 2
         /\ ~IsDirectory(p)
<1>1. CASE n = 4 /\ p = TrajectoryOf(e)
  BY <1>1, EpisodeParts, RootParts
<1>2. CASE n = 3 /\ p = EventsOf(e)
  BY <1>2, EpisodeParts, RootParts
<1>3. CASE n = 2 /\ p = MetricsOf(e)
  BY <1>3, EpisodeParts, RootParts
<1>4. CASE n = 1 /\ p = Summary
  BY <1>4, EpisodeParts, RootParts
<1> QED BY <1>1, <1>2, <1>3, <1>4 DEF AtComplete

LEMMA FinishPlaces ==
  ASSUME NEW p, NEW n \in Nat, AtFinish(p, n)
  PROVE  p # EpisodesDirectory /\ p[1] = "root" /\ p[2] # "." /\ n \in 1..2 /\ ~IsDirectory(p)
BY RootParts DEF AtFinish

(* What a write does in memory, by the call it belongs to.                  *)
LEMMA WroteFacts ==
  ASSUME CallInv, todo # <<>>, Wrote(Head(todo))
  PROVE  /\ todo' = Tail(todo) /\ stage' = "new"
         /\ Len(todo) = 1 => call' = NoCall
         /\ Len(todo) # 1 => call' = call /\ promised' = promised
         /\ begun' = IF call.op = "begin" /\ Len(todo) = 6
                     THEN Append(begun, call.episode) ELSE begun
         /\ buffer' = IF call.op = "complete" /\ Len(todo) = 2
                      THEN [buffer EXCEPT ![call.episode].complete = TRUE,
                                          ![call.episode].reason = call.metrics.reason]
                      ELSE buffer
         /\ started' = (started \/ (call.op = "start" /\ Len(todo) = 4))
         /\ finished' = (finished \/ (call.op = "finish" /\ Len(todo) = 1))
         /\ Len(todo) = 1 =>
              /\ call.op = "start" =>
                   promised' = [promised EXCEPT !.opened = @ \cup {"root"}]
              /\ call.op = "begin" =>
                   promised' = [promised EXCEPT !.opened = @ \cup {call.episode}]
              /\ call.op = "record" =>
                   promised' = [promised EXCEPT !.events[call.episode] =
                                  buffer[call.episode].events]
              /\ call.op = "complete" => promised' = promised
              /\ call.op = "finish" =>
                   promised' = [promised EXCEPT !.closed =
                                  IF call.complete THEN "complete" ELSE "partial"]
<1> DEFINE p == Head(todo)
<1>1. /\ todo' = Tail(todo) /\ stage' = "new"
      /\ Len(todo) = 1 => call' = NoCall
      /\ Len(todo) # 1 => call' = call /\ promised' = promised
      /\ finished' = (finished \/ (call.op = "finish" /\ Len(todo) = 1))
  BY DEF Wrote
<1>0. call.op \in {"start", "begin", "record", "complete", "finish"}
  BY NextPath DEF CallInv
<1>10. call.op = "start" => (p = EpisodesDirectory <=> Len(todo) = 4) /\ p[1] = "root"
  BY NextPath, StartPlaces
<1>11. call.op = "begin" =>
         /\ p # EpisodesDirectory
         /\ p[2] = "." <=> Len(todo) = 6
         /\ Len(todo) = 6 => p[1] = call.episode /\ p[1] # "root"
  <2> SUFFICES ASSUME call.op = "begin"
               PROVE  /\ p # EpisodesDirectory
                      /\ p[2] = "." <=> Len(todo) = 6
                      /\ Len(todo) = 6 => p[1] = call.episode /\ p[1] # "root"
    OBVIOUS
  <2> DEFINE n == Len(todo)
             e == call.episode
  <2>1. e \in Episodes /\ n \in Nat /\ AtBegin(e, p, n)
    BY NextPath
  <2> HIDE DEF p, n, e
  <2>2. /\ p # EpisodesDirectory
        /\ p[2] = "." <=> n = 6
        /\ n = 6 => p[1] = e /\ p[1] # "root"
    <3>1. p # EpisodesDirectory /\ (p[2] = "." <=> n = 6)
      BY <2>1, BeginPlaces
    <3>2. p[1] = (IF n = 1 THEN "root" ELSE e) /\ e # "root"
      BY <2>1, BeginPlaces
    <3> QED BY <3>1, <3>2
  <2> QED BY <2>2 DEF n, e
<1>12. call.op = "record" => p # EpisodesDirectory /\ p[2] # "."
  BY NextPath, RecordPlaces
<1>13. call.op = "complete" =>
         p # EpisodesDirectory /\ p[2] # "." /\ (p[2] = "metrics" <=> Len(todo) = 2)
  BY NextPath, CompletePlaces
<1>14. call.op = "finish" => p # EpisodesDirectory /\ p[2] # "."
  BY NextPath, FinishPlaces
<1> HIDE DEF p
<1>2. p = EpisodesDirectory <=> call.op = "start" /\ Len(todo) = 4
  BY <1>0, <1>10, <1>11, <1>12, <1>13, <1>14, RootParts
<1>3. p[2] = "." /\ p[1] # Root <=> call.op = "begin" /\ Len(todo) = 6
  BY <1>0, <1>10, <1>11, <1>12, <1>13, <1>14, RootParts
<1>4. call.op = "complete" => (p[2] = "metrics" <=> Len(todo) = 2)
  BY <1>13
<1>5. call.op = "begin" /\ Len(todo) = 6 => p[1] = call.episode
  BY <1>11
<1> USE DEF p
<1>6. started' = (started \/ (call.op = "start" /\ Len(todo) = 4))
  BY <1>2 DEF Wrote
<1>7. begun' = IF call.op = "begin" /\ Len(todo) = 6
               THEN Append(begun, call.episode) ELSE begun
  BY <1>3, <1>5 DEF Wrote
<1>8. buffer' = IF call.op = "complete" /\ Len(todo) = 2
                THEN [buffer EXCEPT ![call.episode].complete = TRUE,
                                    ![call.episode].reason = call.metrics.reason]
                ELSE buffer
  BY <1>4 DEF Wrote
<1>9. Len(todo) = 1 =>
        /\ call.op = "start" => promised' = [promised EXCEPT !.opened = @ \cup {"root"}]
        /\ call.op = "begin" => promised' = [promised EXCEPT !.opened = @ \cup {call.episode}]
        /\ call.op = "record" =>
             promised' = [promised EXCEPT !.events[call.episode] = buffer[call.episode].events]
        /\ call.op = "complete" => promised' = promised
        /\ call.op = "finish" =>
             promised' = [promised EXCEPT !.closed =
                            IF call.complete THEN "complete" ELSE "partial"]
  BY DEF Wrote
<1> QED BY <1>1, <1>6, <1>7, <1>8, <1>9

-----------------------------------------------------------------------------
(* Memory and promises keep their types.                                    *)

BufferType ==
  [events : Seq(EventRecords), complete : BOOLEAN, reason : Reasons \cup {"NONE"}]

LEMMA CompleteMetricsType ==
  ASSUME NEW m \in Metrics
  PROVE  CompleteMetrics(m) \in MetricsDocuments /\ CompleteMetrics(m).complete
BY RecorderAssumption DEF EpisodeMetrics, CompleteMetrics, MetricsDocuments

LEMMA OpenMetricsType == OpenMetrics \in MetricsDocuments /\ ~OpenMetrics.complete
BY DEF OpenMetrics, MetricsDocuments

(* The episodes begun stay a beginning of the configured ones.              *)
LEMMA BegunGrows ==
  ASSUME MemoryInv, Len(begun) < Len(Configured), begun' = Append(begun, Configured[Len(begun) + 1])
  PROVE  /\ begun' \in Seq(Episodes) /\ Len(begun') <= Len(Configured)
         /\ \A i \in DOMAIN begun' : begun'[i] = Configured[i]
         /\ Begun' = Begun \cup {Configured[Len(begun) + 1]}
<1>1. begun \in Seq(Episodes) /\ Configured \in Seq(STRING)
  BY ConfiguredAssumption DEF MemoryInv
<1>2. Configured[Len(begun) + 1] \in Episodes
  BY EpisodesInOrder
<1>3. \A i \in 1..Len(begun) : begun[i] = Configured[i]
  BY <1>1 DEF MemoryInv
<1>4. /\ begun' \in Seq(Episodes) /\ Len(begun') = Len(begun) + 1
      /\ \A i \in 1..Len(begun') :
           begun'[i] = IF i = Len(begun) + 1 THEN Configured[Len(begun) + 1] ELSE begun[i]
  BY <1>1, <1>2
<1>5. Len(begun') <= Len(Configured)
  BY <1>1, <1>4
<1>6. \A i \in 1..Len(begun') : begun'[i] = Configured[i]
  BY <1>1, <1>3, <1>4
<1>7. Begun' = Begun \cup {Configured[Len(begun) + 1]}
  <2>1. DOMAIN begun' = 1..(Len(begun) + 1) /\ DOMAIN begun = 1..Len(begun) /\ Len(begun) \in Nat
    BY <1>1, <1>4
  <2>2. \A i \in 1..Len(begun) : begun'[i] = begun[i]
    BY <1>1, <1>4
  <2>3. begun'[Len(begun) + 1] = Configured[Len(begun) + 1]
    BY <1>1, <1>4
  <2> QED BY <2>1, <2>2, <2>3 DEF Begun
<1> QED BY <1>4, <1>5, <1>6, <1>7

LEMMA BufferTypes ==
  MemoryInv => /\ buffer \in [Episodes -> BufferType]
               /\ \A e \in Episodes : /\ buffer[e] \in BufferType
                                      /\ buffer[e].events \in Seq(EventRecords)
                                      /\ buffer[e].complete \in BOOLEAN
BY DEF MemoryInv, BufferType

PromisedRecord(q) ==
  q = [opened |-> q.opened, events |-> q.events, results |-> q.results, closed |-> q.closed]

LEMMA PromisedTypes ==
  MemoryInv =>
    /\ promised.opened \subseteq {Asked, "root"} \cup Episodes
    /\ promised.events \in [Episodes -> Seq(EventRecords)]
    /\ promised.results \in [Episodes -> EpisodeResults \cup {Absent}]
    /\ promised.closed \in {"no", "partial", "complete", "failed"}
    /\ PromisedRecord(promised)
BY DEF MemoryInv, PromisedRecord

LEMMA PromisedType ==
  ASSUME promised'.opened \subseteq {Asked, "root"} \cup Episodes,
         promised'.events \in [Episodes -> Seq(EventRecords)],
         promised'.results \in [Episodes -> EpisodeResults \cup {Absent}],
         promised'.closed \in {"no", "partial", "complete", "failed"},
         PromisedRecord(promised')
  PROVE  promised' \in [opened : SUBSET ({Asked, "root"} \cup Episodes),
                        events : [Episodes -> Seq(EventRecords)],
                        results : [Episodes -> EpisodeResults \cup {Absent}],
                        closed : {"no", "partial", "complete", "failed"}]
BY DEF PromisedRecord

(* What an update of a promise leaves alone.                                *)
LEMMA OpenedUpdate ==
  ASSUME MemoryInv, NEW x, promised' = [promised EXCEPT !.opened = x]
  PROVE  /\ promised'.opened = x
         /\ promised'.events = promised.events /\ promised'.results = promised.results /\ promised'.closed = promised.closed
         /\ PromisedRecord(promised')
BY PromisedTypes DEF PromisedRecord

LEMMA EventsUpdate ==
  ASSUME MemoryInv, NEW e, NEW x, promised' = [promised EXCEPT !.events[e] = x]
  PROVE  /\ promised'.events = [promised.events EXCEPT ![e] = x]
         /\ promised'.opened = promised.opened /\ promised'.results = promised.results /\ promised'.closed = promised.closed
         /\ PromisedRecord(promised')
BY PromisedTypes DEF PromisedRecord

LEMMA ResultsUpdate ==
  ASSUME MemoryInv, NEW e, NEW x, promised' = [promised EXCEPT !.results[e] = x]
  PROVE  /\ promised'.results = [promised.results EXCEPT ![e] = x]
         /\ promised'.opened = promised.opened /\ promised'.events = promised.events /\ promised'.closed = promised.closed
         /\ PromisedRecord(promised')
BY PromisedTypes DEF PromisedRecord

LEMMA ClosedUpdate ==
  ASSUME MemoryInv, NEW x, promised' = [promised EXCEPT !.closed = x]
  PROVE  /\ promised'.closed = x
         /\ promised'.opened = promised.opened /\ promised'.events = promised.events /\ promised'.results = promised.results
         /\ PromisedRecord(promised')
BY PromisedTypes DEF PromisedRecord

LEMMA NoCallType ==
  /\ NoCall.op = "none" /\ NoCall.episode = Absent /\ NoCall.metrics = OpenMetrics
  /\ NoCall.trajectory = <<>> /\ NoCall.complete = FALSE
BY DEF NoCall

(* One event more, one event less.                                          *)
LEMMA AppendType ==
  ASSUME NEW S, NEW s \in Seq(S), NEW x \in S
  PROVE  Append(s, x) \in Seq(S) /\ SubSeq(Append(s, x), 1, Len(Append(s, x)) - 1) = s
<1>1. Append(s, x) \in Seq(S) /\ Len(Append(s, x)) = Len(s) + 1 /\ Len(s) \in Nat
      /\ \A i \in 1..Len(s) : Append(s, x)[i] = s[i]
  OBVIOUS
<1>2. \A i \in 1..Len(s) : Append(s, x)[i] \in S
  BY <1>1
<1>3. /\ SubSeq(Append(s, x), 1, Len(s)) \in Seq(S)
      /\ Len(SubSeq(Append(s, x), 1, Len(s))) = Len(s)
      /\ \A i \in 1..Len(s) : SubSeq(Append(s, x), 1, Len(s))[i] = Append(s, x)[i]
  <2>1. 1 \in Int /\ Len(s) \in Int
    BY <1>1
  <2> QED BY <1>1, <1>2, <2>1, SubSeqProperties
<1>4. SubSeq(Append(s, x), 1, Len(s)) = s
  BY <1>1, <1>3, SeqEqual
<1> QED BY <1>1, <1>4

LEMMA ShorterType ==
  ASSUME NEW S, NEW s \in Seq(S)
  PROVE  SubSeq(s, 1, Len(s) - 1) \in Seq(S)
<1>1. Len(s) \in Nat /\ \A i \in 1..(Len(s) - 1) : s[i] \in S
  OBVIOUS
<1>2. 1 \in Int /\ Len(s) - 1 \in Int
  BY <1>1
<1> QED BY <1>1, <1>2, SubSeqProperties

MemoryTypes ==
  /\ started \in BOOLEAN /\ finished \in BOOLEAN
  /\ begun \in Seq(Episodes) /\ Len(begun) <= Len(Configured)
  /\ \A i \in DOMAIN begun : begun[i] = Configured[i]
  /\ buffer \in [Episodes -> BufferType]
  /\ promised \in [opened : SUBSET ({Asked, "root"} \cup Episodes),
                   events : [Episodes -> Seq(EventRecords)],
                   results : [Episodes -> EpisodeResults \cup {Absent}],
                   closed : {"no", "partial", "complete", "failed"}]

LEMMA MemoryInvParts ==
  MemoryInv <=> MemoryTypes /\ up \in BOOLEAN /\ failures \in Nat
BY DEF MemoryInv, MemoryTypes, BufferType

LEMMA WroteMemory ==
  ASSUME MemoryInv, CallInv, OpenInv, todo # <<>>, Wrote(Head(todo))
  PROVE  MemoryTypes'
<1>1. started' \in BOOLEAN /\ finished' \in BOOLEAN
  BY WroteFacts DEF MemoryInv
<1>2. /\ begun' \in Seq(Episodes) /\ Len(begun') <= Len(Configured)
      /\ \A i \in DOMAIN begun' : begun'[i] = Configured[i]
  <2>1. CASE call.op = "begin" /\ Len(todo) = 6
    <3>1. begun' = Append(begun, call.episode)
      BY <2>1, WroteFacts
    <3>2. Len(begun) < Len(Configured) /\ call.episode = Configured[Len(begun) + 1]
      BY <2>1 DEF OpenInv
    <3> QED BY <3>1, <3>2, BegunGrows
  <2>2. CASE ~(call.op = "begin" /\ Len(todo) = 6)
    <3>1. begun' = begun
      BY <2>2, WroteFacts
    <3> QED BY <3>1 DEF MemoryInv
  <2> QED BY <2>1, <2>2
<1>3. buffer' \in [Episodes -> BufferType]
  <2>1. CASE call.op = "complete" /\ Len(todo) = 2
    <3>1. buffer' = [buffer EXCEPT ![call.episode].complete = TRUE,
                                   ![call.episode].reason = call.metrics.reason]
      BY <2>1, WroteFacts
    <3>2. call.metrics.reason \in Reasons \cup {"NONE"}
      BY DEF CallInv, MetricsDocuments
    <3> QED BY <3>1, <3>2, BufferTypes DEF BufferType
  <2>2. CASE ~(call.op = "complete" /\ Len(todo) = 2)
    <3>1. buffer' = buffer
      BY <2>2, WroteFacts
    <3> QED BY <3>1, BufferTypes
  <2> QED BY <2>1, <2>2
<1>4. CASE Len(todo) # 1
  <2>1. promised' = promised
    BY <1>4, WroteFacts
  <2> QED BY <1>1, <1>2, <1>3, <2>1 DEF MemoryTypes, MemoryInv
<1>5. CASE Len(todo) = 1
  <2>0. call.op \in {"start", "begin", "record", "complete", "finish"}
    BY NextPath DEF CallInv
  <2>1. CASE call.op = "start"
    <3>1. promised' = [promised EXCEPT !.opened = promised.opened \cup {"root"}]
      BY <1>5, <2>1, WroteFacts
    <3>2. /\ promised'.opened = promised.opened \cup {"root"}
          /\ promised'.events = promised.events /\ promised'.results = promised.results
          /\ promised'.closed = promised.closed /\ PromisedRecord(promised')
      BY <3>1, OpenedUpdate
    <3>3. promised'.opened \subseteq {Asked, "root"} \cup Episodes
      BY <3>2, PromisedTypes
    <3> QED BY <1>1, <1>2, <1>3, <3>2, <3>3, PromisedTypes, PromisedType DEF MemoryTypes
  <2>2. CASE call.op = "begin"
    <3>1. promised' = [promised EXCEPT !.opened = promised.opened \cup {call.episode}]
      BY <1>5, <2>2, WroteFacts
    <3>2. call.episode \in Episodes
      BY <2>2, NextPath
    <3>3. /\ promised'.opened = promised.opened \cup {call.episode}
          /\ promised'.events = promised.events /\ promised'.results = promised.results
          /\ promised'.closed = promised.closed /\ PromisedRecord(promised')
      BY <3>1, OpenedUpdate
    <3>4. promised'.opened \subseteq {Asked, "root"} \cup Episodes
      BY <3>2, <3>3, PromisedTypes
    <3> QED BY <1>1, <1>2, <1>3, <3>3, <3>4, PromisedTypes, PromisedType DEF MemoryTypes
  <2>3. CASE call.op = "record"
    <3>1. promised' = [promised EXCEPT !.events[call.episode] = buffer[call.episode].events]
      BY <1>5, <2>3, WroteFacts
    <3>2. call.episode \in Episodes /\ buffer[call.episode].events \in Seq(EventRecords)
      BY <2>3, NextPath, BufferTypes
    <3>3. promised'.events \in [Episodes -> Seq(EventRecords)]
      BY <3>1, <3>2, EventsUpdate, PromisedTypes
    <3> QED BY <1>1, <1>2, <1>3, <3>1, <3>3, EventsUpdate, PromisedTypes, PromisedType
            DEF MemoryTypes
  <2>4. CASE call.op = "complete"
    <3>1. promised' = promised
      BY <1>5, <2>4, WroteFacts
    <3> QED BY <1>1, <1>2, <1>3, <3>1 DEF MemoryTypes, MemoryInv
  <2>5. CASE call.op = "finish"
    <3>1. promised' = [promised EXCEPT !.closed =
                         IF call.complete THEN "complete" ELSE "partial"]
      BY <1>5, <2>5, WroteFacts
    <3> QED BY <1>1, <1>2, <1>3, <3>1, ClosedUpdate, PromisedTypes, PromisedType DEF MemoryTypes
  <2> QED BY <2>0, <2>1, <2>2, <2>3, <2>4, <2>5
<1> QED BY <1>4, <1>5

LEMMA MemoryNext ==
  ASSUME MemoryInv, CallInv, OpenInv, [Next]_vars
  PROVE  MemoryInv'
<1>0. MemoryTypes /\ up \in BOOLEAN /\ failures \in Nat
  BY MemoryInvParts
<1> SUFFICES MemoryTypes' /\ up' \in BOOLEAN /\ failures' \in Nat
  BY DEF MemoryInv, MemoryTypes, BufferType
<1>1. CASE Start
  <2>1. promised' = [promised EXCEPT !.opened = {Asked}]
        /\ UNCHANGED <<started, finished, begun, buffer, up, failures>>
    BY <1>1 DEF Start, Enters, storage
  <2>2. /\ promised'.opened = {Asked}
        /\ promised'.events = promised.events /\ promised'.results = promised.results
        /\ promised'.closed = promised.closed /\ PromisedRecord(promised')
    BY <2>1, OpenedUpdate
  <2> QED BY <1>0, <2>1, <2>2, PromisedTypes, PromisedType DEF MemoryTypes
<1>2. ASSUME NEW e \in Episodes, BeginEpisode(e)
      PROVE  MemoryTypes' /\ up' \in BOOLEAN /\ failures' \in Nat
  BY <1>0, <1>2 DEF BeginEpisode, Enters, storage, MemoryTypes
<1>3. ASSUME NEW e \in Episodes, NEW text \in Texts, RecordEvent(e, text)
      PROVE  MemoryTypes' /\ up' \in BOOLEAN /\ failures' \in Nat
  <2> DEFINE x == [sequence |-> Len(buffer[e].events), text |-> text]
  <2>1. buffer' = [buffer EXCEPT ![e].events = Append(buffer[e].events, x)]
        /\ UNCHANGED <<started, finished, begun, promised, up, failures>>
    BY <1>3 DEF RecordEvent, Enters, storage
  <2>2. buffer[e].events \in Seq(EventRecords) /\ Len(buffer[e].events) \in Nat
    BY BufferTypes
  <2>3. x \in EventRecords
    BY <2>2 DEF EventRecords
  <2> HIDE DEF x
  <2>4. Append(buffer[e].events, x) \in Seq(EventRecords)
    BY <2>2, <2>3, AppendType
  <2>5. buffer' \in [Episodes -> BufferType]
    BY <2>1, <2>4, BufferTypes DEF BufferType
  <2> QED BY <1>0, <2>1, <2>5 DEF MemoryTypes
<1>4. ASSUME NEW e \in Episodes, NEW m \in Metrics, NEW t \in Trajectories,
             CompleteEpisode(e, m, t)
      PROVE  MemoryTypes' /\ up' \in BOOLEAN /\ failures' \in Nat
  <2> DEFINE x == [metrics |-> CompleteMetrics(m), trajectory |-> t]
  <2>1. promised' = [promised EXCEPT !.results[e] = x]
        /\ UNCHANGED <<started, finished, begun, buffer, up, failures>>
    BY <1>4 DEF CompleteEpisode, Enters, storage
  <2>2. x \in EpisodeResults
    BY CompleteMetricsType DEF EpisodeResults
  <2> HIDE DEF x
  <2>3. /\ promised'.opened = promised.opened /\ promised'.events = promised.events
        /\ promised'.results = [promised.results EXCEPT ![e] = x]
        /\ promised'.closed = promised.closed /\ PromisedRecord(promised')
    BY <2>1, ResultsUpdate
  <2>4. promised'.results \in [Episodes -> EpisodeResults \cup {Absent}]
    BY <2>2, <2>3, PromisedTypes
  <2> QED BY <1>0, <2>1, <2>3, <2>4, PromisedTypes, PromisedType DEF MemoryTypes
<1>5. ASSUME NEW complete \in BOOLEAN, Finish(complete)
      PROVE  MemoryTypes' /\ up' \in BOOLEAN /\ failures' \in Nat
  BY <1>0, <1>5 DEF Finish, Enters, storage, MemoryTypes
<1>6. CASE MakeDirectory
  <2>1. todo # <<>> /\ Wrote(Head(todo)) /\ up' = up /\ failures' = failures
    BY <1>6 DEF MakeDirectory
  <2> QED BY <1>0, <2>1, WroteMemory
<1>7. CASE WriteTemporary
  BY <1>0, <1>7 DEF WriteTemporary, memory, MemoryTypes
<1>8. CASE Replace
  BY <1>0, <1>8 DEF Replace, memory, MemoryTypes
<1>9. CASE SyncDirectory
  <2>1. todo # <<>> /\ Wrote(Head(todo)) /\ up' = up /\ failures' = failures
    BY <1>9 DEF SyncDirectory, CallInv
  <2> QED BY <1>0, <2>1, WroteMemory
<1>10. CASE WriteFails
  <2>1. /\ UNCHANGED <<started, finished, begun, up>> /\ failures' \in Nat
        /\ todo # <<>>
    BY <1>0, <1>10 DEF WriteFails
  <2>2. buffer' \in [Episodes -> BufferType]
    <3>1. CASE call.op = "record"
      <4>1. call.episode \in Episodes
        BY <2>1, <3>1, NextPath
      <4>2. SubSeq(buffer[call.episode].events, 1, Len(buffer[call.episode].events) - 1)
              \in Seq(EventRecords)
        BY <4>1, BufferTypes, ShorterType
      <4>3. buffer' = [buffer EXCEPT ![call.episode].events =
              SubSeq(buffer[call.episode].events, 1, Len(buffer[call.episode].events) - 1)]
        BY <1>10, <3>1, <4>1, BufferTypes DEF WriteFails
      <4> QED BY <4>1, <4>2, <4>3, BufferTypes DEF BufferType
    <3>2. CASE call.op # "record"
      BY <1>10, <3>2, BufferTypes DEF WriteFails
    <3> QED BY <3>1, <3>2
  <2>3. promised' \in [opened : SUBSET ({Asked, "root"} \cup Episodes),
                       events : [Episodes -> Seq(EventRecords)],
                       results : [Episodes -> EpisodeResults \cup {Absent}],
                       closed : {"no", "partial", "complete", "failed"}]
    <3>1. CASE call.op = "finish" /\ call.complete
      <4>1. promised' = [promised EXCEPT !.closed = "failed"]
        BY <1>10, <3>1 DEF WriteFails
      <4> QED BY <4>1, ClosedUpdate, PromisedTypes, PromisedType
    <3>2. CASE ~(call.op = "finish" /\ call.complete)
      BY <1>0, <1>10, <3>2 DEF WriteFails, MemoryTypes
    <3> QED BY <3>1, <3>2
  <2> QED BY <1>0, <2>1, <2>2, <2>3 DEF MemoryTypes
<1>11. CASE Crash
  BY <1>0, <1>11 DEF Crash, memory, MemoryTypes
<1>12. CASE PowerLoss
  BY <1>0, <1>12 DEF PowerLoss, memory, MemoryTypes
<1>13. CASE UNCHANGED recorderVars
  BY <1>0, <1>13 DEF recorderVars, memory, MemoryTypes
<1>14. CASE UNCHANGED vars
  BY <1>13, <1>14 DEF vars
<1> QED BY <1>1, <1>2, <1>3, <1>4, <1>5, <1>6, <1>7, <1>8, <1>9, <1>10, <1>11, <1>12, <1>13,
           <1>14 DEF Next, RecorderNext, Calls, Writes

-----------------------------------------------------------------------------
(* The call in progress stays one of the plans.                             *)

CallTypes ==
  [op : {"none", "start", "begin", "record", "complete", "finish"},
   episode : Episodes \cup {Absent}, metrics : MetricsDocuments,
   trajectory : Trajectories \cup {<<>>}, complete : BOOLEAN]

LEMMA NothingWritten ==
  ASSUME CallInv, up, stage # "written"
  PROVE  litter = {}
BY DEF CallInv

LEMMA IdleStage ==
  ASSUME CallInv, todo = <<>>
  PROVE  stage = "new" /\ call.op = "none"
BY DEF CallInv

LEMMA NoCallInv ==
  ASSUME call' = NoCall, todo' = <<>>, stage' = "new", up' => litter' = {}
  PROVE  CallInv'
<1>1. call' \in CallTypes /\ call'.op = "none"
  BY NoCallType, OpenMetricsType DEF NoCall, CallTypes
<1>2. Plan' = <<>>
  BY <1>1 DEF Plan
<1>3. <<>> \in Seq(Paths) /\ Len(<<>>) = 0 /\ \A k \in 1..0 : FALSE
  BY EmptySeq
<1> QED BY <1>1, <1>2, <1>3 DEF CallInv, CallTypes

LEMMA EntersCall ==
  ASSUME CallInv, NEW c \in CallTypes, NEW paths \in Seq(Paths), Enters(c, paths),
         c.op # "none", paths # <<>>, Plan' = paths,
         c.op \in {"begin", "record", "complete"} => c.episode \in Episodes
  PROVE  CallInv'
<1>1. call' = c /\ todo' = paths /\ stage' = "new" /\ up' = up /\ litter' = litter /\ up
      /\ call.op = "none"
  BY DEF Enters, storage
<1>2. litter' = {}
  BY <1>1, NothingWritten, IdleStage DEF CallInv
<1>3. Len(paths) \in Nat /\ \A k \in 1..Len(paths) : k + Len(paths) - Len(paths) = k
  BY EmptySeq
<1> QED BY <1>1, <1>2, <1>3 DEF CallInv, CallTypes

LEMMA WroteCall ==
  ASSUME CallInv, todo # <<>>, Wrote(Head(todo)), up' => litter' = {}
  PROVE  CallInv'
<1>0. todo' = Tail(todo) /\ stage' = "new" /\ todo \in Seq(Paths)
  BY WroteFacts DEF CallInv
<1>1. CASE Len(todo) = 1
  <2>1. call' = NoCall /\ todo' = <<>>
    BY <1>0, <1>1, WroteFacts, TailFacts
  <2> QED BY <1>0, <2>1, NoCallInv
<1>2. CASE Len(todo) # 1
  <2>1. call' = call /\ todo' # <<>>
    BY <1>0, <1>2, WroteFacts, TailFacts
  <2>2. /\ todo' \in Seq(Paths) /\ Len(todo') <= Len(Plan')
        /\ \A k \in 1..Len(todo') : todo'[k] = Plan'[k + Len(Plan') - Len(todo')]
    BY <1>0, <2>1, RestOfPlan
  <2> QED BY <1>0, <2>1, <2>2 DEF CallInv
<1> QED BY <1>1, <1>2

LEMMA CallNext ==
  ASSUME MemoryInv, CallInv, [Next]_vars
  PROVE  CallInv'
<1>1. CASE Start
  <2> DEFINE c == [NoCall EXCEPT !.op = "start"]
             paths == <<Entry(Root), EpisodesDirectory, Config, Summary, Metadata>>
  <2>1. Enters(c, paths)
    BY <1>1 DEF Start
  <2>2. c \in CallTypes /\ c.op = "start"
    BY OpenMetricsType DEF NoCall, CallTypes
  <2>3. paths \in Seq(Paths) /\ paths # <<>>
    BY RootNames
  <2>4. call' = c
    BY <2>1 DEF Enters
  <2>5. Plan' = paths
    BY <2>2, <2>4 DEF Plan
  <2> HIDE DEF c, paths
  <2> QED BY <2>1, <2>2, <2>3, <2>5, EntersCall
<1>2. ASSUME NEW e \in Episodes, BeginEpisode(e)
      PROVE  CallInv'
  <2> DEFINE c == [NoCall EXCEPT !.op = "begin", !.episode = e]
             paths == <<Entry(e), EpisodeOf(e), EventsOf(e), TrajectoryOf(e), MetricsOf(e),
                        Summary>>
  <2>1. Enters(c, paths)
    BY <1>2 DEF BeginEpisode, EpisodeOf, EventsOf, TrajectoryOf, MetricsOf
  <2>2. c \in CallTypes /\ c.op = "begin" /\ c.episode = e
    BY OpenMetricsType DEF NoCall, CallTypes
  <2>3. paths \in Seq(Paths) /\ paths # <<>>
    BY RootNames, EpisodeNames DEF EpisodeOf
  <2>4. call' = c
    BY <2>1 DEF Enters
  <2>5. Plan' = paths
    BY <2>2, <2>4 DEF Plan
  <2> HIDE DEF c, paths
  <2> QED BY <2>1, <2>2, <2>3, <2>5, EntersCall
<1>3. ASSUME NEW e \in Episodes, NEW text \in Texts, RecordEvent(e, text)
      PROVE  CallInv'
  <2> DEFINE c == [NoCall EXCEPT !.op = "record", !.episode = e]
             paths == <<EventsOf(e)>>
  <2>1. Enters(c, paths)
    BY <1>3 DEF RecordEvent, EventsOf
  <2>2. c \in CallTypes /\ c.op = "record" /\ c.episode = e
    BY OpenMetricsType DEF NoCall, CallTypes
  <2>3. paths \in Seq(Paths) /\ paths # <<>>
    BY EpisodeNames
  <2>4. call' = c
    BY <2>1 DEF Enters
  <2>5. Plan' = paths
    BY <2>2, <2>4 DEF Plan
  <2> HIDE DEF c, paths
  <2> QED BY <2>1, <2>2, <2>3, <2>5, EntersCall
<1>4. ASSUME NEW e \in Episodes, NEW m \in Metrics, NEW t \in Trajectories,
             CompleteEpisode(e, m, t)
      PROVE  CallInv'
  <2> DEFINE c == [NoCall EXCEPT !.op = "complete", !.episode = e,
                                 !.metrics = CompleteMetrics(m), !.trajectory = t]
             paths == <<TrajectoryOf(e), EventsOf(e), MetricsOf(e), Summary>>
  <2>1. Enters(c, paths)
    BY <1>4 DEF CompleteEpisode, CompletionOrder, EventsOf, TrajectoryOf, MetricsOf
  <2>2. c \in CallTypes /\ c.op = "complete" /\ c.episode = e
    BY CompleteMetricsType DEF NoCall, CallTypes
  <2>3. paths \in Seq(Paths) /\ paths # <<>>
    BY RootNames, EpisodeNames
  <2>4. call' = c
    BY <2>1 DEF Enters
  <2>5. Plan' = paths
    BY <2>2, <2>4 DEF Plan
  <2> HIDE DEF c, paths
  <2> QED BY <2>1, <2>2, <2>3, <2>5, EntersCall
<1>5. ASSUME NEW complete \in BOOLEAN, Finish(complete)
      PROVE  CallInv'
  <2> DEFINE c == [NoCall EXCEPT !.op = "finish", !.complete = complete]
             paths == <<Summary, Metadata>>
  <2>1. Enters(c, paths)
    BY <1>5 DEF Finish, FinishOrder
  <2>2. c \in CallTypes /\ c.op = "finish"
    BY OpenMetricsType DEF NoCall, CallTypes
  <2>3. paths \in Seq(Paths) /\ paths # <<>>
    BY RootNames
  <2>4. call' = c
    BY <2>1 DEF Enters
  <2>5. Plan' = paths
    BY <2>2, <2>4 DEF Plan
  <2> HIDE DEF c, paths
  <2> QED BY <2>1, <2>2, <2>3, <2>5, EntersCall
<1>6. CASE MakeDirectory
  <2>1. todo # <<>> /\ Wrote(Head(todo)) /\ up /\ litter' = litter /\ IsDirectory(Head(todo))
    BY <1>6 DEF MakeDirectory
  <2>2. stage = "new"
    BY <2>1 DEF CallInv
  <2> QED BY <2>1, <2>2, NothingWritten, WroteCall
<1>7. CASE WriteTemporary
  <2>1. /\ todo # <<>> /\ ~IsDirectory(Head(todo)) /\ stage = "new" /\ stage' = "written"
        /\ litter' = litter \cup {Head(todo)[1]} /\ up /\ call' = call /\ todo' = todo
    BY <1>7 DEF WriteTemporary
  <2>2. litter = {} /\ Plan' = Plan
    BY <2>1, NothingWritten DEF Plan
  <2> QED BY <2>1, <2>2 DEF CallInv
<1>8. CASE Replace
  <2>1. /\ stage = "written" /\ stage' = "replaced" /\ up /\ call' = call /\ todo' = todo
        /\ litter' = litter \ {Head(todo)[1]}
    BY <1>8 DEF Replace, Unlinked
  <2>2. litter' = {} /\ Plan' = Plan
    BY <2>1 DEF CallInv, Plan
  <2> QED BY <2>1, <2>2 DEF CallInv
<1>9. CASE SyncDirectory
  <2>1. todo # <<>> /\ Wrote(Head(todo)) /\ up /\ litter' = litter /\ stage = "replaced"
    BY <1>9 DEF SyncDirectory, CallInv
  <2> QED BY <2>1, NothingWritten, WroteCall
<1>10. CASE WriteFails
  <2>1. /\ call' = NoCall /\ todo' = <<>> /\ stage' = "new" /\ up
        /\ litter' = litter \ {Head(todo)[1]}
    BY <1>10 DEF WriteFails, Unlinked
  <2>2. litter' = {}
    BY <2>1 DEF CallInv
  <2> QED BY <2>1, <2>2, NoCallInv
<1>11. CASE Crash \/ PowerLoss
  <2>1. ~up' /\ call' = call /\ todo' = todo /\ stage' = stage
    BY <1>11 DEF Crash, PowerLoss
  <2>2. Plan' = Plan
    BY <2>1 DEF Plan
  <2> QED BY <2>1, <2>2 DEF CallInv
<1>12. CASE UNCHANGED recorderVars
  <2>1. UNCHANGED <<call, todo, stage, litter, up>>
    BY <1>12 DEF recorderVars, storage
  <2>2. Plan' = Plan
    BY <2>1 DEF Plan
  <2> QED BY <2>1, <2>2 DEF CallInv
<1> QED BY <1>1, <1>2, <1>3, <1>4, <1>5, <1>6, <1>7, <1>8, <1>9, <1>10, <1>11, <1>12
        DEF Next, RecorderNext, Calls, Writes, vars

-----------------------------------------------------------------------------
(* What has been opened, and the end of the recording.                      *)

LEMMA WroteOpen ==
  ASSUME MemoryInv, CallInv, OpenInv, todo # <<>>, Wrote(Head(todo))
  PROVE  OpenInv'
<1>0. /\ call.op \in {"start", "begin", "record", "complete", "finish"}
      /\ Len(todo) \in Nat /\ todo \in Seq(Paths) /\ todo' = Tail(todo)
      /\ Len(todo') = Len(todo) - 1 /\ Len(todo) > 0
  BY NextPath, WroteFacts, TailFacts DEF CallInv
<1>1. finished' = (finished \/ (call.op = "finish" /\ Len(todo) = 1))
  BY WroteFacts
<1>2. begun' # <<>> => "root" \in promised.opened
  <2>1. CASE call.op = "begin" /\ Len(todo) = 6
    BY <2>1 DEF OpenInv
  <2>2. CASE ~(call.op = "begin" /\ Len(todo) = 6)
    BY <2>2, WroteFacts DEF OpenInv
  <2> QED BY <2>1, <2>2
<1>3. CASE Len(todo) # 1
  <2>1. call' = call /\ promised' = promised /\ finished' = finished
    BY <1>1, <1>3, WroteFacts DEF MemoryInv
  <2>2. call.op = "begin" => call.episode \in Begun' /\ Len(todo') # 6
    <3> SUFFICES ASSUME call.op = "begin" PROVE call.episode \in Begun' /\ Len(todo') # 6
      OBVIOUS
    <3>1. Len(todo) \in 1..6
      BY <1>0, NextPath, BeginPlaces
    <3>2. CASE Len(todo) = 6
      <4>1. /\ begun' = Append(begun, call.episode)
            /\ Len(begun) < Len(Configured) /\ call.episode = Configured[Len(begun) + 1]
        BY <3>2, WroteFacts DEF OpenInv
      <4>2. Begun' = Begun \cup {call.episode}
        BY <4>1, BegunGrows
      <4>3. Len(todo') = 5
        BY <1>0, <3>2
      <4> QED BY <4>2, <4>3
    <3>3. CASE Len(todo) # 6
      <4>1. begun' = begun /\ call.episode \in Begun
        BY <3>3, WroteFacts DEF OpenInv
      <4>2. Begun' = Begun
        BY <4>1 DEF Begun
      <4> QED BY <1>0, <3>1, <3>3, <4>1, <4>2
    <3> QED BY <3>2, <3>3
  <2> QED BY <1>0, <1>2, <2>1, <2>2 DEF OpenInv
<1>4. CASE Len(todo) = 1
  <2>1. call'.op = "none"
    BY <1>4, WroteFacts, NoCallType
  <2>2. CASE call.op = "start"
    <3>1. promised' = [promised EXCEPT !.opened = promised.opened \cup {"root"}]
      BY <1>4, <2>2, WroteFacts
    <3>2. promised'.opened = promised.opened \cup {"root"} /\ promised'.closed = promised.closed
      BY <3>1, OpenedUpdate
    <3> QED BY <1>1, <1>2, <2>1, <2>2, <3>2 DEF OpenInv
  <2>3. CASE call.op = "begin"
    <3>1. promised' = [promised EXCEPT !.opened = promised.opened \cup {call.episode}]
      BY <1>4, <2>3, WroteFacts
    <3>2. promised'.opened = promised.opened \cup {call.episode}
          /\ promised'.closed = promised.closed
      BY <3>1, OpenedUpdate
    <3> QED BY <1>1, <1>2, <2>1, <2>3, <3>2 DEF OpenInv
  <2>4. CASE call.op = "record"
    <3>1. promised' = [promised EXCEPT !.events[call.episode] = buffer[call.episode].events]
      BY <1>4, <2>4, WroteFacts
    <3>2. promised'.opened = promised.opened /\ promised'.closed = promised.closed
      BY <3>1, EventsUpdate
    <3> QED BY <1>1, <1>2, <2>1, <2>4, <3>2 DEF OpenInv
  <2>5. CASE call.op = "complete"
    <3>1. promised' = promised
      BY <1>4, <2>5, WroteFacts
    <3> QED BY <1>1, <1>2, <2>1, <2>5, <3>1 DEF OpenInv
  <2>6. CASE call.op = "finish"
    <3>1. promised' = [promised EXCEPT !.closed =
                         IF call.complete THEN "complete" ELSE "partial"]
      BY <1>4, <2>6, WroteFacts
    <3>2. promised'.opened = promised.opened
      BY <3>1, ClosedUpdate
    <3>3. finished'
      BY <1>1, <1>4, <2>6
    <3> QED BY <1>2, <2>1, <2>6, <3>2, <3>3 DEF OpenInv
  <2> QED BY <1>0, <2>2, <2>3, <2>4, <2>5, <2>6
<1> QED BY <1>3, <1>4

LEMMA OpenNext ==
  ASSUME MemoryInv, CallInv, OpenInv, [Next]_vars
  PROVE  OpenInv'
<1>1. CASE Start
  <2>1. /\ promised' = [promised EXCEPT !.opened = {Asked}] /\ call'.op = "start"
        /\ ~call'.complete /\ UNCHANGED <<begun, finished>> /\ Asked \notin promised.opened
    BY <1>1 DEF Start, Enters, NoCall
  <2>2. promised'.opened = {Asked} /\ promised'.closed = promised.closed
    BY <2>1, OpenedUpdate
  <2> QED BY <2>1, <2>2 DEF OpenInv, Asked
<1>2. ASSUME NEW e \in Episodes, BeginEpisode(e)
      PROVE  OpenInv'
  <2>1. /\ call'.op = "begin" /\ call'.episode = e /\ UNCHANGED <<begun, finished, promised>>
        /\ ~finished /\ "root" \in promised.opened
        /\ Len(begun) < Len(Configured) /\ e = Configured[Len(begun) + 1]
        /\ Len(todo') = 6
    BY <1>2 DEF BeginEpisode, Enters, NoCall, Active
  <2> QED BY <2>1 DEF OpenInv
<1>3. ASSUME NEW e \in Episodes, NEW text \in Texts, RecordEvent(e, text)
      PROVE  OpenInv'
  BY <1>3 DEF RecordEvent, Enters, NoCall, Active, OpenInv
<1>4. ASSUME NEW e \in Episodes, NEW m \in Metrics, NEW t \in Trajectories,
             CompleteEpisode(e, m, t)
      PROVE  OpenInv'
  <2> DEFINE x == [metrics |-> CompleteMetrics(m), trajectory |-> t]
  <2>1. /\ promised' = [promised EXCEPT !.results[e] = x] /\ call'.op = "complete"
        /\ UNCHANGED <<begun, finished>> /\ ~finished /\ "root" \in promised.opened
    BY <1>4 DEF CompleteEpisode, Enters, NoCall, Active
  <2> HIDE DEF x
  <2>2. promised'.opened = promised.opened /\ promised'.closed = promised.closed
    BY <2>1, ResultsUpdate
  <2> QED BY <2>1, <2>2 DEF OpenInv
<1>5. ASSUME NEW complete \in BOOLEAN, Finish(complete)
      PROVE  OpenInv'
  BY <1>5 DEF Finish, Enters, NoCall, Active, OpenInv
<1>6. CASE MakeDirectory
  BY <1>6, WroteOpen DEF MakeDirectory
<1>7. CASE WriteTemporary \/ Replace \/ Crash \/ PowerLoss \/ UNCHANGED recorderVars
  <2>1. UNCHANGED <<memory, call, todo, promised>>
    BY <1>7 DEF WriteTemporary, Replace, Crash, PowerLoss, recorderVars
  <2>2. UNCHANGED <<finished, begun>> /\ Begun' = Begun
    BY <2>1 DEF memory, Begun
  <2> QED BY <2>1, <2>2 DEF OpenInv
<1>8. CASE SyncDirectory
  BY <1>8, WroteOpen DEF SyncDirectory, CallInv
<1>9. CASE WriteFails
  <2>1. call'.op = "none" /\ UNCHANGED <<begun, finished>>
    BY <1>9, NoCallType DEF WriteFails
  <2>2. promised'.opened = promised.opened
        /\ (promised'.closed = promised.closed \/ promised'.closed = "failed")
    <3>1. CASE call.op = "finish" /\ call.complete
      <4>1. promised' = [promised EXCEPT !.closed = "failed"]
        BY <1>9, <3>1 DEF WriteFails
      <4> QED BY <4>1, ClosedUpdate
    <3>2. CASE ~(call.op = "finish" /\ call.complete)
      BY <1>9, <3>2 DEF WriteFails
    <3> QED BY <3>1, <3>2
  <2> QED BY <2>1, <2>2 DEF OpenInv
<1> QED BY <1>1, <1>2, <1>3, <1>4, <1>5, <1>6, <1>7, <1>8, <1>9
        DEF Next, RecorderNext, Calls, Writes, vars

-----------------------------------------------------------------------------
(* What the steps do to the names on disk.                                  *)

LEMMA MadeDirectory ==
  ASSUME DiskInv, CallInv, MakeDirectory
  PROVE  /\ todo # <<>> /\ Head(todo) \in Paths /\ IsDirectory(Head(todo)) /\ up
         /\ DOMAIN disk' = Paths /\ DOMAIN older' = Paths
         /\ \A p \in Paths :
              /\ disk'[p] = IF p = Head(todo) THEN Directory ELSE disk[p]
              /\ older'[p] = IF p = Head(todo) THEN <<Absent>> ELSE older[p]
<1> DEFINE q == Head(todo)
<1>1. /\ todo # <<>> /\ IsDirectory(q) /\ up
      /\ disk' = [disk EXCEPT ![q] = Directory] /\ older' = [older EXCEPT ![q] = <<Absent>>]
  BY DEF MakeDirectory
<1>2. q \in Paths
  BY <1>1, NextPath
<1> HIDE DEF q
<1>3. /\ DOMAIN disk' = Paths /\ DOMAIN older' = Paths
      /\ \A p \in Paths : /\ disk'[p] = IF p = q THEN Directory ELSE disk[p]
                          /\ older'[p] = IF p = q THEN <<Absent>> ELSE older[p]
  BY <1>1, <1>2 DEF DiskInv
<1> QED BY <1>1, <1>2, <1>3 DEF q

LEMMA Replaced ==
  ASSUME DiskInv, CallInv, Replace
  PROVE  /\ todo # <<>> /\ Head(todo) \in Paths /\ ~IsDirectory(Head(todo)) /\ up
         /\ stage = "written"
         /\ DOMAIN disk' = Paths /\ DOMAIN older' = Paths
         /\ \A p \in Paths :
              /\ disk'[p] = IF p = Head(todo) THEN Document(p) ELSE disk[p]
              /\ older'[p] = IF p = Head(todo) THEN Append(older[p], disk[p]) ELSE older[p]
<1> DEFINE q == Head(todo)
           d == Document(q)
           o == Append(older[q], disk[q])
<1>1. /\ stage = "written" /\ up
      /\ disk' = [disk EXCEPT ![q] = d] /\ older' = [older EXCEPT ![q] = o]
  BY DEF Replace
<1>2. todo # <<>> /\ ~IsDirectory(q)
  BY <1>1 DEF CallInv
<1>3. q \in Paths
  BY <1>2, NextPath
<1> HIDE DEF q, d, o
<1>4. /\ DOMAIN disk' = Paths /\ DOMAIN older' = Paths
      /\ \A p \in Paths : /\ disk'[p] = IF p = q THEN d ELSE disk[p]
                          /\ older'[p] = IF p = q THEN o ELSE older[p]
  BY <1>1, <1>3 DEF DiskInv
<1> QED BY <1>1, <1>2, <1>3, <1>4 DEF q, d, o

LEMMA SyncedNames ==
  ASSUME DiskInv, CallInv, SyncDirectory
  PROVE  /\ todo # <<>> /\ Head(todo) \in Paths /\ ~IsDirectory(Head(todo)) /\ up
         /\ stage = "replaced"
         /\ disk' = disk /\ DOMAIN older' = Paths
         /\ \A p \in Paths :
              older'[p] = IF p[1] = Head(todo)[1] /\ (p[2] = "." => EntriesSynced)
                          THEN <<>> ELSE older[p]
<1>1. /\ stage = "replaced" /\ up /\ disk' = disk /\ older' = Synced(Head(todo)[1])
  BY DEF SyncDirectory
<1>2. todo # <<>> /\ ~IsDirectory(Head(todo))
  BY <1>1 DEF CallInv
<1>3. Head(todo) \in Paths
  BY <1>2, NextPath
<1>4. /\ DOMAIN older' = Paths
      /\ \A p \in Paths :
           older'[p] = IF p[1] = Head(todo)[1] /\ (p[2] = "." => EntriesSynced)
                       THEN <<>> ELSE older[p]
  BY <1>1 DEF Synced
<1> QED BY <1>1, <1>2, <1>3, <1>4

(* A power loss brings back what a name has shown, or takes it away with    *)
(* the rest of its directory.                                               *)
LEMMA LostPower ==
  ASSUME DiskInv, PowerLoss
  PROVE  /\ ~up' /\ DOMAIN disk' = Paths /\ older' = [p \in Paths |-> <<>>]
         /\ \A p \in Paths : disk'[p] \in Shows(p) \cup {Absent}
         /\ \A p, q \in Paths : p[1] = q[1] /\ disk'[q] # Absent /\ older[p] = <<>> =>
              disk'[p] = disk[p]
         /\ \A p \in Paths :
              /\ Directory # Absent /\ p[1] \in Directories
              /\ Settled(Entry(Root), Directory) /\ Settled(Entry(p[1]), Directory)
              /\ p[1] = Root \/ Settled(EpisodesDirectory, Directory)
              /\ older[p] = <<>>
              => disk'[p] = disk[p]
         /\ \A p \in Paths :
              /\ p[1] \in Directories /\ Absent \notin Shows(Entry(Root))
              /\ Absent \notin Shows(Entry(p[1])) /\ Absent \notin Shows(EpisodesDirectory)
              => disk'[p] \in Shows(p)
<1> DEFINE unsynced == {p \in Paths : older[p] # <<>>}
<1>1. /\ ~up' /\ older' = [p \in Paths |-> <<>>]
      /\ \E age \in [unsynced -> 0..(MaxFailures + 1)] :
           /\ \A p \in unsynced : age[p] <= Len(older[p])
           /\ LET left == [p \in Paths |-> IF p \in unsynced /\ age[p] > 0
                                          THEN older[p][age[p]] ELSE disk[p]]
                  Gone(d) == left[Entry(d)] = Absent
              IN  disk' = [p \in Paths |->
                             IF Gone(Root) \/ Gone(p[1])
                                  \/ (p[1] # Root /\ left[EpisodesDirectory] = Absent)
                             THEN Absent ELSE left[p]]
  BY DEF PowerLoss
<1>2. PICK age \in [unsynced -> 0..(MaxFailures + 1)] :
           /\ \A p \in unsynced : age[p] <= Len(older[p])
           /\ LET left == [p \in Paths |-> IF p \in unsynced /\ age[p] > 0
                                          THEN older[p][age[p]] ELSE disk[p]]
                  Gone(d) == left[Entry(d)] = Absent
              IN  disk' = [p \in Paths |->
                             IF Gone(Root) \/ Gone(p[1])
                                  \/ (p[1] # Root /\ left[EpisodesDirectory] = Absent)
                             THEN Absent ELSE left[p]]
  BY <1>1
<1> DEFINE left == [p \in Paths |-> IF p \in unsynced /\ age[p] > 0
                                   THEN older[p][age[p]] ELSE disk[p]]
           Lost(d) == \/ left[Entry(Root)] = Absent \/ left[Entry(d)] = Absent
                      \/ d # Root /\ left[EpisodesDirectory] = Absent
<1>3. disk' = [p \in Paths |-> IF Lost(p[1]) THEN Absent ELSE left[p]]
  BY <1>2
<1>4. \A p \in Paths : left[p] \in Shows(p)
  <2> SUFFICES ASSUME NEW p \in Paths PROVE left[p] \in Shows(p)
    OBVIOUS
  <2>1. CASE p \in unsynced /\ age[p] > 0
    <3>1. age[p] \in 0..(MaxFailures + 1) /\ age[p] <= Len(older[p])
      BY <1>2, <2>1
    <3>2. older[p] \in Seq(Shows(p))
      BY DEF DiskInv
    <3>3. age[p] \in 1..Len(older[p]) /\ left[p] = older[p][age[p]]
      BY <2>1, <3>1, <3>2
    <3>4. age[p] \in DOMAIN older[p]
      BY <3>2, <3>3
    <3> QED BY <3>3, <3>4 DEF Shows
  <2>2. CASE ~(p \in unsynced /\ age[p] > 0)
    BY <2>2 DEF Shows
  <2> QED BY <2>1, <2>2
<1>5. \A p \in Paths : older[p] = <<>> => left[p] = disk[p]
  OBVIOUS
<1> HIDE DEF left, unsynced
<1>6. \A p \in Paths : disk'[p] = IF Lost(p[1]) THEN Absent ELSE left[p]
  BY <1>3
<1>7. DOMAIN disk' = Paths
  BY <1>3
<1>8. ASSUME NEW p \in Paths, Directory # Absent, p[1] \in Directories,
             Settled(Entry(Root), Directory), Settled(Entry(p[1]), Directory),
             p[1] = Root \/ Settled(EpisodesDirectory, Directory)
      PROVE  ~Lost(p[1])
  <2>1. left[Entry(Root)] = Directory
    BY <1>5, <1>8, RootNames DEF Settled
  <2>2. Entry(p[1]) \in Paths
    BY <1>8 DEF Paths
  <2>3. left[Entry(p[1])] = Directory
    BY <1>5, <1>8, <2>2 DEF Settled
  <2>4. p[1] # Root => left[EpisodesDirectory] = Directory
    BY <1>5, <1>8, RootNames DEF Settled
  <2> QED BY <1>8, <2>1, <2>3, <2>4
<1>9. ASSUME NEW p \in Paths, p[1] \in Directories, Absent \notin Shows(Entry(Root)),
             Absent \notin Shows(Entry(p[1])), Absent \notin Shows(EpisodesDirectory)
      PROVE  ~Lost(p[1])
  <2>1. Entry(p[1]) \in Paths
    BY <1>9 DEF Paths
  <2> QED BY <1>4, <1>9, <2>1, RootNames
<1> HIDE DEF Lost
<1> QED BY <1>1, <1>4, <1>5, <1>6, <1>7, <1>8, <1>9

(* What a name shows after a step it has shown before, or the call in       *)
(* progress has just written it.                                            *)
Writing(p, d) ==
  /\ up /\ todo # <<>> /\ p = Head(todo)
  /\ IF IsDirectory(p) THEN d = Directory ELSE stage = "written" /\ d = Document(p)

LEMMA WhatIsNew ==
  ASSUME DiskInv, CallInv, [Next]_vars, NEW p \in Paths, NEW d \in Shows(p)'
  PROVE  d \in Shows(p) \/ d = Absent \/ Writing(p, d)
<1>0. d = disk'[p] \/ \E k \in DOMAIN older'[p] : d = older'[p][k]
  BY DEF Shows
<1>1. CASE MakeDirectory
  <2>1. CASE p = Head(todo)
    <3>1. disk'[p] = Directory /\ older'[p] = <<Absent>>
      BY <1>1, <2>1, MadeDirectory
    <3>2. d = Directory \/ d = Absent
      BY <1>0, <3>1
    <3> QED BY <1>1, <2>1, <3>2, MadeDirectory DEF Writing
  <2>2. CASE p # Head(todo)
    BY <1>0, <1>1, <2>2, MadeDirectory DEF Shows
  <2> QED BY <2>1, <2>2
<1>2. CASE Replace
  <2>1. CASE p = Head(todo)
    <3>1. disk'[p] = Document(p) /\ older'[p] = Append(older[p], disk[p])
      BY <1>2, <2>1, Replaced
    <3>2. older[p] \in Seq(Shows(p)) /\ disk[p] \in Shows(p)
      BY DEF DiskInv, Shows
    <3>3. older'[p] \in Seq(Shows(p))
      BY <3>1, <3>2
    <3>4. d = Document(p) \/ d \in Shows(p)
      BY <1>0, <3>1, <3>3
    <3> QED BY <1>2, <2>1, <3>4, Replaced DEF Writing
  <2>2. CASE p # Head(todo)
    BY <1>0, <1>2, <2>2, Replaced DEF Shows
  <2> QED BY <2>1, <2>2
<1>3. CASE SyncDirectory
  <2>1. disk'[p] = disk[p] /\ (older'[p] = <<>> \/ older'[p] = older[p])
    BY <1>3, SyncedNames
  <2> QED BY <1>0, <2>1 DEF Shows
<1>4. CASE PowerLoss
  <2>1. disk'[p] \in Shows(p) \cup {Absent} /\ older'[p] = <<>>
    BY <1>4, LostPower
  <2> QED BY <1>0, <2>1
<1>5. CASE UNCHANGED <<disk, older>>
  BY <1>0, <1>5 DEF Shows
<1> QED BY <1>1, <1>2, <1>3, <1>4, <1>5
        DEF Next, RecorderNext, Calls, Writes, vars, recorderVars, storage, Start, BeginEpisode,
            RecordEvent, CompleteEpisode, Finish, Enters, WriteTemporary, WriteFails, Crash

(* The documents the call in progress may write.                            *)
LEMMA WritesDocuments ==
  ASSUME MemoryInv, CallInv, NEW p \in Paths, NEW d, Writing(p, d)
  PROVE  IsDocument(p, d)
<1>1. CASE IsDirectory(p)
  <2>1. d = Directory
    BY <1>1 DEF Writing
  <2>2. p # Metadata /\ p # Summary /\ p[2] # "episode" /\ p[2] # "metrics"
    BY <1>1, RootParts DEF IsDirectory
  <2> QED BY <2>1, <2>2 DEF IsDocument
<1>2. CASE ~IsDirectory(p)
  <2>0. d = Document(p) /\ todo # <<>> /\ p = Head(todo)
    BY <1>2 DEF Writing
  <2>1. p = Metadata => d \in [complete : BOOLEAN]
    BY <2>0, Documents DEF MetadataDocument, CallInv
  <2>2. p = Summary => d.episodes \in Seq(Entries)
    <3> SUFFICES ASSUME p = Summary PROVE d.episodes \in Seq(Entries)
      OBVIOUS
    <3>1. d.episodes = [i \in DOMAIN begun |->
                   [episode  |-> begun[i], complete |-> buffer[begun[i]].complete,
                    reason   |-> buffer[begun[i]].reason]]
      BY <2>0, Documents DEF SummaryDocument
    <3>2. DOMAIN begun = 1..Len(begun) /\ Len(begun) \in Nat
      BY DEF MemoryInv
    <3>3. ASSUME NEW i \in 1..Len(begun)
          PROVE  [episode  |-> begun[i], complete |-> buffer[begun[i]].complete,
                  reason   |-> buffer[begun[i]].reason] \in Entries
      <4>1. begun[i] \in Episodes
        BY DEF MemoryInv
      <4>2. buffer[begun[i]] \in BufferType
        BY <4>1, BufferTypes
      <4> QED BY <4>1, <4>2 DEF Entries, BufferType
    <3> QED BY <3>1, <3>2, <3>3
  <2>3. p[2] = "episode" => d = p[1]
    BY <2>0, RootParts DEF Document
  <2>4. p[2] = "metrics" => d \in MetricsDocuments
    BY <2>0, RootParts DEF Document, CallInv
  <2> QED BY <1>2, <2>1, <2>2, <2>3, <2>4 DEF IsDocument
<1> QED BY <1>1, <1>2

LEMMA DiskNext ==
  ASSUME DiskInv, MemoryInv, CallInv, [Next]_vars
  PROVE  DiskInv'
<1>1. DOMAIN disk' = Paths /\ DOMAIN older' = Paths
      /\ \A p \in Paths : older'[p] \in Seq(Shows(p)')
  <2>1. CASE MakeDirectory
    <3>1. \A p \in Paths : older'[p] \in Seq(Shows(p)')
      <4> SUFFICES ASSUME NEW p \in Paths PROVE older'[p] \in Seq(Shows(p)')
        OBVIOUS
      <4>1. CASE p = Head(todo)
        <5>1. older'[p] = <<Absent>>
          BY <2>1, <4>1, MadeDirectory
        <5>2. Absent \in Shows(p)'
          BY <5>1 DEF Shows
        <5> QED BY <5>1, <5>2
      <4>2. CASE p # Head(todo)
        <5>1. older'[p] = older[p] /\ disk'[p] = disk[p]
          BY <2>1, <4>2, MadeDirectory
        <5> QED BY <5>1 DEF Shows, DiskInv
      <4> QED BY <4>1, <4>2
    <3> QED BY <2>1, <3>1, MadeDirectory
  <2>2. CASE Replace
    <3>1. \A p \in Paths : older'[p] \in Seq(Shows(p)')
      <4> SUFFICES ASSUME NEW p \in Paths PROVE older'[p] \in Seq(Shows(p)')
        OBVIOUS
      <4>1. CASE p = Head(todo)
        <5>1. older'[p] = Append(older[p], disk[p])
          BY <2>2, <4>1, Replaced
        <5>2. older[p] \in Seq(Shows(p)) /\ disk[p] \in Shows(p)
          BY DEF DiskInv, Shows
        <5>3. older'[p] \in Seq(Shows(p)) /\ Len(older'[p]) \in Nat
              /\ DOMAIN older'[p] = 1..Len(older'[p])
          BY <5>1, <5>2
        <5>4. \A k \in 1..Len(older'[p]) : older'[p][k] \in Shows(p)'
          BY <5>3 DEF Shows
        <5> QED BY <5>3, <5>4
      <4>2. CASE p # Head(todo)
        <5>1. older'[p] = older[p] /\ disk'[p] = disk[p]
          BY <2>2, <4>2, Replaced
        <5> QED BY <5>1 DEF Shows, DiskInv
      <4> QED BY <4>1, <4>2
    <3> QED BY <2>2, <3>1, Replaced
  <2>3. CASE SyncDirectory
    <3>1. \A p \in Paths : older'[p] \in Seq(Shows(p)')
      <4> SUFFICES ASSUME NEW p \in Paths PROVE older'[p] \in Seq(Shows(p)')
        OBVIOUS
      <4>1. disk'[p] = disk[p] /\ (older'[p] = <<>> \/ older'[p] = older[p])
        BY <2>3, SyncedNames
      <4>2. CASE older'[p] = <<>>
        BY <4>2, EmptySeq
      <4>3. CASE older'[p] = older[p]
        BY <4>1, <4>3 DEF Shows, DiskInv
      <4> QED BY <4>1, <4>2, <4>3
    <3> QED BY <2>3, <3>1, SyncedNames DEF DiskInv
  <2>4. CASE PowerLoss
    <3>1. DOMAIN disk' = Paths /\ older' = [p \in Paths |-> <<>>]
      BY <2>4, LostPower
    <3>2. \A S : <<>> \in Seq(S)
      BY EmptySeq
    <3> QED BY <3>1, <3>2
  <2>5. CASE UNCHANGED <<disk, older>>
    BY <2>5 DEF DiskInv, Shows
  <2> QED BY <2>1, <2>2, <2>3, <2>4, <2>5
          DEF Next, RecorderNext, Calls, Writes, vars, recorderVars, storage, Start,
              BeginEpisode, RecordEvent, CompleteEpisode, Finish, Enters, WriteTemporary,
              WriteFails, Crash
<1>2. ASSUME NEW p \in Paths, NEW d \in Shows(p)'
      PROVE  d = Absent \/ IsDocument(p, d)
  <2>1. d \in Shows(p) \/ d = Absent \/ Writing(p, d)
    BY WhatIsNew
  <2> QED BY <2>1, WritesDocuments DEF DiskInv
<1>3. \A p \in Paths : \A d \in Shows(p)' : d = Absent \/ IsDocument(p, d)'
  BY <1>2 DEF IsDocument
<1> QED BY <1>1, <1>3 DEF DiskInv

-----------------------------------------------------------------------------
(* What has been promised about results and events.                         *)

LEMMA WrotePromises ==
  ASSUME MemoryInv, CallInv, OpenInv, todo # <<>>, Wrote(Head(todo))
  PROVE  /\ promised'.results = promised.results
         /\ promised'.events = IF call.op = "record"
                               THEN [promised.events EXCEPT ![call.episode] =
                                       buffer[call.episode].events]
                               ELSE promised.events
         /\ promised.opened \subseteq promised'.opened
         /\ promised'.closed = IF call.op = "finish" /\ Len(todo) = 1
                               THEN IF call.complete THEN "complete" ELSE "partial"
                               ELSE promised.closed
         /\ "root" \in promised'.opened =>
              "root" \in promised.opened \/ (call.op = "start" /\ Len(todo) = 1)
<1>0. call.op \in {"start", "begin", "record", "complete", "finish"}
  BY NextPath DEF CallInv
<1>1. CASE Len(todo) # 1
  <2>1. promised' = promised
    BY <1>1, WroteFacts
  <2>2. call.op # "record"
    BY <1>1, NextPath
  <2> QED BY <1>1, <2>1, <2>2
<1>2. CASE Len(todo) = 1
  <2>1. CASE call.op = "start"
    <3>1. promised' = [promised EXCEPT !.opened = promised.opened \cup {"root"}]
      BY <1>2, <2>1, WroteFacts
    <3> QED BY <1>2, <2>1, <3>1, OpenedUpdate
  <2>2. CASE call.op = "begin"
    <3>1. promised' = [promised EXCEPT !.opened = promised.opened \cup {call.episode}]
      BY <1>2, <2>2, WroteFacts
    <3>2. call.episode # "root"
      BY <2>2, NextPath, EpisodeNames
    <3> QED BY <1>2, <2>2, <3>1, <3>2, OpenedUpdate
  <2>3. CASE call.op = "record"
    <3>1. promised' = [promised EXCEPT !.events[call.episode] = buffer[call.episode].events]
      BY <1>2, <2>3, WroteFacts
    <3> QED BY <2>3, <3>1, EventsUpdate
  <2>4. CASE call.op = "complete"
    BY <1>2, <2>4, WroteFacts
  <2>5. CASE call.op = "finish"
    <3>1. promised' = [promised EXCEPT !.closed =
                         IF call.complete THEN "complete" ELSE "partial"]
      BY <1>2, <2>5, WroteFacts
    <3> QED BY <1>2, <2>5, <3>1, ClosedUpdate
  <2> QED BY <1>0, <2>1, <2>2, <2>3, <2>4, <2>5
<1> QED BY <1>1, <1>2

LEMMA WroteBuffers ==
  ASSUME MemoryInv, CallInv, OpenInv, todo # <<>>, Wrote(Head(todo)), NEW e \in Episodes
  PROVE  /\ buffer'[e].events = buffer[e].events
         /\ buffer'[e].complete = (buffer[e].complete \/
              (call.op = "complete" /\ Len(todo) = 2 /\ e = call.episode))
         /\ e \in Begun => e \in Begun'
         /\ call.op = "complete" /\ Len(todo) = 2 /\ e = call.episode =>
              buffer'[e].reason = call.metrics.reason
         /\ ~(call.op = "complete" /\ Len(todo) = 2 /\ e = call.episode) =>
              buffer'[e].reason = buffer[e].reason
<1>1. e \in Begun => e \in Begun'
  <2>1. CASE call.op = "begin" /\ Len(todo) = 6
    <3>1. /\ begun' = Append(begun, call.episode)
          /\ Len(begun) < Len(Configured) /\ call.episode = Configured[Len(begun) + 1]
      BY <2>1, WroteFacts DEF OpenInv
    <3> QED BY <3>1, BegunGrows
  <2>2. CASE ~(call.op = "begin" /\ Len(todo) = 6)
    BY <2>2, WroteFacts DEF Begun
  <2> QED BY <2>1, <2>2
<1>2. buffer[e] \in BufferType /\ buffer \in [Episodes -> BufferType]
  BY BufferTypes
<1>3. CASE call.op = "complete" /\ Len(todo) = 2
  <2>1. buffer' = [buffer EXCEPT ![call.episode].complete = TRUE,
                                 ![call.episode].reason = call.metrics.reason]
    BY <1>3, WroteFacts
  <2>2. CASE e = call.episode
    <3>1. buffer'[e] = [buffer[e] EXCEPT !.complete = TRUE, !.reason = call.metrics.reason]
      BY <1>2, <2>1, <2>2
    <3> QED BY <1>1, <1>2, <1>3, <2>2, <3>1 DEF BufferType
  <2>3. CASE e # call.episode
    <3>1. buffer'[e] = buffer[e]
      BY <1>2, <2>1, <2>3
    <3> QED BY <1>1, <1>2, <2>3, <3>1 DEF BufferType
  <2> QED BY <2>2, <2>3
<1>4. CASE ~(call.op = "complete" /\ Len(todo) = 2)
  <2>1. buffer' = buffer
    BY <1>4, WroteFacts
  <2> QED BY <1>1, <1>2, <1>4, <2>1 DEF BufferType
<1> QED BY <1>3, <1>4

(* A write that fails takes back the event that was to be recorded.         *)
LEMMA FailedPromises ==
  ASSUME MemoryInv, CallInv, PromiseInv, WriteFails
  PROVE  /\ promised'.results = promised.results /\ promised'.events = promised.events
         /\ promised'.opened = promised.opened
         /\ promised'.closed = IF call.op = "finish" /\ call.complete
                               THEN "failed" ELSE promised.closed
         /\ begun' = begun /\ call'.op = "none" /\ finished' = finished
         /\ \A e \in Episodes : /\ buffer'[e].complete = buffer[e].complete
                                /\ buffer'[e].reason = buffer[e].reason
                                /\ buffer'[e].events = promised.events[e]
<1>0. todo # <<>> /\ begun' = begun /\ call'.op = "none" /\ finished' = finished
  BY NoCallType DEF WriteFails
<1>1. /\ promised'.results = promised.results /\ promised'.events = promised.events
      /\ promised'.opened = promised.opened
      /\ promised'.closed = IF call.op = "finish" /\ call.complete
                            THEN "failed" ELSE promised.closed
  <2>1. CASE call.op = "finish" /\ call.complete
    <3>1. promised' = [promised EXCEPT !.closed = "failed"]
      BY <2>1 DEF WriteFails
    <3> QED BY <2>1, <3>1, ClosedUpdate
  <2>2. CASE ~(call.op = "finish" /\ call.complete)
    BY <2>2 DEF WriteFails
  <2> QED BY <2>1, <2>2
<1>2. ASSUME NEW e \in Episodes
      PROVE  /\ buffer'[e].complete = buffer[e].complete
             /\ buffer'[e].reason = buffer[e].reason
             /\ buffer'[e].events = promised.events[e]
  <2>0. buffer[e] \in BufferType /\ buffer \in [Episodes -> BufferType]
    BY BufferTypes
  <2>1. CASE call.op = "record" /\ e = call.episode
    <3> DEFINE s == SubSeq(buffer[e].events, 1, Len(buffer[e].events) - 1)
    <3>1. s = promised.events[e]
      BY <2>1 DEF PromiseInv
    <3>2. buffer' = [buffer EXCEPT ![e].events = s]
      BY <2>0, <2>1 DEF WriteFails
    <3> HIDE DEF s
    <3>3. buffer'[e] = [buffer[e] EXCEPT !.events = s]
      BY <2>0, <3>2
    <3> QED BY <2>0, <3>1, <3>3 DEF BufferType
  <2>2. CASE ~(call.op = "record" /\ e = call.episode)
    <3>1. buffer'[e] = buffer[e]
      <4>1. CASE call.op = "record"
        <5>1. call.episode # e
          BY <2>2, <4>1
        <5> QED BY <2>0, <4>1, <5>1 DEF WriteFails
      <4>2. CASE call.op # "record"
        BY <4>2 DEF WriteFails
      <4> QED BY <4>1, <4>2
    <3>2. buffer[e].events = promised.events[e]
      BY <2>2 DEF PromiseInv
    <3> QED BY <3>1, <3>2
  <2> QED BY <2>1, <2>2
<1> QED BY <1>0, <1>1, <1>2

LEMMA RecordedPromises ==
  ASSUME MemoryInv, PromiseInv, CallInv, NEW d \in Episodes, NEW text \in Texts, RecordEvent(d, text)
  PROVE  /\ UNCHANGED <<promised, begun, finished>> /\ call.op = "none" /\ call'.op = "record"
         /\ call'.episode = d /\ promised.results[d] = Absent
         /\ \A e \in Episodes :
              /\ buffer'[e].complete = buffer[e].complete
              /\ buffer'[e].reason = buffer[e].reason
              /\ IF e = d
                 THEN SubSeq(buffer'[e].events, 1, Len(buffer'[e].events) - 1)
                        = promised.events[e]
                 ELSE buffer'[e].events = promised.events[e]
<1> DEFINE x == [sequence |-> Len(buffer[d].events), text |-> text]
           s == Append(buffer[d].events, x)
<1>1. /\ UNCHANGED <<promised, begun, finished>> /\ call.op = "none" /\ call'.op = "record"
      /\ call'.episode = d /\ promised.results[d] = Absent
      /\ buffer' = [buffer EXCEPT ![d].events = s]
  BY DEF RecordEvent, Enters, NoCall
<1>2. buffer[d].events \in Seq(EventRecords) /\ Len(buffer[d].events) \in Nat
  BY BufferTypes
<1>3. x \in EventRecords
  BY <1>2 DEF EventRecords
<1> HIDE DEF x
<1>4. SubSeq(s, 1, Len(s) - 1) = buffer[d].events
  BY <1>2, <1>3, AppendType
<1> HIDE DEF s
<1>5. \A e \in Episodes : buffer[e].events = promised.events[e]
  BY <1>1 DEF PromiseInv
<1>6. ASSUME NEW e \in Episodes
      PROVE  /\ buffer'[e].complete = buffer[e].complete
             /\ buffer'[e].reason = buffer[e].reason
             /\ buffer'[e].events = IF e = d THEN s ELSE buffer[e].events
  <2>0. buffer[e] \in BufferType /\ buffer \in [Episodes -> BufferType]
    BY BufferTypes
  <2>1. CASE e = d
    <3>1. buffer'[e] = [buffer[e] EXCEPT !.events = s]
      BY <1>1, <2>0, <2>1
    <3> QED BY <2>0, <2>1, <3>1 DEF BufferType
  <2>2. CASE e # d
    <3>1. buffer'[e] = buffer[e]
      BY <1>1, <2>0, <2>2
    <3> QED BY <2>2, <3>1
  <2> QED BY <2>1, <2>2
<1>7. ASSUME NEW e \in Episodes, e = d
      PROVE  SubSeq(buffer'[e].events, 1, Len(buffer'[e].events) - 1) = promised.events[e]
  <2>1. buffer'[e].events = s
    BY <1>6, <1>7
  <2> QED BY <1>4, <1>5, <1>7, <2>1
<1> QED BY <1>1, <1>5, <1>6, <1>7

LEMMA CompletedPromises ==
  ASSUME MemoryInv, NEW d \in Episodes, NEW m \in Metrics, NEW t \in Trajectories,
         CompleteEpisode(d, m, t)
  PROVE  /\ UNCHANGED <<begun, buffer, finished>> /\ call.op = "none" /\ call'.op = "complete"
         /\ call'.episode = d /\ promised.results[d] = Absent /\ Open(d) /\ Len(todo') = 4
         /\ call'.metrics = CompleteMetrics(m) /\ call'.trajectory = t
         /\ promised'.opened = promised.opened /\ promised'.closed = promised.closed
         /\ promised'.events = promised.events
         /\ \A e \in Episodes : e # d => promised'.results[e] = promised.results[e]
         /\ promised'.results[d] = [metrics |-> CompleteMetrics(m), trajectory |-> t]
         /\ promised'.results[d] # Absent
<1> DEFINE x == [metrics |-> CompleteMetrics(m), trajectory |-> t]
<1>1. /\ UNCHANGED <<begun, buffer, finished>> /\ call.op = "none" /\ call'.op = "complete"
      /\ call'.episode = d /\ promised.results[d] = Absent /\ Open(d) /\ Len(todo') = 4
      /\ call'.metrics = CompleteMetrics(m) /\ call'.trajectory = t
      /\ promised' = [promised EXCEPT !.results[d] = x]
  BY DEF CompleteEpisode, Enters, NoCall, CompletionOrder
<1>2. x \in EpisodeResults /\ x # Absent
  BY CompleteMetricsType, AbsentAssumption DEF EpisodeResults
<1> HIDE DEF x
<1>3. /\ promised'.opened = promised.opened /\ promised'.closed = promised.closed
      /\ promised'.events = promised.events
      /\ promised'.results = [promised.results EXCEPT ![d] = x]
  BY <1>1, ResultsUpdate
<1>4. promised.results \in [Episodes -> EpisodeResults \cup {Absent}]
  BY PromisedTypes
<1> QED BY <1>1, <1>2, <1>3, <1>4 DEF x

LEMMA StartedPromises ==
  ASSUME MemoryInv, Start
  PROVE  /\ UNCHANGED <<begun, buffer, finished>> /\ call.op = "none" /\ call'.op = "start"
         /\ call'.complete = FALSE /\ Len(todo') = 5
         /\ promised'.opened = {Asked} /\ promised'.events = promised.events
         /\ promised'.results = promised.results /\ promised'.closed = promised.closed
<1>1. /\ UNCHANGED <<begun, buffer, finished>> /\ call.op = "none" /\ call'.op = "start"
      /\ call'.complete = FALSE /\ Len(todo') = 5
      /\ promised' = [promised EXCEPT !.opened = {Asked}]
  BY DEF Start, Enters, NoCall
<1> QED BY <1>1, OpenedUpdate

LEMMA BegunPromises ==
  ASSUME MemoryInv, PromiseInv, NEW d \in Episodes, BeginEpisode(d)
  PROVE  /\ UNCHANGED <<begun, buffer, finished, promised>> /\ call.op = "none"
         /\ call'.op = "begin" /\ call'.episode = d /\ Len(todo') = 6
         /\ call'.metrics = OpenMetrics
         /\ promised.results[d] = Absent /\ d \notin Begun
<1>1. /\ UNCHANGED <<begun, buffer, finished, promised>> /\ call.op = "none"
      /\ call'.op = "begin" /\ call'.episode = d /\ Len(todo') = 6
      /\ call'.metrics = OpenMetrics
      /\ Len(begun) < Len(Configured) /\ d = Configured[Len(begun) + 1]
  BY DEF BeginEpisode, Enters, NoCall
<1>2. d \notin Begun
  BY <1>1, EpisodesInOrder
<1> QED BY <1>1, <1>2 DEF PromiseInv

LEMMA FinishingPromises ==
  ASSUME NEW complete \in BOOLEAN, Finish(complete)
  PROVE  /\ UNCHANGED <<begun, buffer, finished, promised>> /\ call.op = "none"
         /\ call'.op = "finish" /\ call'.complete = complete /\ Len(todo') = 2
         /\ ~finished
         /\ complete => Begun = Episodes /\ \A e \in Episodes : buffer[e].complete
BY DEF Finish, Enters, NoCall, FinishOrder, Active

(* The other steps of the recorder touch files only.                        *)
FilesOnly ==
  WriteTemporary \/ Replace \/ Crash \/ PowerLoss \/ UNCHANGED recorderVars

LEMMA FilePromises ==
  ASSUME FilesOnly
  PROVE  UNCHANGED <<begun, buffer, finished, promised, call, todo>>
BY DEF FilesOnly, WriteTemporary, Replace, Crash, PowerLoss, recorderVars, memory

LEMMA Steps ==
  ASSUME [Next]_vars, CallInv
  PROVE  \/ Start \/ (\E e \in Episodes : BeginEpisode(e))
         \/ (\E e \in Episodes, text \in Texts : RecordEvent(e, text))
         \/ (\E e \in Episodes, m \in Metrics, t \in Trajectories : CompleteEpisode(e, m, t))
         \/ (\E complete \in BOOLEAN : Finish(complete))
         \/ (todo # <<>> /\ Wrote(Head(todo)) /\ (MakeDirectory \/ SyncDirectory))
         \/ WriteFails \/ FilesOnly
<1>1. CASE MakeDirectory
  BY <1>1 DEF MakeDirectory
<1>2. CASE SyncDirectory
  BY <1>2 DEF SyncDirectory, CallInv
<1> QED BY <1>1, <1>2 DEF Next, RecorderNext, Calls, Writes, vars, FilesOnly

LEMMA PromisesStay ==
  ASSUME MemoryInv, CallInv, OpenInv, PromiseInv, [Next]_vars, NEW e \in Episodes
  PROVE  /\ promised.results[e] # Absent =>
              /\ promised'.results[e] = promised.results[e]
              /\ promised'.events[e] = promised.events[e]
         /\ e \in Begun => e \in Begun'
         /\ buffer[e].complete => buffer'[e].complete
<1>1. CASE Start
  BY <1>1, StartedPromises DEF Begun
<1>2. ASSUME NEW d \in Episodes, BeginEpisode(d)
      PROVE  /\ promised'.results[e] = promised.results[e]
             /\ promised'.events[e] = promised.events[e]
             /\ Begun' = Begun /\ buffer' = buffer
  BY <1>2, BegunPromises DEF Begun
<1>3. ASSUME NEW d \in Episodes, NEW text \in Texts, RecordEvent(d, text)
      PROVE  /\ promised'.results[e] = promised.results[e]
             /\ promised'.events[e] = promised.events[e]
             /\ Begun' = Begun /\ buffer'[e].complete = buffer[e].complete
  BY <1>3, RecordedPromises DEF Begun
<1>4. ASSUME NEW d \in Episodes, NEW m \in Metrics, NEW t \in Trajectories,
             CompleteEpisode(d, m, t)
      PROVE  /\ promised.results[e] # Absent => promised'.results[e] = promised.results[e]
             /\ promised'.events[e] = promised.events[e]
             /\ Begun' = Begun /\ buffer' = buffer
  <2>1. /\ begun' = begun /\ buffer' = buffer /\ promised.results[d] = Absent
        /\ promised'.events = promised.events
        /\ e # d => promised'.results[e] = promised.results[e]
    BY ZenonT(30), <1>4, CompletedPromises
  <2>2. Begun' = Begun
    BY <2>1 DEF Begun
  <2>3. promised.results[e] # Absent => promised'.results[e] = promised.results[e]
    BY <2>1
  <2>4. promised'.events[e] = promised.events[e]
    BY <2>1
  <2> QED BY <2>1, <2>2, <2>3, <2>4
<1>5. ASSUME NEW complete \in BOOLEAN, Finish(complete)
      PROVE  /\ promised'.results[e] = promised.results[e]
             /\ promised'.events[e] = promised.events[e]
             /\ Begun' = Begun /\ buffer' = buffer
  BY <1>5, FinishingPromises DEF Begun
<1>6. CASE todo # <<>> /\ Wrote(Head(todo))
  <2>1. /\ e \in Begun => e \in Begun'
        /\ buffer[e].complete => buffer'[e].complete
    BY <1>6, WroteBuffers
  <2>2. promised'.results = promised.results
    BY <1>6, WrotePromises
  <2>3. promised.results[e] # Absent => promised'.events[e] = promised.events[e]
    <3>1. CASE call.op = "record"
      <4>1. promised.results[e] # Absent => e # call.episode
        BY <3>1 DEF PromiseInv
      <4>2. promised'.events = [promised.events EXCEPT ![call.episode] =
                                  buffer[call.episode].events]
        BY <1>6, <3>1, WrotePromises
      <4>3. promised.events \in [Episodes -> Seq(EventRecords)]
        BY PromisedTypes
      <4> QED BY <4>1, <4>2, <4>3
    <3>2. CASE call.op # "record"
      BY <1>6, <3>2, WrotePromises
    <3> QED BY <3>1, <3>2
  <2> QED BY <2>1, <2>2, <2>3
<1>7. CASE WriteFails
  BY <1>7, FailedPromises DEF Begun
<1>8. CASE FilesOnly
  BY <1>8, FilePromises DEF Begun
<1> QED BY <1>1, <1>2, <1>3, <1>4, <1>5, <1>6, <1>7, <1>8, Steps

LEMMA PromiseNext ==
  ASSUME MemoryInv, CallInv, OpenInv, PromiseInv, [Next]_vars
  PROVE  PromiseInv'
<1>1. CASE Start
  <2>1. Begun' = Begun
    BY <1>1, StartedPromises DEF Begun
  <2> QED BY <1>1, <2>1, StartedPromises DEF PromiseInv
<1>2. ASSUME NEW d \in Episodes, BeginEpisode(d)
      PROVE  PromiseInv'
  <2>1. Begun' = Begun
    BY <1>2, BegunPromises DEF Begun
  <2> QED BY <1>2, <2>1, BegunPromises DEF PromiseInv
<1>3. ASSUME NEW d \in Episodes, NEW text \in Texts, RecordEvent(d, text)
      PROVE  PromiseInv'
  <2>1. Begun' = Begun
    BY <1>3, RecordedPromises DEF Begun
  <2> QED BY <1>3, <2>1, RecordedPromises DEF PromiseInv
<1>4. ASSUME NEW d \in Episodes, NEW m \in Metrics, NEW t \in Trajectories,
             CompleteEpisode(d, m, t)
      PROVE  PromiseInv'
  <2>1. /\ begun' = begun /\ buffer' = buffer /\ Open(d)
        /\ call.op = "none" /\ call'.op = "complete" /\ call'.episode = d
        /\ call'.metrics = CompleteMetrics(m) /\ call'.trajectory = t
        /\ promised'.events = promised.events
        /\ promised'.results[d] = [metrics |-> CompleteMetrics(m), trajectory |-> t]
        /\ promised'.results[d] # Absent
    BY <1>4, CompletedPromises
  <2>2. \A e \in Episodes : e # d => promised'.results[e] = promised.results[e]
    BY <1>4, CompletedPromises
  <2>3. Begun' = Begun /\ d \in Begun /\ ~buffer[d].complete
    BY <2>1 DEF Begun, Open
  <2>4. call'.metrics.complete
    BY <2>1, CompleteMetricsType
  <2>5. promised'.results[d] = [metrics |-> call'.metrics, trajectory |-> call'.trajectory]
    BY <2>1
  <2>6. \A e \in Episodes : buffer'[e].events = promised'.events[e]
    BY <2>1 DEF PromiseInv
  <2>7. \A e \in Episodes : /\ promised'.results[e] # Absent => e \in Begun'
                            /\ buffer'[e].complete => promised'.results[e] # Absent
    <3>1. SUFFICES ASSUME NEW e \in Episodes
          PROVE  /\ promised'.results[e] # Absent => e \in Begun'
                 /\ buffer'[e].complete => promised'.results[e] # Absent
      OBVIOUS
    <3>2. CASE e = d
      BY <2>1, <2>3, <3>2
    <3>3. CASE e # d
      <4>1. promised'.results[e] = promised.results[e]
        BY <2>2, <3>3
      <4> QED BY <2>1, <2>3, <4>1 DEF PromiseInv
    <3> QED BY <3>2, <3>3
  <2>8. call'.op = "complete" /\ call'.op # "record" /\ call'.op # "begin"
        /\ ~buffer'[d].complete
    BY <2>1, <2>3
  <2>9. call'.episode = d /\ promised'.results[d] # Absent
    BY <2>1
  <2> QED BY <2>4, <2>5, <2>6, <2>7, <2>8, <2>9 DEF PromiseInv
<1>5. ASSUME NEW complete \in BOOLEAN, Finish(complete)
      PROVE  PromiseInv'
  <2>1. Begun' = Begun
    BY <1>5, FinishingPromises DEF Begun
  <2> QED BY <1>5, <2>1, FinishingPromises DEF PromiseInv
<1>6. CASE todo # <<>> /\ Wrote(Head(todo))
  <2> SUFFICES ASSUME NEW e \in Episodes
      PROVE
    /\ promised'.results[e] # Absent => e \in Begun'
    /\ buffer'[e].complete => promised'.results[e] # Absent
    /\ call'.op \in {"begin", "record"} /\ call'.episode = e => promised'.results[e] = Absent
    /\ call'.op = "complete" /\ call'.episode = e =>
         /\ promised'.results[e] = [metrics |-> call'.metrics, trajectory |-> call'.trajectory]
         /\ promised'.results[e] # Absent
         /\ call'.metrics.complete
         /\ Len(todo') >= 2 => ~buffer'[e].complete
    /\ IF call'.op = "record" /\ call'.episode = e
       THEN SubSeq(buffer'[e].events, 1, Len(buffer'[e].events) - 1) = promised'.events[e]
       ELSE buffer'[e].events = promised'.events[e]
    BY DEF PromiseInv
  <2>0. call.op \in {"start", "begin", "record", "complete", "finish"}
    BY <1>6, NextPath DEF CallInv
  <2>1. promised'.results = promised.results
    BY <1>6, WrotePromises
  <2>2. promised'.results[e] # Absent => e \in Begun'
    BY <1>6, <2>1, WroteBuffers DEF PromiseInv
  <2>3. buffer'[e].complete => promised'.results[e] # Absent
    BY <1>6, <2>1, WroteBuffers DEF PromiseInv
  <2>4. /\ Len(todo) = 1 => call'.op = "none"
        /\ Len(todo) # 1 => call' = call
    BY <1>6, WroteFacts, NoCallType
  <2>5. call.op = "record" => Len(todo) = 1
    BY <1>6, NextPath
  <2>6. buffer'[e].events = promised'.events[e]
    <3>0. buffer'[e].events = buffer[e].events
      BY <1>6, WroteBuffers
    <3>1. CASE call.op = "record"
      <4>1. promised'.events = [promised.events EXCEPT ![call.episode] =
                                  buffer[call.episode].events]
        BY <1>6, <3>1, WrotePromises
      <4>2. promised.events \in [Episodes -> Seq(EventRecords)]
        BY PromisedTypes
      <4>3. CASE e = call.episode
        BY <3>0, <4>1, <4>2, <4>3
      <4>4. CASE e # call.episode
        BY <3>0, <3>1, <4>1, <4>2, <4>4 DEF PromiseInv
      <4> QED BY <4>3, <4>4
    <3>2. CASE call.op # "record"
      BY <1>6, <3>0, <3>2, WrotePromises DEF PromiseInv
    <3> QED BY <3>1, <3>2
  <2>7. call'.op # "record"
    BY <2>4, <2>5
  <2>8. call'.op = "complete" /\ Len(todo') >= 2 /\ call'.episode = e => ~buffer'[e].complete
    <3> SUFFICES ASSUME call'.op = "complete", Len(todo') >= 2, call'.episode = e
                 PROVE  ~buffer'[e].complete
      OBVIOUS
    <3>1. Len(todo) # 1 /\ call' = call /\ call.op = "complete" /\ call.episode = e
      BY <2>4
    <3>2. Len(todo) \in Nat /\ Len(todo') = Len(todo) - 1
      BY <1>6, WroteFacts, TailFacts DEF CallInv
    <3>3. Len(todo) # 2 /\ Len(todo) >= 2
      BY <3>2
    <3>4. ~buffer[e].complete
      BY <3>1, <3>3 DEF PromiseInv
    <3>5. buffer[e].complete \in BOOLEAN
      BY BufferTypes
    <3> QED BY <1>6, <3>3, <3>4, <3>5, WroteBuffers
  <2> QED BY <2>1, <2>2, <2>3, <2>4, <2>6, <2>7, <2>8 DEF PromiseInv
<1>7. CASE WriteFails
  <2>1. Begun' = Begun
    BY <1>7, FailedPromises DEF Begun
  <2> QED BY <1>7, <2>1, FailedPromises DEF PromiseInv
<1>8. CASE FilesOnly
  <2>1. Begun' = Begun
    BY <1>8, FilePromises DEF Begun
  <2> QED BY <1>8, <2>1, FilePromises DEF PromiseInv
<1> QED BY <1>1, <1>2, <1>3, <1>4, <1>5, <1>6, <1>7, <1>8, Steps

-----------------------------------------------------------------------------
(* Who writes where.                                                        *)

LEMMA EpisodePlaces ==
  ASSUME CallInv, todo # <<>>, NEW e \in Episodes
  PROVE  /\ Head(todo) = MetricsOf(e) =>
              call.op \in {"begin", "complete"} /\ call.episode = e /\ Len(todo) = 2
         /\ Head(todo) = TrajectoryOf(e) =>
              /\ call.episode = e
              /\ call.op = "begin" \/ (call.op = "complete" /\ Len(todo) = 4)
         /\ Head(todo) = EventsOf(e) =>
              /\ call.episode = e
              /\ call.op \in {"begin", "record"} \/ (call.op = "complete" /\ Len(todo) = 3)
         /\ Head(todo) = Entry(e) => call.op = "begin" /\ call.episode = e /\ Len(todo) = 6
<1> DEFINE p == Head(todo)
           n == Len(todo)
           d == call.episode
<1>0. call.op \in {"start", "begin", "record", "complete", "finish"} /\ n \in Nat
  BY NextPath DEF CallInv
<1>1. call.op = "start" => p[1] # e
  BY NextPath, StartPlaces, EpisodeParts
<1>2. call.op = "finish" => p[1] # e
  BY NextPath, FinishPlaces, EpisodeParts
<1>3. ASSUME call.op = "begin", p[1] = e
      PROVE  /\ d = e
             /\ p[2] = "metrics" => n = 2
             /\ p[2] = "." => n = 6
  <2>1. d \in Episodes /\ AtBegin(d, p, n)
    BY <1>3, NextPath
  <2> HIDE DEF p, n, d
  <2>2. p[1] = (IF n = 1 THEN "root" ELSE d) /\ (p[2] = "metrics" <=> n = 2)
        /\ (p[2] = "." <=> n = 6)
    BY <1>0, <2>1, BeginPlaces
  <2>3. e # "root"
    BY EpisodeParts
  <2> QED BY <1>3, <2>2, <2>3 DEF p, n, d
<1>4. ASSUME call.op = "record", p[1] = e
      PROVE  d = e /\ p[2] = "events"
  <2>1. d \in Episodes /\ p = EventsOf(d)
    BY <1>4, NextPath
  <2> QED BY <1>4, <2>1, RecordPlaces
<1>5. ASSUME call.op = "complete", p[1] = e
      PROVE  /\ d = e
             /\ p[2] = "trajectory" => n = 4
             /\ p[2] = "events" => n = 3
             /\ p[2] = "metrics" => n = 2
             /\ p[2] # "."
  <2>1. d \in Episodes /\ AtComplete(d, p, n)
    BY <1>5, NextPath
  <2> HIDE DEF p, n, d
  <2>2. e # "root"
    BY EpisodeParts
  <2>3. \/ n = 4 /\ p = TrajectoryOf(d)
        \/ n = 3 /\ p = EventsOf(d)
        \/ n = 2 /\ p = MetricsOf(d)
        \/ n = 1 /\ p = Summary
    BY <2>1 DEF AtComplete
  <2>4. CASE n = 4 /\ p = TrajectoryOf(d)
    BY <1>5, <2>1, <2>4, EpisodeParts DEF d, p, n
  <2>5. CASE n = 3 /\ p = EventsOf(d)
    BY <1>5, <2>1, <2>5, EpisodeParts DEF d, p, n
  <2>6. CASE n = 2 /\ p = MetricsOf(d)
    BY <1>5, <2>1, <2>6, EpisodeParts DEF d, p, n
  <2>7. CASE n = 1 /\ p = Summary
    BY <1>5, <2>2, <2>7, RootParts DEF d, p, n
  <2> QED BY <2>3, <2>4, <2>5, <2>6, <2>7
<1>6. /\ MetricsOf(e)[1] = e /\ MetricsOf(e)[2] = "metrics"
      /\ TrajectoryOf(e)[1] = e /\ TrajectoryOf(e)[2] = "trajectory"
      /\ EventsOf(e)[1] = e /\ EventsOf(e)[2] = "events"
      /\ Entry(e)[1] = e /\ Entry(e)[2] = "."
  BY EpisodeParts
<1> HIDE DEF p, n, d
<1>7. p = MetricsOf(e) => call.op \in {"begin", "complete"} /\ d = e /\ n = 2
  BY <1>0, <1>1, <1>2, <1>3, <1>4, <1>5, <1>6
<1>8. p = TrajectoryOf(e) => d = e /\ (call.op = "begin" \/ (call.op = "complete" /\ n = 4))
  BY <1>0, <1>1, <1>2, <1>3, <1>4, <1>5, <1>6
<1>9. p = EventsOf(e) =>
        d = e /\ (call.op \in {"begin", "record"} \/ (call.op = "complete" /\ n = 3))
  BY <1>0, <1>1, <1>2, <1>3, <1>4, <1>5, <1>6
<1>10. p = Entry(e) => call.op = "begin" /\ d = e /\ n = 6
  BY <1>0, <1>1, <1>2, <1>3, <1>4, <1>5, <1>6
<1> QED BY <1>7, <1>8, <1>9, <1>10 DEF p, n, d

LEMMA RootPlaces ==
  ASSUME CallInv, todo # <<>>
  PROVE  /\ Head(todo) = Metadata => call.op \in {"start", "finish"} /\ Len(todo) = 1
         /\ Head(todo) = Summary /\ call.op = "finish" => Len(todo) = 2
         /\ Head(todo) = Entry(Root) => call.op = "start" /\ Len(todo) = 5
         /\ Head(todo) = EpisodesDirectory => call.op = "start" /\ Len(todo) = 4
<1> DEFINE p == Head(todo)
           n == Len(todo)
           d == call.episode
<1>0. call.op \in {"start", "begin", "record", "complete", "finish"} /\ n \in Nat
  BY NextPath DEF CallInv
<1>1. ASSUME call.op = "start"
      PROVE  /\ p = Metadata => n = 1
             /\ p = Entry(Root) => n = 5
             /\ p = EpisodesDirectory => n = 4
  <2>1. AtStart(p, n)
    BY <1>1, NextPath
  <2> QED BY <2>1, RootParts DEF AtStart
<1>2. ASSUME call.op = "finish"
      PROVE  /\ p = Metadata => n = 1
             /\ p = Summary => n = 2
             /\ p # Entry(Root) /\ p # EpisodesDirectory
  <2>1. AtFinish(p, n)
    BY <1>2, NextPath
  <2> QED BY <2>1, RootParts DEF AtFinish
<1>3. ASSUME call.op \in {"begin", "record", "complete"}
      PROVE  p # Metadata /\ p # Entry(Root) /\ p # EpisodesDirectory
  <2>0. d \in Episodes /\ d # "root"
    BY <1>3, NextPath, EpisodeParts
  <2>1. p[1] = d \/ p = Summary
    <3>1. CASE call.op = "begin"
      BY <3>1, <2>0, NextPath, EpisodeParts DEF AtBegin
    <3>2. CASE call.op = "record"
      BY <3>2, <2>0, NextPath, EpisodeParts
    <3>3. CASE call.op = "complete"
      BY <3>3, <2>0, NextPath, EpisodeParts DEF AtComplete
    <3> QED BY <1>3, <3>1, <3>2, <3>3
  <2> QED BY <2>0, <2>1, RootParts
<1> QED BY <1>0, <1>1, <1>2, <1>3

-----------------------------------------------------------------------------
(* A result that is on disk stays what it is.                               *)

LEMMA FixedStable ==
  ASSUME MemoryInv, DiskInv, CallInv, OpenInv, PromiseInv, [Next]_vars,
         NEW e \in Episodes, Fixed(e)
  PROVE  Fixed(e)'
<1>0. /\ MetricsOf(e) \in Paths /\ TrajectoryOf(e) \in Paths /\ EventsOf(e) \in Paths
      /\ ~IsDirectory(MetricsOf(e)) /\ ~IsDirectory(TrajectoryOf(e)) /\ ~IsDirectory(EventsOf(e))
  BY EpisodeNames, EpisodeParts
<1>1. promised.results[e] # Absent
  BY DEF Fixed
<1>2. promised'.results[e] = promised.results[e] /\ promised'.events[e] = promised.events[e]
  BY <1>1, PromisesStay
<1>3. call.episode = e => call.op # "begin" /\ call.op # "record"
  BY <1>1 DEF PromiseInv
<1>4. call.op = "complete" /\ call.episode = e =>
        /\ promised.results[e].metrics = call.metrics
        /\ promised.results[e].trajectory = call.trajectory
  BY DEF PromiseInv
<1>5. call.op # "record" => buffer[e].events = promised.events[e]
  BY DEF PromiseInv
<1>6. ASSUME NEW d \in Shows(MetricsOf(e))', Complete(d)
      PROVE  d = promised.results[e].metrics
  <2>1. CASE d \in Shows(MetricsOf(e))
    BY <1>6, <2>1 DEF Fixed
  <2>2. CASE Writing(MetricsOf(e), d)
    <3>1. todo # <<>> /\ Head(todo) = MetricsOf(e) /\ d = Document(MetricsOf(e))
      BY <1>0, <2>2 DEF Writing
    <3>2. call.op = "complete" /\ call.episode = e
      BY <1>3, <3>1, EpisodePlaces
    <3> QED BY <1>4, <3>1, <3>2, Documents
  <2> QED BY <1>0, <1>6, <2>1, <2>2, WhatIsNew DEF Complete
<1>7. ASSUME NEW d \in Shows(TrajectoryOf(e))'
      PROVE  d \in {Absent, promised.results[e].trajectory}
  <2>1. CASE d \in Shows(TrajectoryOf(e))
    BY <1>7, <2>1 DEF Fixed
  <2>2. CASE Writing(TrajectoryOf(e), d)
    <3>1. todo # <<>> /\ Head(todo) = TrajectoryOf(e) /\ d = Document(TrajectoryOf(e))
      BY <1>0, <2>2 DEF Writing
    <3>2. call.op = "complete" /\ call.episode = e
      BY <1>3, <3>1, EpisodePlaces
    <3> QED BY <1>4, <3>1, <3>2, Documents
  <2> QED BY <1>0, <1>7, <2>1, <2>2, WhatIsNew
<1>8. ASSUME NEW d \in Shows(EventsOf(e))'
      PROVE  d \in {Absent, promised.events[e]}
  <2>1. CASE d \in Shows(EventsOf(e))
    BY <1>8, <2>1 DEF Fixed
  <2>2. CASE Writing(EventsOf(e), d)
    <3>1. todo # <<>> /\ Head(todo) = EventsOf(e) /\ d = Document(EventsOf(e))
      BY <1>0, <2>2 DEF Writing
    <3>2. call.op = "complete"
      BY <1>3, <3>1, EpisodePlaces
    <3> QED BY <1>5, <3>1, <3>2, Documents DEF EventsDocument
  <2> QED BY <1>0, <1>8, <2>1, <2>2, WhatIsNew
<1> HIDE DEF MetricsOf, TrajectoryOf, EventsOf
<1> QED BY <1>1, <1>2, <1>6, <1>7, <1>8 DEF Fixed, Complete

LEMMA FixedNext ==
  ASSUME MemoryInv, DiskInv, CallInv, OpenInv, PromiseInv, FixedInv, ProgressInv, [Next]_vars
  PROVE  FixedInv'
<1> SUFFICES ASSUME NEW e \in Episodes, ShowsComplete(MetricsOf(e))'
             PROVE  Fixed(e)'
  BY DEF FixedInv
<1>1. Fixed(e)
  <2>1. CASE ShowsComplete(MetricsOf(e))
    BY <2>1 DEF FixedInv
  <2>2. CASE ~ShowsComplete(MetricsOf(e))
    <3>1. PICK d \in Shows(MetricsOf(e))' : Complete(d)
      BY DEF ShowsComplete, Complete
    <3>2. Writing(MetricsOf(e), d)
      BY <2>2, <3>1, WhatIsNew, EpisodeNames DEF ShowsComplete, Complete
    <3>3. up /\ todo # <<>> /\ Head(todo) = MetricsOf(e) /\ stage = "written"
          /\ d = Document(MetricsOf(e))
      BY <3>2, EpisodeParts DEF Writing
    <3>4. call.op \in {"begin", "complete"} /\ call.episode = e /\ Len(todo) = 2
      BY <3>3, EpisodePlaces
    <3>5. d = call.metrics
      BY <3>3, Documents
    <3>6. call.op = "complete"
      BY <3>1, <3>3, <3>4, <3>5, OpenMetricsType DEF ProgressInv, Complete
    <3>7. /\ Settled(TrajectoryOf(e), call.trajectory)
          /\ Settled(EventsOf(e), promised.events[e])
      BY <3>3, <3>4, <3>6 DEF ProgressInv
    <3>8. promised.results[e] # Absent /\ promised.results[e].trajectory = call.trajectory
      BY <3>4, <3>6 DEF PromiseInv
    <3>9. /\ \A x \in Shows(TrajectoryOf(e)) : x = call.trajectory
          /\ \A x \in Shows(EventsOf(e)) : x = promised.events[e]
      BY <3>7 DEF Settled, Shows
    <3> QED BY <2>2, <3>8, <3>9 DEF Fixed, ShowsComplete
  <2> QED BY <2>1, <2>2
<1> QED BY <1>1, FixedStable

-----------------------------------------------------------------------------
(* A complete manifest stays a manifest of all the results.                 *)

LEMMA SummaryLists ==
  ASSUME NEW complete
  PROVE  ListedIn(SummaryDocument(complete)) = Begun
<1> DEFINE x == [i \in DOMAIN begun |->
                   [episode  |-> begun[i], complete |-> buffer[begun[i]].complete,
                    reason   |-> buffer[begun[i]].reason]]
<1>1. SummaryDocument(complete).episodes = x
  BY DEF SummaryDocument
<1>2. DOMAIN x = DOMAIN begun /\ \A i \in DOMAIN begun : x[i].episode = begun[i]
  OBVIOUS
<1> HIDE DEF x
<1> QED BY <1>1, <1>2 DEF ListedIn, Begun

LEMMA FullStable ==
  ASSUME MemoryInv, DiskInv, CallInv, [Next]_vars, Begun = Episodes,
         \A s \in Shows(Summary) : s = Absent \/ Full(s)
  PROVE  \A s \in Shows(Summary)' : s = Absent \/ Full(s)
<1> SUFFICES ASSUME NEW s \in Shows(Summary)'
             PROVE  s = Absent \/ Full(s)
  OBVIOUS
<1>1. CASE Writing(Summary, s)
  <2>1. s = Document(Summary)
    BY <1>1, RootParts DEF Writing
  <2>2. s = SummaryDocument(call.complete)
    BY <2>1, Documents
  <2> QED BY <2>2, SummaryLists DEF Full
<1> QED BY <1>1, WhatIsNew, RootNames

LEMMA SealedStable ==
  ASSUME MemoryInv, DiskInv, CallInv, OpenInv, PromiseInv, [Next]_vars, Sealed, Begun' \subseteq Episodes
  PROVE  Sealed'
<1>1. Begun' = Episodes
  BY PromisesStay DEF Sealed
<1>2. \A e \in Episodes : buffer'[e].complete
  BY PromisesStay DEF Sealed
<1>3. \A s \in Shows(Summary)' : s = Absent \/ Full(s)
  BY FullStable DEF Sealed
<1>4. Full(1) = Full(1)'
  BY DEF Full, ListedIn
<1> QED BY <1>1, <1>2, <1>3 DEF Sealed, Full

LEMMA SealNext ==
  ASSUME MemoryInv, DiskInv, CallInv, OpenInv, PromiseInv, SealInv, ProgressInv, [Next]_vars
  PROVE  SealInv'
<1> SUFFICES ASSUME ShowsComplete(Metadata)'
             PROVE  Sealed'
  BY DEF SealInv
<1>1. Sealed
  <2>1. CASE ShowsComplete(Metadata)
    BY <2>1 DEF SealInv
  <2>2. CASE ~ShowsComplete(Metadata)
    <3>1. PICK d \in Shows(Metadata)' : Complete(d)
      BY DEF ShowsComplete, Complete
    <3>2. Writing(Metadata, d)
      BY <2>2, <3>1, WhatIsNew, RootNames DEF ShowsComplete, Complete
    <3>3. up /\ todo # <<>> /\ Head(todo) = Metadata /\ d = Document(Metadata)
      BY <3>2, RootParts DEF Writing
    <3>4. d = [complete |-> call.complete]
      BY <3>3, Documents DEF MetadataDocument
    <3>5. call.complete /\ call.op \in {"start", "finish"} /\ Len(todo) = 1
      BY <3>1, <3>3, <3>4, RootPlaces DEF Complete
    <3>6. call.op = "finish"
      BY <3>5 DEF OpenInv
    <3> QED BY <3>3, <3>5, <3>6 DEF ProgressInv, Sealed
  <2> QED BY <2>1, <2>2
<1>2. MemoryInv'
  BY MemoryNext
<1>3. Begun' \subseteq Episodes
  <2>1. begun' \in Seq(Episodes)
    BY <1>2 DEF MemoryInv
  <2> QED BY <2>1 DEF Begun
<1> QED BY <1>1, <1>3, SealedStable

-----------------------------------------------------------------------------
(* What is durable stays durable.                                           *)

Renames(p) == todo # <<>> /\ p = Head(todo) /\ (MakeDirectory \/ Replace)

LEMMA StillUp ==
  ASSUME [Next]_vars, up'
  PROVE  up
BY DEF Next, RecorderNext, Calls, Writes, vars, recorderVars, Start, BeginEpisode, RecordEvent,
       CompleteEpisode, Finish, Enters, MakeDirectory, WriteTemporary, Replace, SyncDirectory,
       WriteFails, Crash, PowerLoss

LEMMA NameKept ==
  ASSUME DiskInv, CallInv, [Next]_vars, up', NEW p \in Paths, ~Renames(p)
  PROVE  disk'[p] = disk[p] /\ older'[p] \in {older[p], <<>>}
<1>1. CASE MakeDirectory
  BY <1>1, MadeDirectory DEF Renames
<1>2. CASE Replace
  BY <1>2, Replaced DEF Renames
<1>3. CASE SyncDirectory
  BY <1>3, SyncedNames
<1>4. CASE PowerLoss
  BY <1>4, LostPower
<1>5. CASE UNCHANGED <<disk, older>>
  BY <1>5
<1> QED BY <1>1, <1>2, <1>3, <1>4, <1>5
        DEF Next, RecorderNext, Calls, Writes, vars, recorderVars, storage, Start, BeginEpisode,
            RecordEvent, CompleteEpisode, Finish, Enters, WriteTemporary, WriteFails, Crash

LEMMA NameRenamed ==
  ASSUME DiskInv, CallInv, NEW p \in Paths, Renames(p)
  PROVE  /\ up /\ todo # <<>> /\ p = Head(todo)
         /\ IsDirectory(p) => MakeDirectory /\ disk'[p] = Directory /\ older'[p] = <<Absent>>
         /\ ~IsDirectory(p) =>
              /\ Replace /\ stage = "written"
              /\ disk'[p] = Document(p) /\ older'[p] = Append(older[p], disk[p])
<1>1. CASE MakeDirectory
  BY <1>1, MadeDirectory DEF Renames
<1>2. CASE Replace
  BY <1>2, Replaced DEF Renames
<1> QED BY <1>1, <1>2 DEF Renames

LEMMA ShownComplete ==
  ASSUME NEW p, Complete(disk[p])
  PROVE  ShowsComplete(p)
BY DEF ShowsComplete, Shows

(* No step touches the documents of a result that is there.                 *)
LEMMA ResultNotRenamed ==
  ASSUME DiskInv, CallInv, OpenInv, PromiseInv, FixedInv, ProgressInv,
         NEW e \in Episodes, ShowsComplete(MetricsOf(e))
  PROVE  /\ ~Renames(MetricsOf(e)) /\ ~Renames(TrajectoryOf(e))
         /\ ~Renames(EventsOf(e)) /\ ~Renames(Entry(e))
<1>1. promised.results[e] # Absent
  BY DEF FixedInv, Fixed
<1>2. call.episode = e => call.op # "begin" /\ call.op # "record"
  BY <1>1 DEF PromiseInv
<1>3. ASSUME up, call.op = "complete", call.episode = e
      PROVE  ~(Len(todo) \in {2, 3, 4} /\ ~(Len(todo) = 2 /\ stage = "replaced"))
  <2> DEFINE n == Len(todo)
  <2>1. n >= 2 /\ ~(n = 2 /\ stage = "replaced") => ~ShowsComplete(MetricsOf(e))
    BY <1>3 DEF ProgressInv
  <2> HIDE DEF n
  <2>2. ~(n \in {2, 3, 4} /\ ~(n = 2 /\ stage = "replaced"))
    BY <2>1
  <2> QED BY <2>2 DEF n
<1>4. ~Renames(Entry(e))
  <2> SUFFICES ASSUME Renames(Entry(e)) PROVE FALSE
    OBVIOUS
  <2>1. todo # <<>> /\ Entry(e) = Head(todo)
    BY DEF Renames
  <2> QED BY <1>2, <2>1, EpisodePlaces
<1>5. ASSUME NEW p \in Paths, p \in {MetricsOf(e), TrajectoryOf(e), EventsOf(e)}, Renames(p)
      PROVE  FALSE
  <2>1. up /\ todo # <<>> /\ p = Head(todo) /\ stage = "written"
    BY <1>5, NameRenamed, EpisodeParts
  <2>2. call.op = "complete" /\ call.episode = e /\ Len(todo) \in {2, 3, 4}
    BY <1>2, <1>5, <2>1, EpisodePlaces
  <2> QED BY <1>3, <2>1, <2>2
<1> QED BY <1>4, <1>5, EpisodeNames

LEMMA RootDurableNext ==
  ASSUME DiskInv, MemoryInv, CallInv, OpenInv, DurableInv, ProgressInv, [Next]_vars, up',
         "root" \in promised'.opened
  PROVE  RootDurable'
<1>0. up /\ Entry(Root) \in Paths /\ EpisodesDirectory \in Paths
  BY StillUp, RootNames
<1>1. CASE "root" \in promised.opened
  <2>1. EntrySettled(Entry(Root)) /\ Settled(EpisodesDirectory, Directory)
    BY <1>0, <1>1 DEF DurableInv, RootDurable
  <2>2. ~Renames(Entry(Root)) /\ ~Renames(EpisodesDirectory)
    BY <1>1, RootPlaces DEF Renames, OpenInv
  <2>3. disk'[Entry(Root)] = disk[Entry(Root)]
        /\ older'[Entry(Root)] \in {older[Entry(Root)], <<>>}
    BY <1>0, <2>2, NameKept
  <2>4. disk'[EpisodesDirectory] = disk[EpisodesDirectory]
        /\ older'[EpisodesDirectory] \in {older[EpisodesDirectory], <<>>}
    BY <1>0, <2>2, NameKept
  <2> QED BY <2>1, <2>3, <2>4 DEF RootDurable, EntrySettled, Settled
<1>2. CASE "root" \notin promised.opened
  <2>1. /\ todo # <<>> /\ Wrote(Head(todo)) /\ (MakeDirectory \/ SyncDirectory)
        /\ call.op = "start" /\ Len(todo) = 1
    <3>1. CASE Start
      BY <1>2, <3>1, StartedPromises DEF Asked
    <3>2. CASE \E e \in Episodes : BeginEpisode(e)
      BY <1>2, <3>2 DEF BeginEpisode
    <3>3. CASE \E e \in Episodes, text \in Texts : RecordEvent(e, text)
      BY <1>2, <3>3 DEF RecordEvent
    <3>4. CASE \E e \in Episodes, m \in Metrics, t \in Trajectories : CompleteEpisode(e, m, t)
      <4>1. PICK e \in Episodes, m \in Metrics, t \in Trajectories : CompleteEpisode(e, m, t)
        BY <3>4
      <4>2. promised'.opened = promised.opened
        BY <4>1, CompletedPromises
      <4> QED BY <1>2, <4>2
    <3>5. CASE \E complete \in BOOLEAN : Finish(complete)
      BY <1>2, <3>5 DEF Finish
    <3>6. CASE todo # <<>> /\ Wrote(Head(todo)) /\ (MakeDirectory \/ SyncDirectory)
      BY <1>2, <3>6, WrotePromises
    <3>7. CASE WriteFails
      <4>1. promised' = promised \/ promised' = [promised EXCEPT !.closed = "failed"]
        BY <3>7 DEF WriteFails
      <4>2. promised'.opened = promised.opened
        BY <4>1, ClosedUpdate
      <4> QED BY <1>2, <4>2
    <3>8. CASE FilesOnly
      BY <1>2, <3>8, FilePromises
    <3> QED BY <3>1, <3>2, <3>3, <3>4, <3>5, <3>6, <3>7, <3>8, Steps
  <2>2. Head(todo) = Metadata
    BY <2>1, NextPath DEF AtStart
  <2>3. SyncDirectory
    BY <2>1, <2>2, MadeDirectory, RootParts
  <2>4. /\ disk'[Entry(Root)] = disk[Entry(Root)] /\ (EntriesSynced => older'[Entry(Root)] = <<>>)
        /\ disk'[EpisodesDirectory] = disk[EpisodesDirectory] /\ older'[EpisodesDirectory] = <<>>
    BY <1>0, <2>2, <2>3, SyncedNames, RootParts
  <2>5. disk[Entry(Root)] = Directory /\ disk[EpisodesDirectory] = Directory
    BY <1>0, <2>1 DEF ProgressInv
  <2> QED BY <2>4, <2>5 DEF RootDurable, EntrySettled, Settled
<1> QED BY <1>1, <1>2

LEMMA EntriesNext ==
  ASSUME DiskInv, MemoryInv, CallInv, OpenInv, DurableInv, [Next]_vars, up', NEW e \in Begun'
  PROVE  disk'[Entry(e)] = Directory
<1>0. up /\ MemoryInv'
  BY StillUp, MemoryNext
<1>1. e \in Episodes
  <2>1. begun' \in Seq(Episodes)
    BY <1>0 DEF MemoryInv
  <2> QED BY <2>1 DEF Begun
<1>2. Entry(e) \in Paths /\ IsDirectory(Entry(e))
  BY <1>1, EpisodeNames, EpisodeParts
<1>3. CASE Renames(Entry(e))
  BY <1>2, <1>3, NameRenamed
<1>4. CASE ~Renames(Entry(e))
  <2>1. disk'[Entry(e)] = disk[Entry(e)]
    BY <1>2, <1>4, NameKept
  <2>2. CASE e \in Begun
    BY <1>0, <2>1, <2>2 DEF DurableInv
  <2>3. CASE e \notin Begun
    <3>1. todo # <<>> /\ Wrote(Head(todo)) /\ (MakeDirectory \/ SyncDirectory)
      <4>1. CASE UNCHANGED begun
        BY <2>3, <4>1 DEF Begun
      <4> QED BY <4>1 DEF Next, RecorderNext, Calls, Writes, vars, recorderVars, memory, Start,
                    BeginEpisode, RecordEvent, CompleteEpisode, Finish, Enters, MakeDirectory,
                    WriteTemporary, Replace, SyncDirectory, WriteFails, Crash, PowerLoss, CallInv
    <3>2. call.op = "begin" /\ Len(todo) = 6 /\ begun' = Append(begun, call.episode)
      <4>1. CASE ~(call.op = "begin" /\ Len(todo) = 6)
        BY <2>3, <3>1, <4>1, WroteFacts DEF Begun
      <4> QED BY <3>1, <4>1, WroteFacts
    <3>3. Begun' = Begun \cup {call.episode}
      BY <3>2, BegunGrows DEF OpenInv
    <3>4. e = call.episode
      BY <2>3, <3>3
    <3>5. Head(todo) = Entry(e)
      BY <3>1, <3>2, <3>4, NextPath DEF AtBegin
    <3>6. ~SyncDirectory
      BY <1>2, <3>5, SyncedNames
    <3> QED BY <1>4, <3>1, <3>5, <3>6 DEF Renames
  <2> QED BY <2>2, <2>3
<1> QED BY <1>3, <1>4

(* The commit marker of an episode is the last of its documents to appear.  *)
LEMMA ResultDurableNext ==
  ASSUME DiskInv, MemoryInv, CallInv, OpenInv, PromiseInv, FixedInv, DurableInv, ProgressInv,
         [Next]_vars, up', NEW e \in Episodes, Complete(disk'[MetricsOf(e)])
  PROVE  ResultDurable(e)'
<1> DEFINE M == MetricsOf(e)
           T == TrajectoryOf(e)
           E == EventsOf(e)
           D == Entry(e)
<1>0. /\ up /\ M \in Paths /\ T \in Paths /\ E \in Paths /\ D \in Paths /\ ~IsDirectory(M)
      /\ M # T /\ M # E /\ M # D
  BY StillUp, EpisodeNames, EpisodeParts
<1> HIDE DEF M, T, E, D
<1>1. CASE Complete(disk[M])
  <2>1. /\ disk[T] = promised.results[e].trajectory /\ older[T] = <<>>
        /\ disk[E] = promised.events[e] /\ older[E] = <<>>
        /\ disk[D] = Directory /\ (EntriesSynced => older[D] = <<>>)
    BY <1>0, <1>1 DEF DurableInv, ResultDurable, Settled, EntrySettled, M, T, E, D
  <2>2. ShowsComplete(M)
    BY <1>1, ShownComplete
  <2>3. ~Renames(T) /\ ~Renames(E) /\ ~Renames(D)
    BY <2>2, ResultNotRenamed DEF M, T, E, D
  <2>4. promised.results[e] # Absent
    BY <2>2 DEF FixedInv, Fixed, M
  <2>5. promised'.results[e] = promised.results[e] /\ promised'.events[e] = promised.events[e]
    BY <2>4, PromisesStay
  <2>6. disk'[T] = disk[T] /\ older'[T] \in {older[T], <<>>}
    BY <1>0, <2>3, NameKept
  <2>7. disk'[E] = disk[E] /\ older'[E] \in {older[E], <<>>}
    BY <1>0, <2>3, NameKept
  <2>8. disk'[D] = disk[D] /\ older'[D] \in {older[D], <<>>}
    BY <1>0, <2>3, NameKept
  <2> QED BY <2>1, <2>5, <2>6, <2>7, <2>8 DEF ResultDurable, Settled, EntrySettled, T, E, D
<1>2. CASE ~Complete(disk[M])
  <2>1. Renames(M)
    BY <1>0, <1>2, NameKept DEF M
  <2>2. /\ Replace /\ todo # <<>> /\ M = Head(todo) /\ stage = "written"
        /\ disk'[M] = Document(M)
    BY <1>0, <2>1, NameRenamed
  <2>3. call.op \in {"begin", "complete"} /\ call.episode = e /\ Len(todo) = 2
    BY <2>2, EpisodePlaces DEF M
  <2>4. disk'[M] = call.metrics
    BY <2>2, Documents DEF M
  <2>5. call.op = "complete"
    BY <1>0, <2>3, <2>4, OpenMetricsType DEF ProgressInv, Complete, M
  <2>6. /\ disk[T] = call.trajectory /\ older[T] = <<>>
        /\ disk[E] = promised.events[e] /\ older[E] = <<>>
        /\ disk[D] = Directory /\ (EntriesSynced => older[D] = <<>>)
    BY <1>0, <2>3, <2>5 DEF ProgressInv, Settled, EntrySettled, T, E, D
  <2>7. promised.results[e].trajectory = call.trajectory
    BY <2>3, <2>5 DEF PromiseInv
  <2>8. ~Renames(T) /\ ~Renames(E) /\ ~Renames(D)
    BY <1>0, <2>2, EpisodeParts DEF Renames, M, T, E, D
  <2>9. promised' = promised
    BY <2>2 DEF Replace
  <2>10. disk'[T] = disk[T] /\ older'[T] \in {older[T], <<>>}
    BY <1>0, <2>8, NameKept
  <2>11. disk'[E] = disk[E] /\ older'[E] \in {older[E], <<>>}
    BY <1>0, <2>8, NameKept
  <2>12. disk'[D] = disk[D] /\ older'[D] \in {older[D], <<>>}
    BY <1>0, <2>8, NameKept
  <2> QED BY <2>6, <2>7, <2>9, <2>10, <2>11, <2>12
          DEF ResultDurable, Settled, EntrySettled, T, E, D
<1> QED BY <1>1, <1>2

(* No complete metrics are ever replaced.                                   *)
LEMMA OlderNext ==
  ASSUME DiskInv, MemoryInv, CallInv, OpenInv, PromiseInv, FixedInv, DurableInv, ProgressInv,
         [Next]_vars, up', NEW e \in Episodes
  PROVE  \A k \in DOMAIN older'[MetricsOf(e)] : ~Complete(older'[MetricsOf(e)][k])
<1> DEFINE M == MetricsOf(e)
<1>0. up /\ M \in Paths /\ ~IsDirectory(M)
  BY StillUp, EpisodeNames, EpisodeParts
<1>1. \A k \in DOMAIN older[M] : ~Complete(older[M][k])
  BY <1>0 DEF DurableInv
<1> HIDE DEF M
<1>2. CASE Renames(M)
  <2>1. older'[M] = Append(older[M], disk[M])
    BY <1>0, <1>2, NameRenamed
  <2>2. ~Complete(disk[M])
    BY <1>2, ShownComplete, ResultNotRenamed DEF M
  <2>3. older[M] \in Seq(Shows(M)) /\ disk[M] \in Shows(M)
    BY <1>0 DEF DiskInv, Shows
  <2>4. \A k \in 1..(Len(older[M]) + 1) : ~Complete(older'[M][k])
    BY <1>1, <2>1, <2>2, <2>3
  <2> QED BY <2>1, <2>3, <2>4 DEF M
<1>3. CASE ~Renames(M)
  <2>1. older'[M] \in {older[M], <<>>}
    BY <1>0, <1>3, NameKept
  <2> QED BY <1>1, <2>1 DEF M
<1> QED BY <1>2, <1>3

(* What the recorder holds for complete is there for good.                  *)
LEMMA ConfirmedNext ==
  ASSUME DiskInv, MemoryInv, CallInv, OpenInv, PromiseInv, FixedInv, DurableInv, ProgressInv,
         [Next]_vars, up', NEW e \in Episodes, buffer'[e].complete
  PROVE  Complete(disk'[MetricsOf(e)]) /\ older'[MetricsOf(e)] = <<>>
<1> DEFINE M == MetricsOf(e)
<1>0. up /\ M \in Paths /\ ~IsDirectory(M)
  BY StillUp, EpisodeNames, EpisodeParts
<1>1. CASE buffer[e].complete
  <2>1. Complete(disk[M]) /\ older[M] = <<>>
    BY <1>0, <1>1 DEF DurableInv
  <2>2. ~Renames(M)
    BY <2>1, ShownComplete, ResultNotRenamed
  <2> HIDE DEF M
  <2>3. disk'[M] = disk[M] /\ older'[M] \in {older[M], <<>>}
    BY <1>0, <2>2, NameKept
  <2> QED BY <2>1, <2>3 DEF M
<1>2. CASE ~buffer[e].complete
  <2>1. todo # <<>> /\ Wrote(Head(todo)) /\ (MakeDirectory \/ SyncDirectory)
    <3>1. CASE UNCHANGED buffer
      BY <1>2, <3>1
    <3>2. CASE \E d \in Episodes, text \in Texts : RecordEvent(d, text)
      BY <1>2, <3>2, RecordedPromises
    <3>3. CASE WriteFails
      BY <1>2, <3>3, FailedPromises
    <3> QED BY <3>1, <3>2, <3>3 DEF Next, RecorderNext, Calls, Writes, vars, recorderVars, memory, Start,
                  BeginEpisode, CompleteEpisode, Finish, Enters, MakeDirectory,
                  WriteTemporary, Replace, SyncDirectory, Crash, PowerLoss, CallInv
  <2>2. call.op = "complete" /\ Len(todo) = 2 /\ e = call.episode
    BY <1>2, <2>1, WroteBuffers
  <2>3. Head(todo) = M
    BY <2>1, <2>2, NextPath DEF AtComplete
  <2>4. SyncDirectory /\ stage = "replaced"
    BY <1>0, <2>1, <2>3, MadeDirectory, SyncedNames
  <2>5. M[1] = Head(todo)[1] /\ M[2] # "."
    BY <2>3, EpisodeParts
  <2>6. disk'[M] = disk[M] /\ older'[M] = <<>>
    BY <1>0, <2>4, <2>5, SyncedNames
  <2>7. disk[M] = call.metrics
    BY <1>0, <2>3, <2>4, Documents DEF ProgressInv
  <2>8. call.metrics.complete /\ call.metrics # Absent
    BY <2>2, AbsentAssumption DEF PromiseInv, CallInv
  <2> QED BY <2>6, <2>7, <2>8 DEF Complete
<1> QED BY <1>1, <1>2

(* So is the manifest of an experiment whose finish(complete=True) returned.*)
LEMMA SettledNext ==
  ASSUME DiskInv, MemoryInv, CallInv, OpenInv, PromiseInv, DurableInv, ProgressInv,
         [Next]_vars, up', promised'.closed = "complete"
  PROVE  Complete(disk'[Metadata]) /\ older'[Metadata] = <<>>
<1>0. up /\ Metadata \in Paths /\ ~IsDirectory(Metadata)
  BY StillUp, RootNames, RootParts
<1>1. CASE promised.closed = "complete"
  <2>1. todo = <<>>
    BY <1>1 DEF OpenInv, CallInv
  <2>2. ~Renames(Metadata)
    BY <2>1 DEF Renames
  <2> QED BY <1>0, <1>1, <2>2, NameKept DEF DurableInv
<1>2. CASE promised.closed # "complete"
  <2>1. todo # <<>> /\ Wrote(Head(todo)) /\ (MakeDirectory \/ SyncDirectory)
    <3>1. CASE Start
      BY <1>2, <3>1, StartedPromises
    <3>2. CASE \E d \in Episodes, m \in Metrics, t \in Trajectories : CompleteEpisode(d, m, t)
      <4>1. PICK d \in Episodes, m \in Metrics, t \in Trajectories : CompleteEpisode(d, m, t)
        BY <3>2
      <4>2. promised'.closed = promised.closed
        BY <4>1, CompletedPromises
      <4> QED BY <1>2, <4>2
    <3>3. CASE WriteFails
      BY <1>2, <3>3, FailedPromises
    <3>4. CASE UNCHANGED promised
      BY <1>2, <3>4
    <3> QED BY <3>1, <3>2, <3>3, <3>4 DEF Next, RecorderNext, Calls, Writes, vars, recorderVars,
                  BeginEpisode, RecordEvent, Finish, Enters, MakeDirectory,
                  WriteTemporary, Replace, SyncDirectory, Crash, PowerLoss, CallInv
  <2>2. call.op = "finish" /\ Len(todo) = 1 /\ call.complete
    BY <1>2, <2>1, WrotePromises
  <2>3. Head(todo) = Metadata
    BY <2>1, <2>2, NextPath DEF AtFinish
  <2>4. SyncDirectory /\ stage = "replaced"
    BY <1>0, <2>1, <2>3, MadeDirectory, SyncedNames
  <2>5. disk'[Metadata] = disk[Metadata] /\ older'[Metadata] = <<>>
    BY <1>0, <2>3, <2>4, SyncedNames, RootParts
  <2>6. disk[Metadata] = [complete |-> TRUE]
    BY <1>0, <2>2, <2>3, <2>4, Documents DEF ProgressInv, MetadataDocument
  <2>7. [complete |-> TRUE] # Absent
    <3>1. [complete |-> TRUE] \in [complete : BOOLEAN]
      OBVIOUS
    <3>2. Absent \notin [complete : BOOLEAN]
      BY AbsentAssumption
    <3> QED BY <3>1, <3>2
  <2> QED BY <2>5, <2>6, <2>7 DEF Complete
<1> QED BY <1>1, <1>2

LEMMA DurableNext ==
  ASSUME DiskInv, MemoryInv, CallInv, OpenInv, PromiseInv, FixedInv, DurableInv, ProgressInv,
         [Next]_vars
  PROVE  DurableInv'
<1> SUFFICES ASSUME up'
    PROVE  /\ "root" \in promised'.opened => RootDurable'
           /\ \A e \in Begun' : disk'[Entry(e)] = Directory
           /\ \A e \in Episodes :
                /\ Complete(disk'[MetricsOf(e)]) => ResultDurable(e)'
                /\ \A k \in DOMAIN older'[MetricsOf(e)] : ~Complete(older'[MetricsOf(e)][k])
                /\ buffer'[e].complete =>
                     Complete(disk'[MetricsOf(e)]) /\ older'[MetricsOf(e)] = <<>>
           /\ promised'.closed = "complete" =>
                Complete(disk'[Metadata]) /\ older'[Metadata] = <<>>
  BY DEF DurableInv, Complete
<1>1. "root" \in promised'.opened => RootDurable'
  BY RootDurableNext
<1>2. \A e \in Begun' : disk'[Entry(e)] = Directory
  BY EntriesNext
<1>3. \A e \in Episodes : Complete(disk'[MetricsOf(e)]) => ResultDurable(e)'
  BY ResultDurableNext
<1>4. \A e \in Episodes : \A k \in DOMAIN older'[MetricsOf(e)] :
        ~Complete(older'[MetricsOf(e)][k])
  BY OlderNext
<1>5. \A e \in Episodes : buffer'[e].complete =>
        Complete(disk'[MetricsOf(e)]) /\ older'[MetricsOf(e)] = <<>>
  BY ConfirmedNext
<1>6. promised'.closed = "complete" => Complete(disk'[Metadata]) /\ older'[Metadata] = <<>>
  BY SettledNext
<1> QED BY <1>1, <1>2, <1>3, <1>4, <1>5, <1>6

-----------------------------------------------------------------------------
(* A call goes on from what it has already written.                         *)

(* A call that goes on: its next step keeps it, or makes it go on by one    *)
(* path.                                                                    *)
LEMMA CallGoesOn ==
  ASSUME CallInv, [Next]_vars, up', call.op # "none", call'.op # "none"
  PROVE  /\ call' = call
         /\ \/ todo' = todo /\ UNCHANGED <<begun, buffer, promised>> /\ ~SyncDirectory /\ ~MakeDirectory
            \/ /\ todo # <<>> /\ Wrote(Head(todo)) /\ (MakeDirectory \/ SyncDirectory)
               /\ Len(todo) \in Nat /\ Len(todo') = Len(todo) - 1 /\ Len(todo) # 1
               /\ stage' = "new" /\ promised' = promised
<1>1. CASE todo # <<>> /\ Wrote(Head(todo)) /\ (MakeDirectory \/ SyncDirectory)
  <2>1. Len(todo) # 1
    BY <1>1, WroteFacts DEF NoCall
  <2>2. Len(todo) \in Nat /\ Len(Tail(todo)) = Len(todo) - 1
    BY <1>1, TailFacts DEF CallInv
  <2> QED BY <1>1, <2>1, <2>2, WroteFacts
<1>2. CASE Start \/ (\E e \in Episodes : BeginEpisode(e))
           \/ (\E e \in Episodes, text \in Texts : RecordEvent(e, text))
           \/ (\E e \in Episodes, m \in Metrics, t \in Trajectories : CompleteEpisode(e, m, t))
           \/ (\E complete \in BOOLEAN : Finish(complete))
  BY <1>2 DEF Start, BeginEpisode, RecordEvent, CompleteEpisode, Finish, Enters
<1>3. CASE WriteFails
  BY <1>3 DEF WriteFails, NoCall
<1>4. CASE FilesOnly /\ ~MakeDirectory /\ ~SyncDirectory
  BY <1>4, FilePromises
<1>5. CASE FilesOnly /\ (MakeDirectory \/ SyncDirectory)
  <2>1. todo # <<>> /\ Wrote(Head(todo))
    BY <1>5 DEF MakeDirectory, SyncDirectory, CallInv
  <2> QED BY <1>1, <1>5, <2>1
<1> QED BY <1>1, <1>2, <1>3, <1>4, <1>5, Steps

(* A call that starts.                                                      *)
LEMMA CallStarts ==
  ASSUME CallInv, [Next]_vars, call.op = "none", call'.op # "none"
  PROVE  /\ call'.op = "start" => Start
         /\ call'.op = "begin" => \E e \in Episodes : BeginEpisode(e)
         /\ call'.op = "complete" =>
              \E e \in Episodes, m \in Metrics, t \in Trajectories : CompleteEpisode(e, m, t)
         /\ call'.op = "finish" => \E complete \in BOOLEAN : Finish(complete)
<1>1. CASE todo # <<>>
  BY <1>1 DEF CallInv
<1>2. CASE WriteFails
  BY <1>2, NoCallType DEF WriteFails
<1>3. CASE FilesOnly
  BY <1>3, FilePromises
<1>4. CASE Start
  BY <1>4 DEF Start, Enters, NoCall
<1>5. CASE \E e \in Episodes : BeginEpisode(e)
  BY <1>5 DEF BeginEpisode, Enters, NoCall
<1>6. CASE \E e \in Episodes, text \in Texts : RecordEvent(e, text)
  BY <1>6 DEF RecordEvent, Enters, NoCall
<1>7. CASE \E e \in Episodes, m \in Metrics, t \in Trajectories : CompleteEpisode(e, m, t)
  BY <1>7 DEF CompleteEpisode, Enters, NoCall
<1>8. CASE \E complete \in BOOLEAN : Finish(complete)
  BY <1>8 DEF Finish, Enters, NoCall
<1> QED BY <1>1, <1>2, <1>3, <1>4, <1>5, <1>6, <1>7, <1>8, Steps

LEMMA ReplacedNext ==
  ASSUME DiskInv, CallInv, ProgressInv, [Next]_vars, up', stage' = "replaced"
  PROVE  disk'[Head(todo')] = Document(Head(todo))'
<1>0. up
  BY StillUp
<1>1. CASE Replace
  <2>1. UNCHANGED <<begun, buffer, call, todo>>
    BY <1>1 DEF Replace, memory
  <2>2. disk'[Head(todo)] = Document(Head(todo))
    BY <1>1, Replaced
  <2>3. Document(Head(todo))' = Document(Head(todo))
    BY <2>1 DEF Document, MetadataDocument, SummaryDocument, EventsDocument
  <2> QED BY <2>1, <2>2, <2>3
<1>2. CASE UNCHANGED recorderVars
  <2>1. UNCHANGED <<begun, buffer, call, todo, stage, disk>>
    BY <1>2 DEF recorderVars, memory, storage
  <2>2. disk[Head(todo)] = Document(Head(todo))
    BY <1>0, <2>1 DEF ProgressInv
  <2>3. Document(Head(todo))' = Document(Head(todo))
    BY <2>1 DEF Document, MetadataDocument, SummaryDocument, EventsDocument
  <2> QED BY <2>1, <2>2, <2>3
<1> QED BY <1>1, <1>2 DEF Next, RecorderNext, Calls, Writes, vars, Start,
           BeginEpisode, RecordEvent, CompleteEpisode, Finish, Enters, MakeDirectory, Wrote,
           WriteTemporary, SyncDirectory, WriteFails, Crash, PowerLoss

LEMMA StartProgress ==
  ASSUME DiskInv, MemoryInv, CallInv, ProgressInv, [Next]_vars, up', call'.op = "start"
  PROVE  /\ Len(todo') <= 4 => disk'[Entry(Root)] = Directory
         /\ Len(todo') <= 3 => disk'[EpisodesDirectory] = Directory
<1>0. up /\ Entry(Root) \in Paths /\ EpisodesDirectory \in Paths
      /\ IsDirectory(Entry(Root)) /\ IsDirectory(EpisodesDirectory)
  BY StillUp, RootNames, RootParts
<1>1. CASE call.op = "none"
  <2>1. Start
    BY <1>1, CallStarts
  <2>2. Len(todo') = 5
    BY <2>1, StartedPromises
  <2> QED BY <2>2
<1>2. CASE call.op # "none"
  <2> DEFINE n == Len(todo)
  <2>1. call' = call /\ call.op = "start"
    BY <1>2, CallGoesOn
  <2>2. /\ n <= 4 => disk[Entry(Root)] = Directory
        /\ n <= 3 => disk[EpisodesDirectory] = Directory
    BY <1>0, <2>1 DEF ProgressInv
  <2>3. todo # <<>> /\ n \in Nat
    BY <1>2, NextPath DEF CallInv
  <2>4. n = 5 => Head(todo) = Entry(Root)
    BY <2>1, <2>3, NextPath DEF AtStart
  <2>5. n = 4 => Head(todo) = EpisodesDirectory
    BY <2>1, <2>3, NextPath DEF AtStart
  <2>6. n <= 5
    BY <2>1, <2>3, NextPath, StartPlaces
  <2>7. Len(todo') = n \/ (Len(todo') = n - 1 /\ (MakeDirectory \/ SyncDirectory))
    BY <1>2, <2>1, CallGoesOn
  <2>8. (n = 5 \/ n = 4) => ~SyncDirectory
    BY <1>0, <2>4, <2>5, SyncedNames
  <2>9. disk'[Entry(Root)] = disk[Entry(Root)] \/ disk'[Entry(Root)] = Directory
    BY <1>0, NameKept, NameRenamed
  <2>10. disk'[EpisodesDirectory] = disk[EpisodesDirectory] \/ disk'[EpisodesDirectory] = Directory
    BY <1>0, NameKept, NameRenamed
  <2>11. MakeDirectory /\ n = 5 => disk'[Entry(Root)] = Directory
    BY <1>0, <2>4, MadeDirectory
  <2>12. MakeDirectory /\ n = 4 => disk'[EpisodesDirectory] = Directory
    BY <1>0, <2>5, MadeDirectory
  <2> HIDE DEF n
  <2>13. Len(todo') <= 4 => disk'[Entry(Root)] = Directory
    <3>1. CASE n = 5
      BY <2>7, <2>8, <2>11, <3>1
    <3>2. CASE n # 5
      BY <2>2, <2>3, <2>6, <2>9, <3>2
    <3> QED BY <3>1, <3>2
  <2>14. Len(todo') <= 3 => disk'[EpisodesDirectory] = Directory
    <3>1. CASE n = 4
      <4>1. Len(todo') = 4 \/ MakeDirectory
        BY <2>7, <2>8, <3>1
      <4>2. Len(todo') = 4 => ~(Len(todo') <= 3)
        OBVIOUS
      <4> QED BY <2>12, <3>1, <4>1, <4>2
    <3>2. CASE n # 4
      <4>1. Len(todo') <= 3 => n <= 3
        BY <2>3, <2>6, <2>7, <3>2
      <4> QED BY <2>2, <2>10, <4>1
    <3> QED BY <3>1, <3>2
  <2> QED BY <2>13, <2>14
<1> QED BY <1>1, <1>2

LEMMA BeginProgress ==
  ASSUME CallInv, MemoryInv, PromiseInv, ProgressInv, [Next]_vars, up', call'.op = "begin"
  PROVE  call'.metrics = OpenMetrics
<1>0. up
  BY StillUp
<1>1. CASE call.op = "none"
  <2>1. \E e \in Episodes : BeginEpisode(e)
    BY <1>1, CallStarts
  <2> QED BY <2>1, BegunPromises
<1>2. CASE call.op # "none"
  <2>1. call' = call
    BY <1>2, CallGoesOn
  <2> QED BY <1>0, <2>1 DEF ProgressInv
<1> QED BY <1>1, <1>2

LEMMA NothingShownKept ==
  ASSUME DiskInv, CallInv, [Next]_vars, NEW e \in Episodes, ~ShowsComplete(MetricsOf(e)),
         ~Renames(MetricsOf(e))
  PROVE  ~ShowsComplete(MetricsOf(e))'
<1> SUFFICES ASSUME NEW d \in Shows(MetricsOf(e))', Complete(d)
             PROVE  FALSE
  BY DEF ShowsComplete, Complete
<1>0. MetricsOf(e) \in Paths /\ ~IsDirectory(MetricsOf(e))
  BY EpisodeNames, EpisodeParts
<1>1. CASE MakeDirectory \/ ~up' \/ ~Replace
  <2>1. d \in Shows(MetricsOf(e)) \/ d = Absent
    <3>1. CASE PowerLoss
      <4>1. disk'[MetricsOf(e)] \in Shows(MetricsOf(e)) \cup {Absent}
            /\ older'[MetricsOf(e)] = <<>>
        BY <1>0, <3>1, LostPower
      <4> QED BY <4>1 DEF Shows
    <3>2. CASE MakeDirectory
      <4>1. Head(todo) # MetricsOf(e)
        BY <1>0, <3>2 DEF MakeDirectory
      <4> QED BY <1>0, <3>2, <4>1, MadeDirectory DEF Shows
    <3>3. CASE SyncDirectory
      <4>1. disk'[MetricsOf(e)] = disk[MetricsOf(e)]
            /\ older'[MetricsOf(e)] \in {older[MetricsOf(e)], <<>>}
        BY <1>0, <3>3, SyncedNames
      <4> QED BY <4>1 DEF Shows
    <3>4. CASE UNCHANGED <<disk, older>>
      BY <3>4 DEF Shows
    <3>5. CASE Replace
      <4>1. up'
        BY <3>5 DEF Replace
      <4> QED BY <1>1, <3>2, <3>5, <4>1
    <3> QED BY <3>1, <3>2, <3>3, <3>4, <3>5 DEF Next, RecorderNext, Calls, Writes, vars,
          recorderVars, storage, Start, BeginEpisode, RecordEvent, CompleteEpisode, Finish,
          Enters, WriteTemporary, WriteFails, Crash
  <2> QED BY <1>0, <2>1 DEF ShowsComplete, Complete
<1>2. CASE Replace
  <2>1. MetricsOf(e) # Head(todo)
    BY <1>2, Replaced DEF Renames
  <2>2. disk'[MetricsOf(e)] = disk[MetricsOf(e)] /\ older'[MetricsOf(e)] = older[MetricsOf(e)]
    BY <1>0, <1>2, <2>1, Replaced
  <2> QED BY <2>2 DEF Shows, ShowsComplete, Complete
<1> QED BY <1>1, <1>2

LEMMA CompleteProgress ==
  ASSUME DiskInv, MemoryInv, CallInv, OpenInv, PromiseInv, FixedInv, DurableInv, ProgressInv,
         [Next]_vars, up', call'.op = "complete", NEW e \in Episodes, e = call'.episode
  PROVE  /\ Len(todo') <= 3 =>
              /\ disk'[TrajectoryOf(e)] = call'.trajectory /\ older'[TrajectoryOf(e)] = <<>>
              /\ disk'[Entry(e)] = Directory /\ (EntriesSynced => older'[Entry(e)] = <<>>)
         /\ Len(todo') <= 2 =>
              disk'[EventsOf(e)] = promised'.events[e] /\ older'[EventsOf(e)] = <<>>
         /\ Len(todo') >= 2 /\ ~(Len(todo') = 2 /\ stage' = "replaced") =>
              ~ShowsComplete(MetricsOf(e))'
         /\ Len(todo') = 1 => Complete(disk'[MetricsOf(e)])
<1> DEFINE M == MetricsOf(e)
           T == TrajectoryOf(e)
           E == EventsOf(e)
           D == Entry(e)
           n == Len(todo)
<1>0. /\ up /\ M \in Paths /\ T \in Paths /\ E \in Paths /\ D \in Paths
      /\ ~IsDirectory(M) /\ ~IsDirectory(T) /\ ~IsDirectory(E) /\ IsDirectory(D)
  BY StillUp, EpisodeNames, EpisodeParts
<1>00. /\ M[1] = e /\ T[1] = e /\ E[1] = e /\ D[1] = e
       /\ M[2] # "." /\ T[2] # "." /\ E[2] # "."
  BY EpisodeParts
<1> HIDE DEF M, T, E, D
<1>1. CASE call.op = "none"
  <2>1. PICK d \in Episodes, m \in Metrics, t \in Trajectories : CompleteEpisode(d, m, t)
    BY <1>1, CallStarts
  <2>2. d = e /\ Len(todo') = 4 /\ promised.results[e] = Absent
    BY <2>1, CompletedPromises
  <2>3. ~ShowsComplete(MetricsOf(e))
    BY <2>2 DEF FixedInv, Fixed
  <2>4. ~Renames(MetricsOf(e))
    BY <1>1 DEF Renames, CallInv
  <2>5. ~ShowsComplete(MetricsOf(e))'
    BY <2>3, <2>4, NothingShownKept
  <2> QED BY <2>2, <2>5
<1>2. CASE call.op # "none"
  <2>1. call' = call /\ call.op = "complete" /\ call.episode = e
    BY <1>2, CallGoesOn
  <2>2. todo # <<>> /\ n \in Nat /\ AtComplete(e, Head(todo), n)
    BY <1>2, <2>1, NextPath DEF CallInv
  <2>3. /\ n = 4 => Head(todo) = T
        /\ n = 3 => Head(todo) = E
        /\ n = 2 => Head(todo) = M
        /\ n = 1 => Head(todo) = Summary
        /\ n \in 1..4
    <3> HIDE DEF n
    <3>1. \/ n = 4 /\ Head(todo) = TrajectoryOf(e)
          \/ n = 3 /\ Head(todo) = EventsOf(e)
          \/ n = 2 /\ Head(todo) = MetricsOf(e)
          \/ n = 1 /\ Head(todo) = Summary
      BY <2>2 DEF AtComplete
    <3> QED BY <3>1 DEF M, T, E
  <2>4. promised.results[e] # Absent /\ call.metrics.complete
        /\ promised.results[e].trajectory = call.trajectory
    BY <2>1 DEF PromiseInv
  <2>5. e \in Begun /\ buffer[e].events = promised.events[e]
    BY <2>1, <2>4 DEF PromiseInv
  <2>6. disk[D] = Directory
    BY <1>0, <2>5 DEF DurableInv, D
  <2>7. /\ n <= 3 => disk[T] = call.trajectory /\ older[T] = <<>>
                     /\ (EntriesSynced => older[D] = <<>>)
        /\ n <= 2 => disk[E] = promised.events[e] /\ older[E] = <<>>
        /\ n >= 2 /\ ~(n = 2 /\ stage = "replaced") => ~ShowsComplete(MetricsOf(e))
        /\ n = 1 => Complete(disk[M])
    BY <1>0, <2>1 DEF ProgressInv, Settled, EntrySettled, M, T, E, D
  <2>8. promised' = promised
    BY <1>2, CallGoesOn
  <2>9. CASE todo' = todo /\ ~SyncDirectory /\ ~MakeDirectory
    <3>1. Head(todo) # D
      BY <2>1, <2>2, EpisodePlaces DEF D
    <3>2. ~Renames(D)
      BY <3>1 DEF Renames
    <3>3. n # 4 => ~Renames(T)
      BY <2>1, EpisodePlaces DEF Renames, T, n
    <3>4. n # 3 => ~Renames(E)
      BY <2>1, EpisodePlaces DEF Renames, E, n
    <3>5. n # 2 => ~Renames(M)
      BY <2>1, EpisodePlaces DEF Renames, M, n
    <3>6. disk'[D] = disk[D] /\ older'[D] \in {older[D], <<>>}
      BY <1>0, <3>2, NameKept
    <3>7. n # 4 => disk'[T] = disk[T] /\ older'[T] \in {older[T], <<>>}
      BY <1>0, <3>3, NameKept
    <3>8. n # 3 => disk'[E] = disk[E] /\ older'[E] \in {older[E], <<>>}
      BY <1>0, <3>4, NameKept
    <3>9. n # 2 => disk'[M] = disk[M] /\ older'[M] \in {older[M], <<>>}
      BY <1>0, <3>5, NameKept
    <3>10. n >= 2 /\ ~(n = 2 /\ stage' = "replaced") => ~ShowsComplete(MetricsOf(e))'
      <4> SUFFICES ASSUME n >= 2, ~(n = 2 /\ stage' = "replaced")
                   PROVE  ~ShowsComplete(MetricsOf(e))'
        OBVIOUS
      <4>1. ~Renames(M)
        <5>1. CASE n = 2
          <6>1. ~Replace
            BY <5>1 DEF Replace
          <6> QED BY <2>9, <6>1 DEF Renames
        <5> QED BY <3>5, <5>1
      <4>2. ~(n = 2 /\ stage = "replaced")
        <5> SUFFICES ASSUME n = 2, stage = "replaced" PROVE FALSE
          OBVIOUS
        <5>1. stage' = "replaced"
          <6>1. UNCHANGED stage \/ stage' = "replaced" \/ WriteTemporary \/ call' = NoCall
            BY <1>2, <2>9 DEF Next, RecorderNext, Calls, Writes, vars, recorderVars, Start, BeginEpisode,
               RecordEvent, CompleteEpisode, Finish, Enters, Replace, WriteFails, Crash, PowerLoss
          <6>2. ~WriteTemporary
            BY DEF WriteTemporary
          <6>3. call' # NoCall
            BY <2>1, NoCallType
          <6> QED BY <6>1, <6>2, <6>3
        <5> QED BY <5>1
      <4> QED BY <2>7, <4>1, <4>2, NothingShownKept DEF M
    <3> HIDE DEF n
    <3>11. /\ n <= 3 => /\ disk'[T] = call.trajectory /\ older'[T] = <<>>
                        /\ disk'[D] = Directory /\ (EntriesSynced => older'[D] = <<>>)
           /\ n <= 2 => disk'[E] = promised.events[e] /\ older'[E] = <<>>
           /\ n = 1 => Complete(disk'[M])
      BY <2>2, <2>6, <2>7, <3>6, <3>7, <3>8, <3>9
    <3> QED BY <2>1, <2>8, <2>9, <3>10, <3>11 DEF n, T, E, D, M
  <2>10. CASE (MakeDirectory \/ SyncDirectory) /\ Len(todo') = n - 1 /\ n # 1 /\ stage' = "new"
    <3>1. ~IsDirectory(Head(todo)) /\ Head(todo)[1] = e
      BY <1>0, <1>00, <2>3, <2>10
    <3>2. SyncDirectory /\ stage = "replaced"
      BY <2>10, <3>1, MadeDirectory, SyncedNames
    <3>3. /\ disk' = disk /\ older'[T] = <<>> /\ older'[E] = <<>> /\ older'[M] = <<>>
          /\ EntriesSynced => older'[D] = <<>>
      BY <1>0, <1>00, <3>1, <3>2, SyncedNames
    <3>4. disk[Head(todo)] = Document(Head(todo))
      BY <1>0, <3>2 DEF ProgressInv
    <3>5. /\ Document(T) = call.trajectory /\ Document(M) = call.metrics
          /\ Document(E) = promised.events[e]
      BY <2>5, Documents DEF M, T, E, EventsDocument
    <3>6. call.metrics # Absent
      BY AbsentAssumption DEF CallInv
    <3>7. n - 1 >= 2 => ~ShowsComplete(MetricsOf(e))'
      <4> SUFFICES ASSUME n - 1 >= 2 PROVE ~ShowsComplete(MetricsOf(e))'
        OBVIOUS
      <4>1. ~ShowsComplete(MetricsOf(e))
        BY <2>2, <2>7
      <4>2. n # 2
        <5> HIDE DEF n
        <5> QED BY <2>2
      <4>3. ~Renames(MetricsOf(e))
        BY <2>1, <4>2, EpisodePlaces DEF Renames
      <4> QED BY <4>1, <4>3, NothingShownKept
    <3> HIDE DEF n
    <3>8. n \in {2, 3, 4}
      BY <2>3, <2>10
    <3>9. n - 1 <= 3 => disk'[T] = call.trajectory
      BY <2>3, <2>7, <3>3, <3>4, <3>5, <3>8
    <3>10. n - 1 <= 2 => disk'[E] = promised.events[e]
      BY <2>3, <2>7, <3>3, <3>4, <3>5, <3>8
    <3>11. n - 1 = 1 => Complete(disk'[M])
      BY <2>3, <2>4, <3>3, <3>4, <3>5, <3>6, <3>8 DEF Complete
    <3> QED BY <2>1, <2>6, <2>8, <2>10, <3>3, <3>7, <3>9, <3>10, <3>11 DEF M, T, E, D
  <2>11. (todo' = todo /\ ~SyncDirectory /\ ~MakeDirectory)
         \/ ((MakeDirectory \/ SyncDirectory) /\ Len(todo') = n - 1 /\ n # 1 /\ stage' = "new")
    BY <1>2, CallGoesOn
  <2> QED BY <2>9, <2>10, <2>11
<1> QED BY <1>1, <1>2

LEMMA FinishProgress ==
  ASSUME DiskInv, MemoryInv, CallInv, OpenInv, PromiseInv, ProgressInv,
         [Next]_vars, up', call'.op = "finish"
  PROVE  /\ call'.complete => Begun' = Episodes /\ \A e \in Episodes : buffer'[e].complete
         /\ Len(todo') = 1 /\ Begun' = Episodes =>
              \A s \in Shows(Summary)' : s = Absent \/ Full(s)
<1>0. up
  BY StillUp
<1>1. CASE call.op = "none"
  <2>1. PICK complete \in BOOLEAN : Finish(complete)
    BY <1>1, CallStarts
  <2>2. /\ begun' = begun /\ buffer' = buffer /\ call'.complete = complete /\ Len(todo') = 2
        /\ complete => Begun = Episodes /\ \A e \in Episodes : buffer[e].complete
    BY <2>1, FinishingPromises
  <2>3. Begun' = Begun
    BY <2>2 DEF Begun
  <2> QED BY <2>2, <2>3
<1>2. CASE call.op # "none"
  <2> DEFINE n == Len(todo)
  <2>1. call' = call /\ call.op = "finish"
    BY <1>2, CallGoesOn
  <2>2. todo # <<>> /\ n \in Nat /\ AtFinish(Head(todo), n)
    BY <1>2, <2>1, NextPath DEF CallInv
  <2>3. /\ call.complete => Begun = Episodes /\ \A e \in Episodes : buffer[e].complete
        /\ n = 1 /\ Begun = Episodes => \A s \in Shows(Summary) : s = Absent \/ Full(s)
    BY <1>0, <2>1 DEF ProgressInv
  <2>4. begun' = begun /\ buffer' = buffer
    BY <1>2, <2>1, CallGoesOn, WroteFacts
  <2>5. Begun' = Begun
    BY <2>4 DEF Begun
  <2>6. ASSUME Len(todo') = 1, Begun' = Episodes
        PROVE  \A s \in Shows(Summary)' : s = Absent \/ Full(s)
    <3>1. CASE todo' = todo
      BY <2>3, <2>5, <2>6, <3>1, FullStable
    <3>2. CASE (MakeDirectory \/ SyncDirectory) /\ Len(todo') = n - 1
      <4>1. n = 2
        <5>1. n \in Nat /\ 1 = n - 1
          BY <2>2, <2>6, <3>2
        <5> HIDE DEF n
        <5> QED BY <5>1
      <4>2. Head(todo) = Summary
        BY <2>2, <4>1 DEF AtFinish
      <4>3. SyncDirectory /\ stage = "replaced"
        BY <3>2, <4>2, MadeDirectory, SyncedNames, RootParts
      <4>4. disk'[Summary] = disk[Summary] /\ older'[Summary] = <<>>
        BY <4>2, <4>3, SyncedNames, RootParts, RootNames
      <4>5. disk[Summary] = SummaryDocument(call.complete)
        BY <1>0, <4>2, <4>3, Documents DEF ProgressInv
      <4>6. Full(disk[Summary])
        BY <2>5, <2>6, <4>5, SummaryLists DEF Full
      <4>7. \A s \in Shows(Summary)' : s = disk[Summary]
        BY <4>4 DEF Shows
      <4> QED BY <4>6, <4>7
    <3>3. todo' = todo \/ ((MakeDirectory \/ SyncDirectory) /\ Len(todo') = n - 1)
      BY <1>2, <2>1, CallGoesOn
    <3> QED BY <3>1, <3>2, <3>3
  <2> QED BY <2>1, <2>3, <2>4, <2>5, <2>6
<1> QED BY <1>1, <1>2

LEMMA ProgressNext ==
  ASSUME DiskInv, MemoryInv, CallInv, OpenInv, PromiseInv, FixedInv, DurableInv, ProgressInv,
         [Next]_vars
  PROVE  ProgressInv'
<1> SUFFICES ASSUME up' PROVE ProgressInv'
  BY DEF ProgressInv
<1>1. stage' = "replaced" => disk'[Head(todo')] = Document(Head(todo))'
  BY ReplacedNext
<1>2. call'.op = "start" =>
        /\ Len(todo') <= 4 => disk'[Entry(Root)] = Directory
        /\ Len(todo') <= 3 => disk'[EpisodesDirectory] = Directory
  BY StartProgress
<1>3. call'.op = "begin" => call'.metrics = OpenMetrics
  BY BeginProgress
<1>4. ASSUME NEW e \in Episodes, call'.op = "complete", call'.episode = e
      PROVE  /\ Len(todo') <= 3 =>
                  /\ disk'[TrajectoryOf(e)] = call'.trajectory /\ older'[TrajectoryOf(e)] = <<>>
                  /\ disk'[Entry(e)] = Directory /\ (EntriesSynced => older'[Entry(e)] = <<>>)
             /\ Len(todo') <= 2 =>
                  disk'[EventsOf(e)] = promised'.events[e] /\ older'[EventsOf(e)] = <<>>
             /\ Len(todo') >= 2 /\ ~(Len(todo') = 2 /\ stage' = "replaced") =>
                  ~ShowsComplete(MetricsOf(e))'
             /\ Len(todo') = 1 => Complete(disk'[MetricsOf(e)])
  BY <1>4, CompleteProgress
<1>6. call'.op = "complete" => call'.episode \in Episodes
  <2>1. CallInv'
    BY CallNext
  <2> QED BY <2>1 DEF CallInv
<1>5. call'.op = "finish" =>
        /\ call'.complete => Begun' = Episodes /\ \A e \in Episodes : buffer'[e].complete
        /\ Len(todo') = 1 /\ Begun' = Episodes =>
             \A s \in Shows(Summary)' : s = Absent \/ Full(s)
  BY FinishProgress
<1> QED BY <1>1, <1>2, <1>3, <1>4, <1>5, <1>6
        DEF ProgressInv, Full, Complete, Settled, EntrySettled, ShowsComplete, Shows

-----------------------------------------------------------------------------
(* What the reader has still to look at.                                    *)

LEMMA Blocks ==
  ASSUME NEW n \in Nat
  PROVE  /\ \A k \in 1..(5 * n) :
              /\ (k + 4) \div 5 \in 1..n /\ ((k - 1) % 5) + 1 \in 1..5
              /\ k = 5 * ((k + 4) \div 5) - 5 + (((k - 1) % 5) + 1)
         /\ \A j \in 1..n, r \in 1..5 :
              /\ 5 * j - 5 + r \in 1..(5 * n)
              /\ (5 * j - 5 + r + 4) \div 5 = j /\ ((5 * j - 5 + r - 1) % 5) + 1 = r
<1>1. ASSUME NEW k \in 1..(5 * n)
      PROVE  /\ (k + 4) \div 5 \in 1..n /\ ((k - 1) % 5) + 1 \in 1..5
             /\ k = 5 * ((k + 4) \div 5) - 5 + (((k - 1) % 5) + 1)
  OBVIOUS
<1>2. ASSUME NEW j \in 1..n, NEW r \in 1..5
      PROVE  /\ 5 * j - 5 + r \in 1..(5 * n)
             /\ (5 * j - 5 + r + 4) \div 5 = j /\ ((5 * j - 5 + r - 1) % 5) + 1 = r
  OBVIOUS
<1> QED BY <1>1, <1>2

LEMMA PlacesOfFacts ==
  ASSUME NEW e \in Episodes
  PROVE  /\ PlacesOf(e) \in Seq(Places) /\ Len(PlacesOf(e)) = 5
         /\ PlacesOf(e)[1] = Listing(e) /\ PlacesOf(e)[2] = EpisodeOf(e)
         /\ PlacesOf(e)[3] = MetricsOf(e) /\ PlacesOf(e)[4] = TrajectoryOf(e)
         /\ PlacesOf(e)[5] = EventsOf(e)
<1>1. PlacesOf(e) = <<Listing(e), EpisodeOf(e), MetricsOf(e), TrajectoryOf(e), EventsOf(e)>>
  BY DEF PlacesOf, EpisodeOf, MetricsOf, TrajectoryOf, EventsOf
<1>2. /\ Listing(e) \in Places /\ EpisodeOf(e) \in Places /\ MetricsOf(e) \in Places
      /\ TrajectoryOf(e) \in Places /\ EventsOf(e) \in Places
  BY EpisodeNames DEF Places, Listings
<1> QED BY <1>1, <1>2

LEMMA ListingParts ==
  ASSUME NEW d
  PROVE  Listing(d)[1] = d /\ Listing(d)[2] = "ls"
BY DEF Listing

LEMMA PathParts ==
  ASSUME NEW p \in Paths
  PROVE  p[2] # "ls"
<1>1. CASE p \in {Entry(d) : d \in Directories}
  BY <1>1 DEF Entry
<1>2. CASE p \in {Root} \X RootFiles
  BY <1>2 DEF RootFiles
<1>3. CASE p \in Episodes \X EpisodeFiles
  BY <1>3 DEF EpisodeFiles
<1> QED BY <1>1, <1>2, <1>3 DEF Paths

LEMMA VisitFacts ==
  ASSUME NEW s \in Seq(Entries)
  PROVE  /\ Visits(s) \in Seq(Places) /\ InOrder(Visits(s))
         /\ \A i \in DOMAIN s : \E k \in DOMAIN Visits(s) : Visits(s)[k] = MetricsOf(s[i].episode)
<1> DEFINE n == Len(s)
           v == Visits(s)
           At(j, r) == PlacesOf(s[j].episode)[r]
<1>1. n \in Nat /\ DOMAIN s = 1..n /\ \A j \in 1..n : s[j].episode \in Episodes
  <2>1. n \in Nat /\ DOMAIN s = 1..n /\ \A j \in 1..n : s[j] \in Entries
    OBVIOUS
  <2>2. \A x \in Entries : x.episode \in Episodes
    BY DEF Entries
  <2> QED BY <2>1, <2>2
<1>2. /\ DOMAIN v = 1..(5 * n + 1) /\ Len(v) = 5 * n + 1
      /\ \A k \in 1..(5 * n + 1) :
           v[k] = IF k <= 5 * n THEN At((k + 4) \div 5, ((k - 1) % 5) + 1) ELSE Listing("episodes")
  BY <1>1 DEF Visits
<1>3. \A j \in 1..n : \A r \in 1..5 : At(j, r) \in Places
  BY <1>1, PlacesOfFacts
<1>4. \A j \in 1..n :
        /\ At(j, 1)[2] = "ls" /\ At(j, 2)[2] = "episode" /\ At(j, 3) = MetricsOf(s[j].episode)
        /\ At(j, 4) = TrajectoryOf(s[j].episode) /\ At(j, 5) = EventsOf(s[j].episode)
        /\ At(j, 4)[2] = "trajectory" /\ At(j, 5)[2] = "events"
        /\ At(j, 3)[1] = s[j].episode
        /\ \A r \in 1..5 : At(j, r) # Metadata
  <2> SUFFICES ASSUME NEW j \in 1..n
      PROVE
        /\ At(j, 1)[2] = "ls" /\ At(j, 2)[2] = "episode" /\ At(j, 3) = MetricsOf(s[j].episode)
        /\ At(j, 4) = TrajectoryOf(s[j].episode) /\ At(j, 5) = EventsOf(s[j].episode)
        /\ At(j, 4)[2] = "trajectory" /\ At(j, 5)[2] = "events"
        /\ At(j, 3)[1] = s[j].episode
        /\ \A r \in 1..5 : At(j, r) # Metadata
    OBVIOUS
  <2> DEFINE e == s[j].episode
  <2>1. e \in Episodes
    BY <1>1
  <2> HIDE DEF e
  <2>2. /\ PlacesOf(e)[1] = Listing(e) /\ PlacesOf(e)[2] = EpisodeOf(e)
        /\ PlacesOf(e)[3] = MetricsOf(e) /\ PlacesOf(e)[4] = TrajectoryOf(e)
        /\ PlacesOf(e)[5] = EventsOf(e)
    BY <2>1, PlacesOfFacts
  <2>3. /\ Listing(e)[2] = "ls" /\ EpisodeOf(e)[2] = "episode" /\ MetricsOf(e)[2] = "metrics"
        /\ TrajectoryOf(e)[2] = "trajectory" /\ EventsOf(e)[2] = "events"
        /\ MetricsOf(e)[1] = e
    BY <2>1, EpisodeParts, ListingParts
  <2>4. Metadata[2] = "metadata"
    BY RootParts
  <2>5. \A r \in 1..5 : PlacesOf(e)[r] # Metadata
    <3>1. \A r \in 1..5 : r = 1 \/ r = 2 \/ r = 3 \/ r = 4 \/ r = 5
      OBVIOUS
    <3> QED BY <2>2, <2>3, <2>4, <3>1
  <2> QED BY <2>2, <2>3, <2>5 DEF e
<1>5. Listing("episodes") \in Places /\ Listing("episodes")[2] = "ls"
      /\ Listing("episodes") # Metadata
  BY ListingParts, RootParts DEF Places, Listings
<1> HIDE DEF n, At
<1>6. ASSUME NEW k \in 1..(5 * n)
      PROVE  \E j \in 1..n, r \in 1..5 : k = 5 * j - 5 + r /\ v[k] = At(j, r)
  <2>1. /\ (k + 4) \div 5 \in 1..n /\ ((k - 1) % 5) + 1 \in 1..5
        /\ k = 5 * ((k + 4) \div 5) - 5 + (((k - 1) % 5) + 1)
    BY <1>1, Blocks
  <2>2. v[k] = At((k + 4) \div 5, ((k - 1) % 5) + 1)
    BY <1>1, <1>2
  <2> QED BY <2>1, <2>2
<1>7. ASSUME NEW j \in 1..n, NEW r \in 1..5
      PROVE  5 * j - 5 + r \in 1..(5 * n) /\ v[5 * j - 5 + r] = At(j, r)
  <2>1. /\ 5 * j - 5 + r \in 1..(5 * n)
        /\ (5 * j - 5 + r + 4) \div 5 = j /\ ((5 * j - 5 + r - 1) % 5) + 1 = r
    BY <1>1, Blocks
  <2>2. 5 * j - 5 + r \in 1..(5 * n + 1) /\ 5 * j - 5 + r <= 5 * n
    BY <1>1, <2>1
  <2> QED BY <1>2, <2>1, <2>2
<1>8. \A k \in DOMAIN v : k \in 1..(5 * n) \/ v[k] = Listing("episodes")
  BY <1>1, <1>2
<1> HIDE DEF v
<1>9. \A k \in DOMAIN v : v[k] \in Places
  BY <1>3, <1>5, <1>6, <1>8
<1>10. v \in Seq(Places)
  <2>1. v = [k \in 1..Len(v) |-> v[k]]
    BY DEF v, Visits, n
  <2> QED BY <1>1, <1>2, <1>9, <2>1
<1>11. InOrder(v)
  <2>1. ASSUME NEW k \in DOMAIN v, v[k][2] = "metrics"
        PROVE  /\ k + 2 \in DOMAIN v
               /\ v[k + 1] = TrajectoryOf(v[k][1]) /\ v[k + 2] = EventsOf(v[k][1])
    <3>1. k \in 1..(5 * n)
      BY <1>5, <1>8, <2>1
    <3>2. PICK j \in 1..n, r \in 1..5 : k = 5 * j - 5 + r /\ v[k] = At(j, r)
      BY <1>6, <3>1
    <3>3. r = 3
      <4>1. r = 1 \/ r = 2 \/ r = 3 \/ r = 4 \/ r = 5
        OBVIOUS
      <4> QED BY <1>4, <2>1, <3>2, <4>1
    <3>4. k + 1 = 5 * j - 5 + 4 /\ k + 2 = 5 * j - 5 + 5
      BY <1>1, <3>2, <3>3
    <3>5. v[k + 1] = At(j, 4) /\ v[k + 2] = At(j, 5) /\ k + 2 \in 1..(5 * n)
      BY <1>7, <3>4
    <3>6. k + 2 \in DOMAIN v
      BY <1>1, <1>2, <3>5
    <3> QED BY <1>4, <3>2, <3>3, <3>5, <3>6
  <2>2. \A k \in DOMAIN v : v[k] # Metadata
    BY <1>4, <1>5, <1>6, <1>8
  <2> QED BY <2>1, <2>2 DEF InOrder
<1>12. ASSUME NEW i \in 1..n
       PROVE  \E k \in DOMAIN v : v[k] = MetricsOf(s[i].episode)
  <2>1. 5 * i - 5 + 3 \in DOMAIN v /\ v[5 * i - 5 + 3] = At(i, 3)
    BY <1>1, <1>2, <1>7
  <2> QED BY <1>4, <2>1
<1> QED BY <1>1, <1>10, <1>11, <1>12 DEF v

LEMMA InOrderTail ==
  ASSUME NEW s \in Seq(Places), s # <<>>, InOrder(s)
  PROVE  InOrder(Tail(s))
<1> DEFINE t == Tail(s)
           n == Len(s)
<1>1. /\ n \in Nat /\ DOMAIN s = 1..n /\ Len(t) = n - 1 /\ t \in Seq(Places)
      /\ \A k \in 1..(n - 1) : t[k] = s[k + 1]
  BY TailFacts
<1>2. DOMAIN t = 1..(n - 1)
  BY <1>1
<1> HIDE DEF t, n
<1>3. ASSUME NEW k \in 1..(n - 1), t[k][2] = "metrics"
      PROVE  /\ k + 2 \in 1..(n - 1)
             /\ t[k + 1] = TrajectoryOf(t[k][1]) /\ t[k + 2] = EventsOf(t[k][1])
  <2>1. k + 1 \in DOMAIN s /\ s[k + 1][2] = "metrics" /\ s[k + 1] = t[k]
    BY <1>1, <1>3
  <2>2. (k + 1) + 2 \in DOMAIN s /\ s[(k + 1) + 1] = TrajectoryOf(s[k + 1][1])
        /\ s[(k + 1) + 2] = EventsOf(s[k + 1][1])
    BY <2>1 DEF InOrder
  <2>3. k + 1 \in 1..(n - 1) /\ k + 2 \in 1..(n - 1)
        /\ (k + 1) + 1 = (k + 1) + 1 /\ (k + 1) + 2 = (k + 2) + 1
    BY <1>1, <2>2
  <2>4. t[k + 1] = s[(k + 1) + 1] /\ t[k + 2] = s[(k + 1) + 2]
    BY <1>1, <2>3
  <2> QED BY <2>1, <2>2, <2>3, <2>4
<1>4. ASSUME NEW k \in 1..(n - 1), t[k] = Metadata
      PROVE  k + 1 \in 1..(n - 1) /\ t[k + 1] = Summary
  <2>1. k + 1 \in DOMAIN s /\ s[k + 1] = Metadata
    BY <1>1, <1>4
  <2>2. (k + 1) + 1 \in DOMAIN s /\ s[(k + 1) + 1] = Summary
    BY <2>1 DEF InOrder
  <2>3. k + 1 \in 1..(n - 1)
    BY <1>1, <2>2
  <2> QED BY <1>1, <2>2, <2>3
<1> QED BY <1>2, <1>3, <1>4 DEF InOrder, t

LEMMA ConcatFacts ==
  ASSUME NEW S, NEW s \in Seq(S), NEW t \in Seq(S)
  PROVE  /\ DOMAIN s = 1..Len(s) /\ DOMAIN t = 1..Len(t)
         /\ Len(s) \in Nat /\ Len(t) \in Nat
         /\ DOMAIN (s \o t) = 1..(Len(s) + Len(t))
         /\ \A k \in 1..Len(s) : (s \o t)[k] = s[k]
         /\ \A k \in 1..Len(t) : (s \o t)[k + Len(s)] = t[k]
<1>1. DOMAIN s = 1..Len(s) /\ DOMAIN t = 1..Len(t) /\ Len(s) \in Nat /\ Len(t) \in Nat
  OBVIOUS
<1>2. DOMAIN (s \o t) = 1..(Len(s) + Len(t))
  OBVIOUS
<1>3. \A k \in 1..Len(s) : (s \o t)[k] = s[k]
  OBVIOUS
<1>4. ASSUME NEW k \in 1..Len(t)
      PROVE  (s \o t)[k + Len(s)] = t[k]
  OBVIOUS
<1> QED BY <1>1, <1>2, <1>3, <1>4

LEMMA InOrderConcat ==
  ASSUME NEW s \in Seq(Places), InOrder(s), NEW t \in Seq(Places), InOrder(t)
  PROVE  InOrder(s \o t)
<1> DEFINE u == s \o t
           n == Len(s)
           m == Len(t)
<1>1. /\ n \in Nat /\ m \in Nat /\ DOMAIN s = 1..n /\ DOMAIN t = 1..m
      /\ DOMAIN u = 1..(n + m)
  OBVIOUS
<1>2. \A k \in 1..n : u[k] = s[k]
  OBVIOUS
<1>3. \A k \in 1..(n + m) : k > n => u[k] = t[k - n]
  OBVIOUS
<1> HIDE DEF u, n, m
<1>4. ASSUME NEW k \in 1..(n + m), u[k][2] = "metrics"
      PROVE  /\ k + 2 \in 1..(n + m)
             /\ u[k + 1] = TrajectoryOf(u[k][1]) /\ u[k + 2] = EventsOf(u[k][1])
  <2>1. CASE k <= n
    <3>1. k \in DOMAIN s /\ u[k] = s[k]
      BY <1>1, <1>2, <2>1
    <3>2. k + 2 \in DOMAIN s
          /\ s[k + 1] = TrajectoryOf(s[k][1]) /\ s[k + 2] = EventsOf(s[k][1])
      BY <1>4, <3>1 DEF InOrder
    <3>3. k + 1 \in 1..n /\ k + 2 \in 1..n
      BY <1>1, <3>1, <3>2
    <3>4. k + 2 \in 1..(n + m)
      BY <1>1, <3>3
    <3> QED BY <1>2, <3>1, <3>2, <3>3, <3>4
  <2>2. CASE k > n
    <3>1. k - n \in DOMAIN t /\ u[k] = t[k - n]
      BY <1>1, <1>3, <2>2
    <3>2. (k - n) + 2 \in DOMAIN t
          /\ t[(k - n) + 1] = TrajectoryOf(t[k - n][1]) /\ t[(k - n) + 2] = EventsOf(t[k - n][1])
      BY <1>4, <3>1 DEF InOrder
    <3>3. /\ k + 1 \in 1..(n + m) /\ k + 2 \in 1..(n + m) /\ k + 1 > n /\ k + 2 > n
          /\ (k + 1) - n = (k - n) + 1 /\ (k + 2) - n = (k - n) + 2
      BY <1>1, <2>2, <3>2
    <3>4. u[k + 1] = t[(k - n) + 1] /\ u[k + 2] = t[(k - n) + 2]
      BY <1>3, <3>3
    <3> QED BY <3>1, <3>2, <3>3, <3>4
  <2> QED BY <1>1, <2>1, <2>2
<1>5. ASSUME NEW k \in 1..(n + m), u[k] = Metadata
      PROVE  k + 1 \in 1..(n + m) /\ u[k + 1] = Summary
  <2>1. CASE k <= n
    <3>1. k \in DOMAIN s /\ s[k] = Metadata
      BY <1>1, <1>2, <1>5, <2>1
    <3>2. k + 1 \in DOMAIN s /\ s[k + 1] = Summary
      BY <3>1 DEF InOrder
    <3> QED BY <1>1, <1>2, <3>2
  <2>2. CASE k > n
    <3>1. k - n \in DOMAIN t /\ t[k - n] = Metadata
      BY <1>1, <1>3, <1>5, <2>2
    <3>2. (k - n) + 1 \in DOMAIN t /\ t[(k - n) + 1] = Summary
      BY <3>1 DEF InOrder
    <3>3. k + 1 \in 1..(n + m) /\ k + 1 > n /\ (k + 1) - n = (k - n) + 1
      BY <1>1, <2>2, <3>2
    <3> QED BY <1>3, <3>2, <3>3
  <2> QED BY <1>1, <2>1, <2>2
<1> QED BY <1>1, <1>4, <1>5 DEF InOrder, u

-----------------------------------------------------------------------------
(* The steps of the reader.                                                 *)

Rejects == verdict' = "rejected" /\ reading' = <<>> /\ copy' = NothingFound

LEMMA ReadFacts ==
  ASSUME DiskInv, ReaderInv, ReadNext, ~Rejects
  PROVE  /\ verdict = "reading" /\ reading # <<>> /\ Head(reading) = reading[1]
         /\ Head(reading) \in Places
         /\ DOMAIN copy' = Places
         /\ \A p \in Places : p # Head(reading) => copy'[p] = copy[p]
         /\ Head(reading) \in Paths =>
              copy'[Head(reading)] = disk[Head(reading)] /\ disk[Head(reading)] # Absent
         /\ reading' \in Seq(Places) /\ InOrder(reading')
         /\ Ahead \subseteq {Head(reading)} \cup Ahead'
         /\ \A k \in DOMAIN reading : k > 1 => reading[k] \in Ahead'
         /\ Head(reading) = Summary =>
              \A e \in ListedIn(disk[Summary]) : MetricsOf(e) \in Ahead'
         /\ verdict' = IF reading' = <<>> THEN "accepted" ELSE "reading"
<1> DEFINE i == Head(reading)
           added == IF i = Summary THEN Visits(disk[Summary].episodes) ELSE <<>>
           t == Tail(reading)
<1>0. verdict = "reading" /\ reading \in Seq(Places) /\ reading # <<>> /\ InOrder(reading)
      /\ DOMAIN copy = Places
  BY DEF ReaderInv, ReadNext
<1>1. /\ i = reading[1] /\ i \in Places /\ t \in Seq(Places) /\ InOrder(t)
      /\ Len(reading) \in Nat /\ Len(t) = Len(reading) - 1
      /\ \A k \in 1..Len(t) : t[k] = reading[k + 1]
  BY <1>0, TailFacts, InOrderTail
<1>2. /\ ~Missing(i) /\ reading' = t \o added /\ copy' = [copy EXCEPT ![i] = Look(i)]
      /\ verdict' = IF reading' = <<>> THEN "accepted" ELSE "reading"
  <2> DEFINE rest == t \o added
             found == [copy EXCEPT ![i] = Look(i)]
  <2>1. IF Missing(i) \/ (rest = <<>> /\ ~Accepts(found))
        THEN verdict' = "rejected" /\ reading' = <<>> /\ copy' = NothingFound
        ELSE /\ reading' = rest /\ copy' = found
             /\ verdict' = IF rest = <<>> THEN "accepted" ELSE "reading"
    BY DEF ReadNext
  <2> HIDE DEF rest, found, i
  <2>2. ~Missing(i) /\ reading' = rest /\ copy' = found
        /\ verdict' = IF rest = <<>> THEN "accepted" ELSE "reading"
    BY <2>1 DEF Rejects
  <2> QED BY <2>2 DEF rest, found
<1>3. i \in Paths => Look(i) = disk[i] /\ disk[i] # Absent
  <2> HIDE DEF i
  <2> SUFFICES ASSUME i \in Paths PROVE Look(i) = disk[i] /\ disk[i] # Absent
    OBVIOUS
  <2>1. i[2] # "ls"
    BY PathParts
  <2> QED BY <1>2, <2>1 DEF Look, Missing
<1>4. i = Summary =>
        /\ disk[Summary].episodes \in Seq(Entries)
        /\ added = Visits(disk[Summary].episodes)
  <2> SUFFICES ASSUME i = Summary
               PROVE  /\ disk[Summary].episodes \in Seq(Entries)
                      /\ added = Visits(disk[Summary].episodes)
    OBVIOUS
  <2>1. disk[Summary] # Absent
    BY <1>3, RootNames
  <2>2. IsDocument(Summary, disk[Summary])
    BY <2>1, RootNames DEF DiskInv, Shows
  <2> QED BY <2>2 DEF IsDocument
<1>5. added \in Seq(Places) /\ InOrder(added)
  <2>1. CASE i = Summary
    BY <1>4, <2>1, VisitFacts
  <2>2. CASE i # Summary
    <3>1. added = <<>>
      BY <2>2
    <3>2. <<>> \in Seq(Places) /\ DOMAIN <<>> = {}
      BY EmptySeq
    <3> QED BY <3>1, <3>2 DEF InOrder
  <2> QED BY <2>1, <2>2
<1> HIDE DEF added, t, i
<1>6. reading' \in Seq(Places) /\ InOrder(reading')
  BY <1>1, <1>2, <1>5, InOrderConcat
<1>7. DOMAIN copy' = Places /\ (\A p \in Places : copy'[p] = IF p = i THEN Look(i) ELSE copy[p])
  BY <1>0, <1>1, <1>2
<1>8. /\ \A k \in DOMAIN t : t[k] \in Ahead'
      /\ \A k \in DOMAIN added : added[k] \in Ahead'
  <2>1. /\ DOMAIN t = 1..Len(t) /\ DOMAIN added = 1..Len(added)
        /\ Len(t) \in Nat /\ Len(added) \in Nat
        /\ DOMAIN (t \o added) = 1..(Len(t) + Len(added))
        /\ \A k \in 1..Len(t) : (t \o added)[k] = t[k]
        /\ \A k \in 1..Len(added) : (t \o added)[k + Len(t)] = added[k]
    BY <1>1, <1>5, ConcatFacts
  <2>2. \A k \in 1..Len(t) : k \in DOMAIN (t \o added)
    BY <2>1
  <2>3. \A k \in 1..Len(added) : k + Len(t) \in DOMAIN (t \o added)
    BY <2>1
  <2>4. \A k \in 1..Len(t) : k \in DOMAIN reading' /\ reading'[k] = t[k]
    BY <1>2, <2>1, <2>2
  <2>5. \A k \in 1..Len(added) :
          k + Len(t) \in DOMAIN reading' /\ reading'[k + Len(t)] = added[k]
    BY <1>2, <2>1, <2>3
  <2> QED BY <2>1, <2>4, <2>5 DEF Ahead
<1>9. ASSUME NEW k \in DOMAIN reading, k > 1
      PROVE  reading[k] \in Ahead'
  <2>1. k - 1 \in 1..Len(t) /\ (k - 1) + 1 = k
    BY <1>0, <1>1, <1>9
  <2>2. t[k - 1] = reading[k] /\ k - 1 \in DOMAIN t
    BY <1>1, <2>1
  <2> QED BY <1>8, <2>2
<1>10. Ahead \subseteq {i} \cup Ahead'
  <2>1. \A k \in DOMAIN reading : k = 1 \/ k > 1
    BY <1>0
  <2> QED BY <1>1, <1>9, <2>1 DEF Ahead
<1>11. ASSUME i = Summary, NEW e \in ListedIn(disk[Summary])
       PROVE  MetricsOf(e) \in Ahead'
  <2>1. PICK k \in DOMAIN disk[Summary].episodes : e = disk[Summary].episodes[k].episode
    BY <1>11 DEF ListedIn
  <2>2. \E j \in DOMAIN added : added[j] = MetricsOf(e)
    BY <1>4, <1>11, <2>1, VisitFacts
  <2> QED BY <1>8, <2>2
<1>12. i \in Paths => copy'[i] = disk[i] /\ disk[i] # Absent
  BY <1>1, <1>3, <1>7
<1>13. \A p \in Places : p # i => copy'[p] = copy[p]
  BY <1>7
<1> USE DEF i
<1>14. verdict = "reading" /\ reading # <<>> /\ Head(reading) = reading[1]
       /\ Head(reading) \in Places
  BY <1>0, <1>1
<1>15. Head(reading) \in Paths =>
         copy'[Head(reading)] = disk[Head(reading)] /\ disk[Head(reading)] # Absent
  BY <1>12
<1>16. Ahead \subseteq {Head(reading)} \cup Ahead'
  BY <1>10
<1>17. Head(reading) = Summary => \A e \in ListedIn(disk[Summary]) : MetricsOf(e) \in Ahead'
  BY <1>11
<1>18. \A p \in Places : p # Head(reading) => copy'[p] = copy[p]
  BY <1>13
<1>19. DOMAIN copy' = Places
  BY <1>7
<1>20. verdict' = IF reading' = <<>> THEN "accepted" ELSE "reading"
  BY <1>2
<1> QED BY <1>6, <1>9, <1>14, <1>15, <1>16, <1>17, <1>18, <1>19, <1>20

LEMMA ReaderSteps ==
  ASSUME [Next]_vars
  PROVE  \/ UNCHANGED <<reading, copy, verdict>>
         \/ StartReading /\ UNCHANGED recorderVars
         \/ ReadNext /\ UNCHANGED recorderVars
BY DEF Next, ReaderNext, vars, reader

LEMMA StartFacts ==
  ASSUME StartReading
  PROVE  /\ verdict = "none" /\ verdict' = "reading" /\ copy' = copy
         /\ reading' \in Seq(Places) /\ reading' # <<>> /\ InOrder(reading')
         /\ Metadata \in Ahead' /\ Summary \in Ahead'
<1>1. verdict = "none" /\ verdict' = "reading" /\ copy' = copy
      /\ reading' = <<Listing(Root), Config, Metadata, Summary>>
  BY DEF StartReading
<1>2. /\ Listing(Root) \in Places /\ Config \in Places /\ Metadata \in Places /\ Summary \in Places
  BY RootNames DEF Places, Listings
<1>3. reading' \in Seq(Places) /\ reading' # <<>> /\ DOMAIN reading' = 1..4
      /\ reading'[1] = Listing(Root) /\ reading'[2] = Config
      /\ reading'[3] = Metadata /\ reading'[4] = Summary
  BY <1>1, <1>2
<1>4. \A k \in 1..4 : k = 1 \/ k = 2 \/ k = 3 \/ k = 4
  OBVIOUS
<1>5. /\ Listing(Root)[2] = "ls" /\ Config[2] = "config" /\ Metadata[2] = "metadata"
      /\ Summary[2] = "summary"
  BY RootParts, ListingParts
<1>6. \A k \in 1..4 : reading'[k][2] # "metrics"
  BY <1>3, <1>4, <1>5
<1>7. \A k \in 1..4 : reading'[k] = Metadata => k = 3
  BY <1>3, <1>4, <1>5
<1>8. InOrder(reading')
  BY <1>3, <1>6, <1>7 DEF InOrder
<1>9. Metadata \in Ahead' /\ Summary \in Ahead'
  BY <1>3 DEF Ahead
<1> QED BY <1>1, <1>3, <1>8, <1>9

LEMMA NothingFoundFacts ==
  /\ DOMAIN NothingFound = Places
  /\ \A p \in Paths : NothingFound[p] = Absent
BY DEF NothingFound, Places

LEMMA ReaderInvNext ==
  ASSUME DiskInv, ReaderInv, [Next]_vars
  PROVE  ReaderInv'
<1>1. CASE UNCHANGED <<reading, copy, verdict>>
  BY <1>1 DEF ReaderInv
<1>2. CASE StartReading
  <2>1. DOMAIN copy = Places /\ \A p \in Paths : copy[p] = Absent \/ IsDocument(p, copy[p])
    BY DEF ReaderInv
  <2> QED BY <1>2, <2>1, StartFacts DEF ReaderInv
<1>3. CASE ReadNext /\ Rejects
  BY <1>3, NothingFoundFacts, EmptySeq DEF ReaderInv, Rejects, InOrder
<1>4. CASE ReadNext /\ ~Rejects
  <2>1. /\ DOMAIN copy' = Places /\ reading' \in Seq(Places) /\ InOrder(reading')
        /\ verdict' = IF reading' = <<>> THEN "accepted" ELSE "reading"
    BY <1>4, ReadFacts
  <2>2. \A p \in Paths : copy'[p] = copy[p] \/ copy'[p] = disk[p]
    <3>1. \A p \in Paths : p \in Places
      BY DEF Places
    <3>2. Head(reading) \in Paths => copy'[Head(reading)] = disk[Head(reading)]
      BY <1>4, ReadFacts
    <3>3. \A p \in Places : p # Head(reading) => copy'[p] = copy[p]
      BY <1>4, ReadFacts
    <3> QED BY <3>1, <3>2, <3>3
  <2>3. \A p \in Paths : disk[p] = Absent \/ IsDocument(p, disk[p])
    BY DEF DiskInv, Shows
  <2>4. \A p \in Paths : copy[p] = Absent \/ IsDocument(p, copy[p])
    BY DEF ReaderInv
  <2>5. \A p \in Paths : copy'[p] = Absent \/ IsDocument(p, copy'[p])
    BY <2>2, <2>3, <2>4
  <2> QED BY <2>1, <2>5 DEF ReaderInv
<1> QED BY <1>1, <1>2, <1>3, <1>4, ReaderSteps

(* What the reader has found goes together at every step, its own and the   *)
(* recorder's.                                                              *)
LEMMA CopyNext ==
  ASSUME MemoryInv, DiskInv, CallInv, OpenInv, PromiseInv, FixedInv, SealInv, ReaderInv, CopyInv,
         [Next]_vars
  PROVE  CopyInv'
<1>0. /\ \A e \in Episodes : Complete(copy[MetricsOf(e)]) =>
           /\ Fixed(e)
           /\ copy[MetricsOf(e)] = promised.results[e].metrics
           /\ TrajectoryOf(e) \in Ahead \/ copy[TrajectoryOf(e)] = promised.results[e].trajectory
           /\ EventsOf(e) \in Ahead \/ copy[EventsOf(e)] = promised.events[e]
      /\ Complete(copy[Metadata]) =>
           Sealed /\ (Summary \in Ahead \/ (copy[Summary] # Absent => Full(copy[Summary])))
      /\ verdict \in {"reading", "accepted"} =>
           /\ Metadata \in Ahead \/ copy[Metadata] # Absent
           /\ Summary \in Ahead \/ copy[Summary] # Absent
           /\ copy[Summary] # Absent =>
                \A e \in ListedIn(copy[Summary]) :
                   MetricsOf(e) \in Ahead \/ copy[MetricsOf(e)] # Absent
  BY DEF CopyInv
<1>1. ASSUME NEW e \in Episodes, Fixed(e)
      PROVE  /\ Fixed(e)' /\ promised'.results[e] = promised.results[e]
             /\ promised'.events[e] = promised.events[e]
  BY <1>1, FixedStable, PromisesStay DEF Fixed
<1>2. Sealed => Sealed'
  <2>1. MemoryInv'
    BY MemoryNext
  <2>2. begun' \in Seq(Episodes)
    BY <2>1 DEF MemoryInv
  <2>3. Begun' \subseteq Episodes
    BY <2>2 DEF Begun
  <2> QED BY <2>3, SealedStable
<1> SUFFICES
      /\ \A e \in Episodes : Complete(copy'[MetricsOf(e)]) =>
           /\ Fixed(e)'
           /\ copy'[MetricsOf(e)] = promised'.results[e].metrics
           /\ TrajectoryOf(e) \in Ahead' \/ copy'[TrajectoryOf(e)] = promised'.results[e].trajectory
           /\ EventsOf(e) \in Ahead' \/ copy'[EventsOf(e)] = promised'.events[e]
      /\ Complete(copy'[Metadata]) =>
           Sealed' /\ (Summary \in Ahead' \/ (copy'[Summary] # Absent => Full(copy'[Summary])))
      /\ verdict' \in {"reading", "accepted"} =>
           /\ Metadata \in Ahead' \/ copy'[Metadata] # Absent
           /\ Summary \in Ahead' \/ copy'[Summary] # Absent
           /\ copy'[Summary] # Absent =>
                \A e \in ListedIn(copy'[Summary]) :
                   MetricsOf(e) \in Ahead' \/ copy'[MetricsOf(e)] # Absent
  BY DEF CopyInv, Complete, Full, ListedIn
<1>3. CASE UNCHANGED <<reading, copy, verdict>>
  <2>1. Ahead' = Ahead
    BY <1>3 DEF Ahead
  <2> QED BY <1>0, <1>1, <1>2, <1>3, <2>1
<1>4. CASE StartReading
  <2>1. /\ copy' = copy /\ copy = NothingFound /\ Metadata \in Ahead' /\ Summary \in Ahead'
    BY <1>4, StartFacts DEF ReaderInv
  <2>2. /\ copy'[Summary] = Absent /\ copy'[Metadata] = Absent
        /\ \A e \in Episodes : copy'[MetricsOf(e)] = Absent
    BY <2>1, NothingFoundFacts, RootNames, EpisodeNames
  <2> QED BY <2>1, <2>2 DEF Complete
<1>5. CASE ReadNext /\ Rejects
  <2>1. copy' = NothingFound /\ verdict' = "rejected"
    BY <1>5 DEF Rejects
  <2>2. /\ copy'[Summary] = Absent /\ copy'[Metadata] = Absent
        /\ \A e \in Episodes : copy'[MetricsOf(e)] = Absent
    BY <2>1, NothingFoundFacts, RootNames, EpisodeNames
  <2> QED BY <2>1, <2>2 DEF Complete
<1>6. CASE ReadNext /\ ~Rejects
  <2> DEFINE i == Head(reading)
  <2>1. /\ verdict = "reading" /\ i = reading[1]
        /\ i \in Paths => copy'[i] = disk[i] /\ disk[i] # Absent
        /\ \A p \in Places : p # i => copy'[p] = copy[p]
        /\ Ahead \subseteq {i} \cup Ahead'
        /\ i = Summary => \A e \in ListedIn(disk[Summary]) : MetricsOf(e) \in Ahead'
    BY <1>6, ReadFacts
  <2>2. InOrder(reading) /\ 1 \in DOMAIN reading
    <3>1. reading \in Seq(Places) /\ reading # <<>>
      BY <2>1 DEF ReaderInv
    <3>2. Len(reading) \in Nat /\ Len(reading) > 0 /\ DOMAIN reading = 1..Len(reading)
      BY <3>1, TailFacts
    <3> QED BY <3>2 DEF ReaderInv
  <2>3. \A k \in DOMAIN reading : k > 1 => reading[k] \in Ahead'
    BY <1>6, ReadFacts
  <2>4. \A p \in Paths : p \in Places /\ (p = i => copy'[p] = disk[p] /\ disk[p] # Absent)
                         /\ (p # i => copy'[p] = copy[p] /\ (p \in Ahead => p \in Ahead'))
    BY <2>1 DEF Places
  <2>5. \A e \in Episodes : i = MetricsOf(e) => TrajectoryOf(e) \in Ahead' /\ EventsOf(e) \in Ahead'
    <3> SUFFICES ASSUME NEW e \in Episodes, i = MetricsOf(e)
                 PROVE  TrajectoryOf(e) \in Ahead' /\ EventsOf(e) \in Ahead'
      OBVIOUS
    <3>1. reading[1][2] = "metrics" /\ reading[1][1] = e
      BY <2>1, EpisodeParts
    <3>2. 3 \in DOMAIN reading /\ reading[2] = TrajectoryOf(e) /\ reading[3] = EventsOf(e)
      <4>1. 1 + 2 \in DOMAIN reading /\ reading[1 + 1] = TrajectoryOf(e)
            /\ reading[1 + 2] = EventsOf(e)
        BY <2>2, <3>1 DEF InOrder
      <4> QED BY <4>1
    <3>3. 2 \in DOMAIN reading
      BY <3>2 DEF ReaderInv
    <3> QED BY <2>3, <3>2, <3>3
  <2>6. i = Metadata => Summary \in Ahead'
    <3> SUFFICES ASSUME i = Metadata PROVE Summary \in Ahead'
      OBVIOUS
    <3>1. 1 + 1 \in DOMAIN reading /\ reading[1 + 1] = Summary
      BY <2>1, <2>2 DEF InOrder
    <3> QED BY <2>3, <3>1
  <2> HIDE DEF i
  <2>7. \A p \in Paths : Complete(disk[p]) => ShowsComplete(p)
    BY ShownComplete
  <2>8. ASSUME NEW e \in Episodes, Complete(copy'[MetricsOf(e)])
        PROVE  /\ Fixed(e)
               /\ copy'[MetricsOf(e)] = promised.results[e].metrics
               /\ TrajectoryOf(e) \in Ahead' \/ copy'[TrajectoryOf(e)] = promised.results[e].trajectory
               /\ EventsOf(e) \in Ahead' \/ copy'[EventsOf(e)] = promised.events[e]
    <3>0. MetricsOf(e) \in Paths /\ TrajectoryOf(e) \in Paths /\ EventsOf(e) \in Paths
      BY EpisodeNames
    <3>1. CASE i = MetricsOf(e)
      <4>1. copy'[MetricsOf(e)] = disk[MetricsOf(e)]
        BY <2>4, <3>0, <3>1
      <4>2. Fixed(e)
        BY <2>7, <2>8, <3>0, <4>1 DEF FixedInv
      <4>3. disk[MetricsOf(e)] = promised.results[e].metrics
        BY <2>8, <4>1, <4>2 DEF Fixed, Shows
      <4> QED BY <2>5, <3>1, <4>1, <4>2, <4>3
    <3>2. CASE i # MetricsOf(e)
      <4>1. copy'[MetricsOf(e)] = copy[MetricsOf(e)]
        BY <2>4, <3>0, <3>2
      <4>2. /\ Fixed(e) /\ copy[MetricsOf(e)] = promised.results[e].metrics
            /\ TrajectoryOf(e) \in Ahead \/ copy[TrajectoryOf(e)] = promised.results[e].trajectory
            /\ EventsOf(e) \in Ahead \/ copy[EventsOf(e)] = promised.events[e]
        BY <1>0, <2>8, <4>1
      <4>3. TrajectoryOf(e) \in Ahead' \/ copy'[TrajectoryOf(e)] = promised.results[e].trajectory
        <5>1. CASE i = TrajectoryOf(e)
          <6>1. copy'[TrajectoryOf(e)] = disk[TrajectoryOf(e)] /\ disk[TrajectoryOf(e)] # Absent
            BY <2>4, <3>0, <5>1
          <6>2. disk[TrajectoryOf(e)] \in {Absent, promised.results[e].trajectory}
            BY <4>2 DEF Fixed, Shows
          <6> QED BY <6>1, <6>2
        <5>2. CASE i # TrajectoryOf(e)
          BY <2>4, <3>0, <4>2, <5>2
        <5> QED BY <5>1, <5>2
      <4>4. EventsOf(e) \in Ahead' \/ copy'[EventsOf(e)] = promised.events[e]
        <5>1. CASE i = EventsOf(e)
          <6>1. copy'[EventsOf(e)] = disk[EventsOf(e)] /\ disk[EventsOf(e)] # Absent
            BY <2>4, <3>0, <5>1
          <6>2. disk[EventsOf(e)] \in {Absent, promised.events[e]}
            BY <4>2 DEF Fixed, Shows
          <6> QED BY <6>1, <6>2
        <5>2. CASE i # EventsOf(e)
          BY <2>4, <3>0, <4>2, <5>2
        <5> QED BY <5>1, <5>2
      <4> QED BY <4>1, <4>2, <4>3, <4>4
    <3> QED BY <3>1, <3>2
  <2>9. ASSUME Complete(copy'[Metadata])
        PROVE  Sealed /\ (Summary \in Ahead' \/ (copy'[Summary] # Absent => Full(copy'[Summary])))
    <3>0. Metadata \in Paths /\ Summary \in Paths
      BY RootNames
    <3>1. CASE i = Metadata
      <4>1. copy'[Metadata] = disk[Metadata]
        BY <2>4, <3>0, <3>1
      <4>2. Sealed
        BY <2>7, <2>9, <3>0, <4>1 DEF SealInv
      <4> QED BY <2>6, <3>1, <4>2
    <3>2. CASE i # Metadata
      <4>1. copy'[Metadata] = copy[Metadata]
        BY <2>4, <3>0, <3>2
      <4>2. Sealed /\ (Summary \in Ahead \/ (copy[Summary] # Absent => Full(copy[Summary])))
        BY <1>0, <2>9, <4>1
      <4>3. CASE i = Summary
        <5>1. copy'[Summary] = disk[Summary] /\ disk[Summary] # Absent
          BY <2>4, <3>0, <4>3
        <5>2. Full(disk[Summary])
          BY <4>2, <5>1 DEF Sealed, Shows
        <5> QED BY <4>2, <5>1, <5>2
      <4>4. CASE i # Summary
        BY <2>4, <3>0, <4>2, <4>4
      <4> QED BY <4>3, <4>4
    <3> QED BY <3>1, <3>2
  <2>10. /\ Metadata \in Ahead' \/ copy'[Metadata] # Absent
         /\ Summary \in Ahead' \/ copy'[Summary] # Absent
    BY <1>0, <2>1, <2>4, RootNames
  <2>11. ASSUME copy'[Summary] # Absent, NEW e \in ListedIn(copy'[Summary])
         PROVE  MetricsOf(e) \in Ahead' \/ copy'[MetricsOf(e)] # Absent
    <3>1. CASE i = Summary
      <4>1. copy'[Summary] = disk[Summary]
        BY <2>4, <3>1, RootNames
      <4> QED BY <2>1, <2>11, <3>1, <4>1 DEF i
    <3>2. CASE i # Summary
      <4>1. copy'[Summary] = copy[Summary]
        BY <2>4, <3>2, RootNames
      <4>2. IsDocument(Summary, copy[Summary])
        BY <2>11, <4>1, RootNames DEF ReaderInv
      <4>3. e \in Episodes
        <5>1. copy[Summary].episodes \in Seq(Entries)
          BY <4>2 DEF IsDocument
        <5>2. PICK k \in DOMAIN copy[Summary].episodes : e = copy[Summary].episodes[k].episode
          BY <2>11, <4>1 DEF ListedIn
        <5>3. copy[Summary].episodes[k] \in Entries
          BY <5>1
        <5> QED BY <5>2, <5>3 DEF Entries
      <4>4. MetricsOf(e) \in Ahead \/ copy[MetricsOf(e)] # Absent
        BY <1>0, <2>1, <2>11, <4>1
      <4>5. MetricsOf(e) \in Paths
        BY <4>3, EpisodeNames
      <4> QED BY <2>4, <4>4, <4>5
    <3> QED BY <3>1, <3>2
  <2> QED BY <1>1, <1>2, <2>8, <2>9, <2>10, <2>11
<1> QED BY <1>3, <1>4, <1>5, <1>6, ReaderSteps

-----------------------------------------------------------------------------
(* The invariant and what it says.                                          *)

LEMMA InitInv ==
  ASSUME Init
  PROVE  Inv
<1>1. /\ started = FALSE /\ finished = FALSE /\ begun = <<>>
      /\ buffer = [e \in Episodes |-> EmptyBuffer]
      /\ call = NoCall /\ todo = <<>> /\ stage = "new"
      /\ disk = [p \in Paths |-> Absent] /\ older = [p \in Paths |-> <<>>]
      /\ litter = {} /\ up = TRUE /\ failures = 0
      /\ promised = [opened |-> {}, events |-> [e \in Episodes |-> <<>>],
                     results |-> [e \in Episodes |-> Absent], closed |-> "no"]
      /\ reading = <<>> /\ copy = NothingFound /\ verdict = "none"
  BY DEF Init, RecorderInit, ReaderInit
<1>2. \A S : <<>> \in Seq(S)
  BY EmptySeq
<1>3. /\ \A p \in Paths : disk[p] = Absent /\ older[p] = <<>> /\ Shows(p) = {Absent}
      /\ \A p \in Paths : ~ShowsComplete(p) /\ ~Complete(disk[p])
  <2>1. \A p \in Paths : disk[p] = Absent /\ older[p] = <<>>
    BY <1>1
  <2>2. DOMAIN <<>> = {}
    OBVIOUS
  <2> QED BY <2>1, <2>2 DEF Shows, ShowsComplete, Complete
<1>4. DiskInv
  <2>1. \A p \in Paths : older[p] \in Seq(Shows(p))
    BY <1>2, <1>3
  <2> QED BY <1>1, <1>3, <2>1 DEF DiskInv
<1>5. Begun = {}
  BY <1>1 DEF Begun
<1>6. MemoryInv
  <2>1. EmptyBuffer \in [events : Seq(EventRecords), complete : BOOLEAN,
                         reason : Reasons \cup {"NONE"}]
    BY <1>2 DEF EmptyBuffer
  <2>2. buffer \in [Episodes -> [events : Seq(EventRecords), complete : BOOLEAN,
                                 reason : Reasons \cup {"NONE"}]]
    BY <1>1, <2>1
  <2>3. promised \in [opened : SUBSET ({Asked, "root"} \cup Episodes),
                      events : [Episodes -> Seq(EventRecords)],
                      results : [Episodes -> EpisodeResults \cup {Absent}],
                      closed : {"no", "partial", "complete", "failed"}]
    BY <1>1, <1>2
  <2>4. begun \in Seq(Episodes) /\ Len(begun) = 0 /\ DOMAIN begun = {}
    BY <1>1, <1>2
  <2>5. Len(begun) <= Len(Configured)
    BY <2>4, ConfiguredAssumption
  <2> QED BY <1>1, <2>2, <2>3, <2>4, <2>5 DEF MemoryInv
<1>7. CallInv
  <2>1. call \in CallTypes /\ call.op = "none"
    BY <1>1, OpenMetricsType DEF NoCall, CallTypes
  <2>2. Plan = <<>>
    BY <2>1 DEF Plan
  <2> QED BY <1>1, <1>2, <2>1, <2>2 DEF CallInv, CallTypes
<1>8. call.op = "none"
  BY <1>1 DEF NoCall
<1>9. OpenInv
  BY <1>1, <1>8 DEF OpenInv
<1>10. \A e \in Episodes : /\ buffer[e].complete = FALSE /\ buffer[e].events = <<>>
                           /\ promised.results[e] = Absent /\ promised.events[e] = <<>>
  BY <1>1 DEF EmptyBuffer
<1>11. PromiseInv
  BY <1>8, <1>10 DEF PromiseInv
<1>12. FixedInv /\ SealInv
  BY <1>3, EpisodeNames, RootNames DEF FixedInv, SealInv
<1>13. DurableInv
  <2>1. \A e \in Episodes : ~Complete(disk[MetricsOf(e)]) /\ older[MetricsOf(e)] = <<>>
    BY <1>3, EpisodeNames
  <2>2. promised.opened = {} /\ promised.closed = "no" /\ DOMAIN <<>> = {}
    BY <1>1
  <2> QED BY <1>5, <1>10, <2>1, <2>2 DEF DurableInv
<1>14. ProgressInv
  BY <1>1, <1>8 DEF ProgressInv
<1>15. ReaderInv
  <2>1. InOrder(reading)
    BY <1>1 DEF InOrder
  <2> QED BY <1>1, <1>2, <2>1, NothingFoundFacts DEF ReaderInv
<1>16. CopyInv
  <2>1. \A p \in Paths : copy[p] = Absent
    BY <1>1, NothingFoundFacts
  <2>2. copy[Metadata] = Absent /\ \A e \in Episodes : copy[MetricsOf(e)] = Absent
    BY <2>1, RootNames, EpisodeNames
  <2> QED BY <1>1, <2>2 DEF CopyInv, Complete
<1> QED BY <1>4, <1>6, <1>7, <1>9, <1>11, <1>12, <1>13, <1>14, <1>15, <1>16 DEF Inv

LEMMA NextInv ==
  ASSUME Inv, [Next]_vars
  PROVE  Inv'
<1>1. DiskInv' /\ MemoryInv' /\ CallInv' /\ OpenInv' /\ PromiseInv'
  BY DiskNext, MemoryNext, CallNext, OpenNext, PromiseNext DEF Inv
<1>2. FixedInv' /\ SealInv'
  BY FixedNext, SealNext DEF Inv
<1>3. DurableInv' /\ ProgressInv'
  BY DurableNext, ProgressNext DEF Inv
<1>4. ReaderInv' /\ CopyInv'
  BY ReaderInvNext, CopyNext DEF Inv
<1> QED BY <1>1, <1>2, <1>3, <1>4 DEF Inv

(* The invariant that the results rest on holds in every reachable state.   *)
THEOREM ResultsInvariant == Spec => []Inv
<1>1. Init => Inv
  BY InitInv
<1>2. Inv /\ [Next]_vars => Inv'
  BY NextInv
<1> QED BY <1>1, <1>2, PTL DEF Spec

LEMMA InvTypes ==
  ASSUME Inv
  PROVE  ResTypeOK
<1>1. /\ started \in BOOLEAN /\ finished \in BOOLEAN /\ up \in BOOLEAN
      /\ \A i \in DOMAIN begun : begun[i] = Configured[i]
  BY DEF Inv, MemoryInv
<1>2. /\ call.op \in {"none", "start", "begin", "record", "complete", "finish"}
      /\ stage \in {"new", "written", "replaced"}
      /\ up => litter = (IF stage = "written" THEN {Head(todo)[1]} ELSE {})
  BY DEF Inv, CallInv
<1>3. \A p \in Paths : disk[p] = Absent \/ IsDocument(p, disk[p])
  BY DEF Inv, DiskInv, Shows
<1>4. \A p \in Paths : IsDirectory(p) => disk[p] \in {Absent, Directory}
  BY <1>3 DEF IsDocument
<1>5. \A e \in Episodes : disk[<<e, "episode">>] \in {Absent, e}
  <2> SUFFICES ASSUME NEW e \in Episodes PROVE disk[EpisodeOf(e)] \in {Absent, e}
    BY DEF EpisodeOf
  <2>1. EpisodeOf(e) \in Paths /\ EpisodeOf(e)[1] = e /\ EpisodeOf(e)[2] = "episode"
    BY EpisodeNames, EpisodeParts
  <2> QED BY <1>3, <2>1 DEF IsDocument
<1>6. disk[Metadata] \in {Absent} \cup [complete : BOOLEAN]
  BY <1>3, RootNames DEF IsDocument
<1>7. verdict \in {"none", "reading", "accepted", "rejected"} /\ DOMAIN copy = Places
  BY DEF Inv, ReaderInv
<1> QED BY <1>1, <1>2, <1>4, <1>5, <1>6, <1>7 DEF ResTypeOK

(* Type correctness: every document is one of its path, and a temporary     *)
(* file belongs to the write in progress while the process runs.            *)
THEOREM ResultsTypeCorrect == Spec => []ResTypeOK
<1>1. Inv => ResTypeOK
  BY InvTypes
<1> QED BY <1>1, ResultsInvariant, PTL

LEMMA InvMarkers ==
  ASSUME Inv
  PROVE  MarkersAreTrue
<1> SUFFICES ASSUME verdict = "accepted" PROVE MarkersAreTrue
  BY DEF MarkersAreTrue
<1>1. Ahead = {}
  <2>1. reading = <<>>
    BY DEF Inv, ReaderInv
  <2> QED BY <2>1 DEF Ahead
<1>2. /\ copy[Metadata] # Absent /\ copy[Summary] # Absent
      /\ \A e \in ListedIn(copy[Summary]) : copy[MetricsOf(e)] # Absent
      /\ \A e \in Episodes : Complete(copy[MetricsOf(e)]) =>
           /\ promised.results[e] # Absent
           /\ copy[MetricsOf(e)] = promised.results[e].metrics
           /\ copy[TrajectoryOf(e)] = promised.results[e].trajectory
           /\ copy[EventsOf(e)] = promised.events[e]
      /\ Complete(copy[Metadata]) => Full(copy[Summary])
  BY <1>1 DEF Inv, CopyInv, Fixed
<1>3. ListedIn(copy[Summary]) \subseteq Episodes
  <2>1. IsDocument(Summary, copy[Summary])
    BY <1>2, RootNames DEF Inv, ReaderInv
  <2>2. copy[Summary].episodes \in Seq(Entries)
    BY <2>1 DEF IsDocument
  <2>3. \A k \in DOMAIN copy[Summary].episodes : copy[Summary].episodes[k] \in Entries
    BY <2>2
  <2>4. \A x \in Entries : x.episode \in Episodes
    BY DEF Entries
  <2> QED BY <2>3, <2>4 DEF ListedIn
<1>4. \A e \in ListedIn(copy[Summary]) : copy[MetricsOf(e)].complete =>
        /\ promised.results[e] # Absent
        /\ copy[MetricsOf(e)] = promised.results[e].metrics
        /\ copy[TrajectoryOf(e)] = promised.results[e].trajectory
        /\ copy[EventsOf(e)] = promised.events[e]
  BY <1>2, <1>3 DEF Complete
<1>5. copy[Metadata].complete => ListedIn(copy[Summary]) = Episodes
  BY <1>2 DEF Complete, Full
<1> QED BY <1>4, <1>5 DEF MarkersAreTrue, MetricsOf, TrajectoryOf, EventsOf

(* Whatever the reader accepts is true, however its reads fall between the  *)
(* steps of the recorder, of failing writes, of a crash or of a power loss: *)
(* a complete episode has the metrics, the trajectory and the events of the *)
(* calls, and a complete manifest all of the configured episodes.           *)
THEOREM MarkersAreTruthful == Spec => []MarkersAreTrue
<1>1. Inv => MarkersAreTrue
  BY InvMarkers
<1> QED BY <1>1, ResultsInvariant, PTL

-----------------------------------------------------------------------------
(* The tree keeps the promises of the journal.                              *)

LEMMA FiledIs ==
  ASSUME NEW e \in Episodes
  PROVE  Filed(e) = IF Complete(disk[MetricsOf(e)])
                    THEN [metrics |-> disk[MetricsOf(e)], trajectory |-> disk[TrajectoryOf(e)],
                          events |-> disk[EventsOf(e)]]
                    ELSE Absent
BY DEF Filed, Complete, MetricsOf, TrajectoryOf, EventsOf

LEMMA FiledKept ==
  ASSUME NEW e \in Episodes, disk'[MetricsOf(e)] = disk[MetricsOf(e)],
         Complete(disk[MetricsOf(e)]) =>
           disk'[TrajectoryOf(e)] = disk[TrajectoryOf(e)] /\ disk'[EventsOf(e)] = disk[EventsOf(e)]
  PROVE  Filed(e)' = Filed(e)
BY DEF Filed, Complete, MetricsOf, TrajectoryOf, EventsOf

LEMMA Quiet ==
  ASSUME \A e \in Episodes : Filed(e)' = Filed(e),
         \A e \in Episodes : buffer'[e].complete = buffer[e].complete,
         disk'[Metadata] = disk[Metadata],
         promised'.closed = "complete" <=> promised.closed = "complete",
         up' = up
  PROVE  UNCHANGED Journal!vars
<1>1. [e \in Episodes |-> Filed(e)]' = [e \in Episodes |-> Filed(e)]
  OBVIOUS
<1>2. {e \in Episodes : buffer[e].complete}' = {e \in Episodes : buffer[e].complete}
  OBVIOUS
<1>3. (disk[Metadata] # Absent /\ disk[Metadata].complete)'
        = (disk[Metadata] # Absent /\ disk[Metadata].complete)
  OBVIOUS
<1>4. (promised.closed = "complete")' = (promised.closed = "complete")
  OBVIOUS
<1>5. (~up)' = ~up
  OBVIOUS
<1> QED BY <1>1, <1>2, <1>3, <1>4, <1>5 DEF Journal!vars

LEMMA CallsAreQuiet ==
  ASSUME Inv,
         \/ Start \/ (\E e \in Episodes : BeginEpisode(e))
         \/ (\E e \in Episodes, text \in Texts : RecordEvent(e, text))
         \/ (\E e \in Episodes, m \in Metrics, t \in Trajectories : CompleteEpisode(e, m, t))
         \/ (\E complete \in BOOLEAN : Finish(complete))
  PROVE  UNCHANGED Journal!vars
<1>0. MemoryInv /\ PromiseInv /\ CallInv
  BY DEF Inv
<1>1. disk' = disk /\ up' = up
  BY DEF Start, BeginEpisode, RecordEvent, CompleteEpisode, Finish, Enters, storage
<1>2. \A e \in Episodes : Filed(e)' = Filed(e)
  BY <1>1, FiledKept
<1>3. \A e \in Episodes : buffer'[e].complete = buffer[e].complete
  <2>1. ASSUME NEW d \in Episodes, NEW text \in Texts, RecordEvent(d, text)
        PROVE  \A e \in Episodes : buffer'[e].complete = buffer[e].complete
    BY <1>0, <2>1, RecordedPromises
  <2> QED BY <2>1 DEF Start, BeginEpisode, CompleteEpisode, Finish
<1>4. promised'.closed = promised.closed
  <2>1. CASE Start
    BY <1>0, <2>1, StartedPromises
  <2>2. ASSUME NEW d \in Episodes, NEW m \in Metrics, NEW t \in Trajectories,
               CompleteEpisode(d, m, t)
        PROVE  promised'.closed = promised.closed
    BY <1>0, <2>2, CompletedPromises
  <2> QED BY <2>1, <2>2 DEF BeginEpisode, RecordEvent, Finish
<1> QED BY <1>1, <1>2, <1>3, <1>4, Quiet

LEMMA DirectoriesAreQuiet ==
  ASSUME Inv, MakeDirectory
  PROVE  UNCHANGED Journal!vars
<1>0. MemoryInv /\ CallInv /\ OpenInv /\ DiskInv
  BY DEF Inv
<1>1. todo # <<>> /\ Wrote(Head(todo)) /\ IsDirectory(Head(todo)) /\ up' = up
  BY DEF MakeDirectory
<1>2. \A p \in Paths : ~IsDirectory(p) => disk'[p] = disk[p]
  BY <1>0, <1>1, MadeDirectory
<1>3. \A e \in Episodes : Filed(e)' = Filed(e)
  BY <1>2, FiledKept, EpisodeNames, EpisodeParts
<1>4. ASSUME NEW e \in Episodes
      PROVE  buffer'[e].complete = buffer[e].complete
  <2>1. call.op = "complete" => Len(todo) # 2
    BY <1>0, <1>1, NextPath, CompletePlaces
  <2>2. buffer[e].complete \in BOOLEAN
    BY <1>0, BufferTypes
  <2> QED BY <1>0, <1>1, <2>1, <2>2, WroteBuffers
<1>5. promised'.closed = promised.closed
  <2>1. call.op # "finish"
    BY <1>0, <1>1, NextPath, FinishPlaces
  <2> QED BY <1>0, <1>1, <2>1, WrotePromises
<1> QED BY <1>1, <1>2, <1>3, <1>4, <1>5, Quiet, RootNames, RootParts

LEMMA FailuresAreQuiet ==
  ASSUME Inv, WriteFails
  PROVE  UNCHANGED Journal!vars
<1>0. MemoryInv /\ CallInv /\ OpenInv /\ PromiseInv
  BY DEF Inv
<1>1. disk' = disk /\ up' = up
  BY DEF WriteFails
<1>2. \A e \in Episodes : Filed(e)' = Filed(e)
  BY <1>1, FiledKept
<1>3. /\ \A e \in Episodes : buffer'[e].complete = buffer[e].complete
      /\ promised'.closed = IF call.op = "finish" /\ call.complete
                            THEN "failed" ELSE promised.closed
  BY <1>0, FailedPromises
<1>4. call.op = "finish" => promised.closed # "complete"
  BY <1>0 DEF OpenInv
<1> QED BY <1>1, <1>2, <1>3, <1>4, Quiet

(* A rename of the metrics of a complete episode files its result.          *)
LEMMA MetricsAreFiled ==
  ASSUME Inv, Replace, NEW e \in Episodes, Head(todo) = MetricsOf(e)
  PROVE  Journal!Next \/ UNCHANGED Journal!vars
<1>0. /\ MemoryInv /\ CallInv /\ OpenInv /\ DiskInv /\ PromiseInv /\ FixedInv /\ SealInv
      /\ ProgressInv /\ DurableInv
  BY DEF Inv
<1>1. /\ UNCHANGED <<up, promised, buffer>> /\ up /\ todo # <<>> /\ stage = "written"
      /\ \A p \in Paths : disk'[p] = IF p = Head(todo) THEN Document(p) ELSE disk[p]
  BY <1>0, Replaced DEF Replace, memory
<1>2. call.op \in {"begin", "complete"} /\ call.episode = e /\ Len(todo) = 2
  BY <1>0, <1>1, EpisodePlaces
<1>3. disk'[MetricsOf(e)] = call.metrics
  BY <1>0, <1>1, Documents, EpisodeNames
<1>4. ASSUME NEW p \in Paths, p # MetricsOf(e)
      PROVE  disk'[p] = disk[p]
  BY <1>1, <1>4
<1>5. Renames(MetricsOf(e))
  BY <1>1 DEF Renames
<1>6. ~Complete(disk[MetricsOf(e)])
  BY <1>0, <1>5, ShownComplete, ResultNotRenamed
<1>7. \A d \in Episodes : d # e => Filed(d)' = Filed(d)
  BY <1>4, FiledKept, EpisodeNames, EpisodeParts
<1>8. disk'[Metadata] = disk[Metadata]
  BY <1>4, RootNames, RootParts, EpisodeParts
<1>9. CASE call.op = "begin"
  <2>1. ~Complete(disk'[MetricsOf(e)])
    BY <1>0, <1>1, <1>3, <1>9, OpenMetricsType DEF ProgressInv, Complete
  <2>2. Filed(e)' = Filed(e)
    BY <1>6, <2>1 DEF Filed, MetricsOf, Complete
  <2>3. \A d \in Episodes : Filed(d)' = Filed(d)
    BY <1>7, <2>2
  <2> QED BY <1>1, <1>8, <2>3, Quiet
<1>10. CASE call.op = "complete"
  <2>1. /\ promised.results[e] # Absent /\ call.metrics.complete /\ ~buffer[e].complete
        /\ promised.results[e].trajectory = call.trajectory
    BY <1>0, <1>2, <1>10 DEF PromiseInv
  <2>2. /\ disk[TrajectoryOf(e)] = call.trajectory /\ disk[EventsOf(e)] = promised.events[e]
    BY <1>0, <1>1, <1>2, <1>10 DEF ProgressInv, Settled
  <2>3. /\ disk'[TrajectoryOf(e)] = call.trajectory /\ disk'[EventsOf(e)] = promised.events[e]
    BY <1>4, <2>2, EpisodeNames, EpisodeParts
  <2>4. /\ call.metrics \in MetricsDocuments /\ call.metrics # Absent
        /\ promised.events[e] \in Seq(EventRecords)
    BY <1>0, PromisedTypes, AbsentAssumption DEF CallInv
  <2>5. call.trajectory \in Trajectories
    <3>1. promised.results[e] \in EpisodeResults
      BY <1>0, <2>1, PromisedTypes
    <3> QED BY <2>1, <3>1 DEF EpisodeResults
  <2> DEFINE x == [metrics |-> call.metrics, trajectory |-> call.trajectory,
                   events |-> promised.events[e]]
  <2>6. x # Absent
    <3>1. x \in [metrics : MetricsDocuments, trajectory : Trajectories, events : Seq(EventRecords)]
      BY <2>4, <2>5
    <3> QED BY <3>1, AbsentAssumption
  <2>7. Filed(e) = Absent
    BY <1>6, FiledIs
  <2>8. Filed(e)' = x
    <3>1. /\ disk'[<<e, "metrics">>] = call.metrics /\ disk'[<<e, "trajectory">>] = call.trajectory
          /\ disk'[<<e, "events">>] = promised.events[e]
      BY <1>3, <2>3 DEF MetricsOf, TrajectoryOf, EventsOf
    <3> QED BY <2>1, <2>4, <3>1 DEF Filed
  <2> HIDE DEF x
  <2>9. ~(disk[Metadata] # Absent /\ disk[Metadata].complete)
    <3>1. ~Complete(disk[Metadata])
      BY <1>0, <2>1, ShownComplete DEF SealInv, Sealed
    <3> QED BY <3>1 DEF Complete
  <2> DEFINE filed == [d \in Episodes |-> Filed(d)]
  <2>10. filed' = [filed EXCEPT ![e] = x] /\ filed[e] = Absent /\ filed'[e] = x
    <3>1. filed' = [d \in Episodes |-> Filed(d)']
      OBVIOUS
    <3>2. \A d \in Episodes : Filed(d)' = IF d = e THEN x ELSE Filed(d)
      BY <1>7, <2>8
    <3> QED BY <2>7, <3>1, <3>2
  <2>11. /\ {d \in Episodes : buffer[d].complete}' = {d \in Episodes : buffer[d].complete}
         /\ (disk[Metadata] # Absent /\ disk[Metadata].complete)'
              = (disk[Metadata] # Absent /\ disk[Metadata].complete)
         /\ (promised.closed = "complete")' = (promised.closed = "complete")
         /\ (~up)' = ~up
    BY <1>1, <1>8
  <2>12. Journal!File(e)
    BY <1>1, <2>6, <2>9, <2>10, <2>11 DEF Journal!File
  <2> QED BY <2>12 DEF Journal!Next
<1> QED BY <1>2, <1>9, <1>10

(* A rename of the manifest puts on the seal, or takes it off.              *)
LEMMA ManifestSeals ==
  ASSUME Inv, Replace, Head(todo) = Metadata
  PROVE  Journal!Next
<1>0. /\ MemoryInv /\ CallInv /\ OpenInv /\ DiskInv /\ PromiseInv /\ FixedInv /\ SealInv
      /\ ProgressInv /\ DurableInv
  BY DEF Inv
<1>1. /\ UNCHANGED <<up, promised, buffer>> /\ up /\ todo # <<>>
      /\ \A p \in Paths : disk'[p] = IF p = Head(todo) THEN Document(p) ELSE disk[p]
  BY <1>0, Replaced DEF Replace, memory
<1>2. \A e \in Episodes : Filed(e)' = Filed(e)
  BY <1>1, FiledKept, EpisodeNames, EpisodeParts, RootParts
<1>3. disk'[Metadata] = [complete |-> call.complete] /\ call.complete \in BOOLEAN
  BY <1>0, <1>1, Documents, RootNames DEF MetadataDocument, CallInv
<1>4. disk'[Metadata] # Absent
  <2>1. disk'[Metadata] \in [complete : BOOLEAN]
    BY <1>3
  <2> QED BY <2>1, AbsentAssumption
<1>5. (disk[Metadata] # Absent /\ disk[Metadata].complete)' = call.complete
  BY <1>3, <1>4
<1>6. call.op \in {"start", "finish"} /\ call.op # "none"
  BY <1>0, <1>1, RootPlaces
<1>7. promised.closed # "complete"
  BY <1>0, <1>6 DEF OpenInv
<1>8. /\ [e \in Episodes |-> Filed(e)]' = [e \in Episodes |-> Filed(e)]
      /\ {d \in Episodes : buffer[d].complete}' = {d \in Episodes : buffer[d].complete}
      /\ (promised.closed = "complete")' = (promised.closed = "complete")
      /\ (~up)' = ~up
  BY <1>1, <1>2
<1>9. CASE call.complete
  <2>1. call.op = "finish"
    BY <1>0, <1>6, <1>9 DEF OpenInv
  <2>2. \A e \in Episodes : buffer[e].complete
    BY <1>0, <1>1, <1>9, <2>1 DEF ProgressInv
  <2>3. {d \in Episodes : buffer[d].complete} = Episodes
    BY <2>2
  <2>4. Journal!Seal
    BY <1>1, <1>5, <1>8, <1>9, <2>3 DEF Journal!Seal
  <2> QED BY <2>4 DEF Journal!Next
<1>10. CASE ~call.complete
  <2>1. (disk[Metadata] # Absent /\ disk[Metadata].complete)' = FALSE
    BY <1>3, <1>5, <1>10
  <2>2. Journal!Unseal
    BY <1>1, <1>7, <1>8, <2>1 DEF Journal!Unseal
  <2> QED BY <2>2 DEF Journal!Next
<1> QED BY <1>9, <1>10

LEMMA RenamesKeepJournal ==
  ASSUME Inv, Replace
  PROVE  Journal!Next \/ UNCHANGED Journal!vars
<1>0. /\ MemoryInv /\ CallInv /\ OpenInv /\ DiskInv /\ PromiseInv /\ FixedInv /\ ProgressInv
  BY DEF Inv
<1>1. /\ UNCHANGED <<up, promised, buffer>> /\ todo # <<>>
      /\ \A p \in Paths : disk'[p] = IF p = Head(todo) THEN Document(p) ELSE disk[p]
  BY <1>0, Replaced DEF Replace, memory
<1>2. CASE Head(todo) = Metadata
  BY <1>2, ManifestSeals
<1>3. CASE \E e \in Episodes : Head(todo) = MetricsOf(e)
  BY <1>3, MetricsAreFiled
<1>4. CASE Head(todo) # Metadata /\ \A e \in Episodes : Head(todo) # MetricsOf(e)
  <2>1. ASSUME NEW e \in Episodes
        PROVE  Filed(e)' = Filed(e)
    <3>1. disk'[MetricsOf(e)] = disk[MetricsOf(e)]
      BY <1>1, <1>4, EpisodeNames
    <3>2. ASSUME Complete(disk[MetricsOf(e)])
          PROVE  disk'[TrajectoryOf(e)] = disk[TrajectoryOf(e)] /\ disk'[EventsOf(e)] = disk[EventsOf(e)]
      <4>1. ~Renames(TrajectoryOf(e)) /\ ~Renames(EventsOf(e))
        BY <1>0, <3>2, ShownComplete, ResultNotRenamed
      <4>2. TrajectoryOf(e) # Head(todo) /\ EventsOf(e) # Head(todo)
        BY <1>1, <4>1 DEF Renames
      <4> QED BY <1>1, <4>2, EpisodeNames
    <3> QED BY <3>1, <3>2, FiledKept
  <2>2. disk'[Metadata] = disk[Metadata]
    BY <1>1, <1>4, RootNames
  <2> QED BY <1>1, <2>1, <2>2, Quiet
<1> QED BY <1>2, <1>3, <1>4

(* The sync of the metrics confirms a result, the last one of a complete    *)
(* finish() settles the seal.                                               *)
LEMMA SyncsKeepJournal ==
  ASSUME Inv, SyncDirectory
  PROVE  Journal!Next \/ UNCHANGED Journal!vars
<1>0. /\ MemoryInv /\ CallInv /\ OpenInv /\ DiskInv /\ PromiseInv /\ ProgressInv /\ DurableInv
  BY DEF Inv
<1>1. /\ todo # <<>> /\ Wrote(Head(todo)) /\ up /\ stage = "replaced" /\ disk' = disk /\ up' = up
  BY <1>0, SyncedNames DEF SyncDirectory
<1>2. \A e \in Episodes : Filed(e)' = Filed(e)
  BY <1>1, FiledKept
<1>3. disk[Head(todo)] = Document(Head(todo))
  BY <1>0, <1>1 DEF ProgressInv
<1>4. /\ [e \in Episodes |-> Filed(e)]' = [e \in Episodes |-> Filed(e)]
      /\ (disk[Metadata] # Absent /\ disk[Metadata].complete)'
           = (disk[Metadata] # Absent /\ disk[Metadata].complete)
      /\ (~up)' = ~up
  BY <1>1, <1>2
<1>5. \A e \in Episodes : /\ buffer[e].complete \in BOOLEAN
                          /\ buffer'[e].complete = (buffer[e].complete \/
                               (call.op = "complete" /\ Len(todo) = 2 /\ e = call.episode))
  BY <1>0, <1>1, BufferTypes, WroteBuffers
<1>6. promised'.closed = IF call.op = "finish" /\ Len(todo) = 1
                         THEN IF call.complete THEN "complete" ELSE "partial"
                         ELSE promised.closed
  BY <1>0, <1>1, WrotePromises
<1>7. promised.closed # "complete"
  BY <1>0, <1>1 DEF OpenInv, CallInv
<1>8. CASE call.op = "complete" /\ Len(todo) = 2
  <2>0. PICK e \in Episodes : e = call.episode
    BY <1>0, <1>8 DEF CallInv
  <2>1. e \in Episodes /\ Head(todo) = MetricsOf(e)
    BY <2>0, <1>0, <1>1, <1>8, NextPath DEF AtComplete
  <2>2. disk[MetricsOf(e)] = call.metrics
    BY <1>3, <2>1, Documents
  <2>3. call.metrics.complete /\ call.metrics # Absent
    BY <2>0, <1>0, <1>8, <2>1, AbsentAssumption DEF PromiseInv, CallInv
  <2>4. /\ disk[TrajectoryOf(e)] = call.trajectory /\ disk[EventsOf(e)] = promised.events[e]
    BY <2>0, <1>0, <1>1, <1>8 DEF ProgressInv, Settled
  <2>5. promised.results[e] # Absent /\ promised.results[e].trajectory = call.trajectory
    BY <2>0, <1>0, <1>8, <2>1 DEF PromiseInv
  <2>6. call.trajectory \in Trajectories /\ call.metrics \in MetricsDocuments
        /\ promised.events[e] \in Seq(EventRecords)
    <3>1. promised.results[e] \in EpisodeResults
      BY <1>0, <2>1, <2>5, PromisedTypes
    <3>2. promised.results[e].trajectory \in Trajectories
      BY <3>1 DEF EpisodeResults
    <3>3. promised.events[e] \in Seq(EventRecords) /\ call.metrics \in MetricsDocuments
      BY <1>0, <2>1, PromisedTypes DEF CallInv
    <3> QED BY <2>5, <3>2, <3>3
  <2> DEFINE x == [metrics |-> call.metrics, trajectory |-> call.trajectory,
                   events |-> promised.events[e]]
  <2>7. x # Absent
    <3>1. x \in [metrics : MetricsDocuments, trajectory : Trajectories, events : Seq(EventRecords)]
      BY <2>6
    <3> QED BY <3>1, AbsentAssumption
  <2>8. Filed(e) = x
    BY <2>1, <2>2, <2>3, <2>4, FiledIs DEF Complete
  <2>9. {d \in Episodes : buffer[d].complete}' = {d \in Episodes : buffer[d].complete} \cup {e}
    BY <1>5, <1>8, <2>0, <2>1
  <2>10. (promised.closed = "complete")' = (promised.closed = "complete")
    BY <1>6, <1>8
  <2>11. [d \in Episodes |-> Filed(d)][e] # Absent
    BY <2>1, <2>7, <2>8
  <2>12. Journal!Confirm(e)
    BY <1>1, <1>4, <2>9, <2>10, <2>11 DEF Journal!Confirm
  <2> QED BY <2>1, <2>12 DEF Journal!Next
<1>9. CASE call.op = "finish" /\ Len(todo) = 1 /\ call.complete
  <2>1. Head(todo) = Metadata
    BY <1>0, <1>1, <1>9, NextPath DEF AtFinish
  <2>2. disk[Metadata] = [complete |-> TRUE]
    BY <1>0, <1>3, <1>9, <2>1, Documents DEF MetadataDocument, CallInv
  <2>3. [complete |-> TRUE] # Absent
    <3>1. [complete |-> TRUE] \in [complete : BOOLEAN]
      OBVIOUS
    <3> QED BY <3>1, AbsentAssumption
  <2>4. disk[Metadata] # Absent /\ disk[Metadata].complete
    BY <2>2, <2>3
  <2>5. {d \in Episodes : buffer[d].complete}' = {d \in Episodes : buffer[d].complete}
    BY <1>5, <1>9
  <2>6. (promised.closed = "complete")' = TRUE
    BY <1>6, <1>9
  <2>7. Journal!Settle
    BY <1>1, <1>4, <2>4, <2>5, <2>6 DEF Journal!Settle
  <2> QED BY <2>7 DEF Journal!Next
<1>10. CASE ~(call.op = "complete" /\ Len(todo) = 2)
            /\ ~(call.op = "finish" /\ Len(todo) = 1 /\ call.complete)
  <2>1. \A e \in Episodes : buffer'[e].complete = buffer[e].complete
    BY <1>5, <1>10
  <2>2. promised'.closed # "complete"
    BY <1>6, <1>7, <1>10
  <2> QED BY <1>1, <1>2, <1>7, <2>1, <2>2, Quiet
<1> QED BY <1>8, <1>9, <1>10

LEMMA FallsKeepJournal ==
  ASSUME Inv, up, up' = FALSE, UNCHANGED <<buffer, promised>>,
         NEW kept \in SUBSET Episodes,
         \A e \in Episodes : buffer[e].complete => e \in kept,
         \A e \in Episodes : Filed(e)' = IF e \in kept THEN Filed(e) ELSE Absent,
         Complete(disk'[Metadata]) => Sealed,
         promised.closed = "complete" => Complete(disk'[Metadata]),
         disk'[Metadata] # Absent => disk'[Metadata].complete \in BOOLEAN
  PROVE  Journal!Next
<1>1. {d \in Episodes : buffer[d].complete} \subseteq kept
  OBVIOUS
<1>2. [d \in Episodes |-> Filed(d)]' =
        [d \in Episodes |-> IF d \in kept THEN [f \in Episodes |-> Filed(f)][d] ELSE Absent]
  OBVIOUS
<1>3. (disk[Metadata] # Absent /\ disk[Metadata].complete)'
        \in (IF promised.closed = "complete" THEN {TRUE} ELSE BOOLEAN)
  BY DEF Complete
<1>4. (disk[Metadata] # Absent /\ disk[Metadata].complete)' =>
        {d \in Episodes : buffer[d].complete} = Episodes
  BY DEF Complete, Sealed
<1>5. /\ {d \in Episodes : buffer[d].complete}' = {d \in Episodes : buffer[d].complete}
      /\ (promised.closed = "complete")' = (promised.closed = "complete")
      /\ (~up)' = TRUE
  OBVIOUS
<1>6. Journal!Fall
  BY <1>1, <1>2, <1>3, <1>4, <1>5 DEF Journal!Fall
<1> QED BY <1>6 DEF Journal!Next

LEMMA ManifestType ==
  ASSUME DiskInv
  PROVE  disk[Metadata] # Absent => disk[Metadata].complete \in BOOLEAN
<1>1. disk[Metadata] = Absent \/ IsDocument(Metadata, disk[Metadata])
  BY RootNames DEF DiskInv, Shows
<1> QED BY <1>1 DEF IsDocument

LEMMA CrashesKeepJournal ==
  ASSUME Inv, Crash
  PROVE  Journal!Next
<1>0. DiskInv /\ SealInv /\ DurableInv
  BY DEF Inv
<1>1. up /\ up' = FALSE /\ UNCHANGED <<buffer, promised, disk>>
  BY DEF Crash, memory, storage
<1>2. \A e \in Episodes : Filed(e)' = Filed(e)
  BY <1>1, FiledKept
<1>3. Complete(disk'[Metadata]) => Sealed
  BY <1>0, <1>1, ShownComplete DEF SealInv
<1>4. promised.closed = "complete" => Complete(disk'[Metadata])
  BY <1>0, <1>1 DEF DurableInv
<1>5. disk'[Metadata] # Absent => disk'[Metadata].complete \in BOOLEAN
  BY <1>0, <1>1, ManifestType
<1> QED BY <1>1, <1>2, <1>3, <1>4, <1>5, FallsKeepJournal

(* A power loss costs nothing that a result or the seal rests on.           *)
LEMMA PowerLossesKeepJournal ==
  ASSUME Inv, PowerLoss, EntriesSynced
  PROVE  Journal!Next
<1>0. DiskInv /\ SealInv /\ DurableInv /\ MemoryInv /\ OpenInv /\ PromiseInv /\ CallInv
  BY DEF Inv
<1>1. up /\ up' = FALSE /\ UNCHANGED <<buffer, promised>>
  BY DEF PowerLoss, memory
<1>2. "root" \in promised.opened =>
        Settled(Entry(Root), Directory) /\ Settled(EpisodesDirectory, Directory)
  BY <1>0, <1>1 DEF DurableInv, RootDurable, EntrySettled, Settled
<1>3. Directory # Absent
  BY AbsentAssumption
<1>4. \A p, q \in Paths : p[1] = q[1] /\ disk'[q] # Absent /\ older[p] = <<>> =>
        disk'[p] = disk[p]
  BY <1>0, LostPower
<1>5. \A p \in Paths :
        /\ p[1] \in Directories /\ Settled(Entry(Root), Directory) /\ Settled(Entry(p[1]), Directory)
        /\ p[1] = Root \/ Settled(EpisodesDirectory, Directory)
        /\ older[p] = <<>>
        => disk'[p] = disk[p]
  BY <1>0, <1>3, LostPower
<1>6. \A p \in Paths : disk'[p] \in Shows(p) \cup {Absent}
  BY <1>0, LostPower
<1> DEFINE kept == {e \in Episodes : Complete(disk'[MetricsOf(e)])}
<1>7. ASSUME NEW e \in Episodes, buffer[e].complete
      PROVE  e \in kept
  <2>1. Complete(disk[MetricsOf(e)]) /\ older[MetricsOf(e)] = <<>>
    BY <1>0, <1>1, <1>7 DEF DurableInv
  <2>2. Settled(Entry(e), Directory)
    BY <1>0, <1>1, <2>1 DEF DurableInv, ResultDurable, EntrySettled, Settled
  <2>3. "root" \in promised.opened
    <3>1. e \in Begun
      BY <1>0, <1>7 DEF PromiseInv
    <3>2. begun # <<>>
      BY <3>1 DEF Begun
    <3> QED BY <1>0, <3>2 DEF OpenInv
  <2>4. MetricsOf(e) \in Paths /\ MetricsOf(e)[1] = e /\ e \in Directories
    BY EpisodeNames, EpisodeParts
  <2>5. disk'[MetricsOf(e)] = disk[MetricsOf(e)]
    BY <1>2, <1>5, <2>1, <2>2, <2>3, <2>4
  <2> QED BY <2>1, <2>5
<1>8. ASSUME NEW e \in Episodes
      PROVE  Filed(e)' = IF e \in kept THEN Filed(e) ELSE Absent
  <2>0. /\ MetricsOf(e) \in Paths /\ TrajectoryOf(e) \in Paths /\ EventsOf(e) \in Paths
        /\ MetricsOf(e)[1] = e /\ TrajectoryOf(e)[1] = e /\ EventsOf(e)[1] = e
    BY EpisodeNames, EpisodeParts
  <2>1. CASE e \in kept
    <3>1. Complete(disk'[MetricsOf(e)]) /\ disk'[MetricsOf(e)] # Absent
      BY <2>1 DEF Complete
    <3>2. disk'[MetricsOf(e)] \in Shows(MetricsOf(e))
      BY <1>6, <2>0, <3>1
    <3>3. \A k \in DOMAIN older[MetricsOf(e)] : ~Complete(older[MetricsOf(e)][k])
      BY <1>0, <1>1 DEF DurableInv
    <3>4. disk'[MetricsOf(e)] = disk[MetricsOf(e)]
      BY <3>1, <3>2, <3>3 DEF Shows
    <3>5. older[TrajectoryOf(e)] = <<>> /\ older[EventsOf(e)] = <<>>
      BY <1>0, <1>1, <3>1, <3>4 DEF DurableInv, ResultDurable, Settled
    <3>6. disk'[TrajectoryOf(e)] = disk[TrajectoryOf(e)]
      BY <1>4, <2>0, <3>1, <3>5
    <3>7. disk'[EventsOf(e)] = disk[EventsOf(e)]
      BY <1>4, <2>0, <3>1, <3>5
    <3> QED BY <2>1, <3>4, <3>6, <3>7, FiledKept
  <2>2. CASE e \notin kept
    <3>1. ~Complete(disk'[MetricsOf(e)])
      BY <2>2
    <3> QED BY <2>2, <3>1 DEF Filed, Complete, MetricsOf
  <2> QED BY <2>1, <2>2
<1>9. Complete(disk'[Metadata]) => Sealed
  <2> SUFFICES ASSUME Complete(disk'[Metadata]) PROVE Sealed
    OBVIOUS
  <2>1. disk'[Metadata] \in Shows(Metadata)
    BY <1>6, RootNames DEF Complete
  <2> QED BY <1>0, <2>1 DEF SealInv, ShowsComplete
<1>10. ASSUME promised.closed = "complete"
       PROVE  Complete(disk'[Metadata])
  <2>1. "root" \in promised.opened
    BY <1>0, <1>10 DEF OpenInv
  <2>2. Complete(disk[Metadata]) /\ older[Metadata] = <<>>
    BY <1>0, <1>1, <1>10 DEF DurableInv
  <2>3. Metadata[1] = Root /\ Metadata \in Paths /\ Root \in Directories
    BY RootNames, RootParts
  <2>4. disk'[Metadata] = disk[Metadata]
    BY <1>2, <1>5, <2>1, <2>2, <2>3
  <2> QED BY <2>2, <2>4
<1>11. disk'[Metadata] # Absent => disk'[Metadata].complete \in BOOLEAN
  <2> SUFFICES ASSUME disk'[Metadata] # Absent PROVE disk'[Metadata].complete \in BOOLEAN
    OBVIOUS
  <2>1. IsDocument(Metadata, disk'[Metadata])
    BY <1>0, <1>6, RootNames DEF DiskInv
  <2> QED BY <2>1 DEF IsDocument
<1>12. kept \in SUBSET Episodes
  OBVIOUS
<1> HIDE DEF kept
<1> QED BY <1>1, <1>7, <1>8, <1>9, <1>10, <1>11, <1>12, FallsKeepJournal

LEMMA JournalStarts == Init => Journal!Init
<1> SUFFICES ASSUME Init PROVE Journal!Init
  OBVIOUS
<1>1. /\ buffer = [e \in Episodes |-> EmptyBuffer] /\ disk = [p \in Paths |-> Absent]
      /\ up = TRUE /\ promised.closed = "no"
  BY DEF Init, RecorderInit
<1>2. \A p \in Paths : disk[p] = Absent
  BY <1>1
<1>3. \A e \in Episodes : Filed(e) = Absent
  BY <1>2, EpisodeNames DEF Filed, MetricsOf
<1>4. [e \in Episodes |-> Filed(e)] = [e \in Episodes |-> Absent]
  BY <1>3
<1>5. {e \in Episodes : buffer[e].complete} = {}
  BY <1>1 DEF EmptyBuffer
<1>6. (disk[Metadata] # Absent /\ disk[Metadata].complete) = FALSE
  BY <1>2, RootNames
<1>7. (promised.closed = "complete") = FALSE /\ (~up) = FALSE
  BY <1>1
<1> QED BY <1>4, <1>5, <1>6, <1>7 DEF Journal!Init

LEMMA JournalSteps ==
  ASSUME Inv, [Next]_vars, EntriesSynced
  PROVE  Journal!Next \/ UNCHANGED Journal!vars
<1>0. CallInv
  BY DEF Inv
<1>1. CASE \/ Start \/ (\E e \in Episodes : BeginEpisode(e))
           \/ (\E e \in Episodes, text \in Texts : RecordEvent(e, text))
           \/ (\E e \in Episodes, m \in Metrics, t \in Trajectories : CompleteEpisode(e, m, t))
           \/ (\E complete \in BOOLEAN : Finish(complete))
  BY <1>1, CallsAreQuiet
<1>2. CASE WriteTemporary
  <2>1. UNCHANGED <<disk, up, buffer, promised>>
    BY <1>2 DEF WriteTemporary, memory
  <2>2. \A e \in Episodes : Filed(e)' = Filed(e)
    BY <2>1, FiledKept
  <2> QED BY <2>1, <2>2, Quiet
<1>3. CASE UNCHANGED recorderVars
  <2>1. UNCHANGED <<disk, up, buffer, promised>>
    BY <1>3 DEF recorderVars, memory, storage
  <2>2. \A e \in Episodes : Filed(e)' = Filed(e)
    BY <2>1, FiledKept
  <2> QED BY <2>1, <2>2, Quiet
<1>4. CASE MakeDirectory \/ SyncDirectory \/ WriteFails
  BY <1>4, DirectoriesAreQuiet, SyncsKeepJournal, FailuresAreQuiet
<1>5. CASE Replace \/ Crash \/ PowerLoss
  BY <1>5, RenamesKeepJournal, CrashesKeepJournal, PowerLossesKeepJournal
<1> QED BY <1>0, <1>1, <1>2, <1>3, <1>4, <1>5, Steps DEF FilesOnly

(* Where a file system makes the entries of directories durable with the    *)
(* directory, the tree is a journal: the result of an episode appears at    *)
(* one instant and stays as it is; no crash and no power loss takes back a  *)
(* result that complete_episode() has confirmed or a manifest that          *)
(* finish(complete=True) has settled, and no manifest says complete before  *)
(* every episode is.                                                        *)
THEOREM ImplementsJournal ==
  ASSUME EntriesSynced
  PROVE  Spec => KeepsJournal
<1>1. Init => Journal!Init
  BY JournalStarts
<1>2. Inv /\ [Next]_vars => [Journal!Next]_(Journal!vars)
  BY JournalSteps
<1> QED BY <1>1, <1>2, ResultsInvariant, PTL DEF Spec, KeepsJournal, Journal!Spec

=============================================================================
