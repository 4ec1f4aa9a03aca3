-------------------------- MODULE Readable_proofs --------------------------
(***************************************************************************)
(* InterruptedReadable for any configuration, metrics, trajectories and    *)
(* bounds: on a file system that syncs a directory together with its own   *)
(* entry, and for event details without a line boundary, a run interrupted *)
(* outside of start() and begin_episode() leaves a tree that the reader    *)
(* accepts.                                                                *)
(***************************************************************************)
EXTENDS Results_proofs, FiniteSetTheorems

-----------------------------------------------------------------------------
(* What is read of a document, and what the calls promise of it.            *)

IsReadable(p, d) ==
  /\ p = Config => d = Configured
  /\ p = Summary => d \in SummaryDocuments
  /\ p[2] = "events" => d \in Seq(EventRecords) /\ ReadableEvents(d)
  /\ p[2] = "trajectory" => d \in Seq(TrajectoryPoints) /\ ReadableTrajectory(d)
  /\ p[2] = "metrics" => ReadableMetrics(d)

DocumentsReadable == \A p \in Paths : \A d \in Shows(p) : d = Absent \/ IsReadable(p, d)

InputsReadable ==
  /\ \A e \in Episodes : ReadableEvents(buffer[e].events)
  /\ ReadableMetrics(call.metrics)
  /\ ReadableTrajectory(call.trajectory)

ResultsAgree == \A e \in Episodes :
  /\ promised.results[e] # Absent =>
       Len(promised.results[e].trajectory) = promised.results[e].metrics.samples
  /\ buffer[e].complete => buffer[e].reason = promised.results[e].metrics.reason

(* Nothing is missing, now or after a power loss, in a directory whose call *)
(* has returned; on the way there the call leaves nothing out.              *)
NoneMissing(d) == \A p \in Paths : p[1] = d => Absent \notin Shows(p)

PresentInv ==
  /\ promised.opened \cap Episodes \subseteq Begun
  /\ \A d \in promised.opened : NoneMissing(d)

Lists(s) ==
  /\ Len(s.episodes) = Len(begun)
  /\ \A i \in 1..Len(begun) : s.episodes[i].episode = begun[i]

PresentProgress == up =>
  /\ call.op = "start" =>
       /\ Len(todo) <= 2 => disk[Config] # Absent
       /\ Len(todo) <= 1 => disk[Summary] # Absent /\ Lists(disk[Summary])
  /\ call.op = "begin" =>
       LET e == call.episode
       IN  /\ Len(todo) <= 4 => disk[EpisodeOf(e)] # Absent
           /\ Len(todo) <= 3 => disk[EventsOf(e)] # Absent
           /\ Len(todo) <= 2 => disk[TrajectoryOf(e)] # Absent
           /\ Len(todo) <= 1 => NoneMissing(e)

(* The summary lists the episodes that have been begun, and only those have *)
(* a directory.                                                             *)
Opened == {"root"} \cup Begun \subseteq promised.opened

ListedInv == Opened => \A s \in Shows(Summary) : Lists(s)

DirectoriesInv == \A e \in Episodes : e \in Begun \/ Shows(Entry(e)) \subseteq {Absent}

(* A result that has been confirmed stays, and beside a complete manifest   *)
(* that no finish() has failed on, the summary is the one of all of them.   *)
ConfirmedInv == \A e \in Episodes :
  buffer[e].complete => \A d \in Shows(MetricsOf(e)) : d = Absent \/ Complete(d)

SummaryFirst == up /\ call.op = "finish" /\ Len(todo) = 1 =>
  Settled(Summary, SummaryDocument(call.complete))

Marked == ShowsComplete(Metadata) /\ promised.closed # "failed"

MarkedLast == up /\ Marked =>
  \/ finished
  \/ call.op = "finish" /\ call.complete /\ Len(todo) = 1 /\ stage = "replaced"

MarkedInv == Marked => \A s \in Shows(Summary) : s = SummaryDocument(TRUE)

ReadableInv ==
  /\ DocumentsReadable /\ InputsReadable /\ ResultsAgree /\ PresentInv /\ PresentProgress
  /\ ListedInv /\ DirectoriesInv /\ ConfirmedInv /\ SummaryFirst /\ MarkedLast /\ MarkedInv

-----------------------------------------------------------------------------
(* Documents.                                                               *)

LEMMA EpisodesFinite == IsFiniteSet(Episodes)
<1>1. Configured \in Seq(STRING)
  BY ConfiguredAssumption
<1>2. /\ Configured \in [1..Len(Configured) -> Episodes] /\ Len(Configured) \in Int
      /\ \A e \in Episodes : \E i \in 1..Len(Configured) : Configured[i] = e
  BY <1>1 DEF Episodes
<1>3. Configured \in Surjection(1..Len(Configured), Episodes)
  BY <1>2 DEF Surjection
<1> QED BY <1>2, <1>3, FS_Interval, FS_Surjection

LEMMA SummaryIsDocument ==
  ASSUME MemoryInv, NEW complete \in BOOLEAN
  PROVE  SummaryDocument(complete) \in SummaryDocuments /\ Lists(SummaryDocument(complete))
<1> DEFINE Counted(r) == {e \in Episodes : buffer[e].complete /\ buffer[e].reason = r}
           counts == [r \in Reasons |-> Cardinality(Counted(r))]
           entries == [i \in DOMAIN begun |->
                         [episode  |-> begun[i], complete |-> buffer[begun[i]].complete,
                          reason   |-> buffer[begun[i]].reason]]
<1>1. SummaryDocument(complete) =
        [complete |-> complete, counts |-> counts, episodes |-> entries]
  BY DEF SummaryDocument
<1>2. counts \in [Reasons -> Nat]
  <2> SUFFICES ASSUME NEW r \in Reasons PROVE Cardinality(Counted(r)) \in Nat
    OBVIOUS
  <2>1. Counted(r) \in SUBSET Episodes
    OBVIOUS
  <2>2. IsFiniteSet(Counted(r))
    BY <2>1, EpisodesFinite, FS_Subset
  <2> HIDE DEF Counted
  <2> QED BY <2>2, FS_CardinalityType
<1>3. DOMAIN begun = 1..Len(begun) /\ Len(begun) \in Nat
  BY DEF MemoryInv
<1>4. ASSUME NEW i \in 1..Len(begun)
      PROVE  [episode  |-> begun[i], complete |-> buffer[begun[i]].complete,
              reason   |-> buffer[begun[i]].reason] \in SummaryEntries
  <2>1. begun[i] \in Episodes
    BY DEF MemoryInv
  <2>2. buffer[begun[i]] \in BufferType
    BY <2>1, BufferTypes
  <2> QED BY <2>1, <2>2 DEF SummaryEntries, BufferType
<1>5. entries \in Seq(SummaryEntries) /\ Len(entries) = Len(begun)
  BY <1>3, <1>4
<1>6. \A i \in 1..Len(begun) : entries[i].episode = begun[i]
  BY <1>3
<1> HIDE DEF counts, entries
<1> QED BY <1>1, <1>2, <1>5, <1>6 DEF SummaryDocuments, Lists

LEMMA CallTypesHold ==
  ASSUME CallInv
  PROVE  /\ call.complete \in BOOLEAN /\ call.metrics \in MetricsDocuments
         /\ call.trajectory \in Seq(TrajectoryPoints)
<1>1. call.complete \in BOOLEAN /\ call.metrics \in MetricsDocuments
      /\ call.trajectory \in Trajectories \cup {<<>>}
  BY DEF CallInv
<1>2. Trajectories \subseteq Seq(TrajectoryPoints) /\ <<>> \in Seq(TrajectoryPoints)
  BY RecorderAssumption
<1> QED BY <1>1, <1>2

LEMMA PathDirectory ==
  ASSUME NEW p \in Paths
  PROVE  p[1] \in Directories
BY DEF Paths, Directories, Entry

LEMMA PathsOfRoot ==
  ASSUME NEW p \in Paths, p[1] = Root
  PROVE  p \in {Entry(Root), EpisodesDirectory, Config, Metadata, Summary}
BY RootNames DEF Paths, Directories, Entry, RootFiles, Config, Metadata, Summary, EpisodesDirectory

LEMMA PathsOfEpisode ==
  ASSUME NEW p \in Paths, NEW e \in Episodes, p[1] = e
  PROVE  p \in {Entry(e), EpisodeOf(e), EventsOf(e), TrajectoryOf(e), MetricsOf(e)}
BY RootNames
   DEF Paths, Directories, Entry, EpisodeFiles, EpisodeOf, EventsOf, TrajectoryOf, MetricsOf

(* A document is never nothing, and the reader can read each of them.       *)
LEMMA DocumentsAreReadable ==
  ASSUME MemoryInv, CallInv, InputsReadable, NEW p \in Paths, ~IsDirectory(p)
  PROVE  Document(p) # Absent /\ IsReadable(p, Document(p))
<1> DEFINE d == Document(p)
<1>1. CASE p = Config
  <2>1. d = Configured
    BY <1>1, Documents
  <2> QED BY <1>1, <2>1, RootParts, AbsentAssumption DEF IsReadable
<1>2. CASE p = Metadata
  <2>1. d \in [complete : BOOLEAN]
    BY <1>2, Documents, CallTypesHold DEF MetadataDocument
  <2> QED BY <1>2, <2>1, RootParts, AbsentAssumption DEF IsReadable
<1>3. CASE p = Summary
  <2>1. d \in SummaryDocuments
    BY <1>3, Documents, CallTypesHold, SummaryIsDocument
  <2> QED BY <1>3, <2>1, RootParts, AbsentAssumption DEF IsReadable
<1>4. ASSUME NEW e \in Episodes, p[1] = e
      PROVE  d # Absent /\ IsReadable(p, d)
  <2>1. p \in {EpisodeOf(e), EventsOf(e), TrajectoryOf(e), MetricsOf(e)}
    BY <1>4, PathsOfEpisode, EpisodeParts
  <2>2. p # Config /\ p # Summary
    BY <1>4, EpisodeParts, RootParts
  <2>3. CASE p = EpisodeOf(e)
    <3>1. d = e
      BY <2>3, Documents
    <3>2. p[2] = "episode"
      BY <2>3, EpisodeParts
    <3> QED BY <2>2, <3>1, <3>2, AbsentAssumption DEF IsReadable
  <2>4. CASE p = EventsOf(e)
    <3>1. d = buffer[e].events
      BY <2>4, Documents DEF EventsDocument
    <3>2. d \in Seq(EventRecords) /\ ReadableEvents(d)
      BY <3>1, BufferTypes DEF InputsReadable
    <3>3. p[2] = "events"
      BY <2>4, EpisodeParts
    <3> QED BY <2>2, <3>2, <3>3, AbsentAssumption DEF IsReadable
  <2>5. CASE p = TrajectoryOf(e)
    <3>1. d = call.trajectory
      BY <2>5, Documents
    <3>2. d \in Seq(TrajectoryPoints) /\ ReadableTrajectory(d)
      BY <3>1, CallTypesHold DEF InputsReadable
    <3>3. p[2] = "trajectory"
      BY <2>5, EpisodeParts
    <3> QED BY <2>2, <3>2, <3>3, AbsentAssumption DEF IsReadable
  <2>6. CASE p = MetricsOf(e)
    <3>1. d = call.metrics
      BY <2>6, Documents
    <3>2. d \in MetricsDocuments /\ ReadableMetrics(d)
      BY <3>1, CallTypesHold DEF InputsReadable
    <3>3. p[2] = "metrics"
      BY <2>6, EpisodeParts
    <3> QED BY <2>2, <3>2, <3>3, AbsentAssumption DEF IsReadable
  <2> QED BY <2>1, <2>3, <2>4, <2>5, <2>6
<1>5. p[1] = Root => p \in {Config, Metadata, Summary}
  BY PathsOfRoot, RootParts
<1> QED BY <1>1, <1>2, <1>3, <1>4, <1>5, PathDirectory DEF Directories

LEMMA WritesReadable ==
  ASSUME MemoryInv, CallInv, InputsReadable, NEW p \in Paths, NEW d, Writing(p, d)
  PROVE  d # Absent /\ IsReadable(p, d)
<1>1. CASE IsDirectory(p)
  <2>1. d = Directory
    BY <1>1 DEF Writing
  <2>2. /\ p # Config /\ p # Summary /\ p[2] # "events" /\ p[2] # "trajectory"
        /\ p[2] # "metrics"
    BY <1>1, RootParts DEF IsDirectory
  <2> QED BY <2>1, <2>2, AbsentAssumption DEF IsReadable
<1>2. CASE ~IsDirectory(p)
  BY <1>2, DocumentsAreReadable DEF Writing
<1> QED BY <1>1, <1>2

(* A name that no step renames shows nothing new.                           *)
LEMMA ShowsKept ==
  ASSUME DiskInv, CallInv, [Next]_vars, NEW p \in Paths, ~Renames(p)
  PROVE  Shows(p)' \subseteq Shows(p) \cup {Absent}
<1>1. CASE MakeDirectory
  <2>1. disk'[p] = disk[p] /\ older'[p] = older[p]
    BY <1>1, MadeDirectory DEF Renames
  <2> QED BY <2>1 DEF Shows
<1>2. CASE Replace
  <2>1. disk'[p] = disk[p] /\ older'[p] = older[p]
    BY <1>2, Replaced DEF Renames
  <2> QED BY <2>1 DEF Shows
<1>3. CASE SyncDirectory
  <2>1. disk'[p] = disk[p] /\ older'[p] \in {older[p], <<>>}
    BY <1>3, SyncedNames
  <2> QED BY <2>1 DEF Shows
<1>4. CASE PowerLoss
  <2>1. disk'[p] \in Shows(p) \cup {Absent} /\ older'[p] = <<>>
    BY <1>4, LostPower
  <2> QED BY <2>1 DEF Shows
<1>5. CASE UNCHANGED <<disk, older>>
  BY <1>5 DEF Shows
<1> QED BY <1>1, <1>2, <1>3, <1>4, <1>5
        DEF Next, RecorderNext, Calls, Writes, vars, recorderVars, storage, Start, BeginEpisode,
            RecordEvent, CompleteEpisode, Finish, Enters, WriteTemporary, WriteFails, Crash

LEMMA RenamesWrite ==
  ASSUME DiskInv, CallInv, NEW p \in Paths, Renames(p)
  PROVE  Writing(p, disk'[p]) /\ up'
<1>1. up'
  BY DEF Renames, MakeDirectory, Replace
<1> QED BY <1>1, NameRenamed DEF Writing

LEMMA DocumentsReadableNext ==
  ASSUME MemoryInv, DiskInv, CallInv, DocumentsReadable, InputsReadable, [Next]_vars
  PROVE  DocumentsReadable'
<1> SUFFICES ASSUME NEW p \in Paths, NEW d \in Shows(p)'
             PROVE  d = Absent \/ IsReadable(p, d)
  BY DEF DocumentsReadable, IsReadable
<1>1. d \in Shows(p) \/ d = Absent \/ Writing(p, d)
  BY WhatIsNew
<1> QED BY <1>1, WritesReadable DEF DocumentsReadable

-----------------------------------------------------------------------------
(* What the callers hand over.                                              *)

LEMMA AppendReadable ==
  ASSUME NEW s \in Seq(EventRecords), ReadableEvents(s), NEW text \in Texts,
         Texts \cap LineBreaking = {}
  PROVE  ReadableEvents(Append(s, [sequence |-> Len(s), text |-> text]))
<1> DEFINE x == [sequence |-> Len(s), text |-> text]
           t == Append(s, x)
<1>1. Len(s) \in Nat /\ x \in EventRecords /\ text \notin LineBreaking
  BY DEF EventRecords
<1>2. x.sequence = Len(s) /\ x.text = text
  OBVIOUS
<1> HIDE DEF x
<1>3. DOMAIN t = 1..(Len(s) + 1) /\ \A i \in 1..(Len(s) + 1) :
        t[i] = IF i = Len(s) + 1 THEN x ELSE s[i]
  BY <1>1
<1> HIDE DEF t
<1>4. ASSUME NEW i \in 1..(Len(s) + 1)
      PROVE  t[i].sequence = i - 1 /\ t[i].text \notin LineBreaking
  <2>1. CASE i = Len(s) + 1
    BY <1>1, <1>2, <1>3, <2>1
  <2>2. CASE i # Len(s) + 1
    <3>1. i \in DOMAIN s /\ t[i] = s[i]
      BY <1>1, <1>3, <2>2
    <3> QED BY <3>1 DEF ReadableEvents
  <2> QED BY <2>1, <2>2
<1>5. ReadableEvents(t)
  BY <1>3, <1>4 DEF ReadableEvents
<1> QED BY <1>5 DEF t, x

LEMMA ShorterReadable ==
  ASSUME NEW s \in Seq(EventRecords), ReadableEvents(s)
  PROVE  ReadableEvents(SubSeq(s, 1, Len(s) - 1))
<1> DEFINE t == SubSeq(s, 1, Len(s) - 1)
<1>1. Len(s) \in Nat /\ DOMAIN s = 1..Len(s)
  OBVIOUS
<1>2. \A i \in DOMAIN t : i \in DOMAIN s /\ t[i] = s[i]
  BY <1>1, SubSeqProperties
<1> HIDE DEF t
<1>3. ReadableEvents(t)
  BY <1>2 DEF ReadableEvents
<1> QED BY <1>3 DEF t

LEMMA EventsReadable ==
  ASSUME MemoryInv, CallInv, OpenInv, PromiseInv, InputsReadable, [Next]_vars,
         Texts \cap LineBreaking = {}, NEW e \in Episodes
  PROVE  ReadableEvents(buffer'[e].events)
<1>0. /\ ReadableEvents(buffer[e].events) /\ buffer[e].events \in Seq(EventRecords)
      /\ buffer \in [Episodes -> BufferType]
  BY BufferTypes DEF InputsReadable
<1>1. CASE buffer' = buffer
  BY <1>0, <1>1
<1>2. ASSUME NEW d \in Episodes, NEW text \in Texts, RecordEvent(d, text)
      PROVE  ReadableEvents(buffer'[e].events)
  <2> DEFINE s == Append(buffer[d].events, [sequence |-> Len(buffer[d].events), text |-> text])
  <2>1. buffer' = [buffer EXCEPT ![d].events = s]
    BY <1>2 DEF RecordEvent
  <2>2. CASE e = d
    <3>1. ReadableEvents(s)
      BY <1>0, <2>2, AppendReadable
    <3> HIDE DEF s
    <3>2. buffer'[e] = [buffer[e] EXCEPT !.events = s] /\ buffer[e] \in BufferType
      BY <1>0, <2>1, <2>2
    <3>3. buffer'[e].events = s
      BY <3>2 DEF BufferType
    <3> QED BY <3>1, <3>3
  <2>3. CASE e # d
    <3> HIDE DEF s
    <3>1. buffer'[e] = buffer[e]
      BY <1>0, <2>1, <2>3
    <3> QED BY <1>0, <3>1
  <2> QED BY <2>2, <2>3
<1>3. CASE todo # <<>> /\ Wrote(Head(todo))
  BY <1>0, <1>3, WroteBuffers
<1>4. CASE WriteFails
  <2>1. buffer'[e].events = promised.events[e]
    BY <1>4, FailedPromises
  <2>2. promised.events[e] \in {buffer[e].events,
                                SubSeq(buffer[e].events, 1, Len(buffer[e].events) - 1)}
    BY DEF PromiseInv
  <2> QED BY <1>0, <2>1, <2>2, ShorterReadable
<1> QED BY <1>1, <1>2, <1>3, <1>4, Steps, FilePromises
        DEF Start, BeginEpisode, CompleteEpisode, Finish

LEMMA OpenMetricsReadable ==
  ReadableMetrics(NoCall.metrics) /\ ReadableTrajectory(NoCall.trajectory)
BY DEF NoCall, OpenMetrics, ReadableMetrics, ReadableTrajectory

LEMMA ValidInputsReadable ==
  ASSUME NEW m \in Metrics, NEW t \in Trajectories, ValidTrajectory(t, m.samples)
  PROVE  ReadableMetrics(CompleteMetrics(m)) /\ ReadableTrajectory(t)
<1>1. m \in EpisodeMetrics /\ t \in Seq(TrajectoryPoints)
  BY RecorderAssumption
<1>2. ReadableMetrics(CompleteMetrics(m))
  BY <1>1 DEF EpisodeMetrics, ValidMetrics, CompleteMetrics, ReadableMetrics
<1>3. \A i \in DOMAIN t : t[i] \in TrajectoryPoints
  BY <1>1
<1>4. \A i \in DOMAIN t : t[i].time >= 0
  BY <1>3 DEF TrajectoryPoints
<1> QED BY <1>2, <1>4 DEF ValidTrajectory, ReadableTrajectory

LEMMA CallReadable ==
  ASSUME CallInv, InputsReadable, [Next]_vars
  PROVE  ReadableMetrics(call'.metrics) /\ ReadableTrajectory(call'.trajectory)
<1>0. ReadableMetrics(call.metrics) /\ ReadableTrajectory(call.trajectory)
  BY DEF InputsReadable
<1>1. ASSUME NEW d \in Episodes, NEW m \in Metrics, NEW t \in Trajectories,
             CompleteEpisode(d, m, t)
      PROVE  ReadableMetrics(call'.metrics) /\ ReadableTrajectory(call'.trajectory)
  <2>1. call'.metrics = CompleteMetrics(m) /\ call'.trajectory = t
        /\ ValidTrajectory(t, m.samples)
    BY <1>1 DEF CompleteEpisode, Enters, NoCall
  <2> QED BY <2>1, ValidInputsReadable
<1>2. CASE call'.metrics = NoCall.metrics /\ call'.trajectory = NoCall.trajectory
  BY <1>2, OpenMetricsReadable
<1>3. CASE call' = call
  BY <1>0, <1>3
<1>4. CASE todo # <<>> /\ Wrote(Head(todo))
  <2>1. call' = NoCall \/ call' = call
    BY <1>4 DEF Wrote
  <2> QED BY <1>2, <1>3, <2>1
<1>5. CASE WriteFails
  BY <1>2, <1>5 DEF WriteFails
<1>6. CASE \/ Start \/ (\E e \in Episodes : BeginEpisode(e))
           \/ (\E e \in Episodes, text \in Texts : RecordEvent(e, text))
           \/ (\E complete \in BOOLEAN : Finish(complete))
  BY <1>2, <1>6 DEF Start, BeginEpisode, RecordEvent, Finish, Enters, NoCall
<1> QED BY <1>1, <1>3, <1>4, <1>5, <1>6, Steps, FilePromises

LEMMA InputsReadableNext ==
  ASSUME MemoryInv, CallInv, OpenInv, PromiseInv, InputsReadable, [Next]_vars,
         Texts \cap LineBreaking = {}
  PROVE  InputsReadable'
<1>1. \A e \in Episodes : ReadableEvents(buffer'[e].events)
  BY EventsReadable
<1>2. ReadableMetrics(call'.metrics) /\ ReadableTrajectory(call'.trajectory)
  BY CallReadable
<1> QED BY <1>1, <1>2 DEF InputsReadable, ReadableEvents, ReadableMetrics, ReadableTrajectory

LEMMA ResultsAgreeNext ==
  ASSUME MemoryInv, CallInv, OpenInv, PromiseInv, ResultsAgree, [Next]_vars
  PROVE  ResultsAgree'
<1> SUFFICES ASSUME NEW e \in Episodes
             PROVE  /\ promised'.results[e] # Absent =>
                         Len(promised'.results[e].trajectory) = promised'.results[e].metrics.samples
                    /\ buffer'[e].complete => buffer'[e].reason = promised'.results[e].metrics.reason
  BY DEF ResultsAgree
<1>0. /\ promised.results[e] # Absent =>
           Len(promised.results[e].trajectory) = promised.results[e].metrics.samples
      /\ buffer[e].complete => buffer[e].reason = promised.results[e].metrics.reason
      /\ buffer[e].complete => promised.results[e] # Absent
  BY DEF ResultsAgree, PromiseInv
<1>1. ASSUME NEW d \in Episodes, NEW m \in Metrics, NEW t \in Trajectories,
             CompleteEpisode(d, m, t), e = d
      PROVE  /\ Len(promised'.results[e].trajectory) = promised'.results[e].metrics.samples
             /\ ~buffer'[e].complete
  <2>1. buffer' = buffer /\ Open(d)
        /\ promised'.results[d] = [metrics |-> CompleteMetrics(m), trajectory |-> t]
    BY <1>1, CompletedPromises
  <2>2. Len(t) = m.samples
    BY <1>1 DEF CompleteEpisode, ValidTrajectory
  <2> QED BY <1>1, <2>1, <2>2 DEF Open, CompleteMetrics
<1>2. CASE /\ promised'.results[e] = promised.results[e]
           /\ buffer'[e].complete = buffer[e].complete /\ buffer'[e].reason = buffer[e].reason
  BY <1>0, <1>2
<1>3. CASE todo # <<>> /\ Wrote(Head(todo))
  <2>1. promised'.results[e] = promised.results[e]
    BY <1>3, WrotePromises
  <2>2. CASE call.op = "complete" /\ Len(todo) = 2 /\ e = call.episode
    <3>1. buffer'[e].reason = call.metrics.reason
      BY <1>3, <2>2, WroteBuffers
    <3>2. promised.results[e] # Absent /\ promised.results[e].metrics = call.metrics
      BY <2>2 DEF PromiseInv
    <3> QED BY <1>0, <2>1, <3>1, <3>2
  <2>3. CASE ~(call.op = "complete" /\ Len(todo) = 2 /\ e = call.episode)
    <3>1. buffer[e].complete \in BOOLEAN
      BY BufferTypes DEF BufferType
    <3>2. buffer'[e].complete = (buffer[e].complete \/
            (call.op = "complete" /\ Len(todo) = 2 /\ e = call.episode))
      BY <1>3, WroteBuffers
    <3>3. buffer'[e].complete = buffer[e].complete
      BY <2>3, <3>1, <3>2
    <3>4. buffer'[e].reason = buffer[e].reason
      BY <1>3, <2>3, WroteBuffers
    <3> QED BY <1>2, <2>1, <3>3, <3>4
  <2> QED BY <2>2, <2>3
<1>4. CASE Start
  BY <1>2, <1>4, StartedPromises
<1>5. ASSUME NEW d \in Episodes, BeginEpisode(d)
      PROVE  promised' = promised /\ buffer' = buffer
  BY <1>5 DEF BeginEpisode
<1>6. ASSUME NEW d \in Episodes, NEW text \in Texts, RecordEvent(d, text)
      PROVE  /\ promised' = promised /\ buffer'[e].complete = buffer[e].complete
             /\ buffer'[e].reason = buffer[e].reason
  BY <1>6, RecordedPromises
<1>7. ASSUME NEW d \in Episodes, NEW m \in Metrics, NEW t \in Trajectories,
             CompleteEpisode(d, m, t), e # d
      PROVE  promised'.results[e] = promised.results[e] /\ buffer' = buffer
  <2>1. \A x \in Episodes : x # d => promised'.results[x] = promised.results[x]
    BY <1>7, CompletedPromises, Zenon
  <2>2. buffer' = buffer
    BY <1>7, CompletedPromises, Zenon
  <2> QED BY <1>7, <2>1, <2>2
<1>8. ASSUME NEW complete \in BOOLEAN, Finish(complete)
      PROVE  promised' = promised /\ buffer' = buffer
  BY <1>8 DEF Finish
<1>9. CASE WriteFails
  BY <1>2, <1>9, FailedPromises
<1>10. CASE FilesOnly
  BY <1>2, <1>10, FilePromises
<1> QED BY <1>1, <1>2, <1>3, <1>4, <1>5, <1>6, <1>7, <1>8, <1>9, <1>10, Steps

-----------------------------------------------------------------------------
(* What is there stays there.                                               *)

LEMMA StaysPresent ==
  ASSUME MemoryInv, DiskInv, CallInv, InputsReadable, [Next]_vars, up',
         NEW p \in Paths, disk[p] # Absent
  PROVE  disk'[p] # Absent
<1>1. CASE Renames(p)
  BY <1>1, RenamesWrite, WritesReadable
<1>2. CASE ~Renames(p)
  BY <1>2, NameKept
<1> QED BY <1>1, <1>2

LEMMA OpenedRoot ==
  ASSUME OpenInv, PresentInv, NEW d \in promised.opened, d \in Directories
  PROVE  Root \in promised.opened /\ (d # Root => d \in Begun)
<1>1. CASE d = Root
  BY <1>1
<1>2. CASE d # Root
  <2>1. d \in Begun
    BY <1>2 DEF Directories, PresentInv
  <2>2. begun # <<>>
    BY <2>1 DEF Begun
  <2> QED BY <2>1, <2>2 DEF OpenInv, Root
<1> QED BY <1>1, <1>2

LEMMA OpenedNotMade ==
  ASSUME MemoryInv, CallInv, OpenInv, PresentInv, NEW d \in promised.opened, NEW p \in Paths, p[1] = d,
         IsDirectory(p)
  PROVE  ~Renames(p)
<1> SUFFICES ASSUME Renames(p) PROVE FALSE
  OBVIOUS
<1>1. todo # <<>> /\ p = Head(todo) /\ d \in Directories
  BY PathDirectory DEF Renames
<1>2. CASE d = Root
  <2>1. p \in {Entry(Root), EpisodesDirectory}
    BY <1>2, PathsOfRoot, RootParts
  <2>2. call.op = "start"
    BY <1>1, <2>1, RootPlaces
  <2> QED BY <1>2, <2>2 DEF OpenInv, Root
<1>3. CASE d # Root
  <2>1. d \in Begun /\ d \in Episodes
    BY <1>1, <1>3, OpenedRoot DEF Directories
  <2>2. p = Entry(d)
    BY <2>1, PathsOfEpisode, EpisodeParts
  <2>3. call.op = "begin" /\ call.episode = d /\ Len(todo) = 6
    BY <1>1, <2>1, <2>2, EpisodePlaces
  <2>4. Len(begun) < Len(Configured) /\ d = Configured[Len(begun) + 1]
    BY <2>3 DEF OpenInv
  <2> QED BY <2>1, <2>4, EpisodesInOrder
<1> QED BY <1>2, <1>3

LEMMA NoneMissingKept ==
  ASSUME MemoryInv, DiskInv, CallInv, OpenInv, InputsReadable, PresentInv, [Next]_vars,
         NEW d \in promised.opened
  PROVE  NoneMissing(d)'
<1> SUFFICES ASSUME NEW p \in Paths, p[1] = d, Absent \in Shows(p)'
             PROVE  FALSE
  BY DEF NoneMissing
<1>0. Absent \notin Shows(p)
  BY DEF PresentInv, NoneMissing
<1>1. CASE Renames(p)
  <2>1. ~IsDirectory(p)
    BY <1>1, OpenedNotMade
  <2>2. disk'[p] # Absent /\ older'[p] = Append(older[p], disk[p])
    BY <1>1, <2>1, RenamesWrite, WritesReadable, NameRenamed
  <2>3. older[p] \in Seq(Shows(p)) /\ disk[p] \in Shows(p)
    BY DEF DiskInv, Shows
  <2>4. older'[p] \in Seq(Shows(p))
    BY <2>2, <2>3
  <2>5. \A k \in DOMAIN older'[p] : older'[p][k] # Absent
    BY <1>0, <2>4
  <2> QED BY <2>2, <2>5 DEF Shows
<1>2. CASE PowerLoss
  <2>1. d \in Directories
    BY PathDirectory
  <2>2. Root \in promised.opened
    BY <2>1, OpenedRoot
  <2>3. /\ Absent \notin Shows(Entry(Root)) /\ Absent \notin Shows(EpisodesDirectory)
        /\ Absent \notin Shows(Entry(p[1]))
    <3>1. Entry(p[1]) \in Paths /\ Entry(p[1])[1] = d
      BY <2>1 DEF Paths, Entry
    <3> QED BY <2>2, <3>1, RootNames, RootParts DEF PresentInv, NoneMissing
  <2>4. disk'[p] \in Shows(p) /\ older'[p] = <<>>
    BY <1>2, <2>1, <2>3, LostPower
  <2> QED BY <1>0, <2>4 DEF Shows
<1>3. CASE UNCHANGED <<disk, older>>
  BY <1>0, <1>3 DEF Shows
<1>4. CASE up' /\ ~Renames(p)
  <2>1. disk'[p] = disk[p] /\ older'[p] \in {older[p], <<>>}
    BY <1>4, NameKept
  <2> QED BY <1>0, <2>1 DEF Shows
<1>5. CASE MakeDirectory \/ Replace \/ SyncDirectory
  BY <1>1, <1>4, <1>5 DEF MakeDirectory, Replace, SyncDirectory
<1> QED BY <1>2, <1>3, <1>5
        DEF Next, RecorderNext, Calls, Writes, vars, recorderVars, storage, Start, BeginEpisode,
            RecordEvent, CompleteEpisode, Finish, Enters, WriteTemporary, WriteFails, Crash

(* A directory is opened by the last write of its call.                     *)
LEMMA OpenedGrows ==
  ASSUME MemoryInv, CallInv, OpenInv, PromiseInv, [Next]_vars, NEW d \in promised'.opened
  PROVE  \/ d \in promised.opened
         \/ d = Asked
         \/ /\ todo # <<>> /\ Len(todo) = 1 /\ SyncDirectory
            /\ (call.op = "start" /\ d = Root) \/ (call.op = "begin" /\ d = call.episode)
<1>1. CASE Start
  BY <1>1, StartedPromises
<1>2. CASE todo # <<>> /\ Wrote(Head(todo)) /\ (MakeDirectory \/ SyncDirectory)
  <2>1. CASE Len(todo) # 1
    BY <1>2, <2>1, WroteFacts
  <2>2. CASE Len(todo) = 1
    <3>1. CASE call.op = "start"
      <4>1. promised' = [promised EXCEPT !.opened = @ \cup {"root"}]
        BY <1>2, <2>2, <3>1, WroteFacts
      <4>2. promised'.opened = promised.opened \cup {"root"}
        BY <4>1, PromisedTypes DEF PromisedRecord
      <4>3. Head(todo) = Metadata
        BY <1>2, <2>2, <3>1, NextPath DEF AtStart
      <4> QED BY <1>2, <2>2, <3>1, <4>2, <4>3, RootParts DEF MakeDirectory
    <3>2. CASE call.op = "begin"
      <4>1. promised' = [promised EXCEPT !.opened = @ \cup {call.episode}]
        BY <1>2, <2>2, <3>2, WroteFacts
      <4>2. promised'.opened = promised.opened \cup {call.episode}
        BY <4>1, PromisedTypes DEF PromisedRecord
      <4>3. Head(todo) = Summary
        BY <1>2, <2>2, <3>2, NextPath DEF AtBegin
      <4> QED BY <1>2, <2>2, <3>2, <4>2, <4>3, RootParts DEF MakeDirectory
    <3>3. CASE call.op = "record"
      <4>1. promised' = [promised EXCEPT !.events[call.episode] = buffer[call.episode].events]
        BY <1>2, <2>2, <3>3, WroteFacts
      <4> QED BY <4>1, PromisedTypes DEF PromisedRecord
    <3>4. CASE call.op = "complete"
      BY <1>2, <2>2, <3>4, WroteFacts
    <3>5. CASE call.op = "finish"
      <4>1. promised' = [promised EXCEPT !.closed = IF call.complete THEN "complete" ELSE "partial"]
        BY <1>2, <2>2, <3>5, WroteFacts
      <4> QED BY <4>1, PromisedTypes DEF PromisedRecord
    <3>6. call.op \in {"start", "begin", "record", "complete", "finish"}
      BY <1>2 DEF CallInv
    <3> QED BY <3>1, <3>2, <3>3, <3>4, <3>5, <3>6
  <2> QED BY <2>1, <2>2
<1>3. ASSUME NEW e \in Episodes, NEW m \in Metrics, NEW t \in Trajectories,
             CompleteEpisode(e, m, t)
      PROVE  promised'.opened = promised.opened
  BY <1>3, CompletedPromises
<1>4. CASE WriteFails
  BY <1>4, FailedPromises
<1>5. CASE promised' = promised
  BY <1>5
<1> QED BY <1>1, <1>2, <1>3, <1>4, <1>5, Steps, FilePromises DEF BeginEpisode, RecordEvent, Finish

(* A synced name shows what has just been written, and nothing else in its  *)
(* directory.                                                               *)
LEMMA SyncShows ==
  ASSUME MemoryInv, DiskInv, CallInv, InputsReadable, ProgressInv, SyncDirectory
  PROVE  /\ disk[Head(todo)] = Document(Head(todo)) /\ disk[Head(todo)] # Absent
         /\ disk' = disk
         /\ \A p \in Paths : EntriesSynced /\ p[1] = Head(todo)[1] => Shows(p)' = {disk[p]}
<1>1. /\ todo # <<>> /\ Head(todo) \in Paths /\ ~IsDirectory(Head(todo)) /\ up
      /\ stage = "replaced" /\ disk' = disk
  BY SyncedNames
<1>2. disk[Head(todo)] = Document(Head(todo))
  BY <1>1 DEF ProgressInv
<1>3. Document(Head(todo)) # Absent
  BY <1>1, DocumentsAreReadable
<1>4. ASSUME NEW p \in Paths, EntriesSynced, p[1] = Head(todo)[1]
      PROVE  Shows(p)' = {disk[p]}
  <2>1. older'[p] = <<>>
    BY <1>4, SyncedNames
  <2> QED BY <1>1, <2>1 DEF Shows
<1> QED BY <1>1, <1>2, <1>3, <1>4

LEMMA PresentNext ==
  ASSUME MemoryInv, DiskInv, CallInv, OpenInv, PromiseInv, InputsReadable, ProgressInv,
         PresentInv, PresentProgress, EntriesSynced, [Next]_vars
  PROVE  PresentInv'
<1>1. ASSUME NEW d \in promised'.opened, d \in Episodes
      PROVE  d \in Begun'
  <2>1. CASE d \in promised.opened
    <3>1. d \in Begun
      BY <1>1, <2>1 DEF PresentInv
    <3> QED BY <1>1, <3>1, PromisesStay
  <2>2. d # Asked /\ d # Root
    BY <1>1, EpisodeNames DEF Asked, Root
  <2>3. CASE todo # <<>> /\ Len(todo) = 1 /\ call.op = "begin" /\ d = call.episode
    <3>1. d \in Begun
      BY <2>3 DEF OpenInv
    <3> QED BY <1>1, <3>1, PromisesStay
  <2> QED BY <1>1, <2>1, <2>2, <2>3, OpenedGrows
<1>2. ASSUME NEW d \in promised'.opened
      PROVE  NoneMissing(d)'
  <2>1. CASE d \in promised.opened
    BY <2>1, NoneMissingKept
  <2>2. CASE d = Asked
    <3>1. d \notin Directories
      BY <2>2, RootNames, ConfiguredAssumption DEF Directories, Asked, Root, Episodes
    <3> QED BY <3>1, PathDirectory DEF NoneMissing
  <2>3. CASE todo # <<>> /\ Len(todo) = 1 /\ SyncDirectory /\ call.op = "start" /\ d = Root
    <3>1. Head(todo) = Metadata
      BY <2>3, NextPath DEF AtStart
    <3>2. up
      BY <2>3 DEF SyncDirectory
    <3>3. /\ disk[Entry(Root)] # Absent /\ disk[EpisodesDirectory] # Absent
          /\ disk[Config] # Absent /\ disk[Summary] # Absent
      BY <2>3, <3>2, AbsentAssumption DEF ProgressInv, PresentProgress
    <3>4. disk[Metadata] # Absent
      BY <2>3, <3>1, SyncShows
    <3>5. \A p \in Paths : p[1] = Root => disk[p] # Absent /\ Shows(p)' = {disk[p]}
      BY <2>3, <3>1, <3>3, <3>4, SyncShows, PathsOfRoot, RootParts
    <3> QED BY <2>3, <3>5 DEF NoneMissing
  <2>4. CASE todo # <<>> /\ Len(todo) = 1 /\ SyncDirectory /\ call.op = "begin" /\ d = call.episode
    <3>1. NoneMissing(d)
      BY <2>4 DEF PresentProgress, SyncDirectory
    <3>2. \A p \in Paths : Shows(p)' \subseteq Shows(p)
      <4> SUFFICES ASSUME NEW p \in Paths PROVE Shows(p)' \subseteq Shows(p)
        OBVIOUS
      <4>1. disk'[p] = disk[p] /\ older'[p] \in {older[p], <<>>}
        BY <2>4, SyncedNames
      <4> QED BY <4>1 DEF Shows
    <3> QED BY <3>1, <3>2 DEF NoneMissing
  <2> QED BY <2>1, <2>2, <2>3, <2>4, OpenedGrows
<1> QED BY <1>1, <1>2 DEF PresentInv

LEMMA StartPresent ==
  ASSUME MemoryInv, DiskInv, CallInv, OpenInv, InputsReadable, ProgressInv, PresentProgress,
         [Next]_vars, up', call'.op = "start"
  PROVE  /\ Len(todo') <= 2 => disk'[Config] # Absent
         /\ Len(todo') <= 1 => disk'[Summary] # Absent /\ Lists(disk[Summary])'
<1>0. up /\ Config \in Paths /\ Summary \in Paths
  BY StillUp, RootNames
<1>1. CASE call.op = "none"
  <2>1. Len(todo') = 5
    BY <1>1, CallStarts, StartedPromises
  <2> QED BY <2>1
<1>2. CASE call.op # "none"
  <2> DEFINE n == Len(todo)
  <2>1. call' = call /\ call.op = "start" /\ todo # <<>>
    BY <1>2, CallGoesOn DEF CallInv
  <2>2. /\ n <= 2 => disk[Config] # Absent
        /\ n <= 1 => disk[Summary] # Absent /\ Lists(disk[Summary])
    BY <1>0, <2>1 DEF PresentProgress
  <2>3. AtStart(Head(todo), n)
    BY <2>1, NextPath
  <2>4. \/ todo' = todo /\ begun' = begun
        \/ (MakeDirectory \/ SyncDirectory) /\ Len(todo') = n - 1 /\ begun' = begun
    BY <1>2, <2>1, CallGoesOn, WroteFacts
  <2>5. begun' = begun
    BY <2>4
  <2>6. todo' = todo => Len(todo') = n
    OBVIOUS
  <2> HIDE DEF n
  <2>7. /\ n \in 1..5
        /\ n = 3 => Head(todo) = Config
        /\ n = 2 => Head(todo) = Summary
        /\ n = 1 => Head(todo) = Metadata
    BY <2>3 DEF AtStart
  <2>8. CASE todo' = todo
    <3>1. n <= 2 => disk'[Config] # Absent
      BY <1>0, <2>2, StaysPresent
    <3>2. n = 1 => ~Renames(Summary)
      BY <2>7, RootParts DEF Renames
    <3>3. n = 1 => disk'[Summary] = disk[Summary]
      BY <1>0, <3>2, NameKept
    <3>4. n = 1 => disk[Summary] # Absent /\ Lists(disk[Summary])
      BY <2>2
    <3>5. n = 1 => disk'[Summary] # Absent /\ Lists(disk[Summary])'
      BY <2>5, <3>3, <3>4 DEF Lists
    <3> QED BY <2>6, <2>7, <2>8, <3>1, <3>5
  <2>9. CASE (MakeDirectory \/ SyncDirectory) /\ Len(todo') = n - 1
    <3>1. n \in {1, 2, 3} => SyncDirectory
      BY <2>7, <2>9, RootParts DEF MakeDirectory
    <3>2. n \in {1, 2, 3} =>
            disk' = disk /\ disk[Head(todo)] = Document(Head(todo)) /\ disk[Head(todo)] # Absent
      BY <3>1, SyncShows
    <3>3. n \in {1, 2, 3} => disk'[Config] # Absent
      <4>1. CASE n = 3
        BY <2>7, <3>2, <4>1
      <4>2. CASE n \in {1, 2}
        BY <2>2, <3>2, <4>2
      <4> QED BY <4>1, <4>2
    <3>4. Lists(SummaryDocument(call.complete))
      BY CallTypesHold, SummaryIsDocument
    <3>5. n \in {1, 2} => disk'[Summary] = disk[Summary] /\ disk[Summary] # Absent /\ Lists(disk[Summary])
      <4>1. CASE n = 2
        BY <2>7, <3>2, <3>4, <4>1, Documents
      <4>2. CASE n = 1
        BY <2>2, <3>2, <4>2
      <4> QED BY <4>1, <4>2
    <3>6. n \in {1, 2} => disk'[Summary] # Absent /\ Lists(disk[Summary])'
      BY <2>5, <3>5 DEF Lists
    <3>7. (Len(todo') <= 2 => n \in {1, 2, 3}) /\ (Len(todo') <= 1 => n \in {1, 2})
      BY <2>7, <2>9
    <3> QED BY <3>3, <3>6, <3>7
  <2> QED BY <2>4, <2>8, <2>9
<1> QED BY <1>1, <1>2

LEMMA BeginPresent ==
  ASSUME MemoryInv, DiskInv, CallInv, OpenInv, PromiseInv, InputsReadable, DurableInv, ProgressInv,
         PresentProgress, EntriesSynced, [Next]_vars, up', call'.op = "begin",
         NEW e \in Episodes, call'.episode = e
  PROVE  /\ Len(todo') <= 4 => disk'[EpisodeOf(e)] # Absent
         /\ Len(todo') <= 3 => disk'[EventsOf(e)] # Absent
         /\ Len(todo') <= 2 => disk'[TrajectoryOf(e)] # Absent
         /\ Len(todo') <= 1 => NoneMissing(e)'
<1>0. /\ up /\ EpisodeOf(e) \in Paths /\ EventsOf(e) \in Paths /\ TrajectoryOf(e) \in Paths
      /\ MetricsOf(e) \in Paths /\ Entry(e) \in Paths
  BY StillUp, EpisodeNames
<1>1. CASE call.op = "none"
  <2>1. Len(todo') = 6
    BY <1>1, CallStarts, BegunPromises
  <2> QED BY <2>1
<1>2. CASE call.op # "none"
  <2> DEFINE n == Len(todo)
  <2>1. call' = call /\ call.op = "begin" /\ call.episode = e /\ todo # <<>>
    BY <1>2, CallGoesOn DEF CallInv
  <2>2. /\ n <= 4 => disk[EpisodeOf(e)] # Absent
        /\ n <= 3 => disk[EventsOf(e)] # Absent
        /\ n <= 2 => disk[TrajectoryOf(e)] # Absent
        /\ n <= 1 => NoneMissing(e)
    BY <1>0, <2>1 DEF PresentProgress
  <2>3. AtBegin(e, Head(todo), n)
    BY <2>1, NextPath
  <2>4. todo' = todo \/ ((MakeDirectory \/ SyncDirectory) /\ Len(todo') = n - 1)
    BY <1>2, <2>1, CallGoesOn
  <2>5. todo' = todo => Len(todo') = n
    OBVIOUS
  <2>6. n # 6 => e \in Begun
    BY <2>1 DEF OpenInv
  <2> HIDE DEF n
  <2>7. /\ n \in 1..6
        /\ n = 5 => Head(todo) = EpisodeOf(e)
        /\ n = 4 => Head(todo) = EventsOf(e)
        /\ n = 3 => Head(todo) = TrajectoryOf(e)
        /\ n = 2 => Head(todo) = MetricsOf(e)
        /\ n = 1 => Head(todo) = Summary
    BY <2>3 DEF AtBegin
  <2>8. n = 1 => NoneMissing(e)'
    <3> SUFFICES ASSUME n = 1, NEW p \in Paths, p[1] = e
                 PROVE  Absent \notin Shows(p)'
      BY DEF NoneMissing
    <3>1. ~Renames(p)
      BY <2>7, RootParts, EpisodeParts DEF Renames
    <3>2. disk'[p] = disk[p] /\ older'[p] \in {older[p], <<>>}
      BY <3>1, NameKept
    <3>3. Absent \notin Shows(p)
      BY <2>2 DEF NoneMissing
    <3> QED BY <3>2, <3>3 DEF Shows
  <2>9. CASE todo' = todo
    <3>1. /\ n <= 4 => disk'[EpisodeOf(e)] # Absent
          /\ n <= 3 => disk'[EventsOf(e)] # Absent
          /\ n <= 2 => disk'[TrajectoryOf(e)] # Absent
      BY <1>0, <2>2, StaysPresent
    <3> QED BY <2>5, <2>7, <2>8, <2>9, <3>1
  <2>10. CASE (MakeDirectory \/ SyncDirectory) /\ Len(todo') = n - 1
    <3>1. n \in 1..5 => SyncDirectory
      <4>1. /\ ~IsDirectory(EpisodeOf(e)) /\ ~IsDirectory(EventsOf(e)) /\ ~IsDirectory(TrajectoryOf(e))
            /\ ~IsDirectory(MetricsOf(e)) /\ ~IsDirectory(Summary)
        BY EpisodeParts, RootParts
      <4>2. n \in {1, 2, 3, 4, 5} => ~IsDirectory(Head(todo))
        BY <2>7, <4>1
      <4>3. MakeDirectory => IsDirectory(Head(todo))
        BY DEF MakeDirectory
      <4>4. n \in 1..5 => n \in {1, 2, 3, 4, 5}
        BY <2>7
      <4> QED BY <2>10, <4>2, <4>3, <4>4
    <3>2. n \in 1..5 => disk' = disk /\ disk[Head(todo)] # Absent
      BY <3>1, SyncShows
    <3>3. n \in 1..5 => disk'[EpisodeOf(e)] # Absent
      <4>1. CASE n = 5
        BY <2>7, <3>2, <4>1
      <4>2. CASE n \in 1..4
        BY <2>2, <3>2, <4>2
      <4> QED BY <4>1, <4>2
    <3>4. n \in 1..4 => disk'[EventsOf(e)] # Absent
      <4>1. CASE n = 4
        BY <2>7, <3>2, <4>1
      <4>2. CASE n \in 1..3
        BY <2>2, <3>2, <4>2
      <4> QED BY <4>1, <4>2
    <3>5. n \in 1..3 => disk'[TrajectoryOf(e)] # Absent
      <4>1. CASE n = 3
        BY <2>7, <3>2, <4>1
      <4>2. CASE n \in 1..2
        BY <2>2, <3>2, <4>2
      <4> QED BY <4>1, <4>2
    <3>6. n = 2 => NoneMissing(e)'
      <4> SUFFICES ASSUME n = 2, NEW p \in Paths, p[1] = e
                   PROVE  Absent \notin Shows(p)'
        BY DEF NoneMissing
      <4>1. Shows(p)' = {disk[p]}
        BY <2>7, <3>1, SyncShows, EpisodeParts
      <4>2. disk[Entry(e)] # Absent
        BY <1>0, <2>6, AbsentAssumption DEF DurableInv
      <4>3. disk[p] # Absent
        BY <2>2, <2>7, <3>2, <4>2, PathsOfEpisode
      <4> QED BY <4>1, <4>3
    <3>7. /\ Len(todo') <= 4 => n \in 1..5
          /\ Len(todo') <= 3 => n \in 1..4
          /\ Len(todo') <= 2 => n \in 1..3
          /\ Len(todo') <= 1 => n = 1 \/ n = 2
      BY <2>7, <2>10
    <3> QED BY <2>8, <3>3, <3>4, <3>5, <3>6, <3>7
  <2> QED BY <2>4, <2>9, <2>10
<1> QED BY <1>1, <1>2

LEMMA PresentProgressNext ==
  ASSUME MemoryInv, DiskInv, CallInv, OpenInv, PromiseInv, InputsReadable, DurableInv, ProgressInv,
         PresentProgress, EntriesSynced, [Next]_vars
  PROVE  PresentProgress'
<1> SUFFICES ASSUME up' PROVE PresentProgress'
  BY DEF PresentProgress
<1>1. call'.op = "begin" => call'.episode \in Episodes
  <2>1. CallInv'
    BY CallNext
  <2> QED BY <2>1 DEF CallInv
<1>2. call'.op = "start" =>
        /\ Len(todo') <= 2 => disk'[Config] # Absent
        /\ Len(todo') <= 1 => disk'[Summary] # Absent /\ Lists(disk[Summary])'
  BY StartPresent
<1>3. ASSUME call'.op = "begin"
      PROVE  /\ Len(todo') <= 4 => disk'[EpisodeOf(call'.episode)] # Absent
             /\ Len(todo') <= 3 => disk'[EventsOf(call'.episode)] # Absent
             /\ Len(todo') <= 2 => disk'[TrajectoryOf(call'.episode)] # Absent
             /\ Len(todo') <= 1 => NoneMissing(call.episode)'
  <2>1. PICK e \in Episodes : e = call'.episode
    BY <1>1, <1>3
  <2>2. /\ Len(todo') <= 4 => disk'[EpisodeOf(e)] # Absent
        /\ Len(todo') <= 3 => disk'[EventsOf(e)] # Absent
        /\ Len(todo') <= 2 => disk'[TrajectoryOf(e)] # Absent
        /\ Len(todo') <= 1 => NoneMissing(e)'
    BY <1>3, <2>1, BeginPresent
  <2>3. NoneMissing(e)' <=> NoneMissing(call.episode)'
    BY <2>1 DEF NoneMissing
  <2> QED BY <2>1, <2>2, <2>3
<1> QED BY <1>2, <1>3 DEF PresentProgress, EpisodeOf, EventsOf, TrajectoryOf

-----------------------------------------------------------------------------
(* The summary and the directories.                                         *)

LEMMA ListsStays ==
  ASSUME NEW s, begun' = begun
  PROVE  Lists(s)' <=> Lists(s)
BY DEF Lists

LEMMA ListedNext ==
  ASSUME MemoryInv, DiskInv, CallInv, OpenInv, PromiseInv, InputsReadable, ProgressInv,
         PresentInv, PresentInv', PresentProgress, ListedInv, EntriesSynced, [Next]_vars, OpenInv'
  PROVE  ListedInv'
<1> SUFFICES ASSUME Opened', NEW s \in Shows(Summary)'
             PROVE  Lists(s)'
  BY DEF ListedInv, Lists
<1>1. Root \in promised'.opened /\ \A e \in Begun' : e \in promised'.opened
  BY DEF Opened, Root
<1>2. s # Absent
  BY <1>1, RootNames, RootParts DEF PresentInv, NoneMissing
<1>3. CASE Opened
  <2>1. begun' = begun
    <3>1. CASE todo # <<>> /\ Wrote(Head(todo)) /\ call.op = "begin" /\ Len(todo) = 6
      <4>1. begun' = Append(begun, call.episode)
        BY <3>1, WroteFacts
      <4>2. call.episode = Configured[Len(begun) + 1] /\ Len(begun) < Len(Configured)
        BY <3>1 DEF OpenInv
      <4>3. call.episode \in Begun' /\ call.episode \in Episodes \ Begun
        BY <4>1, <4>2, BegunGrows, EpisodesInOrder
      <4>4. promised' = promised
        BY <3>1, WroteFacts
      <4>5. call.episode \in promised.opened
        BY <1>1, <4>3, <4>4
      <4> QED BY <4>3, <4>5 DEF PresentInv
    <3>2. CASE todo # <<>> /\ Wrote(Head(todo)) /\ ~(call.op = "begin" /\ Len(todo) = 6)
      BY <3>2, WroteFacts
    <3> QED BY <3>1, <3>2, Steps, FilePromises, FailedPromises
            DEF Start, BeginEpisode, RecordEvent, CompleteEpisode, Finish, Enters
  <2>2. s \in Shows(Summary) \/ Writing(Summary, s)
    BY <1>2, WhatIsNew, RootNames
  <2>3. CASE s \in Shows(Summary)
    BY <1>3, <2>1, <2>3, ListsStays DEF ListedInv
  <2>4. CASE Writing(Summary, s)
    <3>1. s = SummaryDocument(call.complete)
      BY <2>4, Documents, RootParts DEF Writing
    <3> QED BY <2>1, <3>1, CallTypesHold, SummaryIsDocument, ListsStays
  <2> QED BY <2>2, <2>3, <2>4
<1>4. CASE ~Opened
  <2>1. PICK d \in promised'.opened : d \notin promised.opened /\ d # Asked
    <3>1. PICK d \in {Root} \cup Begun : d \notin promised.opened
      BY <1>4 DEF Opened, Root
    <3>2. d \in {Root} \cup Begun'
      BY <3>1, PromisesStay, EpisodesInOrder
    <3>3. d # Asked
      BY <3>1, EpisodesInOrder, EpisodeNames DEF Asked, Root
    <3> QED BY <1>1, <3>1, <3>2, <3>3
  <2>2. /\ todo # <<>> /\ Len(todo) = 1 /\ SyncDirectory
        /\ (call.op = "start" /\ d = Root) \/ (call.op = "begin" /\ d = call.episode)
    BY <2>1, OpenedGrows
  <2>3. Wrote(Head(todo)) /\ up
    BY <2>2 DEF SyncDirectory
  <2>4. begun' = begun
    BY <2>2, <2>3, WroteFacts
  <2>5. Lists(disk[Summary])
    <3>1. CASE call.op = "start"
      BY <2>2, <2>3, <3>1 DEF PresentProgress
    <3>2. CASE call.op = "begin"
      <4>1. Head(todo) = Summary
        BY <2>2, <3>2, NextPath DEF AtBegin
      <4>2. disk[Summary] = SummaryDocument(call.complete)
        BY <2>2, <4>1, SyncShows, Documents
      <4> QED BY <4>2, CallTypesHold, SummaryIsDocument
    <3> QED BY <2>2, <3>1, <3>2
  <2>6. Head(todo)[1] = Root
    <3>1. Head(todo) = Metadata \/ Head(todo) = Summary
      BY <2>2, NextPath DEF AtStart, AtBegin
    <3> QED BY <3>1, RootParts
  <2>7. Shows(Summary)' = {disk[Summary]}
    BY <2>2, <2>6, SyncShows, RootNames, RootParts
  <2> QED BY <2>4, <2>5, <2>7, ListsStays
<1> QED BY <1>3, <1>4

LEMMA DirectoriesNext ==
  ASSUME MemoryInv, DiskInv, CallInv, OpenInv, PromiseInv, DirectoriesInv, [Next]_vars
  PROVE  DirectoriesInv'
<1> SUFFICES ASSUME NEW e \in Episodes, e \notin Begun'
             PROVE  Shows(Entry(e))' \subseteq {Absent}
  BY DEF DirectoriesInv
<1>1. e \notin Begun /\ Entry(e) \in Paths
  BY PromisesStay, EpisodeNames
<1>2. Shows(Entry(e)) \subseteq {Absent}
  BY <1>1 DEF DirectoriesInv
<1>3. ~Renames(Entry(e))
  <2> SUFFICES ASSUME Renames(Entry(e)) PROVE FALSE
    OBVIOUS
  <2>1. MakeDirectory /\ todo # <<>> /\ Entry(e) = Head(todo)
    BY <1>1, NameRenamed, EpisodeParts
  <2>2. call.op = "begin" /\ call.episode = e /\ Len(todo) = 6
    BY <2>1, EpisodePlaces
  <2>3. begun' = Append(begun, e)
    BY <2>1, <2>2, WroteFacts DEF MakeDirectory
  <2>4. e = Configured[Len(begun) + 1] /\ Len(begun) < Len(Configured)
    BY <2>2 DEF OpenInv
  <2>5. e \in Begun'
    BY <2>3, <2>4, BegunGrows
  <2> QED BY <2>5
<1>4. Shows(Entry(e))' \subseteq Shows(Entry(e)) \cup {Absent}
  BY <1>1, <1>3, ShowsKept
<1> QED BY <1>2, <1>4

-----------------------------------------------------------------------------
(* The commit markers.                                                      *)

(* Once the process is down, nothing is written or promised any more.       *)
LEMMA DownStays ==
  ASSUME [Next]_vars, ~up'
  PROVE  /\ UNCHANGED <<memory, call, todo, stage, promised>>
         /\ \A p \in Paths : ~Renames(p)
<1>1. ~MakeDirectory /\ ~Replace /\ ~WriteTemporary /\ ~SyncDirectory /\ ~WriteFails
  BY DEF MakeDirectory, Replace, WriteTemporary, SyncDirectory, WriteFails
<1>2. /\ ~Start /\ \A e \in Episodes : ~BeginEpisode(e)
      /\ \A e \in Episodes, text \in Texts : ~RecordEvent(e, text)
      /\ \A e \in Episodes, m \in Metrics, t \in Trajectories : ~CompleteEpisode(e, m, t)
      /\ \A complete \in BOOLEAN : ~Finish(complete)
  <2>1. ASSUME NEW c, NEW paths, Enters(c, paths) PROVE FALSE
    BY <2>1 DEF Enters
  <2>2. ~Start
    BY <2>1 DEF Start
  <2>3. \A e \in Episodes : ~BeginEpisode(e)
    BY <2>1 DEF BeginEpisode
  <2>4. \A e \in Episodes, text \in Texts : ~RecordEvent(e, text)
    BY <2>1 DEF RecordEvent
  <2>5. \A e \in Episodes, m \in Metrics, t \in Trajectories : ~CompleteEpisode(e, m, t)
    BY <2>1 DEF CompleteEpisode
  <2>6. \A complete \in BOOLEAN : ~Finish(complete)
    BY <2>1 DEF Finish
  <2> QED BY <2>2, <2>3, <2>4, <2>5, <2>6
<1> QED BY <1>1, <1>2 DEF Next, RecorderNext, Calls, Writes, vars, recorderVars, Crash, PowerLoss, Renames

LEMMA ConfirmedStays ==
  ASSUME DiskInv, CallInv, DurableInv', ConfirmedInv, [Next]_vars
  PROVE  ConfirmedInv'
<1> SUFFICES ASSUME NEW e \in Episodes, buffer'[e].complete, NEW d \in Shows(MetricsOf(e))', d # Absent
             PROVE  Complete(d)
  BY DEF ConfirmedInv, Complete
<1>1. CASE up'
  <2>1. Complete(disk'[MetricsOf(e)]) /\ older'[MetricsOf(e)] = <<>>
    BY <1>1 DEF DurableInv, Complete
  <2> QED BY <2>1 DEF Shows
<1>2. CASE ~up'
  <2>1. buffer' = buffer /\ ~Renames(MetricsOf(e))
    BY <1>2, DownStays, EpisodeNames DEF memory
  <2>2. d \in Shows(MetricsOf(e))
    BY <2>1, ShowsKept, EpisodeNames
  <2> QED BY <2>1, <2>2 DEF ConfirmedInv
<1> QED BY <1>1, <1>2

LEMMA SummaryKept ==
  ASSUME begun' = begun, buffer' = buffer, NEW complete
  PROVE  SummaryDocument(complete)' = SummaryDocument(complete)
BY DEF SummaryDocument

LEMMA SummaryFirstNext ==
  ASSUME MemoryInv, DiskInv, CallInv, InputsReadable, ProgressInv, SummaryFirst, [Next]_vars
  PROVE  SummaryFirst'
<1> SUFFICES ASSUME up', call'.op = "finish", Len(todo') = 1
             PROVE  Settled(Summary, SummaryDocument(call.complete))'
  BY DEF SummaryFirst
<1>0. up /\ Summary \in Paths
  BY StillUp, RootNames
<1>1. call.op # "none"
  <2>1. call.op = "none" => Len(todo') = 2
    BY CallStarts, FinishingPromises
  <2> QED BY <2>1
<1>2. call' = call /\ call.op = "finish" /\ todo # <<>>
  BY <1>1, CallGoesOn DEF CallInv
<1>3. CASE todo' = todo /\ UNCHANGED <<begun, buffer>>
  <2>1. Settled(Summary, SummaryDocument(call.complete))
    BY <1>0, <1>2, <1>3 DEF SummaryFirst
  <2>2. ~Renames(Summary)
    BY <1>2, <1>3, NextPath, RootParts DEF AtFinish, Renames
  <2>3. disk'[Summary] = disk[Summary] /\ older'[Summary] \in {older[Summary], <<>>}
    BY <1>0, <2>2, NameKept
  <2>4. SummaryDocument(call.complete)' = SummaryDocument(call.complete)
    BY <1>2, <1>3 DEF SummaryDocument
  <2> QED BY <2>1, <2>3, <2>4 DEF Settled
<1>4. CASE /\ Wrote(Head(todo)) /\ (MakeDirectory \/ SyncDirectory)
           /\ Len(todo) \in Nat /\ Len(todo') = Len(todo) - 1
  <2>1. Len(todo) = 2
    <3> DEFINE n == Len(todo)
               m == Len(todo')
    <3>1. n \in Nat /\ m = n - 1 /\ m = 1
      BY <1>4
    <3> HIDE DEF n, m
    <3>2. n = 2
      BY <3>1
    <3> QED BY <3>2 DEF n
  <2>2. Head(todo) = Summary
    BY <1>2, <2>1, NextPath DEF AtFinish
  <2>3. SyncDirectory
    BY <1>4, <2>2, RootParts DEF MakeDirectory
  <2>4. disk' = disk /\ disk[Summary] = SummaryDocument(call.complete)
    BY <2>2, <2>3, SyncShows, Documents
  <2>5. older'[Summary] = <<>>
    BY <1>0, <2>2, <2>3, SyncedNames, RootParts
  <2>6. begun' = begun /\ buffer' = buffer
    BY <1>2, <1>4, WroteFacts
  <2>7. SummaryDocument(call.complete)' = SummaryDocument(call.complete)
    BY <1>2, <2>6 DEF SummaryDocument
  <2> QED BY <2>4, <2>5, <2>7 DEF Settled
<1> QED BY <1>1, <1>2, <1>3, <1>4, CallGoesOn

LEMMA ClosedChanges ==
  ASSUME MemoryInv, CallInv, OpenInv, PromiseInv, [Next]_vars
  PROVE  /\ finished => finished'
         /\ \/ promised'.closed = promised.closed
            \/ promised'.closed = "failed"
            \/ finished'
<1>1. CASE todo # <<>> /\ Wrote(Head(todo)) /\ (MakeDirectory \/ SyncDirectory)
  <2>1. finished' = (finished \/ (call.op = "finish" /\ Len(todo) = 1))
    BY <1>1, WroteFacts
  <2>2. ~(call.op = "finish" /\ Len(todo) = 1) => promised'.closed = promised.closed
    BY <1>1, WrotePromises
  <2> QED BY <2>1, <2>2
<1>2. CASE WriteFails
  BY <1>2, FailedPromises
<1>3. CASE Start
  BY <1>3, StartedPromises
<1>4. ASSUME NEW e \in Episodes, NEW m \in Metrics, NEW t \in Trajectories,
             CompleteEpisode(e, m, t)
      PROVE  promised'.closed = promised.closed /\ finished' = finished
  BY <1>4, CompletedPromises
<1>5. CASE promised' = promised /\ finished' = finished
  BY <1>5
<1> QED BY <1>1, <1>2, <1>3, <1>4, <1>5, Steps, FilePromises
        DEF BeginEpisode, RecordEvent, Finish, Enters

LEMMA MarkedLastNext ==
  ASSUME MemoryInv, DiskInv, CallInv, OpenInv, PromiseInv, MarkedLast, [Next]_vars
  PROVE  MarkedLast'
<1> SUFFICES ASSUME up', ShowsComplete(Metadata)', promised'.closed # "failed", ~finished'
             PROVE  call'.op = "finish" /\ call'.complete /\ Len(todo') = 1 /\ stage' = "replaced"
  BY DEF MarkedLast, Marked
<1>0. up /\ Metadata \in Paths /\ ~finished /\ promised'.closed = promised.closed
  BY StillUp, RootNames, ClosedChanges
<1>1. CASE ShowsComplete(Metadata)
  <2>1. call.op = "finish" /\ call.complete /\ Len(todo) = 1 /\ stage = "replaced"
    BY <1>0, <1>1 DEF MarkedLast, Marked
  <2>2. todo # <<>> /\ Head(todo) = Metadata
    BY <2>1, NextPath DEF CallInv, AtFinish
  <2>3. ~SyncDirectory /\ ~MakeDirectory
    <3>1. ~Wrote(Head(todo))
      BY <2>1, <2>2, WroteFacts
    <3> QED BY <3>1 DEF SyncDirectory, MakeDirectory
  <2>4. ~WriteFails
    BY <1>0, <2>1, FailedPromises
  <2>5. ~WriteTemporary /\ ~Replace
    BY <2>1 DEF WriteTemporary, Replace
  <2>6. ~Crash /\ ~PowerLoss
    BY DEF Crash, PowerLoss
  <2>7. ASSUME NEW c, NEW paths, Enters(c, paths) PROVE FALSE
    BY <2>1, <2>7 DEF Enters
  <2>8. ~Calls
    BY <2>7 DEF Calls, Start, BeginEpisode, RecordEvent, CompleteEpisode, Finish
  <2>9. UNCHANGED recorderVars
    BY <2>3, <2>4, <2>5, <2>6, <2>8 DEF Next, RecorderNext, Writes, vars
  <2> QED BY <2>1, <2>9 DEF recorderVars
<1>2. CASE ~ShowsComplete(Metadata)
  <2>1. PICK d \in Shows(Metadata)' : Complete(d)
    BY DEF ShowsComplete, Complete
  <2>2. d # Absent /\ d \notin Shows(Metadata)
    BY <1>2, <2>1 DEF ShowsComplete, Complete
  <2>3. Renames(Metadata)
    BY <1>0, <2>1, <2>2, ShowsKept
  <2>4. Replace /\ todo # <<>> /\ Head(todo) = Metadata
    BY <1>0, <2>3, NameRenamed, RootParts
  <2>5. d = Document(Metadata)
    BY <1>0, <2>2, WhatIsNew, RootParts DEF Writing
  <2>6. call.complete
    BY <2>1, <2>5, Documents DEF Complete, MetadataDocument
  <2>7. call.op = "finish" /\ Len(todo) = 1
    BY <2>4, <2>6, RootPlaces DEF OpenInv
  <2> QED BY <2>4, <2>6, <2>7 DEF Replace
<1> QED BY <1>1, <1>2

(* After finish() the recorder is done.                                     *)
LEMMA FinishedQuiet ==
  ASSUME CallInv, OpenInv, finished, up', [Next]_vars
  PROVE  UNCHANGED <<begun, buffer, disk, older, promised>>
<1>1. call.op = "none" /\ todo = <<>> /\ stage = "new" /\ Asked \in promised.opened
  BY IdleStage DEF OpenInv, CallInv
<1>2. ~MakeDirectory /\ ~WriteTemporary /\ ~Replace /\ ~SyncDirectory /\ ~WriteFails
  BY <1>1 DEF MakeDirectory, WriteTemporary, Replace, SyncDirectory, WriteFails
<1>3. ~Crash /\ ~PowerLoss
  BY DEF Crash, PowerLoss
<1>4. ~Calls
  BY <1>1 DEF Calls, Start, BeginEpisode, RecordEvent, CompleteEpisode, Finish, Active
<1> QED BY <1>2, <1>3, <1>4 DEF Next, RecorderNext, Writes, vars, recorderVars, memory, storage

LEMMA MarkedNext ==
  ASSUME MemoryInv, DiskInv, CallInv, OpenInv, PromiseInv, InputsReadable, ProgressInv,
         SummaryFirst, MarkedInv, EntriesSynced, [Next]_vars,
         OpenInv', SealInv', PresentInv', SummaryFirst', MarkedLast'
  PROVE  MarkedInv'
<1> SUFFICES ASSUME ShowsComplete(Metadata)', promised'.closed # "failed", NEW s \in Shows(Summary)'
             PROVE  s = SummaryDocument(TRUE)'
  BY DEF MarkedInv, Marked
<1>0. Metadata \in Paths /\ Summary \in Paths
  BY RootNames
<1>1. s # Absent
  <2>1. Begun' = Episodes
    BY DEF SealInv, Sealed
  <2>2. Configured[1] \in Episodes
    BY ConfiguredAssumption, EmptySeq DEF Episodes
  <2>3. begun' # <<>>
    BY <2>1, <2>2 DEF Begun
  <2>4. Root \in promised'.opened
    BY <2>3 DEF OpenInv, Root
  <2> QED BY <1>0, <2>4, RootParts DEF PresentInv, NoneMissing
<1>2. PICK d \in Shows(Metadata)' : Complete(d)
  BY DEF ShowsComplete, Complete
<1>3. CASE UNCHANGED <<begun, buffer, promised>> /\ ~Renames(Metadata) /\ ~Renames(Summary)
  <2>1. d \in Shows(Metadata) /\ s \in Shows(Summary)
    BY <1>0, <1>1, <1>2, <1>3, ShowsKept DEF Complete
  <2>2. Marked
    BY <1>2, <1>3, <2>1 DEF Marked, ShowsComplete
  <2>3. s = SummaryDocument(TRUE)
    BY <2>1, <2>2 DEF MarkedInv
  <2> QED BY <1>3, <2>3, SummaryKept
<1>4. CASE ~up'
  BY <1>0, <1>3, <1>4, DownStays DEF memory
<1>5. CASE up' /\ ~finished'
  <2>1. call'.op = "finish" /\ call'.complete /\ Len(todo') = 1
    BY <1>5 DEF MarkedLast, Marked
  <2>2. Settled(Summary, SummaryDocument(call.complete))'
    BY <1>5, <2>1 DEF SummaryFirst
  <2>3. s = SummaryDocument(call.complete)'
    BY <2>2 DEF Settled, Shows
  <2>4. CallInv'
    BY CallNext
  <2>5. call'.complete = TRUE
    BY <2>1, <2>4 DEF CallInv
  <2> QED BY <2>3, <2>5 DEF SummaryDocument
<1>6. CASE up' /\ finished
  <2>1. UNCHANGED <<begun, buffer, disk, older, promised>>
    BY <1>6, FinishedQuiet
  <2>2. d \in Shows(Metadata) /\ s \in Shows(Summary)
    BY <1>2, <2>1 DEF Shows
  <2>3. s = SummaryDocument(TRUE)
    BY <1>2, <2>1, <2>2 DEF MarkedInv, Marked, ShowsComplete
  <2> QED BY <2>1, <2>3, SummaryKept
<1>7. CASE up' /\ finished' /\ ~finished
  <2>1. todo # <<>> /\ Wrote(Head(todo)) /\ (MakeDirectory \/ SyncDirectory)
    BY <1>7, Steps, FilePromises, StartedPromises, CompletedPromises, FailedPromises
       DEF BeginEpisode, RecordEvent, Finish, Enters
  <2>2. call.op = "finish" /\ Len(todo) = 1
    BY <1>7, <2>1, WroteFacts
  <2>3. Head(todo) = Metadata
    BY <2>1, <2>2, NextPath DEF AtFinish
  <2>4. SyncDirectory /\ up
    BY <2>1, <2>3, RootParts DEF MakeDirectory, SyncDirectory
  <2>5. d = MetadataDocument(call.complete)
    BY <1>0, <1>2, <2>3, <2>4, SyncShows, Documents
  <2>6. call.complete = TRUE
    BY <1>2, <2>5, CallTypesHold DEF Complete, MetadataDocument
  <2>7. disk[Summary] = SummaryDocument(TRUE)
    BY <2>2, <2>4, <2>6 DEF SummaryFirst, Settled
  <2>8. s = disk[Summary]
    BY <1>0, <2>3, <2>4, SyncShows, RootParts
  <2>9. begun' = begun /\ buffer' = buffer
    BY <2>1, <2>2, WroteFacts
  <2> QED BY <2>7, <2>8, <2>9, SummaryKept
<1> QED BY <1>4, <1>5, <1>6, <1>7

-----------------------------------------------------------------------------
(* All of it holds at the beginning and after every step.                   *)

LEMMA InitReadable ==
  ASSUME Init
  PROVE  ReadableInv
<1>1. /\ begun = <<>> /\ buffer = [e \in Episodes |-> EmptyBuffer] /\ call = NoCall
      /\ todo = <<>> /\ disk = [p \in Paths |-> Absent] /\ older = [p \in Paths |-> <<>>]
      /\ promised = [opened |-> {}, events |-> [e \in Episodes |-> <<>>],
                     results |-> [e \in Episodes |-> Absent], closed |-> "no"]
  BY DEF Init, RecorderInit
<1>2. \A p \in Paths : Shows(p) = {Absent}
  BY <1>1 DEF Shows
<1>3. Begun = {} /\ promised.opened = {}
  BY <1>1 DEF Begun
<1>4. \A e \in Episodes : /\ buffer[e].events = <<>> /\ ~buffer[e].complete
                          /\ promised.results[e] = Absent
  BY <1>1 DEF EmptyBuffer
<1>5. call.op = "none"
  BY <1>1 DEF NoCall
<1>6. DocumentsReadable
  BY <1>2 DEF DocumentsReadable
<1>7. InputsReadable
  <2>1. ReadableEvents(<<>>)
    BY DEF ReadableEvents
  <2> QED BY <1>1, <1>4, <2>1, OpenMetricsReadable DEF InputsReadable
<1>8. ResultsAgree
  BY <1>4 DEF ResultsAgree
<1>9. PresentInv
  BY <1>3 DEF PresentInv
<1>10. PresentProgress /\ SummaryFirst
  BY <1>5 DEF PresentProgress, SummaryFirst
<1>11. ListedInv
  BY <1>3 DEF ListedInv, Opened
<1>12. DirectoriesInv
  BY <1>2, EpisodeNames DEF DirectoriesInv
<1>13. ConfirmedInv
  BY <1>4 DEF ConfirmedInv
<1>14. ~Marked
  BY <1>2, RootNames DEF Marked, ShowsComplete, Complete
<1>15. MarkedLast /\ MarkedInv
  BY <1>14 DEF MarkedLast, MarkedInv
<1> QED BY <1>6, <1>7, <1>8, <1>9, <1>10, <1>11, <1>12, <1>13, <1>15 DEF ReadableInv

LEMMA NextReadable ==
  ASSUME Inv, ReadableInv, [Next]_vars, EntriesSynced, Texts \cap LineBreaking = {}
  PROVE  ReadableInv'
<1>1. /\ DiskInv /\ MemoryInv /\ CallInv /\ OpenInv /\ PromiseInv /\ DurableInv /\ ProgressInv
  BY DEF Inv
<1>2. /\ DocumentsReadable /\ InputsReadable /\ ResultsAgree /\ PresentInv /\ PresentProgress
      /\ ListedInv /\ DirectoriesInv /\ ConfirmedInv /\ SummaryFirst /\ MarkedLast /\ MarkedInv
  BY DEF ReadableInv
<1>3. DurableInv' /\ OpenInv' /\ SealInv'
  <2>1. Inv'
    BY NextInv
  <2> QED BY <2>1 DEF Inv
<1>4. DocumentsReadable'
  BY <1>1, <1>2, DocumentsReadableNext
<1>5. InputsReadable'
  BY <1>1, <1>2, InputsReadableNext
<1>6. ResultsAgree'
  BY <1>1, <1>2, ResultsAgreeNext
<1>7. PresentInv'
  BY <1>1, <1>2, PresentNext
<1>8. PresentProgress'
  BY <1>1, <1>2, PresentProgressNext
<1>9. ListedInv'
  BY <1>1, <1>2, <1>3, <1>7, ListedNext
<1>10. DirectoriesInv'
  BY <1>1, <1>2, DirectoriesNext
<1>11. ConfirmedInv'
  BY <1>1, <1>2, <1>3, ConfirmedStays
<1>12. SummaryFirst'
  BY <1>1, <1>2, SummaryFirstNext
<1>13. MarkedLast'
  BY <1>1, <1>2, MarkedLastNext
<1>14. MarkedInv'
  BY <1>1, <1>2, <1>3, <1>7, <1>12, <1>13, MarkedNext
<1> QED BY <1>4, <1>5, <1>6, <1>7, <1>8, <1>9, <1>10, <1>11, <1>12, <1>13, <1>14 DEF ReadableInv

-----------------------------------------------------------------------------
(* What the reader finds.                                                   *)

LEMMA SnapshotShows ==
  ASSUME litter = {}
  PROVE  /\ \A p \in Paths : Snapshot[p] = disk[p]
         /\ \A d \in Directories : Snapshot[Listing(d)] = {n \in FilesOf(d) : disk[<<d, n>>] # Absent}
         /\ Snapshot[Listing("episodes")] = {e \in Episodes : disk[Entry(e)] # Absent}
<1>1. ASSUME NEW p \in Paths PROVE Snapshot[p] = disk[p]
  <2>1. p \in Places /\ p[2] # "ls"
    BY PathParts DEF Places
  <2> QED BY <2>1 DEF Snapshot, Look
<1>2. ASSUME NEW d \in Directories
      PROVE  Snapshot[Listing(d)] = {n \in FilesOf(d) : disk[<<d, n>>] # Absent}
  <2>1. Listing(d) \in Places /\ Listing(d)[1] = d /\ Listing(d)[2] = "ls"
    BY ListingParts DEF Places, Listings
  <2>2. d # "episodes"
    BY EpisodeNames DEF Directories, Root
  <2>3. Snapshot[Listing(d)] = Look(Listing(d))
    BY <2>1 DEF Snapshot
  <2>4. Look(Listing(d)) = {n \in FilesOf(d) : disk[<<d, n>>] # Absent} \cup {}
    BY <2>1, <2>2 DEF Look
  <2> QED BY <2>3, <2>4
<1>3. Snapshot[Listing("episodes")] = {e \in Episodes : disk[Entry(e)] # Absent}
  <2>1. /\ Listing("episodes") \in Places /\ Listing("episodes")[1] = "episodes"
        /\ Listing("episodes")[2] = "ls"
    BY ListingParts DEF Places, Listings
  <2> QED BY <2>1 DEF Snapshot, Look
<1> QED BY <1>1, <1>2, <1>3

(* A summary that lists the episodes begun lists each of them once.         *)
LEMMA ListedOnce ==
  ASSUME MemoryInv, NEW s \in SummaryDocuments, Lists(s)
  PROVE  /\ DOMAIN s.episodes = 1..Len(begun)
         /\ \A i \in 1..Len(begun) : s.episodes[i].episode = begun[i] /\ begun[i] \in Begun
         /\ ListedIn(s) = Begun /\ Cardinality(Begun) = Len(s.episodes)
<1>1. begun \in Seq(Episodes) /\ Len(begun) \in Nat /\ DOMAIN begun = 1..Len(begun)
  BY DEF MemoryInv
<1>2. s.episodes \in Seq(SummaryEntries)
  BY DEF SummaryDocuments
<1>3. DOMAIN s.episodes = 1..Len(begun) /\ Len(s.episodes) = Len(begun)
      /\ \A i \in 1..Len(begun) : s.episodes[i].episode = begun[i]
  BY <1>2 DEF Lists
<1>4. ListedIn(s) = Begun
  BY <1>1, <1>3 DEF ListedIn, Begun
<1>5. begun \in Surjection(1..Len(begun), Begun)
  BY <1>1 DEF Surjection, Begun
<1>6. begun \in Injection(1..Len(begun), Begun)
  <2>1. \A i, j \in 1..Len(begun) : begun[i] = begun[j] => i = j
    <3>1. \A i \in 1..Len(begun) : begun[i] = Configured[i] /\ i \in DOMAIN Configured
      <4>1. Configured \in Seq(STRING) /\ Len(begun) <= Len(Configured)
        BY ConfiguredAssumption DEF MemoryInv
      <4>2. \A i \in 1..Len(begun) : i \in 1..Len(Configured)
        BY <1>1, <4>1
      <4> QED BY <1>1, <4>1, <4>2 DEF MemoryInv
    <3> QED BY <3>1, ConfiguredAssumption
  <2>2. begun \in [1..Len(begun) -> Begun]
    BY <1>1 DEF Begun
  <2> QED BY <2>1, <2>2 DEF Injection, IsInjective
<1>7. IsFiniteSet(1..Len(begun)) /\ Cardinality(1..Len(begun)) = Len(begun)
  <2>1. 1 \in Int /\ Len(begun) \in Int
    BY <1>1
  <2>2. /\ IsFiniteSet(1..Len(begun))
        /\ Cardinality(1..Len(begun)) = IF 1 > Len(begun) THEN 0 ELSE Len(begun) - 1 + 1
    BY <2>1, FS_Interval
  <2> QED BY <1>1, <2>2
<1>8. Cardinality(Begun) = Cardinality(1..Len(begun))
  BY <1>5, <1>6, <1>7, FS_Surjection
<1> QED BY <1>1, <1>3, <1>4, <1>7, <1>8 DEF Begun

(* What is on disk once every call that opens a directory has returned.     *)
LEMMA OpenedShows ==
  ASSUME DiskInv, MemoryInv, DocumentsReadable, PresentInv, ListedInv, Opened
  PROVE  /\ \A p \in Paths : p[1] = Root \/ p[1] \in Begun => disk[p] # Absent
         /\ disk[Config] = Configured
         /\ disk[Metadata] \in [complete : BOOLEAN]
         /\ disk[Summary] \in SummaryDocuments /\ Lists(disk[Summary])
<1>1. ASSUME NEW p \in Paths, p[1] = Root \/ p[1] \in Begun
      PROVE  disk[p] # Absent
  <2>1. p[1] \in promised.opened
    BY <1>1 DEF Opened, Root
  <2> QED BY <2>1 DEF PresentInv, NoneMissing, Shows
<1>2. disk[Config] # Absent /\ disk[Metadata] # Absent /\ disk[Summary] # Absent
  BY <1>1, RootNames, RootParts
<1>3. \A p \in Paths : disk[p] # Absent => IsReadable(p, disk[p]) /\ IsDocument(p, disk[p])
  BY DEF DocumentsReadable, DiskInv, Shows
<1>4. disk[Config] = Configured /\ disk[Summary] \in SummaryDocuments
  BY <1>2, <1>3, RootNames DEF IsReadable
<1>5. disk[Metadata] \in [complete : BOOLEAN]
  BY <1>2, <1>3, RootNames DEF IsDocument
<1>6. Lists(disk[Summary])
  BY DEF ListedInv, Shows
<1> QED BY <1>1, <1>4, <1>5, <1>6

LEMMA EpisodeShows ==
  ASSUME DiskInv, MemoryInv, DocumentsReadable, PresentInv, ListedInv, Opened, NEW e \in Begun
  PROVE  /\ e \in Episodes
         /\ \A n \in EpisodeFiles : <<e, n>> \in Paths /\ disk[<<e, n>>] # Absent
         /\ disk[EpisodeOf(e)] = e
         /\ disk[MetricsOf(e)] \in MetricsDocuments /\ ReadableMetrics(disk[MetricsOf(e)])
         /\ ReadableTrajectory(disk[TrajectoryOf(e)])
         /\ ReadableEvents(disk[EventsOf(e)])
<1>1. e \in Episodes
  BY EpisodesInOrder
<1>2. \A n \in EpisodeFiles : <<e, n>> \in Paths /\ <<e, n>>[1] = e
  BY <1>1 DEF Paths
<1>3. \A n \in EpisodeFiles : disk[<<e, n>>] # Absent
  BY <1>2, OpenedShows
<1>4. \A p \in Paths : disk[p] # Absent => IsReadable(p, disk[p]) /\ IsDocument(p, disk[p])
  BY DEF DocumentsReadable, DiskInv, Shows
<1>5. /\ disk[EpisodeOf(e)] # Absent /\ disk[MetricsOf(e)] # Absent
      /\ disk[TrajectoryOf(e)] # Absent /\ disk[EventsOf(e)] # Absent
  BY <1>3 DEF EpisodeFiles, EpisodeOf, MetricsOf, TrajectoryOf, EventsOf
<1>6. disk[EpisodeOf(e)] = e
  BY <1>1, <1>4, <1>5, EpisodeNames, EpisodeParts DEF IsDocument
<1>7. disk[MetricsOf(e)] \in MetricsDocuments
  BY <1>1, <1>4, <1>5, EpisodeNames, EpisodeParts DEF IsDocument
<1>8. ReadableMetrics(disk[MetricsOf(e)])
  BY <1>1, <1>4, <1>5, EpisodeNames, EpisodeParts DEF IsReadable
<1>9. ReadableTrajectory(disk[TrajectoryOf(e)])
  BY <1>1, <1>4, <1>5, EpisodeNames, EpisodeParts DEF IsReadable
<1>10. ReadableEvents(disk[EventsOf(e)])
  BY <1>1, <1>4, <1>5, EpisodeNames, EpisodeParts DEF IsReadable
<1> QED BY <1>1, <1>2, <1>3, <1>6, <1>7, <1>8, <1>9, <1>10

(* A complete result is the one that was promised, and a manifest promises  *)
(* a complete result of each episode.                                       *)
LEMMA ResultShows ==
  ASSUME Inv, ReadableInv, Opened, NEW e \in Begun
  PROVE  /\ disk[MetricsOf(e)].complete =>
              Len(disk[TrajectoryOf(e)]) = disk[MetricsOf(e)].samples
         /\ buffer[e].complete =>
              disk[MetricsOf(e)].complete /\ disk[MetricsOf(e)].reason = buffer[e].reason
<1>0. /\ e \in Episodes /\ disk[MetricsOf(e)] # Absent /\ disk[TrajectoryOf(e)] # Absent
  <2>1. e \in Episodes /\ \A n \in EpisodeFiles : disk[<<e, n>>] # Absent
    BY EpisodeShows DEF Inv, ReadableInv
  <2> QED BY <2>1 DEF EpisodeFiles, MetricsOf, TrajectoryOf
<1>1. ASSUME disk[MetricsOf(e)].complete
      PROVE  /\ promised.results[e] # Absent
             /\ disk[MetricsOf(e)] = promised.results[e].metrics
             /\ disk[TrajectoryOf(e)] = promised.results[e].trajectory
  <2>1. Complete(disk[MetricsOf(e)])
    BY <1>0, <1>1 DEF Complete
  <2>2. Fixed(e)
    BY <1>0, <2>1, ShownComplete DEF Inv, FixedInv
  <2> QED BY <1>0, <2>1, <2>2 DEF Fixed, Shows
<1>2. disk[MetricsOf(e)].complete => Len(disk[TrajectoryOf(e)]) = disk[MetricsOf(e)].samples
  BY <1>0, <1>1 DEF ReadableInv, ResultsAgree
<1>3. ASSUME buffer[e].complete
      PROVE  disk[MetricsOf(e)].complete /\ disk[MetricsOf(e)].reason = buffer[e].reason
  <2>1. disk[MetricsOf(e)].complete
    BY <1>0, <1>3 DEF ReadableInv, ConfirmedInv, Shows, Complete
  <2>2. buffer[e].reason = promised.results[e].metrics.reason
    BY <1>0, <1>3 DEF ReadableInv, ResultsAgree
  <2> QED BY <1>1, <2>1, <2>2
<1> QED BY <1>2, <1>3

LEMMA ManifestShows ==
  ASSUME Inv, ReadableInv, Complete(disk[Metadata]), promised.closed # "failed"
  PROVE  /\ Begun = Episodes /\ \A e \in Episodes : buffer[e].complete
         /\ disk[Summary] = SummaryDocument(TRUE)
<1>1. ShowsComplete(Metadata)
  BY ShownComplete
<1>2. Sealed
  BY <1>1 DEF Inv, SealInv
<1>3. disk[Summary] = SummaryDocument(TRUE)
  BY <1>1 DEF ReadableInv, MarkedInv, Marked, Shows
<1> QED BY <1>2, <1>3 DEF Sealed

LEMMA EpisodeAccepted ==
  ASSUME Inv, ReadableInv, Opened, litter = {}, NEW entry, entry.episode \in Begun,
         Complete(disk[Metadata]) =>
           /\ buffer[entry.episode].complete /\ entry.complete = TRUE
           /\ entry.reason = buffer[entry.episode].reason
  PROVE  AcceptsEpisode(Snapshot, entry)
<1> DEFINE e == entry.episode
<1>0. e \in Begun /\ e \in Episodes /\ e \in Directories
  BY EpisodesInOrder, EpisodeNames DEF Inv
<1> HIDE DEF e
<1>1. /\ \A n \in EpisodeFiles : <<e, n>> \in Paths /\ disk[<<e, n>>] # Absent
      /\ disk[EpisodeOf(e)] = e
      /\ disk[MetricsOf(e)] \in MetricsDocuments /\ ReadableMetrics(disk[MetricsOf(e)])
      /\ ReadableTrajectory(disk[TrajectoryOf(e)])
      /\ ReadableEvents(disk[EventsOf(e)])
  BY <1>0, EpisodeShows DEF Inv, ReadableInv
<1>2. /\ disk[MetricsOf(e)].complete =>
           Len(disk[TrajectoryOf(e)]) = disk[MetricsOf(e)].samples
      /\ buffer[e].complete =>
           disk[MetricsOf(e)].complete /\ disk[MetricsOf(e)].reason = buffer[e].reason
  BY <1>0, ResultShows
<1>3. Snapshot[Listing(e)] = EpisodeFiles
  <2>1. e # Root
    BY <1>0, RootNames
  <2>2. Snapshot[Listing(e)] = {n \in EpisodeFiles : disk[<<e, n>>] # Absent}
    BY <1>0, <2>1, SnapshotShows DEF FilesOf
  <2> QED BY <1>1, <2>2
<1>4. /\ Snapshot[EpisodeOf(e)] = disk[EpisodeOf(e)] /\ Snapshot[MetricsOf(e)] = disk[MetricsOf(e)]
      /\ Snapshot[TrajectoryOf(e)] = disk[TrajectoryOf(e)] /\ Snapshot[EventsOf(e)] = disk[EventsOf(e)]
      /\ Snapshot[Config] = disk[Config] /\ Snapshot[Metadata] = disk[Metadata]
  BY <1>0, EpisodeNames, RootNames, SnapshotShows
<1>5. disk[Config] = Configured /\ disk[Metadata] \in [complete : BOOLEAN]
  BY OpenedShows DEF Inv, ReadableInv
<1>6. \E i \in DOMAIN Configured : Configured[i] = e
  BY <1>0 DEF Episodes
<1>7. disk[Metadata].complete =>
        entry.complete = disk[MetricsOf(e)].complete /\ entry.reason = disk[MetricsOf(e)].reason
  <2> SUFFICES ASSUME disk[Metadata].complete
               PROVE  entry.complete = disk[MetricsOf(e)].complete /\ entry.reason = disk[MetricsOf(e)].reason
    OBVIOUS
  <2>1. Complete(disk[Metadata])
    BY <1>5, AbsentAssumption DEF Complete
  <2>2. buffer[e].complete /\ entry.complete = TRUE /\ entry.reason = buffer[e].reason
    BY <2>1 DEF e
  <2>3. disk[MetricsOf(e)].complete = TRUE
    BY <1>1, <1>2, <2>2 DEF MetricsDocuments
  <2> QED BY <1>2, <2>2, <2>3
<1>8. /\ Snapshot[Listing(e)] = EpisodeFiles
      /\ Snapshot[EpisodeOf(e)] = e
      /\ \E i \in DOMAIN Snapshot[Config] : Snapshot[Config][i] = e
      /\ ReadableMetrics(Snapshot[MetricsOf(e)])
      /\ Snapshot[Metadata].complete =>
           /\ entry.complete = Snapshot[MetricsOf(e)].complete
           /\ entry.reason = Snapshot[MetricsOf(e)].reason
      /\ Snapshot[MetricsOf(e)].complete =>
           Len(Snapshot[TrajectoryOf(e)]) = Snapshot[MetricsOf(e)].samples
      /\ ReadableTrajectory(Snapshot[TrajectoryOf(e)])
      /\ ReadableEvents(Snapshot[EventsOf(e)])
  BY <1>1, <1>2, <1>3, <1>4, <1>5, <1>6, <1>7
<1> QED BY <1>8 DEF AcceptsEpisode, e, EpisodeOf, MetricsOf, TrajectoryOf, EventsOf

LEMMA CountsAccepted ==
  ASSUME Inv, ReadableInv, Opened, litter = {}, Complete(disk[Metadata]), promised.closed # "failed",
         ListedIn(disk[Summary]) = Begun
  PROVE  CountsAgree(Snapshot)
<1>1. /\ Begun = Episodes /\ \A e \in Episodes : buffer[e].complete
      /\ disk[Summary] = SummaryDocument(TRUE)
  BY ManifestShows
<1>2. /\ Snapshot[Summary] = disk[Summary]
      /\ \A e \in Episodes : Snapshot[MetricsOf(e)] = disk[MetricsOf(e)]
  BY SnapshotShows, RootNames, EpisodeNames
<1>3. ASSUME NEW e \in Episodes
      PROVE  Snapshot[MetricsOf(e)].complete /\ Snapshot[MetricsOf(e)].reason = buffer[e].reason
  BY <1>1, <1>2, ResultShows
<1>4. ListedIn(Snapshot[Summary]) = Episodes
  BY <1>1, <1>2
<1>5. ASSUME NEW r \in Reasons
      PROVE  Snapshot[Summary].counts[r] =
               Cardinality({e \in Episodes : Snapshot[MetricsOf(e)].reason = r})
  <2>1. {e \in Episodes : buffer[e].complete /\ buffer[e].reason = r}
          = {e \in Episodes : Snapshot[MetricsOf(e)].reason = r}
    BY <1>1, <1>3
  <2>2. disk[Summary].counts =
          [x \in Reasons |-> Cardinality({e \in Episodes : buffer[e].complete /\ buffer[e].reason = x})]
    BY <1>1 DEF SummaryDocument
  <2>3. disk[Summary].counts[r] =
          Cardinality({e \in Episodes : buffer[e].complete /\ buffer[e].reason = r})
    BY <2>2
  <2> QED BY <1>2, <2>1, <2>3
<1> QED BY <1>3, <1>4, <1>5 DEF CountsAgree, MetricsOf

LEMMA SnapshotAccepted ==
  ASSUME Inv, ReadableInv, Opened, litter = {}, promised.closed # "failed"
  PROVE  Accepts(Snapshot)
<1> DEFINE s == disk[Summary]
<1>1. /\ \A p \in Paths : p[1] = Root \/ p[1] \in Begun => disk[p] # Absent
      /\ disk[Metadata] \in [complete : BOOLEAN]
      /\ s \in SummaryDocuments /\ Lists(s)
  BY OpenedShows DEF Inv, ReadableInv
<1>2. Snapshot[Metadata] = disk[Metadata] /\ Snapshot[Summary] = s
  BY SnapshotShows, RootNames
<1>3. disk[Metadata].complete => Complete(disk[Metadata])
  BY <1>1, AbsentAssumption DEF Complete
<1>4. /\ DOMAIN s.episodes = 1..Len(begun)
      /\ \A i \in 1..Len(begun) : s.episodes[i].episode = begun[i] /\ begun[i] \in Begun
      /\ ListedIn(s) = Begun /\ Cardinality(Begun) = Len(s.episodes)
  BY <1>1, ListedOnce DEF Inv
<1>5. ASSUME Complete(disk[Metadata])
      PROVE  /\ s.complete = TRUE /\ Begun = Episodes /\ \A e \in Episodes : buffer[e].complete
             /\ \A i \in 1..Len(begun) :
                  /\ s.episodes[i].complete = buffer[begun[i]].complete
                  /\ s.episodes[i].reason = buffer[begun[i]].reason
  <2>1. /\ Begun = Episodes /\ \A e \in Episodes : buffer[e].complete
        /\ s = SummaryDocument(TRUE)
    BY <1>5, ManifestShows
  <2>2. /\ s.complete = TRUE
        /\ s.episodes = [i \in DOMAIN begun |->
                   [episode  |-> begun[i], complete |-> buffer[begun[i]].complete,
                    reason   |-> buffer[begun[i]].reason]]
    BY <2>1 DEF SummaryDocument
  <2>3. DOMAIN begun = 1..Len(begun)
    BY DEF Inv, MemoryInv
  <2> HIDE DEF s
  <2>4. \A i \in 1..Len(begun) :
          s.episodes[i] = [episode  |-> begun[i], complete |-> buffer[begun[i]].complete,
                           reason   |-> buffer[begun[i]].reason]
    BY <2>2, <2>3
  <2>5. \A i \in 1..Len(begun) :
          /\ s.episodes[i].complete = buffer[begun[i]].complete
          /\ s.episodes[i].reason = buffer[begun[i]].reason
    <3> SUFFICES ASSUME NEW i \in 1..Len(begun)
                 PROVE  /\ s.episodes[i].complete = buffer[begun[i]].complete
                        /\ s.episodes[i].reason = buffer[begun[i]].reason
      OBVIOUS
    <3> DEFINE b == buffer[begun[i]]
               entry == s.episodes[i]
    <3>1. entry = [episode |-> begun[i], complete |-> b.complete, reason |-> b.reason]
      BY <2>4
    <3> HIDE DEF b, entry
    <3>2. entry.complete = b.complete /\ entry.reason = b.reason
      BY <3>1
    <3> QED BY <3>2 DEF b, entry
  <2> QED BY <2>1, <2>2, <2>5
<1> HIDE DEF s
<1>6. Snapshot[Listing(Root)] = RootFiles
  <2>1. Snapshot[Listing(Root)] = {n \in RootFiles : disk[<<Root, n>>] # Absent}
    BY SnapshotShows, RootNames DEF FilesOf
  <2>2. \A n \in RootFiles : <<Root, n>> \in Paths /\ <<Root, n>>[1] = Root
    BY DEF Paths
  <2> QED BY <1>1, <2>1, <2>2
<1>7. Snapshot[Listing("episodes")] = Begun
  <2>1. Snapshot[Listing("episodes")] = {e \in Episodes : disk[Entry(e)] # Absent}
    BY SnapshotShows
  <2>2. ASSUME NEW e \in Episodes
        PROVE  disk[Entry(e)] # Absent <=> e \in Begun
    <3>1. e \in Begun => disk[Entry(e)] # Absent
      BY <1>1, EpisodeNames, EpisodeParts
    <3>2. e \notin Begun => disk[Entry(e)] = Absent
      BY DEF ReadableInv, DirectoriesInv, Shows
    <3> QED BY <3>1, <3>2
  <2>3. Begun \subseteq Episodes
    BY EpisodesInOrder DEF Inv
  <2> QED BY <2>1, <2>2, <2>3
<1>8. \A i \in 1..Len(begun) : AcceptsEpisode(Snapshot, s.episodes[i])
  <2> SUFFICES ASSUME NEW i \in 1..Len(begun) PROVE AcceptsEpisode(Snapshot, s.episodes[i])
    OBVIOUS
  <2>1. s.episodes[i].episode = begun[i] /\ begun[i] \in Begun
    BY <1>4
  <2>2. Complete(disk[Metadata]) =>
          /\ buffer[begun[i]].complete = TRUE /\ s.episodes[i].complete = TRUE
          /\ s.episodes[i].reason = buffer[begun[i]].reason
    <3>1. buffer[begun[i]].complete \in BOOLEAN
      BY <2>1, EpisodesInOrder, BufferTypes DEF Inv, BufferType
    <3> QED BY <1>5, <2>1, <3>1
  <2> QED BY <2>1, <2>2, EpisodeAccepted
<1>9. disk[Metadata].complete => CountsAgree(Snapshot)
  BY <1>3, <1>4, CountsAccepted DEF s
<1>10. disk[Metadata].complete => s.complete
  BY <1>3, <1>5
<1> QED BY <1>2, <1>4, <1>6, <1>7, <1>8, <1>9, <1>10 DEF Accepts

-----------------------------------------------------------------------------
(* InterruptedReadable (Results.tla), what holds of the promise of          *)
(* rh_experiment/README.md:41: once start() and every begin_episode() have  *)
(* returned, and without a temporary file or a finish() that has failed,    *)
(* the reader accepts the tree at every instant between two replacements,   *)
(* after failed writes and after a crash or a power loss.                   *)
(* Without the first hypothesis a power loss may take a whole directory     *)
(* away, without the second the reader splits the line of an event.         *)
THEOREM InterruptedTreesAreReadable ==
  ASSUME EntriesSynced, Texts \cap LineBreaking = {}
  PROVE  Spec => []InterruptedReadable
<1>1. Init => Inv /\ ReadableInv
  BY InitInv, InitReadable
<1>2. Inv /\ ReadableInv /\ [Next]_vars => (Inv /\ ReadableInv)'
  BY NextInv, NextReadable
<1>3. Inv /\ ReadableInv => InterruptedReadable
  BY SnapshotAccepted DEF InterruptedReadable, Opened
<1> QED BY <1>1, <1>2, <1>3, PTL DEF Spec

=============================================================================
