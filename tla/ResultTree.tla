----------------------------- MODULE ResultTree -----------------------------
(***************************************************************************)
(* The result tree of one experiment (RESULT_SCHEMA.md) as its documents,  *)
(* and the independent reader's judgement of it, validate_result_tree.     *)
(*                                                                         *)
(* A path is a directory and a name in it; the name "." stands for the     *)
(* entry of the directory itself in its parent.  A document is what the    *)
(* reader can tell apart: identities and schema versions are right by      *)
(* construction of the writer, and numbers are what the comparisons of the *)
(* reader need of them.                                                    *)
(***************************************************************************)
EXTENDS Integers, Sequences, FiniteSets

CONSTANTS Configured,     \* the episodes of the configuration, in order
          Absent,         \* no document at a path
          Directory,      \* what a directory's entry holds
          LineBreaking    \* the texts that hold a Unicode line boundary

ASSUME ConfiguredAssumption ==
  /\ Configured \in Seq(STRING) /\ Configured # <<>>
  /\ \A i, j \in DOMAIN Configured : Configured[i] = Configured[j] => i = j
  /\ \A i \in DOMAIN Configured : Configured[i] \notin {"root", "episodes"}

Episodes == {Configured[i] : i \in DOMAIN Configured}

Reasons == {"SUCCESS", "TIMEOUT", "ABORTED"}

-----------------------------------------------------------------------------
(* Layout.                                                                  *)

Root == "root"
Directories == {Root} \cup Episodes

RootFiles == {"config", "metadata", "summary", "episodes"}
EpisodeFiles == {"episode", "events", "trajectory", "metrics"}
FilesOf(d) == IF d = Root THEN RootFiles ELSE EpisodeFiles

Entry(d) == <<d, ".">>
Config == <<Root, "config">>
Metadata == <<Root, "metadata">>
Summary == <<Root, "summary">>
EpisodesDirectory == <<Root, "episodes">>
Paths == {Entry(d) : d \in Directories} \cup ({Root} \X RootFiles)
           \cup (Episodes \X EpisodeFiles)

(* The three listings the reader makes: of the root, of an episode's        *)
(* directory, and of the directory "episodes".                              *)
Listing(d) == <<d, "ls">>
Listings == {Listing(d) : d \in Directories} \cup {Listing("episodes")}

-----------------------------------------------------------------------------
(* Typed inputs (models.py): what the constructors let pass.                *)

ValidMetrics(m) ==
  /\ m.reason \in Reasons
  /\ m.success = (m.reason = "SUCCESS")
  /\ m.timeout = (m.reason = "TIMEOUT")
  /\ m.samples >= 0

EpisodeMetrics ==
  {m \in [reason : Reasons \cup {"NONE"}, success : BOOLEAN, timeout : BOOLEAN,
          samples : Nat] : ValidMetrics(m)}

TrajectoryPoints == [time : Nat, frame : STRING]

-----------------------------------------------------------------------------
(* The reader.  c is what it has found: the document at each path and the   *)
(* result of each listing.                                                  *)

(* A text is split at every Unicode line boundary (str.splitlines) and the  *)
(* fragments of a JSON object are not JSON.                                 *)
ReadableEvents(events) ==
  \A i \in DOMAIN events : events[i].sequence = i - 1 /\ events[i].text \notin LineBreaking

ReadableTrajectory(points) ==
  /\ \A i \in DOMAIN points : points[i].time >= 0
  /\ \A i, j \in DOMAIN points : i < j => points[i].time < points[j].time

ReadableMetrics(m) ==
  IF m.complete
  THEN /\ m.reason \in Reasons
       /\ m.success = (m.reason = "SUCCESS")
       /\ m.timeout = (m.reason = "TIMEOUT")
  ELSE m.reason = "NONE"

AcceptsEpisode(c, entry) ==
  LET e == entry.episode
      metrics == c[<<e, "metrics">>]
      trajectory == c[<<e, "trajectory">>]
  IN  /\ c[Listing(e)] = EpisodeFiles
      /\ c[<<e, "episode">>] = e
      /\ \E i \in DOMAIN c[Config] : c[Config][i] = e
      /\ ReadableMetrics(metrics)
      /\ c[Metadata].complete =>
           entry.complete = metrics.complete /\ entry.reason = metrics.reason
      /\ metrics.complete => Len(trajectory) = metrics.samples
      /\ ReadableTrajectory(trajectory)
      /\ ReadableEvents(c[<<e, "events">>])

ListedIn(summary) == {summary.episodes[i].episode : i \in DOMAIN summary.episodes}

(* The checks that only a complete manifest must pass.                      *)
CountsAgree(c) ==
  LET listed == ListedIn(c[Summary])
      With(r) == {e \in listed : c[<<e, "metrics">>].reason = r}
  IN  /\ \A e \in listed : c[<<e, "metrics">>].complete
      /\ \A r \in Reasons : c[Summary].counts[r] = Cardinality(With(r))

Accepts(c) ==
  /\ c[Listing(Root)] = RootFiles
  /\ c[Metadata].complete => c[Summary].complete
  /\ \A i \in DOMAIN c[Summary].episodes : AcceptsEpisode(c, c[Summary].episodes[i])
  /\ Cardinality(ListedIn(c[Summary])) = Len(c[Summary].episodes)
  /\ c[Listing("episodes")] = ListedIn(c[Summary])
  /\ c[Metadata].complete => CountsAgree(c)

=============================================================================
