--------------------------- MODULE Harness_proofs ---------------------------
(***************************************************************************)
(* What Harness.cfg checks for two episodes and one fault, for every       *)
(* number of episodes and of faults, every watchdog, and whether or not    *)
(* snapshots arrive late.                                                  *)
(***************************************************************************)
EXTENDS Harness, TLAPS

EndPhases == {"TERMINATING", "FINISHED"}

SnapshotRec == [episode : Episodes, sequence : 0..4, phase : Phases]
NodeRec == [status : Statuses, alive : BOOLEAN, episode : Episodes \cup {NoEpisode},
            last : 0..4 \cup {Unset}, running : BOOLEAN]

Waiting(c) == At(Calls[c].wait)

RunAnnounced(episode) == Announced(episode, {"RUNNING"})

-----------------------------------------------------------------------------
(* The inductive invariant, one part for each idea.                         *)

(* Phase, sequence number and place of the control thread.                  *)
WorkerInv ==
  /\ worker = [episode |-> worker.episode, phase |-> worker.phase,
               sequence |-> worker.sequence, pc |-> worker.pc,
               stopping |-> worker.stopping]
  /\ worker.phase = "PREPARING" => worker.sequence = 0
  /\ worker.phase = "READY" => worker.sequence = 1
  /\ worker.phase = "RUNNING" => worker.sequence = 2
  /\ worker.phase = "TERMINATING" => worker.sequence <= 3
  /\ worker.pc \in {"advance", "over"} <=> worker.phase = "FINISHED"
  /\ worker.pc \notin {"loop", "advance", "over"} => worker.phase = "PREPARING"
  /\ worker.pc = "advance" => ~worker.stopping /\ worker.episode < NumEpisodes
  /\ worker.stopping => worker.phase \in EndPhases

(* Nothing of an episode to come is published, and of the current one       *)
(* nothing later than its phase; in every episode the run comes before the  *)
(* end.                                                                     *)
PublishedInv ==
  /\ \A m \in published :
       /\ m.episode <= worker.episode
       /\ m.phase = "RUNNING" => m.sequence = 2
       /\ m.episode = worker.episode =>
            /\ m.sequence <= worker.sequence
            /\ m.phase \in EndPhases => worker.phase \in EndPhases
            /\ m.phase = "RUNNING" => worker.phase \in {"RUNNING"} \cup EndPhases
  /\ \A m, n \in published :
       m.episode = n.episode /\ m.phase = "RUNNING" /\ n.phase \in EndPhases
         => m.sequence < n.sequence
  /\ Snapshot(worker) \in published

(* The places at which the control thread has the answer of the component,  *)
(* or will take it next.                                                    *)
EnvReset ==
  \/ worker.pc \in {"Agent call", "Agent wait", "task"}
  \/ worker.phase \in {"READY", "RUNNING"}
  \/ answer["Env"] # None /\ answer["Env"] = "success"
  \/ request["Agent"] # NoEpisode

AgentReset ==
  \/ worker.pc = "task"
  \/ worker.phase \in {"READY", "RUNNING"}
  \/ answer["Agent"] # None /\ answer["Agent"] = "success"

Prepared(c) == node[c].alive => node[c].episode = worker.episode

(* A call is answered only while it waits; a request that outlives its call *)
(* belongs to an experiment that is stopping, and never to an episode that  *)
(* ran.                                                                     *)
CallInv ==
  /\ \A c \in Components :
       /\ answer[c] # None => Waiting(c) /\ request[c] = NoEpisode
       /\ request[c] # NoEpisode =>
            /\ request[c] = worker.episode
            /\ Waiting(c) \/ worker.stopping
            /\ ~RunAnnounced(worker.episode)
       /\ node[c].alive /\ node[c].status = "RESETTING" => request[c] # NoEpisode
       /\ ~node[c].alive =>
            node[c].episode = NoEpisode /\ ~node[c].running /\ request[c] = NoEpisode
       /\ node[c].episode <= worker.episode
  /\ EnvReset => Prepared("Env")
  /\ AgentReset => Prepared("Agent") /\ wire \in {None, Zero, worker.episode}

(* A node runs by the RUNNING snapshot it took last; no live node is behind *)
(* an episode that ran, and the Agent is never ahead of the Env; once the   *)
(* run of the Env's episode is announced, only its commands are on the way. *)
RunInv ==
  /\ \A c \in Components :
       node[c].running =>
         \E m \in published : /\ m.episode = node[c].episode
                              /\ m.phase = "RUNNING"
                              /\ m.sequence = node[c].last
  /\ \A c \in Components, m \in published :
       m.phase = "RUNNING" /\ node[c].alive => m.episode <= node[c].episode
  /\ node["Env"].alive => node["Agent"].episode <= node["Env"].episode
  /\ RunAnnounced(node["Env"].episode) => wire \in {None, Zero, node["Env"].episode}

Inv == HarnessTypeOK /\ WorkerInv /\ PublishedInv /\ CallInv /\ RunInv /\ ObeysItsOwnRun

-----------------------------------------------------------------------------
(* The type invariant, flattened.                                           *)
WorkerTyped ==
  /\ worker.episode \in Episodes /\ worker.phase \in Phases
  /\ worker.sequence \in 0..4
  /\ worker.stopping \in BOOLEAN

MessagesTyped ==
  published \subseteq SnapshotRec /\ inbox \in [Components -> published \cup {None}]

NodesTyped == node \in [Components -> NodeRec]

OthersTyped ==
  /\ ready \in [Components -> BOOLEAN]
  /\ tracker \in [Components -> [state : {"READY", "ERROR", None}, fresh : BOOLEAN]]
  /\ request \in [Components -> Episodes \cup {NoEpisode}]
  /\ answer \in [Components -> {None, "success", "failure"}]
  /\ taskInbox \in Episodes \cup {NoEpisode} /\ hasTask \in BOOLEAN
  /\ wire \in Episodes \cup {Zero, None} /\ command \in Episodes \cup {Zero}
  /\ silence \in 0..WatchdogSteps /\ faults \in 0..MaxFaults

LEMMA TypeParts ==
  HarnessTypeOK <=> WorkerTyped /\ MessagesTyped /\ NodesTyped /\ OthersTyped
BY DEF HarnessTypeOK, WorkerTyped, MessagesTyped, NodesTyped, OthersTyped, SnapshotRec,
  NodeRec

LEMMA TypePartsNext ==
  (WorkerTyped /\ MessagesTyped /\ NodesTyped /\ OthersTyped)' => HarnessTypeOK'
BY TypeParts, PTL

(* Numbers of episodes are positive, the absent one is not.                 *)
LEMMA EpisodeFacts ==
  /\ \A e \in Episodes : e \in Nat /\ e # NoEpisode /\ e # Zero
  /\ NumEpisodes \in Nat \ {0}
  /\ 1 \in Episodes
BY HarnessAssumption DEF Episodes, NoEpisode, Zero

-----------------------------------------------------------------------------
(* The control thread.                                                      *)

(* It goes on within a phase.                                               *)
LEMMA WorkerGoes ==
  ASSUME Inv, NEW p,
         worker' = [worker EXCEPT !.pc = p], UNCHANGED <<published, inbox>>,
         worker.phase # "FINISHED", p \notin {"advance", "over"},
         p # "loop" => worker.phase = "PREPARING"
  PROVE  /\ WorkerInv' /\ PublishedInv' /\ WorkerTyped' /\ MessagesTyped'
         /\ worker'.pc = p
         /\ UNCHANGED <<worker.episode, worker.phase, worker.sequence, worker.stopping>>
<1>1. worker' = [episode |-> worker.episode, phase |-> worker.phase,
                 sequence |-> worker.sequence, pc |-> p, stopping |-> worker.stopping]
  BY DEF Inv, WorkerInv
<1>2. WorkerInv' /\ WorkerTyped'
  BY <1>1, TypeParts DEF Inv, WorkerInv, WorkerTyped, EndPhases
<1>3. PublishedInv'
  BY <1>1 DEF Inv, PublishedInv, Snapshot
<1>4. MessagesTyped'
  BY TypeParts DEF Inv, MessagesTyped
<1> QED BY <1>1, <1>2, <1>3, <1>4

(* Publishing the snapshot of a well-formed worker keeps the messages typed. *)
LEMMA PublishTyped ==
  ASSUME Inv, WorkerTyped', PublishState(worker')
  PROVE  /\ MessagesTyped'
         /\ published' = published \cup {Snapshot(worker)'}
         /\ Snapshot(worker)' = [episode |-> worker'.episode,
                                 sequence |-> worker'.sequence, phase |-> worker'.phase]
<1> DEFINE s == [episode |-> worker'.episode, sequence |-> worker'.sequence,
                 phase |-> worker'.phase]
<1>1. /\ published' = published \cup {s}
      /\ inbox' = [c \in Components |-> IF node[c].alive THEN s ELSE None]
  BY DEF PublishState, Snapshot
<1>2. s \in SnapshotRec
  BY DEF WorkerTyped, SnapshotRec
<1> HIDE DEF s
<1>3. MessagesTyped'
  BY <1>1, <1>2, TypeParts DEF Inv, MessagesTyped
<1> QED BY <1>1, <1>3 DEF s, Snapshot

(* It moves the episode to its next phase.                                  *)
Moves(phase, p, stop) ==
  /\ worker' = [worker EXCEPT !.phase = phase, !.pc = p,
                              !.sequence = worker.sequence + 1, !.stopping = stop]
  /\ PublishState(worker')
  /\ p = IF phase # "FINISHED" THEN "loop"
         ELSE IF stop \/ worker.episode = NumEpisodes THEN "over" ELSE "advance"
  /\ stop => phase \in EndPhases

(* It moves the episode to its next phase.                                  *)
LEMMA WorkerMoves ==
  ASSUME Inv, NEW phase \in {"READY", "RUNNING", "TERMINATING", "FINISHED"}, NEW p,
         NEW stop \in BOOLEAN,
         Moves(phase, p, stop),
         phase = "READY" => worker.phase = "PREPARING",
         phase = "RUNNING" => worker.phase = "READY",
         phase = "TERMINATING" => worker.phase \in {"PREPARING", "READY", "RUNNING"},
         phase = "FINISHED" => worker.phase = "TERMINATING"
  PROVE  /\ WorkerInv' /\ PublishedInv' /\ WorkerTyped' /\ MessagesTyped'
         /\ worker'.phase = phase /\ worker'.pc = p /\ worker'.stopping = stop
         /\ worker'.episode = worker.episode
         /\ published \subseteq published'
         /\ \A m \in published' :
              m \in published \/ (m.phase = phase /\ m.episode = worker.episode)
<1>0. /\ p = IF phase # "FINISHED" THEN "loop"
            ELSE IF stop \/ worker.episode = NumEpisodes THEN "over" ELSE "advance"
      /\ stop => phase \in EndPhases
      /\ PublishState(worker')
  BY DEF Moves
<1>1. worker' = [episode |-> worker.episode, phase |-> phase,
                 sequence |-> worker.sequence + 1, pc |-> p, stopping |-> stop]
  BY DEF Inv, WorkerInv, Moves
<1>2. WorkerTyped
  BY TypeParts DEF Inv
<1>3. worker.sequence \in 0..3
  BY <1>2 DEF Inv, WorkerInv, WorkerTyped
<1>4. WorkerTyped'
  BY <1>1, <1>2, <1>3 DEF WorkerTyped, Phases
<1>5. worker.episode \in Nat /\ NumEpisodes \in Nat /\ worker.episode <= NumEpisodes
  BY <1>2, HarnessAssumption DEF WorkerTyped, Episodes
<1>6. WorkerInv'
  <2>1. /\ worker'.episode = worker.episode /\ worker'.phase = phase
        /\ worker'.sequence = worker.sequence + 1 /\ worker'.pc = p
        /\ worker'.stopping = stop
    BY <1>1
  <2>2. worker' = [episode |-> worker'.episode, phase |-> worker'.phase,
                   sequence |-> worker'.sequence, pc |-> worker'.pc,
                   stopping |-> worker'.stopping]
    BY <1>1
  <2>3. /\ phase = "READY" => worker.sequence + 1 = 1
        /\ phase = "RUNNING" => worker.sequence + 1 = 2
        /\ phase = "TERMINATING" => worker.sequence + 1 <= 3
    BY <1>3 DEF Inv, WorkerInv
  <2>4. /\ p \in {"advance", "over"} <=> phase = "FINISHED"
        /\ p \notin {"loop", "advance", "over"} => phase = "PREPARING"
    BY <1>0
  <2>5. p = "advance" => ~stop /\ worker.episode < NumEpisodes
    BY <1>0, <1>5
  <2> QED BY <1>0, <2>1, <2>2, <2>3, <2>4, <2>5 DEF WorkerInv
<1> DEFINE s == [episode |-> worker.episode, sequence |-> worker.sequence + 1,
                 phase |-> phase]
<1>7. MessagesTyped' /\ published' = published \cup {s}
  BY <1>0, <1>1, <1>4, PublishTyped
<1>8. /\ s.episode = worker.episode /\ s.sequence = worker.sequence + 1
      /\ s.phase = phase
  OBVIOUS
<1>11. Snapshot(worker)' = s
  BY <1>1 DEF Snapshot
<1> HIDE DEF s
<1>9. PublishedInv'
  <2>1. \A m \in published : m.sequence \in Nat /\ m.episode \in Nat
    BY TypeParts, EpisodeFacts DEF Inv, MessagesTyped, SnapshotRec
  <2>2. ASSUME NEW m \in published'
        PROVE  /\ m.episode <= worker'.episode
               /\ m.phase = "RUNNING" => m.sequence = 2
               /\ m.episode = worker'.episode =>
                    /\ m.sequence <= worker'.sequence
                    /\ m.phase \in EndPhases => worker'.phase \in EndPhases
                    /\ m.phase = "RUNNING" => worker'.phase \in {"RUNNING"} \cup EndPhases
    <3>1. CASE m = s
      BY <1>1, <1>3, <1>5, <1>8, <3>1 DEF Inv, WorkerInv, EndPhases
    <3>2. CASE m \in published
      BY <1>1, <1>3, <1>5, <2>1, <3>2 DEF Inv, PublishedInv, EndPhases
    <3> QED BY <1>7, <3>1, <3>2
  <2>3. ASSUME NEW m \in published', NEW n \in published',
               m.episode = n.episode, m.phase = "RUNNING", n.phase \in EndPhases
        PROVE  m.sequence < n.sequence
    <3>1. CASE m = s
      <4>1. phase = "RUNNING" /\ n.episode = worker.episode /\ n \in published
        BY <1>7, <1>8, <2>3, <3>1 DEF EndPhases
      <4>2. worker.phase \in EndPhases
        BY <2>3, <4>1 DEF Inv, PublishedInv
      <4> QED BY <4>1, <4>2 DEF EndPhases
    <3>2. CASE m \in published /\ n = s
      BY <1>3, <1>8, <2>1, <2>3, <3>2 DEF Inv, PublishedInv
    <3>3. CASE m \in published /\ n \in published
      BY <2>3, <3>3 DEF Inv, PublishedInv
    <3> QED BY <1>7, <3>1, <3>2, <3>3
  <2> QED BY <1>7, <1>11, <2>2, <2>3 DEF PublishedInv
<1>10. /\ published \subseteq published'
       /\ \A m \in published' :
            m \in published \/ (m.phase = phase /\ m.episode = worker.episode)
  BY <1>7, <1>8
<1> QED BY <1>1, <1>4, <1>6, <1>7, <1>9, <1>10

(* The nodes and what is on its way to them stay as they are while a        *)
(* snapshot is published.                                                   *)
LEMMA NodesWait ==
  ASSUME Inv, published \subseteq published', UNCHANGED <<node, wire, command>>,
         \A m \in published' :
           m.phase = "RUNNING" => \/ m \in published
                                  \/ worker.phase = "READY" /\ m.episode = worker.episode,
         published' \subseteq SnapshotRec
  PROVE  RunInv' /\ ObeysItsOwnRun'
<1>1. ASSUME NEW c \in Components, node[c].running
      PROVE  \E m \in published' : /\ m.episode = node[c].episode /\ m.phase = "RUNNING"
                                   /\ m.sequence = node[c].last
  BY <1>1 DEF Inv, RunInv
<1>2. worker.phase = "READY" =>
        /\ Prepared("Env") /\ Prepared("Agent")
        /\ wire \in {None, Zero, worker.episode}
  BY DEF Inv, CallInv, EnvReset, AgentReset
<1>3. ASSUME NEW c \in Components, NEW m \in published', m.phase = "RUNNING", node[c].alive
      PROVE  m.episode <= node[c].episode
  <2>1. CASE m \in published
    BY <1>3, <2>1 DEF Inv, RunInv
  <2>2. CASE worker.phase = "READY" /\ m.episode = worker.episode
    <3>1. node[c].episode = worker.episode
      BY <1>2, <1>3, <2>2 DEF Prepared, Components
    <3>2. worker.episode \in Nat
      BY TypeParts, EpisodeFacts DEF Inv, WorkerTyped
    <3> QED BY <2>2, <3>1, <3>2
  <2> QED BY <1>3, <2>1, <2>2
<1>4. ASSUME NEW m \in published', m.episode = node["Env"].episode, m.phase = "RUNNING"
      PROVE  wire \in {None, Zero, node["Env"].episode}
  <2>1. CASE m \in published
    BY <1>4, <2>1 DEF Inv, RunInv, RunAnnounced, Announced
  <2>2. CASE worker.phase = "READY" /\ m.episode = worker.episode
    <3>1. m.episode # NoEpisode
      BY EpisodeFacts DEF SnapshotRec
    <3>2. node["Env"].alive
      BY <1>4, <3>1 DEF Inv, CallInv, Components
    <3> QED BY <1>2, <1>4, <2>2, <3>2 DEF Prepared
  <2> QED BY <1>4, <2>1, <2>2
<1>5. RunInv'
  BY <1>1, <1>3, <1>4 DEF Inv, RunInv, RunAnnounced, Announced
<1>6. ObeysItsOwnRun'
  BY DEF Inv, ObeysItsOwnRun, Announced
<1> QED BY <1>5, <1>6

(* What the two ends of the calls see of a step of the control thread that  *)
(* is not in a call.                                                        *)
LEMMA CallsWait ==
  ASSUME Inv, UNCHANGED <<node, request, answer, wire>>,
         worker.pc \notin {"Env wait", "Agent wait"},
         worker'.episode = worker.episode,
         worker.stopping => worker'.stopping,
         \A m \in published' :
           m.phase = "RUNNING" => m \in published \/ worker.phase = "READY",
         worker'.pc \in {"Agent call", "Agent wait", "task"}
           => worker.pc \in {"Agent call", "Agent wait", "task"},
         worker'.pc = "task" => worker.pc = "task",
         worker'.phase \in {"READY", "RUNNING"}
           => worker.pc = "task" \/ worker.phase \in {"READY", "RUNNING"}
  PROVE  CallInv'
<1>1. ASSUME NEW c \in Components
      PROVE  answer[c] = None
  BY <1>1 DEF Inv, CallInv, Waiting, At, Calls, Components
<1>2. ASSUME NEW c \in Components, request[c] # NoEpisode
      PROVE  /\ worker.stopping /\ request[c] = worker.episode
             /\ ~RunAnnounced(worker.episode)'
  <2>1. worker.stopping
    BY <1>2 DEF Inv, CallInv, Waiting, At, Calls, Components
  <2>2. worker.phase # "READY"
    BY <2>1 DEF Inv, WorkerInv, EndPhases
  <2> QED BY <1>2, <2>1, <2>2 DEF Inv, CallInv, RunAnnounced, Announced
<1>3. EnvReset' => EnvReset
  BY <1>1 DEF EnvReset, Components
<1>4. AgentReset' => AgentReset
  BY <1>1 DEF AgentReset, Components
<1>5. /\ EnvReset' => Prepared("Env")'
      /\ AgentReset' => Prepared("Agent")' /\ wire' \in {None, Zero, worker'.episode}
  BY <1>3, <1>4 DEF Inv, CallInv, Prepared
<1>6. ASSUME NEW c \in Components
      PROVE  /\ answer'[c] = None
             /\ request'[c] # NoEpisode =>
                  /\ request'[c] = worker'.episode
                  /\ worker'.stopping
                  /\ ~RunAnnounced(worker.episode)'
             /\ node'[c].alive /\ node'[c].status = "RESETTING" => request'[c] # NoEpisode
             /\ ~node'[c].alive =>
                  node'[c].episode = NoEpisode /\ ~node'[c].running /\ request'[c] = NoEpisode
             /\ node'[c].episode <= worker'.episode
  BY <1>1, <1>2 DEF Inv, CallInv
<1> QED BY <1>5, <1>6 DEF CallInv, RunAnnounced

(* A step of the control thread outside a call, within the phase ...        *)
LEMMA GoesPreserves ==
  ASSUME Inv, NEW p,
         worker' = [worker EXCEPT !.pc = p], UNCHANGED <<published, inbox>>,
         worker.phase # "FINISHED", p \notin {"advance", "over"},
         p # "loop" => worker.phase = "PREPARING",
         worker.pc \notin {"Env wait", "Agent wait"},
         p \notin {"Agent call", "Agent wait", "task"},
         ready' \in [Components -> BOOLEAN],
         UNCHANGED <<node, request, answer, taskInbox, hasTask, wire, command, silence,
                     faults, tracker>>
  PROVE  Inv'
<1>1. /\ WorkerInv' /\ PublishedInv' /\ WorkerTyped' /\ MessagesTyped'
      /\ worker'.pc = p
      /\ UNCHANGED <<worker.episode, worker.phase, worker.sequence, worker.stopping>>
  BY WorkerGoes
<1>2. RunInv' /\ ObeysItsOwnRun'
  BY <1>1, NodesWait DEF MessagesTyped
<1>3. CallInv'
  BY <1>1, CallsWait
<1>4. NodesTyped' /\ OthersTyped'
  BY TypeParts DEF Inv, NodesTyped, OthersTyped
<1> QED BY <1>1, <1>2, <1>3, <1>4, TypePartsNext DEF Inv

(* ... and to the next one.                                                 *)
LEMMA MovesPreserves ==
  ASSUME Inv, NEW phase \in {"READY", "RUNNING", "TERMINATING", "FINISHED"}, NEW p,
         NEW stop \in BOOLEAN,
         Moves(phase, p, stop),
         phase = "READY" => worker.pc = "task",
         phase = "RUNNING" => worker.phase = "READY",
         phase = "TERMINATING" => worker.phase \in {"PREPARING", "READY", "RUNNING"},
         phase = "FINISHED" => worker.phase = "TERMINATING",
         worker.stopping => stop,
         worker.pc \notin {"Env wait", "Agent wait"},
         ready' \in [Components -> BOOLEAN],
         taskInbox' \in Episodes \cup {NoEpisode},
         UNCHANGED <<node, request, answer, hasTask, wire, command, silence, faults,
                     tracker>>
  PROVE  Inv'
<1>1. phase = "READY" => worker.phase = "PREPARING"
  BY DEF Inv, WorkerInv
<1>2. /\ WorkerInv' /\ PublishedInv' /\ WorkerTyped' /\ MessagesTyped'
      /\ worker'.phase = phase /\ worker'.pc = p /\ worker'.stopping = stop
      /\ worker'.episode = worker.episode
      /\ published \subseteq published'
      /\ \A m \in published' :
           m \in published \/ (m.phase = phase /\ m.episode = worker.episode)
  BY <1>1, WorkerMoves
<1>3. \A m \in published' :
        m.phase = "RUNNING" =>
          m \in published \/ (worker.phase = "READY" /\ m.episode = worker.episode)
  BY <1>2
<1>4. RunInv' /\ ObeysItsOwnRun'
  BY <1>2, <1>3, NodesWait DEF MessagesTyped
<1>5. p \notin {"Agent call", "Agent wait", "task"}
  BY DEF Moves
<1>6. CallInv'
  <2>1. \A m \in published' :
          m.phase = "RUNNING" => m \in published \/ worker.phase = "READY"
    BY <1>3
  <2> QED BY <1>2, <1>5, <2>1, CallsWait
<1>7. NodesTyped' /\ OthersTyped'
  BY TypeParts DEF Inv, NodesTyped, OthersTyped
<1> QED BY <1>2, <1>4, <1>6, <1>7, TypePartsNext DEF Inv

LEMMA MoveIs ==
  ASSUME Inv, NEW phase, Move(phase, "loop"), ~worker.stopping, phase # "FINISHED"
  PROVE  Moves(phase, "loop", worker.stopping) /\ worker.stopping \in BOOLEAN
BY TypeParts DEF Inv, WorkerInv, WorkerTyped, Move, Moves

(* Outside a call: an infrastructure failure, and any other end.            *)
LEMMA FailPreserves ==
  ASSUME Inv, Fail, worker.phase \in {"PREPARING", "READY", "RUNNING"},
         worker.pc \notin {"Env wait", "Agent wait"},
         ready' \in [Components -> BOOLEAN],
         UNCHANGED <<node, request, answer, taskInbox, hasTask, wire, command, silence,
                     faults, tracker>>
  PROVE  Inv'
<1>1. TRUE \in BOOLEAN /\ "TERMINATING" \in EndPhases
  BY DEF EndPhases
<1>2. taskInbox' \in Episodes \cup {NoEpisode}
  BY TypeParts DEF Inv, OthersTyped
<1>3. Moves("TERMINATING", "loop", TRUE)
  BY <1>1 DEF Fail, Moves
<1> QED BY <1>1, <1>2, <1>3, MovesPreserves

LEMMA EndPreserves ==
  ASSUME Inv, Move("TERMINATING", "loop"),
         worker.phase \in {"PREPARING", "READY", "RUNNING"},
         worker.pc \notin {"Env wait", "Agent wait"},
         ready' \in [Components -> BOOLEAN],
         UNCHANGED <<node, request, answer, taskInbox, hasTask, wire, command, silence,
                     faults, tracker>>
  PROVE  Inv'
<1>1. "TERMINATING" \in EndPhases
  BY DEF EndPhases
<1>2. taskInbox' \in Episodes \cup {NoEpisode}
  BY TypeParts DEF Inv, OthersTyped
<1>3. ~worker.stopping
  BY DEF Inv, WorkerInv, EndPhases
<1>4. Moves("TERMINATING", "loop", worker.stopping) /\ worker.stopping \in BOOLEAN
  BY <1>3, MoveIs
<1> QED BY <1>1, <1>2, <1>3, <1>4, MovesPreserves

LEMMA ReadPlaces ==
  ASSUME NEW c \in Components
  PROVE  /\ Reads[c].state \in {"Env state", "Agent state"}
         /\ Reads[c].age \in {"Env age", "Agent age"}
         /\ Reads[c].next \in {"Agent state", "decide"}
<1>1. CASE c = "Env"
  BY <1>1 DEF Reads
<1>2. CASE c = "Agent"
  BY <1>2 DEF Reads
<1> QED BY <1>1, <1>2 DEF Components

LEMMA OutsideCallsPreserves ==
  ASSUME Inv,
         \/ Look \/ Decide \/ DeadlinePasses \/ PublishTask \/ Start \/ Terminate
         \/ HealthTick \/ Finalize
         \/ \E c \in Components : ReadState(c) \/ ReadAge(c)
  PROVE  Inv'
<1> USE DEF At, Go, ros, robot
<1>1. /\ ready \in [Components -> BOOLEAN] /\ taskInbox \in Episodes \cup {NoEpisode}
      /\ worker.episode \in Episodes
  BY TypeParts DEF Inv, OthersTyped, WorkerTyped
<1>2. CASE Look
  BY <1>1, <1>2, GoesPreserves, FailPreserves DEF Look
<1>3. CASE \E c \in Components : ReadState(c)
  <2>1. PICK c \in Components : ReadState(c)
    BY <1>3
  <2>2. /\ Reads[c].state \in {"Env state", "Agent state"}
        /\ Reads[c].age \in {"Env age", "Agent age"}
        /\ Reads[c].next \in {"Agent state", "decide"}
    BY ReadPlaces
  <2>5. worker.pc \in {"Env state", "Agent state"} /\ worker.phase = "PREPARING"
    BY <2>1, <2>2 DEF ReadState, Inv, WorkerInv
  <2>3. \E p \in {Reads[c].age, Reads[c].next} : Go(p)
    BY <2>1 DEF ReadState
  <2> QED BY <1>1, <2>1, <2>2, <2>3, <2>5, GoesPreserves DEF ReadState
<1>4. CASE \E c \in Components : ReadAge(c)
  <2>1. PICK c \in Components : ReadAge(c)
    BY <1>4
  <2>2. /\ Reads[c].age \in {"Env age", "Agent age"}
        /\ Reads[c].next \in {"Agent state", "decide"}
    BY ReadPlaces
  <2>4. worker.pc \in {"Env age", "Agent age"} /\ worker.phase = "PREPARING"
    BY <2>1, <2>2 DEF ReadAge, Inv, WorkerInv
  <2>3. ready' \in [Components -> BOOLEAN]
    BY <1>1, <2>1 DEF ReadAge, IsStale
  <2> QED BY <2>1, <2>2, <2>3, <2>4, GoesPreserves DEF ReadAge
<1>5. CASE Decide
  <2>1. worker.pc = "decide" /\ worker.phase = "PREPARING"
    BY <1>5 DEF Decide, Inv, WorkerInv
  <2>2. ready' \in [Components -> BOOLEAN]
    BY <1>5 DEF Decide
  <2>3. CASE Go("Env call") \/ Go("loop")
    BY <1>5, <2>1, <2>2, <2>3, GoesPreserves DEF Decide
  <2>4. CASE Move("TERMINATING", "loop")
    BY <1>5, <2>1, <2>2, <2>4, EndPreserves DEF Decide
  <2> QED BY <1>5, <2>3, <2>4 DEF Decide
<1>6. CASE DeadlinePasses
  <2>1. worker.pc = "decide" /\ worker.phase = "PREPARING"
    BY <1>6 DEF DeadlinePasses, Inv, WorkerInv
  <2>2. ready' \in [Components -> BOOLEAN]
    BY <1>6 DEF DeadlinePasses
  <2> QED BY <1>6, <2>1, <2>2, FailPreserves DEF DeadlinePasses
<1>7. CASE PublishTask
  <2>1. worker.pc = "task" /\ worker.phase = "PREPARING" /\ ~worker.stopping
    BY <1>7 DEF PublishTask, Inv, WorkerInv, EndPhases
  <2>2. taskInbox' \in Episodes \cup {NoEpisode}
    BY <1>1, <1>7 DEF PublishTask
  <2>3. Move("READY", "loop")
    BY <1>7 DEF PublishTask
  <2>4. Moves("READY", "loop", worker.stopping) /\ worker.stopping \in BOOLEAN
    BY <2>1, <2>3, MoveIs
  <2> QED BY <1>1, <1>7, <2>1, <2>2, <2>4, MovesPreserves DEF PublishTask
<1>8. CASE Start
  <2>1. /\ worker.pc = "loop" /\ worker.phase = "READY" /\ ~worker.stopping
        /\ Move("RUNNING", "loop")
    BY <1>8 DEF Start, Inv, WorkerInv, EndPhases
  <2>2. Moves("RUNNING", "loop", worker.stopping) /\ worker.stopping \in BOOLEAN
    BY <2>1, MoveIs
  <2> QED BY <1>1, <1>8, <2>1, <2>2, MovesPreserves DEF Start
<1>9. CASE Terminate
  BY <1>1, <1>9, EndPreserves DEF Terminate
<1>10. CASE HealthTick
  BY <1>1, <1>10, FailPreserves DEF HealthTick
<1>11. CASE Finalize
  <2>1. PICK broken \in BOOLEAN :
          worker' = [worker EXCEPT
                       !.phase = "FINISHED", !.stopping = worker.stopping \/ broken,
                       !.sequence = worker.sequence + 1,
                       !.pc = IF (worker.stopping \/ broken) \/ worker.episode = NumEpisodes
                                THEN "over" ELSE "advance"]
    BY <1>11 DEF Finalize
  <2> DEFINE stop == worker.stopping \/ broken
             p == IF stop \/ worker.episode = NumEpisodes THEN "over" ELSE "advance"
  <2>2. Moves("FINISHED", p, stop)
    BY <1>11, <2>1 DEF Inv, WorkerInv, Finalize, Moves, EndPhases
  <2>3. stop \in BOOLEAN /\ (worker.stopping => stop)
    BY TypeParts DEF Inv, WorkerTyped
  <2> HIDE DEF stop, p
  <2> QED BY ZenonT(30), <1>1, <1>11, <2>2, <2>3, MovesPreserves DEF Finalize
<1> QED BY <1>2, <1>3, <1>4, <1>5, <1>6, <1>7, <1>8, <1>9, <1>10, <1>11

(* The same snapshot again: the topic holds it, and nothing new is published. *)
LEMMA RepublishPreserves ==
  ASSUME Inv, Republish
  PROVE  Inv'
<1> USE DEF ros, robot
<1>1. /\ published' = published \cup {Snapshot(worker)}
      /\ inbox' = [c \in Components |-> IF node[c].alive THEN Snapshot(worker) ELSE None]
      /\ UNCHANGED <<worker, ready, tracker, ros>>
  BY DEF Republish, PublishState
<1>2. Snapshot(worker) \in published
  BY DEF Inv, PublishedInv
<1>3. published' = published
  BY <1>1, <1>2
<1>4. WorkerInv' /\ PublishedInv' /\ CallInv' /\ RunInv' /\ ObeysItsOwnRun'
  <2>1. WorkerInv'
    BY <1>1 DEF Inv, WorkerInv
  <2>2. PublishedInv'
    BY <1>1, <1>3 DEF Inv, PublishedInv, Snapshot
  <2>3. CallInv'
    BY <1>1, <1>3 DEF Inv, CallInv, EnvReset, AgentReset, Prepared, Waiting, At, RunAnnounced,
      Announced
  <2>4. RunInv'
    BY <1>1, <1>3 DEF Inv, RunInv, RunAnnounced, Announced
  <2>5. ObeysItsOwnRun'
    BY <1>1, <1>3 DEF Inv, ObeysItsOwnRun, Announced
  <2> QED BY <2>1, <2>2, <2>3, <2>4, <2>5
<1>5. WorkerTyped' /\ NodesTyped' /\ OthersTyped'
  BY <1>1, TypeParts DEF Inv, WorkerTyped, NodesTyped, OthersTyped
<1>6. MessagesTyped'
  BY <1>1, <1>2, <1>3, TypeParts DEF Inv, MessagesTyped
<1> QED BY <1>4, <1>5, <1>6, TypePartsNext DEF Inv

(* The next episode: no call is pending, so nothing outlives the old one.   *)
LEMMA AdvancePreserves ==
  ASSUME Inv, Advance
  PROVE  Inv'
<1> USE DEF ros, robot
<1>1. /\ worker' = [episode |-> worker.episode + 1, phase |-> "PREPARING",
                    sequence |-> 0, pc |-> "loop", stopping |-> FALSE]
      /\ PublishState(worker')
      /\ UNCHANGED <<ready, tracker, ros>>
  BY DEF Advance
<1>2. /\ worker.pc = "advance" /\ ~worker.stopping
      /\ worker.episode < NumEpisodes /\ worker.episode \in Nat \ {0}
      /\ NumEpisodes \in Nat
  BY TypeParts, HarnessAssumption DEF Inv, WorkerInv, WorkerTyped, Advance, At, Episodes
<1>3. /\ worker'.episode = worker.episode + 1 /\ worker'.phase = "PREPARING"
      /\ worker'.sequence = 0 /\ worker'.pc = "loop" /\ worker'.stopping = FALSE
  BY <1>1
<1>4. WorkerTyped'
  <2>1. worker.episode + 1 \in Episodes
    BY <1>2 DEF Episodes
  <2>2. "PREPARING" \in Phases /\ 0 \in 0..4 /\ FALSE \in BOOLEAN
    BY DEF Phases
  <2> QED BY <1>3, <2>1, <2>2 DEF WorkerTyped
<1>5. WorkerInv'
  BY <1>1, <1>3 DEF WorkerInv
<1> DEFINE s == [episode |-> worker.episode + 1, sequence |-> 0, phase |-> "PREPARING"]
<1>6. MessagesTyped' /\ published' = published \cup {s} /\ Snapshot(worker)' = s
  BY <1>1, <1>3, <1>4, PublishTyped DEF Snapshot
<1>7. /\ s.episode = worker.episode + 1 /\ s.sequence = 0 /\ s.phase = "PREPARING"
  OBVIOUS
<1> HIDE DEF s
<1>8. \A m \in published : m.episode <= worker.episode /\ m.episode \in Nat
  BY TypeParts, EpisodeFacts DEF Inv, PublishedInv, MessagesTyped, SnapshotRec
<1>9. PublishedInv'
  <2>1. ASSUME NEW m \in published'
        PROVE  /\ m.episode <= worker'.episode
               /\ m.phase = "RUNNING" => m.sequence = 2
               /\ m.episode = worker'.episode =>
                    /\ m.sequence <= worker'.sequence
                    /\ m.phase \in EndPhases => worker'.phase \in EndPhases
                    /\ m.phase = "RUNNING" => worker'.phase \in {"RUNNING"} \cup EndPhases
    <3>1. CASE m = s
      BY <1>2, <1>3, <1>7, <3>1 DEF EndPhases
    <3>2. CASE m \in published
      BY <1>2, <1>3, <1>8, <3>2 DEF Inv, PublishedInv
    <3> QED BY <1>6, <3>1, <3>2
  <2>2. ASSUME NEW m \in published', NEW n \in published',
               m.episode = n.episode, m.phase = "RUNNING", n.phase \in EndPhases
        PROVE  m.sequence < n.sequence
    BY <1>6, <1>7, <2>2 DEF Inv, PublishedInv, EndPhases
  <2> QED BY <1>6, <2>1, <2>2 DEF PublishedInv
<1>10. RunInv' /\ ObeysItsOwnRun'
  BY <1>1, <1>6, <1>7, NodesWait DEF MessagesTyped
<1>11. CallInv'
  <2>1. ASSUME NEW c \in Components
        PROVE  answer[c] = None /\ request[c] = NoEpisode
    BY <1>2, <2>1 DEF Inv, CallInv, Waiting, At, Calls, Components
  <2>2. ASSUME NEW c \in Components
        PROVE  /\ node[c].episode <= worker.episode + 1
               /\ ~(node[c].alive /\ node[c].status = "RESETTING")
               /\ ~node[c].alive => node[c].episode = NoEpisode /\ ~node[c].running
    <3>1. node[c].episode \in Nat
      BY <2>2, TypeParts, EpisodeFacts DEF Inv, NodesTyped, NodeRec, NoEpisode
    <3> QED BY <1>2, <2>1, <2>2, <3>1 DEF Inv, CallInv
  <2>3. ~EnvReset' /\ ~AgentReset'
    BY <1>1, <1>3, <2>1 DEF EnvReset, AgentReset, Components
  <2> QED BY <1>1, <1>3, <2>1, <2>2, <2>3 DEF CallInv
<1>12. NodesTyped' /\ OthersTyped'
  BY <1>1, TypeParts DEF Inv, NodesTyped, OthersTyped
<1> QED BY <1>4, <1>5, <1>6, <1>9, <1>10, <1>11, <1>12, TypePartsNext DEF Inv

(* A call that fails, or whose deadline passes, ends the experiment; its    *)
(* request may live on.                                                     *)
LEMMA CallFails ==
  ASSUME Inv, Fail, worker.phase = "PREPARING",
         \A c \in Components : answer'[c] = None,
         answer' \in [Components -> {None, "success", "failure"}],
         UNCHANGED <<ready, tracker, node, request, taskInbox, hasTask, wire, command, silence,
                     faults>>
  PROVE  Inv'
<1>1. Moves("TERMINATING", "loop", TRUE) /\ TRUE \in BOOLEAN
  BY DEF Fail, Moves, EndPhases
<1>2. /\ WorkerInv' /\ PublishedInv' /\ WorkerTyped' /\ MessagesTyped'
      /\ worker'.phase = "TERMINATING" /\ worker'.pc = "loop" /\ worker'.stopping = TRUE
      /\ worker'.episode = worker.episode
      /\ published \subseteq published'
      /\ \A m \in published' :
           m \in published \/ (m.phase = "TERMINATING" /\ m.episode = worker.episode)
  BY <1>1, WorkerMoves
<1>3. RunInv' /\ ObeysItsOwnRun'
  BY <1>2, NodesWait DEF MessagesTyped
<1>4. CallInv'
  <2>1. ASSUME NEW c \in Components
        PROVE  /\ answer'[c] = None
               /\ request'[c] # NoEpisode =>
                    /\ request'[c] = worker'.episode
                    /\ worker'.stopping
                    /\ ~RunAnnounced(worker.episode)'
               /\ node'[c].alive /\ node'[c].status = "RESETTING" => request'[c] # NoEpisode
               /\ ~node'[c].alive =>
                    node'[c].episode = NoEpisode /\ ~node'[c].running /\ request'[c] = NoEpisode
               /\ node'[c].episode <= worker'.episode
    BY <1>2, <2>1 DEF Inv, CallInv, RunAnnounced, Announced
  <2>2. EnvReset' => request["Agent"] # NoEpisode
    BY <1>2 DEF EnvReset, Components
  <2>3. EnvReset' => Prepared("Env")'
    BY <1>2, <2>2 DEF EnvReset, Prepared, Inv, CallInv
  <2>4. ~AgentReset'
    BY <1>2 DEF AgentReset, Components
  <2> QED BY <2>1, <2>3, <2>4 DEF CallInv, RunAnnounced
<1>5. NodesTyped' /\ OthersTyped'
  BY TypeParts DEF Inv, NodesTyped, OthersTyped
<1> QED BY <1>2, <1>3, <1>4, <1>5, TypePartsNext DEF Inv

LEMMA CallPlaces ==
  ASSUME NEW c \in Components
  PROVE  /\ Calls[c].call = IF c = "Env" THEN "Env call" ELSE "Agent call"
         /\ Calls[c].wait = IF c = "Env" THEN "Env wait" ELSE "Agent wait"
         /\ Calls[c].next = IF c = "Env" THEN "Agent call" ELSE "task"
<1>1. CASE c = "Env"
  BY <1>1 DEF Calls
<1>2. CASE c = "Agent"
  BY <1>2 DEF Calls
<1> QED BY <1>1, <1>2 DEF Components

(* While the worker prepares, nothing of its episode ran, and no request is *)
(* pending but the one it waits for.                                        *)
LEMMA WhilePreparing ==
  ASSUME Inv, worker.phase = "PREPARING"
  PROVE  /\ ~worker.stopping /\ ~RunAnnounced(worker.episode)
         /\ \A c \in Components :
              /\ request[c] # NoEpisode => Waiting(c)
              /\ answer[c] # None => Waiting(c) /\ request[c] = NoEpisode
<1>1. ~worker.stopping /\ ~RunAnnounced(worker.episode)
  BY DEF Inv, WorkerInv, PublishedInv, RunAnnounced, Announced, EndPhases
<1> QED BY <1>1 DEF Inv, CallInv

LEMMA CallPreserves ==
  ASSUME Inv, NEW c \in Components, Call(c)
  PROVE  Inv'
<1> USE DEF robot
<1>1. worker.pc = Calls[c].call /\ worker.phase = "PREPARING"
  BY CallPlaces DEF Call, At, Inv, WorkerInv
<1>2. \A d \in Components : answer[d] = None /\ request[d] = NoEpisode
  <2>1. \A d \in Components : ~Waiting(d)
    <3>1. worker.pc \in {"Env call", "Agent call"}
      BY <1>1, CallPlaces
    <3>2. \A d \in Components : Calls[d].wait \in {"Env wait", "Agent wait"}
      BY CallPlaces
    <3> QED BY <3>1, <3>2 DEF Waiting, At
  <2> QED BY <1>1, <2>1, WhilePreparing
<1>3. CASE Fail /\ UNCHANGED <<request, answer>>
  <2>1. answer \in [Components -> {None, "success", "failure"}]
    BY TypeParts DEF Inv, OthersTyped
  <2> QED BY <1>1, <1>2, <1>3, <2>1, CallFails DEF Call
<1>4. CASE /\ node[c].alive
           /\ request' = [request EXCEPT ![c] = worker.episode]
           /\ Go(Calls[c].wait)
           /\ UNCHANGED answer
  <2>1. worker' = [worker EXCEPT !.pc = Calls[c].wait] /\ UNCHANGED <<published, inbox>>
    BY <1>4 DEF Go
  <2>2. /\ WorkerInv' /\ PublishedInv' /\ WorkerTyped' /\ MessagesTyped'
        /\ worker'.pc = Calls[c].wait
        /\ UNCHANGED <<worker.episode, worker.phase, worker.sequence, worker.stopping>>
    <3>1. worker.phase # "FINISHED" /\ Calls[c].wait \notin {"advance", "over"}
      BY <1>1, CallPlaces
    <3> QED BY <1>1, <2>1, <3>1, WorkerGoes
  <2>3. UNCHANGED <<ready, tracker, node, taskInbox, hasTask, wire, command, silence, faults>>
    BY DEF Call
  <2>4. RunInv' /\ ObeysItsOwnRun'
    BY <2>1, <2>2, <2>3, NodesWait DEF MessagesTyped
  <2>5. CallInv'
    <3>1. worker.episode \in Episodes /\ request \in [Components -> Episodes \cup {NoEpisode}]
      BY TypeParts DEF Inv, WorkerTyped, OthersTyped
    <3>2. \A d \in Components : request'[d] = IF d = c THEN worker.episode ELSE NoEpisode
      BY <1>2, <1>4, <3>1
    <3>3. Waiting(c)'
      BY <2>2 DEF Waiting, At
    <3>4. ~RunAnnounced(worker.episode)'
      BY <1>1, <2>1, <2>2, WhilePreparing DEF RunAnnounced, Announced
    <3>5. ASSUME NEW d \in Components
          PROVE  /\ answer'[d] = None
                 /\ request'[d] # NoEpisode =>
                      /\ request'[d] = worker'.episode
                      /\ Waiting(d)'
                      /\ ~RunAnnounced(worker.episode)'
                 /\ node'[d].alive /\ node'[d].status = "RESETTING" => request'[d] # NoEpisode
                 /\ ~node'[d].alive =>
                      node'[d].episode = NoEpisode /\ ~node'[d].running /\ request'[d] = NoEpisode
                 /\ node'[d].episode <= worker'.episode
      BY <1>2, <1>4, <2>2, <2>3, <3>2, <3>3, <3>4 DEF Inv, CallInv
    <3>6. EnvReset' => Prepared("Env")'
      <4>1. CASE c = "Env"
        <5>1. ~EnvReset'
          BY <1>1, <2>2, <3>2, <3>5, <4>1, CallPlaces DEF EnvReset, Components
        <5> QED BY <5>1
      <4>2. CASE c # "Env"
        <5>1. EnvReset
          BY <1>1, <4>2, CallPlaces DEF EnvReset
        <5> QED BY <2>2, <2>3, <5>1 DEF Inv, CallInv, Prepared
      <4> QED BY <4>1, <4>2
    <3>7. ~AgentReset'
      BY <1>1, <2>2, <3>5, CallPlaces DEF AgentReset, Components
    <3> QED BY <3>5, <3>6, <3>7 DEF CallInv, RunAnnounced
  <2>6. NodesTyped' /\ OthersTyped'
    <3>1. worker.episode \in Episodes
      BY TypeParts DEF Inv, WorkerTyped
    <3> QED BY <1>4, <2>3, <3>1, TypeParts DEF Inv, NodesTyped, OthersTyped
  <2> QED BY <2>2, <2>4, <2>5, <2>6, TypePartsNext DEF Inv
<1> QED BY <1>3, <1>4 DEF Call

(* The answer in time, or the deadline first.                               *)
LEMMA CallEnds ==
  ASSUME Inv, NEW c \in Components, Answered(c) \/ CallExpires(c)
  PROVE  Inv'
<1> USE DEF robot
<1>1. worker.pc = Calls[c].wait /\ worker.phase = "PREPARING" /\ EndCall(c)
  BY CallPlaces DEF Answered, CallExpires, At, Inv, WorkerInv
<1>2. \A d \in Components : d # c => answer[d] = None /\ request[d] = NoEpisode
  <2>1. \A d \in Components : d # c => ~Waiting(d)
    BY <1>1, CallPlaces DEF Waiting, At, Components
  <2> QED BY <1>1, <2>1, WhilePreparing
<1>3. /\ answer' \in [Components -> {None, "success", "failure"}]
      /\ \A d \in Components : answer'[d] = None
  <2>1. answer \in [Components -> {None, "success", "failure"}]
    BY TypeParts DEF Inv, OthersTyped
  <2>2. answer' = [answer EXCEPT ![c] = None]
    BY <1>1 DEF EndCall
  <2> QED BY <1>2, <2>1, <2>2
<1>4. CASE Fail
  BY <1>1, <1>3, <1>4, CallFails DEF EndCall
<1>5. CASE Go(Calls[c].next) /\ answer[c] # None /\ answer[c] = "success"
  <2>1. worker' = [worker EXCEPT !.pc = Calls[c].next] /\ UNCHANGED <<published, inbox>>
    BY <1>5 DEF Go
  <2>2. /\ WorkerInv' /\ PublishedInv' /\ WorkerTyped' /\ MessagesTyped'
        /\ worker'.pc = Calls[c].next
        /\ UNCHANGED <<worker.episode, worker.phase, worker.sequence, worker.stopping>>
    <3>1. worker.phase # "FINISHED" /\ Calls[c].next \notin {"advance", "over"}
      BY <1>1, CallPlaces
    <3> QED BY <1>1, <2>1, <3>1, WorkerGoes
  <2>3. UNCHANGED <<ready, tracker, node, request, taskInbox, hasTask, wire, command, silence,
                    faults>>
    BY <1>1 DEF EndCall
  <2>4. RunInv' /\ ObeysItsOwnRun'
    BY <2>1, <2>2, <2>3, NodesWait DEF MessagesTyped
  <2>5. CallInv'
    <3>1. \A d \in Components : request[d] = NoEpisode
      BY <1>1, <1>2, <1>5, WhilePreparing
    <3>2. ASSUME NEW d \in Components
          PROVE  /\ answer'[d] = None
                 /\ request'[d] = NoEpisode
                 /\ node'[d].alive /\ node'[d].status = "RESETTING" => request'[d] # NoEpisode
                 /\ ~node'[d].alive =>
                      node'[d].episode = NoEpisode /\ ~node'[d].running
                 /\ node'[d].episode <= worker'.episode
      BY <1>3, <2>2, <2>3, <3>1 DEF Inv, CallInv
    <3>3. EnvReset
      BY <1>1, <1>5, CallPlaces DEF EnvReset
    <3>4. EnvReset' => Prepared("Env")'
      BY <2>2, <2>3, <3>3 DEF Inv, CallInv, Prepared
    <3>5. AgentReset' => Prepared("Agent")' /\ wire' \in {None, Zero, worker'.episode}
      <4>1. CASE c = "Agent"
        <5>1. AgentReset
          BY <1>5, <4>1 DEF AgentReset
        <5> QED BY <2>2, <2>3, <5>1 DEF Inv, CallInv, Prepared
      <4>2. CASE c # "Agent"
        <5>1. ~AgentReset'
          BY <1>1, <2>2, <3>2, <4>2, CallPlaces DEF AgentReset, Components
        <5> QED BY <5>1
      <4> QED BY <4>1, <4>2
    <3> QED BY <3>2, <3>4, <3>5 DEF CallInv
  <2>6. NodesTyped' /\ OthersTyped'
    BY <1>3, <2>3, TypeParts DEF Inv, NodesTyped, OthersTyped
  <2> QED BY <2>2, <2>4, <2>5, <2>6, TypePartsNext DEF Inv
<1> QED BY <1>4, <1>5 DEF Answered, CallExpires

-----------------------------------------------------------------------------
(* The nodes.                                                               *)

LEMMA NodeAt ==
  ASSUME NodesTyped, NEW c \in Components, NEW n \in NodeRec,
         node' = [node EXCEPT ![c] = n]
  PROVE  NodesTyped' /\ node'[c] = n /\ \A d \in Components \ {c} : node'[d] = node[d]
BY DEF NodesTyped

(* The worker sees none of their steps.                                     *)
LEMMA WorkerWaits ==
  ASSUME Inv, UNCHANGED <<worker, published>>,
         inbox' \in [Components -> published \cup {None}]
  PROVE  WorkerInv' /\ PublishedInv' /\ WorkerTyped' /\ MessagesTyped'
<1>1. WorkerInv' /\ WorkerTyped'
  BY TypeParts DEF Inv, WorkerInv, WorkerTyped
<1>2. PublishedInv'
  BY DEF Inv, PublishedInv, Snapshot
<1>3. MessagesTyped'
  BY TypeParts DEF Inv, MessagesTyped
<1> QED BY <1>1, <1>2, <1>3

(* What the Agent publishes in a run that was announced is a command of the *)
(* episode the Env is in, if that one was announced too, and of the         *)
(* episode of the worker, once the Agent was reset for it.                  *)
LEMMA AgentWire ==
  ASSUME Inv, NEW n, NEW task, NEW w \in AgentCommands(n, task),
         n.episode = node["Agent"].episode,
         n.running => /\ node["Agent"].alive
                      /\ \E m \in published : m.episode = n.episode /\ m.phase = "RUNNING"
  PROVE  /\ AgentReset => w \in {Zero, worker.episode}
         /\ RunAnnounced(node["Env"].episode) => w \in {Zero, node["Env"].episode}
<1> SUFFICES ASSUME w # Zero
             PROVE  /\ AgentReset => w = worker.episode
                    /\ RunAnnounced(node["Env"].episode) => w = node["Env"].episode
  OBVIOUS
<1> DEFINE a == node["Agent"].episode
           e == node["Env"].episode
<1>1. w = a /\ n.running
  BY DEF AgentCommands, CanDrive
<1>2. PICK m \in published : m.episode = a /\ m.phase = "RUNNING"
  BY <1>1
<1>3. node["Agent"].alive
  BY <1>1
<1>4. AgentReset => w = worker.episode
  BY <1>1, <1>3 DEF Inv, CallInv, Prepared
<1>5. ASSUME RunAnnounced(e)
      PROVE  w = e
  <2>1. PICK k \in published : k.episode = e /\ k.phase = "RUNNING"
    BY <1>5 DEF RunAnnounced, Announced
  <2>2. e # NoEpisode /\ e \in Nat /\ a \in Nat
    BY <1>2, <2>1, TypeParts, EpisodeFacts DEF Inv, MessagesTyped, SnapshotRec
  <2>3. node["Env"].alive
    BY <2>2 DEF Inv, CallInv, Components
  <2>4. e <= a
    BY <1>3, <2>1 DEF Inv, RunInv, Components
  <2>5. a <= e
    BY <2>3 DEF Inv, RunInv
  <2> QED BY <1>1, <2>2, <2>4, <2>5
<1> QED BY <1>4, <1>5

(* A node stays in its episode: it reports, takes a snapshot or drives.     *)
LEMMA NodeKeeps ==
  ASSUME Inv, NEW c \in Components, NEW n \in NodeRec, node' = [node EXCEPT ![c] = n],
         UNCHANGED <<worker, published>>,
         inbox' \in [Components -> published \cup {None}], OthersTyped',
         n.alive = node[c].alive, n.episode = node[c].episode,
         n.running => /\ node[c].alive
                      /\ \E m \in published : /\ m.episode = n.episode
                                              /\ m.phase = "RUNNING"
                                              /\ m.sequence = n.last,
         n.alive /\ n.status = "RESETTING" => request'[c] # NoEpisode,
         \A d \in Components :
           /\ request'[d] \in {request[d], NoEpisode}
           /\ d # c => request'[d] = request[d]
           /\ \/ answer'[d] = answer[d]
              \/ answer'[d] = None
              \/ Waiting(d) /\ answer'[d] # "success" /\ request'[d] = NoEpisode,
         command' \in {command, Zero},
         command' # Zero /\ c = "Env" => n.running,
         wire' \in {wire, None, Zero} \/ wire' \in AgentCommands(node'["Agent"], hasTask')
  PROVE  Inv'
<1>1. WorkerInv' /\ PublishedInv' /\ WorkerTyped' /\ MessagesTyped'
  BY WorkerWaits
<1>2. NodesTyped' /\ node'[c] = n /\ \A d \in Components \ {c} : node'[d] = node[d]
  BY NodeAt, TypeParts DEF Inv
<1>3. \A d \in Components :
        /\ node'[d].alive = node[d].alive /\ node'[d].episode = node[d].episode
        /\ node'[d].running =>
             /\ node[d].alive
             /\ \E m \in published : /\ m.episode = node'[d].episode
                                     /\ m.phase = "RUNNING"
                                     /\ m.sequence = node'[d].last
  BY <1>2 DEF Inv, RunInv, CallInv
<1>4. /\ AgentReset => wire' \in {None, Zero, worker.episode}
      /\ RunAnnounced(node["Env"].episode) => wire' \in {None, Zero, node["Env"].episode}
  <2>1. CASE wire' \in {wire, None, Zero}
    BY <2>1 DEF Inv, CallInv, RunInv
  <2>2. CASE wire' \in AgentCommands(node'["Agent"], hasTask')
    <3>1. /\ node'["Agent"].episode = node["Agent"].episode
          /\ node'["Agent"].running =>
               /\ node["Agent"].alive
               /\ \E m \in published :
                    m.episode = node'["Agent"].episode /\ m.phase = "RUNNING"
      BY <1>3 DEF Components
    <3> QED BY <2>2, <3>1, AgentWire
  <2> QED BY <2>1, <2>2
<1>5. RunInv'
  <2>1. "Env" \in Components /\ "Agent" \in Components
    BY DEF Components
  <2>2. RunAnnounced(node["Env"].episode)' => RunAnnounced(node["Env"].episode)
    BY <1>3, <2>1 DEF RunAnnounced, Announced
  <2>3. \A d \in Components, m \in published :
          m.phase = "RUNNING" /\ node'[d].alive => m.episode <= node'[d].episode
    BY <1>3 DEF Inv, RunInv
  <2>4. node'["Env"].alive => node'["Agent"].episode <= node'["Env"].episode
    BY <1>3, <2>1 DEF Inv, RunInv
  <2> QED BY <1>3, <1>4, <2>1, <2>2, <2>3, <2>4 DEF RunInv
<1>6. ObeysItsOwnRun'
  <2>1. node'["Env"].episode = node["Env"].episode
    BY <1>3 DEF Components
  <2>2. command' # Zero => node'["Env"].running
    BY <1>2 DEF Inv, ObeysItsOwnRun, Components
  <2> QED BY <2>1, <2>2 DEF Inv, ObeysItsOwnRun, Announced
<1>7. CallInv'
  <2>1. ASSUME NEW d \in Components
        PROVE  /\ answer'[d] # None => Waiting(d) /\ request'[d] = NoEpisode
               /\ request'[d] # NoEpisode =>
                    /\ request'[d] = worker.episode
                    /\ Waiting(d) \/ worker.stopping
                    /\ ~RunAnnounced(worker.episode)
               /\ node'[d].alive /\ node'[d].status = "RESETTING" => request'[d] # NoEpisode
               /\ ~node'[d].alive =>
                    node'[d].episode = NoEpisode /\ ~node'[d].running /\ request'[d] = NoEpisode
               /\ node'[d].episode <= worker.episode
    BY <1>2, <1>3 DEF Inv, CallInv
  <2>2. (EnvReset' => EnvReset) /\ (AgentReset' => AgentReset)
    BY DEF EnvReset, AgentReset, Components
  <2>3. (Prepared("Env") => Prepared("Env")') /\ (Prepared("Agent") => Prepared("Agent")')
    BY <1>3 DEF Prepared, Components
  <2>4. /\ EnvReset' => Prepared("Env")'
        /\ AgentReset' => Prepared("Agent")' /\ wire' \in {None, Zero, worker'.episode}
    BY <1>4, <2>2, <2>3 DEF Inv, CallInv
  <2> QED BY <2>1, <2>4 DEF CallInv, RunAnnounced, Announced, Waiting, At
<1> QED BY <1>1, <1>2, <1>5, <1>6, <1>7, TypePartsNext DEF Inv

(* The steps that leave the nodes as they are.                              *)
LEMMA NodesUntouched ==
  ASSUME Inv, UNCHANGED <<worker, published, node, request, answer>>,
         inbox' \in [Components -> published \cup {None}], OthersTyped',
         command' \in {command, Zero},
         wire' \in {wire, None, Zero} \/ wire' \in AgentCommands(node["Agent"], hasTask')
  PROVE  Inv'
<1> DEFINE n == node["Env"]
<1>1. /\ n \in NodeRec /\ node' = [node EXCEPT !["Env"] = n] /\ "Env" \in Components
      /\ \A d \in Components : request[d] \in {request[d], NoEpisode}
  BY TypeParts DEF Inv, NodesTyped, Components
<1>2. n.running => /\ node["Env"].alive
                   /\ \E m \in published : /\ m.episode = n.episode
                                           /\ m.phase = "RUNNING"
                                           /\ m.sequence = n.last
  BY <1>1 DEF Inv, RunInv, CallInv
<1>3. n.alive /\ n.status = "RESETTING" => request'["Env"] # NoEpisode
  BY <1>1 DEF Inv, CallInv
<1>4. command' # Zero => n.running
  BY DEF Inv, ObeysItsOwnRun
<1>5. n.alive = node["Env"].alive /\ n.episode = node["Env"].episode
  OBVIOUS
<1> HIDE DEF n
<1> QED BY <1>1, <1>2, <1>3, <1>4, <1>5, NodeKeeps

LEMMA ObserversPreserve ==
  ASSUME Inv,
         \/ \E c \in Components : Hear(c) \/ Expire(c)
         \/ EnvSteps \/ AgentDrives \/ TakeTask
         \/ \E c \in Components : TakeState(c) /\ ~Accepts(c, inbox[c])
  PROVE  Inv'
<1> USE DEF ros, robot, protocol
<1>1. OthersTyped /\ inbox \in [Components -> published \cup {None}]
  BY TypeParts DEF Inv, MessagesTyped
<1>2. ASSUME NEW c \in Components, Hear(c)
      PROVE  Inv'
  <2>1. OthersTyped'
    <3>1. Told(node[c].status) \in {"READY", "ERROR", None}
      BY DEF Told
    <3>2. [state |-> Told(node[c].status), fresh |-> TRUE]
            \in [state : {"READY", "ERROR", None}, fresh : BOOLEAN]
      BY <3>1
    <3> QED BY <1>1, <1>2, <3>2 DEF Hear, OthersTyped
  <2> QED BY <1>1, <1>2, <2>1, NodesUntouched DEF Hear
<1>3. ASSUME NEW c \in Components, Expire(c)
      PROVE  Inv'
  <2>1. tracker' \in [Components -> [state : {"READY", "ERROR", None}, fresh : BOOLEAN]]
    BY <1>1, <1>3 DEF Expire, OthersTyped
  <2>2. faults' \in 0..MaxFaults
    BY <1>1, <1>3, HarnessAssumption DEF Expire, OthersTyped
  <2>3. OthersTyped'
    BY <1>1, <1>3, <2>1, <2>2 DEF Expire, OthersTyped
  <2> QED BY <1>1, <1>3, <2>3, NodesUntouched DEF Expire
<1>4. CASE EnvSteps
  <2>1. silence' \in 0..WatchdogSteps /\ command' \in {command, Zero}
    BY <1>1, <1>4, HarnessAssumption DEF EnvSteps, OthersTyped
  <2>2. OthersTyped'
    BY <1>1, <1>4, <2>1 DEF EnvSteps, OthersTyped
  <2> QED BY <1>1, <1>4, <2>1, <2>2, NodesUntouched DEF EnvSteps
<1>5. \A task : AgentCommands(node["Agent"], task) \subseteq Episodes \cup {Zero}
  BY TypeParts DEF Inv, NodesTyped, NodeRec, AgentCommands, CanDrive, Components, NoEpisode,
    Zero
<1>6. CASE AgentDrives
  <2>1. OthersTyped'
    BY <1>1, <1>5, <1>6 DEF AgentDrives, OthersTyped
  <2> QED BY <1>1, <1>6, <2>1, NodesUntouched DEF AgentDrives
<1>7. CASE TakeTask
  <2>1. \/ hasTask' = TRUE /\ wire' \in AgentCommands(node["Agent"], TRUE)
        \/ UNCHANGED <<hasTask, wire>>
    BY <1>7 DEF TakeTask
  <2>2. OthersTyped'
    BY <1>1, <1>5, <1>7, <2>1 DEF TakeTask, OthersTyped
  <2> QED BY <1>1, <1>7, <2>1, <2>2, NodesUntouched DEF TakeTask
<1>8. ASSUME NEW c \in Components, TakeState(c), ~Accepts(c, inbox[c])
      PROVE  Inv'
  <2>1. inbox' \in [Components -> published \cup {None}] /\ UNCHANGED <<protocol, ros>>
    BY <1>1, <1>8 DEF TakeState, Obey
  <2>2. OthersTyped'
    BY <1>1, <2>1 DEF OthersTyped
  <2> QED BY <2>1, <2>2, NodesUntouched
<1> QED BY <1>2, <1>3, <1>4, <1>6, <1>7, <1>8

(* The steps that change the status of a node.                              *)
LEMMA StatusPreserves ==
  ASSUME Inv,
         AgentError \/ \E c \in Components : BecomeReady(c) \/ TakeReset(c) \/ ResetFails(c)
  PROVE  Inv'
<1> USE DEF ros, robot, protocol
<1>1. /\ OthersTyped /\ inbox \in [Components -> published \cup {None}]
      /\ node \in [Components -> NodeRec] /\ "Agent" \in Components
  BY TypeParts DEF Inv, MessagesTyped, NodesTyped, Components
<1> DEFINE With(c, status, running) ==
             [status |-> status, alive |-> node[c].alive, episode |-> node[c].episode,
              last |-> node[c].last, running |-> running]
<1>2. ASSUME NEW c \in Components
      PROVE  /\ \A s : [node[c] EXCEPT !.status = s] = With(c, s, node[c].running)
             /\ \A s \in Statuses, b \in BOOLEAN : With(c, s, b) \in NodeRec
             /\ \A s, b : With(c, s, b).alive = node[c].alive
                          /\ With(c, s, b).episode = node[c].episode
                          /\ With(c, s, b).last = node[c].last
                          /\ With(c, s, b).running = b /\ With(c, s, b).status = s
             /\ node[c].running \in BOOLEAN
             /\ node[c].running => /\ node[c].alive
                                   /\ \E m \in published : /\ m.episode = node[c].episode
                                                           /\ m.phase = "RUNNING"
                                                           /\ m.sequence = node[c].last
  BY <1>1, <1>2 DEF NodeRec, Inv, RunInv, CallInv
<1> HIDE DEF With
<1>3. command # Zero => node["Env"].running
  BY DEF Inv, ObeysItsOwnRun
<1>4. ASSUME NEW c \in Components, BecomeReady(c) \/ TakeReset(c)
      PROVE  Inv'
  <2>1. PICK s \in {"READY", "RESETTING"} :
          /\ node' = [node EXCEPT ![c].status = s]
          /\ s = "RESETTING" => request[c] # NoEpisode
          /\ UNCHANGED <<protocol, inbox, request, answer, taskInbox, hasTask, wire, robot, faults>>
    BY <1>4 DEF BecomeReady, TakeReset
  <2>2. node' = [node EXCEPT ![c] = With(c, s, node[c].running)]
    BY ZenonT(30), <1>1, <1>2, <2>1
  <2>3. OthersTyped'
    BY <1>1, <2>1 DEF OthersTyped
  <2>4. With(c, s, node[c].running) \in NodeRec
    BY <1>2 DEF Statuses
  <2> DEFINE n == With(c, s, node[c].running)
  <2>5. /\ n \in NodeRec /\ node' = [node EXCEPT ![c] = n]
        /\ n.alive = node[c].alive /\ n.episode = node[c].episode
        /\ n.running => /\ node[c].alive
                        /\ \E m \in published : /\ m.episode = n.episode
                                                /\ m.phase = "RUNNING"
                                                /\ m.sequence = n.last
        /\ n.status = s /\ n.running = node[c].running
    BY <1>2, <2>2, <2>4
  <2> HIDE DEF n
  <2>6. command' # Zero /\ c = "Env" => n.running
    BY <1>3, <2>1, <2>5
  <2> QED BY <1>1, <2>1, <2>3, <2>5, <2>6, NodeKeeps
<1>5. ASSUME NEW c \in Components, ResetFails(c)
      PROVE  Inv'
  <2> DEFINE n == With(c, "ERROR", node[c].running)
  <2>1. /\ n \in NodeRec /\ node' = [node EXCEPT ![c] = n]
        /\ n.alive = node[c].alive /\ n.episode = node[c].episode
        /\ n.running => /\ node[c].alive
                        /\ \E m \in published : /\ m.episode = n.episode
                                                /\ m.phase = "RUNNING"
                                                /\ m.sequence = n.last
        /\ n.status = "ERROR" /\ n.running = node[c].running
    <3>1. "ERROR" \in Statuses /\ node[c].running \in BOOLEAN
      BY <1>2 DEF Statuses
    <3>2. node' = [node EXCEPT ![c] = n]
      BY ZenonT(30), <1>1, <1>2, <1>5 DEF ResetFails
    <3>4. n \in NodeRec
      BY <1>2, <3>1
    <3>5. /\ n.alive = node[c].alive /\ n.episode = node[c].episode
          /\ n.last = node[c].last /\ n.status = "ERROR" /\ n.running = node[c].running
      BY <1>2, <3>1
    <3> HIDE DEF n
    <3> QED BY <1>2, <3>2, <3>4, <3>5
  <2> HIDE DEF n
  <2>2. /\ request' = [request EXCEPT ![c] = NoEpisode]
        /\ answer' = [answer EXCEPT ![c] = IF Waiting(c) THEN "failure" ELSE None]
        /\ wire' \in {wire, Zero}
        /\ UNCHANGED <<worker, published, inbox, command>>
    BY <1>5 DEF ResetFails, Answer, Waiting
  <2>3. OthersTyped'
    <3>1. faults' \in 0..MaxFaults
      BY <1>1, <1>5, HarnessAssumption DEF OthersTyped, ResetFails
    <3>2. /\ request' \in [Components -> Episodes \cup {NoEpisode}]
          /\ answer' \in [Components -> {None, "success", "failure"}]
      BY <1>1, <2>2 DEF OthersTyped
    <3> QED BY <1>1, <1>5, <2>2, <3>1, <3>2 DEF OthersTyped, ResetFails
  <2>4. \A d \in Components :
          /\ request'[d] \in {request[d], NoEpisode}
          /\ d # c => request'[d] = request[d]
          /\ \/ answer'[d] = answer[d]
             \/ answer'[d] = None
             \/ Waiting(d) /\ answer'[d] # "success" /\ request'[d] = NoEpisode
    BY <1>1, <2>2 DEF OthersTyped
  <2> QED BY <1>1, <1>3, <2>1, <2>2, <2>3, <2>4, NodeKeeps
<1>6. CASE AgentError
  <2> DEFINE n == [node["Agent"] EXCEPT !.status = "ERROR", !.running = FALSE]
  <2>1. node' = [node EXCEPT !["Agent"] = n]
    BY <1>1, <1>6 DEF AgentError
  <2>2. /\ node["Agent"] \in NodeRec /\ "ERROR" \in Statuses /\ FALSE \in BOOLEAN
    BY <1>1 DEF Statuses
  <2>3. /\ n \in NodeRec /\ n.alive = node["Agent"].alive
        /\ n.episode = node["Agent"].episode
        /\ ~n.running /\ n.status = "ERROR"
    BY <2>2 DEF NodeRec
  <2> HIDE DEF n
  <2>4. OthersTyped'
    BY <1>1, <1>6, HarnessAssumption DEF OthersTyped, AgentError
  <2>5. /\ wire' \in {wire, None, Zero} /\ command' \in {command, Zero}
        /\ UNCHANGED <<worker, published, inbox, request, answer>>
    BY <1>6 DEF AgentError
  <2> QED BY <1>1, <2>1, <2>2, <2>3, <2>4, <2>5, NodeKeeps
<1> QED BY <1>4, <1>5, <1>6

(* The steps in which a node takes a snapshot its guard accepts.            *)
LEMMA ObeyPreserves ==
  ASSUME Inv, NEW c \in Components, NEW m \in published, Free(c), Obey(c, m),
         inbox' \in [Components -> published \cup {None}]
  PROVE  Inv'
<1> USE DEF ros, robot, protocol
<1>1. OthersTyped /\ node[c] \in NodeRec /\ node \in [Components -> NodeRec]
  BY TypeParts DEF Inv, NodesTyped
<1>2. m.episode = node[c].episode /\ m \in SnapshotRec
  BY TypeParts DEF Inv, MessagesTyped, Obey, Accepts
<1>3. node[c].alive /\ node[c].status # "RESETTING"
  BY DEF Free
<1> DEFINE n == [node[c] EXCEPT !.last = m.sequence, !.running = (m.phase = "RUNNING")]
<1>4. node' = [node EXCEPT ![c] = n]
  BY <1>1 DEF Obey
<1>5. /\ n \in NodeRec /\ n.alive = node[c].alive /\ n.episode = node[c].episode
      /\ n.last = m.sequence /\ n.running = (m.phase = "RUNNING")
      /\ n.status = node[c].status
  <2>1. m.sequence \in 0..4 \cup {Unset} /\ (m.phase = "RUNNING") \in BOOLEAN
    BY <1>2 DEF SnapshotRec
  <2> QED BY <1>1, <2>1 DEF NodeRec
<1> HIDE DEF n
<1>6. n.running => /\ node[c].alive
                   /\ \E k \in published : /\ k.episode = n.episode
                                           /\ k.phase = "RUNNING"
                                           /\ k.sequence = n.last
  BY <1>2, <1>3, <1>5
<1>7. node' \in [Components -> NodeRec] /\ node'[c] = n
  BY <1>1, <1>4, <1>5
<1>8. AgentCommands(node'["Agent"], hasTask) \subseteq Episodes \cup {Zero}
  BY <1>7 DEF AgentCommands, CanDrive, Components, NodeRec, NoEpisode, Zero
<1>9. /\ UNCHANGED <<worker, published, request, answer, taskInbox, hasTask, faults, ready, tracker>>
      /\ command' \in {command, Zero}
      /\ command' # Zero /\ c = "Env" => n.running
      /\ wire' = wire \/ wire' \in AgentCommands(node'["Agent"], hasTask')
      /\ silence' \in {silence, 0}
  <2>1. CASE c = "Env"
    BY <1>5, <2>1 DEF Obey
  <2>2. CASE c = "Agent"
    BY <2>2 DEF Obey
  <2> QED BY <2>1, <2>2 DEF Components
<1>10. OthersTyped'
  <2>1. 0 \in 0..WatchdogSteps
    BY HarnessAssumption
  <2>2. command' \in Episodes \cup {Zero} /\ silence' \in 0..WatchdogSteps
    BY <1>1, <1>9, <2>1 DEF OthersTyped
  <2>3. wire' \in Episodes \cup {Zero, None}
    BY <1>1, <1>8, <1>9 DEF OthersTyped
  <2> QED BY <1>1, <1>9, <2>2, <2>3 DEF OthersTyped
<1> QED BY <1>3, <1>4, <1>5, <1>6, <1>9, <1>10, NodeKeeps

LEMMA TakeStatePreserves ==
  ASSUME Inv, NEW c \in Components, TakeState(c) \/ Redeliver(c)
  PROVE  Inv'
<1>1. inbox \in [Components -> published \cup {None}]
  BY TypeParts DEF Inv, MessagesTyped
<1>2. CASE TakeState(c) /\ ~Accepts(c, inbox[c])
  BY <1>2, ObserversPreserve
<1>3. CASE TakeState(c) /\ Accepts(c, inbox[c])
  <2>1. inbox[c] \in published /\ inbox' \in [Components -> published \cup {None}]
    BY <1>1, <1>3 DEF TakeState
  <2>2. Free(c) /\ Obey(c, inbox[c])
    BY <1>3 DEF TakeState
  <2> QED BY <2>1, <2>2, ObeyPreserves
<1>4. CASE Redeliver(c)
  <2>1. PICK m \in published : Obey(c, m)
    BY <1>4 DEF Redeliver
  <2>2. Free(c) /\ inbox' = inbox
    BY <1>4 DEF Redeliver
  <2> QED BY <1>1, <2>1, <2>2, ObeyPreserves
<1> QED BY <1>2, <1>3, <1>4

(* The Env takes a command.                                                 *)
LEMMA TakeCommandPreserves ==
  ASSUME Inv, TakeCommand
  PROVE  Inv'
<1> USE DEF ros, robot, protocol
<1>1. OthersTyped /\ inbox \in [Components -> published \cup {None}]
  BY TypeParts DEF Inv, MessagesTyped
<1>2. /\ UNCHANGED <<worker, published, inbox, node, request, answer, taskInbox, hasTask,
                     faults, ready, tracker>>
      /\ wire # None /\ wire' = None
      /\ command' = IF node["Env"].running THEN wire ELSE Zero
      /\ silence' \in {silence, 0}
  BY DEF TakeCommand
<1>3. WorkerInv' /\ PublishedInv' /\ WorkerTyped' /\ MessagesTyped'
  BY <1>1, <1>2, WorkerWaits
<1>4. OthersTyped' /\ NodesTyped'
  <2>1. 0 \in 0..WatchdogSteps
    BY HarnessAssumption
  <2>2. silence' \in 0..WatchdogSteps /\ command' \in Episodes \cup {Zero}
    BY <1>1, <1>2, <2>1 DEF OthersTyped
  <2> QED BY <1>1, <1>2, <2>2, TypeParts DEF OthersTyped, NodesTyped, Inv
<1>5. CallInv'
  <2>1. (EnvReset' => EnvReset) /\ (AgentReset' => AgentReset)
    BY <1>2 DEF EnvReset, AgentReset
  <2> QED BY <1>2, <2>1 DEF Inv, CallInv, Prepared, RunAnnounced, Announced, Waiting, At
<1>6. RunInv'
  BY <1>2 DEF Inv, RunInv, RunAnnounced, Announced
<1>7. ObeysItsOwnRun'
  <2>1. CASE node["Env"].running
    <3>1. Announced(node["Env"].episode, {"RUNNING"})
      BY <2>1 DEF Inv, RunInv, Components, Announced
    <3>2. wire \in {Zero, node["Env"].episode}
      BY <1>2, <3>1 DEF Inv, RunInv, RunAnnounced
    <3> QED BY <1>2, <2>1, <3>1, <3>2 DEF ObeysItsOwnRun, Announced
  <2>2. CASE ~node["Env"].running
    BY <1>2, <2>2 DEF ObeysItsOwnRun
  <2> QED BY <2>1, <2>2
<1> QED BY <1>3, <1>4, <1>5, <1>6, <1>7, TypePartsNext DEF Inv

(* A reset that succeeds: the node is in the episode of the worker, which   *)
(* has not been run.                                                        *)
LEMMA ResetPreserves ==
  ASSUME Inv, ResetEnv \/ ResetAgent
  PROVE  Inv'
<1> USE DEF ros, robot, protocol
<1>1. PICK c \in Components :
        /\ node[c].alive /\ node[c].status = "RESETTING"
        /\ node' = [node EXCEPT ![c] = Activated(node[c], request[c])]
        /\ Answer(c, "success")
        /\ c = "Env" => /\ command' = Zero /\ silence' = 0
                        /\ UNCHANGED <<hasTask, wire>>
        /\ c = "Agent" => hasTask' = FALSE /\ wire' = Zero /\ UNCHANGED robot
        /\ UNCHANGED <<protocol, inbox, taskInbox, faults>>
  BY DEF ResetEnv, ResetAgent, Components
<1>2. /\ OthersTyped /\ inbox \in [Components -> published \cup {None}]
      /\ node \in [Components -> NodeRec] /\ worker.episode \in Episodes
      /\ worker.episode \in Nat
  BY TypeParts, EpisodeFacts DEF Inv, MessagesTyped, NodesTyped, WorkerTyped
<1>3. /\ request[c] = worker.episode /\ ~RunAnnounced(worker.episode)
      /\ c = "Agent" => Prepared("Env")
  BY <1>1 DEF Inv, CallInv, EnvReset
<1> DEFINE n == Activated(node[c], request[c])
<1>4. /\ n \in NodeRec /\ n.episode = worker.episode /\ n.running = FALSE
      /\ n.alive = TRUE /\ n.status = "READY"
  <2>1. /\ node[c] \in NodeRec /\ "READY" \in Statuses /\ FALSE \in BOOLEAN
        /\ Unset \in 0..4 \cup {Unset}
        /\ request[c] = worker.episode /\ worker.episode \in Episodes \cup {NoEpisode}
        /\ node[c].alive = TRUE
    BY <1>1, <1>2, <1>3 DEF Statuses, NodeRec
  <2> HIDE DEF n
  <2>2. n = [node[c] EXCEPT !.status = "READY", !.episode = worker.episode,
                            !.last = Unset, !.running = FALSE]
    BY <2>1 DEF n, Activated
  <2> QED BY <2>1, <2>2 DEF NodeRec
<1> HIDE DEF n
<1>5. node' = [node EXCEPT ![c] = n]
  BY <1>1 DEF n
<1>6. NodesTyped' /\ node'[c] = n /\ \A d \in Components \ {c} : node'[d] = node[d]
  BY <1>2, <1>4, <1>5, NodeAt DEF NodesTyped
<1>7. /\ request' = [request EXCEPT ![c] = NoEpisode]
      /\ answer' = [answer EXCEPT ![c] = IF Waiting(c) THEN "success" ELSE None]
      /\ UNCHANGED <<worker, published, inbox, taskInbox, faults, ready, tracker>>
  BY <1>1 DEF Answer, Waiting
<1>8. OthersTyped'
  <2>1. 0 \in 0..WatchdogSteps
    BY HarnessAssumption
  <2>2. /\ command' \in {command, Zero} /\ wire' \in {wire, Zero}
        /\ hasTask' \in {hasTask, FALSE} /\ silence' \in {silence, 0}
    BY <1>1 DEF Components
  <2>3. /\ request' \in [Components -> Episodes \cup {NoEpisode}]
        /\ answer' \in [Components -> {None, "success", "failure"}]
    BY <1>2, <1>7 DEF OthersTyped
  <2>4. /\ silence' \in 0..WatchdogSteps /\ hasTask' \in BOOLEAN
        /\ wire' \in Episodes \cup {Zero, None} /\ command' \in Episodes \cup {Zero}
    BY <1>2, <2>1, <2>2 DEF OthersTyped
  <2> QED BY <1>2, <1>7, <2>3, <2>4 DEF OthersTyped
<1>9. WorkerInv' /\ PublishedInv' /\ WorkerTyped' /\ MessagesTyped'
  BY <1>2, <1>7, WorkerWaits
<1>10. RunInv'
  <2>1. \A d \in Components :
          node'[d].running =>
            \E m \in published : /\ m.episode = node'[d].episode
                                 /\ m.phase = "RUNNING"
                                 /\ m.sequence = node'[d].last
    BY <1>4, <1>6 DEF Inv, RunInv
  <2>2. \A d \in Components, m \in published :
          m.phase = "RUNNING" /\ node'[d].alive => m.episode <= node'[d].episode
    BY <1>4, <1>6 DEF Inv, RunInv, PublishedInv
  <2>3. node'["Env"].alive => node'["Agent"].episode <= node'["Env"].episode
    <3>1. CASE c = "Env"
      BY <1>4, <1>6, <3>1 DEF Inv, CallInv, Components
    <3>2. CASE c = "Agent"
      BY <1>2, <1>3, <1>4, <1>6, <3>2 DEF Prepared, Components
    <3> QED BY <3>1, <3>2 DEF Components
  <2>4. RunAnnounced(node'["Env"].episode) => wire' \in {None, Zero, node'["Env"].episode}
    <3>1. CASE c = "Env"
      BY <1>3, <1>4, <1>6, <3>1
    <3>2. CASE c = "Agent"
      BY <1>1, <3>2
    <3> QED BY <3>1, <3>2 DEF Components
  <2> QED BY <1>7, <2>1, <2>2, <2>3, <2>4 DEF RunInv, RunAnnounced, Announced
<1>11. ObeysItsOwnRun'
  <2>1. CASE c = "Env"
    BY <1>1, <2>1 DEF ObeysItsOwnRun
  <2>2. CASE c = "Agent"
    <3>1. node'["Env"] = node["Env"] /\ command' = command
      BY <1>1, <1>6, <2>2 DEF Components
    <3> QED BY <1>7, <3>1 DEF Inv, ObeysItsOwnRun, Announced
  <2> QED BY <2>1, <2>2 DEF Components
<1>12. CallInv'
  <2>1. \A d \in Components :
          /\ request'[d] = IF d = c THEN NoEpisode ELSE request[d]
          /\ answer'[d] = IF d = c THEN IF Waiting(c) THEN "success" ELSE None ELSE answer[d]
    BY <1>2, <1>7 DEF OthersTyped
  <2>2. ASSUME NEW d \in Components
        PROVE  /\ answer'[d] # None => Waiting(d) /\ request'[d] = NoEpisode
               /\ request'[d] # NoEpisode =>
                    /\ request'[d] = worker.episode
                    /\ Waiting(d) \/ worker.stopping
                    /\ ~RunAnnounced(worker.episode)
               /\ node'[d].alive /\ node'[d].status = "RESETTING" => request'[d] # NoEpisode
               /\ ~node'[d].alive =>
                    node'[d].episode = NoEpisode /\ ~node'[d].running /\ request'[d] = NoEpisode
               /\ node'[d].episode <= worker.episode
    <3>1. CASE d = c
      BY <1>2, <1>4, <1>6, <2>1, <3>1
    <3>2. CASE d # c
      BY <1>6, <2>1, <3>2 DEF Inv, CallInv
    <3> QED BY <3>1, <3>2
  <2>3. CASE c = "Env"
    <3>1. node'["Env"].episode = worker.episode /\ node'["Agent"] = node["Agent"]
      BY <1>4, <1>6, <2>3 DEF Components
    <3>2. (AgentReset' => AgentReset) /\ wire' = wire
      BY <1>1, <1>7, <2>1, <2>3 DEF AgentReset, Components
    <3>3. Prepared("Env")'
      BY <1>7, <3>1 DEF Prepared
    <3>4. AgentReset' => Prepared("Agent")' /\ wire' \in {None, Zero, worker'.episode}
      BY <1>7, <3>1, <3>2 DEF Inv, CallInv, Prepared
    <3> QED BY <1>7, <2>2, <3>3, <3>4 DEF CallInv, RunAnnounced, Announced, Waiting, At
  <2>4. CASE c = "Agent"
    <3>1. node'["Agent"].episode = worker.episode /\ node'["Env"] = node["Env"]
      BY <1>4, <1>6, <2>4 DEF Components
    <3>2. Prepared("Env")'
      BY <1>3, <1>7, <2>4, <3>1 DEF Prepared
    <3>3. Prepared("Agent")' /\ wire' = Zero
      BY <1>1, <1>7, <2>4, <3>1 DEF Prepared
    <3> QED BY <1>7, <2>2, <3>2, <3>3 DEF CallInv, RunAnnounced, Announced, Waiting, At
  <2> QED BY <2>3, <2>4 DEF Components
<1> QED BY <1>6, <1>8, <1>9, <1>10, <1>11, <1>12, TypePartsNext DEF Inv

LEMMA BootingIs ==
  /\ Booting \in NodeRec /\ Booting.alive /\ ~Booting.running
  /\ Booting.status = "STARTING" /\ Booting.episode = NoEpisode
<1>1. "STARTING" \in Statuses /\ TRUE \in BOOLEAN /\ FALSE \in BOOLEAN
  BY DEF Statuses
<1> QED BY <1>1 DEF Booting, NodeRec

(* A process dies, and its memory with it.                                  *)
LEMMA DiePreserves ==
  ASSUME Inv, NEW c \in Components, Die(c)
  PROVE  Inv'
<1> USE DEF ros, robot, protocol
<1>1. /\ OthersTyped /\ inbox \in [Components -> published \cup {None}]
      /\ node \in [Components -> NodeRec]
  BY TypeParts DEF Inv, MessagesTyped, NodesTyped
<1> DEFINE n == [Booting EXCEPT !.alive = FALSE]
<1>2. n \in NodeRec /\ n.alive = FALSE /\ n.running = FALSE /\ n.episode = NoEpisode
  <2>1. FALSE \in BOOLEAN /\ Booting \in NodeRec /\ ~Booting.running
        /\ Booting.episode = NoEpisode
    BY BootingIs
  <2> QED BY <2>1 DEF NodeRec
<1>3. node' = [node EXCEPT ![c] = n]
  BY DEF Die
<1> HIDE DEF n
<1>4. NodesTyped' /\ node'[c] = n /\ \A d \in Components \ {c} : node'[d] = node[d]
  BY <1>1, <1>2, <1>3, NodeAt DEF NodesTyped
<1>5. /\ inbox' = [inbox EXCEPT ![c] = None]
      /\ request' = [request EXCEPT ![c] = NoEpisode]
      /\ UNCHANGED <<worker, published, ready, tracker, answer>>
      /\ wire' \in {wire, None, Zero} /\ command' \in {command, Zero}
      /\ taskInbox' \in {taskInbox, NoEpisode} /\ hasTask' \in {hasTask, FALSE}
      /\ silence' \in {silence, 0} /\ faults' = faults + 1 /\ faults < MaxFaults
      /\ c = "Env" => command' = Zero
  BY DEF Die
<1>6. OthersTyped'
  <2>1. 0 \in 0..WatchdogSteps /\ faults' \in 0..MaxFaults
    BY <1>1, <1>5, HarnessAssumption DEF OthersTyped
  <2>2. request' \in [Components -> Episodes \cup {NoEpisode}]
    BY <1>1, <1>5 DEF OthersTyped
  <2>3. /\ silence' \in 0..WatchdogSteps /\ hasTask' \in BOOLEAN
        /\ taskInbox' \in Episodes \cup {NoEpisode}
        /\ wire' \in Episodes \cup {Zero, None} /\ command' \in Episodes \cup {Zero}
    BY <1>1, <1>5, <2>1 DEF OthersTyped
  <2> QED BY <1>1, <1>5, <2>1, <2>2, <2>3 DEF OthersTyped
<1>7. WorkerInv' /\ PublishedInv' /\ WorkerTyped' /\ MessagesTyped'
  <2>1. inbox' \in [Components -> published \cup {None}]
    BY <1>1, <1>5
  <2> QED BY <1>5, <2>1, WorkerWaits
<1>8. \A d \in Components : node[d].episode \in Nat /\ node'[d].episode \in Nat
  BY <1>1, <1>4, EpisodeFacts DEF NodesTyped, NodeRec, NoEpisode
<1>9. RunInv'
  <2>1. \A d \in Components :
          node'[d].running =>
            \E m \in published : /\ m.episode = node'[d].episode
                                 /\ m.phase = "RUNNING"
                                 /\ m.sequence = node'[d].last
    BY <1>2, <1>4 DEF Inv, RunInv
  <2>2. \A d \in Components, m \in published :
          m.phase = "RUNNING" /\ node'[d].alive => m.episode <= node'[d].episode
    BY <1>2, <1>4 DEF Inv, RunInv
  <2>3. node'["Env"].alive => node'["Agent"].episode <= node'["Env"].episode
    <3>1. CASE c = "Env"
      BY <1>2, <1>4, <3>1
    <3>2. CASE c = "Agent"
      BY <1>2, <1>4, <1>8, <3>2 DEF Components, NoEpisode
    <3> QED BY <3>1, <3>2 DEF Components
  <2>4. RunAnnounced(node'["Env"].episode) => wire' \in {None, Zero, node'["Env"].episode}
    <3>1. CASE c = "Env"
      <4>1. ~RunAnnounced(NoEpisode)
        BY TypeParts, EpisodeFacts DEF Inv, MessagesTyped, SnapshotRec, RunAnnounced, Announced
      <4> QED BY <1>2, <1>4, <3>1, <4>1
    <3>2. CASE c = "Agent"
      BY <1>4, <1>5, <3>2 DEF Inv, RunInv, Components
    <3> QED BY <3>1, <3>2 DEF Components
  <2> QED BY <1>5, <2>1, <2>2, <2>3, <2>4 DEF RunInv, RunAnnounced, Announced
<1>10. ObeysItsOwnRun'
  <2>1. CASE c = "Env"
    BY <1>5, <2>1 DEF ObeysItsOwnRun
  <2>2. CASE c = "Agent"
    <3>1. node'["Env"] = node["Env"]
      BY <1>4, <2>2 DEF Components
    <3> QED BY <1>5, <3>1 DEF Inv, ObeysItsOwnRun, Announced
  <2> QED BY <2>1, <2>2 DEF Components
<1>11. CallInv'
  <2>1. \A d \in Components :
          request'[d] = IF d = c THEN NoEpisode ELSE request[d]
    BY <1>1, <1>5 DEF OthersTyped
  <2>2. ASSUME NEW d \in Components
        PROVE  /\ answer'[d] # None => Waiting(d) /\ request'[d] = NoEpisode
               /\ request'[d] # NoEpisode =>
                    /\ request'[d] = worker.episode
                    /\ Waiting(d) \/ worker.stopping
                    /\ ~RunAnnounced(worker.episode)
               /\ node'[d].alive /\ node'[d].status = "RESETTING" => request'[d] # NoEpisode
               /\ ~node'[d].alive =>
                    node'[d].episode = NoEpisode /\ ~node'[d].running /\ request'[d] = NoEpisode
               /\ node'[d].episode <= worker.episode
    <3>1. CASE d = c
      <4>1. NoEpisode <= worker.episode
        BY TypeParts, EpisodeFacts DEF Inv, WorkerTyped, NoEpisode
      <4> QED BY <1>2, <1>4, <1>5, <2>1, <3>1, <4>1 DEF Inv, CallInv
    <3>2. CASE d # c
      BY <1>4, <1>5, <2>1, <3>2 DEF Inv, CallInv
    <3> QED BY <3>1, <3>2
  <2>3. (EnvReset' => EnvReset) /\ (AgentReset' => AgentReset)
    BY <1>5, <2>1 DEF EnvReset, AgentReset, Components
  <2>4. (Prepared("Env") => Prepared("Env")') /\ (Prepared("Agent") => Prepared("Agent")')
    BY <1>2, <1>4, <1>5 DEF Prepared, Components
  <2>5. /\ EnvReset' => Prepared("Env")'
        /\ AgentReset' => Prepared("Agent")' /\ wire' \in {None, Zero, worker'.episode}
    BY <1>5, <2>3, <2>4 DEF Inv, CallInv
  <2> QED BY <1>5, <2>2, <2>5 DEF CallInv, RunAnnounced, Announced, Waiting, At
<1> QED BY <1>4, <1>6, <1>7, <1>9, <1>10, <1>11, TypePartsNext DEF Inv

-----------------------------------------------------------------------------
LEMMA InitInv == Init => Inv
<1> SUFFICES ASSUME Init PROVE Inv
  OBVIOUS
<1>1. /\ worker = [episode |-> 1, phase |-> "PREPARING", sequence |-> 0, pc |-> "loop",
                   stopping |-> FALSE]
      /\ 1 \in Episodes /\ "PREPARING" \in Phases /\ 0 \in 0..4 /\ FALSE \in BOOLEAN
  BY EpisodeFacts DEF Init, Phases
<1> DEFINE s == [episode |-> 1, sequence |-> 0, phase |-> "PREPARING"]
<1>2. Snapshot(worker) = s /\ s \in SnapshotRec
  BY <1>1 DEF Snapshot, SnapshotRec
<1>3. s.episode = 1 /\ s.sequence = 0 /\ s.phase = "PREPARING"
  OBVIOUS
<1> HIDE DEF s
<1>4. published = {s} /\ inbox = [c \in Components |-> s]
  BY <1>2 DEF Init
<1>5. WorkerTyped /\ WorkerInv
  BY <1>1 DEF WorkerTyped, WorkerInv
<1>6. MessagesTyped
  BY <1>2, <1>4 DEF MessagesTyped
<1>7. PublishedInv
  BY <1>1, <1>2, <1>3, <1>4 DEF PublishedInv, EndPhases
<1>8. Booting \in NodeRec /\ Booting.alive /\ ~Booting.running
      /\ Booting.status = "STARTING" /\ Booting.episode = NoEpisode
  BY BootingIs
<1>9. node = [c \in Components |-> Booting]
  BY DEF Init
<1>10. NodesTyped
  BY <1>8, <1>9 DEF NodesTyped
<1>11. OthersTyped
  <2>1. [state |-> None, fresh |-> FALSE] \in [state : {"READY", "ERROR", None}, fresh : BOOLEAN]
    OBVIOUS
  <2>2. 0 \in 0..WatchdogSteps /\ 0 \in 0..MaxFaults
    BY HarnessAssumption
  <2> QED BY <2>1, <2>2 DEF Init, OthersTyped
<1>12. ~RunAnnounced(NoEpisode) /\ ~RunAnnounced(1)
  BY <1>3, <1>4 DEF RunAnnounced, Announced
<1>13. RunInv
  <2>1. \A m \in published : m.phase # "RUNNING"
    BY <1>3, <1>4
  <2>2. NoEpisode <= NoEpisode
    BY DEF NoEpisode
  <2> QED BY <1>8, <1>9, <1>12, <2>1, <2>2 DEF RunInv, Components
<1>14. CallInv
  <2>1. ASSUME NEW c \in Components
        PROVE  /\ answer[c] = None /\ request[c] = NoEpisode
               /\ node[c].alive /\ node[c].status # "RESETTING"
               /\ node[c].episode <= worker.episode
    BY <1>1, <1>8, <1>9 DEF Init, NoEpisode
  <2>2. ~EnvReset /\ ~AgentReset
    BY <1>1, <2>1 DEF EnvReset, AgentReset, Components
  <2> QED BY <2>1, <2>2 DEF CallInv
<1>15. ObeysItsOwnRun
  BY DEF Init, ObeysItsOwnRun
<1> QED BY <1>5, <1>6, <1>7, <1>10, <1>11, <1>13, <1>14, <1>15, TypeParts DEF Inv

LEMMA NextPreserves == Inv /\ [Next]_vars => Inv'
<1> SUFFICES ASSUME Inv, [Next]_vars PROVE Inv'
  OBVIOUS
<1>1. CASE UNCHANGED vars
  <2>1. UNCHANGED <<worker, published, inbox, node, request, answer, command, wire, hasTask>>
    BY <1>1 DEF vars
  <2>2. inbox' \in [Components -> published \cup {None}]
    BY <2>1, TypeParts DEF Inv, MessagesTyped
  <2>3. OthersTyped'
    BY <1>1, TypeParts DEF vars, Inv, OthersTyped
  <2> QED BY <2>1, <2>2, <2>3, NodesUntouched
<1>2. CASE Orchestrate
  BY <1>2, OutsideCallsPreserves, RepublishPreserves, AdvancePreserves, CallPreserves,
    CallEnds, ObserversPreserve DEF Orchestrate, Tick
<1>3. CASE Respond
  BY <1>3, ResetPreserves, ObserversPreserve, TakeCommandPreserves, StatusPreserves,
    TakeStatePreserves DEF Respond, Serve
<1>4. CASE Break
  BY <1>4, StatusPreserves, DiePreserves DEF Break
<1> QED BY <1>1, <1>2, <1>3, <1>4 DEF Next

LEMMA AlwaysInv == Spec => []Inv
BY InitInv, NextPreserves, PTL DEF Spec

-----------------------------------------------------------------------------
(* Every reachable state has its type, for every number of episodes, of     *)
(* faults and of watchdog steps.                                            *)
THEOREM HarnessTypeCorrect == Spec => []HarnessTypeOK
<1>1. Inv => HarnessTypeOK
  BY DEF Inv
<1> QED BY AlwaysInv, <1>1, PTL

(* The robot moves only in an announced run of the Env's episode, and by a  *)
(* command of that episode (orchestrator.py:428-431, sequence.py:48-62).    *)
THEOREM RobotObeysItsRun == Spec => []ObeysItsOwnRun
<1>1. Inv => ObeysItsOwnRun
  BY DEF Inv
<1> QED BY AlwaysInv, <1>1, PTL

(* Who is alive when RUNNING is announced was reset for this episode, and   *)
(* no command of an earlier one is left (orchestrator.py:440-470, 525-553). *)
THEOREM BothWereReset == Spec => []PreparedBeforeRun
<1>1. Inv => PreparedBeforeRun
  <2> SUFFICES ASSUME Inv, worker.phase = "RUNNING"
               PROVE  /\ \A c \in Components :
                           node[c].alive => node[c].episode = worker.episode
                      /\ {wire, command} \subseteq {None, Zero, worker.episode}
    BY DEF PreparedBeforeRun
  <2>1. EnvReset /\ AgentReset
    BY DEF EnvReset, AgentReset
  <2>2. Prepared("Env") /\ Prepared("Agent") /\ wire \in {None, Zero, worker.episode}
    BY <2>1 DEF Inv, CallInv
  <2>3. command # Zero => command = worker.episode
    BY <2>2 DEF Inv, CallInv, ObeysItsOwnRun, Prepared, Components
  <2> QED BY <2>2, <2>3 DEF Prepared, Components
<1> QED BY AlwaysInv, <1>1, PTL

(* A node comes to run only by a RUNNING snapshot of its episode that is    *)
(* newer than what it took last.                                            *)
LEMMA RunsBySnapshot ==
  ASSUME Inv, [Next]_vars, NEW c \in Components, node'[c].running
  PROVE  \/ node[c].running
         \/ \E k \in published : /\ k.phase = "RUNNING"
                                 /\ k.episode = node[c].episode
                                 /\ k.sequence > node[c].last
<1> USE DEF ros, robot, protocol
<1>1. node \in [Components -> NodeRec] /\ inbox \in [Components -> published \cup {None}]
  BY TypeParts DEF Inv, NodesTyped, MessagesTyped
<1>2. CASE \E d \in Components, m \in published : Obey(d, m)
  <2>1. PICK d \in Components, m \in published : Obey(d, m)
    BY <1>2
  <2>2. CASE d = c
    <3>1. m.phase = "RUNNING"
      BY <1>1, <2>1, <2>2 DEF Obey, NodeRec
    <3> QED BY <2>1, <2>2, <3>1 DEF Obey, Accepts
  <2>3. CASE d # c
    BY <1>1, <2>1, <2>3 DEF Obey
  <2> QED BY <2>2, <2>3
<1>3. CASE node' = node
  BY <1>3
<1>4. CASE \/ AgentError
           \/ \E d \in Components : BecomeReady(d) \/ TakeReset(d) \/ ResetFails(d)
  BY <1>1, <1>4 DEF AgentError, BecomeReady, TakeReset, ResetFails, NodeRec
<1>5. CASE ResetEnv \/ ResetAgent
  BY <1>1, <1>5 DEF ResetEnv, ResetAgent, Activated, NodeRec
<1>6. CASE \E d \in Components : Die(d)
  BY <1>1, <1>6 DEF Die, Booting, NodeRec
<1>7. CASE Orchestrate
  BY <1>3, <1>7 DEF Orchestrate, Tick, Look, Decide, PublishTask, HealthTick, Advance,
    ReadState, ReadAge, Call, Answered, CallExpires, EndCall, DeadlinePasses, Start,
    Terminate, Republish, Finalize, Hear, Expire
<1>8. CASE TakeTask \/ AgentDrives \/ TakeCommand \/ EnvSteps
  BY <1>3, <1>8 DEF TakeTask, AgentDrives, TakeCommand, EnvSteps
<1>9. ASSUME NEW d \in Components, TakeState(d) \/ Redeliver(d)
      PROVE  node' = node \/ \E m \in published : Obey(d, m)
  BY <1>1, <1>9 DEF TakeState, Redeliver
<1>10. CASE UNCHANGED vars
  BY <1>3, <1>10 DEF vars
<1> QED BY <1>2, <1>3, <1>4, <1>5, <1>6, <1>7, <1>8, <1>9, <1>10
      DEF Next, Respond, Serve, Break

(* A node that has seen the end of its episode never runs it again,         *)
(* whatever arrives late, twice or out of order (sequence.py:48-62).        *)
THEOREM NodesStopForGood == Spec => StopsForGood
<1>1. Inv /\ [Next]_vars =>
        [\A c \in Components :
           (\E m \in published : /\ m.episode = node[c].episode
                                 /\ m.phase \in {"TERMINATING", "FINISHED"}
                                 /\ m.sequence <= node[c].last)
             => ~node'[c].running]_vars
  <2> SUFFICES ASSUME Inv, [Next]_vars, NEW c \in Components, NEW m \in published,
                      m.episode = node[c].episode,
                      m.phase \in {"TERMINATING", "FINISHED"},
                      m.sequence <= node[c].last, node'[c].running
               PROVE  FALSE
    OBVIOUS
  <2>1. PICK k \in published : /\ k.phase = "RUNNING" /\ k.episode = node[c].episode
                               /\ k.sequence >= node[c].last
    <3>1. CASE node[c].running
      <4>1. PICK k \in published : /\ k.phase = "RUNNING" /\ k.episode = node[c].episode
                                   /\ k.sequence = node[c].last
        BY <3>1 DEF Inv, RunInv
      <4>2. k.sequence \in Nat
        BY TypeParts DEF Inv, MessagesTyped, SnapshotRec
      <4> QED BY <4>1, <4>2
    <3>2. CASE ~node[c].running
      <4>1. PICK k \in published : /\ k.phase = "RUNNING" /\ k.episode = node[c].episode
                                   /\ k.sequence > node[c].last
        BY <3>2, RunsBySnapshot
      <4>2. k.sequence \in Int /\ node[c].last \in Int
        BY TypeParts DEF Inv, MessagesTyped, SnapshotRec, NodesTyped, NodeRec, Unset
      <4> QED BY <4>1, <4>2
    <3> QED BY <3>1, <3>2
  <2>2. k.sequence < m.sequence
    BY <2>1 DEF Inv, PublishedInv, EndPhases
  <2>3. k.sequence \in Int /\ m.sequence \in Int /\ node[c].last \in Int
    BY TypeParts DEF Inv, MessagesTyped, SnapshotRec, NodesTyped, NodeRec, Unset
  <2> QED BY <2>1, <2>2, <2>3
<1> QED BY AlwaysInv, <1>1, PTL DEF Spec, StopsForGood
=============================================================================
