------------------------------ MODULE RunSession ------------------------------
(***************************************************************************)
(* A run of the Core (src/src/agentic_gaming/main.py, RunSession and the   *)
(* /api/runs endpoints): perceptions change its world state, decisions and *)
(* executions read it, and each of them publishes one event on the bus.    *)
(*                                                                         *)
(* The endpoints are coroutines of one event loop and run by any number of *)
(* callers at once (HTTP clients and the vision worker of a Host Bridge    *)
(* connection).  The only await at which an endpoint can be suspended is   *)
(* bus.publish: DeterministicGateway.decide and MotorExecutor.execute are  *)
(* coroutines that await nothing.  Both buses take the event before they   *)
(* suspend (InMemoryEventBus appends it to events, the NATS client to its  *)
(* outgoing buffer) or raise without having taken it.                      *)
(***************************************************************************)
EXTENDS WorldState, SequencesExt

CONSTANTS
  Callers,      \* callers of the API
  MaxEvents     \* bound: events emitted for the run

ASSUME SessionAssumption == MaxEvents \in Nat

VARIABLES
  registered,   \* the run is in app.state.runs
  world,        \* session.state_store
  sequence,     \* session.sequence
  bus,          \* the run's envelopes that the bus took, oldest first
  call,         \* caller -> the answer its endpoint will return, while suspended
  reply,        \* caller -> what its last call returned
  silent,       \* history: perceptions whose publish raised
  raised        \* history: publishes that raised

vars == <<registered, world, sequence, bus, call, reply, silent, raised>>

PerceptionTypes == {"perception.vision.state", "perception.audio.event"}
EventTypes == PerceptionTypes \cup
  {"run.started", "agent.decision.created", "motor.program.completed"}

Error == [type |-> "error"]

Init ==
  /\ registered = FALSE
  /\ world = InitialWorld
  /\ sequence = 0
  /\ bus = <<>>
  /\ call = [c \in Callers |-> None]
  /\ reply = [c \in Callers |-> None]
  /\ silent = 0
  /\ raised = 0

-----------------------------------------------------------------------------
(* RunSession.emit *)

\* get_run and the caller's own state: it waits for no other answer.
Calls(c) == registered /\ call[c] = None

Envelope(type, payload) ==
  [sequence |-> sequence + 1, version |-> world'.version, type |-> type,
   payload |-> payload]

\* What the endpoint will return: for the properties, the version it was made
\* from and the event it belongs to.
Answer(version) == [type |-> "answer", version |-> version, sequence |-> sequence + 1]

\* Broken on purpose: the newest event overtakes one that is being flushed.
TakeBefore(envelope) ==
  bus' = IF \E c \in Callers : call[c] # None
         THEN InsertAt(bus, Len(bus), envelope)
         ELSE Append(bus, envelope)

\* The bus takes the event.
Take(envelope) == bus' = Append(bus, envelope)

\* Broken on purpose: no sequence number is spent on an event that the bus
\* does not take.
RaisesUncounted(c, perception) ==
  /\ reply' = [reply EXCEPT ![c] = Error]
  /\ raised' = raised + 1
  /\ silent' = silent + perception
  /\ sequence' = sequence
  /\ UNCHANGED <<bus, call>>

\* publish raises: the caller gets status 500, and what the endpoint has done
\* to the world and the sequence stays done.
Raises(c, perception) ==
  /\ reply' = [reply EXCEPT ![c] = Error]
  /\ raised' = raised + 1
  /\ silent' = silent + perception
  /\ sequence' = sequence + 1
  /\ UNCHANGED <<bus, call>>

\* emit of an event whose answer was made from version.
Emit(c, type, payload, version) ==
  /\ sequence < MaxEvents
  /\ \/ /\ Take(Envelope(type, payload))
        /\ call' = [call EXCEPT ![c] = Answer(version)]
        /\ sequence' = sequence + 1
        /\ UNCHANGED <<reply, silent, raised>>
     \/ Raises(c, IF type \in PerceptionTypes THEN 1 ELSE 0)

-----------------------------------------------------------------------------
(* The endpoints *)

\* POST /api/runs: the run is listed before its first event goes out, and stays
\* listed if the publish raises.
CreateRun(c) ==
  /\ ~registered
  /\ registered' = TRUE
  /\ UNCHANGED world
  /\ Emit(c, "run.started", None, 0)

\* Broken on purpose: a scene that did not change is left out of the event.
VisionPayloadOfChange(vision) ==
  IF vision.scene = world.scene THEN [vision EXCEPT !.scene = None] ELSE vision

VisionPayload(vision) == vision

\* POST vision, and the vision worker
PostVision(c, vision) ==
  /\ Calls(c)
  /\ world' = IngestVision(world, vision)
  /\ Emit(c, "perception.vision.state", VisionPayload(vision), world'.version)
  /\ UNCHANGED registered

\* POST audio
PostAudio(c, event) ==
  /\ Calls(c)
  /\ world' = IngestAudio(world, event)
  /\ Emit(c, "perception.audio.event", event, world'.version)
  /\ UNCHANGED registered

\* Broken on purpose: the basis is the version that the decision expires after.
DecisionOnNext == [basedOn |-> world.version + 1, seen |-> world]

\* DeterministicGateway.decide; seen is the copy of the state the agent was
\* given, which the event does not carry.
Decision == [basedOn |-> world.version, seen |-> world]

\* POST decide
Decide(c) ==
  /\ Calls(c)
  /\ UNCHANGED <<registered, world>>
  /\ Emit(c, "agent.decision.created", Decision, world.version)

\* POST execute of a valid motor program.  No decision is asked for, and its
\* expires_after_state_version is not looked at.
Execute(c) ==
  /\ Calls(c)
  /\ UNCHANGED <<registered, world>>
  /\ Emit(c, "motor.program.completed", None, world.version)

\* Broken on purpose: the state is read again when publish has returned.
ReplyOfNow(c) == [call[c] EXCEPT !.version = world.version]

\* The endpoint returns what it had before the publish.
ReplyOf(c) == call[c]

PublishReturns(c) ==
  /\ call[c] # None
  /\ reply' = [reply EXCEPT ![c] = ReplyOf(c)]
  /\ call' = [call EXCEPT ![c] = None]
  /\ UNCHANGED <<registered, world, sequence, bus, silent, raised>>

Next ==
  \E c \in Callers :
    \/ CreateRun(c)
    \/ \E vision \in VisionStates : PostVision(c, vision)
    \/ \E event \in AudioEvents : PostAudio(c, event)
    \/ Decide(c)
    \/ Execute(c)
    \/ PublishReturns(c)

Spec == Init /\ [][Next]_vars

-----------------------------------------------------------------------------
(* Properties *)

Answers == [type : {"answer"}, version : 0..MaxEvents, sequence : 1..MaxEvents]

Payloads ==
  VisionStates \cup AudioEvents \cup {None}
    \cup [basedOn : 0..MaxEvents, seen : Worlds(MaxEvents)]

Envelopes ==
  [sequence : 1..MaxEvents, version : 0..MaxEvents, type : EventTypes,
   payload : Payloads]

\* The variables hold values of their kind.
TypeOK ==
  /\ registered \in BOOLEAN
  /\ world \in Worlds(MaxEvents)
  /\ sequence \in 0..MaxEvents
  /\ bus \in Seq(Envelopes)
  /\ call \in [Callers -> Answers \cup {None}]
  /\ reply \in [Callers -> Answers \cup {None, Error}]
  /\ silent \in Nat
  /\ raised \in Nat

IsPerception(envelope) == envelope.type \in PerceptionTypes

Perceptions(journal) == {i \in DOMAIN journal : IsPerception(journal[i])}

\* The journal of the run accounts for everything that happened to it: a missing
\* sequence number is an event whose publish raised, and each version of the
\* world is one perception, on the bus or refused by it.
JournalAccountsForRun ==
  /\ sequence = Len(bus) + raised
  /\ world.version = Cardinality(Perceptions(bus)) + silent

\* Subscribers see sequence numbers that grow and versions that never go back,
\* and a perception always brings a version no earlier event has.
JournalIsOrdered ==
  \A i, j \in DOMAIN bus : i < j =>
    /\ bus[i].sequence < bus[j].sequence
    /\ bus[i].version <= bus[j].version
    /\ IsPerception(bus[j]) => bus[i].version < bus[j].version

\* What one event of a journal does to the world before it.
Apply(before, envelope) ==
  CASE envelope.type = "perception.vision.state" -> IngestVision(before, envelope.payload)
    [] envelope.type = "perception.audio.event" -> IngestAudio(before, envelope.payload)
    [] OTHER -> before

\* The world that the events of a journal describe: after[n] is the world after
\* the first n of them.
Replay(journal) ==
  LET after[n \in 0..Len(journal)] ==
        IF n = 0 THEN InitialWorld ELSE Apply(after[n - 1], journal[n])
  IN  after[Len(journal)]

\* When the bus took every perception, replaying the journal gives the state
\* that GET /api/runs/{run_id}/state returns.
JournalReplaysToState == silent = 0 => Replay(bus) = world

\* The event of a decision says what the agent knew: it carries the version the
\* decision is based on, and replaying the events before it gives the state the
\* agent was given.
DecisionsAreReproducible ==
  \A i \in DOMAIN bus : bus[i].type = "agent.decision.created" =>
    /\ bus[i].version = bus[i].payload.basedOn
    /\ silent = 0 => Replay(SubSeq(bus, 1, i - 1)) = bus[i].payload.seen

\* What a caller is told belongs to the event its own call published, however
\* many other calls went on while publish was awaited.
RepliesMatchEvents ==
  \A c \in Callers : reply[c] \notin {None, Error} =>
    \E i \in DOMAIN bus : /\ bus[i].sequence = reply[c].sequence
                          /\ bus[i].version = reply[c].version

\* A fact that changes from one version to the next is named in recent_deltas.
DeltasNameTheNews ==
  [][\A key \in DOMAIN world'.facts :
       \/ key \in DOMAIN world.facts /\ world'.facts[key] = world.facts[key]
       \/ key \in world'.recentDeltas]_vars

\* Said by the design document (contexto-agente-visual-jogos.md:97): an old
\* observation "does not keep being treated as current truth".  It does: a fact
\* keeps the origin observed_now when later vision states do not show it.
OldSightingsAreNotCurrent ==
  world.latestVision # None =>
    \A key \in DOMAIN world.facts :
      world.facts[key].origin = "observed_now" =>
        world.facts[key].observedAt = world.latestVision.capturedAt
=============================================================================
