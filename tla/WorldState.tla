------------------------------ MODULE WorldState ------------------------------
(***************************************************************************)
(* The WorldStateStore of a run                                            *)
(* (src/src/agentic_gaming/world_state.py): what one perception does to    *)
(* the world state.  Every operation of the store is synchronous, so each  *)
(* is a function from a world to the next one.                             *)
(*                                                                         *)
(* The value of a fact is left out: it is copied from the perception that  *)
(* wrote the fact, which observedAt and origin tell apart.  A vision state *)
(* names each entity once.                                                 *)
(***************************************************************************)
EXTENDS Naturals, Sequences, FiniteSets

CONSTANTS
  Scenes,       \* names of scenes
  Entities,     \* ids of vision entities
  Sounds,       \* ids of audio events
  Times,        \* capture times
  None          \* no scene, no vision state, no value

ASSUME WorldAssumption ==
  /\ Times \subseteq Nat
  /\ None \notin Scenes
  /\ "scene" \notin Entities

Origins == {"observed_now", "observed_memory"}

\* VisionState: an entity that is seen is in the domain of entities.
VisionStates ==
  [capturedAt : Times, scene : Scenes \cup {None},
   entities : UNION {[seen -> Origins] : seen \in SUBSET Entities}]

\* AudioEvent
AudioEvents == [id : Sounds, startedAt : Times]

FactKeys == {"scene"} \cup Entities

Fact(observedAt, origin) == [observedAt |-> observedAt, origin |-> origin]

Facts == [observedAt : Times, origin : Origins]

InitialWorld ==
  [version |-> 0, updatedAt |-> 0, scene |-> None, latestVision |-> None,
   facts |-> <<>>, eventQueue |-> <<>>, recentDeltas |-> {}]

\* Broken on purpose: a version for each delta.
CommitPerDelta(world, timestamp, deltas) ==
  [world EXCEPT !.version = @ + Cardinality(deltas), !.updatedAt = timestamp,
                !.recentDeltas = deltas]

\* _commit
Commit(world, timestamp, deltas) ==
  [world EXCEPT !.version = @ + 1, !.updatedAt = timestamp, !.recentDeltas = deltas]

\* The keys that ingest_vision appends to changed.
Changed(vision) ==
  DOMAIN vision.entities \cup (IF vision.scene = None THEN {} ELSE {"scene"})

\* The facts a vision state brings: the scene is always observed now, an entity
\* carries its own origin.
FactsOf(vision) ==
  [key \in Changed(vision) |->
     Fact(vision.capturedAt,
          IF key = "scene" THEN "observed_now" ELSE vision.entities[key])]

\* facts[key] = ObservedFact(...) for every key: the other facts stay.
Remember(facts, vision) ==
  [key \in DOMAIN facts \cup Changed(vision) |->
     IF key \in Changed(vision) THEN FactsOf(vision)[key] ELSE facts[key]]

\* Broken on purpose: only keys that were unknown are reported as deltas.
IngestVisionNewKeys(world, vision) ==
  Commit([world EXCEPT
            !.latestVision = vision,
            !.scene = IF vision.scene = None THEN @ ELSE vision.scene,
            !.facts = Remember(@, vision)],
         vision.capturedAt, Changed(vision) \ DOMAIN world.facts)

\* ingest_vision.  Nothing compares captured_at_ns with what is known already.
IngestVision(world, vision) ==
  Commit([world EXCEPT
            !.latestVision = vision,
            !.scene = IF vision.scene = None THEN @ ELSE vision.scene,
            !.facts = Remember(@, vision)],
         vision.capturedAt, Changed(vision))

\* ingest_audio
IngestAudio(world, event) ==
  Commit([world EXCEPT !.eventQueue = Append(@, event)],
         event.startedAt, {event.id})

Worlds(maxVersion) ==
  [version : 0..maxVersion, updatedAt : Times \cup {0}, scene : Scenes \cup {None},
   latestVision : VisionStates \cup {None},
   facts : UNION {[known -> Facts] : known \in SUBSET FactKeys},
   eventQueue : Seq(AudioEvents), recentDeltas : SUBSET (FactKeys \cup Sounds)]
=============================================================================
