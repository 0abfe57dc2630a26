--------------------------- MODULE RunSessionProofs ---------------------------
(***************************************************************************)
(* The journal of a run, for any callers, any perceptions and any number   *)
(* of events.                                                              *)
(*                                                                         *)
(* What the properties say of two events, or of an event and a reply, rests*)
(* on what ties the events to the run: no event is ahead of the run's      *)
(* sequence number and version, the version is never ahead of the sequence *)
(* number, and the answer of an endpoint that waits for publish belongs to *)
(* an event that the bus has taken.                                        *)
(*                                                                         *)
(* That the journal describes the run (JournalReplaysToState, Decisions-   *)
(* AreReproducible) needs what Replay computes for a journal that grows:   *)
(* the worlds along a journal exist, are unique, and one more event applies*)
(* to the last of them.                                                    *)
(***************************************************************************)
EXTENDS RunSession, FiniteSetTheorems, WellFoundedInduction, TLAPS

EventsBehindRun ==
  \A i \in DOMAIN bus : bus[i].sequence <= sequence /\ bus[i].version <= world.version

Recorded(answer) ==
  \E i \in DOMAIN bus : bus[i].sequence = answer.sequence /\ bus[i].version = answer.version

CallsAreRecorded == \A c \in Callers : call[c] # None => Recorded(call[c])

FreshUntilRegistered == ~registered => world.version = 0

IInv ==
  /\ TypeOK
  /\ world.version <= sequence
  /\ FreshUntilRegistered
  /\ EventsBehindRun
  /\ JournalIsOrdered
  /\ JournalAccountsForRun
  /\ CallsAreRecorded
  /\ RepliesMatchEvents

-----------------------------------------------------------------------------
(* The world *)

LEMMA FactsOfType ==
  ASSUME NEW vision \in VisionStates
  PROVE  /\ Changed(vision) \subseteq FactKeys
         /\ FactsOf(vision) \in [Changed(vision) -> Facts]
  <1>1. vision.entities \in UNION {[seen -> Origins] : seen \in SUBSET Entities}
    BY DEF VisionStates
  <1>2. PICK seen \in SUBSET Entities : vision.entities \in [seen -> Origins]
    BY <1>1
  <1>3. Changed(vision) \subseteq FactKeys
    BY <1>2 DEF Changed, FactKeys
  <1>4. \A key \in Changed(vision) :
          (IF key = "scene" THEN "observed_now" ELSE vision.entities[key]) \in Origins
    BY <1>2 DEF Changed, Origins
  <1>5. vision.capturedAt \in Times
    BY DEF VisionStates
  <1> QED BY <1>3, <1>4, <1>5 DEF FactsOf, Fact, Facts

LEMMA RememberType ==
  ASSUME NEW vision \in VisionStates,
         NEW facts \in UNION {[known -> Facts] : known \in SUBSET FactKeys}
  PROVE  /\ Remember(facts, vision) \in UNION {[known -> Facts] : known \in SUBSET FactKeys}
         /\ \A key \in DOMAIN Remember(facts, vision) :
              \/ key \in DOMAIN facts /\ Remember(facts, vision)[key] = facts[key]
              \/ key \in Changed(vision)
  <1>1. PICK known \in SUBSET FactKeys : facts \in [known -> Facts]
    OBVIOUS
  <1>2. Remember(facts, vision) \in [Changed(vision) \cup known -> Facts]
    BY <1>1, FactsOfType DEF Remember
  <1>3. Changed(vision) \cup known \in SUBSET FactKeys
    BY FactsOfType
  <1>4. \A key \in known \ Changed(vision) : Remember(facts, vision)[key] = facts[key]
    BY <1>1, FactsOfType DEF Remember
  <1> QED BY <1>1, <1>2, <1>3, <1>4

LEMMA WorldTypes ==
  ASSUME NEW w \in Worlds(MaxEvents), w.version + 1 \in 0..MaxEvents
  PROVE  /\ \A vision \in VisionStates :
              /\ IngestVision(w, vision) \in Worlds(MaxEvents)
              /\ IngestVision(w, vision).version = w.version + 1
         /\ \A event \in AudioEvents :
              /\ IngestAudio(w, event) \in Worlds(MaxEvents)
              /\ IngestAudio(w, event).version = w.version + 1
              /\ IngestAudio(w, event).facts = w.facts
  <1>1. ASSUME NEW vision \in VisionStates
        PROVE  /\ IngestVision(w, vision) \in Worlds(MaxEvents)
               /\ IngestVision(w, vision).version = w.version + 1
    <2>1. Remember(w.facts, vision) \in UNION {[known -> Facts] : known \in SUBSET FactKeys}
      BY RememberType DEF Worlds
    <2>2. vision.capturedAt \in Times /\ vision.scene \in Scenes \cup {None}
      BY DEF VisionStates
    <2>3. Changed(vision) \in SUBSET (FactKeys \cup Sounds)
      BY FactsOfType
    <2> QED BY <2>1, <2>2, <2>3 DEF IngestVision, Commit, Worlds
  <1>2. ASSUME NEW event \in AudioEvents
        PROVE  /\ IngestAudio(w, event) \in Worlds(MaxEvents)
               /\ IngestAudio(w, event).version = w.version + 1
               /\ IngestAudio(w, event).facts = w.facts
    <2>1. event.startedAt \in Times /\ {event.id} \in SUBSET (FactKeys \cup Sounds)
      BY DEF AudioEvents
    <2>2. Append(w.eventQueue, event) \in Seq(AudioEvents)
      BY DEF Worlds
    <2> QED BY <2>1, <2>2 DEF IngestAudio, Commit, Worlds
  <1> QED BY <1>1, <1>2

-----------------------------------------------------------------------------
(* An event *)

\* Appending to a journal leaves its events where they are.
LEMMA Appended ==
  ASSUME NEW S, NEW journal \in Seq(S), NEW e \in S
  PROVE  LET longer == Append(journal, e)
             next == Len(journal) + 1
         IN  /\ longer \in Seq(S) /\ DOMAIN longer = 1..next /\ longer[next] = e
             /\ \A i \in DOMAIN journal :
                  i \in DOMAIN longer /\ longer[i] = journal[i] /\ i < next
             /\ next \in DOMAIN longer
             /\ \A i \in DOMAIN longer : i = next \/ i \in DOMAIN journal
  <1>1. Len(journal) \in Nat /\ DOMAIN journal = 1..Len(journal)
    OBVIOUS
  <1>2. /\ Append(journal, e) \in Seq(S)
        /\ DOMAIN Append(journal, e) = 1..(Len(journal) + 1)
        /\ Append(journal, e)[Len(journal) + 1] = e
        /\ \A i \in 1..Len(journal) : Append(journal, e)[i] = journal[i]
    OBVIOUS
  <1> QED BY <1>1, <1>2

\* What one more event on the bus does to the perceptions among them.
LEMMA OneMoreEvent ==
  ASSUME NEW journal \in Seq(Envelopes), NEW envelope \in Envelopes
  PROVE  /\ Cardinality(Perceptions(journal)) \in Nat
         /\ Cardinality(Perceptions(Append(journal, envelope))) =
              Cardinality(Perceptions(journal)) + (IF IsPerception(envelope) THEN 1 ELSE 0)
  <1> DEFINE next == Len(journal) + 1
             longer == Append(journal, envelope)
  <1>1. DOMAIN journal = 1..Len(journal) /\ Len(journal) \in Nat
    OBVIOUS
  <1>2. DOMAIN longer = 1..next /\ longer[next] = envelope
        /\ \A i \in 1..Len(journal) : longer[i] = journal[i]
    OBVIOUS
  <1>3. IsFiniteSet(Perceptions(journal)) /\ Cardinality(Perceptions(journal)) \in Nat
    <2>1. IsFiniteSet(1..Len(journal))
      BY <1>1, FS_Interval
    <2>2. Perceptions(journal) \in SUBSET (1..Len(journal))
      BY <1>1 DEF Perceptions
    <2> QED BY <2>1, <2>2, FS_Subset, FS_CardinalityType
  <1>4. CASE IsPerception(envelope)
    <2>1. Perceptions(longer) = Perceptions(journal) \cup {next}
      BY <1>1, <1>2, <1>4 DEF Perceptions
    <2>2. next \notin Perceptions(journal)
      BY <1>1 DEF Perceptions
    <2>3. Cardinality(Perceptions(journal) \cup {next}) = Cardinality(Perceptions(journal)) + 1
      BY <1>3, <2>2, FS_AddElement
    <2> QED BY <1>3, <1>4, <2>1, <2>3
  <1>5. CASE ~IsPerception(envelope)
    <2>1. Perceptions(longer) = Perceptions(journal)
      BY <1>1, <1>2, <1>5 DEF Perceptions
    <2> QED BY <1>3, <1>5, <2>1
  <1> QED BY <1>3, <1>4, <1>5

\* Values that a step leaves in their range.
LEMMA Bounds ==
  ASSUME IInv, sequence < MaxEvents
  PROVE  /\ sequence \in Nat /\ world.version \in Nat /\ MaxEvents \in Nat
         /\ sequence + 1 \in 1..MaxEvents /\ sequence + 1 \in 0..MaxEvents
         /\ world.version + 1 \in 0..MaxEvents
         /\ world.version + 1 <= sequence + 1
  <1>1. sequence \in 0..MaxEvents /\ world.version \in 0..MaxEvents
        /\ world.version <= sequence
    BY DEF IInv, TypeOK, Worlds
  <1> QED BY <1>1, SessionAssumption

\* emit preserves the invariant, whatever the event, if the world has moved on by
\* the perception that is emitted.
LEMMA EmitInv ==
  ASSUME IInv, NEW c \in Callers, NEW type \in EventTypes, NEW payload \in Payloads,
         Emit(c, type, payload, world'.version), registered' = TRUE,
         world' \in Worlds(MaxEvents),
         world'.version = world.version + (IF type \in PerceptionTypes THEN 1 ELSE 0)
  PROVE  IInv'
  <1> DEFINE envelope == [sequence |-> sequence + 1, version |-> world'.version,
                          type |-> type, payload |-> payload]
             answer == [type |-> "answer", version |-> world'.version,
                        sequence |-> sequence + 1]
             next == Len(bus) + 1
  <1>1. /\ sequence < MaxEvents
        /\ sequence' = sequence + 1
        /\ \/ /\ bus' = Append(bus, envelope)
              /\ call' = [call EXCEPT ![c] = answer]
              /\ UNCHANGED <<reply, silent, raised>>
           \/ /\ reply' = [reply EXCEPT ![c] = Error]
              /\ raised' = raised + 1
              /\ silent' = silent + (IF type \in PerceptionTypes THEN 1 ELSE 0)
              /\ UNCHANGED <<bus, call>>
    BY DEF Emit, Take, Envelope, Answer, Raises
  <1>2. /\ sequence \in Nat /\ world.version \in Nat
        /\ sequence' \in 0..MaxEvents /\ sequence' \in 1..MaxEvents
        /\ world'.version \in 0..MaxEvents /\ world'.version \in Nat
        /\ world'.version <= sequence' /\ world.version <= world'.version
    <2>1. world'.version \in 0..MaxEvents
      BY DEF Worlds
    <2> QED BY <1>1, <2>1, Bounds DEF IInv
  <1>3. silent \in Nat /\ raised \in Nat /\ silent' \in Nat /\ raised' \in Nat
    BY <1>1 DEF IInv, TypeOK
  <1>4. envelope \in Envelopes /\ answer \in Answers
    BY <1>1, <1>2 DEF Envelopes, Answers
  <1>5. bus \in Seq(Envelopes) /\ Len(bus) \in Nat /\ DOMAIN bus = 1..Len(bus)
    BY DEF IInv, TypeOK
  <1>6. \A i \in DOMAIN bus : /\ bus[i] \in Envelopes
                              /\ bus[i].sequence \in Nat /\ bus[i].version \in Nat
                              /\ bus[i].sequence <= sequence
                              /\ bus[i].version <= world.version
    <2>1. \A i \in DOMAIN bus : bus[i] \in Envelopes
      BY <1>5
    <2>2. \A e \in Envelopes : e.sequence \in Nat /\ e.version \in Nat
      BY SessionAssumption DEF Envelopes
    <2> QED BY <2>1, <2>2 DEF IInv, EventsBehindRun
  <1>7. FreshUntilRegistered'
    BY DEF FreshUntilRegistered
  <1>8. CASE Append(bus, envelope) = bus' /\ call' = [call EXCEPT ![c] = answer]
             /\ UNCHANGED <<reply, silent, raised>>
    <2>1. /\ bus' \in Seq(Envelopes) /\ DOMAIN bus' = 1..next /\ bus'[next] = envelope
          /\ \A i \in DOMAIN bus : i \in DOMAIN bus' /\ bus'[i] = bus[i] /\ i < next
          /\ next \in DOMAIN bus'
          /\ \A i \in DOMAIN bus' : i = next \/ i \in DOMAIN bus
      BY <1>4, <1>5, <1>8, Appended
    <2>2. TypeOK'
      BY <1>2, <1>3, <1>4, <1>8, <2>1 DEF IInv, TypeOK
    <2>3. EventsBehindRun'
      BY <1>1, <1>2, <1>6, <2>1 DEF EventsBehindRun
    <2>4. JournalIsOrdered'
      <3>1. ASSUME NEW i \in DOMAIN bus', NEW j \in DOMAIN bus', i < j
            PROVE  /\ bus'[i].sequence < bus'[j].sequence
                   /\ bus'[i].version <= bus'[j].version
                   /\ IsPerception(bus'[j]) => bus'[i].version < bus'[j].version
        <4>1. i \in DOMAIN bus
          BY <2>1, <1>5, <3>1
        <4>2. CASE j \in DOMAIN bus
          BY <2>1, <3>1, <4>1, <4>2 DEF IInv, JournalIsOrdered
        <4>3. CASE j = next
          <5>1. bus'[i].sequence <= sequence /\ bus'[i].version <= world.version
                /\ bus'[i].sequence \in Nat /\ bus'[i].version \in Nat
            BY <1>6, <2>1, <4>1
          <5>2. bus'[j].sequence = sequence + 1 /\ bus'[j].version = world'.version
                /\ bus'[j].type = type
            BY <2>1, <4>3
          <5>3. IsPerception(bus'[j]) => world'.version = world.version + 1
            BY <5>2 DEF IsPerception
          <5> QED BY <1>2, <5>1, <5>2, <5>3
        <4> QED BY <2>1, <4>2, <4>3
      <3> QED BY <3>1 DEF JournalIsOrdered
    <2>5. JournalAccountsForRun'
      <3>1. Cardinality(Perceptions(bus)) \in Nat
            /\ Cardinality(Perceptions(bus')) = Cardinality(Perceptions(bus))
                 + (IF type \in PerceptionTypes THEN 1 ELSE 0)
        BY <1>4, <1>5, <1>8, OneMoreEvent DEF IsPerception
      <3>2. Len(bus') = Len(bus) + 1
        BY <1>4, <1>5, <1>8
      <3>3. sequence = Len(bus) + raised
            /\ world.version = Cardinality(Perceptions(bus)) + silent
        BY DEF IInv, JournalAccountsForRun
      <3>4. sequence' = Len(bus') + raised'
        BY <1>1, <1>3, <1>5, <1>8, <3>2, <3>3
      <3>5. world'.version = Cardinality(Perceptions(bus')) + silent'
        BY <1>3, <1>8, <3>1, <3>3
      <3> QED BY <3>4, <3>5 DEF JournalAccountsForRun
    <2>6. \A old : Recorded(old) => Recorded(old)'
      BY <2>1 DEF Recorded
    <2>7. CallsAreRecorded'
      <3>1. ASSUME NEW d \in Callers, call'[d] # None
            PROVE  Recorded(call[d])'
        <4>1. CASE d = c
          <5>1. call'[d] = answer
            BY <1>8, <4>1 DEF IInv, TypeOK
          <5> QED BY <2>1, <5>1 DEF Recorded
        <4>2. CASE d # c
          <5>1. call'[d] = call[d]
            BY <1>8, <4>2 DEF IInv, TypeOK
          <5>2. Recorded(call[d])
            BY <3>1, <5>1 DEF IInv, CallsAreRecorded
          <5> QED BY <2>1, <5>1, <5>2 DEF Recorded
        <4> QED BY <4>1, <4>2
      <3> QED BY <3>1 DEF CallsAreRecorded
    <2>8. RepliesMatchEvents'
      BY <1>8, <2>1 DEF IInv, RepliesMatchEvents
    <2> QED BY <1>2, <1>7, <2>2, <2>3, <2>4, <2>5, <2>7, <2>8 DEF IInv
  <1>9. CASE /\ reply' = [reply EXCEPT ![c] = Error]
             /\ raised' = raised + 1
             /\ silent' = silent + (IF type \in PerceptionTypes THEN 1 ELSE 0)
             /\ UNCHANGED <<bus, call>>
    <2>1. TypeOK'
      BY <1>2, <1>3, <1>9 DEF IInv, TypeOK
    <2>2. EventsBehindRun'
      BY <1>1, <1>2, <1>6, <1>9 DEF EventsBehindRun
    <2>3. JournalIsOrdered' /\ CallsAreRecorded'
      BY <1>9 DEF IInv, JournalIsOrdered, CallsAreRecorded, Recorded
    <2>4. JournalAccountsForRun'
      <3>1. Cardinality(Perceptions(bus)) \in Nat
        BY <1>4, <1>5, OneMoreEvent
      <3>2. sequence = Len(bus) + raised
            /\ world.version = Cardinality(Perceptions(bus)) + silent
        BY DEF IInv, JournalAccountsForRun
      <3>3. Perceptions(bus') = Perceptions(bus)
        BY <1>9
      <3> QED BY <1>1, <1>3, <1>5, <1>9, <3>1, <3>2, <3>3 DEF JournalAccountsForRun
    <2>5. RepliesMatchEvents'
      BY <1>9 DEF IInv, RepliesMatchEvents, TypeOK
    <2> QED BY <1>2, <1>7, <2>1, <2>2, <2>3, <2>4, <2>5 DEF IInv
  <1> QED BY <1>1, <1>8, <1>9

-----------------------------------------------------------------------------
(* The steps *)

LEMMA InitInv == Init => IInv
  <1> SUFFICES ASSUME Init PROVE IInv
    OBVIOUS
  <1>1. MaxEvents \in Nat
    BY SessionAssumption
  <1>2. world \in Worlds(MaxEvents) /\ world.version = 0
    <2>1. <<>> \in UNION {[known -> Facts] : known \in SUBSET FactKeys}
      <3>1. <<>> \in [{} -> Facts] /\ {} \in SUBSET FactKeys
        OBVIOUS
      <3> QED BY <3>1
    <2> QED BY <1>1, <2>1 DEF Init, InitialWorld, Worlds
  <1>3. TypeOK
    <2>1. bus \in Seq(Envelopes)
      BY DEF Init
    <2>2. /\ call \in [Callers -> Answers \cup {None}]
          /\ reply \in [Callers -> Answers \cup {None, Error}]
      BY DEF Init
    <2>3. sequence \in 0..MaxEvents /\ silent \in Nat /\ raised \in Nat
      BY <1>1 DEF Init
    <2>4. registered \in BOOLEAN
      BY DEF Init
    <2> QED BY <1>2, <2>1, <2>2, <2>3, <2>4 DEF TypeOK
  <1>4. Perceptions(bus) = {}
    BY DEF Init, Perceptions
  <1>5. JournalAccountsForRun
    <2>1. Cardinality({}) = 0
      BY FS_EmptySet
    <2>2. Len(bus) = 0
      BY DEF Init
    <2>3. sequence = Len(bus) + raised
      BY <2>2 DEF Init
    <2>4. world.version = Cardinality(Perceptions(bus)) + silent
      BY <1>2, <1>4, <2>1 DEF Init
    <2> QED BY <2>3, <2>4 DEF JournalAccountsForRun
  <1>6. DOMAIN bus = {}
    BY DEF Init
  <1>7. FreshUntilRegistered /\ EventsBehindRun /\ JournalIsOrdered
    BY <1>2, <1>6 DEF FreshUntilRegistered, EventsBehindRun, JournalIsOrdered
  <1>8. CallsAreRecorded /\ RepliesMatchEvents
    BY DEF Init, CallsAreRecorded, RepliesMatchEvents
  <1> QED BY <1>2, <1>3, <1>5, <1>7, <1>8 DEF Init, IInv

LEMMA PayloadKinds ==
  /\ None \in Payloads
  /\ \A vision \in VisionStates : VisionPayload(vision) \in Payloads
  /\ \A event \in AudioEvents : event \in Payloads
  /\ IInv => Decision \in Payloads
  <1>1. ASSUME IInv PROVE Decision \in Payloads
    <2>1. world \in Worlds(MaxEvents) /\ world.version \in 0..MaxEvents
      BY <1>1 DEF IInv, TypeOK, Worlds
    <2> QED BY <2>1 DEF Decision, Payloads
  <1> QED BY <1>1 DEF Payloads, VisionPayload

LEMMA CreateRunInv == \A c \in Callers : IInv /\ CreateRun(c) => IInv'
  <1> SUFFICES ASSUME NEW c \in Callers, IInv, CreateRun(c) PROVE IInv'
    OBVIOUS
  <1>1. ~registered /\ registered' = TRUE /\ world' = world
        /\ Emit(c, "run.started", None, 0)
    BY DEF CreateRun
  <1>2. world'.version = 0 /\ world.version = 0
    BY <1>1 DEF IInv, FreshUntilRegistered
  <1>3. "run.started" \in EventTypes /\ "run.started" \notin PerceptionTypes
    BY DEF EventTypes, PerceptionTypes
  <1>4. Emit(c, "run.started", None, world'.version)
    BY <1>1, <1>2
  <1>5. world' \in Worlds(MaxEvents)
    BY <1>1 DEF IInv, TypeOK
  <1> QED BY <1>1, <1>2, <1>3, <1>4, <1>5, EmitInv, PayloadKinds

LEMMA ReadingInv ==
  ASSUME IInv, NEW c \in Callers, NEW type \in EventTypes \ PerceptionTypes,
         NEW payload \in Payloads, registered, UNCHANGED <<registered, world>>,
         Emit(c, type, payload, world.version)
  PROVE  IInv'
  <1>1. world' \in Worlds(MaxEvents) /\ world.version \in Nat /\ world'.version = world.version
    BY SessionAssumption DEF IInv, TypeOK, Worlds
  <1>2. registered' = TRUE
    BY DEF IInv, TypeOK
  <1>3. Emit(c, type, payload, world'.version)
    BY <1>1
  <1>4. world'.version = world.version + (IF type \in PerceptionTypes THEN 1 ELSE 0)
    BY <1>1
  <1> QED BY <1>1, <1>2, <1>3, <1>4, EmitInv

LEMMA PerceptionInv ==
  ASSUME IInv, NEW c \in Callers, NEW type \in PerceptionTypes,
         NEW payload \in Payloads, registered, UNCHANGED registered,
         world' \in Worlds(MaxEvents), world'.version = world.version + 1,
         Emit(c, type, payload, world'.version)
  PROVE  IInv'
  <1>1. type \in EventTypes
    BY DEF EventTypes
  <1>2. registered' = TRUE
    BY DEF IInv, TypeOK
  <1>3. world'.version = world.version + (IF type \in PerceptionTypes THEN 1 ELSE 0)
    OBVIOUS
  <1> QED BY <1>1, <1>2, <1>3, EmitInv

\* A perception is ingested only while the run has room for one more event.
LEMMA RoomForPerception ==
  ASSUME IInv, NEW c, NEW type, NEW payload, NEW version,
         Emit(c, type, payload, version)
  PROVE  world \in Worlds(MaxEvents) /\ world.version + 1 \in 0..MaxEvents
  <1>1. sequence < MaxEvents
    BY DEF Emit
  <1> QED BY <1>1, Bounds DEF IInv, TypeOK

LEMMA PublishReturnsInv == \A c \in Callers : IInv /\ PublishReturns(c) => IInv'
  <1> SUFFICES ASSUME NEW c \in Callers, IInv, PublishReturns(c) PROVE IInv'
    OBVIOUS
  <1>1. /\ call[c] # None
        /\ reply' = [reply EXCEPT ![c] = call[c]]
        /\ call' = [call EXCEPT ![c] = None]
        /\ UNCHANGED <<registered, world, sequence, bus, silent, raised>>
    BY DEF PublishReturns, ReplyOf
  <1>2. call \in [Callers -> Answers \cup {None}]
        /\ reply \in [Callers -> Answers \cup {None, Error}]
    BY DEF IInv, TypeOK
  <1>3. TypeOK'
    <2>1. call' \in [Callers -> Answers \cup {None}]
      BY <1>1, <1>2
    <2>2. call[c] \in Answers
      BY <1>1, <1>2
    <2>3. reply' \in [Callers -> Answers \cup {None, Error}]
      BY <1>1, <1>2, <2>2
    <2> QED BY <1>1, <2>1, <2>3 DEF IInv, TypeOK
  <1>4. /\ EventsBehindRun' /\ JournalIsOrdered' /\ FreshUntilRegistered'
        /\ (world.version <= sequence)'
    BY <1>1 DEF IInv, EventsBehindRun, JournalIsOrdered, FreshUntilRegistered
  <1>5. JournalAccountsForRun'
    BY <1>1 DEF IInv, JournalAccountsForRun
  <1>6. \A d \in Callers : call'[d] = (IF d = c THEN None ELSE call[d])
                           /\ reply'[d] = (IF d = c THEN call[c] ELSE reply[d])
    BY <1>1, <1>2
  <1>7. CallsAreRecorded'
    BY <1>1, <1>6 DEF IInv, CallsAreRecorded, Recorded
  <1>8. RepliesMatchEvents'
    BY <1>1, <1>6 DEF IInv, CallsAreRecorded, Recorded, RepliesMatchEvents
  <1> QED BY <1>3, <1>4, <1>5, <1>7, <1>8 DEF IInv

LEMMA StepInv == IInv /\ [Next]_vars => IInv'
  <1> SUFFICES ASSUME IInv, [Next]_vars PROVE IInv'
    OBVIOUS
  <1>1. ASSUME NEW c \in Callers, CreateRun(c) PROVE IInv'
    BY <1>1, CreateRunInv
  <1>2. ASSUME NEW c \in Callers, NEW vision \in VisionStates, PostVision(c, vision)
        PROVE  IInv'
    <2>1. registered /\ UNCHANGED registered /\ world' = IngestVision(world, vision)
          /\ Emit(c, "perception.vision.state", VisionPayload(vision), world'.version)
      BY <1>2 DEF PostVision, Calls
    <2>2. world \in Worlds(MaxEvents) /\ world.version + 1 \in 0..MaxEvents
      BY <2>1, RoomForPerception
    <2>3. world' \in Worlds(MaxEvents) /\ world'.version = world.version + 1
      BY <2>1, <2>2, WorldTypes
    <2>4. "perception.vision.state" \in PerceptionTypes
      BY DEF PerceptionTypes
    <2> QED BY <2>1, <2>3, <2>4, PayloadKinds, PerceptionInv
  <1>3. ASSUME NEW c \in Callers, NEW event \in AudioEvents, PostAudio(c, event)
        PROVE  IInv'
    <2>1. registered /\ UNCHANGED registered /\ world' = IngestAudio(world, event)
          /\ Emit(c, "perception.audio.event", event, world'.version)
      BY <1>3 DEF PostAudio, Calls
    <2>2. world \in Worlds(MaxEvents) /\ world.version + 1 \in 0..MaxEvents
      BY <2>1, RoomForPerception
    <2>3. world' \in Worlds(MaxEvents) /\ world'.version = world.version + 1
      BY <2>1, <2>2, WorldTypes
    <2>4. "perception.audio.event" \in PerceptionTypes
      BY DEF PerceptionTypes
    <2> QED BY <2>1, <2>3, <2>4, PayloadKinds, PerceptionInv
  <1>4. ASSUME NEW c \in Callers, Decide(c) PROVE IInv'
    <2>1. "agent.decision.created" \in EventTypes \ PerceptionTypes
      BY DEF EventTypes, PerceptionTypes
    <2> QED BY <1>4, <2>1, PayloadKinds, ReadingInv DEF Decide, Calls
  <1>5. ASSUME NEW c \in Callers, Execute(c) PROVE IInv'
    <2>1. "motor.program.completed" \in EventTypes \ PerceptionTypes
      BY DEF EventTypes, PerceptionTypes
    <2> QED BY <1>5, <2>1, PayloadKinds, ReadingInv DEF Execute, Calls
  <1>6. ASSUME NEW c \in Callers, PublishReturns(c) PROVE IInv'
    BY <1>6, PublishReturnsInv
  <1>7. CASE UNCHANGED vars
    BY <1>7 DEF IInv, TypeOK, EventsBehindRun, JournalIsOrdered, FreshUntilRegistered,
                JournalAccountsForRun, CallsAreRecorded, Recorded, RepliesMatchEvents, vars
  <1> QED BY <1>1, <1>2, <1>3, <1>4, <1>5, <1>6, <1>7 DEF Next

\* IInv holds in every state the run can reach.
THEOREM Invariance == Spec => []IInv
  <1> QED BY InitInv, StepInv, PTL DEF Spec

-----------------------------------------------------------------------------
(* The results *)

\* Type correctness of the run, its world and its journal.
THEOREM TypeCorrect == Spec => []TypeOK
  <1>1. IInv => TypeOK
    BY DEF IInv
  <1> QED BY <1>1, Invariance, PTL

\* For every number of callers, the events that reach the bus have growing sequence
\* numbers and versions that never go back.
THEOREM JournalOrder == Spec => []JournalIsOrdered
  <1>1. IInv => JournalIsOrdered
    BY DEF IInv
  <1> QED BY <1>1, Invariance, PTL

\* Every number and every version that the journal misses is a publish that raised.
THEOREM JournalAccounts == Spec => []JournalAccountsForRun
  <1>1. IInv => JournalAccountsForRun
    BY DEF IInv
  <1> QED BY <1>1, Invariance, PTL

\* What an endpoint returns after its publish is what its own event says.
THEOREM RepliesMatch == Spec => []RepliesMatchEvents
  <1>1. IInv => RepliesMatchEvents
    BY DEF IInv
  <1> QED BY <1>1, Invariance, PTL

\* recent_deltas names every fact that a step changes.
THEOREM Deltas == Spec => DeltasNameTheNews
  <1> DEFINE Named == \A key \in DOMAIN world'.facts :
                        \/ key \in DOMAIN world.facts /\ world'.facts[key] = world.facts[key]
                        \/ key \in world'.recentDeltas
  <1>1. IInv /\ [Next]_vars => [Named]_vars
    <2> SUFFICES ASSUME IInv, [Next]_vars, vars' # vars PROVE Named
      OBVIOUS
    <2>1. CASE world'.facts = world.facts
      BY <2>1
    <2>2. ASSUME NEW c \in Callers, NEW vision \in VisionStates, PostVision(c, vision)
          PROVE  Named
      <3>1. world' = IngestVision(world, vision)
        BY <2>2 DEF PostVision
      <3>2. world \in Worlds(MaxEvents)
        BY DEF IInv, TypeOK
      <3>3. world'.facts = Remember(world.facts, vision)
            /\ world'.recentDeltas = Changed(vision)
        BY <3>1, <3>2 DEF IngestVision, Commit, Worlds
      <3> QED BY <3>2, <3>3, RememberType DEF Worlds
    <2>3. ASSUME NEW c \in Callers, NEW event \in AudioEvents, PostAudio(c, event)
          PROVE  world'.facts = world.facts
      <3>1. world' = IngestAudio(world, event)
        BY <2>3 DEF PostAudio
      <3>2. world \in Worlds(MaxEvents)
        BY DEF IInv, TypeOK
      <3> QED BY <3>1, <3>2 DEF IngestAudio, Commit, Worlds
    <2>4. ASSUME NEW c \in Callers,
                 CreateRun(c) \/ Decide(c) \/ Execute(c) \/ PublishReturns(c)
          PROVE  world'.facts = world.facts
      BY <2>4 DEF CreateRun, Decide, Execute, PublishReturns
    <2> QED BY <2>1, <2>2, <2>3, <2>4 DEF Next
  <1> QED BY <1>1, Invariance, PTL DEF Spec, DeltasNameTheNews

-----------------------------------------------------------------------------
(* Replaying the journal.  What a recursive function computes is proved from *)
(* the least natural number for which it would fail.                        *)

LEMMA LeastOf ==
  ASSUME NEW S \in SUBSET Nat, S # {}
  PROVE  \E least \in S : \A n \in S : least <= n
  <1> DEFINE R == OpToRel(<, Nat)
  <1>1. PICK least \in S : \A n \in S : ~(<<n, least>> \in R)
    <2>1. IsWellFoundedOn(R, Nat)
      BY NatLessThanWellFounded, Zenon DEF OpToRel
    <2> HIDE DEF R
    <2> QED BY <2>1, WFMin
  <1>2. \A n \in S : ~(n < least)
    BY <1>1 DEF OpToRel
  <1> QED BY <1>2

\* The worlds after each of the first n events of a journal.
WorldsAfter(after, journal, n) ==
  after = [i \in 0..n |->
             IF i = 0 THEN InitialWorld ELSE Apply(after[i - 1], journal[i])]

LEMMA WorldsAfterExist ==
  ASSUME NEW journal, NEW n \in Nat
  PROVE  \E after : WorldsAfter(after, journal, n)
  <1> DEFINE Fails == {m \in Nat : ~ \E after : WorldsAfter(after, journal, m)}
  <1> SUFFICES ASSUME Fails # {} PROVE FALSE
    OBVIOUS
  <1>1. PICK least \in Fails : \A m \in Fails : least <= m
    <2> HIDE DEF Fails
    <2>1. Fails \in SUBSET Nat
      BY DEF Fails
    <2> QED BY <2>1, LeastOf
  <1>2. least # 0
    <2>1. WorldsAfter([i \in 0..0 |-> InitialWorld], journal, 0)
      BY DEF WorldsAfter
    <2> QED BY <2>1
  <1>3. least - 1 \in Nat /\ least - 1 \notin Fails
    BY <1>1, <1>2
  <1>4. PICK before : WorldsAfter(before, journal, least - 1)
    BY <1>3
  <1> DEFINE after == [i \in 0..least |->
                         IF i = least THEN Apply(before[least - 1], journal[least])
                                      ELSE before[i]]
  <1>5. \A i \in 0..least :
          after[i] = IF i = 0 THEN InitialWorld ELSE Apply(after[i - 1], journal[i])
    <2> TAKE i \in 0..least
    <2>1. CASE i = 0
      BY <1>2, <1>3, <1>4, <2>1 DEF WorldsAfter
    <2>2. CASE i = least
      <3>1. after[least] = Apply(before[least - 1], journal[least])
        OBVIOUS
      <3>2. after[least - 1] = before[least - 1]
        BY <1>2, <1>3
      <3> HIDE DEF after
      <3> QED BY <1>2, <2>2, <3>1, <3>2
    <2>3. CASE i # 0 /\ i # least
      <3>1. i \in 0..(least - 1) /\ i - 1 \in 0..least /\ i - 1 # least
        BY <1>3, <2>3
      <3>2. after[i] = before[i] /\ after[i - 1] = before[i - 1]
        BY <2>3, <3>1
      <3>3. before[i] = Apply(before[i - 1], journal[i])
        BY <1>4, <2>3, <3>1 DEF WorldsAfter
      <3> HIDE DEF after
      <3> QED BY <2>3, <3>2, <3>3
    <2> QED BY <2>1, <2>2, <2>3
  <1>6. WorldsAfter(after, journal, least)
    <2>1. after = [i \in 0..least |-> after[i]]
      OBVIOUS
    <2> HIDE DEF after
    <2> QED BY <1>5, <2>1 DEF WorldsAfter
  <1> QED BY <1>1, <1>6

SameStart(j1, j2, n) == \A i \in 1..n : j1[i] = j2[i]

\* A journal that goes on from another describes the same worlds so far.
LEMMA WorldsAfterAgree ==
  ASSUME NEW j1, NEW j2, NEW n \in Nat, NEW m \in Nat, NEW after1, NEW after2,
         n <= m, SameStart(j1, j2, n),
         WorldsAfter(after1, j1, n), WorldsAfter(after2, j2, m)
  PROVE  \A i \in 0..n : after1[i] = after2[i]
  <1> DEFINE Differ == {i \in Nat : i <= n /\ after1[i] # after2[i]}
  <1> SUFFICES ASSUME Differ # {} PROVE FALSE
    OBVIOUS
  <1>1. PICK least \in Differ : \A i \in Differ : least <= i
    <2>1. Differ \in SUBSET Nat
      OBVIOUS
    <2> HIDE DEF Differ
    <2> QED BY <2>1, LeastOf
  <1>2. CASE least = 0
    BY <1>1, <1>2 DEF WorldsAfter
  <1>3. CASE least # 0
    <2>1. least - 1 \in Nat /\ least - 1 \notin Differ /\ least \in 1..n
      BY <1>1, <1>3
    <2>2. after1[least - 1] = after2[least - 1]
      BY <2>1
    <2>3. after1[least] = Apply(after1[least - 1], j1[least])
      BY <2>1 DEF WorldsAfter
    <2>4. after2[least] = Apply(after2[least - 1], j2[least])
      BY <2>1 DEF WorldsAfter
    <2>5. j1[least] = j2[least]
      BY <2>1 DEF SameStart
    <2> QED BY <1>1, <2>2, <2>3, <2>4, <2>5
  <1> QED BY <1>2, <1>3

\* Replaying is following the events from the first world.
LEMMA ReplayIsLast ==
  ASSUME NEW journal, NEW n \in Nat, n = Len(journal),
         NEW after, WorldsAfter(after, journal, n)
  PROVE  Replay(journal) = after[n]
  <1> DEFINE chosen == CHOOSE g : WorldsAfter(g, journal, n)
  <1>1. WorldsAfter(chosen, journal, n)
    OBVIOUS
  <1>2. Replay(journal) = chosen[n]
    BY DEF Replay, WorldsAfter
  <1> HIDE DEF chosen
  <1>3. n <= n /\ SameStart(journal, journal, n)
    BY DEF SameStart
  <1>4. WorldsAfter(after, journal, n)
    OBVIOUS
  <1>5. \A i \in 0..n : chosen[i] = after[i]
    BY ONLY n \in Nat, <1>1, <1>3, <1>4, WorldsAfterAgree
  <1> QED BY <1>2, <1>5

LEMMA ReplayEmpty == Replay(<<>>) = InitialWorld
  <1>1. PICK after : WorldsAfter(after, <<>>, 0)
    BY WorldsAfterExist
  <1>2. Len(<<>>) = 0 /\ after[0] = InitialWorld
    BY <1>1 DEF WorldsAfter
  <1> QED BY <1>1, <1>2, ReplayIsLast

\* One more event.
LEMMA ReplayAppend ==
  ASSUME NEW S, NEW journal \in Seq(S), NEW e \in S
  PROVE  Replay(Append(journal, e)) = Apply(Replay(journal), e)
  <1> DEFINE n == Len(journal)
             longer == Append(journal, e)
  <1>1. n \in Nat /\ Len(longer) = n + 1 /\ longer[n + 1] = e
        /\ \A i \in 1..n : longer[i] = journal[i]
    OBVIOUS
  <1> HIDE DEF longer, n
  <1>2. PICK short : WorldsAfter(short, journal, n)
    BY <1>1, WorldsAfterExist
  <1>3. PICK long : WorldsAfter(long, longer, n + 1)
    BY <1>1, WorldsAfterExist
  <1>4. Replay(journal) = short[n]
    BY <1>1, <1>2, ReplayIsLast DEF n
  <1>5. Replay(longer) = long[n + 1]
    BY <1>1, <1>3, ReplayIsLast
  <1>6. long[n] = short[n]
    <2>1. n <= n + 1 /\ n + 1 \in Nat /\ SameStart(journal, longer, n)
      BY <1>1 DEF SameStart
    <2>2. n \in Nat
      BY <1>1
    <2>3. \A i \in 0..n : short[i] = long[i]
      BY ONLY <1>2, <1>3, <2>1, <2>2, WorldsAfterAgree
    <2> QED BY <1>1, <2>3
  <1>7. long[n + 1] = Apply(long[n], e)
    BY <1>1, <1>3 DEF WorldsAfter
  <1> QED BY <1>4, <1>5, <1>6, <1>7 DEF longer

\* The events before an old one, and before the newest one.
LEMMA BeforeEvent ==
  ASSUME NEW S, NEW journal \in Seq(S), NEW e \in S
  PROVE  /\ \A i \in DOMAIN journal :
              SubSeq(Append(journal, e), 1, i - 1) = SubSeq(journal, 1, i - 1)
         /\ SubSeq(Append(journal, e), 1, Len(journal)) = journal
  <1>1. Len(journal) \in Nat /\ DOMAIN journal = 1..Len(journal)
    OBVIOUS
  <1>2. ASSUME NEW i \in DOMAIN journal
        PROVE  SubSeq(Append(journal, e), 1, i - 1) = SubSeq(journal, 1, i - 1)
    OBVIOUS
  <1>3. SubSeq(Append(journal, e), 1, Len(journal)) = journal
    OBVIOUS
  <1> QED BY <1>2, <1>3

Reproducible == IInv /\ JournalReplaysToState /\ DecisionsAreReproducible

\* emit keeps the journal and the world together, if the event is what happened
\* to the world, and if a decision carries the world it was made in.
LEMMA EmitReproducible ==
  ASSUME Reproducible, NEW c, NEW type \in EventTypes, NEW payload,
         Emit(c, type, payload, world'.version),
         world' = Apply(world, Envelope(type, payload)),
         type = "agent.decision.created" =>
           /\ payload.basedOn = world'.version
           /\ payload.seen = world
  PROVE  JournalReplaysToState' /\ DecisionsAreReproducible'
  <1> DEFINE e == Envelope(type, payload)
             S == Envelopes \cup {e}
  <1>1. \/ bus' = Append(bus, e) /\ silent' = silent
        \/ bus' = bus /\ silent' = silent + (IF type \in PerceptionTypes THEN 1 ELSE 0)
    BY DEF Emit, Take, Raises
  <1>2. silent \in Nat /\ bus \in Seq(Envelopes)
    BY DEF Reproducible, IInv, TypeOK
  <1>3. e.type = type /\ e.payload = payload /\ e.version = world'.version
    BY DEF Envelope
  <1>4. silent = 0 => Replay(bus) = world
    BY DEF Reproducible, JournalReplaysToState
  <1>5. \A i \in DOMAIN bus : bus[i].type = "agent.decision.created" =>
          /\ bus[i].version = bus[i].payload.basedOn
          /\ silent = 0 => Replay(SubSeq(bus, 1, i - 1)) = bus[i].payload.seen
    BY DEF Reproducible, DecisionsAreReproducible
  <1>6. world' = Apply(world, e)
    OBVIOUS
  <1>7. CASE bus' = Append(bus, e) /\ silent' = silent
    <2> HIDE DEF e
    <2>1. bus \in Seq(S) /\ e \in S
      BY <1>2
    <2> HIDE DEF S
    <2>2. Replay(bus') = Apply(Replay(bus), e)
      BY <1>7, <2>1, ReplayAppend
    <2>3. JournalReplaysToState'
      BY <1>4, <1>6, <1>7, <2>2 DEF JournalReplaysToState
    <2>4. ASSUME NEW i \in DOMAIN bus', bus'[i].type = "agent.decision.created"
          PROVE  /\ bus'[i].version = bus'[i].payload.basedOn
                 /\ silent' = 0 => Replay(SubSeq(bus', 1, i - 1)) = bus'[i].payload.seen
      <3>1. CASE i \in DOMAIN bus
        <4>1. bus'[i] = bus[i] /\ SubSeq(bus', 1, i - 1) = SubSeq(bus, 1, i - 1)
          BY <1>7, <2>1, <3>1, Appended, BeforeEvent
        <4> QED BY <1>5, <1>7, <2>4, <3>1, <4>1
      <3>2. CASE i = Len(bus) + 1
        <4>1. bus'[i] = e
          BY <1>7, <2>1, <3>2, Appended
        <4>2. Len(bus) \in Nat /\ i - 1 = Len(bus)
          BY <2>1, <3>2
        <4>3. SubSeq(bus', 1, i - 1) = bus
          BY <1>7, <2>1, <4>2, BeforeEvent
        <4> QED BY <1>3, <1>4, <1>7, <2>4, <4>1, <4>3
      <3> QED BY <1>7, <2>1, <3>1, <3>2, Appended
    <2>5. DecisionsAreReproducible'
      BY <2>4 DEF DecisionsAreReproducible
    <2> QED BY <2>3, <2>5
  <1>8. CASE bus' = bus /\ silent' = silent + (IF type \in PerceptionTypes THEN 1 ELSE 0)
    <2> HIDE DEF e
    <2>1. silent' = 0 => silent = 0 /\ type \notin PerceptionTypes
      BY <1>2, <1>8
    <2>2. type \notin PerceptionTypes => world' = world
      BY <1>3, <1>6 DEF Apply, PerceptionTypes
    <2>3. JournalReplaysToState'
      BY <1>4, <1>8, <2>1, <2>2 DEF JournalReplaysToState
    <2>4. DecisionsAreReproducible'
      BY <1>5, <1>8, <2>1 DEF DecisionsAreReproducible
    <2> QED BY <2>3, <2>4
  <1> QED BY <1>1, <1>7, <1>8

LEMMA InitReproducible == Init => JournalReplaysToState /\ DecisionsAreReproducible
  <1> SUFFICES ASSUME Init PROVE JournalReplaysToState /\ DecisionsAreReproducible
    OBVIOUS
  <1>1. bus = <<>> /\ world = InitialWorld
    BY DEF Init
  <1>2. DOMAIN bus = {}
    BY <1>1
  <1> QED BY <1>1, <1>2, ReplayEmpty DEF JournalReplaysToState, DecisionsAreReproducible

LEMMA StepReproducible ==
  Reproducible /\ [Next]_vars => JournalReplaysToState' /\ DecisionsAreReproducible'
  <1> SUFFICES ASSUME Reproducible, [Next]_vars
               PROVE  JournalReplaysToState' /\ DecisionsAreReproducible'
    OBVIOUS
  <1> DEFINE Goal == JournalReplaysToState' /\ DecisionsAreReproducible'
  <1>1. \A type, payload : /\ Envelope(type, payload).type = type
                           /\ Envelope(type, payload).payload = payload
    BY DEF Envelope
  <1>2. ASSUME NEW c \in Callers, NEW type \in EventTypes \ PerceptionTypes, NEW payload,
               world' = world, Emit(c, type, payload, world'.version),
               type = "agent.decision.created" =>
                 payload.basedOn = world.version /\ payload.seen = world
        PROVE  Goal
    <2>1. world' = Apply(world, Envelope(type, payload))
      BY <1>1, <1>2 DEF Apply, PerceptionTypes
    <2> QED BY <1>2, <2>1, EmitReproducible
  <1>3. ASSUME NEW c \in Callers, CreateRun(c) PROVE Goal
    <2>1. ~registered /\ world' = world /\ Emit(c, "run.started", None, 0)
      BY <1>3 DEF CreateRun
    <2>2. world'.version = 0
      BY <2>1 DEF Reproducible, IInv, FreshUntilRegistered
    <2>3. "run.started" \in EventTypes \ PerceptionTypes
      BY DEF EventTypes, PerceptionTypes
    <2> QED BY <1>2, <2>1, <2>2, <2>3
  <1>4. ASSUME NEW c \in Callers, NEW vision \in VisionStates, PostVision(c, vision)
        PROVE  Goal
    <2>1. world' = IngestVision(world, vision)
          /\ Emit(c, "perception.vision.state", vision, world'.version)
      BY <1>4 DEF PostVision, VisionPayload
    <2>2. world' = Apply(world, Envelope("perception.vision.state", vision))
      BY <1>1, <2>1 DEF Apply
    <2>3. "perception.vision.state" \in EventTypes
      BY DEF EventTypes, PerceptionTypes
    <2> QED BY <2>1, <2>2, <2>3, EmitReproducible
  <1>5. ASSUME NEW c \in Callers, NEW event \in AudioEvents, PostAudio(c, event)
        PROVE  Goal
    <2>1. world' = IngestAudio(world, event)
          /\ Emit(c, "perception.audio.event", event, world'.version)
      BY <1>5 DEF PostAudio
    <2>2. world' = Apply(world, Envelope("perception.audio.event", event))
      BY <1>1, <2>1 DEF Apply
    <2>3. "perception.audio.event" \in EventTypes
      BY DEF EventTypes, PerceptionTypes
    <2> QED BY <2>1, <2>2, <2>3, EmitReproducible
  <1>6. ASSUME NEW c \in Callers, Decide(c) PROVE Goal
    <2>1. world' = world /\ Emit(c, "agent.decision.created", Decision, world'.version)
      BY <1>6 DEF Decide
    <2>2. Decision.basedOn = world.version /\ Decision.seen = world
      BY DEF Decision
    <2>3. "agent.decision.created" \in EventTypes \ PerceptionTypes
      BY DEF EventTypes, PerceptionTypes
    <2> QED BY <1>2, <2>1, <2>2, <2>3
  <1>7. ASSUME NEW c \in Callers, Execute(c) PROVE Goal
    <2>1. world' = world /\ Emit(c, "motor.program.completed", None, world'.version)
      BY <1>7 DEF Execute
    <2>2. "motor.program.completed" \in EventTypes \ PerceptionTypes
      BY DEF EventTypes, PerceptionTypes
    <2> QED BY <1>2, <2>1, <2>2
  <1>8. CASE UNCHANGED <<bus, world, silent>>
    BY <1>8 DEF Reproducible, JournalReplaysToState, DecisionsAreReproducible
  <1>9. ASSUME NEW c \in Callers, PublishReturns(c) PROVE Goal
    BY <1>8, <1>9 DEF PublishReturns
  <1> QED BY <1>3, <1>4, <1>5, <1>6, <1>7, <1>8, <1>9 DEF Next, vars

LEMMA ReproducibleInvariance == Spec => []Reproducible
  <1>1. Init => Reproducible
    BY InitInv, InitReproducible DEF Reproducible
  <1>2. Reproducible /\ [Next]_vars => Reproducible'
    BY StepInv, StepReproducible DEF Reproducible
  <1> QED BY <1>1, <1>2, PTL DEF Spec

\* Whatever the callers do and in whatever order their endpoints are suspended: as
\* long as the bus has refused no perception, replaying the journal from the first
\* event gives the state of the run.
THEOREM ReplayGivesState == Spec => []JournalReplaysToState
  <1>1. Reproducible => JournalReplaysToState
    BY DEF Reproducible
  <1> QED BY <1>1, ReproducibleInvariance, PTL

\* The events before a decision give the state the agent was shown, and the event
\* of the decision carries the version of that state.
THEOREM DecisionsReplay == Spec => []DecisionsAreReproducible
  <1>1. Reproducible => DecisionsAreReproducible
    BY DEF Reproducible
  <1> QED BY <1>1, ReproducibleInvariance, PTL
=============================================================================
