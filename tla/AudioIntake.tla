------------------------------ MODULE AudioIntake ------------------------------
(***************************************************************************)
(* The audio path of the Core's /ws/host-bridge handler                    *)
(* (src/src/agentic_gaming/main.py, host_bridge): the audio part of hello  *)
(* and the audio_chunk message.                                            *)
(*                                                                         *)
(* Everything here is in app.state or on disk and outlives connections.    *)
(* A message is handled without an await until its reply is sent, and      *)
(* nothing happens after the send, so that the handling of a message is    *)
(* one action and the messages of all connections form one sequence.       *)
(***************************************************************************)
EXTENDS AudioAnalysis

CONSTANTS
  Streams,       \* stream_id of audio captures
  MaxSequence,   \* bound: sequence number of a chunk
  MaxMessages    \* bound: messages handled, rejected ones aside

ASSUME IntakeAssumption == MaxSequence \in Nat /\ MaxMessages \in Nat

VARIABLES
  analyzer,         \* app.state.audio_analyzer
  streamId,         \* bridge["audio_stream_id"]
  lastSequence,     \* bridge["_audio_last_sequence"], 0 when None
  chunksReceived,   \* bridge["audio_chunks_received"]
  chunksDropped,    \* bridge["audio_chunks_dropped"]
  shownChunk,       \* bridge["last_audio_chunk_id"] and its measurement
  pcmFile,          \* chunk in latest-audio.pcm
  metadataFile,     \* chunk in latest-audio.json
  analysisFile,     \* chunk in latest-audio-analysis.json
  \* history
  heard,            \* what the analyzer has analysed, oldest first
  analysed,         \* chunks analysed; numbers the chunks in files and status
  messages,         \* messages handled
  opening,          \* first sequence number accepted since tracking began
  accepted,         \* chunks accepted since then
  droppedBefore,    \* audio_chunks_dropped then
  interrupted       \* since then a chunk was not accepted after its gap check

served  == <<pcmFile, metadataFile, analysisFile, shownChunk>>
account == <<opening, accepted, droppedBefore>>
vars == <<analyzer, streamId, lastSequence, chunksReceived, chunksDropped, served,
          heard, analysed, messages, account, interrupted>>

Chunks == [stream : Streams, sequence : 1..MaxSequence, duration : Durations,
           level : Levels]

\* The active candidates and the analyzers of class AudioAnalyzer; None is neither.
Candidates == [stream : Streams, first : 1..MaxSequence, last : 1..MaxSequence]

Analyzers ==
  [config : {"configured", "default"},
   buffer : Seq(Chunks), bufferDuration : Nat,
   levels : Seq([duration : Durations, level : Levels]), levelsDuration : Nat,
   candidate : Candidates \cup {None}]

ASSUME NoneAssumption == None \notin Candidates \cup Analyzers

Init ==
  /\ analyzer = None
  /\ streamId = None
  /\ lastSequence = 0
  /\ chunksReceived = 0
  /\ chunksDropped = 0
  /\ shownChunk = 0
  /\ pcmFile = 0
  /\ metadataFile = 0
  /\ analysisFile = 0
  /\ heard = <<>>
  /\ analysed = 0
  /\ messages = 0
  /\ opening = 0
  /\ accepted = 0
  /\ droppedBefore = 0
  /\ interrupted = FALSE

-----------------------------------------------------------------------------
(* hello *)

Handle == messages < MaxMessages /\ messages' = messages + 1

\* With audio: a new analyzer, and the sequence starts again.
HelloWithAudio(stream) ==
  /\ Handle
  /\ analyzer' = NewAnalyzer("configured")
  /\ heard' = <<>>
  /\ streamId' = stream
  /\ lastSequence' = 0
  /\ UNCHANGED <<chunksReceived, chunksDropped, served, analysed, account, interrupted>>

\* Without, or when the analysis cannot be configured and the handler raises:
\* only the analyzer is dropped.
HelloWithoutAudio ==
  /\ Handle
  /\ analyzer' = None
  /\ heard' = <<>>
  /\ UNCHANGED <<streamId, lastSequence, chunksReceived, chunksDropped, served,
                 analysed, account, interrupted>>

-----------------------------------------------------------------------------
(* audio_chunk *)

\* The chunk continues the stream whose sequence is tracked.
Continues(chunk) == streamId = chunk.stream /\ lastSequence # 0

\* Otherwise the chunk is rejected with AUDIO_SEQUENCE_INVALID, and before that a
\* chunk of the wrong shape, format, encoding or length is rejected: nothing
\* that is modelled here changes.
InSequence(chunk) == Continues(chunk) => chunk.sequence > lastSequence

\* Broken on purpose: the chunk that closes the gap is counted with it.
GapAndChunk(chunk) == IF Continues(chunk) THEN chunk.sequence - lastSequence ELSE 0

\* The sequence numbers that were skipped.
Gap(chunk) == IF Continues(chunk) THEN chunk.sequence - lastSequence - 1 ELSE 0

\* The analyzer that will be used: a default one if there is none.
Current == IF analyzer = None THEN NewAnalyzer("default") ELSE analyzer

\* Broken on purpose: the chunk is buffered before its samples are looked at.
AnalysisFailsBuffered(chunk) ==
  /\ Handle
  /\ InSequence(chunk)
  /\ chunksDropped' = chunksDropped + Gap(chunk)
  /\ analyzer' = AppendChunk(Current, chunk)
  /\ interrupted' = TRUE
  /\ UNCHANGED <<streamId, lastSequence, chunksReceived, served, heard, analysed,
                 account>>

\* AUDIO_ANALYSIS_FAILED: a sample is not finite.  The gap is counted already;
\* the analyzer has taken nothing in.
AnalysisFails(chunk) ==
  /\ Handle
  /\ InSequence(chunk)
  /\ chunksDropped' = chunksDropped + Gap(chunk)
  /\ analyzer' = Current
  /\ interrupted' = TRUE
  /\ UNCHANGED <<streamId, lastSequence, chunksReceived, served, heard, analysed,
                 account>>

\* The analyzer takes the chunk in; the history remembers whether its files and
\* status are complete.
TakeIn(chunk, stored) ==
  /\ Handle
  /\ InSequence(chunk)
  /\ analysed' = analysed + 1
  /\ chunksDropped' = chunksDropped + Gap(chunk)
  /\ analyzer' = Analyze(Current, chunk)
  /\ heard' = Append(heard, [chunk |-> chunk, stored |-> stored])

\* Broken on purpose: the analysis is written first.
WriteFailsAnalysisFirst(chunk) ==
  /\ TakeIn(chunk, FALSE)
  /\ analysisFile' = analysed + 1
  /\ interrupted' = TRUE
  /\ UNCHANGED <<pcmFile, metadataFile, shownChunk, streamId, lastSequence,
                 chunksReceived, account>>

\* One of the three files cannot be written, or all are and started_at_ns is no
\* date: the exception ends the connection and no status is updated.
WriteFails(chunk) ==
  /\ TakeIn(chunk, FALSE)
  /\ \E written \in 0..3 :
       /\ pcmFile' = IF written >= 1 THEN analysed + 1 ELSE pcmFile
       /\ metadataFile' = IF written >= 2 THEN analysed + 1 ELSE metadataFile
       /\ analysisFile' = IF written = 3 THEN analysed + 1 ELSE analysisFile
  /\ interrupted' = TRUE
  /\ UNCHANGED <<shownChunk, streamId, lastSequence, chunksReceived, account>>

\* The account of a stream goes on with its next chunk, or starts anew.
Account(chunk) ==
  IF Continues(chunk)
  THEN /\ accepted' = accepted + 1
       /\ UNCHANGED <<opening, droppedBefore, interrupted>>
  ELSE /\ opening' = chunk.sequence
       /\ accepted' = 1
       /\ droppedBefore' = chunksDropped
       /\ interrupted' = FALSE

\* Files, status, audio_ack.
AcceptChunk(chunk) ==
  /\ TakeIn(chunk, TRUE)
  /\ pcmFile' = analysed + 1
  /\ metadataFile' = analysed + 1
  /\ analysisFile' = analysed + 1
  /\ shownChunk' = analysed + 1
  /\ streamId' = chunk.stream
  /\ lastSequence' = chunk.sequence
  /\ chunksReceived' = chunksReceived + 1
  /\ Account(chunk)

Hello == HelloWithoutAudio \/ \E stream \in Streams : HelloWithAudio(stream)
AudioChunk ==
  \E chunk \in Chunks : AcceptChunk(chunk) \/ AnalysisFails(chunk) \/ WriteFails(chunk)

Next == Hello \/ AudioChunk

Spec == Init /\ [][Next]_vars

-----------------------------------------------------------------------------
(* Properties *)

\* Every sequence number of the tracked stream, from the first one accepted to
\* the last, was accepted or counted once in audio_chunks_dropped.  A chunk that
\* was not accepted after its gap had been counted is the one exception: the
\* next chunk counts that gap again, so that the count can only be too high.
GapsAccountedFor ==
  lastSequence # 0 =>
    LET explained == opening + accepted + (chunksDropped - droppedBefore) - 1
    IN lastSequence <= explained /\ (~interrupted => lastSequence = explained)

HeardChunks == [i \in DOMAIN heard |-> heard[i].chunk]

\* The longest end of some chunks that fits into History, or the last one if even
\* that does not fit.
RecentOf(chunks) ==
  LET End(k) == SubSeq(chunks, k, Len(chunks))
      fitting == {k \in 1..Len(chunks) : TotalDuration(End(k)) <= History}
  IN IF chunks = <<>> THEN <<>>
     ELSE End(Min(fitting \cup {Len(chunks)}))

\* What the buffer should hold.
RecentChunks == RecentOf(HeardChunks)

LevelOf(chunk) == [duration |-> chunk.duration, level |-> chunk.level]

\* README.md:122, a buffer limited to the last seconds: the ring buffer is
\* exactly the recent chunks, a chunk whose analysis failed is not in it, and
\* the loudness history, which has its own copy of the eviction rule, is that of
\* the same chunks.
BufferIsRecent ==
  analyzer # None =>
    /\ analyzer.buffer = RecentChunks
    /\ analyzer.levels = [i \in DOMAIN RecentChunks |-> LevelOf(RecentChunks[i])]
    /\ analyzer.bufferDuration = analyzer.levelsDuration

\* A chunk is loud if the chunks that were recent when it was heard, itself
\* included, last for the warm-up and it is louder than their baseline by the
\* trigger.  This looks at what was heard only, not at the analyzer.
Loud(chunks, i) ==
  LET recent == RecentOf(SubSeq(chunks, 1, i))
  IN TotalDuration(recent) >= Warmup /\ chunks[i].level - Baseline(recent) >= Trigger

\* The active candidate is the unbroken run of loud chunks that ends with the
\* last chunk heard: it starts at the first chunk of that run, under the stream
\* of that chunk, and is gone as soon as a chunk is not loud.
CandidateIsLoudRun ==
  analyzer # None /\ heard # <<>> =>
    LET quiet == {i \in DOMAIN heard : ~Loud(HeardChunks, i)}
        first == Max(quiet \cup {0}) + 1
    IN IF first > Len(heard) THEN analyzer.candidate = None
       ELSE analyzer.candidate =
              [stream |-> HeardChunks[first].stream,
               first |-> HeardChunks[first].sequence,
               last |-> HeardChunks[Len(heard)].sequence]

\* The files are replaced one after the other and the status last: what is
\* written later is never newer than what is written before.
ServedInWriteOrder ==
  /\ shownChunk <= analysisFile
  /\ analysisFile <= metadataFile
  /\ metadataFile <= pcmFile

\* Once its baseline is ready an analyzer keeps it: eviction never takes it back
\* below the warm-up, when no chunk is longer than History + 1 - Warmup.
BaselineStaysReady ==
  [][/\ analyzer # None /\ heard # <<>> /\ heard' # <<>>
     /\ BaselineReady(analyzer)
     /\ \A d \in Durations : Warmup + d <= History + 1
     => BaselineReady(analyzer')]_vars

\* Said by the reply AUDIO_SEQUENCE_INVALID (main.py:832), "sequence must
\* increase per stream": of the chunks accepted since the last hello, those of
\* one stream have growing sequence numbers.  Only the stream of the last chunk
\* is remembered.
SequenceIncreasesPerStream ==
  \A i, j \in DOMAIN heard :
    /\ i < j
    /\ heard[i].stored /\ heard[j].stored
    /\ heard[i].chunk.stream = heard[j].chunk.stream
    => heard[i].chunk.sequence < heard[j].chunk.sequence
=============================================================================
