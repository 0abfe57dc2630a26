---------------------------- MODULE AudioAnalysis ----------------------------
(***************************************************************************)
(* The AudioAnalyzer (src/src/agentic_gaming/audio_analysis.py): what one  *)
(* chunk does to the ring buffer, the loudness history and the active      *)
(* acoustic candidate.  analyze is synchronous, so each step is a function *)
(* from an analyzer to the next one.                                       *)
(*                                                                         *)
(* A chunk has a duration and a loudness, both whole numbers of some unit; *)
(* how the loudness is measured, salience, identifiers and the latency     *)
(* trace are left out.                                                     *)
(***************************************************************************)
EXTENDS Integers, SequencesExt

CONSTANTS
  History,          \* history_seconds
  Warmup,           \* baseline_warmup_seconds
  Percent,          \* 100 * baseline_percentile
  Trigger,          \* candidate_trigger_relative_loudness_db
  Durations,        \* duration_ns of a chunk
  Levels,           \* dbfs of a chunk
  None              \* no candidate, no analyzer

\* AudioAnalysisConfig and AudioChunk; nothing relates Warmup and History.
ASSUME AnalysisAssumption ==
  /\ History \in Nat \ {0}
  /\ Warmup \in Nat \ {0}
  /\ Percent \in 0..100
  /\ Trigger \in Nat
  /\ Durations \subseteq Nat \ {0}
  /\ Levels \subseteq Int

NewAnalyzer(config) ==
  [config |-> config, buffer |-> <<>>, bufferDuration |-> 0,
   levels |-> <<>>, levelsDuration |-> 0, candidate |-> None]

TotalDuration(items) ==
  LET sum[n \in 0..Len(items)] ==
        IF n = 0 THEN 0 ELSE sum[n - 1] + items[n].duration
  IN  sum[Len(items)]

\* How many items the while loop takes from the left: it stops when the rest
\* fits or is a single item.
Evicted(items, total) ==
  Min({k \in 0..(Len(items) - 1) :
         \/ k = Len(items) - 1
         \/ total - TotalDuration(SubSeq(items, 1, k)) <= History})

\* Items and their running duration after one more.
Retain(items, total, item) ==
  LET all == Append(items, item)
      sum == total + item.duration
      gone == Evicted(all, sum)
  IN [items |-> SubSeq(all, gone + 1, Len(all)),
      duration |-> sum - TotalDuration(SubSeq(all, 1, gone))]

\* AudioRingBuffer.append
AppendChunk(analyzer, chunk) ==
  LET kept == Retain(analyzer.buffer, analyzer.bufferDuration, chunk)
  IN [analyzer EXCEPT !.buffer = kept.items, !.bufferDuration = kept.duration]

\* Broken on purpose: a history that is exactly full loses its oldest level.
AppendLevelWhenFull(analyzer, chunk) ==
  LET kept == Retain(analyzer.levels, analyzer.levelsDuration, chunk)
  IN IF kept.duration = History /\ Len(kept.items) > 1
     THEN [analyzer EXCEPT !.levels = Tail(kept.items),
                           !.levelsDuration = kept.duration - Head(kept.items).duration]
     ELSE [analyzer EXCEPT !.levels = kept.items, !.levelsDuration = kept.duration]

\* _update_history: its own copy of the same eviction.
AppendLevel(analyzer, chunk) ==
  LET kept == Retain(analyzer.levels, analyzer.levelsDuration,
                     [duration |-> chunk.duration, level |-> chunk.level])
  IN [analyzer EXCEPT !.levels = kept.items, !.levelsDuration = kept.duration]

\* Python's round of a / b: halves go to the even neighbour.
Round(a, b) ==
  LET down == a \div b
      twice == 2 * (a % b)
  IN IF twice > b \/ (twice = b /\ down % 2 = 1) THEN down + 1 ELSE down

\* quantile: the value at this position of the sorted levels, from 0.
BaselinePosition(n) == Min({n - 1, Round((n - 1) * Percent, 100)})

Baseline(levels) ==
  LET position == BaselinePosition(Len(levels))
      Below(x) == Cardinality({i \in DOMAIN levels : levels[i].level < x})
      UpTo(x)  == Cardinality({i \in DOMAIN levels : levels[i].level <= x})
  IN CHOOSE x \in {levels[i].level : i \in DOMAIN levels} :
       Below(x) <= position /\ position < UpTo(x)

\* _is_baseline_ready
BaselineReady(analyzer) == analyzer.levelsDuration >= Warmup

\* The chunk is loud, relative to a baseline that it is itself part of.
AboveBaseline(analyzer, chunk) ==
  /\ BaselineReady(analyzer)
  /\ chunk.level - Baseline(analyzer.levels) >= Trigger

\* Broken on purpose: a quiet chunk does not end the candidate.
UpdateCandidateKept(analyzer, chunk) ==
  [analyzer EXCEPT !.candidate =
     IF @ # None THEN [@ EXCEPT !.last = chunk.sequence]
     ELSE IF AboveBaseline(analyzer, chunk)
     THEN [stream |-> chunk.stream, first |-> chunk.sequence, last |-> chunk.sequence]
     ELSE None]

\* _update_candidate: a candidate lasts while chunk after chunk is loud.
UpdateCandidate(analyzer, chunk) ==
  [analyzer EXCEPT !.candidate =
     IF ~AboveBaseline(analyzer, chunk) THEN None
     ELSE IF @ = None
     THEN [stream |-> chunk.stream, first |-> chunk.sequence, last |-> chunk.sequence]
     ELSE [@ EXCEPT !.last = chunk.sequence]]

\* analyze, when the PCM samples are as many as declared and finite.
Analyze(analyzer, chunk) ==
  UpdateCandidate(AppendLevel(AppendChunk(analyzer, chunk), chunk), chunk)
=============================================================================
