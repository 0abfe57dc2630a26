---------------------------- MODULE SceneObservation ----------------------------
(***************************************************************************)
(* What the vision runtime of the FNAF 1 pack concludes from one frame:    *)
(* DifferenceVision.observe, _detect_active_camera, _detect_candidate,     *)
(* _detect_candidate_single and _signature_score in                        *)
(* src/game-packs/fnaf1/vision/runtime.py.                                 *)
(*                                                                         *)
(* The candidates are looked at one after the other, as in the loop of     *)
(* observe.  A picture gives each of a few pixels a gray value, after      *)
(* blurring.  Scores are in units of One, rounded down.  Of which overlaps *)
(* morphology and min_component_area leave a component, with a box for the *)
(* entity, is a part of the candidate.  A candidate has a scene and one    *)
(* entity, as in the shipped pipeline.json.                                *)
(***************************************************************************)
EXTENDS Integers, SequencesExt

CONSTANTS
  RoiPixels,
  Grays,               \* gray values of the frame in a ROI
  Pipelines,           \* the candidates of difference_detection, in order
  Rois,                \* the coordinate space of each ROI of the pack
  Pictures,            \* the assets; Nothing for one that cannot be read
  Cameras,             \* camera_ids of camera_title_detection.templates
  TitleScores,         \* overlaps of a title with a template
  MinimumScore,        \* of camera_title_detection
  MinimumMargin,
  Threshold,           \* of the candidates
  MinScoreMargin,
  PixelThreshold,
  BackgroundThreshold,
  Nothing              \* None

One == 10000

DifferenceCandidate ==
  [scene : STRING, camera : STRING, space : {"screen", "world"}, roi : STRING,
   positives : Seq(DOMAIN Pictures), negatives : Seq(DOMAIN Pictures), state : STRING,
   allowed : SUBSET RoiPixels, components : SUBSET ((SUBSET RoiPixels) \ {{}}),
   enabled : BOOLEAN]

Candidates == UNION {Range(candidates) : candidates \in Pipelines}

EntityStates == {c.state : c \in Candidates} \cup {"absent"}

WorldRoiIds == {roi \in DOMAIN Rois : Rois[roi] = "world"}

ASSUME SceneAssumption ==
  /\ IsFiniteSet(RoiPixels) /\ RoiPixels # {}
  /\ Grays \subseteq Nat
  /\ \A asset \in DOMAIN Pictures :
       Pictures[asset] # Nothing => Pictures[asset] \in [RoiPixels -> Nat]
  /\ {MinimumScore, MinimumMargin, Threshold, MinScoreMargin} \subseteq 0..One
  /\ {PixelThreshold, BackgroundThreshold} \subseteq Nat \ {0}
  /\ Pipelines \subseteq Seq(DifferenceCandidate)
  /\ \A c \in Candidates : c.positives # <<>> /\ c.negatives # <<>>
  /\ Nothing \notin [state : EntityStates, confidence : Nat, margin : Nat]

VARIABLES
  pipeline,            \* the candidates of the pack that is loaded
  stage,               \* "waiting", "evaluating" or "observed"
  shown,               \* the frame: what its ROIs show
  active,              \* active_camera_id
  at,                  \* the candidate that is looked at next
  entities,            \* of which candidate, and what it is
  unavailable,         \* world_observation_unavailable
  observation          \* the VisionState

inputs == <<pipeline, shown>>
collected == <<entities, unavailable>>
sceneVars == <<inputs, stage, active, at, collected, observation>>

\* A world ROI is in the picture, or beside it, where the pan is known.
SceneFrames ==
  {view \in [live : [RoiPixels -> Grays], titles : [Cameras -> TitleScores],
             pan : BOOLEAN, inView : SUBSET WorldRoiIds] : view.pan \/ view.inView = {}}

SceneInit ==
  /\ pipeline \in Pipelines
  /\ stage = "waiting"
  /\ shown = Nothing
  /\ active = Nothing
  /\ at = 0
  /\ entities = <<>>
  /\ unavailable = FALSE
  /\ observation = Nothing

-----------------------------------------------------------------------------
(* One positive against one negative *)

Distance(a, b) == IF a < b THEN b - a ELSE a - b

Difference(a, b, pixels) ==
  MapThenSumSet(LAMBDA x : Distance(a[x], b[x]), pixels)

Differing(c, a, b) == {x \in c.allowed : Distance(a[x], b[x]) >= PixelThreshold}

\* Broken on purpose: the difference to the wrong reference is counted.
ObservedOfTarget(c, live, target, alternative) == Differing(c, live, target)

Observed(c, live, target, alternative) == Differing(c, live, alternative)

\* What share of One the background keeps that should look like the alternative.
BackgroundSupport(live, alternative, background) ==
  LET full == Cardinality(background) * BackgroundThreshold
      error == Difference(live, alternative, background)
  IN IF background = {} THEN One ELSE (One * Max({0, full - error})) \div full

Contrast(targetError, alternativeError) ==
  (One * (alternativeError - targetError))
    \div Max({alternativeError + targetError, Cardinality(RoiPixels)})

\* The weights of recall, precision, contrast and background.
Weighted(expected, observed, contrast, support) ==
  LET overlap == Cardinality(expected \cap observed)
      recall == (One * overlap) \div Cardinality(expected)
      precision == (One * overlap) \div Max({1, Cardinality(observed)})
  IN IF expected = {} THEN 0
     ELSE Max({0, Min({One, (90 * recall + 50 * precision + 15 * (contrast + One)
                               + 30 * support) \div 200})})

\* _signature_score
SignatureScore(c, live, target, alternative) ==
  Weighted(Differing(c, target, alternative),
           Observed(c, live, target, alternative),
           Contrast(Difference(live, target, RoiPixels),
                    Difference(live, alternative, RoiPixels)),
           BackgroundSupport(live, alternative,
                             c.allowed \ Differing(c, target, alternative)))

Entity(state, confidence, margin) ==
  [state |-> state, confidence |-> confidence, margin |-> margin]

Overlap(c, frame, target, alternative) ==
  Differing(c, target, alternative) \cap Observed(c, frame.live, target, alternative)

\* What the scores of a positive and of a negative say.
Decision(c, frame, target, alternative, positive, negative) ==
  LET margin == Distance(positive, negative)
      certain == Max({positive, negative}) >= Threshold /\ margin >= MinScoreMargin
      seen == Overlap(c, frame, target, alternative) \in c.components
  IN CASE certain /\ positive < negative -> Entity("absent", negative, margin)
       [] certain /\ positive >= negative /\ seen -> Entity(c.state, positive, margin)
       [] OTHER -> Nothing

\* _detect_candidate_single
Single(c, frame, target, alternative) ==
  IF Nothing \in {target, alternative} THEN Nothing
  ELSE Decision(c, frame, target, alternative,
                SignatureScore(c, frame.live, target, alternative),
                SignatureScore(c, frame.live, alternative, target))

-----------------------------------------------------------------------------
(* All positives against all negatives *)

LeastConfident(variants) ==
  variants[Min({i \in DOMAIN variants :
             \A j \in DOMAIN variants : variants[i].confidence <= variants[j].confidence})]

\* Broken on purpose: the first negative decides.
VoteOfFirst(c, variants) == variants[1]

\* A positive must beat every negative; negatives that disagree decide nothing.
Vote(c, variants) ==
  CASE Len(variants) = 1 -> variants[1]
    [] Len(variants) > 1 /\ Nothing \in Range(variants) -> Nothing
    [] Len(variants) > 1 /\ Nothing \notin Range(variants)
         /\ (\E v, w \in Range(variants) : v.state # w.state) -> Nothing
    [] OTHER -> IF variants[1].state = "present" THEN LeastConfident(variants) ELSE variants[1]

\* What one positive says.
Verdict(c, frame, p) ==
  Vote(c, [i \in DOMAIN c.negatives |->
            Single(c, frame, Pictures[p], Pictures[c.negatives[i]])])

Presence(e) == IF e.state # "absent" THEN 1 ELSE 0

\* Broken on purpose: the last positive decides.
OutranksAlways(e, best) == TRUE

\* rank > best_rank
Outranks(e, best) ==
  \/ best = Nothing
  \/ Presence(e) > Presence(best)
  \/ Presence(e) = Presence(best) /\ e.confidence > best.confidence
  \/ Presence(e) = Presence(best) /\ e.confidence = best.confidence
       /\ e.margin > best.margin

\* The entity that is kept of the best so far and the next.
Better(best, e) == IF e # Nothing /\ Outranks(e, best) THEN e ELSE best

\* _detect_candidate: the entity that a candidate contributes, or nothing.
Detect(c, frame) ==
  LET best[n \in 0..Len(c.positives)] ==
        IF n = 0 THEN Nothing
        ELSE Better(best[n - 1], Verdict(c, frame, c.positives[n]))
  IN best[Len(c.positives)]

-----------------------------------------------------------------------------
(* The frame *)

\* _detect_active_camera: a title that is recognized better than all others.
ActiveCamera(titles) ==
  LET clear(camera) ==
        /\ titles[camera] >= MinimumScore
        /\ \A other \in Cameras \ {camera} : titles[camera] - titles[other] >= MinimumMargin
  IN IF \E camera \in Cameras : clear(camera)
     THEN CHOOSE camera \in Cameras : clear(camera)
     ELSE Nothing

\* The frame is decoded, its camera identified and its viewport registered.
Decode(frame) ==
  /\ stage = "waiting"
  /\ stage' = "evaluating"
  /\ shown' = frame
  /\ active' = ActiveCamera(frame.titles)
  /\ at' = 1
  /\ entities' = <<>>
  /\ unavailable' = FALSE
  /\ UNCHANGED <<pipeline, observation>>

\* The loop is at candidate c, and goes on to the next.
LooksAt(c) ==
  /\ stage = "evaluating"
  /\ at \in DOMAIN pipeline
  /\ c = pipeline[at]
  /\ at' = at + 1
  /\ UNCHANGED <<inputs, stage, active, observation>>

Considered(c, camera) ==
  c.enabled /\ (camera # Nothing => c.scene = "camera" /\ c.camera = camera)

\* While a camera is on, the office and the other cameras say nothing; a candidate
\* whose ROI the pack does not have is passed over like one that is disabled.
PassOver(c) ==
  /\ LooksAt(c)
  /\ ~Considered(c, active) \/ c.roi \notin DOMAIN Rois
  /\ UNCHANGED collected

HasRoi(c) == Considered(c, active) /\ c.roi \in DOMAIN Rois

\* Broken on purpose: the last such candidate says whether the world was observed.
MismatchForgets(c) ==
  /\ LooksAt(c)
  /\ HasRoi(c) /\ c.space # Rois[c.roi]
  /\ unavailable' = (c.space = "world")
  /\ UNCHANGED entities

Mismatch(c) ==
  /\ LooksAt(c)
  /\ HasRoi(c) /\ c.space # Rois[c.roi]
  /\ unavailable' = (unavailable \/ c.space = "world")
  /\ UNCHANGED entities

\* Without a pan the ROI of a world candidate is nowhere in the frame.
NotRegistered(c) ==
  /\ LooksAt(c)
  /\ HasRoi(c) /\ c.space = Rois[c.roi] /\ c.space = "world" /\ ~shown.pan
  /\ unavailable' = TRUE
  /\ UNCHANGED entities

\* With one it may be beside it.
OutOfView(c) ==
  /\ LooksAt(c)
  /\ HasRoi(c) /\ c.space = Rois[c.roi] /\ c.space = "world" /\ shown.pan
  /\ c.roi \notin shown.inView
  /\ UNCHANGED collected

\* Where no camera is on, that nobody is seen on a camera says nothing.
Reported(c, camera, e) ==
  e # Nothing /\ ~(camera = Nothing /\ c.scene = "camera" /\ e.state = "absent")

Report(c, camera, e) ==
  IF Reported(c, camera, e) THEN <<[candidate |-> at, entity |-> e]>> ELSE <<>>

Evaluate(c) ==
  /\ LooksAt(c)
  /\ HasRoi(c) /\ c.space = Rois[c.roi]
  /\ c.space = "world" => shown.pan /\ c.roi \in shown.inView
  /\ entities' = entities \o Report(c, active, Detect(c, shown))
  /\ UNCHANGED unavailable

\* The VisionState, when all candidates have been looked at.  The camera is an
\* entity of its own.
Conclude ==
  /\ stage = "evaluating" /\ at > Len(pipeline)
  /\ stage' = "observed"
  /\ observation' =
       [active |-> active,
        entities |-> entities,
        scene |-> CASE active # Nothing -> "camera"
                    [] active = Nothing /\ entities # <<>> -> pipeline[entities[1].candidate].scene
                    [] OTHER -> Nothing,
        status |-> IF unavailable \/ (active = Nothing /\ entities = <<>>)
                   THEN "insufficient_evidence" ELSE "ready"]
  /\ UNCHANGED <<inputs, active, at, collected>>

Answer ==
  /\ stage = "observed"
  /\ stage' = "waiting"
  /\ shown' = Nothing
  /\ active' = Nothing
  /\ at' = 0
  /\ entities' = <<>>
  /\ unavailable' = FALSE
  /\ observation' = Nothing
  /\ UNCHANGED pipeline

SceneNext ==
  \/ \E frame \in SceneFrames : Decode(frame)
  \/ \E c \in Candidates :
       PassOver(c) \/ Mismatch(c) \/ NotRegistered(c) \/ OutOfView(c) \/ Evaluate(c)
  \/ Conclude
  \/ Answer

SceneSpec == SceneInit /\ [][SceneNext]_sceneVars

-----------------------------------------------------------------------------
(* Properties *)

EnabledCandidates == {c \in Range(pipeline) : c.enabled}

LooksLike(asset) == Pictures[asset] # Nothing /\ shown.live = Pictures[asset]

\* Their difference is there, and is not too small to be seen.
TellsApart(c, p, n) ==
  /\ Nothing \notin {Pictures[p], Pictures[n]}
  /\ Differing(c, Pictures[p], Pictures[n]) \in c.components

IsPresent(found) == found # Nothing /\ found.state # "absent"

Recognizes(c, found) ==
  /\ \A p \in Range(c.positives) :
       LooksLike(p) /\ (\A n \in Range(c.negatives) : TellsApart(c, p, n)) =>
         found # Nothing /\ found.state = c.state
  /\ \A n \in Range(c.negatives) : LooksLike(n) => ~IsPresent(found)

\* A frame that is one of the positive references is recognized, if that reference
\* can be told from all negatives and its difference is large enough; one that is
\* a negative reference is never taken for the thing itself, whichever other
\* references the candidate has.
ReferencesAreRecognized ==
  stage = "observed" => \A c \in EnabledCandidates : Recognizes(c, Detect(c, shown))

\* The score of the live ROI as a, where it might be b.
Score(c, a, b) == SignatureScore(c, shown.live, Pictures[a], Pictures[b])

\* The comment at runtime.py:970: a positive signature must beat every negative
\* example.  What is reported as there has one positive that does, by the margin.
PresentBeatsEveryNegative ==
  stage = "observed" => \A c \in EnabledCandidates :
    IsPresent(Detect(c, shown)) =>
      \E p \in Range(c.positives) : \A n \in Range(c.negatives) :
        /\ Nothing \notin {Pictures[p], Pictures[n]}
        /\ Score(c, p, n) >= Max({Threshold, Score(c, n, p) + MinScoreMargin})

SameVerdict(found, other) ==
  /\ found = Nothing <=> other = Nothing
  /\ found # Nothing => found.state = other.state

\* In which order the references are listed decides neither whether something is
\* reported nor whether it is there: absence for one positive never hides another.
OrderDoesNotDecide ==
  stage = "observed" => \A c \in EnabledCandidates :
    SameVerdict(Detect(c, shown),
      Detect([c EXCEPT !.positives = Reverse(@), !.negatives = Reverse(@)], shown))

\* What candidate c is about lies in the frame, at a place that is known.
InFrame(c) ==
  /\ c.roi \in DOMAIN Rois /\ c.space = Rois[c.roi]
  /\ c.space = "world" => shown.pan /\ c.roi \in shown.inView

\* Where it lies in the world is not known.
GivenUp(c) ==
  c.space = "world" /\ c.roi \in DOMAIN Rois /\ (Rois[c.roi] # "world" \/ ~shown.pan)

\* Nothing, and in particular no absence, is reported of a candidate that could not
\* be located in this frame, and nothing that was recognized of one that could is
\* left out; "ready" is said only if there is something to say, and if no candidate
\* that counts for this frame had to be given up, wherever it is in the list.  The
\* code has two exceptions, for which it stays "ready": a candidate whose ROI the
\* pack does not have, and one whose ROI is out of the picture.
ReportsWhatWasLocated ==
  stage = "observed" =>
    LET counting == {i \in DOMAIN pipeline : Considered(pipeline[i], observation.active)}
        says(i) == Reported(pipeline[i], observation.active, Detect(pipeline[i], shown))
        reported == {i \in counting : InFrame(pipeline[i]) /\ says(i)}
    IN /\ observation.active = ActiveCamera(shown.titles)
       /\ Range(observation.entities) =
            {[candidate |-> i, entity |-> Detect(pipeline[i], shown)] : i \in reported}
       /\ observation.status = "ready" <=>
            /\ observation.active # Nothing \/ reported # {}
            /\ \A i \in counting : ~GivenUp(pipeline[i])
=============================================================================
