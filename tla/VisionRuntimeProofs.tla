-------------------------- MODULE VisionRuntimeProofs --------------------------
(***************************************************************************)
(* The vision runtime of the FNAF 1 pack, for any number of threads, sizes *)
(* of frames, references and settings of the search, and for any pictures, *)
(* candidates and settings of the detection.                               *)
(*                                                                         *)
(* Of ViewportTracking, the inductive invariant TrackingInv says what type *)
(* everything has, that a pan that was found is one its frame can have,    *)
(* and, while observations do not overlap, that the pan that is kept fits  *)
(* the frames of the shape that is kept; Steady adds how close the tracker *)
(* is to a view that was seen before.                                      *)
(*                                                                         *)
(* Of SceneObservation, the inductive invariant SceneInv says what the     *)
(* loop over the candidates has collected from those before the one it is  *)
(* at; the other properties rest on what the operators compute: the sum of *)
(* the distances of two pictures, the score of a reference, the vote of    *)
(* the negatives and the best of the positives.                            *)
(* Both recursive functions are treated alike: one that meets              *)
(* its equation exists, and whatever does has the wanted property, both by *)
(* the least counterexample.                                               *)
(***************************************************************************)
EXTENDS ViewportTracking, SceneObservation, WellFoundedInduction, FiniteSetTheorems, TLAPS

-----------------------------------------------------------------------------
(* Arithmetic *)

LEMMA MinOfTwo ==
  ASSUME NEW m \in Int, NEW n \in Int
  PROVE  Min({m, n}) = IF m <= n THEN m ELSE n
  BY DEF Min

LEMMA MaxOfTwo ==
  ASSUME NEW m \in Int, NEW n \in Int
  PROVE  Max({m, n}) = IF m >= n THEN m ELSE n
  BY DEF Max

LEMMA ClipIs ==
  ASSUME NEW low \in Int, NEW high \in Int, low <= high, NEW x \in Int
  PROVE  /\ Clip(low, high, x) \in low..high
         /\ Clip(low, high, x) = IF x <= low THEN low ELSE IF x >= high THEN high ELSE x
  <1>1. Min({high, x}) = IF high <= x THEN high ELSE x
    BY MinOfTwo
  <1>2. Max({low, Min({high, x})}) =
          IF low >= Min({high, x}) THEN low ELSE Min({high, x})
    BY <1>1, MaxOfTwo
  <1> QED BY <1>1, <1>2 DEF Clip

LEMMA RoundIsInt ==
  ASSUME NEW n \in Int, NEW m \in Nat \ {0}
  PROVE  Round(n, m) \in Int
  <1>1. n \div m \in Int
    OBVIOUS
  <1> QED BY <1>1 DEF Round

\* Rounding is off by a half at most.
LEMMA RoundIsNear ==
  ASSUME NEW n \in Int, NEW d \in Nat \ {0}
  PROVE  /\ Round(n, d) \in Int
         /\ 2 * (d * Round(n, d) - n) <= d
         /\ -d <= 2 * (d * Round(n, d) - n)
  <1> DEFINE floor == n \div d
             rest == n % d
  <1>1. floor \in Int /\ rest \in 0..(d - 1) /\ n = d * floor + rest
    OBVIOUS
  <1>2. Round(n, d) = IF 2 * rest > d \/ (2 * rest = d /\ floor % 2 = 1) THEN floor + 1 ELSE floor
    BY DEF Round
  <1> HIDE DEF floor, rest
  <1>3. CASE Round(n, d) = floor + 1
    <2>1. 2 * rest >= d
      BY <1>1, <1>2, <1>3
    <2>2. d * (floor + 1) - n = d - rest
      BY <1>1
    <2> QED BY <1>1, <1>3, <2>1, <2>2
  <1>4. CASE Round(n, d) = floor /\ ~(2 * rest > d)
    <2>1. d * floor - n = -rest
      BY <1>1
    <2> QED BY <1>1, <1>4, <2>1
  <1> QED BY <1>1, <1>2, <1>3, <1>4

LEMMA ProductBetween ==
  ASSUME NEW m \in Nat, NEW x \in Int, NEW b \in Nat, x <= b, -b <= x
  PROVE  m * x \in Int /\ m * b \in Nat /\ m * x <= m * b /\ -(m * b) <= m * x
  <1>1. m * x \in Int /\ m * b \in Nat
    OBVIOUS
  <1>2. m * (b - x) >= 0
    OBVIOUS
  <1>3. m * (b + x) >= 0
    OBVIOUS
  <1>4. m * (b - x) = m * b - m * x /\ m * (b + x) = m * b + m * x
    OBVIOUS
  <1> QED BY <1>1, <1>2, <1>3, <1>4

LEMMA DivSign ==
  ASSUME NEW n \in Int, NEW k \in Nat \ {0}
  PROVE  /\ n \div k \in Int
         /\ n >= 0 => n \div k >= 0
         /\ n <= 0 => n \div k <= 0
  <1>1. n \div k \in Int
    OBVIOUS
  <1>2. n >= 0 => n \div k >= 0
    OBVIOUS
  <1>3. n <= 0 => n \div k <= 0
    OBVIOUS
  <1> QED BY <1>1, <1>2, <1>3

LEMMA LeastOf ==
  ASSUME NEW S, S \subseteq Nat, S # {}
  PROVE  \E x \in S : \A y \in S : x <= y
  <1> DEFINE R == {ss \in Nat \X Nat : ss[1] < ss[2]}
  <1>1. PICK x \in S : \A y \in S : ~(<<y, x>> \in R)
    <2>1. IsWellFoundedOn(R, Nat)
      BY NatLessThanWellFounded, Zenon DEF OpToRel
    <2> HIDE DEF R
    <2> QED BY <2>1, WFMin
  <1>2. \A y \in S : ~(y < x)
    BY <1>1
  <1> QED BY <1>2

-----------------------------------------------------------------------------
(* Frames and positions *)

LEMMA FrameFacts ==
  ASSUME NEW f \in Frames
  PROVE  /\ f.width \in Nat \ {0} /\ f.height \in Nat \ {0}
         /\ f.at \in Nat \cup {Nowhere}
         /\ f # Nowhere
  <1>1. PICK s \in Sizes : s.width = f.width /\ s.height = f.height
    BY DEF Frames
  <1>2. f.at \in Views \cup {Nowhere}
    BY DEF Frames
  <1> QED BY <1>1, <1>2, InputsAssumption, NowhereIsNoFrame

LEMMA ViewportFacts ==
  ASSUME NEW f, f.width \in Nat \ {0}, f.height \in Nat \ {0}
  PROVE  /\ ViewportWidth(f) \in 1..ReferenceWidth
         /\ LargestPan(f) = ReferenceWidth - ViewportWidth(f)
         /\ LargestPan(f) \in 0..ReferenceWidth
  <1>1. f.width * ReferenceHeight \in Int
    BY ReferenceAssumption
  <1>2. Round(f.width * ReferenceHeight, f.height) \in Int
    BY <1>1, RoundIsInt
  <1>3. ViewportWidth(f) \in 1..ReferenceWidth
    <2>1. 1 \in Int /\ ReferenceWidth \in Int /\ 1 <= ReferenceWidth
      BY ReferenceAssumption
    <2>2. Clip(1, ReferenceWidth, Round(f.width * ReferenceHeight, f.height))
            \in 1..ReferenceWidth
      BY <1>2, <2>1, ClipIs
    <2> QED BY <2>2 DEF ViewportWidth
  <1>4. LargestPan(f) = ReferenceWidth - ViewportWidth(f)
    BY <1>3, MaxOfTwo, ReferenceAssumption DEF LargestPan
  <1> QED BY <1>3, <1>4, ReferenceAssumption

LEMMA ErrorIsNat ==
  ASSUME NEW f \in Frames, NEW x \in Int
  PROVE  Error(f, x) \in Nat
  <1>1. Blur \in Nat
    BY TrackingAssumption
  <1>2. CASE f.at = Nowhere
    BY <1>1, <1>2 DEF Error
  <1>3. CASE f.at # Nowhere
    <2>1. f.at \in Nat
      BY <1>3, FrameFacts
    <2>2. Abs(x - f.at) \in Nat
      BY <2>1 DEF Abs
    <2> QED BY <1>1, <1>3, <2>2, MinOfTwo DEF Error
  <1> QED BY <1>2, <1>3

\* min(positions, key=score) is one of the positions, when there are any, and no other
\* has a smaller error.
LEMMA BestIsPosition ==
  ASSUME NEW f \in Frames, NEW positions, positions \subseteq Nat, positions # {}
  PROVE  /\ BestOf(f, positions) \in positions
         /\ \A y \in positions : Error(f, BestOf(f, positions)) <= Error(f, y)
  <1> DEFINE errors == {Error(f, x) : x \in positions}
  <1>0. \A x \in positions : x \in Int /\ Error(f, x) \in Nat
    <2>1. ASSUME NEW x \in positions PROVE x \in Int
      OBVIOUS
    <2> QED BY <2>1, ErrorIsNat
  <1>1. errors \subseteq Nat /\ errors # {}
    BY <1>0
  <1>2. PICK e \in errors : \A d \in errors : e <= d
    BY <1>1, LeastOf
  <1> DEFINE best == {x \in positions : Error(f, x) = e}
  <1>3. best \subseteq Nat /\ best # {}
    BY <1>2
  <1>4. PICK x \in best : \A y \in best : x <= y
    BY <1>3, LeastOf
  <1>5. ASSUME NEW y \in positions
        PROVE  Error(f, x) < Error(f, y) \/ (Error(f, x) = Error(f, y) /\ x <= y)
    <2>1. Error(f, x) = e /\ Error(f, y) \in errors /\ e \in Nat /\ Error(f, y) \in Nat
      BY <1>0, <1>1, <1>2, <1>4, <1>5
    <2>2. e <= Error(f, y)
      BY <1>2, <2>1
    <2>3. Error(f, y) = e => x <= y
      BY <1>4
    <2> QED BY <2>1, <2>2, <2>3
  <1>6. x \in positions
    BY <1>4
  <1>7. \E z \in positions : \A y \in positions :
          Error(f, z) < Error(f, y) \/ (Error(f, z) = Error(f, y) /\ z <= y)
    BY <1>5, <1>6
  <1>8. /\ BestOf(f, positions) \in positions
        /\ \A y \in positions :
             \/ Error(f, BestOf(f, positions)) < Error(f, y)
             \/ Error(f, BestOf(f, positions)) = Error(f, y) /\ BestOf(f, positions) <= y
    BY <1>7 DEF BestOf
  <1> QED BY <1>0, <1>8

LEMMA PositionsBetween ==
  ASSUME NEW low \in Nat, NEW high \in Int, NEW step \in Nat \ {0}
  PROVE  /\ Positions(low, high, step) \subseteq low..high
         /\ Positions(low, high, step) \subseteq Nat
         /\ low <= high => low \in Positions(low, high, step)
  <1>1. (low - low) % step = 0
    OBVIOUS
  <1> QED BY <1>1 DEF Positions

LEMMA SearchFacts ==
  ASSUME NEW f \in Frames
  PROVE  /\ LargestPan(f) \in Nat /\ LargestPan(f) <= ReferenceWidth
         /\ CoarseStep \in Nat \ {0} /\ RefineStep \in Nat \ {0}
         /\ \A x \in 0..LargestPan(f) : x \in Nat /\ x \in Pans /\ x # Nowhere
  BY FrameFacts, ViewportFacts, ReferenceAssumption, TrackingAssumption DEF Pans

LEMMA LocalFits ==
  ASSUME NEW f \in Frames, NEW from \in Nat
  PROVE  /\ LocalPositions(f, from) \subseteq 0..LargestPan(f)
         /\ from <= LargestPan(f) => LocalPositions(f, from) # {}
  <1> DEFINE low == Max({0, from - 2 * CoarseStep})
             high == Min({LargestPan(f), from + 2 * CoarseStep})
  <1>1. /\ low = IF 0 >= from - 2 * CoarseStep THEN 0 ELSE from - 2 * CoarseStep
        /\ high = IF LargestPan(f) <= from + 2 * CoarseStep THEN LargestPan(f)
                  ELSE from + 2 * CoarseStep
    BY SearchFacts, MaxOfTwo, MinOfTwo
  <1>2. /\ low \in Nat /\ high \in Int /\ high <= LargestPan(f)
        /\ from <= LargestPan(f) => low <= high
    BY <1>1, SearchFacts
  <1> HIDE DEF low, high
  <1>3. /\ Positions(low, high, CoarseStep) \subseteq low..high
        /\ low <= high => low \in Positions(low, high, CoarseStep)
    BY <1>2, SearchFacts, PositionsBetween
  <1>4. low..high \subseteq 0..LargestPan(f)
    BY <1>2, SearchFacts
  <1> QED BY <1>2, <1>3, <1>4 DEF LocalPositions, low, high

LEMMA CoarseFits ==
  ASSUME NEW f \in Frames, NEW from \in Nat \cup {Nowhere},
         from # Nowhere => LocalPositions(f, from) # {}
  PROVE  Coarse(f, from) \in 0..LargestPan(f)
  <1>1. BestOf(f, GlobalPositions(f)) \in 0..LargestPan(f)
    <2>0. 0 \in Nat /\ LargestPan(f) \in Int /\ 0 <= LargestPan(f)
          /\ CoarseStep \in Nat \ {0}
      BY SearchFacts
    <2>1. /\ GlobalPositions(f) \subseteq 0..LargestPan(f)
          /\ GlobalPositions(f) \subseteq Nat /\ 0 \in GlobalPositions(f)
      BY <2>0, PositionsBetween DEF GlobalPositions
    <2> QED BY <2>1, BestIsPosition
  <1>2. ASSUME from # Nowhere PROVE BestOf(f, LocalPositions(f, from)) \in 0..LargestPan(f)
    <2>1. LocalPositions(f, from) \subseteq 0..LargestPan(f)
      BY <1>2, LocalFits
    <2>2. LocalPositions(f, from) \subseteq Nat
      BY <2>1, SearchFacts
    <2> QED BY <1>2, <2>1, <2>2, BestIsPosition
  <1> QED BY <1>1, <1>2 DEF Coarse

LEMMA RefinedFits ==
  ASSUME NEW f \in Frames, NEW best \in 0..LargestPan(f)
  PROVE  Refined(f, best) \in 0..LargestPan(f)
  <1> DEFINE low == Max({0, best - CoarseStep})
             high == Min({LargestPan(f), best + CoarseStep})
  <1>1. /\ low = IF 0 >= best - CoarseStep THEN 0 ELSE best - CoarseStep
        /\ high = IF LargestPan(f) <= best + CoarseStep THEN LargestPan(f)
                  ELSE best + CoarseStep
    BY SearchFacts, MaxOfTwo, MinOfTwo
  <1>2. low \in Nat /\ high \in Int /\ high <= LargestPan(f) /\ low <= high
    BY <1>1, SearchFacts
  <1> HIDE DEF low, high
  <1>3. /\ Positions(low, high, RefineStep) \subseteq low..high
        /\ Positions(low, high, RefineStep) \subseteq Nat
        /\ low \in Positions(low, high, RefineStep)
    BY <1>2, SearchFacts, PositionsBetween
  <1>4. BestOf(f, Positions(low, high, RefineStep)) \in low..high
    BY <1>3, BestIsPosition
  <1>5. low..high \subseteq 0..LargestPan(f)
    BY <1>2, SearchFacts
  <1> QED BY <1>4, <1>5 DEF Refined, low, high

\* The pan a search answers is in the reference, and the anchor is there.
LEMMA LocatedFits ==
  ASSUME NEW f \in Frames, NEW from \in Nat \cup {Nowhere},
         from # Nowhere => LocalPositions(f, from) # {},
         Located(f, from) # Nowhere
  PROVE  /\ Located(f, from) \in 0..LargestPan(f)
         /\ Error(f, Located(f, from)) <= MaxAnchorError
  <1> DEFINE best == Refined(f, Coarse(f, from))
  <1>1. best \in 0..LargestPan(f)
    BY CoarseFits, RefinedFits
  <1>2. Located(f, from) = best /\ ~(Error(f, best) > MaxAnchorError)
    BY DEF Located
  <1>3. Error(f, best) \in Nat /\ MaxAnchorError \in Nat
    BY <1>1, SearchFacts, ErrorIsNat, TrackingAssumption
  <1> QED BY <1>1, <1>2, <1>3

-----------------------------------------------------------------------------
(* Types *)

LEMMA PanFacts ==
  /\ 0 \in Pans /\ Nowhere \in Pans
  /\ \A x \in Pans : x # Nowhere => x \in Nat
  /\ \A f \in Frames : 0..LargestPan(f) \subseteq Pans
  BY SearchFacts, ReferenceAssumption DEF Pans

LEMMA FrameOf ==
  ASSUME TypeOK, NEW t \in Threads, pc[t] # "idle"
  PROVE  frame[t] \in Frames
  BY DEF TypeOK

LEMMA LocatedIsPan ==
  ASSUME TypeOK, NEW t \in Threads, pc[t] = "search", ~SearchIsEmpty(t)
  PROVE  /\ Located(frame[t], previous[t]) \in Pans
         /\ Located(frame[t], previous[t]) # Nowhere =>
              /\ Located(frame[t], previous[t]) \in 0..LargestPan(frame[t])
              /\ Error(frame[t], Located(frame[t], previous[t])) <= MaxAnchorError
  <1>1. frame[t] \in Frames
    BY FrameOf
  <1>2. previous[t] \in Nat \cup {Nowhere}
    BY PanFacts DEF TypeOK
  <1>3. previous[t] # Nowhere => LocalPositions(frame[t], previous[t]) # {}
    BY DEF SearchIsEmpty
  <1>4. Located(frame[t], previous[t]) # Nowhere =>
          /\ Located(frame[t], previous[t]) \in 0..LargestPan(frame[t])
          /\ Error(frame[t], Located(frame[t], previous[t])) <= MaxAnchorError
    BY <1>1, <1>2, <1>3, LocatedFits
  <1> QED BY <1>1, <1>4, PanFacts

LEMMA InitTypes == Init => TypeOK
  <1> SUFFICES ASSUME Init PROVE TypeOK
    OBVIOUS
  <1>1. NeverStill \in [frame : Frames \cup {Nowhere}, times : 0..Patience]
    BY TrackingAssumption DEF NeverStill
  <1>2. concurrent \in BOOLEAN /\ raised \in BOOLEAN
    BY DEF Init
  <1> QED BY <1>1, <1>2, PanFacts DEF Init, TypeOK, Stages

\* What a step of one thread does to its own variables keeps the types.
LEMMA TypesOfOne ==
  ASSUME TypeOK, NEW t \in Threads,
         NEW place \in Stages, NEW f \in Frames \cup {Nowhere}, NEW p \in Pans, NEW x \in Pans,
         pc' = [pc EXCEPT ![t] = place],
         frame' = [frame EXCEPT ![t] = f],
         previous' = [previous EXCEPT ![t] = p],
         pan' = [pan EXCEPT ![t] = x],
         f = Nowhere <=> place = "idle",
         x # Nowhere => place = "registered",
         p # Nowhere => place \in {"search", "registered"},
         lastPan' \in Pans,
         lastShape' \in {<<>>} \cup {Shape(g) : g \in Frames},
         raised' \in BOOLEAN,
         still' \in [frame : Frames \cup {Nowhere}, times : 0..Patience],
         concurrent' \in BOOLEAN
  PROVE  TypeOK'
  <1>1. /\ pc' \in [Threads -> Stages] /\ frame' \in [Threads -> Frames \cup {Nowhere}]
        /\ previous' \in [Threads -> Pans] /\ pan' \in [Threads -> Pans]
    BY DEF TypeOK
  <1>2. ASSUME NEW u \in Threads
        PROVE  /\ frame'[u] = Nowhere <=> pc'[u] = "idle"
               /\ pan'[u] # Nowhere => pc'[u] = "registered"
               /\ previous'[u] # Nowhere => pc'[u] \in {"search", "registered"}
    <2>1. CASE u = t
      BY <2>1 DEF TypeOK
    <2>2. CASE u # t
      <3>1. pc'[u] = pc[u] /\ frame'[u] = frame[u] /\ pan'[u] = pan[u]
            /\ previous'[u] = previous[u]
        BY <2>2 DEF TypeOK
      <3> QED BY <3>1 DEF TypeOK
    <2> QED BY <2>1, <2>2
  <1> QED BY <1>1, <1>2 DEF TypeOK

LEMMA TypesStep == TypeOK /\ [Next]_vars => TypeOK'
  <1> SUFFICES ASSUME TypeOK, [Next]_vars PROVE TypeOK'
    OBVIOUS
  <1>0. /\ lastPan \in Pans /\ raised \in BOOLEAN /\ concurrent \in BOOLEAN
        /\ lastShape \in {<<>>} \cup {Shape(g) : g \in Frames}
        /\ still \in [frame : Frames \cup {Nowhere}, times : 0..Patience]
        /\ {"idle", "shape", "keep shape", "register", "search", "registered"} \subseteq Stages
    BY DEF TypeOK, Stages
  <1>1. ASSUME NEW t \in Threads, pc[t] # "idle",
               NEW place \in Stages \ {"idle"}, NEW p \in Pans, NEW x \in Pans,
               pc' = [pc EXCEPT ![t] = place], frame' = frame,
               previous' = [previous EXCEPT ![t] = p], pan' = [pan EXCEPT ![t] = x],
               x # Nowhere => place = "registered",
               p # Nowhere => place \in {"search", "registered"},
               lastPan' \in Pans, lastShape' \in {<<>>} \cup {Shape(g) : g \in Frames},
               raised' \in BOOLEAN, UNCHANGED history
        PROVE  TypeOK'
    <2>1. frame[t] \in Frames /\ frame[t] # Nowhere /\ frame' = [frame EXCEPT ![t] = frame[t]]
      BY <1>1, FrameOf, NowhereIsNoFrame DEF TypeOK
    <2>2. still' \in [frame : Frames \cup {Nowhere}, times : 0..Patience]
          /\ concurrent' \in BOOLEAN
      BY <1>0, <1>1 DEF history
    <2>3. frame[t] = Nowhere <=> place = "idle"
      BY <1>1, <2>1
    <2> QED BY <1>1, <2>1, <2>2, <2>3, TypesOfOne
  <1>2. ASSUME NEW t \in Threads, Leave(t), NEW x \in {Nowhere}, pan' = [pan EXCEPT ![t] = x],
               UNCHANGED <<tracker, history>>, raised' \in BOOLEAN
        PROVE  TypeOK'
    <2>1. /\ pc' = [pc EXCEPT ![t] = "idle"] /\ frame' = [frame EXCEPT ![t] = Nowhere]
          /\ previous' = [previous EXCEPT ![t] = Nowhere] /\ pan' = [pan EXCEPT ![t] = Nowhere]
      BY <1>2 DEF Leave
    <2>2. /\ lastPan' \in Pans /\ lastShape' \in {<<>>} \cup {Shape(g) : g \in Frames}
          /\ still' \in [frame : Frames \cup {Nowhere}, times : 0..Patience]
          /\ concurrent' \in BOOLEAN
      BY <1>0, <1>2 DEF tracker, history
    <2>3. Nowhere \in Frames \cup {Nowhere} /\ Nowhere \in Pans /\ "idle" \in Stages
      BY <1>0, PanFacts
    <2> QED BY <1>2, <2>1, <2>2, <2>3, TypesOfOne
  <1>3. \A t \in Threads :
          /\ pan = [pan EXCEPT ![t] = pan[t]] /\ previous = [previous EXCEPT ![t] = previous[t]]
          /\ pan[t] \in Pans /\ previous[t] \in Pans
          /\ pan[t] # Nowhere => pc[t] = "registered"
          /\ previous[t] # Nowhere => pc[t] \in {"search", "registered"}
    BY DEF TypeOK
  <1>4. ASSUME NEW t \in Threads, NEW f \in Frames, Begin(t, f) PROVE TypeOK'
    <2>1. /\ pc' = [pc EXCEPT ![t] = "shape"] /\ frame' = [frame EXCEPT ![t] = f]
          /\ previous' = [previous EXCEPT ![t] = Nowhere] /\ pan' = [pan EXCEPT ![t] = Nowhere]
      <3>1. pan[t] = Nowhere /\ previous[t] = Nowhere
        BY <1>3, <1>4 DEF Begin
      <3> QED BY <1>3, <1>4, <3>1 DEF Begin
    <2>2. concurrent' \in BOOLEAN
      BY <1>4 DEF Begin
    <2>3. still' \in [frame : Frames \cup {Nowhere}, times : 0..Patience]
      <3>0. Patience \in Nat \ {0}
        BY TrackingAssumption
      <3>3. still.times \in 0..Patience
        <4>1. still \in [frame : Frames \cup {Nowhere}, times : 0..Patience]
          BY <1>0
        <4> QED BY <4>1
      <3>1. 0 \in 0..Patience /\ 1 \in 0..Patience /\ still.times \in 0..Patience
            /\ Patience \in Int
        BY <3>0, <3>3
      <3>2. Min({still.times + 1, Patience}) \in 0..Patience
        BY <3>1, MinOfTwo
      <3> QED BY <1>4, <3>1, <3>2 DEF Begin, NeverStill
    <2>4. f # Nowhere /\ Nowhere \in Pans /\ "shape" \in Stages
      BY <1>0, PanFacts, NowhereIsNoFrame
    <2>5. /\ lastPan' \in Pans /\ lastShape' \in {<<>>} \cup {Shape(g) : g \in Frames}
          /\ raised' \in BOOLEAN
      BY <1>0, <1>4 DEF Begin, tracker
    <2>6. f = Nowhere <=> "shape" = "idle"
      BY <2>4
    <2> QED BY <2>1, <2>2, <2>3, <2>4, <2>5, <2>6, TypesOfOne
  <1>5. ASSUME NEW t \in Threads, ForgetOtherShape(t) PROVE TypeOK'
    <2>1. KeptForShape(t) \in Pans
      BY <1>0, PanFacts DEF KeptForShape
    <2>2. pan[t] = Nowhere /\ previous[t] = Nowhere
      BY <1>3, <1>5 DEF ForgetOtherShape
    <2>3. /\ pc[t] # "idle" /\ pc' = [pc EXCEPT ![t] = "keep shape"] /\ frame' = frame
          /\ previous' = [previous EXCEPT ![t] = Nowhere]
          /\ pan' = [pan EXCEPT ![t] = Nowhere]
      BY <1>3, <1>5, <2>2 DEF ForgetOtherShape
    <2>4. /\ lastPan' \in Pans /\ lastShape' \in {<<>>} \cup {Shape(g) : g \in Frames}
          /\ raised' \in BOOLEAN /\ UNCHANGED history
      BY <1>0, <1>5, <2>1 DEF ForgetOtherShape
    <2>5. "keep shape" \in Stages \ {"idle"} /\ Nowhere \in Pans
      BY <1>0, PanFacts
    <2> QED BY <1>1, <2>3, <2>4, <2>5
  <1>6. ASSUME NEW t \in Threads, KeepShape(t) PROVE TypeOK'
    <2>1. frame[t] \in Frames
      BY <1>6, FrameOf DEF KeepShape
    <2>2. pan[t] = Nowhere /\ previous[t] = Nowhere
      BY <1>3, <1>6 DEF KeepShape
    <2>3. /\ pc[t] # "idle" /\ pc' = [pc EXCEPT ![t] = "register"] /\ frame' = frame
          /\ previous' = [previous EXCEPT ![t] = Nowhere]
          /\ pan' = [pan EXCEPT ![t] = Nowhere]
      BY <1>3, <1>6, <2>2 DEF KeepShape
    <2>4. /\ lastPan' \in Pans /\ lastShape' \in {<<>>} \cup {Shape(g) : g \in Frames}
          /\ raised' \in BOOLEAN /\ UNCHANGED history
      BY <1>0, <1>6, <2>1 DEF KeepShape
    <2>5. "register" \in Stages \ {"idle"} /\ Nowhere \in Pans
      BY <1>0, PanFacts
    <2> QED BY <1>1, <2>3, <2>4, <2>5
  <1>7. ASSUME NEW t \in Threads, NEW x \in Pans, pc[t] = "register", Found(t, x),
               UNCHANGED <<frame, previous, lastShape, history>>
        PROVE  TypeOK'
    <2>1. previous[t] = Nowhere
      BY <1>3, <1>7
    <2> QED BY <1>0, <1>1, <1>3, <1>7, <2>1 DEF Found
  <1>8. ASSUME NEW t \in Threads, ReadPrevious(t) PROVE TypeOK'
    <2>1. pan[t] = Nowhere
      BY <1>3, <1>8 DEF ReadPrevious
    <2> QED BY <1>0, <1>1, <1>3, <1>8, <2>1 DEF ReadPrevious, tracker
  <1>9. ASSUME NEW t \in Threads, Search(t) PROVE TypeOK'
    <2>1. Located(frame[t], previous[t]) \in Pans
      BY <1>9, LocatedIsPan DEF Search
    <2> QED BY <1>0, <1>1, <1>3, <1>9, <2>1 DEF Search, KeptPan
  <1>10. ASSUME NEW t \in Threads, SearchRaises(t) PROVE TypeOK'
    <2>1. pan[t] = Nowhere
      BY <1>3, <1>10 DEF SearchRaises
    <2> QED BY <1>2, <1>3, <1>10, <2>1 DEF SearchRaises
  <1>11. ASSUME NEW t \in Threads, Return(t) PROVE TypeOK'
    BY <1>0, <1>2, <1>11 DEF Return
  <1>12. ASSUME NEW t \in Threads, NothingToPan(t) \/ NoAnchor(t) PROVE TypeOK'
    BY <1>7, <1>12, PanFacts DEF NothingToPan, NoAnchor
  <1>13. CASE UNCHANGED vars
    BY <1>13 DEF vars, tracker, history, TypeOK
  <1> QED BY <1>4, <1>5, <1>6, <1>8, <1>9, <1>10, <1>11, <1>12, <1>13 DEF Next

-----------------------------------------------------------------------------
(* A pan fits its frame *)

\* The pan a thread goes on with is one its frame can have.
Fits(t) ==
  pc[t] = "registered" /\ pan[t] # Nowhere =>
    /\ pan[t] \in 0..LargestPan(frame[t])
    /\ ~ShowsAll(frame[t]) => Error(frame[t], pan[t]) <= MaxAnchorError

LEMMA FitsStep ==
  ASSUME TypeOK, \A t \in Threads : Fits(t), [Next]_vars
  PROVE  \A t \in Threads : Fits(t)'
  <1> SUFFICES ASSUME NEW u \in Threads PROVE Fits(u)'
    OBVIOUS
  <1>0. /\ pc \in [Threads -> Stages] /\ frame \in [Threads -> Frames \cup {Nowhere}]
        /\ pan \in [Threads -> Pans]
    BY DEF TypeOK
  <1>1. ASSUME NEW t \in Threads, t # u,
               pc'[u] = pc[u], frame'[u] = frame[u], pan'[u] = pan[u]
        PROVE  Fits(u)'
    BY <1>1 DEF Fits
  <1>2. ASSUME pc'[u] # "registered" PROVE Fits(u)'
    BY <1>2 DEF Fits
  <1>3. ASSUME NEW t \in Threads,
               \/ \E f \in Frames : Begin(t, f)
               \/ ForgetOtherShape(t) \/ KeepShape(t) \/ ReadPrevious(t) \/ SearchRaises(t)
               \/ Return(t)
        PROVE  Fits(u)'
    <2>1. /\ pc'[t] # "registered"
          /\ u # t => pc'[u] = pc[u] /\ frame'[u] = frame[u] /\ pan'[u] = pan[u]
      BY <1>0, <1>3 DEF Begin, ForgetOtherShape, KeepShape, ReadPrevious, SearchRaises, Return,
                        Leave
    <2> QED BY <1>1, <1>2, <2>1
  <1>4. ASSUME NEW t \in Threads, NothingToPan(t) \/ NoAnchor(t) PROVE Fits(u)'
    <2>1. u # t => pc'[u] = pc[u] /\ frame'[u] = frame[u] /\ pan'[u] = pan[u]
      BY <1>0, <1>4 DEF NothingToPan, NoAnchor, Found
    <2>2. CASE NothingToPan(t) /\ u = t
      <3>1. pan'[t] = 0 /\ frame'[t] = frame[t] /\ ShowsAll(frame[t]) /\ pc[t] = "register"
        BY <1>0, <2>2 DEF NothingToPan, Found
      <3>2. 0 \in 0..LargestPan(frame[t])
        BY <3>1, FrameOf, SearchFacts
      <3>3. ShowsAll(frame[t])'
        BY <3>1 DEF ShowsAll, LargestPan, ViewportWidth
      <3>4. pan'[t] \in 0..LargestPan(frame'[t])
        BY <3>1, <3>2
      <3> QED BY <2>2, <3>3, <3>4 DEF Fits
    <2>3. CASE NoAnchor(t) /\ u = t
      <3>1. pan'[t] = Nowhere
        BY <1>0, <2>3 DEF NoAnchor, Found
      <3> QED BY <2>3, <3>1 DEF Fits
    <2> QED BY <1>1, <1>4, <2>1, <2>2, <2>3
  <1>5. ASSUME NEW t \in Threads, Search(t) PROVE Fits(u)'
    <2>1. u # t => pc'[u] = pc[u] /\ frame'[u] = frame[u] /\ pan'[u] = pan[u]
      BY <1>0, <1>5 DEF Search
    <2>2. CASE u = t
      <3>1. pan'[t] = Located(frame[t], previous[t]) /\ frame'[t] = frame[t]
            /\ pc[t] = "search" /\ ~SearchIsEmpty(t)
        BY <1>0, <1>5 DEF Search
      <3>2. pan'[t] # Nowhere =>
              /\ pan'[t] \in 0..LargestPan(frame[t])
              /\ Error(frame[t], pan'[t]) <= MaxAnchorError
        BY <3>1, LocatedIsPan
      <3>3. pan'[t] # Nowhere =>
              /\ pan'[t] \in 0..LargestPan(frame'[t])
              /\ Error(frame'[t], pan'[t]) <= MaxAnchorError
        BY <3>1, <3>2
      <3> QED BY <2>2, <3>3 DEF Fits
    <2> QED BY <1>1, <2>1, <2>2
  <1>6. CASE UNCHANGED vars
    BY <1>6 DEF vars, Fits
  <1> QED BY <1>3, <1>4, <1>5, <1>6 DEF Next

-----------------------------------------------------------------------------
(* One observation after the other *)

\* The pan that is kept is one of frames of the shape that is kept.
KeptFits ==
  lastPan # Nowhere =>
    lastShape # <<>> /\ \A f \in Frames : Shape(f) = lastShape => lastPan <= LargestPan(f)

\* What an observation knows of the shape that is kept.
ShapeOK(t) ==
  /\ pc[t] = "keep shape" /\ lastPan # Nowhere => lastShape = Shape(frame[t])
  /\ pc[t] \in {"register", "search"} => lastShape = Shape(frame[t])
  /\ pc[t] = "search" /\ previous[t] # Nowhere => previous[t] <= LargestPan(frame[t])

InTurn ==
  ~concurrent =>
    /\ ~raised
    /\ \A t, u \in Threads : pc[t] # "idle" /\ pc[u] # "idle" => t = u
    /\ KeptFits
    /\ \A t \in Threads : ShapeOK(t)

LEMMA SameShape ==
  ASSUME NEW f \in Frames, NEW g \in Frames, Shape(f) = Shape(g)
  PROVE  LargestPan(f) = LargestPan(g)
  <1>1. f.width = g.width /\ f.height = g.height
    BY DEF Shape
  <1> QED BY <1>1 DEF LargestPan, ViewportWidth

\* A step of the only observation that is open.
LEMMA OnlyOne ==
  ASSUME InTurn, ~concurrent, concurrent' = concurrent, NEW t \in Threads, pc[t] # "idle",
         \A u \in Threads \ {t} : pc'[u] = pc[u],
         ~raised', KeptFits', ShapeOK(t)'
  PROVE  InTurn'
  <1>1. \A u \in Threads \ {t} : pc[u] = "idle" /\ pc'[u] = "idle"
    BY DEF InTurn
  <1>2. \A u \in Threads \ {t} : ShapeOK(u)'
    BY <1>1 DEF ShapeOK
  <1> QED BY <1>1, <1>2 DEF InTurn

LEMMA TurnStep == TypeOK /\ InTurn /\ [Next]_vars => InTurn'
  <1> SUFFICES ASSUME TypeOK, InTurn, [Next]_vars, ~concurrent' PROVE InTurn'
    BY DEF InTurn
  <1>0. /\ pc \in [Threads -> Stages] /\ frame \in [Threads -> Frames \cup {Nowhere}]
        /\ previous \in [Threads -> Pans]
    BY DEF TypeOK
  <1>1. ASSUME NEW t \in Threads, NEW f \in Frames, Begin(t, f) PROVE InTurn'
    <2>1. ~concurrent /\ \A u \in Threads : pc[u] = "idle"
      BY <1>1 DEF Begin
    <2>2. \A u \in Threads : pc'[u] = IF u = t THEN "shape" ELSE "idle"
      BY <1>0, <1>1, <2>1 DEF Begin
    <2>3. \A u \in Threads : ShapeOK(u)'
      BY <2>2 DEF ShapeOK
    <2>4. ~raised' /\ KeptFits'
      BY <1>1, <2>1 DEF InTurn, Begin, tracker, KeptFits
    <2>5. \A u, v \in Threads : pc'[u] # "idle" /\ pc'[v] # "idle" => u = v
      BY <2>2
    <2> QED BY <2>3, <2>4, <2>5 DEF InTurn
  <1>2. ASSUME NEW t \in Threads, pc[t] # "idle", UNCHANGED history,
               \A u \in Threads \ {t} : pc'[u] = pc[u],
               ~concurrent /\ KeptFits /\ ShapeOK(t) /\ ~raised =>
                 ~raised' /\ KeptFits' /\ ShapeOK(t)'
        PROVE  InTurn'
    <2>1. ~concurrent /\ concurrent' = concurrent
      BY <1>2 DEF history
    <2>2. KeptFits /\ ShapeOK(t) /\ ~raised
      BY <2>1 DEF InTurn
    <2> QED BY <1>2, <2>1, <2>2, OnlyOne
  <1>3. ASSUME NEW t \in Threads, pc[t] # "idle" PROVE frame[t] \in Frames
    BY <1>3, FrameOf
  <1>4. ASSUME NEW t \in Threads, ForgetOtherShape(t) PROVE InTurn'
    <2>1. /\ pc[t] = "shape" /\ lastPan' = KeptForShape(t) /\ pc'[t] = "keep shape"
          /\ \A u \in Threads \ {t} : pc'[u] = pc[u]
          /\ UNCHANGED <<frame, lastShape, raised, history>>
      BY <1>0, <1>4 DEF ForgetOtherShape
    <2>2. ASSUME KeptFits PROVE KeptFits'
      BY <2>1, <2>2 DEF KeptFits, KeptForShape
    <2>3. ASSUME KeptFits PROVE ShapeOK(t)'
      BY <2>1, <2>3 DEF KeptFits, KeptForShape, ShapeOK, Shape
    <2> QED BY <1>2, <2>1, <2>2, <2>3
  <1>5. ASSUME NEW t \in Threads, KeepShape(t) PROVE InTurn'
    <2>1. /\ pc[t] = "keep shape" /\ lastShape' = Shape(frame[t]) /\ pc'[t] = "register"
          /\ \A u \in Threads \ {t} : pc'[u] = pc[u]
          /\ UNCHANGED <<frame, lastPan, raised, history>>
      BY <1>0, <1>5 DEF KeepShape
    <2>2. ASSUME KeptFits, ShapeOK(t) PROVE KeptFits'
      BY <2>1, <2>2 DEF KeptFits, ShapeOK
    <2>3. ShapeOK(t)'
      BY <2>1 DEF ShapeOK, Shape
    <2> QED BY <1>2, <2>1, <2>2, <2>3
  <1>6. ASSUME NEW t \in Threads, NEW x, frame[t] \in Frames,
               pc[t] \in {"register", "search"}, lastPan' = x, pc'[t] = "registered",
               x # Nowhere => x \in 0..LargestPan(frame[t]), lastShape' = lastShape,
               ShapeOK(t)
        PROVE  KeptFits' /\ ShapeOK(t)'
    <2>1. lastShape' = Shape(frame[t]) /\ Shape(frame[t]) # <<>>
      BY <1>6 DEF ShapeOK, Shape
    <2>2. ASSUME NEW f \in Frames, Shape(f) = lastShape', x # Nowhere
          PROVE  x <= LargestPan(f)
      <3>1. LargestPan(f) = LargestPan(frame[t])
        BY <1>6, <2>1, <2>2, SameShape
      <3>2. x \in 0..LargestPan(frame[t])
        BY <1>6, <2>2
      <3>3. x <= LargestPan(frame[t])
        BY <1>6, <3>2, SearchFacts
      <3> QED BY <3>1, <3>3
    <2>3. KeptFits'
      BY <1>6, <2>1, <2>2 DEF KeptFits
    <2> QED BY <1>6, <2>3 DEF ShapeOK
  <1>7. ASSUME NEW t \in Threads, NothingToPan(t) \/ NoAnchor(t) PROVE InTurn'
    <2>1. /\ pc[t] = "register" /\ lastPan' \in {0, Nowhere} /\ pc'[t] = "registered"
          /\ \A u \in Threads \ {t} : pc'[u] = pc[u]
          /\ ~raised' /\ UNCHANGED <<lastShape, history>>
      BY <1>0, <1>7 DEF NothingToPan, NoAnchor, Found
    <2>2. frame[t] \in Frames
      BY <1>3, <2>1
    <2>3. lastPan' # Nowhere => lastPan' \in 0..LargestPan(frame[t])
      BY <2>1, <2>2, SearchFacts
    <2> QED BY <1>2, <1>6, <2>1, <2>2, <2>3
  <1>8. ASSUME NEW t \in Threads, ReadPrevious(t) PROVE InTurn'
    <2>1. /\ pc[t] = "register" /\ previous'[t] = lastPan /\ pc'[t] = "search"
          /\ \A u \in Threads \ {t} : pc'[u] = pc[u]
          /\ UNCHANGED <<frame, lastPan, lastShape, raised, history>>
      BY <1>0, <1>8 DEF ReadPrevious, tracker
    <2>2. frame[t] \in Frames
      BY <1>3, <2>1
    <2>3. KeptFits => KeptFits'
      BY <2>1 DEF KeptFits
    <2>4. ASSUME KeptFits, ShapeOK(t) PROVE ShapeOK(t)'
      <3>1. lastShape = Shape(frame[t])
        BY <2>1, <2>4 DEF ShapeOK
      <3>2. lastPan # Nowhere => lastPan <= LargestPan(frame[t])
        BY <2>2, <2>4, <3>1 DEF KeptFits
      <3>3. previous'[t] # Nowhere => previous'[t] <= LargestPan(frame'[t])
        BY <2>1, <3>2
      <3>4. lastShape' = Shape(frame[t])'
        BY <2>1, <3>1 DEF Shape
      <3> QED BY <2>1, <3>3, <3>4 DEF ShapeOK
    <2> QED BY <1>2, <2>1, <2>3, <2>4
  <1>9. ASSUME NEW t \in Threads, Search(t) PROVE InTurn'
    <2>1. /\ pc[t] = "search" /\ lastPan' = Located(frame[t], previous[t])
          /\ pc'[t] = "registered" /\ ~SearchIsEmpty(t)
          /\ \A u \in Threads \ {t} : pc'[u] = pc[u]
          /\ ~raised' /\ UNCHANGED <<lastShape, history>>
      BY <1>0, <1>9 DEF Search, KeptPan
    <2>2. frame[t] \in Frames
      BY <1>3, <2>1
    <2>3. lastPan' # Nowhere => lastPan' \in 0..LargestPan(frame[t])
      BY <2>1, LocatedIsPan
    <2> QED BY <1>2, <1>6, <2>1, <2>2, <2>3
  <1>10. ASSUME NEW t \in Threads, SearchRaises(t) PROVE InTurn'
    <2>1. /\ pc[t] = "search" /\ SearchIsEmpty(t) /\ UNCHANGED history
          /\ \A u \in Threads \ {t} : pc'[u] = pc[u]
      BY <1>0, <1>10 DEF SearchRaises, Leave
    <2>2. frame[t] \in Frames
      BY <1>3, <2>1
    <2>3. previous[t] \in Nat /\ LocalPositions(frame[t], previous[t]) = {}
      BY <1>0, <2>1, PanFacts DEF SearchIsEmpty
    <2>4. ~(previous[t] <= LargestPan(frame[t]))
      BY <2>2, <2>3, LocalFits
    <2>5. ~ShapeOK(t)
      BY <2>1, <2>3, <2>4, ReferenceAssumption DEF ShapeOK
    <2> QED BY <1>2, <2>1, <2>5
  <1>11. ASSUME NEW t \in Threads, Return(t) PROVE InTurn'
    <2>1. /\ pc[t] # "idle" /\ pc'[t] = "idle" /\ UNCHANGED <<tracker, raised, history>>
          /\ \A u \in Threads \ {t} : pc'[u] = pc[u]
      BY <1>0, <1>11 DEF Return, Leave
    <2>2. KeptFits => KeptFits'
      BY <2>1 DEF KeptFits, tracker
    <2>3. ShapeOK(t)'
      BY <2>1 DEF ShapeOK
    <2> QED BY <1>2, <2>1, <2>2, <2>3
  <1>12. CASE UNCHANGED vars
    BY <1>12 DEF vars, tracker, history, InTurn, KeptFits, ShapeOK, Shape, LargestPan,
                 ViewportWidth
  <1> QED BY <1>1, <1>4, <1>5, <1>7, <1>8, <1>9, <1>10, <1>11, <1>12 DEF Next

-----------------------------------------------------------------------------
(* A view that stands still *)

\* What is searched for, in pixels of the reference: a step of the refinement is good
\* enough to be taken for the anchor, what is taken for it is within the reach of the
\* refinement, a coarse step does not pass over it, and two positions that are both
\* as good as that are no jump apart.
SearchSettings ==
  /\ RefineStep - 1 <= MaxAnchorError
  /\ MaxAnchorError <= CoarseStep
  /\ CoarseStep <= Blur
  /\ 2 * (RefineStep - 1) <= MaxPanJump

\* The frame shows a part of the reference, and its anchor can be seen.
Findable(f) == f.clear /\ f.at # Nowhere /\ ~ShowsAll(f)

Close(f, x) == x # Nowhere /\ Abs(x - f.at) < RefineStep

CloseOrNone(f, x) == x = Nowhere \/ Close(f, x)

LEMMA FindableFacts ==
  ASSUME NEW f \in Frames, Findable(f)
  PROVE  /\ f.at \in Nat /\ f.at <= LargestPan(f)
         /\ \A x \in Int :
              /\ Abs(x - f.at) \in Nat
              /\ Abs(x - f.at) = IF x < f.at THEN f.at - x ELSE x - f.at
              /\ Error(f, x) = IF Blur <= Abs(x - f.at) THEN Blur ELSE Abs(x - f.at)
  <1>1. f.at \in Nat /\ f.at <= LargestPan(f)
    BY FrameFacts DEF Findable, Frames
  <1>2. ASSUME NEW x \in Int
        PROVE  /\ Abs(x - f.at) \in Nat
               /\ Abs(x - f.at) = IF x < f.at THEN f.at - x ELSE x - f.at
               /\ Error(f, x) = IF Blur <= Abs(x - f.at) THEN Blur ELSE Abs(x - f.at)
    <2>1. /\ Abs(x - f.at) \in Nat
          /\ Abs(x - f.at) = IF x < f.at THEN f.at - x ELSE x - f.at
      BY <1>1 DEF Abs
    <2>2. Error(f, x) = Min({Blur, Abs(x - f.at)})
      BY DEF Error, Findable
    <2>3. Blur \in Int /\ Abs(x - f.at) \in Int
      BY <2>1, TrackingAssumption
    <2> QED BY <2>1, <2>2, <2>3, MinOfTwo
  <1> QED BY <1>1, <1>2

\* Of positions one of which is near enough to be told from the others, the best is no
\* farther from the view.
LEMMA BestIsClosest ==
  ASSUME NEW f \in Frames, Findable(f), NEW positions, positions \subseteq Nat,
         NEW y \in positions, NEW d \in Nat, d < Blur, Abs(y - f.at) <= d
  PROVE  /\ BestOf(f, positions) \in positions
         /\ Abs(BestOf(f, positions) - f.at) <= d
  <1> DEFINE best == BestOf(f, positions)
  <1>1. best \in positions /\ Error(f, best) <= Error(f, y)
    BY BestIsPosition
  <1> HIDE DEF best
  <1>2. best \in Int /\ y \in Int /\ Blur \in Nat
    BY <1>1, TrackingAssumption
  <1>3. /\ Abs(best - f.at) \in Nat /\ Abs(y - f.at) \in Nat
        /\ Error(f, best) = IF Blur <= Abs(best - f.at) THEN Blur ELSE Abs(best - f.at)
        /\ Error(f, y) = IF Blur <= Abs(y - f.at) THEN Blur ELSE Abs(y - f.at)
    BY <1>2, FindableFacts
  <1>4. Abs(best - f.at) <= d
    BY <1>1, <1>2, <1>3
  <1> QED BY <1>1, <1>4 DEF best

\* There is a position of a range at most a step away.
LEMMA PositionNear ==
  ASSUME NEW low \in Nat, NEW high \in Int, NEW step \in Nat \ {0}, NEW x \in low..high
  PROVE  \E y \in Positions(low, high, step) : y <= x /\ x - y <= step - 1
  <1> DEFINE rest == (x - low) % step
             y == x - rest
             steps == (x - low) \div step
  <1>1. rest \in 0..(step - 1) /\ steps \in Int /\ x - low = step * steps + rest
    OBVIOUS
  <1>2. (step * steps) % step = 0
    BY <1>1
  <1>3. y - low = step * steps
    BY <1>1
  <1> HIDE DEF rest, steps
  <1>4. step * steps \in Nat
    <2>1. x - low >= 0 /\ x - low \in Int
      OBVIOUS
    <2>2. (x - low) \div step >= 0
      BY <2>1, DivSign
    <2>3. steps \in Nat
      BY <1>1, <2>2 DEF steps
    <2> QED BY <2>3
  <1>5. y \in low..high
    BY <1>1, <1>3, <1>4
  <1>6. y \in Positions(low, high, step)
    BY <1>2, <1>3, <1>5 DEF Positions
  <1>7. y <= x /\ x - y <= step - 1
    BY <1>1
  <1> QED BY <1>6, <1>7

LEMMA CoarseIsNear ==
  ASSUME SearchSettings, NEW f \in Frames, Findable(f),
         NEW from \in Nat \cup {Nowhere}, from # Nowhere => LocalPositions(f, from) # {}
  PROVE  Abs(Coarse(f, from) - f.at) <= CoarseStep
  <1>0. /\ CoarseStep \in Nat \ {0} /\ MaxAnchorError \in Nat /\ Blur \in Nat
        /\ MaxAnchorError < Blur /\ MaxAnchorError <= CoarseStep /\ CoarseStep <= Blur
    BY TrackingAssumption DEF SearchSettings
  <1>1. Abs(BestOf(f, GlobalPositions(f)) - f.at) <= CoarseStep
    <2>1. 0 \in Nat /\ LargestPan(f) \in Int /\ f.at \in 0..LargestPan(f)
      BY FindableFacts, SearchFacts
    <2>2. PICK y \in GlobalPositions(f) : y <= f.at /\ f.at - y <= CoarseStep - 1
      BY <1>0, <2>1, PositionNear DEF GlobalPositions
    <2>3. GlobalPositions(f) \subseteq Nat
      BY <1>0, <2>1, PositionsBetween DEF GlobalPositions
    <2>4. y \in Int
      BY <2>3
    <2>5. Abs(y - f.at) = IF y < f.at THEN f.at - y ELSE y - f.at
      BY <2>4, FindableFacts
    <2>6. Abs(y - f.at) <= CoarseStep - 1
      BY <2>1, <2>2, <2>4, <2>5
    <2>7. CoarseStep - 1 \in Nat /\ CoarseStep - 1 < Blur
      BY <1>0
    <2>8. Abs(BestOf(f, GlobalPositions(f)) - f.at) <= CoarseStep - 1
          /\ BestOf(f, GlobalPositions(f)) \in GlobalPositions(f)
      BY <2>3, <2>6, <2>7, BestIsClosest
    <2>9. BestOf(f, GlobalPositions(f)) \in Int
      BY <2>3, <2>8
    <2>10. Abs(BestOf(f, GlobalPositions(f)) - f.at) \in Nat
      BY <2>9, FindableFacts
    <2> QED BY <1>0, <2>8, <2>10
  <1>2. ASSUME from # Nowhere, Error(f, BestOf(f, LocalPositions(f, from))) <= MaxAnchorError
        PROVE  Abs(BestOf(f, LocalPositions(f, from)) - f.at) <= CoarseStep
    <2> DEFINE near == BestOf(f, LocalPositions(f, from))
    <2>1. LocalPositions(f, from) \subseteq Nat
      BY <1>2, LocalFits, SearchFacts
    <2>2. near \in LocalPositions(f, from)
      BY <1>2, <2>1, BestIsPosition
    <2>3. near \in Int
      BY <2>1, <2>2
    <2>4. /\ Abs(near - f.at) \in Nat
          /\ Error(f, near) = IF Blur <= Abs(near - f.at) THEN Blur ELSE Abs(near - f.at)
      BY <2>3, FindableFacts
    <2>5. Error(f, near) <= MaxAnchorError
      BY <1>2
    <2> HIDE DEF near
    <2>6. Abs(near - f.at) <= CoarseStep
      BY <1>0, <2>4, <2>5
    <2> QED BY <2>6 DEF near
  <1> QED BY <1>1, <1>2 DEF Coarse

LEMMA RefinedIsClose ==
  ASSUME SearchSettings, NEW f \in Frames, Findable(f),
         NEW best \in 0..LargestPan(f), Abs(best - f.at) <= CoarseStep
  PROVE  /\ Refined(f, best) \in Nat
         /\ Abs(Refined(f, best) - f.at) <= RefineStep - 1
         /\ Error(f, Refined(f, best)) <= MaxAnchorError
  <1> DEFINE low == Max({0, best - CoarseStep})
             high == Min({LargestPan(f), best + CoarseStep})
  <1>0. /\ CoarseStep \in Nat \ {0} /\ RefineStep \in Nat \ {0} /\ MaxAnchorError \in Nat
        /\ Blur \in Nat /\ MaxAnchorError < Blur /\ RefineStep - 1 <= MaxAnchorError
    BY TrackingAssumption DEF SearchSettings
  <1>1. LargestPan(f) \in Nat /\ best \in Nat /\ best <= LargestPan(f)
    BY SearchFacts
  <1>2. /\ low = IF 0 >= best - CoarseStep THEN 0 ELSE best - CoarseStep
        /\ high = IF LargestPan(f) <= best + CoarseStep THEN LargestPan(f)
                  ELSE best + CoarseStep
    BY <1>0, <1>1, MaxOfTwo, MinOfTwo
  <1>3. /\ f.at \in Nat /\ f.at <= LargestPan(f)
        /\ Abs(best - f.at) = IF best < f.at THEN f.at - best ELSE best - f.at
    BY <1>1, FindableFacts
  <1> HIDE DEF low, high
  <1>4. low \in Nat /\ high \in Int /\ f.at \in low..high
    BY <1>0, <1>1, <1>2, <1>3
  <1> DEFINE positions == Positions(low, high, RefineStep)
  <1>5. PICK y \in positions : y <= f.at /\ f.at - y <= RefineStep - 1
    BY <1>0, <1>4, PositionNear
  <1>6. positions \subseteq Nat
    BY <1>0, <1>4, PositionsBetween
  <1> HIDE DEF positions
  <1>7. Abs(y - f.at) = IF y < f.at THEN f.at - y ELSE y - f.at
    <2>1. y \in Int
      BY <1>5, <1>6
    <2> QED BY <2>1, FindableFacts
  <1>8. Abs(y - f.at) <= RefineStep - 1
    BY <1>3, <1>5, <1>6, <1>7
  <1>9. RefineStep - 1 \in Nat /\ RefineStep - 1 < Blur
    BY <1>0
  <1>10. /\ BestOf(f, positions) \in positions
         /\ Abs(BestOf(f, positions) - f.at) <= RefineStep - 1
    BY <1>5, <1>6, <1>8, <1>9, BestIsClosest
  <1>11. Refined(f, best) = BestOf(f, positions)
    BY DEF Refined, positions, low, high
  <1>12. Refined(f, best) \in Nat
    BY <1>6, <1>10, <1>11
  <1> DEFINE found == Refined(f, best)
  <1>13. /\ Abs(found - f.at) \in Nat
         /\ Error(f, found) = IF Blur <= Abs(found - f.at) THEN Blur ELSE Abs(found - f.at)
    <2>1. found \in Int
      BY <1>12
    <2> QED BY <2>1, FindableFacts
  <1> HIDE DEF found
  <1>14. Error(f, found) <= MaxAnchorError
    BY <1>0, <1>9, <1>10, <1>11, <1>13 DEF found
  <1> QED BY <1>10, <1>11, <1>12, <1>14 DEF found

\* A search finds the view, unless it is refused as a jump; from nowhere, or from close
\* to the view, it finds it.
LEMMA LocatedIsClose ==
  ASSUME SearchSettings, NEW f \in Frames, Findable(f),
         NEW from \in Nat \cup {Nowhere}, from # Nowhere => LocalPositions(f, from) # {}
  PROVE  /\ CloseOrNone(f, Located(f, from))
         /\ CloseOrNone(f, from) => Close(f, Located(f, from))
  <1> DEFINE best == Refined(f, Coarse(f, from))
  <1>1. Coarse(f, from) \in 0..LargestPan(f)
    BY CoarseFits
  <1>2. /\ best \in Nat
        /\ Abs(best - f.at) <= RefineStep - 1
        /\ Error(f, best) <= MaxAnchorError
    BY <1>1, CoarseIsNear, RefinedIsClose
  <1>3. Located(f, from) =
          IF Error(f, best) > MaxAnchorError \/ (from # Nowhere /\ Abs(best - from) > MaxPanJump)
          THEN Nowhere ELSE best
    BY DEF Located
  <1> HIDE DEF best
  <1>4. /\ RefineStep \in Nat \ {0} /\ MaxPanJump \in Nat /\ MaxAnchorError \in Nat
        /\ 2 * (RefineStep - 1) <= MaxPanJump
    BY TrackingAssumption DEF SearchSettings
  <1>5. /\ f.at \in Nat /\ Abs(best - f.at) \in Nat
        /\ Abs(best - f.at) = IF best < f.at THEN f.at - best ELSE best - f.at
    <2>1. best \in Int
      BY <1>2
    <2> QED BY <2>1, FindableFacts
  <1>6. Error(f, best) \in Nat
    <2>1. best \in Int
      BY <1>2
    <2> QED BY <2>1, ErrorIsNat
  <1>7. Close(f, best) /\ ~(Error(f, best) > MaxAnchorError)
    BY <1>2, <1>4, <1>5, <1>6, ReferenceAssumption DEF Close
  <1>8. ASSUME from # Nowhere, Close(f, from) PROVE ~(Abs(best - from) > MaxPanJump)
    <2>1. from \in Nat
      BY <1>8
    <2>2. Abs(from - f.at) = IF from < f.at THEN f.at - from ELSE from - f.at
      BY <2>1, FindableFacts
    <2>3. Abs(from - f.at) < RefineStep
      BY <1>8 DEF Close
    <2>4. Abs(best - from) = IF best - from < 0 THEN -(best - from) ELSE best - from
      BY DEF Abs
    <2> QED BY <1>2, <1>4, <1>5, <2>1, <2>2, <2>3, <2>4
  <1> QED BY <1>3, <1>7, <1>8 DEF CloseOrNone

\* What is kept for the next frame does not keep a search away from f.
Kept(f) == lastShape = Shape(f) /\ CloseOrNone(f, lastPan)

\* How far an observation has come to its view, which it may have seen before.
OnItsWay(t) ==
  Findable(frame[t]) =>
    /\ pc[t] = "shape" /\ still.times >= 2 => Kept(frame[t])
    /\ pc[t] \in {"keep shape", "register"} /\ still.times >= 2 =>
         CloseOrNone(frame[t], lastPan)
    /\ pc[t] = "search" /\ still.times >= 2 => CloseOrNone(frame[t], previous[t])
    /\ pc[t] = "registered" => Kept(frame[t])
    /\ pc[t] = "registered" /\ still.times >= 2 => Close(frame[t], pan[t])

Steady ==
  ~concurrent =>
    /\ \A t \in Threads : pc[t] # "idle" => still.frame = frame[t] /\ OnItsWay(t)
    /\ (\A t \in Threads : pc[t] = "idle") /\ still.frame # Nowhere
       /\ Findable(still.frame) => Kept(still.frame)

\* A step of the only observation that is open, and stays open.
LEMMA OnlyOneGoesOn ==
  ASSUME InTurn, Steady, ~concurrent, NEW t \in Threads, pc[t] # "idle", pc'[t] # "idle",
         UNCHANGED <<frame, history>>, \A u \in Threads \ {t} : pc'[u] = pc[u],
         OnItsWay(t) => OnItsWay(t)'
  PROVE  Steady'
  <1>1. \A u \in Threads \ {t} : pc'[u] = "idle"
    BY DEF InTurn
  <1>2. still' = still /\ concurrent' = concurrent
    BY DEF history
  <1>3. still'.frame = frame'[t] /\ OnItsWay(t)'
    BY <1>2 DEF Steady
  <1> QED BY <1>1, <1>3 DEF Steady

LEMMA SteadyStep ==
  ASSUME SearchSettings, TypeOK, InTurn, InTurn', Steady, [Next]_vars
  PROVE  Steady'
  <1> SUFFICES ASSUME ~concurrent' PROVE Steady'
    BY DEF Steady
  <1>0. /\ pc \in [Threads -> Stages] /\ frame \in [Threads -> Frames \cup {Nowhere}]
        /\ previous \in [Threads -> Pans] /\ pan \in [Threads -> Pans]
    BY DEF TypeOK
  <1>1. ASSUME NEW t \in Threads, pc[t] # "idle" PROVE frame[t] \in Frames
    BY <1>1, FrameOf
  <1>2. ASSUME NEW t \in Threads, NEW f \in Frames, Begin(t, f) PROVE Steady'
    <2>1. ~concurrent /\ \A u \in Threads : pc[u] = "idle"
      BY <1>2 DEF Begin
    <2>2. /\ pc'[t] = "shape" /\ frame'[t] = f
          /\ \A u \in Threads \ {t} : pc'[u] = "idle"
          /\ UNCHANGED <<lastPan, lastShape>>
      BY <1>0, <1>2, <2>1 DEF Begin, tracker
    <2>3. still' = [frame |-> f,
                    times |-> IF f = still.frame THEN Min({still.times + 1, Patience})
                              ELSE 1]
      BY <1>2 DEF Begin
    <2>4. still'.frame = f
      BY <2>3
    <2>5. ASSUME Findable(f), still'.times >= 2 PROVE Kept(f)
      <3>1. f = still.frame
        BY <2>3, <2>5
      <3>2. f # Nowhere
        BY NowhereIsNoFrame
      <3> QED BY <2>1, <2>5, <3>1, <3>2 DEF Steady
    <2>6. Kept(f)' <=> Kept(f)
      BY <2>2 DEF Kept, CloseOrNone, Close, Shape, Abs
    <2>7. Findable(f)' <=> Findable(f)
      BY DEF Findable, ShowsAll, LargestPan, ViewportWidth
    <2>8. OnItsWay(t)'
      BY <2>2, <2>5, <2>6, <2>7 DEF OnItsWay
    <2> QED BY <2>2, <2>4, <2>8 DEF Steady
  <1>3. ASSUME NEW t \in Threads, pc[t] # "idle", pc'[t] # "idle",
               UNCHANGED <<frame, history>>, \A u \in Threads \ {t} : pc'[u] = pc[u],
               OnItsWay(t) /\ ShapeOK(t) => OnItsWay(t)'
        PROVE  Steady'
    <2>1. ~concurrent
      BY <1>3 DEF history
    <2>2. ShapeOK(t)
      BY <2>1 DEF InTurn
    <2> QED BY <1>3, <2>1, <2>2, OnlyOneGoesOn
  <1>4. ASSUME NEW t \in Threads, ForgetOtherShape(t) PROVE Steady'
    <2>1. /\ pc[t] = "shape" /\ pc'[t] = "keep shape" /\ lastPan' = KeptForShape(t)
          /\ \A u \in Threads \ {t} : pc'[u] = pc[u]
          /\ UNCHANGED <<frame, history>>
      BY <1>0, <1>4 DEF ForgetOtherShape
    <2>2. ASSUME OnItsWay(t), Findable(frame[t]), still.times >= 2
          PROVE  CloseOrNone(frame[t], lastPan')
      <3>1. Kept(frame[t])
        BY <2>1, <2>2 DEF OnItsWay
      <3> QED BY <2>1, <3>1 DEF Kept, KeptForShape
    <2>3. OnItsWay(t) => OnItsWay(t)'
      BY <2>1, <2>2 DEF OnItsWay, history
    <2> QED BY <1>3, <2>1, <2>3
  <1>5. ASSUME NEW t \in Threads, KeepShape(t) PROVE Steady'
    <2>1. /\ pc[t] = "keep shape" /\ pc'[t] = "register"
          /\ \A u \in Threads \ {t} : pc'[u] = pc[u]
          /\ UNCHANGED <<frame, lastPan, history>>
      BY <1>0, <1>5 DEF KeepShape
    <2>2. OnItsWay(t) => OnItsWay(t)'
      BY <2>1 DEF OnItsWay, history
    <2> QED BY <1>3, <2>1, <2>2
  <1>6. ASSUME NEW t \in Threads, NothingToPan(t) \/ NoAnchor(t) PROVE Steady'
    <2>1. /\ pc[t] = "register" /\ pc'[t] = "registered"
          /\ \A u \in Threads \ {t} : pc'[u] = pc[u]
          /\ UNCHANGED <<frame, history>>
      BY <1>0, <1>6 DEF NothingToPan, NoAnchor, Found
    <2>2. ~Findable(frame[t])
      BY <1>6 DEF NothingToPan, NoAnchor, Findable
    <2>3. OnItsWay(t)'
      BY <2>1, <2>2 DEF OnItsWay
    <2> QED BY <1>3, <2>1, <2>3
  <1>7. ASSUME NEW t \in Threads, ReadPrevious(t) PROVE Steady'
    <2>1. /\ pc[t] = "register" /\ pc'[t] = "search" /\ previous'[t] = lastPan
          /\ \A u \in Threads \ {t} : pc'[u] = pc[u]
          /\ UNCHANGED <<frame, history>>
      BY <1>0, <1>7 DEF ReadPrevious
    <2>2. OnItsWay(t) => OnItsWay(t)'
      BY <2>1 DEF OnItsWay, history
    <2> QED BY <1>3, <2>1, <2>2
  <1>8. ASSUME NEW t \in Threads, Search(t) PROVE Steady'
    <2> DEFINE f == frame[t]
               found == Located(frame[t], previous[t])
    <2>1. /\ pc[t] = "search" /\ pc'[t] = "registered" /\ ~SearchIsEmpty(t)
          /\ pan'[t] = found /\ lastPan' = found
          /\ \A u \in Threads \ {t} : pc'[u] = pc[u]
          /\ UNCHANGED <<frame, lastShape, history>>
      BY <1>0, <1>8 DEF Search, KeptPan
    <2>2. /\ f \in Frames /\ previous[t] \in Nat \cup {Nowhere}
          /\ previous[t] # Nowhere => LocalPositions(f, previous[t]) # {}
      BY <1>0, <1>1, <2>1, PanFacts DEF SearchIsEmpty
    <2>3. ASSUME Findable(f)
          PROVE  /\ CloseOrNone(f, found)
                 /\ CloseOrNone(f, previous[t]) => Close(f, found)
      BY <2>2, <2>3, LocatedIsClose
    <2>4. ASSUME OnItsWay(t), ShapeOK(t) PROVE OnItsWay(t)'
      <3> HIDE DEF found
      <3>1. lastShape' = Shape(f)
        BY <2>1, <2>4 DEF ShapeOK
      <3>2. Findable(f) => Kept(f)'
        BY <2>1, <2>3, <3>1 DEF Kept, CloseOrNone, Close, Shape, Abs
      <3>3. Findable(f) /\ still.times >= 2 => Close(f, found)
        BY <2>1, <2>3, <2>4 DEF OnItsWay
      <3>4. still' = still /\ frame' = frame
        BY <2>1 DEF history
      <3> QED BY <2>1, <3>2, <3>3, <3>4 DEF OnItsWay, Kept
    <2> QED BY <1>3, <2>1, <2>4
  <1>9. ASSUME NEW t \in Threads, SearchRaises(t) PROVE Steady'
    <2>1. raised'
      BY <1>9 DEF SearchRaises
    <2> QED BY <2>1 DEF InTurn
  <1>10. ASSUME NEW t \in Threads, Return(t) PROVE Steady'
    <2>1. /\ pc[t] = "registered" /\ pc'[t] = "idle"
          /\ \A u \in Threads \ {t} : pc'[u] = pc[u]
          /\ UNCHANGED <<lastPan, lastShape, still, concurrent>>
      BY <1>0, <1>10 DEF Return, Leave, tracker, history
    <2>2. \A u \in Threads : pc'[u] = "idle"
      BY <2>1 DEF InTurn
    <2>3. still.frame = frame[t] /\ OnItsWay(t)
      BY <2>1 DEF Steady
    <2>4. Findable(still.frame) => Kept(still.frame)
      BY <2>1, <2>3 DEF OnItsWay
    <2>5. Findable(still'.frame) => Kept(still.frame)'
      BY <2>1, <2>4 DEF Kept
    <2> QED BY <2>2, <2>5 DEF Steady
  <1>11. CASE UNCHANGED vars
    BY <1>11 DEF vars, tracker, history, Steady, OnItsWay, Kept
  <1> QED BY <1>2, <1>4, <1>5, <1>6, <1>7, <1>8, <1>9, <1>10, <1>11 DEF Next

-----------------------------------------------------------------------------
(* Boxes *)

IsPixels(seen, f) == seen.left \in Nat /\ seen.right \in Nat
                       /\ seen.left <= seen.right /\ seen.right <= f.width

LEMMA CroppedFits ==
  ASSUME NEW f \in Frames, NEW from \in Int, NEW to \in Int, NEW m \in Nat \ {0}
  PROVE  IsPixels(CropNormalized(from, to, m, f), f)
  <1> DEFINE left == Clip(0, f.width, Round(from * f.width, m))
             right == Clip(left, f.width, Round(to * f.width, m))
  <1>1. f.width \in Nat
    BY FrameFacts
  <1>2. from * f.width \in Int /\ to * f.width \in Int
    BY <1>1
  <1>3. Round(from * f.width, m) \in Int /\ Round(to * f.width, m) \in Int
    BY <1>2, RoundIsInt
  <1>0. 0 \in Int /\ f.width \in Int /\ 0 <= f.width
    BY <1>1
  <1>4. left \in 0..f.width
    BY <1>0, <1>3, ClipIs
  <1>5. left \in Int /\ f.width \in Int /\ left <= f.width
    BY <1>1, <1>4
  <1> HIDE DEF left
  <1>6. right \in left..f.width
    BY <1>3, <1>5, ClipIs
  <1> HIDE DEF right
  <1>7. CropNormalized(from, to, m, f) = Pixels(left, right)
    BY DEF CropNormalized, left, right
  <1> QED BY <1>1, <1>4, <1>6, <1>7 DEF Pixels, IsPixels

LEMMA ColumnIsInt ==
  ASSUME NEW f \in Frames, NEW x \in Nat, NEW pn \in Nat
  PROVE  FrameColumn(x, pn, f) \in Int
  <1>1. /\ f.height \in Nat /\ ReferenceWidth \in Nat /\ Unit \in Nat \ {0}
        /\ ReferenceHeight \in Nat \ {0}
    BY FrameFacts, ReferenceAssumption
  <1>2. x * ReferenceWidth \in Int /\ pn * Unit \in Int
    BY <1>1
  <1>3. x * ReferenceWidth - pn * Unit \in Int
    BY <1>2
  <1>4. (x * ReferenceWidth - pn * Unit) * f.height \in Int
    BY <1>1, <1>3
  <1>5. Unit * ReferenceHeight \in Nat \ {0}
    BY <1>1
  <1> QED BY <1>4, <1>5, RoundIsInt DEF FrameColumn

LEMMA WorldRoiFits ==
  ASSUME NEW f \in Frames, NEW roi \in WorldRois, NEW pn \in Nat,
         RoiForFrame(roi, pn, f) # Nowhere
  PROVE  IsPixels(RoiForFrame(roi, pn, f), f)
  <1> DEFINE left == Clip(0, f.width, FrameColumn(roi.x, pn, f))
             right == Clip(left, f.width, FrameColumn(roi.x + roi.width, pn, f))
  <1>1. f.width \in Nat /\ roi.x \in Nat /\ roi.x + roi.width \in Nat
    BY FrameFacts, InputsAssumption
  <1>2. FrameColumn(roi.x, pn, f) \in Int /\ FrameColumn(roi.x + roi.width, pn, f) \in Int
    BY <1>1, ColumnIsInt
  <1>0. 0 \in Int /\ f.width \in Int /\ 0 <= f.width
    BY <1>1
  <1>3. left \in 0..f.width
    BY <1>0, <1>2, ClipIs
  <1>4. left \in Int /\ f.width \in Int /\ left <= f.width
    BY <1>1, <1>3
  <1> HIDE DEF left
  <1>5. right \in left..f.width
    BY <1>2, <1>4, ClipIs
  <1> HIDE DEF right
  <1>6. RoiForFrame(roi, pn, f) = Pixels(left, right)
    BY DEF RoiForFrame, left, right
  <1> QED BY <1>1, <1>3, <1>5, <1>6 DEF Pixels, IsPixels

LEMMA ScopeIsInt ==
  ASSUME NEW f \in Frames, NEW entity \in Entities, NEW pn \in Nat,
         NEW seen, IsPixels(seen, f)
  PROVE  /\ ScopeBox(entity, seen, pn, f).left \in Int
         /\ ScopeBox(entity, seen, pn, f).width \in Int
  <1>1. /\ entity.x \in Nat /\ entity.width \in Nat
        /\ entity.scope \in {"reference", "frame", "roi"}
    BY InputsAssumption
  <1>2. /\ f.width \in Nat /\ f.height \in Nat /\ ReferenceWidth \in Nat
        /\ Unit \in Nat \ {0} /\ ReferenceHeight \in Nat \ {0}
    BY FrameFacts, ReferenceAssumption
  <1>3. seen.left \in Int /\ seen.right - seen.left \in Int
    BY DEF IsPixels
  <1>4. FrameColumn(entity.x, pn, f) \in Int
    BY <1>1, ColumnIsInt
  <1>5. Round(entity.width * ReferenceWidth * f.height, Unit * ReferenceHeight) \in Int
    <2>1. entity.width * ReferenceWidth \in Int
      BY <1>1, <1>2
    <2>2. entity.width * ReferenceWidth * f.height \in Int
      BY <1>2, <2>1
    <2>3. Unit * ReferenceHeight \in Nat \ {0}
      BY <1>2
    <2> QED BY <2>2, <2>3, RoundIsInt
  <1>6. \A n \in Int, m \in Int : Round(n * m, Unit) \in Int
    <2> TAKE n \in Int, m \in Int
    <2>1. n * m \in Int
      OBVIOUS
    <2> QED BY <1>2, <2>1, RoundIsInt
  <1>7. /\ Round(entity.x * f.width, Unit) \in Int
        /\ Round(entity.width * f.width, Unit) \in Int
        /\ Round(entity.x * (seen.right - seen.left), Unit) \in Int
        /\ Round(entity.width * (seen.right - seen.left), Unit) \in Int
    BY <1>1, <1>2, <1>3, <1>6
  <1>8. CASE entity.scope = "reference"
    <2>1. ScopeBox(entity, seen, pn, f) =
            [left |-> FrameColumn(entity.x, pn, f) - seen.left,
             width |-> Round(entity.width * ReferenceWidth * f.height,
                             Unit * ReferenceHeight)]
      BY <1>8 DEF ScopeBox
    <2> QED BY <1>3, <1>4, <1>5, <2>1
  <1>9. CASE entity.scope = "frame"
    <2>1. ScopeBox(entity, seen, pn, f) =
            [left |-> Round(entity.x * f.width, Unit) - seen.left,
             width |-> Round(entity.width * f.width, Unit)]
      BY <1>9 DEF ScopeBox
    <2> QED BY <1>3, <1>7, <2>1
  <1>10. CASE entity.scope = "roi"
    <2>1. ScopeBox(entity, seen, pn, f) =
            [left |-> Round(entity.x * (seen.right - seen.left), Unit),
             width |-> Round(entity.width * (seen.right - seen.left), Unit)]
      BY <1>10 DEF ScopeBox
    <2> QED BY <1>7, <2>1
  <1> QED BY <1>1, <1>8, <1>9, <1>10

LEMMA HintHolds ==
  ASSUME NEW f \in Frames, NEW seen, IsPixels(seen, f),
         NEW scope, scope.left \in Int, scope.width \in Int,
         Restricted(scope, seen).left < Restricted(scope, seen).right
  PROVE  /\ HintBox(scope, seen, f) # Nowhere
         /\ HintBox(scope, seen, f).left <= seen.left + Restricted(scope, seen).left
         /\ seen.left + Restricted(scope, seen).right <= HintBox(scope, seen, f).right
  <1> DEFINE size == seen.right - seen.left
             end == scope.left + scope.width
             from == seen.left + scope.left
             to == seen.left + scope.left + scope.width
             left == Clip(0, size, scope.left)
             right == Clip(left, size, end)
             hleft == Clip(0, f.width, from)
             hright == Clip(hleft, f.width, to)
  <1>1. /\ f.width \in Nat /\ seen.left \in Nat /\ seen.right \in Nat /\ size \in Nat
        /\ seen.right <= f.width /\ seen.left + size = seen.right
    BY FrameFacts DEF IsPixels
  <1>2. left < right
    BY DEF Restricted, Pixels
  <1>5. Restricted(scope, seen) = Pixels(left, right)
    BY DEF Restricted
  <1>6. HintBox(scope, seen, f) = IF hright <= hleft THEN Nowhere ELSE Pixels(hleft, hright)
    BY DEF HintBox
  <1>0. /\ 0 \in Int /\ size \in Int /\ 0 <= size /\ f.width \in Int /\ 0 <= f.width
        /\ end \in Int /\ from \in Int /\ to \in Int
        /\ from = seen.left + scope.left /\ to = seen.left + end
        /\ scope.left \in Int
    BY <1>1
  <1> HIDE DEF size, end, from, to
  <1>3. /\ left \in 0..size
        /\ left = IF scope.left <= 0 THEN 0 ELSE IF scope.left >= size THEN size ELSE scope.left
    <2>1. 0 \in Int /\ size \in Int /\ 0 <= size /\ scope.left \in Int
      BY <1>0
    <2>2. left \in 0..size
      BY <2>1, ClipIs
    <2>3. left = IF scope.left <= 0 THEN 0 ELSE IF scope.left >= size THEN size ELSE scope.left
      BY <2>1, ClipIs
    <2> QED BY <2>2, <2>3
  <1>4. /\ hleft \in 0..f.width
        /\ hleft = IF from <= 0 THEN 0 ELSE IF from >= f.width THEN f.width ELSE from
    <2>1. 0 \in Int /\ f.width \in Int /\ 0 <= f.width /\ from \in Int
      BY <1>0
    <2>2. hleft \in 0..f.width
      BY <2>1, ClipIs
    <2>3. hleft = IF from <= 0 THEN 0 ELSE IF from >= f.width THEN f.width ELSE from
      BY <2>1, ClipIs
    <2> QED BY <2>2, <2>3
  <1> HIDE DEF left, hleft
  <1>7. /\ right \in left..size
        /\ right = IF end <= left THEN left ELSE IF end >= size THEN size ELSE end
    <2>1. left \in Int /\ left <= size
      BY <1>0, <1>3
    <2> QED BY <1>0, <2>1, ClipIs
  <1>8. /\ hright \in hleft..f.width
        /\ hright = IF to <= hleft THEN hleft ELSE IF to >= f.width THEN f.width ELSE to
    <2>1. hleft \in Int /\ f.width \in Int /\ hleft <= f.width /\ to \in Int
      BY <1>0, <1>4
    <2>2. hright \in hleft..f.width
      BY <2>1, ClipIs
    <2>3. hright = IF to <= hleft THEN hleft ELSE IF to >= f.width THEN f.width ELSE to
      BY <2>1, ClipIs
    <2> QED BY <2>2, <2>3
  <1> HIDE DEF right, hright
  <1>9. hleft <= seen.left + left /\ seen.left + right <= hright /\ hleft < hright
    BY <1>0, <1>1, <1>2, <1>3, <1>4, <1>7, <1>8
  <1>10. Pixels(hleft, hright) \in [left : Nat, right : Nat]
    BY <1>1, <1>4, <1>8 DEF Pixels
  <1>11. HintBox(scope, seen, f) = Pixels(hleft, hright)
    BY <1>1, <1>4, <1>6, <1>8, <1>9
  <1>12. Pixels(hleft, hright) # Nowhere
    BY <1>10, ReferenceAssumption
  <1> QED BY <1>5, <1>9, <1>11, <1>12 DEF Pixels

LEMMA EvidenceIsHeld == TypeOK /\ (\A t \in Threads : Fits(t)) => HintHoldsEvidence
  <1> SUFFICES ASSUME TypeOK, \A t \in Threads : Fits(t),
                      NEW t \in Threads, pc[t] = "registered", pan[t] # Nowhere,
                      NEW roi \in WorldRois, NEW entity \in Entities
               PROVE
      LET f == frame[t]
          world == RoiForFrame(roi, pan[t], f)
          seen == IF world = Nowhere
                  THEN CropNormalized(roi.x, roi.x + roi.width, Unit, f)
                  ELSE CropNormalized(world.left, world.right, f.width, f)
          scope == ScopeBox(entity, seen, pan[t], f)
          evidence == Restricted(scope, seen)
          hint == HintBox(scope, seen, f)
      IN evidence.left < evidence.right =>
           /\ hint # Nowhere
           /\ hint.left <= seen.left + evidence.left
           /\ seen.left + evidence.right <= hint.right
    BY DEF HintHoldsEvidence
  <1> DEFINE f == frame[t]
             world == RoiForFrame(roi, pan[t], f)
             seen == IF world = Nowhere
                     THEN CropNormalized(roi.x, roi.x + roi.width, Unit, f)
                     ELSE CropNormalized(world.left, world.right, f.width, f)
             scope == ScopeBox(entity, seen, pan[t], f)
  <1>1. f \in Frames
    BY FrameOf
  <1>2. pan[t] \in Nat
    BY PanFacts DEF TypeOK
  <1>3. IsPixels(seen, f)
    <2>1. /\ roi.x \in Int /\ roi.x + roi.width \in Int /\ Unit \in Nat \ {0}
          /\ f.width \in Nat \ {0}
      BY <1>1, FrameFacts, InputsAssumption, ReferenceAssumption
    <2>2. CASE world = Nowhere
      <3>1. IsPixels(CropNormalized(roi.x, roi.x + roi.width, Unit, f), f)
        BY <1>1, <2>1, CroppedFits
      <3> QED BY <2>2, <3>1
    <2>3. CASE world # Nowhere
      <3>1. IsPixels(world, f)
        BY <1>1, <1>2, <2>3, WorldRoiFits
      <3>2. world.left \in Int /\ world.right \in Int
        BY <3>1 DEF IsPixels
      <3> HIDE DEF world
      <3>3. IsPixels(CropNormalized(world.left, world.right, f.width, f), f)
        BY <1>1, <2>1, <3>2, CroppedFits
      <3> QED BY <2>3, <3>3
    <2> QED BY <2>2, <2>3
  <1> HIDE DEF seen, f
  <1>4. scope.left \in Int /\ scope.width \in Int
    BY <1>1, <1>2, <1>3, ScopeIsInt
  <1> HIDE DEF scope
  <1>5. Restricted(scope, seen).left < Restricted(scope, seen).right =>
          /\ HintBox(scope, seen, f) # Nowhere
          /\ HintBox(scope, seen, f).left <= seen.left + Restricted(scope, seen).left
          /\ seen.left + Restricted(scope, seen).right <= HintBox(scope, seen, f).right
    BY <1>1, <1>3, <1>4, HintHolds
  <1> QED BY <1>5 DEF scope, seen, f

\* The columns compared are those shown, but for two roundings.
LEMMA Aligned ==
  ASSUME NEW w \in Nat \ {0}, NEW h \in Nat \ {0}, NEW W \in Nat \ {0}, NEW H \in Nat \ {0},
         NEW unit \in Nat \ {0}, NEW x \in Nat, NEW p \in Nat,
         NEW left \in 0..w, left = Round((x * W - p * unit) * h, unit * H),
         NEW v \in Int, v = Round(w * H, h)
  PROVE  2 * h * Abs((p * w + left * v) * unit - x * W * w) <= w * unit * (H + h)
  <1> DEFINE A == 2 * ((unit * H) * left - (x * W - p * unit) * h)
             B == 2 * (h * v - w * H)
             z == (p * w + left * v) * unit - x * W * w
  <1>1. A \in Int /\ A <= unit * H /\ -(unit * H) <= A
    <2> DEFINE n == (x * W - p * unit) * h
               d == unit * H
    <2>1. n \in Int /\ d \in Nat \ {0} /\ left = Round(n, d)
      OBVIOUS
    <2>2. A = 2 * (d * left - n)
      OBVIOUS
    <2> HIDE DEF n, d, A
    <2>3. 2 * (d * left - n) <= d /\ -d <= 2 * (d * left - n)
      BY <2>1, RoundIsNear
    <2> QED BY <2>1, <2>2, <2>3 DEF d
  <1>2. B \in Int /\ B <= h /\ -h <= B
    <2> DEFINE n == w * H
    <2>1. n \in Int /\ v = Round(n, h)
      OBVIOUS
    <2>2. B = 2 * (h * v - n)
      OBVIOUS
    <2> HIDE DEF n, B
    <2>3. 2 * (h * v - n) <= h /\ -h <= 2 * (h * v - n)
      BY <2>1, RoundIsNear
    <2> QED BY <2>1, <2>2, <2>3
  <1>3. z \in Int
    OBVIOUS
  <1>4. 2 * h * z = w * A + (left * unit) * B
    OBVIOUS
  <1> HIDE DEF A, B, z
  <1>5. /\ w * A \in Int
        /\ w * A <= w * (unit * H) /\ -(w * (unit * H)) <= w * A
    <2>1. unit * H \in Nat
      OBVIOUS
    <2> QED BY <1>1, <2>1, ProductBetween
  <1>6. /\ (left * unit) * B \in Int
        /\ (left * unit) * B <= (left * unit) * h /\ -((left * unit) * h) <= (left * unit) * B
    <2>1. left * unit \in Nat
      OBVIOUS
    <2> QED BY <1>2, <2>1, ProductBetween
  <1>7. (left * unit) * h <= (w * unit) * h
    <2>1. (w * unit) * h - (left * unit) * h = (w - left) * (unit * h)
      OBVIOUS
    <2>2. (w - left) * (unit * h) >= 0
      <3>1. w - left \in Nat /\ unit * h \in Nat
        OBVIOUS
      <3> QED BY <3>1
    <2> QED BY <2>1, <2>2
  <1>8. w * unit * (H + h) = w * (unit * H) + (w * unit) * h
    OBVIOUS
  <1>9. 2 * h * z <= w * unit * (H + h) /\ -(2 * h * z) <= w * unit * (H + h)
    BY <1>4, <1>5, <1>6, <1>7, <1>8
  <1>10. Abs(z) = IF z < 0 THEN -z ELSE z
    BY DEF Abs
  <1>11. 2 * h * (-z) = -(2 * h * z)
    BY <1>3
  <1>12. 2 * h * Abs(z) <= w * unit * (H + h)
    BY <1>9, <1>10, <1>11
  <1> QED BY <1>12 DEF z

LEMMA RoiIsAligned ==
  ASSUME TypeOK, \A t \in Threads : Fits(t)
  PROVE  WorldRoiIsAligned
  <1> SUFFICES ASSUME NEW t \in Threads, pc[t] = "registered", pan[t] # Nowhere,
                      ShowsPart(frame[t]), NEW roi \in WorldRois,
                      RoiForFrame(roi, pan[t], frame[t]) # Nowhere,
                      RoiForFrame(roi, pan[t], frame[t]).left > 0
               PROVE
      2 * frame[t].height * Abs((ViewportLeft(pan[t], frame[t]) * frame[t].width
             + RoiForFrame(roi, pan[t], frame[t]).left * ViewportWidth(frame[t])) * Unit
             - roi.x * ReferenceWidth * frame[t].width)
        <= frame[t].width * Unit * (ReferenceHeight + frame[t].height)
    BY DEF WorldRoiIsAligned
  <1> DEFINE f == frame[t]
             p == pan[t]
             w == f.width
             h == f.height
             v == ViewportWidth(f)
             column == FrameColumn(roi.x, p, f)
             left == Clip(0, w, column)
             right == Clip(left, w, FrameColumn(roi.x + roi.width, p, f))
  <1>1. f \in Frames /\ w \in Nat \ {0} /\ h \in Nat \ {0}
    <2>1. f \in Frames
      BY FrameOf
    <2> QED BY <2>1, FrameFacts
  <1>2. p \in 0..LargestPan(f)
    BY DEF Fits
  <1>3. /\ v \in 1..ReferenceWidth
        /\ LargestPan(f) = ReferenceWidth - v
    BY <1>1, ViewportFacts
  <1>4. p \in Nat /\ ReferenceWidth - v \in Nat /\ p <= ReferenceWidth - v
    BY <1>2, <1>3, ReferenceAssumption
  <1> DEFINE shift == ViewportLeft(p, f)
  <1>5. shift = p
    <2>1. 0 \in Int /\ ReferenceWidth - v \in Int /\ 0 <= ReferenceWidth - v /\ p \in Int
      BY <1>4
    <2>2. shift = Clip(0, ReferenceWidth - v, p)
      BY DEF ViewportLeft
    <2> HIDE DEF shift, v, p
    <2>3. Clip(0, ReferenceWidth - v, p) =
            IF p <= 0 THEN 0 ELSE IF p >= ReferenceWidth - v THEN ReferenceWidth - v ELSE p
      BY <2>1, ClipIs
    <2> QED BY <1>4, <2>2, <2>3
  <1>6. v = Round(w * ReferenceHeight, h)
    <2> DEFINE columns == Round(w * ReferenceHeight, h)
    <2>1. columns \in 1..ReferenceWidth
      BY DEF ShowsPart
    <2>2. v = Clip(1, ReferenceWidth, columns)
      BY DEF ViewportWidth
    <2> HIDE DEF columns, v
    <2>3. 1 \in Int /\ ReferenceWidth \in Int /\ 1 <= ReferenceWidth /\ columns \in Int
      BY <2>1, ReferenceAssumption
    <2>4. Clip(1, ReferenceWidth, columns) =
            IF columns <= 1 THEN 1
            ELSE IF columns >= ReferenceWidth THEN ReferenceWidth ELSE columns
      BY <2>3, ClipIs
    <2> QED BY <2>1, <2>2, <2>3, <2>4 DEF columns
  <1>7. roi.x \in Nat /\ roi.x + roi.width \in Nat
    BY InputsAssumption
  <1>8. column \in Int /\ FrameColumn(roi.x + roi.width, p, f) \in Int
    BY <1>1, <1>4, <1>7, ColumnIsInt
  <1>9. /\ left \in 0..w
        /\ left = IF column <= 0 THEN 0 ELSE IF column >= w THEN w ELSE column
    <2> HIDE DEF column, w
    <2>1. 0 \in Int /\ w \in Int /\ 0 <= w
      BY <1>1
    <2> QED BY <1>8, <2>1, ClipIs
  <1> DEFINE seen == RoiForFrame(roi, p, f)
  <1>10. seen = (IF right <= left THEN Nowhere ELSE Pixels(left, right))
    BY DEF RoiForFrame
  <1>11. seen # Nowhere /\ seen.left > 0
    OBVIOUS
  <1>12. right \in left..w
    <2> HIDE DEF left, w
    <2>1. left \in Int /\ w \in Int /\ left <= w
      BY <1>1, <1>9
    <2> QED BY <1>8, <2>1, ClipIs
  <1> HIDE DEF right, seen
  <1>13. seen.left = left /\ ~(right <= left)
    BY <1>10, <1>11 DEF Pixels
  <1>14. left = column
    <2> HIDE DEF left, column, w
    <2> QED BY <1>1, <1>8, <1>9, <1>11, <1>12, <1>13
  <1>15. left = Round((roi.x * ReferenceWidth - p * Unit) * h, Unit * ReferenceHeight)
    BY <1>14 DEF FrameColumn
  <1>16. v \in Int
    BY <1>3, ReferenceAssumption
  <1> HIDE DEF left, v, w, h, p, shift
  <1>17. 2 * h * Abs((p * w + left * v) * Unit - roi.x * ReferenceWidth * w)
           <= w * Unit * (ReferenceHeight + h)
    BY ONLY <1>1, <1>4, <1>6, <1>7, <1>9, <1>15, <1>16, ReferenceAssumption, Aligned
  <1>18. 2 * h * Abs((shift * w + seen.left * v) * Unit - roi.x * ReferenceWidth * w)
           <= w * Unit * (ReferenceHeight + h)
    BY <1>5, <1>13, <1>17
  <1> QED BY <1>18, Zenon DEF shift, seen, v, w, h, p

-----------------------------------------------------------------------------
(* Theorems *)

TrackingInv == TypeOK /\ (\A t \in Threads : Fits(t)) /\ InTurn

\* What every observation has found and what is kept for the next one.
THEOREM TrackingInvariance == Spec => []TrackingInv
  <1>1. Init => TrackingInv
    <2> SUFFICES ASSUME Init PROVE TrackingInv
      OBVIOUS
    <2>1. \A t \in Threads : Fits(t)
      BY DEF Init, Fits
    <2>2. InTurn
      BY DEF Init, InTurn, KeptFits, ShapeOK
    <2> QED BY <2>1, <2>2, InitTypes DEF TrackingInv
  <1>2. TrackingInv /\ [Next]_vars => TrackingInv'
    BY TypesStep, FitsStep, TurnStep DEF TrackingInv
  <1> QED BY <1>1, <1>2, PTL DEF Spec

\* The variables have their types, whoever observes at the same time
\* (DifferenceVision.observe).
THEOREM TypeCorrect == Spec => []TypeOK
  <1>1. TrackingInv => TypeOK
    BY DEF TrackingInv
  <1> QED BY <1>1, TrackingInvariance, PTL

\* A pan that is answered is one the frame can have, whatever other threads do to
\* the tracker meanwhile (_register_horizontal_viewport).
THEOREM PanFits == Spec => []PanFitsItsFrame
  <1>1. TrackingInv => PanFitsItsFrame
    BY DEF TrackingInv, Fits, PanFitsItsFrame
  <1> QED BY <1>1, TrackingInvariance, PTL

\* While observations come one after the other the search never is over an empty
\* range (_register_horizontal_viewport).
THEOREM NeverRaises == Spec => []SearchNeverRaises
  <1>1. TrackingInv => SearchNeverRaises
    BY DEF TrackingInv, InTurn, SearchNeverRaises
  <1> QED BY <1>1, TrackingInvariance, PTL

\* While observations come one after the other, a view that stands still is found on
\* its second frame at the latest, whatever was tracked before, if the settings of the
\* search fit together and the anchor is sharp enough for them
\* (_register_horizontal_viewport).
THEOREM StillViewFound ==
  ASSUME SearchSettings, Patience >= 2
  PROVE  Spec => []StillViewIsFound
  <1>1. Init => Steady
    BY DEF Init, Steady, NeverStill
  <1>2. TrackingInv /\ TrackingInv' /\ Steady /\ [Next]_vars => Steady'
    BY SteadyStep DEF TrackingInv
  <1>3. TrackingInv /\ Steady => StillViewIsFound
    BY TrackingAssumption DEF TrackingInv, InTurn, Steady, OnItsWay,
                               StillViewIsFound, Findable, Close
  <1> QED BY <1>1, <1>2, <1>3, TrackingInvariance, PTL DEF Spec

\* The box shown for an entity holds the evidence of it (_hint_bbox), for any
\* ROIs, boxes of entities and sizes of the frame and the reference.
THEOREM HintsHoldEvidence == Spec => []HintHoldsEvidence
  <1>1. TrackingInv => HintHoldsEvidence
    BY EvidenceIsHeld DEF TrackingInv
  <1> QED BY <1>1, TrackingInvariance, PTL

\* Where a frame shows a part of the reference, a world ROI is compared with the ROI
\* of the reference (_roi_for_frame, _viewport_gray), for any sizes and ROIs.
THEOREM RoisAreAligned == Spec => []WorldRoiIsAligned
  <1>1. TrackingInv => WorldRoiIsAligned
    BY RoiIsAligned DEF TrackingInv
  <1> QED BY <1>1, TrackingInvariance, PTL

-----------------------------------------------------------------------------
(* Sums over pixels *)

LEMMA DistanceIsNat ==
  ASSUME NEW m \in Nat, NEW n \in Nat
  PROVE  /\ Distance(m, n) \in Nat
         /\ Distance(m, n) = Distance(n, m)
         /\ m = n => Distance(m, n) = 0
  BY DEF Distance

\* The pixel whose distance is added to those of the rest.
Picked(pixels) == CHOOSE x \in pixels : TRUE

Rest(pixels) == pixels \ {Picked(pixels)}

SumFrom(sum, a, b, pixels) ==
  IF pixels = {} THEN 0
  ELSE Distance(a[Picked(pixels)], b[Picked(pixels)]) + sum[Rest(pixels)]

\* sum adds up the distances of the pixels of every part of pixels.
Sums(sum, a, b, pixels) == sum = [s \in SUBSET pixels |-> SumFrom(sum, a, b, s)]

LEMMA RestIsSmaller ==
  ASSUME NEW pixels, IsFiniteSet(pixels), pixels # {}
  PROVE  /\ Picked(pixels) \in pixels
         /\ Rest(pixels) \subseteq pixels
         /\ IsFiniteSet(Rest(pixels))
         /\ Cardinality(Rest(pixels)) = Cardinality(pixels) - 1
         /\ Cardinality(pixels) \in Nat
  <1>1. Picked(pixels) \in pixels
    BY DEF Picked
  <1>2. IsFiniteSet(Rest(pixels)) /\ Cardinality(Rest(pixels)) = Cardinality(pixels) - 1
    BY <1>1, FS_RemoveElement DEF Rest
  <1>3. Cardinality(pixels) \in Nat
    BY FS_CardinalityType
  <1> QED BY <1>1, <1>2, <1>3 DEF Rest

LEMMA SumsExist ==
  ASSUME NEW a, NEW b, NEW pixels, IsFiniteSet(pixels)
  PROVE  \E sum : Sums(sum, a, b, pixels)
  <1> DEFINE Upto(sum, n) ==
               /\ sum = [s \in SUBSET pixels |-> sum[s]]
               /\ \A s \in SUBSET pixels : Cardinality(s) <= n => sum[s] = SumFrom(sum, a, b, s)
             Unsummed == {n \in Nat : \A sum : ~Upto(sum, n)}
  <1>1. \A s \in SUBSET pixels : /\ IsFiniteSet(s) /\ Cardinality(s) \in Nat
                                /\ Cardinality(s) <= Cardinality(pixels)
                                /\ (Cardinality(s) = 0 <=> s = {})
    BY FS_Subset, FS_CardinalityType, FS_EmptySet
  <1>2. Unsummed = {}
    <2>1. SUFFICES ASSUME Unsummed # {} PROVE FALSE
      OBVIOUS
    <2>2. Unsummed \subseteq Nat
      OBVIOUS
    <2>3. PICK n \in Unsummed : \A m \in Unsummed : n <= m
      <3> HIDE DEF Unsummed
      <3> QED BY <2>1, <2>2, LeastOf
    <2>4. n \in Nat /\ \A sum : ~Upto(sum, n)
      OBVIOUS
    <2>5. n # 0
      <3> DEFINE none == [s \in SUBSET pixels |-> 0]
      <3>1. Upto(none, 0)
        BY <1>1 DEF SumFrom
      <3> QED BY <2>4, <3>1
    <2>6. PICK short : Upto(short, n - 1)
      <3>1. n - 1 \in Nat /\ n - 1 \notin Unsummed
        <4> HIDE DEF Unsummed
        <4> QED BY <2>2, <2>3, <2>5
      <3> QED BY <3>1
    <2> DEFINE long == [s \in SUBSET pixels |-> SumFrom(short, a, b, s)]
    <2>7. ASSUME NEW s \in SUBSET pixels, Cardinality(s) <= n
          PROVE  long[s] = SumFrom(long, a, b, s)
      <3>1. CASE s = {}
        BY <3>1 DEF SumFrom
      <3>2. CASE s # {}
        <4>1. Rest(s) \in SUBSET pixels /\ Cardinality(Rest(s)) <= n - 1
          BY <1>1, <2>4, <2>7, <3>2, RestIsSmaller
        <4>2. short[Rest(s)] = SumFrom(short, a, b, Rest(s))
          BY <2>6, <4>1
        <4>3. long[Rest(s)] = short[Rest(s)]
          BY <4>1, <4>2
        <4>4. long[s] = SumFrom(short, a, b, s)
          OBVIOUS
        <4> HIDE DEF long
        <4> QED BY <3>2, <4>3, <4>4 DEF SumFrom
      <3> QED BY <3>1, <3>2
    <2>8. long = [s \in SUBSET pixels |-> long[s]]
      OBVIOUS
    <2>9. Upto(long, n)
      <3> HIDE DEF long
      <3> QED BY <2>7, <2>8
    <2> QED BY <2>4, <2>9
  <1>3. PICK sum : Upto(sum, Cardinality(pixels))
    <2>1. Cardinality(pixels) \in Nat
      BY FS_CardinalityType
    <2> QED BY <1>2, <2>1
  <1>4. sum = [s \in SUBSET pixels |-> SumFrom(sum, a, b, s)]
    BY <1>1, <1>3
  <1> QED BY <1>4 DEF Sums

LEMMA SumsAreNat ==
  ASSUME NEW pixels, IsFiniteSet(pixels), NEW T, pixels \subseteq T,
         NEW a \in [T -> Nat], NEW b \in [T -> Nat],
         NEW sum, Sums(sum, a, b, pixels)
  PROVE  \A s \in SUBSET pixels :
           sum[s] \in Nat /\ ((\A x \in s : a[x] = b[x]) => sum[s] = 0)
  <1> DEFINE Good(s) == sum[s] \in Nat /\ ((\A x \in s : a[x] = b[x]) => sum[s] = 0)
             Bad == {s \in SUBSET pixels : ~Good(s)}
             Counts == {Cardinality(s) : s \in Bad}
  <1>1. \A s \in SUBSET pixels : IsFiniteSet(s) /\ Cardinality(s) \in Nat
    BY FS_Subset, FS_CardinalityType
  <1>2. SUFFICES ASSUME Bad # {} PROVE FALSE
    OBVIOUS
  <1>3. Counts \subseteq Nat /\ Counts # {}
    BY <1>1, <1>2
  <1>4. PICK n \in Counts : \A m \in Counts : n <= m
    <2> HIDE DEF Counts
    <2> QED BY <1>3, LeastOf
  <1>5. PICK s \in Bad : n = Cardinality(s)
    OBVIOUS
  <1>6. sum[s] = SumFrom(sum, a, b, s)
    BY <1>5 DEF Sums
  <1>7. s # {}
    BY <1>5, <1>6 DEF SumFrom
  <1>8. /\ Picked(s) \in s
        /\ Rest(s) \subseteq s
        /\ Cardinality(Rest(s)) = Cardinality(s) - 1
    BY <1>1, <1>5, <1>7, RestIsSmaller
  <1>9. Good(Rest(s))
    <2>1. Rest(s) \in SUBSET pixels /\ Cardinality(Rest(s)) < n /\ n \in Nat
      BY <1>1, <1>5, <1>8
    <2>2. Cardinality(Rest(s)) \in Nat
      BY <1>1, <2>1
    <2>3. Rest(s) \notin Bad
      BY <1>4, <2>1, <2>2
    <2> HIDE DEF Good
    <2> QED BY <2>1, <2>3
  <1>10. a[Picked(s)] \in Nat /\ b[Picked(s)] \in Nat
    BY <1>5, <1>8
  <1>11. sum[s] = Distance(a[Picked(s)], b[Picked(s)]) + sum[Rest(s)]
    BY <1>6, <1>7 DEF SumFrom
  <1>12. sum[s] \in Nat
    <2>1. Distance(a[Picked(s)], b[Picked(s)]) \in Nat
      BY <1>10, DistanceIsNat
    <2>2. sum[Rest(s)] \in Nat
      BY <1>9
    <2> HIDE DEF Good, Bad
    <2> QED BY <1>11, <2>1, <2>2
  <1>13. ASSUME \A x \in s : a[x] = b[x]
         PROVE  sum[s] = 0
    <2>1. Distance(a[Picked(s)], b[Picked(s)]) = 0
      BY <1>8, <1>10, <1>13, DistanceIsNat
    <2>2. sum[Rest(s)] = 0
      BY <1>8, <1>9, <1>13
    <2> QED BY <1>11, <2>1, <2>2
  <1> QED BY <1>5, <1>12, <1>13

\* The difference of two pictures is a natural number, and zero where they agree.
LEMMA DifferenceIsNat ==
  ASSUME NEW pixels, IsFiniteSet(pixels), NEW T, pixels \subseteq T,
         NEW a \in [T -> Nat], NEW b \in [T -> Nat]
  PROVE  /\ Difference(a, b, pixels) \in Nat
         /\ (\A x \in pixels : a[x] = b[x]) => Difference(a, b, pixels) = 0
  <1> DEFINE chosen == CHOOSE sum : Sums(sum, a, b, pixels)
  <1>1. Sums(chosen, a, b, pixels)
    BY SumsExist
  <1>2. Difference(a, b, pixels) = chosen[pixels]
    BY DEF Difference, MapThenSumSet, MapThenFoldSet, Sums, SumFrom, Picked, Rest
  <1> HIDE DEF chosen
  <1>3. \A s \in SUBSET pixels :
          chosen[s] \in Nat /\ ((\A x \in s : a[x] = b[x]) => chosen[s] = 0)
    BY ONLY IsFiniteSet(pixels), pixels \subseteq T, a \in [T -> Nat], b \in [T -> Nat],
            <1>1, SumsAreNat
  <1> QED BY <1>2, <1>3

LEMMA DivShare ==
  ASSUME NEW m \in Nat, NEW k \in Nat \ {0}, m <= k
  PROVE  (One * m) \div k \in 0..One
  BY DEF One

LEMMA DivWhole ==
  ASSUME NEW k \in Nat \ {0}
  PROVE  (One * k) \div k = One
  BY DEF One

-----------------------------------------------------------------------------
(* Scores *)

LEMMA PartsAreFinite ==
  ASSUME NEW pixels, pixels \subseteq RoiPixels
  PROVE  /\ IsFiniteSet(pixels)
         /\ Cardinality(pixels) \in Nat
         /\ Cardinality(pixels) = 0 <=> pixels = {}
  <1>1. IsFiniteSet(pixels)
    BY SceneAssumption, FS_Subset
  <1> QED BY <1>1, FS_CardinalityType, FS_EmptySet

LEMMA ContrastSign ==
  ASSUME NEW targetError \in Nat, NEW alternativeError \in Nat
  PROVE  /\ Contrast(targetError, alternativeError) \in Int
         /\ targetError = 0 => Contrast(targetError, alternativeError) >= 0
         /\ alternativeError = 0 => Contrast(targetError, alternativeError) <= 0
  <1> DEFINE k == Max({alternativeError + targetError, Cardinality(RoiPixels)})
             n == One * (alternativeError - targetError)
  <1>1. Cardinality(RoiPixels) \in Nat \ {0}
    BY PartsAreFinite, SceneAssumption
  <1>2. k \in Nat \ {0}
    <2>1. alternativeError + targetError \in Int /\ Cardinality(RoiPixels) \in Int
      BY <1>1
    <2>2. k = IF alternativeError + targetError >= Cardinality(RoiPixels)
              THEN alternativeError + targetError ELSE Cardinality(RoiPixels)
      BY ONLY <2>1, MaxOfTwo
    <2> HIDE DEF k
    <2> QED BY <1>1, <2>2
  <1>3. /\ n \in Int
        /\ targetError = 0 => n >= 0
        /\ alternativeError = 0 => n <= 0
    BY DEF One
  <1>4. Contrast(targetError, alternativeError) = n \div k
    BY DEF Contrast
  <1> HIDE DEF n, k
  <1>5. /\ n \div k \in Int
        /\ n >= 0 => n \div k >= 0
        /\ n <= 0 => n \div k <= 0
    BY <1>2, <1>3, DivSign
  <1> QED BY <1>3, <1>4, <1>5

LEMMA SupportIsShare ==
  ASSUME NEW live \in [RoiPixels -> Nat], NEW alternative \in [RoiPixels -> Nat],
         NEW background, background \subseteq RoiPixels
  PROVE  BackgroundSupport(live, alternative, background) \in 0..One
  <1>1. CASE background = {}
    BY <1>1 DEF BackgroundSupport, One
  <1>2. CASE background # {}
    <2> DEFINE count == Cardinality(background)
               full == count * BackgroundThreshold
               error == Difference(live, alternative, background)
               rest == Max({0, full - error})
    <2>1. count \in Nat \ {0}
      BY <1>2, PartsAreFinite
    <2>2. BackgroundThreshold \in Nat \ {0}
      BY SceneAssumption
    <2>3. error \in Nat
      BY PartsAreFinite, DifferenceIsNat
    <2>4. BackgroundSupport(live, alternative, background) = (One * rest) \div full
      BY <1>2 DEF BackgroundSupport
    <2> HIDE DEF count, error
    <2>5. full \in Nat \ {0}
      BY <2>1, <2>2
    <2> HIDE DEF full
    <2>6. rest = IF 0 >= full - error THEN 0 ELSE full - error
      <3>1. full - error \in Int
        BY <2>3, <2>5
      <3> QED BY <3>1, MaxOfTwo
    <2> HIDE DEF rest
    <2>7. rest \in Nat /\ rest <= full
      BY <2>3, <2>5, <2>6
    <2> QED BY <2>4, <2>5, <2>7, DivShare
  <1> QED BY <1>1, <1>2

\* A score is a share of One.  It is high where exactly the expected pixels differ
\* and the picture is closer to the target, low where none differs and it is not.
LEMMA WeightedBounds ==
  ASSUME NEW expected, expected \subseteq RoiPixels,
         NEW observed, observed \subseteq RoiPixels,
         NEW contrast \in Int, NEW support \in 0..One
  PROVE  /\ Weighted(expected, observed, contrast, support) \in 0..One
         /\ expected # {} /\ observed = expected /\ contrast >= 0 =>
              Weighted(expected, observed, contrast, support) >= 7750
         /\ observed = {} /\ contrast <= 0 =>
              Weighted(expected, observed, contrast, support) <= 2250
  <1> DEFINE overlap == Cardinality(expected \cap observed)
             counted == Max({1, Cardinality(observed)})
             size == Cardinality(expected)
             recall == (One * overlap) \div size
             precision == (One * overlap) \div counted
             sum == 90 * recall + 50 * precision + 15 * (contrast + One) + 30 * support
             weight == sum \div 200
             kept == Min({One, weight})
             score == Weighted(expected, observed, contrast, support)
  <1>1. CASE expected = {}
    <2>1. score = 0
      BY <1>1 DEF Weighted
    <2> QED BY <1>1, <2>1 DEF One
  <1>2. CASE expected # {}
    <2>1. /\ size \in Nat \ {0}
          /\ Cardinality(observed) \in Nat
          /\ overlap \in Nat
          /\ observed = {} => overlap = 0
          /\ observed = expected => overlap = size /\ size = Cardinality(observed)
      <3>1. expected \cap observed \subseteq RoiPixels
        OBVIOUS
      <3>2. overlap \in Nat /\ (expected \cap observed = {} => overlap = 0)
        BY <3>1, PartsAreFinite
      <3> QED BY <1>2, <3>2, PartsAreFinite
    <2>2. counted = IF 1 >= Cardinality(observed) THEN 1 ELSE Cardinality(observed)
      BY <2>1, MaxOfTwo
    <2>3. score = Max({0, kept})
      BY <1>2 DEF Weighted
    <2> HIDE DEF overlap, counted, score, size
    <2>4. counted \in Nat \ {0}
      BY <2>1, <2>2
    <2>5. One * overlap \in Nat
      BY <2>1 DEF One
    <2>6. /\ recall \in Int
          /\ recall >= 0
          /\ overlap = 0 => recall <= 0
          /\ overlap = size => recall = One
      BY <2>1, <2>5, DivSign, DivWhole DEF One
    <2>7. /\ precision \in Int
          /\ precision >= 0
          /\ overlap = 0 => precision <= 0
          /\ overlap = counted => precision = One
      BY <2>1, <2>4, <2>5, DivSign, DivWhole DEF One
    <2> HIDE DEF recall, precision
    <2>8. /\ sum \in Int
          /\ recall = One /\ precision = One /\ contrast >= 0 => sum >= 155 * One
          /\ recall = 0 /\ precision = 0 /\ contrast <= 0 => sum <= 45 * One
      <3>1. support \in Int /\ 0 <= support /\ support <= 10000 /\ One = 10000
        BY DEF One
      <3> QED BY <2>6, <2>7, <3>1
    <2> HIDE DEF sum
    <2>9. /\ weight \in Int
          /\ sum >= 155 * One => weight >= 7750
          /\ sum <= 45 * One => weight <= 2250
      BY <2>8 DEF One
    <2> HIDE DEF weight
    <2>10. One \in Int /\ One = 10000
      BY DEF One
    <2>11. kept = IF One <= weight THEN One ELSE weight
      BY <2>10, <2>9, MinOfTwo
    <2> HIDE DEF kept
    <2>12. kept \in Int /\ score = IF 0 >= kept THEN 0 ELSE kept
      <3>1. kept \in Int
        BY <2>10, <2>11, <2>9
      <3> QED BY <2>3, <3>1, MaxOfTwo
    <2> HIDE DEF score
    <2>13. score \in 0..One /\ (weight >= 7750 => score >= 7750)
             /\ (weight <= 2250 => score <= 2250)
      BY <2>10, <2>11, <2>12, <2>9
    <2>14. ASSUME observed = expected, contrast >= 0
           PROVE  score >= 7750
      <3>1. overlap = counted
        BY <2>1, <2>2, <2>14
      <3> QED BY <2>1, <2>6, <2>7, <2>8, <2>13, <2>14, <2>9, <3>1
    <2>15. ASSUME observed = {}, contrast <= 0
           PROVE  score <= 2250
      BY <2>1, <2>6, <2>7, <2>8, <2>13, <2>15, <2>9
    <2> QED BY <2>13, <2>14, <2>15 DEF score
  <1> QED BY <1>1, <1>2

LEMMA ScoreBounds ==
  ASSUME NEW c, c.allowed \subseteq RoiPixels, NEW live \in [RoiPixels -> Nat],
         NEW target \in [RoiPixels -> Nat], NEW alternative \in [RoiPixels -> Nat]
  PROVE  /\ SignatureScore(c, live, target, alternative) \in 0..One
         /\ live = target /\ Differing(c, target, alternative) # {} =>
              SignatureScore(c, live, target, alternative) >= 7750
         /\ live = alternative => SignatureScore(c, live, target, alternative) <= 2250
  <1> DEFINE expected == Differing(c, target, alternative)
             observed == Observed(c, live, target, alternative)
             targetError == Difference(live, target, RoiPixels)
             alternativeError == Difference(live, alternative, RoiPixels)
             contrast == Contrast(targetError, alternativeError)
             support == BackgroundSupport(live, alternative, c.allowed \ expected)
  <1>1. SignatureScore(c, live, target, alternative) =
          Weighted(expected, observed, contrast, support)
    BY DEF SignatureScore
  <1>2. /\ expected \subseteq RoiPixels
        /\ observed \subseteq RoiPixels
        /\ live = target => observed = expected
    BY DEF Differing, Observed
  <1>3. live = alternative => observed = {}
    <2>1. ASSUME live = alternative, NEW x \in RoiPixels
          PROVE  ~(Distance(live[x], alternative[x]) >= PixelThreshold)
      <3>1. Distance(live[x], alternative[x]) = 0
        BY <2>1, DistanceIsNat
      <3> QED BY <3>1, SceneAssumption
    <2> QED BY <2>1 DEF Differing, Observed
  <1>4. /\ targetError \in Nat
        /\ alternativeError \in Nat
        /\ live = target => targetError = 0
        /\ live = alternative => alternativeError = 0
    BY SceneAssumption, DifferenceIsNat
  <1>5. support \in 0..One
    <2>1. c.allowed \ expected \subseteq RoiPixels
      OBVIOUS
    <2> QED BY <2>1, SupportIsShare
  <1> HIDE DEF targetError, alternativeError, support
  <1>6. /\ contrast \in Int
        /\ live = target => contrast >= 0
        /\ live = alternative => contrast <= 0
    BY <1>4, ContrastSign
  <1> HIDE DEF expected, observed, contrast
  <1>7. /\ Weighted(expected, observed, contrast, support) \in 0..One
        /\ expected # {} /\ observed = expected /\ contrast >= 0 =>
             Weighted(expected, observed, contrast, support) >= 7750
        /\ observed = {} /\ contrast <= 0 =>
             Weighted(expected, observed, contrast, support) <= 2250
    BY ONLY <1>2, <1>5, <1>6, WeightedBounds
  <1> QED BY <1>1, <1>2, <1>3, <1>6, <1>7 DEF expected

-----------------------------------------------------------------------------
(* One positive against one negative *)

EntitiesOf(c) == [state : {c.state, "absent"}, confidence : Nat, margin : Nat]

\* A candidate, or one that differs from it in its references.
Proper(c) == c \in DifferenceCandidate /\ c.state \in EntityStates

LEMMA EntityIsSomething ==
  ASSUME NEW c, Proper(c), NEW e \in EntitiesOf(c)
  PROVE  e # Nothing /\ e.confidence \in Nat
  <1>1. {c.state, "absent"} \subseteq EntityStates
    BY DEF Proper, EntityStates
  <1>2. e \in [state : EntityStates, confidence : Nat, margin : Nat]
    BY <1>1 DEF EntitiesOf
  <1> QED BY <1>2, SceneAssumption

LEMMA SettingsAreNat ==
  /\ Threshold \in Nat
  /\ MinScoreMargin \in Nat
  /\ PixelThreshold \in Nat \ {0}
  /\ BackgroundThreshold \in Nat \ {0}
  <1>1. 0..One \subseteq Nat
    OBVIOUS
  <1> QED BY <1>1, SceneAssumption

LEMMA DecisionIs ==
  ASSUME NEW c, Proper(c), NEW view, NEW target, NEW alternative,
         NEW positive \in 0..One, NEW negative \in 0..One,
         NEW e, e = Decision(c, view, target, alternative, positive, negative)
  PROVE  /\ e = Nothing \/ e \in EntitiesOf(c)
         /\ IsPresent(e) =>
              /\ positive >= Threshold
              /\ positive >= negative + MinScoreMargin
              /\ Overlap(c, view, target, alternative) \in c.components
         /\ /\ positive >= Threshold
            /\ positive >= negative + MinScoreMargin
            /\ Overlap(c, view, target, alternative) \in c.components
            => e # Nothing /\ e.state = c.state
  <1> DEFINE margin == Distance(positive, negative)
             most == Max({positive, negative})
             certain == most >= Threshold /\ margin >= MinScoreMargin
             seen == Overlap(c, view, target, alternative) \in c.components
  <1>1. positive \in Nat /\ negative \in Nat /\ Threshold \in Nat /\ MinScoreMargin \in Nat
    BY SettingsAreNat
  <1>2. margin \in Nat /\ margin = IF positive < negative THEN negative - positive
                                    ELSE positive - negative
    BY <1>1 DEF Distance
  <1>3. most = IF positive >= negative THEN positive ELSE negative
    BY <1>1, MaxOfTwo
  <1>4. e = CASE certain /\ positive < negative -> Entity("absent", negative, margin)
              [] certain /\ positive >= negative /\ seen -> Entity(c.state, positive, margin)
              [] OTHER -> Nothing
    BY DEF Decision
  <1> HIDE DEF margin, most
  <1>5. CASE certain /\ positive < negative
    <2>1. ~(positive >= negative + MinScoreMargin)
      BY <1>1, <1>5
    <2>2. e = Entity("absent", negative, margin)
      <3>1. ~(positive >= negative)
        BY <1>1, <1>5
      <3> QED BY <1>4, <1>5, <3>1
    <2>3. e \in EntitiesOf(c) /\ e.state = "absent"
      BY <1>1, <1>2, <2>2 DEF Entity, EntitiesOf
    <2> QED BY <2>1, <2>3 DEF IsPresent
  <1>6. CASE certain /\ positive >= negative /\ seen
    <2>1. e = Entity(c.state, positive, margin)
      <3>1. ~(positive < negative)
        BY <1>1, <1>6
      <3> QED BY <1>4, <1>6, <3>1
    <2>2. e \in EntitiesOf(c) /\ e.state = c.state
      BY <1>1, <1>2, <2>1 DEF Entity, EntitiesOf
    <2>3. e # Nothing
      BY <2>2, EntityIsSomething
    <2>4. positive >= Threshold /\ positive >= negative + MinScoreMargin
      BY <1>1, <1>2, <1>3, <1>6
    <2> QED BY <1>6, <2>2, <2>3, <2>4
  <1>7. CASE ~(certain /\ positive < negative) /\ ~(certain /\ positive >= negative /\ seen)
    <2>1. e = Nothing
      BY <1>4, <1>7
    <2>2. ~(positive >= Threshold /\ positive >= negative + MinScoreMargin /\ seen)
      BY <1>1, <1>2, <1>3, <1>7
    <2> QED BY <2>1, <2>2 DEF IsPresent
  <1> QED BY <1>5, <1>6, <1>7

LEMMA PictureIs ==
  ASSUME NEW asset \in DOMAIN Pictures, Pictures[asset] # Nothing
  PROVE  Pictures[asset] \in [RoiPixels -> Nat]
  BY SceneAssumption

LEMMA LiveIs ==
  ASSUME NEW view \in SceneFrames
  PROVE  view.live \in [RoiPixels -> Nat]
  BY SceneAssumption DEF SceneFrames

\* What one positive p against one negative n says of a frame.
Says(c, view, p, n) == Single(c, view, Pictures[p], Pictures[n])

LEMMA SaysIs ==
  ASSUME NEW c, Proper(c), NEW view \in SceneFrames,
         NEW p \in DOMAIN Pictures, NEW n \in DOMAIN Pictures
  PROVE  /\ Says(c, view, p, n) \in EntitiesOf(c) \cup {Nothing}
         /\ IsPresent(Says(c, view, p, n)) =>
              /\ Nothing \notin {Pictures[p], Pictures[n]}
              /\ SignatureScore(c, view.live, Pictures[p], Pictures[n]) >= Threshold
              /\ SignatureScore(c, view.live, Pictures[p], Pictures[n])
                   >= SignatureScore(c, view.live, Pictures[n], Pictures[p]) + MinScoreMargin
              /\ Overlap(c, view, Pictures[p], Pictures[n]) \in c.components
         /\ /\ Nothing \notin {Pictures[p], Pictures[n]}
            /\ SignatureScore(c, view.live, Pictures[p], Pictures[n]) >= Threshold
            /\ SignatureScore(c, view.live, Pictures[p], Pictures[n])
                 >= SignatureScore(c, view.live, Pictures[n], Pictures[p]) + MinScoreMargin
            /\ Overlap(c, view, Pictures[p], Pictures[n]) \in c.components
            => Says(c, view, p, n) # Nothing /\ Says(c, view, p, n).state = c.state
  <1> DEFINE target == Pictures[p]
             alternative == Pictures[n]
             positive == SignatureScore(c, view.live, target, alternative)
             negative == SignatureScore(c, view.live, alternative, target)
             e == Says(c, view, p, n)
  <1>1. CASE Nothing \in {target, alternative}
    <2>1. e = Nothing
      BY <1>1 DEF Says, Single
    <2> QED BY <1>1, <2>1 DEF IsPresent
  <1>2. CASE Nothing \notin {target, alternative}
    <2>1. /\ target \in [RoiPixels -> Nat]
          /\ alternative \in [RoiPixels -> Nat]
          /\ view.live \in [RoiPixels -> Nat]
      BY <1>2, PictureIs, LiveIs
    <2>2. c.allowed \subseteq RoiPixels
      BY DEF Proper, DifferenceCandidate
    <2>3. positive \in 0..One /\ negative \in 0..One
      BY <2>1, <2>2, ScoreBounds
    <2>4. e = Decision(c, view, target, alternative, positive, negative)
      BY <1>2 DEF Says, Single
    <2> HIDE DEF positive, negative, e, target, alternative
    <2>5. /\ e = Nothing \/ e \in EntitiesOf(c)
          /\ IsPresent(e) =>
               /\ positive >= Threshold
               /\ positive >= negative + MinScoreMargin
               /\ Overlap(c, view, target, alternative) \in c.components
          /\ /\ positive >= Threshold
             /\ positive >= negative + MinScoreMargin
             /\ Overlap(c, view, target, alternative) \in c.components
             => e # Nothing /\ e.state = c.state
      BY ONLY Proper(c), <2>3, <2>4, DecisionIs
    <2> QED BY <1>2, <2>5, Zenon DEF positive, negative, e, target, alternative
  <1> QED BY <1>1, <1>2

\* A frame that is the negative reference holds nothing of the positive one.
LEMMA NegativeIsNotPresent ==
  ASSUME NEW c, Proper(c), NEW view \in SceneFrames,
         NEW p \in DOMAIN Pictures, NEW n \in DOMAIN Pictures,
         Pictures[n] # Nothing, view.live = Pictures[n]
  PROVE  ~IsPresent(Says(c, view, p, n))
  <1>1. \A x \in RoiPixels : Distance(view.live[x], Pictures[n][x]) = 0
    BY LiveIs, DistanceIsNat
  <1>2. c.allowed \subseteq RoiPixels
    BY DEF Proper, DifferenceCandidate
  <1>3. Overlap(c, view, Pictures[p], Pictures[n]) = {}
    BY <1>1, <1>2, SceneAssumption DEF Overlap, Observed, Differing
  <1>4. {} \notin c.components
    BY DEF Proper, DifferenceCandidate
  <1> QED BY <1>3, <1>4, SaysIs

\* A frame that is the positive reference scores high enough for it, and low enough
\* for every negative that it can be told from.
LEMMA PositiveIsRecognized ==
  ASSUME Threshold <= 7750, MinScoreMargin <= 5500,
         NEW c, Proper(c), NEW view \in SceneFrames,
         NEW p \in DOMAIN Pictures, NEW n \in DOMAIN Pictures,
         TellsApart(c, p, n), view.live = Pictures[p]
  PROVE  Says(c, view, p, n) # Nothing /\ Says(c, view, p, n).state = c.state
  <1> DEFINE positive == SignatureScore(c, view.live, Pictures[p], Pictures[n])
             negative == SignatureScore(c, view.live, Pictures[n], Pictures[p])
  <1>1. /\ Nothing \notin {Pictures[p], Pictures[n]}
        /\ Differing(c, Pictures[p], Pictures[n]) \in c.components
        /\ Differing(c, Pictures[p], Pictures[n]) # {}
    BY DEF TellsApart, Proper, DifferenceCandidate
  <1>2. /\ Pictures[p] \in [RoiPixels -> Nat]
        /\ Pictures[n] \in [RoiPixels -> Nat]
        /\ view.live \in [RoiPixels -> Nat]
        /\ c.allowed \subseteq RoiPixels
    BY <1>1, PictureIs, LiveIs DEF Proper, DifferenceCandidate
  <1>3. positive \in 0..One /\ positive >= 7750
    BY <1>1, <1>2, ScoreBounds
  <1>4. negative \in 0..One /\ negative <= 2250
    BY <1>2, ScoreBounds
  <1>5. Overlap(c, view, Pictures[p], Pictures[n]) = Differing(c, Pictures[p], Pictures[n])
    BY DEF Overlap, Observed
  <1> HIDE DEF positive, negative
  <1>6. positive >= Threshold /\ positive >= negative + MinScoreMargin
    BY <1>3, <1>4, SettingsAreNat
  <1> QED BY <1>1, <1>5, <1>6, SaysIs DEF positive, negative

-----------------------------------------------------------------------------
(* All negatives *)

LEMMA LeastIsVariant ==
  ASSUME NEW n \in Nat \ {0}, NEW variants, DOMAIN variants = 1..n,
         \A i \in 1..n : variants[i].confidence \in Nat
  PROVE  LeastConfident(variants) \in Range(variants)
  <1> DEFINE Confidences == {variants[i].confidence : i \in 1..n}
             Least == {i \in DOMAIN variants :
               \A j \in DOMAIN variants : variants[i].confidence <= variants[j].confidence}
  <1>1. Confidences \subseteq Nat /\ Confidences # {}
    BY 1 \in 1..n
  <1>2. PICK x \in Confidences : \A y \in Confidences : x <= y
    <2> HIDE DEF Confidences
    <2> QED BY <1>1, LeastOf
  <1>3. PICK i \in 1..n : variants[i].confidence = x
    OBVIOUS
  <1>4. i \in Least
    BY <1>2, <1>3
  <1>5. Least \subseteq Nat /\ Least \subseteq DOMAIN variants
    OBVIOUS
  <1> HIDE DEF Least
  <1>6. PICK least \in Least : \A y \in Least : least <= y
    BY <1>4, <1>5, LeastOf
  <1>7. Min(Least) \in Least
    BY <1>6 DEF Min
  <1>8. LeastConfident(variants) = variants[Min(Least)]
    BY DEF LeastConfident, Least
  <1> QED BY <1>5, <1>7, <1>8 DEF Range

Agree(variants) ==
  \A v, w \in Range(variants) : v # Nothing /\ v.state = w.state

LEMMA VoteIs ==
  ASSUME NEW c, Proper(c), NEW n \in Nat \ {0},
         NEW variants \in [1..n -> EntitiesOf(c) \cup {Nothing}]
  PROVE  /\ Agree(variants) => Vote(c, variants) \in Range(variants)
         /\ ~Agree(variants) => Vote(c, variants) = Nothing
  <1>1. Len(variants) = n /\ DOMAIN variants = 1..n
    <2>1. variants \in Seq(EntitiesOf(c) \cup {Nothing})
      OBVIOUS
    <2> QED BY <2>1
  <1>2. 1 \in 1..n /\ variants[1] \in Range(variants)
    BY <1>1 DEF Range
  <1>3. CASE n = 1
    <2>1. Vote(c, variants) = variants[1]
      BY <1>1, <1>3 DEF Vote
    <2>2. Range(variants) = {variants[1]}
      BY <1>1, <1>3 DEF Range
    <2> QED BY <2>1, <2>2 DEF Agree
  <1>4. CASE n > 1 /\ Nothing \in Range(variants)
    <2>1. Vote(c, variants) = Nothing
      BY <1>1, <1>4 DEF Vote
    <2> QED BY <1>4, <2>1 DEF Agree
  <1>5. CASE n > 1 /\ Nothing \notin Range(variants)
               /\ \E v, w \in Range(variants) : v.state # w.state
    <2>1. Vote(c, variants) = Nothing
      BY <1>1, <1>5 DEF Vote
    <2> QED BY <1>5, <2>1 DEF Agree
  <1>6. CASE n > 1 /\ Nothing \notin Range(variants)
               /\ ~(\E v, w \in Range(variants) : v.state # w.state)
    <2>1. Vote(c, variants) = IF variants[1].state = "present" THEN LeastConfident(variants)
                              ELSE variants[1]
      BY <1>1, <1>6 DEF Vote
    <2>2. \A i \in 1..n : variants[i].confidence \in Nat
      BY <1>1, <1>6, EntityIsSomething DEF Range
    <2>3. LeastConfident(variants) \in Range(variants)
      BY <1>1, <2>2, LeastIsVariant
    <2> QED BY <1>2, <1>6, <2>1, <2>3 DEF Agree
  <1> QED BY <1>3, <1>4, <1>5, <1>6

LEMMA ReferencesAre ==
  ASSUME NEW refs \in Seq(DOMAIN Pictures), refs # <<>>
  PROVE  /\ Len(refs) \in Nat \ {0}
         /\ DOMAIN refs = 1..Len(refs)
         /\ \A i \in 1..Len(refs) : refs[i] \in DOMAIN Pictures /\ refs[i] \in Range(refs)
         /\ \A p \in Range(refs) : p \in DOMAIN Pictures /\ \E i \in 1..Len(refs) : p = refs[i]
  BY DEF Range

\* Every negative says of p that it is in the state.
AllSay(c, view, p, state) ==
  \A n \in Range(c.negatives) :
    Says(c, view, p, n) # Nothing /\ Says(c, view, p, n).state = state

LEMMA VerdictIs ==
  ASSUME NEW c, Proper(c), c.negatives # <<>>, NEW view \in SceneFrames,
         NEW p \in DOMAIN Pictures
  PROVE  /\ Verdict(c, view, p) \in EntitiesOf(c) \cup {Nothing}
         /\ Verdict(c, view, p) # Nothing => AllSay(c, view, p, Verdict(c, view, p).state)
         /\ \A state : AllSay(c, view, p, state) =>
              Verdict(c, view, p) # Nothing /\ Verdict(c, view, p).state = state
  <1> DEFINE len == Len(c.negatives)
             variants == [i \in DOMAIN c.negatives |-> Says(c, view, p, c.negatives[i])]
             v == Verdict(c, view, p)
  <1>1. /\ len \in Nat \ {0}
        /\ DOMAIN c.negatives = 1..len
        /\ \A i \in 1..len : c.negatives[i] \in DOMAIN Pictures
                               /\ c.negatives[i] \in Range(c.negatives)
        /\ \A n \in Range(c.negatives) :
             n \in DOMAIN Pictures /\ \E i \in 1..len : n = c.negatives[i]
    <2>1. c.negatives \in Seq(DOMAIN Pictures)
      BY DEF Proper, DifferenceCandidate
    <2> QED BY <2>1, ReferencesAre
  <1>2. v = Vote(c, variants)
    BY DEF Verdict, Says
  <1> HIDE DEF len, v
  <1>3. variants \in [1..len -> EntitiesOf(c) \cup {Nothing}]
    BY <1>1, SaysIs
  <1>4. Range(variants) = {Says(c, view, p, n) : n \in Range(c.negatives)}
    BY <1>1 DEF Range
  <1> HIDE DEF variants
  <1>5. /\ Agree(variants) => v \in Range(variants)
        /\ ~Agree(variants) => v = Nothing
    BY <1>1, <1>2, <1>3, VoteIs
  <1>6. v \in EntitiesOf(c) \cup {Nothing}
    <2>1. Range(variants) \subseteq EntitiesOf(c) \cup {Nothing}
      BY <1>3 DEF Range
    <2> QED BY <1>5, <2>1
  <1>7. ASSUME v # Nothing
        PROVE  AllSay(c, view, p, v.state)
    <2>1. Agree(variants) /\ v \in Range(variants)
      BY <1>5, <1>7
    <2> QED BY <1>4, <2>1 DEF Agree, AllSay
  <1>8. ASSUME NEW state, AllSay(c, view, p, state)
        PROVE  v # Nothing /\ v.state = state
    <2>1. Agree(variants)
      BY <1>4, <1>8 DEF Agree, AllSay
    <2>2. v \in Range(variants)
      BY <1>5, <2>1
    <2> QED BY <1>4, <1>8, <2>2 DEF AllSay
  <1> QED BY <1>6, <1>7, <1>8 DEF v

-----------------------------------------------------------------------------
(* All positives *)

\* best[n] is kept of the first n positives.
Bests(best, c, view, len) ==
  best = [n \in 0..len |-> IF n = 0 THEN Nothing
                           ELSE Better(best[n - 1], Verdict(c, view, c.positives[n]))]

LEMMA BestsExist ==
  ASSUME NEW c, NEW view, NEW len \in Nat
  PROVE  \E best : Bests(best, c, view, len)
  <1> DEFINE Unranked == {n \in Nat : \A best : ~Bests(best, c, view, n)}
  <1>1. SUFFICES ASSUME Unranked # {} PROVE FALSE
    OBVIOUS
  <1>2. Unranked \subseteq Nat
    OBVIOUS
  <1>3. PICK n \in Unranked : \A m \in Unranked : n <= m
    <2> HIDE DEF Unranked
    <2> QED BY <1>1, <1>2, LeastOf
  <1>4. n \in Nat /\ \A best : ~Bests(best, c, view, n)
    OBVIOUS
  <1>5. n # 0
    <2>1. Bests([m \in 0..0 |-> Nothing], c, view, 0)
      BY DEF Bests
    <2> QED BY <1>4, <2>1
  <1>6. PICK short : Bests(short, c, view, n - 1)
    <2>1. n - 1 \in Nat /\ n - 1 \notin Unranked
      <3> HIDE DEF Unranked
      <3> QED BY <1>2, <1>3, <1>5
    <2> QED BY <2>1
  <1> DEFINE long == [m \in 0..n |->
                       IF m = n THEN Better(short[n - 1], Verdict(c, view, c.positives[n]))
                       ELSE short[m]]
  <1>7. \A m \in 0..n : long[m] = IF m = 0 THEN Nothing
                             ELSE Better(long[m - 1], Verdict(c, view, c.positives[m]))
    <2>1. \A m \in 0..(n - 1) : long[m] = short[m]
      BY <1>4, <1>5
    <2>2. \A m \in 0..(n - 1) : short[m] = IF m = 0 THEN Nothing
                             ELSE Better(short[m - 1], Verdict(c, view, c.positives[m]))
      BY <1>6 DEF Bests
    <2>3. long[n] = Better(short[n - 1], Verdict(c, view, c.positives[n]))
      BY <1>4
    <2> HIDE DEF long
    <2> QED BY <1>4, <1>5, <2>1, <2>2, <2>3
  <1>8. long = [m \in 0..n |-> long[m]]
    OBVIOUS
  <1>9. Bests(long, c, view, n)
    <2> HIDE DEF long
    <2> QED BY <1>7, <1>8 DEF Bests
  <1> QED BY <1>4, <1>9

\* The best of the first n: there is one if any says something, it is one of them,
\* and it is present if any is.
Ranks(best, c, view, n) ==
  LET verdict(i) == Verdict(c, view, c.positives[i])
  IN /\ (\A i \in 1..n : verdict(i) = Nothing) => best[n] = Nothing
     /\ best[n] # Nothing => \E i \in 1..n : best[n] = verdict(i)
     /\ (\E i \in 1..n : verdict(i) # Nothing) => best[n] # Nothing
     /\ (\E i \in 1..n : IsPresent(verdict(i))) => IsPresent(best[n])

LEMMA BetterIs ==
  ASSUME NEW best, NEW e
  PROVE  /\ Better(best, e) \in {best, e}
         /\ e = Nothing => Better(best, e) = best
         /\ e # Nothing \/ best # Nothing => Better(best, e) # Nothing
         /\ IsPresent(e) \/ IsPresent(best) => IsPresent(Better(best, e))
  BY DEF Better, Outranks, Presence, IsPresent

LEMMA BestsRank ==
  ASSUME NEW c, NEW view, NEW len \in Nat, NEW best, Bests(best, c, view, len)
  PROVE  Ranks(best, c, view, len)
  <1> DEFINE Wrong == {n \in 0..len : ~Ranks(best, c, view, n)}
             verdict(i) == Verdict(c, view, c.positives[i])
  <1>1. SUFFICES ASSUME Wrong # {} PROVE FALSE
    OBVIOUS
  <1>2. Wrong \subseteq Nat /\ Wrong \subseteq 0..len
    OBVIOUS
  <1>3. PICK n \in Wrong : \A m \in Wrong : n <= m
    <2> HIDE DEF Wrong
    <2> QED BY <1>1, <1>2, LeastOf
  <1>4. n \in 0..len /\ ~Ranks(best, c, view, n)
    OBVIOUS
  <1>5. n # 0
    <2>1. best[0] = Nothing
      BY DEF Bests
    <2>2. Ranks(best, c, view, 0)
      BY <2>1 DEF Ranks
    <2> QED BY <1>4, <2>2
  <1>6. n - 1 \in 0..len /\ Ranks(best, c, view, n - 1)
    <2>1. n - 1 \in 0..len /\ n - 1 \notin Wrong
      <3> HIDE DEF Wrong
      <3> QED BY <1>2, <1>3, <1>5
    <2> QED BY <2>1
  <1>7. best[n] = Better(best[n - 1], verdict(n))
    BY <1>4, <1>5 DEF Bests
  <1>8. 1..n = (1..(n - 1)) \cup {n}
    BY <1>4, <1>5
  <1>9. Ranks(best, c, view, n)
    <2> HIDE DEF Wrong
    <2>1. \A i \in 1..(n - 1) : i \in 1..n
      BY <1>8
    <2>2. n \in 1..n
      BY <1>8
    <2> QED BY <1>6, <1>7, <1>8, <2>1, <2>2, BetterIs DEF Ranks
  <1> QED BY <1>4, <1>9

LEMMA DetectIs ==
  ASSUME NEW c, Proper(c), c.positives # <<>>, NEW view
  PROVE  /\ (\A p \in Range(c.positives) : Verdict(c, view, p) = Nothing) =>
              Detect(c, view) = Nothing
         /\ Detect(c, view) # Nothing =>
              \E p \in Range(c.positives) : Detect(c, view) = Verdict(c, view, p)
         /\ \A p \in Range(c.positives) :
              /\ Verdict(c, view, p) # Nothing => Detect(c, view) # Nothing
              /\ IsPresent(Verdict(c, view, p)) => IsPresent(Detect(c, view))
  <1> DEFINE len == Len(c.positives)
             chosen == CHOOSE best : Bests(best, c, view, len)
  <1>1. /\ len \in Nat \ {0}
        /\ DOMAIN c.positives = 1..len
        /\ \A i \in 1..len : c.positives[i] \in Range(c.positives)
        /\ \A p \in Range(c.positives) : \E i \in 1..len : p = c.positives[i]
    <2>1. c.positives \in Seq(DOMAIN Pictures)
      BY DEF Proper, DifferenceCandidate
    <2> QED BY <2>1, ReferencesAre
  <1>2. Detect(c, view) = chosen[len]
    BY DEF Detect, Bests
  <1> HIDE DEF len
  <1>3. Bests(chosen, c, view, len)
    BY <1>1, BestsExist
  <1> HIDE DEF chosen
  <1>4. Ranks(chosen, c, view, len)
    BY <1>1, <1>3, BestsRank
  <1> QED BY <1>1, <1>2, <1>4 DEF Ranks

\* What a candidate contributes depends on its sets of references only.
LEMMA OutcomeIs ==
  ASSUME NEW c, Proper(c), c.positives # <<>>, c.negatives # <<>>,
         NEW view \in SceneFrames
  PROVE  /\ Detect(c, view) # Nothing <=>
              \E p \in Range(c.positives) : \E state : AllSay(c, view, p, state)
         /\ IsPresent(Detect(c, view)) <=>
              \E p \in Range(c.positives) : \E state :
                state # "absent" /\ AllSay(c, view, p, state)
         /\ Detect(c, view) # Nothing => Detect(c, view).state \in {c.state, "absent"}
  <1>1. \A p \in Range(c.positives) : p \in DOMAIN Pictures
    <2>1. c.positives \in Seq(DOMAIN Pictures)
      BY DEF Proper, DifferenceCandidate
    <2> QED BY <2>1, ReferencesAre
  <1>2. \A p \in Range(c.positives) :
          /\ Verdict(c, view, p) \in EntitiesOf(c) \cup {Nothing}
          /\ Verdict(c, view, p) # Nothing => AllSay(c, view, p, Verdict(c, view, p).state)
          /\ \A state : AllSay(c, view, p, state) =>
               Verdict(c, view, p) # Nothing /\ Verdict(c, view, p).state = state
    BY <1>1, VerdictIs
  <1>3. /\ (\A p \in Range(c.positives) : Verdict(c, view, p) = Nothing) =>
             Detect(c, view) = Nothing
        /\ Detect(c, view) # Nothing =>
             \E p \in Range(c.positives) : Detect(c, view) = Verdict(c, view, p)
        /\ \A p \in Range(c.positives) :
             /\ Verdict(c, view, p) # Nothing => Detect(c, view) # Nothing
             /\ IsPresent(Verdict(c, view, p)) => IsPresent(Detect(c, view))
    BY DetectIs
  <1>4. Detect(c, view) # Nothing <=>
          \E p \in Range(c.positives) : \E state : AllSay(c, view, p, state)
    BY <1>2, <1>3
  <1>5. IsPresent(Detect(c, view)) <=>
          \E p \in Range(c.positives) : \E state :
            state # "absent" /\ AllSay(c, view, p, state)
    BY <1>2, <1>3 DEF IsPresent
  <1>6. Detect(c, view) # Nothing => Detect(c, view).state \in {c.state, "absent"}
    BY <1>2, <1>3 DEF EntitiesOf
  <1> QED BY <1>4, <1>5, <1>6

LEMMA CandidateIsProper ==
  ASSUME pipeline \in Pipelines, NEW c \in EnabledCandidates
  PROVE  /\ Proper(c)
         /\ c.positives # <<>> /\ c.negatives # <<>>
         /\ \A p \in Range(c.positives) : p \in DOMAIN Pictures
         /\ \A n \in Range(c.negatives) : n \in DOMAIN Pictures
  <1>1. c \in Range(pipeline) /\ c \in Candidates
    BY DEF EnabledCandidates, Candidates
  <1>2. c \in DifferenceCandidate
    <2>1. pipeline \in Seq(DifferenceCandidate)
      BY SceneAssumption
    <2> QED BY <1>1, <2>1 DEF Range
  <1>3. Proper(c)
    BY <1>1, <1>2 DEF Proper, EntityStates
  <1>4. c.positives # <<>> /\ c.negatives # <<>>
    BY <1>1, SceneAssumption
  <1>5. c.positives \in Seq(DOMAIN Pictures) /\ c.negatives \in Seq(DOMAIN Pictures)
    BY <1>2 DEF DifferenceCandidate
  <1>6. \A p \in Range(c.positives) : p \in DOMAIN Pictures
    BY <1>4, <1>5, ReferencesAre
  <1>7. \A n \in Range(c.negatives) : n \in DOMAIN Pictures
    BY <1>4, <1>5, ReferencesAre
  <1> QED BY <1>3, <1>4, <1>6, <1>7

-----------------------------------------------------------------------------
(* The observation *)

\* What the loop has to report of the candidates of a set of places.
Counting(places) == {i \in places : Considered(pipeline[i], active)}

Reporting(places) ==
  {i \in Counting(places) : InFrame(pipeline[i]) /\
                            Reported(pipeline[i], active, Detect(pipeline[i], shown))}

Record(i) == [candidate |-> i, entity |-> Detect(pipeline[i], shown)]

Records(places) == {Record(i) : i \in places}

Before(n) == {i \in DOMAIN pipeline : i < n}

\* What has been collected from the candidates before the one that is next.
Collected ==
  /\ entities \in Seq(Records(DOMAIN pipeline))
  /\ Range(entities) = Records(Reporting(Before(at)))
  /\ unavailable <=> \E i \in Counting(Before(at)) : GivenUp(pipeline[i])

\* What is concluded from it.
Concluded ==
  /\ observation.active = active
  /\ observation.entities = entities
  /\ observation.status = "ready" <=> ~unavailable /\ (active # Nothing \/ entities # <<>>)

\* The inductive invariant: the loop has collected what the candidates before the
\* next one have to say of the frame, and its state is concluded from all of them.
SceneInv ==
  /\ pipeline \in Pipelines
  /\ stage \in {"waiting", "evaluating", "observed"}
  /\ stage # "waiting" =>
       /\ shown \in SceneFrames
       /\ active = ActiveCamera(shown.titles)
       /\ at \in Nat
       /\ Collected
  /\ stage = "observed" => at > Len(pipeline) /\ Concluded

LEMMA PipelineIs ==
  ASSUME pipeline \in Pipelines
  PROVE  Len(pipeline) \in Nat /\ DOMAIN pipeline = 1..Len(pipeline)
  <1>1. pipeline \in Seq(DifferenceCandidate)
    BY SceneAssumption
  <1> QED BY <1>1

LEMMA EmptyIs ==
  ASSUME NEW S
  PROVE  /\ <<>> \in Seq(S) /\ Range(<<>>) = {}
         /\ \A s \in Seq(S) : Range(s) = {} <=> s = <<>>
  <1>1. <<>> \in Seq(S) /\ Range(<<>>) = {}
    BY DEF Range
  <1>2. ASSUME NEW s \in Seq(S), Range(s) = {}
        PROVE  s = <<>>
    <2>1. DOMAIN s = {}
      BY <1>2 DEF Range
    <2>2. Len(s) \in Nat /\ DOMAIN s = 1..Len(s)
      OBVIOUS
    <2>3. Len(s) = 0
      BY <2>1, <2>2
    <2> QED BY <2>3
  <1> QED BY <1>1, <1>2

LEMMA AddingOne ==
  ASSUME NEW S, NEW s \in Seq(S), NEW x \in S
  PROVE  /\ s \o <<x>> \in Seq(S)
         /\ Range(s \o <<x>>) = Range(s) \cup {x}
  <1> DEFINE longer == s \o <<x>>
             len == Len(s)
  <1>1. len \in Nat /\ DOMAIN s = 1..len
    OBVIOUS
  <1>2. longer \in Seq(S) /\ Len(longer) = len + 1 /\ DOMAIN longer = 1..(len + 1)
    OBVIOUS
  <1>3. longer[len + 1] = x /\ \A i \in 1..len : longer[i] = s[i]
    OBVIOUS
  <1> HIDE DEF longer, len
  <1>4. 1..(len + 1) = 1..len \cup {len + 1}
    BY <1>1
  <1>5. Range(longer) = Range(s) \cup {x}
    BY <1>1, <1>2, <1>3, <1>4 DEF Range
  <1> QED BY <1>2, <1>5 DEF longer

\* Nothing has been collected when the loop begins.
LEMMA NothingCollected ==
  ASSUME NEW view \in SceneFrames, SceneInv, Decode(view)
  PROVE  SceneInv'
  <1>1. /\ stage' = "evaluating" /\ shown' = view /\ active' = ActiveCamera(view.titles)
        /\ at' = 1 /\ entities' = <<>> /\ unavailable' = FALSE /\ pipeline' = pipeline
    BY DEF Decode
  <1>2. Before(at)' = {}
    BY <1>1, PipelineIs DEF Before, SceneInv
  <1>3. Counting(Before(at))' = {}
    BY <1>2 DEF Counting
  <1>4. Records(Reporting(Before(at)))' = {}
    BY <1>3 DEF Records, Reporting
  <1>5. Collected'
    BY <1>1, <1>3, <1>4, EmptyIs DEF Collected
  <1> QED BY <1>1, <1>5 DEF SceneInv

\* One candidate of the loop adds what it says, and whether it was given up.
LEMMA OneMoreCollected ==
  ASSUME SceneInv, NEW c, LooksAt(c),
         (unavailable' <=> (unavailable \/ (Considered(c, active) /\ GivenUp(c)))),
         entities' = entities \o IF at \in Reporting({at}) THEN <<Record(at)>> ELSE <<>>
  PROVE  SceneInv'
  <1>1. /\ stage = "evaluating" /\ at \in DOMAIN pipeline /\ c = pipeline[at] /\ at' = at + 1
        /\ stage' = stage /\ shown' = shown /\ active' = active /\ pipeline' = pipeline
    BY DEF LooksAt, inputs
  <1>2. at \in 1..Len(pipeline) /\ Len(pipeline) \in Nat /\ DOMAIN pipeline = 1..Len(pipeline)
    BY <1>1, PipelineIs DEF SceneInv
  <1>3. Before(at)' = Before(at) \cup {at}
    BY <1>1, <1>2 DEF Before
  <1>4. Counting(Before(at))' = Counting(Before(at)) \cup Counting({at})
    BY <1>1, <1>3 DEF Counting
  <1>5. Reporting(Before(at))' = Reporting(Before(at)) \cup Reporting({at})
    BY <1>1, <1>4 DEF Reporting, InFrame
  <1>6. \A i : Record(i)' = Record(i)
    BY <1>1 DEF Record
  <1>7. Records(Reporting(Before(at)))' =
          Records(Reporting(Before(at))) \cup Records(Reporting({at}))
    BY <1>5, <1>6 DEF Records
  <1>8. Records(DOMAIN pipeline)' = Records(DOMAIN pipeline)
    BY <1>1, <1>6 DEF Records
  <1>9. Collected
    BY <1>1 DEF SceneInv
  <1>10. unavailable' <=> (\E i \in Counting(Before(at)) : GivenUp(pipeline[i]))'
    <2>1. \A i : GivenUp(pipeline[i])' <=> GivenUp(pipeline[i])
      BY <1>1 DEF GivenUp
    <2>2. (\E i \in Counting({at}) : GivenUp(pipeline[i])) <=> Considered(c, active) /\ GivenUp(c)
      BY <1>1 DEF Counting
    <2>3. unavailable <=> \E i \in Counting(Before(at)) : GivenUp(pipeline[i])
      BY <1>9 DEF Collected
    <2> QED BY <1>4, <2>1, <2>2, <2>3
  <1>11. entities' \in Seq(Records(DOMAIN pipeline))
         /\ Range(entities') = Range(entities) \cup Records(Reporting({at}))
    <2>1. entities \in Seq(Records(DOMAIN pipeline))
      BY <1>9 DEF Collected
    <2>2. CASE at \in Reporting({at})
      <3>1. Reporting({at}) = {at}
        BY <2>2 DEF Reporting, Counting
      <3>2. Records(Reporting({at})) = {Record(at)}
        BY <3>1 DEF Records
      <3>3. Record(at) \in Records(DOMAIN pipeline)
        BY <1>1 DEF Records
      <3>4. entities' = entities \o <<Record(at)>>
        BY <2>2
      <3> DEFINE all == Records(DOMAIN pipeline)
                 one == Record(at)
      <3>5. entities \in Seq(all) /\ one \in all /\ entities' = entities \o <<one>>
        BY <2>1, <3>3, <3>4
      <3> HIDE DEF all, one
      <3>6. entities' \in Seq(all) /\ Range(entities') = Range(entities) \cup {one}
        BY ONLY <3>5, AddingOne
      <3> QED BY <3>2, <3>6 DEF all, one
    <2>3. CASE at \notin Reporting({at})
      <3>1. Reporting({at}) = {}
        BY <2>3 DEF Reporting, Counting
      <3>2. Records(Reporting({at})) = {}
        BY <3>1 DEF Records
      <3>3. entities' = entities
        BY <2>1, <2>3
      <3> QED BY <2>1, <3>2, <3>3
    <2> QED BY <2>2, <2>3
  <1>12. Range(entities) = Records(Reporting(Before(at)))
    BY <1>9 DEF Collected
  <1>13. Collected'
    BY <1>7, <1>8, <1>10, <1>11, <1>12 DEF Collected
  <1>14. at' \in Nat
    BY <1>1, <1>2
  <1> QED BY <1>1, <1>13, <1>14 DEF SceneInv

\* A candidate that is not evaluated reports nothing.
LEMMA NotInFrame ==
  ASSUME SceneInv, NEW c, LooksAt(c), ~(Considered(c, active) /\ InFrame(c)),
         (unavailable' <=> (unavailable \/ (Considered(c, active) /\ GivenUp(c)))),
         entities' = entities
  PROVE  SceneInv'
  <1>1. stage = "evaluating" /\ c = pipeline[at]
    BY DEF LooksAt
  <1>2. at \notin Reporting({at})
    BY <1>1 DEF Reporting, Counting
  <1>3. entities \in Seq(Records(DOMAIN pipeline))
    BY <1>1 DEF SceneInv, Collected
  <1>4. entities = entities \o <<>>
    BY <1>3
  <1> QED BY <1>2, <1>4, OneMoreCollected

\* What the loop has collected is what the candidates say of the frame, up to where it
\* is, and the state is concluded from all of them (DifferenceVision.observe).
THEOREM SceneInvariance == SceneSpec => []SceneInv
  <1>1. SceneInit => SceneInv
    BY DEF SceneInit, SceneInv
  <1>2. SceneInv /\ [SceneNext]_sceneVars => SceneInv'
    <2> SUFFICES ASSUME SceneInv, [SceneNext]_sceneVars
                 PROVE  SceneInv'
      OBVIOUS
    <2>1. ASSUME NEW view \in SceneFrames, Decode(view)
          PROVE  SceneInv'
      BY <2>1, NothingCollected
    <2>2. ASSUME NEW c, PassOver(c)
          PROVE  SceneInv'
      <3>1. LooksAt(c) /\ entities' = entities /\ unavailable' = unavailable
        BY <2>2 DEF PassOver, collected
      <3>2. ~(Considered(c, active) /\ InFrame(c)) /\ ~(Considered(c, active) /\ GivenUp(c))
        BY <2>2 DEF PassOver, InFrame, GivenUp
      <3> QED BY <3>1, <3>2, NotInFrame
    <2>3. ASSUME NEW c, Mismatch(c)
          PROVE  SceneInv'
      <3>1. /\ LooksAt(c) /\ entities' = entities
            /\ unavailable' = (unavailable \/ c.space = "world")
        BY <2>3 DEF Mismatch
      <3>2. ~InFrame(c) /\ Considered(c, active) /\ (GivenUp(c) <=> c.space = "world")
        BY <2>3 DEF Mismatch, HasRoi, InFrame, GivenUp
      <3> QED BY <3>1, <3>2, NotInFrame
    <2>4. ASSUME NEW c, NotRegistered(c)
          PROVE  SceneInv'
      <3>1. LooksAt(c) /\ entities' = entities /\ unavailable' = TRUE
        BY <2>4 DEF NotRegistered
      <3>2. ~InFrame(c) /\ Considered(c, active) /\ GivenUp(c)
        BY <2>4 DEF NotRegistered, HasRoi, InFrame, GivenUp
      <3> QED BY <3>1, <3>2, NotInFrame
    <2>5. ASSUME NEW c, OutOfView(c)
          PROVE  SceneInv'
      <3>1. LooksAt(c) /\ entities' = entities /\ unavailable' = unavailable
        BY <2>5 DEF OutOfView, collected
      <3>2. ~InFrame(c) /\ ~GivenUp(c)
        BY <2>5 DEF OutOfView, HasRoi, InFrame, GivenUp
      <3> QED BY <3>1, <3>2, NotInFrame
    <2>6. ASSUME NEW c, Evaluate(c)
          PROVE  SceneInv'
      <3>1. /\ LooksAt(c) /\ unavailable' = unavailable /\ c = pipeline[at]
            /\ entities' = entities \o Report(c, active, Detect(c, shown))
        BY <2>6 DEF Evaluate, LooksAt
      <3>2. Considered(c, active) /\ InFrame(c) /\ ~GivenUp(c)
        BY <2>6 DEF Evaluate, HasRoi, InFrame, GivenUp
      <3>3. at \in Reporting({at}) <=> Reported(c, active, Detect(c, shown))
        BY <3>1, <3>2 DEF Reporting, Counting
      <3>4. entities' = entities \o IF at \in Reporting({at}) THEN <<Record(at)>> ELSE <<>>
        BY <3>1, <3>3 DEF Report, Record
      <3> QED BY <3>1, <3>2, <3>4, OneMoreCollected
    <2>7. CASE Conclude
      <3>1. /\ stage = "evaluating" /\ at > Len(pipeline) /\ stage' = "observed"
            /\ UNCHANGED <<pipeline, shown, active, at, entities, unavailable>>
        BY <2>7 DEF Conclude, inputs, collected
      <3>2. observation'.active = active /\ observation'.entities = entities
            /\ (observation'.status = "ready" <=>
                  ~(unavailable \/ (active = Nothing /\ entities = <<>>)))
        BY <2>7 DEF Conclude
      <3>3. Concluded'
        BY <3>1, <3>2 DEF Concluded
      <3>4. Collected'
        <4>1. Collected
          BY <3>1 DEF SceneInv
        <4> QED BY <3>1, <4>1 DEF Collected, Records, Record, Reporting, Counting, Before,
                                  InFrame, GivenUp
      <3> QED BY <3>1, <3>3, <3>4 DEF SceneInv
    <2>8. CASE Answer
      BY <2>8 DEF Answer, SceneInv
    <2>9. CASE UNCHANGED sceneVars
      <3>1. UNCHANGED <<pipeline, shown, stage, active, at, entities, unavailable, observation>>
        BY <2>9 DEF sceneVars, inputs, collected
      <3> QED BY <3>1 DEF SceneInv, Collected, Concluded, Records, Record, Reporting, Counting,
                          Before, InFrame, GivenUp
    <2> QED BY <2>1, <2>2, <2>3, <2>4, <2>5, <2>6, <2>7, <2>8, <2>9 DEF SceneNext
  <1> QED BY <1>1, <1>2, PTL DEF SceneSpec

\* At the end of the loop all candidates have been looked at.
LEMMA ObservedIsLocated == SceneInv => ReportsWhatWasLocated
  <1> SUFFICES ASSUME SceneInv, stage = "observed"
               PROVE  ReportsWhatWasLocated
    BY DEF ReportsWhatWasLocated
  <1>1. /\ pipeline \in Pipelines /\ active = ActiveCamera(shown.titles) /\ at \in Nat
        /\ at > Len(pipeline) /\ Collected /\ Concluded
    BY DEF SceneInv
  <1>2. Before(at) = DOMAIN pipeline
    BY <1>1, PipelineIs DEF Before
  <1> DEFINE counting == {i \in DOMAIN pipeline : Considered(pipeline[i], observation.active)}
             says(i) == Reported(pipeline[i], observation.active, Detect(pipeline[i], shown))
             reported == {i \in counting : InFrame(pipeline[i]) /\ says(i)}
             records == {[candidate |-> i, entity |-> Detect(pipeline[i], shown)] : i \in reported}
  <1>3. observation.active = active
    BY <1>1 DEF Concluded
  <1>4. counting = Counting(Before(at)) /\ reported = Reporting(Before(at))
    BY <1>2, <1>3 DEF Counting, Reporting
  <1>5. records = Records(reported)
    BY DEF Records, Record
  <1> HIDE DEF counting, reported, records
  <1>6. observation.entities = entities /\ Range(entities) = records
    BY <1>1, <1>4, <1>5 DEF Collected, Concluded
  <1>7. entities = <<>> <=> reported = {}
    <2>1. records = {} <=> reported = {}
      BY <1>5 DEF Records
    <2>2. entities \in Seq(Records(DOMAIN pipeline))
      BY <1>1 DEF Collected
    <2> QED BY <1>6, <2>1, <2>2, EmptyIs
  <1>8. unavailable <=> \E i \in counting : GivenUp(pipeline[i])
    BY <1>1, <1>4 DEF Collected
  <1>9. observation.status = "ready" <=> ~unavailable /\ (active # Nothing \/ entities # <<>>)
    BY <1>1 DEF Concluded
  <1>10. observation.status = "ready" <=>
           /\ observation.active # Nothing \/ reported # {}
           /\ \A i \in counting : ~GivenUp(pipeline[i])
    BY <1>3, <1>7, <1>8, <1>9
  <1> QED BY <1>1, <1>3, <1>6, <1>10 DEF ReportsWhatWasLocated, counting, reported, records

\* Of a candidate that was not located in the frame nothing is said, not even that it
\* is absent, and one that had to be given up keeps the state from being "ready",
\* however many there are and in whatever order (observe, the loop and the status).
THEOREM ReportsAreLocated == SceneSpec => []ReportsWhatWasLocated
  BY SceneInvariance, ObservedIsLocated, PTL

LEMMA ObservedBeatsNegatives == SceneInv => PresentBeatsEveryNegative
  <1> SUFFICES ASSUME SceneInv, stage = "observed", NEW c \in EnabledCandidates,
                      IsPresent(Detect(c, shown))
               PROVE  \E p \in Range(c.positives) : \A n \in Range(c.negatives) :
                        /\ Nothing \notin {Pictures[p], Pictures[n]}
                        /\ Score(c, p, n) >= Max({Threshold, Score(c, n, p) + MinScoreMargin})
    BY DEF PresentBeatsEveryNegative
  <1>1. shown \in SceneFrames /\ pipeline \in Pipelines
    BY DEF SceneInv
  <1>2. PICK p \in Range(c.positives) : \E state :
          state # "absent" /\ AllSay(c, shown, p, state)
    BY <1>1, CandidateIsProper, OutcomeIs
  <1>3. ASSUME NEW n \in Range(c.negatives)
        PROVE  /\ Nothing \notin {Pictures[p], Pictures[n]}
               /\ Score(c, p, n) >= Max({Threshold, Score(c, n, p) + MinScoreMargin})
    <2>1. p \in DOMAIN Pictures /\ n \in DOMAIN Pictures /\ Proper(c)
      BY <1>1, CandidateIsProper
    <2>2. IsPresent(Says(c, shown, p, n))
      BY <1>2 DEF AllSay, IsPresent
    <2>3. /\ Nothing \notin {Pictures[p], Pictures[n]}
          /\ Score(c, p, n) >= Threshold
          /\ Score(c, p, n) >= Score(c, n, p) + MinScoreMargin
      BY <1>1, <2>1, <2>2, SaysIs DEF Score
    <2>4. Score(c, n, p) \in 0..One
      <3>1. /\ Pictures[p] \in [RoiPixels -> Nat]
            /\ Pictures[n] \in [RoiPixels -> Nat]
            /\ shown.live \in [RoiPixels -> Nat]
        BY <1>1, <2>1, <2>3, PictureIs, LiveIs
      <3>2. c.allowed \subseteq RoiPixels
        BY <2>1 DEF Proper, DifferenceCandidate
      <3> QED BY <3>1, <3>2, ScoreBounds DEF Score
    <2>5. Score(c, n, p) + MinScoreMargin \in Int /\ Threshold \in Int
      BY <2>4, SettingsAreNat
    <2>6. Max({Threshold, Score(c, n, p) + MinScoreMargin}) \in
            {Threshold, Score(c, n, p) + MinScoreMargin}
      BY <2>5, MaxOfTwo
    <2> QED BY <2>3, <2>6
  <1> QED BY <1>3

\* What is said to be present scored above the threshold and, by the margin, above
\* every negative, however many references there are and in whatever order they are
\* compared (_detect_candidate, _vote).
THEOREM PresentBeatsNegatives == SceneSpec => []PresentBeatsEveryNegative
  BY SceneInvariance, ObservedBeatsNegatives, PTL

\* A candidate that differs in its references only decides on two of them alike.
LEMMA SaysAlike ==
  ASSUME NEW c, NEW d, c.allowed = d.allowed, c.components = d.components, c.state = d.state,
         NEW view, NEW p, NEW n
  PROVE  Says(c, view, p, n) = Says(d, view, p, n)
  <1>1. \A a, b : Differing(c, a, b) = Differing(d, a, b)
    BY DEF Differing
  <1>2. \A live, a, b : Observed(c, live, a, b) = Observed(d, live, a, b)
    BY <1>1 DEF Observed
  <1>3. \A live, a, b : SignatureScore(c, live, a, b) = SignatureScore(d, live, a, b)
    BY <1>1, <1>2 DEF SignatureScore
  <1>4. \A a, b : Overlap(c, view, a, b) = Overlap(d, view, a, b)
    BY <1>1, <1>2 DEF Overlap
  <1>5. \A a, b, s, t : Decision(c, view, a, b, s, t) = Decision(d, view, a, b, s, t)
    BY <1>4, Zenon DEF Decision
  <1> QED BY <1>3, <1>5 DEF Says, Single

LEMMA ReverseIs ==
  ASSUME NEW S, NEW refs \in Seq(S), refs # <<>>
  PROVE  /\ Reverse(refs) \in Seq(S)
         /\ Reverse(refs) # <<>>
         /\ Range(Reverse(refs)) = Range(refs)
  <1> DEFINE len == Len(refs)
             back == Reverse(refs)
  <1>1. len \in Nat \ {0} /\ DOMAIN refs = 1..len /\ \A i \in 1..len : refs[i] \in S
    OBVIOUS
  <1>2. back = [i \in 1..len |-> refs[(len - i) + 1]]
    BY DEF Reverse
  <1> HIDE DEF len, back
  <1>3. \A i \in 1..len : (len - i) + 1 \in 1..len /\ (len - ((len - i) + 1)) + 1 = i
    BY <1>1
  <1>4. DOMAIN back = 1..len /\ \A i \in 1..len : back[i] = refs[(len - i) + 1]
    BY <1>2
  <1>5. back \in Seq(S) /\ Len(back) = len
    BY <1>1, <1>2, <1>3
  <1>6. back # <<>>
    BY <1>1, <1>5
  <1>7. Range(back) = Range(refs)
    <2>1. ASSUME NEW i \in 1..len
          PROVE  refs[i] \in Range(back)
      <3>1. back[(len - i) + 1] = refs[i]
        BY <1>3, <1>4
      <3> QED BY <1>3, <1>4, <3>1 DEF Range
    <2>2. ASSUME NEW i \in 1..len
          PROVE  back[i] \in Range(refs)
      BY <1>1, <1>3, <1>4 DEF Range
    <2>3. Range(refs) \subseteq Range(back)
      BY <1>1, <2>1 DEF Range
    <2>4. Range(back) \subseteq Range(refs)
      BY <1>4, <2>2 DEF Range
    <2> QED BY <2>3, <2>4
  <1> QED BY <1>5, <1>6, <1>7 DEF back

LEMMA ObservedWhateverTheOrder == SceneInv => OrderDoesNotDecide
  <1> SUFFICES ASSUME SceneInv, stage = "observed", NEW c \in EnabledCandidates
               PROVE  SameVerdict(Detect(c, shown),
                        Detect([c EXCEPT !.positives = Reverse(@), !.negatives = Reverse(@)],
                               shown))
    BY DEF OrderDoesNotDecide
  <1> DEFINE d == [c EXCEPT !.positives = Reverse(@), !.negatives = Reverse(@)]
  <1>1. shown \in SceneFrames /\ pipeline \in Pipelines
    BY DEF SceneInv
  <1>2. Proper(c) /\ c.positives # <<>> /\ c.negatives # <<>>
    BY <1>1, CandidateIsProper
  <1>3. c.positives \in Seq(DOMAIN Pictures) /\ c.negatives \in Seq(DOMAIN Pictures)
    BY <1>2 DEF Proper, DifferenceCandidate
  <1>4. /\ d.positives = Reverse(c.positives)
        /\ d.negatives = Reverse(c.negatives)
        /\ d.allowed = c.allowed
        /\ d.components = c.components
        /\ d.state = c.state
    BY <1>2 DEF Proper, DifferenceCandidate
  <1>5. /\ Reverse(c.positives) \in Seq(DOMAIN Pictures) /\ Reverse(c.positives) # <<>>
        /\ Range(Reverse(c.positives)) = Range(c.positives)
    BY <1>2, <1>3, ReverseIs
  <1>6. /\ Reverse(c.negatives) \in Seq(DOMAIN Pictures) /\ Reverse(c.negatives) # <<>>
        /\ Range(Reverse(c.negatives)) = Range(c.negatives)
    BY <1>2, <1>3, ReverseIs
  <1>7. Proper(d)
    BY <1>2, <1>5, <1>6 DEF Proper, DifferenceCandidate
  <1> HIDE DEF d
  <1>8. \A p, state : AllSay(c, shown, p, state) <=> AllSay(d, shown, p, state)
    <2>1. \A p, n : Says(c, shown, p, n) = Says(d, shown, p, n)
      BY <1>4, SaysAlike
    <2> QED BY <1>4, <1>6, <2>1 DEF AllSay
  <1>9. Range(d.positives) = Range(c.positives) /\ d.positives # <<>> /\ d.negatives # <<>>
    BY <1>4, <1>5, <1>6
  <1>10. Detect(c, shown) # Nothing <=> Detect(d, shown) # Nothing
    BY <1>1, <1>2, <1>7, <1>8, <1>9, OutcomeIs
  <1>11. IsPresent(Detect(c, shown)) <=> IsPresent(Detect(d, shown))
    BY <1>1, <1>2, <1>7, <1>8, <1>9, OutcomeIs
  <1>12. /\ Detect(c, shown) # Nothing => Detect(c, shown).state \in {c.state, "absent"}
         /\ Detect(d, shown) # Nothing => Detect(d, shown).state \in {c.state, "absent"}
    BY <1>1, <1>2, <1>4, <1>7, <1>9, OutcomeIs
  <1>13. SameVerdict(Detect(c, shown), Detect(d, shown))
    BY <1>10, <1>11, <1>12 DEF SameVerdict, IsPresent
  <1> QED BY <1>13 DEF d

\* The order in which a candidate lists its references does not decide what is said
\* of it (_detect_candidate, _vote).
THEOREM OrderIsIrrelevant == SceneSpec => []OrderDoesNotDecide
  BY SceneInvariance, ObservedWhateverTheOrder, PTL

LEMMA ObservedIsRecognized ==
  ASSUME Threshold <= 7750, MinScoreMargin <= 5500
  PROVE  SceneInv => ReferencesAreRecognized
  <1> SUFFICES ASSUME SceneInv, stage = "observed", NEW c \in EnabledCandidates
               PROVE  Recognizes(c, Detect(c, shown))
    BY DEF ReferencesAreRecognized
  <1>1. shown \in SceneFrames /\ pipeline \in Pipelines
    BY DEF SceneInv
  <1>2. /\ Proper(c) /\ c.positives # <<>> /\ c.negatives # <<>>
        /\ \A p \in Range(c.positives) : p \in DOMAIN Pictures
        /\ \A n \in Range(c.negatives) : n \in DOMAIN Pictures
    BY <1>1, CandidateIsProper
  <1>3. ASSUME NEW p \in Range(c.positives), LooksLike(p),
               \A n \in Range(c.negatives) : TellsApart(c, p, n)
        PROVE  Detect(c, shown) # Nothing /\ Detect(c, shown).state = c.state
    <2>1. AllSay(c, shown, p, c.state)
      BY <1>1, <1>2, <1>3, PositiveIsRecognized DEF AllSay, LooksLike
    <2>2. Detect(c, shown) # Nothing /\ Detect(c, shown).state \in {c.state, "absent"}
      BY <1>1, <1>2, <2>1, OutcomeIs
    <2>3. c.state # "absent" => IsPresent(Detect(c, shown))
      BY <1>1, <1>2, <2>1, OutcomeIs
    <2> QED BY <2>2, <2>3 DEF IsPresent
  <1>4. ASSUME NEW n \in Range(c.negatives), LooksLike(n)
        PROVE  ~IsPresent(Detect(c, shown))
    <2>1. SUFFICES ASSUME NEW p \in Range(c.positives), NEW state, state # "absent",
                          AllSay(c, shown, p, state)
                   PROVE  FALSE
      BY <1>1, <1>2, OutcomeIs
    <2>2. ~IsPresent(Says(c, shown, p, n))
      BY <1>1, <1>2, <1>4, NegativeIsNotPresent DEF LooksLike
    <2> QED BY <2>1, <2>2 DEF AllSay, IsPresent
  <1> QED BY <1>3, <1>4 DEF Recognizes

\* A frame that is one of its positive references is recognized, one that is a negative
\* is not (_signature_score, _detect_candidate).  The score of a reference is at least
\* 7750, that of its negative at most 2250: thresholds and margins within that are
\* enough, and those the pack ships, up to 6200 and up to 1000, are.
THEOREM RecognizesReferences ==
  ASSUME Threshold <= 7750, MinScoreMargin <= 5500
  PROVE  SceneSpec => []ReferencesAreRecognized
  <1>1. SceneInv => ReferencesAreRecognized
    BY ObservedIsRecognized
  <1> QED BY <1>1, SceneInvariance, PTL
=============================================================================
