-------------------------- MODULE AudioIntakeProofs --------------------------
(***************************************************************************)
(* The audio path for every number of messages, every stream, every chunk  *)
(* and every configuration.                                                *)
(*                                                                         *)
(* Inv is about the account of sequence numbers and the order of files and *)
(* status: it adds to the two properties the kinds of the numbers they     *)
(* speak about and that a file is of a chunk that was analysed.            *)
(*                                                                         *)
(* AnalyzerInv is about the analyzer: it has taken in what was heard and   *)
(* nothing else.  It rests on what TotalDuration computes, and on evicting *)
(* chunk by chunk being the same as evicting once from all that was heard. *)
(***************************************************************************)
EXTENDS AudioIntake, WellFoundedInduction, TLAPS

Numbers ==
  /\ lastSequence \in Nat
  /\ chunksDropped \in Nat
  /\ opening \in Nat
  /\ accepted \in Nat
  /\ droppedBefore \in Nat
  /\ analysed \in Nat
  /\ shownChunk \in Nat
  /\ analysisFile \in Nat
  /\ metadataFile \in Nat
  /\ pcmFile \in Nat

Inv ==
  /\ Numbers
  /\ GapsAccountedFor
  /\ ServedInWriteOrder
  /\ pcmFile <= analysed

\* A chunk in sequence leaves a gap that is not negative, and none when it opens
\* the tracking of a stream.
LEMMA GapIsNatural ==
  ASSUME NEW chunk \in Chunks, Numbers, InSequence(chunk)
  PROVE  /\ Gap(chunk) \in Nat
         /\ chunk.sequence \in Nat
         /\ Continues(chunk) => Gap(chunk) = chunk.sequence - lastSequence - 1
         /\ ~Continues(chunk) => Gap(chunk) = 0
<1>1. chunk.sequence \in Nat
  BY IntakeAssumption DEF Chunks
<1>2. CASE Continues(chunk)
  BY <1>1, <1>2 DEF Numbers, InSequence, Gap
<1>3. CASE ~Continues(chunk)
  BY <1>1, <1>3 DEF Gap
<1> QED
  BY <1>2, <1>3

\* A chunk that is not accepted after its gap has been counted: the account can
\* only become too high.
LEMMA RefusedChunk ==
  ASSUME NEW chunk \in Chunks, Inv, InSequence(chunk),
         chunksDropped' = chunksDropped + Gap(chunk), interrupted' = TRUE,
         UNCHANGED <<lastSequence, account>>
  PROVE  GapsAccountedFor' /\ chunksDropped' \in Nat
<1>1. Gap(chunk) \in Nat
  BY GapIsNatural DEF Inv
<1>2. /\ lastSequence' = lastSequence /\ opening' = opening
      /\ accepted' = accepted /\ droppedBefore' = droppedBefore
  BY DEF account
<1>3. SUFFICES ASSUME lastSequence # 0
               PROVE  lastSequence <= opening + accepted + (chunksDropped' - droppedBefore) - 1
                      /\ chunksDropped' \in Nat
  BY <1>1, <1>2 DEF GapsAccountedFor, Inv, Numbers
<1>4. lastSequence <= opening + accepted + (chunksDropped - droppedBefore) - 1
  BY <1>3 DEF Inv, GapsAccountedFor
<1> QED
  BY <1>1, <1>4 DEF Inv, Numbers

\* What a chunk that is taken in does to the files, whichever are written.
LEMMA FilesInOrder ==
  ASSUME Inv, analysed' = analysed + 1,
         pcmFile' \in {pcmFile, analysed + 1},
         metadataFile' \in {metadataFile, analysed + 1},
         analysisFile' \in {analysisFile, analysed + 1},
         shownChunk' \in {shownChunk, analysed + 1},
         shownChunk' = analysed + 1 => analysisFile' = analysed + 1,
         analysisFile' = analysed + 1 => metadataFile' = analysed + 1,
         metadataFile' = analysed + 1 => pcmFile' = analysed + 1
  PROVE  /\ ServedInWriteOrder' /\ pcmFile' <= analysed'
         /\ {analysed', pcmFile', metadataFile', analysisFile', shownChunk'} \subseteq Nat
  BY DEF Inv, Numbers, ServedInWriteOrder

\* An accepted chunk keeps the account exact when it was.
LEMMA AcceptedChunk ==
  ASSUME NEW chunk \in Chunks, Inv, AcceptChunk(chunk)
  PROVE  /\ GapsAccountedFor'
         /\ {chunksDropped', lastSequence', opening', accepted', droppedBefore'} \subseteq Nat
<1>1. /\ InSequence(chunk)
      /\ chunksDropped' = chunksDropped + Gap(chunk)
      /\ lastSequence' = chunk.sequence
      /\ Account(chunk)
  BY DEF AcceptChunk, TakeIn
<1>2. /\ Gap(chunk) \in Nat
      /\ chunk.sequence \in Nat
      /\ Continues(chunk) => Gap(chunk) = chunk.sequence - lastSequence - 1
      /\ ~Continues(chunk) => Gap(chunk) = 0
  BY <1>1, GapIsNatural DEF Inv
<1>3. CASE Continues(chunk)
  <2>1. /\ opening' = opening /\ droppedBefore' = droppedBefore
        /\ accepted' = accepted + 1
        /\ interrupted' = interrupted
    BY <1>1, <1>3 DEF Account
  <2>2. Gap(chunk) = chunk.sequence - lastSequence - 1
    BY <1>2, <1>3
  <2>3. lastSequence # 0
    BY <1>3 DEF Continues
  <2> DEFINE explained == opening + accepted + (chunksDropped - droppedBefore) - 1
  <2>4. lastSequence <= explained /\ (~interrupted => lastSequence = explained)
    BY <2>3 DEF Inv, GapsAccountedFor
  <2>5. explained' = explained + (chunk.sequence - lastSequence) /\ explained \in Int
    BY <1>1, <1>2, <2>1, <2>2 DEF Inv, Numbers
  <2>6. /\ lastSequence' <= explained'
        /\ lastSequence = explained => lastSequence' = explained'
    BY <1>1, <1>2, <2>4, <2>5 DEF Inv, Numbers
  <2>7. GapsAccountedFor'
    BY <2>1, <2>4, <2>6, Zenon DEF GapsAccountedFor
  <2> QED
    BY <1>1, <1>2, <2>1, <2>7 DEF Inv, Numbers
<1>4. CASE ~Continues(chunk)
  <2>1. /\ opening' = chunk.sequence /\ accepted' = 1
        /\ droppedBefore' = chunksDropped
    BY <1>1, <1>4 DEF Account
  <2>2. chunksDropped' = chunksDropped
    BY <1>1, <1>2, <1>4 DEF Inv, Numbers
  <2>3. lastSequence' = opening' + accepted' + (chunksDropped' - droppedBefore') - 1
    BY <1>1, <1>2, <2>1, <2>2 DEF Inv, Numbers
  <2>4. lastSequence' <= opening' + accepted' + (chunksDropped' - droppedBefore') - 1
    BY <1>1, <1>2, <2>3
  <2>5. GapsAccountedFor'
    BY <2>3, <2>4, Zenon DEF GapsAccountedFor
  <2> QED
    BY <1>1, <1>2, <2>1, <2>2, <2>5 DEF Inv, Numbers
<1> QED
  BY <1>3, <1>4

LEMMA InvInit == Init => Inv
  BY DEF Init, Inv, Numbers, GapsAccountedFor, ServedInWriteOrder

LEMMA InvNext == Inv /\ [Next]_vars => Inv'
<1> SUFFICES ASSUME Inv, [Next]_vars PROVE Inv'
  OBVIOUS
<1>1. ASSUME NEW stream \in Streams, HelloWithAudio(stream) PROVE Inv'
  BY <1>1 DEF HelloWithAudio, served, account, Inv, Numbers, GapsAccountedFor,
              ServedInWriteOrder
<1>2. CASE HelloWithoutAudio
  BY <1>2 DEF HelloWithoutAudio, served, account, Inv, Numbers, GapsAccountedFor,
              ServedInWriteOrder
<1>3. ASSUME NEW chunk \in Chunks, AcceptChunk(chunk) PROVE Inv'
  <2>1. /\ analysed' = analysed + 1 /\ pcmFile' = analysed + 1
        /\ metadataFile' = analysed + 1 /\ analysisFile' = analysed + 1
        /\ shownChunk' = analysed + 1
    BY <1>3 DEF AcceptChunk, TakeIn
  <2>2. /\ ServedInWriteOrder' /\ pcmFile' <= analysed'
        /\ {analysed', pcmFile', metadataFile', analysisFile', shownChunk'} \subseteq Nat
    BY <2>1, FilesInOrder, Zenon
  <2>3. /\ GapsAccountedFor'
        /\ {chunksDropped', lastSequence', opening', accepted', droppedBefore'} \subseteq Nat
    BY <1>3, AcceptedChunk
  <2> QED
    BY <2>2, <2>3, Zenon DEF Inv, Numbers
<1>4. ASSUME NEW chunk \in Chunks, AnalysisFails(chunk) PROVE Inv'
  <2>1. GapsAccountedFor' /\ chunksDropped' \in Nat
    BY <1>4, RefusedChunk, Zenon DEF AnalysisFails, account
  <2>2. /\ UNCHANGED <<lastSequence, opening, accepted, droppedBefore, analysed>>
        /\ UNCHANGED <<shownChunk, analysisFile, metadataFile, pcmFile>>
    BY <1>4 DEF AnalysisFails, account, served
  <2> QED
    BY <2>1, <2>2, Zenon DEF Inv, Numbers, ServedInWriteOrder
<1>5. ASSUME NEW chunk \in Chunks, WriteFails(chunk) PROVE Inv'
  <2>1. GapsAccountedFor' /\ chunksDropped' \in Nat
    BY <1>5, RefusedChunk, Zenon DEF WriteFails, TakeIn, account
  <2>2. PICK written \in 0..3 :
          /\ pcmFile' = IF written >= 1 THEN analysed + 1 ELSE pcmFile
          /\ metadataFile' = IF written >= 2 THEN analysed + 1 ELSE metadataFile
          /\ analysisFile' = IF written = 3 THEN analysed + 1 ELSE analysisFile
    BY <1>5 DEF WriteFails
  <2>3. analysed' = analysed + 1 /\ shownChunk' = shownChunk
    BY <1>5 DEF WriteFails, TakeIn
  <2>4. UNCHANGED <<lastSequence, opening, accepted, droppedBefore>>
    BY <1>5 DEF WriteFails, account
  <2>5. shownChunk # analysed + 1 /\ analysisFile # analysed + 1
        /\ metadataFile # analysed + 1
    BY DEF Inv, Numbers, ServedInWriteOrder
  <2>6. /\ ServedInWriteOrder' /\ pcmFile' <= analysed'
        /\ {analysed', pcmFile', metadataFile', analysisFile', shownChunk'} \subseteq Nat
    BY <2>2, <2>3, <2>5, FilesInOrder
  <2> QED
    BY <2>1, <2>4, <2>6, Zenon DEF Inv, Numbers
<1>6. CASE UNCHANGED vars
  BY <1>6 DEF vars, served, account, Inv, Numbers, GapsAccountedFor, ServedInWriteOrder
<1> QED
  BY <1>1, <1>2, <1>3, <1>4, <1>5, <1>6 DEF Next, Hello, AudioChunk

\* The invariant holds in every behaviour.
THEOREM IntakeInvariance == Spec => []Inv
  BY InvInit, InvNext, PTL DEF Spec

\* audio_chunks_dropped explains the sequence numbers that were not accepted.
THEOREM GapsAreAccountedFor == Spec => []GapsAccountedFor
<1>1. Inv => GapsAccountedFor
  BY DEF Inv
<1> QED
  BY IntakeInvariance, <1>1, PTL

\* Files and status are replaced in the order in which they are written.
THEOREM WriteOrderIsKept == Spec => []ServedInWriteOrder
<1>1. Inv => ServedInWriteOrder
  BY DEF Inv
<1> QED
  BY IntakeInvariance, <1>1, PTL

-----------------------------------------------------------------------------
(* Durations of sequences.  What a recursive function computes is proved     *)
(* from the least natural number for which it would fail.                   *)

LEMMA LeastOf ==
  ASSUME NEW S \in SUBSET Nat, S # {}
  PROVE  \E least \in S : \A n \in S : least <= n
<1> DEFINE R == OpToRel(<, Nat)
<1>1. PICK least \in S : \A n \in S : ~(<<n, least>> \in R)
  <2>1. IsWellFoundedOn(R, Nat)
    BY NatLessThanWellFounded, Zenon DEF OpToRel
  <2> HIDE DEF R
  <2> QED
    BY <2>1, WFMin
<1>2. \A n \in S : ~(n < least)
  BY <1>1 DEF OpToRel
<1> QED
  BY <1>2

LEMMA MinOf ==
  ASSUME NEW S \in SUBSET Nat, S # {}
  PROVE  Min(S) \in S /\ \A n \in S : Min(S) <= n
  BY LeastOf DEF Min

LEMMA MaxOf ==
  ASSUME NEW S \in SUBSET Nat, S # {}, NEW bound \in Nat, \A n \in S : n <= bound
  PROVE  Max(S) \in S /\ \A n \in S : n <= Max(S)
<1> DEFINE T == {bound - n : n \in S}
<1>1. T \in SUBSET Nat /\ T # {}
  OBVIOUS
<1>2. PICK least \in T : \A m \in T : least <= m
  <2> HIDE DEF T
  <2> QED
    BY <1>1, LeastOf
<1>3. PICK most \in S : least = bound - most
  BY <1>2
<1>4. \A n \in S : most >= n
  <2> TAKE n \in S
  <2>1. bound - n \in T
    OBVIOUS
  <2>2. least <= bound - n
    BY <1>2, <2>1, Zenon
  <2>3. most \in Nat /\ n \in Nat
    OBVIOUS
  <2> HIDE DEF T
  <2> QED
    BY <1>3, <2>2, <2>3
<1>5. Max(S) \in S /\ \A n \in S : Max(S) >= n
  BY <1>3, <1>4 DEF Max
<1> QED
  BY <1>5

\* The durations of the first i of a sequence of items, for i up to n.
Sums(sum, items, n) ==
  sum = [i \in 0..n |-> IF i = 0 THEN 0 ELSE sum[i - 1] + items[i].duration]

LEMMA SumsExist ==
  ASSUME NEW items, NEW n \in Nat
  PROVE  \E sum : Sums(sum, items, n)
<1> DEFINE Fails == {m \in Nat : ~ \E sum : Sums(sum, items, m)}
<1> SUFFICES ASSUME Fails # {} PROVE FALSE
  OBVIOUS
<1>1. PICK least \in Fails : \A m \in Fails : least <= m
  <2> HIDE DEF Fails
  <2>1. Fails \in SUBSET Nat
    BY DEF Fails
  <2> QED
    BY <2>1, LeastOf
<1>2. least # 0
  <2>1. Sums([i \in 0..0 |-> 0], items, 0)
    BY DEF Sums
  <2> QED
    BY <2>1
<1>3. least - 1 \in Nat /\ least - 1 \notin Fails
  BY <1>1, <1>2
<1>4. PICK before : Sums(before, items, least - 1)
  BY <1>3
<1> DEFINE sum == [i \in 0..least |->
                     IF i = least THEN before[least - 1] + items[least].duration
                                  ELSE before[i]]
<1>5. \A i \in 0..least :
        sum[i] = IF i = 0 THEN 0 ELSE sum[i - 1] + items[i].duration
  <2> TAKE i \in 0..least
  <2>1. CASE i = 0
    BY <1>2, <1>3, <1>4, <2>1 DEF Sums
  <2>2. CASE i = least
    <3>1. sum[least] = before[least - 1] + items[least].duration
      OBVIOUS
    <3>2. sum[least - 1] = before[least - 1]
      BY <1>2, <1>3
    <3> HIDE DEF sum
    <3> QED
      BY <1>2, <2>2, <3>1, <3>2
  <2>3. CASE i # 0 /\ i # least
    <3>1. i \in 0..(least - 1) /\ i - 1 \in 0..least /\ i - 1 # least
      BY <1>3, <2>3
    <3>2. sum[i] = before[i] /\ sum[i - 1] = before[i - 1]
      BY <2>3, <3>1
    <3>3. before[i] = before[i - 1] + items[i].duration
      BY <1>4, <2>3, <3>1 DEF Sums
    <3> HIDE DEF sum
    <3> QED
      BY <2>3, <3>2, <3>3
  <2> QED
    BY <2>1, <2>2, <2>3
<1>6. Sums(sum, items, least)
  <2>1. sum = [i \in 0..least |-> sum[i]]
    OBVIOUS
  <2> HIDE DEF sum
  <2> QED
    BY <1>5, <2>1 DEF Sums
<1> QED
  BY <1>1, <1>6

SameDurations(items1, items2, n) ==
  \A i \in 1..n : items1[i].duration = items2[i].duration

\* Sums of items that last as long are the same.
LEMMA SumsAgree ==
  ASSUME NEW items1, NEW items2, NEW n \in Nat, NEW m \in Nat, NEW sum1, NEW sum2,
         n <= m, SameDurations(items1, items2, n),
         Sums(sum1, items1, n), Sums(sum2, items2, m)
  PROVE  \A i \in 0..n : sum1[i] = sum2[i]
<1> DEFINE Differ == {i \in Nat : i <= n /\ sum1[i] # sum2[i]}
<1> SUFFICES ASSUME Differ # {} PROVE FALSE
  OBVIOUS
<1>1. PICK least \in Differ : \A i \in Differ : least <= i
  <2>1. Differ \in SUBSET Nat
    OBVIOUS
  <2> HIDE DEF Differ
  <2> QED
    BY <2>1, LeastOf
<1>2. CASE least = 0
  BY <1>1, <1>2 DEF Sums
<1>3. CASE least # 0
  <2>1. least - 1 \in Nat /\ least - 1 \notin Differ /\ least \in 1..n
    BY <1>1, <1>3
  <2>2. sum1[least - 1] = sum2[least - 1]
    BY <2>1
  <2>3. sum1[least] = sum1[least - 1] + items1[least].duration
    BY <2>1 DEF Sums
  <2>4. sum2[least] = sum2[least - 1] + items2[least].duration
    BY <2>1 DEF Sums
  <2>5. items1[least].duration = items2[least].duration
    BY <2>1 DEF SameDurations
  <2> QED
    BY <1>1, <2>2, <2>3, <2>4, <2>5
<1> QED
  BY <1>2, <1>3

LEMMA TotalIsLast ==
  ASSUME NEW items, NEW n \in Nat, n = Len(items), NEW sum, Sums(sum, items, n)
  PROVE  TotalDuration(items) = sum[n]
<1> DEFINE chosen == CHOOSE g : Sums(g, items, n)
<1>1. Sums(chosen, items, n)
  OBVIOUS
<1>2. TotalDuration(items) = chosen[n]
  BY DEF TotalDuration, Sums
<1> HIDE DEF chosen
<1>3. n <= n /\ SameDurations(items, items, n)
  BY DEF SameDurations
<1>4. Sums(sum, items, n)
  OBVIOUS
<1>5. \A i \in 0..n : chosen[i] = sum[i]
  BY ONLY n \in Nat, <1>1, <1>3, <1>4, SumsAgree
<1> QED
  BY <1>2, <1>5

\* The duration of as many items that last as long.
LEMMA TotalSame ==
  ASSUME NEW S1, NEW S2, NEW items1 \in Seq(S1), NEW items2 \in Seq(S2), NEW n \in Nat,
         n = Len(items1), n = Len(items2), SameDurations(items1, items2, n)
  PROVE  TotalDuration(items1) = TotalDuration(items2)
<1>1. PICK sum1 : Sums(sum1, items1, n)
  BY SumsExist
<1>2. PICK sum2 : Sums(sum2, items2, n)
  BY SumsExist
<1>3. n <= n /\ SameDurations(items1, items2, n)
  OBVIOUS
<1>4. \A i \in 0..n : sum1[i] = sum2[i]
  BY ONLY n \in Nat, <1>1, <1>2, <1>3, SumsAgree
<1>5. TotalDuration(items1) = sum1[n]
  BY <1>1, TotalIsLast
<1>6. TotalDuration(items2) = sum2[n]
  BY <1>2, TotalIsLast
<1> QED
  BY <1>4, <1>5, <1>6

LEMMA TotalEmpty == TotalDuration(<<>>) = 0
<1>1. PICK sum : Sums(sum, <<>>, 0)
  BY SumsExist
<1>2. Len(<<>>) = 0 /\ sum[0] = 0
  BY <1>1 DEF Sums
<1> QED
  BY <1>1, <1>2, TotalIsLast

LEMMA TotalAppend ==
  ASSUME NEW S, NEW items \in Seq(S), NEW e \in S
  PROVE  TotalDuration(Append(items, e)) = TotalDuration(items) + e.duration
<1> DEFINE n == Len(items)
           longer == Append(items, e)
<1>1. n \in Nat /\ Len(longer) = n + 1 /\ longer[n + 1] = e
      /\ \A i \in 1..n : longer[i] = items[i]
  OBVIOUS
<1> HIDE DEF longer, n
<1>2. PICK short : Sums(short, items, n)
  BY <1>1, SumsExist
<1>3. PICK long : Sums(long, longer, n + 1)
  <2>1. n + 1 \in Nat
    BY <1>1
  <2> QED
    BY <2>1, SumsExist, Zenon
<1>4. TotalDuration(items) = short[n]
  BY <1>1, <1>2, TotalIsLast DEF n
<1>5. TotalDuration(longer) = long[n + 1]
  BY <1>1, <1>3, TotalIsLast
<1>6. long[n] = short[n]
  <2>1. n <= n + 1 /\ n + 1 \in Nat /\ SameDurations(items, longer, n)
    BY <1>1 DEF SameDurations
  <2>2. n \in Nat
    BY <1>1
  <2>3. \A i \in 0..n : short[i] = long[i]
    BY ONLY <1>2, <1>3, <2>1, <2>2, SumsAgree
  <2> QED
    BY <1>1, <2>3
<1>7. long[n + 1] = long[n] + e.duration
  BY <1>1, <1>3 DEF Sums
<1> QED
  BY <1>4, <1>5, <1>6, <1>7 DEF longer

LEMMA TotalIsNatural ==
  ASSUME NEW T, \A t \in T : t.duration \in Nat, NEW items \in Seq(T)
  PROVE  TotalDuration(items) \in Nat
<1> DEFINE n == Len(items)
<1>1. n \in Nat /\ \A i \in 1..n : items[i].duration \in Nat
  OBVIOUS
<1> HIDE DEF n
<1>2. PICK sum : Sums(sum, items, n)
  BY <1>1, SumsExist
<1>3. TotalDuration(items) = sum[n]
  BY <1>1, <1>2, TotalIsLast DEF n
<1> DEFINE Fails == {i \in Nat : i <= n /\ sum[i] \notin Nat}
<1>4. ASSUME Fails # {} PROVE FALSE
  <2>1. PICK least \in Fails : \A i \in Fails : least <= i
    <3>1. Fails \in SUBSET Nat
      OBVIOUS
    <3> HIDE DEF Fails
    <3> QED
      BY <1>4, <3>1, LeastOf
  <2>2. CASE least = 0
    BY <1>2, <2>1, <2>2 DEF Sums
  <2>3. CASE least # 0
    <3>1. least - 1 \in Nat /\ least - 1 \notin Fails /\ least \in 1..n
      BY <1>1, <2>1, <2>3
    <3>2. sum[least - 1] \in Nat
      BY <1>1, <3>1
    <3>3. sum[least] = sum[least - 1] + items[least].duration
      BY <1>1, <1>2, <3>1 DEF Sums
    <3> QED
      BY <1>1, <2>1, <3>1, <3>2, <3>3
  <2> QED
    BY <2>2, <2>3
<1> QED
  BY <1>1, <1>3, <1>4

LEMMA SubSeqGrows ==
  ASSUME NEW T, NEW items \in Seq(T), NEW a \in Nat \ {0}, NEW m \in Nat,
         a <= m, m <= Len(items)
  PROVE  /\ SubSeq(items, a, m - 1) \in Seq(T)
         /\ items[m] \in T
         /\ SubSeq(items, a, m) = Append(SubSeq(items, a, m - 1), items[m])
<1>1. SubSeq(items, a, m - 1) \in Seq(T) /\ items[m] \in T
  OBVIOUS
<1>2. SubSeq(items, a, m) = Append(SubSeq(items, a, m - 1), items[m])
  OBVIOUS
<1> QED
  BY <1>1, <1>2

\* A sequence lasts as long as its beginning and its end together.
LEMMA TotalSplit ==
  ASSUME NEW T, \A t \in T : t.duration \in Nat, NEW items \in Seq(T),
         NEW k \in 0..Len(items)
  PROVE  /\ TotalDuration(items) =
              TotalDuration(SubSeq(items, 1, k)) + TotalDuration(SubSeq(items, k + 1, Len(items)))
         /\ TotalDuration(SubSeq(items, 1, k)) \in Nat
         /\ TotalDuration(SubSeq(items, k + 1, Len(items))) \in Nat
<1> DEFINE Part(a, b) == TotalDuration(SubSeq(items, a, b))
           Fails == {m \in Nat : k <= m /\ m <= Len(items)
                                 /\ Part(1, m) # Part(1, k) + Part(k + 1, m)}
<1>1. k \in Nat /\ Len(items) \in Nat /\ k <= Len(items)
  OBVIOUS
<1>2. \A a \in Nat \ {0}, b \in 0..Len(items) : SubSeq(items, a, b) \in Seq(T)
  OBVIOUS
<1>3. \A a \in Nat \ {0}, b \in 0..Len(items) : Part(a, b) \in Nat
  BY <1>2, TotalIsNatural
<1>4. ASSUME Fails # {} PROVE FALSE
  <2>1. PICK least \in Fails : \A m \in Fails : least <= m
    <3>1. Fails \in SUBSET Nat
      OBVIOUS
    <3> HIDE DEF Fails
    <3> QED
      BY <1>4, <3>1, LeastOf
  <2>2. CASE least = k
    <3>1. SubSeq(items, k + 1, k) = <<>>
      BY <1>1
    <3>2. Part(k + 1, k) = 0
      BY <3>1, TotalEmpty
    <3>3. Part(1, k) \in Nat
      BY <1>1, <1>3
    <3> HIDE DEF Part
    <3> QED
      BY <2>1, <2>2, <3>2, <3>3
  <2>3. CASE least # k
    <3>1. /\ least \in Nat /\ least - 1 \in Nat /\ k <= least - 1
          /\ least - 1 \in 0..Len(items) /\ least <= Len(items) /\ 1 <= least
          /\ k + 1 <= least /\ k + 1 \in Nat \ {0} /\ 1 \in Nat \ {0}
      BY <1>1, <2>1, <2>3
    <3>2. least - 1 \notin Fails
      BY <2>1, <3>1
    <3> DEFINE d == items[least].duration
    <3>3. ASSUME NEW a \in Nat \ {0}, a <= least
          PROVE  Part(a, least) = Part(a, least - 1) + d
      <4>1. /\ SubSeq(items, a, least - 1) \in Seq(T) /\ items[least] \in T
            /\ SubSeq(items, a, least) = Append(SubSeq(items, a, least - 1), items[least])
        BY <3>1, <3>3, SubSeqGrows
      <4> QED
        BY <4>1, TotalAppend
    <3>4. /\ Part(1, least) = Part(1, least - 1) + d
          /\ Part(k + 1, least) = Part(k + 1, least - 1) + d
      <4> HIDE DEF d, Part
      <4> QED
        BY <3>1, <3>3
    <3>5. d \in Nat
      BY <3>1
    <3>6. /\ Part(1, least - 1) \in Nat /\ Part(k + 1, least - 1) \in Nat
          /\ Part(1, k) \in Nat
      BY <1>1, <1>3, <3>1
    <3> HIDE DEF d, Part
    <3>7. Part(1, least - 1) = Part(1, k) + Part(k + 1, least - 1)
      BY <3>1, <3>2
    <3> QED
      BY <2>1, <3>4, <3>5, <3>6, <3>7
  <2> QED
    BY <2>2, <2>3
<1>5. Len(items) \notin Fails
  BY <1>4
<1>6. SubSeq(items, 1, Len(items)) = items
  OBVIOUS
<1>7. Part(1, Len(items)) = Part(1, k) + Part(k + 1, Len(items))
  <2> HIDE DEF Part
  <2> QED
    BY <1>1, <1>5
<1>8. Part(1, k) \in Nat /\ Part(k + 1, Len(items)) \in Nat
  <2> HIDE DEF Part
  <2> QED
    BY <1>1, <1>3
<1> QED
  BY <1>6, <1>7, <1>8

-----------------------------------------------------------------------------
(* Eviction *)

Suffix(items, gone) == SubSeq(items, gone + 1, Len(items))

\* As many items are gone from the left as it takes for the rest to fit, but
\* never the last one.
IsEviction(items, gone) ==
  /\ gone \in 0..(Len(items) - 1)
  /\ gone = Len(items) - 1 \/ TotalDuration(Suffix(items, gone)) <= History
  /\ \A k \in 0..(gone - 1) : TotalDuration(Suffix(items, k)) > History

LEMMA EvictionIsUnique ==
  ASSUME NEW items, Len(items) \in Nat, NEW g, NEW h, IsEviction(items, g), IsEviction(items, h),
         \A k \in 0..Len(items) : TotalDuration(Suffix(items, k)) \in Nat
  PROVE  g = h
<1>1. ASSUME NEW i, NEW j, IsEviction(items, i), IsEviction(items, j), i < j PROVE FALSE
  <2>1. i \in 0..(j - 1) /\ i # Len(items) - 1 /\ i \in 0..Len(items)
    BY <1>1 DEF IsEviction
  <2>2. TotalDuration(Suffix(items, i)) > History
    BY <1>1, <2>1 DEF IsEviction
  <2>3. TotalDuration(Suffix(items, i)) <= History
    BY <1>1, <2>1 DEF IsEviction
  <2> QED
    BY <2>1, <2>2, <2>3, AnalysisAssumption
<1>2. g \in Int /\ h \in Int
  BY DEF IsEviction
<1>3. ~(g < h) /\ ~(h < g)
  BY <1>1
<1> QED
  BY <1>2, <1>3

LEMMA EvictedIsEviction ==
  ASSUME NEW T, \A t \in T : t.duration \in Nat, NEW items \in Seq(T), items # <<>>
  PROVE  IsEviction(items, Evicted(items, TotalDuration(items)))
<1> DEFINE total == TotalDuration(items)
           S == {k \in 0..(Len(items) - 1) :
                   \/ k = Len(items) - 1
                   \/ total - TotalDuration(SubSeq(items, 1, k)) <= History}
<1>1. Len(items) \in Nat \ {0}
  OBVIOUS
<1>2. S \in SUBSET Nat /\ S # {}
  <2>1. Len(items) - 1 \in S
    BY <1>1
  <2>2. S \in SUBSET Nat
    OBVIOUS
  <2> QED
    BY <2>1, <2>2, Zenon
<1>3. Min(S) \in S /\ \A k \in S : Min(S) <= k
  <2> HIDE DEF S
  <2> QED
    BY <1>2, MinOf
<1>4. Evicted(items, total) = Min(S)
  BY DEF Evicted
<1>5. \A k \in 0..(Len(items) - 1) :
        /\ total - TotalDuration(SubSeq(items, 1, k)) = TotalDuration(Suffix(items, k))
        /\ TotalDuration(Suffix(items, k)) \in Nat
  <2> TAKE k \in 0..(Len(items) - 1)
  <2>1. k \in 0..Len(items)
    BY <1>1
  <2> QED
    BY <2>1, TotalSplit DEF Suffix
<1> HIDE DEF total
<1>6. S = {k \in 0..(Len(items) - 1) :
             k = Len(items) - 1 \/ TotalDuration(Suffix(items, k)) <= History}
  BY <1>5
<1> DEFINE gone == Min(S)
<1>7. gone \in 0..(Len(items) - 1)
      /\ (gone = Len(items) - 1 \/ TotalDuration(Suffix(items, gone)) <= History)
  BY <1>3, <1>6
<1>8. \A k \in 0..(gone - 1) : TotalDuration(Suffix(items, k)) > History
  <2> SUFFICES ASSUME NEW k \in 0..(gone - 1) PROVE TotalDuration(Suffix(items, k)) > History
    OBVIOUS
  <2> HIDE DEF S
  <2>1. k \in 0..(Len(items) - 1) /\ k < gone /\ gone \in Nat /\ k \in Nat
    BY <1>1, <1>7
  <2>2. k \notin S
    BY <1>3, <2>1
  <2>3. ~(TotalDuration(Suffix(items, k)) <= History)
    BY <1>6, <2>1, <2>2
  <2> QED
    BY <1>5, <2>1, <2>3, AnalysisAssumption
<1> HIDE DEF S
<1> QED
  BY <1>4, <1>7, <1>8 DEF IsEviction, total

\* What one more item leaves of a sequence and of its running duration.
LEMMA RetainEvicts ==
  ASSUME NEW T, \A t \in T : t.duration \in Nat, NEW items \in Seq(T), NEW e \in T,
         NEW total, total = TotalDuration(items)
  PROVE  LET all == Append(items, e)
             kept == Retain(items, total, e)
         IN  \E gone : /\ IsEviction(all, gone)
                       /\ kept.items = Suffix(all, gone)
                       /\ kept.items \in Seq(T)
                       /\ kept.duration = TotalDuration(kept.items)
                       /\ kept.duration \in Nat
<1> DEFINE all == Append(items, e)
           sum == total + e.duration
           gone == Evicted(all, sum)
           kept == Retain(items, total, e)
<1>1. all \in Seq(T) /\ all # <<>> /\ Len(all) = Len(items) + 1 /\ Len(items) \in Nat
  OBVIOUS
<1>2. sum = TotalDuration(all)
  BY TotalAppend
<1>3. kept.items = SubSeq(all, gone + 1, Len(all))
      /\ kept.duration = sum - TotalDuration(SubSeq(all, 1, gone))
  BY DEF Retain
<1> HIDE DEF kept, all, sum
<1>4. IsEviction(all, gone)
  BY <1>1, <1>2, EvictedIsEviction
<1> HIDE DEF gone
<1>5. gone \in 0..Len(all) /\ gone \in Nat
  BY <1>1, <1>4 DEF IsEviction
<1>6. /\ TotalDuration(all) = TotalDuration(SubSeq(all, 1, gone))
                                + TotalDuration(SubSeq(all, gone + 1, Len(all)))
      /\ TotalDuration(SubSeq(all, 1, gone)) \in Nat
      /\ TotalDuration(SubSeq(all, gone + 1, Len(all))) \in Nat
  BY <1>1, <1>5, TotalSplit
<1>7. SubSeq(all, gone + 1, Len(all)) \in Seq(T)
  BY <1>1, <1>5
<1>8. kept.duration = TotalDuration(kept.items) /\ kept.duration \in Nat
  BY <1>2, <1>3, <1>6
<1> QED
  BY <1>3, <1>4, <1>7, <1>8 DEF kept, all, Suffix

LEMMA SuffixType ==
  ASSUME NEW T, NEW items \in Seq(T), NEW k \in 0..Len(items)
  PROVE  /\ Suffix(items, k) \in Seq(T)
         /\ Len(Suffix(items, k)) = Len(items) - k
         /\ \A i \in 1..(Len(items) - k) : Suffix(items, k)[i] = items[i + k]
  BY DEF Suffix

\* The duration of an end that one more item makes longer.
LEMMA SuffixGrows ==
  ASSUME NEW T, \A t \in T : t.duration \in Nat, NEW items \in Seq(T), NEW e \in T,
         NEW k \in 0..Len(items)
  PROVE  /\ Suffix(items, k) \in Seq(T)
         /\ Suffix(Append(items, e), k) = Append(Suffix(items, k), e)
         /\ TotalDuration(Suffix(Append(items, e), k)) =
              TotalDuration(Suffix(items, k)) + e.duration
         /\ TotalDuration(Suffix(items, k)) \in Nat
<1>1. Suffix(items, k) \in Seq(T)
  BY DEF Suffix
<1>2. Suffix(Append(items, e), k) = Append(Suffix(items, k), e)
  <2> DEFINE longer == Append(items, e)
             n == Len(items)
  <2>1. n \in Nat /\ k \in Nat /\ k <= n
    OBVIOUS
  <2>2. longer \in Seq(T) /\ Len(longer) = n + 1 /\ longer[n + 1] = e
        /\ \A i \in 1..n : longer[i] = items[i]
    OBVIOUS
  <2> HIDE DEF longer
  <2>3. SubSeq(longer, k + 1, n + 1) = Append(SubSeq(longer, k + 1, n), longer[n + 1])
    <3>1. k + 1 \in Nat \ {0} /\ n + 1 \in Nat /\ k + 1 <= n + 1 /\ n + 1 <= Len(longer)
          /\ (n + 1) - 1 = n
      BY <2>1, <2>2
    <3> HIDE DEF n
    <3> QED
      BY ONLY <2>2, <3>1, SubSeqGrows
  <2>4. SubSeq(longer, k + 1, n) = SubSeq(items, k + 1, n)
    BY <2>1, <2>2
  <2> QED
    BY <2>2, <2>3, <2>4 DEF Suffix, longer
<1> QED
  BY <1>1, <1>2, TotalAppend, TotalIsNatural

\* Evicting from what an eviction has left is evicting from all.
LEMMA RecentGrows ==
  ASSUME NEW T, \A t \in T : t.duration \in Nat, NEW items \in Seq(T), NEW e \in T,
         NEW g, IsEviction(items, g),
         NEW h, IsEviction(Append(Suffix(items, g), e), h)
  PROVE  /\ IsEviction(Append(items, e), g + h)
         /\ Suffix(Append(items, e), g + h) = Suffix(Append(Suffix(items, g), e), h)
<1> DEFINE n == Len(items)
           kept == Suffix(items, g)
           short == Append(kept, e)
           long == Append(items, e)
<1>1. n \in Nat /\ g \in Nat /\ g <= n - 1 /\ g \in 0..n
  BY DEF IsEviction
<1>2. kept \in Seq(T) /\ Len(kept) = n - g
  BY <1>1 DEF Suffix
<1>3. Len(long) = n + 1 /\ long \in Seq(T) /\ Len(short) = n - g + 1 /\ short \in Seq(T)
  <2>1. Len(long) = n + 1 /\ long \in Seq(T)
    OBVIOUS
  <2> HIDE DEF kept
  <2>2. Len(short) = Len(kept) + 1 /\ short \in Seq(T)
    BY <1>2
  <2> QED
    BY <1>2, <2>1, <2>2
<1>4. short = Suffix(long, g)
  BY <1>1, SuffixGrows
<1>5. \A k \in 0..(n - g) : Suffix(short, k) = Suffix(long, g + k)
  <2> HIDE DEF short, long
  <2> QED
    BY <1>1, <1>3, <1>4 DEF Suffix
<1>6. h \in 0..(n - g)
      /\ (h = n - g \/ TotalDuration(Suffix(short, h)) <= History)
      /\ \A k \in 0..(h - 1) : TotalDuration(Suffix(short, k)) > History
  BY <1>1, <1>3 DEF IsEviction
<1>7. g + h \in 0..n /\ (g + h = n \/ TotalDuration(Suffix(long, g + h)) <= History)
  BY <1>1, <1>5, <1>6
<1>8. ASSUME NEW k \in 0..(g + h - 1) PROVE TotalDuration(Suffix(long, k)) > History
  <2>1. CASE k < g
    <3>1. k \in 0..(g - 1) /\ k \in 0..n
      BY <1>1, <2>1
    <3>2. TotalDuration(Suffix(items, k)) > History
      BY <3>1 DEF IsEviction
    <3>3. TotalDuration(Suffix(long, k)) = TotalDuration(Suffix(items, k)) + e.duration
          /\ TotalDuration(Suffix(items, k)) \in Nat /\ e.duration \in Nat
      BY <3>1, SuffixGrows
    <3> QED
      BY <3>2, <3>3, AnalysisAssumption
  <2>2. CASE k >= g
    <3>1. k - g \in 0..(h - 1) /\ k - g \in 0..(n - g) /\ g + (k - g) = k
      BY <1>1, <1>6, <2>2
    <3> QED
      BY <1>5, <1>6, <3>1
  <2> QED
    BY <1>1, <2>1, <2>2
<1> QED
  BY <1>1, <1>3, <1>5, <1>6, <1>7, <1>8 DEF IsEviction

-----------------------------------------------------------------------------
(* The analyzer *)

Heard == [chunk : Chunks, stored : BOOLEAN]

LevelsOf(chunks) == [i \in DOMAIN chunks |-> LevelOf(chunks[i])]

Measured == [duration : Durations, level : Levels]

\* Where the unbroken run of loud chunks starts, behind the last chunk if that
\* was not loud.
Start(chunks) == Max({i \in DOMAIN chunks : ~Loud(chunks, i)} \cup {0}) + 1

IsRun(chunks, candidate) ==
  IF Start(chunks) > Len(chunks) THEN candidate = None
  ELSE candidate = [stream |-> chunks[Start(chunks)].stream,
                    first |-> chunks[Start(chunks)].sequence,
                    last |-> chunks[Len(chunks)].sequence]

\* An analyzer that has taken in what was heard, and nothing else.
Follows(a) ==
  /\ a \in Analyzers
  /\ a.buffer = RecentChunks
  /\ a.levels = LevelsOf(a.buffer)
  /\ a.bufferDuration = TotalDuration(a.buffer)
  /\ a.levelsDuration = TotalDuration(a.levels)
  /\ IsRun(HeardChunks, a.candidate)

AnalyzerInv ==
  /\ heard \in Seq(Heard)
  /\ analyzer = None => heard = <<>>
  /\ analyzer # None => Follows(analyzer)

LEMMA Durable ==
  /\ \A chunk \in Chunks : chunk.duration \in Nat /\ chunk.duration \in Durations
  /\ \A m \in Measured : m.duration \in Nat
  /\ \A chunk \in Chunks : LevelOf(chunk) \in Measured
                             /\ LevelOf(chunk).duration = chunk.duration
  BY AnalysisAssumption DEF Chunks, Measured, LevelOf

\* The chunks that were heard.
LEMMA HeardChunksType ==
  ASSUME heard \in Seq(Heard)
  PROVE  /\ HeardChunks \in Seq(Chunks) /\ Len(HeardChunks) = Len(heard)
         /\ heard = <<>> <=> HeardChunks = <<>>
<1>1. Len(heard) \in Nat /\ DOMAIN heard = 1..Len(heard)
      /\ \A i \in 1..Len(heard) : heard[i].chunk \in Chunks
  <2>1. \A i \in 1..Len(heard) : heard[i] \in Heard
    OBVIOUS
  <2>2. \A h \in Heard : h.chunk \in Chunks
    BY DEF Heard
  <2> QED
    BY <2>1, <2>2
<1>2. HeardChunks \in Seq(Chunks) /\ Len(HeardChunks) = Len(heard)
  BY <1>1 DEF HeardChunks
<1> QED
  BY <1>2

LEMMA HeardChunksGrow ==
  ASSUME heard \in Seq(Heard), NEW h \in Heard, heard' = Append(heard, h)
  PROVE  HeardChunks' = Append(HeardChunks, h.chunk)
<1>1. Len(heard) \in Nat /\ DOMAIN heard = 1..Len(heard)
  OBVIOUS
<1>2. DOMAIN heard' = 1..(Len(heard) + 1) /\ heard'[Len(heard) + 1] = h
      /\ \A i \in 1..Len(heard) : heard'[i] = heard[i]
  OBVIOUS
<1>3. HeardChunks \in Seq(Chunks) /\ Len(HeardChunks) = Len(heard)
      /\ \A i \in 1..Len(heard) : HeardChunks[i] = heard[i].chunk
  BY <1>1, HeardChunksType DEF HeardChunks
<1>4. HeardChunks' = [i \in 1..(Len(heard) + 1) |-> heard'[i].chunk]
  BY <1>2 DEF HeardChunks
<1>5. h.chunk \in Chunks
  BY DEF Heard
<1> DEFINE longer == Append(HeardChunks, h.chunk)
<1>6. longer = [i \in 1..(Len(heard) + 1) |->
                  IF i = Len(heard) + 1 THEN h.chunk ELSE HeardChunks[i]]
  BY <1>1, <1>3, <1>5
<1> HIDE DEF longer
<1>7. \A i \in 1..(Len(heard) + 1) : longer[i] = heard'[i].chunk
  BY <1>1, <1>2, <1>3, <1>6
<1>8. longer = HeardChunks'
  BY <1>4, <1>6, <1>7
<1> QED
  BY <1>8 DEF longer

\* The recent chunks are what an eviction leaves of all that were heard.
LEMMA RecentIsEviction ==
  heard \in Seq(Heard) /\ heard # <<>> =>
    /\ \E e : IsEviction(HeardChunks, e)
    /\ \A e : IsEviction(HeardChunks, e) => RecentChunks = Suffix(HeardChunks, e)
<1> SUFFICES ASSUME heard \in Seq(Heard), heard # <<>>
             PROVE  /\ \E e : IsEviction(HeardChunks, e)
                    /\ \A e : IsEviction(HeardChunks, e) =>
                             RecentChunks = Suffix(HeardChunks, e)
  OBVIOUS
<1> DEFINE n == Len(heard)
           fitting == {k \in 1..n : TotalDuration(SubSeq(HeardChunks, k, n)) <= History}
           first == Min(fitting \cup {n})
<1>1. /\ HeardChunks \in Seq(Chunks) /\ Len(HeardChunks) = n
      /\ n \in Nat \ {0} /\ HeardChunks # <<>>
  BY HeardChunksType
<1>2. RecentChunks = SubSeq(HeardChunks, first, n)
  BY <1>1 DEF RecentChunks, RecentOf
<1>3. first \in fitting \cup {n} /\ \A k \in fitting \cup {n} : first <= k
  <2>1. fitting \cup {n} \in SUBSET Nat /\ fitting \cup {n} # {}
    BY <1>1
  <2> HIDE DEF fitting
  <2> QED
    BY <2>1, MinOf
<1> HIDE DEF first
<1>4. first \in 1..n /\ first - 1 \in 0..(n - 1) /\ (first - 1) + 1 = first
  BY <1>1, <1>3
<1>5. \A k \in 0..n : TotalDuration(Suffix(HeardChunks, k)) \in Nat
  BY <1>1, Durable, SuffixGrows
<1>6. IsEviction(HeardChunks, first - 1)
  <2>1. first - 1 = n - 1 \/ TotalDuration(Suffix(HeardChunks, first - 1)) <= History
    BY <1>1, <1>3, <1>4 DEF Suffix
  <2>2. ASSUME NEW k \in 0..((first - 1) - 1)
        PROVE  TotalDuration(Suffix(HeardChunks, k)) > History
    <3>1. k + 1 \in 1..n /\ k + 1 < first /\ k \in 0..n
      BY <1>4
    <3>2. k + 1 \notin fitting
      <4> HIDE DEF fitting
      <4> QED
        BY <1>3, <1>4, <3>1
    <3>3. ~(TotalDuration(Suffix(HeardChunks, k)) <= History)
      BY <1>1, <3>1, <3>2 DEF Suffix
    <3> QED
      BY <1>5, <3>1, <3>3, AnalysisAssumption
  <2> QED
    BY <1>1, <1>4, <2>1, <2>2 DEF IsEviction
<1>7. RecentChunks = Suffix(HeardChunks, first - 1)
  BY <1>1, <1>2, <1>4 DEF Suffix
<1>8. ASSUME NEW g, IsEviction(HeardChunks, g) PROVE g = first - 1
  BY <1>1, <1>5, <1>6, <1>8, EvictionIsUnique
<1> QED
  BY <1>6, <1>7, <1>8

\* The levels last as long as the chunks they were measured in.
LEMMA LevelsLast ==
  ASSUME NEW chunks \in Seq(Chunks)
  PROVE  /\ LevelsOf(chunks) \in Seq(Measured) /\ Len(LevelsOf(chunks)) = Len(chunks)
         /\ \A k \in 0..Len(chunks) :
              /\ Suffix(LevelsOf(chunks), k) = LevelsOf(Suffix(chunks, k))
              /\ TotalDuration(Suffix(LevelsOf(chunks), k)) = TotalDuration(Suffix(chunks, k))
         /\ \A g : IsEviction(LevelsOf(chunks), g) <=> IsEviction(chunks, g)
<1> DEFINE n == Len(chunks)
           levels == LevelsOf(chunks)
<1>1. n \in Nat /\ DOMAIN chunks = 1..n /\ \A i \in 1..n : chunks[i] \in Chunks
  OBVIOUS
<1>2. levels = [i \in 1..n |-> LevelOf(chunks[i])]
      /\ \A i \in 1..n : LevelOf(chunks[i]) \in Measured
  BY <1>1, Durable DEF LevelsOf
<1>3. levels \in Seq(Measured) /\ Len(levels) = n
  BY <1>1, <1>2
<1> HIDE DEF levels
<1>4. ASSUME NEW k \in 0..n
      PROVE  /\ Suffix(levels, k) = LevelsOf(Suffix(chunks, k))
             /\ TotalDuration(Suffix(levels, k)) = TotalDuration(Suffix(chunks, k))
  <2> DEFINE l == Suffix(levels, k)
             c == Suffix(chunks, k)
             m == n - k
  <2>1. m \in Nat /\ k \in Nat /\ \A i \in 1..m : i + k \in 1..n
    BY <1>1
  <2>2. /\ c \in Seq(Chunks) /\ Len(c) = m
        /\ \A i \in 1..m : c[i] = chunks[i + k]
    BY SuffixType
  <2>3. /\ l \in Seq(Measured) /\ Len(l) = m
        /\ \A i \in 1..m : l[i] = levels[i + k]
    BY <1>3, SuffixType
  <2> HIDE DEF l, c, m
  <2>4. \A i \in 1..m : l[i] = LevelOf(c[i])
    BY <1>2, <2>1, <2>2, <2>3
  <2>5. l = [i \in 1..m |-> l[i]] /\ DOMAIN c = 1..m
    BY <2>1, <2>2, <2>3
  <2>6. l = LevelsOf(c)
    BY <2>4, <2>5 DEF LevelsOf
  <2>7. SameDurations(l, c, m)
    <3>1. \A i \in 1..m : c[i] \in Chunks
      BY <2>1, <2>2
    <3> QED
      BY <2>4, <3>1, Durable DEF SameDurations
  <2>8. TotalDuration(l) = TotalDuration(c)
    BY <2>1, <2>2, <2>3, <2>7, TotalSame
  <2> QED
    BY <2>6, <2>8 DEF l, c
<1>5. \A g : IsEviction(levels, g) <=> IsEviction(chunks, g)
  <2> TAKE g
  <2>1. CASE g \in 0..(n - 1)
    <3>1. g \in 0..n /\ \A k \in 0..(g - 1) : k \in 0..n
      BY <1>1, <2>1
    <3> QED
      BY <1>3, <1>4, <3>1 DEF IsEviction
  <2>2. CASE g \notin 0..(n - 1)
    BY <1>3, <2>2 DEF IsEviction
  <2> QED
    BY <2>1, <2>2
<1> QED
  BY <1>3, <1>4, <1>5 DEF levels

\* A new analyzer has heard nothing.
FreshIsGood ==
  heard = <<>> => \A config \in {"configured", "default"} : Follows(NewAnalyzer(config))

LEMMA FreshFollows == FreshIsGood
<1> SUFFICES ASSUME heard = <<>>, NEW config \in {"configured", "default"}
             PROVE  Follows(NewAnalyzer(config))
  BY DEF FreshIsGood
<1> DEFINE a == NewAnalyzer(config)
<1>1. /\ a.buffer = <<>> /\ a.levels = <<>> /\ a.bufferDuration = 0
      /\ a.levelsDuration = 0 /\ a.candidate = None /\ a.config = config
  BY DEF NewAnalyzer
<1>2. a \in Analyzers
  BY DEF NewAnalyzer, Analyzers
<1>3. HeardChunks = <<>> /\ RecentChunks = <<>>
  BY DEF HeardChunks, RecentChunks, RecentOf
<1>4. LevelsOf(<<>>) = <<>>
  BY DEF LevelsOf
<1>5. Start(<<>>) > Len(<<>>)
  <2>1. {i \in DOMAIN <<>> : ~Loud(<<>>, i)} \cup {0} = {0}
    OBVIOUS
  <2>2. Max({0}) \in {0}
    BY MaxOf
  <2> QED
    BY <2>1, <2>2 DEF Start
<1>6. IsRun(HeardChunks, a.candidate)
  BY <1>1, <1>3, <1>5 DEF IsRun
<1> QED
  BY <1>1, <1>2, <1>3, <1>4, <1>6, TotalEmpty DEF Follows

LEMMA CurrentFollows == AnalyzerInv => Follows(Current)
  BY FreshFollows DEF AnalyzerInv, Current, FreshIsGood

\* The run of loud chunks goes on with a loud one and ends with a quiet one.
LEMMA LoudRunGrows ==
  ASSUME NEW chunks \in Seq(Chunks), NEW chunk \in Chunks, NEW longer,
         longer = Append(chunks, chunk)
  PROVE  /\ Start(chunks) \in 1..(Len(chunks) + 1)
         /\ Loud(longer, Len(chunks) + 1) => Start(longer) = Start(chunks)
         /\ ~Loud(longer, Len(chunks) + 1) => Start(longer) = Len(chunks) + 2
<1> DEFINE n == Len(chunks)
           quiet == {i \in DOMAIN chunks : ~Loud(chunks, i)} \cup {0}
           later == {i \in DOMAIN longer : ~Loud(longer, i)} \cup {0}
<1>1. n \in Nat /\ DOMAIN chunks = 1..n /\ Len(longer) = n + 1
      /\ DOMAIN longer = 1..(n + 1) /\ longer[n + 1] = chunk
      /\ \A i \in 1..n : longer[i] = chunks[i]
  OBVIOUS
<1>2. \A i \in 1..n : Loud(longer, i) <=> Loud(chunks, i)
  <2>1. \A i \in 1..n : SubSeq(longer, 1, i) = SubSeq(chunks, 1, i)
    BY <1>1
  <2> QED
    BY <1>1, <2>1 DEF Loud
<1>3. quiet \in SUBSET Nat /\ quiet # {} /\ \A i \in quiet : i <= n
  BY <1>1
<1>4. Max(quiet) \in quiet /\ \A i \in quiet : i <= Max(quiet)
  <2> HIDE DEF quiet
  <2> QED
    BY <1>1, <1>3, MaxOf
<1>5. Start(chunks) = Max(quiet) + 1 /\ Start(longer) = Max(later) + 1
  BY DEF Start
<1>6. Start(chunks) \in 1..(n + 1)
  <2>1. n \in Nat
    BY <1>1
  <2>2. Max(quiet) \in Nat /\ Max(quiet) <= n
    <3> HIDE DEF quiet, n
    <3> QED
      BY <1>3, <1>4
  <2> HIDE DEF quiet, later, n
  <2> QED
    BY <1>5, <2>1, <2>2
<1>7. Loud(longer, n + 1) => later = quiet
  BY <1>1, <1>2
<1>8. ~Loud(longer, n + 1) => later = quiet \cup {n + 1}
  BY <1>1, <1>2
<1> HIDE DEF later
<1>9. ASSUME ~Loud(longer, n + 1) PROVE Max(later) = n + 1
  <2>1. later \in SUBSET Nat /\ later # {} /\ n + 1 \in Nat /\ n + 1 \in later
        /\ \A i \in later : i <= n + 1
    <3>1. n \in Nat /\ later = quiet \cup {n + 1}
      BY <1>1, <1>8, <1>9
    <3> HIDE DEF quiet, n
    <3> QED
      BY <1>3, <3>1
  <2> HIDE DEF quiet, n
  <2>2. Max(later) \in later /\ \A i \in later : i <= Max(later)
    BY ONLY <2>1, MaxOf
  <2>3. Max(later) \in Nat /\ Max(later) <= n + 1 /\ n + 1 <= Max(later)
    BY ONLY <2>1, <2>2
  <2> QED
    BY <2>1, <2>3
<1> HIDE DEF quiet
<1> QED
  BY <1>1, <1>5, <1>6, <1>7, <1>9

\* A baseline looks at the levels only.
LEMMA SameBaseline ==
  ASSUME NEW chunks \in Seq(Chunks)
  PROVE  Baseline(LevelsOf(chunks)) = Baseline(chunks)
<1> DEFINE levels == LevelsOf(chunks)
<1>1. DOMAIN levels = DOMAIN chunks /\ Len(levels) = Len(chunks)
  BY LevelsLast DEF LevelsOf
<1>2. \A i \in DOMAIN chunks : levels[i].level = chunks[i].level
  BY DEF LevelsOf, LevelOf
<1> HIDE DEF levels
<1>3. {levels[i].level : i \in DOMAIN levels} = {chunks[i].level : i \in DOMAIN chunks}
  BY <1>1, <1>2
<1>4. \A x : /\ {i \in DOMAIN levels : levels[i].level < x}
                  = {i \in DOMAIN chunks : chunks[i].level < x}
             /\ {i \in DOMAIN levels : levels[i].level <= x}
                  = {i \in DOMAIN chunks : chunks[i].level <= x}
  BY <1>1, <1>2
<1>5. Baseline(levels) = Baseline(chunks)
  BY <1>1, <1>3, <1>4 DEF Baseline
<1> QED
  BY <1>5 DEF levels

\* The code's test on the analyzer that has taken the chunk in says what was
\* loud among all that was heard.
LEMMA LoudIsAboveBaseline ==
  ASSUME NEW chunks \in Seq(Chunks), NEW chunk \in Chunks, NEW longer,
         longer = Append(chunks, chunk), NEW a \in Analyzers,
         a.buffer = RecentOf(longer), a.levels = LevelsOf(a.buffer),
         a.levelsDuration = TotalDuration(a.levels)
  PROVE  AboveBaseline(a, chunk) <=> Loud(longer, Len(chunks) + 1)
<1>1. longer[Len(chunks) + 1] = chunk /\ SubSeq(longer, 1, Len(chunks) + 1) = longer
  OBVIOUS
<1>2. a.buffer \in Seq(Chunks)
  BY DEF Analyzers
<1>3. Baseline(a.levels) = Baseline(a.buffer)
  BY <1>2, SameBaseline
<1>4. TotalDuration(a.levels) = TotalDuration(a.buffer)
  <2>1. SameDurations(LevelsOf(a.buffer), a.buffer, Len(a.buffer))
    BY <1>2, Durable DEF LevelsOf, SameDurations
  <2> QED
    BY <1>2, <2>1, LevelsLast, TotalSame
<1> QED
  BY <1>1, <1>3, <1>4 DEF AboveBaseline, BaselineReady, Loud

\* Buffer and loudness history after one more chunk.
LEMMA BufferFollows ==
  ASSUME heard \in Seq(Heard), NEW a, Follows(a), NEW chunk \in Chunks, NEW h \in Heard,
         h.chunk = chunk, heard' = Append(heard, h)
  PROVE  LET b == AppendLevel(AppendChunk(a, chunk), chunk)
         IN  /\ b \in Analyzers /\ b.candidate = a.candidate
             /\ b.buffer = RecentChunks'
             /\ b.levels = LevelsOf(b.buffer)
             /\ b.bufferDuration = TotalDuration(b.buffer)
             /\ b.levelsDuration = TotalDuration(b.levels)
             /\ \E g : IsEviction(Append(a.buffer, chunk), g)
                      /\ b.buffer = Suffix(Append(a.buffer, chunk), g)
<1> DEFINE all == Append(a.buffer, chunk)
           m == LevelOf(chunk)
           allLevels == Append(a.levels, m)
           kept == Retain(a.buffer, a.bufferDuration, chunk)
           keptLevels == Retain(a.levels, a.levelsDuration, m)
           b == AppendLevel(AppendChunk(a, chunk), chunk)
<1>1. /\ a \in Analyzers /\ a.buffer \in Seq(Chunks) /\ a.buffer = RecentChunks
      /\ a.levels = LevelsOf(a.buffer) /\ a.levels \in Seq(Measured) /\ m \in Measured
      /\ a.bufferDuration = TotalDuration(a.buffer)
      /\ a.levelsDuration = TotalDuration(a.levels)
  BY Durable DEF Follows, Analyzers, Measured
<1>2. b = [a EXCEPT !.buffer = kept.items, !.bufferDuration = kept.duration,
                    !.levels = keptLevels.items, !.levelsDuration = keptLevels.duration]
  BY <1>1 DEF AppendLevel, AppendChunk, Analyzers, LevelOf
<1>3. PICK g : /\ IsEviction(all, g) /\ kept.items = Suffix(all, g)
               /\ kept.items \in Seq(Chunks) /\ kept.duration = TotalDuration(kept.items)
               /\ kept.duration \in Nat
  <2>1. \A t \in Chunks : t.duration \in Nat
    BY Durable
  <2> HIDE DEF kept
  <2> QED
    BY <1>1, <2>1, RetainEvicts DEF kept
<1>4. PICK l : /\ IsEviction(allLevels, l) /\ keptLevels.items = Suffix(allLevels, l)
               /\ keptLevels.items \in Seq(Measured)
               /\ keptLevels.duration = TotalDuration(keptLevels.items)
               /\ keptLevels.duration \in Nat
  <2>1. \A t \in Measured : t.duration \in Nat
    BY Durable
  <2> HIDE DEF keptLevels, m
  <2> QED
    BY <1>1, <2>1, RetainEvicts DEF keptLevels
<1> HIDE DEF kept, keptLevels
<1>5. all \in Seq(Chunks) /\ Len(all) = Len(a.buffer) + 1 /\ Len(a.buffer) \in Nat
      /\ all[Len(a.buffer) + 1] = chunk
      /\ \A i \in 1..Len(a.buffer) : all[i] = a.buffer[i]
  BY <1>1
<1>6. allLevels = LevelsOf(all)
  <2> DEFINE n == Len(a.buffer)
  <2>1. Len(a.levels) = n /\ \A i \in 1..n : a.levels[i] = LevelOf(a.buffer[i])
    BY <1>1, LevelsLast DEF LevelsOf
  <2>2. allLevels = [i \in 1..(n + 1) |-> IF i = n + 1 THEN m ELSE a.levels[i]]
    <3>1. Len(a.levels) = n /\ n \in Nat /\ a.levels \in Seq(Measured) /\ m \in Measured
      BY <1>1, <2>1
    <3> HIDE DEF m, n
    <3> QED
      BY <3>1
  <2>3. LevelsOf(all) = [i \in 1..(n + 1) |-> LevelOf(all[i])]
    <3> HIDE DEF all
    <3> QED
      BY <1>5 DEF LevelsOf
  <2>4. \A i \in 1..(n + 1) : LevelOf(all[i]) = IF i = n + 1 THEN m ELSE a.levels[i]
    <3> HIDE DEF all
    <3> QED
      BY <1>5, <2>1
  <2> QED
    BY <2>2, <2>3, <2>4
<1> HIDE DEF all, allLevels
<1>7. g = l
  <2>1. IsEviction(all, l)
    BY <1>4, <1>5, <1>6, LevelsLast
  <2>2. \A k \in 0..Len(all) : TotalDuration(Suffix(all, k)) \in Nat
    BY <1>5, Durable, SuffixGrows
  <2>3. Len(all) \in Nat
    BY <1>5
  <2> QED
    BY <1>3, <2>1, <2>2, <2>3, EvictionIsUnique
<1>8. keptLevels.items = LevelsOf(kept.items)
  <2>1. g \in 0..Len(all)
    BY <1>3, <1>5 DEF IsEviction
  <2> QED
    BY <1>3, <1>4, <1>5, <1>6, <1>7, <2>1, LevelsLast
<1>9. kept.items = RecentChunks'
  <2>1. HeardChunks \in Seq(Chunks) /\ HeardChunks' = Append(HeardChunks, chunk)
        /\ (heard = <<>> <=> HeardChunks = <<>>)
    BY HeardChunksType, HeardChunksGrow
  <2>2. heard' \in Seq(Heard) /\ heard' # <<>>
    OBVIOUS
  <2>3. \A e : IsEviction(HeardChunks', e) => RecentChunks' = Suffix(HeardChunks', e)
    <3>1. (heard \in Seq(Heard) /\ heard # <<>> =>
             /\ \E e : IsEviction(HeardChunks, e)
             /\ \A e : IsEviction(HeardChunks, e) => RecentChunks = Suffix(HeardChunks, e))'
      BY RecentIsEviction, PTL
    <3> QED
      BY <2>2, <3>1
  <2>4. CASE heard = <<>>
    <3>1. RecentChunks = <<>>
      BY <2>1, <2>4 DEF RecentChunks, RecentOf
    <3>2. all = HeardChunks'
      BY <1>1, <2>1, <2>4, <3>1 DEF all
    <3> QED
      BY <1>3, <2>3, <3>2
  <2>5. CASE heard # <<>>
    <3>1. PICK e : IsEviction(HeardChunks, e) /\ RecentChunks = Suffix(HeardChunks, e)
      BY <2>5, RecentIsEviction
    <3>2. all = Append(Suffix(HeardChunks, e), chunk)
      BY <1>1, <3>1 DEF all
    <3>3. /\ IsEviction(HeardChunks', e + g)
          /\ Suffix(HeardChunks', e + g) = Suffix(all, g)
      <4>1. \A t \in Chunks : t.duration \in Nat
        BY Durable
      <4> DEFINE s == HeardChunks
                 u == HeardChunks'
      <4>2. /\ s \in Seq(Chunks) /\ u = Append(s, chunk) /\ IsEviction(s, e)
            /\ IsEviction(Append(Suffix(s, e), chunk), g) /\ chunk \in Chunks
        BY <1>3, <2>1, <3>1, <3>2
      <4> HIDE DEF s, u
      <4>3. IsEviction(u, e + g) /\ Suffix(u, e + g) = Suffix(Append(Suffix(s, e), chunk), g)
        BY ONLY <4>1, <4>2, RecentGrows
      <4> QED
        BY <3>2, <4>3 DEF s, u
    <3> QED
      BY <1>3, <2>3, <3>3
  <2> QED
    BY <2>4, <2>5
<1>10. b \in Analyzers
  BY <1>1, <1>2, <1>3, <1>4 DEF Analyzers, Measured
<1>11. /\ b.buffer = kept.items /\ b.bufferDuration = kept.duration
       /\ b.levels = keptLevels.items /\ b.levelsDuration = keptLevels.duration
       /\ b.candidate = a.candidate
  BY <1>1, <1>2 DEF Analyzers
<1> HIDE DEF b
<1> QED
  BY <1>2, <1>3, <1>4, <1>8, <1>9, <1>10, <1>11 DEF b, all

\* The update of the candidate prolongs the run of loud chunks, starts one or
\* ends it.
LEMMA CandidateStep ==
  ASSUME NEW chunks \in Seq(Chunks), NEW chunk \in Chunks, NEW longer,
         longer = Append(chunks, chunk), NEW a \in Analyzers,
         IsRun(chunks, a.candidate),
         AboveBaseline(a, chunk) <=> Loud(longer, Len(chunks) + 1)
  PROVE  /\ UpdateCandidate(a, chunk) = [a EXCEPT !.candidate = UpdateCandidate(a, chunk).candidate]
         /\ UpdateCandidate(a, chunk) \in Analyzers
         /\ IsRun(longer, UpdateCandidate(a, chunk).candidate)
<1> DEFINE n == Len(chunks)
           b == UpdateCandidate(a, chunk)
           new == [stream |-> chunk.stream, first |-> chunk.sequence, last |-> chunk.sequence]
<1>1. a.candidate \in Candidates \cup {None}
  BY DEF Analyzers
<1>2. new \in Candidates /\ \A c \in Candidates : [c EXCEPT !.last = chunk.sequence] \in Candidates
  BY DEF Candidates, Chunks
<1>3. /\ b = [a EXCEPT !.candidate = b.candidate]
      /\ ~AboveBaseline(a, chunk) => b.candidate = None
      /\ AboveBaseline(a, chunk) /\ a.candidate = None => b.candidate = new
      /\ AboveBaseline(a, chunk) /\ a.candidate # None =>
           b.candidate = [a.candidate EXCEPT !.last = chunk.sequence]
  BY DEF UpdateCandidate, Analyzers
<1>4. b.candidate \in Candidates \cup {None}
  BY <1>1, <1>2, <1>3
<1>5. b \in Analyzers
  BY <1>3, <1>4 DEF Analyzers
<1>6. /\ Start(chunks) \in 1..(n + 1)
      /\ AboveBaseline(a, chunk) => Start(longer) = Start(chunks)
      /\ ~AboveBaseline(a, chunk) => Start(longer) = n + 2
  BY LoudRunGrows
<1>7. n \in Nat /\ Len(longer) = n + 1 /\ longer[n + 1] = chunk
      /\ \A i \in 1..n : longer[i] = chunks[i]
  OBVIOUS
<1>8. CASE ~AboveBaseline(a, chunk)
  <2>1. Start(longer) > Len(longer)
    BY <1>6, <1>7, <1>8
  <2> QED
    BY <1>3, <1>5, <1>8, <2>1 DEF IsRun
<1>9. CASE AboveBaseline(a, chunk)
  <2>1. Start(longer) = Start(chunks)
    BY <1>6, <1>9
  <2>2. CASE Start(chunks) > n
    <3>1. a.candidate = None /\ Start(chunks) = n + 1
      BY <1>6, <1>7, <2>2 DEF IsRun
    <3>2. b.candidate = new
      BY <1>3, <1>9, <3>1
    <3>3. ~(Start(longer) > Len(longer)) /\ longer[Start(longer)] = chunk
          /\ longer[Len(longer)] = chunk
      BY <1>7, <2>1, <3>1
    <3>4. IsRun(longer, b.candidate)
      BY <3>2, <3>3 DEF IsRun
    <3> QED
      BY <1>3, <1>5, <3>4
  <2>3. CASE ~(Start(chunks) > n)
    <3>1. a.candidate = [stream |-> chunks[Start(chunks)].stream,
                         first |-> chunks[Start(chunks)].sequence,
                         last |-> chunks[n].sequence]
      BY <2>3 DEF IsRun
    <3>2. Start(chunks) \in 1..n
      BY <1>6, <1>7, <2>3
    <3>3. a.candidate # None
      <4>1. chunks[Start(chunks)] \in Chunks /\ chunks[n] \in Chunks
        BY <1>7, <3>2
      <4>2. \A x, y \in Chunks : [stream |-> x.stream, first |-> x.sequence,
                                 last |-> y.sequence] \in Candidates
        BY DEF Chunks, Candidates
      <4>3. a.candidate \in Candidates
        BY <3>1, <4>1, <4>2
      <4> QED
        BY <4>3, NoneAssumption
    <3>4. b.candidate = [stream |-> chunks[Start(chunks)].stream,
                         first |-> chunks[Start(chunks)].sequence,
                         last |-> chunk.sequence]
      BY <1>3, <1>9, <3>1, <3>3
    <3>5. ~(Start(longer) > Len(longer)) /\ longer[Start(longer)] = chunks[Start(chunks)]
          /\ longer[Len(longer)] = chunk
      BY <1>7, <2>1, <3>2
    <3>6. IsRun(longer, b.candidate)
      BY <3>4, <3>5 DEF IsRun
    <3> QED
      BY <1>3, <1>5, <3>6
  <2> QED
    BY <2>2, <2>3
<1> QED
  BY <1>8, <1>9

\* One more chunk that is taken in, whatever becomes of its files.
LEMMA TakeInFollows ==
  ASSUME AnalyzerInv, NEW chunk \in Chunks, NEW stored \in BOOLEAN, TakeIn(chunk, stored)
  PROVE  /\ AnalyzerInv' /\ analyzer' # None
         /\ \E g : /\ IsEviction(Append(Current.buffer, chunk), g)
                  /\ analyzer'.buffer = Suffix(Append(Current.buffer, chunk), g)
<1> DEFINE a == Current
           b == AppendLevel(AppendChunk(a, chunk), chunk)
           c == UpdateCandidate(b, chunk)
           h == [chunk |-> chunk, stored |-> stored]
<1>1. heard \in Seq(Heard) /\ Follows(a)
  BY CurrentFollows DEF AnalyzerInv
<1>2. analyzer' = c /\ heard' = Append(heard, h)
  BY DEF TakeIn, Analyze
<1>3. h \in Heard /\ h.chunk = chunk
  BY DEF Heard
<1> HIDE DEF a, h
<1>4. /\ b \in Analyzers /\ b.candidate = a.candidate
      /\ b.buffer = RecentChunks'
      /\ b.levels = LevelsOf(b.buffer)
      /\ b.bufferDuration = TotalDuration(b.buffer)
      /\ b.levelsDuration = TotalDuration(b.levels)
      /\ \E g : IsEviction(Append(a.buffer, chunk), g)
               /\ b.buffer = Suffix(Append(a.buffer, chunk), g)
  BY <1>1, <1>2, <1>3, BufferFollows
<1> HIDE DEF b
<1>5. IsRun(HeardChunks, b.candidate)
  BY <1>1, <1>4 DEF Follows
<1>6. c = [b EXCEPT !.candidate = c.candidate] /\ c \in Analyzers
      /\ IsRun(HeardChunks', c.candidate)
  <2>1. HeardChunks \in Seq(Chunks) /\ HeardChunks' = Append(HeardChunks, chunk)
    BY <1>1, <1>2, <1>3, HeardChunksType, HeardChunksGrow
  <2>2. b.buffer = RecentOf(HeardChunks')
    BY <1>4 DEF RecentChunks
  <2> DEFINE s == HeardChunks
             u == HeardChunks'
  <2>3. /\ s \in Seq(Chunks) /\ u = Append(s, chunk) /\ b.buffer = RecentOf(u)
        /\ IsRun(s, b.candidate)
    BY <1>5, <2>1, <2>2
  <2> HIDE DEF s, u, c
  <2>4. AboveBaseline(b, chunk) <=> Loud(u, Len(s) + 1)
    BY ONLY <1>4, <2>3, LoudIsAboveBaseline, chunk \in Chunks
  <2>5. /\ UpdateCandidate(b, chunk) = [b EXCEPT !.candidate = UpdateCandidate(b, chunk).candidate]
        /\ UpdateCandidate(b, chunk) \in Analyzers
        /\ IsRun(u, UpdateCandidate(b, chunk).candidate)
    <3>1. b \in Analyzers
      BY <1>4
    <3> QED
      BY ONLY <2>3, <2>4, <3>1, CandidateStep, chunk \in Chunks
  <2> QED
    BY <2>5 DEF u, c
<1> HIDE DEF c
<1>7. /\ c.buffer = b.buffer /\ c.levels = b.levels
      /\ c.bufferDuration = b.bufferDuration /\ c.levelsDuration = b.levelsDuration
  <2>1. \A x : LET y == [b EXCEPT !.candidate = x]
               IN  /\ y.buffer = b.buffer /\ y.levels = b.levels
                   /\ y.bufferDuration = b.bufferDuration /\ y.levelsDuration = b.levelsDuration
    BY <1>4 DEF Analyzers
  <2> QED
    BY <1>6, <2>1
<1>8. Follows(analyzer)'
  BY <1>2, <1>4, <1>6, <1>7 DEF Follows
<1>9. heard' \in Seq(Heard) /\ analyzer' # None
  BY <1>1, <1>2, <1>3, <1>6, NoneAssumption
<1> QED
  BY <1>2, <1>4, <1>7, <1>8, <1>9 DEF AnalyzerInv, a

LEMMA AnalyzerInit == Init => AnalyzerInv
<1> SUFFICES ASSUME Init PROVE AnalyzerInv
  OBVIOUS
<1>1. heard = <<>> /\ analyzer = None
  BY DEF Init
<1>2. heard \in Seq(Heard)
  BY <1>1
<1> QED
  BY <1>1, <1>2 DEF AnalyzerInv

\* What a step does to the analyzer.
LEMMA AnalyzerNext ==
  ASSUME AnalyzerInv, [Next]_vars
  PROVE  AnalyzerInv'
<1>1. ASSUME NEW config \in {"configured", "default"},
             analyzer' = NewAnalyzer(config), heard' = <<>>
      PROVE  AnalyzerInv'
  <2>1. FreshIsGood'
    BY FreshFollows, PTL
  <2>2. \A x \in {"configured", "default"} : Follows(NewAnalyzer(x))'
    BY <1>1, <2>1 DEF FreshIsGood
  <2>3. Follows(analyzer)' /\ heard' \in Seq(Heard)
    BY <1>1, <2>2 DEF Follows
  <2>4. analyzer' # None
    BY <2>3, NoneAssumption DEF Follows
  <2> QED
    BY <2>3, <2>4 DEF AnalyzerInv
<1>2. ASSUME NEW stream \in Streams, HelloWithAudio(stream) PROVE AnalyzerInv'
  BY <1>1, <1>2 DEF HelloWithAudio
<1>3. CASE HelloWithoutAudio
  <2>1. analyzer' = None /\ heard' = <<>> /\ heard' \in Seq(Heard)
    BY <1>3 DEF HelloWithoutAudio
  <2> QED
    BY <2>1 DEF AnalyzerInv
<1>4. ASSUME NEW chunk \in Chunks, AcceptChunk(chunk) PROVE AnalyzerInv'
  BY <1>4, TakeInFollows DEF AcceptChunk
<1>5. ASSUME NEW chunk \in Chunks, WriteFails(chunk) PROVE AnalyzerInv'
  BY <1>5, TakeInFollows DEF WriteFails
<1>6. CASE analyzer' = Current /\ heard' = heard
  <2>1. CASE analyzer = None
    <3>1. analyzer' = NewAnalyzer("default") /\ heard' = <<>>
      BY <1>6, <2>1 DEF AnalyzerInv, Current
    <3> QED
      BY <1>1, <3>1
  <2>2. CASE analyzer # None
    <3>1. analyzer' = analyzer
      BY <1>6, <2>2 DEF Current
    <3> QED
      BY <1>6, <3>1 DEF AnalyzerInv, Follows, RecentChunks, RecentOf, HeardChunks
  <2> QED
    BY <2>1, <2>2
<1>7. ASSUME NEW chunk \in Chunks, AnalysisFails(chunk) PROVE AnalyzerInv'
  BY <1>6, <1>7 DEF AnalysisFails
<1>8. CASE UNCHANGED vars
  BY <1>8 DEF vars, AnalyzerInv, Follows, RecentChunks, HeardChunks
<1> QED
  BY <1>2, <1>3, <1>4, <1>5, <1>7, <1>8 DEF Next, Hello, AudioChunk

LEMMA AnalyzerInvariance == Spec => []AnalyzerInv
  BY AnalyzerInit, AnalyzerNext, PTL DEF Spec

\* The ring buffer is exactly the longest end of what was heard that fits into the
\* history, and the loudness history, with its own eviction, is that of the same
\* chunks: for every sequence of chunks, however long they are.
THEOREM BufferKeepsRecent == Spec => []BufferIsRecent
<1>1. AnalyzerInv => BufferIsRecent
  <2> SUFFICES ASSUME AnalyzerInv, analyzer # None
               PROVE  /\ analyzer.buffer = RecentChunks
                      /\ analyzer.levels = LevelsOf(RecentChunks)
                      /\ analyzer.bufferDuration = analyzer.levelsDuration
    BY DEF BufferIsRecent, LevelsOf
  <2>1. Follows(analyzer)
    BY DEF AnalyzerInv
  <2>2. analyzer.buffer \in Seq(Chunks)
    BY <2>1 DEF Follows, Analyzers
  <2>3. TotalDuration(LevelsOf(analyzer.buffer)) = TotalDuration(analyzer.buffer)
    <3>1. \A i \in 1..Len(analyzer.buffer) :
            LevelsOf(analyzer.buffer)[i].duration = analyzer.buffer[i].duration
      BY <2>2, Durable DEF LevelsOf
    <3>2. SameDurations(LevelsOf(analyzer.buffer), analyzer.buffer, Len(analyzer.buffer))
      BY <3>1 DEF SameDurations
    <3> QED
      BY <2>2, <3>2, LevelsLast, TotalSame
  <2> QED
    BY <2>1, <2>3 DEF Follows
<1> QED
  BY <1>1, AnalyzerInvariance, PTL

\* The active candidate is the unbroken run of loud chunks up to the last one,
\* with loudness taken from what was heard: for every sequence of chunks, every
\* history, warm-up, percentile and trigger.
THEOREM CandidateIsRun == Spec => []CandidateIsLoudRun
<1>1. AnalyzerInv => CandidateIsLoudRun
  <2> SUFFICES ASSUME AnalyzerInv, analyzer # None, heard # <<>> PROVE CandidateIsLoudRun
    BY DEF CandidateIsLoudRun
  <2>1. IsRun(HeardChunks, analyzer.candidate)
    BY DEF AnalyzerInv, Follows
  <2>2. Len(HeardChunks) = Len(heard) /\ DOMAIN HeardChunks = DOMAIN heard
    BY HeardChunksType DEF AnalyzerInv, HeardChunks
  <2> QED
    BY <2>1, <2>2 DEF IsRun, Start, CandidateIsLoudRun
<1> QED
  BY <1>1, AnalyzerInvariance, PTL

\* The duration of an end and of the same end without its first item.
LEMMA SuffixShrinks ==
  ASSUME NEW T, \A t \in T : t.duration \in Nat, NEW items \in Seq(T),
         NEW k \in Nat, k < Len(items)
  PROVE  /\ items[k + 1] \in T
         /\ TotalDuration(Suffix(items, k)) =
              items[k + 1].duration + TotalDuration(Suffix(items, k + 1))
         /\ TotalDuration(Suffix(items, k + 1)) \in Nat
<1> DEFINE n == Len(items)
           front == TotalDuration(SubSeq(items, 1, k))
           longer == TotalDuration(SubSeq(items, 1, k + 1))
           whole == TotalDuration(items)
           end1 == TotalDuration(Suffix(items, k))
           end2 == TotalDuration(Suffix(items, k + 1))
           d == items[k + 1].duration
<1>1. n \in Nat /\ k \in 0..n /\ k + 1 \in 0..n /\ items[k + 1] \in T
  OBVIOUS
<1>2. whole = front + end1 /\ front \in Nat /\ end1 \in Nat
  BY <1>1, TotalSplit DEF Suffix
<1>3. whole = longer + end2 /\ longer \in Nat /\ end2 \in Nat
  BY <1>1, TotalSplit DEF Suffix
<1>4. longer = front + d /\ d \in Nat
  <2>1. /\ 1 \in Nat \ {0} /\ k + 1 \in Nat /\ 1 <= k + 1 /\ k + 1 <= n
        /\ (k + 1) - 1 = k
    BY <1>1
  <2>2. /\ SubSeq(items, 1, k) \in Seq(T) /\ items[k + 1] \in T
        /\ SubSeq(items, 1, k + 1) = Append(SubSeq(items, 1, k), items[k + 1])
    BY <2>1, SubSeqGrows
  <2> QED
    BY <2>2, TotalAppend
<1> HIDE DEF front, longer, whole, end1, end2, d
<1>5. end1 = d + end2
  BY <1>2, <1>3, <1>4
<1> QED
  BY <1>1, <1>3, <1>5 DEF end1, end2, d

\* Once the baseline is ready, no eviction takes it back below the warm-up.
THEOREM BaselineIsKept == Spec => BaselineStaysReady
<1> DEFINE Ready == analyzer # None /\ heard # <<>> /\ heard' # <<>>
                    /\ BaselineReady(analyzer)
                    /\ \A d \in Durations : Warmup + d <= History + 1
           Kept == Ready => BaselineReady(analyzer')
<1>1. AnalyzerInv /\ [Next]_vars => [Kept]_vars
  <2> SUFFICES ASSUME AnalyzerInv, [Next]_vars, vars' # vars, Ready
               PROVE  BaselineReady(analyzer')
    BY DEF Kept
  <2>1. ASSUME NEW chunk \in Chunks, NEW stored \in BOOLEAN, TakeIn(chunk, stored)
        PROVE  BaselineReady(analyzer')
    <3> DEFINE all == Append(analyzer.buffer, chunk)
    <3>1. Current = analyzer /\ Follows(analyzer)
      BY DEF Current, AnalyzerInv
    <3>2. PICK g : IsEviction(all, g) /\ analyzer'.buffer = Suffix(all, g)
      BY <2>1, <3>1, TakeInFollows
    <3>3. AnalyzerInv' /\ analyzer' # None
      BY <2>1, TakeInFollows
    <3>4. Follows(analyzer)'
      BY <3>3 DEF AnalyzerInv
    <3>5. ASSUME NEW a, a \in Analyzers, a.levels = LevelsOf(a.buffer),
                 a.levelsDuration = TotalDuration(a.levels)
          PROVE  a.levelsDuration = TotalDuration(a.buffer)
      <4>1. a.buffer \in Seq(Chunks)
        BY <3>5 DEF Analyzers
      <4>2. SameDurations(LevelsOf(a.buffer), a.buffer, Len(a.buffer))
        BY <4>1, Durable DEF LevelsOf, SameDurations
      <4> QED
        BY <3>5, <4>1, <4>2, LevelsLast, TotalSame
    <3>6. analyzer.levelsDuration = TotalDuration(analyzer.buffer)
          /\ analyzer'.levelsDuration = TotalDuration(analyzer'.buffer)
      BY <3>1, <3>4, <3>5 DEF Follows
    <3>7. TotalDuration(analyzer.buffer) >= Warmup
      BY <3>6 DEF BaselineReady
    <3>8. analyzer.buffer \in Seq(Chunks) /\ \A t \in Chunks : t.duration \in Nat
      BY <3>1, Durable DEF Follows, Analyzers
    <3>9. all \in Seq(Chunks) /\ Len(all) \in Nat
      BY <3>8
    <3>10. CASE g = 0
      <4>1. Suffix(all, 0) = all
        <5> HIDE DEF all
        <5> QED
          BY <3>9 DEF Suffix
      <4>2. TotalDuration(all) = TotalDuration(analyzer.buffer) + chunk.duration
        BY <3>8, TotalAppend
      <4>3. TotalDuration(analyzer.buffer) \in Nat /\ chunk.duration \in Nat
        BY <3>8, TotalIsNatural
      <4>4. TotalDuration(analyzer'.buffer) = TotalDuration(all)
        BY <3>2, <3>10, <4>1
      <4>5. Warmup \in Nat
        BY AnalysisAssumption
      <4> HIDE DEF all
      <4> QED
        BY <3>6, <3>7, <4>2, <4>3, <4>4, <4>5 DEF BaselineReady
    <3>11. CASE g # 0
      <4> HIDE DEF all
      <4>1. g - 1 \in Nat /\ g - 1 < Len(all) /\ g - 1 \in 0..(g - 1) /\ (g - 1) + 1 = g
        BY <3>2, <3>9, <3>11 DEF IsEviction
      <4>2. TotalDuration(Suffix(all, g - 1)) > History
        BY <3>2, <4>1 DEF IsEviction
      <4> DEFINE d == all[g].duration
      <4>3. all[g] \in Chunks /\ TotalDuration(Suffix(all, g - 1)) = d + TotalDuration(Suffix(all, g))
            /\ TotalDuration(Suffix(all, g)) \in Nat
        BY <3>8, <3>9, <4>1, SuffixShrinks
      <4>4. d \in Durations /\ d \in Nat /\ Warmup + d <= History + 1
        BY <4>3, Durable
      <4> HIDE DEF d
      <4>5. TotalDuration(Suffix(all, g)) >= Warmup
        BY <4>2, <4>3, <4>4, AnalysisAssumption
      <4> QED
        BY <3>2, <3>6, <4>5 DEF BaselineReady
    <3> QED
      BY <3>10, <3>11
  <2>2. ASSUME NEW chunk \in Chunks, AnalysisFails(chunk) PROVE BaselineReady(analyzer')
    BY <2>2 DEF AnalysisFails, Current
  <2>3. ASSUME NEW stream \in Streams, HelloWithAudio(stream) PROVE FALSE
    BY <2>3 DEF HelloWithAudio
  <2>4. CASE HelloWithoutAudio
    BY <2>4 DEF HelloWithoutAudio
  <2> QED
    BY <2>1, <2>2, <2>3, <2>4 DEF Next, Hello, AudioChunk, AcceptChunk, WriteFails
<1> QED
  BY <1>1, AnalyzerInvariance, PTL DEF Spec, BaselineStaysReady
=============================================================================
