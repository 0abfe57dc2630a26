-------------------------- MODULE CompiledBoxesProofs --------------------------
(***************************************************************************)
(* Observations and compilations with one provider, for any number of      *)
(* threads, compilations and restarts.  The inductive invariant has four   *)
(* parts: Types, what a call holds at its stage; BoxesAreWritten, which    *)
(* files and boxes come from a compilation that was written to the end;    *)
(* Order, where the manifest of the last compilation stands while no two   *)
(* overlap; OneCallAfterTheOther, what a load knows of the active manifest *)
(* while no two calls overlap.                                             *)
(***************************************************************************)
EXTENDS CompiledBoxes, TLAPS

Loading == {"stat", "read", "assign", "remember"}

\* What a thread has when its call stands where it stands.
StageOK(t) ==
  /\ pc[t] # "idle" => provider[t] \in Threads
  /\ pc[t] = "read" => active # Nothing
  /\ pc[t] \in {"decode", "detect"} => call[t] = "observe" /\ ~making[t]
  /\ pc[t] \in {"compile", "open temporary", "write temporary", "replace", "answer"} =>
       call[t] = "compile" /\ ~making[t]
  /\ pc[t] \in {"make", "store"} => making[t]
  /\ pc[t] \in {"open temporary", "write temporary", "replace", "answer"} => mine[t] > 0
  /\ pc[t] \in Loading /\ ~making[t] /\ call[t] = "compile" => mine[t] > 0
  /\ pc[t] = "write temporary" => handle[t] > 0

\* The types, apart from what TypeOK says of stages.
CallTypes ==
  /\ pc \in [Threads -> Stages]
  /\ call \in [Threads -> {"observe", "compile"}]
  /\ making \in [Threads -> BOOLEAN]
  /\ provider \in [Threads -> Threads \cup {Nothing}]
  /\ cached \in Threads \cup {Nothing}

LoadTypes ==
  /\ boxes \in [Threads -> Compilations]
  /\ mtime \in [Threads -> Stamps]
  /\ stamp \in [Threads -> Stamps]
  /\ text \in [Threads -> Compilations]

FileTypes ==
  /\ temporary \in Files \cup {Nothing}
  /\ active \in Files \cup {Nothing}
  /\ file \in [Files -> [by : Compilations, whole : BOOLEAN]]
  /\ handle \in [Threads -> 0..MaxCompiles]
  /\ mine \in [Threads -> Compilations]
  /\ compiled \in Compilations

HistoryTypes ==
  /\ restarts \in 0..MaxRestarts
  /\ written \subseteq Compilations
  /\ concurrent \in BOOLEAN
  /\ overlapped \in BOOLEAN
  /\ answered \in Compilations

Types == CallTypes /\ LoadTypes /\ FileTypes /\ HistoryTypes /\ \A t \in Threads : StageOK(t)

-----------------------------------------------------------------------------
(* Types *)

LEMMA Constants ==
  /\ MaxCompiles \in Nat /\ MaxRestarts \in Nat
  /\ Compilations \subseteq Nat /\ 0 \in Compilations
  /\ Files \subseteq Compilations /\ \A f \in Files : f \in Nat /\ f > 0
  /\ \A n \in Compilations : (n > 0 => n \in Files) /\ n + 1 > 0
  /\ Nothing \notin Threads /\ Nothing \notin Nat
  BY ThreadsAssumption, NothingAssumption DEF Compilations, Files

LEMMA InitTypes == Init => Types
  <1> SUFFICES ASSUME Init PROVE Types
    OBVIOUS
  <1>1. CallTypes
    BY DEF Init, CallTypes, Stages
  <1>2. LoadTypes
    BY Constants DEF Init, LoadTypes, Stamps
  <1>3. FileTypes
    BY Constants DEF Init, FileTypes, Written, Compilations
  <1>4. HistoryTypes
    <2>1. 0 \in 0..MaxRestarts /\ 0 \in Compilations
      BY Constants
    <2>2. concurrent \in BOOLEAN /\ overlapped \in BOOLEAN
      BY DEF Init
    <2>3. restarts = 0 /\ answered = 0 /\ written = {}
      BY DEF Init
    <2> QED BY <2>1, <2>2, <2>3 DEF HistoryTypes
  <1>5. \A t \in Threads : StageOK(t)
    BY DEF Init, StageOK, Loading
  <1> QED BY <1>1, <1>2, <1>3, <1>4, <1>5 DEF Types

\* A call that is over leaves the other calls where they are.
LEMMA Returned ==
  ASSUME Types, NEW t \in Threads, Return(t)
  PROVE  /\ pc'[t] = "idle" /\ making'[t] = FALSE /\ provider'[t] = Nothing
         /\ \A u \in Threads \ {t} :
              /\ pc'[u] = pc[u] /\ call'[u] = call[u] /\ making'[u] = making[u]
              /\ provider'[u] = provider[u] /\ stamp'[u] = stamp[u] /\ text'[u] = text[u]
              /\ handle'[u] = handle[u] /\ mine'[u] = mine[u]
  BY DEF Types, CallTypes, LoadTypes, FileTypes, Return, Go

\* A manifest that is written over in part is no manifest any more.
LEMMA WrittenPart ==
  ASSUME Types, NEW t \in Threads, WritePart(t)
  PROVE  /\ handle[t] \in Files /\ file[handle[t]].whole
         /\ file' \in [Files -> [by : Compilations, whole : BOOLEAN]]
         /\ \A f \in Files : /\ file'[f].by = file[f].by
                             /\ file'[f].whole => file[f].whole
                             /\ f # handle[t] => file'[f] = file[f]
         /\ UNCHANGED <<process, temporary, active, writing, restarts, history>>
  <1>1. handle[t] > 0 /\ handle[t] \in 0..MaxCompiles
    BY DEF Types, StageOK, FileTypes, WritePart
  <1>2. handle[t] \in Files
    BY <1>1, Constants DEF Compilations
  <1>3. file \in [Files -> [by : Compilations, whole : BOOLEAN]]
        /\ file' = [file EXCEPT ![handle[t]].whole = FALSE]
    BY DEF Types, FileTypes, WritePart
  <1>4. /\ file' \in [Files -> [by : Compilations, whole : BOOLEAN]]
        /\ \A f \in Files : /\ file'[f].by = file[f].by
                            /\ file'[f].whole => file[f].whole
                            /\ f # handle[t] => file'[f] = file[f]
    BY <1>2, <1>3
  <1> QED BY <1>2, <1>4 DEF WritePart

LEMMA TypesStep == Types /\ [Next]_vars => Types'
  <1> SUFFICES ASSUME Types, [Next]_vars PROVE Types'
    OBVIOUS
  <1> USE DEF Go
  <1>1. CallTypes'
    <2> USE DEF Types, CallTypes, Stages
    <2>1. ASSUME NEW t \in Threads, Step(t) PROVE CallTypes'
      <3>1. CASE Make(t)
        BY <3>1 DEF Make
      <3>2. CASE Store(t)
        BY <3>2 DEF Store, Entered
      <3>3. CASE Raise(t) \/ Detect(t) \/ AnswerCompile(t)
        BY <3>3 DEF Raise, Detect, AnswerCompile, Return
      <3>4. CASE Stat(t) \/ Read(t) \/ AssignBoxes(t) \/ RememberStamp(t)
        BY <3>4 DEF Stat, Read, AssignBoxes, RememberStamp, Loaded
      <3>5. CASE Decode(t) \/ CompileReferences(t) \/ OpenTemporary(t) \/ WritePart(t)
                 \/ WriteTemporary(t)
        BY <3>5 DEF Decode, CompileReferences, OpenTemporary, WritePart, WriteTemporary, process
      <3>6. CASE Replace(t)
        BY <3>6 DEF Replace, Return
      <3> QED BY <2>1, <3>1, <3>2, <3>3, <3>4, <3>5, <3>6 DEF Step
    <2>2. ASSUME NEW t \in Threads, NEW c \in {"observe", "compile"}, Begin(t, c)
          PROVE  CallTypes'
      BY <2>2 DEF Begin, Found, Entered
    <2>3. CASE Restart
      BY <2>3 DEF Restart
    <2>4. CASE UNCHANGED vars
      BY <2>4 DEF vars, process
    <2> QED BY <2>1, <2>2, <2>3, <2>4 DEF Next
  <1>2. LoadTypes'
    <2> USE DEF Types, LoadTypes
    <2>0. ActiveStamp \in Stamps
      BY DEF ActiveStamp, Stamps, FileTypes
    <2>1. \A f \in Files : Parsed(f) \in Compilations
      BY Constants DEF Parsed, FileTypes
    <2>2. 0 \in Compilations /\ Nothing \in Stamps
      BY Constants DEF Stamps
    <2>3. ASSUME NEW t \in Threads, Step(t) PROVE LoadTypes'
      <3>1. CASE Make(t)
        BY <2>2, <3>1 DEF Make
      <3>2. CASE Store(t) \/ Decode(t) \/ CompileReferences(t) \/ OpenTemporary(t)
                 \/ WritePart(t) \/ WriteTemporary(t)
        BY <3>2 DEF Store, Decode, CompileReferences, OpenTemporary, WritePart, WriteTemporary,
                    process
      <3>3. CASE Raise(t) \/ Detect(t) \/ AnswerCompile(t)
        BY <2>2, <3>3 DEF Raise, Detect, AnswerCompile, Return
      <3>4. CASE Stat(t)
        BY <2>0, <2>2, <3>4 DEF Stat
      <3>5. CASE Read(t)
        <4>1. active \in Files
          BY <3>5 DEF Read, StageOK, FileTypes
        <4> QED BY <2>1, <2>2, <3>5, <4>1 DEF Read
      <3>6. CASE AssignBoxes(t)
        BY <3>6 DEF AssignBoxes
      <3>7. CASE RememberStamp(t)
        BY <3>7 DEF RememberStamp
      <3>8. CASE Replace(t)
        BY <2>2, <3>8 DEF Replace, Return
      <3> QED BY <2>3, <3>1, <3>2, <3>3, <3>4, <3>5, <3>6, <3>7, <3>8 DEF Step
    <2>4. ASSUME NEW t \in Threads, NEW c \in {"observe", "compile"}, Begin(t, c)
          PROVE  LoadTypes'
      BY <2>4 DEF Begin
    <2>5. CASE Restart
      BY <2>2, <2>5 DEF Restart
    <2>6. CASE UNCHANGED vars
      BY <2>6 DEF vars, process
    <2> QED BY <2>3, <2>4, <2>5, <2>6 DEF Next
  <1>3. FileTypes'
    <2> USE DEF Types, FileTypes, files, writing
    <2>1. \A f \in Files : f \in 0..MaxCompiles
      BY Constants DEF Compilations
    <2>2. 0 \in Compilations /\ 0 \in 0..MaxCompiles
      BY Constants DEF Compilations
    <2>3. \A n \in Compilations : Written(n, TRUE) \in [by : Compilations, whole : BOOLEAN]
                                 /\ Written(n, FALSE) \in [by : Compilations, whole : BOOLEAN]
      BY DEF Written
    <2>4. ASSUME NEW t \in Threads, Step(t) PROVE FileTypes'
      <3>1. CASE Make(t) \/ Store(t) \/ Stat(t) \/ Read(t) \/ AssignBoxes(t)
                 \/ RememberStamp(t) \/ Decode(t)
        BY <3>1 DEF Make, Store, Stat, Read, AssignBoxes, RememberStamp, Decode
      <3>2. CASE Raise(t) \/ Detect(t) \/ AnswerCompile(t)
        BY <2>2, <3>2 DEF Raise, Detect, AnswerCompile, Return
      <3>3. CASE CompileReferences(t)
        <4>1. compiled < MaxCompiles /\ compiled \in 0..MaxCompiles /\ MaxCompiles \in Nat
          BY <3>3, Constants DEF CompileReferences, Compilations
        <4>2. compiled + 1 \in Compilations
          BY <4>1 DEF Compilations
        <4> QED BY <3>3, <4>2 DEF CompileReferences
      <3>4. CASE OpenTemporary(t)
        <4> DEFINE f == IF Opened(t) = Nothing THEN mine[t] ELSE Opened(t)
        <4>1. mine[t] \in Files
          BY <3>4, Constants DEF OpenTemporary, StageOK
        <4>2. f \in Files /\ f \in 0..MaxCompiles
          BY <4>1, <2>1 DEF Opened
        <4>3. /\ temporary' \in {f, temporary} /\ handle' = [handle EXCEPT ![t] = f]
              /\ file' = [file EXCEPT ![f] = Written(mine[t], FALSE)]
              /\ UNCHANGED <<active, mine, compiled>>
          BY <3>4 DEF OpenTemporary
        <4> QED BY <2>3, <4>2, <4>3
      <3>5. CASE WriteTemporary(t)
        <4>1. PICK whole \in MayBeWhole(t) :
                     /\ file' = [file EXCEPT ![handle[t]] = Written(mine[t], whole)]
                     /\ UNCHANGED <<temporary, active, handle, mine, compiled>>
          BY <3>5 DEF WriteTemporary
        <4>2. Written(mine[t], whole) \in [by : Compilations, whole : BOOLEAN]
          BY <2>3 DEF MayBeWhole
        <4> QED BY <4>1, <4>2
      <3>6. CASE Replace(t)
        BY <2>2, <3>6 DEF Replace, Return
      <3>7. CASE WritePart(t)
        BY <3>7, WrittenPart
      <3> QED BY <2>4, <3>1, <3>2, <3>3, <3>4, <3>5, <3>6, <3>7 DEF Step
    <2>5. ASSUME NEW t \in Threads, NEW c \in {"observe", "compile"}, Begin(t, c)
          PROVE  FileTypes'
      BY <2>5 DEF Begin
    <2>6. CASE Restart
      BY <2>2, <2>6 DEF Restart
    <2>7. CASE UNCHANGED vars
      BY <2>7 DEF vars
    <2> QED BY <2>4, <2>5, <2>6, <2>7 DEF Next
  <1>4. HistoryTypes'
    <2> USE DEF Types, HistoryTypes, history
    <2>1. ASSUME NEW t \in Threads, Step(t) PROVE HistoryTypes'
      <3>1. CASE Make(t) \/ Store(t) \/ Stat(t) \/ Read(t) \/ AssignBoxes(t)
                 \/ RememberStamp(t) \/ Decode(t) \/ Raise(t) \/ Detect(t)
                 \/ CompileReferences(t) \/ OpenTemporary(t) \/ WritePart(t) \/ Replace(t)
        BY <3>1 DEF Make, Store, Stat, Read, AssignBoxes, RememberStamp, Decode,
                    Raise, Detect, CompileReferences, OpenTemporary, WritePart, Replace
      <3>2. CASE WriteTemporary(t)
        BY <3>2 DEF WriteTemporary, FileTypes
      <3>3. CASE AnswerCompile(t)
        BY <3>3 DEF AnswerCompile, FileTypes
      <3> QED BY <2>1, <3>1, <3>2, <3>3 DEF Step
    <2>2. ASSUME NEW t \in Threads, NEW c \in {"observe", "compile"}, Begin(t, c)
          PROVE  HistoryTypes'
      <3>1. concurrent' \in BOOLEAN /\ overlapped' \in BOOLEAN
        BY <2>2 DEF Begin
      <3> QED BY <2>2, <3>1 DEF Begin
    <2>3. CASE Restart
      <3>1. restarts' \in 0..MaxRestarts
        BY <2>3, Constants DEF Restart
      <3>2. concurrent' \in BOOLEAN
        BY <2>3 DEF Restart
      <3> QED BY <2>3, <3>1, <3>2 DEF Restart
    <2>4. CASE UNCHANGED vars
      BY <2>4 DEF vars
    <2> QED BY <2>1, <2>2, <2>3, <2>4 DEF Next
  <1>5. ASSUME NEW u \in Threads PROVE StageOK(u)'
    <2> USE DEF Types, StageOK, CallTypes, Loading
    <2>1. ASSUME NEW t \in Threads, Step(t) PROVE StageOK(u)'
      <3>1. CASE Make(t)
        BY <3>1 DEF Make, files, writing
      <3>2. CASE Store(t)
        BY <3>2 DEF Store, Entered, files, writing
      <3>3. CASE Raise(t) \/ Detect(t) \/ AnswerCompile(t)
        <4>1. Return(t) /\ active' = active
          BY <3>3 DEF Raise, Detect, AnswerCompile, files
        <4> QED BY <4>1, Returned
      <3>4. CASE Stat(t)
        BY <3>4 DEF Stat, Loaded, files, writing, IsLoaded
      <3>5. CASE Read(t) \/ AssignBoxes(t)
        BY <3>5 DEF Read, AssignBoxes, files, writing
      <3>6. CASE RememberStamp(t)
        BY <3>6 DEF RememberStamp, Loaded, files, writing
      <3>7. CASE Decode(t)
        BY <3>7 DEF Decode, files, writing
      <3>8. CASE CompileReferences(t)
        <4>3. compiled + 1 > 0
          BY Constants DEF FileTypes
        <4>1. mine' = [mine EXCEPT ![t] = compiled + 1]
              /\ mine \in [Threads -> Compilations]
          BY <3>8 DEF CompileReferences, FileTypes
        <4>2. \A v \in Threads : mine'[v] = IF v = t THEN compiled + 1 ELSE mine[v]
          BY <4>1
        <4> QED BY <3>8, <4>2, <4>3 DEF CompileReferences, files
      <3>9. CASE OpenTemporary(t)
        <4>1. mine[t] > 0 /\ Opened(t) # Nothing => Opened(t) > 0
          BY <3>9, Constants DEF OpenTemporary, FileTypes, Opened
        <4> QED BY <3>9, <4>1 DEF OpenTemporary, FileTypes
      <3>10. CASE WriteTemporary(t)
        BY <3>10 DEF WriteTemporary, writing
      <3>12. CASE WritePart(t)
        BY <3>12 DEF WritePart, process, writing
      <3>11. CASE Replace(t)
        <4>1. CASE temporary # Nothing
          <5>1. Go(t, "stat") /\ UNCHANGED <<call, making, provider, mine, handle>>
                /\ active' # Nothing
            BY <3>11, <4>1 DEF Replace
          <5> QED BY <3>11, <5>1 DEF Replace
        <4>2. CASE temporary = Nothing
          <5>1. Return(t) /\ active' = active
            BY <3>11, <4>2 DEF Replace
          <5> QED BY <5>1, Returned
        <4> QED BY <4>1, <4>2
      <3> QED BY <2>1, <3>1, <3>2, <3>3, <3>4, <3>5, <3>6, <3>7, <3>8, <3>9, <3>10, <3>11,
                 <3>12 DEF Step
    <2>2. ASSUME NEW t \in Threads, NEW c \in {"observe", "compile"}, Begin(t, c)
          PROVE  StageOK(u)'
      BY <2>2, Constants DEF Begin, Found, Entered, files, writing
    <2>3. CASE Restart
      BY <2>3 DEF Restart
    <2>4. CASE UNCHANGED vars
      BY <2>4 DEF vars, process, files, writing
    <2> QED BY <2>1, <2>2, <2>3, <2>4 DEF Next
  <1> QED BY <1>1, <1>2, <1>3, <1>4, <1>5 DEF Types

-----------------------------------------------------------------------------
(* Torn manifests *)

\* A file is whole only when its writer has come to the end, and what is parsed
\* of one that is not has no boxes.
BoxesAreWritten ==
  /\ \A f \in Files : file[f].whole => file[f].by \in written
  /\ \A t \in Threads : text[t] # 0 => text[t] \in written
  /\ TornIsNeverUsed

LEMMA BoxesStep == Types /\ BoxesAreWritten /\ [Next]_vars => BoxesAreWritten'
  <1> SUFFICES ASSUME Types, BoxesAreWritten, [Next]_vars PROVE BoxesAreWritten'
    OBVIOUS
  <1> USE DEF BoxesAreWritten, TornIsNeverUsed
  <1>0. /\ file \in [Files -> [by : Compilations, whole : BOOLEAN]]
        /\ boxes \in [Threads -> Compilations] /\ text \in [Threads -> Compilations]
        /\ provider \in [Threads -> Threads \cup {Nothing}]
    BY DEF Types, FileTypes, LoadTypes, CallTypes
  <1>1. ASSUME NEW t \in Threads, Step(t) PROVE BoxesAreWritten'
    <2>1. CASE Make(t)
      BY <1>0, <2>1 DEF Make, files, history
    <2>2. CASE Store(t) \/ Decode(t) \/ CompileReferences(t)
      BY <1>0, <2>2 DEF Store, Decode, CompileReferences, files, history
    <2>3. CASE Raise(t) \/ Detect(t) \/ AnswerCompile(t)
      <3>1. /\ UNCHANGED <<boxes, file, written>> /\ text' = [text EXCEPT ![t] = 0]
        BY <2>3 DEF Raise, Detect, AnswerCompile, Return, files, history
      <3> QED BY <1>0, <3>1
    <2>4. CASE Stat(t)
      <3>1. /\ UNCHANGED <<boxes, file, written>> /\ text' = [text EXCEPT ![t] = 0]
        BY <2>4 DEF Stat, files, history
      <3> QED BY <1>0, <3>1
    <2>5. CASE Read(t)
      <3>1. active \in Files
        BY <2>5 DEF Read, Types, StageOK, FileTypes
      <3>2. Parsed(active) # 0 => Parsed(active) \in written
        BY <3>1 DEF Parsed
      <3>3. UNCHANGED <<boxes, file, written>> /\ text' = [text EXCEPT ![t] = Parsed(active)]
        BY <2>5 DEF Read, files, history
      <3> QED BY <1>0, <3>2, <3>3
    <2>6. CASE AssignBoxes(t)
      <3>1. UNCHANGED <<text, file, written>>
            /\ boxes' = [boxes EXCEPT ![provider[t]] = text[t]]
        BY <2>6 DEF AssignBoxes, files, history
      <3> QED BY <1>0, <3>1
    <2>7. CASE RememberStamp(t)
      BY <2>7 DEF RememberStamp, files, history
    <2>8. CASE OpenTemporary(t)
      <3>1. PICK f : file' = [file EXCEPT ![f] = Written(mine[t], FALSE)]
                     /\ UNCHANGED <<boxes, text, written>>
        BY <2>8 DEF OpenTemporary, history
      <3> QED BY <1>0, <3>1 DEF Written
    <2>9. CASE WriteTemporary(t)
      <3>1. PICK whole \in MayBeWhole(t) :
                   /\ file' = [file EXCEPT ![handle[t]] = Written(mine[t], whole)]
                   /\ written' = IF whole THEN written \cup {mine[t]} ELSE written
                   /\ UNCHANGED <<boxes, text>>
        BY <2>9 DEF WriteTemporary
      <3> QED BY <1>0, <3>1 DEF Written
    <2>10. CASE Replace(t)
      <3>1. /\ UNCHANGED <<boxes, file, written>>
            /\ text' = text \/ text' = [text EXCEPT ![t] = 0]
        BY <2>10 DEF Replace, Return, history
      <3> QED BY <1>0, <3>1
    <2>11. CASE WritePart(t)
      BY <2>11, WrittenPart DEF process, history
    <2> QED BY <1>1, <2>1, <2>2, <2>3, <2>4, <2>5, <2>6, <2>7, <2>8, <2>9, <2>10, <2>11 DEF Step
  <1>2. ASSUME NEW t \in Threads, NEW c \in {"observe", "compile"}, Begin(t, c)
        PROVE  BoxesAreWritten'
    BY <1>2 DEF Begin, files
  <1>3. CASE Restart
    BY <1>3 DEF Restart, files
  <1>4. CASE UNCHANGED vars
    BY <1>4 DEF vars, process, files, history
  <1> QED BY <1>1, <1>2, <1>3, <1>4 DEF Next


-----------------------------------------------------------------------------
(* One compilation after the other *)

Compiling(t) == pc[t] # "idle" /\ call[t] = "compile"

Finished(t) == pc[t] \in Loading \cup {"answer"}

\* A call that has the number of a compilation.
Numbered ==
  /\ \A t \in Threads : mine[t] > 0 =>
       /\ Compiling(t) /\ ~making[t] /\ mine[t] <= compiled
       /\ Finished(t) \/ pc[t] \in {"open temporary", "write temporary", "replace"}
  /\ \A f \in {temporary, active} \ {Nothing} : f <= compiled
  /\ answered <= compiled

Alone == \A t, u \in Threads : Compiling(t) /\ Compiling(u) => t = u

\* The compilation of t is the last one and its manifest the one that is written,
\* then moved, then active.
LastOne(t) ==
  mine[t] > 0 =>
    /\ mine[t] = compiled
    /\ pc[t] = "open temporary" => active # mine[t] /\ temporary # mine[t]
    /\ pc[t] = "write temporary" =>
         temporary = handle[t] /\ file[temporary] = Written(mine[t], FALSE)
    /\ pc[t] = "replace" => temporary # Nothing /\ file[temporary] = Written(mine[t], TRUE)
    /\ Finished(t) => active # Nothing /\ file[active].by = mine[t]

OneAfterTheOther ==
  ~overlapped =>
    /\ Alone
    /\ \A t \in Threads : LastOne(t)
    /\ active # Nothing => active # temporary
    /\ AnsweredCompilationIsActive

Order == Numbered /\ OneAfterTheOther

\* What the types say of the files.
LEMMA FileFacts ==
  ASSUME Types
  PROVE  /\ temporary # Nothing => temporary \in Files /\ temporary \in Nat
         /\ active # Nothing => active \in Files /\ active \in Nat
         /\ file \in [Files -> [by : Compilations, whole : BOOLEAN]]
         /\ \A f \in Files : file[f].by \in Nat
         /\ compiled \in Nat /\ answered \in Nat
         /\ mine \in [Threads -> Compilations] /\ handle \in [Threads -> 0..MaxCompiles]
         /\ \A t \in Threads : mine[t] \in Nat
  <1>1. /\ temporary \in Files \cup {Nothing} /\ active \in Files \cup {Nothing}
        /\ file \in [Files -> [by : Compilations, whole : BOOLEAN]]
        /\ compiled \in Compilations /\ answered \in Compilations
        /\ mine \in [Threads -> Compilations] /\ handle \in [Threads -> 0..MaxCompiles]
    BY DEF Types, FileTypes, HistoryTypes
  <1>2. \A f \in Files : file[f].by \in Compilations
    BY <1>1
  <1> QED BY <1>1, <1>2, Constants

\* Steps of a load, or of an observation, which write no file.
LEMMA QuietOrder ==
  ASSUME Types, Order, NEW t \in Threads,
         Make(t) \/ Store(t) \/ Stat(t) \/ Read(t) \/ AssignBoxes(t) \/ RememberStamp(t)
           \/ Decode(t)
  PROVE  Order'
  <1>1. UNCHANGED <<call, temporary, active, file, handle, mine, compiled, written,
                    concurrent, overlapped, answered>>
    BY DEF Make, Store, Stat, Read, AssignBoxes, RememberStamp, Decode, files, writing, history
  <1>2. \A u \in Threads \ {t} : pc'[u] = pc[u] /\ making'[u] = making[u]
    BY DEF Make, Store, Stat, Read, AssignBoxes, RememberStamp, Decode, Go, Types, CallTypes
  <1>3. pc[t] # "idle" /\ pc'[t] # "idle"
    BY DEF Make, Store, Stat, Read, AssignBoxes, RememberStamp, Decode, Go, Types, CallTypes,
           Loaded, Entered
  <1>4. mine[t] > 0 => /\ Finished(t) /\ Finished(t)' /\ ~making'[t]
    <2>1. mine[t] > 0 => call[t] = "compile" /\ ~making[t]
                          /\ pc[t] \in Loading \cup {"answer", "open temporary",
                                                    "write temporary", "replace"}
      BY DEF Order, Numbered, Compiling, Finished
    <2> QED BY <2>1 DEF Make, Store, Stat, Read, AssignBoxes, RememberStamp, Decode, Go,
                        Types, CallTypes, Loaded, Loading, Finished
  <1>5. \A u \in Threads : Compiling(u)' <=> Compiling(u)
    BY <1>1, <1>2, <1>3 DEF Compiling
  <1>6. \A u \in Threads \ {t} : Finished(u)' <=> Finished(u)
    BY <1>2 DEF Finished
  <1>7. Numbered'
    <2>1. ASSUME NEW u \in Threads, mine'[u] > 0
          PROVE  /\ Compiling(u)' /\ ~making'[u] /\ mine'[u] <= compiled'
                 /\ Finished(u)' \/ pc'[u] \in {"open temporary", "write temporary", "replace"}
      BY <1>1, <1>2, <1>4, <1>5, <1>6, <2>1 DEF Order, Numbered
    <2> QED BY <1>1, <2>1 DEF Order, Numbered
  <1>8. ASSUME ~overlapped, NEW u \in Threads, LastOne(u) PROVE LastOne(u)'
    <2>1. CASE u = t
      BY <1>1, <1>4, <1>8, <2>1 DEF LastOne, Finished, Loading
    <2>2. CASE u # t
      BY <1>1, <1>2, <1>6, <1>8, <2>2 DEF LastOne
    <2> QED BY <2>1, <2>2
  <1>9. OneAfterTheOther'
    BY <1>1, <1>5, <1>8 DEF Order, OneAfterTheOther, Alone, AnsweredCompilationIsActive
  <1> QED BY <1>7, <1>9 DEF Order

\* Ends of a call that answers no compilation, or the last one.
LEMMA ReturnOrder ==
  ASSUME Types, Order, NEW t \in Threads, pc[t] # "idle", Return(t),
         UNCHANGED <<temporary, active, file, compiled, overlapped>>,
         \/ answered' = answered
         \/ pc[t] = "answer" /\ answered' = mine[t]
  PROVE  Order'
  <1>1. /\ pc'[t] = "idle" /\ mine'[t] = 0
        /\ \A u \in Threads \ {t} : pc'[u] = pc[u] /\ call'[u] = call[u]
             /\ making'[u] = making[u] /\ handle'[u] = handle[u] /\ mine'[u] = mine[u]
    BY Returned, FileFacts DEF Return
  <1>2. \A u \in Threads : Compiling(u)' => u # t /\ Compiling(u)
    BY <1>1 DEF Compiling
  <1>3. \A u \in Threads \ {t} : /\ Compiling(u)' <=> Compiling(u)
                                 /\ Finished(u)' <=> Finished(u)
    BY <1>1 DEF Compiling, Finished
  <1>4. pc[t] = "answer" => /\ mine[t] > 0 /\ Finished(t)
    BY DEF Types, StageOK, Finished
  <1>5. Numbered'
    <2>1. ASSUME NEW u \in Threads, mine'[u] > 0
          PROVE  /\ Compiling(u)' /\ ~making'[u] /\ mine'[u] <= compiled'
                 /\ Finished(u)' \/ pc'[u] \in {"open temporary", "write temporary", "replace"}
      <3>1. u # t
        BY <1>1, <2>1
      <3> QED BY <1>1, <1>3, <2>1, <3>1 DEF Order, Numbered
    <2>2. answered' <= compiled'
      BY <1>4 DEF Order, Numbered
    <2> QED BY <2>1, <2>2 DEF Order, Numbered
  <1>6. ASSUME ~overlapped
        PROVE  /\ Alone' /\ \A u \in Threads : LastOne(u)'
               /\ active' # Nothing => active' # temporary'
    <2>1. Alone'
      BY <1>2, <1>6 DEF Order, OneAfterTheOther, Alone
    <2>2. ASSUME NEW u \in Threads PROVE LastOne(u)'
      <3>1. CASE u = t
        <4>1. ~(mine'[t] > 0)
          BY <1>1
        <4> QED BY <3>1, <4>1 DEF LastOne
      <3>2. CASE u # t
        BY <1>1, <1>3, <1>6, <3>2 DEF Order, OneAfterTheOther, LastOne
      <3> QED BY <3>1, <3>2
    <2> QED BY <1>6, <2>1, <2>2 DEF Order, OneAfterTheOther
  <1>7. ASSUME ~overlapped PROVE AnsweredCompilationIsActive'
    <2>1. CASE answered' = answered
      BY <1>7, <2>1 DEF Order, OneAfterTheOther, AnsweredCompilationIsActive
    <2>2. CASE pc[t] = "answer" /\ answered' = mine[t]
      <3>1. active # Nothing /\ file[active].by = mine[t]
        BY <1>4, <1>7, <2>2 DEF Order, OneAfterTheOther, LastOne
      <3>2. file[active].by >= mine[t]
        BY <3>1, FileFacts
      <3> QED BY <1>7, <2>2, <3>1, <3>2
              DEF Order, OneAfterTheOther, AnsweredCompilationIsActive
    <2> QED BY <2>1, <2>2
  <1>8. OneAfterTheOther'
    BY <1>6, <1>7 DEF OneAfterTheOther
  <1> QED BY <1>5, <1>8 DEF Order

LEMMA CompileReferencesOrder ==
  ASSUME Types, Order, NEW t \in Threads, CompileReferences(t)
  PROVE  Order'
  <1>1. /\ pc[t] = "compile" /\ pc' = [pc EXCEPT ![t] = "open temporary"]
        /\ mine' = [mine EXCEPT ![t] = compiled + 1] /\ compiled' = compiled + 1
        /\ UNCHANGED <<call, making, temporary, active, file, handle, overlapped, answered>>
    BY DEF CompileReferences, Go, files, history
  <1>2. call[t] = "compile" /\ ~making[t] /\ Compiling(t)
    BY <1>1 DEF Types, StageOK, Compiling
  <1>3. /\ \A u \in Threads : mine'[u] = IF u = t THEN compiled + 1 ELSE mine[u]
        /\ \A u \in Threads : pc'[u] = IF u = t THEN "open temporary" ELSE pc[u]
    BY <1>1, FileFacts DEF Types, CallTypes
  <1>4. /\ \A u \in Threads : Compiling(u)' <=> Compiling(u)
        /\ \A u \in Threads \ {t} : Finished(u)' <=> Finished(u)
    <2>1. ASSUME NEW u \in Threads \ {t}
          PROVE  /\ Compiling(u)' <=> Compiling(u)
                 /\ Finished(u)' <=> Finished(u)
      BY <1>1, <1>3 DEF Compiling, Finished
    <2>2. Compiling(t)' /\ Compiling(t)
      <3>1. pc'[t] # "idle"
        BY <1>3
      <3>2. call'[t] = call[t]
        BY <1>1
      <3> QED BY <1>2, <3>1, <3>2 DEF Compiling
    <2> QED BY <2>1, <2>2
  <1>5. /\ compiled \in Nat /\ compiled + 1 > 0 /\ compiled + 1 <= compiled + 1
        /\ \A n \in Nat : n <= compiled => n <= compiled + 1 /\ n # compiled + 1
    BY FileFacts
  <1>6. Numbered'
    <2>1. ASSUME NEW u \in Threads, mine'[u] > 0
          PROVE  /\ Compiling(u)' /\ ~making'[u] /\ mine'[u] <= compiled'
                 /\ Finished(u)' \/ pc'[u] \in {"open temporary", "write temporary", "replace"}
      <3>1. CASE u = t
        BY <1>1, <1>2, <1>3, <1>4, <1>5, <3>1
      <3>2. CASE u # t
        BY <1>1, <1>3, <1>4, <1>5, <2>1, <3>2, FileFacts DEF Order, Numbered
      <3> QED BY <3>1, <3>2
    <2>2. answered' <= compiled'
          /\ \A f \in {temporary', active'} \ {Nothing} : f <= compiled'
      BY <1>1, <1>5, FileFacts DEF Order, Numbered
    <2> QED BY <2>1, <2>2 DEF Numbered
  <1>7. ASSUME ~overlapped, NEW u \in Threads PROVE LastOne(u)'
    <2>1. CASE u = t
      <3>1. Nothing # compiled + 1
        BY <1>5, Constants
      <3>2. temporary # Nothing => temporary # compiled + 1
        BY <1>5, FileFacts DEF Order, Numbered
      <3>3. active # Nothing => active # compiled + 1
        BY <1>5, FileFacts DEF Order, Numbered
      <3>4. mine'[t] = compiled' /\ active' # mine'[t] /\ temporary' # mine'[t]
        <4>1. mine'[t] = compiled + 1 /\ compiled' = compiled + 1
          BY <1>1, <1>3
        <4>2. active # compiled + 1 /\ temporary # compiled + 1
          BY <3>1, <3>2, <3>3
        <4>3. active' = active /\ temporary' = temporary
          BY <1>1
        <4> QED BY <4>1, <4>2, <4>3
      <3>5. pc'[t] = "open temporary" /\ ~Finished(t)'
        BY <1>3 DEF Finished, Loading
      <3> QED BY <2>1, <3>4, <3>5 DEF LastOne
    <2>2. CASE u # t
      <3>1. ~Compiling(u)
        BY <1>2, <1>7, <2>2 DEF Order, OneAfterTheOther, Alone
      <3>2. ~(mine'[u] > 0)
        BY <1>3, <2>2, <3>1 DEF Order, Numbered
      <3> QED BY <3>2 DEF LastOne
    <2> QED BY <2>1, <2>2
  <1>8. OneAfterTheOther'
    BY <1>1, <1>4, <1>7 DEF Order, OneAfterTheOther, Alone, AnsweredCompilationIsActive
  <1> QED BY <1>6, <1>8 DEF Order

LEMMA OpenTemporaryOrder ==
  ASSUME Types, Order, NEW t \in Threads, OpenTemporary(t)
  PROVE  Order'
  <1> DEFINE f == IF Opened(t) = Nothing THEN mine[t] ELSE Opened(t)
  <1>1. /\ pc[t] = "open temporary" /\ pc' = [pc EXCEPT ![t] = "write temporary"]
        /\ temporary' = f
        /\ handle' = [handle EXCEPT ![t] = f]
        /\ file' = [file EXCEPT ![f] = Written(mine[t], FALSE)]
        /\ UNCHANGED <<call, making, active, mine, compiled, overlapped, answered>>
    BY DEF OpenTemporary, Opened, Go, history
  <1>2. mine[t] > 0 /\ Compiling(t) /\ ~making[t] /\ mine[t] <= compiled
    BY <1>1 DEF Types, StageOK, Order, Numbered
  <1>3. f \in Files /\ f # Nothing /\ f <= compiled
    BY <1>2, FileFacts, Constants DEF Opened, Order, Numbered
  <1>4. /\ \A u \in Threads : pc'[u] = IF u = t THEN "write temporary" ELSE pc[u]
        /\ handle'[t] = f
    BY <1>1, FileFacts DEF Types, CallTypes
  <1>5. /\ \A u \in Threads : Compiling(u)' <=> Compiling(u)
        /\ \A u \in Threads \ {t} : Finished(u)' <=> Finished(u)
    <2>1. ASSUME NEW u \in Threads \ {t}
          PROVE  /\ Compiling(u)' <=> Compiling(u)
                 /\ Finished(u)' <=> Finished(u)
      BY <1>1, <1>4 DEF Compiling, Finished
    <2>2. Compiling(t)' /\ Compiling(t)
      <3>1. pc'[t] # "idle"
        BY <1>4
      <3>2. call'[t] = call[t]
        BY <1>1
      <3> QED BY <1>2, <3>1, <3>2 DEF Compiling
    <2> QED BY <2>1, <2>2
  <1>6. Numbered'
    BY <1>1, <1>2, <1>3, <1>4, <1>5 DEF Order, Numbered
  <1>7. ASSUME ~overlapped
        PROVE  /\ \A u \in Threads : LastOne(u)'
               /\ active # f
    <2>1. LastOne(t) /\ (active # Nothing => active # temporary)
      BY <1>7 DEF Order, OneAfterTheOther
    <2>2. active # f
      BY <1>1, <1>2, <1>3, <2>1 DEF LastOne, Opened
    <2>3. LastOne(t)'
      <3>1. ~Finished(t)'
        BY <1>4 DEF Finished, Loading
      <3>2. /\ mine'[t] = compiled' /\ temporary' = handle'[t]
            /\ file'[temporary'] = Written(mine'[t], FALSE)
        BY <1>1, <1>2, <1>3, <1>4, <2>1, FileFacts DEF LastOne
      <3>3. pc'[t] = "write temporary"
        BY <1>4
      <3> QED BY <3>1, <3>2, <3>3 DEF LastOne
    <2>4. ASSUME NEW u \in Threads, u # t PROVE LastOne(u)'
      <3>1. ~Compiling(u)
        BY <1>2, <1>7, <2>4 DEF Order, OneAfterTheOther, Alone
      <3> QED BY <1>1, <3>1 DEF Order, Numbered, LastOne
    <2> QED BY <2>2, <2>3, <2>4
  <1>8. ASSUME ~overlapped PROVE active # Nothing => file'[active] = file[active]
    BY <1>1, <1>7, <1>8, FileFacts
  <1>9. OneAfterTheOther'
    BY <1>1, <1>5, <1>7, <1>8 DEF Order, OneAfterTheOther, Alone, AnsweredCompilationIsActive
  <1> QED BY <1>6, <1>9 DEF Order

LEMMA WriteTemporaryOrder ==
  ASSUME Types, Order, NEW t \in Threads, WriteTemporary(t)
  PROVE  Order'
  <1>0. PICK whole \in MayBeWhole(t) :
               file' = [file EXCEPT ![handle[t]] = Written(mine[t], whole)]
    BY DEF WriteTemporary
  <1>1. /\ pc[t] = "write temporary" /\ pc' = [pc EXCEPT ![t] = "replace"]
        /\ file' = [file EXCEPT ![handle[t]] = Written(mine[t], whole)]
        /\ UNCHANGED <<call, making, temporary, active, handle, mine, compiled, overlapped,
                       answered>>
    BY <1>0 DEF WriteTemporary, Go, writing
  <1>2. mine[t] > 0 /\ handle[t] > 0 /\ Compiling(t) /\ ~making[t]
    BY <1>1 DEF Types, StageOK, Order, Numbered
  <1>3. handle[t] \in Files /\ handle[t] # Nothing
    BY <1>2, FileFacts, Constants DEF Compilations
  <1>4. \A u \in Threads : pc'[u] = IF u = t THEN "replace" ELSE pc[u]
    BY <1>1 DEF Types, CallTypes
  <1>5. /\ \A u \in Threads : Compiling(u)' <=> Compiling(u)
        /\ \A u \in Threads \ {t} : Finished(u)' <=> Finished(u)
    <2>1. ASSUME NEW u \in Threads \ {t}
          PROVE  /\ Compiling(u)' <=> Compiling(u)
                 /\ Finished(u)' <=> Finished(u)
      BY <1>1, <1>4 DEF Compiling, Finished
    <2>2. Compiling(t)' /\ Compiling(t)
      <3>1. pc'[t] # "idle"
        BY <1>4
      <3>2. call'[t] = call[t]
        BY <1>1
      <3> QED BY <1>2, <3>1, <3>2 DEF Compiling
    <2> QED BY <2>1, <2>2
  <1>6. Numbered'
    BY <1>1, <1>2, <1>4, <1>5 DEF Order, Numbered
  <1>7. ASSUME ~overlapped
        PROVE  /\ \A u \in Threads : LastOne(u)'
               /\ active # handle[t]
    <2>1. LastOne(t) /\ (active # Nothing => active # temporary)
      BY <1>7 DEF Order, OneAfterTheOther
    <2>2. temporary = handle[t] /\ active # handle[t] /\ whole = TRUE
      <3>1. temporary = handle[t] /\ file[handle[t]] = Written(mine[t], FALSE)
        BY <1>1, <1>2, <2>1 DEF LastOne
      <3>2. whole = TRUE
        BY <1>0, <3>1 DEF MayBeWhole, Written
      <3> QED BY <1>3, <2>1, <3>1, <3>2
    <2>3. LastOne(t)'
      <3>1. ~Finished(t)'
        BY <1>4 DEF Finished, Loading
      <3>2. file'[temporary] = Written(mine[t], TRUE)
        BY <1>1, <1>3, <2>2, FileFacts
      <3>3. mine'[t] = compiled' /\ temporary' # Nothing
            /\ file'[temporary'] = Written(mine'[t], TRUE)
        BY <1>1, <1>2, <1>3, <2>1, <2>2, <3>2 DEF LastOne
      <3>4. pc'[t] = "replace"
        BY <1>4
      <3> QED BY <3>1, <3>3, <3>4 DEF LastOne, Written
    <2>4. ASSUME NEW u \in Threads, u # t PROVE LastOne(u)'
      <3>1. ~Compiling(u)
        BY <1>2, <1>7, <2>4 DEF Order, OneAfterTheOther, Alone
      <3> QED BY <1>1, <3>1 DEF Order, Numbered, LastOne
    <2> QED BY <2>2, <2>3, <2>4
  <1>8. ASSUME ~overlapped PROVE active # Nothing => file'[active] = file[active]
    BY <1>1, <1>7, <1>8, FileFacts
  <1>9. OneAfterTheOther'
    BY <1>1, <1>5, <1>7, <1>8 DEF Order, OneAfterTheOther, Alone, AnsweredCompilationIsActive
  <1> QED BY <1>6, <1>9 DEF Order

\* No other compilation has completed a manifest in the file meanwhile.
LEMMA WritePartOrder ==
  ASSUME Types, Order, NEW t \in Threads, WritePart(t)
  PROVE  Order'
  <1>1. /\ pc[t] = "write temporary" /\ mine[t] > 0
        /\ UNCHANGED <<pc, call, making, temporary, active, handle, mine, compiled, overlapped,
                       answered>>
    BY DEF WritePart, process, writing, history, Types, StageOK
  <1>2. overlapped
    <2>1. handle[t] \in Files /\ file[handle[t]].whole
      BY WrittenPart
    <2>2. ASSUME LastOne(t) PROVE FALSE
      <3>1. file[handle[t]] = Written(mine[t], FALSE)
        BY <1>1, <2>2 DEF LastOne
      <3> QED BY <2>1, <3>1 DEF Written
    <2> QED BY <2>2 DEF Order, OneAfterTheOther
  <1>3. Numbered'
    BY <1>1 DEF Order, Numbered, Compiling, Finished
  <1> QED BY <1>1, <1>2, <1>3 DEF Order, OneAfterTheOther

LEMMA ReplaceOrder ==
  ASSUME Types, Order, NEW t \in Threads, Replace(t)
  PROVE  Order'
  <1>1. CASE temporary = Nothing
    <2>1. Return(t) /\ pc[t] = "replace"
          /\ UNCHANGED <<temporary, active, file, compiled, overlapped, answered>>
      BY <1>1 DEF Replace, history
    <2>2. pc[t] # "idle"
      BY <2>1
    <2> QED BY <2>1, <2>2, ReturnOrder
  <1>2. CASE temporary # Nothing
    <2>1. /\ pc[t] = "replace" /\ pc' = [pc EXCEPT ![t] = "stat"]
          /\ active' = temporary /\ temporary' = Nothing
          /\ UNCHANGED <<call, making, file, handle, mine, compiled, overlapped, answered>>
      BY <1>2 DEF Replace, Go, history
    <2>2. mine[t] > 0 /\ Compiling(t) /\ ~making[t]
      BY <2>1 DEF Types, StageOK, Order, Numbered
    <2>3. \A u \in Threads : pc'[u] = IF u = t THEN "stat" ELSE pc[u]
      BY <2>1 DEF Types, CallTypes
    <2>4. /\ \A u \in Threads : Compiling(u)' <=> Compiling(u)
          /\ \A u \in Threads \ {t} : Finished(u)' <=> Finished(u)
          /\ Finished(t)'
      <3>1. ASSUME NEW u \in Threads \ {t}
            PROVE  /\ Compiling(u)' <=> Compiling(u)
                   /\ Finished(u)' <=> Finished(u)
        BY <2>1, <2>3 DEF Compiling, Finished
      <3>2. Compiling(t)' /\ Finished(t)'
        BY <2>1, <2>2, <2>3 DEF Compiling, Finished, Loading
      <3> QED BY <2>2, <3>1, <3>2
    <2>5. Numbered'
      BY <2>1, <2>2, <2>3, <2>4 DEF Order, Numbered
    <2>6. ASSUME ~overlapped
          PROVE  /\ \A u \in Threads : LastOne(u)'
                 /\ active' # Nothing /\ file'[active'].whole
                 /\ answered' > 0 => file'[active'].by >= answered'
      <3>1. LastOne(t)
        BY <2>6 DEF Order, OneAfterTheOther
      <3>2. file[temporary] = Written(mine[t], TRUE) /\ mine[t] = compiled
        BY <2>1, <2>2, <3>1 DEF LastOne
      <3>3. file'[active'].whole /\ file'[active'].by = mine[t]
        BY <2>1, <3>2 DEF Written
      <3>4. LastOne(t)'
        <4>1. pc'[t] = "stat" /\ mine'[t] = compiled' /\ active' # Nothing
              /\ file'[active'].by = mine'[t]
          BY <1>2, <2>1, <2>3, <3>2, <3>3
        <4> QED BY <4>1 DEF LastOne
      <3>5. ASSUME NEW u \in Threads, u # t PROVE LastOne(u)'
        <4>1. ~Compiling(u)
          BY <2>2, <2>6, <3>5 DEF Order, OneAfterTheOther, Alone
        <4> QED BY <2>1, <4>1 DEF Order, Numbered, LastOne
      <3>6. file'[active'].by >= answered'
        BY <2>1, <3>2, <3>3, FileFacts DEF Order, Numbered
      <3> QED BY <1>2, <2>1, <3>3, <3>4, <3>5, <3>6
    <2>7. OneAfterTheOther'
      BY <2>1, <2>4, <2>6 DEF Order, OneAfterTheOther, Alone, AnsweredCompilationIsActive
    <2> QED BY <2>5, <2>7 DEF Order
  <1> QED BY <1>1, <1>2

LEMMA BeginOrder ==
  ASSUME Types, Order, NEW t \in Threads, NEW c \in {"observe", "compile"}, Begin(t, c)
  PROVE  Order'
  <1>1. /\ pc[t] = "idle" /\ call' = [call EXCEPT ![t] = c]
        /\ overlapped' = (overlapped \/ (c = "compile" /\ \E u \in Threads : Compiling(u)))
        /\ UNCHANGED <<temporary, active, file, handle, mine, compiled, answered>>
    BY DEF Begin, Compiling, files, writing
  <1>2. \A u \in Threads \ {t} : pc'[u] = pc[u] /\ call'[u] = call[u] /\ making'[u] = making[u]
    BY DEF Begin, Go, Types, CallTypes
  <1>3. \A u \in Threads \ {t} : /\ Compiling(u)' <=> Compiling(u)
                                 /\ Finished(u)' <=> Finished(u)
    BY <1>2 DEF Compiling, Finished
  <1>4. ~(mine[t] > 0)
    BY <1>1 DEF Order, Numbered, Compiling
  <1>5. Numbered'
    <2>1. ASSUME NEW u \in Threads, mine'[u] > 0
          PROVE  /\ Compiling(u)' /\ ~making'[u] /\ mine'[u] <= compiled'
                 /\ Finished(u)' \/ pc'[u] \in {"open temporary", "write temporary", "replace"}
      <3>1. u # t
        BY <1>1, <1>4, <2>1
      <3> QED BY <1>1, <1>2, <1>3, <2>1, <3>1 DEF Order, Numbered
    <2> QED BY <1>1, <2>1 DEF Order, Numbered
  <1>6. ASSUME ~overlapped'
        PROVE  ~overlapped /\ (c = "compile" => \A u \in Threads : ~Compiling(u))
    BY <1>1, <1>6
  <1>7. ASSUME ~overlapped' PROVE Alone'
    <2>1. Alone
      BY <1>6, <1>7 DEF Order, OneAfterTheOther
    <2>2. c = "observe" => ~Compiling(t)'
      BY <1>1 DEF Compiling, Types, CallTypes
    <2> QED BY <1>3, <1>6, <1>7, <2>1, <2>2 DEF Alone
  <1>8. ASSUME ~overlapped', NEW u \in Threads PROVE LastOne(u)'
    <2>1. CASE u = t
      BY <1>1, <1>4, <2>1 DEF LastOne
    <2>2. CASE u # t
      BY <1>1, <1>2, <1>3, <1>6, <1>8, <2>2 DEF Order, OneAfterTheOther, LastOne
    <2> QED BY <2>1, <2>2
  <1>9. OneAfterTheOther'
    BY <1>1, <1>6, <1>7, <1>8 DEF Order, OneAfterTheOther, AnsweredCompilationIsActive
  <1> QED BY <1>5, <1>9 DEF Order

LEMMA OrderStep == Types /\ Order /\ [Next]_vars => Order'
  <1> SUFFICES ASSUME Types, Order, [Next]_vars PROVE Order'
    OBVIOUS
  <1>1. ASSUME NEW t \in Threads, Step(t) PROVE Order'
    <2>1. CASE Raise(t)
      <3>1. pc[t] # "idle" /\ Return(t)
            /\ UNCHANGED <<temporary, active, file, compiled, overlapped, answered>>
        BY <2>1 DEF Raise, files, history
      <3> QED BY <3>1, ReturnOrder
    <2>2. CASE Detect(t)
      <3>1. pc[t] # "idle" /\ Return(t)
            /\ UNCHANGED <<temporary, active, file, compiled, overlapped, answered>>
        BY <2>2 DEF Detect, files, history
      <3> QED BY <3>1, ReturnOrder
    <2>3. CASE AnswerCompile(t)
      <3>1. pc[t] = "answer" /\ Return(t) /\ answered' = mine[t]
            /\ UNCHANGED <<temporary, active, file, compiled, overlapped>>
        BY <2>3 DEF AnswerCompile, files
      <3>2. pc[t] # "idle"
        BY <3>1
      <3> QED BY <3>1, <3>2, ReturnOrder
    <2> QED BY <1>1, <2>1, <2>2, <2>3, QuietOrder, CompileReferencesOrder,
               OpenTemporaryOrder, WritePartOrder, WriteTemporaryOrder, ReplaceOrder
               DEF Step
  <1>2. CASE Restart
    <2>1. /\ pc' = [t \in Threads |-> "idle"] /\ mine' = [t \in Threads |-> 0]
          /\ UNCHANGED <<temporary, active, file, compiled, overlapped, answered>>
      BY <1>2 DEF Restart, files
    <2>2. \A t \in Threads : ~Compiling(t)' /\ ~(mine'[t] > 0)
      BY <2>1 DEF Compiling
    <2>3. Numbered'
      BY <2>1, <2>2 DEF Order, Numbered
    <2>4. OneAfterTheOther'
      BY <2>1, <2>2 DEF Order, OneAfterTheOther, Alone, LastOne, AnsweredCompilationIsActive
    <2> QED BY <2>3, <2>4 DEF Order
  <1>3. CASE UNCHANGED vars
    BY <1>3 DEF vars, process, files, writing, history, Order, Numbered, OneAfterTheOther,
                Alone, LastOne, Compiling, Finished, AnsweredCompilationIsActive
  <1> QED BY <1>1, <1>2, <1>3, BeginOrder DEF Next

LEMMA InitOrder == Init => BoxesAreWritten /\ Order
  <1> SUFFICES ASSUME Init PROVE BoxesAreWritten /\ Order
    OBVIOUS
  <1>1. BoxesAreWritten
    BY DEF Init, BoxesAreWritten, TornIsNeverUsed, Written
  <1>2. Numbered
    BY Constants DEF Init, Numbered
  <1>3. ~(answered > 0) /\ active = Nothing
    BY Constants DEF Init
  <1>4. OneAfterTheOther
    <2>1. Alone
      BY DEF Init, Alone, Compiling
    <2>2. \A t \in Threads : LastOne(t)
      BY DEF Init, LastOne
    <2> QED BY <1>3, <2>1, <2>2 DEF OneAfterTheOther, AnsweredCompilationIsActive
  <1> QED BY <1>1, <1>2, <1>4 DEF Order

-----------------------------------------------------------------------------
(* One call after the other *)

InCall(t) == pc[t] # "idle"

\* A provider that remembers a manifest has the boxes of it.
Remembers(p) == mtime[p] # Nothing => mtime[p].whole /\ boxes[p] = mtime[p].by

\* What the load of t has read is what the active manifest says.
ReadsActive(t) ==
  /\ stamp[t] # Nothing => /\ active # Nothing /\ stamp[t] = file[active]
                           /\ file[active].whole /\ text[t] = file[active].by
  /\ stamp[t] = Nothing => text[t] = 0 /\ (active # Nothing => ~file[active].whole)

LoadOK(t) ==
  /\ pc[t] = "read" => stamp[t] = file[active]
  /\ pc[t] \in {"assign", "remember"} => ReadsActive(t)
  /\ pc[t] = "remember" => boxes[provider[t]] = text[t]
  /\ pc[t] = "detect" =>
       boxes[provider[t]] = IF active = Nothing THEN 0 ELSE Parsed(active)

\* Between the assignment of the boxes and that of the mtime, a provider may
\* remember another manifest than the one it has the boxes of.
OneCallAfterTheOther ==
  ~concurrent =>
    /\ \A t, u \in Threads : InCall(t) /\ InCall(u) => t = u
    /\ \A t \in Threads : LoadOK(t)
    /\ \A p \in Threads :
         Remembers(p) \/ \E t \in Threads : pc[t] = "remember" /\ provider[t] = p

\* Stages at which nothing is asked of the boxes.
LEMMA NothingAsked ==
  ASSUME NEW t \in Threads,
         pc[t] # "remember",
         pc'[t] \notin {"read", "assign", "remember", "detect"},
         boxes' = boxes, mtime' = mtime,
         \A p \in Threads : Remembers(p) \/ (pc[t] = "remember" /\ provider[t] = p)
  PROVE  LoadOK(t)' /\ \A p \in Threads : Remembers(p)'
  <1>1. /\ pc'[t] # "read" /\ pc'[t] # "remember" /\ pc'[t] # "detect"
        /\ pc'[t] \notin {"assign", "remember"}
    OBVIOUS
  <1>2. LoadOK(t)'
    BY <1>1 DEF LoadOK
  <1>3. \A p \in Threads : Remembers(p)'
    BY DEF Remembers
  <1> QED BY <1>2, <1>3

\* A step of the only call keeps what holds of idle threads.
LEMMA OnlyCall ==
  ASSUME Types, OneCallAfterTheOther, ~concurrent, concurrent' = concurrent,
         NEW t \in Threads, pc[t] # "idle",
         \A u \in Threads \ {t} : pc'[u] = pc[u],
         LoadOK(t)',
         \A p \in Threads : Remembers(p)' \/ (pc'[t] = "remember" /\ provider'[t] = p)
  PROVE  OneCallAfterTheOther'
  <1>1. \A u \in Threads \ {t} : pc[u] = "idle" /\ pc'[u] = "idle"
    BY DEF OneCallAfterTheOther, InCall
  <1>2. \A u \in Threads : InCall(u)' => u = t
    BY <1>1 DEF InCall
  <1>3. \A u \in Threads : LoadOK(u)'
    BY <1>1 DEF LoadOK
  <1> QED BY <1>2, <1>3 DEF OneCallAfterTheOther

LEMMA CallsStep == Types /\ OneCallAfterTheOther /\ [Next]_vars => OneCallAfterTheOther'
  <1> SUFFICES ASSUME Types, OneCallAfterTheOther, [Next]_vars, ~concurrent'
               PROVE  OneCallAfterTheOther'
    BY DEF OneCallAfterTheOther
  <1>0. /\ pc \in [Threads -> Stages] /\ provider \in [Threads -> Threads \cup {Nothing}]
        /\ boxes \in [Threads -> Compilations] /\ text \in [Threads -> Compilations]
        /\ mtime \in [Threads -> Stamps] /\ stamp \in [Threads -> Stamps]
        /\ active \in Files \cup {Nothing}
        /\ file \in [Files -> [by : Compilations, whole : BOOLEAN]]
    BY DEF Types, CallTypes, LoadTypes, FileTypes
  <1>1. ASSUME NEW t \in Threads, Step(t) PROVE OneCallAfterTheOther'
    <2>1. pc[t] # "idle" /\ provider[t] \in Threads
      BY <1>1 DEF Step, Make, Store, Raise, Stat, Read, AssignBoxes, RememberStamp, Decode,
                  Detect, CompileReferences, OpenTemporary, WritePart, WriteTemporary,
                  Replace, AnswerCompile, Types, StageOK
    <2>2. concurrent' = concurrent
      BY <1>1 DEF Step, Make, Store, Raise, Stat, Read, AssignBoxes, RememberStamp, Decode,
                  Detect, CompileReferences, OpenTemporary, WritePart, WriteTemporary,
                  Replace, AnswerCompile, history
    <2>3. \A u \in Threads \ {t} : pc'[u] = pc[u]
      BY <1>0, <1>1 DEF Step, Make, Store, Raise, Stat, Read, AssignBoxes, RememberStamp,
                  Decode, Detect, CompileReferences, OpenTemporary, WritePart, WriteTemporary,
                  Replace, AnswerCompile, Return, Go, process
    <2>4. LoadOK(t) /\ \A p \in Threads :
            Remembers(p) \/ (pc[t] = "remember" /\ provider[t] = p)
      <3>1. \A u \in Threads : pc[u] # "idle" => u = t
        BY <2>1, <2>2 DEF OneCallAfterTheOther, InCall
      <3>2. ~concurrent
        BY <2>2
      <3>3. /\ LoadOK(t)
            /\ \A p \in Threads :
                 Remembers(p) \/ (\E u \in Threads : pc[u] = "remember" /\ provider[u] = p)
        BY <3>2 DEF OneCallAfterTheOther
      <3>4. \A u \in Threads : pc[u] = "remember" => u = t
        BY <3>1
      <3> QED BY <3>3, <3>4
    <2>5. SUFFICES /\ LoadOK(t)'
                   /\ \A p \in Threads :
                        Remembers(p)' \/ (pc'[t] = "remember" /\ provider'[t] = p)
      BY <2>1, <2>2, <2>3, OnlyCall
    <2>6. CASE Make(t)
      BY <1>0, <2>4, <2>6 DEF Make, Go, LoadOK, Remembers
    <2>7. CASE Store(t) \/ Decode(t) \/ CompileReferences(t) \/ OpenTemporary(t)
               \/ WritePart(t) \/ WriteTemporary(t)
      <3>1. /\ pc[t] # "remember" /\ UNCHANGED <<boxes, mtime>>
            /\ pc'[t] \in {"decode", "compile", "stat", "open temporary", "write temporary",
                          "replace"}
        BY <1>0, <2>7 DEF Store, Decode, CompileReferences, OpenTemporary, WritePart,
                          WriteTemporary, Go, Entered, process
      <3>2. pc'[t] \notin {"read", "assign", "remember", "detect"}
        BY <3>1
      <3> QED BY <2>4, <3>1, <3>2, NothingAsked
    <2>8. CASE Raise(t) \/ Detect(t) \/ AnswerCompile(t)
      <3>1. /\ pc[t] # "remember" /\ UNCHANGED <<boxes, mtime>> /\ pc'[t] = "idle"
        BY <1>0, <2>8 DEF Raise, Detect, AnswerCompile, Return, Go
      <3>2. pc'[t] \notin {"read", "assign", "remember", "detect"}
        BY <3>1
      <3> QED BY <2>4, <3>1, <3>2, NothingAsked
    <2>9. CASE Replace(t)
      <3>1. /\ pc[t] # "remember" /\ UNCHANGED <<boxes, mtime>> /\ pc'[t] \in {"idle", "stat"}
        BY <1>0, <2>9 DEF Replace, Return, Go
      <3>2. pc'[t] \notin {"read", "assign", "remember", "detect"}
        BY <3>1
      <3> QED BY <2>4, <3>1, <3>2, NothingAsked
    <2>10. CASE Stat(t)
      <3>1. /\ pc[t] = "stat" /\ stamp'[t] = ActiveStamp /\ text'[t] = 0
            /\ UNCHANGED <<boxes, mtime, provider, active, file>>
            /\ pc'[t] = CASE IsLoaded(t) -> Loaded(t)
                          [] ~IsLoaded(t) /\ active = Nothing -> "assign"
                          [] OTHER -> "read"
        BY <1>0, <2>10 DEF Stat, Go, files
      <3>2. \A p \in Threads : Remembers(p)'
        BY <2>4, <3>1 DEF Remembers
      <3>3. CASE IsLoaded(t)
        <4>0. active # Nothing /\ file[active] = mtime[provider[t]]
          BY <3>3 DEF IsLoaded, ActiveStamp
        <4>5. file[active] \in [by : Nat, whole : BOOLEAN]
          BY <1>0, <4>0, Constants
        <4>1. active # Nothing /\ file[active] = mtime[provider[t]] /\ mtime[provider[t]] # Nothing
          BY <4>0, <4>5, NothingAssumption
        <4>2. boxes[provider[t]] = Parsed(active)
          BY <2>1, <2>4, <3>1, <4>1 DEF Remembers, Parsed
        <4>3. pc'[t] \in {"store", "detect", "answer"}
          BY <3>1, <3>3 DEF Loaded
        <4>4. boxes'[provider'[t]] = IF active' = Nothing THEN 0 ELSE Parsed(active)'
          BY <3>1, <4>1, <4>2 DEF Parsed
        <4>6. pc'[t] # "read" /\ pc'[t] # "remember" /\ pc'[t] \notin {"assign", "remember"}
          BY <4>3
        <4>7. LoadOK(t)'
          BY <4>4, <4>6 DEF LoadOK
        <4> QED BY <3>2, <4>7
      <3>4. CASE ~IsLoaded(t) /\ active = Nothing
        <4>1. pc'[t] = "assign" /\ stamp'[t] = Nothing /\ active' = Nothing
          BY <3>1, <3>4 DEF ActiveStamp
        <4>2. ReadsActive(t)'
          BY <3>1, <4>1 DEF ReadsActive
        <4>3. pc'[t] # "read" /\ pc'[t] # "remember" /\ pc'[t] # "detect"
          BY <4>1
        <4>4. LoadOK(t)'
          BY <4>2, <4>3 DEF LoadOK
        <4> QED BY <3>2, <4>4
      <3>5. CASE ~IsLoaded(t) /\ active # Nothing
        <4>1. pc'[t] = "read" /\ stamp'[t] = file'[active']
          BY <3>1, <3>5 DEF ActiveStamp
        <4>2. pc'[t] # "remember" /\ pc'[t] # "detect" /\ pc'[t] \notin {"assign", "remember"}
          BY <4>1
        <4>3. LoadOK(t)'
          BY <4>1, <4>2 DEF LoadOK
        <4> QED BY <3>2, <4>3
      <3> QED BY <3>3, <3>4, <3>5
    <2>11. CASE Read(t)
      <3>1. /\ pc[t] = "read" /\ pc'[t] = "assign" /\ text'[t] = Parsed(active)
            /\ stamp'[t] = IF file[active].whole THEN stamp[t] ELSE Nothing
            /\ UNCHANGED <<boxes, mtime, provider, active, file>>
        BY <1>0, <2>11 DEF Read, Go, files
      <3>2. active # Nothing /\ stamp[t] = file[active]
        BY <2>4, <3>1 DEF LoadOK, Types, StageOK
      <3>3. file[active] # Nothing
        <4>1. file[active] \in [by : Nat, whole : BOOLEAN]
          BY <1>0, <3>2, Constants
        <4> QED BY <4>1, NothingAssumption
      <3>4. ReadsActive(t)'
        BY <3>1, <3>2, <3>3 DEF ReadsActive, Parsed
      <3>5. \A p \in Threads : Remembers(p)'
        BY <2>4, <3>1 DEF Remembers
      <3>6. pc'[t] # "read" /\ pc'[t] # "remember" /\ pc'[t] # "detect"
        BY <3>1
      <3>7. LoadOK(t)'
        BY <3>4, <3>6 DEF LoadOK
      <3> QED BY <3>5, <3>7
    <2>12. CASE AssignBoxes(t)
      <3>1. /\ pc[t] = "assign" /\ pc'[t] = "remember"
            /\ boxes' = [boxes EXCEPT ![provider[t]] = text[t]]
            /\ UNCHANGED <<mtime, provider, active, file, stamp, text>>
        BY <1>0, <2>12 DEF AssignBoxes, Go, files
      <3>2. /\ boxes'[provider[t]] = text[t]
            /\ \A p \in Threads \ {provider[t]} : boxes'[p] = boxes[p]
        BY <1>0, <2>1, <3>1
      <3>3. ReadsActive(t)'
        BY <2>4, <3>1 DEF LoadOK, ReadsActive
      <3>4. \A p \in Threads \ {provider[t]} : Remembers(p)'
        BY <2>4, <3>1, <3>2 DEF Remembers
      <3>5. pc'[t] # "read" /\ pc'[t] # "detect" /\ provider'[t] = provider[t]
            /\ boxes'[provider'[t]] = text'[t]
        BY <3>1, <3>2
      <3>6. LoadOK(t)'
        BY <3>3, <3>5 DEF LoadOK
      <3>7. pc'[t] = "remember"
        BY <3>1
      <3> QED BY <3>4, <3>5, <3>6, <3>7
    <2>13. CASE RememberStamp(t)
      <3>1. /\ pc[t] = "remember" /\ pc'[t] = Loaded(t)
            /\ mtime' = [mtime EXCEPT ![provider[t]] = stamp[t]]
            /\ UNCHANGED <<boxes, provider, active, file>>
        BY <1>0, <2>13 DEF RememberStamp, Go, files
      <3>2. /\ mtime'[provider[t]] = stamp[t]
            /\ \A p \in Threads \ {provider[t]} : mtime'[p] = mtime[p]
        BY <1>0, <2>1, <3>1
      <3>3. ReadsActive(t) /\ boxes[provider[t]] = text[t]
        BY <2>4, <3>1 DEF LoadOK
      <3>4. pc'[t] \in {"store", "detect", "answer"}
        BY <3>1 DEF Loaded
      <3>5. boxes[provider[t]] = IF active = Nothing THEN 0 ELSE Parsed(active)
        BY <3>3 DEF ReadsActive, Parsed
      <3>6. \A p \in Threads : Remembers(p)'
        BY <2>4, <3>1, <3>2, <3>3 DEF Remembers, ReadsActive
      <3>7. pc'[t] # "read" /\ pc'[t] # "remember" /\ pc'[t] \notin {"assign", "remember"}
        BY <3>1, <3>4
      <3>8. boxes'[provider'[t]] = IF active' = Nothing THEN 0 ELSE Parsed(active)'
        BY <3>1, <3>5 DEF Parsed
      <3>9. LoadOK(t)'
        BY <3>7, <3>8 DEF LoadOK
      <3> QED BY <3>6, <3>9
    <2> QED BY <1>1, <2>6, <2>7, <2>8, <2>9, <2>10, <2>11, <2>12, <2>13 DEF Step
  <1>2. ASSUME NEW t \in Threads, NEW c \in {"observe", "compile"}, Begin(t, c)
        PROVE  OneCallAfterTheOther'
    <2>1. ~concurrent /\ \A u \in Threads : pc[u] = "idle"
      BY <1>2 DEF Begin
    <2>2. pc'[t] \in {"make", "decode", "compile"} /\ \A u \in Threads \ {t} : pc'[u] = "idle"
      BY <1>0, <1>2, <2>1 DEF Begin, Go, Entered
    <2>3. \A p \in Threads : Remembers(p)'
      BY <1>2, <2>1 DEF Begin, OneCallAfterTheOther, Remembers
    <2>4. \A u \in Threads : (InCall(u)' => u = t) /\ LoadOK(u)'
      BY <2>2 DEF InCall, LoadOK
    <2> QED BY <2>3, <2>4 DEF OneCallAfterTheOther
  <1>3. CASE Restart
    BY <1>3 DEF Restart, OneCallAfterTheOther, InCall, LoadOK, Remembers
  <1>4. CASE UNCHANGED vars
    BY <1>4 DEF vars, process, files, history, OneCallAfterTheOther, InCall, LoadOK,
                Remembers, ReadsActive, Parsed
  <1> QED BY <1>1, <1>2, <1>3, <1>4 DEF Next

LEMMA InitCalls == Init => OneCallAfterTheOther
  BY DEF Init, OneCallAfterTheOther, InCall, LoadOK, Remembers

-----------------------------------------------------------------------------
(* Theorems *)

CompiledInv == Types /\ BoxesAreWritten /\ Order /\ OneCallAfterTheOther

\* The types, the files and what the calls hold fit together at every moment.
THEOREM CompiledInvariance == Spec => []CompiledInv
  <1>1. Init => CompiledInv
    BY InitTypes, InitOrder, InitCalls DEF CompiledInv
  <1>2. CompiledInv /\ [Next]_vars => CompiledInv'
    BY TypesStep, BoxesStep, OrderStep, CallsStep DEF CompiledInv
  <1> QED BY <1>1, <1>2, PTL DEF Spec

\* Whoever has a stage that needs a provider, a file or a compilation has one
\* (GamePackVisionHost._provider, DifferenceVision.compile).
THEOREM TypeCorrect == Spec => []TypeOK
  <1>1. CompiledInv => TypeOK
    <2> SUFFICES ASSUME Types PROVE TypeOK
      BY DEF CompiledInv
    <2>1. \A t \in Threads :
            /\ pc[t] # "idle" => provider[t] # Nothing
            /\ pc[t] = "read" => active # Nothing
            /\ pc[t] \in {"open temporary", "write temporary", "replace", "answer"} =>
                 call[t] = "compile" /\ mine[t] > 0
            /\ pc[t] = "write temporary" => handle[t] > 0
      BY Constants DEF Types, StageOK
    <2> QED BY <2>1 DEF Types, CallTypes, LoadTypes, FileTypes, HistoryTypes, TypeOK
  <1> QED BY <1>1, CompiledInvariance, PTL

\* Calls that overlap, tear and move the manifest of each other never bring a
\* provider to use the boxes of a manifest that was not written to its end
\* (DifferenceVision._load_compiled_bboxes).
THEOREM TornNotUsed == Spec => []TornIsNeverUsed
  <1>1. CompiledInv => TornIsNeverUsed
    BY DEF CompiledInv, BoxesAreWritten
  <1> QED BY <1>1, CompiledInvariance, PTL

\* While compilations come one after the other, over exceptions and restarts, the
\* active manifest is whole and not older than the answer (DifferenceVision.compile).
THEOREM AnsweredIsActive == Spec => []AnsweredCompilationIsActive
  <1>1. CompiledInv => AnsweredCompilationIsActive
    BY DEF CompiledInv, Order, OneAfterTheOther, AnsweredCompilationIsActive
  <1> QED BY <1>1, CompiledInvariance, PTL

\* While calls come one after the other, an observation uses the boxes of the
\* manifest that is active (DifferenceVision.observe).
THEOREM UsesActive == Spec => []ObservationUsesActive
  <1>1. CompiledInv => ObservationUsesActive
    BY DEF CompiledInv, OneCallAfterTheOther, LoadOK, ObservationUsesActive
  <1> QED BY <1>1, CompiledInvariance, PTL
=============================================================================
