----------------------------- MODULE CompiledBoxes -----------------------------
(***************************************************************************)
(* Worker threads that observe and compile with the vision provider of one *)
(* Game Pack: the provider cache of GamePackVisionHost                     *)
(* (src/src/agentic_gaming/vision_host.py), the manifest                   *)
(* active-bboxes.json that compile writes and every observation loads      *)
(* (src/game-packs/fnaf1/vision/runtime.py), and restarts of the Core.     *)
(*                                                                         *)
(* No lock protects any of it.  An action is what a thread does between    *)
(* two accesses to a file or to an attribute of the provider.  Every       *)
(* manifest that is written to the end is taken to give its file an mtime  *)
(* of its own, so that the mtime and the content of a file are told apart  *)
(* by the same record; torn states by the same writer share one.           *)
(***************************************************************************)
EXTENDS Naturals

CONSTANTS
  Threads,        \* worker threads of asyncio.to_thread
  MaxCompiles,    \* bound: compilations
  MaxRestarts,    \* bound: restarts of the Core
  Nothing         \* no provider, no file, no mtime

ASSUME ThreadsAssumption ==
  /\ Nothing \notin Threads
  /\ MaxCompiles \in Nat
  /\ MaxRestarts \in Nat

ASSUME NothingAssumption ==
  /\ Nothing \notin Nat
  /\ Nothing \notin [by : Nat, whole : BOOLEAN]

VARIABLES
  pc,             \* where the call of a thread stands
  call,           \* "observe" or "compile"
  making,         \* the thread makes a provider, and has not stored it yet
  provider,       \* the provider of the call, named after the thread that made it
  cached,         \* GamePackVisionHost._providers
  boxes,          \* _compiled_bboxes of a provider: the compilation they are of
  mtime,          \* _compiled_bbox_mtime_ns of a provider
  stamp,          \* stat in _load_compiled_bboxes, then the mtime to remember
  text,           \* the compilation whose boxes the thread has parsed, 0 for none
  temporary,      \* the file that active-bboxes.json.tmp names
  active,         \* the file that active-bboxes.json names
  file,           \* files: who wrote them last, and whether they are one manifest
  handle,         \* the file a thread has open for writing
  mine,           \* the number of the compilation of a thread
  compiled,       \* compilations begun
  restarts,
  written,        \* history: compilations whose manifest was whole in a file
  concurrent,     \* history: two calls were open at once since the Core was started
  overlapped,     \* history: two compilations were ever open at once
  answered        \* history: the last compilation answered with 200

process == <<pc, call, making, provider, cached, boxes, mtime, stamp, text>>
files == <<temporary, active, file>>
writing == <<handle, mine, compiled>>
history == <<written, concurrent, overlapped, answered>>
vars == <<process, files, writing, restarts, history>>

Files == 1..MaxCompiles

\* Files that were never written stand for no file.
Written(by, whole) == [by |-> by, whole |-> whole]

Init ==
  /\ pc = [t \in Threads |-> "idle"]
  /\ call = [t \in Threads |-> "observe"]
  /\ making = [t \in Threads |-> FALSE]
  /\ provider = [t \in Threads |-> Nothing]
  /\ cached = Nothing
  /\ boxes = [t \in Threads |-> 0]
  /\ mtime = [t \in Threads |-> Nothing]
  /\ stamp = [t \in Threads |-> Nothing]
  /\ text = [t \in Threads |-> 0]
  /\ temporary = Nothing
  /\ active = Nothing
  /\ file = [f \in Files |-> Written(0, FALSE)]
  /\ handle = [t \in Threads |-> 0]
  /\ mine = [t \in Threads |-> 0]
  /\ compiled = 0
  /\ restarts = 0
  /\ written = {}
  /\ concurrent = FALSE
  /\ overlapped = FALSE
  /\ answered = 0

Go(t, stage) == pc' = [pc EXCEPT ![t] = stage]

\* The call is over and its frame with it.
Return(t) ==
  /\ Go(t, "idle")
  /\ call' = [call EXCEPT ![t] = "observe"]
  /\ making' = [making EXCEPT ![t] = FALSE]
  /\ provider' = [provider EXCEPT ![t] = Nothing]
  /\ stamp' = [stamp EXCEPT ![t] = Nothing]
  /\ text' = [text EXCEPT ![t] = 0]
  /\ handle' = [handle EXCEPT ![t] = 0]
  /\ mine' = [mine EXCEPT ![t] = 0]

\* Broken on purpose: what the calls of other threads have stored is not seen.
FoundOfThread(t) == IF provider[t] = t THEN t ELSE Nothing

\* _provider looks into the cache once.
Found(t) == cached

\* The first stage of the call itself, once it has a provider.
Entered(c) == IF c = "observe" THEN "decode" ELSE "compile"

-----------------------------------------------------------------------------
(* GamePackVisionHost._provider *)

Begin(t, c) ==
  /\ pc[t] = "idle"
  /\ call' = [call EXCEPT ![t] = c]
  /\ concurrent' = (concurrent \/ \E u \in Threads : pc[u] # "idle")
  /\ overlapped' =
       (overlapped \/ (c = "compile" /\ \E u \in Threads :
                                          pc[u] # "idle" /\ call[u] = "compile"))
  /\ provider' = [provider EXCEPT ![t] = IF Found(t) = Nothing THEN t ELSE Found(t)]
  /\ making' = [making EXCEPT ![t] = Found(t) = Nothing]
  /\ Go(t, IF Found(t) = Nothing THEN "make" ELSE Entered(c))
  /\ UNCHANGED <<cached, boxes, mtime, stamp, text, files, writing,
                 restarts, written, answered>>

\* The module is loaded and DifferenceVision.__init__ begins.
Make(t) ==
  /\ pc[t] = "make"
  /\ boxes' = [boxes EXCEPT ![t] = 0]
  /\ mtime' = [mtime EXCEPT ![t] = Nothing]
  /\ Go(t, "stat")
  /\ UNCHANGED <<call, making, provider, cached, stamp, text, files, writing,
                 restarts, history>>

Store(t) ==
  /\ pc[t] = "store"
  /\ cached' = t
  /\ making' = [making EXCEPT ![t] = FALSE]
  /\ Go(t, Entered(call[t]))
  /\ UNCHANGED <<call, provider, boxes, mtime, stamp, text, files, writing,
                 restarts, history>>

\* A provider cannot be made, a frame not decoded, a reference not read or a
\* file not written, or a torn manifest is no UTF-8, which is not caught: the
\* call ends with an exception.
Raise(t) ==
  /\ \/ pc[t] \in {"make", "decode", "compile", "write temporary"}
     \/ pc[t] = "read" /\ ~file[active].whole
  /\ Return(t)
  /\ UNCHANGED <<cached, boxes, mtime, files, compiled, restarts, history>>

-----------------------------------------------------------------------------
(* DifferenceVision._load_compiled_bboxes *)

Loaded(t) ==
  CASE making[t] -> "store"
    [] ~making[t] /\ call[t] = "observe" -> "detect"
    [] OTHER -> "answer"

ActiveStamp == IF active = Nothing THEN Nothing ELSE file[active]

\* Broken on purpose: a manifest that was loaded once is not looked at again.
IsLoadedOnce(t) == mtime[provider[t]] # Nothing

IsLoaded(t) == active # Nothing /\ ActiveStamp = mtime[provider[t]]

Stat(t) ==
  /\ pc[t] = "stat"
  /\ stamp' = [stamp EXCEPT ![t] = ActiveStamp]
  /\ text' = [text EXCEPT ![t] = 0]
  /\ Go(t, CASE IsLoaded(t) -> Loaded(t)
             [] ~IsLoaded(t) /\ active = Nothing -> "assign"
             [] OTHER -> "read")
  /\ UNCHANGED <<call, making, provider, cached, boxes, mtime, files, writing,
                 restarts, history>>

\* Broken on purpose: what can be read of a manifest is used.
ReadLeniently(f) == file[f].by

\* A manifest that does not parse has no boxes.
Parsed(f) == IF file[f].whole THEN file[f].by ELSE 0

\* The manifest may be another one than stat saw.  When it cannot be parsed its
\* mtime is not remembered.
Read(t) ==
  /\ pc[t] = "read"
  /\ text' = [text EXCEPT ![t] = Parsed(active)]
  /\ stamp' = [stamp EXCEPT ![t] = IF file[active].whole THEN @ ELSE Nothing]
  /\ Go(t, "assign")
  /\ UNCHANGED <<call, making, provider, cached, boxes, mtime, files, writing,
                 restarts, history>>

AssignBoxes(t) ==
  /\ pc[t] = "assign"
  /\ boxes' = [boxes EXCEPT ![provider[t]] = text[t]]
  /\ Go(t, "remember")
  /\ UNCHANGED <<call, making, provider, cached, mtime, stamp, text, files, writing,
                 restarts, history>>

RememberStamp(t) ==
  /\ pc[t] = "remember"
  /\ mtime' = [mtime EXCEPT ![provider[t]] = stamp[t]]
  /\ Go(t, Loaded(t))
  /\ UNCHANGED <<call, making, provider, cached, boxes, stamp, text, files, writing,
                 restarts, history>>

-----------------------------------------------------------------------------
(* DifferenceVision.observe *)

Decode(t) ==
  /\ pc[t] = "decode"
  /\ Go(t, "stat")
  /\ UNCHANGED <<call, making, provider, cached, boxes, mtime, stamp, text, files,
                 writing, restarts, history>>

\* The candidates are evaluated with the boxes of the provider, and the
\* observation is returned.
Detect(t) ==
  /\ pc[t] = "detect"
  /\ Return(t)
  /\ UNCHANGED <<cached, boxes, mtime, files, compiled, restarts, history>>

-----------------------------------------------------------------------------
(* DifferenceVision.compile *)

\* The references are compiled and the artifacts written to a directory of this
\* compilation.
CompileReferences(t) ==
  /\ pc[t] = "compile"
  /\ compiled < MaxCompiles
  /\ compiled' = compiled + 1
  /\ mine' = [mine EXCEPT ![t] = compiled + 1]
  /\ Go(t, "open temporary")
  /\ UNCHANGED <<call, making, provider, cached, boxes, mtime, stamp, text, files,
                 handle, restarts, history>>

\* Broken on purpose: the manifest is written in its place.
OpenActive(t) == IF active = Nothing THEN temporary ELSE active

\* The temporary manifest has one name for all compilations.
Opened(t) == temporary

\* write_text empties the file of that name, or makes one.
OpenTemporary(t) ==
  LET f == IF Opened(t) = Nothing THEN mine[t] ELSE Opened(t)
  IN /\ pc[t] = "open temporary"
     /\ temporary' = IF Opened(t) = Nothing THEN f ELSE temporary
     /\ handle' = [handle EXCEPT ![t] = f]
     /\ file' = [file EXCEPT ![f] = Written(mine[t], FALSE)]
     /\ Go(t, "write temporary")
     /\ UNCHANGED <<call, making, provider, cached, boxes, mtime, stamp, text, active,
                    mine, compiled, restarts, history>>

\* Some of the manifest is written over the one that another compilation has
\* completed in the same file meanwhile.
WritePart(t) ==
  /\ pc[t] = "write temporary"
  /\ file[handle[t]].whole
  /\ file' = [file EXCEPT ![handle[t]].whole = FALSE]
  /\ UNCHANGED <<process, temporary, active, writing, restarts, history>>

\* If another compilation has opened or written the file since, its tail may stand
\* behind a shorter manifest, or the beginning of this one be emptied.
MayBeWhole(t) == IF file[handle[t]].by = mine[t] THEN {TRUE} ELSE BOOLEAN

WriteTemporary(t) ==
  /\ pc[t] = "write temporary"
  /\ \E whole \in MayBeWhole(t) :
       /\ file' = [file EXCEPT ![handle[t]] = Written(mine[t], whole)]
       /\ written' = IF whole THEN written \cup {mine[t]} ELSE written
  /\ Go(t, "replace")
  /\ UNCHANGED <<call, making, provider, cached, boxes, mtime, stamp, text, temporary,
                 active, writing, restarts, concurrent, overlapped, answered>>

\* os.replace; a temporary manifest that another compilation has moved is not
\* found, and the call raises FileNotFoundError.
Replace(t) ==
  /\ pc[t] = "replace"
  /\ \/ /\ temporary # Nothing
        /\ active' = temporary
        /\ temporary' = Nothing
        /\ Go(t, "stat")
        /\ UNCHANGED <<call, making, provider, stamp, text, handle, mine>>
     \/ /\ temporary = Nothing
        /\ Return(t)
        /\ UNCHANGED <<active, temporary>>
  /\ UNCHANGED <<cached, boxes, mtime, file, compiled, restarts, history>>

AnswerCompile(t) ==
  /\ pc[t] = "answer"
  /\ answered' = mine[t]
  /\ Return(t)
  /\ UNCHANGED <<cached, boxes, mtime, files, compiled, restarts, written, concurrent,
                 overlapped>>

-----------------------------------------------------------------------------
\* The Core is stopped with its threads and providers, and started again.  The
\* files stay.
Restart ==
  /\ restarts < MaxRestarts
  /\ restarts' = restarts + 1
  /\ pc' = [t \in Threads |-> "idle"]
  /\ call' = [t \in Threads |-> "observe"]
  /\ making' = [t \in Threads |-> FALSE]
  /\ provider' = [t \in Threads |-> Nothing]
  /\ cached' = Nothing
  /\ boxes' = [t \in Threads |-> 0]
  /\ mtime' = [t \in Threads |-> Nothing]
  /\ stamp' = [t \in Threads |-> Nothing]
  /\ text' = [t \in Threads |-> 0]
  /\ handle' = [t \in Threads |-> 0]
  /\ mine' = [t \in Threads |-> 0]
  /\ concurrent' = FALSE
  /\ UNCHANGED <<files, compiled, written, overlapped, answered>>

Step(t) ==
  \/ Make(t)
  \/ Store(t)
  \/ Raise(t)
  \/ Stat(t)
  \/ Read(t)
  \/ AssignBoxes(t)
  \/ RememberStamp(t)
  \/ Decode(t)
  \/ Detect(t)
  \/ CompileReferences(t)
  \/ OpenTemporary(t)
  \/ WritePart(t)
  \/ WriteTemporary(t)
  \/ Replace(t)
  \/ AnswerCompile(t)

Next ==
  \/ \E t \in Threads : Step(t)
  \/ \E t \in Threads, c \in {"observe", "compile"} : Begin(t, c)
  \/ Restart

\* A call that was begun goes on; nothing says that another one is begun.
Fairness == \A t \in Threads : WF_vars(Step(t))

Spec == Init /\ [][Next]_vars /\ Fairness

-----------------------------------------------------------------------------
(* Properties *)

Stages == {"idle", "make", "store", "decode", "compile", "stat", "read", "assign",
           "remember", "detect", "open temporary", "write temporary", "replace",
           "answer"}

Compilations == 0..MaxCompiles

Stamps == [by : Compilations, whole : BOOLEAN] \cup {Nothing}

\* The variables hold values of their kind, and whoever has a stage that needs a
\* provider, a file or a compilation has one.
TypeOK ==
  /\ pc \in [Threads -> Stages]
  /\ call \in [Threads -> {"observe", "compile"}]
  /\ making \in [Threads -> BOOLEAN]
  /\ provider \in [Threads -> Threads \cup {Nothing}]
  /\ cached \in Threads \cup {Nothing}
  /\ boxes \in [Threads -> Compilations]
  /\ mtime \in [Threads -> Stamps]
  /\ stamp \in [Threads -> Stamps]
  /\ text \in [Threads -> Compilations]
  /\ temporary \in Files \cup {Nothing}
  /\ active \in Files \cup {Nothing}
  /\ file \in [Files -> [by : Compilations, whole : BOOLEAN]]
  /\ handle \in [Threads -> 0..MaxCompiles]
  /\ mine \in [Threads -> Compilations]
  /\ compiled \in Compilations
  /\ restarts \in 0..MaxRestarts
  /\ written \subseteq Compilations
  /\ concurrent \in BOOLEAN
  /\ overlapped \in BOOLEAN
  /\ answered \in Compilations
  /\ \A t \in Threads :
       /\ pc[t] # "idle" => provider[t] # Nothing
       /\ pc[t] = "read" => active # Nothing
       /\ pc[t] \in {"open temporary", "write temporary", "replace", "answer"} =>
            call[t] = "compile" /\ mine[t] > 0
       /\ pc[t] = "write temporary" => handle[t] > 0

\* docs/beta4-compilacao-visual.md:19: a compilation updates the active
\* manifest.  As long as no two compilations overlap, the active manifest is one
\* compilation to the end at every moment, also after one was interrupted by an
\* exception or by a stop of the Core, and once a caller has its answer it is of
\* that compilation or a later one.
AnsweredCompilationIsActive ==
  ~overlapped =>
    /\ active # Nothing => file[active].whole
    /\ answered > 0 => active # Nothing /\ file[active].by >= answered

\* Compilations that overlap may leave a torn manifest in place, one that mixes the
\* two of them, and may tear it at any moment of a load.  The boxes in use still
\* are those of one manifest that was whole, or none.
TornIsNeverUsed == \A t \in Threads : boxes[t] # 0 => boxes[t] \in written

\* docs/beta4-compilacao-visual.md:19: the runtime reads the manifest and uses
\* its boxes.  As long as calls come one after the other since the Core was
\* started, over compilations that succeed or raise, an observation uses the
\* boxes of the active manifest.
ObservationUsesActive ==
  ~concurrent =>
    \A t \in Threads : pc[t] = "detect" =>
      boxes[provider[t]] = IF active = Nothing THEN 0 ELSE Parsed(active)

\* Threads that find no provider at the same time make one each and store them
\* over each other.  From some moment on all calls work with the same provider
\* nevertheless.
ProvidersConverge ==
  <>[](\A t \in Threads :
         pc[t] \notin {"idle", "make"} /\ ~making[t] => provider[t] = cached)
=============================================================================
