------------------------ MODULE BridgeConnectionsProofs ------------------------
(***************************************************************************)
(* The connections of the Host Bridge, for any number of clients and       *)
(* frames.                                                                 *)
(*                                                                         *)
(* Two things carry the properties.  As long as no client has connected    *)
(* while another's handler was open, at most one handler runs, and what    *)
(* the Core knows of the Bridge is of that one.  And what a client still   *)
(* has to show is in order: a frame in its worker was captured before the  *)
(* one in its slot, that before those in transit, and all of them after    *)
(* the vision that is shown.                                               *)
(***************************************************************************)
EXTENDS BridgeConnections, TLAPS

\* The frames among messages were captured after n.
After(messages, n) ==
  \A i \in DOMAIN messages : messages[i] # Hello => messages[i].number > n

\* The frames of c that no worker has taken were captured after n.
Fresh(c, n) ==
  /\ After(transit[c], n)
  /\ pending[c] # Nothing => pending[c].number > n

InOrder(messages) ==
  \A i, j \in DOMAIN messages :
    i < j /\ messages[i] # Hello /\ messages[j] # Hello =>
      messages[i].number < messages[j].number

UpTo(messages, n) ==
  \A i \in DOMAIN messages : messages[i] # Hello => messages[i].number <= n

FramesInOrder(c) ==
  /\ InOrder(transit[c])
  /\ UpTo(transit[c], captured)
  /\ pending[c] # Nothing =>
       pending[c].number <= captured /\ After(transit[c], pending[c].number)
  /\ work[c] # Nothing =>
       work[c].frame.number <= captured /\ Fresh(c, work[c].frame.number)
  /\ handler[c] = "waiting" => transit[c] # <<>> /\ Head(transit[c]) # Hello

\* Whether frames of c can be compared with the vision that is shown.
Follows(c) == latestVision # Nothing /\ (~overlapped \/ latestVision.client = c)

AfterVision(c) ==
  Follows(c) =>
    /\ Fresh(c, latestVision.number)
    /\ work[c] # Nothing /\ work[c].stage = "observing" =>
         work[c].frame.number > latestVision.number

OneAtATime == ~overlapped => \A c, d \in Clients : HandlerRuns(c) /\ HandlerRuns(d) => c = d

\* The handler that runs has read its hello, or has done nothing else yet.
Greets(c) ==
  \/ greeted = c
  \/ /\ handler[c] = "open" /\ pending[c] = Nothing /\ work[c] = Nothing
     /\ transit[c] # <<>> /\ Head(transit[c]) = Hello

Greeting ==
  ~overlapped => \A c \in Clients :
    /\ HandlerRuns(c) => Greets(c)
    /\ work[c] # Nothing => work[c].pack = c

Messages == AllFrames \cup {Hello}

NewHasNone == \A c \in Clients : client[c] = "new" => handler[c] = "none"

IInv ==
  /\ TypeOK
  /\ NewHasNone
  /\ OneAtATime
  /\ Greeting
  /\ \A c \in Clients : FramesInOrder(c) /\ AfterVision(c)
  /\ latestVision # Nothing => latestVision.number <= captured
  /\ NobodyConnectedIsShown
  /\ StatusShowsConnection
  /\ FrameGoesToItsRun

-----------------------------------------------------------------------------
(* Messages in transit *)

LEMMA FrameNumbers == \A f \in AllFrames : f.number \in Nat /\ f.client \in Clients
  BY ConnectionsAssumption DEF AllFrames

LEMMA HeadAndTail ==
  ASSUME NEW messages \in Seq(Messages), messages # <<>>
  PROVE  /\ Head(messages) \in Messages /\ Head(messages) = messages[1]
         /\ 1 \in DOMAIN messages
         /\ Tail(messages) \in Seq(Messages)
         /\ \A i \in DOMAIN Tail(messages) :
              i \in Nat /\ i >= 1 /\ i + 1 \in DOMAIN messages
                /\ Tail(messages)[i] = messages[i + 1]
  OBVIOUS

LEMMA TailInOrder ==
  ASSUME NEW messages \in Seq(Messages), messages # <<>>, NEW n
  PROVE  /\ After(messages, n) => After(Tail(messages), n)
         /\ After(messages, n) /\ Head(messages) # Hello => Head(messages).number > n
         /\ UpTo(messages, n) => UpTo(Tail(messages), n)
         /\ UpTo(messages, n) /\ Head(messages) # Hello => Head(messages).number <= n
         /\ InOrder(messages) => InOrder(Tail(messages))
         /\ InOrder(messages) /\ Head(messages) # Hello =>
              After(Tail(messages), Head(messages).number)
  <1>1. After(messages, n) => After(Tail(messages), n)
    BY HeadAndTail DEF After
  <1>2. After(messages, n) /\ Head(messages) # Hello => Head(messages).number > n
    BY HeadAndTail DEF After
  <1>3. UpTo(messages, n) => UpTo(Tail(messages), n)
    BY HeadAndTail DEF UpTo
  <1>4. UpTo(messages, n) /\ Head(messages) # Hello => Head(messages).number <= n
    BY HeadAndTail DEF UpTo
  <1>5. InOrder(messages) => InOrder(Tail(messages))
    <2> SUFFICES ASSUME InOrder(messages), NEW i \in DOMAIN Tail(messages),
                        NEW j \in DOMAIN Tail(messages), i < j,
                        Tail(messages)[i] # Hello, Tail(messages)[j] # Hello
                 PROVE  Tail(messages)[i].number < Tail(messages)[j].number
      BY DEF InOrder
    <2>1. i + 1 \in DOMAIN messages /\ j + 1 \in DOMAIN messages /\ i + 1 < j + 1
      BY HeadAndTail
    <2> QED BY <2>1, HeadAndTail DEF InOrder
  <1>6. InOrder(messages) /\ Head(messages) # Hello =>
          After(Tail(messages), Head(messages).number)
    <2> SUFFICES ASSUME InOrder(messages), Head(messages) # Hello,
                        NEW i \in DOMAIN Tail(messages), Tail(messages)[i] # Hello
                 PROVE  Tail(messages)[i].number > Head(messages).number
      BY DEF After
    <2>1. 1 \in DOMAIN messages /\ i + 1 \in DOMAIN messages /\ 1 < i + 1
      BY HeadAndTail
    <2>2. messages[1] # Hello /\ messages[i + 1] # Hello
      BY HeadAndTail
    <2>3. messages[1].number < messages[i + 1].number
      BY <2>1, <2>2 DEF InOrder
    <2>4. messages[1] \in AllFrames /\ messages[i + 1] \in AllFrames
      BY <2>1, <2>2 DEF Messages
    <2> QED BY <2>3, <2>4, HeadAndTail, FrameNumbers
  <1> QED BY <1>1, <1>2, <1>3, <1>4, <1>5, <1>6

LEMMA Appended ==
  ASSUME NEW messages \in Seq(Messages), NEW f \in Messages
  PROVE  /\ Append(messages, f) \in Seq(Messages)
         /\ \A i \in DOMAIN Append(messages, f) :
              \/ i \in DOMAIN messages /\ Append(messages, f)[i] = messages[i]
                   /\ i \in Nat /\ i < Len(messages) + 1
              \/ i = Len(messages) + 1 /\ Append(messages, f)[i] = f
         /\ Len(messages) \in Nat
         /\ messages # <<>> => Head(Append(messages, f)) = Head(messages)
         /\ Append(messages, f) # <<>>
  OBVIOUS

LEMMA AppendInOrder ==
  ASSUME NEW messages \in Seq(Messages), NEW f \in AllFrames, NEW n \in Nat,
         UpTo(messages, n), f.number = n + 1
  PROVE  /\ \A m \in Nat : m <= n /\ After(messages, m) => After(Append(messages, f), m)
         /\ InOrder(messages) => InOrder(Append(messages, f))
         /\ UpTo(Append(messages, f), n + 1)
  <1>1. f \in Messages /\ f.number \in Nat
    BY FrameNumbers DEF Messages
  <1>2. \A i \in DOMAIN messages : messages[i] # Hello =>
          messages[i].number \in Nat /\ messages[i].number <= n
    BY FrameNumbers DEF UpTo, Messages
  <1>3. \A m \in Nat : m <= n /\ After(messages, m) => After(Append(messages, f), m)
    BY <1>1, Appended DEF After
  <1>4. InOrder(messages) => InOrder(Append(messages, f))
    <2> SUFFICES ASSUME InOrder(messages), NEW i \in DOMAIN Append(messages, f),
                        NEW j \in DOMAIN Append(messages, f), i < j,
                        Append(messages, f)[i] # Hello, Append(messages, f)[j] # Hello
                 PROVE  Append(messages, f)[i].number < Append(messages, f)[j].number
      BY DEF InOrder
    <2>1. CASE j \in DOMAIN messages /\ j < Len(messages) + 1
      <3>1. i # Len(messages) + 1
        BY <2>1, <1>1, Appended
      <3> QED BY <2>1, <3>1, <1>1, Appended DEF InOrder
    <2>2. CASE j = Len(messages) + 1
      <3>1. i # Len(messages) + 1 /\ Append(messages, f)[j] = f
        BY <2>2, <1>1, Appended
      <3> QED BY <2>2, <3>1, <1>1, <1>2, Appended
    <2> QED BY <2>1, <2>2, <1>1, Appended
  <1>5. UpTo(Append(messages, f), n + 1)
    BY <1>1, <1>2, Appended DEF UpTo
  <1> QED BY <1>3, <1>4, <1>5

LEMMA HelloInOrder ==
  /\ <<Hello>> \in Seq(Messages) /\ <<Hello>> # <<>> /\ Head(<<Hello>>) = Hello
  /\ \A i \in DOMAIN <<Hello>> : <<Hello>>[i] = Hello
  /\ \A n : After(<<Hello>>, n) /\ UpTo(<<Hello>>, n)
  /\ InOrder(<<Hello>>)
  <1>1. <<Hello>> \in Seq(Messages) /\ <<Hello>> # <<>> /\ Head(<<Hello>>) = Hello
        /\ \A i \in DOMAIN <<Hello>> : <<Hello>>[i] = Hello
    BY DEF Messages
  <1> QED BY <1>1 DEF After, UpTo, InOrder

LEMMA NoneInOrder ==
  /\ <<>> \in Seq(Messages)
  /\ \A n : After(<<>>, n) /\ UpTo(<<>>, n)
  /\ InOrder(<<>>)
  BY DEF After, UpTo, InOrder


-----------------------------------------------------------------------------
(* The steps *)

LEMMA TypeFacts ==
  ASSUME IInv
  PROVE  /\ TypeOK /\ captured \in Nat /\ MaxCaptured \in Nat
         /\ \A c \in Clients :
              /\ transit[c] \in Seq(Messages)
              /\ \A i \in DOMAIN transit[c] :
                   transit[c][i] # Hello => transit[c][i].number \in Nat
              /\ pending[c] # Nothing => pending[c] \in AllFrames /\ pending[c].number \in Nat
              /\ work[c] # Nothing =>
                   work[c] \in Works /\ work[c].frame.number \in Nat
         /\ latestVision # Nothing => latestVision.number \in Nat
  <1>1. TypeOK /\ captured \in Nat /\ MaxCaptured \in Nat
    BY ConnectionsAssumption DEF IInv, TypeOK
  <1>2. ASSUME NEW c \in Clients
        PROVE  transit[c] \in Seq(Messages)
    BY <1>1 DEF TypeOK, Messages
  <1>3. ASSUME NEW c \in Clients, NEW i \in DOMAIN transit[c], transit[c][i] # Hello
        PROVE  transit[c][i].number \in Nat
    <2>1. transit[c][i] \in Messages
      BY <1>2
    <2> QED BY <1>3, <2>1, FrameNumbers DEF Messages
  <1>4. ASSUME NEW c \in Clients, pending[c] # Nothing
        PROVE  pending[c] \in AllFrames /\ pending[c].number \in Nat
    BY <1>1, <1>4, FrameNumbers DEF TypeOK
  <1>5. ASSUME NEW c \in Clients, work[c] # Nothing
        PROVE  work[c] \in Works /\ work[c].frame.number \in Nat
    <2>1. work[c] \in Works
      BY <1>1, <1>5 DEF TypeOK
    <2>2. work[c].frame \in AllFrames
      BY <2>1 DEF Works
    <2> QED BY <2>1, <2>2, FrameNumbers
  <1>6. latestVision # Nothing => latestVision.number \in Nat
    BY <1>1, FrameNumbers DEF TypeOK
  <1> QED BY <1>1, <1>2, <1>3, <1>4, <1>5, <1>6

\* A client whose handler does nothing keeps its frames in order.
LEMMA Untouched ==
  ASSUME IInv, NEW d \in Clients,
         handler'[d] = handler[d], transit'[d] = transit[d],
         pending'[d] = pending[d], work'[d] = work[d],
         captured' \in Nat, captured <= captured',
         latestVision' = latestVision, overlapped => overlapped'
  PROVE  FramesInOrder(d)' /\ AfterVision(d)'
  <1>1. FramesInOrder(d) /\ AfterVision(d)
    BY DEF IInv
  <1>2. UpTo(transit[d], captured)
    BY <1>1 DEF FramesInOrder
  <1>3. UpTo(transit'[d], captured')
    <2> SUFFICES ASSUME NEW i \in DOMAIN transit[d], transit[d][i] # Hello
                 PROVE  transit[d][i].number <= captured'
      BY DEF UpTo
    <2>1. transit[d][i].number \in Nat /\ captured \in Nat
      BY TypeFacts
    <2>2. transit[d][i].number <= captured
      BY <1>2 DEF UpTo
    <2> QED BY <2>1, <2>2
  <1>4. pending'[d] # Nothing => pending'[d].number <= captured'
    <2>1. pending[d] # Nothing =>
            pending[d].number \in Nat /\ captured \in Nat /\ pending[d].number <= captured
      BY <1>1, TypeFacts DEF FramesInOrder
    <2> QED BY <2>1
  <1>5. work'[d] # Nothing => work'[d].frame.number <= captured'
    <2>1. work[d] # Nothing => work[d].frame.number \in Nat /\ captured \in Nat
                                /\ work[d].frame.number <= captured
      BY <1>1, TypeFacts DEF FramesInOrder
    <2> QED BY <2>1
  <1>6. FramesInOrder(d)'
    BY <1>1, <1>3, <1>4, <1>5 DEF FramesInOrder, Fresh
  <1>7. AfterVision(d)'
    BY <1>1 DEF AfterVision, Follows, Fresh
  <1> QED BY <1>6, <1>7

LEMMA InitInv == Init => IInv
  <1> SUFFICES ASSUME Init PROVE IInv
    OBVIOUS
  <1>1. captured \in 0..MaxCaptured
    BY ConnectionsAssumption DEF Init
  <1>2. transit \in [Clients -> Seq(AllFrames \cup {Hello})]
    BY DEF Init
  <1>3. TypeOK
    <2>1. /\ client \in [Clients -> {"new", "live", "gone"}]
          /\ handler \in [Clients -> {"none", "open", "waiting", "ended"}]
          /\ pending \in [Clients -> AllFrames \cup {Nothing}]
          /\ newest \in [Clients -> AllFrames \cup {Nothing}]
          /\ work \in [Clients -> Works \cup {Nothing}]
      BY DEF Init
    <2>2. \A c \in Clients : /\ transit[c] = <<>> /\ pending[c] = Nothing
                              /\ work[c] = Nothing
      BY DEF Init
    <2>3. overlapped \in BOOLEAN /\ raised \in BOOLEAN
      BY DEF Init
    <2>4. /\ status \in {"CONNECTED", "DISCONNECTED"}
          /\ greeted \in Clients \cup {Nothing}
          /\ latestVision \in AllFrames \cup {Nothing} /\ ingested = {}
      BY DEF Init
    <2> QED BY <1>1, <1>2, <2>1, <2>2, <2>3, <2>4 DEF TypeOK
  <1>4. \A c \in Clients : ~HandlerRuns(c) /\ client[c] = "new" /\ handler[c] = "none"
                            /\ work[c] = Nothing
    BY DEF Init, HandlerRuns
  <1>5. NewHasNone /\ OneAtATime /\ Greeting
    BY <1>4 DEF NewHasNone, OneAtATime, Greeting
  <1>6. \A c \in Clients : FramesInOrder(c) /\ AfterVision(c)
    BY NoneInOrder DEF Init, FramesInOrder, AfterVision, Follows
  <1>7. NobodyConnectedIsShown /\ StatusShowsConnection /\ FrameGoesToItsRun
    BY <1>4 DEF Init, NobodyConnectedIsShown, StatusShowsConnection, FrameGoesToItsRun
  <1> QED BY <1>3, <1>5, <1>6, <1>7 DEF Init, IInv

\* The worker has nothing more to do with its frame.
LEMMA WorkerStops ==
  ASSUME IInv, NEW c \in Clients, work' = [work EXCEPT ![c] = Nothing],
         UNCHANGED <<client, handler, transit, pending, newest, status, greeted,
                     latestVision, captured, history>>,
         ingested' \subseteq
           [frame : AllFrames, pack : Clients \cup {Nothing}, run : Clients \cup {Nothing}],
         FrameGoesToItsRun'
  PROVE  IInv'
  <1>1. UNCHANGED <<client, handler, transit, pending, newest, status, greeted,
                    latestVision, captured, overlapped, raised>>
    BY DEF history
  <1>2. \A d \in Clients : work'[d] = IF d = c THEN Nothing ELSE work[d]
    BY TypeFacts DEF TypeOK
  <1>3. TypeOK'
    <2>1. work' \in [Clients -> Works \cup {Nothing}]
      BY TypeFacts DEF TypeOK
    <2> QED BY <1>1, <1>2, <2>1, TypeFacts DEF TypeOK, HandlerRuns
  <1>4. NewHasNone' /\ OneAtATime' /\ NobodyConnectedIsShown' /\ StatusShowsConnection'
    BY <1>1 DEF IInv, NewHasNone, OneAtATime, NobodyConnectedIsShown,
                StatusShowsConnection, HandlerRuns
  <1>5. Greeting'
    BY <1>1, <1>2 DEF IInv, Greeting, Greets, HandlerRuns
  <1>6. ASSUME NEW d \in Clients PROVE FramesInOrder(d)' /\ AfterVision(d)'
    BY <1>1, <1>2 DEF IInv, FramesInOrder, AfterVision, Follows, Fresh
  <1> QED BY <1>1, <1>3, <1>4, <1>5, <1>6 DEF IInv


LEMMA LeaveInv ==
  ASSUME IInv, NEW c \in Clients, client[c] # "new",
         client' = [client EXCEPT ![c] = "gone"],
         UNCHANGED <<handler, transit, pending, newest, work, shared, captured, history>>
  PROVE  IInv'
  <1>1. UNCHANGED <<handler, transit, pending, newest, work, status, greeted,
                    latestVision, ingested, captured, overlapped, raised>>
    BY DEF history, shared
  <1>2. client' \in [Clients -> {"new", "live", "gone"}]
        /\ \A d \in Clients : client'[d] = "new" => client[d] = "new"
    BY TypeFacts DEF TypeOK
  <1>3. TypeOK'
    BY <1>1, <1>2, TypeFacts DEF TypeOK, HandlerRuns
  <1>4. NewHasNone'
    BY <1>1, <1>2 DEF IInv, NewHasNone
  <1>5. OneAtATime' /\ NobodyConnectedIsShown' /\ StatusShowsConnection' /\ FrameGoesToItsRun'
    BY <1>1 DEF IInv, OneAtATime, NobodyConnectedIsShown,
                StatusShowsConnection, HandlerRuns, FrameGoesToItsRun
  <1>6. Greeting'
    BY <1>1 DEF IInv, Greeting, Greets, HandlerRuns
  <1>7. ASSUME NEW d \in Clients PROVE FramesInOrder(d)' /\ AfterVision(d)'
    BY <1>1, TypeFacts, Untouched
  <1> QED BY <1>1, <1>3, <1>4, <1>5, <1>6, <1>7 DEF IInv

LEMMA ConnectInv == \A c \in Clients : IInv /\ Connect(c) => IInv'
  <1> SUFFICES ASSUME NEW c \in Clients, IInv, Connect(c) PROVE IInv'
    OBVIOUS
  <1>1. /\ client[c] = "new"
        /\ client' = [client EXCEPT ![c] = "live"]
        /\ handler' = [handler EXCEPT ![c] = "open"]
        /\ transit' = [transit EXCEPT ![c] = <<Hello>>]
        /\ status' = "CONNECTED"
        /\ overlapped' = (overlapped \/ \E other \in Clients : HandlerRuns(other))
        /\ UNCHANGED <<pending, newest, work, greeted, latestVision, ingested, captured,
                       raised>>
    BY DEF Connect, StatusOfConnect
  <1>2. handler[c] = "none" /\ ~HandlerRuns(c)
    BY <1>1 DEF IInv, NewHasNone, HandlerRuns
  <1>3. transit[c] = <<>> /\ pending[c] = Nothing /\ work[c] = Nothing
    BY <1>2, TypeFacts DEF TypeOK
  <1>4. \A d \in Clients : /\ client'[d] = IF d = c THEN "live" ELSE client[d]
                           /\ handler'[d] = IF d = c THEN "open" ELSE handler[d]
                           /\ transit'[d] = IF d = c THEN <<Hello>> ELSE transit[d]
    BY <1>1, TypeFacts DEF TypeOK
  <1>5. TypeOK'
    <2>1. transit' \in [Clients -> Seq(AllFrames \cup {Hello})]
      BY <1>1, HelloInOrder, TypeFacts DEF TypeOK, Messages
    <2>2. client' \in [Clients -> {"new", "live", "gone"}]
          /\ handler' \in [Clients -> {"none", "open", "waiting", "ended"}]
      BY <1>1, TypeFacts DEF TypeOK
    <2>3. overlapped' \in BOOLEAN
      BY <1>1, TypeFacts DEF TypeOK
    <2>4. ASSUME NEW d \in Clients
          PROVE  /\ \A i \in DOMAIN transit'[d] :
                      transit'[d][i] # Hello => transit'[d][i].client = d
                 /\ pending[d] # Nothing => pending[d].client = d
                 /\ work[d] # Nothing => work[d].frame.client = d
                 /\ ~HandlerRuns(d)' =>
                      transit'[d] = <<>> /\ pending[d] = Nothing /\ work[d] = Nothing
      <3>1. CASE d = c
        BY <1>3, <1>4, <3>1, HelloInOrder DEF HandlerRuns
      <3>2. CASE d # c
        BY <1>4, <3>2, TypeFacts DEF HandlerRuns, TypeOK
      <3> QED BY <3>1, <3>2
    <2>5. status' \in {"CONNECTED", "DISCONNECTED"}
      BY <1>1
    <2> QED BY <1>1, <2>1, <2>2, <2>3, <2>4, <2>5, TypeFacts DEF TypeOK
  <1>6. NewHasNone'
    BY <1>4 DEF IInv, NewHasNone
  <1>7. ~overlapped' => ~overlapped /\ \A d \in Clients : HandlerRuns(d)' => d = c
    BY <1>1, <1>4 DEF HandlerRuns
  <1>8. OneAtATime'
    BY <1>7 DEF OneAtATime
  <1>9. HandlerRuns(c)'
    BY <1>4 DEF HandlerRuns
  <1>10. NobodyConnectedIsShown' /\ StatusShowsConnection'
    BY <1>1, <1>9 DEF NobodyConnectedIsShown, StatusShowsConnection
  <1>11. FrameGoesToItsRun'
    BY <1>1, <1>7 DEF IInv, FrameGoesToItsRun
  <1>12. Greeting'
    <2>1. Greets(c)'
      BY <1>1, <1>3, <1>4, HelloInOrder DEF Greets
    <2>2. ~overlapped' => \A d \in Clients : work'[d] # Nothing => work'[d].pack = d
      BY <1>1, <1>7 DEF IInv, Greeting
    <2> QED BY <1>7, <2>1, <2>2 DEF Greeting
  <1>13. ASSUME NEW d \in Clients PROVE FramesInOrder(d)' /\ AfterVision(d)'
    <2>1. CASE d = c
      <3>1. transit'[c] = <<Hello>> /\ pending'[c] = Nothing /\ work'[c] = Nothing
            /\ handler'[c] = "open"
        BY <1>1, <1>3, <1>4
      <3>2. FramesInOrder(c)'
        BY <3>1, HelloInOrder DEF FramesInOrder
      <3>3. AfterVision(c)'
        BY <3>1, HelloInOrder DEF AfterVision, Fresh
      <3> QED BY <2>1, <3>2, <3>3
    <2>2. CASE d # c
      <3>1. overlapped => overlapped'
        BY <1>1
      <3>2. /\ handler'[d] = handler[d] /\ transit'[d] = transit[d]
            /\ pending'[d] = pending[d] /\ work'[d] = work[d]
            /\ latestVision' = latestVision /\ captured' = captured
        BY <1>1, <1>4, <2>2
      <3>3. captured' \in Nat /\ captured <= captured'
        BY <3>2, TypeFacts
      <3> QED BY <3>1, <3>2, <3>3, Untouched
    <2> QED BY <2>1, <2>2
  <1>14. latestVision' # Nothing => latestVision'.number <= captured'
    BY <1>1 DEF IInv
  <1> QED BY <1>5, <1>6, <1>8, <1>10, <1>11, <1>12, <1>13, <1>14 DEF IInv

LEMMA SendFrameInv == \A c \in Clients : IInv /\ SendFrame(c) => IInv'
  <1> SUFFICES ASSUME NEW c \in Clients, IInv, SendFrame(c) PROVE IInv'
    OBVIOUS
  <1> DEFINE f == Frame(c, captured + 1)
  <1>1. /\ HandlerRuns(c) /\ captured < MaxCaptured /\ captured' = captured + 1
        /\ transit' = [transit EXCEPT ![c] = Append(@, f)]
        /\ UNCHANGED <<client, handler, pending, newest, work, status, greeted,
                       latestVision, ingested, overlapped, raised>>
    BY DEF SendFrame, shared, history
  <1>2. captured \in Nat /\ captured' \in Nat /\ captured <= captured'
        /\ captured' \in 1..MaxCaptured /\ captured' \in 0..MaxCaptured
    BY <1>1, TypeFacts
  <1>3. f \in AllFrames /\ f \in Messages /\ f.number = captured + 1 /\ f.client = c
    BY <1>1, <1>2 DEF Frame, AllFrames, Messages
  <1>4. transit[c] \in Seq(Messages)
    BY TypeFacts
  <1>5. \A d \in Clients : transit'[d] = IF d = c THEN Append(transit[c], f) ELSE transit[d]
    BY <1>1, TypeFacts DEF TypeOK
  <1>6. TypeOK'
    <2>1. transit' \in [Clients -> Seq(AllFrames \cup {Hello})]
      BY <1>1, <1>3, <1>4, Appended, TypeFacts DEF TypeOK, Messages
    <2>2. ASSUME NEW d \in Clients
          PROVE  /\ \A i \in DOMAIN transit'[d] :
                      transit'[d][i] # Hello => transit'[d][i].client = d
                 /\ ~HandlerRuns(d)' => transit'[d] = <<>>
      <3>1. CASE d = c
        BY <1>1, <1>3, <1>4, <1>5, <3>1, Appended, TypeFacts DEF HandlerRuns, TypeOK
      <3>2. CASE d # c
        BY <1>1, <1>5, <3>2, TypeFacts DEF HandlerRuns, TypeOK
      <3> QED BY <3>1, <3>2
    <2> QED BY <1>1, <1>2, <2>1, <2>2, TypeFacts DEF TypeOK, HandlerRuns
  <1>7. /\ NewHasNone' /\ OneAtATime' /\ NobodyConnectedIsShown' /\ StatusShowsConnection'
        /\ FrameGoesToItsRun'
    BY <1>1 DEF IInv, NewHasNone, OneAtATime, NobodyConnectedIsShown,
                StatusShowsConnection, HandlerRuns, FrameGoesToItsRun
  <1>8. Greeting'
    <2>1. ASSUME NEW d \in Clients, Greets(d)
          PROVE  Greets(d)'
      <3>1. transit[d] # <<>> /\ Head(transit[d]) = Hello =>
              transit'[d] # <<>> /\ Head(transit'[d]) = Hello
        <4>1. CASE d # c
          BY <1>5, <4>1
        <4>2. CASE d = c
          <5>1. transit'[d] = Append(transit[d], f)
            BY <1>5, <4>2
          <5>2. /\ Append(transit[d], f) # <<>>
                /\ transit[d] # <<>> => Head(Append(transit[d], f)) = Head(transit[d])
            <6> HIDE DEF f
            <6> QED BY <1>3, <1>4, <4>2, Appended
          <5> HIDE DEF f
          <5> QED BY <5>1, <5>2
        <4> QED BY <4>1, <4>2
      <3> QED BY <1>1, <2>1, <3>1 DEF Greets
    <2> QED BY <1>1, <2>1 DEF IInv, Greeting, HandlerRuns
  <1>9. ASSUME NEW d \in Clients PROVE FramesInOrder(d)' /\ AfterVision(d)'
    <2>1. CASE d = c
      <3>1. FramesInOrder(c) /\ AfterVision(c) /\ UpTo(transit[c], captured)
        BY DEF IInv, FramesInOrder
      <3>2. \A m \in Nat : m <= captured /\ After(transit[c], m) => After(transit'[c], m)
        BY <1>2, <1>3, <1>4, <1>5, <3>1, AppendInOrder
      <3>3. InOrder(transit'[c]) /\ UpTo(transit'[c], captured')
        BY <1>1, <1>2, <1>3, <1>4, <1>5, <3>1, AppendInOrder DEF FramesInOrder
      <3>4. pending'[c] # Nothing =>
              pending'[c].number <= captured' /\ After(transit'[c], pending'[c].number)
        BY <1>1, <1>2, <3>1, <3>2, TypeFacts DEF FramesInOrder
      <3>5. work'[c] # Nothing =>
              work'[c].frame.number <= captured' /\ Fresh(c, work[c].frame.number)'
        BY <1>1, <1>2, <3>1, <3>2, TypeFacts DEF FramesInOrder, Fresh
      <3>6. handler'[c] = "waiting" => transit'[c] # <<>> /\ Head(transit'[c]) # Hello
        BY <1>1, <1>3, <1>4, <1>5, <3>1, Appended DEF FramesInOrder
      <3>7. FramesInOrder(c)'
        BY <1>1, <3>3, <3>4, <3>5, <3>6 DEF FramesInOrder
      <3>8. AfterVision(c)'
        <4>1. latestVision # Nothing =>
                latestVision.number \in Nat /\ latestVision.number <= captured
          BY TypeFacts DEF IInv
        <4> QED BY <1>1, <3>1, <3>2, <4>1 DEF AfterVision, Follows, Fresh
      <3> QED BY <2>1, <3>7, <3>8
    <2>2. CASE d # c
      BY <1>1, <1>2, <1>5, <2>2, Untouched
    <2> QED BY <2>1, <2>2
  <1>10. latestVision' # Nothing => latestVision'.number <= captured'
    <2>1. latestVision # Nothing =>
            latestVision.number \in Nat /\ latestVision.number <= captured
      BY TypeFacts DEF IInv
    <2> QED BY <1>1, <1>2, <2>1
  <1> QED BY <1>6, <1>7, <1>8, <1>9, <1>10 DEF IInv


LEMMA ReadHelloInv == \A c \in Clients : IInv /\ ReadHello(c) => IInv'
  <1> SUFFICES ASSUME NEW c \in Clients, IInv, ReadHello(c) PROVE IInv'
    OBVIOUS
  <1>1. /\ handler[c] = "open" /\ transit[c] # <<>> /\ greeted' = c
        /\ transit' = [transit EXCEPT ![c] = Tail(@)]
        /\ UNCHANGED <<client, handler, pending, newest, work, status, latestVision,
                       ingested, captured, overlapped, raised>>
    BY DEF ReadHello, Reads, GreetedBy, history
  <1>2. transit[c] \in Seq(Messages) /\ HandlerRuns(c)
    BY <1>1, TypeFacts DEF HandlerRuns
  <1>3. \A d \in Clients : transit'[d] = IF d = c THEN Tail(transit[c]) ELSE transit[d]
    BY <1>1, TypeFacts DEF TypeOK
  <1>4. TypeOK'
    <2>1. transit' \in [Clients -> Seq(AllFrames \cup {Hello})]
      BY <1>1, <1>2, HeadAndTail, TypeFacts DEF TypeOK, Messages
    <2>2. ASSUME NEW d \in Clients
          PROVE  /\ \A i \in DOMAIN transit'[d] :
                      transit'[d][i] # Hello => transit'[d][i].client = d
                 /\ ~HandlerRuns(d)' => transit'[d] = <<>>
      <3>1. CASE d = c
        BY <1>1, <1>2, <1>3, <3>1, HeadAndTail, TypeFacts DEF HandlerRuns, TypeOK
      <3>2. CASE d # c
        BY <1>1, <1>3, <3>2, TypeFacts DEF HandlerRuns, TypeOK
      <3> QED BY <3>1, <3>2
    <2> QED BY <1>1, <2>1, <2>2, TypeFacts DEF TypeOK, HandlerRuns
  <1>5. /\ NewHasNone' /\ OneAtATime' /\ NobodyConnectedIsShown' /\ StatusShowsConnection'
        /\ FrameGoesToItsRun'
    BY <1>1 DEF IInv, NewHasNone, OneAtATime, NobodyConnectedIsShown,
                StatusShowsConnection, HandlerRuns, FrameGoesToItsRun
  <1>6. Greeting'
    <2>1. ~overlapped => \A d \in Clients : HandlerRuns(d) => d = c
      BY <1>2 DEF IInv, OneAtATime
    <2> QED BY <1>1, <2>1 DEF IInv, Greeting, Greets, HandlerRuns
  <1>7. ASSUME NEW d \in Clients PROVE FramesInOrder(d)' /\ AfterVision(d)'
    <2>1. CASE d = c
      BY <1>1, <1>2, <1>3, <2>1, TailInOrder DEF IInv, FramesInOrder, AfterVision, Follows, Fresh
    <2>2. CASE d # c
      BY <1>1, <1>3, <2>2, TypeFacts, Untouched
    <2> QED BY <2>1, <2>2
  <1> QED BY <1>1, <1>4, <1>5, <1>6, <1>7 DEF IInv

\* The frame that the slot held before is dropped; the new one was captured later.
LEMMA PlaceInv ==
  ASSUME IInv, NEW c \in Clients, HandlerRuns(c), transit[c] # <<>>,
         Head(transit[c]) # Hello, Place(c), handler' = [handler EXCEPT ![c] = "open"],
         status' \in {status, "CONNECTED"},
         UNCHANGED <<client, work, greeted, latestVision, ingested, captured, history>>
  PROVE  IInv'
  <1> DEFINE f == Head(transit[c])
  <1>1. /\ transit' = [transit EXCEPT ![c] = Tail(@)]
        /\ pending' = [pending EXCEPT ![c] = f] /\ newest' = [newest EXCEPT ![c] = f]
        /\ UNCHANGED <<client, work, greeted, latestVision, ingested, captured,
                       overlapped, raised>>
    BY DEF Place, history
  <1>2. transit[c] \in Seq(Messages) /\ f \in AllFrames /\ f.number \in Nat
    BY HeadAndTail, TypeFacts, FrameNumbers DEF Messages
  <1>3. \A d \in Clients :
          /\ transit'[d] = IF d = c THEN Tail(transit[c]) ELSE transit[d]
          /\ pending'[d] = IF d = c THEN f ELSE pending[d]
          /\ handler'[d] = IF d = c THEN "open" ELSE handler[d]
    BY <1>1, TypeFacts DEF TypeOK
  <1>4. \A d \in Clients : HandlerRuns(d)' <=> HandlerRuns(d)
    BY <1>3 DEF HandlerRuns
  <1>5. TypeOK'
    <2>1. transit' \in [Clients -> Seq(AllFrames \cup {Hello})]
      BY <1>1, <1>2, HeadAndTail, TypeFacts DEF TypeOK, Messages
    <2>2. /\ pending' \in [Clients -> AllFrames \cup {Nothing}]
          /\ newest' \in [Clients -> AllFrames \cup {Nothing}]
          /\ handler' \in [Clients -> {"none", "open", "waiting", "ended"}]
      BY <1>1, <1>2, TypeFacts DEF TypeOK
    <2>3. status' \in {"CONNECTED", "DISCONNECTED"}
      BY TypeFacts DEF TypeOK
    <2>4. f.client = c
      BY <1>2, HeadAndTail, TypeFacts DEF TypeOK
    <2>5. ASSUME NEW d \in Clients
          PROVE  /\ \A i \in DOMAIN transit'[d] :
                      transit'[d][i] # Hello => transit'[d][i].client = d
                 /\ pending'[d] # Nothing => pending'[d].client = d
                 /\ ~HandlerRuns(d)' => transit'[d] = <<>> /\ pending'[d] = Nothing
      <3>1. CASE d = c
        <4>1. \A i \in DOMAIN Tail(transit[c]) :
                Tail(transit[c])[i] # Hello => Tail(transit[c])[i].client = c
          BY <1>2, HeadAndTail, TypeFacts DEF TypeOK
        <4> QED BY <1>3, <1>4, <2>4, <3>1, <4>1
      <3>2. CASE d # c
        BY <1>3, <1>4, <3>2, TypeFacts DEF TypeOK
      <3> QED BY <3>1, <3>2
    <2> QED BY <1>1, <1>4, <2>1, <2>2, <2>3, <2>5, TypeFacts DEF TypeOK
  <1>6. NewHasNone' /\ OneAtATime'
    <2>1. handler[c] # "none"
      BY DEF HandlerRuns
    <2> QED BY <1>1, <1>3, <1>4, <2>1 DEF IInv, NewHasNone, OneAtATime
  <1>7. NobodyConnectedIsShown' /\ StatusShowsConnection' /\ FrameGoesToItsRun'
    BY <1>1, <1>4 DEF IInv, NobodyConnectedIsShown, StatusShowsConnection, FrameGoesToItsRun
  <1>8. Greeting'
    <2>1. ~overlapped => \A d \in Clients : HandlerRuns(d) => d = c
      BY DEF IInv, OneAtATime
    <2>2. ~overlapped => greeted = c
      BY DEF IInv, Greeting, Greets
    <2> QED BY <1>1, <1>4, <2>1, <2>2 DEF IInv, Greeting, Greets
  <1>9. ASSUME NEW d \in Clients PROVE FramesInOrder(d)' /\ AfterVision(d)'
    <2>1. CASE d = c
      <3>1. FramesInOrder(c) /\ AfterVision(c) /\ InOrder(transit[c])
            /\ UpTo(transit[c], captured)
        BY DEF IInv, FramesInOrder
      <3>2. InOrder(transit'[c]) /\ UpTo(transit'[c], captured')
            /\ f.number <= captured /\ After(transit'[c], f.number)
        BY <1>1, <1>2, <1>3, <3>1, TailInOrder
      <3>3. \A n : After(transit[c], n) => After(transit'[c], n) /\ f.number > n
        BY <1>2, <1>3, TailInOrder
      <3>4. pending'[c] = f /\ handler'[c] = "open" /\ work'[c] = work[c]
            /\ latestVision' = latestVision /\ overlapped' = overlapped
            /\ captured' = captured
        BY <1>1, <1>3
      <3>5. FramesInOrder(c)'
        BY <3>1, <3>2, <3>3, <3>4 DEF FramesInOrder, Fresh
      <3>6. AfterVision(c)'
        BY <3>1, <3>3, <3>4 DEF AfterVision, Follows, Fresh
      <3> QED BY <2>1, <3>5, <3>6
    <2>2. CASE d # c
      BY <1>1, <1>3, <2>2, TypeFacts, Untouched
    <2> QED BY <2>1, <2>2
  <1> QED BY <1>1, <1>5, <1>6, <1>7, <1>8, <1>9 DEF IInv

LEMMA ReadFrameInv == \A c \in Clients : IInv /\ ReadFrame(c) => IInv'
  <1> SUFFICES ASSUME NEW c \in Clients, IInv, ReadFrame(c) PROVE IInv'
    OBVIOUS
  <1>1. /\ handler[c] = "open" /\ transit[c] # <<>> /\ Head(transit[c]) # Hello
        /\ status' = "CONNECTED"
        /\ UNCHANGED <<client, work, greeted, latestVision, ingested, captured, history>>
    BY DEF ReadFrame, Reads
  <1>2. HandlerRuns(c)
    BY <1>1 DEF HandlerRuns
  <1>3. CASE Place(c) /\ UNCHANGED handler
    <2>1. handler' = [handler EXCEPT ![c] = "open"]
      BY <1>1, <1>3, TypeFacts DEF TypeOK
    <2> QED BY <1>1, <1>2, <1>3, <2>1, PlaceInv
  <1>4. CASE /\ handler' = [handler EXCEPT ![c] = "waiting"]
             /\ UNCHANGED <<transit, pending, newest>>
    <2>1. UNCHANGED <<client, transit, pending, newest, work, greeted, latestVision,
                      ingested, captured, overlapped, raised>>
      BY <1>1, <1>4 DEF history
    <2>2. \A d \in Clients : handler'[d] = IF d = c THEN "waiting" ELSE handler[d]
      BY <1>4, TypeFacts DEF TypeOK
    <2>3. \A d \in Clients : HandlerRuns(d)' <=> HandlerRuns(d)
      BY <1>2, <2>2 DEF HandlerRuns
    <2>4. TypeOK'
      <3>1. handler' \in [Clients -> {"none", "open", "waiting", "ended"}]
            /\ status' \in {"CONNECTED", "DISCONNECTED"}
        BY <1>1, <1>4, TypeFacts DEF TypeOK
      <3> QED BY <2>1, <2>3, <3>1, TypeFacts DEF TypeOK
    <2>5. NewHasNone' /\ OneAtATime'
      BY <1>1, <2>1, <2>2, <2>3 DEF IInv, NewHasNone, OneAtATime
    <2>6. NobodyConnectedIsShown' /\ StatusShowsConnection' /\ FrameGoesToItsRun'
      BY <1>1, <1>2, <2>1, <2>3
         DEF IInv, NobodyConnectedIsShown, StatusShowsConnection, FrameGoesToItsRun
    <2>7. Greeting'
      <3>1. ~overlapped => \A d \in Clients : HandlerRuns(d) => d = c
        BY <1>2 DEF IInv, OneAtATime
      <3>2. ~overlapped => greeted = c
        BY <1>1, <1>2 DEF IInv, Greeting, Greets
      <3> QED BY <2>1, <2>3, <3>1, <3>2 DEF IInv, Greeting, Greets
    <2>8. ASSUME NEW d \in Clients PROVE FramesInOrder(d)' /\ AfterVision(d)'
      <3>1. handler'[d] = "waiting" => transit'[d] # <<>> /\ Head(transit'[d]) # Hello
        BY <1>1, <2>1, <2>2 DEF IInv, FramesInOrder
      <3> QED BY <2>1, <3>1 DEF IInv, FramesInOrder, AfterVision, Follows, Fresh
    <2> QED BY <2>1, <2>4, <2>5, <2>6, <2>7, <2>8 DEF IInv
  <1> QED BY <1>3, <1>4 DEF ReadFrame

LEMMA PlaceWaitingInv == \A c \in Clients : IInv /\ PlaceWaitingFrame(c) => IInv'
  <1> SUFFICES ASSUME NEW c \in Clients, IInv, PlaceWaitingFrame(c) PROVE IInv'
    OBVIOUS
  <1>1. /\ handler[c] = "waiting" /\ Place(c) /\ handler' = [handler EXCEPT ![c] = "open"]
        /\ status' = status
        /\ UNCHANGED <<client, work, greeted, latestVision, ingested, captured, history>>
    BY DEF PlaceWaitingFrame, shared
  <1>2. HandlerRuns(c) /\ transit[c] # <<>> /\ Head(transit[c]) # Hello
    BY <1>1 DEF IInv, FramesInOrder, HandlerRuns
  <1> QED BY <1>1, <1>2, PlaceInv


\* A handler that ends leaves nothing behind but what it has published.
LEMMA EndInv ==
  ASSUME IInv, NEW c \in Clients, HandlerRuns(c), End(c),
         status' \in {"CONNECTED", "DISCONNECTED"}, greeted' \in {greeted, c},
         raised' \in BOOLEAN,
         ~raised' => ~raised /\ status' = "DISCONNECTED"
  PROVE  IInv'
  <1>1. /\ handler' = [handler EXCEPT ![c] = "ended"]
        /\ transit' = [transit EXCEPT ![c] = <<>>]
        /\ pending' = [pending EXCEPT ![c] = Nothing]
        /\ work' = [work EXCEPT ![c] = Nothing]
        /\ UNCHANGED <<client, newest, latestVision, ingested, captured, overlapped>>
    BY DEF End, WorkAfterCancel
  <1>2. \A d \in Clients :
          /\ handler'[d] = IF d = c THEN "ended" ELSE handler[d]
          /\ transit'[d] = IF d = c THEN <<>> ELSE transit[d]
          /\ pending'[d] = IF d = c THEN Nothing ELSE pending[d]
          /\ work'[d] = IF d = c THEN Nothing ELSE work[d]
    BY <1>1, TypeFacts DEF TypeOK
  <1>3. \A d \in Clients : HandlerRuns(d)' <=> d # c /\ HandlerRuns(d)
    BY <1>2 DEF HandlerRuns
  <1>4. ~overlapped => \A d \in Clients : ~HandlerRuns(d)'
    BY <1>3 DEF IInv, OneAtATime
  <1>5. TypeOK'
    <2>1. transit' \in [Clients -> Seq(AllFrames \cup {Hello})]
      BY <1>1, NoneInOrder, TypeFacts DEF TypeOK, Messages
    <2>2. /\ pending' \in [Clients -> AllFrames \cup {Nothing}]
          /\ work' \in [Clients -> Works \cup {Nothing}]
          /\ handler' \in [Clients -> {"none", "open", "waiting", "ended"}]
      BY <1>1, TypeFacts DEF TypeOK
    <2>3. greeted' \in Clients \cup {Nothing}
      BY TypeFacts DEF TypeOK
    <2>4. ASSUME NEW d \in Clients
          PROVE  /\ \A i \in DOMAIN transit'[d] :
                      transit'[d][i] # Hello => transit'[d][i].client = d
                 /\ pending'[d] # Nothing => pending'[d].client = d
                 /\ work'[d] # Nothing => work'[d].frame.client = d
                 /\ ~HandlerRuns(d)' =>
                      transit'[d] = <<>> /\ pending'[d] = Nothing /\ work'[d] = Nothing
      BY <1>2, <1>3, TypeFacts DEF TypeOK
    <2> QED BY <1>1, <2>1, <2>2, <2>3, <2>4, TypeFacts DEF TypeOK
  <1>6. NewHasNone'
    <2>1. handler[c] # "none"
      BY DEF HandlerRuns
    <2> QED BY <1>1, <1>2, <2>1 DEF IInv, NewHasNone
  <1>7. OneAtATime' /\ StatusShowsConnection'
    BY <1>1, <1>4 DEF OneAtATime, StatusShowsConnection
  <1>8. NobodyConnectedIsShown'
    BY DEF NobodyConnectedIsShown
  <1>9. FrameGoesToItsRun'
    BY <1>1 DEF IInv, FrameGoesToItsRun
  <1>10. Greeting'
    BY <1>1, <1>2, <1>4 DEF IInv, Greeting
  <1>11. ASSUME NEW d \in Clients PROVE FramesInOrder(d)' /\ AfterVision(d)'
    <2>1. CASE d = c
      BY <1>2, <2>1, NoneInOrder DEF FramesInOrder, AfterVision, Fresh
    <2>2. CASE d # c
      BY <1>1, <1>2, <2>2, TypeFacts, Untouched
    <2> QED BY <2>1, <2>2
  <1>12. (latestVision # Nothing => latestVision.number <= captured)'
    BY <1>1 DEF IInv
  <1> QED BY <1>5, <1>6, <1>7, <1>8, <1>9, <1>10, <1>11, <1>12 DEF IInv

LEMMA HandlerEndsInv ==
  \A c \in Clients : IInv /\ (Disconnect(c) \/ HandlerRaises(c)) => IInv'
  <1> SUFFICES ASSUME NEW c \in Clients, IInv, Disconnect(c) \/ HandlerRaises(c)
               PROVE  IInv'
    OBVIOUS
  <1>1. CASE Disconnect(c)
    <2>1. /\ handler[c] = "open" /\ status' = "DISCONNECTED" /\ End(c)
          /\ greeted' = greeted /\ raised' = raised
      BY <1>1 DEF Disconnect, StatusAfterEnd
    <2>2. HandlerRuns(c)
      BY <2>1 DEF HandlerRuns
    <2>3. raised' \in BOOLEAN
      BY <2>1, TypeFacts DEF TypeOK
    <2> QED BY <2>1, <2>2, <2>3, EndInv
  <1>2. CASE HandlerRaises(c)
    <2>1. HandlerRuns(c) /\ End(c) /\ raised' = TRUE
      BY <1>2 DEF HandlerRaises
    <2>2. greeted' \in {greeted, c}
      BY <1>2 DEF HandlerRaises, GreetedBy
    <2>3. status' \in {"CONNECTED", "DISCONNECTED"}
      BY <1>2, TypeFacts DEF HandlerRaises, TypeOK
    <2> QED BY <2>1, <2>2, <2>3, EndInv
  <1> QED BY <1>1, <1>2

LEMMA TakeInv == \A c \in Clients : IInv /\ Take(c) => IInv'
  <1> SUFFICES ASSUME NEW c \in Clients, IInv, Take(c) PROVE IInv'
    OBVIOUS
  <1> DEFINE w == Work("observing", pending[c], greeted)
  <1>1. /\ pending[c] # Nothing /\ work[c] = Nothing
        /\ pending' = [pending EXCEPT ![c] = Nothing] /\ work' = [work EXCEPT ![c] = w]
        /\ UNCHANGED <<client, handler, transit, newest, status, greeted, latestVision,
                       ingested, captured, overlapped, raised>>
    BY DEF Take, shared, history
  <1>2. w \in Works /\ w.frame = pending[c] /\ w.stage = "observing" /\ w.pack = greeted
        /\ pending[c] \in AllFrames /\ pending[c].number \in Nat
    BY <1>1, TypeFacts DEF Work, Works, TypeOK
  <1>3. \A d \in Clients : /\ pending'[d] = IF d = c THEN Nothing ELSE pending[d]
                           /\ work'[d] = IF d = c THEN w ELSE work[d]
    BY <1>1, TypeFacts DEF TypeOK
  <1>4. HandlerRuns(c)
    BY <1>1, TypeFacts DEF TypeOK
  <1>5. TypeOK'
    <2>1. pending' \in [Clients -> AllFrames \cup {Nothing}]
          /\ work' \in [Clients -> Works \cup {Nothing}]
      BY <1>1, <1>2, TypeFacts DEF TypeOK
    <2>2. ASSUME NEW d \in Clients
          PROVE  /\ pending'[d] # Nothing => pending'[d].client = d
                 /\ work'[d] # Nothing => work'[d].frame.client = d
                 /\ ~HandlerRuns(d) => pending'[d] = Nothing /\ work'[d] = Nothing
      BY <1>1, <1>2, <1>3, <1>4, TypeFacts DEF TypeOK
    <2> QED BY <1>1, <2>1, <2>2, TypeFacts DEF TypeOK, HandlerRuns
  <1>6. /\ NewHasNone' /\ OneAtATime' /\ NobodyConnectedIsShown' /\ StatusShowsConnection'
        /\ FrameGoesToItsRun'
    BY <1>1 DEF IInv, NewHasNone, OneAtATime, NobodyConnectedIsShown,
                StatusShowsConnection, HandlerRuns, FrameGoesToItsRun
  <1>7. Greeting'
    <2>1. ~overlapped => \A d \in Clients : HandlerRuns(d) => d = c
      BY <1>4 DEF IInv, OneAtATime
    <2>2. ~overlapped => greeted = c
      BY <1>1, <1>4 DEF IInv, Greeting, Greets
    <2> QED BY <1>1, <1>2, <1>3, <2>1, <2>2 DEF IInv, Greeting, Greets, HandlerRuns
  <1>8. ASSUME NEW d \in Clients PROVE FramesInOrder(d)' /\ AfterVision(d)'
    <2>1. CASE d = c
      <3>1. FramesInOrder(c) /\ AfterVision(c)
        BY DEF IInv
      <3>2. pending'[c] = Nothing /\ work'[c] = w
        BY <1>3
      <3>3. FramesInOrder(c)'
        BY <1>1, <1>2, <3>1, <3>2 DEF FramesInOrder, Fresh
      <3>4. AfterVision(c)'
        BY <1>1, <1>2, <3>1, <3>2 DEF AfterVision, Follows, Fresh
      <3> QED BY <2>1, <3>3, <3>4
    <2>2. CASE d # c
      BY <1>1, <1>3, <2>2, TypeFacts, Untouched
    <2> QED BY <2>1, <2>2
  <1> QED BY <1>1, <1>5, <1>6, <1>7, <1>8 DEF IInv

LEMMA PublishInv == \A c \in Clients : IInv /\ Publish(c) => IInv'
  <1> SUFFICES ASSUME NEW c \in Clients, IInv, Publish(c) PROVE IInv'
    OBVIOUS
  <1>1. /\ work[c] # Nothing /\ latestVision' = work[c].frame
        /\ work' = [work EXCEPT ![c].stage = "annotating"]
        /\ UNCHANGED <<client, handler, transit, pending, newest, status, greeted,
                       ingested, captured, overlapped, raised>>
    BY DEF Publish, history
  <1> DEFINE w == [work[c] EXCEPT !.stage = "annotating"]
  <1>2. work[c] \in Works /\ w \in Works /\ w.frame = work[c].frame /\ w.pack = work[c].pack
        /\ w.stage = "annotating" /\ work[c].frame \in AllFrames
        /\ work[c].frame.client = c
    BY <1>1, TypeFacts DEF Works, TypeOK
  <1>3. \A d \in Clients : work'[d] = IF d = c THEN w ELSE work[d]
    BY <1>1, TypeFacts DEF TypeOK
  <1>4. HandlerRuns(c)
    BY <1>1, TypeFacts DEF TypeOK
  <1>5. TypeOK'
    <2>1. work' \in [Clients -> Works \cup {Nothing}]
      BY <1>1, <1>2, TypeFacts DEF TypeOK
    <2>2. \A d \in Clients : /\ work'[d] # Nothing => work'[d].frame.client = d
                             /\ ~HandlerRuns(d) => work'[d] = Nothing
      BY <1>2, <1>3, <1>4, TypeFacts DEF TypeOK
    <2> QED BY <1>1, <1>2, <2>1, <2>2, TypeFacts DEF TypeOK, HandlerRuns
  <1>6. /\ NewHasNone' /\ OneAtATime' /\ NobodyConnectedIsShown' /\ StatusShowsConnection'
        /\ FrameGoesToItsRun'
    BY <1>1 DEF IInv, NewHasNone, OneAtATime, NobodyConnectedIsShown,
                StatusShowsConnection, HandlerRuns, FrameGoesToItsRun
  <1>7. Greeting'
    BY <1>1, <1>2, <1>3 DEF IInv, Greeting, Greets, HandlerRuns
  <1>8. FramesInOrder(c)
    BY DEF IInv
  <1>9. ASSUME NEW d \in Clients PROVE FramesInOrder(d)'
    BY <1>1, <1>2, <1>3 DEF IInv, FramesInOrder, Fresh
  <1>10. ASSUME NEW d \in Clients PROVE AfterVision(d)'
    <2>1. CASE d = c
      BY <1>1, <1>2, <1>3, <1>8, <2>1 DEF FramesInOrder, AfterVision, Fresh
    <2>2. CASE d # c /\ ~overlapped
      <3>1. ~HandlerRuns(d)
        BY <1>4, <2>2 DEF IInv, OneAtATime
      <3>2. transit[d] = <<>> /\ pending[d] = Nothing /\ work[d] = Nothing
        BY <3>1, TypeFacts DEF TypeOK
      <3> QED BY <1>1, <1>3, <2>2, <3>2, NoneInOrder DEF AfterVision, Fresh
    <2>3. CASE d # c /\ overlapped
      BY <1>1, <1>2, <2>3 DEF AfterVision, Follows
    <2> QED BY <2>1, <2>2, <2>3
  <1>11. latestVision'.number <= captured'
    BY <1>1, <1>8 DEF FramesInOrder
  <1> QED BY <1>5, <1>6, <1>7, <1>9, <1>10, <1>11 DEF IInv

LEMMA WorkerEndsInv ==
  \A c \in Clients :
    IInv /\ (ObserveFails(c) \/ Discard(c) \/ AnnotatingFails(c) \/ Ingest(c)) => IInv'
  <1> SUFFICES ASSUME NEW c \in Clients, IInv,
                      ObserveFails(c) \/ Discard(c) \/ AnnotatingFails(c) \/ Ingest(c)
               PROVE  IInv'
    OBVIOUS
  <1>1. CASE ObserveFails(c) \/ Discard(c) \/ AnnotatingFails(c)
    <2>1. work' = [work EXCEPT ![c] = Nothing]
          /\ UNCHANGED <<client, handler, transit, pending, newest, status, greeted,
                         latestVision, ingested, captured, history>>
      BY <1>1 DEF ObserveFails, Discard, AnnotatingFails, shared
    <2>2. FrameGoesToItsRun'
      BY <2>1 DEF IInv, FrameGoesToItsRun, history
    <2>3. ingested' \subseteq
            [frame : AllFrames, pack : Clients \cup {Nothing}, run : Clients \cup {Nothing}]
      BY <2>1, TypeFacts DEF TypeOK
    <2> QED BY <2>1, <2>2, <2>3, WorkerStops
  <1>2. CASE Ingest(c)
    <2> DEFINE entry == [frame |-> work[c].frame, pack |-> work[c].pack, run |-> greeted]
    <2>1. /\ work[c] # Nothing /\ work' = [work EXCEPT ![c] = Nothing]
          /\ ingested' = ingested \cup {entry}
          /\ UNCHANGED <<client, handler, transit, pending, newest, status, greeted,
                         latestVision, captured, history>>
      BY <1>2 DEF Ingest
    <2>2. work[c] \in Works /\ work[c].frame.client = c /\ HandlerRuns(c)
      BY <2>1, TypeFacts DEF TypeOK
    <2>3. ingested' \subseteq
            [frame : AllFrames, pack : Clients \cup {Nothing}, run : Clients \cup {Nothing}]
      BY <2>1, <2>2, TypeFacts DEF TypeOK, Works
    <2>4. ~overlapped => greeted = c /\ work[c].pack = c
      BY <2>1, <2>2 DEF IInv, Greeting, Greets
    <2>5. FrameGoesToItsRun'
      BY <2>1, <2>2, <2>4 DEF IInv, FrameGoesToItsRun, history
    <2> QED BY <2>1, <2>3, <2>5, WorkerStops
  <1> QED BY <1>1, <1>2

LEMMA StepInv == IInv /\ [Next]_vars => IInv'
  <1> SUFFICES ASSUME IInv, [Next]_vars PROVE IInv'
    OBVIOUS
  <1>1. ASSUME NEW c \in Clients, Leave(c) PROVE IInv'
    <2>1. client[c] # "new"
      BY <1>1 DEF Leave
    <2> QED BY <1>1, <2>1, LeaveInv DEF Leave
  <1>2. CASE UNCHANGED vars
    <2>1. UNCHANGED <<client, handler, transit, pending, newest, work, status, greeted,
                      latestVision, ingested, captured, overlapped, raised>>
      BY <1>2 DEF vars, shared, history
    <2>2. TypeOK'
      BY <2>1, TypeFacts DEF TypeOK, HandlerRuns
    <2>3. /\ NewHasNone' /\ OneAtATime' /\ NobodyConnectedIsShown'
          /\ StatusShowsConnection' /\ FrameGoesToItsRun' /\ Greeting'
      BY <2>1 DEF IInv, NewHasNone, OneAtATime, NobodyConnectedIsShown, Greeting, Greets,
                  StatusShowsConnection, HandlerRuns, FrameGoesToItsRun
    <2>4. \A c \in Clients : FramesInOrder(c)' /\ AfterVision(c)'
      BY <2>1, TypeFacts, Untouched
    <2> QED BY <2>1, <2>2, <2>3, <2>4 DEF IInv
  <1> QED BY <1>1, <1>2, ConnectInv, SendFrameInv, ReadHelloInv, ReadFrameInv,
             PlaceWaitingInv, HandlerEndsInv, TakeInv, PublishInv, WorkerEndsInv DEF Next

\* IInv holds in every state that the clients and their handlers can reach.
THEOREM ConnectionsInvariance == Spec => []IInv
  <1> QED BY InitInv, StepInv, PTL DEF Spec

-----------------------------------------------------------------------------
(* The results *)

\* When nobody is connected the status says so.
THEOREM NobodyIsShown == Spec => []NobodyConnectedIsShown
  <1>1. IInv => NobodyConnectedIsShown
    BY DEF IInv
  <1> QED BY <1>1, ConnectionsInvariance, PTL

\* While handlers do not overlap the status is that of the connection.
THEOREM ConnectionIsShown == Spec => []StatusShowsConnection
  <1>1. IInv => StatusShowsConnection
    BY DEF IInv
  <1> QED BY <1>1, ConnectionsInvariance, PTL

\* While handlers do not overlap the frames of a client go to the profile and the
\* run of its own hello.
THEOREM FramesGoToTheirRun == Spec => []FrameGoesToItsRun
  <1>1. IInv => FrameGoesToItsRun
    BY DEF IInv
  <1> QED BY <1>1, ConnectionsInvariance, PTL

\* The vision that is shown never goes back to an earlier frame of the same client,
\* nor of any client while handlers do not overlap.
THEOREM VisionGoesForward == Spec => LatestVisionIsNewest
  <1> DEFINE Newer ==
        latestVision' # latestVision =>
          /\ HandlerRuns(latestVision'.client)
          /\ \/ latestVision = Nothing
             \/ overlapped /\ latestVision'.client # latestVision.client
             \/ latestVision'.number > latestVision.number
  <1>1. IInv /\ [Next]_vars => [Newer]_vars
    <2> SUFFICES ASSUME IInv, [Next]_vars, latestVision' # latestVision PROVE Newer
      BY DEF vars, shared
    <2>1. PICK c \in Clients : Publish(c)
      BY DEF Next, Connect, SendFrame, Leave, ReadHello, ReadFrame, PlaceWaitingFrame,
             Disconnect, HandlerRaises, End, Take, ObserveFails, Discard, Ingest,
             AnnotatingFails, vars, shared
    <2>2. work[c] # Nothing /\ work[c].stage = "observing" /\ latestVision' = work[c].frame
      BY <2>1 DEF Publish
    <2>3. work[c].frame.client = c /\ HandlerRuns(c)
      BY <2>2, TypeFacts DEF TypeOK
    <2>4. Follows(c) => work[c].frame.number > latestVision.number
      BY <2>2 DEF IInv, AfterVision
    <2> QED BY <2>2, <2>3, <2>4 DEF Follows
  <1> QED BY <1>1, ConnectionsInvariance, PTL DEF Spec, LatestVisionIsNewest

=============================================================================
