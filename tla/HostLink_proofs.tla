--------------------------- MODULE HostLink_proofs ---------------------------
(***************************************************************************)
(* Proofs about HostLink: its types, and that the race between the message *)
(* and the channel strands at most the last call of each client, so that   *)
(* no thread blocks for good on a full channel.                            *)
(***************************************************************************)
EXTENDS MCHostLink, FlattenTheorems

\* OnlyTheLastIsStranded of a channel ch and threads th.
Few(ch, th) ==
    /\ \A i, j \in DOMAIN ch : ch[i].from = ch[j].from => i = j
    /\ \A i \in DOMAIN ch : th[ch[i].from].at # "send"

Sleep(m, w) == m = "get_message" /\ w = 0

IInv == TypeOK /\ (Sleep(main, wakeups) => Few(chan, thread))

LEMMA InvariantImplies == IInv => TypeOK /\ OnlyTheLastIsStranded
BY DEF IInv, Sleep, Few, OnlyTheLastIsStranded, Asleep, At

LEMMA CallFields == \A call \in Call : call.from \in Clients /\ call.kind \in WindowKinds
BY DEF Call

\* A thread that goes to another place than "send" strands nothing.
LEMMA FewWithNewThread ==
    ASSUME NEW ch \in Seq(Call), NEW th, NEW th2,
           Few(ch, th), \A d \in Clients : th2[d].at = "send" => th[d].at = "send"
    PROVE  Few(ch, th2)
BY CallFields DEF Few

LEMMA ThreadTypes ==
    /\ NoThread \in ThreadStates /\ Reading \in ThreadStates /\ Fetching \in ThreadStates
    /\ NoThread.at # "send" /\ Reading.at # "send" /\ Fetching.at # "send"
    /\ \A t \in ThreadStates :
          t.at \in {"post", "send"} =>
              /\ t.kind \in WindowKinds
              /\ [t EXCEPT !.at = "send"] \in ThreadStates
BY DEF NoThread, Reading, Fetching, ThreadStates

LEMMA InitInvariant == Init => IInv
<1> SUFFICES ASSUME Init
             PROVE  IInv
  OBVIOUS
<1>1. /\ client \in [Clients -> ClientStates]
      /\ conn \in [Clients -> {"none", "open", "broken"}]
      /\ pipe \in [Clients -> Seq(Calls)]
      /\ answered \in [Clients -> BOOLEAN]
      /\ host \in {"down", "starting", "up"}
  BY DEF Init, ClientStates
<1>2. thread \in [Clients -> ThreadStates]
  BY ThreadTypes DEF Init
<1>3. /\ calls \in 0..MaxCalls /\ wakeups \in Nat
      /\ chan \in Seq(Call) /\ Len(chan) <= Capacity
  BY MaxCallsAssumption, CapacityAssumption DEF Init
<1>4. TypeOK
  BY <1>1, <1>2, <1>3 DEF Init, TypeOK
<1>5. Few(chan, thread)
  BY DEF Init, Few
<1> QED
  BY <1>4, <1>5 DEF IInv

\* The clients write calls, and may get a new thread; the channel and the main
\* thread are not theirs.
LEMMA ClientStepKeepsInvariant ==
    ASSUME IInv, NEW c \in Clients, ClientStep(c)
    PROVE  IInv'
<1> USE DEF clientVars, mainVars
<1>1. TypeOK
  BY DEF IInv
<1>2. UNCHANGED mainVars
  BY DEF ClientStep, New, StartPing, Pong, CallFails, Reconnect, LaunchTipHost,
         ConnectAfterLaunch, Tested, AskHost
<1>3. thread' \in {thread, [thread EXCEPT ![c] = Reading]}
  BY DEF ClientStep, New, StartPing, Pong, CallFails, Reconnect, LaunchTipHost,
         ConnectAfterLaunch, Tested, AskHost, Connect, ConnectFails
<1>4. /\ thread' \in [Clients -> ThreadStates]
      /\ \A d \in Clients : thread'[d].at = "send" => thread[d].at = "send"
  BY <1>1, <1>3, ThreadTypes DEF TypeOK
<1>5. conn' \in [Clients -> {"none", "open", "broken"}]
  BY <1>1 DEF TypeOK, ClientStep, New, StartPing, Pong, CallFails, Reconnect,
              LaunchTipHost, ConnectAfterLaunch, Tested, AskHost, Connect, ConnectFails
<1>6. client' \in [Clients -> ClientStates]
  BY <1>1 DEF TypeOK, ClientStates, ClientStep, New, StartPing, Pong, CallFails, Reconnect,
              LaunchTipHost, ConnectAfterLaunch, Tested, AskHost, StartTest
<1>7. pipe' \in [Clients -> Seq(Calls)]
  <2>1. /\ pipe \in [Clients -> Seq(Calls)]
        /\ Kinds \subseteq WindowKinds
    BY <1>1, KindsAssumption DEF TypeOK
  <2>2. ASSUME NEW call \in Calls, Write(c, call)
        PROVE  pipe' \in [Clients -> Seq(Calls)]
    <3>1. Append(pipe[c], call) \in Seq(Calls)
      BY <2>1
    <3> QED
      BY <2>1, <2>2, <3>1 DEF Write
  <2>3. /\ <<"test">> \in Seq(Calls) /\ <<"check">> \in Seq(Calls)
        /\ "ping" \in Calls /\ "test" \in Calls /\ WindowKinds \subseteq Calls
    BY DEF TwoWay, Calls
  <2>4. CASE StartPing(c) \/ Pong(c) \/ AskHost(c)
    BY <2>1, <2>2, <2>3, <2>4 DEF StartPing, Pong, StartTest, AskHost
  <2>5. CASE Reconnect(c) \/ ConnectAfterLaunch(c)
    BY <2>1, <2>3, <2>5 DEF Reconnect, ConnectAfterLaunch
  <2>6. CASE New(c) \/ CallFails(c) \/ LaunchTipHost(c) \/ Tested(c)
    BY <2>1, <2>3, <2>6 DEF New, CallFails, LaunchTipHost, Tested
  <2> QED
    BY <2>4, <2>5, <2>6 DEF ClientStep
<1>8. /\ answered' \in [Clients -> BOOLEAN]
      /\ host' \in {"down", "starting", "up"}
  BY <1>1 DEF TypeOK, ClientStep, New, StartPing, Pong, CallFails, Reconnect,
              LaunchTipHost, ConnectAfterLaunch, Tested, AskHost
<1>10. calls' = calls \/ (calls < MaxCalls /\ calls' = calls + 1)
  BY DEF ClientStep, New, StartPing, Pong, CallFails, Reconnect, LaunchTipHost,
         ConnectAfterLaunch, Tested, AskHost
<1>12. calls' \in 0..MaxCalls
  <2>1. calls \in 0..MaxCalls
    BY <1>1 DEF TypeOK
  <2> QED
    BY <1>10, <2>1, MaxCallsAssumption
<1>9. TypeOK'
  BY <1>1, <1>2, <1>4, <1>5, <1>6, <1>7, <1>8, <1>12 DEF TypeOK
<1>11. chan \in Seq(Call)
  BY <1>1 DEF TypeOK
<1> QED
  BY <1>2, <1>4, <1>9, <1>11, FewWithNewThread DEF IInv

LEMMA ReadCallKeepsInvariant ==
    ASSUME IInv, NEW c \in Clients, ReadCall(c)
    PROVE  IInv'
<1> USE DEF clientVars, mainVars
<1>1. TypeOK
  BY DEF IInv
<1>2. pipe[c] \in Seq(Calls) /\ pipe[c] # <<>>
  BY <1>1 DEF ReadCall, TypeOK
<1>3. Head(pipe[c]) \in Calls /\ Tail(pipe[c]) \in Seq(Calls)
  BY <1>2
<1>4. pipe' \in [Clients -> Seq(Calls)] /\ answered' \in [Clients -> BOOLEAN]
  BY <1>1, <1>3 DEF ReadCall, TypeOK
<1>5. \/ UNCHANGED thread
      \/ /\ Taken(Head(pipe[c])) \in ThreadStates /\ Taken(Head(pipe[c])).at # "send"
         /\ thread' = [thread EXCEPT ![c] = Taken(Head(pipe[c]))]
  <2>1. ASSUME Head(pipe[c]) \notin TwoWay
        PROVE  Taken(Head(pipe[c])) \in ThreadStates /\ Taken(Head(pipe[c])).at # "send"
    <3>1. Head(pipe[c]) = "check" \/ Head(pipe[c]) \in WindowKinds
      BY <1>3, <2>1 DEF Calls
    <3> QED
      BY <3>1, ThreadTypes DEF Taken, ThreadStates
  <2> QED
    BY <2>1 DEF ReadCall
<1>6. /\ thread' \in [Clients -> ThreadStates]
      /\ \A d \in Clients : thread'[d].at = "send" => thread[d].at = "send"
  BY <1>1, <1>5 DEF TypeOK
<1>7. UNCHANGED <<clientVars, host, mainVars>>
  BY DEF ReadCall
<1>8. TypeOK'
  BY <1>1, <1>4, <1>6, <1>7 DEF TypeOK
<1>9. chan \in Seq(Call)
  BY <1>1 DEF TypeOK
<1> QED
  BY <1>6, <1>7, <1>8, <1>9, FewWithNewThread DEF IInv

LEMMA EndCheckKeepsInvariant ==
    ASSUME IInv, NEW c \in Clients, EndCheck(c)
    PROVE  IInv'
<1>1. TypeOK /\ chan \in Seq(Call)
  BY DEF IInv, TypeOK
<1>2. /\ thread' = [thread EXCEPT ![c] = Reading]
      /\ UNCHANGED <<clientVars, pipe, answered, host, mainVars>>
  BY DEF EndCheck
<1>3. /\ thread' \in [Clients -> ThreadStates]
      /\ \A d \in Clients : thread'[d].at = "send" => thread[d].at = "send"
  BY <1>1, <1>2, ThreadTypes DEF TypeOK
<1>4. TypeOK'
  BY <1>1, <1>2, <1>3 DEF TypeOK, clientVars, mainVars
<1> QED
  BY <1>1, <1>2, <1>3, <1>4, FewWithNewThread DEF IInv, mainVars

\* The message comes first: while it is on its way the main thread is not asleep.
LEMMA PostKeepsInvariant ==
    ASSUME IInv, NEW c \in Clients, Post(c)
    PROVE  IInv'
<1>1. TypeOK /\ wakeups \in Nat /\ wakeups' = wakeups + 1
  BY DEF IInv, TypeOK, Post
<1>2. [thread[c] EXCEPT !.at = "send"] \in ThreadStates
  BY <1>1, ThreadTypes DEF Post, At, TypeOK
<1>5. thread' = [thread EXCEPT ![c] = [thread[c] EXCEPT !.at = "send"]]
  BY DEF Post
<1>6. thread' \in [Clients -> ThreadStates] /\ wakeups' \in Nat
  BY <1>1, <1>2, <1>5 DEF TypeOK
<1>3. TypeOK'
  BY <1>1, <1>6 DEF Post, TypeOK, clientVars
<1>4. ~Sleep(main', wakeups')
  BY <1>1 DEF Sleep
<1> QED
  BY <1>3, <1>4 DEF IInv

\* A thread that sends while the main thread sleeps has nothing else in the channel.
LEMMA SendKeepsInvariant ==
    ASSUME IInv, NEW c \in Clients, Send(c)
    PROVE  IInv'
<1> DEFINE call == [from |-> c, kind |-> thread[c].kind]
<1>1. TypeOK /\ thread[c].at = "send" /\ thread[c] \in ThreadStates
  BY DEF IInv, TypeOK, Send, At
<1>2. call \in Call /\ call.from = c
  BY <1>1, ThreadTypes DEF Call
<1> HIDE DEF call
<1>3. chan' = Append(chan, call) /\ chan \in Seq(Call)
  BY <1>1 DEF Send, TypeOK, call
<1>4. /\ chan' \in Seq(Call)
      /\ Len(chan') = Len(chan) + 1
      /\ DOMAIN chan' = 1..(Len(chan) + 1) /\ DOMAIN chan = 1..Len(chan) /\ Len(chan) \in Nat
      /\ chan'[Len(chan) + 1] = call
      /\ \A i \in DOMAIN chan : chan'[i] = chan[i]
  BY <1>2, <1>3
<1>5. Len(chan') <= Capacity
  BY <1>4, CapacityAssumption DEF Send
<1>6. /\ thread' = [thread EXCEPT ![c] = Reading]
      /\ UNCHANGED <<clientVars, pipe, answered, host, wakeups, main, window, note>>
  BY DEF Send
<1>7. TypeOK'
  <2>1. thread' \in [Clients -> ThreadStates]
    BY <1>1, <1>6, ThreadTypes DEF TypeOK
  <2> QED
    BY <1>1, <1>4, <1>5, <1>6, <2>1 DEF TypeOK, clientVars
<1>8. ASSUME Sleep(main, wakeups)
      PROVE  Few(chan', thread')
  <2>1. Few(chan, thread)
    BY <1>8 DEF IInv
  <2>2. \A i \in DOMAIN chan : chan[i].from # c /\ chan[i].from \in Clients
    BY <1>1, <1>3, <2>1, CallFields DEF Few
  <2>3. \A i, j \in DOMAIN chan' : chan'[i].from = chan'[j].from => i = j
    BY <1>2, <1>4, <2>1, <2>2 DEF Few
  <2>4. thread'[c].at # "send" /\ \A d \in Clients : d # c => thread'[d] = thread[d]
    BY <1>1, <1>6, ThreadTypes DEF TypeOK
  <2>5. ASSUME NEW i \in DOMAIN chan'
        PROVE  thread'[chan'[i].from].at # "send"
    <3>1. CASE i \in DOMAIN chan
      BY <1>4, <2>1, <2>2, <2>4, <3>1 DEF Few
    <3>2. CASE i = Len(chan) + 1
      BY <1>2, <1>4, <2>4, <3>2
    <3> QED
      BY <1>4, <3>1, <3>2
  <2> QED
    BY <2>3, <2>5 DEF Few
<1> QED
  BY <1>6, <1>7, <1>8 DEF IInv

LEMMA ProcessExitKeepsInvariant ==
    ASSUME IInv, ProcessExit
    PROVE  IInv'
<1>1. thread' \in [Clients -> ThreadStates]
  BY ThreadTypes DEF ProcessExit
<1>2. chan' \in Seq(Call) /\ Len(chan') <= Capacity
  BY CapacityAssumption DEF ProcessExit
<1>3. /\ conn' \in [Clients -> {"none", "open", "broken"}]
      /\ pipe' \in [Clients -> Seq(Calls)]
      /\ answered' \in [Clients -> BOOLEAN]
  BY DEF IInv, TypeOK, ProcessExit
<1>4. TypeOK'
  BY <1>1, <1>2, <1>3 DEF IInv, TypeOK, ProcessExit
<1>5. Few(chan', thread')
  BY DEF ProcessExit, Few
<1> QED
  BY <1>4, <1>5 DEF IInv

LEMMA MainStepKeepsInvariant == IInv /\ MainStep => IInv'
<1> SUFFICES ASSUME IInv, MainStep
             PROVE  IInv'
  OBVIOUS
<1> USE DEF clientVars
<1>1. TypeOK
  BY DEF IInv
<1>2. CASE StartCommandLoop
  <2>1. TypeOK'
    BY <1>1, <1>2 DEF StartCommandLoop, TypeOK
  <2>2. ~Sleep(main', wakeups')
    BY <1>2 DEF StartCommandLoop, Sleep
  <2> QED
    BY <2>1, <2>2 DEF IInv
<1>3. CASE HandleCommand
  <2>1. /\ chan \in Seq(Call) /\ chan # <<>>
        /\ chan' = Tail(chan) /\ Len(chan) <= Capacity
    BY <1>1, <1>3 DEF HandleCommand, TypeOK
  <2>2. /\ Head(chan).from \in Clients
        /\ chan' \in Seq(Call) /\ Len(chan') <= Capacity
    BY <2>1, CapacityAssumption, CallFields
  <2>3. window' \in Clients \cup {Nobody} /\ note' \in BOOLEAN
    BY <1>1, <1>3, <2>2 DEF HandleCommand, TypeOK
  <2>4. TypeOK'
    BY <1>1, <1>3, <2>2, <2>3 DEF HandleCommand, TypeOK
  <2>5. ~Sleep(main', wakeups')
    BY <1>3 DEF HandleCommand, Sleep
  <2> QED
    BY <2>4, <2>5 DEF IInv
<1>4. CASE HandleStop
  BY <1>4, ProcessExitKeepsInvariant DEF HandleStop
<1>5. CASE EndCommandLoop
  <2>1. TypeOK'
    BY <1>1, <1>5 DEF EndCommandLoop, TypeOK
  <2>2. Few(chan', thread')
    BY <1>5 DEF EndCommandLoop, Few
  <2> QED
    BY <2>1, <2>2 DEF IInv
<1>6. CASE NotificationTimeout
  BY <1>1, <1>6 DEF NotificationTimeout, IInv, TypeOK
<1> QED
  BY <1>2, <1>3, <1>4, <1>5, <1>6 DEF MainStep

LEMMA NextKeepsInvariant == IInv /\ [Next]_vars => IInv'
<1> SUFFICES ASSUME IInv, [Next]_vars
             PROVE  IInv'
  OBVIOUS
<1>1. ASSUME NEW c \in Clients, ClientStep(c) \/ ThreadStep(c) \/ EndCheck(c)
      PROVE  IInv'
  BY <1>1, ClientStepKeepsInvariant, ReadCallKeepsInvariant, PostKeepsInvariant,
     SendKeepsInvariant, EndCheckKeepsInvariant DEF ThreadStep
<1>2. CASE MainStep
  BY <1>2, MainStepKeepsInvariant
<1>3. CASE HostStarts
  BY <1>3 DEF HostStarts, IInv, TypeOK, clientVars, mainVars
<1>4. CASE HostCrashes
  BY <1>4, ProcessExitKeepsInvariant DEF HostCrashes
<1>5. CASE UNCHANGED vars
  BY <1>5 DEF IInv, TypeOK, vars
<1> QED
  BY <1>1, <1>2, <1>3, <1>4, <1>5 DEF Next

\* The conjunction that is inductive holds of every reachable state.
THEOREM Invariance == Spec => []IInv
BY InitInvariant, NextKeepsInvariant, PTL DEF Spec

\* Every variable keeps its type, and the channel its capacity.
THEOREM TypeCorrect == Spec => []TypeOK
<1>1. IInv => TypeOK
  BY InvariantImplies
<1> QED
  BY <1>1, Invariance, PTL

\* MainLoopHandle::send posts the message before it sends the call; what this can
\* leave behind in the channel is at most the last call of each client.
THEOREM AtMostOneStranded == Spec => []OnlyTheLastIsStranded
<1>1. IInv => OnlyTheLastIsStranded
  BY InvariantImplies
<1> QED
  BY <1>1, Invariance, PTL

\* A full channel of a sleeping main thread and a blocked sender would be
\* Capacity + 1 clients.
LEMMA StrandedAreFew == IInv => NoStall
<1> SUFFICES ASSUME IInv, Cardinality(Clients) <= Capacity, Asleep,
                    Len(chan) = Capacity, NEW c \in Clients, At(c, "send")
             PROVE  FALSE
  BY DEF NoStall
<1> DEFINE S == 1..(Capacity + 1)
           f == [i \in S |-> IF i = Capacity + 1 THEN c ELSE chan[i].from]
<1>1. Capacity \in Nat /\ IsFiniteSet(Clients) /\ Cardinality(Clients) \in Nat
  BY CapacityAssumption, ClientsAssumption, FS_CardinalityType
<1>2. IsFiniteSet(S) /\ Cardinality(S) = Capacity + 1
  BY <1>1, FS_Interval
<1>3. DOMAIN chan = 1..Capacity /\ \A i \in 1..Capacity : chan[i].from \in Clients
  BY <1>1, CallFields DEF IInv, TypeOK
<1>4. f \in [S -> Clients]
  BY <1>1, <1>3
<1>5. Cardinality(Clients) < Cardinality(S)
  BY <1>1, <1>2
<1> HIDE DEF f, S
<1>6. PICK i \in S, j \in S : i # j /\ f[i] = f[j]
  BY <1>1, <1>2, <1>4, <1>5, FS_PigeonHole
<1>7. /\ \A x, y \in DOMAIN chan : chan[x].from = chan[y].from => x = y
      /\ \A x \in DOMAIN chan : chan[x].from # c
  BY InvariantImplies DEF OnlyTheLastIsStranded
<1> QED
  BY <1>1, <1>3, <1>6, <1>7 DEF f, S

\* With no more connections than places in the channel (130), a thread never blocks
\* on a channel that nobody will empty.
THEOREM NeverStalls == Spec => []NoStall
BY StrandedAreFew, Invariance, PTL

-----------------------------------------------------------------------------
(***************************************************************************)
(* The service of WindowService.  What has to be known for it: a client    *)
(* whose pipe is not open has nothing on its way through one, and the      *)
(* clients about to connect have none, so that connecting loses nothing.   *)
(***************************************************************************)
Linked ==
    \A c \in Clients :
        /\ conn[c] # "open" => thread[c] = NoThread /\ pipe[c] = <<>>
        /\ client[c] \in {"new", "connect", "relaunched"} => conn[c] # "open"

RInv == IInv /\ Linked

\* A request, or none.
Asked(kind) == IF kind \in WindowKinds THEN <<kind>> ELSE <<>>
From(call, c) == IF call.from = c THEN <<call.kind>> ELSE <<>>

LEMMA RequestsAssociate ==
    ASSUME NEW p \in Seq(WindowKinds), NEW q \in Seq(WindowKinds), NEW r \in Seq(WindowKinds)
    PROVE  (p \o q) \o r = p \o (q \o r)
BY Associative

LEMMA ItemTypes ==
    /\ \A kind : Asked(kind) \in Seq(WindowKinds)
    /\ \A call \in Call : \A c : From(call, c) \in Seq(WindowKinds)
    /\ \A t \in ThreadStates : Held(t) \in Seq(WindowKinds)
    /\ Held(NoThread) = <<>> /\ Held(Reading) = <<>> /\ Held(Fetching) = <<>>
<1>1. ASSUME NEW kind
      PROVE  Asked(kind) \in Seq(WindowKinds)
  BY DEF Asked
<1>2. ASSUME NEW call \in Call, NEW c
      PROVE  From(call, c) \in Seq(WindowKinds)
  <2>1. call.kind \in WindowKinds
    BY CallFields
  <2> QED
    BY <2>1 DEF From
<1>3. ASSUME NEW t \in ThreadStates
      PROVE  Held(t) \in Seq(WindowKinds)
  <2>1. t.kind = "none" \/ t.kind \in WindowKinds
    BY DEF ThreadStates, NoThread, Reading, Fetching
  <2> QED
    BY <2>1 DEF Held
<1>4. Held(NoThread) = <<>> /\ Held(Reading) = <<>> /\ Held(Fetching) = <<>>
  BY DEF Held, NoThread, Reading, Fetching
<1> QED
  BY <1>1, <1>2, <1>3, <1>4

LEMMA InPipeLaws ==
    ASSUME NEW p \in Seq(Calls)
    PROVE  /\ InPipe(p) \in Seq(WindowKinds)
           /\ \A kind \in Calls : InPipe(Append(p, kind)) = InPipe(p) \o Asked(kind)
           /\ p # <<>> => InPipe(p) = Asked(Head(p)) \o InPipe(Tail(p))
<1> DEFINE ss == [i \in DOMAIN p |-> Asked(p[i])]
<1>1. InPipe(p) = FlattenSeq(ss)
  BY DEF InPipe, Asked
<1>2. ss \in Seq(Seq(WindowKinds)) /\ Len(ss) = Len(p)
  BY ItemTypes
<1>3. InPipe(p) \in Seq(WindowKinds)
  BY <1>1, <1>2, FlattenType
<1>4. ASSUME NEW kind \in Calls
      PROVE  InPipe(Append(p, kind)) = InPipe(p) \o Asked(kind)
  <2> DEFINE q == Append(p, kind)
             tt == [i \in DOMAIN q |-> Asked(q[i])]
  <2>1. InPipe(q) = FlattenSeq(tt)
    BY DEF InPipe, Asked
  <2>2. Asked(kind) \in Seq(WindowKinds)
    BY ItemTypes
  <2>3. tt = Append(ss, Asked(kind))
    BY <1>2
  <2>4. FlattenSeq(Append(ss, Asked(kind))) = FlattenSeq(ss) \o Asked(kind)
    <3> HIDE DEF ss
    <3> QED
      BY <1>2, <2>2, FlattenAppend
  <2> QED
    BY <1>1, <2>1, <2>3, <2>4
<1>5. ASSUME p # <<>>
      PROVE  InPipe(p) = Asked(Head(p)) \o InPipe(Tail(p))
  <2> DEFINE q == Tail(p)
             tt == [i \in DOMAIN q |-> Asked(q[i])]
  <2>1. InPipe(q) = FlattenSeq(tt)
    BY DEF InPipe, Asked
  <2>2. q \in Seq(Calls) /\ Len(q) = Len(p) - 1 /\ \A i \in 1..Len(q) : q[i] = p[i + 1]
    BY <1>5
  <2>3. tt \in Seq(Seq(WindowKinds)) /\ Len(tt) = Len(q)
    BY <2>2, ItemTypes
  <2>4. Tail(ss) \in Seq(Seq(WindowKinds)) /\ Len(Tail(ss)) = Len(q) /\ ss # <<>>
    BY <1>2, <1>5, <2>2
  <2>5. \A i \in 1..Len(q) : Tail(ss)[i] = tt[i]
    BY <1>2, <2>2
  <2>6. Tail(ss) = tt
    <3> HIDE DEF ss, tt
    <3> QED
      BY <2>3, <2>4, <2>5, SeqEqual
  <2>7. ss[1] = Asked(Head(p))
    BY <1>5
  <2>8. FlattenSeq(ss) = ss[1] \o FlattenSeq(Tail(ss))
    <3> HIDE DEF ss
    <3> QED
      BY <1>2, <2>4, FlattenHeadTail
  <2> QED
    BY <1>1, <2>1, <2>6, <2>7, <2>8, Zenon
<1> QED
  BY <1>3, <1>4, <1>5

LEMMA InChannelLaws ==
    ASSUME NEW ch \in Seq(Call), NEW c
    PROVE  /\ InChannel(ch, c) \in Seq(WindowKinds)
           /\ \A call \in Call : InChannel(Append(ch, call), c) = InChannel(ch, c) \o From(call, c)
           /\ ch # <<>> => InChannel(ch, c) = From(Head(ch), c) \o InChannel(Tail(ch), c)
<1> DEFINE ss == [i \in DOMAIN ch |-> From(ch[i], c)]
<1>1. InChannel(ch, c) = FlattenSeq(ss)
  BY DEF InChannel, From
<1>2. ss \in Seq(Seq(WindowKinds)) /\ Len(ss) = Len(ch)
  BY ItemTypes
<1>3. InChannel(ch, c) \in Seq(WindowKinds)
  BY <1>1, <1>2, FlattenType
<1>4. ASSUME NEW call \in Call
      PROVE  InChannel(Append(ch, call), c) = InChannel(ch, c) \o From(call, c)
  <2> DEFINE q == Append(ch, call)
             tt == [i \in DOMAIN q |-> From(q[i], c)]
  <2>1. InChannel(q, c) = FlattenSeq(tt)
    BY DEF InChannel, From
  <2>2. From(call, c) \in Seq(WindowKinds)
    BY ItemTypes
  <2>3. tt = Append(ss, From(call, c))
    BY <1>2
  <2>4. FlattenSeq(Append(ss, From(call, c))) = FlattenSeq(ss) \o From(call, c)
    <3> HIDE DEF ss
    <3> QED
      BY <1>2, <2>2, FlattenAppend
  <2> QED
    BY <1>1, <2>1, <2>3, <2>4
<1>5. ASSUME ch # <<>>
      PROVE  InChannel(ch, c) = From(Head(ch), c) \o InChannel(Tail(ch), c)
  <2> DEFINE q == Tail(ch)
             tt == [i \in DOMAIN q |-> From(q[i], c)]
  <2>1. InChannel(q, c) = FlattenSeq(tt)
    BY DEF InChannel, From
  <2>2. q \in Seq(Call) /\ Len(q) = Len(ch) - 1 /\ \A i \in 1..Len(q) : q[i] = ch[i + 1]
    BY <1>5
  <2>3. tt \in Seq(Seq(WindowKinds)) /\ Len(tt) = Len(q)
    BY <2>2, ItemTypes
  <2>4. Tail(ss) \in Seq(Seq(WindowKinds)) /\ Len(Tail(ss)) = Len(q) /\ ss # <<>>
    BY <1>2, <1>5, <2>2
  <2>5. \A i \in 1..Len(q) : Tail(ss)[i] = tt[i]
    BY <1>2, <2>2
  <2>6. Tail(ss) = tt
    <3> HIDE DEF ss, tt
    <3> QED
      BY <2>3, <2>4, <2>5, SeqEqual
  <2>7. ss[1] = From(Head(ch), c)
    BY <1>5
  <2>8. FlattenSeq(ss) = ss[1] \o FlattenSeq(Tail(ss))
    <3> HIDE DEF ss
    <3> QED
      BY <1>2, <2>4, FlattenHeadTail
  <2> QED
    BY <1>1, <2>1, <2>6, <2>7, <2>8, Zenon
<1> QED
  BY <1>3, <1>4, <1>5


LEMMA InitLinked == Init => Linked
BY DEF Init, Linked

LEMMA LinkedIsKept == IInv /\ Linked /\ [Next]_vars => Linked'
<1> SUFFICES ASSUME IInv, Linked, [Next]_vars
             PROVE  Linked'
  OBVIOUS
<1> USE DEF clientVars, mainVars
<1>1. /\ client \in [Clients -> ClientStates]
      /\ conn \in [Clients -> {"none", "open", "broken"}]
      /\ pipe \in [Clients -> Seq(Calls)]
      /\ thread \in [Clients -> ThreadStates]
  BY DEF IInv, TypeOK
<1>2. ASSUME NEW c \in Clients, ClientStep(c)
      PROVE  Linked'
  <2>1. CASE New(c)
    BY <1>1, <2>1 DEF Linked, New, Connect, ConnectFails
  <2>2. CASE StartPing(c)
    BY <1>1, <2>2 DEF Linked, StartPing, Write
  <2>3. CASE Pong(c)
    BY <1>1, <2>3 DEF Linked, Pong, StartTest, Write
  <2>4. CASE CallFails(c)
    BY <1>1, <2>4 DEF Linked, CallFails
  <2>5. CASE Reconnect(c)
    BY <1>1, <2>5 DEF Linked, Reconnect, Connect
  <2>6. CASE LaunchTipHost(c)
    BY <1>1, <2>6 DEF Linked, LaunchTipHost
  <2>7. CASE ConnectAfterLaunch(c)
    BY <1>1, <2>7 DEF Linked, ConnectAfterLaunch, Connect, ConnectFails
  <2>8. CASE Tested(c)
    BY <1>1, <2>8 DEF Linked, Tested
  <2>9. CASE AskHost(c)
    BY <1>1, <2>9 DEF Linked, AskHost, Write
  <2> QED
    BY <1>2, <2>1, <2>2, <2>3, <2>4, <2>5, <2>6, <2>7, <2>8, <2>9 DEF ClientStep
<1>3. ASSUME NEW c \in Clients, ThreadStep(c) \/ EndCheck(c)
      PROVE  Linked'
  <2>1. thread[c] # NoThread
    BY <1>3 DEF ThreadStep, ReadCall, Post, Send, EndCheck, At, NoThread
  <2>2. conn[c] = "open"
    BY <2>1 DEF Linked
  <2>3. /\ UNCHANGED <<client, conn>>
        /\ \A d \in Clients : d # c => thread'[d] = thread[d] /\ pipe'[d] = pipe[d]
    BY <1>1, <1>3 DEF ThreadStep, ReadCall, Post, Send, EndCheck
  <2> QED
    BY <2>2, <2>3 DEF Linked
<1>4. ASSUME ProcessExit
      PROVE  Linked'
  BY <1>1, <1>4 DEF ProcessExit, Linked
<1>5. CASE MainStep
  <2>1. CASE HandleStop
    BY <1>4, <2>1 DEF HandleStop
  <2>2. CASE ~HandleStop
    BY <1>5, <2>2 DEF MainStep, StartCommandLoop, HandleCommand, EndCommandLoop,
                      NotificationTimeout, Linked
  <2> QED
    BY <2>1, <2>2
<1>6. CASE HostStarts
  BY <1>6 DEF HostStarts, Linked
<1>7. CASE HostCrashes
  BY <1>4, <1>7 DEF HostCrashes
<1>8. CASE UNCHANGED vars
  BY <1>8 DEF vars, Linked
<1> QED
  BY <1>2, <1>3, <1>5, <1>6, <1>7, <1>8 DEF Next

\* The requests on their way, as the service sees them.
AllRequests == [c \in Clients |-> Requests(c)]

LEMMA RequestTypes ==
    ASSUME IInv, NEW c \in Clients
    PROVE  /\ InChannel(chan, c) \in Seq(WindowKinds)
           /\ Held(thread[c]) \in Seq(WindowKinds)
           /\ InPipe(pipe[c]) \in Seq(WindowKinds)
           /\ InChannel(chan, c) \o Held(thread[c]) \in Seq(WindowKinds)
           /\ Requests(c) \in Seq(WindowKinds)
<1>1. chan \in Seq(Call) /\ thread[c] \in ThreadStates /\ pipe[c] \in Seq(Calls)
  BY DEF IInv, TypeOK
<1>2. /\ InChannel(chan, c) \in Seq(WindowKinds)
      /\ Held(thread[c]) \in Seq(WindowKinds)
      /\ InPipe(pipe[c]) \in Seq(WindowKinds)
  BY <1>1, InChannelLaws, InPipeLaws, ItemTypes
<1> HIDE <1>1
<1>3. \A p, q \in Seq(WindowKinds) : p \o q \in Seq(WindowKinds)
  OBVIOUS
<1> QED
  BY <1>2, <1>3, Zenon DEF Requests

\* A client that connects, pings, tests or reads an answer asks for nothing: what it
\* writes is no request, and a new pipe replaces one that had nothing on its way.
LEMMA ClientAsksNothing ==
    ASSUME RInv, NEW c \in Clients, ClientStep(c), ~AskHost(c)
    PROVE  AllRequests' = AllRequests /\ UNCHANGED <<window, note>>
<1> USE DEF clientVars, mainVars
<1>1. /\ pipe \in [Clients -> Seq(Calls)]
      /\ thread \in [Clients -> ThreadStates]
  BY DEF RInv, IInv, TypeOK
<1>2. UNCHANGED <<chan, window, note>>
  BY DEF ClientStep, New, StartPing, Pong, CallFails, Reconnect, LaunchTipHost,
         ConnectAfterLaunch, Tested
<1>3. /\ Asked("ping") = <<>> /\ Asked("test") = <<>> /\ Asked("check") = <<>>
      /\ "ping" \in Calls /\ "test" \in Calls /\ "check" \in Calls
  BY DEF Asked, WindowKinds, Calls, TwoWay
<1>4. ASSUME NEW call \in {"ping", "test", "check"}, NEW p \in Seq(Calls)
      PROVE  InPipe(Append(p, call)) = InPipe(p)
  <2>1. InPipe(p) \in Seq(WindowKinds) /\ InPipe(Append(p, call)) = InPipe(p) \o <<>>
    BY <1>3, InPipeLaws
  <2> QED
    BY <2>1
<1>5. /\ InPipe(<<"test">>) = InPipe(<<>>) /\ InPipe(<<"check">>) = InPipe(<<>>)
  <2>1. <<>> \in Seq(Calls) /\ Append(<<>>, "test") = <<"test">>
        /\ Append(<<>>, "check") = <<"check">>
    OBVIOUS
  <2> QED
    BY <1>4, <2>1
<1>6. CASE StartPing(c) \/ Pong(c) \/ CallFails(c) \/ LaunchTipHost(c) \/ Tested(c)
  <2>1. UNCHANGED thread
    BY <1>6 DEF StartPing, Pong, CallFails, LaunchTipHost, Tested
  <2>2. \/ UNCHANGED pipe
        \/ \E call \in {"ping", "test"} : pipe' = [pipe EXCEPT ![c] = Append(@, call)]
    BY <1>6 DEF StartPing, Pong, CallFails, LaunchTipHost, Tested, StartTest, Write
  <2>3. \A d \in Clients : InPipe(pipe'[d]) = InPipe(pipe[d])
    <3>1. CASE UNCHANGED pipe
      BY <3>1
    <3>2. ASSUME NEW call \in {"ping", "test"}, pipe' = [pipe EXCEPT ![c] = Append(@, call)]
          PROVE  \A d \in Clients : InPipe(pipe'[d]) = InPipe(pipe[d])
      <4>1. pipe'[c] = Append(pipe[c], call) /\ pipe[c] \in Seq(Calls)
            /\ \A d \in Clients : d # c => pipe'[d] = pipe[d]
        BY <1>1, <3>2
      <4>2. InPipe(pipe'[c]) = InPipe(pipe[c])
        BY <1>4, <4>1
      <4> QED
        BY <4>1, <4>2
    <3> QED
      BY <2>2, <3>1, <3>2
  <2>4. \A d \in Clients : Requests(d)' = Requests(d)
    BY <1>2, <2>1, <2>3 DEF Requests
  <2> QED
    BY <1>2, <2>4 DEF AllRequests
<1>7. CASE New(c) \/ Reconnect(c) \/ ConnectAfterLaunch(c)
  <2>1. conn[c] # "open"
    BY <1>7 DEF RInv, Linked, New, Reconnect, ConnectAfterLaunch
  <2>2. thread[c] = NoThread /\ pipe[c] = <<>>
    BY <2>1 DEF RInv, Linked
  <2>3. thread' \in {thread, [thread EXCEPT ![c] = Reading]}
    BY <1>7 DEF New, Reconnect, ConnectAfterLaunch, Connect, ConnectFails
  <2>4. pipe' \in {pipe, [pipe EXCEPT ![c] = <<"test">>], [pipe EXCEPT ![c] = <<"check">>]}
    BY <1>7 DEF New, Reconnect, ConnectAfterLaunch
  <2>5. /\ thread'[c] = thread[c] \/ thread'[c] = Reading
        /\ pipe'[c] = pipe[c] \/ pipe'[c] = <<"test">> \/ pipe'[c] = <<"check">>
        /\ \A d \in Clients : d # c => thread'[d] = thread[d] /\ pipe'[d] = pipe[d]
    BY <1>1, <2>3, <2>4
  <2>6. Held(thread'[c]) = Held(thread[c])
    BY <2>2, <2>5, ItemTypes
  <2>7. InPipe(pipe'[c]) = InPipe(pipe[c])
    BY <1>5, <2>2, <2>5
  <2>8. ASSUME NEW d \in Clients
        PROVE  Requests(d)' = Requests(d)
    <3>1. Held(thread'[d]) = Held(thread[d]) /\ InPipe(pipe'[d]) = InPipe(pipe[d])
      BY <2>5, <2>6, <2>7
    <3> QED
      BY <1>2, <3>1 DEF Requests
  <2> QED
    BY <1>2, <2>8 DEF AllRequests
<1> QED
  BY <1>6, <1>7 DEF ClientStep

LEMMA AskHostAsks ==
    ASSUME RInv, NEW c \in Clients, AskHost(c)
    PROVE  Service!Ask(c)
<1> USE DEF mainVars
<1>1. PICK kind \in Kinds : pipe' = [pipe EXCEPT ![c] = Append(@, kind)]
  BY DEF AskHost, Write
<1>2. /\ pipe \in [Clients -> Seq(Calls)] /\ pipe[c] \in Seq(Calls)
      /\ kind \in WindowKinds /\ kind \in Calls
      /\ UNCHANGED <<chan, thread, window, note>>
  BY KindsAssumption DEF RInv, IInv, TypeOK, AskHost, Calls
<1>3. pipe'[c] = Append(pipe[c], kind) /\ \A d \in Clients : d # c => pipe'[d] = pipe[d]
  BY <1>1, <1>2
<1>4. InPipe(pipe'[c]) = InPipe(pipe[c]) \o <<kind>> /\ <<kind>> \in Seq(WindowKinds)
  <2>1. Asked(kind) = <<kind>>
    BY <1>2 DEF Asked
  <2>2. InPipe(Append(pipe[c], kind)) = InPipe(pipe[c]) \o Asked(kind)
    BY <1>2, InPipeLaws
  <2>3. <<kind>> \in Seq(WindowKinds)
    BY <1>2
  <2> QED
    BY <1>3, <2>1, <2>2, <2>3, Zenon
<1>5. Requests(c)' = Requests(c) \o <<kind>>
  <2> DEFINE p == InChannel(chan, c) \o Held(thread[c])
             q == InPipe(pipe[c])
  <2>1. p \in Seq(WindowKinds) /\ q \in Seq(WindowKinds)
    BY RequestTypes DEF RInv
  <2> HIDE DEF p, q
  <2>2. p \o (q \o <<kind>>) = (p \o q) \o <<kind>>
    BY <1>4, <2>1, RequestsAssociate
  <2>3. Requests(c)' = p \o InPipe(pipe'[c]) /\ Requests(c) = p \o q
    BY <1>2 DEF Requests, p, q
  <2> QED
    BY <1>4, <2>2, <2>3, Zenon DEF q
<1>6. Requests(c)' = Append(Requests(c), kind)
  <2>1. Requests(c) \in Seq(WindowKinds)
    BY RequestTypes DEF RInv
  <2> QED
    BY <1>2, <1>5, <2>1
<1>7. \A d \in Clients : d # c => Requests(d)' = Requests(d)
  BY <1>2, <1>3 DEF Requests
<1>8. AllRequests' = [AllRequests EXCEPT ![c] = Append(@, kind)]
  <2>1. \A d \in Clients : Requests(d)' = IF d = c THEN Append(Requests(c), kind) ELSE Requests(d)
    BY <1>6, <1>7
  <2> QED
    BY <2>1 DEF AllRequests
<1>9. kind \in Service!RequestKinds
  BY <1>2 DEF Service!RequestKinds, WindowKinds
<1> QED
  BY <1>2, <1>8, <1>9 DEF Service!Ask, AllRequests


\* A call that is read goes from the pipe to the hands of the thread, and from there
\* to the channel: the order of the client's requests stays.
LEMMA ThreadKeepsRequests ==
    ASSUME RInv, NEW c \in Clients, ThreadStep(c) \/ EndCheck(c)
    PROVE  AllRequests' = AllRequests /\ UNCHANGED <<window, note>>
<1> USE DEF clientVars, mainVars
<1>1. /\ pipe \in [Clients -> Seq(Calls)]
      /\ thread \in [Clients -> ThreadStates] /\ thread[c] \in ThreadStates
      /\ pipe[c] \in Seq(Calls)
      /\ chan \in Seq(Call)
  BY DEF RInv, IInv, TypeOK
<1>2. UNCHANGED <<window, note>>
  BY DEF ThreadStep, ReadCall, Post, Send, EndCheck
<1>3. \A d \in Clients : d # c => thread'[d] = thread[d] /\ pipe'[d] = pipe[d]
  BY <1>1 DEF ThreadStep, ReadCall, Post, Send, EndCheck
<1>4. \A d \in Clients : InChannel(chan, d) \in Seq(WindowKinds)
  BY RequestTypes DEF RInv
<1>5. /\ Held(thread[c]) \in Seq(WindowKinds) /\ InPipe(pipe[c]) \in Seq(WindowKinds)
      /\ InChannel(chan, c) \o Held(thread[c]) \in Seq(WindowKinds)
  BY RequestTypes DEF RInv
<1>6. CASE ReadCall(c)
  <2> DEFINE call == Head(pipe[c])
             rest == Tail(pipe[c])
  <2>1. /\ pipe'[c] = rest /\ call \in Calls /\ rest \in Seq(Calls) /\ UNCHANGED chan
        /\ InPipe(pipe[c]) = Asked(call) \o InPipe(rest)
        /\ thread[c] \in {Reading}
    <3>1. pipe[c] # <<>> /\ pipe' = [pipe EXCEPT ![c] = rest] /\ UNCHANGED chan
      BY <1>6 DEF ReadCall
    <3>2. InPipe(pipe[c]) = Asked(call) \o InPipe(rest)
      BY <1>1, <3>1, InPipeLaws
    <3>3. thread[c] = Reading
      BY <1>1, <1>6 DEF ReadCall, At, ThreadStates, NoThread, Reading, Fetching
    <3>4. pipe'[c] = rest /\ call \in Calls /\ rest \in Seq(Calls)
      BY <1>1, <3>1
    <3> QED
      BY <3>1, <3>2, <3>3, <3>4
  <2>2. Held(thread'[c]) = Asked(call)
    <3>1. CASE call \in TwoWay
      <4>1. thread'[c] = Reading
        BY <1>6, <2>1, <3>1 DEF ReadCall
      <4>2. Asked(call) = <<>>
        BY <3>1 DEF Asked, TwoWay, WindowKinds
      <4> QED
        BY <4>1, <4>2, ItemTypes
    <3>2. CASE call \notin TwoWay
      <4>1. thread'[c] = Taken(call)
        BY <1>1, <1>6, <3>2 DEF ReadCall
      <4>2. CASE call = "check"
        <5>1. Asked(call) = <<>> /\ Taken(call) = Fetching
          BY <4>2 DEF Asked, WindowKinds, Taken
        <5> QED
          BY <4>1, <5>1, ItemTypes
      <4>3. CASE call # "check"
        <5>1. call \in WindowKinds /\ call # "none"
          BY <2>1, <3>2, <4>3 DEF Calls, WindowKinds
        <5>2. Taken(call).kind = call
          BY <4>3 DEF Taken
        <5> QED
          BY <4>1, <5>1, <5>2 DEF Asked, Held
      <4> QED
        BY <4>2, <4>3
    <3> QED
      BY <3>1, <3>2
  <2>3. Requests(c)' = Requests(c)
    <3> DEFINE p == InChannel(chan, c)
               a == Asked(call)
               r == InPipe(rest)
    <3>1. p \in Seq(WindowKinds) /\ a \in Seq(WindowKinds) /\ r \in Seq(WindowKinds)
      BY <1>4, <2>1, ItemTypes, InPipeLaws
    <3>2. Requests(c)' = (p \o a) \o r
      BY <2>1, <2>2 DEF Requests
    <3>3. Held(thread[c]) = <<>>
      BY <2>1, ItemTypes
    <3>4. Requests(c) = (p \o <<>>) \o (a \o r)
      BY <2>1, <3>3 DEF Requests
    <3> HIDE DEF p, a, r
    <3>5. (p \o a) \o r = p \o (a \o r)
      BY <3>1, RequestsAssociate
    <3>6. p \o <<>> = p
      BY <3>1
    <3> QED
      BY <3>2, <3>4, <3>5, <3>6, Zenon
  <2>4. \A d \in Clients : Requests(d)' = Requests(d)
    BY <1>3, <2>1, <2>3 DEF Requests
  <2> QED
    BY <1>2, <2>4 DEF AllRequests
<1>7. CASE EndCheck(c)
  <2>1. thread[c] = Fetching /\ thread'[c] = Reading /\ UNCHANGED <<chan, pipe>>
    BY <1>1, <1>7 DEF EndCheck, At, ThreadStates, NoThread, Reading, Fetching
  <2>2. Held(thread'[c]) = Held(thread[c])
    BY <2>1, ItemTypes
  <2>3. \A d \in Clients : Requests(d)' = Requests(d)
    BY <1>3, <2>1, <2>2 DEF Requests
  <2> QED
    BY <1>2, <2>3 DEF AllRequests
<1>8. CASE Post(c)
  <2>1. thread'[c].kind = thread[c].kind /\ UNCHANGED <<chan, pipe>>
    BY <1>1, <1>8, ThreadTypes DEF Post, At, ThreadStates, NoThread, Reading, Fetching
  <2>2. Held(thread'[c]) = Held(thread[c])
    BY <2>1 DEF Held
  <2>3. \A d \in Clients : Requests(d)' = Requests(d)
    BY <1>3, <2>1, <2>2 DEF Requests
  <2> QED
    BY <1>2, <2>3 DEF AllRequests
<1>9. CASE Send(c)
  <2> DEFINE call == [from |-> c, kind |-> thread[c].kind]
  <2>1. /\ call \in Call /\ call.from = c /\ call.kind = thread[c].kind
        /\ thread[c].kind \in WindowKinds
    BY <1>1, <1>9, ThreadTypes DEF Send, At, Call
  <2> HIDE DEF call
  <2>2. chan' = Append(chan, call) /\ thread'[c] = Reading /\ UNCHANGED pipe
    BY <1>1, <1>9 DEF Send, call
  <2>3. Held(thread[c]) = From(call, c)
    BY <2>1 DEF Held, From, WindowKinds
  <2>4. Requests(c)' = Requests(c)
    <3> DEFINE p == InChannel(chan, c)
               a == From(call, c)
               r == InPipe(pipe[c])
    <3>1. p \in Seq(WindowKinds) /\ a \in Seq(WindowKinds) /\ r \in Seq(WindowKinds)
      BY <1>4, <1>5, <2>1, ItemTypes
    <3>2. InChannel(chan', c) = p \o a
      BY <1>1, <2>1, <2>2, InChannelLaws
    <3>3. Held(thread'[c]) = <<>>
      BY <2>2, ItemTypes
    <3>4. Requests(c)' = ((p \o a) \o <<>>) \o r
      BY <2>2, <3>2, <3>3 DEF Requests
    <3>5. Requests(c) = (p \o a) \o r
      BY <2>3 DEF Requests
    <3> HIDE DEF p, a, r
    <3>6. (p \o a) \o <<>> = p \o a
      BY <3>1
    <3> QED
      BY <3>4, <3>5, <3>6, Zenon
  <2>5. ASSUME NEW d \in Clients, d # c
        PROVE  Requests(d)' = Requests(d)
    <3>1. From(call, d) = <<>>
      BY <2>1, <2>5 DEF From
    <3>2. InChannel(chan', d) = InChannel(chan, d) \o <<>>
      BY <1>1, <2>1, <2>2, <3>1, InChannelLaws
    <3>3. InChannel(chan', d) = InChannel(chan, d)
      BY <1>4, <3>2
    <3> QED
      BY <1>3, <2>5, <3>3 DEF Requests
  <2>6. \A d \in Clients : Requests(d)' = Requests(d)
    BY <2>4, <2>5
  <2> QED
    BY <1>2, <2>6 DEF AllRequests
<1> QED
  BY <1>6, <1>7, <1>8, <1>9 DEF ThreadStep

\* The main thread handles the oldest request of the client whose call is first.
LEMMA HandleCommandServes ==
    ASSUME RInv, HandleCommand
    PROVE  \E c \in Clients : Service!Serve(c)
<1> USE DEF clientVars, mainVars
<1> DEFINE rest == Tail(chan)
<1>1. /\ chan \in Seq(Call) /\ chan # <<>> /\ chan' = rest
      /\ UNCHANGED <<thread, pipe>>
  BY DEF HandleCommand, RInv, IInv, TypeOK
<1>0. Head(chan) \in Call /\ rest \in Seq(Call)
  BY <1>1
<1>14. PICK call \in Call : call = Head(chan)
  BY <1>0
<1>15. PICK c \in Clients : c = call.from
  BY CallFields
<1>2. call \in Call /\ rest \in Seq(Call) /\ c \in Clients /\ call.kind \in WindowKinds
  BY <1>0, CallFields
<1>3. /\ call.kind # "stop"
      /\ window' = CASE call.kind = "show" -> c
                     [] call.kind = "hide" -> Nobody
                     [] OTHER -> window
      /\ note' = (note \/ call.kind = "notify")
  BY <1>14, <1>15 DEF HandleCommand
<1>4. \A d \in Clients : /\ InChannel(chan, d) = From(call, d) \o InChannel(chan', d)
                         /\ InChannel(chan', d) \in Seq(WindowKinds)
                         /\ Held(thread[d]) \in Seq(WindowKinds)
                         /\ InPipe(pipe[d]) \in Seq(WindowKinds)
  BY <1>1, <1>2, <1>14, InChannelLaws, RequestTypes DEF RInv
<1> HIDE DEF rest
<1>5. \A d \in Clients : Requests(d)' \in Seq(WindowKinds)
  <2>1. \A p, q, r \in Seq(WindowKinds) : p \o q \o r \in Seq(WindowKinds)
    OBVIOUS
  <2>2. ASSUME NEW d \in Clients
        PROVE  Requests(d)' = InChannel(chan', d) \o Held(thread[d]) \o InPipe(pipe[d])
    BY <1>1 DEF Requests
  <2> SUFFICES ASSUME NEW d \in Clients
               PROVE  Requests(d)' \in Seq(WindowKinds)
    OBVIOUS
  <2>3. InChannel(chan', d) \o Held(thread[d]) \o InPipe(pipe[d]) \in Seq(WindowKinds)
    BY <1>4, <2>1, Zenon
  <2> QED
    BY <2>2, <2>3
<1>6. ASSUME NEW d \in Clients
      PROVE  Requests(d) = From(call, d) \o Requests(d)'
  <2> DEFINE f == From(call, d)
             p == InChannel(chan', d)
             h == Held(thread[d])
             r == InPipe(pipe[d])
  <2>1. /\ f \in Seq(WindowKinds) /\ p \in Seq(WindowKinds)
        /\ h \in Seq(WindowKinds) /\ r \in Seq(WindowKinds)
    BY <1>2, <1>4, ItemTypes
  <2>2. Requests(d) = ((f \o p) \o h) \o r /\ Requests(d)' = (p \o h) \o r
    BY <1>1, <1>4 DEF Requests
  <2> HIDE DEF f, p, h, r
  <2>3. p \o h \in Seq(WindowKinds)
    BY <2>1
  <2>4. (f \o p) \o h = f \o (p \o h)
    BY <2>1, RequestsAssociate
  <2>5. (f \o (p \o h)) \o r = f \o ((p \o h) \o r)
    BY <2>1, <2>3, RequestsAssociate, ZenonT(30)
  <2> QED
    BY <2>2, <2>4, <2>5, Zenon DEF f
<1>7. /\ Requests(c) # <<>> /\ Head(Requests(c)) = call.kind
      /\ Requests(c)' = Tail(Requests(c))
  <2>1. From(call, c) = <<call.kind>>
    BY <1>15 DEF From
  <2>2. Requests(c) = <<call.kind>> \o Requests(c)'
    BY <1>2, <1>6, <2>1
  <2> DEFINE k == call.kind
             r == Requests(c)'
  <2>3. k \in WindowKinds /\ r \in Seq(WindowKinds) /\ Requests(c) = <<k>> \o r
    BY <1>2, <1>5, <2>2
  <2> HIDE DEF k, r
  <2>4. <<k>> \o r # <<>> /\ Head(<<k>> \o r) = k /\ Tail(<<k>> \o r) = r
    BY <2>3
  <2> QED
    BY <2>3, <2>4, Zenon DEF k, r
<1>8. ASSUME NEW d \in Clients, d # c
      PROVE  Requests(d)' = Requests(d)
  <2>1. From(call, d) = <<>>
    BY <1>8, <1>15 DEF From
  <2>2. Requests(d) = <<>> \o Requests(d)' /\ Requests(d)' \in Seq(WindowKinds)
    BY <1>5, <1>6, <2>1
  <2> QED
    BY <2>2
<1>9. AllRequests' = [AllRequests EXCEPT ![c] = Tail(@)]
  <2>1. \A d \in Clients : Requests(d)' = IF d = c THEN Tail(Requests(c)) ELSE Requests(d)
    BY <1>7, <1>8
  <2> QED
    BY <2>1 DEF AllRequests
<1>10. AllRequests[c] = Requests(c)
  BY <1>2 DEF AllRequests
<1>11. Service!Serve(c)
  <2>1. AllRequests[c] # <<>> /\ Head(AllRequests[c]) = call.kind
    BY <1>7, <1>10, Zenon
  <2>2. window' = CASE Head(AllRequests[c]) = "show" -> c
                    [] Head(AllRequests[c]) = "hide" -> Nobody
                    [] OTHER -> window
    BY <1>3, <2>1
  <2>3. Head(AllRequests[c]) # "stop" /\ note' = (note \/ Head(AllRequests[c]) = "notify")
    BY <1>3, <2>1
  <2> QED
    BY <1>9, <2>1, <2>2, <2>3 DEF Service!Serve, AllRequests
<1> QED
  BY <1>2, <1>11

LEMMA ExitVanishes == ProcessExit => Service!Vanish
<1> SUFFICES ASSUME ProcessExit
             PROVE  Service!Vanish
  OBVIOUS
<1>1. /\ chan' = <<>> /\ window' = Nobody /\ note' = FALSE
      /\ \A c \in Clients : thread'[c] = NoThread /\ pipe'[c] = <<>>
  BY DEF ProcessExit
<1>2. \A c : InChannel(<<>>, c) = <<>> /\ InPipe(<<>>) = <<>>
  BY FlattenEmpty DEF InChannel, InPipe
<1>3. \A c \in Clients : Requests(c)' = <<>>
  <2>1. <<>> \o <<>> = <<>>
    OBVIOUS
  <2> QED
    BY <1>1, <1>2, <2>1, ItemTypes DEF Requests
<1> QED
  BY <1>1, <1>3 DEF Service!Vanish

LEMMA InitServes == Init => Service!Init
<1> SUFFICES ASSUME Init
             PROVE  Service!Init
  OBVIOUS
<1>1. InPipe(<<>>) = <<>> /\ \A c : InChannel(<<>>, c) = <<>>
  BY FlattenEmpty DEF InChannel, InPipe
<1>2. \A c \in Clients : Requests(c) = <<>>
  <2>1. <<>> \o <<>> = <<>>
    OBVIOUS
  <2> QED
    BY <1>1, <2>1, ItemTypes DEF Requests, Init
<1> QED
  BY <1>2 DEF Init, Service!Init

LEMMA NextServes == RInv /\ [Next]_vars => [Service!Next]_(Service!vars)
<1> SUFFICES ASSUME RInv, [Next]_vars
             PROVE  Service!Next \/ (AllRequests' = AllRequests /\ UNCHANGED <<window, note>>)
  BY DEF Service!vars, AllRequests
<1>1. ASSUME NEW c \in Clients, ClientStep(c) \/ ThreadStep(c) \/ EndCheck(c)
      PROVE  Service!Ask(c) \/ (AllRequests' = AllRequests /\ UNCHANGED <<window, note>>)
  BY <1>1, ClientAsksNothing, AskHostAsks, ThreadKeepsRequests
<1>2. ASSUME UNCHANGED <<chan, thread, pipe>>
      PROVE  AllRequests' = AllRequests
  BY <1>2 DEF AllRequests, Requests
<1>3. CASE MainStep
  <2>1. CASE HandleCommand
    BY <2>1, HandleCommandServes DEF Service!Next
  <2>2. CASE HandleStop
    BY <2>2, ExitVanishes DEF HandleStop, Service!Next
  <2>3. CASE NotificationTimeout
    BY <1>2, <2>3 DEF NotificationTimeout, Service!Next, Service!TimeOut, AllRequests
  <2>4. CASE StartCommandLoop \/ EndCommandLoop
    BY <1>2, <2>4 DEF StartCommandLoop, EndCommandLoop
  <2> QED
    BY <1>3, <2>1, <2>2, <2>3, <2>4 DEF MainStep
<1>4. CASE HostStarts
  BY <1>2, <1>4 DEF HostStarts, mainVars
<1>5. CASE HostCrashes
  BY <1>5, ExitVanishes DEF HostCrashes, Service!Next
<1>6. CASE UNCHANGED vars
  BY <1>2, <1>6 DEF vars
<1> QED
  BY <1>1, <1>3, <1>4, <1>5, <1>6 DEF Next, Service!Next

\* The pipes, the connection threads, the channel and the message loop together serve
\* the requests of each client one by one in the order it made them (ipc_loop,
\* MainLoopHandle::send, command_loop), and lose them only with the host.
THEOREM ServiceImplemented == Spec => ServesInOrder
<1>1. IInv /\ Linked /\ [Next]_vars => (IInv /\ Linked)'
  BY NextKeepsInvariant, LinkedIsKept
<1>2. IInv /\ Linked /\ [Next]_vars => [Service!Next]_(Service!vars)
  BY NextServes DEF RInv
<1>3. Init => IInv /\ Linked
  BY InitInvariant, InitLinked
<1> QED
  BY <1>1, <1>2, <1>3, InitServes, PTL DEF Spec, ServesInOrder, Service!Spec
=============================================================================
