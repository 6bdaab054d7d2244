------------------------------ MODULE HostLink ------------------------------
(***************************************************************************)
(* The link between the input method in the applications (the clients) and *)
(* chewing_tip_host, the process that draws the candidate list and the     *)
(* notifications.                                                          *)
(*                                                                         *)
(* Each client has a pipe; the host has a thread for each pipe             *)
(* (ipc.rs), and the threads hand the requests to the main thread through  *)
(* a bounded channel and a message that wakes its message loop             *)
(* (ui/event_loop.rs).  Before each key the client pings the host and      *)
(* restarts it when there is no answer (tip's chewing.rs, ipc/client.rs).  *)
(***************************************************************************)
EXTENDS Naturals, Sequences, FiniteSets

CONSTANTS
    Clients,    \* the input method in each application, and tsfreg
    Nobody,     \* the owner of a candidate window that is hidden
    Capacity,   \* of the channel: sync_channel(130)
    Kinds,      \* the requests clients make, of WindowKinds
    MaxCalls    \* bound: the requests all of them make

WindowKinds == {"show", "hide", "notify", "stop"}

ASSUME ClientsAssumption == IsFiniteSet(Clients) /\ Nobody \notin Clients
ASSUME CapacityAssumption == Capacity \in Nat \ {0}
ASSUME KindsAssumption == Kinds \subseteq WindowKinds
ASSUME MaxCallsAssumption == MaxCalls \in Nat

VARIABLES
    client,     \* what each client is doing
    conn,       \* its end of the pipe: no pipe, open, or its server is gone
    calls,      \* requests made so far
    pipe,       \* bytes it has written: calls the host has not read
    answered,   \* the reply to its two-way call is in the pipe
    host,       \* the process: "down", "starting", "up"
    thread,     \* the thread of each connection: [at, kind]
    chan,       \* the channel, of [from, kind]
    wakeups,    \* PM_APP_COMMAND messages posted to the main thread
    main,       \* the main thread: "get_message" or "command_loop"
    window,     \* the client whose candidate list is shown, or Nobody
    note        \* the notification is shown, and its timer runs

clientVars == <<client, conn, calls>>
mainVars == <<chan, wakeups, main, window, note>>
vars == <<client, conn, calls, pipe, answered, host, thread, chan, wakeups, main,
          window, note>>
-----------------------------------------------------------------------------
ClientStates == {"new", "idle", "ping", "connect", "relaunched", "test"}
Waiting(c) == client[c] \in {"ping", "test"}

NoThread == [at |-> "none", kind |-> "none"]
Reading == [at |-> "read", kind |-> "none"]
Fetching == [at |-> "fetch", kind |-> "none"]
ThreadStates == {NoThread, Reading, Fetching} \cup [at : {"post", "send"}, kind : WindowKinds]
At(c, place) == thread[c].at = place

\* A call in the channel.
Call == [from : Clients, kind : WindowKinds]

\* A call with a reply, and all of them: "check" asks for a check for updates.
TwoWay == {"ping", "test"}
Calls == TwoWay \cup WindowKinds \cup {"check"}

Init ==
    /\ client = [c \in Clients |-> "new"]
    /\ conn = [c \in Clients |-> "none"]
    /\ calls = 0
    /\ pipe = [c \in Clients |-> <<>>]
    /\ answered = [c \in Clients |-> FALSE]
    /\ host \in {"down", "up"}
    /\ thread = [c \in Clients |-> NoThread]
    /\ chan = <<>>
    /\ wakeups = 0
    /\ main = "get_message"
    /\ window = Nobody
    /\ note = FALSE
-----------------------------------------------------------------------------
(***************************************************************************)
(* A client.  ChewingIpcClient::send writes the call; without a pipe, or   *)
(* with a broken one, it fails.                                            *)
(***************************************************************************)
Write(c, call) ==
    IF conn[c] = "open"
    THEN pipe' = [pipe EXCEPT ![c] = Append(@, call)]
    ELSE UNCHANGED pipe

\* connect: the pipe of before is replaced only when there is another.  Even a
\* running host may not accept in time (100 ms), or fail the attestation.
Connect(c) ==
    /\ host = "up"
    /\ conn' = [conn EXCEPT ![c] = "open"]
    /\ thread' = [thread EXCEPT ![c] = Reading]

ConnectFails == UNCHANGED <<conn, thread>>

\* ChewingTextService::new connects, and goes on without the host if it cannot.  If
\* an hour has passed since the last one it asks for a check for updates.
New(c) ==
    /\ client[c] = "new"
    /\ client' = [client EXCEPT ![c] = "idle"]
    /\ \/ Connect(c) /\ pipe' \in {pipe, [pipe EXCEPT ![c] = <<"check">>]}
       \/ ConnectFails /\ UNCHANGED pipe
    /\ UNCHANGED <<calls, answered, host, mainVars>>

\* on_test_keydown begins with a ping.
StartPing(c) ==
    /\ client[c] = "idle"
    /\ client' = [client EXCEPT ![c] = IF conn[c] = "open" THEN "ping" ELSE "connect"]
    /\ Write(c, "ping")
    /\ UNCHANGED <<conn, calls, answered, host, thread, mainVars>>

\* The call of on_test_keydown to the host; its failure is ignored.
StartTest(c) ==
    /\ client' = [client EXCEPT ![c] = IF conn[c] = "open" THEN "test" ELSE "idle"]
    /\ Write(c, "test")

Pong(c) ==
    /\ client[c] = "ping" /\ answered[c]
    /\ answered' = [answered EXCEPT ![c] = FALSE]
    /\ StartTest(c)
    /\ UNCHANGED <<conn, calls, host, thread, mainVars>>

\* The pipe breaks under a call that waits: read_until returns at the end of file.
CallFails(c) ==
    /\ Waiting(c) /\ conn[c] = "broken"
    /\ client' = [client EXCEPT ![c] = IF client[c] = "ping" THEN "connect" ELSE "idle"]
    /\ UNCHANGED <<conn, calls, pipe, answered, host, thread, mainVars>>

\* The host does not answer the ping: connect, or launch it and connect once more.
Reconnect(c) ==
    /\ client[c] = "connect"
    /\ Connect(c)
    /\ client' = [client EXCEPT ![c] = "test"]
    /\ pipe' = [pipe EXCEPT ![c] = <<"test">>]
    /\ UNCHANGED <<calls, answered, host, mainVars>>

\* launch_tip_host waits for a launcher that starts the host and leaves, or fails;
\* a second host finds the pipe taken and exits.
LaunchTipHost(c) ==
    /\ client[c] = "connect"
    /\ host' \in IF host = "down" THEN {"down", "starting"} ELSE {host}
    /\ client' = [client EXCEPT ![c] = "relaunched"]
    /\ UNCHANGED <<conn, calls, pipe, answered, thread, mainVars>>

ConnectAfterLaunch(c) ==
    /\ client[c] = "relaunched"
    /\ \/ /\ Connect(c)
          /\ client' = [client EXCEPT ![c] = "test"]
          /\ pipe' = [pipe EXCEPT ![c] = <<"test">>]
       \/ /\ ConnectFails
          /\ client' = [client EXCEPT ![c] = "idle"]
          /\ UNCHANGED pipe
    /\ UNCHANGED <<calls, answered, host, mainVars>>

Tested(c) ==
    /\ client[c] = "test" /\ answered[c]
    /\ answered' = [answered EXCEPT ![c] = FALSE]
    /\ client' = [client EXCEPT ![c] = "idle"]
    /\ UNCHANGED <<conn, calls, pipe, host, thread, mainVars>>

\* The handlers show and hide windows with one-way calls; tsfreg stops the host.
AskHost(c) ==
    /\ client[c] = "idle" /\ conn[c] = "open"
    /\ calls < MaxCalls
    /\ calls' = calls + 1
    /\ \E kind \in Kinds : Write(c, kind)
    /\ UNCHANGED <<client, conn, answered, host, thread, mainVars>>
-----------------------------------------------------------------------------
(***************************************************************************)
(* A connection thread.                                                    *)
(***************************************************************************)

\* What the thread does with a call that has no reply.
Taken(kind) == IF kind = "check" THEN Fetching ELSE [at |-> "post", kind |-> kind]

ReadCall_RepliesUnlessTest(c) ==
    /\ At(c, "read") /\ pipe[c] # <<>>
    /\ pipe' = [pipe EXCEPT ![c] = Tail(@)]
    /\ IF Head(pipe[c]) \in TwoWay
       THEN /\ answered' = [answered EXCEPT ![c] = Head(pipe[c]) # "test"]
            /\ UNCHANGED thread
       ELSE /\ thread' = [thread EXCEPT ![c] = Taken(Head(pipe[c]))]
            /\ UNCHANGED answered
    /\ UNCHANGED <<clientVars, host, mainVars>>

\* ipc_loop_once: a two-way call is answered, a check for updates made by this
\* thread, and the others go to the main thread.
ReadCall(c) ==
    /\ At(c, "read") /\ pipe[c] # <<>>
    /\ pipe' = [pipe EXCEPT ![c] = Tail(@)]
    /\ IF Head(pipe[c]) \in TwoWay
       THEN /\ answered' = [answered EXCEPT ![c] = TRUE]
            /\ UNCHANGED thread
       ELSE /\ thread' = [thread EXCEPT ![c] = Taken(Head(pipe[c]))]
            /\ UNCHANGED answered
    /\ UNCHANGED <<clientVars, host, mainVars>>

\* check_for_update returns, whatever came of it (UpdateCheck).
EndCheck(c) ==
    /\ At(c, "fetch")
    /\ thread' = [thread EXCEPT ![c] = Reading]
    /\ UNCHANGED <<clientVars, pipe, answered, host, mainVars>>

Post_OnlyWhenEmpty(c) ==
    /\ At(c, "post")
    /\ wakeups' = IF chan = <<>> THEN wakeups + 1 ELSE wakeups
    /\ thread' = [thread EXCEPT ![c].at = "send"]
    /\ UNCHANGED <<clientVars, pipe, answered, host, chan, main, window, note>>

\* MainLoopHandle::send posts the message first ...
Post(c) ==
    /\ At(c, "post")
    /\ wakeups' = wakeups + 1
    /\ thread' = [thread EXCEPT ![c].at = "send"]
    /\ UNCHANGED <<clientVars, pipe, answered, host, chan, main, window, note>>

Send_Unbounded(c) ==
    /\ At(c, "send")
    /\ chan' = Append(chan, [from |-> c, kind |-> thread[c].kind])
    /\ thread' = [thread EXCEPT ![c] = Reading]
    /\ UNCHANGED <<clientVars, pipe, answered, host, wakeups, main, window, note>>

\* ... then sends the call, and blocks while the channel is full.
Send(c) ==
    /\ At(c, "send") /\ Len(chan) < Capacity
    /\ chan' = Append(chan, [from |-> c, kind |-> thread[c].kind])
    /\ thread' = [thread EXCEPT ![c] = Reading]
    /\ UNCHANGED <<clientVars, pipe, answered, host, wakeups, main, window, note>>
-----------------------------------------------------------------------------
(***************************************************************************)
(* The main thread.                                                        *)
(***************************************************************************)

\* GetMessage returns PM_APP_COMMAND.
StartCommandLoop ==
    /\ main = "get_message" /\ wakeups > 0
    /\ wakeups' = wakeups - 1
    /\ main' = "command_loop"
    /\ UNCHANGED <<clientVars, pipe, answered, host, thread, chan, window, note>>

\* The process is gone: the threads, the channel and the windows with it, and the
\* clients that were connected have a pipe without a server.
ProcessExit ==
    /\ host' = "down"
    /\ conn' = [c \in Clients |-> IF conn[c] = "open" THEN "broken" ELSE conn[c]]
    /\ pipe' = [c \in Clients |-> <<>>]
    /\ answered' = [c \in Clients |-> FALSE]
    /\ thread' = [c \in Clients |-> NoThread]
    /\ chan' = <<>>
    /\ wakeups' = 0
    /\ main' = "get_message"
    /\ window' = Nobody
    /\ note' = FALSE
    /\ UNCHANGED <<client, calls>>

HandleCommand_TakesNewest ==
    /\ main = "command_loop" /\ chan # <<>>
    /\ LET call == chan[Len(chan)]
       IN  /\ call.kind # "stop"
           /\ window' = CASE call.kind = "show" -> call.from
                          [] call.kind = "hide" -> Nobody
                          [] OTHER -> window
           /\ note' = (note \/ call.kind = "notify")
    /\ chan' = SubSeq(chan, 1, Len(chan) - 1)
    /\ UNCHANGED <<clientVars, pipe, answered, host, thread, wakeups, main>>

\* command_loop takes a call and processes it.
HandleCommand ==
    /\ main = "command_loop" /\ chan # <<>>
    /\ LET call == Head(chan)
       IN  /\ call.kind # "stop"
           /\ window' = CASE call.kind = "show" -> call.from
                          [] call.kind = "hide" -> Nobody
                          [] OTHER -> window
           /\ note' = (note \/ call.kind = "notify")
    /\ chan' = Tail(chan)
    /\ UNCHANGED <<clientVars, pipe, answered, host, thread, wakeups, main>>

HandleStop ==
    /\ main = "command_loop" /\ chan # <<>>
    /\ Head(chan).kind = "stop"
    /\ ProcessExit

EndCommandLoop_Early ==
    /\ main = "command_loop"
    /\ main' = "get_message"
    /\ UNCHANGED <<clientVars, pipe, answered, host, thread, chan, wakeups, window, note>>

\* try_iter ends when the channel is empty.
EndCommandLoop ==
    /\ main = "command_loop" /\ chan = <<>>
    /\ main' = "get_message"
    /\ UNCHANGED <<clientVars, pipe, answered, host, thread, chan, wakeups, window, note>>

\* WM_TIMER, 500 ms after the last notification.
NotificationTimeout ==
    /\ main = "get_message" /\ note
    /\ note' = FALSE
    /\ UNCHANGED <<clientVars, pipe, answered, host, thread, chan, wakeups, main, window>>

HostStarts ==
    /\ host = "starting"
    /\ host' = "up"
    /\ UNCHANGED <<clientVars, pipe, answered, thread, mainVars>>

HostCrashes == host = "up" /\ ProcessExit
-----------------------------------------------------------------------------
ClientStep(c) ==
    \/ New(c) \/ StartPing(c) \/ Pong(c) \/ CallFails(c)
    \/ Reconnect(c) \/ LaunchTipHost(c) \/ ConnectAfterLaunch(c)
    \/ Tested(c) \/ AskHost(c)

ThreadStep(c) == ReadCall(c) \/ Post(c) \/ Send(c)

MainStep ==
    \/ StartCommandLoop \/ HandleCommand \/ HandleStop \/ EndCommandLoop
    \/ NotificationTimeout

Next ==
    \/ \E c \in Clients : ClientStep(c) \/ ThreadStep(c) \/ EndCheck(c)
    \/ MainStep
    \/ HostStarts \/ HostCrashes

Spec == Init /\ [][Next]_vars

\* The threads of the host run, and a blocked client returns once it can.  The
\* user may stop typing, the host need not start, and the release list, which is
\* fetched without a timeout, need not arrive.
FairSpec ==
    /\ Spec
    /\ \A c \in Clients : WF_vars(ThreadStep(c)) /\ WF_vars(CallFails(c))
                          /\ WF_vars(Pong(c)) /\ WF_vars(Tested(c))
    /\ WF_vars(MainStep)
-----------------------------------------------------------------------------
(***************************************************************************)
(* Properties.                                                             *)
(***************************************************************************)

\* Every variable has its type.
TypeOK ==
    /\ client \in [Clients -> ClientStates]
    /\ conn \in [Clients -> {"none", "open", "broken"}]
    /\ calls \in 0..MaxCalls
    /\ pipe \in [Clients -> Seq(Calls)]
    /\ answered \in [Clients -> BOOLEAN]
    /\ host \in {"down", "starting", "up"}
    /\ thread \in [Clients -> ThreadStates]
    /\ chan \in Seq(Call)
    /\ Len(chan) <= Capacity
    /\ wakeups \in Nat
    /\ main \in {"get_message", "command_loop"}
    /\ window \in Clients \cup {Nobody}
    /\ note \in BOOLEAN

\* The main thread waits for a message and none is coming.
Asleep == main = "get_message" /\ wakeups = 0

\* Whatever the race between the message and the channel, a call that stays in the
\* channel while the main thread sleeps is the last its client has made: the next
\* message takes it out, and no client has two.
OnlyTheLastIsStranded ==
    Asleep =>
        /\ \A i, j \in DOMAIN chan : chan[i].from = chan[j].from => i = j
        /\ \A i \in DOMAIN chan : ~At(chan[i].from, "send")

\* No thread is blocked on a full channel that the sleeping main thread will not
\* read, as long as there are no more connections than places in it.
NoStall ==
    Cardinality(Clients) <= Capacity =>
        ~(Asleep /\ Len(chan) = Capacity /\ \E c \in Clients : At(c, "send"))

\* A key hangs in the application for no longer than the thread of its own pipe
\* fetches the release list: the ping and the call of on_test_keydown return, with an
\* answer or because the host is gone.
CallReturns == \A c \in Clients : Waiting(c) ~> (~Waiting(c) \/ At(c, "fetch"))
=============================================================================
