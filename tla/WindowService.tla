--------------------------- MODULE WindowService ---------------------------
(***************************************************************************)
(* What the tip expects of chewing_tip_host: the requests of one client    *)
(* take effect one by one in the order it made them, and are lost only     *)
(* with the host.  HostLink shows that the pipes, the connection threads,  *)
(* the channel and the message loop of the host provide it.                *)
(***************************************************************************)
EXTENDS Sequences

CONSTANTS Clients, Nobody

VARIABLES
    requests,   \* requests[c]: what client c has asked for, oldest first
    window,     \* the client whose candidate list is shown, or Nobody
    note        \* the notification is shown

vars == <<requests, window, note>>

RequestKinds == {"show", "hide", "notify", "stop"}

Init ==
    /\ requests = [c \in Clients |-> <<>>]
    /\ window = Nobody
    /\ note = FALSE

Ask(c) ==
    /\ \E kind \in RequestKinds : requests' = [requests EXCEPT ![c] = Append(@, kind)]
    /\ UNCHANGED <<window, note>>

Serve(c) ==
    /\ requests[c] # <<>>
    /\ Head(requests[c]) # "stop"
    /\ requests' = [requests EXCEPT ![c] = Tail(@)]
    /\ window' = CASE Head(requests[c]) = "show" -> c
                   [] Head(requests[c]) = "hide" -> Nobody
                   [] OTHER -> window
    /\ note' = (note \/ Head(requests[c]) = "notify")

TimeOut == note /\ ~note' /\ UNCHANGED <<requests, window>>

\* The host stops, is stopped or crashes: its windows go with it.
Vanish ==
    /\ requests' = [c \in Clients |-> <<>>]
    /\ window' = Nobody
    /\ note' = FALSE

Next == (\E c \in Clients : Ask(c) \/ Serve(c)) \/ TimeOut \/ Vanish

Spec == Init /\ [][Next]_vars
=============================================================================
