----------------------------- MODULE MCHostLink -----------------------------
(***************************************************************************)
(* HostLink for TLC and for the proofs, and the service of WindowService   *)
(* it provides.                                                            *)
(***************************************************************************)
EXTENDS HostLink, SequencesExt

\* The requests of client c in the channel, in the hands of a connection thread, and
\* in a pipe.
InChannel(ch, c) ==
    FlattenSeq([i \in DOMAIN ch |->
                  IF ch[i].from = c THEN <<ch[i].kind>> ELSE <<>>])
Held(t) == IF t.kind = "none" THEN <<>> ELSE <<t.kind>>
InPipe(kinds) ==
    FlattenSeq([i \in DOMAIN kinds |-> IF kinds[i] \in WindowKinds THEN <<kinds[i]>> ELSE <<>>])

\* The requests of client c that the main thread has not handled.
Requests(c) == InChannel(chan, c) \o Held(thread[c]) \o InPipe(pipe[c])

Service == INSTANCE WindowService WITH
    requests <- [c \in Clients |-> Requests(c)]

\* The requests of one client are served in their order, whatever the threads do
\* (ipc_loop, MainLoopHandle::send, command_loop).
ServesInOrder == Service!Spec
=============================================================================
