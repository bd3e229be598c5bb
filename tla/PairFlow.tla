------------------------------- MODULE PairFlow -------------------------------
(***************************************************************************)
(* What the pair state machine of the worker (packages/worker/src/pair/    *)
(* state.ts) promises to those who listen to it: which states a user goes  *)
(* through, and which callbacks (PairMachineEvents) come with each change. *)
(* Sockets, timers and awaits are hidden; PairMachine implements this.     *)
(*                                                                         *)
(* `stray` is the one thing that breaks the promises: a reopen after a 515 *)
(* that outlived the flow it belongs to may bring its socket up at any     *)
(* time.                                                                   *)
(***************************************************************************)
EXTENDS Naturals, Sequences

VARIABLES
    state, \* PairState, or "absent": the user has no entry
    cmd,   \* the command being awaited, and at which await
    boot,  \* the restore pass is still running
    armed, \* the flow has a socket, or waits for one
    out,   \* the callbacks the last step made, in order
    stray  \* a reopen outlived its flow

flowVars == <<state, cmd, boot, armed, out, stray>>

PairState == {"idle", "generating", "awaiting_scan", "paired", "error", "expired"}
MidPair   == {"generating", "awaiting_scan"}

Changes(s, calls) == state' = s /\ out' = <<"onStateChange">> \o calls
Stays(calls)      == UNCHANGED state /\ out' = calls

\* A stray reopen may bring a socket at any time.
Arms(b) == armed' = b \/ stray'

-----------------------------------------------------------------------------
FlowInit ==
    /\ state = "absent"
    /\ cmd = "none"
    /\ boot = TRUE
    /\ armed = FALSE
    /\ out = <<>>
    /\ stray = FALSE

(* Commands: the restore pass at boot, later start() and stop().           *)

\* The entry is made, or made anew, without a word to anyone.
FlowResume ==
    /\ boot /\ state # "paired"
    /\ state' = "idle" /\ out' = <<>>
    /\ Arms(TRUE)
    /\ UNCHANGED <<cmd, boot>>

FlowResumed ==
    /\ boot
    /\ state \in {"idle", "error"}
    /\ Changes("paired", <<"onSocketReady">>)
    /\ Arms(TRUE)
    /\ UNCHANGED <<cmd, boot>>

FlowBooted ==
    /\ boot /\ boot' = FALSE
    /\ Stays(<<>>)
    /\ Arms(armed)
    /\ UNCHANGED cmd

\* start() or stop() has an old socket to dispose of.
FlowDispose(c) ==
    /\ ~boot /\ cmd = "none" /\ state # "absent"
    /\ cmd' = c
    /\ Stays(<<>>)
    /\ Arms(armed)
    /\ UNCHANGED boot

FlowStart ==
    /\ ~boot /\ cmd \in {"none", "startDispose"}
    /\ Changes("generating", <<>>)
    /\ cmd' = "start"
    /\ Arms(TRUE)
    /\ UNCHANGED boot

FlowStarted ==
    /\ cmd = "start" /\ cmd' = "none"
    /\ Stays(<<>>)
    /\ Arms(TRUE)
    /\ UNCHANGED boot

FlowStop ==
    /\ ~boot /\ cmd \in {"none", "stop"} /\ state # "absent"
    /\ Changes("idle", <<>>)
    /\ cmd' = "none"
    /\ Arms(FALSE)
    /\ UNCHANGED boot

(* Events of the sockets, the QR encoder and the timer.                    *)

FlowQr ==
    /\ state # "absent"
    /\ IF state = "generating"
       THEN Changes("awaiting_scan", <<"onQr">>)
       ELSE Stays(<<"onQr">>)
    /\ Arms(armed)
    /\ UNCHANGED <<cmd, boot>>

FlowCreds ==
    /\ state # "absent"
    /\ (armed /\ cmd = "none") \/ stray
    /\ Stays(<<"onCredsUpdate">>)
    /\ Arms(armed)
    /\ UNCHANGED <<cmd, boot>>

\* The socket of the flow opens: a scan, or the first connection of a resumed
\* session.  A command has disposed of the socket, or waits for the next one.  The
\* entry's creds carry the phone number.
FlowOpen ==
    /\ armed /\ cmd = "none"
    /\ state \in MidPair \cup {"paired", "error"}
    /\ Changes("paired", <<"onSocketReady", "onPaired">>)
    /\ Arms(TRUE)
    /\ UNCHANGED <<cmd, boot>>

\* A stray socket opens: what is told depends on what the entry refers to.
FlowOpenStray ==
    /\ stray
    /\ \E calls \in {<<>>, <<"onSocketReady">>, <<"onSocketReady", "onPaired">>} :
           Changes("paired", calls)
    /\ armed' \in BOOLEAN
    /\ UNCHANGED <<cmd, boot>>

\* A socket closes or a factory call rejects; a paired user is left alone.
FlowFail ==
    /\ state \notin {"absent", "paired"} \/ stray
    /\ Changes("error", <<"onError">>)
    /\ Arms(armed) \/ Arms(FALSE)
    /\ cmd' \in {cmd, IF cmd = "start" THEN "none" ELSE cmd}
    /\ UNCHANGED boot

\* stop() clears the timer first, start() arms it last.
FlowExpire ==
    /\ state \in MidPair /\ cmd \in {"none", "startDispose"}
    /\ Changes("expired", <<>>)
    /\ Arms(FALSE)
    /\ UNCHANGED <<cmd, boot>>

\* Whatever else happens inside is not heard of.
FlowQuiet == Stays(<<>>) /\ Arms(armed) /\ UNCHANGED <<cmd, boot>>

FlowCommand ==
    \/ FlowResume \/ FlowResumed \/ FlowBooted
    \/ FlowDispose("startDispose") \/ FlowStart \/ FlowStarted
    \/ FlowDispose("stop") \/ FlowStop

FlowEvent ==
    \/ FlowQr \/ FlowCreds \/ FlowOpen
    \/ FlowFail \/ FlowExpire \/ FlowQuiet

FlowNext ==
    /\ FlowCommand \/ FlowEvent \/ FlowOpenStray
    /\ armed' \in BOOLEAN
    /\ stray => stray'

FlowSpec == FlowInit /\ [][FlowNext]_flowVars
=============================================================================
