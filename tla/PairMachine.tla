----------------------------- MODULE PairMachine -----------------------------
(***************************************************************************)
(* The pair state machine of the worker (packages/worker/src/pair/state.ts)*)
(* for ONE user: `machines` maps every user to an entry of its own, and no *)
(* handler touches the entry of another user.                              *)
(*                                                                         *)
(* A step is one uninterrupted run of JavaScript: a handler up to its next *)
(* `await`, or the continuation after it.  Three kinds of actor interleave *)
(* between those steps:                                                    *)
(*   - the command loop of pair/index.ts, which awaits start() and stop()  *)
(*     one at a time, and before it the boot-time restore pass, which      *)
(*     calls resumePaired();                                               *)
(*   - the Baileys sockets, each calling handleUpdate() on its own;        *)
(*   - the 2-minute timer, the QR encoder and the factory calls that the   *)
(*     515 handler started and nobody awaits.                              *)
(*                                                                         *)
(* A socket stands for one call of the socket factory from the moment it   *)
(* is made.  The library behind it is external: what is assumed of it is   *)
(* that a socket opens at most once, that its 'close' is its last          *)
(* connection event, and that dispose() may make it emit that 'close'.     *)
(***************************************************************************)
EXTENDS Naturals, Sequences

CONSTANTS
    Sockets,  \* ids of sockets; an id whose socket is closed is used again,
              \* so the set bounds how many are open at once, not how many
              \* are ever created
    NoSocket, \* `null`
    MaxQr     \* bound: QR images being encoded at the same time

ASSUME SocketAssumption == NoSocket \notin Sockets
ASSUME BoundAssumption == MaxQr \in Nat \ {0}

VARIABLES
    state,      \* SingleMachine.state, or "absent": no entry in `machines`
    socket,     \* SingleMachine.socket
    timer,      \* an expiry timeout is armed
    conn,       \* per socket: where it is in its life
    registered, \* sockets whose creds object carries `me` (the scan happened)
    cmd,        \* the command the loop is awaiting, and at which await
    held,       \* the socket whose dispose() that command awaits
    boot,       \* the restore pass is still running
    qrs,        \* QR images being encoded
    out,        \* the PairMachineEvents callbacks the last step made, in order
    announced,  \* history: the socket last passed to onSocketReady
    raced       \* history: a 515 reopen outlived the pair flow it belongs to

machineVars == <<state, socket, timer>>
socketVars  == <<conn, registered>>
cmdVars     == <<cmd, held, boot>>
vars == <<machineVars, socketVars, cmdVars, qrs, out, announced, raced>>

PairState == {"idle", "generating", "awaiting_scan", "paired", "error", "expired"}
MidPair   == {"generating", "awaiting_scan"}
Opening   == {"starting", "reopening", "resuming"}
Live      == {"connecting", "open"}
Callback  == {"onStateChange", "onQr", "onPaired", "onError",
              "onCredsUpdate", "onSocketReady"}

TypeOK ==
    /\ state \in PairState \cup {"absent"}
    /\ socket \in Sockets \cup {NoSocket}
    /\ timer \in BOOLEAN
    /\ conn \in [Sockets -> Opening \cup Live \cup {"disposing", "closed"}]
    /\ registered \subseteq Sockets
    /\ cmd \in {"none", "startDispose", "start", "stop"}
    /\ held \in Sockets \cup {NoSocket}
    /\ boot \in BOOLEAN
    /\ qrs \in 0..MaxQr
    /\ out \in Seq(Callback)
    /\ announced \in Sockets \cup {NoSocket}
    /\ raced \in BOOLEAN

-----------------------------------------------------------------------------
(* Helpers.                                                                *)

Having(life) == {s \in Sockets : conn[s] \in life}

\* An id for the next factory call: no living socket has it, nothing refers to it.
Free == {s \in Sockets : conn[s] = "closed" /\ s \notin {socket, held}}

\* The history variables after a step; every action ends with one of them.
ReopenOutlivesFlow ==
    /\ \E s \in Sockets : conn[s] = "reopening"
    /\ state \notin MidPair \/ cmd = "start"
Watch   == raced' = (raced \/ ReopenOutlivesFlow')
Forgets(s) == announced' = IF announced = s THEN NoSocket ELSE announced

\* makeSocket().dispose() called on `s`: end() has not run yet.
Disposed(s) ==
    IF s \in Sockets /\ conn[s] \in Live
    THEN [conn EXCEPT ![s] = "disposing"]
    ELSE conn

\* Mutant of Fails: the database's word for a failed pair, in the machine.
FailsDisconnected ==
    /\ state' = "disconnected"
    /\ out' = <<"onStateChange", "onError">>

\* transition(userId, "error") and onError, as the failure paths do.
Fails ==
    /\ state' = "error"
    /\ out' = <<"onStateChange", "onError">>

-----------------------------------------------------------------------------
Init ==
    /\ state = "absent"
    /\ socket = NoSocket
    /\ timer = FALSE
    /\ conn = [s \in Sockets |-> "closed"]
    /\ registered = {}
    /\ cmd = "none"
    /\ held = NoSocket
    /\ boot = TRUE
    /\ qrs = 0
    /\ out = <<>>
    /\ announced = NoSocket
    /\ raced = FALSE

-----------------------------------------------------------------------------
(* resumePaired: the restore pass, before the command loop exists.         *)

\* Mutant of Resume: without the inFlightResumes guard.
ResumeUnguarded(s) ==
    /\ boot
    /\ state # "paired"
    /\ s \in Free
    /\ state' = "idle"
    /\ socket' = NoSocket
    /\ timer' = FALSE
    /\ conn' = [conn EXCEPT ![s] = "resuming"]
    /\ registered' = registered \cup {s}
    /\ out' = <<>>
    /\ Forgets(s)
    /\ UNCHANGED <<cmdVars, qrs>>
    /\ Watch

Resume(s) ==
    /\ boot
    /\ state # "paired"
    /\ Having({"resuming"}) = {}
    /\ s \in Free
    /\ state' = "idle"
    /\ socket' = NoSocket
    /\ timer' = FALSE
    /\ conn' = [conn EXCEPT ![s] = "resuming"]
    /\ registered' = registered \cup {s}
    /\ out' = <<>>
    /\ Forgets(s)
    /\ UNCHANGED <<cmdVars, qrs>>
    /\ Watch

ResumeOpened(s) ==
    /\ conn[s] = "resuming"
    /\ conn' = [conn EXCEPT ![s] = "connecting"]
    /\ state' = "paired"
    /\ socket' = s
    /\ timer' = FALSE
    /\ announced' = s
    /\ out' = <<"onStateChange", "onSocketReady">>
    /\ UNCHANGED <<registered, cmdVars, qrs>>
    /\ Watch

ResumeFailed(s) ==
    /\ conn[s] = "resuming"
    /\ conn' = [conn EXCEPT ![s] = "closed"]
    /\ Fails
    /\ UNCHANGED <<socket, timer, registered, cmdVars, qrs, announced>>
    /\ Watch

\* restorePairedSessions has returned; startPairWorker begins to read commands.
BootDone ==
    /\ boot
    /\ Having({"resuming"}) = {}
    /\ boot' = FALSE
    /\ out' = <<>>
    /\ UNCHANGED <<machineVars, socketVars, cmd, held, qrs, announced>>
    /\ Watch

-----------------------------------------------------------------------------
(* start(userId, null): a fresh pair.                                      *)

StartDispose ==
    /\ ~boot /\ cmd = "none"
    /\ socket # NoSocket
    /\ conn' = Disposed(socket)
    /\ cmd' = "startDispose"
    /\ held' = socket
    /\ out' = <<>>
    /\ UNCHANGED <<machineVars, registered, boot, qrs, announced>>
    /\ Watch

\* From the disposed predecessor (or at once, when there is none) to the
\* factory call.  The entry is replaced, so what it referred to is dropped.
StartFresh(s) ==
    /\ \/ ~boot /\ cmd = "none" /\ socket = NoSocket
       \/ cmd = "startDispose" /\ conn[held] = "closed"
    /\ conn[s] = "closed"
    /\ state' = "generating"
    /\ socket' = NoSocket
    /\ timer' = FALSE
    /\ conn' = [conn EXCEPT ![s] = "starting"]
    /\ registered' = registered \ {s}
    /\ cmd' = "start"
    /\ held' = NoSocket
    /\ out' = <<"onStateChange">>
    /\ Forgets(s)
    /\ UNCHANGED <<boot, qrs>>
    /\ Watch

\* Mutant of StartOpened: arms the timer only if no QR has been shown yet.
StartOpenedTimesGenerating(s) ==
    /\ conn[s] = "starting"
    /\ conn' = [conn EXCEPT ![s] = "connecting"]
    /\ socket' = s
    /\ timer' = (state = "generating")
    /\ cmd' = "none"
    /\ out' = <<>>
    /\ UNCHANGED <<state, registered, held, boot, qrs, announced>>
    /\ Watch

StartOpened(s) ==
    /\ conn[s] = "starting"
    /\ conn' = [conn EXCEPT ![s] = "connecting"]
    /\ socket' = s
    /\ timer' = TRUE
    /\ cmd' = "none"
    /\ out' = <<>>
    /\ UNCHANGED <<state, registered, held, boot, qrs, announced>>
    /\ Watch

StartFailed(s) ==
    /\ conn[s] = "starting"
    /\ conn' = [conn EXCEPT ![s] = "closed"]
    /\ Fails
    /\ cmd' = "none"
    /\ UNCHANGED <<socket, timer, registered, held, boot, qrs, announced>>
    /\ Watch

-----------------------------------------------------------------------------
(* stop(userId).  On an absent entry it returns at once.                   *)

StopDispose ==
    /\ ~boot /\ cmd = "none"
    /\ socket # NoSocket
    /\ timer' = FALSE
    /\ conn' = Disposed(socket)
    /\ cmd' = "stop"
    /\ held' = socket
    /\ out' = <<>>
    /\ UNCHANGED <<state, socket, registered, boot, qrs, announced>>
    /\ Watch

\* No onError, and nobody is told that the socket is gone.
StopIdle ==
    /\ \/ ~boot /\ cmd = "none" /\ state # "absent" /\ socket = NoSocket
       \/ cmd = "stop" /\ conn[held] = "closed"
    /\ timer' = FALSE
    /\ socket' = NoSocket
    /\ state' = "idle"
    /\ cmd' = "none"
    /\ held' = NoSocket
    /\ out' = <<"onStateChange">>
    /\ UNCHANGED <<socketVars, boot, qrs, announced>>
    /\ Watch

-----------------------------------------------------------------------------
(* handleUpdate with `qr`: the image is encoded off the handler.           *)

Qr(s) ==
    /\ conn[s] = "connecting" /\ s \notin registered
    /\ qrs < MaxQr
    /\ qrs' = qrs + 1
    /\ out' = <<>>
    /\ UNCHANGED <<machineVars, socketVars, cmdVars, announced>>
    /\ Watch

QrEncoded ==
    /\ qrs > 0
    /\ qrs' = qrs - 1
    /\ \/ /\ state = "generating"
          /\ state' = "awaiting_scan"
          /\ out' = <<"onStateChange", "onQr">>
       \/ /\ state # "generating"
          /\ out' = <<"onQr">>
          /\ UNCHANGED state
    /\ UNCHANGED <<socket, timer, socketVars, cmdVars, announced>>
    /\ Watch

QrEncodeFailed ==
    /\ qrs > 0
    /\ qrs' = qrs - 1
    /\ out' = <<>>
    /\ UNCHANGED <<machineVars, socketVars, cmdVars, announced>>
    /\ Watch

\* creds.update; the one that follows the scan puts `me` into the creds.
CredsUpdate(s) ==
    /\ conn[s] \in Live
    /\ registered' \in {registered, registered \cup {s}}
    /\ out' = <<"onCredsUpdate">>
    /\ UNCHANGED <<machineVars, conn, cmdVars, qrs, announced>>
    /\ Watch

\* Mutant of Open: onSocketReady only for the first socket of the user.
OpenAnnouncesOnce(s) ==
    /\ conn[s] = "connecting" /\ s \in registered
    /\ conn' = [conn EXCEPT ![s] = "open"]
    /\ state' = "paired"
    /\ timer' = FALSE
    /\ announced' = IF announced = NoSocket THEN socket ELSE announced
    /\ out' = <<"onStateChange">>
    /\ UNCHANGED <<socket, registered, cmdVars, qrs>>
    /\ Watch

\* handleUpdate with connection = "open".  It reads the socket and the creds
\* of the ENTRY, whichever socket the event came from.
Open(s) ==
    /\ conn[s] = "connecting" /\ s \in registered
    /\ conn' = [conn EXCEPT ![s] = "open"]
    /\ state' = "paired"
    /\ timer' = FALSE
    /\ IF socket = NoSocket
       THEN /\ out' = <<"onStateChange">>
            /\ UNCHANGED announced
       ELSE /\ announced' = socket
            /\ out' = IF socket \in registered
                      THEN <<"onStateChange", "onSocketReady", "onPaired">>
                      ELSE <<"onStateChange", "onSocketReady">>
    /\ UNCHANGED <<socket, registered, cmdVars, qrs>>
    /\ Watch

-----------------------------------------------------------------------------
(* handleUpdate with connection = "close", emitted by socket `s`.          *)

\* While paired: logged, for a reconnect layer that does not exist.
CloseIgnored(s) ==
    /\ state = "paired"
    /\ conn' = [conn EXCEPT ![s] = "closed"]
    /\ out' = <<>>
    /\ UNCHANGED <<machineVars, registered, announced>>

\* Mutant of CloseFails: a drop while paired is a failed pair as well.
CloseAlwaysFails(s) ==
    /\ conn' = [conn EXCEPT ![s] = "closed"]
    /\ timer' = FALSE
    /\ Fails
    /\ UNCHANGED <<socket, registered, announced>>

CloseFails(s) ==
    /\ state # "paired"
    /\ conn' = [conn EXCEPT ![s] = "closed"]
    /\ timer' = FALSE
    /\ Fails
    /\ UNCHANGED <<socket, registered, announced>>

\* Mutant of CloseRestarts: clears the timer, as the failure path does.
CloseRestartsUntimed(s, r) ==
    /\ state \in MidPair
    /\ socket # NoSocket
    /\ r \in Free
    /\ conn' = [Disposed(socket) EXCEPT ![s] = "closed", ![r] = "reopening"]
    /\ registered' = IF socket \in registered
                     THEN registered \cup {r} ELSE registered \ {r}
    /\ socket' = NoSocket
    /\ timer' = FALSE
    /\ out' = <<>>
    /\ Forgets(r)
    /\ UNCHANGED state

\* 515 in the middle of a pair: reopen with the creds of the entry's socket.
CloseRestarts(s, r) ==
    /\ state \in MidPair
    /\ socket # NoSocket
    /\ r \in Free
    /\ conn' = [Disposed(socket) EXCEPT ![s] = "closed", ![r] = "reopening"]
    /\ registered' = IF socket \in registered
                     THEN registered \cup {r} ELSE registered \ {r}
    /\ socket' = NoSocket
    /\ out' = <<>>
    /\ Forgets(r)
    /\ UNCHANGED <<state, timer>>

Close(s) ==
    /\ conn[s] \in Live
    /\ CloseIgnored(s) \/ CloseFails(s)
    /\ UNCHANGED <<cmdVars, qrs>>
    /\ Watch

Close515(s) ==
    /\ conn[s] \in Live
    /\ \/ CloseIgnored(s)
       \/ \E r \in Sockets : CloseRestarts(s, r)
       \/ (state \notin MidPair \/ socket = NoSocket) /\ CloseFails(s)
    /\ UNCHANGED <<cmdVars, qrs>>
    /\ Watch

\* dispose() reaches sock.end(): a last 'close' without a status code, unless
\* the library had already delivered it.
DisposeEnd(s) ==
    /\ conn[s] = "disposing"
    /\ \/ CloseIgnored(s) \/ CloseFails(s)
       \/ /\ conn' = [conn EXCEPT ![s] = "closed"]
          /\ out' = <<>>
          /\ UNCHANGED <<machineVars, registered, announced>>
    /\ UNCHANGED <<cmdVars, qrs>>
    /\ Watch

-----------------------------------------------------------------------------
(* reopenSocket resolves: nothing is checked about the entry it returns to.*)

ReopenOpened(s) ==
    /\ conn[s] = "reopening"
    /\ conn' = [conn EXCEPT ![s] = "connecting"]
    /\ socket' = s
    /\ out' = <<>>
    /\ UNCHANGED <<state, timer, registered, cmdVars, qrs, announced>>
    /\ Watch

ReopenFailed(s) ==
    /\ conn[s] = "reopening"
    /\ conn' = [conn EXCEPT ![s] = "closed"]
    /\ Fails
    /\ UNCHANGED <<socket, timer, registered, cmdVars, qrs, announced>>
    /\ Watch

\* Mutant of Expire: drops the socket without disposing it.
ExpireUndisposed ==
    /\ timer
    /\ state \in MidPair
    /\ socket' = NoSocket
    /\ timer' = FALSE
    /\ state' = "expired"
    /\ out' = <<"onStateChange">>
    /\ UNCHANGED <<conn, registered, cmdVars, qrs, announced>>
    /\ Watch

(* handleTimeout.                                                          *)
Expire ==
    /\ timer
    /\ state \in MidPair
    /\ conn' = Disposed(socket)
    /\ socket' = NoSocket
    /\ timer' = FALSE
    /\ state' = "expired"
    /\ out' = <<"onStateChange">>
    /\ UNCHANGED <<registered, cmdVars, qrs, announced>>
    /\ Watch

ExpireTooLate ==
    /\ timer
    /\ state \notin MidPair
    /\ timer' = FALSE
    /\ out' = <<>>
    /\ UNCHANGED <<state, socket, socketVars, cmdVars, qrs, announced>>
    /\ Watch

-----------------------------------------------------------------------------
\* The worker's own steps: what the event loop runs without anyone asking.
Continue(s) ==
    \/ ResumeOpened(s) \/ ResumeFailed(s)
    \/ StartOpened(s)  \/ StartFailed(s)
    \/ ReopenOpened(s) \/ ReopenFailed(s)
    \/ DisposeEnd(s)

Command ==
    \/ \E s \in Sockets : Resume(s) \/ StartFresh(s)
    \/ BootDone
    \/ StartDispose
    \/ StopDispose \/ StopIdle

SocketEvent(s) ==
    \/ Qr(s) \/ CredsUpdate(s) \/ Open(s) \/ Close(s) \/ Close515(s)

Next ==
    \/ Command
    \/ \E s \in Sockets : Continue(s) \/ SocketEvent(s)
    \/ QrEncoded \/ QrEncodeFailed
    \/ Expire \/ ExpireTooLate

Spec == Init /\ [][Next]_vars

\* The event loop's own steps are taken.  A factory call settles because
\* fetchLatestBaileysVersion falls back when its endpoint is unreachable and
\* makeWASocket is synchronous; dispose() awaits only the close of a socket; a
\* continuation that may run is run.  The timer is strongly fair: `start`
\* re-arms it, and at most 3 inits per user and hour (routes/pair.ts) cannot
\* keep a 2-minute timeout from firing.  Users and sockets owe nothing.
Fairness ==
    /\ \A s \in Sockets : WF_vars(Continue(s))
    /\ WF_vars(cmd # "none" /\ Command)
    /\ SF_vars(Expire)

FairSpec == Spec /\ Fairness

-----------------------------------------------------------------------------
(* Properties.                                                             *)

\* A pair flow that is under way has its 2-minute timer armed, or start() is
\* still awaiting its factory and will arm it, or stop() has cleared it and is
\* about to leave the flow.  (state.ts keeps the timer across a 515 reopen and
\* across QR rotations; a path that lost it would leave the user scanning a
\* dead QR for ever.)
MidPairTimed == state \in MidPair => timer \/ cmd \in {"start", "stop"}

\* Unless a 515 reopen outlived its pair flow, the only WhatsApp connection
\* open for the user is the one the entry refers to: start, stop, expiry,
\* resume and the 515 restart dispose every socket they drop.
NoLeakedSocket ==
    ~raced => \A s \in Sockets : conn[s] \in Live => s = socket

\* Unless a reopen outlived its flow, the socket of a paired entry is the one
\* that was handed to onSocketReady, whatever restarts and retries preceded:
\* messages are read from the socket that is actually connected.
PairedSocketAnnounced ==
    ~raced /\ state = "paired" /\ socket # NoSocket => announced = socket

\* Once stop() has returned or the flow has expired (and no reopen was in
\* flight), nothing of the flow is left that could bring it back: no timer, no
\* socket in the entry, none connecting, open or being opened.
EndedFlowIsQuiet ==
    ~raced /\ ~boot /\ cmd = "none" /\ state \in {"idle", "expired"}
        => /\ ~timer /\ socket = NoSocket
           /\ Having(Live \cup Opening) = {}

\* A paired entry leaves `paired` only for a command: neither a dropped
\* connection, nor a late timeout, nor the close of a predecessor's socket
\* turns it into `error` or `expired`, unless a reopen outlived its flow.
PairedLeavesByCommand ==
    [][state = "paired" /\ ~raced => state' \in {"paired", "generating", "idle"}]_vars

\* Every pair flow ends: paired, failed, expired or stopped (the 2-minute
\* bound of state.ts, whatever 515 restarts and retries happen meanwhile).
PairFlowEnds == state \in MidPair ~> state \notin MidPair

\* What the listeners of the machine rely on: it is a PairFlow.  A paired user
\* leaves `paired` only for a command, an ended flow does not come back, and
\* every change of state is told with the callbacks that belong to it.
Flow == INSTANCE PairFlow WITH
            armed <- socket # NoSocket \/ Having(Opening) # {},
            stray <- raced
FlowImplemented == Flow!FlowSpec
=============================================================================
