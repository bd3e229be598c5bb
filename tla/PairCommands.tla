---------------------------- MODULE PairCommands ----------------------------
(***************************************************************************)
(* How the commands of ONE user reach his pair machine, and how its state  *)
(* becomes known: the API's routes (packages/api/src/routes/pair.ts), the  *)
(* command stream and the worker's loop over it (pair/index.ts), the       *)
(* status that onStateChange, onError and onPaired write to Redis and      *)
(* Postgres (worker/src/index.ts), and which sessions the restore pass of  *)
(* the next boot picks (restore.ts).                                       *)
(*                                                                         *)
(* The machine is PairFlow, which PairMachine implements; a reopen that    *)
(* outlives its flow is left to PairMachine.  A step of the machine makes  *)
(* its callbacks in the same run of JavaScript (React); none of the writes *)
(* they issue is awaited, so each lands in a step of its own.  Redis runs  *)
(* the worker's calls in the order they were issued (one connection);      *)
(* Postgres runs them in any order (a pool); onPaired's update of the row  *)
(* is one more of them.  Credentials and snapshots are in PairSnapshots.   *)
(***************************************************************************)
EXTENDS PairFlow

CONSTANTS
    MaxCalls,   \* bound: calls on their way to Redis before the machine goes on
    MaxRows,    \* bound: status updates on their way to Postgres
    MaxCommands \* bound: commands in the stream

ASSUME BoundsAssumption == MaxCalls \in Nat /\ MaxRows \in Nat /\ MaxCommands \in Nat

VARIABLES
    mode,     \* the worker: down, up, stopping (after SIGTERM), draining
    restore,  \* what findMany of the restore pass found and is still to do
    batch,    \* commands read from the stream and not yet acknowledged
    active,   \* activeUsers has the user
    calls,    \* values of the state key on their way to Redis, in order
    rows,     \* updates of the status on their way to Postgres, oldest first
    stream,   \* unread commands of the stream
    group,    \* its consumer group exists
    key,      \* wpa:wa-session:<user>:state, or "none"; "stale": what it had
              \* before a SET that was rejected
    status,   \* whatsapp_session.status, or "none": no row
    req,      \* the request to the API being served, and its next write
    deaf,     \* the loop has ended with the process alive
    broken,   \* history: the last request failed between its writes, was being
              \* served when the worker ended, or its command was lost
    overtook, \* history: an update of the status landed before an older one that
              \* says otherwise, or the newest was rejected; and none had the way
              \* to itself since
    ended,    \* history: the last completed request was a disconnect, and the
              \* status did not become paired after that
    keeps     \* history: SIGTERM met a paired session with nothing left to write

workerVars  == <<mode, restore, batch, active, deaf>>
writeVars   == <<calls, rows>>
storeVars   == <<stream, group, key, status>>
historyVars == <<broken, overtook, ended, keeps>>
commandVars == <<flowVars, workerVars, writeVars, storeVars, req, historyVars>>

Commands == {"init", "stop"}
Statuses == {"pairing", "paired", "expired", "disconnected"}

CommandTypeOK ==
    /\ mode \in {"down", "up", "stopping", "draining"}
    /\ restore \in {"none", "missing", "found"}
    /\ batch \in Seq(Commands) /\ stream \in Seq(Commands)
    /\ active \in BOOLEAN /\ group \in BOOLEAN /\ deaf \in BOOLEAN
    /\ calls \in Seq(PairState) /\ rows \in Seq(Statuses)
    /\ key \in PairState \cup {"none", "stale"}
    /\ status \in Statuses \cup {"none"}
    /\ req \in {"none", "initSend", "stopSend", "stopRow"}

\* Mutant of StatusOf: the machine's own word in the row.
StatusOfRaw(s) == s

\* Mutant of StatusOf: leaves `paired` to onPaired.
StatusOfUnpaired(s) ==
    CASE s = "expired" -> s
      [] s = "error" -> "disconnected"
      [] OTHER -> "pairing"

\* dbStatus of onStateChange.
StatusOf(s) ==
    CASE s \in {"paired", "expired"} -> s
      [] s = "error" -> "disconnected"
      [] OTHER -> "pairing"

Told(f) == \E i \in DOMAIN out' : out'[i] = f
At(c)   == batch # <<>> /\ Head(batch) = c
Alive   == mode # "down"
Silent  == out' = <<>> /\ UNCHANGED <<state, cmd, boot, armed, stray>>

\* The process is gone, and with it whatever had not reached a store.
Gone ==
    /\ mode' = "down" /\ restore' = "none"
    /\ batch' = <<>> /\ active' = FALSE /\ deaf' = FALSE
    /\ calls' = <<>> /\ rows' = <<>>
    /\ state' = "absent" /\ cmd' = "none" /\ boot' = TRUE /\ armed' = FALSE
    /\ out' = <<>>
    /\ broken' = (broken \/ req # "none") 
    /\ overtook' = FALSE
    /\ UNCHANGED <<stray, storeVars, req, ended>>

CommandInit ==
    /\ FlowInit
    /\ mode = "down" /\ restore = "none"
    /\ batch = <<>> /\ active = FALSE /\ deaf = FALSE
    /\ calls = <<>> /\ rows = <<>>
    /\ stream = <<>> /\ group = FALSE /\ key = "none" /\ status = "none"
    /\ req = "none"
    /\ broken = FALSE /\ overtook = FALSE
    /\ ended = FALSE /\ keeps = FALSE

-----------------------------------------------------------------------------
(* The callbacks of a step of the machine.                                 *)

React ==
    /\ calls' = calls \o (IF Told("onStateChange") THEN <<state'>> ELSE <<>>)
                      \o (IF Told("onError") THEN <<"error">> ELSE <<>>)
    /\ rows' = rows \o (IF Told("onStateChange") THEN <<StatusOf(state')>> ELSE <<>>)
                    \o (IF Told("onPaired") THEN <<"paired">> ELSE <<>>)
    /\ overtook' = (overtook /\ (rows' = rows \/ rows # <<>>))
    /\ UNCHANGED <<storeVars, req, ended, keeps>>

\* Bounds: the machine goes on when most of what it issued has landed.
MayGo == UNCHANGED stray /\ Alive /\ Len(calls) <= MaxCalls /\ Len(rows) < MaxRows

\* The command has returned.  An acknowledgement that is rejected ends the loop,
\* and with it the rest of the batch.
Acknowledge ==
    \/ batch' = Tail(batch) /\ UNCHANGED <<deaf, broken>>
    \/ batch' = <<>> /\ deaf' = TRUE /\ broken' = (broken \/ Len(batch) > 1)

InHand == UNCHANGED <<batch, deaf, broken>>

\* The machine moves on its own: sockets, QR codes, the timer.  (A QR code that
\* comes in another state writes the image only, which is left out, as are the
\* creds.)
MachineEvent ==
    /\ MayGo
    /\ \/ FlowQr /\ state = "generating"
       \/ FlowExpire \/ FlowFail \/ FlowOpen
    /\ IF cmd # "none" /\ cmd' = "none" THEN Acknowledge ELSE InHand
    /\ UNCHANGED <<mode, restore, active>>
    /\ React

-----------------------------------------------------------------------------
(* startPairWorker: commands are read in batches and carried out one by    *)
(* one; a command is acknowledged when it has returned.                    *)

Reading == mode \in {"up", "stopping"} /\ ~boot /\ ~deaf /\ batch = <<>> /\ stream # <<>>

ReadCommands ==
    /\ Reading
    /\ batch' = stream /\ stream' = <<>>
    /\ Silent
    /\ UNCHANGED <<mode, restore, active, deaf, writeVars, group, key, status, req, historyVars>>

\* Redis has handed the commands out, and the reply is lost: the loop goes on to
\* the next ones.
ReadLost ==
    /\ Reading
    /\ stream' = <<>>
    /\ broken' = TRUE
    /\ Silent
    /\ UNCHANGED <<workerVars, writeVars, group, key, status, req, overtook, ended, keeps>>

\* pairMachine.start, up to the factory call.
Start ==
    /\ MayGo
    /\ At("init")
    /\ FlowDispose("startDispose") \/ FlowStart
    /\ active' = TRUE
    /\ InHand
    /\ UNCHANGED <<mode, restore>>
    /\ React

Started ==
    /\ MayGo
    /\ FlowStarted
    /\ Acknowledge
    /\ UNCHANGED <<mode, restore, active>>
    /\ React

\* pairMachine.stop for a command.
Stop ==
    /\ MayGo
    /\ At("stop")
    /\ \/ FlowDispose("stop") /\ InHand
       \/ FlowStop /\ Acknowledge
    /\ active' = FALSE
    /\ UNCHANGED <<mode, restore>>
    /\ React

\* On an absent entry it returns at once.
StopAbsent ==
    /\ At("stop") /\ state = "absent"
    /\ Acknowledge
    /\ active' = FALSE
    /\ Silent
    /\ UNCHANGED <<mode, restore, writeVars, storeVars, req, overtook, ended, keeps>>

-----------------------------------------------------------------------------
(* What was issued lands, or is rejected: that is logged, and that is all. *)
(* These steps leave the machine alone.                                    *)

\* The oldest SET of the worker leaves the queue.
KeyLeaves(k) ==
    /\ calls # <<>>
    /\ calls' = Tail(calls)
    /\ key' = k
    /\ Silent
    /\ UNCHANGED <<workerVars, rows, stream, group, status, req, historyVars>>

KeyLands == KeyLeaves(Head(calls))
KeyLost  == KeyLeaves("stale")

\* An update of the status leaves the queue, in any order.
RowLeaves(i) ==
    /\ rows' = SubSeq(rows, 1, i - 1) \o SubSeq(rows, i + 1, Len(rows))
    /\ Silent
    /\ UNCHANGED <<workerVars, calls, stream, group, key, req, broken, keeps>>

RowLands(i) ==
    /\ RowLeaves(i)
    /\ status' = IF status = "none" THEN "none" ELSE rows[i]
    /\ ended' = (ended /\ status' # "paired")
    /\ overtook' = (overtook \/ \E j \in 1..(i - 1) : rows[j] # rows[i])

\* Also an onPaired that finds no user, or fails before it has updated the row.
RowLost(i) ==
    /\ RowLeaves(i)
    /\ overtook' = (overtook \/ (/\ i = Len(rows)
                                /\ rows[i] # IF i = 1 THEN status ELSE rows[i - 1]))
    /\ UNCHANGED <<status, ended>>

-----------------------------------------------------------------------------
(* Boot and restore.                                                       *)

\* restorePairedSessions: findMany where status = "paired"; there may be no
\* snapshot.
Boot ==
    /\ mode = "down" /\ mode' = "up"
    /\ restore' \in IF status = "paired" THEN {"missing", "found"} ELSE {"none"}
    /\ Silent
    /\ UNCHANGED <<batch, active, deaf, writeVars, storeVars, req, historyVars>>

\* findMany rejects: the worker goes on without the pass.
BootBlind ==
    /\ mode = "down" /\ mode' = "up"
    /\ keeps' = FALSE
    /\ Silent
    /\ UNCHANGED <<restore, batch, active, deaf, writeVars, storeVars, req, broken, overtook, ended>>

\* The catch marks the session disconnected, if it can.
RestoreFails ==
    /\ restore = "missing" /\ restore' = "none"
    /\ status' \in {status, "disconnected"}
    /\ Silent
    /\ UNCHANGED <<mode, batch, active, deaf, writeVars, stream, group, key, req, historyVars>>

\* resumePaired ...
Restore ==
    /\ restore = "found" /\ restore' = "none"
    /\ UNCHANGED stray
    /\ FlowResume
    /\ UNCHANGED <<mode, batch, active, deaf, writeVars, storeVars, req, historyVars>>

\* ... opens its socket.
Resumed ==
    /\ MayGo
    /\ state = "idle"
    /\ FlowResumed
    /\ UNCHANGED <<workerVars, broken>>
    /\ React

\* resumePaired has returned, successful or not.  startPairWorker makes the group,
\* at the end of the stream: what was sent before there ever was one is skipped.
BootEnds ==
    /\ Alive /\ restore = "none" /\ state # "idle"
    /\ UNCHANGED stray
    /\ FlowBooted
    /\ group' = TRUE
    /\ stream' = IF group THEN stream ELSE <<>>
    /\ keeps' = FALSE
    /\ UNCHANGED <<workerVars, writeVars, key, status, req, broken, overtook, ended>>

-----------------------------------------------------------------------------
(* The end of the process.                                                 *)

Crash ==
    /\ Alive
    /\ Gone
    /\ keeps' = FALSE

\* Nothing the worker issued is on its way.
Written == calls = <<>> /\ rows = <<>>

\* The API has nothing in hand and the worker has no command before it.
Quiet == req = "none" /\ stream = <<>> /\ batch = <<>> /\ cmd = "none"

\* shutdown, up to stopPair.
Sigterm ==
    /\ mode = "up" /\ ~boot
    /\ mode' = "stopping"
    /\ keeps' = (Quiet /\ Written /\ state = "paired" /\ status = "paired")
    /\ Silent
    /\ UNCHANGED <<restore, batch, active, deaf, writeVars, storeVars, req, broken, overtook, ended>>

\* The loop has carried out its last batch, or had ended before.
LoopEnds ==
    /\ mode = "stopping" /\ batch = <<>>
    /\ mode' = "draining"
    /\ Silent
    /\ UNCHANGED <<restore, batch, active, deaf, writeVars, storeVars, req, historyVars>>

\* The disposer stops the machines of activeUsers.
StopActive ==
    /\ MayGo
    /\ mode = "draining" /\ active
    /\ \/ FlowDispose("stop") /\ UNCHANGED active
       \/ FlowStop /\ active' = FALSE
    /\ InHand
    /\ UNCHANGED <<mode, restore>>
    /\ React

\* redis.quit waits for the calls before it, $disconnect not for the rows.
Exit ==
    /\ mode = "draining" /\ ~active /\ calls = <<>>
    /\ Gone
    /\ UNCHANGED keeps

-----------------------------------------------------------------------------
(* The API's routes, one request of the user at a time.                    *)

ApiOnly == Silent /\ UNCHANGED <<workerVars, writeVars, group>>

InitUpsert ==
    /\ req = "none" /\ Len(stream) < MaxCommands
    /\ req' = "initSend"
    /\ status' = "pairing"
    /\ ended' = FALSE /\ keeps' = FALSE /\ broken' = FALSE
    /\ ApiOnly
    /\ UNCHANGED <<stream, key, overtook>>

InitSend ==
    /\ req = "initSend" /\ req' = "none"
    /\ stream' = Append(stream, "init")
    /\ ApiOnly
    /\ UNCHANGED <<key, status, historyVars>>

StopDelete ==
    /\ req = "none" /\ Len(stream) < MaxCommands
    /\ req' = "stopSend"
    /\ key' = "none"
    /\ keeps' = FALSE /\ broken' = FALSE
    /\ ApiOnly
    /\ UNCHANGED <<stream, status, overtook, ended>>

StopSend ==
    /\ req = "stopSend" /\ req' = "stopRow"
    /\ stream' = Append(stream, "stop")
    /\ ApiOnly
    /\ UNCHANGED <<key, status, historyVars>>

\* Mutant of StopRow: leaves the row to the worker.
StopRowKept ==
    /\ req = "stopRow" /\ req' = "none"
    /\ ended' = TRUE
    /\ ApiOnly
    /\ UNCHANGED <<stream, key, status, broken, overtook, keeps>>

\* Mutant of StopRow: the key of the state is deleted last.
StopRowDeletes ==
    /\ req = "stopRow" /\ req' = "none"
    /\ status' = IF status = "none" THEN "none" ELSE "disconnected"
    /\ key' = "none"
    /\ ended' = TRUE
    /\ ApiOnly
    /\ UNCHANGED <<stream, broken, overtook, keeps>>

StopRow ==
    /\ req = "stopRow" /\ req' = "none"
    /\ status' = IF status = "none" THEN "none" ELSE "disconnected"
    /\ ended' = TRUE
    /\ ApiOnly
    /\ UNCHANGED <<stream, key, broken, overtook, keeps>>

\* A write throws or the API dies: the request ends where it is.
Abort ==
    /\ req # "none" /\ req' = "none"
    /\ broken' = TRUE
    /\ ApiOnly
    /\ UNCHANGED <<stream, key, status, overtook, ended, keeps>>

-----------------------------------------------------------------------------
Write ==
    \/ KeyLands \/ KeyLost
    \/ \E i \in 1..Len(rows) : RowLands(i) \/ RowLost(i)

Loop == ReadCommands \/ ReadLost \/ Start \/ Started \/ Stop \/ StopAbsent

Booting == Boot \/ BootBlind \/ RestoreFails \/ Restore \/ Resumed \/ BootEnds

Ending == LoopEnds \/ StopActive \/ Exit

Request == InitSend \/ StopSend \/ StopRow

CommandNext ==
    \/ MachineEvent \/ Write
    \/ Loop \/ Booting
    \/ Crash \/ Sigterm \/ Ending
    \/ InitUpsert \/ StopDelete \/ Request \/ Abort

CommandSpec == CommandInit /\ [][CommandNext]_commandVars

\* What the event loop, Redis, Postgres and the supervisor owe: writes land or fail,
\* commands are carried out (a factory call settles either way), a request that
\* was begun goes on, a process that is ending ends and one that ended is started
\* again.  (A command waits for nothing but the bounds of MayGo, which the code
\* does not have: hence the strong fairness.)  Nobody owes a scan, a command or a
\* crash.
CommandFairness ==
    /\ WF_commandVars(Write) /\ SF_commandVars(Loop)
    /\ WF_commandVars(Booting) /\ SF_commandVars(Ending) /\ WF_commandVars(Request)

FairCommandSpec == CommandSpec /\ CommandFairness

-----------------------------------------------------------------------------
(* Properties.                                                             *)

\* What /pair/status answers is the state of the machine: once the restore pass
\* is over, the worker's calls are done and no command is under way, the Redis
\* key has the machine's state, however many updates crashed, failed or overlapped
\* before.  Not if Redis refused the last of them (it is logged, and nothing
\* writes the state again), or a request died between its writes, or its command
\* was lost.  (A user without a machine has whatever a dead worker left behind.)
StatusTrue ==
    /\ Alive /\ ~boot /\ state # "absent"
    /\ calls = <<>> /\ Quiet /\ ~broken /\ key # "stale"
    => key = state

\* The row of a paired session lets the next boot restore it: `paired`, once
\* everything is done, also when onPaired failed.  Not if updates of the status
\* overtook each other or the last was rejected, or a request died between its
\* writes or its command was lost.
PairedRowTrue ==
    Alive /\ ~boot /\ state = "paired" /\ Written /\ Quiet /\ ~broken /\ ~overtook
        => status = "paired"

\* A disconnect is final: the session ends, also when the worker dies with the
\* command in hand, and no restart brings it back.  Not while the loop is deaf
\* after a rejected acknowledgement, or if the success of a pairing was still on
\* its way to the row, a request fell apart or its command was lost.
DisconnectEnds ==
    <>[](ended /\ ~broken /\ ~deaf) => <>[](state \notin MidPair \cup {"paired"})

\* "A container restart keeps the session paired" (P1-A design, line 18): a
\* paired session with nothing left to write when SIGTERM came is restored.
RestartKeepsPaired == [][Boot /\ keeps => restore' # "none"]_commandVars
=============================================================================
