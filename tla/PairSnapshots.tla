---------------------------- MODULE PairSnapshots ----------------------------
(***************************************************************************)
(* The credentials of ONE user on their way from his socket to the         *)
(* snapshot a restart resumes from: onCredsUpdate, onPaired and onError    *)
(* (packages/worker/src/index.ts), the store in Redis (pair/authStore.ts), *)
(* the snapshot scheduler (pair/snapshot.ts) and the restore pass          *)
(* (pair/restore.ts).                                                      *)
(*                                                                         *)
(* The machine is PairFlow, and here it may be given any command at any    *)
(* time: the commands and the status of the session are in PairCommands.   *)
(* Redis runs the worker's calls in the order they were issued, and none   *)
(* of the callbacks is awaited; what waits for Postgres goes on in any     *)
(* order.                                                                  *)
(*                                                                         *)
(* Creds are known by the login (the pair flow) they belong to.  The       *)
(* Signal keys are left out: a fresh pair keeps them in memory             *)
(* (pair/baileys.ts), so the store has them for resumed sessions only.     *)
(***************************************************************************)
EXTENDS PairFlow

CONSTANTS
    NoCreds,   \* null
    MaxLogins, \* bound: pair flows ever started
    MaxCalls   \* bound: calls on their way to Redis before the machine goes on

Logins == 1..MaxLogins

ASSUME CredsAssumption == NoCreds \notin Logins \cup {0}
ASSUME BoundsAssumption == MaxLogins \in Nat /\ MaxCalls \in Nat

VARIABLES
    mode,      \* the worker: down, up, stopping (after SIGTERM)
    found,     \* the restore pass found a snapshot and has not resumed it yet
    login,     \* the login of the entry's creds; 0: none
    logins,    \* pair flows started so far
    scanned,   \* the entry's creds carry `me`: the QR code was scanned
    calls,     \* the worker's calls on their way to Redis, in order
    saving,    \* logins whose onCredsUpdate waits for the user's key
    pairing,   \* onPaired waits for the update of the row
    ticking,   \* the snapshot timer runs
    flushes,   \* creds that flushes have read and not yet written
    creds,     \* wpa:wa-session:<user>:creds
    blob,      \* whatsapp_session.authState
    untimed,   \* history: the user is paired, and onPaired failed before the
               \* timer ran
    spoiled    \* history: the creds in Redis were deleted, replaced by those of
               \* another login or could not be saved, and those of the entry
               \* were not written since

entryVars == <<login, logins, scanned>>
taskVars  == <<calls, saving, pairing, ticking, flushes>>
snapVars  == <<flowVars, mode, found, entryVars, taskVars, creds, blob, untimed, spoiled>>

Calls == [op : {"set"}, login : Logins] \cup [op : {"members", "clear", "get"}]

SnapshotTypeOK ==
    /\ mode \in {"down", "up", "stopping"}
    /\ found \in BOOLEAN /\ scanned \in BOOLEAN
    /\ pairing \in BOOLEAN /\ ticking \in BOOLEAN
    /\ login \in 0..MaxLogins /\ logins \in 0..MaxLogins
    /\ calls \in Seq(Calls)
    /\ saving \subseteq Logins /\ flushes \subseteq Logins
    /\ creds \in Logins \cup {NoCreds} /\ blob \in Logins \cup {NoCreds}

Told(f) == \E i \in DOMAIN out' : out'[i] = f
Silent  == out' = <<>> /\ UNCHANGED <<state, cmd, boot, armed, stray>>

SnapshotInit ==
    /\ FlowInit
    /\ mode = "down" /\ found = FALSE
    /\ login = 0 /\ logins = 0 /\ scanned = FALSE
    /\ calls = <<>> /\ saving = {} /\ pairing = FALSE
    /\ ticking = FALSE /\ flushes = {}
    /\ creds = NoCreds /\ blob = NoCreds
    /\ untimed = FALSE /\ spoiled = FALSE

-----------------------------------------------------------------------------
(* A step of the machine, with its callbacks.                              *)

React ==
    /\ calls' = IF Told("onError") THEN Append(calls, [op |-> "members"]) ELSE calls
    /\ saving' = IF Told("onCredsUpdate") THEN saving \cup {login} ELSE saving
    /\ pairing' = (pairing \/ Told("onPaired"))
    /\ ticking' = (ticking /\ ~Told("onError"))
    /\ untimed' = (untimed /\ state' = "paired" /\ ~Told("onPaired"))
    /\ UNCHANGED <<mode, found, flushes, creds, blob>>

MayGo == UNCHANGED stray /\ mode # "down" /\ Len(calls) <= MaxCalls

\* A fresh login begins; its creds are new.
FreshStart ==
    /\ MayGo
    /\ logins < MaxLogins
    /\ FlowStart
    /\ logins' = logins + 1 /\ login' = logins' /\ scanned' = FALSE
    /\ spoiled' = FALSE
    /\ React

\* The first creds.update of a login is the one that follows the scan.
Scan ==
    /\ MayGo
    /\ login # 0
    /\ FlowCreds
    /\ scanned' = TRUE
    /\ UNCHANGED <<login, logins, spoiled>>
    /\ React

\* One onPaired at a time.
OpenScanned ==
    /\ MayGo
    /\ FlowOpen /\ scanned /\ ~pairing
    /\ UNCHANGED <<entryVars, spoiled>>
    /\ React

OtherEvent ==
    /\ MayGo
    /\ \/ FlowResumed /\ state = "idle"
       \/ FlowDispose("startDispose") \/ FlowStarted
       \/ FlowDispose("stop") \/ FlowStop
       \/ FlowQr /\ state = "generating"
       \/ FlowFail \/ FlowExpire
    /\ UNCHANGED <<entryVars, spoiled>>
    /\ React

-----------------------------------------------------------------------------
(* The tasks.                                                              *)

\* Redis runs the oldest call.  clear() deletes when it has the members of the
\* index; a flush writes nothing when there are no creds.
RedisRuns ==
    /\ calls # <<>>
    /\ LET call == Head(calls) IN
       /\ calls' = IF call.op = "members"
                   THEN Append(Tail(calls), [op |-> "clear"]) ELSE Tail(calls)
       /\ creds' = CASE call.op = "set" -> call.login
                     [] call.op = "clear" -> NoCreds
                     [] OTHER -> creds
       /\ flushes' = IF call.op = "get" THEN flushes \cup ({creds} \ {NoCreds}) ELSE flushes
       /\ spoiled' = IF call.op = "set" THEN call.login # login
                     ELSE spoiled \/ call.op = "clear"
    /\ Silent
    /\ UNCHANGED <<mode, found, entryVars, saving, pairing, ticking, blob, untimed>>

\* A save of the creds of login l came to nothing: the entry's are not in Redis.
Unsaved(l) == spoiled' = (spoiled \/ (l = login /\ creds # login))

\* Redis rejects it: whoever waits logs that and gives up.
RedisFails ==
    /\ calls # <<>>
    /\ calls' = Tail(calls)
    /\ IF Head(calls).op = "set" THEN Unsaved(Head(calls).login) ELSE UNCHANGED spoiled
    /\ Silent
    /\ UNCHANGED <<mode, found, entryVars, saving, pairing, ticking, flushes, creds, blob,
                   untimed>>

TaskOnly == Silent /\ UNCHANGED <<mode, found, entryVars, creds>>

\* saveCreds: the creds object of the login is written as it is now ...
SaveCreds(l) ==
    /\ l \in saving
    /\ saving' = saving \ {l}
    /\ calls' = Append(calls, [op |-> "set", login |-> l])
    /\ TaskOnly
    /\ UNCHANGED <<pairing, ticking, flushes, blob, untimed, spoiled>>

\* ... or there is no user, or no key to write it with.
SaveFails(l) ==
    /\ l \in saving
    /\ saving' = saving \ {l}
    /\ Unsaved(l)
    /\ TaskOnly
    /\ UNCHANGED <<calls, pairing, ticking, flushes, blob, untimed>>

\* Mutant of PairedFlush: one snapshot when the user pairs, and no timer.
PairedFlushOnce ==
    /\ pairing /\ pairing' = FALSE
    /\ untimed' = FALSE
    /\ calls' = Append(calls, [op |-> "get"])
    /\ TaskOnly
    /\ UNCHANGED <<saving, ticking, flushes, blob, spoiled>>

\* onPaired has its row: snapshotter.start and the immediate flush ...
PairedFlush ==
    /\ pairing /\ pairing' = FALSE
    /\ ticking' = TRUE /\ untimed' = FALSE
    /\ calls' = Append(calls, [op |-> "get"])
    /\ TaskOnly
    /\ UNCHANGED <<saving, flushes, blob, spoiled>>

\* ... or it has not, and goes no further.
PairedFails ==
    /\ pairing /\ pairing' = FALSE
    /\ untimed' = (state = "paired" /\ ~ticking)
    /\ TaskOnly
    /\ UNCHANGED <<calls, saving, ticking, flushes, blob, spoiled>>

\* The 15 s timer.  A flush it started takes less than that.
Tick ==
    /\ ticking /\ flushes = {} /\ \A i \in DOMAIN calls : calls[i].op # "get"
    /\ calls' = Append(calls, [op |-> "get"])
    /\ TaskOnly
    /\ UNCHANGED <<saving, pairing, ticking, flushes, blob, untimed, spoiled>>

\* flushNow writes what it read, however long ago, or fails.
FlushEnds(l, b) ==
    /\ l \in flushes
    /\ flushes' = flushes \ {l}
    /\ blob' = b
    /\ TaskOnly
    /\ UNCHANGED <<calls, saving, pairing, ticking, untimed, spoiled>>

FlushLands(l) == FlushEnds(l, l)
FlushLost(l)  == FlushEnds(l, blob)

-----------------------------------------------------------------------------
(* Restarts.                                                               *)

\* Whether the row is `paired` is not known here.
Boot ==
    /\ mode = "down" /\ mode' = "up"
    /\ found' \in {FALSE, blob # NoCreds}
    /\ Silent
    /\ UNCHANGED <<entryVars, taskVars, creds, blob, untimed, spoiled>>

\* hydrateCredsRaw, loadState, and resumePaired up to its factory call.
Restore ==
    /\ UNCHANGED stray
    /\ found /\ found' = FALSE
    /\ creds' = blob /\ login' = blob /\ scanned' = TRUE
    /\ FlowResume
    /\ spoiled' = FALSE
    /\ UNCHANGED <<mode, logins, taskVars, blob, untimed>>

\* Mutant of BootEnds: the timer of a restored session is left to onPaired.
BootEndsUntimed ==
    /\ UNCHANGED stray
    /\ mode # "down" /\ ~found /\ state # "idle"
    /\ FlowBooted
    /\ UNCHANGED <<mode, found, entryVars, taskVars, creds, blob, untimed, spoiled>>

\* resumePaired has returned, successful or not.
BootEnds ==
    /\ UNCHANGED stray
    /\ mode # "down" /\ ~found /\ state # "idle"
    /\ FlowBooted
    /\ ticking' = (state # "absent")
    /\ UNCHANGED <<mode, found, entryVars, calls, saving, pairing, flushes, creds, blob,
                   untimed, spoiled>>

\* snapshotter.shutdown.
Sigterm ==
    /\ mode = "up" /\ ~boot
    /\ mode' = "stopping"
    /\ ticking' = FALSE
    /\ Silent
    /\ UNCHANGED <<found, entryVars, calls, saving, pairing, flushes, creds, blob,
                   untimed, spoiled>>

\* After SIGTERM the flushes that the timer began are awaited.
Gone ==
    /\ mode \in {"up", "stopping"}
    /\ mode' = "down" /\ found' = FALSE
    /\ login' = 0 /\ scanned' = FALSE
    /\ calls' = <<>> /\ saving' = {} /\ pairing' = FALSE
    /\ ticking' = FALSE /\ flushes' = {}
    /\ state' = "absent" /\ cmd' = "none" /\ boot' = TRUE /\ armed' = FALSE
    /\ out' = <<>>
    /\ untimed' = FALSE /\ spoiled' = FALSE
    /\ UNCHANGED <<stray, logins, creds, blob>>

-----------------------------------------------------------------------------
Machine == FreshStart \/ Scan \/ OpenScanned \/ OtherEvent

Task ==
    \/ RedisRuns \/ RedisFails \/ PairedFlush \/ PairedFails
    \/ \E l \in Logins : SaveCreds(l) \/ SaveFails(l) \/ FlushLands(l) \/ FlushLost(l)

SnapshotNext ==
    \/ Machine \/ Task \/ Tick
    \/ Boot \/ Restore \/ BootEnds \/ Sigterm \/ Gone

SnapshotSpec == SnapshotInit /\ [][SnapshotNext]_snapVars

\* What was issued goes on or fails, and the timer fires; the stores do not fail
\* every snapshot there is.
SnapshotFairness ==
    /\ WF_snapVars(RedisRuns \/ RedisFails) /\ SF_snapVars(RedisRuns /\ Head(calls).op = "get")
    /\ WF_snapVars(PairedFlush \/ PairedFails) /\ WF_snapVars(Tick)
    /\ \A l \in Logins : /\ WF_snapVars(SaveCreds(l) \/ SaveFails(l))
                          /\ SF_snapVars(FlushLands(l))
    /\ WF_snapVars(BootEnds)

FairSnapshotSpec == SnapshotSpec /\ SnapshotFairness

-----------------------------------------------------------------------------
(* Properties.                                                             *)

\* A paired session has its snapshot timer, or onPaired is about to start it, unless
\* onPaired failed; and the creds it reads are those of the scanned login, or the
\* save of them is on its way, unless they were deleted, replaced by what an earlier
\* login had left, or refused, and not saved since.
SnapshotDue ==
    /\ state = "paired" /\ mode = "up" /\ ~boot => ticking \/ pairing \/ untimed
    /\ scanned /\ ~spoiled =>
           \/ creds = login \/ login \in saving
           \/ \E i \in DOMAIN calls : calls[i] = [op |-> "set", login |-> login]

\* Who stays paired ends up with a snapshot of the creds of that login, and it
\* stays: a flush that failed or read older creds is made good.  Not if the creds in
\* Redis are not those of the login (deleted by the clear() of an earlier failure,
\* replaced by the late save of an earlier login, never saved), or onPaired failed
\* and there is no timer.
SnapshotCatchesUp ==
    <>[](state = "paired" /\ mode = "up" /\ ~spoiled /\ ~untimed) => <>[](blob = login)
=============================================================================
