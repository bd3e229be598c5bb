--------------------------- MODULE PairFlowProofs ---------------------------
(***************************************************************************)
(* Proofs about two of the modules that use PairFlow in the place of the   *)
(* machine: the credentials and their snapshot (PairSnapshots), for any    *)
(* number of logins and of calls on their way, and the pairing page        *)
(* (PairPage), for a command stream of any length.  They share the         *)
(* variables of the flow and nothing else.                                 *)
(***************************************************************************)
EXTENDS PairSnapshots, PairPage, SequenceTheorems, TLAPS

-----------------------------------------------------------------------------
(* The flow, as both use it: without a stray reopen.                       *)

FlowTypeOK ==
    /\ state \in PairState \cup {"absent"}
    /\ cmd \in {"none", "startDispose", "start", "stop"}
    /\ boot \in BOOLEAN
    /\ stray = FALSE

\* What the listeners are told by a step with these callbacks.
LEMMA ToldOf ==
    ASSUME NEW f
    PROVE  /\ out' = <<>> => ~Told(f)
           /\ \A a : out' = <<a>> => (Told(f) <=> f = a)
           /\ \A a, b : out' = <<a, b>> => (Told(f) <=> f \in {a, b})
           /\ \A a, b, c : out' = <<a, b, c>> => (Told(f) <=> f \in {a, b, c})
<1>1. out' = <<>> => ~Told(f)
  BY DEF Told
<1>2. \A a : out' = <<a>> => (Told(f) <=> f = a)
  BY DEF Told
<1>3. \A a, b : out' = <<a, b>> => (Told(f) <=> f \in {a, b})
  BY DEF Told
<1>4. \A a, b, c : out' = <<a, b, c>> => (Told(f) <=> f \in {a, b, c})
  BY DEF Told
<1> QED  BY <1>1, <1>2, <1>3, <1>4

\* The callbacks of a change of state, written out.
LEMMA ChangeOut ==
    ASSUME NEW s
    PROVE  /\ Changes(s, <<>>) <=> state' = s /\ out' = <<"onStateChange">>
           /\ Changes(s, <<"onQr">>) <=> state' = s /\ out' = <<"onStateChange", "onQr">>
           /\ Changes(s, <<"onError">>) <=>
                  state' = s /\ out' = <<"onStateChange", "onError">>
           /\ Changes(s, <<"onSocketReady">>) <=>
                  state' = s /\ out' = <<"onStateChange", "onSocketReady">>
           /\ Changes(s, <<"onSocketReady", "onPaired">>) <=>
                  state' = s /\ out' = <<"onStateChange", "onSocketReady", "onPaired">>
  BY DEF Changes

-----------------------------------------------------------------------------
(* The credentials.                                                        *)

\* Nothing of the session is in the worker.
Blank ==
    /\ state = "absent" /\ cmd = "none" /\ boot
    /\ login = 0 /\ ~scanned
    /\ calls = <<>> /\ saving = {} /\ flushes = {} /\ ~pairing /\ ~ticking

\* The worker is down, or has just read the snapshot; and only a login has creds.
ModeShape ==
    /\ mode = "down" => ~found /\ Blank
    /\ found => blob # NoCreds /\ Blank
    /\ scanned => login # 0
    /\ spoiled \in BOOLEAN /\ untimed \in BOOLEAN

TimerDue == state = "paired" /\ mode = "up" /\ ~boot => ticking \/ pairing \/ untimed

SaveOf(l) == [op |-> "set", login |-> l]
CredsDue ==
    scanned /\ ~spoiled =>
        creds = login \/ login \in saving \/ \E i \in DOMAIN calls : calls[i] = SaveOf(login)

SnapshotInv == SnapshotTypeOK /\ FlowTypeOK /\ ModeShape /\ TimerDue /\ CredsDue

\* It holds at first.
LEMMA SnapshotInitInv == SnapshotInit => SnapshotInv
<1> SUFFICES ASSUME SnapshotInit PROVE SnapshotInv
  OBVIOUS
<1>1. <<>> \in Seq(Calls) /\ 0 \in 0..MaxLogins
  BY EmptySeq, BoundsAssumption
<1> QED
  BY <1>1 DEF SnapshotInit, FlowInit, SnapshotInv, SnapshotTypeOK, FlowTypeOK, ModeShape,
              Blank, TimerDue, CredsDue

\* A call that is appended hides none before it.
LEMMA SavesKept ==
    ASSUME calls \in Seq(Calls), NEW c \in Calls, calls' = Append(calls, c)
    PROVE  /\ calls' \in Seq(Calls)
           /\ \E i \in DOMAIN calls' : calls'[i] = c
           /\ \A i \in DOMAIN calls : i \in DOMAIN calls' /\ calls'[i] = calls[i]
<1>1. /\ Append(calls, c) \in Seq(Calls) /\ Len(Append(calls, c)) = Len(calls) + 1
      /\ Append(calls, c)[Len(calls) + 1] = c /\ Len(calls) \in Nat
      /\ \A i \in 1..Len(calls) : Append(calls, c)[i] = calls[i]
  OBVIOUS
<1>2. DOMAIN calls = 1..Len(calls) /\ DOMAIN calls' = 1..(Len(calls) + 1)
  BY <1>1
<1> QED  BY <1>1, <1>2

\* The calls that the worker issues.
LEMMA CallKinds ==
    /\ [op |-> "members"] \in Calls /\ [op |-> "clear"] \in Calls /\ [op |-> "get"] \in Calls
    /\ \A l \in Logins : SaveOf(l) \in Calls
    /\ \A c \in Calls : c.op \in {"set", "members", "clear", "get"}
    /\ \A c \in Calls : c.op = "set" => c.login \in Logins /\ c = SaveOf(c.login)
  BY DEF Calls, SaveOf

\* A step of the machine, its callbacks apart: what becomes of the flow and of the tasks.
FlowKeeps == FlowTypeOK' /\ boot' = boot
Hears(e, c, p) ==
    /\ FlowKeeps /\ React
    /\ Told("onError") <=> e
    /\ Told("onCredsUpdate") <=> c
    /\ Told("onPaired") <=> p

\* The steps of the machine, by what the worker hears of them.
LEMMA FreshStartHears ==
    ASSUME FlowTypeOK, FreshStart
    PROVE  Hears(FALSE, FALSE, FALSE) /\ state' = "generating" /\ ~boot
<1>1. state' = "generating" /\ out' = <<"onStateChange">> /\ cmd' = "start" /\ boot' = boot /\ ~boot
  BY ChangeOut DEF FreshStart, FlowStart
<1>2. stray' = FALSE /\ React
  BY DEF FreshStart, MayGo, FlowTypeOK
<1> QED  BY <1>1, <1>2, ToldOf DEF Hears, FlowKeeps, FlowTypeOK, PairState

\* A scan brings creds and leaves the state alone.
LEMMA ScanHears ==
    ASSUME FlowTypeOK, Scan
    PROVE  Hears(FALSE, TRUE, FALSE) /\ state' = state
<1>1. state' = state /\ out' = <<"onCredsUpdate">> /\ cmd' = cmd /\ boot' = boot
  BY DEF Scan, FlowCreds, Stays
<1>2. stray' = FALSE /\ React
  BY DEF Scan, MayGo, FlowTypeOK
<1> QED  BY <1>1, <1>2, ToldOf DEF Hears, FlowKeeps, FlowTypeOK

\* An open connection pairs.
LEMMA OpenHears ==
    ASSUME FlowTypeOK, OpenScanned
    PROVE  Hears(FALSE, FALSE, TRUE) /\ state' = "paired" /\ state # "absent"
<1>1. /\ state' = "paired" /\ out' = <<"onStateChange", "onSocketReady", "onPaired">>
      /\ cmd' = cmd /\ boot' = boot /\ state # "absent"
  BY ChangeOut DEF OpenScanned, FlowOpen, MidPair
<1>2. stray' = FALSE /\ React
  BY DEF OpenScanned, MayGo, FlowTypeOK
<1> QED  BY <1>1, <1>2, ToldOf DEF Hears, FlowKeeps, FlowTypeOK, PairState

\* Whatever else happens pairs nobody but at boot, and has no creds; only a failure stops
\* the timer.
LEMMA OtherHears ==
    ASSUME FlowTypeOK, OtherEvent
    PROVE  /\ Hears(FALSE, FALSE, FALSE) \/ (Hears(TRUE, FALSE, FALSE) /\ state' = "error")
           /\ state' = "paired" => boot \/ state = "paired"
           /\ state = "absent" => ~boot \/ cmd # "none"
<1>0. stray' = FALSE /\ stray = FALSE /\ React
  BY DEF OtherEvent, MayGo, FlowTypeOK
<1>h. ASSUME FlowKeeps, out' \in {<<>>, <<"onStateChange">>, <<"onStateChange", "onQr">>,
                                  <<"onStateChange", "onSocketReady">>}
      PROVE  Hears(FALSE, FALSE, FALSE)
  <2>1. ~Told("onError") /\ ~Told("onCredsUpdate") /\ ~Told("onPaired")
    <3>1. CASE out' = <<>> \/ out' = <<"onStateChange">>
      BY <3>1, ToldOf
    <3>2. CASE out' = <<"onStateChange", "onQr">>
      BY <3>2, ToldOf
    <3>3. CASE out' = <<"onStateChange", "onSocketReady">>
      BY <3>3, ToldOf
    <3> QED  BY <1>h, <3>1, <3>2, <3>3
  <2> QED  BY <1>0, <1>h, <2>1 DEF Hears
<1>1. CASE FlowResumed /\ state = "idle"
  <2>1. /\ state' = "paired" /\ out' = <<"onStateChange", "onSocketReady">>
        /\ cmd' = cmd /\ boot' = boot /\ boot
    BY <1>1, ChangeOut DEF FlowResumed
  <2>2. FlowKeeps
    BY <1>0, <2>1 DEF FlowKeeps, FlowTypeOK, PairState
  <2> QED  BY <1>1, <1>h, <2>1, <2>2
<1>2. CASE FlowDispose("startDispose") \/ FlowDispose("stop") \/ FlowStarted
  <2>1. /\ state' = state /\ out' = <<>> /\ cmd' \in {"startDispose", "stop", "none"}
        /\ boot' = boot /\ (state = "absent" => cmd # "none")
    BY <1>2 DEF FlowDispose, FlowStarted, Stays
  <2>2. FlowKeeps
    BY <1>0, <2>1 DEF FlowKeeps, FlowTypeOK
  <2> QED  BY <1>h, <2>1, <2>2
<1>3. CASE FlowStop
  <2>1. /\ state' = "idle" /\ out' = <<"onStateChange">> /\ cmd' = "none" /\ boot' = boot
        /\ ~boot
    BY <1>3, ChangeOut DEF FlowStop
  <2>2. FlowKeeps
    BY <1>0, <2>1 DEF FlowKeeps, FlowTypeOK, PairState
  <2> QED  BY <1>h, <2>1, <2>2
<1>4. CASE FlowQr /\ state = "generating"
  <2>1. /\ state' = "awaiting_scan" /\ out' = <<"onStateChange", "onQr">>
        /\ cmd' = cmd /\ boot' = boot
    BY <1>4, ChangeOut DEF FlowQr
  <2>2. FlowKeeps
    BY <1>0, <2>1 DEF FlowKeeps, FlowTypeOK, PairState
  <2> QED  BY <1>4, <1>h, <2>1, <2>2
<1>5. CASE FlowFail
  <2>1. /\ state' = "error" /\ out' = <<"onStateChange", "onError">>
        /\ cmd' \in {cmd, "none"} /\ boot' = boot /\ state # "absent"
    BY <1>0, <1>5, ChangeOut DEF FlowFail
  <2>2. Told("onError") /\ ~Told("onCredsUpdate") /\ ~Told("onPaired")
    BY <2>1, ToldOf
  <2>3. Hears(TRUE, FALSE, FALSE)
    BY <1>0, <2>1, <2>2 DEF Hears, FlowKeeps, FlowTypeOK, PairState
  <2> QED  BY <2>1, <2>3
<1>6. CASE FlowExpire
  <2>1. /\ state' = "expired" /\ out' = <<"onStateChange">>
        /\ cmd' = cmd /\ boot' = boot /\ state # "absent"
    BY <1>6, ChangeOut DEF FlowExpire, MidPair
  <2>2. FlowKeeps
    BY <1>0, <2>1 DEF FlowKeeps, FlowTypeOK, PairState
  <2> QED  BY <1>h, <2>1, <2>2
<1> QED  BY <1>1, <1>2, <1>3, <1>4, <1>5, <1>6 DEF OtherEvent

\* What the callbacks do keeps the invariant, as long as whatever pairs the user tells so.
LEMMA ReactKeeps ==
    ASSUME SnapshotInv, NEW e \in BOOLEAN, NEW c \in BOOLEAN, NEW p \in BOOLEAN,
           Hears(e, c, p), ~Blank, mode # "down",
           state' = "paired" => p \/ boot \/ (state = "paired" /\ ~e),
           logins' \in 0..MaxLogins,
           \/ login' \in Logins /\ scanned' = FALSE
           \/ c /\ login \in Logins /\ login' = login /\ scanned' = TRUE
           \/ ~c /\ login' = login /\ scanned' = scanned,
           spoiled' \in BOOLEAN, spoiled' = spoiled \/ scanned' = FALSE,
           c => login \in Logins
    PROVE  SnapshotInv'
<1> USE DEF SnapshotInv
<1>0. /\ UNCHANGED <<mode, found, flushes, creds, blob>>
      /\ calls' = IF e THEN Append(calls, [op |-> "members"]) ELSE calls
      /\ saving' = IF c THEN saving \cup {login} ELSE saving
      /\ boot' = boot /\ FlowTypeOK'
  BY DEF Hears, FlowKeeps, React
<1>1. pairing' \in BOOLEAN /\ ticking' \in BOOLEAN
      /\ (pairing \/ p => pairing') /\ (ticking /\ ~e => ticking')
  BY Zenon DEF Hears, React, SnapshotTypeOK
<1>u. untimed' \in BOOLEAN /\ (untimed /\ state' = "paired" => p \/ untimed')
  BY Zenon DEF Hears, React
<1>2. /\ calls' \in Seq(Calls)
      /\ \A l : (\E i \in DOMAIN calls : calls[i] = SaveOf(l)) =>
                    \E i \in DOMAIN calls' : calls'[i] = SaveOf(l)
  <2>1. CASE e
    <3>1. calls \in Seq(Calls) /\ calls' = Append(calls, [op |-> "members"])
      BY <1>0, <2>1 DEF SnapshotTypeOK
    <3>2. /\ calls' \in Seq(Calls)
          /\ \A i \in DOMAIN calls : i \in DOMAIN calls' /\ calls'[i] = calls[i]
      BY <3>1, CallKinds, SavesKept
    <3>3. ASSUME NEW l, NEW i \in DOMAIN calls, calls[i] = SaveOf(l)
          PROVE  \E j \in DOMAIN calls' : calls'[j] = SaveOf(l)
      BY <3>2, <3>3
    <3> QED  BY <3>2, <3>3
  <2>2. CASE ~e
    BY <1>0, <2>2 DEF SnapshotTypeOK
  <2> QED  BY <2>1, <2>2
<1>3. scanned' \in BOOLEAN /\ (scanned' => login' # 0) /\ login' \in 0..MaxLogins
  <2>1. /\ \A l \in Logins : l # 0 /\ l \in 0..MaxLogins
        /\ scanned \in BOOLEAN /\ (scanned => login # 0) /\ login \in 0..MaxLogins
    BY BoundsAssumption DEF Logins, SnapshotTypeOK, ModeShape
  <2>2. CASE login' \in Logins /\ scanned' = FALSE
    BY <2>1, <2>2
  <2>3. CASE login \in Logins /\ login' = login /\ scanned' = TRUE
    BY <2>1, <2>3
  <2>4. CASE login' = login /\ scanned' = scanned
    BY <2>1, <2>4, Zenon
  <2> QED  BY <2>2, <2>3, <2>4
<1>4. SnapshotTypeOK'
  <2>1. saving' \subseteq Logins
    BY <1>0 DEF SnapshotTypeOK
  <2> QED  BY <1>0, <1>1, <1>2, <1>3, <2>1 DEF SnapshotTypeOK
<1>5. ModeShape'
  BY <1>0, <1>3, <1>u DEF ModeShape
<1>6. TimerDue'
  <2> SUFFICES ASSUME state' = "paired", mode = "up", ~boot
               PROVE  ticking' \/ pairing' \/ untimed'
    BY <1>0 DEF TimerDue
  <2>1. CASE p
    BY <1>1, <2>1
  <2>2. CASE ~p
    <3>1. ~e /\ (ticking \/ pairing \/ untimed)
      BY <2>2 DEF TimerDue
    <3> QED  BY <1>1, <1>u, <2>2, <3>1
  <2> QED  BY <2>1, <2>2
<1>7. CredsDue'
  <2> SUFFICES ASSUME scanned', ~spoiled'
               PROVE  \/ creds' = login' \/ login' \in saving'
                      \/ \E i \in DOMAIN calls' : calls'[i] = SaveOf(login')
    BY DEF CredsDue
  <2>1. CASE c
    BY <1>0, <2>1
  <2>2. CASE ~c
    <3>1. login' = login /\ scanned' = scanned
      BY <2>2, Zenon
    <3>s. saving' = saving /\ creds' = creds
      BY <1>0, <2>2
    <3>2. scanned /\ ~spoiled
      <4>1. scanned
        BY <3>1
      <4>2. scanned' # FALSE
        OBVIOUS
      <4>3. spoiled' = spoiled
        BY <4>2
      <4> QED  BY <4>1, <4>3
    <3> QED  BY <1>2, <3>1, <3>s, <3>2 DEF CredsDue
  <2> QED  BY <2>1, <2>2
<1> QED  BY <1>0, <1>4, <1>5, <1>6, <1>7

\* Every step of the machine is such a step.
LEMMA MachineKeeps ==
    ASSUME SnapshotInv, Machine
    PROVE  SnapshotInv'
<1> USE DEF SnapshotInv
<1>t. /\ FlowTypeOK /\ login \in 0..MaxLogins /\ logins \in 0..MaxLogins /\ MaxLogins \in Nat
      /\ Logins = 1..MaxLogins /\ spoiled \in BOOLEAN
  BY BoundsAssumption DEF SnapshotTypeOK, Logins, ModeShape
<1>1. CASE FreshStart
  <2>1. Hears(FALSE, FALSE, FALSE) /\ state' = "generating" /\ ~boot
    BY <1>1, FreshStartHears
  <2>2. mode # "down" /\ logins < MaxLogins /\ logins' = logins + 1 /\ login' = logins'
        /\ scanned' = FALSE /\ spoiled' = FALSE
    BY <1>1 DEF FreshStart, MayGo
  <2>3. logins' \in 0..MaxLogins /\ login' \in Logins
    BY <1>t, <2>2
  <2> QED  BY <2>1, <2>2, <2>3, ReactKeeps DEF Blank
<1>2. CASE Scan
  <2>1. Hears(FALSE, TRUE, FALSE) /\ state' = state
    BY <1>2, ScanHears
  <2>2. mode # "down" /\ login # 0 /\ scanned' = TRUE /\ login' = login /\ logins' = logins
        /\ spoiled' = spoiled
    BY <1>2 DEF Scan, MayGo
  <2>3. login \in Logins
    BY <1>t, <2>2
  <2> QED  BY <1>t, <2>1, <2>2, <2>3, ReactKeeps DEF Blank
<1>3. CASE OpenScanned
  <2>1. Hears(FALSE, FALSE, TRUE) /\ state # "absent"
    BY <1>3, OpenHears
  <2>2. mode # "down" /\ UNCHANGED <<login, logins, scanned, spoiled>>
    BY <1>3 DEF OpenScanned, MayGo, entryVars
  <2> QED  BY <1>t, <2>1, <2>2, ReactKeeps DEF Blank
<1>4. CASE OtherEvent
  <2>1. /\ Hears(FALSE, FALSE, FALSE) \/ (Hears(TRUE, FALSE, FALSE) /\ state' = "error")
        /\ state' = "paired" => boot \/ state = "paired"
        /\ state = "absent" => ~boot \/ cmd # "none"
    BY <1>4, OtherHears
  <2>2. mode # "down" /\ UNCHANGED <<login, logins, scanned, spoiled>>
    BY <1>4 DEF OtherEvent, MayGo, entryVars
  <2>3. ~Blank
    BY <2>1 DEF Blank
  <2> QED  BY <1>t, <2>1, <2>2, <2>3, ReactKeeps
<1> QED  BY <1>1, <1>2, <1>3, <1>4 DEF Machine

\* What is behind the oldest call stays on its way when Redis has run that.
LEMMA HeadTaken ==
    ASSUME calls \in Seq(Calls), calls # <<>>, NEW c \in Calls,
           \/ calls' = Tail(calls)
           \/ calls' = Append(Tail(calls), c)
    PROVE  /\ Head(calls) \in Calls /\ calls' \in Seq(Calls)
           /\ \A i \in DOMAIN calls :
                  calls[i] = Head(calls) \/ \E j \in DOMAIN calls' : calls'[j] = calls[i]
<1> DEFINE t == Tail(calls)
<1>1. /\ Head(calls) \in Calls /\ Head(calls) = calls[1]
      /\ t \in Seq(Calls) /\ Len(t) = Len(calls) - 1 /\ Len(calls) \in Nat /\ Len(calls) >= 1
      /\ \A i \in 1..Len(t) : t[i] = calls[i + 1]
      /\ DOMAIN calls = 1..Len(calls)
  OBVIOUS
<1>2. calls' \in Seq(Calls) /\ \A i \in 1..Len(t) : i \in DOMAIN calls' /\ calls'[i] = t[i]
  <2>1. CASE calls' = t
    BY <1>1, <2>1
  <2>2. CASE calls' = Append(t, c)
    <3> HIDE DEF t
    <3>1. /\ Append(t, c) \in Seq(Calls) /\ Len(Append(t, c)) = Len(t) + 1 /\ Len(t) \in Nat
          /\ \A i \in 1..Len(t) : Append(t, c)[i] = t[i]
      BY <1>1
    <3>2. DOMAIN Append(t, c) = 1..(Len(t) + 1)
      BY <3>1
    <3> QED  BY <2>2, <3>1, <3>2
  <2> QED  BY <2>1, <2>2
<1>3. ASSUME NEW i \in DOMAIN calls
      PROVE  calls[i] = Head(calls) \/ \E j \in DOMAIN calls' : calls'[j] = calls[i]
  <2> HIDE DEF t
  <2>1. CASE i = 1
    BY <1>1, <2>1
  <2>2. CASE i # 1
    <3>1. i \in 2..Len(calls) /\ i - 1 \in 1..Len(t) /\ (i - 1) + 1 = i
      BY <1>1, <2>2
    <3>2. t[i - 1] = calls[i]
      BY <1>1, <3>1
    <3> QED  BY <1>2, <3>1, <3>2
  <2> QED  BY <2>1, <2>2
<1> QED  BY <1>1, <1>2, <1>3

\* What a step that is not the machine's leaves alone.
LEMMA SilentKeeps ==
    ASSUME SnapshotInv, Silent, ~Blank, UNCHANGED <<mode, found, entryVars>>,
           spoiled' \in BOOLEAN, untimed' \in BOOLEAN
    PROVE  /\ FlowTypeOK' /\ ModeShape' /\ mode # "down" /\ ~found
           /\ state' = state /\ boot' = boot /\ login' = login /\ scanned' = scanned
<1>1. FlowTypeOK'
  BY DEF SnapshotInv, Silent, FlowTypeOK
<1>2. mode # "down" /\ ~found
  BY DEF SnapshotInv, ModeShape
<1>3. ModeShape'
  BY <1>2 DEF SnapshotInv, ModeShape, entryVars
<1> QED  BY <1>1, <1>2, <1>3 DEF Silent, entryVars

\* Redis runs a call: whatever takes the creds of the login away marks them spoiled.
LEMMA RedisKeeps ==
    ASSUME SnapshotInv, RedisRuns
    PROVE  SnapshotInv'
<1> DEFINE call == Head(calls)
<1>0. calls \in Seq(Calls) /\ calls # <<>> /\ SnapshotTypeOK /\ ModeShape
  BY DEF SnapshotInv, SnapshotTypeOK, RedisRuns
<1>1. /\ calls' = Tail(calls) \/ calls' = Append(Tail(calls), [op |-> "clear"])
      /\ creds' = CASE call.op = "set" -> call.login
                    [] call.op = "clear" -> NoCreds
                    [] OTHER -> creds
      /\ flushes' = IF call.op = "get" THEN flushes \cup ({creds} \ {NoCreds}) ELSE flushes
      /\ spoiled' = IF call.op = "set" THEN call.login # login
                    ELSE spoiled \/ call.op = "clear"
      /\ Silent
      /\ UNCHANGED <<mode, found, entryVars, saving, pairing, ticking, blob, untimed>>
  BY DEF RedisRuns
<1>2. /\ call \in Calls /\ calls' \in Seq(Calls)
      /\ \A i \in DOMAIN calls :
             calls[i] = call \/ \E j \in DOMAIN calls' : calls'[j] = calls[i]
  BY <1>0, <1>1, HeadTaken, CallKinds
<1> HIDE DEF call
<1>3. call.op = "set" => call.login \in Logins /\ call = SaveOf(call.login)
  BY <1>2, CallKinds
<1>4. spoiled' \in BOOLEAN /\ untimed' \in BOOLEAN
  BY <1>0, <1>1 DEF ModeShape
<1>5. ~Blank
  BY <1>0 DEF Blank
<1>6. /\ FlowTypeOK' /\ ModeShape' /\ mode # "down"
      /\ state' = state /\ boot' = boot /\ login' = login /\ scanned' = scanned
  BY <1>1, <1>4, <1>5, SilentKeeps
<1>7. SnapshotTypeOK'
  <2>1. creds' \in Logins \cup {NoCreds} /\ flushes' \subseteq Logins
    BY <1>0, <1>1, <1>3 DEF SnapshotTypeOK
  <2> QED  BY <1>0, <1>1, <1>2, <2>1 DEF SnapshotTypeOK, entryVars
<1>8. TimerDue'
  BY <1>1, <1>6 DEF SnapshotInv, TimerDue
<1>9. CredsDue'
  <2> SUFFICES ASSUME scanned, ~spoiled'
               PROVE  \/ creds' = login \/ login \in saving
                      \/ \E i \in DOMAIN calls' : calls'[i] = SaveOf(login)
    BY <1>1, <1>6 DEF CredsDue
  <2>1. CASE call.op = "set"
    BY <1>1, <2>1
  <2>2. CASE call.op # "set"
    <3>1. ~spoiled /\ creds' = creds
      BY <1>1, <2>2
    <3>2. ASSUME NEW i \in DOMAIN calls, calls[i] = SaveOf(login)
          PROVE  \E j \in DOMAIN calls' : calls'[j] = SaveOf(login)
      <4>1. calls[i] # call
        BY <2>2, <3>2 DEF SaveOf
      <4> QED  BY <1>2, <3>2, <4>1
    <3> QED  BY <3>1, <3>2 DEF SnapshotInv, CredsDue
  <2> QED  BY <2>1, <2>2
<1> QED  BY <1>6, <1>7, <1>8, <1>9 DEF SnapshotInv

\* A task that issues the call c: a save issues it for the login it is about.
LEMMA IssueKeeps ==
    ASSUME SnapshotInv, Silent, ~Blank, NEW c \in Calls, NEW l,
           calls' = Append(calls, c),
           UNCHANGED <<mode, found, entryVars, flushes, creds, blob, spoiled>>,
           pairing' \in BOOLEAN, ticking' \in BOOLEAN, untimed' \in BOOLEAN,
           ticking \/ pairing \/ untimed => ticking' \/ pairing' \/ untimed',
           saving' = saving \/ (saving' = saving \ {l} /\ c = SaveOf(l))
    PROVE  SnapshotInv'
<1>0. calls \in Seq(Calls) /\ SnapshotTypeOK /\ TimerDue /\ CredsDue /\ ModeShape
  BY DEF SnapshotInv, SnapshotTypeOK
<1>1. /\ calls' \in Seq(Calls) /\ \E i \in DOMAIN calls' : calls'[i] = c
      /\ \A i \in DOMAIN calls : i \in DOMAIN calls' /\ calls'[i] = calls[i]
  BY <1>0, SavesKept
<1>2. /\ FlowTypeOK' /\ ModeShape'
      /\ state' = state /\ boot' = boot /\ login' = login /\ scanned' = scanned
  <2>1. spoiled' \in BOOLEAN
    BY <1>0 DEF ModeShape
  <2> QED  BY <2>1, SilentKeeps
<1>3. SnapshotTypeOK'
  <2>1. saving' \subseteq Logins
    BY <1>0 DEF SnapshotTypeOK
  <2> QED  BY <1>0, <1>1, <2>1 DEF SnapshotTypeOK, entryVars
<1>4. TimerDue'
  BY <1>0, <1>2 DEF TimerDue
<1>5. CredsDue'
  <2> SUFFICES ASSUME scanned, ~spoiled
               PROVE  \/ creds = login \/ login \in saving'
                      \/ \E i \in DOMAIN calls' : calls'[i] = SaveOf(login)
    BY <1>2 DEF CredsDue
  <2>1. CASE creds = login
    BY <2>1
  <2>2. CASE login \in saving
    <3>1. login \in saving' \/ c = SaveOf(login)
      BY <2>2
    <3> QED  BY <1>1, <3>1
  <2>3. ASSUME NEW i \in DOMAIN calls, calls[i] = SaveOf(login)
        PROVE  \E j \in DOMAIN calls' : calls'[j] = SaveOf(login)
    BY <1>1, <2>3
  <2> QED  BY <1>0, <2>1, <2>2, <2>3 DEF CredsDue
<1> QED  BY <1>2, <1>3, <1>4, <1>5 DEF SnapshotInv

\* A call that Redis rejects, or a task that ends without one: what is lost is at most a
\* save of the creds of login l, and that is marked.
LEMMA LossKeeps ==
    ASSUME SnapshotInv, Silent, ~Blank, NEW l,
           UNCHANGED <<mode, found, entryVars, creds>>,
           calls' \in Seq(Calls), saving' \subseteq Logins, flushes' \subseteq Logins,
           pairing' \in BOOLEAN, ticking' = ticking, untimed' \in BOOLEAN,
           blob' \in Logins \cup {NoCreds},
           state = "paired" /\ (pairing \/ untimed) => ticking \/ pairing' \/ untimed',
           spoiled' = spoiled \/ (l = login /\ Unsaved(l)),
           login \in saving => login \in saving' \/ (l = login /\ Unsaved(l)),
           \A i \in DOMAIN calls :
               \/ calls[i] # SaveOf(login) \/ (l = login /\ Unsaved(l))
               \/ \E j \in DOMAIN calls' : calls'[j] = calls[i]
    PROVE  SnapshotInv'
<1>0. SnapshotTypeOK /\ TimerDue /\ CredsDue /\ ModeShape
  BY DEF SnapshotInv
<1>1. spoiled' \in BOOLEAN
  BY <1>0 DEF ModeShape, Unsaved
<1>2. /\ FlowTypeOK' /\ ModeShape' /\ mode # "down" /\ ~found
      /\ state' = state /\ boot' = boot /\ login' = login /\ scanned' = scanned
  BY <1>1, SilentKeeps
<1>3. SnapshotTypeOK'
  BY <1>0 DEF SnapshotTypeOK, entryVars
<1>4. TimerDue'
  BY <1>0, <1>2 DEF TimerDue
<1>5. CredsDue'
  <2>1. CASE l = login /\ Unsaved(l)
    BY <1>2, <2>1 DEF CredsDue, Unsaved
  <2>2. CASE ~(l = login /\ Unsaved(l))
    <3> SUFFICES ASSUME scanned, ~spoiled
                 PROVE  \/ creds = login \/ login \in saving'
                        \/ \E i \in DOMAIN calls' : calls'[i] = SaveOf(login)
      BY <1>2, <2>2 DEF CredsDue
    <3>1. ASSUME NEW i \in DOMAIN calls, calls[i] = SaveOf(login)
          PROVE  \E j \in DOMAIN calls' : calls'[j] = SaveOf(login)
      BY <2>2, <3>1
    <3> QED  BY <1>0, <2>2, <3>1 DEF CredsDue
  <2> QED  BY <2>1, <2>2
<1> QED  BY <1>2, <1>3, <1>4, <1>5 DEF SnapshotInv

\* Redis rejects a call.
LEMMA RedisFailsKeeps ==
    ASSUME SnapshotInv, RedisFails
    PROVE  SnapshotInv'
<1> DEFINE call == Head(calls)
           l    == IF call.op = "set" THEN call.login ELSE 0
<1>0. SnapshotTypeOK /\ ModeShape /\ calls \in Seq(Calls) /\ calls # <<>>
  BY DEF SnapshotInv, SnapshotTypeOK, RedisFails
<1>1. /\ calls' = Tail(calls) /\ Silent
      /\ IF call.op = "set" THEN Unsaved(call.login) ELSE UNCHANGED spoiled
      /\ UNCHANGED <<mode, found, entryVars, saving, pairing, ticking, flushes, creds, blob,
                     untimed>>
  BY DEF RedisFails
<1>2. /\ call \in Calls /\ calls' \in Seq(Calls)
      /\ \A i \in DOMAIN calls :
             calls[i] = call \/ \E j \in DOMAIN calls' : calls'[j] = calls[i]
  BY <1>0, <1>1, HeadTaken, CallKinds
<1>3. ~Blank /\ untimed' \in BOOLEAN
  BY <1>0, <1>1 DEF Blank, ModeShape
<1> HIDE DEF call
<1>4. call.op = "set" => Unsaved(call.login)
  BY <1>1
<1>5. spoiled' = spoiled \/ (l = login /\ Unsaved(l))
  BY <1>0, <1>1 DEF Unsaved, ModeShape
<1>6. ASSUME NEW i \in DOMAIN calls
      PROVE  \/ calls[i] # SaveOf(login) \/ (l = login /\ Unsaved(l))
             \/ \E j \in DOMAIN calls' : calls'[j] = calls[i]
  <2>1. call = SaveOf(login) => call.op = "set" /\ call.login = login
    BY DEF SaveOf
  <2> QED  BY <1>2, <1>4, <2>1
<1>7. /\ saving' \subseteq Logins /\ flushes' \subseteq Logins /\ pairing' \in BOOLEAN
      /\ blob' \in Logins \cup {NoCreds} /\ saving' = saving /\ pairing' = pairing
      /\ untimed' = untimed /\ ticking' = ticking
  BY <1>0, <1>1 DEF SnapshotTypeOK
<1> HIDE DEF l
<1> QED  BY <1>1, <1>2, <1>3, <1>5, <1>6, <1>7, LossKeeps

\* What a task leaves alone.
LEMMA TaskShape ==
    ASSUME SnapshotInv, TaskOnly
    PROVE  /\ Silent /\ UNCHANGED <<mode, found, entryVars, creds>>
           /\ SnapshotTypeOK /\ calls \in Seq(Calls) /\ saving \subseteq Logins
           /\ flushes \subseteq Logins /\ blob \in Logins \cup {NoCreds}
           /\ pairing \in BOOLEAN /\ ticking \in BOOLEAN /\ untimed \in BOOLEAN
           /\ spoiled \in BOOLEAN
  BY DEF SnapshotInv, SnapshotTypeOK, ModeShape, TaskOnly

\* Each task issues one call, lets one take effect, or fails.
LEMMA TasksKeep ==
    ASSUME SnapshotInv, Task \/ Tick
    PROVE  SnapshotInv'
<1>1. CASE RedisRuns
  BY <1>1, RedisKeeps
<1>2. CASE RedisFails
  BY <1>2, RedisFailsKeeps
<1>3. CASE PairedFlush
  <2>1. /\ ~Blank /\ TaskOnly /\ calls' = Append(calls, [op |-> "get"])
        /\ pairing' = FALSE /\ ticking' = TRUE /\ untimed' = FALSE
        /\ UNCHANGED <<saving, flushes, blob, spoiled>>
    BY <1>3 DEF PairedFlush, Blank
  <2> QED  BY <2>1, TaskShape, CallKinds, IssueKeeps
<1>4. CASE PairedFails
  <2>1. /\ ~Blank /\ TaskOnly /\ pairing' = FALSE
        /\ UNCHANGED <<calls, saving, ticking, flushes, blob, spoiled>>
    BY <1>4 DEF PairedFails, Blank
  <2>2. untimed' \in BOOLEAN /\ (state = "paired" => ticking \/ untimed')
    BY <1>4 DEF PairedFails
  <2>3. \A i \in DOMAIN calls : \E j \in DOMAIN calls' : calls'[j] = calls[i]
    BY <2>1
  <2> QED  BY <2>1, <2>2, <2>3, TaskShape, LossKeeps
<1>5. CASE Tick
  <2>1. /\ ~Blank /\ TaskOnly /\ calls' = Append(calls, [op |-> "get"])
        /\ UNCHANGED <<saving, pairing, ticking, flushes, blob, untimed, spoiled>>
    BY <1>5 DEF Tick, Blank
  <2> QED  BY <2>1, TaskShape, CallKinds, IssueKeeps
<1>6. ASSUME NEW l \in Logins, SaveCreds(l) PROVE SnapshotInv'
  <2>1. /\ ~Blank /\ TaskOnly /\ saving' = saving \ {l}
        /\ SaveOf(l) \in Calls /\ calls' = Append(calls, SaveOf(l))
        /\ UNCHANGED <<pairing, ticking, flushes, blob, untimed, spoiled>>
    BY <1>6, CallKinds DEF SaveCreds, Blank, SaveOf
  <2> QED  BY <2>1, TaskShape, IssueKeeps
<1>7. ASSUME NEW l \in Logins, SaveFails(l) PROVE SnapshotInv'
  <2>1. /\ ~Blank /\ TaskOnly /\ saving' = saving \ {l} /\ Unsaved(l)
        /\ UNCHANGED <<calls, pairing, ticking, flushes, blob, untimed>>
    BY <1>7 DEF SaveFails, Blank
  <2>2. spoiled' = spoiled \/ (l = login /\ Unsaved(l))
    BY <2>1, TaskShape DEF Unsaved
  <2>3. \A i \in DOMAIN calls : \E j \in DOMAIN calls' : calls'[j] = calls[i]
    BY <2>1
  <2> QED  BY <2>1, <2>2, <2>3, TaskShape, LossKeeps
<1>8. ASSUME NEW l \in Logins, FlushLands(l) \/ FlushLost(l) PROVE SnapshotInv'
  <2>1. PICK b \in Logins \cup {NoCreds} : FlushEnds(l, b)
    BY <1>8 DEF FlushLands, FlushLost, SnapshotInv, SnapshotTypeOK
  <2>2. /\ ~Blank /\ TaskOnly /\ flushes' = flushes \ {l} /\ blob' = b
        /\ UNCHANGED <<calls, saving, pairing, ticking, untimed, spoiled>>
    BY <2>1 DEF FlushEnds, Blank
  <2>3. \A i \in DOMAIN calls : \E j \in DOMAIN calls' : calls'[j] = calls[i]
    BY <2>2
  <2> QED  BY <2>2, <2>3, TaskShape, LossKeeps
<1> QED  BY <1>1, <1>2, <1>3, <1>4, <1>5, <1>6, <1>7, <1>8 DEF Task

-----------------------------------------------------------------------------
(* Restarts.                                                               *)

\* Boot, restore, shutdown and death.
LEMMA RestartsKeep ==
    ASSUME SnapshotInv, Boot \/ Restore \/ BootEnds \/ Sigterm \/ Gone
    PROVE  SnapshotInv'
<1>t. SnapshotTypeOK /\ TimerDue /\ CredsDue /\ ModeShape /\ FlowTypeOK
  BY DEF SnapshotInv
<1>e. <<>> \in Seq(Calls) /\ 0 \in 0..MaxLogins /\ \A l \in Logins : l # 0 /\ l \in 0..MaxLogins
  BY EmptySeq, BoundsAssumption DEF Logins
<1>1. CASE Boot
  <2>1. /\ mode' = "up" /\ ~found /\ Blank /\ boot
        /\ Silent /\ UNCHANGED <<entryVars, taskVars, creds, blob, untimed, spoiled>>
        /\ found' \in {FALSE, blob # NoCreds}
    BY <1>1, <1>t DEF Boot, ModeShape, Blank
  <2>2. Blank' /\ boot' = boot
    BY <2>1 DEF Blank, Silent, entryVars, taskVars
  <2>3. found' \in BOOLEAN /\ (found' => blob' # NoCreds)
    BY <2>1
  <2>4. FlowTypeOK'
    BY <1>t, <2>1 DEF FlowTypeOK, Silent
  <2>5. ModeShape'
    BY <1>t, <2>1, <2>2, <2>3 DEF ModeShape, entryVars
  <2>6. SnapshotTypeOK'
    BY <1>t, <2>1, <2>3 DEF SnapshotTypeOK, entryVars, taskVars
  <2>7. TimerDue' /\ CredsDue'
    BY <1>t, <2>1, <2>2 DEF TimerDue, CredsDue, Blank
  <2> QED  BY <2>4, <2>5, <2>6, <2>7 DEF SnapshotInv
<1>2. CASE Restore
  <2>1. /\ found /\ Blank /\ mode # "down" /\ blob \in Logins /\ boot
        /\ found' = FALSE /\ creds' = blob /\ login' = blob /\ scanned' = TRUE
        /\ spoiled' = FALSE /\ UNCHANGED <<mode, logins, taskVars, blob, untimed>>
    BY <1>2, <1>t DEF Restore, ModeShape, Blank, SnapshotTypeOK
  <2>2. FlowTypeOK' /\ boot'
    BY <1>2, <1>t, ChangeOut DEF Restore, FlowResume, FlowTypeOK, PairState, Stays
  <2>3. SnapshotTypeOK' /\ ModeShape'
    BY <1>t, <1>e, <2>1, <2>2 DEF SnapshotTypeOK, ModeShape, taskVars
  <2>4. TimerDue' /\ CredsDue'
    BY <2>1, <2>2 DEF TimerDue, CredsDue
  <2> QED  BY <2>2, <2>3, <2>4 DEF SnapshotInv
<1>3. CASE BootEnds
  <2>1. /\ mode # "down" /\ ~found /\ ticking' = (state # "absent")
        /\ UNCHANGED <<mode, found, entryVars, calls, saving, pairing, flushes, creds, blob,
                       untimed, spoiled>>
    BY <1>3 DEF BootEnds
  <2>2. FlowTypeOK' /\ state' = state
    BY <1>3, <1>t DEF BootEnds, FlowBooted, FlowTypeOK, Stays
  <2>3. ticking' \in BOOLEAN /\ (state # "absent" => ticking')
    BY <2>1
  <2>4. SnapshotTypeOK'
    BY <1>t, <2>1, <2>3 DEF SnapshotTypeOK, entryVars
  <2>5. ModeShape'
    BY <1>t, <2>1 DEF ModeShape, entryVars
  <2>6. TimerDue' /\ CredsDue'
    BY <1>t, <2>1, <2>2, <2>3 DEF TimerDue, CredsDue, entryVars
  <2> QED  BY <2>2, <2>4, <2>5, <2>6 DEF SnapshotInv
<1>4. CASE Sigterm
  <2>1. /\ mode' = "stopping" /\ ticking' = FALSE /\ ~boot /\ mode = "up" /\ Silent
        /\ UNCHANGED <<found, entryVars, calls, saving, pairing, flushes, creds, blob,
                       untimed, spoiled>>
    BY <1>4 DEF Sigterm
  <2>2. FlowTypeOK'
    BY <1>t, <2>1 DEF FlowTypeOK, Silent
  <2>3. ~found
    BY <1>t, <2>1 DEF ModeShape, Blank
  <2>4. SnapshotTypeOK'
    BY <1>t, <2>1 DEF SnapshotTypeOK, entryVars
  <2>5. ModeShape'
    BY <1>t, <2>1, <2>3 DEF ModeShape, entryVars
  <2>6. TimerDue' /\ CredsDue'
    BY <1>t, <2>1 DEF TimerDue, CredsDue, entryVars
  <2> QED  BY <2>2, <2>4, <2>5, <2>6 DEF SnapshotInv
<1>5. CASE Gone
  <2>1. Blank' /\ FlowTypeOK'
    BY <1>5, <1>t DEF Gone, Blank, FlowTypeOK
  <2>2. SnapshotTypeOK'
    BY <1>5, <1>t, <1>e DEF Gone, SnapshotTypeOK
  <2>3. ModeShape' /\ TimerDue' /\ CredsDue'
    BY <1>5, <1>t, <2>1 DEF Gone, ModeShape, TimerDue, CredsDue
  <2> QED  BY <2>1, <2>2, <2>3 DEF SnapshotInv
<1> QED  BY <1>1, <1>2, <1>3, <1>4, <1>5

\* Nothing happens.
LEMMA SnapshotStutter ==
    ASSUME SnapshotInv, UNCHANGED snapVars
    PROVE  SnapshotInv'
<1>1. SnapshotTypeOK' /\ FlowTypeOK'
  BY DEF SnapshotInv, SnapshotTypeOK, FlowTypeOK, snapVars, flowVars, entryVars, taskVars
<1>2. ModeShape'
  BY DEF SnapshotInv, ModeShape, Blank, snapVars, flowVars, entryVars, taskVars
<1>3. TimerDue' /\ CredsDue'
  BY DEF SnapshotInv, TimerDue, CredsDue, snapVars, flowVars, entryVars, taskVars
<1> QED  BY <1>1, <1>2, <1>3 DEF SnapshotInv

\* The inductive invariant.
LEMMA SnapshotInvariant == SnapshotSpec => []SnapshotInv
<1>1. SnapshotInv /\ [SnapshotNext]_snapVars => SnapshotInv'
  BY MachineKeeps, TasksKeep, RestartsKeep, SnapshotStutter DEF SnapshotNext
<1> QED  BY SnapshotInitInv, <1>1, PTL DEF SnapshotSpec

\* The credentials, the calls and the worker keep their types (pair/authStore.ts,
\* pair/snapshot.ts), for any number of logins and of calls.
THEOREM SnapshotTypes == SnapshotSpec => []SnapshotTypeOK
  BY SnapshotInvariant, PTL DEF SnapshotInv

\* A paired session has its timer, or onPaired is about to start it (index.ts), unless onPaired
\* failed; and the creds in Redis are those of the scanned login, or their save is on its way,
\* unless a clear() or an earlier login's save ran under them, or that save was refused, and
\* none was written since.  Every restart, shutdown and rejected call included.
THEOREM SnapshotIsDue == SnapshotSpec => []SnapshotDue
<1>1. SnapshotInv => SnapshotDue
  BY DEF SnapshotInv, TimerDue, CredsDue, SaveOf, SnapshotDue
<1> QED  BY SnapshotInvariant, <1>1, PTL

-----------------------------------------------------------------------------
(* The pairing page.                                                       *)

\* The command that is being carried out is the oldest of the stream.
InHand ==
    /\ cmd \in {"startDispose", "start"} => At("init")
    /\ cmd = "stop" => At("stop")
    /\ cmd # "none" => state # "absent"

ServerSide ==
    /\ FlowTypeOK /\ InHand
    /\ key \in Answers
    /\ sent \in Seq({"init", "stop"})

\* The view and the last answer agree.
ViewInv ==
    /\ ui = "tos_gate" => data # "paired"
    /\ ui \in HasView /\ data \in HasView => ui = data

PageSide ==
    /\ ui \in Views \cup {"away"}
    /\ data \in Answers \cup {"unset"}
    /\ ask \in Answers \cup {"no", "sent"}
    /\ init \in {"no", "sent", "ok", "limited"} /\ stop \in {"no", "sent", "ok"}
    /\ wait \in BOOLEAN
    /\ old \in BOOLEAN /\ stale \in BOOLEAN
    /\ ViewInv

\* Both sides hold at first.
LEMMA PageInitInv == PageInit => ServerSide /\ PageSide
<1>1. <<>> \in Seq({"init", "stop"})
  BY EmptySeq
<1> QED
  BY <1>1 DEF PageInit, FlowInit, ServerSide, PageSide, ViewInv, FlowTypeOK, InHand,
              Answers, HasView, PairState

\* What deriveUiFromServer makes of a view and an answer fits the answer; and it leaves the
\* view if the answer has none.
Fits(v, a) ==
    /\ v = "tos_gate" => a # "paired"
    /\ v \in HasView /\ a \in HasView => v = a

LEMMA ViewOf ==
    ASSUME NEW a \in Answers \cup {"unset"}, NEW v \in Views
    PROVE  /\ deriveUiFromServer(a, v) \in Views /\ Fits(deriveUiFromServer(a, v), a)
           /\ deriveUiFromServer(a, v) # v => a \in HasView
<1>1. CASE v = "tos_gate"
  BY <1>1 DEF deriveUiFromServer, Views, Fits, HasView, PairState
<1>2. CASE v = "rate_limited"
  BY <1>2 DEF deriveUiFromServer, Views, Fits, HasView, PairState
<1>3. CASE v \notin {"tos_gate", "rate_limited"}
  <2>1. deriveUiFromServer(a, v) = IF a \in HasView THEN a ELSE v
    BY <1>3 DEF deriveUiFromServer
  <2> QED  BY <1>3, <2>1 DEF HasView, PairState, Views, Fits
<1> QED  BY <1>1, <1>2, <1>3

\* So does the effect that uses it.
LEMMA ShownFits ==
    ASSUME NEW a \in Answers \cup {"unset"}, NEW v \in Views \cup {"away"}, Shows(v, a)
    PROVE  /\ ui' \in Views \cup {"away"} /\ Fits(ui', a)
           /\ ui' # v => a \in HasView
<1>1. CASE v = "away"
  BY <1>1 DEF Shows, Fits, HasView, PairState
<1>2. CASE v # "away"
  BY <1>2, ViewOf DEF Shows
<1> QED  BY <1>1, <1>2

\* A command behind the others leaves the oldest where it is.
LEMMA StreamGrows ==
    ASSUME ServerSide, NEW c \in {"init", "stop"}, sent' = Append(sent, c), ApiOnly,
           key' \in Answers
    PROVE  ServerSide'
<1>1. sent \in Seq({"init", "stop"})
  BY DEF ServerSide
<1>2. /\ sent' \in Seq({"init", "stop"})
      /\ sent # <<>> => sent' # <<>> /\ Head(sent') = Head(sent)
  BY <1>1
<1> QED  BY <1>2 DEF ServerSide, FlowTypeOK, InHand, At, ApiOnly

\* The server has taken a step that leaves the stream alone.
LEMMA StreamStays ==
    ASSUME ServerSide, sent' = sent, key' \in Answers, FlowTypeOK',
           cmd' # "none" => state' # "absent" /\ (cmd' = cmd \/ (cmd' = "start" /\ At("init"))
                                                  \/ (cmd' = "startDispose" /\ At("init"))
                                                  \/ (cmd' = "stop" /\ At("stop")))
    PROVE  ServerSide'
  BY DEF ServerSide, InHand, At

\* The server has carried out its oldest command.
LEMMA StreamShrinks ==
    ASSUME ServerSide, sent # <<>>, sent' = Tail(sent), key' \in Answers, FlowTypeOK',
           cmd' = "none"
    PROVE  ServerSide'
<1>1. sent' \in Seq({"init", "stop"})
  BY DEF ServerSide
<1> QED  BY <1>1 DEF ServerSide, InHand

\* The machine carries out the oldest command of the stream.
LEMMA PairingKeeps ==
    ASSUME ServerSide, PageSide, Pairing
    PROVE  ServerSide' /\ PageSide'
<1>0. PageSide'
  BY DEF Pairing, PageSide, ViewInv, pageVars
<1>t. FlowTypeOK /\ InHand /\ key \in Answers /\ stray' = FALSE
  BY DEF ServerSide, FlowTypeOK, Pairing
<1>h. ASSUME FlowTypeOK',
             cmd' = cmd \/ (cmd' = "none" /\ cmd \in {"none", "start", "startDispose"})
                        \/ (cmd' \in {"start", "startDispose"} /\ At("init")
                                /\ cmd \in {"none", "startDispose"})
                        \/ (cmd' = "stop" /\ cmd = "none" /\ At("stop")),
             cmd' # "none" => state' # "absent",
             out' # <<>> => state' \in PairState,
             sent' = IF cmd # "none" /\ cmd' = "none" THEN Tail(sent) ELSE sent
      PROVE  ServerSide'
  <2>1. key' \in Answers
    BY <1>t, <1>h DEF Pairing, Answers
  <2>2. CASE cmd # "none" /\ cmd' = "none"
    <3>1. sent # <<>> /\ sent' = Tail(sent)
      BY <1>t, <1>h, <2>2 DEF FlowTypeOK, InHand, At
    <3> QED  BY <1>h, <2>1, <2>2, <3>1, StreamShrinks
  <2>3. CASE cmd = "none" \/ cmd' # "none"
    <3>1. sent' = sent
      BY <1>h, <2>3
    <3> QED  BY <1>h, <2>1, <2>3, <3>1, StreamStays
  <2> QED  BY <2>2, <2>3
<1>1. CASE At("stop") /\ FlowStop /\ sent' = Tail(sent)
  <2>1. state' = "idle" /\ cmd' = "none" /\ boot' = boot /\ sent # <<>>
    BY <1>1, ChangeOut DEF FlowStop, At
  <2>2. FlowTypeOK' /\ key' \in Answers
    BY <1>t, <2>1 DEF FlowTypeOK, Pairing, Answers, PairState
  <2> QED  BY <1>0, <1>1, <2>1, <2>2, StreamShrinks
<1> DEFINE Shift == sent' = IF cmd # "none" /\ cmd' = "none" THEN Tail(sent) ELSE sent
<1>2. CASE Shift /\ (FlowResume \/ FlowBooted)
  <2>1. /\ out' = <<>> /\ cmd' = cmd /\ state' \in {"idle", state} /\ boot' \in {boot, FALSE}
        /\ (state' = "absent" => state = "absent")
    BY <1>2 DEF FlowResume, FlowBooted, Stays
  <2>2. FlowTypeOK'
    BY <1>t, <2>1 DEF FlowTypeOK, PairState
  <2> QED  BY <1>0, <1>2, <1>h, <1>t, <2>1, <2>2 DEF InHand
<1>3. CASE Shift /\ ((FlowResumed /\ state = "idle") \/ (FlowQr /\ state = "generating")
                     \/ FlowOpen \/ FlowExpire)
  <2>1. /\ cmd' = cmd /\ boot' = boot /\ state' \in {"paired", "awaiting_scan", "expired"}
    BY <1>3, ChangeOut DEF FlowResumed, FlowQr, FlowOpen, FlowExpire
  <2>2. FlowTypeOK' /\ state' \in PairState /\ state' # "absent"
    BY <1>t, <2>1 DEF FlowTypeOK, PairState
  <2> QED  BY <1>0, <1>3, <1>h, <2>1, <2>2
<1>4. CASE Shift /\ FlowFail
  <2>1. /\ state' = "error" /\ boot' = boot
        /\ cmd' = cmd \/ (cmd = "start" /\ cmd' = "none")
    BY <1>4, ChangeOut DEF FlowFail
  <2>2. FlowTypeOK' /\ state' \in PairState /\ state' # "absent"
    BY <1>t, <2>1 DEF FlowTypeOK, PairState
  <2> QED  BY <1>0, <1>4, <1>h, <2>1, <2>2
<1>5. CASE Shift /\ FlowStarted
  <2>1. state' = state /\ out' = <<>> /\ boot' = boot /\ cmd = "start" /\ cmd' = "none"
    BY <1>5 DEF FlowStarted, Stays
  <2>2. FlowTypeOK'
    BY <1>t, <2>1 DEF FlowTypeOK
  <2> QED  BY <1>0, <1>5, <1>h, <2>1, <2>2
<1>6. CASE Shift /\ At("init") /\ FlowStart
  <2>1. /\ state' = "generating" /\ boot' = boot /\ cmd' = "start"
        /\ cmd \in {"none", "startDispose"}
    BY <1>6, ChangeOut DEF FlowStart
  <2>2. FlowTypeOK' /\ state' \in PairState /\ state' # "absent"
    BY <1>t, <2>1 DEF FlowTypeOK, PairState
  <2> QED  BY <1>0, <1>6, <1>h, <2>1, <2>2
<1>7. CASE Shift /\ At("init") /\ FlowDispose("startDispose")
  <2>1. /\ state' = state /\ out' = <<>> /\ boot' = boot /\ cmd' = "startDispose" /\ cmd = "none"
        /\ state # "absent"
    BY <1>7 DEF FlowDispose, Stays
  <2>2. FlowTypeOK'
    BY <1>t, <2>1 DEF FlowTypeOK
  <2> QED  BY <1>0, <1>7, <1>h, <2>1, <2>2
<1>8. CASE Shift /\ At("stop") /\ FlowDispose("stop")
  <2>1. /\ state' = state /\ out' = <<>> /\ boot' = boot /\ cmd' = "stop" /\ cmd = "none"
        /\ state # "absent"
    BY <1>8 DEF FlowDispose, Stays
  <2>2. FlowTypeOK'
    BY <1>t, <2>1 DEF FlowTypeOK
  <2> QED  BY <1>0, <1>8, <1>h, <2>1, <2>2
<1> QED
  BY <1>1, <1>2, <1>3, <1>4, <1>5, <1>6, <1>7, <1>8 DEF Pairing

\* The requests of the page, and a stop() of nothing.
LEMMA ApiKeeps ==
    ASSUME ServerSide, PageSide, StopAbsent \/ ServeInit \/ ServeStop \/ ServeStatus
    PROVE  ServerSide' /\ PageSide'
<1>t. FlowTypeOK /\ InHand /\ key \in Answers
  BY DEF ServerSide
<1>1. CASE StopAbsent
  <2>1. cmd = "none"
    BY <1>1, <1>t DEF StopAbsent, InHand
  <2>2. FlowTypeOK' /\ PageSide'
    BY <1>1, <1>t DEF StopAbsent, FlowTypeOK, PageSide, ViewInv, pageVars
  <2> QED  BY <1>1, <1>t, <2>1, <2>2, StreamShrinks DEF StopAbsent, At
<1>2. CASE ServeInit
  <2>1. PageSide'
    BY <1>2 DEF ServeInit, PageSide, ViewInv
  <2>2. ApiOnly /\ key' = key /\ (sent' = Append(sent, "init") \/ sent' = sent)
    BY <1>2 DEF ServeInit
  <2>3. FlowTypeOK' /\ state' = state /\ cmd' = cmd
    BY <1>t, <2>2 DEF ApiOnly, FlowTypeOK
  <2> QED  BY <1>t, <2>1, <2>2, <2>3, StreamGrows, StreamStays DEF InHand
<1>3. CASE ServeStop
  <2>1. PageSide'
    BY <1>3 DEF ServeStop, PageSide, ViewInv
  <2>2. /\ ApiOnly /\ key' \in Answers
        /\ sent' = Append(sent, "stop") \/ sent' = sent
    BY <1>3, <1>t DEF ServeStop, Answers
  <2>3. FlowTypeOK' /\ state' = state /\ cmd' = cmd
    BY <1>t, <2>2 DEF ApiOnly, FlowTypeOK
  <2> QED  BY <1>t, <2>1, <2>2, <2>3, StreamGrows, StreamStays DEF InHand
<1>4. CASE ServeStatus
  <2>1. old' \in BOOLEAN
    BY <1>4 DEF ServeStatus, Waiting
  <2>2. PageSide'
    BY <1>4, <1>t, <2>1 DEF ServeStatus, PageSide, ViewInv
  <2>3. ApiOnly /\ key' = key /\ sent' = sent
    BY <1>4 DEF ServeStatus
  <2>4. FlowTypeOK' /\ state' = state /\ cmd' = cmd
    BY <1>t, <2>3 DEF ApiOnly, FlowTypeOK
  <2> QED  BY <1>t, <2>2, <2>3, <2>4, StreamStays DEF InHand
<1> QED  BY <1>1, <1>2, <1>3, <1>4

\* The page changes nothing of the server.
LEMMA PageOnlyKeeps ==
    ASSUME ServerSide, PageOnly
    PROVE  ServerSide'
  BY DEF ServerSide, PageOnly, FlowTypeOK, InHand, At

\* A request asked for is one under way, or a new one.
LEMMA AskKeeps ==
    ASSUME PageSide, (Fetch /\ old' = old) \/ Refetch
    PROVE  ask' \in Answers \cup {"no", "sent"} /\ old' \in BOOLEAN
  BY DEF Fetch, Refetch, PageSide

\* The buttons of the page.
LEMMA UserKeeps ==
    ASSUME ServerSide, PageSide, User
    PROVE  ServerSide' /\ PageSide'
<1>0. "tos_gate" \in Views /\ data \in Answers \cup {"unset"}
  BY DEF Views, PageSide
<1>1. CASE Mount
  <2>1. ui' \in Views \cup {"away"} /\ Fits(ui', data)
    BY <1>0, <1>1, ViewOf DEF Mount
  <2>2. ask' \in Answers \cup {"no", "sent"} /\ old' \in BOOLEAN
    BY <1>1, AskKeeps DEF Mount
  <2> QED  BY <1>1, <2>1, <2>2, PageOnlyKeeps DEF Mount, PageSide, ViewInv, Fits
<1>2. CASE Leave
  BY <1>2, PageOnlyKeeps DEF Leave, PageSide, ViewInv, HasView, PairState
<1>3. CASE Initialize
  BY <1>3, PageOnlyKeeps DEF Initialize, PageSide, ViewInv
<1>4. CASE Retry
  <2>1. ui' \in Views \cup {"away"} /\ Fits(ui', data)
    BY <1>0, <1>4, ShownFits DEF Retry
  <2> QED  BY <1>4, <2>1, PageOnlyKeeps DEF Retry, PageSide, ViewInv, Fits
<1>5. CASE RateLimitRetry
  <2>1. ui' \in Views \cup {"away"} /\ Fits(ui', data)
    BY <1>0, <1>5, ShownFits DEF RateLimitRetry
  <2>2. ask' \in Answers \cup {"no", "sent"} /\ old' \in BOOLEAN
    BY <1>5, AskKeeps DEF RateLimitRetry
  <2> QED  BY <1>5, <2>1, <2>2, PageOnlyKeeps DEF RateLimitRetry, PageSide, ViewInv, Fits
<1>6. CASE Refresh
  <2>1. ask' \in Answers \cup {"no", "sent"} /\ old' \in BOOLEAN
    BY <1>6, AskKeeps DEF Refresh
  <2> QED  BY <1>6, <2>1, PageOnlyKeeps DEF Refresh, PageSide, ViewInv
<1>7. CASE Disconnect
  BY <1>7, PageOnlyKeeps DEF Disconnect, PageSide, ViewInv
<1> QED  BY <1>1, <1>2, <1>3, <1>4, <1>5, <1>6, <1>7 DEF User

\* Its answers and timers.
LEMMA PageKeeps ==
    ASSUME ServerSide, PageSide, Page
    PROVE  ServerSide' /\ PageSide'
<1>0. /\ "tos_gate" \in Views /\ "generating" \in Views /\ "rate_limited" \in Views
      /\ data \in Answers \cup {"unset"} /\ ui \in Views \cup {"away"}
  BY DEF Views, PageSide
<1>1. CASE CacheDropped
  BY <1>1, PageOnlyKeeps DEF CacheDropped, PageSide, ViewInv, HasView, PairState
<1>2. CASE InitOk
  <2>1. ui' \in Views \cup {"away"} /\ Fits(ui', data)
    BY <1>0, <1>2, ShownFits DEF InitOk
  <2>2. ask' \in Answers \cup {"no", "sent"} /\ old' \in BOOLEAN
    BY <1>2, AskKeeps DEF InitOk
  <2>3. stale' \in BOOLEAN
    BY <1>2 DEF InitOk
  <2> QED  BY <1>2, <2>1, <2>2, <2>3, PageOnlyKeeps DEF InitOk, PageSide, ViewInv, Fits
<1>3. CASE InitLimited
  BY <1>0, <1>3, PageOnlyKeeps DEF InitLimited, PageSide, ViewInv, HasView, PairState
<1>4. CASE StopOk
  <2>1. ui' \in Views \cup {"away"} /\ Fits(ui', data)
    <3>1. CASE ui = "away"
      BY <1>0, <1>4, <3>1, ViewOf DEF StopOk
    <3>2. CASE ui # "away"
      BY <1>0, <1>4, <3>2 DEF StopOk, PageSide, ViewInv, Fits
    <3> QED  BY <3>1, <3>2
  <2>2. ask' \in Answers \cup {"no", "sent"} /\ old' \in BOOLEAN
    BY <1>4, AskKeeps DEF StopOk
  <2>3. wait' \in BOOLEAN /\ stale' \in BOOLEAN
    BY <1>4 DEF StopOk, PageSide
  <2> QED  BY <1>4, <2>1, <2>2, <2>3, PageOnlyKeeps DEF StopOk, PageSide, ViewInv, Fits
<1>6. CASE CountdownEnds
  BY <1>6, PageOnlyKeeps DEF CountdownEnds, PageSide, ViewInv
<1>7. CASE Poll
  <2>1. ask' \in Answers \cup {"no", "sent"} /\ old' \in BOOLEAN
    BY <1>7, AskKeeps DEF Poll
  <2> QED  BY <1>7, <2>1, PageOnlyKeeps DEF Poll, PageSide, ViewInv
<1>8. CASE Answered
  <2>1. ask \in Answers /\ ask # "unset"
    BY <1>8 DEF Answered, Answers, PairState
  <2>2. ui' \in Views \cup {"away"} /\ Fits(ui', ask)
    BY <1>0, <1>8, <2>1, ShownFits DEF Answered
  <2>3. stale' \in BOOLEAN
    BY <1>8 DEF Answered, PageSide
  <2> QED
    BY <1>8, <2>1, <2>2, <2>3, PageOnlyKeeps DEF Answered, PageSide, ViewInv, Fits
<1>9. CASE StatusFails
  BY <1>9, PageOnlyKeeps DEF StatusFails, PageSide, ViewInv
<1> QED  BY <1>1, <1>2, <1>3, <1>4, <1>6, <1>7, <1>8, <1>9 DEF Page

\* The inductive invariant.
LEMMA PageInvariant == PageSpec => [](ServerSide /\ PageSide)
<1>1. ServerSide /\ PageSide /\ [PageNext]_allPageVars => ServerSide' /\ PageSide'
  <2>1. ASSUME ServerSide, PageSide, UNCHANGED allPageVars
        PROVE  ServerSide' /\ PageSide'
    BY <2>1 DEF ServerSide, PageSide, ViewInv, FlowTypeOK, InHand, At, allPageVars, serverVars,
                pageVars, flowVars
  <2> QED
    BY <2>1, PairingKeeps, ApiKeeps, UserKeeps, PageKeeps DEF PageNext, Server
<1> QED  BY PageInitInv, <1>1, PTL DEF PageSpec

\* The page (routes/Pair.tsx), its requests and its commands keep their types, whatever the
\* answers and however many commands are in the stream; in particular the view is always one
\* that the page can render.
THEOREM PageTypes == PageSpec => []PageTypeOK
<1>1. ServerSide /\ PageSide => PageTypeOK
  BY DEF ServerSide, PageSide, PageTypeOK
<1> QED  BY PageInvariant, <1>1, PTL

\* A view comes up because the last answer calls for it, or an accepted /pair/init.
ViewStep == ui' \in HasView \ {ui} => data' \in HasView \/ init = "ok"

LEMMA ViewSteps ==
    ASSUME PageSide, [PageNext]_allPageVars
    PROVE  ViewStep
<1>0. /\ "tos_gate" \in Views /\ data \in Answers \cup {"unset"} /\ ui \in Views \cup {"away"}
      /\ "tos_gate" \notin HasView /\ "away" \notin HasView /\ "rate_limited" \notin HasView
      /\ "unset" \notin Answers
  BY DEF Views, PageSide, HasView, PairState, Answers
<1>1. CASE ui' = ui \/ ui' \notin HasView \/ init = "ok"
  BY <1>1 DEF ViewStep
<1>2. CASE ui' = deriveUiFromServer(data, "tos_gate") /\ data' = data
  BY <1>0, <1>2, ViewOf DEF ViewStep
<1>3. CASE Shows("tos_gate", data) /\ data' = data
  BY <1>0, <1>3, ShownFits DEF ViewStep
<1>4. CASE Answered
  <2>1. ask \in Answers \cup {"unset"} /\ Shows(ui, ask) /\ data' = ask
    BY <1>4 DEF Answered
  <2> QED  BY <1>0, <2>1, ShownFits DEF ViewStep
<1>5. CASE UNCHANGED allPageVars
  BY <1>1, <1>5 DEF allPageVars, pageVars
<1>6. CASE Server
  BY <1>1, <1>6 DEF Server, Pairing, StopAbsent, ServeInit, ServeStop, ServeStatus, pageVars
<1>7. CASE User
  BY <1>0, <1>1, <1>2, <1>3, <1>7
     DEF User, Mount, Leave, Initialize, Retry, RateLimitRetry, Refresh, Disconnect
<1>8. CASE Page
  BY <1>0, <1>1, <1>2, <1>4, <1>8
     DEF Page, CacheDropped, InitOk, InitLimited, StopOk, CountdownEnds, Poll, StatusFails
<1> QED  BY <1>5, <1>6, <1>7, <1>8 DEF PageNext

\* After every step the view fits the last answer of /pair/status, whatever the user presses
\* and in whatever order the answers come, and however the requests fail: the effect of
\* Pair.tsx moves the view after every change of either.  An answer without a view leaves it.
THEOREM ViewIsFit == PageSpec => ViewFits
<1>1. ASSUME PageSide, PageSide', [PageNext]_allPageVars
      PROVE  /\ ui' = "tos_gate" => data' # "paired"
             /\ ui' \in HasView /\ data' \in HasView => ui' = data'
             /\ ui' \in HasView \ {ui} => data' \in HasView \/ init = "ok"
  BY <1>1, ViewSteps DEF PageSide, ViewInv, ViewStep
<1> QED  BY PageInvariant, <1>1, PTL DEF PageSpec, ViewFits
=============================================================================
