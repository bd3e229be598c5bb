------------------------- MODULE PairCommandsProofs -------------------------
(***************************************************************************)
(* Proofs about the commands and the status of one user, for all bounds.   *)
(* What the API reads is compared with the machine only at rest; the       *)
(* strengthening says what it is before: the last write on its way is the  *)
(* machine's state, or a command is pending that will write it anew.       *)
(***************************************************************************)
EXTENDS PairCommands, SequenceTheorems, TLAPS

FlowShape ==
    /\ state \in PairState \cup {"absent"}
    /\ cmd \in {"none", "startDispose", "start", "stop"}
    /\ boot \in BOOLEAN /\ armed \in BOOLEAN
    /\ state = "absent" => ~armed
    /\ stray = FALSE

HistoryShape == broken \in BOOLEAN /\ overtook \in BOOLEAN

\* What the worker does fits its mode; the command it awaits is the first of the batch.
WorkerShape ==
    /\ boot => cmd = "none" /\ batch = <<>>
    /\ mode = "draining" => batch = <<>>
    /\ mode \in {"stopping", "draining"} => ~boot
    /\ mode = "down" => /\ state = "absent" /\ boot
                        /\ rows = <<>> /\ calls = <<>> /\ restore = "none"
    /\ cmd \in {"startDispose", "start"} => At("init")
    /\ cmd = "stop" => At("stop") \/ mode = "draining"
    /\ cmd # "none" => state # "absent"
    /\ cmd = "start" => state # "paired"
    /\ restore # "none" => boot /\ status # "none"
    /\ restore = "missing" => state = "absent"

\* Before the group exists nothing was ever paired.
GroupShape ==
    ~group => /\ boot /\ state = "absent" /\ restore = "none"
              /\ status # "paired" /\ rows = <<>>

\* A user without a row has never asked for anything but a disconnect.
RowShape ==
    status = "none" =>
        /\ state = "absent" /\ req # "initSend"
        /\ \A i \in DOMAIN stream : stream[i] # "init"
        /\ \A i \in DOMAIN batch : batch[i] # "init"

\* A command that will change the state, and be heard of, is on its way.
Unbegun == IF cmd = "start" THEN Len(batch) > 1 ELSE batch # <<>>
Pending == broken \/ req \in {"initSend", "stopSend"} \/ stream # <<>> \/ Unbegun

\* The disconnect being served has been carried out, or is the last command.
LastIs(s, c) == s # <<>> /\ s[Len(s)] = c
Over    == ~boot /\ ~armed /\ state \in {"absent", "idle", "error"}
StopShape ==
    req = "stopRow" /\ ~broken =>
        \/ LastIs(stream, "stop")
        \/ stream = <<>> /\ LastIs(batch, "stop")
        \/ stream = <<>> /\ batch = <<>> /\ Over

\* The last write to Redis is the state, unless it was refused, or a command is
\* pending.
KeyShape ==
    Alive /\ state # "absent" /\ (state # "idle" \/ ~boot) =>
        IF calls = <<>> THEN key \in {state, "stale"} \/ Pending ELSE LastIs(calls, state)

\* The last status update of a paired user says so.
PairedShape ==
    Alive /\ state = "paired" /\ ~overtook =>
        IF rows = <<>> THEN status = "paired" \/ Pending
        ELSE LastIs(rows, "paired")

CommandInv ==
    /\ CommandTypeOK /\ FlowShape /\ HistoryShape
    /\ WorkerShape /\ GroupShape /\ RowShape /\ StopShape
    /\ KeyShape /\ PairedShape

-----------------------------------------------------------------------------
(* What a step of the machine does to the writes on their way.             *)

\* The machine says nothing, and stays where it is.
Unheard ==
    /\ state' = state
    /\ UNCHANGED <<calls, rows, overtook>>

\* The machine has a new state, or the same anew, and both writes are on their way.
Heard ==
    /\ state' \in PairState
    /\ calls' \in Seq(PairState) /\ LastIs(calls', state')
    /\ rows' \in Seq(Statuses) /\ LastIs(rows', StatusOf(state'))
    /\ overtook' \in BOOLEAN

\* An element appended is the last.
LEMMA AppendLast ==
    ASSUME NEW S, NEW s \in Seq(S), NEW x \in S
    PROVE  Append(s, x) \in Seq(S) /\ LastIs(Append(s, x), x)
  BY DEF LastIs

\* The callbacks of a change of state become a SET, or two of the same value, and an
\* update of the row, or two of the same value.
LEMMA ChangeHeard ==
    ASSUME CommandTypeOK, HistoryShape, React, NEW s \in PairState,
           \/ Changes(s, <<>>) \/ Changes(s, <<"onQr">>)
           \/ Changes(s, <<"onSocketReady">>)
           \/ s = "paired" /\ Changes(s, <<"onSocketReady", "onPaired">>)
           \/ s = "error" /\ Changes(s, <<"onError">>)
    PROVE  Heard /\ state' = s
<1>1. state' = s /\ Told("onStateChange") /\ (Told("onError") => s = "error")
      /\ (Told("onPaired") => s = "paired")
  BY DEF Changes, Told
<1>2. /\ calls \in Seq(PairState) /\ rows \in Seq(Statuses)
      /\ StatusOf(s) \in Statuses
  BY DEF CommandTypeOK, StatusOf, Statuses, PairState
<1>3. /\ rows' = rows \o <<StatusOf(s)>> \o (IF Told("onPaired") THEN <<"paired">> ELSE <<>>)
      /\ calls' = calls \o <<s>> \o (IF Told("onError") THEN <<"error">> ELSE <<>>)
  BY <1>1 DEF React
<1>4. rows' \in Seq(Statuses) /\ LastIs(rows', StatusOf(s))
  <2>1. CASE Told("onPaired")
    <3>1. rows' = rows \o <<"paired">> \o <<"paired">> /\ StatusOf(s) = "paired"
      BY <1>1, <1>3, <2>1 DEF StatusOf
    <3> QED  BY <1>2, <3>1 DEF LastIs
  <2>2. CASE ~Told("onPaired")
    <3>1. rows' = rows \o <<StatusOf(s)>> \o <<>>
      BY <1>3, <2>2
    <3> QED  BY <1>2, <3>1 DEF LastIs
  <2> QED  BY <2>1, <2>2
<1>5. calls' \in Seq(PairState) /\ LastIs(calls', s)
  <2>1. CASE Told("onError")
    <3>1. calls' = calls \o <<s>> \o <<s>>
      BY <1>1, <1>3, <2>1
    <3> QED  BY <1>2, <3>1 DEF LastIs
  <2>2. CASE ~Told("onError")
    <3>1. calls' = calls \o <<s>> \o <<>>
      BY <1>3, <2>2
    <3> QED  BY <1>2, <3>1 DEF LastIs
  <2> QED  BY <2>1, <2>2
<1>6. overtook' \in BOOLEAN
  BY DEF React, CommandTypeOK, HistoryShape
<1> QED  BY <1>1, <1>4, <1>5, <1>6 DEF Heard

\* No callback, no write.
LEMMA StayUnheard ==
    ASSUME CommandTypeOK, HistoryShape, React, Stays(<<>>)
    PROVE  Unheard
<1>1. state' = state /\ \A f : ~Told(f)
  BY DEF Stays, Told
<1>2. calls \in Seq(PairState) /\ rows \in Seq(Statuses)
  BY DEF CommandTypeOK
<1>3. calls' = calls
  <2>1. calls' = calls \o <<>> \o <<>>
    BY <1>1 DEF React
  <2> QED  BY <1>2, <2>1
<1>4. rows' = rows
  <2>1. rows' = rows \o <<>> \o <<>>
    BY <1>1 DEF React
  <2> QED  BY <1>2, <2>1
<1>5. overtook' = overtook
  BY <1>4 DEF React, HistoryShape
<1> QED  BY <1>1, <1>3, <1>4, <1>5 DEF Unheard

\* The two comparisons survive a step of the machine, if a command that was
\* pending is still, or the step is heard of.
LEMMA MachineKeeps ==
    ASSUME CommandInv, Alive, React, UNCHANGED boot,
           Heard \/ (Unheard /\ (Pending => Pending'))
    PROVE  KeyShape' /\ PairedShape'
<1>1. key' = key /\ status' = status
  BY DEF React, storeVars
<1>2. CASE Heard
  <2>1. LastIs(calls', state') /\ LastIs(rows', StatusOf(state'))
    BY <1>2 DEF Heard
  <2> QED  BY <2>1 DEF KeyShape, PairedShape, LastIs, StatusOf
<1>3. CASE Unheard /\ (Pending => Pending')
  BY <1>1, <1>3 DEF CommandInv, KeyShape, PairedShape, Unheard, Alive, LastIs
<1> QED  BY <1>2, <1>3
-----------------------------------------------------------------------------
(* Sequences, as the loop and the stores use them.                         *)

\* What is left of a sequence without its head ends as the sequence did.
LEMMA TailLast ==
    ASSUME NEW S, NEW s \in Seq(S), s # <<>>
    PROVE  /\ Tail(s) \in Seq(S)
           /\ Head(s) \in S
           /\ Tail(s) # <<>> <=> Len(s) > 1
           /\ \A x : LastIs(s, x) => IF Tail(s) = <<>> THEN Head(s) = x ELSE LastIs(Tail(s), x)
           /\ \A i \in DOMAIN Tail(s) : i + 1 \in DOMAIN s /\ Tail(s)[i] = s[i + 1]
<1>1. Len(s) \in Nat /\ Len(s) > 0 /\ DOMAIN s = 1..Len(s)
  OBVIOUS
<1>2. /\ Tail(s) \in Seq(S) /\ Head(s) \in S /\ Head(s) = s[1]
      /\ Len(Tail(s)) = Len(s) - 1
      /\ \A i \in 1..(Len(s) - 1) : Tail(s)[i] = s[i + 1]
  BY <1>1, HeadTailProperties
<1>3. Tail(s) # <<>> <=> Len(s) > 1
  <2>1. \A t \in Seq(S) : t = <<>> <=> Len(t) = 0
    BY EmptySeq
  <2>2. Tail(s) = <<>> <=> Len(s) - 1 = 0
    BY <1>2, <2>1
  <2>3. \A n \in Nat : n > 0 => (n - 1 = 0 <=> ~(n > 1))
    OBVIOUS
  <2> QED  BY <1>1, <2>2, <2>3
<1>4. \A x : LastIs(s, x) => IF Tail(s) = <<>> THEN Head(s) = x ELSE LastIs(Tail(s), x)
  BY <1>1, <1>2, <1>3 DEF LastIs
<1>5. \A i \in DOMAIN Tail(s) : i + 1 \in DOMAIN s /\ Tail(s)[i] = s[i + 1]
  BY <1>1, <1>2
<1> QED  BY <1>2, <1>3, <1>4, <1>5

\* The acknowledgement takes the first command, and a rejected one those after it.
LEMMA Acknowledged ==
    ASSUME CommandTypeOK, HistoryShape, batch # <<>>, Acknowledge
    PROVE  /\ batch' \in Seq(Commands) /\ deaf' \in BOOLEAN /\ broken' \in BOOLEAN
           /\ batch' \in {Tail(batch), <<>>}
           /\ broken => broken'
           /\ broken' \/ batch' = Tail(batch)
<1>1. batch \in Seq(Commands) /\ <<>> \in Seq(Commands)
  BY EmptySeq DEF CommandTypeOK
<1>2. Tail(batch) \in Seq(Commands) /\ (Tail(batch) # <<>> <=> Len(batch) > 1)
  BY <1>1, TailLast
<1>3. CASE batch' = Tail(batch) /\ UNCHANGED <<deaf, broken>>
  BY <1>2, <1>3 DEF CommandTypeOK, HistoryShape
<1>4. CASE batch' = <<>> /\ deaf' = TRUE /\ broken' = (broken \/ Len(batch) > 1)
  <2>1. broken' \in BOOLEAN /\ (broken => broken') /\ (broken' \/ ~(Len(batch) > 1))
    BY <1>4 DEF HistoryShape
  <2> QED  BY <1>1, <1>2, <1>4, <2>1
<1> QED  BY <1>3, <1>4 DEF Acknowledge

\* The API's steps leave the machine and what the worker issued alone.
LEMMA InitUpsertKeeps ==
    ASSUME CommandInv, InitUpsert
    PROVE  CommandInv'
<1> USE DEF CommandInv, InitUpsert, ApiOnly, Silent, workerVars, writeVars
<1>1. CommandTypeOK'
  BY DEF CommandTypeOK, Statuses
<1>2. FlowShape' /\ HistoryShape'
  BY DEF FlowShape, HistoryShape
<1>3. WorkerShape' /\ GroupShape' /\ RowShape' /\ StopShape'
  BY DEF WorkerShape, GroupShape, RowShape, StopShape, At
<1>4. KeyShape' /\ PairedShape'
  BY DEF KeyShape, PairedShape, Pending, Alive, LastIs
<1> QED  BY <1>1, <1>2, <1>3, <1>4

\* The init is in the stream: the session of its row is about to start anew.
LEMMA InitSendKeeps ==
    ASSUME CommandInv, InitSend
    PROVE  CommandInv'
<1> USE DEF CommandInv, InitSend, ApiOnly, Silent, workerVars, writeVars, historyVars
<1>1. stream' \in Seq(Commands) /\ stream' # <<>>
  BY DEF CommandTypeOK, Commands
<1>2. CommandTypeOK' /\ FlowShape' /\ HistoryShape'
  BY <1>1 DEF CommandTypeOK, FlowShape, HistoryShape
<1>3. WorkerShape' /\ GroupShape' /\ RowShape' /\ StopShape'
  BY DEF WorkerShape, GroupShape, RowShape, StopShape, At
<1>4. KeyShape' /\ PairedShape'
  BY <1>1 DEF KeyShape, PairedShape, Pending, Alive, LastIs
<1> QED  BY <1>2, <1>3, <1>4

\* The key is gone, and the stop that goes with it is still to be sent.
LEMMA StopDeleteKeeps ==
    ASSUME CommandInv, StopDelete
    PROVE  CommandInv'
<1> USE DEF CommandInv, StopDelete, ApiOnly, Silent, workerVars, writeVars
<1>1. CommandTypeOK'
  BY DEF CommandTypeOK
<1>2. FlowShape' /\ HistoryShape'
  BY DEF FlowShape, HistoryShape
<1>3. WorkerShape' /\ GroupShape' /\ RowShape' /\ StopShape'
  BY DEF WorkerShape, GroupShape, RowShape, StopShape, At
<1>4. KeyShape' /\ PairedShape'
  BY DEF KeyShape, PairedShape, Pending, Alive, LastIs
<1> QED  BY <1>1, <1>2, <1>3, <1>4

\* The stop is the last command of the stream.
LEMMA StopSendKeeps ==
    ASSUME CommandInv, StopSend
    PROVE  CommandInv'
<1> USE DEF CommandInv, StopSend, ApiOnly, Silent, workerVars, writeVars, historyVars
<1>1. stream' \in Seq(Commands) /\ LastIs(stream', "stop")
  BY AppendLast DEF CommandTypeOK, Commands
<1>2. CommandTypeOK' /\ FlowShape' /\ HistoryShape'
  BY <1>1 DEF CommandTypeOK, FlowShape, HistoryShape
<1>3. WorkerShape' /\ GroupShape'
  BY DEF WorkerShape, GroupShape, At
<1>4. RowShape' /\ StopShape'
  BY <1>1 DEF RowShape, StopShape, CommandTypeOK
<1>5. KeyShape' /\ PairedShape'
  BY <1>1 DEF KeyShape, PairedShape, Pending, Alive, LastIs
<1> QED  BY <1>2, <1>3, <1>4, <1>5

\* The row says `disconnected`: whoever is paired still has the stop before him.
LEMMA StopRowKeeps ==
    ASSUME CommandInv, StopRow
    PROVE  CommandInv'
<1> USE DEF CommandInv, StopRow, ApiOnly, Silent, workerVars, writeVars
<1>1. CommandTypeOK' /\ FlowShape' /\ HistoryShape'
  BY DEF CommandTypeOK, FlowShape, HistoryShape, Statuses
<1>2. WorkerShape' /\ GroupShape' /\ RowShape' /\ StopShape'
  BY DEF WorkerShape, GroupShape, RowShape, StopShape, At
<1>3. KeyShape'
  BY DEF KeyShape, Pending, Unbegun, Alive, LastIs
<1>4. state = "paired" => Pending'
  <2>1. cmd = "start" /\ LastIs(batch, "stop") => Len(batch) > 1
    BY DEF CommandTypeOK, WorkerShape, At, LastIs
  <2> QED  BY <2>1 DEF StopShape, Pending, Unbegun, Over, LastIs
<1>5. PairedShape'
  BY <1>4 DEF PairedShape, Alive, LastIs
<1> QED  BY <1>1, <1>2, <1>3, <1>5

\* A request that ends between its writes breaks what the rest relies on.
LEMMA AbortKeeps ==
    ASSUME CommandInv, Abort
    PROVE  CommandInv'
<1> USE DEF CommandInv, Abort, ApiOnly, Silent, workerVars, writeVars
<1>1. CommandTypeOK' /\ FlowShape' /\ HistoryShape'
  BY DEF CommandTypeOK, FlowShape, HistoryShape
<1>2. WorkerShape' /\ GroupShape' /\ RowShape' /\ StopShape'
  BY DEF WorkerShape, GroupShape, RowShape, StopShape, At
<1>3. KeyShape' /\ PairedShape'
  BY DEF KeyShape, PairedShape, Pending, Alive, LastIs
<1> QED  BY <1>1, <1>2, <1>3

-----------------------------------------------------------------------------
(* The worker's steps that leave the machine alone.                        *)

\* Commands that were in the stream are in the batch.
LEMMA ReadCommandsKeeps ==
    ASSUME CommandInv, ReadCommands
    PROVE  CommandInv'
<1> USE DEF CommandInv, ReadCommands, Reading, Silent, writeVars, historyVars
<1>1. CommandTypeOK'
  BY DEF CommandTypeOK, Commands
<1>2. FlowShape' /\ HistoryShape'
  BY DEF FlowShape, HistoryShape
<1>3. WorkerShape' /\ GroupShape'
  BY DEF WorkerShape, GroupShape, At
<1>4. RowShape' /\ StopShape'
  BY DEF RowShape, StopShape, LastIs
<1>5. Pending'
  BY DEF Pending, Unbegun, WorkerShape, At
<1>6. KeyShape' /\ PairedShape'
  BY <1>5 DEF KeyShape, PairedShape, Alive, LastIs
<1> QED  BY <1>1, <1>2, <1>3, <1>4, <1>6

\* Commands lost with a reply break what the rest relies on.
LEMMA ReadLostKeeps ==
    ASSUME CommandInv, ReadLost
    PROVE  CommandInv'
<1> USE DEF CommandInv, ReadLost, Reading, Silent, workerVars, writeVars
<1>1. CommandTypeOK'
  BY EmptySeq DEF CommandTypeOK
<1>2. FlowShape' /\ HistoryShape'
  BY DEF FlowShape, HistoryShape
<1>3. WorkerShape' /\ GroupShape' /\ RowShape' /\ StopShape'
  BY DEF WorkerShape, GroupShape, RowShape, StopShape, At
<1>4. KeyShape' /\ PairedShape'
  BY DEF KeyShape, PairedShape, Pending, Alive
<1> QED  BY <1>1, <1>2, <1>3, <1>4

\* A stop that finds no machine: a disconnect that ended with it is over.
LEMMA StopAbsentKeeps ==
    ASSUME CommandInv, StopAbsent
    PROVE  CommandInv'
<1> USE DEF CommandInv, StopAbsent, Silent, writeVars, storeVars, historyVars
<1>1. batch \in Seq(Commands) /\ batch # <<>> /\ Head(batch) = "stop"
  BY DEF CommandTypeOK, At
<1>2. /\ batch' \in Seq(Commands) /\ deaf' \in BOOLEAN /\ broken' \in BOOLEAN
      /\ batch' \in {Tail(batch), <<>>} /\ (broken => broken')
      /\ broken' \/ batch' = Tail(batch)
  BY <1>1, Acknowledged
<1>3. CommandTypeOK'
  BY <1>2 DEF CommandTypeOK
<1>0. FlowShape' /\ HistoryShape'
  BY <1>2 DEF FlowShape, HistoryShape
<1>4. WorkerShape' /\ GroupShape'
  BY <1>1 DEF WorkerShape, GroupShape
<1>5. RowShape'
  BY <1>1, <1>2, TailLast DEF RowShape
<1>6. StopShape'
  BY <1>1, <1>2, TailLast DEF StopShape, Over, FlowShape, WorkerShape
<1>7. KeyShape' /\ PairedShape'
  BY DEF KeyShape, PairedShape
<1> QED  BY <1>0, <1>3, <1>4, <1>5, <1>6, <1>7

\* The last SET to land makes the key the state, or is refused.
LEMMA KeyLeavesKeeps ==
    ASSUME CommandInv, NEW k \in {Head(calls), "stale"}, KeyLeaves(k)
    PROVE  CommandInv'
<1> USE DEF CommandInv, KeyLeaves, Silent, workerVars, historyVars
<1>1. calls \in Seq(PairState) /\ calls # <<>>
  BY DEF CommandTypeOK
<1>2. Tail(calls) \in Seq(PairState) /\ Head(calls) \in PairState
  BY <1>1, TailLast
<1>3. CommandTypeOK'
  BY <1>2 DEF CommandTypeOK
<1>0. FlowShape' /\ HistoryShape'
  BY <1>2 DEF FlowShape, HistoryShape
<1>4. WorkerShape' /\ GroupShape' /\ RowShape' /\ StopShape'
  BY DEF WorkerShape, GroupShape, RowShape, StopShape, At, Over
<1>5. KeyShape'
  BY <1>1, TailLast DEF KeyShape, Alive
<1>6. PairedShape'
  BY DEF PairedShape, Pending, Unbegun, Alive
<1> QED  BY <1>0, <1>3, <1>4, <1>5, <1>6

\* Positions before, at and after the i-th of n.
LEMMA Positions ==
    ASSUME NEW n \in Nat, NEW i \in 1..n
    PROVE  /\ i \in Nat /\ i - 1 \in Nat /\ n - i \in Nat /\ n - 1 \in Nat
           /\ (i - 1) + (n - i) = n - 1
           /\ n - 1 = 0 => i = 1 /\ n = 1
           /\ n - 1 # 0 => n - 1 \in 1..(n - 1)
           /\ i # n => /\ ~(n - 1 =< i - 1) /\ (n - 1) - (i - 1) = n - i
                      /\ n - i \in 1..(n - i) /\ i + (n - i) = n
           /\ i = n /\ n - 1 # 0 => i - 1 =< i - 1 /\ i - 1 \in 1..(i - 1) /\ i - 1 \in 1..n
  OBVIOUS

\* A sequence without one of its elements: what it ends with.
LEMMA WithoutOne ==
    ASSUME NEW S, NEW s \in Seq(S), NEW i \in 1..Len(s)
    PROVE  LET t == SubSeq(s, 1, i - 1) \o SubSeq(s, i + 1, Len(s)) IN
           /\ t \in Seq(S)
           /\ t = <<>> => i = 1 /\ Len(s) = 1
           /\ t # <<>> /\ i # Len(s) => t[Len(t)] = s[Len(s)]
           /\ t # <<>> /\ i = Len(s) => t[Len(t)] = s[i - 1] /\ i - 1 \in 1..Len(s)
<1> DEFINE n == Len(s)
           u == SubSeq(s, 1, i - 1)
           v == SubSeq(s, i + 1, Len(s))
           t == u \o v
<1>1. n \in Nat /\ i \in 1..n
  OBVIOUS
<1>2. /\ u \in Seq(S) /\ Len(u) = i - 1
      /\ \A j \in 1..(i - 1) : u[j] = s[j]
  BY <1>1
<1>3. /\ v \in Seq(S) /\ Len(v) = n - i
      /\ \A j \in 1..(n - i) : v[j] = s[i + j]
  BY <1>1
<1> HIDE DEF n, u, v
<1>4. /\ t \in Seq(S) /\ Len(t) = (i - 1) + (n - i)
      /\ \A j \in 1..(i - 1) + (n - i) : t[j] = IF j =< i - 1 THEN u[j] ELSE v[j - (i - 1)]
  <2>1. /\ t \in Seq(S) /\ Len(t) = Len(u) + Len(v)
        /\ \A j \in 1..(Len(u) + Len(v)) : t[j] = IF j =< Len(u) THEN u[j] ELSE v[j - Len(u)]
    BY <1>2, <1>3, ConcatProperties
  <2> HIDE DEF t
  <2> QED  BY <1>2, <1>3, <2>1
<1>5. t = <<>> <=> Len(t) = 0
  BY <1>4, EmptySeq
<1> HIDE DEF t
<1>6. /\ Len(t) = n - 1
      /\ \A j \in 1..(n - 1) : t[j] = IF j =< i - 1 THEN u[j] ELSE v[j - (i - 1)]
  BY <1>1, <1>4, Positions
<1>7. t = <<>> => i = 1 /\ n = 1
  BY <1>1, <1>5, <1>6, Positions
<1>8. t # <<>> => n - 1 # 0 /\ n - 1 \in 1..(n - 1)
  BY <1>1, <1>5, <1>6, Positions
<1>9. t # <<>> /\ i # n => t[Len(t)] = s[n]
  BY <1>1, <1>3, <1>6, <1>8, Positions
<1>10. t # <<>> /\ i = n => t[Len(t)] = s[i - 1] /\ i - 1 \in 1..n
  BY <1>1, <1>2, <1>6, <1>8, Positions
<1> QED  BY <1>4, <1>7, <1>9, <1>10 DEF t, u, v, n

\* An update that leaves the queue is of no concern to anything but the row.
LEMMA RowLeavesKeeps ==
    ASSUME CommandInv, NEW i \in 1..Len(rows), RowLeaves(i),
           status' \in Statuses \cup {"none"}, status' = "none" <=> status = "none",
           status' = "paired" => status # "none" \/ rows # <<>>,
           overtook' \in BOOLEAN
    PROVE  /\ CommandTypeOK' /\ FlowShape' /\ HistoryShape'
           /\ WorkerShape' /\ GroupShape' /\ RowShape' /\ StopShape' /\ KeyShape'
<1> USE DEF CommandInv, RowLeaves, Silent, workerVars
<1>1. rows \in Seq(Statuses) /\ rows # <<>>
  BY DEF CommandTypeOK
<1>2. rows' \in Seq(Statuses)
  BY <1>1, WithoutOne
<1>3. CommandTypeOK'
  BY <1>2 DEF CommandTypeOK
<1>4. FlowShape' /\ HistoryShape'
  BY DEF FlowShape, HistoryShape
<1>5. WorkerShape' /\ GroupShape' /\ RowShape' /\ StopShape'
  BY <1>1 DEF WorkerShape, GroupShape, RowShape, StopShape, At, Over
<1>6. KeyShape'
  BY DEF KeyShape, Pending, Unbegun, Alive
<1> QED  BY <1>3, <1>4, <1>5, <1>6

\* The newest update that lands last says what the machine said last.
LEMMA RowLandsKeeps ==
    ASSUME CommandInv, NEW i \in 1..Len(rows), RowLands(i)
    PROVE  CommandInv'
<1>1. /\ rows \in Seq(Statuses) /\ rows # <<>> /\ Len(rows) \in Nat /\ rows[i] \in Statuses
      /\ status \in Statuses \cup {"none"} /\ overtook \in BOOLEAN
  BY DEF CommandInv, CommandTypeOK, HistoryShape
<1>2. /\ RowLeaves(i) /\ status' = (IF status = "none" THEN "none" ELSE rows[i])
      /\ overtook' = (overtook \/ \E j \in 1..(i - 1) : rows[j] # rows[i])
      /\ rows' = SubSeq(rows, 1, i - 1) \o SubSeq(rows, i + 1, Len(rows))
      /\ state' = state /\ mode' = mode
  BY DEF RowLands, RowLeaves, Silent, workerVars
<1>3. /\ status' \in Statuses \cup {"none"} /\ (status' = "none" <=> status = "none")
      /\ overtook' \in BOOLEAN
  BY <1>1, <1>2 DEF Statuses
<1>4. /\ CommandTypeOK' /\ FlowShape' /\ HistoryShape'
      /\ WorkerShape' /\ GroupShape' /\ RowShape' /\ StopShape' /\ KeyShape'
  BY <1>1, <1>2, <1>3, RowLeavesKeeps
<1>5. PairedShape'
  <2> SUFFICES ASSUME Alive, state = "paired", ~overtook, ~overtook'
               PROVE  IF rows' = <<>> THEN status' = "paired" ELSE LastIs(rows', "paired")
    BY <1>1, <1>2, <1>3 DEF PairedShape, Alive
  <2>1. LastIs(rows, "paired") /\ status # "none"
    BY <1>1 DEF CommandInv, PairedShape, RowShape
  <2>2. CASE rows' = <<>>
    <3>1. i = 1 /\ Len(rows) = 1
      BY <1>1, <1>2, <2>2, WithoutOne
    <3>2. rows[1] = "paired"
      BY <2>1, <3>1 DEF LastIs
    <3>3. status' = rows[1]
      BY <1>2, <2>1, <3>1
    <3> QED  BY <2>2, <3>2, <3>3
  <2>3. CASE rows' # <<>> /\ i # Len(rows)
    <3>1. rows'[Len(rows')] = rows[Len(rows)]
      BY <1>1, <1>2, <2>3, WithoutOne
    <3> QED  BY <2>1, <2>3, <3>1 DEF LastIs
  <2>4. CASE rows' # <<>> /\ i = Len(rows)
    <3>1. rows'[Len(rows')] = rows[i - 1] /\ i - 1 \in 1..Len(rows)
      BY <1>1, <1>2, <2>4, WithoutOne
    <3>2. i - 1 \in 1..(i - 1)
      BY <3>1
    <3>3. \A j \in 1..(i - 1) : rows[j] = rows[i]
      BY <1>2
    <3> QED  BY <2>1, <2>4, <3>1, <3>2, <3>3 DEF LastIs
  <2> QED  BY <2>2, <2>3, <2>4
<1> QED  BY <1>4, <1>5 DEF CommandInv

\* The newest update is lost: the one before it, or the row, says the same.
LEMMA RowLostKeeps ==
    ASSUME CommandInv, NEW i \in 1..Len(rows), RowLost(i)
    PROVE  CommandInv'
<1>1. /\ rows \in Seq(Statuses) /\ rows # <<>> /\ Len(rows) \in Nat /\ rows[i] \in Statuses
      /\ status \in Statuses \cup {"none"} /\ overtook \in BOOLEAN
  BY DEF CommandInv, CommandTypeOK, HistoryShape
<1>2. /\ RowLeaves(i) /\ status' = status
      /\ overtook' = (overtook \/ (/\ i = Len(rows)
                                   /\ rows[i] # IF i = 1 THEN status ELSE rows[i - 1]))
      /\ rows' = SubSeq(rows, 1, i - 1) \o SubSeq(rows, i + 1, Len(rows))
      /\ state' = state /\ mode' = mode
  BY DEF RowLost, RowLeaves, Silent, workerVars
<1>3. overtook' \in BOOLEAN
  BY <1>1, <1>2
<1>4. /\ CommandTypeOK' /\ FlowShape' /\ HistoryShape'
      /\ WorkerShape' /\ GroupShape' /\ RowShape' /\ StopShape' /\ KeyShape'
  BY <1>1, <1>2, <1>3, RowLeavesKeeps
<1>5. PairedShape'
  <2> SUFFICES ASSUME Alive, state = "paired", ~overtook, ~overtook'
               PROVE  IF rows' = <<>> THEN status' = "paired" ELSE LastIs(rows', "paired")
    BY <1>1, <1>2, <1>3 DEF PairedShape, Alive
  <2>1. LastIs(rows, "paired")
    BY <1>1 DEF CommandInv, PairedShape
  <2>0. i = Len(rows) => rows[i] = IF i = 1 THEN status ELSE rows[i - 1]
    BY <1>2
  <2>2. CASE rows' = <<>>
    <3>1. i = 1 /\ Len(rows) = 1
      BY <1>1, <1>2, <2>2, WithoutOne
    <3>2. rows[1] = "paired"
      BY <2>1, <3>1 DEF LastIs
    <3>3. rows[1] = status
      BY <2>0, <3>1
    <3> QED  BY <1>2, <2>2, <3>2, <3>3
  <2>3. CASE rows' # <<>> /\ i # Len(rows)
    <3>1. rows'[Len(rows')] = rows[Len(rows)]
      BY <1>1, <1>2, <2>3, WithoutOne
    <3> QED  BY <2>1, <2>3, <3>1 DEF LastIs
  <2>4. CASE rows' # <<>> /\ i = Len(rows)
    <3>1. rows'[Len(rows')] = rows[i - 1] /\ i - 1 \in 1..Len(rows)
      BY <1>1, <1>2, <2>4, WithoutOne
    <3>2. rows[i - 1] = rows[i]
      BY <2>0, <2>4, <3>1
    <3> QED  BY <2>1, <2>4, <3>1, <3>2 DEF LastIs
  <2> QED  BY <2>2, <2>3, <2>4
<1> QED  BY <1>4, <1>5 DEF CommandInv

\* A restart finds no machine; the row says whether one is to be restored.
LEMMA BootKeeps ==
    ASSUME CommandInv, Boot
    PROVE  CommandInv'
<1> USE DEF CommandInv, Boot, Silent, writeVars, storeVars, historyVars
<1>1. CommandTypeOK'
  BY DEF CommandTypeOK
<1>0. FlowShape' /\ HistoryShape'
  BY DEF FlowShape, HistoryShape
<1>2. WorkerShape' /\ GroupShape' /\ RowShape' /\ StopShape'
  BY DEF WorkerShape, GroupShape, RowShape, StopShape, At, Over
<1>3. KeyShape' /\ PairedShape'
  BY DEF KeyShape, PairedShape, WorkerShape
<1> QED  BY <1>0, <1>1, <1>2, <1>3

\* Without the restore pass there is no machine either.
LEMMA BootBlindKeeps ==
    ASSUME CommandInv, BootBlind
    PROVE  CommandInv'
<1> USE DEF CommandInv, BootBlind, Silent, writeVars, storeVars
<1>1. CommandTypeOK'
  BY DEF CommandTypeOK
<1>0. FlowShape' /\ HistoryShape'
  BY DEF FlowShape, HistoryShape
<1>2. WorkerShape' /\ GroupShape' /\ RowShape' /\ StopShape'
  BY DEF WorkerShape, GroupShape, RowShape, StopShape, At, Over
<1>3. KeyShape' /\ PairedShape'
  BY DEF KeyShape, PairedShape, WorkerShape
<1> QED  BY <1>0, <1>1, <1>2, <1>3

\* A session that cannot be restored has no machine.
LEMMA RestoreFailsKeeps ==
    ASSUME CommandInv, RestoreFails
    PROVE  CommandInv'
<1> USE DEF CommandInv, RestoreFails, Silent, writeVars, historyVars
<1>1. CommandTypeOK'
  BY DEF CommandTypeOK, Statuses
<1>0. FlowShape' /\ HistoryShape'
  BY DEF FlowShape, HistoryShape
<1>2. WorkerShape' /\ GroupShape' /\ RowShape' /\ StopShape'
  BY DEF WorkerShape, GroupShape, RowShape, StopShape, At, Over
<1>3. KeyShape' /\ PairedShape'
  BY DEF KeyShape, PairedShape, WorkerShape
<1> QED  BY <1>0, <1>1, <1>2, <1>3

\* Nothing but the mode changes.
LEMMA SigtermKeeps ==
    ASSUME CommandInv, Sigterm
    PROVE  CommandInv'
<1> USE DEF CommandInv, Sigterm, Silent, writeVars, storeVars
<1>1. CommandTypeOK'
  BY DEF CommandTypeOK
<1>0. FlowShape' /\ HistoryShape'
  BY DEF FlowShape, HistoryShape
<1>2. WorkerShape' /\ GroupShape' /\ RowShape' /\ StopShape'
  BY DEF WorkerShape, GroupShape, RowShape, StopShape, At, Over
<1>3. KeyShape' /\ PairedShape'
  BY DEF KeyShape, PairedShape, Pending, Unbegun, Alive
<1> QED  BY <1>0, <1>1, <1>2, <1>3

\* The loop ends with an empty batch.
LEMMA LoopEndsKeeps ==
    ASSUME CommandInv, LoopEnds
    PROVE  CommandInv'
<1> USE DEF CommandInv, LoopEnds, Silent, writeVars, storeVars, historyVars
<1>1. CommandTypeOK'
  BY DEF CommandTypeOK
<1>0. FlowShape' /\ HistoryShape'
  BY DEF FlowShape, HistoryShape
<1>2. WorkerShape' /\ GroupShape' /\ RowShape' /\ StopShape'
  BY DEF WorkerShape, GroupShape, RowShape, StopShape, At, Over
<1>3. KeyShape' /\ PairedShape'
  BY DEF KeyShape, PairedShape, Pending, Unbegun, Alive
<1> QED  BY <1>0, <1>1, <1>2, <1>3

\* A request the end of the process catches is counted as broken.
LEMMA GoneKeeps ==
    ASSUME CommandInv, Gone
    PROVE  CommandInv'
<1> USE DEF CommandInv, Gone, storeVars
<1>0. CommandTypeOK'
  <2>1. \A S : <<>> \in Seq(S)
    BY EmptySeq
  <2> QED  BY <2>1 DEF CommandTypeOK
<1>1. FlowShape' /\ HistoryShape'
  BY DEF FlowShape, HistoryShape
<1>2. WorkerShape' /\ GroupShape'
  BY DEF WorkerShape, GroupShape, At
<1>4. RowShape'
  BY DEF RowShape
<1>5. StopShape'
  BY DEF StopShape, HistoryShape
<1>3. KeyShape' /\ PairedShape'
  BY DEF KeyShape, PairedShape
<1> QED  BY <1>0, <1>1, <1>2, <1>3, <1>4, <1>5

-----------------------------------------------------------------------------
(* The steps of the machine.                                               *)

\* It finds the command it finishes at the head of the batch.
LEMMA MachineEventKeeps ==
    ASSUME CommandInv, MachineEvent
    PROVE  CommandInv'
<1> USE DEF CommandInv, MachineEvent, MayGo
<1>1. /\ mode' = mode /\ restore' = restore /\ active' = active
      /\ stray' = FALSE /\ boot' = boot /\ storeVars' = storeVars /\ req' = req
      /\ state # "absent" /\ state' \in PairState
  BY DEF React, FlowShape, FlowQr, FlowExpire, FlowFail, FlowOpen, Changes, PairState, MidPair
<1>2. Heard
  <2>1. CASE FlowQr /\ state = "generating"
    BY <2>1, ChangeHeard DEF FlowQr, PairState
  <2>2. CASE FlowExpire
    BY <2>2, ChangeHeard DEF FlowExpire, PairState
  <2>3. CASE FlowFail
    BY <2>3, ChangeHeard DEF FlowFail, PairState
  <2>4. CASE FlowOpen
    BY <2>4, ChangeHeard DEF FlowOpen, PairState
  <2> QED  BY <2>1, <2>2, <2>3, <2>4
<1>3. \/ cmd' = cmd /\ batch' = batch /\ deaf' = deaf /\ broken' = broken
      \/ cmd = "start" /\ cmd' = "none" /\ At("init") /\ Acknowledge
  BY DEF FlowQr, FlowExpire, FlowFail, FlowOpen, WorkerShape, FlowShape, InHand
<1>4. /\ batch \in Seq(Commands) /\ batch' \in Seq(Commands)
      /\ deaf' \in BOOLEAN /\ broken' \in BOOLEAN
      /\ broken => broken'
      /\ batch' \in {batch, Tail(batch), <<>>}
      /\ \/ cmd' = cmd /\ batch' = batch
         \/ cmd = "start" /\ cmd' = "none" /\ At("init") /\ (broken' \/ batch' = Tail(batch))
  BY <1>3, Acknowledged DEF CommandTypeOK, HistoryShape, At
<1>5. CommandTypeOK'
  BY <1>1, <1>2, <1>4 DEF CommandTypeOK, Heard, storeVars
<1>6. FlowShape' /\ HistoryShape'
  BY <1>1, <1>2, <1>3, <1>4 DEF FlowShape, HistoryShape, Heard, PairState,
     FlowQr, FlowExpire, FlowFail, FlowOpen, Arms
<1>7. WorkerShape' /\ GroupShape'
  <2>1. state' # "absent" /\ group /\ mode # "down"
    BY <1>1 DEF PairState, GroupShape, Alive
  <2>2. state' = "paired" => cmd' # "start"
    BY DEF FlowQr, FlowExpire, FlowFail, FlowOpen, Changes
  <2>3. batch = <<>> => batch' = <<>>
    BY <1>3 DEF At
  <2> QED  BY <1>1, <1>3, <2>1, <2>2, <2>3 DEF WorkerShape, GroupShape, At, storeVars
<1>8. RowShape'
  BY <1>1 DEF RowShape, storeVars
<1>9. StopShape'
  <2>1. Over => Over'
    BY <1>1 DEF Over, FlowShape, FlowQr, FlowExpire, FlowFail, FlowOpen, Arms, Changes, MidPair
  <2>2. LastIs(batch, "stop") => broken' \/ LastIs(batch', "stop")
    <3>1. CASE cmd' = cmd /\ batch' = batch
      BY <3>1
    <3>2. CASE At("init") /\ (broken' \/ batch' = Tail(batch))
      <4>1. LastIs(batch, "stop") => IF Tail(batch) = <<>> THEN Head(batch) = "stop"
                                     ELSE LastIs(Tail(batch), "stop")
        BY <1>4, <3>2, TailLast DEF At
      <4> QED  BY <3>2, <4>1 DEF At
    <3> QED  BY <1>4, <3>1, <3>2
  <2>3. batch = <<>> => batch' = <<>>
    BY <1>3 DEF At
  <2> QED  BY <1>1, <1>4, <2>1, <2>2, <2>3 DEF StopShape, storeVars
<1>10. KeyShape' /\ PairedShape'
  BY <1>1, <1>2, MachineKeeps
<1> QED  BY <1>5, <1>6, <1>7, <1>8, <1>9, <1>10

\* start(): with an old socket it waits first, else the state is `generating`.
LEMMA StartKeeps ==
    ASSUME CommandInv, Start
    PROVE  CommandInv'
<1> USE DEF CommandInv, Start, MayGo
<1>1. /\ mode' = mode /\ restore' = restore /\ batch' = batch
      /\ stray' = FALSE /\ boot' = boot /\ ~boot
      /\ storeVars' = storeVars /\ req' = req /\ broken' = broken /\ deaf' = deaf
      /\ cmd' \in {"startDispose", "start"}
      /\ mode # "down" /\ mode # "draining" /\ group
  BY DEF InHand, React, FlowShape, FlowDispose, FlowStart, WorkerShape, GroupShape, At, Alive
<1>2. \/ Unheard /\ state # "absent" /\ cmd' = "startDispose" /\ cmd = "none"
      \/ Heard /\ state' = "generating" /\ cmd' = "start"
  <2>1. CASE FlowDispose("startDispose")
    BY <2>1, StayUnheard DEF FlowDispose
  <2>2. CASE FlowStart
    BY <2>2, ChangeHeard DEF FlowStart, PairState
  <2> QED  BY <2>1, <2>2
<1>3. CommandTypeOK'
  BY <1>1, <1>2 DEF CommandTypeOK, Heard, Unheard, storeVars
<1>4. FlowShape' /\ HistoryShape'
  BY <1>1, <1>2 DEF FlowShape, HistoryShape, Heard, Unheard, PairState,
     FlowDispose, FlowStart, Arms
<1>5. WorkerShape' /\ GroupShape'
  BY <1>1, <1>2 DEF WorkerShape, GroupShape, At, storeVars, Unheard
<1>6. RowShape'
  <2>1. batch[1] = "init" /\ 1 \in DOMAIN batch
    BY DEF At, CommandTypeOK
  <2> QED  BY <1>1, <2>1 DEF RowShape, storeVars
<1>7. StopShape'
  BY <1>1 DEF StopShape, storeVars, At
<1>8. KeyShape' /\ PairedShape'
  BY <1>1, <1>2, MachineKeeps DEF Pending, Unbegun, storeVars
<1> QED  BY <1>3, <1>4, <1>5, <1>6, <1>7, <1>8

\* start() returns: its command leaves the batch.
LEMMA StartedKeeps ==
    ASSUME CommandInv, Started
    PROVE  CommandInv'
<1> USE DEF CommandInv, Started, MayGo
<1>1. /\ mode' = mode /\ restore' = restore /\ At("init")
      /\ stray' = FALSE /\ boot' = boot /\ ~boot
      /\ storeVars' = storeVars /\ req' = req
      /\ cmd = "start" /\ cmd' = "none" /\ state # "absent"
  BY DEF React, FlowShape, FlowStarted, WorkerShape
<1>2. Unheard
  BY StayUnheard DEF FlowStarted
<1>3. /\ batch \in Seq(Commands) /\ batch # <<>> /\ batch' \in Seq(Commands)
      /\ deaf' \in BOOLEAN /\ broken' \in BOOLEAN
      /\ batch' \in {Tail(batch), <<>>} /\ (broken => broken')
      /\ broken' \/ batch' = Tail(batch)
  BY <1>1, Acknowledged DEF CommandTypeOK, At
<1>4. CommandTypeOK'
  BY <1>1, <1>2, <1>3 DEF CommandTypeOK, Unheard, storeVars
<1>5. FlowShape' /\ HistoryShape'
  BY <1>1, <1>2, <1>3 DEF FlowShape, HistoryShape, Unheard, PairState, FlowStarted, Arms
<1>6. WorkerShape' /\ GroupShape'
  BY <1>1, <1>2 DEF WorkerShape, GroupShape, At, storeVars, Unheard
<1>7. RowShape'
  BY <1>1 DEF RowShape, storeVars
<1>8. StopShape'
  <2>1. LastIs(batch, "stop") => IF Tail(batch) = <<>> THEN Head(batch) = "stop"
                                 ELSE LastIs(Tail(batch), "stop")
    BY <1>3, TailLast
  <2>2. LastIs(batch, "stop") => broken' \/ LastIs(batch', "stop")
    BY <1>1, <1>3, <2>1 DEF At
  <2> QED  BY <1>1, <1>3, <2>2 DEF StopShape, storeVars, At
<1>9. KeyShape' /\ PairedShape'
  BY <1>1, <1>2, <1>3, TailLast, MachineKeeps DEF Pending, Unbegun, storeVars
<1> QED  BY <1>4, <1>5, <1>6, <1>7, <1>8, <1>9

\* stop() for a command: the state is `idle`, and a disconnect that ended with it is over.
LEMMA StopKeeps ==
    ASSUME CommandInv, Stop
    PROVE  CommandInv'
<1> USE DEF CommandInv, Stop, MayGo
<1>1. /\ mode' = mode /\ restore' = restore
      /\ stray' = FALSE /\ boot' = boot /\ ~boot
      /\ storeVars' = storeVars /\ req' = req
      /\ mode # "down" /\ mode # "draining" /\ group /\ state # "absent"
  BY DEF React, FlowShape, FlowDispose, FlowStop, WorkerShape, GroupShape, At, Alive
<1>2. \/ Unheard /\ cmd' = "stop" /\ cmd = "none" /\ InHand /\ armed' = armed
      \/ Heard /\ state' = "idle" /\ cmd' = "none" /\ Acknowledge /\ armed' = FALSE
  <2>1. CASE FlowDispose("stop") /\ InHand
    BY <1>1, <2>1, StayUnheard DEF FlowDispose, Arms, FlowShape
  <2>2. CASE FlowStop /\ Acknowledge
    BY <1>1, <2>2, ChangeHeard DEF FlowStop, PairState, Arms
  <2> QED  BY <2>1, <2>2
<1>3. /\ batch \in Seq(Commands) /\ batch # <<>> /\ batch' \in Seq(Commands)
      /\ deaf' \in BOOLEAN /\ broken' \in BOOLEAN
      /\ broken => broken'
      /\ InHand \/ (batch' \in {Tail(batch), <<>>} /\ (broken' \/ batch' = Tail(batch)))
  BY <1>2, Acknowledged DEF CommandTypeOK, HistoryShape, At, InHand
<1>4. CommandTypeOK'
  BY <1>1, <1>2, <1>3 DEF CommandTypeOK, Heard, Unheard, storeVars
<1>5. FlowShape' /\ HistoryShape'
  BY <1>1, <1>2, <1>3 DEF FlowShape, HistoryShape, Heard, Unheard, PairState
<1>6. WorkerShape' /\ GroupShape'
  BY <1>1, <1>2 DEF WorkerShape, GroupShape, At, storeVars, Unheard, InHand
<1>7. RowShape'
  BY <1>1 DEF RowShape, storeVars
<1>8. StopShape'
  BY <1>1, <1>2, <1>3, TailLast DEF StopShape, storeVars, Over, InHand
<1>9. KeyShape' /\ PairedShape'
  BY <1>1, <1>2, MachineKeeps DEF Pending, Unbegun, storeVars, InHand
<1> QED  BY <1>4, <1>5, <1>6, <1>7, <1>8, <1>9

\* stop() at the end of the process has no command.
LEMMA StopActiveKeeps ==
    ASSUME CommandInv, StopActive
    PROVE  CommandInv'
<1> USE DEF CommandInv, StopActive, MayGo
<1>1. /\ mode' = mode /\ mode = "draining" /\ restore' = restore
      /\ stray' = FALSE /\ boot' = boot /\ ~boot
      /\ storeVars' = storeVars /\ req' = req /\ broken' = broken /\ deaf' = deaf
      /\ batch' = batch /\ batch = <<>> /\ group /\ state # "absent"
  BY DEF InHand, React, FlowShape, FlowDispose, FlowStop, WorkerShape, GroupShape
<1>2. \/ Unheard /\ cmd' = "stop" /\ cmd = "none" /\ armed' = armed
      \/ Heard /\ state' = "idle" /\ cmd' = "none" /\ armed' = FALSE
  <2>1. CASE FlowDispose("stop")
    BY <1>1, <2>1, StayUnheard DEF FlowDispose, Arms, FlowShape
  <2>2. CASE FlowStop
    BY <1>1, <2>2, ChangeHeard DEF FlowStop, PairState, Arms
  <2> QED  BY <2>1, <2>2
<1>3. CommandTypeOK'
  BY <1>1, <1>2 DEF CommandTypeOK, Heard, Unheard, storeVars
<1>4. FlowShape' /\ HistoryShape'
  BY <1>1, <1>2 DEF FlowShape, HistoryShape, Heard, Unheard, PairState
<1>5. WorkerShape' /\ GroupShape'
  BY <1>1, <1>2 DEF WorkerShape, GroupShape, At, storeVars, Unheard
<1>6. RowShape'
  BY <1>1 DEF RowShape, storeVars
<1>7. StopShape'
  BY <1>1, <1>2 DEF StopShape, storeVars, Over, Unheard
<1>8. KeyShape' /\ PairedShape'
  BY <1>1, <1>2, MachineKeeps DEF Pending, Unbegun, storeVars, Alive
<1> QED  BY <1>3, <1>4, <1>5, <1>6, <1>7, <1>8

-----------------------------------------------------------------------------
(* Boot and restore.                                                       *)

\* A restored entry is idle and silent until its socket is there.
LEMMA RestoreKeeps ==
    ASSUME CommandInv, Restore
    PROVE  CommandInv'
<1> USE DEF CommandInv, Restore, writeVars, storeVars, historyVars
<1>1. boot /\ boot' /\ state' = "idle" /\ cmd' = cmd /\ armed' = TRUE /\ stray' = FALSE
      /\ status # "none" /\ group
  BY DEF FlowResume, WorkerShape, GroupShape, FlowShape, Arms
<1>2. CommandTypeOK'
  BY DEF CommandTypeOK
<1>3. FlowShape' /\ HistoryShape'
  BY <1>1 DEF FlowShape, HistoryShape, PairState
<1>4. WorkerShape' /\ GroupShape' /\ RowShape' /\ StopShape'
  BY <1>1 DEF WorkerShape, GroupShape, RowShape, StopShape, Over
<1>5. KeyShape' /\ PairedShape'
  BY <1>1 DEF KeyShape, PairedShape
<1> QED  BY <1>2, <1>3, <1>4, <1>5

\* The restored session is announced as paired.
LEMMA ResumedKeeps ==
    ASSUME CommandInv, Resumed
    PROVE  CommandInv'
<1> USE DEF CommandInv, Resumed, MayGo, workerVars
<1>1. /\ boot /\ boot' = boot /\ state' = "paired" /\ cmd' = cmd /\ armed' = TRUE /\ stray' = FALSE
      /\ storeVars' = storeVars /\ req' = req /\ broken' = broken
      /\ status # "none" /\ group /\ cmd = "none" /\ mode # "down" /\ restore # "missing"
  BY DEF FlowResumed, Changes, WorkerShape, GroupShape, RowShape, FlowShape, Arms, React, Alive
<1>2. Heard
  BY ChangeHeard DEF FlowResumed, PairState
<1>3. CommandTypeOK'
  BY <1>1, <1>2 DEF CommandTypeOK, Heard, storeVars
<1>4. FlowShape' /\ HistoryShape'
  BY <1>1, <1>2 DEF FlowShape, HistoryShape, PairState, Heard
<1>5. WorkerShape' /\ GroupShape' /\ RowShape' /\ StopShape'
  BY <1>1 DEF WorkerShape, GroupShape, RowShape, StopShape, Over, storeVars
<1>6. KeyShape' /\ PairedShape'
  BY <1>1, <1>2, MachineKeeps
<1> QED  BY <1>3, <1>4, <1>5, <1>6

\* Only a user who never had a session loses what was in the stream.
LEMMA BootEndsKeeps ==
    ASSUME CommandInv, BootEnds
    PROVE  CommandInv'
<1> USE DEF CommandInv, BootEnds, workerVars, writeVars
<1>1. /\ boot /\ boot' = FALSE /\ state' = state /\ cmd' = cmd /\ stray' = FALSE /\ armed' = armed
      /\ group' = TRUE /\ (group => stream' = stream) /\ stream' \in {stream, <<>>}
      /\ mode # "down" /\ restore = "none" /\ state # "idle" /\ batch = <<>> /\ cmd = "none"
  BY DEF FlowBooted, Stays, Arms, FlowShape, WorkerShape, Alive
<1>2. CommandTypeOK'
  <2>1. <<>> \in Seq(Commands)
    BY EmptySeq
  <2> QED  BY <1>1, <2>1 DEF CommandTypeOK
<1>3. FlowShape' /\ HistoryShape'
  BY <1>1 DEF FlowShape, HistoryShape
<1>4. WorkerShape' /\ GroupShape'
  BY <1>1 DEF WorkerShape, GroupShape
<1>5. RowShape'
  BY <1>1 DEF RowShape
<1>6. StopShape'
  <2>1. CASE group
    BY <1>1, <2>1 DEF StopShape, Over, LastIs
  <2>2. CASE ~group
    BY <1>1, <2>2 DEF StopShape, Over, GroupShape, FlowShape
  <2> QED  BY <2>1, <2>2
<1>7. KeyShape' /\ PairedShape'
  <2>1. CASE group
    BY <1>1, <2>1 DEF KeyShape, PairedShape, Pending, Unbegun, Alive
  <2>2. CASE ~group
    BY <1>1, <2>2 DEF KeyShape, PairedShape, GroupShape
  <2> QED  BY <2>1, <2>2
<1> QED  BY <1>2, <1>3, <1>4, <1>5, <1>6, <1>7

-----------------------------------------------------------------------------
(* The invariant, and what it says of a session at rest.                   *)

\* Every step keeps the invariant.
LEMMA CommandInvariant == CommandSpec => []CommandInv
<1>1. CommandInit => CommandInv
  <2> SUFFICES ASSUME CommandInit PROVE CommandInv
    OBVIOUS
  <2>1. CommandTypeOK
    <3>1. \A S : <<>> \in Seq(S)
      BY EmptySeq
    <3> QED  BY <3>1 DEF CommandInit, CommandTypeOK, FlowInit
  <2>2. FlowShape /\ HistoryShape /\ WorkerShape /\ GroupShape
    BY DEF CommandInit, FlowInit, FlowShape, HistoryShape, WorkerShape, GroupShape
  <2>3. RowShape /\ StopShape /\ KeyShape /\ PairedShape
    BY DEF CommandInit, FlowInit, RowShape, StopShape, KeyShape, PairedShape
  <2> QED  BY <2>1, <2>2, <2>3 DEF CommandInv
<1>2. CommandInv /\ [CommandNext]_commandVars => CommandInv'
  <2> SUFFICES ASSUME CommandInv, [CommandNext]_commandVars PROVE CommandInv'
    OBVIOUS
  <2>1. CASE MachineEvent \/ Write
    BY <2>1, MachineEventKeeps, KeyLeavesKeeps, RowLandsKeeps, RowLostKeeps DEF Write, KeyLands, KeyLost
  <2>2. CASE Loop
    BY <2>2, ReadCommandsKeeps, ReadLostKeeps, StartKeeps, StartedKeeps, StopKeeps, StopAbsentKeeps DEF Loop
  <2>3. CASE Booting
    BY <2>3, BootKeeps, BootBlindKeeps, RestoreFailsKeeps, RestoreKeeps, ResumedKeeps, BootEndsKeeps DEF Booting
  <2>4. CASE Crash \/ Sigterm \/ Ending
    BY <2>4, GoneKeeps, SigtermKeeps, LoopEndsKeeps, StopActiveKeeps DEF Crash, Ending, Exit
  <2>5. CASE InitUpsert \/ StopDelete \/ Request \/ Abort
    BY <2>5, InitUpsertKeeps, StopDeleteKeeps, InitSendKeeps, StopSendKeeps, StopRowKeeps,
       AbortKeeps DEF Request
  <2>6. CASE UNCHANGED commandVars
    BY <2>6 DEF commandVars, flowVars, workerVars, writeVars, storeVars, historyVars,
       CommandInv, CommandTypeOK, FlowShape, HistoryShape, WorkerShape, GroupShape, RowShape,
       StopShape, KeyShape, PairedShape, At, Over, LastIs, Alive, Pending, Unbegun
  <2> QED  BY <2>1, <2>2, <2>3, <2>4, <2>5, <2>6 DEF CommandNext
<1> QED  BY <1>1, <1>2, PTL DEF CommandSpec

\* What the loop, the API, the restore pass and the stores have of a user is well-formed.
THEOREM CommandTypes == CommandSpec => []CommandTypeOK
<1>1. CommandInv => CommandTypeOK
  BY DEF CommandInv
<1> QED  BY <1>1, CommandInvariant, PTL

\* /pair/status tells the state of the machine (routes/pair.ts, onStateChange and
\* onError of worker/src/index.ts), however many commands, crashes and restarts went
\* before: with nothing under way, the last value written is the state, unless Redis
\* refused it, or the last request fell apart or lost its command.
THEOREM StatusIsTrue == CommandSpec => []StatusTrue
<1>1. CommandInv => StatusTrue
  BY DEF CommandInv, StatusTrue, KeyShape, Quiet, Pending, Unbegun
<1> QED  BY <1>1, CommandInvariant, PTL

\* The row of a paired user, once everything is written, is the one that the restore
\* pass looks for (restore.ts), also when onPaired failed, unless two updates of it
\* overtook each other, the last was refused, or a request fell apart.
THEOREM PairedRowKept == CommandSpec => []PairedRowTrue
<1>1. CommandInv => PairedRowTrue
  BY DEF CommandInv, PairedRowTrue, PairedShape, Quiet, Written, Pending, Unbegun
<1> QED  BY <1>1, CommandInvariant, PTL
=============================================================================
