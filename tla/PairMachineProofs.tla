------------------------- MODULE PairMachineProofs -------------------------
(***************************************************************************)
(* Proofs about PairMachine, and about PairIngest on top of it, for every  *)
(* set of sockets.                                                         *)
(*                                                                         *)
(* What makes the pair machine right is not visible in one variable: that  *)
(* the entry's socket is the only connection rests on which factory call   *)
(* may be in flight in which state, and on what the command being awaited  *)
(* holds.  PairInv says so; every part of it is needed to carry the others *)
(* over some step.                                                         *)
(***************************************************************************)
EXTENDS PairIngest, TLAPS

\* What the awaited command holds: start() its one factory call (and no timer yet),
\* a command that awaits dispose() a socket that can no longer open.  The entry
\* never refers to a factory call that has not resolved.
CommandShape ==
    /\ \A s \in Sockets : conn[s] = "starting" => cmd = "start"
    /\ cmd \in {"start", "stop"} => ~timer
    /\ \A s, t \in Sockets : conn[s] = "starting" /\ conn[t] = "starting" => s = t
    /\ cmd \in {"startDispose", "stop"} =>
           held \in Sockets /\ conn[held] \in {"disposing", "closed"}
    /\ \A s \in Sockets : conn[s] \in Opening => s # socket

\* While the restore pass runs there is no pair flow.
BootShape ==
    /\ boot => /\ cmd = "none" /\ state \notin MidPair /\ ~timer /\ ~raced
               /\ \A s \in Sockets : conn[s] \notin {"reopening", "disposing"}
    /\ \A s \in Sockets : conn[s] = "resuming" => boot
    /\ \A s, t \in Sockets : conn[s] = "resuming" /\ conn[t] = "resuming" => s = t

\* A factory call in flight is the entry's next socket: the entry has none, and
\* its state is one the call belongs to.
OpeningShape ==
    \A s \in Sockets :
        /\ conn[s] = "reopening" =>
               /\ socket = NoSocket /\ state \in MidPair /\ cmd = "none"
               /\ \A t \in Sockets : conn[t] = "reopening" => s = t
        /\ conn[s] = "starting" => socket = NoSocket /\ state \in MidPair \cup {"error"}
        /\ conn[s] = "resuming" => socket = NoSocket /\ state \in {"idle", "error"}

BootLiveShape == \A s \in Sockets : boot /\ conn[s] \in Live => state = "paired"

\* The entry of an awaited command refers at most to the socket it disposes of.
HeldShape ==
    /\ cmd \in {"startDispose", "stop"} => socket \in {held, NoSocket}
    /\ cmd = "start" => socket = NoSocket

EndedShape == state \in {"idle", "expired"} => socket = NoSocket /\ ~timer

\* Without an entry there is no socket, no factory call, no command and no QR.
AbsentShape ==
    state = "absent" => /\ socket = NoSocket /\ ~timer /\ cmd = "none" /\ qrs = 0
                        /\ \A s \in Sockets : conn[s] = "closed"

PairInv ==
    /\ TypeOK
    /\ AbsentShape
    /\ MidPairTimed
    /\ CommandShape
    /\ BootShape
    /\ ~raced => OpeningShape /\ BootLiveShape /\ HeldShape /\ EndedShape
    /\ NoLeakedSocket
    /\ PairedSocketAnnounced

LEMMA WatchType == Watch => raced' \in BOOLEAN
  BY Zenon DEF Watch

LEMMA CallbackSeqs ==
    /\ <<>> \in Seq(Callback)
    /\ <<"onStateChange">> \in Seq(Callback)
    /\ <<"onQr">> \in Seq(Callback)
    /\ <<"onCredsUpdate">> \in Seq(Callback)
    /\ <<"onStateChange", "onQr">> \in Seq(Callback)
    /\ <<"onStateChange", "onError">> \in Seq(Callback)
    /\ <<"onStateChange", "onSocketReady">> \in Seq(Callback)
    /\ <<"onStateChange", "onSocketReady", "onPaired">> \in Seq(Callback)
  BY DEF Callback

\* dispose() changes the life of the disposed socket only, and ends it.
LEMMA DisposedFacts ==
    ASSUME TypeOK
    PROVE  /\ Disposed(socket) \in
                  [Sockets -> Opening \cup Live \cup {"disposing", "closed"}]
           /\ \A s \in Sockets :
                 /\ Disposed(socket)[s] # conn[s] =>
                        s = socket /\ Disposed(socket)[s] = "disposing"
                 /\ s = socket => Disposed(socket)[s] \notin Live
                 /\ conn[s] \notin Live => Disposed(socket)[s] = conn[s]
  BY SocketAssumption DEF Disposed, TypeOK, Live, Opening

\* Every step keeps the variables in their types.
LEMMA TypeStep ==
    ASSUME TypeOK, [Next]_vars
    PROVE  TypeOK'
<1> USE SocketAssumption, BoundAssumption, WatchType, CallbackSeqs
    DEF TypeOK, PairState, MidPair, Opening, Live, machineVars, socketVars, cmdVars
<1>1. ASSUME NEW s \in Sockets, Resume(s) PROVE TypeOK'
  BY <1>1 DEF Resume, Free, Having, Forgets
<1>2. ASSUME NEW s \in Sockets, StartFresh(s) PROVE TypeOK'
  BY <1>2 DEF StartFresh, Forgets
<1>3. ASSUME NEW s \in Sockets, ResumeOpened(s) PROVE TypeOK'
  BY <1>3 DEF ResumeOpened
<1>4. ASSUME NEW s \in Sockets, ResumeFailed(s) PROVE TypeOK'
  BY <1>4 DEF ResumeFailed, Fails
<1>5. ASSUME NEW s \in Sockets, StartOpened(s) PROVE TypeOK'
  BY <1>5 DEF StartOpened
<1>6. ASSUME NEW s \in Sockets, StartFailed(s) PROVE TypeOK'
  BY <1>6 DEF StartFailed, Fails
<1>7. ASSUME NEW s \in Sockets, ReopenOpened(s) PROVE TypeOK'
  BY <1>7 DEF ReopenOpened
<1>8. ASSUME NEW s \in Sockets, ReopenFailed(s) PROVE TypeOK'
  BY <1>8 DEF ReopenFailed, Fails
<1>9. ASSUME NEW s \in Sockets, DisposeEnd(s) PROVE TypeOK'
  BY <1>9 DEF DisposeEnd, CloseIgnored, CloseFails, Fails
<1>10. ASSUME NEW s \in Sockets, Qr(s) PROVE TypeOK'
  BY <1>10 DEF Qr
<1>11. ASSUME NEW s \in Sockets, CredsUpdate(s) PROVE TypeOK'
  BY <1>11 DEF CredsUpdate
<1>12. ASSUME NEW s \in Sockets, Open(s) PROVE TypeOK'
  BY <1>12 DEF Open
<1>13. ASSUME NEW s \in Sockets, Close(s) PROVE TypeOK'
  BY <1>13 DEF Close, CloseIgnored, CloseFails, Fails
<1>14. ASSUME NEW s \in Sockets, Close515(s) PROVE TypeOK'
  BY <1>14 DEF Close515, CloseIgnored, CloseFails, CloseRestarts, Fails, Free, Disposed, Forgets
<1>15. CASE BootDone
  BY <1>15 DEF BootDone, Having
<1>16. CASE StartDispose
  BY <1>16 DEF StartDispose, Disposed
<1>17. CASE StopDispose
  BY <1>17 DEF StopDispose, Disposed
<1>18. CASE StopIdle
  BY <1>18 DEF StopIdle
<1>19. CASE QrEncoded
  <2>1. qrs' \in 0..MaxQr
    BY <1>19 DEF QrEncoded
  <2> QED
    BY <1>19, <2>1 DEF QrEncoded
<1>20. CASE QrEncodeFailed
  BY <1>20 DEF QrEncodeFailed
<1>21. CASE Expire
  BY <1>21 DEF Expire, Disposed
<1>22. CASE ExpireTooLate
  BY <1>22 DEF ExpireTooLate
<1>23. CASE UNCHANGED vars
  BY <1>23 DEF vars
<1> QED
  BY <1>1, <1>2, <1>3, <1>4, <1>5, <1>6, <1>7, <1>8, <1>9, <1>10,
     <1>11, <1>12, <1>13, <1>14, <1>15, <1>16, <1>17, <1>18, <1>19,
     <1>20, <1>21, <1>22, <1>23
  DEF Next, Command, Continue, SocketEvent

\* Every step keeps the inductive invariant.
LEMMA InvStep ==
    ASSUME PairInv, [Next]_vars
    PROVE  PairInv'
<1> USE SocketAssumption, TypeStep
    DEF PairInv, MidPairTimed, CommandShape, BootShape, OpeningShape, BootLiveShape, HeldShape,
        EndedShape, AbsentShape, NoLeakedSocket, PairedSocketAnnounced, MidPair, Opening, Live,
        machineVars, socketVars, cmdVars, Watch, ReopenOutlivesFlow, TypeOK
<1>1. ASSUME NEW s \in Sockets, Resume(s) PROVE PairInv'
  <2>0. \A t \in Sockets : conn'[t] = IF t = s THEN "resuming" ELSE conn[t]
    BY <1>1 DEF Resume
  <2>11. (TypeOK)'
    BY <1>1, <2>0 DEF Resume, Free, Having, Forgets
  <2>12. (MidPairTimed)'
    BY <1>1, <2>0 DEF Resume, Free, Having, Forgets
  <2>13. (CommandShape)'
    BY <1>1, <2>0 DEF Resume, Free, Having, Forgets
  <2>14. (BootShape)'
    BY <1>1, <2>0 DEF Resume, Free, Having, Forgets
  <2>15. (~raced => OpeningShape /\ BootLiveShape)'
    BY <1>1, <2>0 DEF Resume, Free, Having, Forgets
  <2>16. (~raced => HeldShape)'
    BY <1>1, <2>0 DEF Resume, Free, Having, Forgets
  <2>17. (~raced => EndedShape)'
    BY <1>1, <2>0 DEF Resume, Free, Having, Forgets
  <2>18. (NoLeakedSocket)'
    BY <1>1, <2>0 DEF Resume, Free, Having, Forgets
  <2>19. (PairedSocketAnnounced)'
    BY <1>1, <2>0 DEF Resume, Free, Having, Forgets
  <2>21. AbsentShape'
    BY <1>1, <2>0 DEF Resume, Free, Having, Forgets
  <2> QED
    BY <2>11, <2>12, <2>13, <2>14, <2>15, <2>16, <2>17, <2>18, <2>19, <2>21
<1>2. ASSUME NEW s \in Sockets, StartFresh(s) PROVE PairInv'
  BY <1>2 DEF StartFresh, Forgets
<1>3. ASSUME NEW s \in Sockets, ResumeOpened(s) PROVE PairInv'
  BY <1>3 DEF ResumeOpened
<1>4. ASSUME NEW s \in Sockets, ResumeFailed(s) PROVE PairInv'
  BY <1>4 DEF ResumeFailed, Fails
<1>5. ASSUME NEW s \in Sockets, StartOpened(s) PROVE PairInv'
  BY <1>5 DEF StartOpened
<1>6. ASSUME NEW s \in Sockets, StartFailed(s) PROVE PairInv'
  BY <1>6 DEF StartFailed, Fails
<1>7. ASSUME NEW s \in Sockets, ReopenOpened(s) PROVE PairInv'
  BY <1>7 DEF ReopenOpened
<1>8. ASSUME NEW s \in Sockets, ReopenFailed(s) PROVE PairInv'
  BY <1>8 DEF ReopenFailed, Fails
<1>9. ASSUME NEW s \in Sockets, DisposeEnd(s) PROVE PairInv'
  BY <1>9 DEF DisposeEnd, CloseIgnored, CloseFails, Fails
<1>10. ASSUME NEW s \in Sockets, Qr(s) PROVE PairInv'
  BY <1>10 DEF Qr
<1>11. ASSUME NEW s \in Sockets, CredsUpdate(s) PROVE PairInv'
  BY <1>11 DEF CredsUpdate
<1>12. ASSUME NEW s \in Sockets, Open(s) PROVE PairInv'
  BY <1>12 DEF Open
<1>13. ASSUME NEW s \in Sockets, Close(s) PROVE PairInv'
  BY <1>13 DEF Close, CloseIgnored, CloseFails, Fails
<1>14. ASSUME NEW s \in Sockets, Close515(s) PROVE PairInv'
  <2>1. CASE CloseIgnored(s)
    BY <1>14, <2>1 DEF Close515, CloseIgnored
  <2>2. CASE CloseFails(s)
    BY <1>14, <2>2 DEF Close515, CloseFails, Fails
  <2>3. ASSUME NEW r \in Sockets, CloseRestarts(s, r) PROVE PairInv'
    <3>1. r # socket /\ r # s /\ r # held /\ conn[r] = "closed"
      BY <1>14, <2>3 DEF Close515, CloseRestarts, Free
    <3>2. \A t \in Sockets : conn'[t] = IF t = r THEN "reopening"
                                        ELSE IF t = s THEN "closed"
                                        ELSE Disposed(socket)[t]
      BY <2>3, <3>1, DisposedFacts DEF CloseRestarts
    <3>11. (TypeOK)'
      BY <1>14, <2>3, <3>1, <3>2, DisposedFacts DEF Close515, CloseRestarts, Forgets
    <3>12. (MidPairTimed)'
      BY <1>14, <2>3, <3>1, <3>2, DisposedFacts DEF Close515, CloseRestarts, Forgets
    <3>13. (CommandShape)'
      BY <1>14, <2>3, <3>1, <3>2, DisposedFacts DEF Close515, CloseRestarts, Forgets
    <3>14. (BootShape)'
      BY <1>14, <2>3, <3>1, <3>2, DisposedFacts DEF Close515, CloseRestarts, Forgets
    <3>20. ~raced' => ~raced /\ s = socket /\ cmd = "none"
      BY <1>14, <2>3, <3>1, <3>2 DEF Close515, CloseRestarts
    <3>15. (~raced => OpeningShape /\ BootLiveShape)'
      BY <1>14, <2>3, <3>1, <3>2, <3>20, DisposedFacts DEF Close515, CloseRestarts, Forgets
    <3>16. (~raced => HeldShape)'
      BY <1>14, <2>3, <3>1, <3>2, DisposedFacts DEF Close515, CloseRestarts, Forgets
    <3>17. (~raced => EndedShape)'
      BY <1>14, <2>3, <3>1, <3>2, DisposedFacts DEF Close515, CloseRestarts, Forgets
    <3>18. (NoLeakedSocket)'
      BY <1>14, <2>3, <3>1, <3>2, DisposedFacts DEF Close515, CloseRestarts, Forgets
    <3>19. (PairedSocketAnnounced)'
      BY <1>14, <2>3, <3>1, <3>2, DisposedFacts DEF Close515, CloseRestarts, Forgets
    <3>21. AbsentShape'
      BY <1>14, <2>3, <3>1, <3>2, DisposedFacts DEF Close515, CloseRestarts, Forgets
    <3> QED
      BY <3>11, <3>12, <3>13, <3>14, <3>15, <3>16, <3>17, <3>18, <3>19, <3>21
  <2> QED
    BY <1>14, <2>1, <2>2, <2>3 DEF Close515
<1>15. CASE BootDone
  BY <1>15 DEF BootDone, Having
<1>16. CASE StartDispose
  <2>11. (TypeOK)'
    BY <1>16, DisposedFacts DEF StartDispose
  <2>12. (MidPairTimed)'
    BY <1>16, DisposedFacts DEF StartDispose
  <2>13. (CommandShape)'
    BY <1>16, DisposedFacts DEF StartDispose
  <2>14. (BootShape)'
    BY <1>16, DisposedFacts DEF StartDispose
  <2>15. (~raced => OpeningShape /\ BootLiveShape)'
    BY <1>16, DisposedFacts DEF StartDispose
  <2>16. (~raced => HeldShape)'
    BY <1>16, DisposedFacts DEF StartDispose
  <2>17. (~raced => EndedShape)'
    BY <1>16, DisposedFacts DEF StartDispose
  <2>18. (NoLeakedSocket)'
    BY <1>16, DisposedFacts DEF StartDispose
  <2>19. (PairedSocketAnnounced)'
    BY <1>16, DisposedFacts DEF StartDispose
  <2>21. AbsentShape'
    BY <1>16, DisposedFacts DEF StartDispose
  <2> QED
    BY <2>11, <2>12, <2>13, <2>14, <2>15, <2>16, <2>17, <2>18, <2>19, <2>21
<1>17. CASE StopDispose
  <2>11. (TypeOK)'
    BY <1>17, DisposedFacts DEF StopDispose
  <2>12. (MidPairTimed)'
    BY <1>17, DisposedFacts DEF StopDispose
  <2>13. (CommandShape)'
    BY <1>17, DisposedFacts DEF StopDispose
  <2>14. (BootShape)'
    BY <1>17, DisposedFacts DEF StopDispose
  <2>15. (~raced => OpeningShape /\ BootLiveShape)'
    BY <1>17, DisposedFacts DEF StopDispose
  <2>16. (~raced => HeldShape)'
    BY <1>17, DisposedFacts DEF StopDispose
  <2>17. (~raced => EndedShape)'
    BY <1>17, DisposedFacts DEF StopDispose
  <2>18. (NoLeakedSocket)'
    BY <1>17, DisposedFacts DEF StopDispose
  <2>19. (PairedSocketAnnounced)'
    BY <1>17, DisposedFacts DEF StopDispose
  <2>21. AbsentShape'
    BY <1>17, DisposedFacts DEF StopDispose
  <2> QED
    BY <2>11, <2>12, <2>13, <2>14, <2>15, <2>16, <2>17, <2>18, <2>19, <2>21
<1>18. CASE StopIdle
  BY <1>18 DEF StopIdle
<1>19. CASE QrEncoded
  BY <1>19 DEF QrEncoded
<1>20. CASE QrEncodeFailed
  BY <1>20 DEF QrEncodeFailed
<1>21. CASE Expire
  <2>11. (TypeOK)'
    BY <1>21, DisposedFacts DEF Expire
  <2>12. (MidPairTimed)'
    BY <1>21, DisposedFacts DEF Expire
  <2>13. (CommandShape)'
    BY <1>21, DisposedFacts DEF Expire
  <2>14. (BootShape)'
    BY <1>21, DisposedFacts DEF Expire
  <2>15. (~raced => OpeningShape /\ BootLiveShape)'
    BY <1>21, DisposedFacts DEF Expire
  <2>16. (~raced => HeldShape)'
    BY <1>21, DisposedFacts DEF Expire
  <2>17. (~raced => EndedShape)'
    BY <1>21, DisposedFacts DEF Expire
  <2>18. (NoLeakedSocket)'
    BY <1>21, DisposedFacts DEF Expire
  <2>19. (PairedSocketAnnounced)'
    BY <1>21, DisposedFacts DEF Expire
  <2>21. AbsentShape'
    BY <1>21, DisposedFacts DEF Expire
  <2> QED
    BY <2>11, <2>12, <2>13, <2>14, <2>15, <2>16, <2>17, <2>18, <2>19, <2>21
<1>22. CASE ExpireTooLate
  BY <1>22 DEF ExpireTooLate
<1>23. CASE UNCHANGED vars
  BY <1>23 DEF vars
<1> QED
  BY <1>1, <1>2, <1>3, <1>4, <1>5, <1>6, <1>7, <1>8, <1>9, <1>10,
     <1>11, <1>12, <1>13, <1>14, <1>15, <1>16, <1>17, <1>18, <1>19,
     <1>20, <1>21, <1>22, <1>23
  DEF Next, Command, Continue, SocketEvent

LEMMA InitInv == Init => PairInv
<1> SUFFICES ASSUME Init PROVE PairInv
  OBVIOUS
<1>1. qrs \in 0..MaxQr
  BY BoundAssumption DEF Init
<1>2. TypeOK
  BY <1>1, CallbackSeqs DEF Init, TypeOK
<1> QED
  BY <1>2, SocketAssumption, BoundAssumption, CallbackSeqs
  DEF Init, PairInv, MidPairTimed, CommandShape, BootShape, OpeningShape,
      BootLiveShape, HeldShape, EndedShape, AbsentShape, NoLeakedSocket,
      PairedSocketAnnounced, PairState,
      MidPair, Opening, Live

\* The inductive invariant holds in every reachable state.
THEOREM PairInvariant == Spec => []PairInv
<1>1. PairInv /\ [Next]_vars => PairInv'
  BY InvStep
<1> QED
  BY <1>1, InitInv, PTL DEF Spec

\* The variables keep their types in every reachable state.
THEOREM PairTypes == Spec => []TypeOK
<1>1. PairInv => TypeOK
  BY DEF PairInv
<1> QED
  BY <1>1, PairInvariant, PTL

\* A pair flow never loses its expiry timer (state.ts keeps it across QR
\* rotations and 515 restarts).
THEOREM TimerKept == Spec => []MidPairTimed
<1>1. PairInv => MidPairTimed
  BY DEF PairInv
<1> QED
  BY <1>1, PairInvariant, PTL

\* No handler leaks a WhatsApp connection unless a 515 reopen outlives its flow.
THEOREM ConnectionsOwned == Spec => []NoLeakedSocket
<1>1. PairInv => NoLeakedSocket
  BY DEF PairInv
<1> QED
  BY <1>1, PairInvariant, PTL

\* The socket of a paired entry is the one the ingest was told of.
THEOREM ReadySocketCurrent == Spec => []PairedSocketAnnounced
<1>1. PairInv => PairedSocketAnnounced
  BY DEF PairInv
<1> QED
  BY <1>1, PairInvariant, PTL

\* A stopped or expired flow leaves nothing behind that could revive it.
THEOREM EndedQuiet == Spec => []EndedFlowIsQuiet
<1>1. PairInv => EndedFlowIsQuiet
  <2> SUFFICES ASSUME PairInv, ~raced, ~boot, cmd = "none",
                      state \in {"idle", "expired"}
               PROVE  ~timer /\ socket = NoSocket /\ Having(Live \cup Opening) = {}
    BY DEF EndedFlowIsQuiet
  <2>1. ~timer /\ socket = NoSocket
    BY DEF PairInv, EndedShape
  <2>2. \A s \in Sockets : conn[s] \notin Live
    BY <2>1, SocketAssumption DEF PairInv, NoLeakedSocket
  <2>3. \A s \in Sockets : conn[s] \notin Opening
    BY DEF PairInv, CommandShape, BootShape, OpeningShape, Opening, MidPair
  <2> QED
    BY <2>1, <2>2, <2>3 DEF Having
<1> QED
  BY <1>1, PairInvariant, PTL

\* Only a command takes a paired user out of `paired`.
THEOREM PairedStable == Spec => PairedLeavesByCommand
<1>1. ASSUME PairInv, [Next]_vars, state = "paired", ~raced
      PROVE  state' \in {"paired", "generating", "idle"}
  <2>1. \A s \in Sockets : conn[s] \notin Opening
    BY <1>1 DEF PairInv, OpeningShape, MidPair, Opening
  <2> USE <1>1, <2>1 DEF MidPair, Opening, machineVars
  <2>2. ASSUME NEW s \in Sockets, Continue(s) PROVE state' = "paired"
    BY <2>2 DEF Continue, ResumeOpened, ResumeFailed, StartOpened, StartFailed,
                ReopenOpened, ReopenFailed, DisposeEnd, CloseIgnored, CloseFails
  <2>3. ASSUME NEW s \in Sockets, SocketEvent(s) PROVE state' = "paired"
    BY <2>3 DEF SocketEvent, Qr, CredsUpdate, Open, Close, Close515,
                CloseIgnored, CloseFails, CloseRestarts
  <2>4. CASE Command
    BY <2>4 DEF Command, Resume, StartFresh, BootDone, StartDispose, StopDispose,
                StopIdle
  <2>5. CASE QrEncoded \/ QrEncodeFailed \/ Expire \/ ExpireTooLate
    BY <2>5 DEF QrEncoded, QrEncodeFailed, Expire, ExpireTooLate
  <2>6. CASE UNCHANGED vars
    BY <2>6 DEF vars
  <2> QED
    BY <2>2, <2>3, <2>4, <2>5, <2>6 DEF Next
<1>2. PairInv /\ [Next]_vars
        => [state = "paired" /\ ~raced => state' \in {"paired", "generating", "idle"}]_vars
  BY <1>1
<1> QED
  BY <1>2, PairInvariant, PTL DEF Spec, PairedLeavesByCommand

\* A change of `conn` at one socket, from one life outside Opening to another, neither
\* arms nor disarms the flow.
LEMMA ArmedKept ==
    ASSUME UNCHANGED socket,
           \A s \in Sockets : conn'[s] \in Opening <=> conn[s] \in Opening
    PROVE  Flow!Arms(socket # NoSocket \/ Having(Opening) # {})
  BY DEF Having, Flow!Arms

\* A flow with a socket, or with a factory call in flight, is armed.
LEMMA ArmedNow ==
    ASSUME socket' # NoSocket \/ \E s \in Sockets : conn'[s] \in Opening
    PROVE  Flow!Arms(TRUE)
  BY DEF Having, Flow!Arms

\* A flow with neither is not.
LEMMA Disarmed ==
    ASSUME (socket' = NoSocket /\ \A s \in Sockets : conn'[s] \notin Opening) \/ raced'
    PROVE  Flow!Arms(FALSE)
  BY DEF Having, Flow!Arms

\* The callbacks a change of state is told with, written out.
LEMMA ChangeCalls ==
    ASSUME NEW t
    PROVE  /\ Flow!Changes(t, <<>>) <=> state' = t /\ out' = <<"onStateChange">>
           /\ Flow!Changes(t, <<"onQr">>) <=> state' = t /\ out' = <<"onStateChange", "onQr">>
           /\ Flow!Changes(t, <<"onError">>)
                <=> state' = t /\ out' = <<"onStateChange", "onError">>
           /\ Flow!Changes(t, <<"onSocketReady">>)
                <=> state' = t /\ out' = <<"onStateChange", "onSocketReady">>
           /\ Flow!Changes(t, <<"onSocketReady", "onPaired">>)
                <=> state' = t /\ out' = <<"onStateChange", "onSocketReady", "onPaired">>
  BY DEF Flow!Changes

\* Every step of the machine is a step of the flow, or one it does not hear of.
LEMMA FlowStep ==
    ASSUME PairInv, [Next]_vars
    PROVE  [Flow!FlowNext]_(Flow!flowVars)
<1> USE SocketAssumption, ChangeCalls
    DEF Flow!MidPair, Flow!Stays, PairInv, TypeOK, MidPair, Opening, Live,
        machineVars, socketVars, cmdVars, Fails
<1> SUFFICES ASSUME Next PROVE Flow!FlowNext
  BY Zenon DEF vars, Flow!flowVars, Having
<1>a. (socket # NoSocket \/ Having(Opening) # {})' \in BOOLEAN
  OBVIOUS
<1>b. raced => raced'
  BY DEF Next, Command, Continue, SocketEvent, Resume, StartFresh, ResumeOpened, ResumeFailed,
         StartOpened, StartFailed, ReopenOpened, ReopenFailed, DisposeEnd, Qr, CredsUpdate,
         Open, Close, Close515, BootDone, StartDispose, StopDispose, StopIdle,
         QrEncoded, QrEncodeFailed, Expire, ExpireTooLate, Watch

<1>1. ASSUME NEW s \in Sockets, Resume(s) PROVE Flow!FlowNext
  <2> USE <1>1 DEF Resume
  <2>1. Flow!Arms(TRUE)
    BY ArmedNow DEF Free
  <2>2. Flow!FlowResume
    BY <2>1 DEF Flow!FlowResume
  <2> QED
    BY <1>a, <1>b, <2>2 DEF Flow!FlowNext, Flow!FlowCommand, Flow!FlowEvent
<1>2. ASSUME NEW s \in Sockets, StartFresh(s) PROVE Flow!FlowNext
  <2> USE <1>2 DEF StartFresh
  <2>1. Flow!Arms(TRUE)
    BY ArmedNow
  <2>2. Flow!FlowStart
    BY <2>1 DEF Flow!FlowStart, BootShape
  <2> QED
    BY <1>a, <1>b, <2>2 DEF Flow!FlowNext, Flow!FlowCommand, Flow!FlowEvent
<1>3. ASSUME NEW s \in Sockets, ResumeOpened(s) PROVE Flow!FlowNext
  <2> USE <1>3 DEF ResumeOpened
  <2>1. Flow!Arms(TRUE)
    BY ArmedNow
  <2>2. Flow!FlowResumed
    BY <2>1 DEF Flow!FlowResumed, BootShape, OpeningShape
  <2> QED
    BY <1>a, <1>b, <2>2 DEF Flow!FlowNext, Flow!FlowCommand, Flow!FlowEvent
<1>4. ASSUME NEW s \in Sockets, ResumeFailed(s) PROVE Flow!FlowNext
  <2> USE <1>4 DEF ResumeFailed
  <2>1. Flow!Arms(FALSE)
    BY Disarmed DEF BootShape, OpeningShape, CommandShape
  <2>2. Flow!FlowFail
    BY <2>1 DEF Flow!FlowFail, BootShape, OpeningShape
  <2> QED
    BY <1>a, <1>b, <2>2 DEF Flow!FlowNext, Flow!FlowCommand, Flow!FlowEvent
<1>5. ASSUME NEW s \in Sockets, StartOpened(s) PROVE Flow!FlowNext
  <2> USE <1>5 DEF StartOpened
  <2>1. Flow!Arms(TRUE)
    BY ArmedNow
  <2>2. Flow!FlowStarted
    BY <2>1 DEF Flow!FlowStarted, CommandShape
  <2> QED
    BY <1>a, <1>b, <2>2 DEF Flow!FlowNext, Flow!FlowCommand, Flow!FlowEvent
<1>6. ASSUME NEW s \in Sockets, StartFailed(s) PROVE Flow!FlowNext
  <2> USE <1>6 DEF StartFailed
  <2>1. Flow!Arms(FALSE)
    BY Disarmed DEF CommandShape, BootShape, OpeningShape, Watch
  <2>2. Flow!FlowFail
    BY <2>1 DEF Flow!FlowFail, CommandShape, OpeningShape
  <2> QED
    BY <1>a, <1>b, <2>2 DEF Flow!FlowNext, Flow!FlowCommand, Flow!FlowEvent
<1>7. ASSUME NEW s \in Sockets, ReopenOpened(s) PROVE Flow!FlowNext
  <2> USE <1>7 DEF ReopenOpened
  <2>1. (socket # NoSocket \/ Having(Opening) # {}) /\ (socket' # NoSocket \/ Having(Opening)' # {})
    BY DEF Having
  <2>2. Flow!Arms(socket # NoSocket \/ Having(Opening) # {})
    BY <2>1 DEF Flow!Arms
  <2>3. Flow!FlowQuiet
    BY <2>1, <2>2 DEF Flow!FlowQuiet
  <2> QED
    BY <1>a, <1>b, <2>3 DEF Flow!FlowNext, Flow!FlowCommand, Flow!FlowEvent
<1>8. ASSUME NEW s \in Sockets, ReopenFailed(s) PROVE Flow!FlowNext
  <2> USE <1>8 DEF ReopenFailed
  <2>1. Flow!Arms(FALSE)
    BY Disarmed DEF CommandShape, BootShape, OpeningShape, Watch
  <2>2. Flow!FlowFail
    BY <2>1 DEF Flow!FlowFail, OpeningShape
  <2> QED
    BY <1>a, <1>b, <2>2 DEF Flow!FlowNext, Flow!FlowCommand, Flow!FlowEvent
<1>9. ASSUME NEW s \in Sockets, DisposeEnd(s) PROVE Flow!FlowNext
  <2> USE <1>9 DEF DisposeEnd
  <2>1. Flow!Arms(socket # NoSocket \/ Having(Opening) # {})
    BY ArmedKept DEF CloseIgnored, CloseFails
  <2>2. Flow!FlowQuiet \/ Flow!FlowFail
    BY <2>1 DEF Flow!FlowQuiet, Flow!FlowFail, AbsentShape, CloseIgnored, CloseFails
  <2> QED
    BY <1>a, <1>b, <2>2 DEF Flow!FlowNext, Flow!FlowCommand, Flow!FlowEvent
<1>10. ASSUME NEW s \in Sockets, Qr(s) PROVE Flow!FlowNext
  <2> USE <1>10 DEF Qr
  <2>1. Flow!Arms(socket # NoSocket \/ Having(Opening) # {})
    BY ArmedKept
  <2>2. Flow!FlowQuiet
    BY <2>1 DEF Flow!FlowQuiet
  <2> QED
    BY <1>a, <1>b, <2>2 DEF Flow!FlowNext, Flow!FlowCommand, Flow!FlowEvent
<1>11. ASSUME NEW s \in Sockets, CredsUpdate(s) PROVE Flow!FlowNext
  <2> USE <1>11 DEF CredsUpdate
  <2>1. Flow!Arms(socket # NoSocket \/ Having(Opening) # {})
    BY ArmedKept
  <2>2. ((socket # NoSocket \/ Having(Opening) # {}) /\ cmd = "none") \/ raced
    BY DEF NoLeakedSocket, HeldShape, CommandShape
  <2>3. Flow!FlowCreds
    BY <2>1, <2>2 DEF Flow!FlowCreds, AbsentShape
  <2> QED
    BY <1>a, <1>b, <2>3 DEF Flow!FlowNext, Flow!FlowCommand, Flow!FlowEvent
<1>12. ASSUME NEW s \in Sockets, Open(s) PROVE Flow!FlowNext
  <2> USE <1>12 DEF Open
  <2>1. ~raced => /\ s = socket /\ cmd = "none"
                  /\ state \in MidPair \cup {"paired", "error"}
    BY DEF NoLeakedSocket, EndedShape, AbsentShape, PairState, HeldShape, CommandShape
  <2>2. CASE raced
    <3>1. Flow!FlowOpenStray
      BY <1>a, <2>2 DEF Flow!FlowOpenStray
    <3> QED
      BY <1>a, <1>b, <3>1 DEF Flow!FlowNext
  <2>3. CASE ~raced
    <3>1. Flow!Arms(TRUE)
      BY <2>1, <2>3, ArmedNow
    <3>2. Flow!FlowOpen
      BY <2>1, <2>3, <3>1 DEF Flow!FlowOpen
    <3> QED
      BY <1>a, <1>b, <3>2 DEF Flow!FlowNext, Flow!FlowEvent
  <2> QED
    BY <2>2, <2>3
<1>13. ASSUME NEW s \in Sockets, Close(s) PROVE Flow!FlowNext
  <2> USE <1>13 DEF Close
  <2>1. Flow!Arms(socket # NoSocket \/ Having(Opening) # {})
    BY ArmedKept DEF CloseIgnored, CloseFails
  <2>2. Flow!FlowQuiet \/ Flow!FlowFail
    BY <2>1 DEF Flow!FlowQuiet, Flow!FlowFail, AbsentShape, CloseIgnored, CloseFails
  <2> QED
    BY <1>a, <1>b, <2>2 DEF Flow!FlowNext, Flow!FlowCommand, Flow!FlowEvent
<1>14. ASSUME NEW s \in Sockets, Close515(s) PROVE Flow!FlowNext
  <2> USE <1>14 DEF Close515
  <2>1. CASE CloseIgnored(s) \/ CloseFails(s)
    <3>1. Flow!Arms(socket # NoSocket \/ Having(Opening) # {})
      BY <2>1, ArmedKept DEF CloseIgnored, CloseFails
    <3>2. Flow!FlowQuiet \/ Flow!FlowFail
      BY <2>1, <3>1
      DEF Flow!FlowQuiet, Flow!FlowFail, AbsentShape, CloseIgnored, CloseFails
    <3> QED
      BY <1>a, <1>b, <3>2 DEF Flow!FlowNext, Flow!FlowEvent
  <2>2. ASSUME NEW r \in Sockets, CloseRestarts(s, r) PROVE Flow!FlowNext
    <3>1. (socket' # NoSocket \/ Having(Opening)' # {}) /\ socket # NoSocket
      BY <2>2, DisposedFacts DEF CloseRestarts, Having
    <3>2. Flow!Arms(socket # NoSocket \/ Having(Opening) # {})
      BY <3>1 DEF Flow!Arms
    <3>3. Flow!FlowQuiet
      BY <2>2, <3>2 DEF Flow!FlowQuiet, CloseRestarts
    <3> QED
      BY <1>a, <1>b, <3>3 DEF Flow!FlowNext, Flow!FlowEvent
  <2> QED
    BY <2>1, <2>2
<1>15. CASE BootDone
  <2> USE <1>15 DEF BootDone
  <2>1. Flow!Arms(socket # NoSocket \/ Having(Opening) # {})
    BY ArmedKept
  <2>2. Flow!FlowBooted
    BY <2>1 DEF Flow!FlowBooted
  <2> QED
    BY <1>a, <1>b, <2>2 DEF Flow!FlowNext, Flow!FlowCommand, Flow!FlowEvent
<1>16. CASE StartDispose
  <2> USE <1>16 DEF StartDispose
  <2>1. Flow!Arms(socket # NoSocket \/ Having(Opening) # {})
    BY ArmedKept DEF Disposed
  <2>2. Flow!FlowDispose("startDispose")
    BY <2>1 DEF Flow!FlowDispose, AbsentShape
  <2> QED
    BY <1>a, <1>b, <2>2 DEF Flow!FlowNext, Flow!FlowCommand, Flow!FlowEvent
<1>17. CASE StopDispose
  <2> USE <1>17 DEF StopDispose
  <2>1. Flow!Arms(socket # NoSocket \/ Having(Opening) # {})
    BY ArmedKept DEF Disposed
  <2>2. Flow!FlowDispose("stop")
    BY <2>1 DEF Flow!FlowDispose, AbsentShape
  <2> QED
    BY <1>a, <1>b, <2>2 DEF Flow!FlowNext, Flow!FlowCommand, Flow!FlowEvent
<1>18. CASE StopIdle
  <2> USE <1>18 DEF StopIdle
  <2>1. Flow!Arms(FALSE)
    BY Disarmed DEF BootShape, CommandShape, OpeningShape, Watch, ReopenOutlivesFlow
  <2>2. Flow!FlowStop
    BY <2>1 DEF Flow!FlowStop, BootShape, AbsentShape
  <2> QED
    BY <1>a, <1>b, <2>2 DEF Flow!FlowNext, Flow!FlowCommand, Flow!FlowEvent
<1>19. CASE QrEncoded
  <2> USE <1>19 DEF QrEncoded
  <2>1. Flow!Arms(socket # NoSocket \/ Having(Opening) # {})
    BY ArmedKept
  <2>2. Flow!FlowQr
    BY <2>1 DEF Flow!FlowQr, AbsentShape
  <2> QED
    BY <1>a, <1>b, <2>2 DEF Flow!FlowNext, Flow!FlowCommand, Flow!FlowEvent
<1>20. CASE QrEncodeFailed
  <2> USE <1>20 DEF QrEncodeFailed
  <2>1. Flow!Arms(socket # NoSocket \/ Having(Opening) # {})
    BY ArmedKept
  <2>2. Flow!FlowQuiet
    BY <2>1 DEF Flow!FlowQuiet
  <2> QED
    BY <1>a, <1>b, <2>2 DEF Flow!FlowNext, Flow!FlowCommand, Flow!FlowEvent
<1>21. CASE Expire
  <2> USE <1>21 DEF Expire
  <2>1. Flow!Arms(FALSE)
    BY Disarmed DEF BootShape, CommandShape, OpeningShape, Watch, ReopenOutlivesFlow, Disposed
  <2>2. Flow!FlowExpire
    BY <2>1 DEF Flow!FlowExpire, CommandShape
  <2> QED
    BY <1>a, <1>b, <2>2 DEF Flow!FlowNext, Flow!FlowCommand, Flow!FlowEvent
<1>22. CASE ExpireTooLate
  <2> USE <1>22 DEF ExpireTooLate
  <2>1. Flow!Arms(socket # NoSocket \/ Having(Opening) # {})
    BY ArmedKept
  <2>2. Flow!FlowQuiet
    BY <2>1 DEF Flow!FlowQuiet
  <2> QED
    BY <1>a, <1>b, <2>2 DEF Flow!FlowNext, Flow!FlowCommand, Flow!FlowEvent
<1> QED
  BY <1>1, <1>2, <1>3, <1>4, <1>5, <1>6, <1>7, <1>8, <1>9, <1>10,
     <1>11, <1>12, <1>13, <1>14, <1>15, <1>16, <1>17, <1>18, <1>19, <1>20,
     <1>21, <1>22
  DEF Next, Command, Continue, SocketEvent

\* The machine implements the flow its listeners are written against.
THEOREM FlowRefined == Spec => FlowImplemented
<1>1. Init => Flow!FlowInit
  BY DEF Init, Flow!FlowInit, Having, Opening
<1>2. PairInv /\ [Next]_vars => [Flow!FlowNext]_(Flow!flowVars)
  BY FlowStep
<1> QED
  BY <1>1, <1>2, PairInvariant, PTL DEF Spec, FlowImplemented, Flow!FlowSpec

-----------------------------------------------------------------------------
(* The wiring of ingest (PairIngest).                                      *)

Feed == OneFeed /\ NoSocket \notin attached /\ (feed # NoSocket => wired)

\* startIngest lets one call through at a time, and only when nothing is wired.
OneWiring ==
    /\ \A s, t \in Sockets : Wiring(s) /\ Wiring(t) => s = t
    /\ \A s \in Sockets : wiring[s] = "user" => ~wired /\ ~consumer
    /\ ~Settled => ~consumer

\* With none of the three excuses: nothing is wired before the user is paired,
\* and from then on the entry's socket is wired, or about to be.
Story ==
    ~raced /\ ~left /\ ~failed =>
        IF state = "paired"
        THEN socket # NoSocket =>
               /\ \A s \in Sockets : Wiring(s) => s = socket
               /\ Settled => consumer
               /\ wiring[socket] # "user" /\ conn[socket] # "closed"
                      => socket \in attached
        ELSE Settled /\ ~wired /\ ~consumer

WiringInv == PairInv /\ WiringTypeOK /\ Feed /\ OneWiring /\ Story

-----------------------------------------------------------------------------
(* The callbacks of a step.                                                *)

LEMMA NamesFacts ==
    /\ \A f : ~Names(<<>>, f)
    /\ \A a, f : Names(<<a>>, f) <=> a = f
    /\ \A a, b, f : Names(<<a, b>>, f) <=> a = f \/ b = f
    /\ \A a, b, c, f : Names(<<a, b, c>>, f) <=> a = f \/ b = f \/ c = f
<1>1. (\A f : ~Names(<<>>, f)) /\ (\A a, f : Names(<<a>>, f) <=> a = f)
  BY DEF Names
<1>2. \A a, b, f : Names(<<a, b>>, f) <=> a = f \/ b = f
  BY DEF Names
<1>3. \A a, b, c, f : Names(<<a, b, c>>, f) <=> a = f \/ b = f \/ c = f
  BY DEF Names
<1> QED
  BY <1>1, <1>2, <1>3

LEMMA RacedStays == ASSUME TypeOK, Next PROVE ~raced' => ~raced
  BY DEF Next, Command, Continue, SocketEvent, Resume, StartFresh, BootDone, StartDispose,
         StopDispose, StopIdle, ResumeOpened, ResumeFailed, StartOpened, StartFailed,
         ReopenOpened, ReopenFailed, DisposeEnd, Qr, CredsUpdate, Open, Close, Close515,
         QrEncoded, QrEncodeFailed, Expire, ExpireTooLate, Watch, TypeOK

\* What a step that makes callbacks does to the entry.
CallsTell ==
    /\ Calls("onSocketReady") =>
           state' = "paired" /\ announced' \in Sockets /\ ~Calls("onError")
    /\ Calls("onError") => state' = "error"
    /\ ~raced =>
       /\ Calls("onError") => state # "paired"
       /\ Calls("onSocketReady") => socket' = announced'
       /\ state # "paired" /\ state' = "paired" => Calls("onSocketReady")
       /\ state = "paired" /\ state' = "paired" =>
              /\ socket' = socket
              /\ \A s \in Sockets : s = socket /\ conn'[s] # "closed" => conn[s] # "closed"

LEMMA StepCalls ==
    ASSUME PairInv, Next
    PROVE  CallsTell
<1> USE NamesFacts, SocketAssumption DEF CallsTell, Calls
<1>1. /\ TypeOK
      /\ ~raced => /\ \A s \in Sockets : conn[s] \in Live => s = socket
                   /\ \A s \in Sockets : conn[s] \in Opening => state # "paired"
  BY DEF PairInv, NoLeakedSocket, OpeningShape, Opening, MidPair
<1>2. ASSUME NEW s \in Sockets, Continue(s) PROVE CallsTell
  <2> USE <1>1 DEF TypeOK, Opening, Live, MidPair, Fails, machineVars
  <2>1. CASE ResumeOpened(s)
    BY <2>1 DEF ResumeOpened
  <2>2. CASE ResumeFailed(s)
    BY <2>2 DEF ResumeFailed
  <2>3. CASE StartOpened(s)
    BY <2>3 DEF StartOpened
  <2>4. CASE StartFailed(s)
    BY <2>4 DEF StartFailed
  <2>5. CASE ReopenOpened(s)
    BY <2>5 DEF ReopenOpened
  <2>6. CASE ReopenFailed(s)
    BY <2>6 DEF ReopenFailed
  <2>7. CASE DisposeEnd(s)
    BY <2>7 DEF DisposeEnd, CloseIgnored, CloseFails
  <2> QED
    BY <1>2, <2>1, <2>2, <2>3, <2>4, <2>5, <2>6, <2>7 DEF Continue
<1>3. ASSUME NEW s \in Sockets, SocketEvent(s) PROVE CallsTell
  <2> USE <1>1 DEF TypeOK, Opening, Live, MidPair, Fails, machineVars, socketVars
  <2>1. CASE Qr(s) \/ CredsUpdate(s)
    BY <2>1 DEF Qr, CredsUpdate
  <2>2. CASE Open(s)
    BY <2>2 DEF Open
  <2>3. CASE Close(s)
    BY <2>3 DEF Close, CloseIgnored, CloseFails
  <2>4. CASE Close515(s)
    BY <2>4 DEF Close515, CloseIgnored, CloseFails, CloseRestarts
  <2> QED
    BY <1>3, <2>1, <2>2, <2>3, <2>4 DEF SocketEvent
<1>4. CASE Command
  <2> USE <1>1 DEF TypeOK, Opening, Live, MidPair, machineVars, socketVars
  <2>1. ASSUME NEW s \in Sockets, Resume(s) \/ StartFresh(s) PROVE CallsTell
    BY <2>1 DEF Resume, StartFresh
  <2>2. CASE BootDone \/ StopIdle
    BY <2>2 DEF BootDone, StopIdle
  <2>3. CASE StartDispose \/ StopDispose
    BY <2>3 DEF StartDispose, StopDispose, Disposed
  <2> QED
    BY <1>4, <2>1, <2>2, <2>3 DEF Command
<1>5. CASE QrEncoded \/ QrEncodeFailed \/ Expire \/ ExpireTooLate
  BY <1>1, <1>5 DEF QrEncoded, QrEncodeFailed, Expire, ExpireTooLate, MidPair, machineVars, socketVars
<1> QED
  BY <1>2, <1>3, <1>4, <1>5 DEF Next

-----------------------------------------------------------------------------
LEMMA InitWiring == InitAll => WiringInv
<1> SUFFICES ASSUME InitAll PROVE WiringInv
  OBVIOUS
<1>1. PairInv
  BY InitInv DEF InitAll
<1>2. state = "absent" /\ Settled
  BY DEF InitAll, Init, Settled, Wiring
<1> QED
  BY <1>1, <1>2, SocketAssumption
  DEF InitAll, WiringInv, WiringTypeOK, Feed, OneFeed, OneWiring, Story, Wiring

LEMMA MachineKeeps ==
    ASSUME WiringInv, MachineStep
    PROVE  WiringInv'
<1>1. PairInv' /\ TypeOK'
  BY InvStep DEF WiringInv, MachineStep, PairInv
<1>2. CallsTell /\ (~raced' => ~raced)
  BY StepCalls, RacedStays DEF WiringInv, MachineStep, PairInv
<1> USE SocketAssumption DEF WiringInv, MachineStep, React, Readied, Errored, Leaves, MayWire,
                             Wiring
<1>3. WiringTypeOK'
  BY <1>2 DEF WiringTypeOK, CallsTell
<1>4. Feed'
  BY DEF Feed, OneFeed, WiringTypeOK
<1>5. OneWiring'
  BY <1>2 DEF OneWiring, Settled, WiringTypeOK, CallsTell
<1>6. Story'
  <2> SUFFICES ASSUME ~raced', ~left', ~failed'
               PROVE  Story'
    BY DEF Story
  <2>1. ~raced /\ ~failed
    BY <1>2
  <2>2. CASE Calls("onError")
    <3>1. state' = "error" /\ state # "paired" /\ wiring' = wiring /\ ~wired' /\ ~consumer'
      BY <1>2, <2>1, <2>2 DEF CallsTell
    <3>2. Settled
      BY <2>1, <2>2, <3>1 DEF Story
    <3> QED
      BY <3>1, <3>2 DEF Story, Settled
  <2>3. CASE ~Calls("onError")
    <3>1. ~left /\ (state = "paired" => state' = "paired")
      BY <2>3
    <3>2. CASE state' # "paired"
      <4>1. wiring' = wiring /\ state # "paired"
        BY <1>2, <3>1, <3>2 DEF CallsTell
      <4> QED
        BY <2>1, <2>3, <3>1, <3>2, <4>1 DEF Story, Settled
    <3>3. CASE state' = "paired" /\ state # "paired"
      <4>1. Settled /\ ~wired /\ ~consumer
        BY <2>1, <3>1, <3>3 DEF Story
      <4>2. announced' = socket' /\ socket' \in Sockets
              /\ wiring' = [wiring EXCEPT ![announced'] = "user"]
        BY <1>2, <2>1, <3>3, <4>1 DEF CallsTell
      <4>3. /\ wiring'[socket'] = "user"
            /\ \A s \in Sockets : s # socket' => wiring'[s] = "no"
        BY <4>1, <4>2 DEF Settled, WiringTypeOK
      <4> QED
        BY <3>3, <4>2, <4>3 DEF Story, Settled
    <3>4. CASE state' = "paired" /\ state = "paired"
      <4>1. /\ socket' = socket
            /\ \A s \in Sockets : s = socket /\ conn'[s] # "closed" => conn[s] # "closed"
        BY <1>2, <2>1, <3>4 DEF CallsTell
      <4>2. CASE socket = NoSocket
        BY <3>4, <4>1, <4>2 DEF Story
      <4>3. CASE socket # NoSocket
        <5>1. socket \in Sockets
          BY <4>3 DEF PairInv, TypeOK
        <5>2. /\ \A s \in Sockets : Wiring(s) => s = socket
              /\ Settled => consumer
              /\ wiring[socket] # "user" /\ conn[socket] # "closed" => socket \in attached
          BY <2>1, <3>1, <3>4, <4>3 DEF Story
        <5>3. wiring' = wiring /\ consumer' = consumer
          <6>1. Calls("onSocketReady") => ~MayWire
            BY <5>2
          <6> QED
            BY <2>3, <6>1
        <5>4. socket \in attached /\ conn'[socket] # "closed" => socket \in attached'
          BY <2>3, <5>1
        <5> QED
          BY <3>4, <4>1, <4>3, <5>1, <5>2, <5>3, <5>4 DEF Story, Settled
      <4> QED
        BY <4>2, <4>3
    <3> QED
      BY <3>2, <3>3, <3>4
  <2> QED
    BY <2>2, <2>3
<1> QED
  BY <1>1, <1>3, <1>4, <1>5, <1>6

LEMMA WiringKeeps ==
    ASSUME WiringInv, NEW s \in Sockets, WiringStep(s)
    PROVE  WiringInv'
<1>1. PairInv'
  BY InvStep DEF WiringInv, WiringStep, UserFound, ConsumerStarted, WiringFails
<1>2. UNCHANGED <<raced, state, socket, conn, left>>
  BY DEF WiringStep, UserFound, ConsumerStarted, WiringFails, vars, machineVars, socketVars
<1> USE SocketAssumption DEF WiringInv, Wiring, Settled
<1>3. CASE UserFound(s)
  BY <1>1, <1>2, <1>3 DEF UserFound, WiringTypeOK, Feed, OneFeed, OneWiring, Story
<1>4. CASE ConsumerStarted(s)
  BY <1>1, <1>2, <1>4 DEF ConsumerStarted, WiringTypeOK, Feed, OneFeed, OneWiring, Story
<1>5. CASE WiringFails(s)
  BY <1>1, <1>2, <1>5 DEF WiringFails, WiringTypeOK, Feed, OneFeed, OneWiring, Story
<1> QED
  BY <1>3, <1>4, <1>5 DEF WiringStep

\* The invariant of the composition: the machine's own, and what the maps of the
\* worker say of its socket.
THEOREM WiringInvariant == SpecAll => []WiringInv
<1>1. WiringInv /\ [NextAll]_allVars => WiringInv'
  <2> SUFFICES ASSUME WiringInv, [NextAll]_allVars PROVE WiringInv'
    OBVIOUS
  <2>1. CASE UNCHANGED allVars
    <3>1. UNCHANGED vars /\ UNCHANGED <<raced, state, socket, conn>>
      BY <2>1 DEF allVars, vars, machineVars, socketVars
    <3>2. PairInv'
      BY <3>1, InvStep DEF WiringInv
    <3> QED
      BY <2>1, <3>1, <3>2 DEF WiringInv, allVars, mapVars, WiringTypeOK, Feed, OneFeed, OneWiring,
                        Story, Settled, Wiring
  <2> QED
    BY <2>1, MachineKeeps, WiringKeeps DEF NextAll
<1> QED
  BY <1>1, InitWiring, PTL DEF SpecAll

\* The maps of the worker keep their types.
THEOREM WiringTypes == SpecAll => []WiringTypeOK
<1>1. WiringInv => WiringTypeOK
  BY DEF WiringInv
<1> QED
  BY <1>1, WiringInvariant, PTL

\* At most one socket of a user feeds the stream, and stopIngest can detach it.
THEOREM FeedsOnce == SpecAll => []OneFeed
<1>1. WiringInv => OneFeed
  BY DEF WiringInv, Feed
<1> QED
  BY <1>1, WiringInvariant, PTL

\* The socket of a paired user is read, with the named exceptions only.
THEOREM PairedRead == SpecAll => []PairedIsIngested
<1>1. WiringInv => PairedIsIngested
  BY DEF WiringInv, Story, PairedIsIngested, PairInv, TypeOK, Live, Settled, Wiring
<1> QED
  BY <1>1, WiringInvariant, PTL
=============================================================================
