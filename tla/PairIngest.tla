------------------------------ MODULE PairIngest ------------------------------
(***************************************************************************)
(* The pair machine together with the wiring of ingest                     *)
(* (packages/worker/src/index.ts): what onSocketReady, onError and         *)
(* _startIngest do with the maps that say which socket of a user is read.  *)
(*                                                                         *)
(* A step of PairMachine makes its callbacks in the same run of            *)
(* JavaScript, so React is part of every such step; the awaits of          *)
(* _startIngest are steps of their own and leave the machine alone.  What  *)
(* the callbacks write to Redis and Postgres is not read here and left out.*)
(***************************************************************************)
EXTENDS PairMachine

VARIABLES
    attached, \* open sockets whose messages the ingest handler receives
    feed,     \* the open socket whose handler ingestUnsubscribers would remove
    wired,    \* ingestUnsubscribers (and socketRegistry) have the user
    consumer, \* ingestConsumers has the user
    wiring,   \* per socket: the await at which _startIngest of its handle is
    left,     \* history: a paired session was ended and its wiring may remain
    failed    \* history: _startIngest failed

mapVars  == <<attached, feed, wired, consumer, wiring>>
allVars  == <<vars, mapVars, left, failed>>

WiringTypeOK ==
    /\ attached \subseteq Sockets
    /\ feed \in Sockets \cup {NoSocket}
    /\ wired \in BOOLEAN /\ consumer \in BOOLEAN
    /\ wiring \in [Sockets -> {"no", "user", "group"}]
    /\ left \in BOOLEAN /\ failed \in BOOLEAN

Wiring(s) == wiring[s] # "no"
Settled   == \A s \in Sockets : ~Wiring(s)

InitAll ==
    /\ Init
    /\ attached = {}
    /\ feed = NoSocket
    /\ wired = FALSE /\ consumer = FALSE
    /\ wiring = [s \in Sockets |-> "no"]
    /\ left = FALSE /\ failed = FALSE

-----------------------------------------------------------------------------
(* The callbacks of a step.                                                *)

Names(calls, f) == \E i \in DOMAIN calls : calls[i] = f
Calls(f) == Names(out', f)

\* Mutant of MayWire: forgets the call that is still under way.
MayWireTwice == ~wired /\ ~consumer

\* The guard of startIngest.
MayWire == ~wired /\ ~consumer /\ Settled

\* onSocketReady -> startIngest(announced).
Readied ==
    wiring' = IF Calls("onSocketReady") /\ MayWire
              THEN [wiring EXCEPT ![announced'] = "user"] ELSE wiring

\* onError -> stopIngest.  A socket that closes delivers no more messages.
Errored ==
    LET dead == {s \in Sockets : conn'[s] = "closed"} IN
    /\ attached' = (IF Calls("onError") THEN attached \ {feed} ELSE attached) \ dead
    /\ IF Calls("onError")
       THEN feed' = NoSocket /\ wired' = FALSE /\ consumer' = FALSE
       ELSE /\ feed' = IF feed \in dead THEN NoSocket ELSE feed
            /\ UNCHANGED <<wired, consumer>>

\* Neither start() nor stop() calls stopIngest: what was wired stays wired until
\* the next onError.
Leaves ==
    left' = IF Calls("onError") /\ Settled THEN FALSE
            ELSE left \/ (state = "paired" /\ state' # "paired")

React == Readied /\ Errored /\ Leaves /\ UNCHANGED failed

\* The id of a socket whose wiring is under way is not given to another.
MachineStep ==
    /\ Next
    /\ \A s \in Sockets : Wiring(s) /\ conn[s] = "closed" => conn'[s] = "closed"
    /\ React

-----------------------------------------------------------------------------
(* _startIngest.                                                           *)

\* The user is found: the handler is attached, be the socket open or closed.
UserFound(s) ==
    /\ wiring[s] = "user"
    /\ wiring' = [wiring EXCEPT ![s] = "group"]
    /\ wired' = TRUE
    /\ IF conn[s] = "closed"
       THEN feed' = NoSocket /\ UNCHANGED attached
       ELSE feed' = s /\ attached' = attached \cup {s}
    /\ UNCHANGED <<vars, consumer, left, failed>>

\* Mutant of ConsumerStarted: the handle is not entered in the map.
ConsumerForgotten(s) ==
    /\ wiring[s] = "group"
    /\ wiring' = [wiring EXCEPT ![s] = "no"]
    /\ UNCHANGED <<vars, attached, feed, wired, consumer, left, failed>>

\* startConsumer() has returned.
ConsumerStarted(s) ==
    /\ wiring[s] = "group"
    /\ wiring' = [wiring EXCEPT ![s] = "no"]
    /\ consumer' = TRUE
    /\ UNCHANGED <<vars, attached, feed, wired, left, failed>>

\* No such user, or a query or XGROUP CREATE throws: undone by the catch.
WiringFails(s) ==
    /\ Wiring(s)
    /\ wiring' = [wiring EXCEPT ![s] = "no"]
    /\ attached' = attached \ {feed}
    /\ feed' = NoSocket
    /\ wired' = FALSE /\ consumer' = FALSE
    /\ failed' = TRUE
    /\ UNCHANGED <<vars, left>>

WiringStep(s) == UserFound(s) \/ ConsumerStarted(s) \/ WiringFails(s)

NextAll == MachineStep \/ \E s \in Sockets : WiringStep(s)

SpecAll == InitAll /\ [][NextAll]_allVars

-----------------------------------------------------------------------------
(* Properties.                                                             *)

\* However pairings, restarts, errors and slow queries interleave, at most one
\* socket of a user feeds the stream, and it is the one that stopIngest would
\* detach: no message is added twice, no handler is beyond reach.
OneFeed == attached \subseteq {feed}

\* The socket of a paired user is read: once the wiring has settled its messages
\* are added to the stream and a consumer takes them off, unless the wiring
\* failed, or an earlier paired session was ended and nothing has gone wrong
\* since (which is what would have unwired it).
PairedIsIngested ==
    /\ ~raced /\ ~left /\ ~failed
    /\ state = "paired" /\ Settled
    /\ socket # NoSocket /\ conn[socket] \in Live
    => socket \in attached /\ consumer

\* "Re-pair restores access" (P1-B design, line 19): the same without the
\* exception for a session that was ended before.
RepairedIsIngested ==
    /\ ~raced /\ ~failed
    /\ state = "paired" /\ Settled
    /\ socket # NoSocket /\ conn[socket] \in Live
    => socket \in attached /\ consumer
=============================================================================
