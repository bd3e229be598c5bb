------------------------------ MODULE SseStreams ------------------------------
(***************************************************************************)
(* GET /api/events (packages/api/src/routes/events.ts) for one user: the   *)
(* cap on concurrent server-sent-event streams, kept in a Redis counter    *)
(* that expires some time after the last attempt to connect.               *)
(*                                                                         *)
(* A step of a request is what runs between two awaits; a command runs at  *)
(* Redis in a step of its own, when it gets there.  Redis and its client   *)
(* are external: a command is taken to run at most once, its reply may be  *)
(* lost.                                                                   *)
(***************************************************************************)
EXTENDS Integers, FiniteSets

CONSTANTS
    Requests,    \* connections the API can be serving; ids are used again
    MaxStreams,  \* SSE_MAX_STREAMS_PER_USER
    Ttl,         \* COUNTER_TTL_SECONDS in ticks of the clock
    MaxLeaked    \* bound: increments nobody is left to take back

ASSUME RequestAssumption == IsFiniteSet(Requests)
ASSUME NumberAssumption ==
    MaxStreams \in Nat /\ Ttl \in Nat \ {0} /\ MaxLeaked \in Nat

VARIABLES
    count,   \* the value of wpa:sse:count:<user>, 0 when the key is absent
    ttl,     \* ticks until the key expires, 0 when it has no expiry
    phase,   \* per request: the await it is at
    answer,  \* per request: what INCR returned, until it is compared
    gone,    \* requests whose client has closed the connection
    leaked,  \* history: increments that no request will take back
    bare,    \* history: EXPIRE failed and left the key without an expiry
    lapsed   \* history: the key expired while a request was counted in it

keyVars  == <<count, ttl>>
histVars == <<leaked, bare, lapsed>>
vars == <<keyVars, phase, answer, gone, histVars>>

Counting == {"answered", "rejecting", "streaming", "cleaning"}

\* Requests whose INCR has run and whose DECR has not.
Counted   == {r \in Requests : phase[r] \in Counting}
Streaming == {r \in Requests : phase[r] = "streaming"}

TypeOK ==
    /\ count \in Int
    /\ ttl \in 0..Ttl
    /\ phase \in [Requests -> {"idle", "counting"} \cup Counting]
    /\ answer \in [Requests -> Int]
    /\ gone \subseteq Requests
    /\ leaked \in Nat
    /\ bare \in BOOLEAN
    /\ lapsed \in BOOLEAN

Goes(r, p)   == phase' = [phase EXCEPT ![r] = p]
Answer(r, n) == answer' = [answer EXCEPT ![r] = n]

\* The request is over, its id free for another.
Leaves(r) == Goes(r, "idle") /\ gone' = gone \ {r}

Init ==
    /\ count = 0 /\ ttl = 0
    /\ phase = [r \in Requests |-> "idle"]
    /\ answer = [r \in Requests |-> 0]
    /\ gone = {}
    /\ leaked = 0 /\ bare = FALSE /\ lapsed = FALSE

-----------------------------------------------------------------------------
\* Past authentication and rate limit, INCR and EXPIRE are sent.
Connect(r) ==
    /\ phase[r] = "idle"
    /\ Goes(r, "counting")
    /\ UNCHANGED <<keyVars, answer, gone, histVars>>

\* Mutant of Count: INCR without EXPIRE.
CountUnexpiring(r) ==
    /\ phase[r] = "counting"
    /\ count' = count + 1
    /\ Answer(r, count + 1)
    /\ Goes(r, "answered")
    /\ UNCHANGED <<ttl, gone, histVars>>

\* EXPIRE after INCR.  Its result is not looked at: when it fails alone, the key
\* keeps the expiry it had, or has none.
Expire ==
    \/ ttl' = Ttl /\ bare' = FALSE
    \/ UNCHANGED ttl /\ bare' = (ttl = 0)

\* The pipeline runs at Redis: a rejected attempt renews the expiry as well.
Count(r) ==
    /\ phase[r] = "counting"
    /\ count' = count + 1
    /\ Expire
    /\ Answer(r, count + 1)
    /\ Goes(r, "answered")
    /\ UNCHANGED <<gone, leaked, lapsed>>

\* The pipeline fails before INCR has run: `throw incr[0]`.
CountFails(r) ==
    /\ phase[r] = "counting"
    /\ Leaves(r)
    /\ UNCHANGED <<keyVars, answer, histVars>>

\* Mutant of Reject: the slot of a rejected attempt is kept.
RejectKeeps(r) ==
    /\ phase[r] = "answered"
    /\ answer[r] > MaxStreams
    /\ Leaves(r)
    /\ Answer(r, 0)
    /\ UNCHANGED <<keyVars, histVars>>

\* Too many: DECR is sent, 429 follows its reply.
Reject(r) ==
    /\ phase[r] = "answered"
    /\ answer[r] > MaxStreams
    /\ Goes(r, "rejecting")
    /\ Answer(r, 0)
    /\ UNCHANGED <<keyVars, gone, histVars>>

\* Mutant of Admit: off by one.
AdmitOneMore(r) ==
    /\ phase[r] = "answered"
    /\ answer[r] <= MaxStreams + 1
    /\ Goes(r, "streaming")
    /\ Answer(r, 0)
    /\ UNCHANGED <<keyVars, gone, histVars>>

\* From the reply to the subscriber and the heartbeat in one run.  The close
\* listener is added only now: a client that is already gone is not noticed.
Admit(r) ==
    /\ phase[r] = "answered"
    /\ answer[r] <= MaxStreams
    /\ Goes(r, "streaming")
    /\ Answer(r, 0)
    /\ UNCHANGED <<keyVars, gone, histVars>>

\* The client disconnects; cleanup() starts if its listener is there.
Close(r) ==
    /\ phase[r] # "idle" /\ r \notin gone
    /\ gone' = gone \cup {r}
    /\ IF phase[r] = "streaming" THEN Goes(r, "cleaning") ELSE UNCHANGED phase
    /\ UNCHANGED <<keyVars, answer, histVars>>

\* DECR runs at Redis; on an absent key it makes one that never expires.
Uncount(r) ==
    /\ phase[r] \in {"rejecting", "cleaning"}
    /\ count' = count - 1
    /\ Leaves(r)
    /\ UNCHANGED <<ttl, answer, histVars>>

-----------------------------------------------------------------------------
\* The reply of the pipeline is lost after INCR ran, or DECR fails: thrown in
\* the one case, best effort in the other, and the increment stays.
Leak(r) ==
    /\ leaked < MaxLeaked
    /\ \/ phase[r] \in {"rejecting", "cleaning"} /\ UNCHANGED <<keyVars, bare>>
       \/ /\ phase[r] = "counting"
          /\ count' = count + 1
          /\ Expire
    /\ leaked' = leaked + 1
    /\ Leaves(r)
    /\ UNCHANGED <<answer, lapsed>>

\* The API dies, or is stopped: server.close() waits for streams that do not
\* end, and after 10 seconds process.exit(1) ends them without their cleanup.
ApiRestarts ==
    /\ leaked + Cardinality(Counted) <= MaxLeaked
    /\ \E r \in Requests : phase[r] # "idle"
    /\ leaked' = leaked + Cardinality(Counted)
    /\ phase' = [r \in Requests |-> "idle"]
    /\ answer' = [r \in Requests |-> 0]
    /\ gone' = {}
    /\ UNCHANGED <<keyVars, bare, lapsed>>

\* Time passes for the key.
Tick ==
    /\ ttl > 0
    /\ ttl' = ttl - 1
    /\ IF ttl = 1
       THEN count' = 0 /\ leaked' = 0 /\ lapsed' = (lapsed \/ Counted # {})
       ELSE UNCHANGED <<count, leaked, lapsed>>
    /\ UNCHANGED <<phase, answer, gone, bare>>

\* What the API and Redis do by themselves.
Serve(r) ==
    Count(r) \/ CountFails(r) \/ Reject(r) \/ Admit(r) \/ Uncount(r)

Next ==
    \/ \E r \in Requests : Connect(r) \/ Serve(r) \/ Close(r) \/ Leak(r)
    \/ ApiRestarts
    \/ Tick

Spec == Init /\ [][Next]_vars

\* Redis answers and time passes; clients owe nothing.
FairSpec == Spec /\ (\A r \in Requests : WF_vars(Serve(r))) /\ WF_vars(Tick)

-----------------------------------------------------------------------------
(* Properties.                                                             *)

\* As long as the key has not expired under a live stream, a user never has
\* more than SSE_MAX_STREAMS_PER_USER streams: whatever attempts, rejections
\* and clean-ups race each other, the counter errs only towards refusing.
CapHolds == ~lapsed => Cardinality(Streaming) <= MaxStreams

\* The counter is exactly the requests that still owe a DECR plus the
\* increments lost to failures: no path of the handler decrements twice, or
\* forgets to.
CountExact == ~lapsed => count = Cardinality(Counted) + leaked

\* A count that nobody stands for, left behind by a restart of the API, a lost
\* reply or a failed DECR, goes away when no client tries any more (events.ts:36:
\* "belt-and-braces").  Two cases are named and left out: the key expired under
\* a live stream, so that a late DECR makes one without an expiry; and EXPIRE
\* alone failed on a key that had none, which the handler does not notice.
IdleCountExpires ==
    <>[](~lapsed /\ ~bare /\ \A r \in Requests : phase[r] = "idle") => <>[](count = 0)
=============================================================================
