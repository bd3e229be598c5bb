--------------------------- MODULE MediaDownloader ---------------------------
(***************************************************************************)
(* The bounded-concurrency media downloader shared by all users of the     *)
(* worker (packages/worker/src/ingest/media.ts), and what the API can then *)
(* serve (packages/api/src/routes/media.ts).                               *)
(*                                                                         *)
(* A job runs from await to await: download, store the ciphertext, update  *)
(* the message row, publish.  #dispatch() is a synchronous loop, so while  *)
(* `dispatching` holds nothing else runs; each of its iterations is a step.*)
(***************************************************************************)
EXTENDS Naturals, Sequences, FiniteSets

CONSTANTS
    Users,
    Jobs,            \* the media messages that will arrive: a finite supply,
                     \* those of one user numbered in order of arrival
    Owner,           \* Owner[j]: the user of job j
    PerUser,         \* perUserConcurrency
    Global,          \* globalConcurrency
    QueueMax         \* queuePerUserMax

ASSUME JobAssumption ==
    Jobs \subseteq Nat /\ IsFiniteSet(Jobs) /\ Owner \in [Jobs -> Users]
ASSUME CapAssumption == PerUser \in Nat /\ Global \in Nat /\ QueueMax \in Nat

VARIABLES
    alive,        \* the worker process is
    order,        \* keys of #queues in insertion order
    queue,        \* UserQueue.queued
    active,       \* UserQueue.active
    activeGlobal, \* #activeGlobal
    stopped,      \* #stopped
    draining,     \* the in-flight jobs stop() took its snapshot of
    stopReturned, \* stop() has resolved
    dispatching,  \* #dispatch() is on the stack
    phase,        \* per job: where execJob (or its absence) has got to
    stored,       \* jobs whose ciphertext is in the media store
    ref           \* jobs whose message row has a mediaRef

slotVars == <<order, queue, active, activeGlobal, dispatching>>
stopVars == <<stopped, draining, stopReturned>>
vars == <<alive, slotVars, stopVars, phase, stored, ref>>

Running == {"downloading", "storing", "updating", "publishing"}
Ended   == {"ready", "failed", "skipped", "refused", "cleared", "lost"}

TypeOK ==
    /\ alive \in BOOLEAN
    /\ order \in Seq(Users)
    /\ queue \in [Users -> Seq(Jobs)]
    /\ active \in [Users -> Nat]
    /\ activeGlobal \in Nat
    /\ stopped \in BOOLEAN /\ stopReturned \in BOOLEAN /\ dispatching \in BOOLEAN
    /\ draining \subseteq Jobs
    /\ phase \in [Jobs -> {"new", "queued"} \cup Running \cup Ended]
    /\ stored \subseteq Jobs
    /\ ref \subseteq Jobs

\* #inflight, and its share of one user.
InFlight        == {j \in Jobs : phase[j] \in Running}
InFlightOf(u)   == {j \in InFlight : Owner[j] = u}
Known(u)        == \E i \in DOMAIN order : order[i] = u
Arrives(j)      ==
    /\ phase[j] = "new"
    /\ \A k \in Jobs : phase[k] = "new" /\ Owner[k] = Owner[j] => j <= k
Now(j, p)       == phase' = [phase EXCEPT ![j] = p]

-----------------------------------------------------------------------------
Init ==
    /\ alive = TRUE
    /\ order = <<>>
    /\ queue = [u \in Users |-> <<>>]
    /\ active = [u \in Users |-> 0]
    /\ activeGlobal = 0
    /\ stopped = FALSE
    /\ draining = {}
    /\ stopReturned = FALSE
    /\ dispatching = FALSE
    /\ phase = [j \in Jobs |-> "new"]
    /\ stored = {}
    /\ ref = {}

\* Mutant of Enqueue: accepts work after stop().
EnqueueStopped(j) ==
    LET u == Owner[j] IN
    /\ alive /\ ~dispatching
    /\ Arrives(j)
    /\ order' = IF Known(u) THEN order ELSE Append(order, u)
    /\ queue' = [queue EXCEPT ![u] = Append(@, j)]
    /\ Now(j, "queued")
    /\ dispatching' = TRUE
    /\ UNCHANGED <<alive, active, activeGlobal, stopVars, stored, ref>>

\* Mutant of Enqueue: off by one at the queue's limit.
EnqueueOverfull(j) ==
    LET u == Owner[j] IN
    /\ alive /\ ~dispatching /\ ~stopped
    /\ Arrives(j)
    /\ order' = IF Known(u) THEN order ELSE Append(order, u)
    /\ Len(queue[u]) <= QueueMax
    /\ queue' = [queue EXCEPT ![u] = Append(@, j)]
    /\ Now(j, "queued")
    /\ dispatching' = TRUE
    /\ UNCHANGED <<alive, active, activeGlobal, stopVars, stored, ref>>

\* enqueue(): refused once stopped, skipped when the user's queue is full,
\* else queued and dispatched.
Enqueue(j) ==
    LET u == Owner[j] IN
    /\ alive /\ ~dispatching
    /\ Arrives(j)
    /\ UNCHANGED <<alive, active, activeGlobal, stopVars, stored, ref>>
    /\ \/ /\ stopped
          /\ Now(j, "refused")
          /\ UNCHANGED <<order, queue, dispatching>>
       \/ /\ ~stopped
          /\ order' = IF Known(u) THEN order ELSE Append(order, u)
          /\ \/ /\ Len(queue[u]) >= QueueMax
                /\ Now(j, "skipped")
                /\ UNCHANGED <<queue, dispatching>>
             \/ /\ Len(queue[u]) < QueueMax
                /\ queue' = [queue EXCEPT ![u] = Append(@, j)]
                /\ Now(j, "queued")
                /\ dispatching' = TRUE

\* Mutant of Eligible: off by one at the user's cap.
EligibleAtCap(u) == queue[u] # <<>> /\ active[u] <= PerUser

Eligible(u) == queue[u] # <<>> /\ active[u] < PerUser

\* #nextJob(): the first user, in insertion order, that may run another job.
Next1(i) ==
    /\ Eligible(order[i])
    /\ \A k \in DOMAIN order : k < i => ~Eligible(order[k])

\* Mutant of Dispatch1: the newest job first.
Dispatch1Newest(i) ==
    LET u == order[i]
        n == Len(queue[u])
        j == queue[u][n] IN
    /\ Next1(i)
    /\ queue' = [queue EXCEPT ![u] = SubSeq(@, 1, n - 1)]
    /\ active' = [active EXCEPT ![u] = @ + 1]
    /\ activeGlobal' = activeGlobal + 1
    /\ Now(j, "downloading")

\* One iteration of the loop: #runJob of the oldest job of that user.
Dispatch1(i) ==
    LET u == order[i]
        j == Head(queue[u]) IN
    /\ Next1(i)
    /\ queue' = [queue EXCEPT ![u] = Tail(@)]
    /\ active' = [active EXCEPT ![u] = @ + 1]
    /\ activeGlobal' = activeGlobal + 1
    /\ Now(j, "downloading")

Dispatch ==
    /\ dispatching
    /\ activeGlobal < Global
    /\ \E i \in DOMAIN order : Dispatch1(i)
    /\ UNCHANGED <<alive, order, dispatching, stopVars, stored, ref>>

DispatchDone ==
    /\ dispatching
    /\ \/ activeGlobal >= Global
       \/ \A i \in DOMAIN order : ~Eligible(order[i])
    /\ dispatching' = FALSE
    /\ UNCHANGED <<alive, order, queue, active, activeGlobal, stopVars, phase, stored, ref>>

-----------------------------------------------------------------------------
(* execJob.                                                                *)

\* Mutant of Settle: the slot is freed but nobody is told.
SettleSilent(j, outcome) ==
    /\ Now(j, outcome)
    /\ active' = [active EXCEPT ![Owner[j]] = @ - 1]
    /\ activeGlobal' = activeGlobal - 1
    /\ UNCHANGED dispatching

\* Mutant of Settle: a failed job keeps its slot.
SettleLeaky(j, outcome) ==
    /\ Now(j, outcome)
    /\ IF outcome = "failed"
       THEN UNCHANGED <<active, activeGlobal>>
       ELSE /\ active' = [active EXCEPT ![Owner[j]] = @ - 1]
            /\ activeGlobal' = activeGlobal - 1
    /\ dispatching' = ~stopped

\* The job's promise settles: the `finally` of #runJob.
Settle(j, outcome) ==
    /\ Now(j, outcome)
    /\ active' = [active EXCEPT ![Owner[j]] = @ - 1]
    /\ activeGlobal' = activeGlobal - 1
    /\ dispatching' = ~stopped

Downloaded(j) ==
    /\ ~dispatching
    /\ phase[j] = "downloading"
    /\ Now(j, "storing")
    /\ UNCHANGED <<alive, slotVars, stopVars, stored, ref>>

\* Mutant of Stored: the row is updated before the file is known to be there.
StoredLate(j) ==
    /\ ~dispatching
    /\ phase[j] = "storing"
    /\ Now(j, "updating")
    /\ ref' = ref \cup {j}
    /\ UNCHANGED <<alive, slotVars, stopVars, stored>>

\* mediaStore.put has written the file.
Put(j) == stored' = stored \cup {j}

Stored(j) ==
    /\ ~dispatching
    /\ phase[j] = "storing"
    /\ Now(j, "updating")
    /\ Put(j)
    /\ UNCHANGED <<alive, slotVars, stopVars, ref>>

RowUpdated(j) ==
    /\ ~dispatching
    /\ phase[j] = "updating"
    /\ Now(j, "publishing")
    /\ ref' = ref \cup {j}
    /\ UNCHANGED <<alive, slotVars, stopVars, stored>>

Published(j) ==
    /\ ~dispatching
    /\ phase[j] = "publishing"
    /\ Settle(j, "ready")
    /\ UNCHANGED <<alive, order, queue, stopVars, stored, ref>>

\* The row updates on their way among these jobs may have been executed, though
\* nobody will hear of it.
MayLand(js) == \E landed \in SUBSET {j \in js : phase[j] = "updating"} : ref' = ref \cup landed

\* The download throws or is larger than maxBytes, put() throws, or the row
\* update throws: before it reached the database, or after, its reply lost.
Failed(j) ==
    /\ ~dispatching
    /\ phase[j] \in {"downloading", "storing", "updating"}
    /\ Settle(j, "failed")
    /\ MayLand({j})
    /\ UNCHANGED <<alive, order, queue, stopVars, stored>>

\* The worker process ends, and its jobs with it.  The next one starts over with
\* the messages that are still to come, as this one did.
Gone ==
    /\ alive /\ alive' = FALSE
    /\ order' = <<>>
    /\ queue' = [u \in Users |-> <<>>]
    /\ active' = [u \in Users |-> 0]
    /\ activeGlobal' = 0
    /\ dispatching' = FALSE
    /\ stopped' = FALSE
    /\ draining' = {}
    /\ stopReturned' = FALSE
    /\ phase' = [j \in Jobs |->
                   IF phase[j] \in Running \cup {"queued"} THEN "lost" ELSE phase[j]]
    /\ MayLand(Jobs)
    /\ UNCHANGED stored

\* redis.publish() rejects, and the job with it.  Only stop() looks at the
\* promise of a job: else the rejection is unhandled and ends the process.
Rejected(j) ==
    /\ ~dispatching
    /\ phase[j] = "publishing"
    /\ \/ /\ j \in draining
          /\ Settle(j, "failed")
          /\ UNCHANGED <<alive, order, queue, stopVars, stored, ref>>
       \/ /\ j \notin draining
          /\ Gone

-----------------------------------------------------------------------------
\* stop(): drop what is queued, wait for what is in flight.
Stop ==
    /\ alive /\ ~dispatching /\ ~stopped
    /\ stopped' = TRUE
    /\ draining' = InFlight
    /\ queue' = [u \in Users |-> <<>>]
    /\ phase' = [j \in Jobs |-> IF phase[j] = "queued" THEN "cleared" ELSE phase[j]]
    /\ UNCHANGED <<alive, order, active, activeGlobal, dispatching, stopReturned, stored, ref>>

StopReturns ==
    /\ stopped /\ ~stopReturned /\ ~dispatching
    /\ draining \cap InFlight = {}
    /\ stopReturned' = TRUE
    /\ UNCHANGED <<alive, slotVars, stopped, draining, phase, stored, ref>>

\* The answer of the API to GET /media/:messageId.
Serves(j) ==
    CASE j \notin ref -> "no_media"
      [] j \in ref \ stored -> "media_not_found"
      [] OTHER -> "bytes"

Advance(j) ==
    \/ Downloaded(j) \/ Stored(j) \/ RowUpdated(j) \/ Published(j)
    \/ Failed(j) \/ Rejected(j)

Next ==
    \/ \E j \in Jobs : Enqueue(j) \/ Advance(j)
    \/ Dispatch \/ DispatchDone
    \/ Stop \/ StopReturns
    \/ Gone

Spec == Init /\ [][Next]_vars

\* Downloads, file writes and queries settle, and a synchronous loop runs on.
\* Nothing obliges messages to arrive or the worker to shut down.
Fairness ==
    /\ \A j \in Jobs : WF_vars(Advance(j))
    /\ WF_vars(Dispatch \/ DispatchDone)
    /\ WF_vars(StopReturns)

FairSpec == Spec /\ Fairness

-----------------------------------------------------------------------------
(* Properties.                                                             *)

\* Never more downloads at once than the global cap, nor more of one user than
\* the user's cap, counted on the jobs themselves and not on the counters: an
\* early return, a throw or a stop cannot make the counters drift.
WithinCaps ==
    /\ Cardinality(InFlight) <= Global
    /\ \A u \in Users : Cardinality(InFlightOf(u)) <= PerUser

\* A job waits only for a slot: whenever the loop is not running and the
\* downloader is not stopped, all global slots are taken or every user with
\* queued jobs has all of his taken.
WorkConserving ==
    ~dispatching /\ ~stopped /\ activeGlobal < Global =>
        \A u \in Users : ~Eligible(u)

\* What waits is exactly what is queued: a job is in its owner's queue, once,
\* from enqueue() until it starts or stop() clears it, and the queue is short.
QueueExact ==
    /\ \A j \in Jobs : phase[j] = "queued" <=>
           \E i \in DOMAIN queue[Owner[j]] : queue[Owner[j]][i] = j
    /\ \A u \in Users : Len(queue[u]) <= QueueMax

\* Once stop() has resolved no download is running, and no row or file is
\* written behind the closed database client.
StopIsFinal == stopReturned => InFlight = {} /\ ~dispatching

\* Media that a message's row promises can be fetched, whatever failed or was
\* lost on the way: GET /media never finds a reference without its file, and
\* once media_ready may have been published it finds the bytes.  (A row may
\* well have its reference although the job failed, died or told nobody.)
RefMatchesStore ==
    /\ \A j \in Jobs : Serves(j) # "media_not_found"
    /\ \A j \in Jobs : phase[j] \in {"publishing", "ready"} => Serves(j) = "bytes"

\* The jobs of one user start in the order they were enqueued: nobody that was
\* queued behind another overtakes it.
StartsInOrder ==
    [][\A u \in Users : \A i, k \in 1..Len(queue[u]) :
           i < k /\ phase'[queue[u][k]] \in Running
               => phase'[queue[u][i]] # "queued"]_vars

\* Every job that has been queued ends: downloaded, failed, cleared by stop() or
\* lost with its process.  The supply is finite and no job is queued twice, so
\* that is to say that in the end nothing waits and nothing runs.
QueuedJobEnds == <>[](\A j \in Jobs : phase[j] \notin {"queued"} \cup Running)
=============================================================================
