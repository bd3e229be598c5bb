-------------------------------- MODULE Ingest --------------------------------
(***************************************************************************)
(* From a message of the WhatsApp socket to a row in Postgres, for one     *)
(* user (packages/worker/src/ingest: subscribe.ts, consume.ts, persist.ts, *)
(* wired by startIngest and stopIngest of worker/src/index.ts).            *)
(*                                                                         *)
(* All commands of the worker go over one Redis connection, so the XADDs   *)
(* run in the order they were issued, after the XGROUP CREATE that was     *)
(* issued together with the subscription.  Consumer loops of one process   *)
(* may overlap: stop() only tells the loop to end after its batch.         *)
(***************************************************************************)
EXTENDS Naturals, Sequences, FiniteSets

CONSTANTS
    Msgs,        \* messages by (conversation, waMessageId); one may come twice
    Media,       \* those with an attachment
    Bad,         \* those that normalize() or encryption always rejects
    Consumers,   \* consumer loops that can exist at once; ids are used again
    NoConsumer,
    ReadCount,   \* READ_COUNT
    DlqMaxes,    \* values INGEST_DLQ_MAX_DELIVERIES may have
    MaxEntries   \* bound: entries ever added to the stream

ASSUME MsgAssumption == Media \subseteq Msgs /\ Bad \subseteq Msgs
ASSUME ConsumerAssumption == NoConsumer \notin Consumers
ASSUME NumberAssumption ==
    /\ ReadCount \in Nat \ {0} /\ MaxEntries \in Nat
    /\ DlqMaxes \subseteq Nat \ {0} /\ DlqMaxes # {}

VARIABLES
    subscribed, \* ingestUnsubscribers has the user: the handler is attached
    starting,   \* startingIngest has him: the await _startIngest is at
    current,    \* his entry in ingestConsumers
    ahead,      \* XADDs on the connection ahead of the XGROUP CREATE issued last
    running,    \* per loop: `running`
    at,         \* per loop: the await it is at
    lo, hi,     \* per loop: what is left of its batch is lo..hi
    adding,     \* XADDs issued and not yet run
    stream,     \* wpa:msg:ingest:<user>; an entry is its index
    group,      \* the consumer group exists
    last,       \* its last-delivered id
    pel,        \* its pending entries
    acked,      \* entries that were XACKed
    retry,      \* per entry: wpa:ingest:retry:<entry>
    dlq,        \* entries copied to wpa:msg:dlq:<user>
    rows,       \* messages with a row in Postgres
    notified,   \* per message: "message.created" events published
    enqueued,   \* per message: media jobs handed to the downloader
    limit,      \* INGEST_DLQ_MAX_DELIVERIES of the process
    dropped,    \* history: entries handed out to nobody: held when a process died, or
                \* in a reply that was lost
    failed,     \* history: entries left pending because their failures are few
    skipped,    \* history: entries that were there when the group was created
    unwired     \* history: messages whose media had no socket registered

wiringVars == <<subscribed, starting, current, ahead>>
loopVars   == <<running, at, lo, hi>>
groupVars  == <<group, last, pel, acked, retry, dlq>>
rowVars    == <<rows, notified, enqueued>>
histVars   == <<dropped, failed, skipped, unwired>>
vars == <<wiringVars, loopVars, adding, stream, groupVars, rowVars, limit, histVars>>

Entries  == 1..MaxEntries
Working  == {"looking", "creating", "publishing", "acking", "failed", "poison", "dead"}

TypeOK ==
    /\ subscribed \in BOOLEAN
    /\ starting \in {"no", "user", "group"}
    /\ current \in Consumers \cup {NoConsumer}
    /\ ahead \in Nat
    /\ running \in [Consumers -> BOOLEAN]
    /\ at \in [Consumers -> {"off", "reading"} \cup Working]
    /\ lo \in [Consumers -> Nat] /\ hi \in [Consumers -> 0..MaxEntries]
    /\ adding \in Seq(Msgs) /\ stream \in Seq(Msgs)
    /\ Len(stream) <= MaxEntries
    /\ group \in BOOLEAN
    /\ last \in 0..MaxEntries
    /\ pel \subseteq Entries /\ acked \subseteq Entries /\ dlq \subseteq Entries
    /\ retry \in [Entries -> 0..1] \* an entry is handed out once
    /\ rows \subseteq Msgs
    /\ notified \in [Msgs -> Nat] /\ enqueued \in [Msgs -> Nat]
    /\ limit \in DlqMaxes
    /\ dropped \subseteq Entries /\ failed \subseteq Entries /\ skipped \subseteq Entries
    /\ unwired \subseteq Msgs

-----------------------------------------------------------------------------
\* The entries a loop still has to deal with; the first is the one at hand.
Held(c)   == IF at[c] \in Working THEN lo[c]..hi[c] ELSE {}
HeldByAny == UNION {Held(c) : c \in Consumers}
Msg(c)    == stream[lo[c]]

Goes(c, a) == at' = [at EXCEPT ![c] = a]

\* The entry at hand is done with; `running` is looked at between batches only.
NextEntry(c) ==
    /\ IF lo[c] < hi[c]
       THEN lo' = [lo EXCEPT ![c] = @ + 1] /\ hi' = hi /\ Goes(c, "looking")
       ELSE /\ lo' = [lo EXCEPT ![c] = 1] /\ hi' = [hi EXCEPT ![c] = 0]
            /\ Goes(c, IF running[c] THEN "reading" ELSE "off")
    /\ UNCHANGED running

Init ==
    /\ subscribed = FALSE /\ starting = "no" /\ current = NoConsumer /\ ahead = 0
    /\ running = [c \in Consumers |-> FALSE]
    /\ at = [c \in Consumers |-> "off"]
    /\ lo = [c \in Consumers |-> 1] /\ hi = [c \in Consumers |-> 0]
    /\ adding = <<>> /\ stream = <<>>
    /\ group = FALSE /\ last = 0
    /\ pel = {} /\ acked = {} /\ dlq = {}
    /\ retry = [e \in Entries |-> 0]
    /\ rows = {}
    /\ notified = [m \in Msgs |-> 0] /\ enqueued = [m \in Msgs |-> 0]
    /\ limit \in DlqMaxes
    /\ dropped = {} /\ failed = {} /\ skipped = {} /\ unwired = {}

-----------------------------------------------------------------------------
(* startIngest and stopIngest.                                             *)

\* onSocketReady; already wired or being wired, it returns at once.
StartIngest ==
    /\ ~subscribed /\ current = NoConsumer /\ starting = "no"
    /\ starting' = "user"
    /\ UNCHANGED <<subscribed, current, ahead, loopVars, adding, stream, groupVars,
                   rowVars, limit, histVars>>

\* The user is found: subscribe, and XGROUP CREATE is issued in the same run.
Subscribe ==
    /\ starting = "user"
    /\ subscribed' = TRUE
    /\ starting' = "group"
    /\ ahead' = Len(adding)
    /\ UNCHANGED <<current, loopVars, adding, stream, groupVars, rowVars, limit, histVars>>

\* The group is created at "$" or there already, and the loop starts.
GroupReady(c) ==
    /\ starting = "group" /\ ahead = 0
    /\ at[c] = "off"
    /\ group' = TRUE
    /\ last' = IF group THEN last ELSE Len(stream)
    /\ skipped' = IF group THEN skipped ELSE 1..Len(stream)
    /\ running' = [running EXCEPT ![c] = TRUE]
    /\ Goes(c, "reading")
    /\ current' = c
    /\ starting' = "no"
    /\ UNCHANGED <<subscribed, ahead, lo, hi, adding, stream, pel, acked, retry, dlq,
                   rowVars, limit, dropped, failed, unwired>>

\* stopIngest(), from onError and on shutdown.
Unwire ==
    /\ subscribed' = FALSE
    /\ current' = NoConsumer
    /\ running' = [c \in Consumers |-> running[c] /\ c # current]

StopIngest ==
    /\ subscribed \/ current # NoConsumer
    /\ Unwire
    /\ UNCHANGED <<starting, ahead, at, lo, hi, adding, stream, groupVars, rowVars, limit, histVars>>

\* The user is missing or a query or XGROUP CREATE fails: the same clean-up.
StartFails ==
    /\ starting # "no" /\ ahead = 0
    /\ starting' = "no"
    /\ Unwire
    /\ UNCHANGED <<ahead, at, lo, hi, adding, stream, groupVars, rowVars, limit, histVars>>

-----------------------------------------------------------------------------
(* subscribe.ts.                                                           *)

\* messages.upsert of a message that passes shouldIngest(): XADD, not awaited.
Upsert(m) ==
    /\ subscribed
    /\ Len(stream) + Len(adding) < MaxEntries
    /\ adding' = Append(adding, m)
    /\ UNCHANGED <<wiringVars, loopVars, stream, groupVars, rowVars, limit, histVars>>

\* The oldest XADD runs, or fails and the message is lost.
Added ==
    /\ adding # <<>>
    /\ starting = "group" => ahead > 0
    /\ adding' = Tail(adding)
    /\ stream' \in {stream, Append(stream, Head(adding))}
    /\ ahead' = IF ahead > 0 THEN ahead - 1 ELSE 0
    /\ UNCHANGED <<subscribed, starting, current, loopVars, groupVars, rowVars, limit, histVars>>

-----------------------------------------------------------------------------
(* consume.ts: the loop.                                                   *)

\* Mutant of Read: the group hands out what it has handed out already.
ReadAgain(c) ==
    LET from == IF last > 0 THEN last - 1 ELSE 0
        n == IF Len(stream) - from < ReadCount THEN Len(stream) - from ELSE ReadCount IN
    /\ at[c] = "reading" /\ last < Len(stream)
    /\ lo' = [lo EXCEPT ![c] = from + 1]
    /\ hi' = [hi EXCEPT ![c] = from + n]
    /\ last' = from + n
    /\ pel' = pel \cup (from + 1 .. from + n)
    /\ Goes(c, "looking")
    /\ UNCHANGED <<wiringVars, running, adding, stream, group, acked, retry, dlq,
                   rowVars, limit, histVars>>

\* What XREADGROUP with ">" delivers: entries nobody has been handed.
BatchEnd == IF last + ReadCount < Len(stream) THEN last + ReadCount ELSE Len(stream)

Deliver ==
    /\ last < Len(stream)
    /\ last' = BatchEnd
    /\ pel' = pel \cup (last + 1 .. BatchEnd)
    /\ UNCHANGED <<wiringVars, running, adding, stream, group, acked, retry, dlq,
                   rowVars, limit, failed, skipped, unwired>>

Read(c) ==
    /\ at[c] = "reading"
    /\ Deliver
    /\ lo' = [lo EXCEPT ![c] = last + 1]
    /\ hi' = [hi EXCEPT ![c] = BatchEnd]
    /\ Goes(c, "looking")
    /\ UNCHANGED dropped

\* Redis hands a batch out and its reply is lost: the loop calls ">" again.
ReadLost(c) ==
    /\ at[c] = "reading"
    /\ Deliver
    /\ dropped' = dropped \cup (last + 1 .. BatchEnd)
    /\ UNCHANGED <<at, lo, hi>>

\* It times out or throws after stop(); while `running` it is simply called again.
ReadEnds(c) ==
    /\ at[c] = "reading" /\ ~running[c]
    /\ Goes(c, "off")
    /\ UNCHANGED <<wiringVars, running, lo, hi, adding, stream, groupVars, rowVars, limit, histVars>>

\* normalize(), the upserts of contact and conversation, and the look-up.
Look(c) ==
    /\ at[c] = "looking"
    /\ Msg(c) \notin Bad
    /\ Goes(c, IF Msg(c) \in rows THEN "acking" ELSE "creating")
    /\ UNCHANGED <<wiringVars, running, lo, hi, adding, stream, groupVars, rowVars, limit, histVars>>

\* Mutant of Create: the unique violation is not told from success.
CreateTwice(c) ==
    /\ at[c] = "creating"
    /\ rows' = rows \cup {Msg(c)}
    /\ enqueued' = IF Msg(c) \in Media
                   THEN [enqueued EXCEPT ![Msg(c)] = @ + 1] ELSE enqueued
    /\ Goes(c, "publishing")
    /\ UNCHANGED <<wiringVars, running, lo, hi, adding, stream, groupVars, notified, limit,
                   histVars>>

\* message.create, and media enqueued if startIngest has a socket registered; or
\* P2002, somebody else's row.
Create(c) ==
    /\ at[c] = "creating"
    /\ \/ /\ Msg(c) \in rows
          /\ Goes(c, "acking")
          /\ UNCHANGED <<rows, enqueued, unwired>>
       \/ /\ Msg(c) \notin rows
          /\ rows' = rows \cup {Msg(c)}
          /\ enqueued' = IF Msg(c) \in Media /\ subscribed
                         THEN [enqueued EXCEPT ![Msg(c)] = @ + 1] ELSE enqueued
          /\ unwired' = IF Msg(c) \in Media /\ ~subscribed
                        THEN unwired \cup {Msg(c)} ELSE unwired
          /\ Goes(c, "publishing")
    /\ UNCHANGED <<wiringVars, running, lo, hi, adding, stream, groupVars, notified, limit,
                   dropped, failed, skipped>>

Publish(c) ==
    /\ at[c] = "publishing"
    /\ notified' = [notified EXCEPT ![Msg(c)] = @ + 1]
    /\ Goes(c, "acking")
    /\ UNCHANGED <<wiringVars, running, lo, hi, adding, stream, groupVars, rows,
                   enqueued, limit, histVars>>

\* DEL of the retry counter, then XACK.
Ack(c) ==
    /\ at[c] = "acking"
    /\ pel' = pel \ {lo[c]}
    /\ acked' = acked \cup {lo[c]}
    /\ retry' = [retry EXCEPT ![lo[c]] = 0]
    /\ NextEntry(c)
    /\ UNCHANGED <<wiringVars, adding, stream, group, last, dlq, rowVars, limit, histVars>>

\* Whatever is awaited throws; what was asked may have been done all the same.
\* (The DEL before XACK has nothing to delete: the entry has not failed before.)
Fail(c) ==
    /\ at[c] \in {"looking", "creating", "publishing", "acking"}
    /\ \/ UNCHANGED <<rows, notified, pel, acked>>
       \/ /\ at[c] = "creating"
          /\ rows' = rows \cup {Msg(c)}
          /\ UNCHANGED <<notified, pel, acked>>
       \/ /\ at[c] = "publishing"
          /\ notified' = [notified EXCEPT ![Msg(c)] = @ + 1]
          /\ UNCHANGED <<rows, pel, acked>>
       \/ /\ at[c] = "acking"
          /\ pel' = pel \ {lo[c]}
          /\ acked' = acked \cup {lo[c]}
          /\ UNCHANGED <<rows, notified>>
    /\ Goes(c, "failed")
    /\ UNCHANGED <<wiringVars, running, lo, hi, adding, stream, group, last, retry, dlq,
                   enqueued, limit, histVars>>

\* Mutant of CountFailure: the exception abandons the rest of the batch.
CountFailureAborts(c) ==
    /\ at[c] = "failed"
    /\ retry' = [retry EXCEPT ![lo[c]] = @ + 1]
    /\ IF retry[lo[c]] + 1 >= limit
       THEN Goes(c, "poison") /\ failed' = failed
       ELSE Goes(c, "reading") /\ failed' = failed \cup {lo[c]}
    /\ hi' = [hi EXCEPT ![c] = lo[c]]
    /\ UNCHANGED <<wiringVars, running, lo, adding, stream, group, last, pel, acked, dlq,
                   rowVars, limit, dropped, skipped, unwired>>

\* Mutant of CountFailure: off by one at the limit.
CountFailurePast(c) ==
    /\ at[c] = "failed"
    /\ retry' = [retry EXCEPT ![lo[c]] = @ + limit + 1]
    /\ Goes(c, "poison")
    /\ UNCHANGED <<wiringVars, running, lo, hi, adding, stream, group, last, pel, acked, dlq,
                   rowVars, limit, histVars>>

\* Mutant of CountFailure: the exception ends the loop.
CountFailureEnds(c) ==
    /\ at[c] = "failed"
    /\ Goes(c, "off")
    /\ UNCHANGED <<wiringVars, running, lo, hi, adding, stream, groupVars, rowVars, limit, histVars>>

\* HINCRBY; an entry below the limit is left pending, for nobody to read again.
CountFailure(c) ==
    /\ at[c] = "failed"
    /\ retry' = [retry EXCEPT ![lo[c]] = @ + 1]
    /\ IF retry[lo[c]] + 1 >= limit
       THEN Goes(c, "poison") /\ UNCHANGED <<running, lo, hi, failed>>
       ELSE NextEntry(c) /\ failed' = failed \cup {lo[c]}
    /\ UNCHANGED <<wiringVars, adding, stream, group, last, pel, acked, dlq,
                   rowVars, limit, dropped, skipped, unwired>>

\* Mutant of Poison: acknowledged first, copied afterwards.
PoisonAcksFirst(c) ==
    /\ at[c] = "poison"
    /\ pel' = pel \ {lo[c]}
    /\ acked' = acked \cup {lo[c]}
    /\ Goes(c, "dead")
    /\ UNCHANGED <<wiringVars, running, lo, hi, adding, stream, group, last, retry, dlq,
                   rowVars, limit, histVars>>

\* XADD to the dead-letter stream.
Poison(c) ==
    /\ at[c] = "poison"
    /\ dlq' = dlq \cup {lo[c]}
    /\ Goes(c, "dead")
    /\ UNCHANGED <<wiringVars, running, lo, hi, adding, stream, group, last, pel, acked,
                   retry, rowVars, limit, histVars>>

\* XACK, then DEL of the retry counter.
Bury(c) ==
    /\ at[c] = "dead"
    /\ pel' = pel \ {lo[c]}
    /\ acked' = acked \cup {lo[c]}
    /\ retry' = [retry EXCEPT ![lo[c]] = 0]
    /\ NextEntry(c)
    /\ UNCHANGED <<wiringVars, adding, stream, group, last, dlq, rowVars, limit, histVars>>

\* EXPIRE of a retry counter, 24 hours after the first failure.
RetryExpires(e) ==
    /\ retry[e] > 0
    /\ retry' = [retry EXCEPT ![e] = 0]
    /\ UNCHANGED <<wiringVars, loopVars, adding, stream, group, last, pel, acked, dlq,
                   rowVars, limit, histVars>>

-----------------------------------------------------------------------------
\* The process dies: killed, exited by shutdown() without waiting for its
\* loops, or ended by a rejection nobody handles (a Redis error while counting
\* a failure).  The XADDs it had issued may or may not have run.
Crash ==
    /\ subscribed' = FALSE /\ starting' = "no" /\ current' = NoConsumer /\ ahead' = 0
    /\ running' = [c \in Consumers |-> FALSE]
    /\ at' = [c \in Consumers |-> "off"]
    /\ lo' = [c \in Consumers |-> 1] /\ hi' = [c \in Consumers |-> 0]
    /\ dropped' = dropped \cup HeldByAny
    /\ adding' = <<>>
    /\ limit' \in DlqMaxes
    /\ UNCHANGED <<stream, groupVars, rowVars, failed, skipped, unwired>>

Loop(c) ==
    \/ Read(c) \/ ReadLost(c) \/ ReadEnds(c) \/ Look(c) \/ Create(c) \/ Publish(c) \/ Ack(c)
    \/ Fail(c) \/ CountFailure(c) \/ Poison(c) \/ Bury(c)

Next ==
    \/ StartIngest \/ Subscribe \/ StopIngest \/ StartFails
    \/ \E c \in Consumers : GroupReady(c) \/ Loop(c)
    \/ \E m \in Msgs : Upsert(m)
    \/ Added
    \/ \E e \in Entries : RetryExpires(e)
    \/ Crash

Spec == Init /\ [][Next]_vars

\* Redis and Postgres answer.  Sockets, errors and crashes owe nothing.
FairSpec ==
    /\ Spec
    /\ \A c \in Consumers : WF_vars(Loop(c))
    /\ WF_vars(Added)

-----------------------------------------------------------------------------
(* Properties.                                                             *)

\* No entry is acknowledged and lost: its message has a row, or the entry is
\* in the dead-letter stream, whatever failed, raced or crashed in between.
AckedIsSafe == \A e \in acked : e \in dlq \/ stream[e] \in rows

\* However often a message arrives, and whichever loops process it at once, the
\* browser is told of it and its media is enqueued at most once, after its row.
NotifiedOnce ==
    \A m \in Msgs : /\ notified[m] <= 1 /\ enqueued[m] <= 1
                    /\ notified[m] = 1 \/ enqueued[m] = 1 => m \in rows

\* Two loops of a user that overlap never hold the same entry.
OneHolder ==
    \A c, d \in Consumers : c # d => Held(c) \cap Held(d) = {}

\* An entry that was handed out and not acknowledged is in a loop's hands, or it
\* failed itself and its failures are few, or its process died or a reply was lost:
\* a failing message never takes the rest of its batch along.
PendingAccounted == pel \subseteq HeldByAny \cup dropped \cup failed

\* While a consumer stays registered, every entry of the stream is acknowledged, or
\* ends in one of the ways just named: no message blocks those behind it.  What was
\* in the stream before the group existed is not part of the promise.
EntriesDelivered ==
    <>[](current # NoConsumer) =>
        \A e \in Entries :
            e <= Len(stream) ~> e \in acked \cup dropped \cup failed \cup skipped
=============================================================================
