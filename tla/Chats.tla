-------------------------------- MODULE Chats --------------------------------
(***************************************************************************)
(* A list of the chats page, kept current by events: the conversations     *)
(* (packages/web/src/components/ConversationList.tsx, api/src/routes/      *)
(* conversations.ts) or the messages of the selected conversation          *)
(* (MessageList.tsx, routes/messages.ts).                                  *)
(*                                                                         *)
(* The list is loaded page by page, each page by a cursor taken from the   *)
(* one before it, while the worker writes (worker/src/ingest/persist.ts).  *)
(* A write is announced after it is done; the announcement reaches the     *)
(* browser if an event stream is open at that moment (routes/events.ts,    *)
(* hooks/useEventStream.ts), and makes it load all its pages again         *)
(* (Chats.tsx).  Nothing else does, but coming back to the list.           *)
(*                                                                         *)
(* react-query is external: a refetch runs through the pages one after     *)
(* another, each cursor from the page just read; an invalidation replaces  *)
(* a fetch under way if there is data, and joins it if there is none;      *)
(* fetchNextPage replaces a refetch under way.                             *)
(***************************************************************************)
EXTENDS Integers, Sequences, FiniteSets

CONSTANTS
    Rows,      \* ids of conversations, or of messages: numbers, for their order
    MaxTime,   \* bound: timestamps, in seconds
    Limit,     \* rows of a page
    MaxWrites, \* bound: writes while the page is watched
    MaxEvents  \* bound: events on their way to the browser

ASSUME RowsAssumption == Rows \subseteq Nat /\ IsFiniteSet(Rows)
ASSUME LimitAssumption == Limit \in Nat \ {0}

VARIABLES
    kind,    \* which list: "conversations" or "messages"
    time,    \* per row: lastMessageAt or timestamp, 0 without a row
    writing, \* a message is written, and not announced yet
    writes,  \* writes so far
    stream,  \* the event stream: down, asked (no answer, or open and not
             \* subscribed), live
    fresh,   \* the access token is valid
    events,  \* announcements on their way to the browser
    watched, \* the list is shown
    pages,   \* the pages of the cache
    fetch,   \* the fetch under way: what it is for, pages read, pages wanted
    dropped  \* history: since the last time all pages began to load, an
             \* announcement was not made, not heard, or its refetch did not finish

dbVars    == <<kind, time, writing, writes>>
streamVars == <<stream, fresh, events>>
cacheVars == <<watched, pages, fetch, dropped>>
chatVars  == <<dbVars, streamVars, cacheVars>>

Present  == {r \in Rows : time[r] # 0}
NoFetch  == [op |-> "none", got |-> <<>>, want |-> 0]
LastOf(s) == s[Len(s)]

-----------------------------------------------------------------------------
(* The pages of the API.                                                   *)

\* orderBy: conversations by lastMessageAt and id, messages by timestamp alone.
Before(a, b) ==
    \/ a.time > b.time
    \/ kind = "conversations" /\ a.time = b.time /\ a.id < b.id

\* nextCursor, or the timestamp of the oldest message: the last row of a page.
Cursor(page) == LastOf(page)

\* where: the rows after the cursor.
AfterCursor(page) ==
    {x \in {[id |-> r, time |-> time[r]] : r \in Present} :
        page = <<>> \/ Before(Cursor(page), x)}

\* take limit + 1: a page, in any order that orderBy allows, and whether there is more.
Reads(page) ==
    LET found == AfterCursor(page)
        n == IF Cardinality(found) > Limit THEN Limit ELSE Cardinality(found)
    IN  {[rows |-> s, more |-> Cardinality(found) > Limit] :
            s \in {s \in [1..n -> found] :
                      /\ \A i, j \in 1..n : i < j => s[i] # s[j] /\ ~Before(s[j], s[i])
                      /\ \A x \in found : (\E i \in 1..n : Before(x, s[i]))
                                              => \E i \in 1..n : s[i] = x}}

-----------------------------------------------------------------------------
(* The query.                                                              *)

\* Mutant of Reload: an invalidation goes on with the pages read so far.
ReloadRest ==
    /\ fetch' = [op |-> "all", got |-> IF fetch.op = "all" THEN fetch.got ELSE <<>>,
                 want |-> IF pages = <<>> THEN 1 ELSE Len(pages)]
    /\ dropped' = FALSE

\* All pages are loaded again.
Reload ==
    /\ fetch' = [op |-> "all", got |-> <<>>,
                 want |-> IF pages = <<>> THEN 1 ELSE Len(pages)]
    /\ dropped' = FALSE

\* A refetch that is not forced joins the fetch under way.
Join ==
    IF fetch = NoFetch THEN Reload
    ELSE UNCHANGED <<fetch, dropped>>

ChatInit ==
    /\ kind \in {"conversations", "messages"}
    /\ time \in [Rows -> 0..MaxTime]
    /\ writing = FALSE /\ writes = 0
    /\ stream = "down" /\ fresh = TRUE /\ events = 0
    /\ watched = TRUE
    /\ pages = <<>>
    /\ fetch = [op |-> "all", got |-> <<>>, want |-> 1]
    /\ dropped = FALSE

-----------------------------------------------------------------------------
(* The worker: persist().                                                  *)

\* The conversation's lastMessageAt becomes the message's time, be it older, and
\* the message known already; or the message is created.
Write(r, t) ==
    /\ ~writing /\ writes < MaxWrites
    /\ kind = "messages" => time[r] = 0
    /\ time' = [time EXCEPT ![r] = t]
    /\ writing' = TRUE /\ writes' = writes + 1
    /\ UNCHANGED <<kind, streamVars, cacheVars>>

\* redis.publish, heard if the stream is subscribed.
Publish ==
    /\ writing /\ writing' = FALSE
    /\ IF stream = "live"
       THEN events < MaxEvents /\ events' = events + 1 /\ UNCHANGED dropped
       ELSE dropped' = TRUE /\ UNCHANGED events
    /\ UNCHANGED <<kind, time, writes, stream, fresh, watched, pages, fetch>>

\* A message that exists already, a failure, or a crash: nothing is announced.
NotPublished ==
    /\ writing /\ writing' = FALSE
    /\ dropped' = TRUE
    /\ UNCHANGED <<kind, time, writes, streamVars, watched, pages, fetch>>

-----------------------------------------------------------------------------
(* useEventStream and routes/events.ts.                                    *)

\* requireAuth: the token comes with the request, or in the URL of the stream.
Authorized == fresh

Connect ==
    /\ stream = "down" /\ (kind = "messages" \/ watched)
    /\ stream' = "asked"
    /\ UNCHANGED <<dbVars, fresh, events, cacheVars>>

\* The headers are flushed before subscriber.subscribe has reached Redis.  If that
\* fails, nobody is told: the stream stays open and hears nothing.
Subscribed ==
    /\ stream = "asked" /\ Authorized
    /\ stream' = "live"
    /\ UNCHANGED <<dbVars, fresh, events, cacheVars>>

Drop ==
    /\ events' = 0
    /\ dropped' = (dropped \/ events > 0)

\* The error handler, after a 401 or 429 or a lost connection; the backoff follows.
Broken ==
    /\ stream \in {"asked", "live"}
    /\ stream' = "down"
    /\ Drop
    /\ UNCHANGED <<dbVars, fresh, watched, pages, fetch>>

TokenExpires ==
    /\ fresh /\ fresh' = FALSE
    /\ UNCHANGED <<dbVars, stream, events, cacheVars>>

\* tryRefresh: a request of the query finds the token expired.
TokenRefreshed ==
    /\ ~fresh /\ fetch # NoFetch
    /\ fresh' = TRUE
    /\ UNCHANGED <<dbVars, stream, events, cacheVars>>

-----------------------------------------------------------------------------
(* Chats.tsx and the lists.                                                *)

\* Mutant of Invalidates: an event during a fetch is covered by that fetch.
InvalidatesIdle ==
    IF fetch # NoFetch THEN UNCHANGED <<fetch, dropped>> ELSE Reload

\* invalidateQueries, forced if there is data.
Invalidates ==
    IF pages = <<>> /\ fetch # NoFetch
    THEN /\ dropped' = (dropped \/ fetch.got # <<>>)
         /\ UNCHANGED fetch
    ELSE Reload

\* An event arrives; of messages, only the selected conversation's counts.
Event ==
    /\ events > 0 /\ events' = events - 1
    /\ IF watched THEN Invalidates ELSE dropped' = TRUE /\ UNCHANGED fetch
    /\ UNCHANGED <<dbVars, stream, fresh, watched, pages>>

\* The user leaves the page, or selects another conversation.
Leave ==
    /\ watched /\ watched' = FALSE
    /\ IF kind = "conversations"
       THEN stream' = "down" /\ Drop
       ELSE UNCHANGED <<stream, events, dropped>>
    /\ UNCHANGED <<dbVars, fresh, pages, fetch>>

\* Coming back loads again what is there.
Return ==
    /\ ~watched /\ watched' = TRUE
    /\ Join
    /\ UNCHANGED <<dbVars, streamVars, pages>>

\* fetchNextPage.
LoadMore ==
    /\ watched /\ pages # <<>> /\ LastOf(pages).more
    /\ fetch.op # "more"
    /\ fetch' = [op |-> "more", got |-> pages, want |-> Len(pages) + 1]
    /\ dropped' = (dropped \/ fetch.op = "all")
    /\ UNCHANGED <<dbVars, streamVars, watched, pages>>

WantsMore ==
    /\ fetch # NoFetch /\ Len(fetch.got) < fetch.want
    /\ fetch.got # <<>> => LastOf(fetch.got).more

\* The server reads one page.
ReadPage ==
    /\ WantsMore /\ Authorized
    /\ \E p \in Reads(IF fetch.got = <<>> THEN <<>> ELSE LastOf(fetch.got).rows) :
           fetch' = [fetch EXCEPT !.got = Append(@, p)]
    /\ UNCHANGED <<dbVars, streamVars, watched, pages, dropped>>

\* The last answer has arrived.
Loaded ==
    /\ fetch # NoFetch /\ ~WantsMore
    /\ pages' = fetch.got
    /\ fetch' = NoFetch
    /\ UNCHANGED <<dbVars, streamVars, watched, dropped>>

\* A request has failed twice.
LoadFails ==
    /\ fetch # NoFetch
    /\ fetch' = NoFetch
    /\ dropped' = (dropped \/ fetch.op = "all")
    /\ UNCHANGED <<dbVars, streamVars, watched, pages>>

-----------------------------------------------------------------------------
Worker == Publish \/ NotPublished \/ \E r \in Rows, t \in 1..MaxTime : Write(r, t)

Stream == Connect \/ Subscribed \/ Broken \/ TokenExpires \/ TokenRefreshed

List == Event \/ Leave \/ Return \/ LoadMore \/ ReadPage \/ Loaded \/ LoadFails

ChatNext == Worker \/ Stream \/ List

ChatSpec == ChatInit /\ [][ChatNext]_chatVars

\* What was written is announced or not, what was sent arrives or is lost with its
\* stream, and a request ends.  Nothing is assumed of the stream: it may be refused
\* (the cap of SseStreams, an expired token) or deaf for good.
FairChatSpec ==
    /\ ChatSpec
    /\ WF_chatVars(Publish \/ NotPublished) /\ WF_chatVars(Event)
    /\ WF_chatVars(ReadPage \/ Loaded \/ LoadFails)

-----------------------------------------------------------------------------
(* Properties.                                                             *)

ShownRows == {[page |-> p, at |-> i] : p \in 1..Len(pages), i \in 1..Limit}
Slots     == {x \in ShownRows : x.at <= Len(pages[x.page].rows)}
At(x)     == pages[x.page].rows[x.at]

\* A message of the same second as the last one of a page is not on the next page.
CutOff(r) ==
    /\ kind = "messages"
    /\ \E p \in 1..Len(pages) :
           /\ pages[p].rows # <<>> /\ pages[p].more
           /\ LastOf(pages[p].rows).time = time[r]

\* Every row down to where the pages end, once, in order and with its present time.
Current ==
    /\ \A x \in Slots : At(x).time = time[At(x).id]
    /\ \A x, y \in Slots : At(x).id = At(y).id => x = y
    /\ \A x, y \in Slots : x.page < y.page => ~Before(At(y), At(x))
    /\ \A r \in Present :
           \/ \E x \in Slots : At(x).id = r
           \/ CutOff(r)
           \/ LastOf(pages).more /\ \A x \in Slots : ~Before([id |-> r, time |-> time[r]], At(x))

\* No write, no event and no fetch is under way.
Settled == ~writing /\ events = 0 /\ fetch = NoFetch

\* What the user sees is what the database has: when all has settled, the list is
\* current, however writes, moves of conversations, page loads and events overlapped,
\* unless a message is cut off or an announcement was dropped.
ListCurrent == watched /\ Settled /\ pages # <<>> /\ ~dropped => Current

\* And it settles: a list that stays in view, and of which no announcement is missing,
\* is loaded and current again after every burst of events, although each of them
\* throws away the reload that the one before it began.
ListCatchesUp == <>[](watched /\ ~dropped) => []<>(Settled /\ pages # <<>> /\ Current)
=============================================================================
