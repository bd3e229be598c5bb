------------------------------ MODULE PairPage ------------------------------
(***************************************************************************)
(* The pairing page of the web client (packages/web/src/routes/Pair.tsx)   *)
(* and the disconnect dialog (components/DisconnectDialog.tsx), in front   *)
(* of the pair machine of their user.                                      *)
(*                                                                         *)
(* The page keeps a view of its own and moves it by the last answer of     *)
(* /pair/status, which react-query caches: across the visits of the page,  *)
(* and shared with the dashboard.  It asks again only while a pairing is   *)
(* under way, and a request it starts may find the state of an earlier     *)
(* pairing, because its own command is still in the stream.                *)
(*                                                                         *)
(* The machine is PairFlow; its state is written to the key that           *)
(* /pair/status reads (PairCommands has that way in detail).  react-query  *)
(* is external: one status request at a time, and a refetch replaces the   *)
(* one under way if there is data already.                                 *)
(***************************************************************************)
EXTENDS PairFlow

CONSTANT MaxCommands \* bound: commands in the stream

ASSUME CommandsAssumption == MaxCommands \in Nat \ {0}

VARIABLES
    key,    \* what /pair/status reads: the state key, "none" if it is deleted
    sent,   \* commands in the stream, the one being carried out included
    ui,     \* uiState, or "away": another page is shown
    data,   \* statusQuery.data.state, "unset" before there is an answer
    ask,    \* the status request: "no", "sent", or the state it has read
    init,   \* initMutation: "no", "sent", or the answer on its way back, if the
            \* page is to react to it
    stop,   \* disconnectMutation, likewise
    wait,   \* the countdown of a rate limit runs
    old,    \* history: the answer on its way was read before a pairing that was
            \* asked for had begun, or its state was written
    stale   \* history: since the page's last /pair/init it has stopped polling on
            \* such an answer, or on the one it had before

serverVars == <<flowVars, key, sent>>
pageVars   == <<ui, data, ask, init, stop, wait, old, stale>>
allPageVars == <<serverVars, pageVars>>

Views     == {"tos_gate", "generating", "awaiting_scan", "paired", "error", "expired",
              "rate_limited"}
Polling   == {"generating", "awaiting_scan"}
Answers   == PairState \cup {"none"}
HasView   == PairState \ {"idle"}

PageTypeOK ==
    /\ key \in Answers
    /\ sent \in Seq({"init", "stop"})
    /\ ui \in Views \cup {"away"}
    /\ data \in Answers \cup {"unset"}
    /\ ask \in Answers \cup {"no", "sent"}
    /\ init \in {"no", "sent", "ok", "limited"} /\ stop \in {"no", "sent", "ok"}
    /\ wait \in BOOLEAN
    /\ old \in BOOLEAN /\ stale \in BOOLEAN

-----------------------------------------------------------------------------
(* The view.                                                               *)

\* deriveUiFromServer.
deriveUiFromServer(answer, view) ==
    CASE view = "tos_gate" -> IF answer = "paired" THEN "paired" ELSE view
      [] view = "rate_limited" -> view
      [] OTHER -> IF answer \in HasView THEN answer ELSE view

\* The effect that follows every change of the view or of the data.
Shows(view, answer) ==
    ui' = IF view = "away" THEN view ELSE deriveUiFromServer(answer, view)

\* statusQuery.refetch and invalidateQueries: the request under way is dropped.
Refetch ==
    IF data = "unset" /\ ask # "no" THEN UNCHANGED <<ask, old>> ELSE ask' = "sent" /\ old' = FALSE

\* A fetch that is not forced joins the one under way.
Fetch == ask' = IF ask = "no" THEN "sent" ELSE ask

\* A pairing that was asked for has not begun, or its state is not in the key.
Waiting ==
    \/ init = "sent"
    \/ key \in HasView /\ key # state
    \/ cmd # "start" /\ \E i \in DOMAIN sent : sent[i] = "init"

PageInit ==
    /\ FlowInit
    /\ key = "none" /\ sent = <<>>
    /\ ui = "away" /\ data = "unset" /\ ask = "no"
    /\ init = "no" /\ stop = "no" /\ wait = FALSE
    /\ old = FALSE /\ stale = FALSE

-----------------------------------------------------------------------------
(* The server.                                                             *)

At(c) == sent # <<>> /\ Head(sent) = c

\* Commands are carried out one by one, and every change of state is written, or
\* rejected and left.
Pairing ==
    /\ UNCHANGED <<stray, pageVars>>
    /\ \/ /\ \/ FlowResume \/ FlowBooted
             \/ FlowResumed /\ state = "idle"
             \/ FlowQr /\ state = "generating"
             \/ FlowOpen \/ FlowFail \/ FlowExpire \/ FlowStarted
             \/ At("init") /\ (FlowDispose("startDispose") \/ FlowStart)
             \/ At("stop") /\ FlowDispose("stop")
          /\ sent' = IF cmd # "none" /\ cmd' = "none" THEN Tail(sent) ELSE sent
       \/ At("stop") /\ FlowStop /\ sent' = Tail(sent)
    /\ key' = key \/ (key' = state' /\ out' # <<>>)

\* stop() of a user without an entry returns at once.
StopAbsent ==
    /\ ~boot /\ At("stop") /\ state = "absent"
    /\ sent' = Tail(sent)
    /\ out' = <<>>
    /\ UNCHANGED <<state, cmd, boot, armed, stray, key, pageVars>>

ApiOnly == out' = <<>> /\ UNCHANGED <<state, cmd, boot, armed, stray>>

\* POST /pair/init: limited, failed, or on the stream; and it may fail when the
\* command is there already.  Who is told of a failure is where he was.
ServeInit ==
    /\ init = "sent"
    /\ \/ /\ Len(sent) < MaxCommands
          /\ init' \in {"ok", "no"} /\ sent' = Append(sent, "init")
       \/ init' \in {"limited", "no"} /\ UNCHANGED sent
    /\ ApiOnly
    /\ UNCHANGED <<key, ui, data, ask, stop, wait, old, stale>>

\* POST /pair/disconnect: the key is deleted, then the command is sent, then the
\* row is written, and it may fail between any two.
ServeStop ==
    /\ stop = "sent"
    /\ \/ /\ Len(sent) < MaxCommands
          /\ stop' \in {"ok", "no"} /\ key' = "none" /\ sent' = Append(sent, "stop")
       \/ stop' = "no" /\ key' \in {key, "none"} /\ UNCHANGED sent
    /\ ApiOnly
    /\ UNCHANGED <<ui, data, ask, init, wait, old, stale>>

\* GET /pair/status reads the key.
ServeStatus ==
    /\ ask = "sent"
    /\ ask' = key
    /\ old' = Waiting
    /\ ApiOnly
    /\ UNCHANGED <<key, sent, ui, data, init, stop, wait, stale>>

-----------------------------------------------------------------------------
(* The page.                                                               *)

PageOnly == out' = <<>> /\ UNCHANGED <<state, cmd, boot, armed, stray, key, sent>>

\* The page is mounted: it shows what the cache has, and asks.
Mount ==
    /\ ui = "away"
    /\ ui' = deriveUiFromServer(data, "tos_gate")
    /\ Fetch
    /\ PageOnly
    /\ UNCHANGED <<data, init, stop, wait, old, stale>>

\* The user leaves; whoever waits for an answer to a command stays.
Leave ==
    /\ ui # "away" /\ init = "no" /\ stop = "no"
    /\ ui' = "away" /\ wait' = FALSE /\ stale' = FALSE
    /\ PageOnly
    /\ UNCHANGED <<data, ask, init, stop, old>>

\* Nobody has observed the cached answer for five minutes.
CacheDropped ==
    /\ ui = "away" /\ ask = "no" /\ data # "unset"
    /\ data' = "unset"
    /\ PageOnly
    /\ UNCHANGED <<ui, ask, init, stop, wait, old, stale>>

\* The buttons of the views.
Initialize ==
    /\ ui = "tos_gate" /\ init = "no"
    /\ init' = "sent"
    /\ old' = (ask \in Answers)
    /\ PageOnly
    /\ UNCHANGED <<ui, data, ask, stop, wait, stale>>

Retry ==
    /\ ui \in {"error", "expired"}
    /\ Shows("tos_gate", data)
    /\ PageOnly
    /\ UNCHANGED <<data, ask, init, stop, wait, old, stale>>

\* The status query is enabled again, and asks.
RateLimitRetry ==
    /\ ui = "rate_limited" /\ ~wait
    /\ Shows("tos_gate", data)
    /\ Fetch
    /\ PageOnly
    /\ UNCHANGED <<data, init, stop, wait, old, stale>>

Refresh ==
    /\ ui = "paired" /\ ask = "no"
    /\ Refetch
    /\ PageOnly
    /\ UNCHANGED <<ui, data, init, stop, wait, stale>>

\* From the page, or from the chats.
Disconnect ==
    /\ ui \in {"paired", "away"} /\ stop = "no"
    /\ stop' = "sent"
    /\ PageOnly
    /\ UNCHANGED <<ui, data, ask, init, wait, old, stale>>

\* Mutant of InitOk: the effect follows the data only.
InitOkUnderived ==
    /\ init = "ok" /\ init' = "no"
    /\ ui' = "generating"
    /\ Refetch
    /\ stale' = FALSE
    /\ PageOnly
    /\ UNCHANGED <<data, stop, wait>>

\* Answers and timers.
InitOk ==
    /\ init = "ok" /\ init' = "no"
    /\ Shows("generating", data)
    /\ Refetch
    /\ stale' = (ui' \notin Polling)
    /\ PageOnly
    /\ UNCHANGED <<data, stop, wait>>

InitLimited ==
    /\ init = "limited" /\ init' = "no"
    /\ ui' = "rate_limited" /\ wait' = TRUE
    /\ PageOnly
    /\ UNCHANGED <<data, ask, stop, old, stale>>

\* The dialog closes; on any other page the user is taken to this one.
StopOk ==
    /\ stop = "ok" /\ stop' = "no"
    /\ IF ui = "away"
       THEN /\ ui' = deriveUiFromServer(data, "tos_gate")
            /\ Fetch /\ UNCHANGED old
       ELSE Refetch /\ UNCHANGED ui
    /\ PageOnly
    /\ UNCHANGED <<data, init, wait, stale>>

CountdownEnds ==
    /\ wait /\ wait' = FALSE
    /\ PageOnly
    /\ UNCHANGED <<ui, data, ask, init, stop, old, stale>>

\* Mutant of Poll: no polling once the QR code is there.
PollGenerating ==
    /\ ui = "generating" /\ ask = "no"
    /\ Fetch
    /\ PageOnly
    /\ UNCHANGED <<ui, data, init, stop, wait, old, stale>>

\* refetchInterval, while a pairing is under way.
Poll ==
    /\ ui \in Polling /\ ask = "no"
    /\ Fetch
    /\ PageOnly
    /\ UNCHANGED <<ui, data, init, stop, wait, old, stale>>

Answered ==
    /\ ask \in Answers /\ ask' = "no"
    /\ data' = ask
    /\ Shows(ui, ask)
    /\ stale' = (stale \/ (old /\ ui' # ui /\ ui' \notin Polling))
    /\ old' = FALSE
    /\ PageOnly
    /\ UNCHANGED <<init, stop, wait>>

\* The request fails; it is not retried, and the cached answer stays.
StatusFails ==
    /\ ask # "no" /\ ask' = "no" /\ old' = FALSE
    /\ PageOnly
    /\ UNCHANGED <<ui, data, init, stop, wait, stale>>

-----------------------------------------------------------------------------
Server == Pairing \/ StopAbsent \/ ServeInit \/ ServeStop \/ ServeStatus

User ==
    \/ Mount \/ Leave \/ Initialize \/ Retry \/ RateLimitRetry
    \/ Refresh \/ Disconnect

Page ==
    \/ CacheDropped \/ InitOk \/ InitLimited \/ StopOk
    \/ CountdownEnds \/ Poll \/ Answered \/ StatusFails

PageNext == Server \/ User \/ Page

PageSpec == PageInit /\ [][PageNext]_allPageVars

\* The page polls, and not every one of its requests fails.  Nobody owes a click,
\* a scan, or an answer to a command.
PageFairness ==
    /\ WF_allPageVars(Poll)
    /\ SF_allPageVars(ServeStatus) /\ SF_allPageVars(Answered)

FairPageSpec == PageSpec /\ PageFairness

-----------------------------------------------------------------------------
(* Properties.                                                             *)

\* The view that the page keeps for itself and the last answer it has, after every step:
\* if that answer has a view, no other view of the machine is shown (the terms and the
\* countdown are the page's own), and nobody is asked to pair whom it says is paired; and
\* no view of the machine's comes up that it does not call for, but the one
\* that an accepted /pair/init begins.  An answer `none` or `idle` has no view and leaves the
\* one there is, whatever that is (also `paired`, after a disconnect).
ViewFits ==
    [][/\ ui' = "tos_gate" => data' # "paired"
       /\ ui' \in HasView /\ data' \in HasView => ui' = data'
       /\ ui' \in HasView \ {ui} => data' \in HasView \/ init = "ok"]_allPageVars

\* The page follows the pairing: while it polls, it comes to show the state the
\* pairing has; and it does not keep showing the failure of an earlier one while
\* a pairing it asked for is under way, unless it was answered before that
\* pairing began or its state was written.
PageFollows ==
    []<>(/\ key \in HasView /\ sent = <<>> /\ init = "no"
         /\ \/ ui \in Polling
            \/ key \in MidPair /\ ui \in {"error", "expired"} /\ ~stale
         => ui = key)
=============================================================================
