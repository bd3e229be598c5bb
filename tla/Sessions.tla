------------------------------ MODULE Sessions ------------------------------
(***************************************************************************)
(* The sign-in of ONE user in one browser: the refresh tokens of           *)
(* packages/api/src/auth/service.ts, the routes that hand them out         *)
(* (routes/auth.ts), and the calls of the browser's tabs that carry the    *)
(* cookie (packages/web/src/api/client.ts, stores/auth.ts).                *)
(*                                                                         *)
(* The tabs share one cookie jar.  A call whose access token has run out   *)
(* refreshes on its own, whatever other calls do; the server looks a token *)
(* up and rotates it in two steps; and the answers, which set or clear the *)
(* cookie, arrive in any order or not at all.                              *)
(***************************************************************************)
EXTENDS Naturals, FiniteSets

CONSTANTS
    Calls,    \* calls of the tabs that may be under way at once
    MaxTokens \* bound: refresh tokens issued

ASSUME CallsAssumption == IsFiniteSet(Calls)
ASSUME TokensAssumption == MaxTokens \in Nat

Tokens  == 1..MaxTokens
NoToken == 0

VARIABLES
    jar,      \* the cookie wpa_refresh, NoToken without one
    row,      \* per token: its row in the database
    issued,   \* tokens issued so far
    call,     \* per call: where it is, the cookie it carried, the token it brings
    signedIn, \* history: no logout was answered, and no token ran out, since the last login
    crossed,  \* history: an answer changed a cookie its request had not carried
    lost,     \* history: the answer of a rotation or of a logout was lost
    replaced  \* history: tokens that were live when the user signed in anew

histVars    == <<signedIn, crossed, lost, replaced>>
sessionVars == <<jar, row, issued, call, histVars>>

Places == {"idle", "refresh", "found", "login", "logout", "set", "clear", "refused"}
Idle   == [at |-> "idle", kind |-> "none", carried |-> NoToken, brings |-> NoToken]

SessionTypeOK ==
    /\ jar \in Tokens \cup {NoToken}
    /\ row \in [Tokens -> {"none", "live", "revoked", "expired"}]
    /\ issued \in 0..MaxTokens
    /\ call \in [Calls -> [at : Places, kind : {"none", "refresh", "login", "logout"},
                           carried : Tokens \cup {NoToken},
                           brings : Tokens \cup {NoToken}]]
    /\ signedIn \in BOOLEAN /\ crossed \in BOOLEAN /\ lost \in BOOLEAN
    /\ replaced \subseteq Tokens

LiveTokens == {t \in Tokens : row[t] = "live"}
Quiet == \A c \in Calls : call[c] = Idle

At(c, place) == call[c].at = place
Goes(c, place) == call' = [call EXCEPT ![c].at = place]

SessionInit ==
    /\ jar = NoToken
    /\ row = [t \in Tokens |-> "none"]
    /\ issued = 0
    /\ call = [c \in Calls |-> Idle]
    /\ signedIn = FALSE /\ crossed = FALSE /\ lost = FALSE
    /\ replaced = {}

-----------------------------------------------------------------------------
(* The browser: the cookie of the moment goes with the request.            *)

Send(c, k) ==
    /\ At(c, "idle")
    /\ call' = [call EXCEPT ![c] = [at |-> k, kind |-> k, carried |-> jar, brings |-> NoToken]]
    /\ UNCHANGED <<jar, row, issued, histVars>>

\* tryRefresh, after any 401, and bootstrap.
Refresh(c) == Send(c, "refresh")

Login(c) == Send(c, "login")

Logout(c) == Send(c, "logout")

-----------------------------------------------------------------------------
(* The server.                                                             *)

\* rotateRefresh, up to the transaction.
Lookup(c) ==
    /\ At(c, "refresh")
    /\ LET t == call[c].carried IN
       Goes(c, IF t = NoToken THEN "refused"
               ELSE IF row[t] = "live" THEN "found" ELSE "clear")
    /\ UNCHANGED <<jar, row, issued, histVars>>

\* The answer brings the next token.
Issue(c, rows) ==
    /\ issued < MaxTokens
    /\ issued' = issued + 1
    /\ row' = [rows EXCEPT ![issued'] = "live"]
    /\ call' = [call EXCEPT ![c].at = "set", ![c].brings = issued']

\* Mutant of Rotate: the old token stays valid.
RotateKeeps(c) ==
    /\ At(c, "found")
    /\ Issue(c, row)
    /\ UNCHANGED <<jar, histVars>>

\* The transaction: it revokes the row it found, be it revoked by now.
Rotate(c) ==
    /\ At(c, "found")
    /\ Issue(c, [row EXCEPT ![call[c].carried] = "revoked"])
    /\ UNCHANGED <<jar, histVars>>

ServeLogin(c) ==
    /\ At(c, "login")
    /\ Issue(c, row)
    /\ UNCHANGED <<jar, histVars>>

Revoked(t) ==
    IF t # NoToken /\ row[t] = "live" THEN [row EXCEPT ![t] = "revoked"] ELSE row

\* Mutant of ServeLogout: forgets the row.
ServeLogoutKeeps(c) ==
    /\ At(c, "logout")
    /\ Goes(c, "clear")
    /\ UNCHANGED <<jar, row, issued, histVars>>

\* revokeRefresh: only a row that is not revoked yet.
ServeLogout(c) ==
    /\ At(c, "logout")
    /\ row' = Revoked(call[c].carried)
    /\ Goes(c, "clear")
    /\ UNCHANGED <<jar, issued, histVars>>

\* Limited, a wrong password, or an error before anything was written.
Refuse(c) ==
    /\ \E k \in {"refresh", "found", "login", "logout"} : At(c, k)
    /\ Goes(c, "refused")
    /\ UNCHANGED <<jar, row, issued, histVars>>

\* Seven days.
Expire(t) ==
    /\ row[t] = "live"
    /\ row' = [row EXCEPT ![t] = "expired"]
    /\ UNCHANGED <<jar, issued, call, histVars>>

-----------------------------------------------------------------------------
(* The answers.                                                            *)

Done(c) == call' = [call EXCEPT ![c] = Idle]

\* The user signs in anew: what was live and is not in the new cookie stays so, and
\* with nobody else under way what went before is settled.
SignsIn(c) ==
    /\ signedIn' = TRUE
    /\ replaced' = replaced \cup (LiveTokens \ {call[c].brings})
    /\ IF \A d \in Calls \ {c} : call[d] = Idle
       THEN crossed' = FALSE /\ lost' = FALSE
       ELSE /\ crossed' = (crossed \/ jar # call[c].carried)
            /\ UNCHANGED lost

\* Mutant of Set: /auth/refresh rotates and forgets res.cookie.
SetAtLogin(c) ==
    /\ At(c, "set")
    /\ IF call[c].kind = "login"
       THEN jar' = call[c].brings /\ SignsIn(c)
       ELSE UNCHANGED <<jar, signedIn, crossed, lost, replaced>>
    /\ Done(c)
    /\ UNCHANGED <<row, issued>>

\* Set-Cookie.
Set(c) ==
    /\ At(c, "set")
    /\ jar' = call[c].brings
    /\ IF call[c].kind = "login"
       THEN SignsIn(c)
       ELSE /\ crossed' = (crossed \/ jar # call[c].carried)
            /\ UNCHANGED <<signedIn, lost, replaced>>
    /\ Done(c)
    /\ UNCHANGED <<row, issued>>

RanOut(t) == t # NoToken /\ row[t] = "expired"

\* clearCookie, whichever cookie there is by now.
Clear(c) ==
    /\ At(c, "clear")
    /\ jar' = NoToken
    /\ crossed' = (crossed \/ jar \notin {call[c].carried, NoToken})
    /\ signedIn' = (signedIn /\ call[c].kind # "logout" /\ ~RanOut(call[c].carried))
    /\ Done(c)
    /\ UNCHANGED <<row, issued, lost, replaced>>

Refused(c) ==
    /\ At(c, "refused")
    /\ Done(c)
    /\ UNCHANGED <<jar, row, issued, histVars>>

\* The answer never comes, or is an error although its work is done.
Lost(c) ==
    /\ ~At(c, "idle")
    /\ Done(c)
    /\ lost' = (lost \/ At(c, "set") \/ (At(c, "clear") /\ call[c].kind = "logout"))
    /\ UNCHANGED <<jar, row, issued, signedIn, crossed, replaced>>

-----------------------------------------------------------------------------
Browser(c) == Refresh(c) \/ Login(c) \/ Logout(c)

Serve(c) ==
    \/ Lookup(c) \/ Rotate(c) \/ ServeLogin(c) \/ ServeLogout(c) \/ Refuse(c)

Answer(c) == Set(c) \/ Clear(c) \/ Refused(c) \/ Lost(c)

SessionNext ==
    \/ \E c \in Calls : Browser(c) \/ Serve(c) \/ Answer(c)
    \/ \E t \in Tokens : Expire(t)

SessionSpec == SessionInit /\ [][SessionNext]_sessionVars

-----------------------------------------------------------------------------
(* Properties.                                                             *)

\* A signed-in user stays signed in: with nothing under way, the browser holds a
\* token that the server will rotate, whatever refreshes, logins and failures
\* overlapped, unless an answer changed another cookie than its request carried
\* (two calls refreshed the same token), an answer was lost, or the token is a
\* week old.
SessionKept ==
    signedIn /\ Quiet /\ ~crossed /\ ~lost
        => jar # NoToken /\ row[jar] \in {"live", "expired"}

\* No token is forgotten: one that the server would still accept is in the cookie
\* or in an answer on its way to it, or was left behind by a new sign-in; with the
\* same exceptions.
NoOrphanToken ==
    ~crossed /\ ~lost =>
        \A t \in LiveTokens \ replaced : t = jar \/ \E c \in Calls : call[c].brings = t

\* A logout ends the session: once it was answered and with nothing under way no cookie
\* is left and no token of it is accepted; with the same exceptions. A logout that was
\* refused (the rate limit, a failed query) ended nothing, although stores/auth.ts:69-77
\* swallows the refusal and shows the user as signed out: signedIn stays.
LogoutEnds ==
    ~signedIn /\ Quiet /\ ~crossed /\ ~lost
        => jar = NoToken /\ LiveTokens \subseteq replaced
=============================================================================
