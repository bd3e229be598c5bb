--------------------------- MODULE SessionsProofs ---------------------------
(***************************************************************************)
(* Proofs about the sign-in of one user, for any number of concurrent      *)
(* calls and of tokens.  The strengthening says where a token can be: in   *)
(* the cookie, in a request, or in one answer; an answer that brings a     *)
(* token brings a valid one, and one that takes a token away was made when *)
(* that token was no longer valid.                                         *)
(***************************************************************************)
EXTENDS Sessions, TLAPS

CallType ==
    [at : Places, kind : {"none", "refresh", "login", "logout"},
     carried : Tokens \cup {NoToken}, brings : Tokens \cup {NoToken}]

\* A call's place agrees with what it is for.
KindShape ==
    \A c \in Calls :
        /\ (At(c, "refresh") \/ At(c, "found")) => call[c].kind = "refresh"
        /\ At(c, "login") => call[c].kind = "login"
        /\ At(c, "logout") => call[c].kind = "logout"
        /\ At(c, "set") => call[c].kind \in {"refresh", "login"}
        /\ At(c, "clear") => call[c].kind \in {"refresh", "logout"}

\* Only an answer on its way brings a token, and it is a valid one.
BringsShape ==
    \A c \in Calls :
        /\ At(c, "set") => /\ call[c].brings # NoToken
                           /\ row[call[c].brings] \in {"live", "expired"}
        /\ ~At(c, "set") => call[c].brings = NoToken

\* Tokens are made one after another.
IssuedShape ==
    /\ \A t \in Tokens : t > issued => row[t] = "none"
    /\ jar <= issued
    /\ \A c \in Calls : call[c].carried <= issued /\ call[c].brings <= issued

\* A token that an answer brings is known to nobody else.
BringsAlone ==
    \A c \in Calls : call[c].brings # NoToken =>
        /\ jar # call[c].brings
        /\ \A d \in Calls : call[d].carried # call[c].brings
        /\ \A d \in Calls \ {c} : call[d].brings # call[c].brings

\* What an answer takes away was no longer valid when it was made.
SpentShape ==
    \A c \in Calls :
        /\ At(c, "found") => call[c].carried # NoToken
        /\ At(c, "set") /\ call[c].kind = "refresh" =>
               call[c].carried # NoToken /\ row[call[c].carried] = "revoked"
        /\ At(c, "clear") /\ call[c].kind = "refresh" => call[c].carried # NoToken
        /\ At(c, "clear") /\ call[c].carried # NoToken =>
               row[call[c].carried] \in {"revoked", "expired"}

\* The cookie's token was issued; if nobody is signed in there is none.
JarShape ==
    /\ jar # NoToken => row[jar] # "none"
    /\ \A c \in Calls : call[c].carried # NoToken => row[call[c].carried] # "none"
    /\ ~signedIn /\ ~crossed => jar = NoToken

\* An answer that will settle what becomes of the cookie.
Settles(c) ==
    \/ At(c, "set") /\ call[c].kind = "refresh"
    \/ At(c, "clear") /\ call[c].kind = "logout"

KeptShape ==
    signedIn /\ ~crossed /\ ~lost =>
        \/ jar # NoToken /\ row[jar] \in {"live", "expired"}
        \/ \E c \in Calls : Settles(c)

SessionInv ==
    /\ SessionTypeOK
    /\ KindShape /\ BringsShape /\ IssuedShape /\ BringsAlone
    /\ SpentShape /\ JarShape /\ KeptShape /\ NoOrphanToken

\* The invariant survives a request, whichever (Refresh, Login, Logout).
LEMMA SendSafe ==
  ASSUME SessionInv, NEW c \in Calls, NEW k \in {"refresh", "login", "logout"}, Send(c, k)
  PROVE  SessionInv'
<1> USE TokensAssumption DEF At, Idle, Tokens, NoToken, Places, CallType, histVars
<1>1. SessionTypeOK'
  BY DEF SessionInv, SessionTypeOK, Send
<1>2. /\ call \in [Calls -> CallType] /\ call' \in [Calls -> CallType]
      /\ \A d \in Calls \ {c} : call'[d] = call[d]
  BY <1>1 DEF SessionInv, SessionTypeOK, Send
<1>3. KindShape'
  BY <1>1, <1>2 DEF SessionInv, SessionTypeOK, KindShape, Send
<1>4. BringsShape'
  BY <1>1, <1>2
     DEF SessionInv, SessionTypeOK, BringsShape, BringsAlone, IssuedShape, KindShape,
         Send
<1>5. IssuedShape'
  BY <1>1, <1>2 DEF SessionInv, SessionTypeOK, IssuedShape, KindShape, Send
<1>6. BringsAlone'
  BY <1>1, <1>2
     DEF SessionInv, SessionTypeOK, BringsAlone, BringsShape, IssuedShape, Send
<1>7. SpentShape'
  BY <1>1, <1>2
     DEF SessionInv, SessionTypeOK, SpentShape, JarShape, KindShape, IssuedShape,
         Send
<1>8. JarShape'
  BY <1>1, <1>2
     DEF SessionInv, SessionTypeOK, JarShape, SpentShape, BringsShape, KindShape,
         IssuedShape, Send
<1>9. KeptShape'
  BY <1>1, <1>2
     DEF SessionInv, SessionTypeOK, KeptShape, SpentShape, BringsShape, KindShape,
         JarShape, IssuedShape, Settles, Send
<1>10. NoOrphanToken'
  BY <1>1, <1>2
     DEF SessionInv, SessionTypeOK, NoOrphanToken, SpentShape, BringsShape, BringsAlone,
         KindShape, IssuedShape, JarShape, LiveTokens, Send
<1>11. QED BY <1>1, <1>3, <1>4, <1>5, <1>6, <1>7, <1>8, <1>9, <1>10 DEF SessionInv

\* The invariant survives Lookup.
LEMMA LookupSafe ==
  ASSUME SessionInv, NEW c \in Calls, Lookup(c)
  PROVE  SessionInv'
<1> USE TokensAssumption DEF At, Idle, Tokens, NoToken, Places, CallType, histVars
<1>1. SessionTypeOK'
  <2>1. call \in [Calls -> CallType] /\ call[c] \in CallType
    BY DEF SessionInv, SessionTypeOK, CallType
  <2>2. call' \in [Calls -> CallType]
    BY <2>1 DEF SessionInv, SessionTypeOK, Lookup, Goes
  <2>3. row' \in [Tokens -> {"none", "live", "revoked", "expired"}] /\ issued' \in 0..MaxTokens
    BY <2>1 DEF SessionInv, SessionTypeOK, Lookup, Goes
  <2>4. jar' \in Tokens \cup {NoToken} /\ replaced' \subseteq Tokens
    BY <2>1 DEF SessionInv, SessionTypeOK, Lookup, Goes, LiveTokens
  <2>5. signedIn' \in BOOLEAN /\ crossed' \in BOOLEAN /\ lost' \in BOOLEAN
    BY <2>1 DEF SessionInv, SessionTypeOK, Lookup, Goes
  <2>6. QED BY <2>2, <2>3, <2>4, <2>5 DEF SessionTypeOK, CallType
<1>2. /\ call \in [Calls -> CallType] /\ call' \in [Calls -> CallType]
      /\ \A d \in Calls \ {c} : call'[d] = call[d]
  BY <1>1 DEF SessionInv, SessionTypeOK, Lookup, Goes
<1>3. KindShape'
  BY <1>1, <1>2 DEF SessionInv, SessionTypeOK, KindShape, Lookup, Goes
<1>4. BringsShape'
  BY <1>1, <1>2
     DEF SessionInv, SessionTypeOK, BringsShape, BringsAlone, IssuedShape, KindShape,
         Lookup, Goes
<1>5. IssuedShape'
  BY <1>1, <1>2 DEF SessionInv, SessionTypeOK, IssuedShape, KindShape, Lookup, Goes
<1>6. BringsAlone'
  BY <1>1, <1>2
     DEF SessionInv, SessionTypeOK, BringsAlone, BringsShape, IssuedShape, Lookup, Goes
<1>7. SpentShape'
  BY <1>1, <1>2
     DEF SessionInv, SessionTypeOK, SpentShape, JarShape, KindShape, IssuedShape,
         Lookup, Goes
<1>8. JarShape'
  BY <1>1, <1>2
     DEF SessionInv, SessionTypeOK, JarShape, SpentShape, BringsShape, KindShape,
         IssuedShape, Lookup, Goes
<1>9. KeptShape'
  BY <1>1, <1>2
     DEF SessionInv, SessionTypeOK, KeptShape, SpentShape, BringsShape, KindShape,
         JarShape, IssuedShape, Settles, Lookup, Goes
<1>10. NoOrphanToken'
  BY <1>1, <1>2
     DEF SessionInv, SessionTypeOK, NoOrphanToken, SpentShape, BringsShape, BringsAlone,
         KindShape, IssuedShape, JarShape, LiveTokens, Lookup, Goes
<1>11. QED BY <1>1, <1>3, <1>4, <1>5, <1>6, <1>7, <1>8, <1>9, <1>10 DEF SessionInv

\* The invariant survives Rotate.
LEMMA RotateSafe ==
  ASSUME SessionInv, NEW c \in Calls, Rotate(c)
  PROVE  SessionInv'
<1> USE TokensAssumption DEF At, Idle, Tokens, NoToken, Places, CallType, histVars
<1>1. SessionTypeOK'
  <2>1. call \in [Calls -> CallType] /\ call[c] \in CallType
    BY DEF SessionInv, SessionTypeOK, CallType
  <2>2. issued' \in Tokens
    BY DEF SessionInv, SessionTypeOK, Rotate, Issue, Tokens
  <2>3. call' \in [Calls -> CallType]
    BY <2>1, <2>2 DEF SessionInv, SessionTypeOK, Rotate, Issue
  <2>4. row' \in [Tokens -> {"none", "live", "revoked", "expired"}] /\ issued' \in 0..MaxTokens
    BY <2>1, <2>2 DEF SessionInv, SessionTypeOK, Rotate, Issue
  <2>5. jar' \in Tokens \cup {NoToken} /\ replaced' \subseteq Tokens
    BY <2>1, <2>2 DEF SessionInv, SessionTypeOK, Rotate, Issue, LiveTokens
  <2>6. signedIn' \in BOOLEAN /\ crossed' \in BOOLEAN /\ lost' \in BOOLEAN
    BY <2>1, <2>2 DEF SessionInv, SessionTypeOK, Rotate, Issue
  <2>7. QED BY <2>3, <2>4, <2>5, <2>6 DEF SessionTypeOK, CallType
<1>2. /\ call \in [Calls -> CallType] /\ call' \in [Calls -> CallType]
      /\ \A d \in Calls \ {c} : call'[d] = call[d]
  BY <1>1 DEF SessionInv, SessionTypeOK, Rotate, Issue
<1>3. KindShape'
  BY <1>1, <1>2 DEF SessionInv, SessionTypeOK, KindShape, Rotate, Issue
<1>4. BringsShape'
  BY <1>1, <1>2
     DEF SessionInv, SessionTypeOK, BringsShape, BringsAlone, IssuedShape, KindShape,
         Rotate, Issue
<1>5. IssuedShape'
  BY <1>1, <1>2 DEF SessionInv, SessionTypeOK, IssuedShape, KindShape, Rotate, Issue
<1>6. BringsAlone'
  BY <1>1, <1>2
     DEF SessionInv, SessionTypeOK, BringsAlone, BringsShape, IssuedShape, Rotate, Issue
<1>7. SpentShape'
  BY <1>1, <1>2
     DEF SessionInv, SessionTypeOK, SpentShape, JarShape, KindShape, IssuedShape,
         Rotate, Issue
<1>8. JarShape'
  BY <1>1, <1>2
     DEF SessionInv, SessionTypeOK, JarShape, SpentShape, BringsShape, KindShape,
         IssuedShape, Rotate, Issue
<1>9. KeptShape'
  BY <1>1, <1>2
     DEF SessionInv, SessionTypeOK, KeptShape, SpentShape, BringsShape, KindShape,
         JarShape, IssuedShape, Settles, Rotate, Issue
<1>10. NoOrphanToken'
  BY <1>1, <1>2
     DEF SessionInv, SessionTypeOK, NoOrphanToken, SpentShape, BringsShape, BringsAlone,
         KindShape, IssuedShape, JarShape, LiveTokens, Rotate, Issue
<1>11. QED BY <1>1, <1>3, <1>4, <1>5, <1>6, <1>7, <1>8, <1>9, <1>10 DEF SessionInv

\* The invariant survives ServeLogin.
LEMMA ServeLoginSafe ==
  ASSUME SessionInv, NEW c \in Calls, ServeLogin(c)
  PROVE  SessionInv'
<1> USE TokensAssumption DEF At, Idle, Tokens, NoToken, Places, CallType, histVars
<1>1. SessionTypeOK'
  <2>1. call \in [Calls -> CallType] /\ call[c] \in CallType
    BY DEF SessionInv, SessionTypeOK, CallType
  <2>2. issued' \in Tokens
    BY DEF SessionInv, SessionTypeOK, ServeLogin, Issue, Tokens
  <2>3. call' \in [Calls -> CallType]
    BY <2>1, <2>2 DEF SessionInv, SessionTypeOK, ServeLogin, Issue
  <2>4. row' \in [Tokens -> {"none", "live", "revoked", "expired"}] /\ issued' \in 0..MaxTokens
    BY <2>1, <2>2 DEF SessionInv, SessionTypeOK, ServeLogin, Issue
  <2>5. jar' \in Tokens \cup {NoToken} /\ replaced' \subseteq Tokens
    BY <2>1, <2>2 DEF SessionInv, SessionTypeOK, ServeLogin, Issue, LiveTokens
  <2>6. signedIn' \in BOOLEAN /\ crossed' \in BOOLEAN /\ lost' \in BOOLEAN
    BY <2>1, <2>2 DEF SessionInv, SessionTypeOK, ServeLogin, Issue
  <2>7. QED BY <2>3, <2>4, <2>5, <2>6 DEF SessionTypeOK, CallType
<1>2. /\ call \in [Calls -> CallType] /\ call' \in [Calls -> CallType]
      /\ \A d \in Calls \ {c} : call'[d] = call[d]
  BY <1>1 DEF SessionInv, SessionTypeOK, ServeLogin, Issue
<1>3. KindShape'
  BY <1>1, <1>2 DEF SessionInv, SessionTypeOK, KindShape, ServeLogin, Issue
<1>4. BringsShape'
  BY <1>1, <1>2
     DEF SessionInv, SessionTypeOK, BringsShape, BringsAlone, IssuedShape, KindShape,
         ServeLogin, Issue
<1>5. IssuedShape'
  BY <1>1, <1>2 DEF SessionInv, SessionTypeOK, IssuedShape, KindShape, ServeLogin, Issue
<1>6. BringsAlone'
  BY <1>1, <1>2
     DEF SessionInv, SessionTypeOK, BringsAlone, BringsShape, IssuedShape, ServeLogin,
         Issue
<1>7. SpentShape'
  BY <1>1, <1>2
     DEF SessionInv, SessionTypeOK, SpentShape, JarShape, KindShape, IssuedShape,
         ServeLogin, Issue
<1>8. JarShape'
  BY <1>1, <1>2
     DEF SessionInv, SessionTypeOK, JarShape, SpentShape, BringsShape, KindShape,
         IssuedShape, ServeLogin, Issue
<1>9. KeptShape'
  BY <1>1, <1>2
     DEF SessionInv, SessionTypeOK, KeptShape, SpentShape, BringsShape, KindShape,
         JarShape, IssuedShape, Settles, ServeLogin, Issue
<1>10. NoOrphanToken'
  BY <1>1, <1>2
     DEF SessionInv, SessionTypeOK, NoOrphanToken, SpentShape, BringsShape, BringsAlone,
         KindShape, IssuedShape, JarShape, LiveTokens, ServeLogin, Issue
<1>11. QED BY <1>1, <1>3, <1>4, <1>5, <1>6, <1>7, <1>8, <1>9, <1>10 DEF SessionInv

\* The invariant survives ServeLogout.
LEMMA ServeLogoutSafe ==
  ASSUME SessionInv, NEW c \in Calls, ServeLogout(c)
  PROVE  SessionInv'
<1> USE TokensAssumption DEF At, Idle, Tokens, NoToken, Places, CallType, histVars
<1>1. SessionTypeOK'
  <2>1. call \in [Calls -> CallType] /\ call[c] \in CallType
    BY DEF SessionInv, SessionTypeOK, CallType
  <2>2. call' \in [Calls -> CallType]
    BY <2>1 DEF SessionInv, SessionTypeOK, ServeLogout, Goes, Revoked
  <2>3. row' \in [Tokens -> {"none", "live", "revoked", "expired"}] /\ issued' \in 0..MaxTokens
    BY <2>1 DEF SessionInv, SessionTypeOK, ServeLogout, Goes, Revoked
  <2>4. jar' \in Tokens \cup {NoToken} /\ replaced' \subseteq Tokens
    BY <2>1 DEF SessionInv, SessionTypeOK, ServeLogout, Goes, Revoked, LiveTokens
  <2>5. signedIn' \in BOOLEAN /\ crossed' \in BOOLEAN /\ lost' \in BOOLEAN
    BY <2>1 DEF SessionInv, SessionTypeOK, ServeLogout, Goes, Revoked
  <2>6. QED BY <2>2, <2>3, <2>4, <2>5 DEF SessionTypeOK, CallType
<1>2. /\ call \in [Calls -> CallType] /\ call' \in [Calls -> CallType]
      /\ \A d \in Calls \ {c} : call'[d] = call[d]
  BY <1>1 DEF SessionInv, SessionTypeOK, ServeLogout, Goes, Revoked
<1>3. KindShape'
  BY <1>1, <1>2 DEF SessionInv, SessionTypeOK, KindShape, ServeLogout, Goes, Revoked
<1>4. BringsShape'
  BY <1>1, <1>2
     DEF SessionInv, SessionTypeOK, BringsShape, BringsAlone, IssuedShape, KindShape,
         ServeLogout, Goes, Revoked
<1>5. IssuedShape'
  BY <1>1, <1>2
     DEF SessionInv, SessionTypeOK, IssuedShape, KindShape, ServeLogout, Goes, Revoked
<1>6. BringsAlone'
  BY <1>1, <1>2
     DEF SessionInv, SessionTypeOK, BringsAlone, BringsShape, IssuedShape, ServeLogout,
         Goes, Revoked
<1>7. SpentShape'
  BY <1>1, <1>2
     DEF SessionInv, SessionTypeOK, SpentShape, JarShape, KindShape, IssuedShape,
         ServeLogout, Goes, Revoked
<1>8. JarShape'
  BY <1>1, <1>2
     DEF SessionInv, SessionTypeOK, JarShape, SpentShape, BringsShape, KindShape,
         IssuedShape, ServeLogout, Goes, Revoked
<1>9. KeptShape'
  BY <1>1, <1>2
     DEF SessionInv, SessionTypeOK, KeptShape, SpentShape, BringsShape, KindShape,
         JarShape, IssuedShape, Settles, ServeLogout, Goes, Revoked
<1>10. NoOrphanToken'
  BY <1>1, <1>2
     DEF SessionInv, SessionTypeOK, NoOrphanToken, SpentShape, BringsShape, BringsAlone,
         KindShape, IssuedShape, JarShape, LiveTokens, ServeLogout, Goes, Revoked
<1>11. QED BY <1>1, <1>3, <1>4, <1>5, <1>6, <1>7, <1>8, <1>9, <1>10 DEF SessionInv

\* The invariant survives Refuse.
LEMMA RefuseSafe ==
  ASSUME SessionInv, NEW c \in Calls, Refuse(c)
  PROVE  SessionInv'
<1> USE TokensAssumption DEF At, Idle, Tokens, NoToken, Places, CallType, histVars
<1>1. SessionTypeOK'
  BY DEF SessionInv, SessionTypeOK, Refuse, Goes
<1>2. /\ call \in [Calls -> CallType] /\ call' \in [Calls -> CallType]
      /\ \A d \in Calls \ {c} : call'[d] = call[d]
  BY <1>1 DEF SessionInv, SessionTypeOK, Refuse, Goes
<1>3. KindShape'
  BY <1>1, <1>2 DEF SessionInv, SessionTypeOK, KindShape, Refuse, Goes
<1>4. BringsShape'
  BY <1>1, <1>2
     DEF SessionInv, SessionTypeOK, BringsShape, BringsAlone, IssuedShape, KindShape,
         Refuse, Goes
<1>5. IssuedShape'
  BY <1>1, <1>2 DEF SessionInv, SessionTypeOK, IssuedShape, KindShape, Refuse, Goes
<1>6. BringsAlone'
  BY <1>1, <1>2
     DEF SessionInv, SessionTypeOK, BringsAlone, BringsShape, IssuedShape, Refuse, Goes
<1>7. SpentShape'
  BY <1>1, <1>2
     DEF SessionInv, SessionTypeOK, SpentShape, JarShape, KindShape, IssuedShape,
         Refuse, Goes
<1>8. JarShape'
  BY <1>1, <1>2
     DEF SessionInv, SessionTypeOK, JarShape, SpentShape, BringsShape, KindShape,
         IssuedShape, Refuse, Goes
<1>9. KeptShape'
  BY <1>1, <1>2
     DEF SessionInv, SessionTypeOK, KeptShape, SpentShape, BringsShape, KindShape,
         JarShape, IssuedShape, Settles, Refuse, Goes
<1>10. NoOrphanToken'
  BY <1>1, <1>2
     DEF SessionInv, SessionTypeOK, NoOrphanToken, SpentShape, BringsShape, BringsAlone,
         KindShape, IssuedShape, JarShape, LiveTokens, Refuse, Goes
<1>11. QED BY <1>1, <1>3, <1>4, <1>5, <1>6, <1>7, <1>8, <1>9, <1>10 DEF SessionInv

\* The invariant survives Set.
LEMMA SetSafe ==
  ASSUME SessionInv, NEW c \in Calls, Set(c)
  PROVE  SessionInv'
<1> USE TokensAssumption DEF At, Idle, Tokens, NoToken, Places, CallType, histVars
<1>1. SessionTypeOK'
  <2>1. call \in [Calls -> CallType] /\ call[c] \in CallType
    BY DEF SessionInv, SessionTypeOK, CallType
  <2>2. call' \in [Calls -> CallType]
    BY <2>1 DEF SessionInv, SessionTypeOK, Set, SignsIn, Done
  <2>3. row' \in [Tokens -> {"none", "live", "revoked", "expired"}] /\ issued' \in 0..MaxTokens
    BY <2>1 DEF SessionInv, SessionTypeOK, Set, SignsIn, Done
  <2>4. jar' \in Tokens \cup {NoToken} /\ replaced' \subseteq Tokens
    BY <2>1 DEF SessionInv, SessionTypeOK, Set, SignsIn, Done, LiveTokens
  <2>5. signedIn' \in BOOLEAN /\ crossed' \in BOOLEAN /\ lost' \in BOOLEAN
    BY <2>1 DEF SessionInv, SessionTypeOK, Set, SignsIn, Done
  <2>6. QED BY <2>2, <2>3, <2>4, <2>5 DEF SessionTypeOK, CallType
<1>2. /\ call \in [Calls -> CallType] /\ call' \in [Calls -> CallType]
      /\ \A d \in Calls \ {c} : call'[d] = call[d]
  BY <1>1 DEF SessionInv, SessionTypeOK, Set, SignsIn, Done
<1>3. KindShape'
  BY <1>1, <1>2 DEF SessionInv, SessionTypeOK, KindShape, Set, SignsIn, Done
<1>4. BringsShape'
  BY <1>1, <1>2
     DEF SessionInv, SessionTypeOK, BringsShape, BringsAlone, IssuedShape, KindShape,
         Set, SignsIn, Done
<1>5. IssuedShape'
  BY <1>1, <1>2 DEF SessionInv, SessionTypeOK, IssuedShape, KindShape, Set, SignsIn, Done
<1>6. BringsAlone'
  BY <1>1, <1>2
     DEF SessionInv, SessionTypeOK, BringsAlone, BringsShape, IssuedShape, Set, SignsIn,
         Done
<1>7. SpentShape'
  BY <1>1, <1>2
     DEF SessionInv, SessionTypeOK, SpentShape, JarShape, KindShape, IssuedShape, Set,
         SignsIn, Done
<1>8. JarShape'
  BY <1>1, <1>2
     DEF SessionInv, SessionTypeOK, JarShape, SpentShape, BringsShape, KindShape,
         IssuedShape, Set, SignsIn, Done
<1>9. KeptShape'
  BY <1>1, <1>2
     DEF SessionInv, SessionTypeOK, KeptShape, SpentShape, BringsShape, KindShape,
         JarShape, IssuedShape, Settles, Set, SignsIn, Done
<1>10. NoOrphanToken'
  BY <1>1, <1>2
     DEF SessionInv, SessionTypeOK, NoOrphanToken, SpentShape, BringsShape, BringsAlone,
         KindShape, IssuedShape, JarShape, LiveTokens, Set, SignsIn, Done
<1>11. QED BY <1>1, <1>3, <1>4, <1>5, <1>6, <1>7, <1>8, <1>9, <1>10 DEF SessionInv

\* The invariant survives Clear.
LEMMA ClearSafe ==
  ASSUME SessionInv, NEW c \in Calls, Clear(c)
  PROVE  SessionInv'
<1> USE TokensAssumption DEF At, Idle, Tokens, NoToken, Places, CallType, histVars
<1>1. SessionTypeOK'
  BY DEF SessionInv, SessionTypeOK, Clear, RanOut, Done
<1>2. /\ call \in [Calls -> CallType] /\ call' \in [Calls -> CallType]
      /\ \A d \in Calls \ {c} : call'[d] = call[d]
  BY <1>1 DEF SessionInv, SessionTypeOK, Clear, RanOut, Done
<1>3. KindShape'
  BY <1>1, <1>2 DEF SessionInv, SessionTypeOK, KindShape, Clear, RanOut, Done
<1>4. BringsShape'
  BY <1>1, <1>2
     DEF SessionInv, SessionTypeOK, BringsShape, BringsAlone, IssuedShape, KindShape,
         Clear, RanOut, Done
<1>5. IssuedShape'
  BY <1>1, <1>2 DEF SessionInv, SessionTypeOK, IssuedShape, KindShape, Clear, RanOut, Done
<1>6. BringsAlone'
  BY <1>1, <1>2
     DEF SessionInv, SessionTypeOK, BringsAlone, BringsShape, IssuedShape, Clear,
         RanOut, Done
<1>7. SpentShape'
  BY <1>1, <1>2
     DEF SessionInv, SessionTypeOK, SpentShape, JarShape, KindShape, IssuedShape, Clear,
         RanOut, Done
<1>8. JarShape'
  BY <1>1, <1>2
     DEF SessionInv, SessionTypeOK, JarShape, SpentShape, BringsShape, KindShape,
         IssuedShape, Clear, RanOut, Done
<1>9. KeptShape'
  BY <1>1, <1>2
     DEF SessionInv, SessionTypeOK, KeptShape, SpentShape, BringsShape, KindShape,
         JarShape, IssuedShape, Settles, Clear, RanOut, Done
<1>10. NoOrphanToken'
  BY <1>1, <1>2
     DEF SessionInv, SessionTypeOK, NoOrphanToken, SpentShape, BringsShape, BringsAlone,
         KindShape, IssuedShape, JarShape, LiveTokens, Clear, RanOut, Done
<1>11. QED BY <1>1, <1>3, <1>4, <1>5, <1>6, <1>7, <1>8, <1>9, <1>10 DEF SessionInv

\* The invariant survives Refused.
LEMMA RefusedSafe ==
  ASSUME SessionInv, NEW c \in Calls, Refused(c)
  PROVE  SessionInv'
<1> USE TokensAssumption DEF At, Idle, Tokens, NoToken, Places, CallType, histVars
<1>1. SessionTypeOK'
  BY DEF SessionInv, SessionTypeOK, Refused, Done
<1>2. /\ call \in [Calls -> CallType] /\ call' \in [Calls -> CallType]
      /\ \A d \in Calls \ {c} : call'[d] = call[d]
  BY <1>1 DEF SessionInv, SessionTypeOK, Refused, Done
<1>3. KindShape'
  BY <1>1, <1>2 DEF SessionInv, SessionTypeOK, KindShape, Refused, Done
<1>4. BringsShape'
  BY <1>1, <1>2
     DEF SessionInv, SessionTypeOK, BringsShape, BringsAlone, IssuedShape, KindShape,
         Refused, Done
<1>5. IssuedShape'
  BY <1>1, <1>2 DEF SessionInv, SessionTypeOK, IssuedShape, KindShape, Refused, Done
<1>6. BringsAlone'
  BY <1>1, <1>2
     DEF SessionInv, SessionTypeOK, BringsAlone, BringsShape, IssuedShape, Refused, Done
<1>7. SpentShape'
  BY <1>1, <1>2
     DEF SessionInv, SessionTypeOK, SpentShape, JarShape, KindShape, IssuedShape,
         Refused, Done
<1>8. JarShape'
  BY <1>1, <1>2
     DEF SessionInv, SessionTypeOK, JarShape, SpentShape, BringsShape, KindShape,
         IssuedShape, Refused, Done
<1>9. KeptShape'
  BY <1>1, <1>2
     DEF SessionInv, SessionTypeOK, KeptShape, SpentShape, BringsShape, KindShape,
         JarShape, IssuedShape, Settles, Refused, Done
<1>10. NoOrphanToken'
  BY <1>1, <1>2
     DEF SessionInv, SessionTypeOK, NoOrphanToken, SpentShape, BringsShape, BringsAlone,
         KindShape, IssuedShape, JarShape, LiveTokens, Refused, Done
<1>11. QED BY <1>1, <1>3, <1>4, <1>5, <1>6, <1>7, <1>8, <1>9, <1>10 DEF SessionInv

\* The invariant survives Lost.
LEMMA LostSafe ==
  ASSUME SessionInv, NEW c \in Calls, Lost(c)
  PROVE  SessionInv'
<1> USE TokensAssumption DEF At, Idle, Tokens, NoToken, Places, CallType, histVars
<1>1. SessionTypeOK'
  BY DEF SessionInv, SessionTypeOK, Lost, Done
<1>2. /\ call \in [Calls -> CallType] /\ call' \in [Calls -> CallType]
      /\ \A d \in Calls \ {c} : call'[d] = call[d]
  BY <1>1 DEF SessionInv, SessionTypeOK, Lost, Done
<1>3. KindShape'
  BY <1>1, <1>2 DEF SessionInv, SessionTypeOK, KindShape, Lost, Done
<1>4. BringsShape'
  BY <1>1, <1>2
     DEF SessionInv, SessionTypeOK, BringsShape, BringsAlone, IssuedShape, KindShape,
         Lost, Done
<1>5. IssuedShape'
  BY <1>1, <1>2 DEF SessionInv, SessionTypeOK, IssuedShape, KindShape, Lost, Done
<1>6. BringsAlone'
  BY <1>1, <1>2
     DEF SessionInv, SessionTypeOK, BringsAlone, BringsShape, IssuedShape, Lost, Done
<1>7. SpentShape'
  BY <1>1, <1>2
     DEF SessionInv, SessionTypeOK, SpentShape, JarShape, KindShape, IssuedShape, Lost,
         Done
<1>8. JarShape'
  BY <1>1, <1>2
     DEF SessionInv, SessionTypeOK, JarShape, SpentShape, BringsShape, KindShape,
         IssuedShape, Lost, Done
<1>9. lost' \/ (~lost /\ ~At(c, "set") /\ ~(At(c, "clear") /\ call[c].kind = "logout"))
  BY Zenon DEF Lost
<1>10. KeptShape'
  BY <1>1, <1>2, <1>9
     DEF SessionInv, SessionTypeOK, KeptShape, SpentShape, BringsShape, KindShape,
         JarShape, IssuedShape, Settles, Lost, Done
<1>11. NoOrphanToken'
  BY <1>1, <1>2, <1>9
     DEF SessionInv, SessionTypeOK, NoOrphanToken, SpentShape, BringsShape, BringsAlone,
         KindShape, IssuedShape, JarShape, LiveTokens, Lost, Done
<1>12. QED BY <1>1, <1>3, <1>4, <1>5, <1>6, <1>7, <1>8, <1>10, <1>11 DEF SessionInv

\* The invariant survives Expire.
LEMMA ExpireSafe ==
  ASSUME SessionInv, NEW t \in Tokens, Expire(t)
  PROVE  SessionInv'
<1> USE TokensAssumption
<1>1. SessionTypeOK'
  BY DEF SessionInv, SessionTypeOK, Expire, At, histVars
<1>2. KindShape' /\ BringsShape' /\ IssuedShape' /\ BringsAlone'
  BY <1>1 DEF SessionInv, SessionTypeOK, KindShape, BringsShape, IssuedShape, BringsAlone,
              Expire, At, histVars, Tokens, NoToken, Places
<1>3. SpentShape' /\ JarShape'
  BY <1>1
     DEF SessionInv, SessionTypeOK, SpentShape, JarShape, Expire, At, histVars, Tokens,
         NoToken, Places
<1>4. KeptShape' /\ NoOrphanToken'
  BY <1>1
     DEF SessionInv, SessionTypeOK, KeptShape, NoOrphanToken, LiveTokens, Settles,
         Expire, At,
              histVars, Tokens, NoToken, Places
<1>5. QED BY <1>1, <1>2, <1>3, <1>4 DEF SessionInv

\* The invariant holds at first.
LEMMA InvInit ==
  ASSUME SessionInit
  PROVE  SessionInv
<1>1. SessionTypeOK /\ \A c \in Calls : call[c] = Idle
  <2>1. Idle \in CallType
    BY DEF Idle, CallType, Tokens, NoToken, Places
  <2>2. call \in [Calls -> CallType] /\ \A c \in Calls : call[c] = Idle
    BY <2>1 DEF SessionInit
  <2>3. row \in [Tokens -> {"none", "live", "revoked", "expired"}] /\ issued \in 0..MaxTokens
    BY TokensAssumption DEF SessionInit, Tokens
  <2>4. QED BY <2>2, <2>3 DEF SessionInit, SessionTypeOK, CallType
<1>2. LiveTokens = {} /\ jar = NoToken /\ ~signedIn
  BY DEF SessionInit, LiveTokens
<1>3. KindShape /\ BringsShape /\ BringsAlone /\ SpentShape
  BY <1>1 DEF KindShape, BringsShape, BringsAlone, SpentShape, At, Idle, NoToken
<1>4. IssuedShape /\ JarShape /\ KeptShape /\ NoOrphanToken
  BY <1>1, <1>2
     DEF SessionInit, IssuedShape, JarShape, KeptShape, NoOrphanToken, Idle, NoToken
<1>5. QED BY <1>1, <1>3, <1>4 DEF SessionInv

\* No step breaks it.
LEMMA InvStep ==
  ASSUME SessionInv, [SessionNext]_sessionVars
  PROVE  SessionInv'
<1>1. ASSUME NEW c \in Calls, Refresh(c) PROVE SessionInv'
  BY <1>1, SendSafe DEF Refresh
<1>2. ASSUME NEW c \in Calls, Login(c) PROVE SessionInv'
  BY <1>2, SendSafe DEF Login
<1>3. ASSUME NEW c \in Calls, Logout(c) PROVE SessionInv'
  BY <1>3, SendSafe DEF Logout
<1>4. ASSUME NEW c \in Calls, Lookup(c) PROVE SessionInv'
  BY <1>4, LookupSafe
<1>5. ASSUME NEW c \in Calls, Rotate(c) PROVE SessionInv'
  BY <1>5, RotateSafe
<1>6. ASSUME NEW c \in Calls, ServeLogin(c) PROVE SessionInv'
  BY <1>6, ServeLoginSafe
<1>7. ASSUME NEW c \in Calls, ServeLogout(c) PROVE SessionInv'
  BY <1>7, ServeLogoutSafe
<1>8. ASSUME NEW c \in Calls, Refuse(c) PROVE SessionInv'
  BY <1>8, RefuseSafe
<1>9. ASSUME NEW c \in Calls, Set(c) PROVE SessionInv'
  BY <1>9, SetSafe
<1>10. ASSUME NEW c \in Calls, Clear(c) PROVE SessionInv'
  BY <1>10, ClearSafe
<1>11. ASSUME NEW c \in Calls, Refused(c) PROVE SessionInv'
  BY <1>11, RefusedSafe
<1>12. ASSUME NEW c \in Calls, Lost(c) PROVE SessionInv'
  BY <1>12, LostSafe
<1>13. ASSUME NEW t \in Tokens, Expire(t) PROVE SessionInv'
  BY <1>13, ExpireSafe
<1>14. CASE UNCHANGED sessionVars
  BY <1>14 DEF SessionInv, SessionTypeOK, KindShape, BringsShape, IssuedShape, BringsAlone,
               SpentShape, JarShape, KeptShape, NoOrphanToken, LiveTokens, Settles, At,
               sessionVars, histVars
<1>15. QED
  BY <1>1, <1>2, <1>3, <1>4, <1>5, <1>6, <1>7, <1>8, <1>9, <1>10, <1>11, <1>12, <1>13, <1>14
     DEF SessionNext, Browser, Serve, Answer

\* The invariant holds throughout.
LEMMA InvAlways == SessionSpec => []SessionInv
BY InvInit, InvStep, PTL DEF SessionSpec

\* The variables keep their types, for any number of calls and tokens.
THEOREM SessionTypes == SessionSpec => []SessionTypeOK
<1>1. SessionInv => SessionTypeOK
  BY DEF SessionInv
<1>2. QED BY <1>1, InvAlways, PTL

\* A signed-in user keeps a token that the server accepts (or that ran out), unless
\* an answer changed a cookie it was not about, or was lost.
THEOREM StaysSignedIn == SessionSpec => []SessionKept
<1>1. SessionInv => SessionKept
  BY DEF SessionInv, SessionKept, KeptShape, Settles, Quiet, Idle, At
<1>2. QED BY <1>1, InvAlways, PTL

\* No valid token is forgotten (rotateRefresh, revokeRefresh and the cookies they set).
THEOREM NothingForgotten == SessionSpec => []NoOrphanToken
<1>1. SessionInv => NoOrphanToken
  BY DEF SessionInv
<1>2. QED BY <1>1, InvAlways, PTL

\* After an answered logout there is neither a cookie nor a valid token left of the
\* session, with the same exceptions (revokeRefresh, and the cookie POST /auth/logout clears).
THEOREM LogoutIsComplete == SessionSpec => []LogoutEnds
<1>1. SessionInv => LogoutEnds
  <2>1. SUFFICES ASSUME SessionInv, ~signedIn, Quiet, ~crossed, ~lost
                 PROVE  jar = NoToken /\ LiveTokens \subseteq replaced
    BY DEF LogoutEnds
  <2>2. jar = NoToken
    BY <2>1 DEF SessionInv, JarShape
  <2>3. ASSUME NEW t \in LiveTokens, t \notin replaced PROVE FALSE
    BY <2>1, <2>2, <2>3
       DEF SessionInv, NoOrphanToken, Quiet, Idle, LiveTokens, Tokens, NoToken
  <2>4. QED BY <2>2, <2>3
<1>2. QED BY <1>1, InvAlways, PTL
=============================================================================
