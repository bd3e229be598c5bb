------------------------------ MODULE IngestProofs ------------------------------
(***************************************************************************)
(* The safety properties of Ingest, for every set of messages and of       *)
(* consumer loops, every batch size and delivery limit, and a stream of    *)
(* any length; and, below, those of MessagePath, for messages of any       *)
(* number of layers.                                                       *)
(***************************************************************************)
EXTENDS MessagePath, WellFoundedInduction, TLAPS

\* A working loop holds a non-empty interval of what the group handed out.
Batches == \A c \in Consumers :
    at[c] \in Working => 1 <= lo[c] /\ lo[c] <= hi[c] /\ hi[c] <= last

Bounds ==
    /\ last <= Len(stream)
    /\ Len(stream) + Len(adding) <= MaxEntries
    /\ \A e \in pel \cup acked : e <= last

\* An XACK whose reply was lost leaves its entry in the loop's hands.
HeldPending == \A c \in Consumers : Held(c) \subseteq pel \cup acked

\* What the await a loop is at says of the entry at hand.
AtHand == \A c \in Consumers :
    /\ at[c] = "acking" => Msg(c) \in rows
    /\ at[c] = "dead" => lo[c] \in dlq
    /\ at[c] = "publishing" => Msg(c) \in rows /\ notified[Msg(c)] = 0

OnePublisher == \A c, d \in Consumers :
    c # d /\ at[c] = "publishing" /\ at[d] = "publishing" => Msg(c) # Msg(d)

\* An entry is handed out once, so its failures are counted at most once.
Fresh == \A e \in Entries : retry[e] # 0 =>
    /\ e <= last
    /\ \A c \in Consumers : e \in Held(c) => e = lo[c] /\ at[c] \in {"poison", "dead"}

IngestInv ==
    /\ TypeOK /\ Batches /\ Bounds /\ HeldPending /\ AtHand /\ OnePublisher /\ Fresh
    /\ AckedIsSafe /\ NotifiedOnce /\ OneHolder /\ PendingAccounted

-----------------------------------------------------------------------------
LEMMA InitInv == Init => IngestInv
  <1> SUFFICES ASSUME Init PROVE IngestInv
    OBVIOUS
  <1> USE NumberAssumption
  <1>1. TypeOK
    <2>1. /\ 0 \in 0..MaxEntries /\ 0 \in 0..1 /\ 1 \in Nat /\ 0 \in Nat
          /\ <<>> \in Seq(Msgs) /\ Len(<<>>) = 0
      OBVIOUS
    <2>2. retry \in [Entries -> 0..1] /\ hi \in [Consumers -> 0..MaxEntries]
      BY <2>1 DEF Init
    <2>3. /\ running \in [Consumers -> BOOLEAN] /\ lo \in [Consumers -> Nat]
          /\ at \in [Consumers -> {"off", "reading"} \cup Working]
          /\ notified \in [Msgs -> Nat] /\ enqueued \in [Msgs -> Nat]
      BY <2>1 DEF Init
    <2>0. stream = <<>> /\ adding = <<>> /\ last = 0
      BY DEF Init
    <2>6. /\ adding \in Seq(Msgs) /\ stream \in Seq(Msgs) /\ Len(stream) <= MaxEntries
          /\ last \in 0..MaxEntries
      BY <2>0, <2>1
    <2>4. /\ subscribed \in BOOLEAN /\ starting \in {"no", "user", "group"}
          /\ current \in Consumers \cup {NoConsumer} /\ group \in BOOLEAN
          /\ ahead \in Nat
      BY DEF Init
    <2>5. /\ pel \subseteq Entries /\ acked \subseteq Entries /\ dlq \subseteq Entries
          /\ rows \subseteq Msgs /\ dropped \subseteq Entries
          /\ limit \in DlqMaxes /\ failed \subseteq Entries /\ skipped \subseteq Entries
          /\ unwired \subseteq Msgs
      BY DEF Init
    <2> QED  BY <2>2, <2>3, <2>4, <2>5, <2>6 DEF TypeOK
  <1>2. \A c \in Consumers : at[c] = "off" /\ Held(c) = {}
    BY DEF Init, Held, Working
  <1>3. Batches /\ HeldPending /\ AtHand /\ OnePublisher /\ OneHolder
    BY <1>2 DEF Batches, HeldPending, AtHand, OnePublisher, OneHolder, Working
  <1>4. Bounds /\ AckedIsSafe /\ PendingAccounted
    BY DEF Init, Bounds, AckedIsSafe, PendingAccounted
  <1>5. Fresh /\ NotifiedOnce
    BY DEF Init, Fresh, NotifiedOnce
  <1> QED  BY <1>1, <1>3, <1>4, <1>5 DEF IngestInv

-----------------------------------------------------------------------------
(* What a step does to the entries a loop holds.                           *)

\* A loop goes from one await of an entry to another.
LEMMA HeldStays ==
    ASSUME TypeOK, NEW c \in Consumers, at[c] \in Working,
           NEW a \in Working, Goes(c, a), UNCHANGED <<lo, hi>>
    PROVE  /\ at'[c] = a /\ \A d \in Consumers : d # c => at'[d] = at[d]
           /\ \A d \in Consumers : Held(d)' = Held(d)
           /\ HeldByAny' = HeldByAny
  <1>1. at'[c] = a /\ \A d \in Consumers : d # c => at'[d] = at[d]
    BY DEF TypeOK, Goes
  <1>2. \A d \in Consumers : Held(d)' = Held(d)
    BY <1>1 DEF Held
  <1>3. HeldByAny' = HeldByAny
    BY <1>2 DEF HeldByAny
  <1> QED  BY <1>1, <1>2, <1>3

\* A loop is done with the entry at hand.
LEMMA HeldShrinks ==
    ASSUME TypeOK, Batches, NEW c \in Consumers, at[c] \in Working, NextEntry(c)
    PROVE  /\ Held(c)' = Held(c) \ {lo[c]} /\ lo[c] \in Held(c)
           /\ \A d \in Consumers : d # c =>
                  /\ Held(d)' = Held(d) /\ at'[d] = at[d]
                  /\ lo'[d] = lo[d] /\ hi'[d] = hi[d]
           /\ at'[c] \in {"looking", "reading", "off"}
           /\ at'[c] = "looking" =>
                  lo'[c] = lo[c] + 1 /\ hi'[c] = hi[c] /\ lo'[c] <= hi'[c]
           /\ running' = running
           /\ lo' \in [Consumers -> Nat] /\ hi' \in [Consumers -> 0..MaxEntries]
           /\ at' \in [Consumers -> {"off", "reading"} \cup Working]
  <1>1. /\ lo[c] \in Nat /\ hi[c] \in Nat /\ 1 <= lo[c] /\ lo[c] <= hi[c]
        /\ running' = running
    BY NumberAssumption DEF TypeOK, Batches, NextEntry
  <1>3. Held(c) = lo[c]..hi[c]
    BY DEF Held
  <1>4. CASE lo[c] < hi[c]
    <2>a. /\ lo' = [lo EXCEPT ![c] = @ + 1] /\ hi' = hi
          /\ at' = [at EXCEPT ![c] = "looking"]
      BY <1>4 DEF NextEntry, Goes
    <2>0. /\ lo'[c] = lo[c] + 1 /\ hi' = hi /\ at'[c] = "looking"
          /\ \A d \in Consumers : d # c => lo'[d] = lo[d] /\ at'[d] = at[d]
          /\ lo' \in [Consumers -> Nat] /\ hi' \in [Consumers -> 0..MaxEntries]
      BY <2>a, <1>1 DEF TypeOK
    <2>1. Held(c)' = (lo[c] + 1)..hi[c]
      BY <2>0 DEF Held, Working
    <2>2. Held(c)' = Held(c) \ {lo[c]} /\ lo[c] \in Held(c)
      BY <2>1, <1>1, <1>3
    <2>3. \A d \in Consumers : d # c => Held(d)' = Held(d)
      BY <2>0 DEF Held
    <2>4. at' \in [Consumers -> {"off", "reading"} \cup Working]
      BY <1>4 DEF TypeOK, NextEntry, Goes, Working
    <2> QED  BY <2>0, <2>2, <2>3, <2>4, <1>1, <1>4
  <1>5. CASE ~(lo[c] < hi[c])
    <2> DEFINE a == IF running[c] THEN "reading" ELSE "off"
    <2>a. a \in {"reading", "off"}
      OBVIOUS
    <2>b. /\ lo' = [lo EXCEPT ![c] = 1] /\ hi' = [hi EXCEPT ![c] = 0]
          /\ at' = [at EXCEPT ![c] = a]
      BY <1>5 DEF NextEntry, Goes
    <2> HIDE DEF a
    <2>c. 0 \in 0..MaxEntries
      BY NumberAssumption
    <2>0. /\ at'[c] \in {"reading", "off"}
          /\ \A d \in Consumers : d # c =>
                lo'[d] = lo[d] /\ hi'[d] = hi[d] /\ at'[d] = at[d]
          /\ lo' \in [Consumers -> Nat] /\ hi' \in [Consumers -> 0..MaxEntries]
      BY <2>a, <2>b, <2>c DEF TypeOK
    <2>1. Held(c)' = {}
      BY <2>0 DEF Held, Working
    <2>2. Held(c)' = Held(c) \ {lo[c]} /\ lo[c] \in Held(c)
      BY <2>1, <1>1, <1>3, <1>5
    <2>3. \A d \in Consumers : d # c => Held(d)' = Held(d)
      BY <2>0 DEF Held
    <2>4. at' \in [Consumers -> {"off", "reading"} \cup Working]
      BY <2>a, <2>b DEF TypeOK
    <2> QED  BY <2>0, <2>2, <2>3, <2>4, <1>1
  <1> QED  BY <1>4, <1>5

\* The message of an entry that was handed out is settled for good.
LEMMA MsgType ==
    ASSUME IngestInv
    PROVE  /\ \A c \in Consumers : at[c] \in Working =>
                 lo[c] \in Held(c) /\ lo[c] \in Entries /\ lo[c] \in 1..Len(stream)
                 /\ Msg(c) \in Msgs /\ lo[c] \in pel \cup acked
           /\ \A e \in pel \cup acked : e \in 1..Len(stream) /\ stream[e] \in Msgs
  <1>1. last \in Nat /\ Len(stream) \in Nat /\ MaxEntries \in Nat
    BY NumberAssumption DEF IngestInv, TypeOK
  <1>2. ASSUME NEW c \in Consumers, at[c] \in Working
        PROVE  lo[c] \in Held(c) /\ lo[c] \in Entries /\ lo[c] \in 1..Len(stream)
               /\ Msg(c) \in Msgs /\ lo[c] \in pel \cup acked
    <2>1. lo[c] \in Nat /\ hi[c] \in Nat /\ 1 <= lo[c] /\ lo[c] <= hi[c] /\ hi[c] <= last
      BY <1>2, NumberAssumption DEF IngestInv, TypeOK, Batches
    <2>2. lo[c] \in Held(c)
      BY <2>1, <1>2 DEF Held
    <2>a. last <= Len(stream) /\ last <= MaxEntries
      BY DEF IngestInv, Bounds, TypeOK
    <2>3. lo[c] \in 1..Len(stream) /\ lo[c] \in Entries
      BY <2>1, <2>a, <1>1 DEF Entries
    <2>4. Msg(c) \in Msgs
      BY <2>3 DEF Msg, IngestInv, TypeOK
    <2> QED  BY <2>2, <2>3, <2>4, <1>2 DEF IngestInv, HeldPending
  <1>3. ASSUME NEW e \in pel \cup acked
        PROVE  e \in 1..Len(stream) /\ stream[e] \in Msgs
    <2>1. e \in Nat /\ 1 <= e /\ e <= last /\ last <= Len(stream)
      BY <1>1 DEF IngestInv, TypeOK, Entries, Bounds
    <2> QED  BY <2>1, <1>1 DEF IngestInv, TypeOK
  <1> QED  BY <1>2, <1>3

-----------------------------------------------------------------------------
(* Steps that no entry takes part in.                                      *)

LEMMA FrameKeeps ==
    ASSUME IngestInv, TypeOK', Len(stream) + Len(adding') <= MaxEntries,
           UNCHANGED <<at, lo, hi, stream, groupVars, rowVars, limit, histVars>>
    PROVE  IngestInv'
  <1>1. \A c \in Consumers : Held(c)' = Held(c)
    BY DEF Held
  <1>2. HeldByAny' = HeldByAny
    BY <1>1 DEF HeldByAny
  <1>3. \A c \in Consumers : Msg(c)' = Msg(c)
    BY DEF Msg
  <1>4. Batches' /\ HeldPending' /\ OneHolder'
    BY <1>1 DEF IngestInv, Batches, HeldPending, OneHolder, groupVars
  <1>5. Bounds'
    BY DEF IngestInv, Bounds, groupVars
  <1>6. AtHand' /\ OnePublisher'
    BY <1>3 DEF IngestInv, AtHand, OnePublisher, groupVars, rowVars
  <1>7. Fresh'
    BY <1>1 DEF IngestInv, Fresh, groupVars
  <1>8. AckedIsSafe' /\ NotifiedOnce'
    BY DEF IngestInv, AckedIsSafe, NotifiedOnce, groupVars, rowVars
  <1>9. PendingAccounted'
    BY <1>2 DEF IngestInv, PendingAccounted, groupVars, histVars
  <1> QED  BY <1>4, <1>5, <1>6, <1>7, <1>8, <1>9 DEF IngestInv

LEMMA WiringKeeps ==
    ASSUME IngestInv,
           StartIngest \/ Subscribe \/ StopIngest \/ StartFails \/ UNCHANGED vars
    PROVE  IngestInv'
  <1>1. UNCHANGED <<at, lo, hi, adding, stream, groupVars, rowVars, limit, histVars>>
    BY DEF StartIngest, Subscribe, StopIngest, StartFails, vars, loopVars
  <1>2. /\ subscribed' \in BOOLEAN /\ starting' \in {"no", "user", "group"}
        /\ current' \in Consumers \cup {NoConsumer} /\ ahead' \in Nat
        /\ running' \in [Consumers -> BOOLEAN]
    <2>1. CASE StartIngest \/ Subscribe \/ UNCHANGED vars
      <3>1. Len(adding) \in Nat
        BY DEF IngestInv, TypeOK
      <3>2. ahead' \in {ahead, Len(adding)}
        BY <2>1 DEF StartIngest, Subscribe, vars, wiringVars
      <3>3. /\ subscribed' \in {subscribed, TRUE} /\ starting' \in {starting, "user", "group"}
            /\ current' = current /\ running' = running
        BY <2>1 DEF StartIngest, Subscribe, vars, wiringVars, loopVars
      <3> QED  BY <3>1, <3>2, <3>3 DEF IngestInv, TypeOK
    <2>2. CASE StopIngest \/ StartFails
      <3>1. /\ subscribed' = FALSE /\ current' = NoConsumer
            /\ running' = [c \in Consumers |-> running[c] /\ c # current]
            /\ starting' \in {starting, "no"} /\ ahead' = ahead
        BY <2>2 DEF StopIngest, StartFails, Unwire
      <3> QED  BY <3>1 DEF IngestInv, TypeOK
    <2> QED  BY <2>1, <2>2
  <1>3. TypeOK'
    BY <1>1, <1>2 DEF IngestInv, TypeOK, groupVars, rowVars, histVars
  <1>4. Len(stream) + Len(adding') <= MaxEntries
    BY <1>1 DEF IngestInv, Bounds
  <1> QED  BY <1>1, <1>3, <1>4, FrameKeeps

LEMMA UpsertKeeps ==
    ASSUME IngestInv, NEW m \in Msgs, Upsert(m)
    PROVE  IngestInv'
  <1>1. /\ UNCHANGED <<wiringVars, loopVars, stream, groupVars, rowVars, limit, histVars>>
        /\ adding' = Append(adding, m) /\ Len(stream) + Len(adding) < MaxEntries
    BY DEF Upsert
  <1>2. /\ adding' \in Seq(Msgs) /\ Len(adding') = Len(adding) + 1
        /\ Len(adding) \in Nat /\ Len(stream) \in Nat
    BY <1>1 DEF IngestInv, TypeOK
  <1>3. TypeOK'
    BY <1>1, <1>2 DEF IngestInv, TypeOK, wiringVars, loopVars, groupVars, rowVars, histVars
  <1>4. Len(stream) + Len(adding') <= MaxEntries
    BY <1>1, <1>2, NumberAssumption
  <1> QED  BY <1>1, <1>3, <1>4, FrameKeeps DEF loopVars

\* The stream only grows: an entry's message never changes.
LEMMA AddedKeeps ==
    ASSUME IngestInv, Added
    PROVE  IngestInv'
  <1>1. /\ UNCHANGED <<subscribed, starting, current, loopVars, groupVars, rowVars, limit, histVars>>
        /\ ahead' = (IF ahead > 0 THEN ahead - 1 ELSE 0)
        /\ adding # <<>> /\ adding' = Tail(adding)
        /\ stream' \in {stream, Append(stream, Head(adding))}
    BY DEF Added
  <1>2. /\ Head(adding) \in Msgs /\ Tail(adding) \in Seq(Msgs)
        /\ Len(Tail(adding)) = Len(adding) - 1 /\ Len(adding) \in Nat
        /\ Len(stream) \in Nat /\ Len(adding) > 0
    BY <1>1 DEF IngestInv, TypeOK
  <1>3. /\ stream' \in Seq(Msgs) /\ Len(stream') \in Len(stream)..(Len(stream) + 1)
        /\ \A e \in 1..Len(stream) : stream'[e] = stream[e]
    <2>0. stream \in Seq(Msgs)
      BY DEF IngestInv, TypeOK
    <2>1. CASE stream' = stream
      BY <2>1, <2>0, <1>2
    <2>2. CASE stream' = Append(stream, Head(adding))
      <3>1. stream' \in Seq(Msgs) /\ Len(stream') = Len(stream) + 1
        BY <2>2, <2>0, <1>2
      <3>2. \A e \in 1..Len(stream) : stream'[e] = stream[e]
        BY <2>2, <2>0, <1>2
      <3> QED  BY <3>1, <3>2, <1>2
    <2> QED  BY <2>1, <2>2, <1>1
  <1>4. Len(stream') + Len(adding') <= MaxEntries /\ Len(stream') <= MaxEntries
    BY <1>1, <1>2, <1>3, NumberAssumption DEF IngestInv, Bounds
  <1>0. ahead' \in Nat
    BY <1>1 DEF IngestInv, TypeOK
  <1>5. TypeOK'
    BY <1>0, <1>1, <1>2, <1>3, <1>4 DEF IngestInv, TypeOK, loopVars, groupVars, rowVars, histVars
  <1>6. \A c \in Consumers : Held(c)' = Held(c)
    BY <1>1 DEF Held, loopVars
  <1>7. HeldByAny' = HeldByAny
    BY <1>6 DEF HeldByAny
  <1>8. \A c \in Consumers : at[c] \in Working => Msg(c)' = Msg(c)
    BY <1>1, <1>3, MsgType DEF Msg, loopVars
  <1>9. Batches' /\ HeldPending' /\ OneHolder'
    BY <1>1, <1>6 DEF IngestInv, Batches, HeldPending, OneHolder, groupVars, loopVars
  <1>10. Bounds'
    <2>1. last <= Len(stream) /\ last \in Nat /\ Len(stream) <= Len(stream')
      BY <1>2, <1>3, NumberAssumption DEF IngestInv, Bounds, TypeOK
    <2>2. last <= Len(stream')
      BY <2>1, <1>2, <1>3
    <2> QED  BY <2>2, <1>1, <1>4 DEF IngestInv, Bounds, groupVars
  <1>11. AtHand' /\ OnePublisher'
    BY <1>1, <1>8 DEF IngestInv, AtHand, OnePublisher, groupVars, rowVars, loopVars, Working
  <1>12. Fresh'
    BY <1>1, <1>6 DEF IngestInv, Fresh, groupVars, loopVars
  <1>13. AckedIsSafe'
    BY <1>1, <1>3, MsgType DEF IngestInv, AckedIsSafe, groupVars, rowVars
  <1>14. NotifiedOnce'
    BY <1>1 DEF IngestInv, NotifiedOnce, rowVars
  <1>15. PendingAccounted'
    BY <1>1, <1>7 DEF IngestInv, PendingAccounted, groupVars, histVars
  <1> QED  BY <1>5, <1>9, <1>10, <1>11, <1>12, <1>13, <1>14, <1>15 DEF IngestInv

LEMMA CrashKeeps ==
    ASSUME IngestInv, Crash
    PROVE  IngestInv'
  <1>0. /\ UNCHANGED <<stream, groupVars, rowVars, failed, skipped, unwired>>
        /\ dropped' = dropped \cup HeldByAny /\ adding' = <<>> /\ limit' \in DlqMaxes
        /\ at' = [c \in Consumers |-> "off"]
    BY DEF Crash
  <1>1. \A c \in Consumers : at'[c] = "off" /\ Held(c)' = {}
    BY <1>0 DEF Held, Working
  <1>2. \A c \in Consumers : Held(c) \subseteq pel \cup acked
    BY DEF IngestInv, HeldPending
  <1>3. HeldByAny \subseteq Entries
    BY <1>2 DEF HeldByAny, IngestInv, TypeOK
  <1>4. TypeOK'
    <2>1. /\ running' \in [Consumers -> BOOLEAN] /\ lo' \in [Consumers -> Nat]
          /\ at' \in [Consumers -> {"off", "reading"} \cup Working]
          /\ adding' \in Seq(Msgs) /\ dropped' \subseteq Entries
      BY <1>0, <1>3 DEF Crash, IngestInv, TypeOK
    <2>2. hi' \in [Consumers -> 0..MaxEntries]
      BY NumberAssumption DEF Crash
    <2>3. /\ subscribed' \in BOOLEAN /\ starting' \in {"no", "user", "group"}
          /\ current' \in Consumers \cup {NoConsumer} /\ ahead' \in Nat
      BY DEF Crash
    <2> QED  BY <1>0, <2>1, <2>2, <2>3 DEF IngestInv, TypeOK, groupVars, rowVars
  <1>5. Batches' /\ HeldPending' /\ AtHand' /\ OnePublisher' /\ OneHolder'
    BY <1>1 DEF Batches, HeldPending, AtHand, OnePublisher, OneHolder, Working
  <1>6. Bounds'
    <2>1. Len(adding') = 0 /\ Len(adding) \in Nat /\ Len(stream) \in Nat
      BY <1>0 DEF IngestInv, TypeOK
    <2>2. Len(stream) + Len(adding') <= MaxEntries
      BY <2>1, NumberAssumption DEF IngestInv, Bounds
    <2> QED  BY <1>0, <2>2 DEF IngestInv, Bounds, groupVars
  <1>7. Fresh'
    BY <1>0, <1>1 DEF IngestInv, Fresh, groupVars
  <1>8. AckedIsSafe' /\ NotifiedOnce'
    BY <1>0 DEF IngestInv, AckedIsSafe, NotifiedOnce, groupVars, rowVars
  <1>9. PendingAccounted'
    BY <1>0 DEF IngestInv, PendingAccounted, groupVars
  <1> QED  BY <1>4, <1>5, <1>6, <1>7, <1>8, <1>9 DEF IngestInv

\* A counter that expires counts nothing any more.
LEMMA ExpiresKeeps ==
    ASSUME IngestInv, NEW e \in Entries, RetryExpires(e)
    PROVE  IngestInv'
  <1>1. /\ UNCHANGED <<wiringVars, loopVars, adding, stream, group, last, pel, acked, dlq,
                       rowVars, limit, histVars>>
        /\ retry' = [retry EXCEPT ![e] = 0]
    BY DEF RetryExpires
  <1>2. /\ retry' \in [Entries -> 0..1]
        /\ \A f \in Entries : retry'[f] # 0 => retry[f] # 0
    BY <1>1 DEF IngestInv, TypeOK
  <1>3. TypeOK'
    BY <1>1, <1>2 DEF IngestInv, TypeOK, wiringVars, loopVars, rowVars, histVars
  <1>4. /\ \A c \in Consumers : Held(c)' = Held(c) /\ Msg(c)' = Msg(c)
    BY <1>1 DEF Held, Msg, loopVars
  <1>5. HeldByAny' = HeldByAny
    BY <1>4 DEF HeldByAny
  <1>6. Batches' /\ Bounds' /\ HeldPending' /\ OneHolder'
    BY <1>1, <1>4 DEF IngestInv, Batches, Bounds, HeldPending, OneHolder, loopVars
  <1>7. AtHand' /\ OnePublisher'
    BY <1>1, <1>4 DEF IngestInv, AtHand, OnePublisher, loopVars, rowVars
  <1>8. Fresh'
    BY <1>1, <1>2, <1>4 DEF IngestInv, Fresh, loopVars
  <1>9. AckedIsSafe' /\ NotifiedOnce' /\ PendingAccounted'
    BY <1>1, <1>5 DEF IngestInv, AckedIsSafe, NotifiedOnce, PendingAccounted, rowVars, histVars
  <1> QED  BY <1>3, <1>6, <1>7, <1>8, <1>9 DEF IngestInv

-----------------------------------------------------------------------------
(* The loops.                                                              *)

LEMMA GroupReadyKeeps ==
    ASSUME IngestInv, NEW c \in Consumers, GroupReady(c)
    PROVE  IngestInv'
  <1>1. /\ UNCHANGED <<subscribed, ahead, lo, hi, adding, stream, pel, acked, retry, dlq,
                       rowVars, limit, dropped, failed, unwired>>
        /\ skipped' = (IF group THEN skipped ELSE 1..Len(stream))
        /\ at[c] = "off" /\ Goes(c, "reading") /\ group' = TRUE
        /\ last' = (IF group THEN last ELSE Len(stream))
    BY DEF GroupReady
  <1>2. /\ at' \in [Consumers -> {"off", "reading"} \cup Working] /\ at'[c] = "reading"
        /\ \A d \in Consumers : d # c => at'[d] = at[d]
    BY <1>1 DEF IngestInv, TypeOK, Goes
  <1>3. \A d \in Consumers : (at'[d] \in Working => at[d] = at'[d]) /\ Held(d)' = Held(d)
    BY <1>1, <1>2 DEF Held, Working
  <1>4. HeldByAny' = HeldByAny
    BY <1>3 DEF HeldByAny
  <1>5. last \in Nat /\ last' \in 0..MaxEntries /\ last <= last' /\ last' <= Len(stream)
    <2>1. Len(stream) \in Nat /\ last \in 0..MaxEntries /\ last <= Len(stream)
          /\ Len(stream) <= MaxEntries
      BY DEF IngestInv, TypeOK, Bounds
    <2> QED  BY <2>1, <1>1, NumberAssumption
  <1>6. TypeOK'
    <2>1. running' \in [Consumers -> BOOLEAN] /\ current' \in Consumers \cup {NoConsumer}
          /\ starting' \in {"no", "user", "group"} /\ group' \in BOOLEAN
      BY DEF GroupReady, IngestInv, TypeOK
    <2>2. skipped' \subseteq Entries
      <3>1. Len(stream) \in Nat /\ Len(stream) <= MaxEntries /\ skipped \subseteq Entries
        BY DEF IngestInv, TypeOK
      <3>2. 1..Len(stream) \subseteq Entries
        BY <3>1, NumberAssumption DEF Entries
      <3> QED  BY <1>1, <3>1, <3>2
    <2> QED  BY <1>1, <1>2, <1>5, <2>1, <2>2 DEF IngestInv, TypeOK, rowVars
  <1>7. Batches'
    <2> SUFFICES ASSUME NEW d \in Consumers, at'[d] \in Working
                 PROVE  1 <= lo'[d] /\ lo'[d] <= hi'[d] /\ hi'[d] <= last'
      BY DEF Batches
    <2>1. 1 <= lo[d] /\ lo[d] <= hi[d] /\ hi[d] <= last /\ hi[d] \in Nat
      BY <1>3 DEF IngestInv, Batches, TypeOK
    <2> QED  BY <2>1, <1>1, <1>5
  <1>8. Bounds'
    <2>1. \A e \in pel \cup acked : e \in Nat /\ e <= last
      BY DEF IngestInv, TypeOK, Bounds, Entries
    <2>2. \A e \in pel \cup acked : e <= last'
      BY <2>1, <1>5
    <2> QED  BY <2>2, <1>1, <1>5 DEF IngestInv, Bounds
  <1>9. HeldPending' /\ OneHolder'
    BY <1>1, <1>3 DEF IngestInv, HeldPending, OneHolder
  <1>10. AtHand' /\ OnePublisher'
    BY <1>1, <1>2 DEF IngestInv, AtHand, OnePublisher, Msg, rowVars
  <1>11. Fresh'
    <2> SUFFICES ASSUME NEW e \in Entries, retry'[e] # 0
                 PROVE  /\ e <= last'
                        /\ \A d \in Consumers : e \in Held(d)' =>
                              e = lo'[d] /\ at'[d] \in {"poison", "dead"}
      BY DEF Fresh
    <2>1. e <= last /\ e \in Nat
      BY <1>1 DEF IngestInv, Fresh, Entries
    <2>2. ASSUME NEW d \in Consumers, e \in Held(d)'
          PROVE  e = lo'[d] /\ at'[d] \in {"poison", "dead"}
      <3>1. e \in Held(d) /\ d # c
        BY <2>2, <1>1, <1>3 DEF Held, Working
      <3> QED  BY <3>1, <1>1, <1>2 DEF IngestInv, Fresh
    <2> QED  BY <2>1, <2>2, <1>5
  <1>12. AckedIsSafe' /\ NotifiedOnce'
    BY <1>1 DEF IngestInv, AckedIsSafe, NotifiedOnce, rowVars
  <1>13. PendingAccounted'
    BY <1>1, <1>4 DEF IngestInv, PendingAccounted
  <1> QED  BY <1>6, <1>7, <1>8, <1>9, <1>10, <1>11, <1>12, <1>13 DEF IngestInv

\* A delivery is what comes after everything that was handed out before.
LEMMA Delivered ==
    ASSUME IngestInv, Deliver
    PROVE  /\ last < BatchEnd /\ BatchEnd <= Len(stream) /\ last' = BatchEnd
           /\ last \in Nat /\ BatchEnd \in 0..MaxEntries
           /\ (last + 1)..BatchEnd \subseteq Entries
           /\ pel' = pel \cup ((last + 1)..BatchEnd)
           /\ \A e \in (last + 1)..BatchEnd : e > last /\ e <= BatchEnd
           /\ \A e \in pel \cup acked : e \in Nat /\ e <= last
           /\ \A e \in pel' \cup acked : e <= BatchEnd
  <1>1. /\ last \in Nat /\ Len(stream) \in Nat /\ Len(stream) <= MaxEntries
        /\ MaxEntries \in Nat /\ ReadCount \in Nat /\ ReadCount >= 1
    BY NumberAssumption DEF IngestInv, TypeOK
  <1>2. last < Len(stream) /\ last' = BatchEnd /\ pel' = pel \cup ((last + 1)..BatchEnd)
    BY DEF Deliver
  <1>3. BatchEnd = Len(stream) \/ (BatchEnd = last + ReadCount /\ last + ReadCount < Len(stream))
    BY DEF BatchEnd
  <1>4. last < BatchEnd /\ BatchEnd <= Len(stream) /\ BatchEnd \in 0..MaxEntries
    BY <1>1, <1>2, <1>3
  <1>5. /\ (last + 1)..BatchEnd \subseteq Entries
        /\ \A e \in (last + 1)..BatchEnd : e > last /\ e <= BatchEnd
    BY <1>1, <1>4 DEF Entries
  <1>6. \A e \in pel \cup acked : e \in Nat /\ e <= last
    BY DEF IngestInv, TypeOK, Bounds, Entries
  <1>7. \A e \in pel' \cup acked : e <= BatchEnd
    <2> SUFFICES ASSUME NEW e \in pel \cup acked \cup ((last + 1)..BatchEnd)
                 PROVE  e <= BatchEnd
      BY <1>2
    <2>1. CASE e \in (last + 1)..BatchEnd
      BY <2>1, <1>5
    <2>2. CASE e \in pel \cup acked
      BY <2>2, <1>1, <1>4, <1>6
    <2> QED  BY <2>1, <2>2
  <1> QED  BY <1>1, <1>2, <1>4, <1>5, <1>6, <1>7

LEMMA ReadKeeps ==
    ASSUME IngestInv, NEW c \in Consumers, Read(c)
    PROVE  IngestInv'
  <1> DEFINE batch == (last + 1)..BatchEnd
  <1>1. /\ at[c] = "reading" /\ Goes(c, "looking") /\ Deliver
        /\ lo' = [lo EXCEPT ![c] = last + 1] /\ hi' = [hi EXCEPT ![c] = BatchEnd]
        /\ UNCHANGED <<wiringVars, running, adding, stream, group, acked, retry, dlq,
                       rowVars, limit, histVars>>
    BY DEF Read, Deliver, histVars
  <1>2. /\ last < BatchEnd /\ BatchEnd <= Len(stream) /\ last' = BatchEnd
        /\ last \in Nat /\ BatchEnd \in 0..MaxEntries
        /\ pel' = pel \cup batch
        /\ \A e \in pel' \cup acked : e <= BatchEnd
    BY <1>1, Delivered
  <1>3. /\ batch \subseteq Entries
        /\ \A e \in batch : e > last /\ e <= BatchEnd
        /\ \A e \in pel \cup acked : e \in Nat /\ e <= last
    BY <1>1, Delivered
  <1> HIDE DEF batch
  <1>4. /\ at'[c] = "looking" /\ lo'[c] = last + 1 /\ hi'[c] = BatchEnd
        /\ \A d \in Consumers : d # c =>
              at'[d] = at[d] /\ lo'[d] = lo[d] /\ hi'[d] = hi[d]
    BY <1>1, <1>2 DEF IngestInv, TypeOK, Goes
  <1>5. /\ at' \in [Consumers -> {"off", "reading"} \cup Working]
        /\ lo' \in [Consumers -> Nat] /\ hi' \in [Consumers -> 0..MaxEntries]
    <2>1. at' \in [Consumers -> {"off", "reading"} \cup Working]
      BY <1>1 DEF IngestInv, TypeOK, Goes, Working
    <2>2. lo \in [Consumers -> Nat] /\ hi \in [Consumers -> 0..MaxEntries]
      BY DEF IngestInv, TypeOK
    <2>3. last + 1 \in Nat
      BY <1>2
    <2> QED  BY <2>1, <2>2, <2>3, <1>1, <1>2
  <1>6. TypeOK'
    <2>1. pel' \subseteq Entries /\ last' \in 0..MaxEntries
      BY <1>2, <1>3 DEF IngestInv, TypeOK
    <2> QED  BY <1>1, <1>5, <2>1 DEF IngestInv, TypeOK, wiringVars, rowVars, histVars
  <1>7. /\ Held(c) = {} /\ Held(c)' = batch
        /\ \A d \in Consumers : d # c => Held(d)' = Held(d)
    BY <1>1, <1>4 DEF Held, Working, batch
  <1>9. \A d \in Consumers : Held(d) \subseteq pel \cup acked /\ Held(d) \cap batch = {}
    <2>1. \A d \in Consumers : Held(d) \subseteq pel \cup acked
      BY DEF IngestInv, HeldPending
    <2> QED  BY <2>1, <1>2, <1>3
  <1>10. Batches'
    <2> SUFFICES ASSUME NEW d \in Consumers, at'[d] \in Working
                 PROVE  1 <= lo'[d] /\ lo'[d] <= hi'[d] /\ hi'[d] <= last'
      BY DEF Batches
    <2>1. CASE d = c
      BY <2>1, <1>1, <1>2, <1>4
    <2>2. CASE d # c
      <3>1. 1 <= lo[d] /\ lo[d] <= hi[d] /\ hi[d] <= last /\ hi[d] \in Nat
        BY <2>2, <1>4, NumberAssumption DEF IngestInv, Batches, TypeOK
      <3> QED  BY <2>2, <3>1, <1>1, <1>2, <1>4
    <2> QED  BY <2>1, <2>2
  <1>11. Bounds'
    BY <1>1, <1>2 DEF IngestInv, Bounds
  <1>12. HeldPending' /\ OneHolder'
    <2>1. HeldPending'
      BY <1>1, <1>2, <1>7, <1>9 DEF HeldPending
    <2>2. OneHolder'
      BY <1>7, <1>9 DEF IngestInv, OneHolder
    <2> QED  BY <2>1, <2>2
  <1>13. AtHand' /\ OnePublisher'
    <2>1. /\ at'[c] \notin {"acking", "dead", "publishing"}
          /\ \A d \in Consumers : d # c => at'[d] = at[d] /\ lo'[d] = lo[d] /\ Msg(d)' = Msg(d)
      BY <1>1, <1>4 DEF Msg
    <2> QED  BY <2>1, <1>1 DEF IngestInv, AtHand, OnePublisher, rowVars
  <1>14. Fresh'
    <2> SUFFICES ASSUME NEW e \in Entries, retry'[e] # 0
                 PROVE  /\ e <= last'
                        /\ \A d \in Consumers : e \in Held(d)' =>
                              e = lo'[d] /\ at'[d] \in {"poison", "dead"}
      BY DEF Fresh
    <2>1. e <= last /\ e \in Nat
      BY <1>1 DEF IngestInv, Fresh, Entries
    <2>2. e \notin batch
      BY <2>1, <1>2, <1>3
    <2>3. \A d \in Consumers : e \in Held(d)' => d # c /\ e \in Held(d)
      BY <2>2, <1>7
    <2>4. \A d \in Consumers : e \in Held(d)' => e = lo'[d] /\ at'[d] \in {"poison", "dead"}
      BY <2>3, <1>1, <1>4 DEF IngestInv, Fresh
    <2> QED  BY <2>1, <2>4, <1>1, <1>2
  <1>15. AckedIsSafe' /\ NotifiedOnce'
    BY <1>1 DEF IngestInv, AckedIsSafe, NotifiedOnce, rowVars
  <1>16. PendingAccounted'
    <2>1. HeldByAny \cup batch \subseteq HeldByAny'
      BY <1>7 DEF HeldByAny
    <2> QED  BY <2>1, <1>1, <1>2 DEF IngestInv, PendingAccounted, histVars
  <1> QED  BY <1>6, <1>10, <1>11, <1>12, <1>13, <1>14, <1>15, <1>16 DEF IngestInv

\* A batch whose reply is lost is nobody's.
LEMMA ReadLostKeeps ==
    ASSUME IngestInv, NEW c \in Consumers, ReadLost(c)
    PROVE  IngestInv'
  <1> DEFINE batch == (last + 1)..BatchEnd
  <1>1. /\ Deliver /\ dropped' = dropped \cup batch
        /\ UNCHANGED <<at, lo, hi, wiringVars, running, adding, stream, group, acked, retry,
                       dlq, rowVars, limit, failed, skipped, unwired>>
    BY DEF ReadLost, Deliver
  <1>2. /\ last < BatchEnd /\ BatchEnd <= Len(stream) /\ last' = BatchEnd
        /\ last \in Nat /\ BatchEnd \in 0..MaxEntries
        /\ pel' = pel \cup batch /\ batch \subseteq Entries
        /\ \A e \in pel' \cup acked : e <= BatchEnd
    BY <1>1, Delivered
  <1> HIDE DEF batch
  <1>3. TypeOK'
    <2>1. pel' \subseteq Entries /\ last' \in 0..MaxEntries /\ dropped' \subseteq Entries
      BY <1>1, <1>2 DEF IngestInv, TypeOK
    <2> QED  BY <1>1, <2>1 DEF IngestInv, TypeOK, wiringVars, rowVars
  <1>4. \A d \in Consumers : Held(d)' = Held(d) /\ Msg(d)' = Msg(d)
    BY <1>1 DEF Held, Msg
  <1>5. HeldByAny' = HeldByAny
    BY <1>4 DEF HeldByAny
  <1>6. Batches'
    <2> SUFFICES ASSUME NEW d \in Consumers, at'[d] \in Working
                 PROVE  1 <= lo'[d] /\ lo'[d] <= hi'[d] /\ hi'[d] <= last'
      BY DEF Batches
    <2>1. 1 <= lo[d] /\ lo[d] <= hi[d] /\ hi[d] <= last /\ hi[d] \in Nat
      BY <1>1, NumberAssumption DEF IngestInv, Batches, TypeOK
    <2> QED  BY <2>1, <1>1, <1>2
  <1>7. Bounds' /\ HeldPending' /\ OneHolder'
    BY <1>1, <1>2, <1>4 DEF IngestInv, Bounds, HeldPending, OneHolder
  <1>8. AtHand' /\ OnePublisher'
    BY <1>1, <1>4 DEF IngestInv, AtHand, OnePublisher, rowVars
  <1>9. Fresh'
    <2> SUFFICES ASSUME NEW e \in Entries, retry'[e] # 0
                 PROVE  /\ e <= last'
                        /\ \A d \in Consumers : e \in Held(d)' =>
                              e = lo'[d] /\ at'[d] \in {"poison", "dead"}
      BY DEF Fresh
    <2>1. /\ e <= last /\ e \in Nat
          /\ \A d \in Consumers : e \in Held(d) => e = lo[d] /\ at[d] \in {"poison", "dead"}
      BY <1>1 DEF IngestInv, Fresh, Entries
    <2>2. e <= last'
      BY <2>1, <1>2
    <2> QED  BY <2>1, <2>2, <1>1, <1>4
  <1>10. AckedIsSafe' /\ NotifiedOnce' /\ PendingAccounted'
    BY <1>1, <1>2, <1>5 DEF IngestInv, AckedIsSafe, NotifiedOnce, PendingAccounted, rowVars
  <1> QED  BY <1>3, <1>6, <1>7, <1>8, <1>9, <1>10 DEF IngestInv

LEMMA ReadEndsKeeps ==
    ASSUME IngestInv, NEW c \in Consumers, ReadEnds(c)
    PROVE  IngestInv'
  <1>1. /\ UNCHANGED <<wiringVars, running, lo, hi, adding, stream, groupVars, rowVars, limit, histVars>>
        /\ at[c] = "reading" /\ Goes(c, "off")
    BY DEF ReadEnds
  <1>2. /\ at' \in [Consumers -> {"off", "reading"} \cup Working] /\ at'[c] = "off"
        /\ \A d \in Consumers : d # c => at'[d] = at[d]
    BY <1>1 DEF IngestInv, TypeOK, Goes
  <1>3. \A d \in Consumers : (at'[d] \in Working => at[d] = at'[d]) /\ Held(d)' = Held(d)
    BY <1>1, <1>2 DEF Held, Working
  <1>4. HeldByAny' = HeldByAny
    BY <1>3 DEF HeldByAny
  <1>5. TypeOK'
    BY <1>1, <1>2 DEF IngestInv, TypeOK, wiringVars, groupVars, rowVars, histVars
  <1>6. Batches' /\ Bounds' /\ HeldPending' /\ OneHolder'
    BY <1>1, <1>3 DEF IngestInv, Batches, Bounds, HeldPending, OneHolder, groupVars
  <1>7. AtHand' /\ OnePublisher'
    BY <1>1, <1>2 DEF IngestInv, AtHand, OnePublisher, Msg, groupVars, rowVars
  <1>8. Fresh'
    <2>1. \A d \in Consumers : Held(d)' # {} => at'[d] = at[d]
      BY <1>1, <1>2, <1>3 DEF Held, Working
    <2> QED  BY <2>1, <1>1, <1>3 DEF IngestInv, Fresh, groupVars
  <1>9. AckedIsSafe' /\ NotifiedOnce'
    BY <1>1 DEF IngestInv, AckedIsSafe, NotifiedOnce, groupVars, rowVars
  <1>10. PendingAccounted'
    BY <1>1, <1>4 DEF IngestInv, PendingAccounted, groupVars, histVars
  <1> QED  BY <1>5, <1>6, <1>7, <1>8, <1>9, <1>10 DEF IngestInv

-----------------------------------------------------------------------------
(* The steps of a loop between two awaits of one entry.                    *)

\* What a move leaves alone, whatever it writes to the tables.
LEMMA Move ==
    ASSUME IngestInv, NEW c \in Consumers, at[c] \in Working,
           NEW a \in Working, Goes(c, a),
           UNCHANGED <<lo, hi, adding, stream, last>>,
           pel' \cup acked' = pel \cup acked
    PROVE  /\ at'[c] = a /\ \A d \in Consumers : d # c => at'[d] = at[d]
           /\ at' \in [Consumers -> {"off", "reading"} \cup Working]
           /\ \A d \in Consumers : Held(d)' = Held(d) /\ Msg(d)' = Msg(d)
           /\ HeldByAny' = HeldByAny
           /\ Batches' /\ Bounds' /\ HeldPending' /\ OneHolder'
  <1>1. /\ at'[c] = a /\ \A d \in Consumers : d # c => at'[d] = at[d]
        /\ \A d \in Consumers : Held(d)' = Held(d)
        /\ HeldByAny' = HeldByAny
    BY HeldStays DEF IngestInv
  <1>2. at' \in [Consumers -> {"off", "reading"} \cup Working]
    BY DEF IngestInv, TypeOK, Goes
  <1>3. \A d \in Consumers : Msg(d)' = Msg(d)
    BY DEF Msg
  <1>4. Batches' /\ Bounds'
    BY <1>1 DEF IngestInv, Batches, Bounds
  <1>5. HeldPending' /\ OneHolder'
    BY <1>1 DEF IngestInv, HeldPending, OneHolder
  <1> QED  BY <1>1, <1>2, <1>3, <1>4, <1>5

\* An entry on which no failure was counted, because its loop is not there yet.
LEMMA Uncounted ==
    ASSUME IngestInv, NEW c \in Consumers,
           at[c] \in Working \ {"poison", "dead"}
    PROVE  retry[lo[c]] = 0
  BY MsgType DEF IngestInv, Fresh

\* Moves that write nothing but rows, notified and enqueued keep the rest.
LEMMA MoveFresh ==
    ASSUME IngestInv, NEW c \in Consumers, at[c] \in Working,
           NEW a \in Working, Goes(c, a),
           UNCHANGED <<lo, hi, adding, stream, last, retry, dropped, failed>>,
           pel' \subseteq pel,
           at[c] \in {"poison", "dead"} => a \in {"poison", "dead"}
    PROVE  Fresh' /\ PendingAccounted'
  <1>1. /\ at'[c] = a /\ \A d \in Consumers : d # c => at'[d] = at[d]
        /\ \A d \in Consumers : Held(d)' = Held(d)
        /\ HeldByAny' = HeldByAny
    BY HeldStays DEF IngestInv
  <1>2. Fresh'
    <2> SUFFICES ASSUME NEW e \in Entries, retry'[e] # 0
                 PROVE  /\ e <= last'
                        /\ \A d \in Consumers : e \in Held(d)' =>
                              e = lo'[d] /\ at'[d] \in {"poison", "dead"}
      BY DEF Fresh
    <2>1. /\ e <= last
          /\ \A d \in Consumers : e \in Held(d) => e = lo[d] /\ at[d] \in {"poison", "dead"}
      BY DEF IngestInv, Fresh
    <2> QED  BY <1>1, <2>1
  <1>3. PendingAccounted'
    BY <1>1 DEF IngestInv, PendingAccounted
  <1> QED  BY <1>2, <1>3

LEMMA LookKeeps ==
    ASSUME IngestInv, NEW c \in Consumers, Look(c)
    PROVE  IngestInv'
  <1> DEFINE a == IF Msg(c) \in rows THEN "acking" ELSE "creating"
  <1>1. /\ UNCHANGED <<wiringVars, running, lo, hi, adding, stream, groupVars, rowVars, limit, histVars>>
        /\ at[c] = "looking" /\ Goes(c, a) /\ at[c] \in Working /\ a \in Working
    BY DEF Look, Working
  <1>2. a = "acking" => Msg(c) \in rows
    OBVIOUS
  <1>3. a \in {"acking", "creating"}
    OBVIOUS
  <1> HIDE DEF a
  <1>4. /\ at'[c] = a /\ \A d \in Consumers : d # c => at'[d] = at[d]
        /\ at' \in [Consumers -> {"off", "reading"} \cup Working]
        /\ \A d \in Consumers : Held(d)' = Held(d) /\ Msg(d)' = Msg(d)
        /\ Batches' /\ Bounds' /\ HeldPending' /\ OneHolder'
    BY <1>1, Move DEF groupVars
  <1>5. TypeOK'
    BY <1>1, <1>4 DEF IngestInv, TypeOK, wiringVars, groupVars, rowVars, histVars
  <1>6. AtHand' /\ OnePublisher'
    BY <1>1, <1>2, <1>3, <1>4 DEF IngestInv, AtHand, OnePublisher, groupVars, rowVars
  <1>7. Fresh' /\ PendingAccounted'
    BY <1>1, MoveFresh DEF groupVars, histVars
  <1>8. AckedIsSafe' /\ NotifiedOnce'
    BY <1>1 DEF IngestInv, AckedIsSafe, NotifiedOnce, groupVars, rowVars
  <1> QED  BY <1>4, <1>5, <1>6, <1>7, <1>8 DEF IngestInv

\* The row decides: whoever finds it there goes on without telling anybody.
LEMMA CreateKeeps ==
    ASSUME IngestInv, NEW c \in Consumers, Create(c)
    PROVE  IngestInv'
  <1>1. /\ UNCHANGED <<wiringVars, running, lo, hi, adding, stream, groupVars, notified, limit,
                       dropped, failed, skipped>>
        /\ at[c] = "creating" /\ at[c] \in Working
    BY DEF Create, Working
  <1>2. Msg(c) \in Msgs
    BY <1>1, MsgType
  <1>3. CASE Msg(c) \in rows /\ Goes(c, "acking") /\ UNCHANGED <<rows, enqueued, unwired>>
    <2>0. "acking" \in Working
      BY DEF Working
    <2>1. /\ at'[c] = "acking" /\ \A d \in Consumers : d # c => at'[d] = at[d]
          /\ at' \in [Consumers -> {"off", "reading"} \cup Working]
          /\ \A d \in Consumers : Held(d)' = Held(d) /\ Msg(d)' = Msg(d)
          /\ Batches' /\ Bounds' /\ HeldPending' /\ OneHolder'
      BY <1>1, <1>3, <2>0, Move DEF groupVars
    <2>2. TypeOK'
      BY <1>1, <1>3, <2>1 DEF IngestInv, TypeOK, wiringVars, groupVars
    <2>3. AtHand' /\ OnePublisher'
      BY <1>1, <1>3, <2>1 DEF IngestInv, AtHand, OnePublisher, groupVars
    <2>4. Fresh' /\ PendingAccounted'
      BY <1>1, <1>3, <2>0, MoveFresh DEF groupVars
    <2>5. AckedIsSafe' /\ NotifiedOnce'
      BY <1>1, <1>3 DEF IngestInv, AckedIsSafe, NotifiedOnce, groupVars
    <2> QED  BY <2>1, <2>2, <2>3, <2>4, <2>5 DEF IngestInv
  <1>4. CASE /\ Msg(c) \notin rows /\ Goes(c, "publishing") /\ rows' = rows \cup {Msg(c)}
             /\ enqueued' = IF Msg(c) \in Media /\ subscribed
                            THEN [enqueued EXCEPT ![Msg(c)] = @ + 1] ELSE enqueued
             /\ unwired' = IF Msg(c) \in Media /\ ~subscribed
                           THEN unwired \cup {Msg(c)} ELSE unwired
    <2>0. "publishing" \in Working
      BY DEF Working
    <2>1. /\ at'[c] = "publishing" /\ \A d \in Consumers : d # c => at'[d] = at[d]
          /\ at' \in [Consumers -> {"off", "reading"} \cup Working]
          /\ \A d \in Consumers : Held(d)' = Held(d) /\ Msg(d)' = Msg(d)
          /\ Batches' /\ Bounds' /\ HeldPending' /\ OneHolder'
      BY <1>1, <1>4, <2>0, Move DEF groupVars
    <2>2. /\ notified \in [Msgs -> Nat] /\ enqueued \in [Msgs -> Nat]
          /\ notified[Msg(c)] = 0 /\ enqueued[Msg(c)] = 0
      <3>1. notified \in [Msgs -> Nat] /\ enqueued \in [Msgs -> Nat]
        BY DEF IngestInv, TypeOK
      <3>2. /\ notified[Msg(c)] <= 1 /\ enqueued[Msg(c)] <= 1
            /\ ~(notified[Msg(c)] = 1) /\ ~(enqueued[Msg(c)] = 1)
        BY <1>2, <1>4 DEF IngestInv, NotifiedOnce
      <3>3. notified[Msg(c)] \in Nat /\ enqueued[Msg(c)] \in Nat
        BY <3>1, <1>2
      <3> QED  BY <3>1, <3>2, <3>3
    <2>3. /\ enqueued' \in [Msgs -> Nat]
          /\ enqueued'[Msg(c)] \in {0, 1}
          /\ \A m \in Msgs : m # Msg(c) => enqueued'[m] = enqueued[m]
      BY <1>2, <1>4, <2>2
    <2>4. TypeOK'
      <3>1. unwired' \subseteq Msgs /\ rows' \subseteq Msgs
        BY <1>2, <1>4 DEF IngestInv, TypeOK
      <3> QED  BY <1>1, <2>1, <2>3, <3>1 DEF IngestInv, TypeOK, wiringVars, groupVars
    <2>5. AtHand'
      BY <1>1, <1>4, <2>1, <2>2 DEF IngestInv, AtHand, groupVars
    <2>6. OnePublisher'
      <3>1. \A d \in Consumers : d # c /\ at'[d] = "publishing" => Msg(d)' # Msg(c)'
        BY <1>4, <2>1 DEF IngestInv, AtHand
      <3> QED  BY <3>1, <2>1 DEF IngestInv, OnePublisher
    <2>7. Fresh' /\ PendingAccounted'
      BY <1>1, <1>4, <2>0, MoveFresh DEF groupVars
    <2>8. AckedIsSafe'
      BY <1>1, <1>4 DEF IngestInv, AckedIsSafe, groupVars
    <2>9. NotifiedOnce'
      <3> SUFFICES ASSUME NEW m \in Msgs
                   PROVE  /\ notified'[m] <= 1 /\ enqueued'[m] <= 1
                          /\ notified'[m] = 1 \/ enqueued'[m] = 1 => m \in rows'
        BY DEF NotifiedOnce
      <3>1. CASE m = Msg(c)
        BY <3>1, <1>1, <1>4, <2>2, <2>3
      <3>2. CASE m # Msg(c)
        BY <3>2, <1>1, <1>4, <2>3 DEF IngestInv, NotifiedOnce
      <3> QED  BY <3>1, <3>2
    <2> QED  BY <2>1, <2>4, <2>5, <2>6, <2>7, <2>8, <2>9 DEF IngestInv
  <1> QED  BY <1>3, <1>4 DEF Create

LEMMA PublishKeeps ==
    ASSUME IngestInv, NEW c \in Consumers, Publish(c)
    PROVE  IngestInv'
  <1>1. /\ UNCHANGED <<wiringVars, running, lo, hi, adding, stream, groupVars, rows,
                       enqueued, limit, histVars>>
        /\ at[c] = "publishing" /\ Goes(c, "acking")
        /\ at[c] \in Working /\ "acking" \in Working
        /\ notified' = [notified EXCEPT ![Msg(c)] = @ + 1]
    BY DEF Publish, Working
  <1>2. Msg(c) \in Msgs /\ Msg(c) \in rows /\ notified[Msg(c)] = 0
        /\ notified \in [Msgs -> Nat]
    BY <1>1, MsgType DEF IngestInv, AtHand, TypeOK
  <1>3. /\ at'[c] = "acking" /\ \A d \in Consumers : d # c => at'[d] = at[d]
        /\ at' \in [Consumers -> {"off", "reading"} \cup Working]
        /\ \A d \in Consumers : Held(d)' = Held(d) /\ Msg(d)' = Msg(d)
        /\ Batches' /\ Bounds' /\ HeldPending' /\ OneHolder'
    BY <1>1, Move DEF groupVars
  <1>4. /\ notified' \in [Msgs -> Nat] /\ notified'[Msg(c)] = 1
        /\ \A m \in Msgs : m # Msg(c) => notified'[m] = notified[m]
    BY <1>1, <1>2
  <1>5. TypeOK'
    BY <1>1, <1>3, <1>4 DEF IngestInv, TypeOK, wiringVars, groupVars, histVars
  <1>6. OnePublisher'
    BY <1>3 DEF IngestInv, OnePublisher
  <1>7. AtHand'
    <2> SUFFICES ASSUME NEW d \in Consumers
                 PROVE  /\ at'[d] = "acking" => Msg(d)' \in rows'
                        /\ at'[d] = "dead" => lo'[d] \in dlq'
                        /\ at'[d] = "publishing" => Msg(d)' \in rows' /\ notified'[Msg(d)'] = 0
      BY DEF AtHand
    <2>1. CASE d = c
      BY <2>1, <1>1, <1>2, <1>3
    <2>2. CASE d # c
      <3>1. at[d] = "publishing" => Msg(d) # Msg(c) /\ Msg(d) \in Msgs
        BY <2>2, <1>1, MsgType DEF IngestInv, OnePublisher, Working
      <3> QED  BY <2>2, <3>1, <1>1, <1>3, <1>4 DEF IngestInv, AtHand, groupVars
    <2> QED  BY <2>1, <2>2
  <1>8. Fresh' /\ PendingAccounted'
    BY <1>1, MoveFresh DEF groupVars, histVars
  <1>9. AckedIsSafe'
    BY <1>1 DEF IngestInv, AckedIsSafe, groupVars
  <1>10. NotifiedOnce'
    BY <1>1, <1>2, <1>4 DEF IngestInv, NotifiedOnce
  <1> QED  BY <1>3, <1>5, <1>6, <1>7, <1>8, <1>9, <1>10 DEF IngestInv

LEMMA FailKeeps ==
    ASSUME IngestInv, NEW c \in Consumers, Fail(c)
    PROVE  IngestInv'
  <1>1. /\ UNCHANGED <<wiringVars, running, lo, hi, adding, stream, group, last, retry, dlq,
                       enqueued, limit, histVars>>
        /\ Goes(c, "failed") /\ at[c] \in Working /\ "failed" \in Working
        /\ at[c] \notin {"poison", "dead"}
    BY DEF Fail, Working
  <1>2. Msg(c) \in Msgs /\ lo[c] \in Entries /\ lo[c] \in pel \cup acked
    BY <1>1, MsgType
  <1>3. /\ rows' \in {rows, rows \cup {Msg(c)}}
        /\ pel' \cup acked' = pel \cup acked /\ pel' \subseteq pel
        /\ \/ acked' = acked
           \/ at[c] = "acking" /\ acked' = acked \cup {lo[c]}
        /\ \/ notified' = notified
           \/ at[c] = "publishing" /\ notified' = [notified EXCEPT ![Msg(c)] = @ + 1]
    <2>1. CASE UNCHANGED <<rows, notified, pel, acked>>
      BY <2>1
    <2>2. CASE at[c] = "creating" /\ rows' = rows \cup {Msg(c)}
               /\ UNCHANGED <<notified, pel, acked>>
      BY <2>2
    <2>3. CASE /\ at[c] = "publishing" /\ notified' = [notified EXCEPT ![Msg(c)] = @ + 1]
               /\ UNCHANGED <<rows, pel, acked>>
      BY <2>3
    <2>4. CASE /\ at[c] = "acking" /\ pel' = pel \ {lo[c]} /\ acked' = acked \cup {lo[c]}
               /\ UNCHANGED <<rows, notified>>
      BY <2>4, <1>2
    <2> QED  BY <2>1, <2>2, <2>3, <2>4 DEF Fail
  <1>4. /\ rows \subseteq rows' /\ rows' \subseteq Msgs
        /\ pel' \subseteq Entries /\ acked' \subseteq Entries
    BY <1>2, <1>3 DEF IngestInv, TypeOK
  <1>5. /\ notified \in [Msgs -> Nat] /\ notified' \in [Msgs -> Nat]
        /\ \A m \in Msgs : m # Msg(c) => notified'[m] = notified[m]
        /\ \/ notified' = notified
           \/ at[c] = "publishing" /\ notified'[Msg(c)] = 1 /\ Msg(c) \in rows
    <2>1. notified \in [Msgs -> Nat]
      BY DEF IngestInv, TypeOK
    <2>2. CASE notified' = notified
      BY <2>1, <2>2
    <2>3. CASE at[c] = "publishing" /\ notified' = [notified EXCEPT ![Msg(c)] = @ + 1]
      <3>1. notified[Msg(c)] = 0 /\ Msg(c) \in rows
        BY <2>3 DEF IngestInv, AtHand
      <3> QED  BY <3>1, <2>1, <2>3, <1>2
    <2> QED  BY <1>3, <2>2, <2>3
  <1>6. /\ at'[c] = "failed" /\ \A d \in Consumers : d # c => at'[d] = at[d]
        /\ at' \in [Consumers -> {"off", "reading"} \cup Working]
        /\ \A d \in Consumers : Held(d)' = Held(d) /\ Msg(d)' = Msg(d)
        /\ Batches' /\ Bounds' /\ HeldPending' /\ OneHolder'
    BY <1>1, <1>3, Move
  <1>7. TypeOK'
    BY <1>1, <1>4, <1>5, <1>6 DEF IngestInv, TypeOK, wiringVars, histVars
  <1>8. OnePublisher'
    BY <1>6 DEF IngestInv, OnePublisher
  <1>9. AtHand'
    <2> SUFFICES ASSUME NEW d \in Consumers
                 PROVE  /\ at'[d] = "acking" => Msg(d)' \in rows'
                        /\ at'[d] = "dead" => lo'[d] \in dlq'
                        /\ at'[d] = "publishing" => Msg(d)' \in rows' /\ notified'[Msg(d)'] = 0
      BY DEF AtHand
    <2>1. CASE d = c
      BY <2>1, <1>6
    <2>2. CASE d # c
      <3>1. at[d] = "publishing" => Msg(d) \in Msgs /\ notified'[Msg(d)] = notified[Msg(d)]
        <4>1. at[d] = "publishing" => Msg(d) \in Msgs
          BY MsgType DEF Working
        <4>2. at[d] = "publishing" /\ at[c] = "publishing" => Msg(d) # Msg(c)
          BY <2>2 DEF IngestInv, OnePublisher
        <4> QED  BY <4>1, <4>2, <1>5
      <3> QED  BY <2>2, <3>1, <1>1, <1>4, <1>6 DEF IngestInv, AtHand
    <2> QED  BY <2>1, <2>2
  <1>10. Fresh' /\ PendingAccounted'
    BY <1>1, <1>3, MoveFresh DEF histVars
  <1>11. AckedIsSafe'
    <2>1. at[c] = "acking" => stream[lo[c]] \in rows
      BY DEF IngestInv, AtHand, Msg
    <2> QED  BY <2>1, <1>1, <1>3, <1>4 DEF IngestInv, AckedIsSafe
  <1>12. NotifiedOnce'
    <2> SUFFICES ASSUME NEW m \in Msgs
                 PROVE  /\ notified'[m] <= 1 /\ enqueued'[m] <= 1
                        /\ notified'[m] = 1 \/ enqueued'[m] = 1 => m \in rows'
      BY DEF NotifiedOnce
    <2>1. /\ notified[m] <= 1 /\ enqueued[m] <= 1
          /\ notified[m] = 1 \/ enqueued[m] = 1 => m \in rows
      BY DEF IngestInv, NotifiedOnce
    <2>2. notified'[m] = notified[m] \/ (notified'[m] = 1 /\ m \in rows)
      BY <1>5
    <2> QED  BY <2>1, <2>2, <1>1, <1>4
  <1> QED  BY <1>6, <1>7, <1>8, <1>9, <1>10, <1>11, <1>12 DEF IngestInv

LEMMA PoisonKeeps ==
    ASSUME IngestInv, NEW c \in Consumers, Poison(c)
    PROVE  IngestInv'
  <1>1. /\ UNCHANGED <<wiringVars, running, lo, hi, adding, stream, group, last, pel, acked,
                       retry, rowVars, limit, histVars>>
        /\ Goes(c, "dead") /\ at[c] = "poison" /\ at[c] \in Working /\ "dead" \in Working
        /\ dlq' = dlq \cup {lo[c]}
    BY DEF Poison, Working
  <1>2. lo[c] \in Entries
    BY <1>1, MsgType
  <1>3. /\ at'[c] = "dead" /\ \A d \in Consumers : d # c => at'[d] = at[d]
        /\ at' \in [Consumers -> {"off", "reading"} \cup Working]
        /\ \A d \in Consumers : Held(d)' = Held(d) /\ Msg(d)' = Msg(d)
        /\ Batches' /\ Bounds' /\ HeldPending' /\ OneHolder'
    BY <1>1, Move
  <1>4. TypeOK'
    BY <1>1, <1>2, <1>3 DEF IngestInv, TypeOK, wiringVars, rowVars, histVars
  <1>5. AtHand' /\ OnePublisher'
    BY <1>1, <1>3 DEF IngestInv, AtHand, OnePublisher, rowVars
  <1>6. Fresh' /\ PendingAccounted'
    BY <1>1, MoveFresh DEF histVars
  <1>7. AckedIsSafe' /\ NotifiedOnce'
    BY <1>1 DEF IngestInv, AckedIsSafe, NotifiedOnce, rowVars
  <1> QED  BY <1>3, <1>4, <1>5, <1>6, <1>7 DEF IngestInv

-----------------------------------------------------------------------------
(* The steps that finish an entry.                                         *)

LEMMA Advance ==
    ASSUME IngestInv, NEW c \in Consumers, at[c] \in Working, NextEntry(c),
           UNCHANGED <<adding, stream, last, dlq, rowVars>>,
           \/ UNCHANGED <<pel, acked>>
           \/ pel' = pel \ {lo[c]} /\ acked' = acked \cup {lo[c]}
    PROVE  /\ Batches' /\ Bounds' /\ HeldPending' /\ OneHolder' /\ AtHand' /\ OnePublisher'
           /\ pel' \subseteq Entries /\ acked' \subseteq Entries
  <1>1. /\ Held(c)' = Held(c) \ {lo[c]} /\ lo[c] \in Held(c)
        /\ \A d \in Consumers : d # c =>
              /\ Held(d)' = Held(d) /\ at'[d] = at[d]
              /\ lo'[d] = lo[d] /\ hi'[d] = hi[d]
        /\ at'[c] \in {"looking", "reading", "off"}
        /\ at'[c] = "looking" =>
               lo'[c] = lo[c] + 1 /\ hi'[c] = hi[c] /\ lo'[c] <= hi'[c]
    BY HeldShrinks DEF IngestInv
  <1>2. lo[c] \in Entries /\ lo[c] \in pel \cup acked /\ lo[c] \in Nat
    BY MsgType DEF Entries
  <1>3. pel' \subseteq Entries /\ acked' \subseteq Entries
    BY <1>2 DEF IngestInv, TypeOK
  <1>4. Batches'
    <2> SUFFICES ASSUME NEW d \in Consumers, at'[d] \in Working
                 PROVE  1 <= lo'[d] /\ lo'[d] <= hi'[d] /\ hi'[d] <= last'
      BY DEF Batches
    <2>1. CASE d = c
      <3>1. at'[c] = "looking"
        BY <2>1, <1>1 DEF Working
      <3>2. 1 <= lo[c] /\ hi[c] <= last
        BY DEF IngestInv, Batches
      <3> QED  BY <2>1, <3>1, <3>2, <1>1, <1>2
    <2>2. CASE d # c
      BY <2>2, <1>1 DEF IngestInv, Batches
    <2> QED  BY <2>1, <2>2
  <1>5. Bounds'
    <2>1. \A e \in pel \cup acked : e <= last
      BY DEF IngestInv, Bounds
    <2>2. pel' \cup acked' \subseteq pel \cup acked
      BY <1>2
    <2>3. \A e \in pel' \cup acked' : e <= last'
      BY <2>1, <2>2
    <2> QED  BY <2>3 DEF IngestInv, Bounds
  <1>6. HeldPending'
    <2>1. \A d \in Consumers : Held(d)' \subseteq Held(d)
      BY <1>1
    <2>2. pel \cup acked \subseteq pel' \cup acked'
      OBVIOUS
    <2> QED  BY <2>1, <2>2 DEF IngestInv, HeldPending
  <1>7. OneHolder'
    <2>1. \A d \in Consumers : Held(d)' \subseteq Held(d)
      BY <1>1
    <2> QED  BY <2>1 DEF IngestInv, OneHolder
  <1>8. AtHand' /\ OnePublisher'
    <2>1. /\ at'[c] \notin {"acking", "dead", "publishing"}
          /\ \A d \in Consumers : d # c => at'[d] = at[d] /\ lo'[d] = lo[d] /\ Msg(d)' = Msg(d)
      BY <1>1 DEF Msg
    <2> QED  BY <2>1 DEF IngestInv, AtHand, OnePublisher, rowVars
  <1> QED  BY <1>3, <1>4, <1>5, <1>6, <1>7, <1>8

\* XACK, with the retry counter deleted.
LEMMA AcknowledgeKeeps ==
    ASSUME IngestInv, NEW c \in Consumers, at[c] \in {"acking", "dead"}, NextEntry(c),
           pel' = pel \ {lo[c]}, acked' = acked \cup {lo[c]},
           retry' = [retry EXCEPT ![lo[c]] = 0],
           UNCHANGED <<wiringVars, adding, stream, group, last, dlq, rowVars, limit, histVars>>
    PROVE  IngestInv'
  <1>0. at[c] \in Working
    BY DEF Working
  <1>1. /\ Held(c)' = Held(c) \ {lo[c]} /\ lo[c] \in Held(c)
        /\ \A d \in Consumers : d # c =>
              Held(d)' = Held(d) /\ at'[d] = at[d] /\ lo'[d] = lo[d]
        /\ running' = running
        /\ lo' \in [Consumers -> Nat] /\ hi' \in [Consumers -> 0..MaxEntries]
        /\ at' \in [Consumers -> {"off", "reading"} \cup Working]
    BY <1>0, HeldShrinks DEF IngestInv
  <1>2. /\ Batches' /\ Bounds' /\ HeldPending' /\ OneHolder' /\ AtHand' /\ OnePublisher'
        /\ pel' \subseteq Entries /\ acked' \subseteq Entries
    BY <1>0, Advance
  <1>3. lo[c] \in Entries /\ Msg(c) \in Msgs
    BY <1>0, MsgType
  <1>4. retry \in [Entries -> 0..1] /\ 0 \in 0..1
    BY NumberAssumption DEF IngestInv, TypeOK
  <1>5. /\ retry' \in [Entries -> 0..1] /\ retry'[lo[c]] = 0
        /\ \A e \in Entries : e # lo[c] => retry'[e] = retry[e]
    BY <1>3, <1>4
  <1>6. TypeOK'
    BY <1>1, <1>2, <1>5 DEF IngestInv, TypeOK, wiringVars, rowVars, histVars
  <1>7. Fresh'
    <2> SUFFICES ASSUME NEW e \in Entries, retry'[e] # 0
                 PROVE  /\ e <= last'
                        /\ \A d \in Consumers : e \in Held(d)' =>
                              e = lo'[d] /\ at'[d] \in {"poison", "dead"}
      BY DEF Fresh
    <2>1. e # lo[c] /\ retry[e] # 0
      BY <1>5
    <2>2. /\ e <= last
          /\ \A d \in Consumers : e \in Held(d) => e = lo[d] /\ at[d] \in {"poison", "dead"}
      BY <2>1 DEF IngestInv, Fresh
    <2>3. e \notin Held(c)'
      BY <2>1, <2>2, <1>1
    <2> QED  BY <2>2, <2>3, <1>1
  <1>8. AckedIsSafe'
    <2>1. lo[c] \in dlq \/ stream[lo[c]] \in rows
      BY DEF IngestInv, AtHand, Msg
    <2> QED  BY <2>1 DEF IngestInv, AckedIsSafe, rowVars
  <1>9. NotifiedOnce'
    BY DEF IngestInv, NotifiedOnce, rowVars
  <1>10. PendingAccounted'
    <2>1. \A e \in HeldByAny : e # lo[c] => e \in HeldByAny'
      BY <1>1 DEF HeldByAny
    <2> QED  BY <2>1 DEF IngestInv, PendingAccounted, histVars
  <1> QED  BY <1>2, <1>6, <1>7, <1>8, <1>9, <1>10 DEF IngestInv

LEMMA AckKeeps ==
    ASSUME IngestInv, NEW c \in Consumers, Ack(c) \/ Bury(c)
    PROVE  IngestInv'
  BY AcknowledgeKeeps DEF Ack, Bury

\* The first failure of an entry is its last: nobody is handed it again.
LEMMA CountFailureKeeps ==
    ASSUME IngestInv, NEW c \in Consumers, CountFailure(c)
    PROVE  IngestInv'
  <1>1. /\ UNCHANGED <<wiringVars, adding, stream, group, last, pel, acked, dlq, rowVars, limit,
                       dropped, skipped, unwired>>
        /\ at[c] = "failed" /\ at[c] \in Working /\ at[c] \in Working \ {"poison", "dead"}
        /\ "poison" \in Working
        /\ retry' = [retry EXCEPT ![lo[c]] = @ + 1]
    BY DEF CountFailure, Working
  <1>2. lo[c] \in Entries /\ lo[c] \in Held(c) /\ lo[c] \in pel \cup acked /\ lo[c] \in Nat
    BY <1>1, MsgType DEF Entries
  <1>3. retry[lo[c]] = 0
    BY <1>1, Uncounted
  <1>4. retry \in [Entries -> 0..1] /\ 1 \in 0..1
    BY NumberAssumption DEF IngestInv, TypeOK
  <1>5. /\ retry' \in [Entries -> 0..1] /\ retry'[lo[c]] = 1
        /\ \A e \in Entries : e # lo[c] => retry'[e] = retry[e]
    BY <1>1, <1>2, <1>3, <1>4
  <1>6. lo[c] <= last
    BY <1>2 DEF IngestInv, Bounds
  <1>7. AckedIsSafe' /\ NotifiedOnce'
    BY <1>1 DEF IngestInv, AckedIsSafe, NotifiedOnce, rowVars
  <1>8. \A e \in Entries : retry'[e] # 0 =>
          /\ e <= last
          /\ e # lo[c] => \A d \in Consumers : e \in Held(d) =>
                e = lo[d] /\ at[d] \in {"poison", "dead"}
    BY <1>5, <1>6 DEF IngestInv, Fresh
  <1>9. CASE Goes(c, "poison") /\ UNCHANGED <<running, lo, hi, failed>>
    <2>1. /\ at'[c] = "poison" /\ \A d \in Consumers : d # c => at'[d] = at[d]
          /\ at' \in [Consumers -> {"off", "reading"} \cup Working]
          /\ \A d \in Consumers : Held(d)' = Held(d) /\ Msg(d)' = Msg(d)
          /\ HeldByAny' = HeldByAny
          /\ Batches' /\ Bounds' /\ HeldPending' /\ OneHolder'
      BY <1>1, <1>9, Move
    <2>2. TypeOK'
      BY <1>1, <1>5, <1>9, <2>1 DEF IngestInv, TypeOK, wiringVars, rowVars
    <2>3. AtHand' /\ OnePublisher'
      BY <1>1, <1>9, <2>1 DEF IngestInv, AtHand, OnePublisher, rowVars
    <2>4. Fresh'
      <3>1. \A d \in Consumers : lo[c] \in Held(d) => d = c
        BY <1>2 DEF IngestInv, OneHolder
      <3> SUFFICES ASSUME NEW e \in Entries, retry'[e] # 0
                   PROVE  /\ e <= last'
                          /\ \A d \in Consumers : e \in Held(d)' =>
                                e = lo'[d] /\ at'[d] \in {"poison", "dead"}
        BY DEF Fresh
      <3>2. CASE e = lo[c]
        BY <3>1, <3>2, <1>1, <1>6, <1>9, <2>1
      <3>3. CASE e # lo[c]
        BY <3>3, <1>1, <1>8, <1>9, <2>1
      <3> QED  BY <3>2, <3>3
    <2>5. PendingAccounted'
      BY <1>1, <1>9, <2>1 DEF IngestInv, PendingAccounted
    <2> QED  BY <1>7, <2>1, <2>2, <2>3, <2>4, <2>5 DEF IngestInv
  <1>10. CASE NextEntry(c) /\ failed' = failed \cup {lo[c]}
    <2>1. /\ Held(c)' = Held(c) \ {lo[c]}
          /\ \A d \in Consumers : d # c =>
                Held(d)' = Held(d) /\ at'[d] = at[d] /\ lo'[d] = lo[d]
          /\ running' = running
          /\ lo' \in [Consumers -> Nat] /\ hi' \in [Consumers -> 0..MaxEntries]
          /\ at' \in [Consumers -> {"off", "reading"} \cup Working]
      BY <1>1, <1>10, HeldShrinks DEF IngestInv
    <2>2. Batches' /\ Bounds' /\ HeldPending' /\ OneHolder' /\ AtHand' /\ OnePublisher'
      BY <1>1, <1>10, Advance
    <2>3. TypeOK'
      <3>1. failed' \subseteq Entries
        BY <1>2, <1>10 DEF IngestInv, TypeOK
      <3> QED  BY <1>1, <1>5, <2>1, <3>1 DEF IngestInv, TypeOK, wiringVars, rowVars
    <2>4. Fresh'
      <3>1. \A d \in Consumers : lo[c] \in Held(d) => d = c
        BY <1>2 DEF IngestInv, OneHolder
      <3> SUFFICES ASSUME NEW e \in Entries, retry'[e] # 0
                   PROVE  /\ e <= last'
                          /\ \A d \in Consumers : e \in Held(d)' =>
                                e = lo'[d] /\ at'[d] \in {"poison", "dead"}
        BY DEF Fresh
      <3>2. CASE e = lo[c]
        BY <3>1, <3>2, <1>1, <1>6, <2>1
      <3>3. CASE e # lo[c]
        <4>1. e \notin Held(c)'
          BY <3>3, <1>1, <1>8, <2>1
        <4> QED  BY <3>3, <4>1, <1>1, <1>8, <2>1
      <3> QED  BY <3>2, <3>3
    <2>5. PendingAccounted'
      <3>1. \A e \in HeldByAny : e # lo[c] => e \in HeldByAny'
        BY <2>1 DEF HeldByAny
      <3> QED  BY <3>1, <1>1, <1>10 DEF IngestInv, PendingAccounted
    <2> QED  BY <1>7, <2>2, <2>3, <2>4, <2>5 DEF IngestInv
  <1> QED  BY <1>9, <1>10 DEF CountFailure

-----------------------------------------------------------------------------
LEMMA NextKeeps == IngestInv /\ [Next]_vars => IngestInv'
  <1> SUFFICES ASSUME IngestInv, [Next]_vars PROVE IngestInv'
    OBVIOUS
  <1>1. CASE StartIngest \/ Subscribe \/ StopIngest \/ StartFails \/ UNCHANGED vars
    BY <1>1, WiringKeeps
  <1>2. ASSUME NEW c \in Consumers, GroupReady(c) PROVE IngestInv'
    BY <1>2, GroupReadyKeeps
  <1>3. ASSUME NEW c \in Consumers, Loop(c) PROVE IngestInv'
    <2>1. CASE Read(c) \/ ReadLost(c) \/ ReadEnds(c)
      BY <2>1, ReadKeeps, ReadLostKeeps, ReadEndsKeeps
    <2>2. CASE Look(c) \/ Create(c) \/ Publish(c)
      BY <2>2, LookKeeps, CreateKeeps, PublishKeeps
    <2>3. CASE Ack(c) \/ Bury(c)
      BY <2>3, AckKeeps
    <2>4. CASE Fail(c) \/ CountFailure(c) \/ Poison(c)
      BY <2>4, FailKeeps, CountFailureKeeps, PoisonKeeps
    <2> QED  BY <1>3, <2>1, <2>2, <2>3, <2>4 DEF Loop
  <1>4. ASSUME NEW m \in Msgs, Upsert(m) PROVE IngestInv'
    BY <1>4, UpsertKeeps
  <1>5. CASE Added
    BY <1>5, AddedKeeps
  <1>6. CASE Crash
    BY <1>6, CrashKeeps
  <1>7. ASSUME NEW e \in Entries, RetryExpires(e) PROVE IngestInv'
    BY <1>7, ExpiresKeeps
  <1> QED  BY <1>1, <1>2, <1>3, <1>4, <1>5, <1>6, <1>7 DEF Next

\* Every reachable state satisfies the inductive invariant.
THEOREM IngestInvariant == Spec => []IngestInv
  BY InitInv, NextKeeps, PTL DEF Spec

\* The variables keep their types: no failure is counted twice, and nothing
\* was delivered that was not added (consume.ts).
THEOREM IngestTypes == Spec => []TypeOK
  <1>1. IngestInv => TypeOK
    BY DEF IngestInv
  <1> QED  BY <1>1, IngestInvariant, PTL

\* An entry is acknowledged only after its message has a row or the entry is in
\* the dead-letter stream, whatever fails in between (consume.ts, persist.ts).
THEOREM AckedSafe == Spec => []AckedIsSafe
  <1>1. IngestInv => AckedIsSafe
    BY DEF IngestInv
  <1> QED  BY <1>1, IngestInvariant, PTL

\* A message is announced, and its media enqueued, at most once (persist.ts).
THEOREM ToldOnce == Spec => []NotifiedOnce
  <1>1. IngestInv => NotifiedOnce
    BY DEF IngestInv
  <1> QED  BY <1>1, IngestInvariant, PTL

\* Overlapping loops of a user never share an entry (consume.ts, index.ts).
THEOREM HoldersDisjoint == Spec => []OneHolder
  <1>1. IngestInv => OneHolder
    BY DEF IngestInv
  <1> QED  BY <1>1, IngestInvariant, PTL

\* A pending entry nobody works on has failed itself, or its process died or a reply
\* of Redis was lost (consume.ts).
THEOREM Accounted == Spec => []PendingAccounted
  <1>1. IngestInv => PendingAccounted
    BY DEF IngestInv
  <1> QED  BY <1>1, IngestInvariant, PTL
-----------------------------------------------------------------------------
(* What becomes of a message (MessagePath).                                *)

\* A set of naturals that is not empty has a least element.
LEMMA LeastNumber ==
    ASSUME NEW T, T \subseteq Nat, T # {}
    PROVE  \E i \in T : \A j \in T : i <= j
  <1>1. \E i \in T : \A j \in T : <<j, i>> \notin OpToRel(<, Nat)
    BY WFMin, NatLessThanWellFounded
  <1>2. ASSUME NEW i \in Nat, NEW j \in Nat, j < i PROVE <<j, i>> \in OpToRel(<, Nat)
    BY <1>2 DEF OpToRel
  <1>3. PICK i \in T : \A j \in T : <<j, i>> \notin OpToRel(<, Nat)
    BY <1>1
  <1>4. \A j \in T : i \in Nat /\ j \in Nat /\ ~(j < i)
    BY <1>2, <1>3
  <1>5. \A j \in T : i <= j
    BY <1>4
  <1> QED  BY <1>5

\* The kind of a body is that of a key it has, or "unknown" without one.
LEMMA BodyKindOf ==
    ASSUME NEW layer
    PROVE  /\ layer \cap BodyKeySet = {} => BodyKind(layer) = "unknown"
           /\ layer \cap BodyKeySet # {} =>
                  \E i \in 1..10 : BodyKeys[i] \in layer /\ BodyKind(layer) = Kinds[i]
  <1>1. DOMAIN BodyKeys = 1..10
    BY DEF BodyKeys
  <1>2. CASE layer \cap BodyKeySet = {}
    BY <1>2 DEF BodyKind
  <1>3. CASE layer \cap BodyKeySet # {}
    <2> DEFINE Has == {i \in 1..10 : BodyKeys[i] \in layer}
               First(i) == BodyKeys[i] \in layer /\ \A j \in 1..(i - 1) : BodyKeys[j] \notin layer
    <2>1. Has \subseteq Nat /\ Has # {}
      BY <1>1, <1>3 DEF BodyKeySet
    <2>2. PICK i \in Has : \A j \in Has : i <= j
      BY <2>1, LeastNumber
    <2>3. First(i)
      BY <2>2
    <2>4. LET n == CHOOSE k \in DOMAIN BodyKeys : First(k)
          IN  n \in 1..10 /\ BodyKeys[n] \in layer /\ BodyKind(layer) = Kinds[n]
      BY <1>1, <1>3, <2>2, <2>3 DEF BodyKind
    <2> QED  BY <1>3, <2>4
  <1> QED  BY <1>2, <1>3

\* The recursion of extractBody ends at the last layer, with every envelope opened.
LEMMA InnermostIsLast ==
    ASSUME NEW raw \in Raws \cup Msgs, raw.layers # <<>>,
           \A i \in DOMAIN raw.layers :
               i < Len(raw.layers) => raw.layers[i] \cap WrapperKeys # {}
    PROVE  Innermost(raw) = raw.layers[Len(raw.layers)]
  <1>1. /\ raw.layers \in Seq(SUBSET STRING) /\ DOMAIN raw.layers = 1..Len(raw.layers)
        /\ Len(raw.layers) \in Nat \ {0}
    BY LayerAssumption
  <1>2. \A i \in DOMAIN raw.layers : Unwraps(raw, i) <=> i < Len(raw.layers)
    BY <1>1 DEF Unwraps
  <1> DEFINE Ends(i) == ~Unwraps(raw, i) /\ \A j \in 1..(i - 1) : Unwraps(raw, j)
  <1>3. Ends(Len(raw.layers))
    BY <1>1, <1>2
  <1>4. \A i \in DOMAIN raw.layers : Ends(i) => i = Len(raw.layers)
    BY <1>1, <1>2
  <1>5. (CHOOSE i \in DOMAIN raw.layers : Ends(i)) = Len(raw.layers)
    BY <1>1, <1>3, <1>4
  <1> QED  BY <1>5 DEF Innermost

\* A body of one of these kinds came with one of these keys.
LEMMA TextKindOf ==
    ASSUME NEW layer, BodyKind(layer) \in {"text", "reaction"}
    PROVE  layer \cap TextKeys # {}
  <1>1. layer \cap BodyKeySet # {}
    BY BodyKindOf
  <1>2. PICK i \in 1..10 : BodyKeys[i] \in layer /\ BodyKind(layer) = Kinds[i]
    BY <1>1, BodyKindOf
  <1>3. i \in {1, 2, 10}
    BY <1>2 DEF Kinds
  <1>4. BodyKeys[i] \in TextKeys
    BY <1>3 DEF BodyKeys, TextKeys
  <1> QED  BY <1>2, <1>4

\* A message has media to fetch if and only if its bubble offers to open something,
\* and its bubble is bare only if it has no body, or one of text without text.
LEMMA BubbleOfKind ==
    ASSUME NEW raw \in Raws \cup Msgs
    PROVE  /\ WantsMedia(raw) <=> Screen(raw).shows \in Opened
           /\ /\ Innermost(raw) \cap BodyKeySet # {}
              /\ Innermost(raw) \cap TextKeys # {} => raw.text
              => Screen(raw).shows \in {"text"} \cup Opened
  <1> DEFINE kind == BodyKind(Innermost(raw))
  <1>1. /\ kind \in {"text", "image", "video", "audio", "document", "sticker", "location",
                     "contact", "reaction", "unknown"}
        /\ Innermost(raw) \cap BodyKeySet # {} => kind # "unknown"
    BY BodyKindOf DEF Kinds
  <1>2. normalize(raw).kind = kind /\ normalize(raw).text = raw.text
    BY DEF normalize
  <1>3. Screen(raw).shows =
            CASE kind = "text" -> IF raw.text THEN "text" ELSE "blank"
              [] kind \in {"location", "contact"} -> "text"
              [] kind = "reaction" -> IF raw.text THEN "text" ELSE "dash"
              [] kind = "unknown" -> "dash"
              [] kind = "null" -> "crash"
              [] OTHER -> MediaBubble(kind)
    BY <1>2 DEF Screen, MessageBubble, shapeMessage
  <1>4. WantsMedia(raw) <=> kind \in MediaKinds
    BY <1>2 DEF WantsMedia
  <1>8. kind \in {"text", "reaction"} => Innermost(raw) \cap TextKeys # {}
    BY TextKindOf
  <1> HIDE DEF kind
  <1>a. raw.text \in BOOLEAN
    BY LayerAssumption
  <1>5. CASE kind \in {"text", "location", "contact", "reaction"}
    <2>1. kind \notin MediaKinds
      BY <1>5 DEF MediaKinds
    <2>2. CASE kind = "text"
      <3>1. Screen(raw).shows = IF raw.text THEN "text" ELSE "blank"
        BY <1>3, <2>2
      <3> QED  BY <3>1, <2>1, <2>2, <1>4, <1>8, <1>a DEF Opened
    <2>3. CASE kind = "reaction"
      <3>1. Screen(raw).shows = IF raw.text THEN "text" ELSE "dash"
        BY <1>3, <2>3
      <3> QED  BY <3>1, <2>1, <2>3, <1>4, <1>8, <1>a DEF Opened
    <2>4. CASE kind \in {"location", "contact"}
      <3>1. Screen(raw).shows = "text"
        BY <1>3, <2>4
      <3> QED  BY <3>1, <2>1, <1>4 DEF Opened
    <2> QED  BY <1>5, <2>2, <2>3, <2>4
  <1>6. CASE kind \in MediaKinds
    BY <1>3, <1>4, <1>6 DEF MediaKinds, MediaBubble, Opened
  <1>7. CASE kind = "unknown"
    BY <1>1, <1>3, <1>4, <1>7 DEF MediaKinds, Opened
  <1> QED  BY <1>1, <1>5, <1>6, <1>7 DEF MediaKinds

\* Content in however many envelopes passes the filter and is not shown as a dash.
LEMMA ReadableContent == EveryMessageReadable
  <1> SUFFICES ASSUME NEW raw \in WithContent PROVE raw \in Accepted \cap Readable
    BY DEF EveryMessageReadable
  <1>1. /\ raw \in Raws \cup Msgs /\ raw.chat \in {"dm", "group"} /\ raw.id /\ ~raw.stub
        /\ raw.layers # <<>> /\ raw.layers[Len(raw.layers)] \cap BodyKeySet # {}
        /\ raw.layers[Len(raw.layers)] \cap TextKeys # {} => raw.text
        /\ \A i \in DOMAIN raw.layers :
               i < Len(raw.layers) => raw.layers[i] \cap WrapperKeys # {}
    BY DEF WithContent
  <1>2. Screen(raw).shows \in {"text"} \cup Opened
    BY <1>1, InnermostIsLast, BubbleOfKind
  <1>3. BodyKeySet \cap SystemOnlyKeys = {} /\ WrapperKeys \cap SystemOnlyKeys = {}
    BY DEF BodyKeySet, BodyKeys, WrapperKeys, SystemOnlyKeys
  <1>4. raw.layers[1] \ SystemOnlyKeys # {}
    <2>1. Len(raw.layers) \in Nat \ {0} /\ DOMAIN raw.layers = 1..Len(raw.layers)
      BY <1>1, LayerAssumption
    <2>2. CASE Len(raw.layers) = 1
      BY <1>1, <1>3, <2>2
    <2>3. CASE Len(raw.layers) # 1
      <3>1. raw.layers[1] \cap WrapperKeys # {}
        <4> DEFINE n == Len(raw.layers)
        <4>0. n \in Nat \ {0} /\ n # 1
          BY <2>1, <2>3
        <4> HIDE DEF n
        <4>1. 1 \in 1..n /\ 1 < n
          BY <4>0
        <4> QED  BY <1>1, <2>1, <4>1 DEF n
      <3> QED  BY <1>3, <3>1
    <2> QED  BY <2>2, <2>3
  <1>5. shouldIngest(raw) /\ Normal(raw)
    BY <1>1, <1>4 DEF shouldIngest, Normal
  <1> QED  BY <1>1, <1>2, <1>5 DEF Accepted, Readable

\* What is fetched is what is offered.
LEMMA FetchedIsOffered == FetchedAsOffered
  BY BubbleOfKind DEF FetchedAsOffered, Fetched, Offered, Accepted

\* What somebody wrote or sent passes the filter, is readable, and once its entry is
\* acknowledged it has its row, unless it was given up on (filter.ts, normalize.ts,
\* MessageBubble.tsx): for messages in any number of the envelopes normalize.ts lists,
\* and with a text where the text is all there is.
THEOREM ContentReaches == Spec => []ContentArrives
  <1>1. IngestInv => ContentArrives
    <2> SUFFICES ASSUME IngestInv, NEW e \in acked \ dlq, stream[e] \in WithContent
                 PROVE  stream[e] \in rows \cap Readable
      BY ReadableContent DEF ContentArrives
    <2>1. stream[e] \in rows
      BY DEF IngestInv, AckedIsSafe
    <2> QED  BY <2>1, ReadableContent DEF EveryMessageReadable
  <1> QED  BY <1>1, IngestInvariant, PTL

\* Media is enqueued for messages that have some only, and before they are announced.
MediaTold ==
    /\ \A m \in Msgs : enqueued[m] > 0 => m \in Media
    /\ \A m \in Msgs : notified[m] > 0 =>
           m \notin Bad /\ (m \in Media => enqueued[m] > 0 \/ m \in unwired)
    /\ \A c \in Consumers : at[c] \in {"creating", "publishing"} => Msg(c) \notin Bad
    /\ \A c \in Consumers :
           at[c] = "publishing" /\ Msg(c) \in Media =>
               enqueued[Msg(c)] > 0 \/ Msg(c) \in unwired

\* No other loop touches the entry at hand, nor the message it has.
LEMMA MediaFrame ==
    ASSUME IngestInv, MediaTold, UNCHANGED <<notified, enqueued, unwired>>,
           \A c \in Consumers : at'[c] \in {"creating", "publishing"} =>
               /\ at'[c] = at[c] /\ lo'[c] = lo[c]
               /\ stream'[lo[c]] = stream[lo[c]]
    PROVE  MediaTold'
  BY DEF MediaTold, Msg

\* Every step keeps what the media were told.
LEMMA MediaNext == IngestInv /\ MediaTold /\ [Next]_vars => MediaTold'
  <1> SUFFICES ASSUME IngestInv, MediaTold, [Next]_vars PROVE MediaTold'
    OBVIOUS
  <1>t. /\ at \in [Consumers -> {"off", "reading"} \cup Working]
        /\ lo \in [Consumers -> Nat]
        /\ notified \in [Msgs -> Nat] /\ enqueued \in [Msgs -> Nat]
        /\ stream \in Seq(Msgs) /\ adding \in Seq(Msgs)
    BY DEF IngestInv, TypeOK
  <1>m. \A c \in Consumers : at[c] \in Working =>
            Msg(c) \in Msgs /\ lo[c] \in 1..Len(stream)
    BY MsgType
  <1>1. CASE \/ StartIngest \/ Subscribe \/ StopIngest \/ StartFails \/ UNCHANGED vars
             \/ \E m \in Msgs : Upsert(m)
             \/ \E e \in Entries : RetryExpires(e)
    <2>1. UNCHANGED <<at, lo, stream, notified, enqueued, unwired>>
      BY <1>1 DEF StartIngest, Subscribe, StopIngest, StartFails, Upsert, RetryExpires, vars, loopVars,
                  rowVars, histVars
    <2> QED  BY <2>1, MediaFrame
  <1>2. CASE Added
    <2>1. UNCHANGED <<at, lo, notified, enqueued, unwired>>
          /\ stream' \in {stream, Append(stream, Head(adding))} /\ adding # <<>>
      BY <1>2 DEF Added, loopVars, rowVars, histVars
    <2>2. \A e \in 1..Len(stream) : stream'[e] = stream[e]
      <3>1. Head(adding) \in Msgs
        BY <1>t, <2>1
      <3>2. CASE stream' = stream
        BY <3>2
      <3>3. CASE stream' = Append(stream, Head(adding))
        BY <1>t, <3>1, <3>3
      <3> QED  BY <2>1, <3>2, <3>3
    <2>3. \A c \in Consumers : at[c] \in Working => stream'[lo[c]] = stream[lo[c]]
      BY <1>m, <2>2
    <2> QED  BY <2>1, <2>3, MediaFrame DEF Working
  <1>3. CASE Crash
    <2>1. /\ UNCHANGED <<stream, notified, enqueued, unwired>>
          /\ \A c \in Consumers : at'[c] = "off"
      BY <1>3 DEF Crash, rowVars
    <2> QED  BY <2>1, MediaFrame
  <1>4. ASSUME NEW c \in Consumers, GroupReady(c) \/ Read(c) \/ ReadLost(c) \/ ReadEnds(c)
        PROVE  MediaTold'
    <2>1. /\ UNCHANGED <<stream, notified, enqueued, unwired>>
          /\ at'[c] \in {"reading", "looking", "off"}
          /\ \A d \in Consumers : d # c => at'[d] = at[d] /\ lo'[d] = lo[d]
      BY <1>4, <1>t DEF GroupReady, Read, ReadLost, Deliver, ReadEnds, Goes, rowVars, histVars
    <2> QED  BY <2>1, MediaFrame
  <1>5. ASSUME NEW c \in Consumers, Ack(c) \/ Bury(c) \/ CountFailure(c) \/ Poison(c)
        PROVE  MediaTold'
    <2>1. UNCHANGED <<stream, notified, enqueued, unwired>>
      BY <1>5 DEF Ack, Bury, CountFailure, Poison, rowVars, histVars
    <2>2. \/ NextEntry(c)
          \/ /\ Goes(c, "poison") \/ Goes(c, "dead")
             /\ UNCHANGED lo
      BY <1>5 DEF Ack, Bury, CountFailure, Poison
    <2>3. /\ at'[c] \in {"reading", "looking", "off", "poison", "dead"}
          /\ \A d \in Consumers : d # c => at'[d] = at[d] /\ lo'[d] = lo[d]
      BY <2>2, <1>t DEF NextEntry, Goes
    <2> QED  BY <2>1, <2>3, MediaFrame
  <1>6. ASSUME NEW c \in Consumers, Look(c) PROVE MediaTold'
    <2>1. /\ UNCHANGED <<stream, notified, enqueued, lo, unwired>> /\ Msg(c) \notin Bad
          /\ at'[c] \in {"acking", "creating"}
          /\ \A d \in Consumers : d # c => at'[d] = at[d]
      BY <1>6, <1>t DEF Look, Goes, rowVars, histVars
    <2> QED  BY <2>1 DEF MediaTold, Msg
  <1>7. ASSUME NEW c \in Consumers, Create(c) PROVE MediaTold'
    <2>1. /\ UNCHANGED <<stream, notified, lo>> /\ at[c] = "creating"
          /\ at'[c] \in {"acking", "publishing"}
          /\ \A d \in Consumers : d # c => at'[d] = at[d]
          /\ unwired \subseteq unwired'
          /\ \/ at'[c] = "acking" /\ enqueued' = enqueued
             \/ Msg(c) \notin Media /\ enqueued' = enqueued
             \/ Msg(c) \in unwired' /\ enqueued' = enqueued
             \/ Msg(c) \in Media /\ enqueued' = [enqueued EXCEPT ![Msg(c)] = @ + 1]
      BY <1>7, <1>t DEF Create, Goes
    <2>2. Msg(c) \in Msgs /\ Msg(c) \notin Bad
      BY <1>m, <2>1 DEF MediaTold, Working
    <2>6. \A m \in Msgs :
              /\ enqueued[m] \in Nat
              /\ \/ enqueued'[m] = enqueued[m]
                 \/ m = Msg(c) /\ m \in Media /\ enqueued'[m] = enqueued[m] + 1
      <3>1. CASE enqueued' = enqueued
        BY <1>t, <3>1
      <3>2. CASE Msg(c) \in Media /\ enqueued' = [enqueued EXCEPT ![Msg(c)] = @ + 1]
        BY <1>t, <3>2
      <3> QED  BY <2>1, <3>1, <3>2
    <2>7. at'[c] = "publishing" /\ Msg(c) \in Media =>
              enqueued'[Msg(c)] = enqueued[Msg(c)] + 1 \/ Msg(c) \in unwired'
      BY <1>t, <2>1, <2>2
    <2>3. /\ \A m \in Msgs : enqueued'[m] >= enqueued[m]
          /\ \A m \in Msgs : enqueued'[m] > 0 => enqueued[m] > 0 \/ m \in Media
          /\ at'[c] = "publishing" /\ Msg(c) \in Media =>
                enqueued'[Msg(c)] > 0 \/ Msg(c) \in unwired'
      BY <2>2, <2>6, <2>7
    <2>4. \A d \in Consumers : at[d] = "publishing" => Msg(d) \in Msgs
      BY <1>m DEF Working
    <2>5. \A d \in Consumers : Msg(d)' = Msg(d)
      BY <2>1 DEF Msg
    <2> QED  BY <2>1, <2>2, <2>3, <2>4, <2>5, <2>6 DEF MediaTold
  <1>8. ASSUME NEW c \in Consumers, Publish(c) \/ Fail(c) PROVE MediaTold'
    <2>1. /\ UNCHANGED <<stream, enqueued, lo, unwired>>
          /\ at'[c] \in {"acking", "failed"}
          /\ \A d \in Consumers : d # c => at'[d] = at[d]
          /\ \/ notified' = notified
             \/ at[c] = "publishing" /\ notified' = [notified EXCEPT ![Msg(c)] = @ + 1]
      BY <1>8, <1>t DEF Publish, Fail, Goes, histVars
    <2>2. at[c] = "publishing" =>
              /\ Msg(c) \in Msgs /\ Msg(c) \notin Bad
              /\ Msg(c) \in Media => enqueued[Msg(c)] > 0 \/ Msg(c) \in unwired
      BY <1>m DEF MediaTold, Working
    <2>3. \A m \in Msgs :
              notified'[m] > 0 => notified[m] > 0 \/ (at[c] = "publishing" /\ m = Msg(c))
      BY <1>t, <2>1
    <2>4. \A d \in Consumers : Msg(d)' = Msg(d)
      BY <2>1 DEF Msg
    <2> QED  BY <2>1, <2>2, <2>3, <2>4 DEF MediaTold
  <1> QED
    BY <1>1, <1>2, <1>3, <1>4, <1>5, <1>6, <1>7, <1>8 DEF Next, Loop

\* The worker fetches the media of exactly those messages that the page offers to open,
\* and has asked for it when the page hears of the message, unless ingest had been
\* stopped when its row was created (persist.ts, index.ts, MessageBubble.tsx).
THEOREM MediaAsOffered == Spec => []MediaAgrees
  <1>1. Init => MediaTold
    BY DEF Init, MediaTold
  <1>2. Spec => []MediaTold
    BY <1>1, IngestInvariant, MediaNext, PTL DEF Spec
  <1>3. MediaTold => MediaAgrees
    <2> SUFFICES ASSUME MediaTold, NEW m \in Msgs
                 PROVE  /\ enqueued[m] > 0 => m \in Offered
                        /\ notified[m] > 0 /\ m \in Offered =>
                               enqueued[m] > 0 \/ m \in unwired
      BY FetchedIsOffered DEF MediaAgrees
    <2>1. m \in Fetched <=> m \in Offered
      BY FetchedIsOffered DEF FetchedAsOffered
    <2>2. m \in Media <=> m \in Fetched
      BY PathAssumption DEF Fetched, Accepted
    <2> QED  BY <2>1, <2>2 DEF MediaTold
  <1> QED  BY <1>2, <1>3, PTL
=============================================================================
