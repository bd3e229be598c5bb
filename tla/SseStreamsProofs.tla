--------------------------- MODULE SseStreamsProofs ---------------------------
(***************************************************************************)
(* The stream cap of routes/events.ts, for every cap, every expiry, any    *)
(* finite number of connections and any number of lost increments.         *)
(***************************************************************************)
EXTENDS SseStreams, FiniteSetTheorems, TLAPS

\* The requests that stream, or will when they see their answer.
Admissible ==
    {r \in Requests : \/ phase[r] = "streaming"
                      \/ phase[r] = "answered" /\ answer[r] <= MaxStreams}

\* CapHolds is not inductive: a request whose INCR has run is already decided.
Decided == ~lapsed => Cardinality(Admissible) <= MaxStreams

StreamInv == TypeOK /\ CountExact /\ Decided

-----------------------------------------------------------------------------
LEMMA Subsets ==
    /\ Streaming \subseteq Admissible /\ Admissible \subseteq Counted
    /\ IsFiniteSet(Streaming) /\ IsFiniteSet(Admissible) /\ IsFiniteSet(Counted)
    /\ Cardinality(Streaming) <= Cardinality(Admissible)
    /\ Cardinality(Admissible) <= Cardinality(Counted)
    /\ Cardinality(Streaming) \in Nat /\ Cardinality(Admissible) \in Nat
    /\ Cardinality(Counted) \in Nat
  <1>1. /\ Streaming \subseteq Admissible /\ Admissible \subseteq Counted
        /\ Counted \subseteq Requests
    BY DEF Streaming, Admissible, Counted, Counting
  <1>2. IsFiniteSet(Counted) /\ IsFiniteSet(Admissible) /\ IsFiniteSet(Streaming)
    BY <1>1, RequestAssumption, FS_Subset
  <1> QED  BY <1>1, <1>2, FS_Subset, FS_CardinalityType

LEMMA SubsetsPrime ==
    /\ Admissible' \subseteq Counted'
    /\ IsFiniteSet(Admissible') /\ IsFiniteSet(Counted')
    /\ Cardinality(Admissible') <= Cardinality(Counted')
    /\ Cardinality(Admissible') \in Nat /\ Cardinality(Counted') \in Nat
  <1>1. Admissible' \subseteq Counted' /\ Counted' \subseteq Requests
    BY DEF Admissible, Counted, Counting
  <1>2. IsFiniteSet(Counted') /\ IsFiniteSet(Admissible')
    BY <1>1, RequestAssumption, FS_Subset
  <1> QED  BY <1>1, <1>2, FS_Subset, FS_CardinalityType

\* A step that leaves the counter, the histories and the counted requests
\* alone and admits nobody.
LEMMA NothingGained ==
    ASSUME StreamInv, Counted' = Counted, Admissible' \subseteq Admissible,
           UNCHANGED <<count, leaked, lapsed>>
    PROVE  CountExact' /\ Decided'
  <1>1. Cardinality(Admissible') <= Cardinality(Admissible)
    BY Subsets, FS_Subset
  <1>2. Decided'
    BY <1>1, Subsets, SubsetsPrime, NumberAssumption DEF StreamInv, Decided
  <1> QED  BY <1>2 DEF StreamInv, CountExact

\* A request that is no longer counted is not admitted either.
LEMMA OneLess ==
    ASSUME StreamInv, NEW r \in Counted,
           Counted' = Counted \ {r}, Admissible' \subseteq Admissible
    PROVE  /\ Cardinality(Counted') = Cardinality(Counted) - 1
           /\ Cardinality(Admissible') <= Cardinality(Admissible)
  BY Subsets, FS_RemoveElement, FS_Subset

LEMMA InitInv == Init => StreamInv
  <1> SUFFICES ASSUME Init PROVE StreamInv
    OBVIOUS
  <1>1. TypeOK
    <2>1. 0 \in Int /\ 0 \in Nat /\ ttl \in 0..Ttl
      BY NumberAssumption DEF Init
    <2>2. /\ phase \in [Requests -> {"idle", "counting"} \cup Counting]
          /\ answer \in [Requests -> Int]
      BY DEF Init
    <2> QED  BY <2>1, <2>2 DEF Init, TypeOK
  <1>2. Counted = {} /\ Admissible = {}
    BY DEF Init, Counted, Counting, Admissible
  <1>3. CountExact /\ Decided
    BY <1>2, FS_EmptySet, NumberAssumption DEF Init, CountExact, Decided
  <1> QED  BY <1>1, <1>3 DEF StreamInv

LEMMA ExpireTypes ==
    ASSUME TypeOK, Expire
    PROVE  ttl' \in 0..Ttl /\ bare' \in BOOLEAN
  <1>1. CASE ttl' = Ttl /\ bare' = FALSE
    <2>1. Ttl \in 0..Ttl /\ FALSE \in BOOLEAN
      BY NumberAssumption
    <2> QED  BY <2>1, <1>1
  <1>2. CASE ttl' = ttl /\ bare' = (ttl = 0)
    <2>1. ttl' \in 0..Ttl
      BY <1>2 DEF TypeOK
    <2>2. (ttl = 0) \in BOOLEAN
      OBVIOUS
    <2> QED  BY <2>1, <2>2, <1>2
  <1> QED  BY <1>1, <1>2 DEF Expire

LEMMA TypeStep == TypeOK /\ [Next]_vars => TypeOK'
  <1> SUFFICES ASSUME TypeOK, [Next]_vars PROVE TypeOK'
    OBVIOUS
  <1> USE NumberAssumption DEF TypeOK, Goes, Leaves, Answer, keyVars, histVars, Counting
  <1>1. ASSUME NEW r \in Requests, Connect(r) PROVE TypeOK'
    BY <1>1 DEF Connect
  <1>2. ASSUME NEW r \in Requests, Count(r) PROVE TypeOK'
    <2>1. ttl' \in 0..Ttl /\ bare' \in BOOLEAN
      BY <1>2, ExpireTypes DEF Count
    <2> QED  BY <2>1, <1>2 DEF Count
  <1>3. ASSUME NEW r \in Requests, CountFails(r) PROVE TypeOK'
    BY <1>3 DEF CountFails
  <1>4. ASSUME NEW r \in Requests, Reject(r) PROVE TypeOK'
    BY <1>4 DEF Reject
  <1>5. ASSUME NEW r \in Requests, Admit(r) PROVE TypeOK'
    BY <1>5 DEF Admit
  <1>6. ASSUME NEW r \in Requests, Close(r) PROVE TypeOK'
    BY <1>6 DEF Close
  <1>7. ASSUME NEW r \in Requests, Uncount(r) PROVE TypeOK'
    BY <1>7 DEF Uncount
  <1>8. ASSUME NEW r \in Requests, Leak(r) PROVE TypeOK'
    <2>1. ttl' \in 0..Ttl /\ bare' \in BOOLEAN
      BY <1>8, ExpireTypes DEF Leak
    <2> QED  BY <2>1, <1>8 DEF Leak
  <1>9. CASE ApiRestarts
    <2>1. leaked' \in Nat
      BY <1>9, Subsets DEF ApiRestarts
    <2> QED  BY <2>1, <1>9 DEF ApiRestarts
  <1>10. CASE Tick
    <2>1. ttl' \in 0..Ttl
      BY <1>10 DEF Tick
    <2>2. count' \in Int /\ leaked' \in Nat
      BY <1>10 DEF Tick
    <2>3. lapsed' = (lapsed \/ Counted # {}) \/ lapsed' = lapsed
      BY <1>10 DEF Tick
    <2>4. lapsed' \in BOOLEAN
      BY <2>3
    <2> QED  BY <2>1, <2>2, <2>4, <1>10 DEF Tick
  <1>11. CASE UNCHANGED vars
    BY <1>11 DEF vars
  <1> QED  BY <1>1, <1>2, <1>3, <1>4, <1>5, <1>6, <1>7, <1>8, <1>9, <1>10, <1>11
            DEF Next, Serve

\* INCR runs: its answer admits the request only if that leaves room.
LEMMA CountKeeps ==
    ASSUME StreamInv, NEW r \in Requests, Count(r)
    PROVE  CountExact' /\ Decided'
  <1>t. TypeOK
    BY DEF StreamInv
  <1>1. /\ phase'[r] = "answered" /\ answer'[r] = count + 1
        /\ \A q \in Requests : q # r => phase'[q] = phase[q] /\ answer'[q] = answer[q]
        /\ count' = count + 1 /\ UNCHANGED <<leaked, lapsed>> /\ phase[r] = "counting"
    BY <1>t DEF Count, Goes, Answer, TypeOK, histVars
  <1>2. Counted' = Counted \cup {r} /\ r \notin Counted
    BY <1>1 DEF Counted, Counting
  <1>3. Cardinality(Counted') = Cardinality(Counted) + 1
    BY <1>2, Subsets, FS_AddElement
  <1>4. CountExact'
    BY <1>1, <1>3, <1>t, Subsets DEF StreamInv, CountExact, TypeOK
  <1>5. CASE count + 1 <= MaxStreams
    <2>1. ~lapsed => Cardinality(Counted') <= MaxStreams
      BY <1>1, <1>4, <1>5, <1>t, SubsetsPrime, NumberAssumption DEF CountExact, TypeOK
    <2> QED  BY <2>1, <1>1, <1>4, SubsetsPrime, NumberAssumption DEF Decided
  <1>6. CASE ~(count + 1 <= MaxStreams)
    <2>1. Admissible' = Admissible
      BY <1>1, <1>6 DEF Admissible
    <2> QED  BY <2>1, <1>1, <1>4 DEF StreamInv, Decided
  <1> QED  BY <1>5, <1>6

\* The request leaves the counted ones; DECR takes its increment back.
LEMMA UncountKeeps ==
    ASSUME StreamInv, NEW r \in Requests, Uncount(r)
    PROVE  CountExact' /\ Decided'
  <1>t. TypeOK
    BY DEF StreamInv
  <1>1. /\ phase'[r] = "idle" /\ \A q \in Requests : q # r => phase'[q] = phase[q]
        /\ count' = count - 1 /\ UNCHANGED <<answer, leaked, lapsed>>
        /\ phase[r] \in {"rejecting", "cleaning"}
    BY <1>t DEF Uncount, Leaves, Goes, TypeOK, histVars
  <1>2. /\ Counted' = Counted \ {r} /\ r \in Counted
        /\ Admissible' \subseteq Admissible
    BY <1>1 DEF Counted, Counting, Admissible
  <1>3. /\ Cardinality(Counted') = Cardinality(Counted) - 1
        /\ Cardinality(Admissible') <= Cardinality(Admissible)
    BY <1>2, OneLess
  <1>4. CountExact'
    BY <1>1, <1>3, <1>t, Subsets DEF StreamInv, CountExact, TypeOK
  <1>5. Decided'
    BY <1>1, <1>3, Subsets, SubsetsPrime, NumberAssumption DEF StreamInv, Decided
  <1> QED  BY <1>4, <1>5

\* The request leaves them and its increment stays, in `leaked`.
LEMMA LeakKeeps ==
    ASSUME StreamInv, NEW r \in Requests, Leak(r)
    PROVE  CountExact' /\ Decided'
  <1>t. TypeOK
    BY DEF StreamInv
  <1>1. /\ phase'[r] = "idle" /\ \A q \in Requests : q # r => phase'[q] = phase[q]
        /\ leaked' = leaked + 1 /\ UNCHANGED <<answer, lapsed>>
    BY <1>t DEF Leak, Leaves, Goes, TypeOK
  <1>2. Admissible' \subseteq Admissible
    BY <1>1 DEF Admissible
  <1>3. Cardinality(Admissible') <= Cardinality(Admissible)
    BY <1>2, Subsets, FS_Subset
  <1>4. Decided'
    BY <1>1, <1>3, Subsets, SubsetsPrime, NumberAssumption DEF StreamInv, Decided
  <1>5. CASE phase[r] \in {"rejecting", "cleaning"} /\ UNCHANGED keyVars
    <2>1. Counted' = Counted \ {r} /\ r \in Counted
      BY <1>1, <1>5 DEF Counted, Counting
    <2>2. Cardinality(Counted') = Cardinality(Counted) - 1
      BY <2>1, <1>2, OneLess
    <2>3. CountExact'
      BY <2>2, <1>1, <1>5, <1>t, Subsets DEF StreamInv, CountExact, TypeOK, keyVars
    <2> QED  BY <2>3, <1>4
  <1>6. CASE phase[r] = "counting" /\ count' = count + 1
    <2>1. Counted' = Counted
      BY <1>1, <1>6 DEF Counted, Counting
    <2>2. CountExact'
      BY <2>1, <1>1, <1>6, <1>t, Subsets DEF StreamInv, CountExact, TypeOK
    <2> QED  BY <2>2, <1>4
  <1> QED  BY <1>5, <1>6 DEF Leak

LEMMA RestartKeeps ==
    ASSUME StreamInv, ApiRestarts
    PROVE  CountExact' /\ Decided'
  <1>1. Counted' = {} /\ Admissible' = {}
    BY DEF ApiRestarts, Counted, Counting, Admissible
  <1>2. Cardinality(Counted') = 0 /\ Cardinality(Admissible') = 0
    BY <1>1, FS_EmptySet
  <1> QED  BY <1>2, Subsets, NumberAssumption
           DEF StreamInv, CountExact, Decided, ApiRestarts, keyVars, TypeOK

\* The key expires: exact again at once if nobody was counted in it.
LEMMA TickKeeps ==
    ASSUME StreamInv, Tick
    PROVE  CountExact' /\ Decided'
  <1>1. Counted' = Counted /\ Admissible' = Admissible
    BY DEF Tick, Counted, Admissible
  <1>2. CASE ttl = 1
    <2>1. count' = 0 /\ leaked' = 0 /\ lapsed' = (lapsed \/ Counted # {})
      BY <1>2 DEF Tick
    <2>2. ~lapsed' => Counted' = {} /\ ~lapsed
      BY <2>1, <1>1 DEF StreamInv, TypeOK
    <2>3. CountExact'
      BY <2>1, <2>2, FS_EmptySet DEF CountExact
    <2> QED  BY <2>2, <2>3, <1>1 DEF StreamInv, Decided
  <1>3. CASE ttl # 1
    BY <1>1, <1>3, NothingGained DEF Tick, histVars
  <1> QED  BY <1>2, <1>3

LEMMA NextKeeps == StreamInv /\ [Next]_vars => StreamInv'
  <1> SUFFICES ASSUME StreamInv, [Next]_vars PROVE StreamInv'
    OBVIOUS
  <1>t. TypeOK /\ TypeOK'
    BY TypeStep DEF StreamInv
  <1>q. ASSUME NEW r \in Requests,
               Connect(r) \/ CountFails(r) \/ Reject(r) \/ Admit(r) \/ Close(r)
        PROVE  CountExact' /\ Decided'
    <2>1. /\ UNCHANGED <<count, leaked, lapsed>>
          /\ \A q \in Requests : q # r => phase'[q] = phase[q] /\ answer'[q] = answer[q]
          /\ \/ phase'[r] \in {"idle", "counting"} /\ phase[r] \in {"idle", "counting"}
             \/ phase'[r] = "rejecting" /\ phase[r] = "answered"
             \/ phase'[r] = "streaming" /\ phase[r] = "answered" /\ answer[r] <= MaxStreams
             \/ phase'[r] = "cleaning" /\ phase[r] = "streaming"
             \/ phase'[r] = phase[r] /\ answer'[r] = answer[r]
      BY <1>q, <1>t DEF Connect, CountFails, Reject, Admit, Close, Goes, Leaves, Answer,
                        TypeOK, keyVars, histVars
    <2>2. Counted' = Counted
      BY <2>1 DEF Counted, Counting
    <2>3. Admissible' \subseteq Admissible
      BY <2>1 DEF Admissible
    <2> QED  BY <2>1, <2>2, <2>3, NothingGained
  <1>s. CASE UNCHANGED vars
    <2>1. Counted' = Counted /\ Admissible' = Admissible /\ UNCHANGED <<count, leaked, lapsed>>
      BY <1>s DEF vars, Counted, Admissible, keyVars, histVars
    <2>2. CountExact' /\ Decided'
      BY <2>1, NothingGained
    <2> QED  BY <2>2, <1>t DEF StreamInv
  <1> QED  BY <1>q, <1>s, <1>t, CountKeeps, UncountKeeps, LeakKeeps, RestartKeeps, TickKeeps
            DEF Next, Serve, StreamInv

THEOREM StreamInvariant == Spec => []StreamInv
  BY InitInv, NextKeeps, PTL DEF Spec

-----------------------------------------------------------------------------
THEOREM StreamTypes == Spec => []TypeOK
  <1>1. StreamInv => TypeOK
    BY DEF StreamInv
  <1> QED  BY <1>1, StreamInvariant, PTL

\* The counter is the requests that owe a DECR and the increments lost.
THEOREM CounterExact == Spec => []CountExact
  <1>1. StreamInv => CountExact
    BY DEF StreamInv
  <1> QED  BY <1>1, StreamInvariant, PTL

\* The cap of the streams of a user, in spite of the INCR, compare and DECR
\* being three steps that other requests interleave with.
THEOREM CapKept == Spec => []CapHolds
  <1>1. StreamInv => CapHolds
    BY Subsets, NumberAssumption DEF StreamInv, Decided, CapHolds
  <1> QED  BY <1>1, StreamInvariant, PTL
=============================================================================
