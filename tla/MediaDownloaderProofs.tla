------------------------ MODULE MediaDownloaderProofs ------------------------
(***************************************************************************)
(* The safety properties of MediaDownloader, for every set of users, every *)
(* finite supply of jobs and every choice of the three caps.               *)
(***************************************************************************)
EXTENDS MediaDownloader, FiniteSetTheorems, TLAPS

\* The counters say what is in flight, and have been kept under the caps.
Counted ==
    /\ activeGlobal = Cardinality(InFlight)
    /\ \A u \in Users : active[u] = Cardinality(InFlightOf(u))
    /\ activeGlobal <= Global
    /\ \A u \in Users : active[u] <= PerUser

\* A queue holds queued jobs of its own user, each once.
Queued ==
    /\ \A u \in Users : \A i \in DOMAIN queue[u] :
           phase[queue[u][i]] = "queued" /\ Owner[queue[u][i]] = u
    /\ \A u \in Users : \A i, k \in DOMAIN queue[u] :
           queue[u][i] = queue[u][k] => i = k
    /\ \A u \in Users : queue[u] # <<>> => Known(u)

\* After stop() nothing is dispatched, and what still runs is being awaited.
Stopping ==
    /\ stopped =>
         ~dispatching /\ InFlight \subseteq draining
           /\ \A u \in Users : queue[u] = <<>>
    /\ stopReturned => stopped /\ draining \cap InFlight = {}

\* A row refers to a file that is there, and does so before it is announced.
RefsWritten ==
    /\ ref \subseteq stored
    /\ \A j \in Jobs : phase[j] \in {"publishing", "ready"} => j \in ref

\* The ciphertext precedes the row.
Written ==
    /\ \A j \in Jobs : phase[j] \in {"updating", "publishing", "ready"} => j \in stored
    /\ RefsWritten

MediaInv == TypeOK /\ Counted /\ Queued /\ QueueExact /\ Stopping /\ Written /\ WorkConserving

-----------------------------------------------------------------------------
(* Sets of jobs in flight.                                                 *)

LEMMA InFlightFinite ==
    /\ IsFiniteSet(InFlight)
    /\ \A u : IsFiniteSet(InFlightOf(u))
  <1>1. InFlight \subseteq Jobs /\ \A u : InFlightOf(u) \subseteq Jobs
    BY DEF InFlight, InFlightOf
  <1> QED  BY <1>1, JobAssumption, FS_Subset

\* A job that starts adds one to the jobs in flight, of its owner and in all.
LEMMA Starts ==
    ASSUME TypeOK, NEW j \in Jobs, phase[j] \notin Running,
           NEW p \in Running, Now(j, p)
    PROVE  /\ Cardinality(InFlight') = Cardinality(InFlight) + 1
           /\ \A u \in Users : Cardinality(InFlightOf(u)') =
                  Cardinality(InFlightOf(u)) + (IF u = Owner[j] THEN 1 ELSE 0)
  <1>1. InFlight' = InFlight \cup {j} /\ j \notin InFlight
    BY DEF InFlight, Now, TypeOK
  <1>2. \A u \in Users : /\ u = Owner[j] => /\ InFlightOf(u)' = InFlightOf(u) \cup {j}
                                            /\ j \notin InFlightOf(u)
                         /\ u # Owner[j] => InFlightOf(u)' = InFlightOf(u)
    BY <1>1 DEF InFlightOf
  <1>3. Cardinality(InFlight') = Cardinality(InFlight) + 1
    BY <1>1, InFlightFinite, FS_AddElement
  <1>4. \A u \in Users : Cardinality(InFlightOf(u)) \in Nat
    BY InFlightFinite, FS_CardinalityType
  <1>5. \A u \in Users : Cardinality(InFlightOf(u)') =
            Cardinality(InFlightOf(u)) + (IF u = Owner[j] THEN 1 ELSE 0)
    <2> SUFFICES ASSUME NEW u \in Users
                 PROVE  Cardinality(InFlightOf(u)') =
                          Cardinality(InFlightOf(u)) + (IF u = Owner[j] THEN 1 ELSE 0)
      OBVIOUS
    <2>1. CASE u = Owner[j]
      <3>1. Cardinality(InFlightOf(u) \cup {j}) = Cardinality(InFlightOf(u)) + 1
        BY <2>1, <1>2, InFlightFinite, FS_AddElement
      <3> QED  BY <3>1, <2>1, <1>2
    <2>2. CASE u # Owner[j]
      BY <2>2, <1>2, <1>4
    <2> QED  BY <2>1, <2>2
  <1> QED  BY <1>3, <1>5

\* A job that settles takes one away.
LEMMA Ends ==
    ASSUME TypeOK, NEW j \in Jobs, phase[j] \in Running,
           NEW p \in Ended, Now(j, p)
    PROVE  /\ Cardinality(InFlight') = Cardinality(InFlight) - 1
           /\ Cardinality(InFlight) > 0
           /\ \A u \in Users :
                /\ Cardinality(InFlightOf(u)') =
                     Cardinality(InFlightOf(u)) - (IF u = Owner[j] THEN 1 ELSE 0)
                /\ u = Owner[j] => Cardinality(InFlightOf(u)) > 0
  <1>1. InFlight' = InFlight \ {j} /\ j \in InFlight
    BY DEF InFlight, Now, TypeOK, Running, Ended
  <1>2. \A u \in Users : /\ u = Owner[j] => /\ InFlightOf(u)' = InFlightOf(u) \ {j}
                                            /\ j \in InFlightOf(u)
                         /\ u # Owner[j] => InFlightOf(u)' = InFlightOf(u)
    BY <1>1 DEF InFlightOf
  <1>3. /\ Cardinality(InFlight') = Cardinality(InFlight) - 1
        /\ Cardinality(InFlight') \in Nat /\ Cardinality(InFlight) \in Nat
    BY <1>1, InFlightFinite, FS_RemoveElement, FS_CardinalityType
  <1>4. \A u \in Users : Cardinality(InFlightOf(u)) \in Nat
    BY InFlightFinite, FS_CardinalityType
  <1>5. ASSUME NEW u \in Users
        PROVE  /\ Cardinality(InFlightOf(u)') =
                    Cardinality(InFlightOf(u)) - (IF u = Owner[j] THEN 1 ELSE 0)
               /\ u = Owner[j] => Cardinality(InFlightOf(u)) > 0
    <2>1. CASE u = Owner[j]
      <3>1. /\ Cardinality(InFlightOf(u) \ {j}) = Cardinality(InFlightOf(u)) - 1
            /\ Cardinality(InFlightOf(u) \ {j}) \in Nat
        BY <2>1, <1>2, InFlightFinite, FS_RemoveElement, FS_CardinalityType
      <3>2. Cardinality(InFlightOf(u)') = Cardinality(InFlightOf(u)) - 1
        BY <3>1, <2>1, <1>2
      <3>3. Cardinality(InFlightOf(u)) > 0
        BY <3>1, <1>4
      <3> QED  BY <3>2, <3>3, <2>1
    <2>2. CASE u # Owner[j]
      BY <2>2, <1>2, <1>4
    <2> QED  BY <2>1, <2>2
  <1> QED  BY <1>3, <1>5

\* A change of phase that neither starts nor ends a job.
LEMMA Moves ==
    ASSUME TypeOK, NEW j \in Jobs, NEW p, Now(j, p),
           phase[j] \in Running <=> p \in Running
    PROVE  InFlight' = InFlight /\ \A u : InFlightOf(u)' = InFlightOf(u)
  <1>1. InFlight' = InFlight
    BY DEF InFlight, Now, TypeOK
  <1> QED  BY <1>1 DEF InFlightOf

-----------------------------------------------------------------------------
(* The invariant is inductive: one lemma per group of actions.             *)

LEMMA InitInv == Init => MediaInv
  <1> SUFFICES ASSUME Init PROVE MediaInv
    OBVIOUS
  <1>1. TypeOK
    <2>1. queue \in [Users -> Seq(Jobs)] /\ order \in Seq(Users)
      BY DEF Init
    <2> QED  BY <2>1 DEF Init, TypeOK
  <1>2. InFlight = {} /\ \A u : InFlightOf(u) = {}
    BY DEF Init, InFlight, InFlightOf, Running
  <1>3. Counted
    <2>1. Cardinality(InFlight) = 0 /\ \A u \in Users : Cardinality(InFlightOf(u)) = 0
      BY <1>2, FS_EmptySet
    <2> QED  BY <2>1, CapAssumption DEF Init, Counted
  <1>4. Queued /\ QueueExact
    <2>1. \A u \in Users : queue[u] = <<>> /\ DOMAIN queue[u] = {} /\ Len(queue[u]) = 0
      BY DEF Init
    <2>2. \A j \in Jobs : Owner[j] \in Users /\ phase[j] = "new"
      BY JobAssumption DEF Init
    <2> QED  BY <2>1, <2>2, CapAssumption DEF Queued, QueueExact
  <1>5. Stopping
    BY DEF Init, Stopping
  <1>6. Written
    BY DEF Init, Written, RefsWritten
  <1>7. WorkConserving
    BY DEF Init, WorkConserving, Eligible
  <1> QED  BY <1>1, <1>3, <1>4, <1>5, <1>6, <1>7 DEF MediaInv

\* Appending a user to the insertion order keeps the ones that were there.
LEMMA KnownAppend ==
    ASSUME TypeOK, NEW u \in Users,
           order' = IF Known(u) THEN order ELSE Append(order, u)
    PROVE  /\ order' \in Seq(Users)
           /\ \A v : Known(v) => Known(v)'
           /\ Known(u)'
  <1>1. CASE Known(u)
    BY <1>1 DEF TypeOK, Known
  <1>2. CASE ~Known(u)
    <2>1. /\ order' = Append(order, u) /\ order' \in Seq(Users)
          /\ DOMAIN order = 1..Len(order) /\ DOMAIN order' = 1..(Len(order) + 1)
          /\ Len(order) \in Nat
          /\ \A i \in DOMAIN order : order'[i] = order[i]
          /\ order'[Len(order) + 1] = u
      BY <1>2 DEF TypeOK
    <2>2. DOMAIN order \subseteq DOMAIN order' /\ Len(order) + 1 \in DOMAIN order'
      BY <2>1
    <2> QED  BY <2>1, <2>2 DEF Known
  <1> QED  BY <1>1, <1>2

LEMMA EnqueueKeeps ==
    ASSUME MediaInv, NEW j \in Jobs, Enqueue(j)
    PROVE  MediaInv'
  <1> DEFINE u == Owner[j]
  <1>1. u \in Users /\ phase[j] = "new" /\ ~dispatching
    BY JobAssumption DEF Enqueue, Arrives
  <1>2. UNCHANGED <<alive, active, activeGlobal, stopVars, stored, ref>>
    BY DEF Enqueue
  <1>t. TypeOK
    BY DEF MediaInv
  <1>a. CASE Now(j, "refused") /\ stopped /\ UNCHANGED <<order, queue, dispatching>>
    <2>1. TypeOK'
      BY <1>a, <1>2, <1>t DEF TypeOK, Now, stopVars, Ended
    <2>2. InFlight' = InFlight /\ \A v : InFlightOf(v)' = InFlightOf(v)
      BY <1>a, <1>1, <1>t, Moves DEF Running
    <2>3. Counted'
      BY <2>2, <1>a, <1>2 DEF MediaInv, Counted
    <2>4. Queued' /\ QueueExact'
      <3>1. \A k \in Jobs : phase'[k] = "queued" <=> phase[k] = "queued"
        BY <1>a, <1>1, <1>t DEF TypeOK, Now
      <3>2. \A v \in Users : \A i \in DOMAIN queue[v] : queue[v][i] \in Jobs
        BY <1>t DEF TypeOK
      <3>3. Queued'
        BY <3>1, <3>2, <1>a DEF MediaInv, Queued, Known
      <3>4. QueueExact'
        BY <3>1, <1>a DEF MediaInv, QueueExact
      <3> QED  BY <3>3, <3>4
    <2>5. Stopping'
      BY <2>2, <1>a, <1>2 DEF MediaInv, Stopping, stopVars
    <2>6. Written'
      BY <1>a, <1>1, <1>2, <1>t DEF MediaInv, Written, RefsWritten, TypeOK, Now
    <2>7. WorkConserving'
      BY <1>a, <1>2 DEF WorkConserving, stopVars
    <2> QED  BY <2>1, <2>3, <2>4, <2>5, <2>6, <2>7 DEF MediaInv
  <1>b. CASE /\ Now(j, "skipped") /\ ~stopped
             /\ order' = IF Known(u) THEN order ELSE Append(order, u)
             /\ UNCHANGED <<queue, dispatching>>
    <2>0. order' \in Seq(Users) /\ \A v : Known(v) => Known(v)'
      BY <1>b, <1>1, <1>t, KnownAppend
    <2>1. TypeOK'
      BY <2>0, <1>b, <1>2, <1>t DEF TypeOK, Now, stopVars, Ended
    <2>2. InFlight' = InFlight /\ \A v : InFlightOf(v)' = InFlightOf(v)
      BY <1>b, <1>1, <1>t, Moves DEF Running
    <2>3. Counted'
      BY <2>2, <1>b, <1>2 DEF MediaInv, Counted
    <2>4. Queued' /\ QueueExact'
      <3>1. \A k \in Jobs : phase'[k] = "queued" <=> phase[k] = "queued"
        BY <1>b, <1>1, <1>t DEF TypeOK, Now
      <3>2. \A v \in Users : \A i \in DOMAIN queue[v] : queue[v][i] \in Jobs
        BY <1>t DEF TypeOK
      <3>3. Queued'
        BY <3>1, <3>2, <2>0, <1>b DEF MediaInv, Queued
      <3>4. QueueExact'
        BY <3>1, <1>b DEF MediaInv, QueueExact
      <3> QED  BY <3>3, <3>4
    <2>5. Stopping'
      BY <2>2, <1>b, <1>2 DEF MediaInv, Stopping, stopVars
    <2>6. Written'
      BY <1>b, <1>1, <1>2, <1>t DEF MediaInv, Written, RefsWritten, TypeOK, Now
    <2>7. WorkConserving'
      BY <1>b, <1>2 DEF MediaInv, WorkConserving, Eligible, stopVars
    <2> QED  BY <2>1, <2>3, <2>4, <2>5, <2>6, <2>7 DEF MediaInv
  <1>c. CASE /\ Now(j, "queued") /\ ~stopped
             /\ order' = IF Known(u) THEN order ELSE Append(order, u)
             /\ Len(queue[u]) < QueueMax
             /\ queue' = [queue EXCEPT ![u] = Append(@, j)]
             /\ dispatching' = TRUE
    <2>0. order' \in Seq(Users) /\ (\A v : Known(v) => Known(v)') /\ Known(u)'
      BY <1>c, <1>1, <1>t, KnownAppend
    <2>q. /\ queue'[u] = Append(queue[u], j)
          /\ Len(queue'[u]) = Len(queue[u]) + 1
          /\ DOMAIN queue'[u] = 1..(Len(queue[u]) + 1)
          /\ DOMAIN queue[u] = 1..Len(queue[u]) /\ Len(queue[u]) \in Nat
          /\ \A i \in DOMAIN queue[u] : queue'[u][i] = queue[u][i]
          /\ queue'[u][Len(queue[u]) + 1] = j
          /\ \A v \in Users : v # u => queue'[v] = queue[v]
      BY <1>c, <1>1, <1>t DEF TypeOK
    <2>p. phase'[j] = "queued" /\ \A k \in Jobs : k # j => phase'[k] = phase[k]
      BY <1>c, <1>t DEF TypeOK, Now
    <2>1. TypeOK'
      BY <2>0, <1>c, <1>1, <1>2, <1>t DEF TypeOK, Now, stopVars
    <2>2. InFlight' = InFlight /\ \A v : InFlightOf(v)' = InFlightOf(v)
      BY <1>c, <1>1, <1>t, Moves DEF Running
    <2>3. Counted'
      BY <2>2, <1>c, <1>2 DEF MediaInv, Counted
    <2>n. \A v \in Users : \A i \in DOMAIN queue[v] :
              queue[v][i] \in Jobs /\ queue[v][i] # j
      BY <1>1, <1>t DEF MediaInv, Queued, TypeOK
    <2>4. Queued'
      <3> SUFFICES ASSUME NEW v \in Users
                   PROVE  /\ \A i \in DOMAIN queue'[v] :
                               phase'[queue'[v][i]] = "queued" /\ Owner[queue'[v][i]] = v
                          /\ \A i, k \in DOMAIN queue'[v] :
                               queue'[v][i] = queue'[v][k] => i = k
                          /\ queue'[v] # <<>> => Known(v)'
        BY DEF Queued
      <3>1. CASE v # u
        <4>1. queue'[v] = queue[v]
          BY <3>1, <2>q
        <4>2. \A i \in DOMAIN queue[v] : phase'[queue[v][i]] = "queued"
          BY <2>n, <2>p DEF MediaInv, Queued
        <4> QED  BY <4>1, <4>2, <2>0 DEF MediaInv, Queued
      <3>2. CASE v = u
        <4>1. \A i \in DOMAIN queue[u] : /\ phase'[queue[u][i]] = "queued"
                                         /\ Owner[queue[u][i]] = u
                                         /\ queue[u][i] # j
          BY <2>n, <2>p, <1>1 DEF MediaInv, Queued
        <4>2. \A i \in DOMAIN queue'[u] : i \in DOMAIN queue[u] \/ i = Len(queue[u]) + 1
          BY <2>q
        <4>3. \A i, k \in DOMAIN queue[u] : queue[u][i] = queue[u][k] => i = k
          BY <1>1 DEF MediaInv, Queued
        <4>4. \A i \in DOMAIN queue'[u] : phase'[queue'[u][i]] = "queued" /\ Owner[queue'[u][i]] = u
          BY <4>1, <4>2, <2>q, <2>p
        <4>5. \A i, k \in DOMAIN queue'[u] : queue'[u][i] = queue'[u][k] => i = k
          BY <4>1, <4>2, <4>3, <2>q
        <4> QED  BY <4>4, <4>5, <3>2, <2>0
      <3> QED  BY <3>1, <3>2
    <2>8. QueueExact'
      <3>1. \A v \in Users : Len(queue'[v]) <= QueueMax
        BY <2>q, <1>c, <1>1, CapAssumption DEF MediaInv, QueueExact
      <3>2. ASSUME NEW k \in Jobs
            PROVE  phase'[k] = "queued" <=>
                     \E i \in DOMAIN queue'[Owner[k]] : queue'[Owner[k]][i] = k
        <4>1. CASE k = j
          <5>1. Len(queue[u]) + 1 \in DOMAIN queue'[u]
            BY <2>q
          <5> QED  BY <5>1, <4>1, <2>q, <2>p
        <4>2. CASE k # j /\ Owner[k] = u
          <5>1. \A i \in DOMAIN queue'[u] : queue'[u][i] = k =>
                    i \in DOMAIN queue[u] /\ queue[u][i] = k
            BY <4>2, <2>q
          <5>2. \A i \in DOMAIN queue[u] : i \in DOMAIN queue'[u]
            BY <2>q
          <5>3. phase[k] = "queued" <=> \E i \in DOMAIN queue[u] : queue[u][i] = k
            BY <4>2 DEF MediaInv, QueueExact
          <5>4. (\E i \in DOMAIN queue[u] : queue[u][i] = k) <=>
                    \E i \in DOMAIN queue'[u] : queue'[u][i] = k
            BY <5>1, <5>2, <2>q
          <5>5. phase'[k] = phase[k]
            BY <4>2, <2>p
          <5> QED  BY <5>3, <5>4, <5>5, <4>2
        <4>3. CASE k # j /\ Owner[k] # u
          <5>1. Owner[k] \in Users /\ queue'[Owner[k]] = queue[Owner[k]]
            BY <4>3, <2>q, JobAssumption
          <5> QED  BY <5>1, <4>3, <2>p DEF MediaInv, QueueExact
        <4> QED  BY <4>1, <4>2, <4>3
      <3> QED  BY <3>1, <3>2 DEF QueueExact
    <2>5. Stopping'
      BY <2>2, <1>c, <1>2 DEF MediaInv, Stopping, stopVars
    <2>6. Written'
      BY <2>p, <1>1, <1>2, <1>t DEF MediaInv, Written, RefsWritten, TypeOK
    <2>7. WorkConserving'
      BY <1>c DEF WorkConserving
    <2> QED  BY <2>1, <2>3, <2>4, <2>8, <2>5, <2>6, <2>7 DEF MediaInv
  <1> QED  BY <1>a, <1>b, <1>c DEF Enqueue

LEMMA DispatchKeeps ==
    ASSUME MediaInv, Dispatch
    PROVE  MediaInv'
  <1>t. TypeOK
    BY DEF MediaInv
  <1>1. PICK i \in DOMAIN order : Dispatch1(i)
    BY DEF Dispatch
  <1> DEFINE u == order[i]
             j == Head(queue[u])
  <1>2. /\ dispatching /\ activeGlobal < Global
        /\ UNCHANGED <<alive, order, dispatching, stopVars, stored, ref>>
    BY DEF Dispatch
  <1>3. /\ u \in Users /\ queue[u] # <<>> /\ active[u] < PerUser
        /\ queue' = [queue EXCEPT ![u] = Tail(@)]
        /\ active' = [active EXCEPT ![u] = @ + 1]
        /\ activeGlobal' = activeGlobal + 1
        /\ Now(j, "downloading")
    BY <1>1, <1>t DEF Dispatch1, Next1, Eligible, TypeOK
  <1>4. /\ 1 \in DOMAIN queue[u] /\ j = queue[u][1] /\ j \in Jobs
        /\ DOMAIN queue[u] = 1..Len(queue[u]) /\ Len(queue[u]) \in Nat
        /\ queue'[u] = Tail(queue[u]) /\ Len(queue'[u]) = Len(queue[u]) - 1
        /\ DOMAIN queue'[u] = 1..(Len(queue[u]) - 1)
        /\ \A k \in DOMAIN queue'[u] : queue'[u][k] = queue[u][k + 1]
        /\ \A v \in Users : v # u => queue'[v] = queue[v]
    BY <1>3, <1>t DEF TypeOK
  <1>5. phase[j] = "queued" /\ Owner[j] = u
    BY <1>3, <1>4 DEF MediaInv, Queued
  <1>6. phase'[j] = "downloading" /\ \A k \in Jobs : k # j => phase'[k] = phase[k]
    BY <1>3, <1>4, <1>t DEF TypeOK, Now
  <1>7. \A v \in Users : \A k \in DOMAIN queue'[v] :
            queue'[v][k] \in Jobs /\ queue'[v][k] # j /\ phase'[queue'[v][k]] = "queued"
            /\ Owner[queue'[v][k]] = v
    <2> SUFFICES ASSUME NEW v \in Users, NEW k \in DOMAIN queue'[v]
                 PROVE  /\ queue'[v][k] \in Jobs /\ queue'[v][k] # j
                        /\ phase'[queue'[v][k]] = "queued" /\ Owner[queue'[v][k]] = v
      OBVIOUS
    <2>1. CASE v = u
      <3>0. k \in 1..(Len(queue[u]) - 1)
        BY <1>4, <2>1
      <3>1. k + 1 \in DOMAIN queue[u] /\ k + 1 # 1 /\ queue'[v][k] = queue[u][k + 1]
        <4>1. k + 1 \in 1..Len(queue[u]) /\ k + 1 # 1
          BY <3>0, <1>4
        <4>2. k \in DOMAIN queue'[u]
          BY <2>1
        <4> QED  BY <4>1, <4>2, <1>4, <2>1
      <3>2. queue[u][k + 1] # queue[u][1]
        BY <3>1, <1>3, <1>4 DEF MediaInv, Queued
      <3>3. queue[u][k + 1] \in Jobs
        BY <3>1, <1>3, <1>t DEF TypeOK
      <3>4. phase[queue[u][k + 1]] = "queued" /\ Owner[queue[u][k + 1]] = u
        BY <3>1, <1>3 DEF MediaInv, Queued
      <3> QED  BY <3>1, <3>2, <3>3, <3>4, <1>4, <1>6, <2>1
    <2>2. CASE v # u
      <3>1. k \in DOMAIN queue[v] /\ queue'[v][k] = queue[v][k]
        BY <1>4, <2>2
      <3>2. queue[v][k] \in Jobs
        BY <3>1, <1>t DEF TypeOK
      <3>3. phase[queue[v][k]] = "queued" /\ Owner[queue[v][k]] = v
        BY <3>1 DEF MediaInv, Queued
      <3> QED  BY <3>1, <3>2, <3>3, <1>5, <1>6, <2>2
    <2> QED  BY <2>1, <2>2
  <1>a. TypeOK'
    <2>1. queue' \in [Users -> Seq(Jobs)] /\ active' \in [Users -> Nat] /\ activeGlobal' \in Nat
      BY <1>3, <1>t DEF TypeOK
    <2> QED  BY <2>1, <1>2, <1>3, <1>4, <1>t DEF TypeOK, Now, stopVars, Running
  <1>b. Counted'
    <2>1. /\ Cardinality(InFlight') = Cardinality(InFlight) + 1
          /\ \A v \in Users : Cardinality(InFlightOf(v)') =
                 Cardinality(InFlightOf(v)) + (IF v = u THEN 1 ELSE 0)
      BY <1>3, <1>4, <1>5, <1>t, Starts DEF Running
    <2>2. activeGlobal' = Cardinality(InFlight') /\ activeGlobal' <= Global
      BY <2>1, <1>2, <1>3, <1>t, CapAssumption DEF MediaInv, Counted, TypeOK
    <2>3. ASSUME NEW v \in Users
          PROVE  active'[v] = Cardinality(InFlightOf(v)') /\ active'[v] <= PerUser
      <3>0. /\ active[v] = Cardinality(InFlightOf(v)) /\ active[v] <= PerUser
            /\ active[v] \in Nat
        BY <1>t DEF MediaInv, Counted, TypeOK
      <3>1. CASE v = u
        <4>1. active'[v] = active[v] + 1
          BY <3>1, <1>3, <1>t DEF TypeOK
        <4>2. Cardinality(InFlightOf(v)') = Cardinality(InFlightOf(v)) + 1
          BY <3>1, <2>1
        <4> QED  BY <4>1, <4>2, <3>0, <3>1, <1>3, CapAssumption
      <3>2. CASE v # u
        <4>1. active'[v] = active[v]
          BY <3>2, <1>3, <1>t DEF TypeOK
        <4>2. Cardinality(InFlightOf(v)') = Cardinality(InFlightOf(v))
          BY <3>0, <3>2, <2>1
        <4> QED  BY <4>1, <4>2, <3>0
      <3> QED  BY <3>1, <3>2
    <2> QED  BY <2>2, <2>3 DEF Counted
  <1>c. Queued'
    <2>1. ASSUME NEW v \in Users, NEW k \in DOMAIN queue'[v], NEW m \in DOMAIN queue'[v],
                 queue'[v][k] = queue'[v][m]
          PROVE  k = m
      <3>1. CASE v = u
        <4>1. /\ k + 1 \in DOMAIN queue[u] /\ m + 1 \in DOMAIN queue[u]
              /\ queue[u][k + 1] = queue[u][m + 1] /\ k \in Nat /\ m \in Nat
          BY <3>1, <1>4, <2>1
        <4>2. k + 1 = m + 1
          BY <4>1, <1>3 DEF MediaInv, Queued
        <4> QED  BY <4>1, <4>2
      <3>2. CASE v # u
        BY <3>2, <1>4, <2>1 DEF MediaInv, Queued
      <3> QED  BY <3>1, <3>2
    <2>2. ASSUME NEW v \in Users, queue'[v] # <<>>
          PROVE  Known(v)'
      <3>1. queue[v] # <<>>
        BY <2>2, <1>3, <1>4
      <3> QED  BY <3>1, <1>2 DEF MediaInv, Queued, Known
    <2> QED  BY <2>1, <2>2, <1>7 DEF Queued
  <1>d. QueueExact'
    <2>1. \A v \in Users : Len(queue'[v]) <= QueueMax
      BY <1>3, <1>4, CapAssumption DEF MediaInv, QueueExact
    <2>2. ASSUME NEW k \in Jobs, phase'[k] = "queued"
          PROVE  \E m \in DOMAIN queue'[Owner[k]] : queue'[Owner[k]][m] = k
      <3>1. k # j /\ phase[k] = "queued" /\ Owner[k] \in Users
        BY <2>2, <1>6, JobAssumption
      <3>2. PICK m \in DOMAIN queue[Owner[k]] : queue[Owner[k]][m] = k
        BY <3>1 DEF MediaInv, QueueExact
      <3>3. CASE Owner[k] = u
        <4>1. m # 1
          BY <3>1, <3>2, <3>3, <1>4
        <4>2. /\ m - 1 \in DOMAIN queue'[u]
              /\ queue'[u][m - 1] = queue[u][(m - 1) + 1] /\ (m - 1) + 1 = m
          BY <4>1, <3>2, <3>3, <1>4
        <4> QED  BY <4>2, <3>2, <3>3
      <3>4. CASE Owner[k] # u
        BY <3>1, <3>2, <3>4, <1>4
      <3> QED  BY <3>3, <3>4
    <2>3. ASSUME NEW k \in Jobs, NEW m \in DOMAIN queue'[Owner[k]], queue'[Owner[k]][m] = k
          PROVE  phase'[k] = "queued"
      <3>1. Owner[k] \in Users
        BY JobAssumption
      <3> QED  BY <3>1, <2>3, <1>7
    <2> QED  BY <2>1, <2>2, <2>3 DEF QueueExact
  <1>e. Stopping'
    BY <1>2 DEF MediaInv, Stopping, stopVars
  <1>f. Written'
    <2>1. \A k \in Jobs : phase'[k] \in {"updating", "publishing", "ready"} => phase'[k] = phase[k]
      BY <1>6
    <2>2. \A k \in Jobs : phase'[k] \in {"publishing", "ready"} => phase'[k] = phase[k]
      BY <1>6
    <2> QED  BY <2>1, <2>2, <1>2 DEF MediaInv, Written, RefsWritten
  <1>g. WorkConserving'
    BY <1>2 DEF WorkConserving
  <1> QED  BY <1>a, <1>b, <1>c, <1>d, <1>e, <1>f, <1>g DEF MediaInv

LEMMA DispatchDoneKeeps ==
    ASSUME MediaInv, DispatchDone
    PROVE  MediaInv'
  <1>1. UNCHANGED <<alive, order, queue, active, activeGlobal, stopVars, phase, stored, ref>>
    BY DEF DispatchDone
  <1>2. TypeOK'
    BY <1>1 DEF MediaInv, TypeOK, stopVars, DispatchDone
  <1>3. InFlight' = InFlight /\ \A u : InFlightOf(u)' = InFlightOf(u)
    BY <1>1 DEF InFlight, InFlightOf
  <1>4. Counted'
    BY <1>1, <1>3 DEF MediaInv, Counted
  <1>5. Queued' /\ QueueExact'
    BY <1>1 DEF MediaInv, Queued, QueueExact, Known
  <1>6. Stopping'
    BY <1>1, <1>3 DEF MediaInv, Stopping, stopVars, DispatchDone
  <1>7. Written'
    BY <1>1 DEF MediaInv, Written, RefsWritten
  <1>8. WorkConserving'
    <2>1. CASE activeGlobal >= Global
      BY <2>1, <1>1, CapAssumption DEF MediaInv, TypeOK, WorkConserving
    <2>2. CASE \A i \in DOMAIN order : ~Eligible(order[i])
      <3>1. \A u \in Users : Eligible(u) => Known(u)
        BY DEF MediaInv, Queued, Eligible
      <3>2. \A u \in Users : ~Eligible(u)
        BY <3>1, <2>2 DEF Known
      <3> QED  BY <3>2, <1>1 DEF WorkConserving, Eligible
    <2> QED  BY <2>1, <2>2 DEF DispatchDone
  <1> QED  BY <1>2, <1>4, <1>5, <1>6, <1>7, <1>8 DEF MediaInv

\* A job that goes on: nobody's slot or queue is touched.
LEMMA ProgressKeeps ==
    ASSUME MediaInv, NEW j \in Jobs, Downloaded(j) \/ Stored(j) \/ RowUpdated(j)
    PROVE  MediaInv'
  <1>t. TypeOK
    BY DEF MediaInv
  <1>1. /\ UNCHANGED <<alive, slotVars, stopVars>>
        /\ phase[j] \in Running /\ phase'[j] \in Running
        /\ \A k \in Jobs : k # j => phase'[k] = phase[k]
        /\ phase' \in [Jobs -> {"new", "queued"} \cup Running \cup Ended]
        /\ stored' \subseteq Jobs /\ ref' \subseteq Jobs
    BY <1>t DEF Downloaded, Stored, Put, RowUpdated, TypeOK, Now, Running
  <1>2. TypeOK'
    BY <1>1, <1>t DEF TypeOK, slotVars, stopVars
  <1>3. InFlight' = InFlight /\ \A u : InFlightOf(u)' = InFlightOf(u)
    BY <1>t, Moves DEF Downloaded, Stored, RowUpdated, Running
  <1>4. Counted'
    BY <1>1, <1>3 DEF MediaInv, Counted, slotVars
  <1>5. \A k \in Jobs : phase'[k] = "queued" <=> phase[k] = "queued"
    BY <1>1 DEF Running
  <1>6. Queued'
    <2>1. \A u \in Users : \A i \in DOMAIN queue[u] : queue[u][i] \in Jobs
      BY <1>t DEF TypeOK
    <2>2. \A u \in Users : \A i \in DOMAIN queue[u] : phase'[queue[u][i]] = "queued"
      BY <2>1, <1>5 DEF MediaInv, Queued
    <2> QED  BY <2>2, <1>1 DEF MediaInv, Queued, Known, slotVars
  <1>7. QueueExact'
    BY <1>1, <1>5 DEF MediaInv, QueueExact, slotVars
  <1>8. Stopping'
    BY <1>1, <1>3 DEF MediaInv, Stopping, slotVars, stopVars
  <1>9. Written'
    <2>1. CASE Downloaded(j)
      BY <2>1, <1>t DEF Downloaded, MediaInv, Written, RefsWritten, TypeOK, Now
    <2>2. CASE Stored(j)
      BY <2>2, <1>t DEF Stored, Put, MediaInv, Written, RefsWritten, TypeOK, Now
    <2>3. CASE RowUpdated(j)
      BY <2>3, <1>t DEF RowUpdated, MediaInv, Written, RefsWritten, TypeOK, Now
    <2> QED  BY <2>1, <2>2, <2>3
  <1>10. WorkConserving'
    BY <1>1 DEF MediaInv, WorkConserving, Eligible, slotVars, stopVars
  <1> QED  BY <1>2, <1>4, <1>6, <1>7, <1>8, <1>9, <1>10 DEF MediaInv

\* Only a row update on its way can have been executed unheard.
LEMMA LandsOnly ==
    ASSUME NEW js \in SUBSET Jobs, MayLand(js) \/ ref' = ref
    PROVE  ref \subseteq ref' /\ \A k \in ref' \ ref : k \in Jobs /\ phase[k] = "updating"
  BY DEF MayLand

\* A job that settles, whatever its outcome, gives its slot back.
LEMMA SettleKeeps ==
    ASSUME MediaInv, NEW j \in Jobs,
           Published(j) \/ Failed(j) \/ (Rejected(j) /\ j \in draining)
    PROVE  MediaInv'
  <1>t. TypeOK
    BY DEF MediaInv
  <1>1. PICK p \in {"ready", "failed"} : Settle(j, p)
    BY DEF Published, Failed, Rejected
  <1>2. /\ UNCHANGED <<alive, order, queue, stopVars, stored>>
        /\ phase[j] \in Running /\ Owner[j] \in Users
    BY JobAssumption DEF Published, Failed, Rejected, Running
  <1>r. ref \subseteq ref' /\ \A k \in ref' \ ref : k \in Jobs /\ phase[k] = "updating"
    BY LandsOnly DEF Published, Failed, Rejected
  <1>2b. \/ phase[j] = "publishing" /\ p \in {"ready", "failed"}
         \/ phase[j] \in {"updating", "storing", "downloading"} /\ p = "failed"
    <2>1. phase'[j] = p
      BY <1>1, <1>t DEF Settle, Now, TypeOK
    <2>2. CASE Published(j)
      BY <2>1, <2>2, <1>t DEF Published, Settle, Now, TypeOK
    <2>3. CASE Failed(j)
      BY <2>1, <2>3, <1>t DEF Failed, Settle, Now, TypeOK
    <2>4. CASE Rejected(j) /\ j \in draining
      BY <2>1, <2>4, <1>1 DEF Rejected
    <2> QED  BY <2>2, <2>3, <2>4
  <1>3. /\ phase'[j] = p /\ p \in Ended
        /\ \A k \in Jobs : k # j => phase'[k] = phase[k]
        /\ phase' \in [Jobs -> {"new", "queued"} \cup Running \cup Ended]
    BY <1>1, <1>t DEF Settle, TypeOK, Now, Ended
  <1>4. /\ Cardinality(InFlight') = Cardinality(InFlight) - 1 /\ Cardinality(InFlight) > 0
        /\ \A u \in Users :
             /\ Cardinality(InFlightOf(u)') =
                  Cardinality(InFlightOf(u)) - (IF u = Owner[j] THEN 1 ELSE 0)
             /\ u = Owner[j] => Cardinality(InFlightOf(u)) > 0
    BY <1>1, <1>2, <1>3, <1>t, Ends DEF Settle
  <1>5. /\ activeGlobal' = activeGlobal - 1 /\ activeGlobal' = Cardinality(InFlight')
        /\ activeGlobal' \in Nat /\ activeGlobal' <= Global
    BY <1>1, <1>4, <1>t, CapAssumption DEF Settle, MediaInv, Counted, TypeOK
  <1>6. ASSUME NEW u \in Users
        PROVE  /\ active'[u] = Cardinality(InFlightOf(u)')
               /\ active'[u] \in Nat /\ active'[u] <= PerUser
    <2>0. /\ active[u] = Cardinality(InFlightOf(u)) /\ active[u] <= PerUser
          /\ active[u] \in Nat
      BY <1>t DEF MediaInv, Counted, TypeOK
    <2>1. CASE u = Owner[j]
      <3>1. active'[u] = active[u] - 1
        BY <2>1, <1>1, <1>t DEF Settle, TypeOK
      <3>2. Cardinality(InFlightOf(u)') = Cardinality(InFlightOf(u)) - 1
            /\ Cardinality(InFlightOf(u)) > 0
        BY <2>1, <1>4
      <3> QED  BY <3>1, <3>2, <2>0, CapAssumption
    <2>2. CASE u # Owner[j]
      <3>1. active'[u] = active[u]
        BY <2>2, <1>1, <1>t DEF Settle, TypeOK
      <3>2. Cardinality(InFlightOf(u)') = Cardinality(InFlightOf(u))
        BY <2>0, <2>2, <1>4
      <3> QED  BY <3>1, <3>2, <2>0
    <2> QED  BY <2>1, <2>2
  <1>a. TypeOK'
    <2>1. active' \in [Users -> Nat] /\ dispatching' \in BOOLEAN
      BY <1>1, <1>6, <1>t DEF Settle, TypeOK
    <2>2. ref' \subseteq Jobs
      BY <1>r, <1>t DEF TypeOK
    <2> QED  BY <2>1, <2>2, <1>2, <1>3, <1>5, <1>t DEF TypeOK, stopVars
  <1>b. Counted'
    BY <1>5, <1>6 DEF Counted
  <1>c. \A k \in Jobs : phase'[k] = "queued" <=> phase[k] = "queued"
    BY <1>2, <1>3 DEF Running, Ended
  <1>d. Queued'
    <2>1. \A u \in Users : \A i \in DOMAIN queue[u] : queue[u][i] \in Jobs
      BY <1>t DEF TypeOK
    <2>2. \A u \in Users : \A i \in DOMAIN queue[u] : phase'[queue[u][i]] = "queued"
      BY <2>1, <1>c DEF MediaInv, Queued
    <2> QED  BY <2>2, <1>2 DEF MediaInv, Queued, Known
  <1>e. QueueExact'
    BY <1>2, <1>c DEF MediaInv, QueueExact
  <1>f. Stopping'
    <2>1. InFlight' \subseteq InFlight
      BY <1>3, <1>2 DEF InFlight, Running, Ended
    <2>2. stopped => ~dispatching'
      BY <1>1 DEF Settle
    <2> QED  BY <2>1, <2>2, <1>2 DEF MediaInv, Stopping, stopVars
  <1>g. Written'
    BY <1>2, <1>2b, <1>3, <1>r, <1>t DEF MediaInv, Written, RefsWritten, TypeOK
  <1>h. WorkConserving'
    BY <1>1, <1>2 DEF Settle, WorkConserving, stopVars
  <1> QED  BY <1>a, <1>b, <1>d, <1>e, <1>f, <1>g, <1>h DEF MediaInv

\* What the process leaves behind: no job anywhere, and every row as true as
\* before.
LEMMA GoneKeeps ==
    ASSUME MediaInv, Gone
    PROVE  MediaInv'
  <1>t. TypeOK
    BY DEF MediaInv
  <1>1. /\ order' = <<>> /\ activeGlobal' = 0 /\ draining' = {} /\ stored' = stored
        /\ queue' = [u \in Users |-> <<>>] /\ active' = [u \in Users |-> 0]
        /\ alive' = FALSE /\ dispatching' = FALSE /\ stopped' = FALSE /\ stopReturned' = FALSE
    BY DEF Gone
  <1>2. \A j \in Jobs : /\ phase'[j] \in {"new"} \cup Ended
                        /\ phase[j] = "updating" => phase'[j] = "lost"
                        /\ phase'[j] = phase[j] \/ phase'[j] = "lost"
    BY <1>t DEF Gone, TypeOK, Running, Ended
  <1>3. phase' \in [Jobs -> {"new"} \cup Ended]
    <2>1. phase' = [j \in Jobs |-> phase'[j]]
      BY DEF Gone
    <2> QED  BY <2>1, <1>2
  <1>r. ref \subseteq ref' /\ \A k \in ref' \ ref : k \in Jobs /\ phase[k] = "updating"
    BY LandsOnly DEF Gone
  <1>4. TypeOK'
    <2>1. queue' \in [Users -> Seq(Jobs)] /\ active' \in [Users -> Nat] /\ order' \in Seq(Users)
      BY <1>1
    <2>2. ref' \subseteq Jobs
      BY <1>r, <1>t DEF TypeOK
    <2> QED  BY <2>1, <2>2, <1>1, <1>3, <1>t DEF TypeOK
  <1>5. InFlight' = {} /\ \A u : InFlightOf(u)' = {}
    BY <1>2 DEF InFlight, InFlightOf, Running, Ended
  <1>6. Counted'
    BY <1>1, <1>5, FS_EmptySet, CapAssumption DEF Counted
  <1>7. Queued' /\ QueueExact'
    <2>1. \A u \in Users : queue'[u] = <<>> /\ DOMAIN queue'[u] = {} /\ Len(queue'[u]) = 0
      BY <1>1
    <2>2. \A j \in Jobs : Owner[j] \in Users /\ phase'[j] # "queued"
      BY <1>2, JobAssumption DEF Ended
    <2> QED  BY <2>1, <2>2, CapAssumption DEF Queued, QueueExact
  <1>8. Stopping' /\ WorkConserving'
    BY <1>1 DEF Stopping, WorkConserving, Eligible
  <1>9. Written'
    BY <1>1, <1>2, <1>r DEF MediaInv, Written, RefsWritten, Ended
  <1> QED  BY <1>4, <1>6, <1>7, <1>8, <1>9 DEF MediaInv

LEMMA StopKeeps ==
    ASSUME MediaInv, Stop
    PROVE  MediaInv'
  <1>1. /\ UNCHANGED <<alive, order, active, activeGlobal, dispatching, stopReturned, stored, ref>>
        /\ stopped' /\ ~stopped /\ ~dispatching /\ draining' = InFlight
        /\ \A u \in Users : queue'[u] = <<>>
        /\ queue' = [u \in Users |-> <<>>]
        /\ phase' = [j \in Jobs |-> IF phase[j] = "queued" THEN "cleared" ELSE phase[j]]
    BY DEF Stop
  <1>2. InFlight' = InFlight /\ \A u : InFlightOf(u)' = InFlightOf(u)
    <2>1. \A j \in Jobs : phase'[j] \in Running <=> phase[j] \in Running
      BY <1>1 DEF Running
    <2>2. InFlight' = InFlight
      BY <2>1 DEF InFlight
    <2> QED  BY <2>2 DEF InFlightOf
  <1>3. TypeOK'
    <2>1. queue' \in [Users -> Seq(Jobs)]
      BY <1>1
    <2>2. phase' \in [Jobs -> {"new", "queued"} \cup Running \cup Ended]
      BY <1>1 DEF MediaInv, TypeOK, Ended
    <2>3. draining' \subseteq Jobs /\ stopped' \in BOOLEAN
      BY DEF Stop, InFlight
    <2> QED  BY <2>1, <2>2, <2>3, <1>1 DEF MediaInv, TypeOK
  <1>4. Counted'
    BY <1>1, <1>2 DEF MediaInv, Counted
  <1>5. \A u \in Users : DOMAIN queue'[u] = {} /\ Len(queue'[u]) = 0
    BY <1>1
  <1>6. Queued' /\ QueueExact'
    <2>1. \A j \in Jobs : phase'[j] # "queued"
      BY <1>1
    <2>2. \A j \in Jobs : Owner[j] \in Users
      BY JobAssumption
    <2> QED  BY <2>1, <2>2, <1>1, <1>5, CapAssumption DEF Queued, QueueExact
  <1>7. Stopping'
    BY <1>1, <1>2 DEF MediaInv, Stopping
  <1>8. Written'
    <2>1. \A j \in Jobs : \/ phase'[j] = phase[j]
                          \/ (phase[j] = "queued" /\ phase'[j] = "cleared")
      BY DEF Stop
    <2> QED  BY <2>1, <1>1 DEF MediaInv, Written, RefsWritten, TypeOK
  <1>9. WorkConserving'
    BY <1>1 DEF WorkConserving
  <1> QED  BY <1>3, <1>4, <1>6, <1>7, <1>8, <1>9 DEF MediaInv

LEMMA StopReturnsKeeps ==
    ASSUME MediaInv, StopReturns
    PROVE  MediaInv'
  <1>1. UNCHANGED <<alive, slotVars, stopped, draining, phase, stored, ref>>
    BY DEF StopReturns
  <1>2. InFlight' = InFlight /\ \A u : InFlightOf(u)' = InFlightOf(u)
    BY <1>1 DEF InFlight, InFlightOf
  <1>3. TypeOK'
    BY <1>1 DEF MediaInv, TypeOK, slotVars, StopReturns
  <1>4. Counted'
    BY <1>1, <1>2 DEF MediaInv, Counted, slotVars
  <1>5. Queued' /\ QueueExact'
    BY <1>1 DEF MediaInv, Queued, QueueExact, Known, slotVars
  <1>6. Stopping'
    BY <1>1, <1>2 DEF MediaInv, Stopping, slotVars, StopReturns
  <1>7. Written' /\ WorkConserving'
    BY <1>1 DEF MediaInv, Written, RefsWritten, WorkConserving, Eligible, slotVars
  <1> QED  BY <1>3, <1>4, <1>5, <1>6, <1>7 DEF MediaInv

LEMMA StutterKeeps ==
    ASSUME MediaInv, UNCHANGED vars
    PROVE  MediaInv'
  <1>1. InFlight' = InFlight /\ \A u : InFlightOf(u)' = InFlightOf(u)
    BY DEF vars, InFlight, InFlightOf
  <1>2. TypeOK' /\ Counted'
    BY <1>1 DEF MediaInv, TypeOK, Counted, vars, slotVars, stopVars
  <1>3. Queued' /\ QueueExact'
    BY DEF MediaInv, Queued, QueueExact, Known, vars, slotVars
  <1>4. Stopping' /\ Written' /\ WorkConserving'
    BY <1>1 DEF MediaInv, Stopping, Written, RefsWritten, WorkConserving, Eligible,
              vars, slotVars, stopVars
  <1> QED  BY <1>2, <1>3, <1>4 DEF MediaInv

LEMMA NextKeeps == MediaInv /\ [Next]_vars => MediaInv'
  <1> SUFFICES ASSUME MediaInv, [Next]_vars PROVE MediaInv'
    OBVIOUS
  <1>1. ASSUME NEW j \in Jobs, Enqueue(j) PROVE MediaInv'
    BY <1>1, EnqueueKeeps
  <1>2. ASSUME NEW j \in Jobs, Advance(j) PROVE MediaInv'
    <2>1. Rejected(j) => (Rejected(j) /\ j \in draining) \/ Gone
      BY DEF Rejected
    <2> QED  BY <2>1, <1>2, ProgressKeeps, SettleKeeps, GoneKeeps DEF Advance
  <1>3. CASE Dispatch      BY <1>3, DispatchKeeps
  <1>4. CASE DispatchDone  BY <1>4, DispatchDoneKeeps
  <1>5. CASE Stop          BY <1>5, StopKeeps
  <1>6. CASE StopReturns   BY <1>6, StopReturnsKeeps
  <1>7. CASE UNCHANGED vars
    BY <1>7, StutterKeeps
  <1>8. CASE Gone          BY <1>8, GoneKeeps
  <1> QED  BY <1>1, <1>2, <1>3, <1>4, <1>5, <1>6, <1>7, <1>8 DEF Next

\* The inductive invariant holds in every behaviour of media.ts.
THEOREM MediaInvariant == Spec => []MediaInv
  BY InitInv, NextKeeps, PTL DEF Spec

-----------------------------------------------------------------------------
(* What it is for.                                                         *)

\* Every variable of the downloader keeps its type.
THEOREM MediaTypes == Spec => []TypeOK
  <1>1. MediaInv => TypeOK
    BY DEF MediaInv
  <1> QED  BY <1>1, MediaInvariant, PTL

\* The jobs in flight stay within perUserConcurrency and globalConcurrency,
\* whichever of them fail, throw or are cut off by stop().
THEOREM CapsHold == Spec => []WithinCaps
  <1>1. MediaInv => WithinCaps
    BY DEF MediaInv, Counted, WithinCaps
  <1> QED  BY <1>1, MediaInvariant, PTL

\* #dispatch() is called wherever a slot or a job may have become available.
THEOREM NoIdleSlot == Spec => []WorkConserving
  <1>1. MediaInv => WorkConserving
    BY DEF MediaInv
  <1> QED  BY <1>1, MediaInvariant, PTL

\* A queued job is in its owner's queue, and no queue outgrows queuePerUserMax.
THEOREM QueuesExact == Spec => []QueueExact
  <1>1. MediaInv => QueueExact
    BY DEF MediaInv
  <1> QED  BY <1>1, MediaInvariant, PTL

\* stop() waits for everything that is in flight: it takes its snapshot after
\* it has closed the queues, so nothing starts behind it.
THEOREM StopFinal == Spec => []StopIsFinal
  <1>1. MediaInv => StopIsFinal
    <2> SUFFICES ASSUME MediaInv, stopReturned PROVE InFlight = {} /\ ~dispatching
      BY DEF StopIsFinal
    <2> QED  BY DEF MediaInv, Stopping
  <1> QED  BY <1>1, MediaInvariant, PTL

\* GET /media finds the file of every reference, and finds one in every row that
\* was announced, whatever fails, rejects or dies on the way.
THEOREM RefsStored == Spec => []RefMatchesStore
  <1>1. MediaInv => RefMatchesStore
    BY DEF MediaInv, Written, RefsWritten, RefMatchesStore, Serves
  <1> QED  BY <1>1, MediaInvariant, PTL

\* Only #dispatch() starts a queued job, and it takes the oldest of the queue.
LEMMA OnlyHeadStarts ==
    ASSUME MediaInv, [Next]_vars, NEW u \in Users, NEW k \in DOMAIN queue[u],
           phase'[queue[u][k]] \in Running
    PROVE  k = 1
  <1> DEFINE j == queue[u][k]
  <1>t. TypeOK
    BY DEF MediaInv
  <1>1. j \in Jobs /\ phase[j] = "queued" /\ Owner[j] = u
    BY <1>t DEF MediaInv, TypeOK, Queued
  <1>2. phase'[j] # phase[j]
    BY <1>1 DEF Running
  <1>3. ASSUME NEW i \in Jobs, Enqueue(i) PROVE k = 1
    BY <1>1, <1>3, <1>t DEF Enqueue, Arrives, Now, TypeOK, Running
  <1>8. CASE Gone
    BY <1>8, <1>1 DEF Gone, Running
  <1>4. ASSUME NEW i \in Jobs, Advance(i) PROVE k = 1
    <2>1. (phase[i] \in Running /\ \E p : Now(i, p)) \/ Gone
      BY <1>4 DEF Advance, Downloaded, Stored, RowUpdated, Published, Failed, Rejected,
                  Settle, Running
    <2>2. CASE phase[i] \in Running /\ \E p : Now(i, p)
      <3>1. i # j
        BY <2>2, <1>1 DEF Running
      <3> QED  BY <2>2, <3>1, <1>1, <1>2, <1>t DEF Now, TypeOK
    <2> QED  BY <2>1, <2>2, <1>8
  <1>5. CASE Dispatch
    <2>1. PICK i \in DOMAIN order : Dispatch1(i)
      BY <1>5 DEF Dispatch
    <2>2. /\ order[i] \in Users /\ queue[order[i]] # <<>>
          /\ Now(Head(queue[order[i]]), "downloading")
      BY <2>1, <1>t DEF Dispatch1, Next1, Eligible, TypeOK
    <2>3. Head(queue[order[i]]) = queue[order[i]][1] /\ 1 \in DOMAIN queue[order[i]]
      BY <2>2, <1>t DEF TypeOK
    <2>4. Head(queue[order[i]]) = j
      BY <2>2, <1>1, <1>2, <1>t DEF Now, TypeOK
    <2>5. order[i] = u
      BY <2>2, <2>3, <2>4, <1>1 DEF MediaInv, Queued
    <2> QED  BY <2>3, <2>4, <2>5 DEF MediaInv, Queued
  <1>6. CASE DispatchDone \/ StopReturns \/ UNCHANGED vars
    BY <1>6, <1>2 DEF DispatchDone, StopReturns, vars
  <1>7. CASE Stop
    BY <1>7, <1>1 DEF Stop, Running
  <1> QED  BY <1>3, <1>4, <1>5, <1>6, <1>7, <1>8 DEF Next

\* Jobs of one user start in the order of enqueue().
THEOREM InOrder == Spec => StartsInOrder
  <1>1. MediaInv /\ [Next]_vars =>
          [\A u \in Users : \A i, k \in 1..Len(queue[u]) :
               i < k /\ phase'[queue[u][k]] \in Running
                   => phase'[queue[u][i]] # "queued"]_vars
    <2> SUFFICES ASSUME MediaInv, [Next]_vars, NEW u \in Users,
                        NEW i \in 1..Len(queue[u]), NEW k \in 1..Len(queue[u]),
                        i < k, phase'[queue[u][k]] \in Running
                 PROVE  FALSE
      OBVIOUS
    <2>1. k \in DOMAIN queue[u] /\ Len(queue[u]) \in Nat
      BY DEF MediaInv, TypeOK
    <2>2. k = 1
      BY <2>1, OnlyHeadStarts
    <2> QED  BY <2>1, <2>2
  <1> QED  BY <1>1, MediaInvariant, PTL DEF Spec, StartsInOrder
=============================================================================
