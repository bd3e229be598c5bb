----------------------------- MODULE ChatsProofs -----------------------------
(***************************************************************************)
(* Proof that a list of the chats page is current, for any rows, page size *)
(* and number of writes and events.                                        *)
(*                                                                         *)
(* ListCurrent speaks of a list at rest.  The strengthening follows the    *)
(* pages while they are loaded: unless something was dropped, or a write   *)
(* or an event will have them loaded again, what has been read so far is   *)
(* already what the database has down to there.                            *)
(***************************************************************************)
EXTENDS Chats, SequenceTheorems, FiniteSetTheorems, TLAPS

Records == [id : Rows, time : Nat]
PageSet == [rows : Seq(Records), more : BOOLEAN]

\* The present record of a row.
Record(r) == [id |-> r, time |-> time[r]]

\* The rows of a page are those of the database, in order and each once.
Ordered(page) ==
    /\ Len(page.rows) <= Limit
    /\ page.more => page.rows # <<>>
    /\ \A i \in DOMAIN page.rows :
           page.rows[i].id \in Present /\ page.rows[i] = Record(page.rows[i].id)
    /\ \A i, j \in DOMAIN page.rows :
           i < j => page.rows[i] # page.rows[j] /\ ~Before(page.rows[j], page.rows[i])

\* So are those of two pages.
Apart(page, next) ==
    \A i \in DOMAIN page.rows, j \in DOMAIN next.rows :
        page.rows[i] # next.rows[j] /\ ~Before(next.rows[j], page.rows[i])

\* No row of the page comes after x.
Reaches(page, x) == \A i \in DOMAIN page.rows : ~Before(x, page.rows[i])

\* Row r is on a page, or cut off between two, or beyond the last.
Covered(ps, r) ==
    \/ \E p \in DOMAIN ps : \E i \in DOMAIN ps[p].rows : ps[p].rows[i].id = r
    \/ kind = "messages" /\ \E p \in DOMAIN ps :
           ps[p].rows # <<>> /\ ps[p].more /\ LastOf(ps[p].rows).time = time[r]
    \/ LastOf(ps).more /\ \A p \in DOMAIN ps : Reaches(ps[p], Record(r))

\* The pages ps show what the database has.
Exact(ps) ==
    /\ \A p \in DOMAIN ps : Ordered(ps[p])
    /\ \A p, q \in DOMAIN ps : p < q => Apart(ps[p], ps[q])
    /\ ps # <<>> => \A r \in Present : Covered(ps, r)

ChatShape ==
    /\ kind \in {"conversations", "messages"}
    /\ time \in [Rows -> Nat]
    /\ events \in Nat /\ dropped \in BOOLEAN
    /\ pages \in Seq(PageSet)
    /\ fetch \in [op : {"none", "all", "more"}, got : Seq(PageSet), want : Nat]
    /\ fetch.op = "none" => fetch = NoFetch

\* Nothing is on its way that will have the pages loaded again, and nothing that should
\* have is missing.
Whole == ~writing /\ events = 0 /\ ~dropped

ListExact ==
    Whole => /\ Exact(fetch.got)
             /\ fetch.op # "all" => Exact(pages)

ChatInv == ChatShape /\ ListExact

-----------------------------------------------------------------------------
(* The order of the rows.                                                  *)

\* Before is transitive, and rows it leaves open are of the same second; two
\* conversations it leaves open are one.
LEMMA BeforeOrder ==
    ASSUME NEW a \in Records, NEW b \in Records, NEW c \in Records
    PROVE  /\ Before(a, b) /\ Before(b, c) => Before(a, c)
           /\ ~Before(a, b) /\ ~Before(b, a) =>
                  a.time = b.time /\ (kind = "conversations" => a.id = b.id)
<1>1. /\ a.time \in Nat /\ b.time \in Nat /\ c.time \in Nat
      /\ a.id \in Nat /\ b.id \in Nat /\ c.id \in Nat
  BY RowsAssumption DEF Records
<1>2. CASE kind = "conversations"
  BY <1>1, <1>2 DEF Before
<1>3. CASE kind # "conversations"
  BY <1>1, <1>3 DEF Before
<1> QED  BY <1>2, <1>3

\* What the database has of a row is a record of that row.
LEMMA RecordsOfRows ==
    ASSUME ChatShape
    PROVE  /\ Present \subseteq Rows
           /\ \A r \in Present : Record(r) \in Records /\ Record(r).id = r
           /\ \A r \in Present : Record(r).time = time[r]
  BY DEF ChatShape, Record, Records, Present

-----------------------------------------------------------------------------
(* What the API reads.                                                     *)

\* The rows after a cursor are records of rows, and finitely many.
LEMMA AfterCursorRecords ==
    ASSUME ChatShape, NEW page
    PROVE  /\ \A x : x \in AfterCursor(page) <=>
                     /\ \E r \in Present : x = Record(r)
                     /\ page = <<>> \/ Before(Cursor(page), x)
           /\ AfterCursor(page) \subseteq Records
           /\ IsFiniteSet(AfterCursor(page)) /\ Cardinality(AfterCursor(page)) \in Nat
<1> DEFINE found == AfterCursor(page)
           id == [x \in found |-> x.id]
<1>1. \A x : x \in found <=> /\ \E r \in Present : x = Record(r)
                             /\ page = <<>> \/ Before(Cursor(page), x)
  BY DEF AfterCursor, Record
<1>2. \A x \in found : x \in Records /\ x.id \in Rows /\ x = Record(x.id)
  BY <1>1, RecordsOfRows
<1>3. id \in Injection(found, Rows)
  BY <1>2 DEF Injection, IsInjective
<1>4. IsFiniteSet(found)
  BY <1>3, RowsAssumption, FS_Injection
<1>5. Cardinality(found) \in Nat
  BY <1>4, FS_CardinalityType
<1> QED  BY <1>1, <1>2, <1>4, <1>5

\* A page holds rows after its cursor, in order, and passes over none but those beyond
\* its end.
LEMMA PageRead ==
    ASSUME ChatShape, NEW page, NEW p \in Reads(page)
    PROVE  /\ p \in PageSet /\ Ordered(p)
           /\ \A i \in DOMAIN p.rows : p.rows[i] \in AfterCursor(page)
           /\ \A x \in AfterCursor(page) :
                  \/ \E i \in DOMAIN p.rows : p.rows[i] = x
                  \/ p.more /\ Reaches(p, x)
<1> DEFINE found == AfterCursor(page)
           n == IF Cardinality(found) > Limit THEN Limit ELSE Cardinality(found)
<1>1. /\ found \subseteq Records /\ IsFiniteSet(found) /\ Cardinality(found) \in Nat
      /\ \A x \in found : \E r \in Present : x = Record(r)
  BY AfterCursorRecords
<1>2. n \in Nat /\ n <= Limit /\ (Cardinality(found) > Limit => n = Limit /\ n > 0)
      /\ (~(Cardinality(found) > Limit) => n = Cardinality(found))
  BY <1>1, LimitAssumption
<1>3. PICK s \in [1..n -> found] :
          /\ p = [rows |-> s, more |-> Cardinality(found) > Limit]
          /\ \A i, j \in 1..n : i < j => s[i] # s[j] /\ ~Before(s[j], s[i])
          /\ \A x \in found : (\E i \in 1..n : Before(x, s[i])) => \E i \in 1..n : s[i] = x
  BY DEF Reads
<1> HIDE DEF found, n
<1>4. s \in Seq(Records) /\ Len(s) = n /\ DOMAIN s = 1..n
  BY <1>1, <1>2, <1>3
<1>5. p \in PageSet /\ p.rows = s /\ (p.more <=> Cardinality(found) > Limit)
  <2>1. (Cardinality(found) > Limit) \in BOOLEAN
    BY <1>1, LimitAssumption
  <2>2. p.rows = s /\ p.more = (Cardinality(found) > Limit)
    BY <1>3
  <2>3. p \in PageSet
    BY <1>3, <1>4, <2>1 DEF PageSet
  <2> QED  BY <2>2, <2>3
<1>6. Ordered(p)
  <2>1. \A i \in 1..n : s[i].id \in Present /\ s[i] = Record(s[i].id)
    BY <1>1, <1>3, RecordsOfRows
  <2>2. p.more => s # <<>>
    BY <1>2, <1>4, <1>5
  <2> QED  BY <1>2, <1>3, <1>4, <1>5, <2>1, <2>2 DEF Ordered
<1>7. \A i \in DOMAIN p.rows : p.rows[i] \in found
  BY <1>3, <1>4, <1>5
<1>8. ASSUME NEW x \in found
      PROVE  (\E i \in 1..n : s[i] = x) \/ (p.more /\ Reaches(p, x))
  <2>1. CASE Cardinality(found) > Limit
    BY <1>3, <1>4, <1>5, <2>1 DEF Reaches
  <2>2. CASE ~(Cardinality(found) > Limit)
    <3>1. IsFiniteSet(1..n) /\ Cardinality(1..n) = n
      BY <1>2, FS_Interval
    <3>2. s \in Injection(1..n, found)
      BY <1>2, <1>3 DEF Injection, IsInjective
    <3>3. Cardinality(1..n) = Cardinality(found)
      BY <1>2, <2>2, <3>1
    <3>4. s \in Surjection(1..n, found)
      BY <1>1, <3>2, <3>3, FS_Injection
    <3> QED  BY <3>4 DEF Surjection
  <2> QED  BY <2>1, <2>2
<1> QED  BY <1>4, <1>5, <1>6, <1>7, <1>8 DEF found

-----------------------------------------------------------------------------
(* A list page by page.                                                    *)

\* The rows of the pages are records.
LEMMA PagesHaveRecords ==
    ASSUME NEW ps \in Seq(PageSet)
    PROVE  /\ Len(ps) \in Nat /\ DOMAIN ps = 1..Len(ps)
           /\ \A p \in DOMAIN ps : /\ ps[p].rows \in Seq(Records)
                                   /\ Len(ps[p].rows) \in Nat
                                   /\ DOMAIN ps[p].rows = 1..Len(ps[p].rows)
                                   /\ \A i \in DOMAIN ps[p].rows : ps[p].rows[i] \in Records
<1>1. Len(ps) \in Nat /\ DOMAIN ps = 1..Len(ps) /\ \A p \in DOMAIN ps : ps[p] \in PageSet
  OBVIOUS
<1>2. \A p \in DOMAIN ps : ps[p].rows \in Seq(Records)
  BY <1>1 DEF PageSet
<1> QED  BY <1>1, <1>2

\* The cursor of exact pages comes after all their rows.
LEMMA CursorIsLast ==
    ASSUME ChatShape, NEW ps \in Seq(PageSet), ps # <<>>, Exact(ps), LastOf(ps).more
    PROVE  LET c == Cursor(LastOf(ps).rows)
           IN  /\ c \in Records /\ LastOf(ps).rows # <<>>
               /\ \E i \in DOMAIN LastOf(ps).rows : c = LastOf(ps).rows[i]
               /\ \A p \in DOMAIN ps : Reaches(ps[p], c)
<1> DEFINE last == LastOf(ps)
           c == Cursor(last.rows)
           m == Len(last.rows)
<1>1. Len(ps) \in DOMAIN ps /\ last = ps[Len(ps)] /\ Ordered(last)
  BY PagesHaveRecords DEF LastOf, Exact
<1>2. last.rows # <<>> /\ last.rows \in Seq(Records)
  BY <1>1, PagesHaveRecords DEF Ordered
<1>3. m \in DOMAIN last.rows /\ c = last.rows[m] /\ c \in Records /\ DOMAIN last.rows = 1..m
      /\ m \in Nat
  BY <1>2 DEF Cursor, LastOf
<1>4. ASSUME NEW p \in DOMAIN ps, NEW i \in DOMAIN ps[p].rows
      PROVE  ~Before(c, ps[p].rows[i])
  <2>1. CASE p # Len(ps)
    <3>1. p < Len(ps)
      BY <2>1, PagesHaveRecords
    <3> QED  BY <1>1, <1>3, <3>1 DEF Exact, Apart
  <2>2. CASE p = Len(ps) /\ i # m
    <3>1. i < m
      BY <1>1, <1>3, <2>2
    <3> QED  BY <1>1, <1>3, <2>2, <3>1 DEF Ordered
  <2>3. CASE p = Len(ps) /\ i = m
    <3>1. c.time \in Nat /\ c.id \in Nat
      BY <1>3, RowsAssumption DEF Records
    <3> QED  BY <1>1, <1>3, <2>3, <3>1 DEF Before
  <2> QED  BY <2>1, <2>2, <2>3
<1> QED  BY <1>2, <1>3, <1>4 DEF Reaches

\* A page read after exact pages leaves them exact.
LEMMA AppendExact ==
    ASSUME ChatShape, NEW ps \in Seq(PageSet), Exact(ps), ps # <<>> => LastOf(ps).more,
           NEW p \in Reads(IF ps = <<>> THEN <<>> ELSE LastOf(ps).rows)
    PROVE  Append(ps, p) \in Seq(PageSet) /\ Exact(Append(ps, p))
<1> DEFINE before == IF ps = <<>> THEN <<>> ELSE LastOf(ps).rows
           qs == Append(ps, p)
           k == Len(ps) + 1
<1>1. /\ p \in PageSet /\ Ordered(p)
      /\ \A i \in DOMAIN p.rows : p.rows[i] \in AfterCursor(before)
      /\ \A x \in AfterCursor(before) :
             \/ \E i \in DOMAIN p.rows : p.rows[i] = x
             \/ p.more /\ Reaches(p, x)
  BY PageRead
<1>2. /\ Len(ps) \in Nat /\ DOMAIN ps = 1..Len(ps)
      /\ qs \in Seq(PageSet) /\ DOMAIN qs = 1..k /\ qs # <<>>
      /\ \A q \in DOMAIN ps : q \in DOMAIN qs /\ qs[q] = ps[q] /\ q < k
      /\ k \in DOMAIN qs /\ qs[k] = p /\ LastOf(qs) = p
      /\ \A q \in DOMAIN qs : q = k \/ q \in DOMAIN ps
  BY <1>1 DEF LastOf
<1> HIDE DEF qs, k
<1>3. \A q \in DOMAIN qs : Ordered(qs[q])
  BY <1>1, <1>2 DEF Exact
<1>4. ASSUME NEW q \in DOMAIN ps
      PROVE  Apart(ps[q], p)
  <2> DEFINE c == Cursor(before)
  <2>1. ps # <<>> /\ before = LastOf(ps).rows
    BY <1>2
  <2>2. c \in Records /\ Reaches(ps[q], c) /\ before # <<>>
    BY <2>1, CursorIsLast
  <2>3. ASSUME NEW i \in DOMAIN ps[q].rows, NEW j \in DOMAIN p.rows
        PROVE  ps[q].rows[i] # p.rows[j] /\ ~Before(p.rows[j], ps[q].rows[i])
    <3>1. ps[q].rows[i] \in Records /\ p.rows[j] \in Records
      BY <1>1, PagesHaveRecords, AfterCursorRecords
    <3>2. Before(c, p.rows[j]) /\ ~Before(c, ps[q].rows[i])
      BY <1>1, <2>2, AfterCursorRecords DEF Reaches
    <3> QED  BY <2>2, <3>1, <3>2, BeforeOrder
  <2> QED  BY <2>3 DEF Apart
<1>5. \A a, b \in DOMAIN qs : a < b => Apart(qs[a], qs[b])
  BY <1>2, <1>4 DEF Exact, k
<1>6. ASSUME NEW r \in Present
      PROVE  Covered(qs, r)
  <2> DEFINE x == Record(r)
  <2>1. x \in Records /\ x.id = r /\ x.time = time[r]
    BY RecordsOfRows
  <2>2. CASE x \in AfterCursor(before)
    <3>1. CASE \E i \in DOMAIN p.rows : p.rows[i] = x
      BY <1>2, <2>1, <3>1 DEF Covered
    <3>2. CASE p.more /\ Reaches(p, x)
      <4>1. \A q \in DOMAIN ps : Reaches(ps[q], x)
        <5> SUFFICES ASSUME NEW q \in DOMAIN ps, NEW i \in DOMAIN ps[q].rows,
                            Before(x, ps[q].rows[i])
                     PROVE  FALSE
          BY DEF Reaches
        <5>1. ps # <<>> /\ before = LastOf(ps).rows
          BY <1>2
        <5>2. Cursor(before) \in Records /\ Reaches(ps[q], Cursor(before)) /\ before # <<>>
          BY <5>1, CursorIsLast
        <5>3. Before(Cursor(before), x) /\ ps[q].rows[i] \in Records
          BY <2>2, <5>2, PagesHaveRecords, AfterCursorRecords
        <5> QED  BY <2>1, <5>2, <5>3, BeforeOrder DEF Reaches
      <4> QED  BY <1>2, <3>2, <4>1 DEF Covered
    <3> QED  BY <1>1, <2>2, <3>1, <3>2
  <2>3. CASE x \notin AfterCursor(before)
    <3> DEFINE c == Cursor(before)
    <3>1. before # <<>> /\ ~Before(c, x)
      BY <2>3, AfterCursorRecords
    <3>2. ps # <<>> /\ before = LastOf(ps).rows
      BY <3>1
    <3>3. Covered(ps, r)
      BY <3>2 DEF Exact
    <3>4. CASE \E q \in DOMAIN ps : \E i \in DOMAIN ps[q].rows : ps[q].rows[i].id = r
      BY <1>2, <3>4 DEF Covered
    <3>5. CASE kind = "messages" /\ \E q \in DOMAIN ps :
                   ps[q].rows # <<>> /\ ps[q].more /\ LastOf(ps[q].rows).time = time[r]
      BY <1>2, <3>5 DEF Covered
    <3>6. CASE LastOf(ps).more /\ \A q \in DOMAIN ps : Reaches(ps[q], x)
      <4>1. /\ c \in Records /\ \E i \in DOMAIN before : c = before[i]
            /\ Len(ps) \in DOMAIN ps /\ LastOf(ps) = ps[Len(ps)]
        BY <1>2, <3>2, CursorIsLast DEF LastOf
      <4>2. ~Before(x, c)
        BY <3>2, <3>6, <4>1 DEF Reaches
      <4>3. c.time = x.time /\ (kind = "conversations" => c.id = x.id)
        BY <2>1, <3>1, <4>1, <4>2, BeforeOrder
      <4>4. CASE kind = "conversations"
        BY <1>2, <2>1, <3>2, <4>1, <4>3, <4>4 DEF Covered
      <4>5. CASE kind = "messages"
        BY <1>2, <2>1, <3>1, <3>2, <3>6, <4>1, <4>3, <4>5 DEF Covered, Cursor
      <4> QED  BY <4>4, <4>5 DEF ChatShape
    <3> QED  BY <3>3, <3>4, <3>5, <3>6 DEF Covered
  <2> QED  BY <2>2, <2>3
<1> QED  BY <1>2, <1>3, <1>5, <1>6 DEF Exact, qs

\* What the database has changes with a write only.
LEMMA ExactStays ==
    ASSUME kind' = kind, time' = time, NEW ps
    PROVE  Exact(ps)' <=> Exact(ps)
  BY DEF Exact, Ordered, Apart, Covered, Reaches, Before, Record, Present

\* No page is exact.
LEMMA NothingExact == Exact(<<>>)
  BY DEF Exact

-----------------------------------------------------------------------------
(* The steps.                                                              *)

\* The history stays a truth value.
LEMMA DropTyped ==
    ASSUME ChatShape, Drop
    PROVE  events' \in Nat /\ dropped' \in BOOLEAN
  BY Zenon DEF ChatShape, Drop

\* Every step keeps the shape of what the page, the fetch and the database hold.
LEMMA ShapeKept ==
    ASSUME ChatShape, [ChatNext]_chatVars
    PROVE  ChatShape'
<1> USE DEF ChatShape, dbVars, streamVars, cacheVars
<1>1. /\ <<>> \in Seq(PageSet)
      /\ NoFetch \in [op : {"none", "all", "more"}, got : Seq(PageSet), want : Nat]
  BY EmptySeq DEF NoFetch
<1>2. Reload => fetch' \in [op : {"none", "all", "more"}, got : Seq(PageSet), want : Nat]
                /\ fetch'.op = "all" /\ dropped' = FALSE
  BY <1>1 DEF Reload
<1>0. NoFetch' = NoFetch
  BY DEF NoFetch
<1>3. ASSUME NEW r \in Rows, NEW t \in 1..MaxTime, Write(r, t)
      PROVE  ChatShape'
  BY <1>0, <1>3 DEF Write
<1>4. CASE Publish \/ NotPublished
  <2>1. events' \in Nat
    BY <1>4 DEF Publish, NotPublished
  <2>2. dropped' \in BOOLEAN
    BY <1>4, Zenon DEF Publish, NotPublished
  <2> QED  BY <1>0, <1>4, <2>1, <2>2 DEF Publish, NotPublished
<1>5. CASE Stream
  <2>1. events' \in Nat /\ dropped' \in BOOLEAN
    BY <1>5, DropTyped DEF Stream, Connect, Subscribed, Broken, TokenExpires, TokenRefreshed
  <2> QED
    BY <1>0, <1>5, <2>1 DEF Stream, Connect, Subscribed, Broken, TokenExpires, TokenRefreshed
<1>6. CASE Event
  <2>1. events' \in Nat
    BY <1>6 DEF Event
  <2>2. dropped' \in BOOLEAN
    BY <1>2, <1>6 DEF Event, Invalidates
  <2> QED  BY <1>0, <1>2, <1>6, <2>1, <2>2 DEF Event, Invalidates
<1>7. CASE Leave
  <2>1. events' \in Nat /\ dropped' \in BOOLEAN
    BY <1>7, DropTyped DEF Leave
  <2> QED  BY <1>0, <1>7, <2>1 DEF Leave
<1>8. CASE Return
  BY <1>0, <1>2, <1>8 DEF Return, Join
<1>9. CASE LoadMore
  BY <1>0, <1>9 DEF LoadMore
<1>10. CASE ReadPage
  <2>1. PICK p \in Reads(IF fetch.got = <<>> THEN <<>> ELSE LastOf(fetch.got).rows) :
            fetch' = [fetch EXCEPT !.got = Append(@, p)]
    BY <1>10 DEF ReadPage
  <2>2. p \in PageSet
    BY <2>1, PageRead
  <2>3. fetch.op # "none"
    BY <1>10 DEF ReadPage, WantsMore
  <2>4. Append(fetch.got, p) \in Seq(PageSet)
    BY <2>2
  <2>5. fetch' \in [op : {"none", "all", "more"}, got : Seq(PageSet), want : Nat]
        /\ fetch'.op # "none"
    BY <2>1, <2>3, <2>4
  <2> QED  BY <1>0, <1>10, <2>5 DEF ReadPage
<1>11. CASE Loaded \/ LoadFails
  BY <1>0, <1>1, <1>11 DEF Loaded, LoadFails
<1>12. CASE UNCHANGED chatVars
  BY <1>0, <1>12 DEF chatVars
<1> QED  BY <1>3, <1>4, <1>5, <1>6, <1>7, <1>8, <1>9, <1>10, <1>11, <1>12
         DEF ChatNext, Worker, List

\* All pages begin to load again: whatever was dropped no longer matters.
LEMMA ReloadExact ==
    ASSUME ChatShape, Reload, kind' = kind, time' = time
    PROVE  ListExact'
<1>1. fetch'.got = <<>> /\ fetch'.op = "all"
  BY DEF Reload
<1>2. Exact(fetch.got)'
  BY <1>1 DEF Exact
<1> QED  BY <1>1, <1>2 DEF ListExact

\* A step that keeps the pages and the fetch, and settles nothing, keeps the rest.
LEMMA CacheKept ==
    ASSUME ChatInv, Whole' => Whole, UNCHANGED <<kind, time, pages, fetch>>
    PROVE  ListExact'
<1>1. Exact(fetch.got)' <=> Exact(fetch.got)
  BY ExactStays
<1>2. Exact(pages)' <=> Exact(pages)
  BY ExactStays
<1> QED  BY <1>1, <1>2 DEF ChatInv, ListExact

\* Events under way are not forgotten.
LEMMA DropSettles ==
    ASSUME ChatShape, Drop, ~dropped'
    PROVE  events = 0 /\ ~dropped
<1>1. ~(events > 0) /\ ~dropped
  BY DEF Drop
<1>2. events \in Nat
  BY DEF ChatShape
<1>3. \A n \in Nat : ~(n > 0) => n = 0
  OBVIOUS
<1> QED  BY <1>1, <1>2, <1>3

\* A write unsettles the list, its announcement or the lack of it does not settle it.
LEMMA WorkerExact ==
    ASSUME ChatInv, Worker
    PROVE  ListExact'
<1>1. ASSUME NEW r \in Rows, NEW t \in 1..MaxTime, Write(r, t)
      PROVE  ListExact'
  BY <1>1 DEF Write, ListExact, Whole
<1>2. CASE Publish \/ NotPublished
  <2>1. ~Whole'
    BY <1>2 DEF Publish, NotPublished, Whole, ChatInv, ChatShape
  <2> QED  BY <2>1 DEF ListExact
<1> QED  BY <1>1, <1>2 DEF Worker

\* Events that are lost are counted as dropped.
LEMMA StreamExact ==
    ASSUME ChatInv, Stream
    PROVE  ListExact'
<1>1. UNCHANGED <<kind, time, writing, pages, fetch>>
  BY DEF Stream, Connect, Subscribed, Broken, TokenExpires, TokenRefreshed, dbVars, cacheVars
<1>2. Whole' => Whole
  <2>1. CASE Broken
    BY <1>1, <2>1, DropSettles DEF Broken, Whole, ChatInv
  <2>2. CASE Connect \/ Subscribed \/ TokenExpires \/ TokenRefreshed
    BY <2>2 DEF Connect, Subscribed, TokenExpires, TokenRefreshed, Whole, dbVars, cacheVars
  <2> QED  BY <2>1, <2>2 DEF Stream
<1> QED  BY <1>1, <1>2, CacheKept

\* An event has all pages loaded again, or joins a first load that has read nothing.
LEMMA EventExact ==
    ASSUME ChatInv, Event
    PROVE  ListExact'
<1>1. UNCHANGED <<kind, time, writing, pages>>
  BY DEF Event, dbVars
<1>2. CASE watched /\ Reload
  BY <1>1, <1>2, ReloadExact DEF ChatInv
<1>3. CASE watched /\ pages = <<>> /\ fetch # NoFetch /\ fetch' = fetch
           /\ dropped' = (dropped \/ fetch.got # <<>>)
  <2>1. CASE fetch.got = <<>>
    <3>1. Exact(fetch.got)' /\ Exact(pages)'
      BY <1>1, <1>3, <2>1 DEF Exact
    <3> QED  BY <3>1 DEF ListExact
  <2>2. CASE fetch.got # <<>>
    BY <1>3, <2>2 DEF ListExact, Whole
  <2> QED  BY <2>1, <2>2
<1>4. CASE ~watched /\ dropped'
  BY <1>4 DEF ListExact, Whole
<1> QED  BY <1>2, <1>3, <1>4 DEF Event, Invalidates

\* Leaving drops the events under way; coming back loads again, or joins what loads.
LEMMA VisitExact ==
    ASSUME ChatInv, Leave \/ Return
    PROVE  ListExact'
<1>1. UNCHANGED <<kind, time, writing, pages>>
  BY DEF Leave, Return, dbVars
<1>2. CASE Leave
  <2>1. UNCHANGED fetch /\ (Whole' => Whole)
    BY <1>1, <1>2, DropSettles DEF Leave, Whole, ChatInv
  <2> QED  BY <1>1, <2>1, CacheKept
<1>3. CASE Return /\ Reload
  BY <1>1, <1>3, ReloadExact DEF ChatInv
<1>4. CASE Return /\ UNCHANGED <<fetch, dropped>>
  <2>1. Whole' => Whole
    BY <1>4 DEF Return, Whole, dbVars, streamVars
  <2> QED  BY <1>1, <1>4, <2>1, CacheKept
<1> QED  BY <1>2, <1>3, <1>4 DEF Return, Join

\* Loading: from pages that are exact, page by page to pages that are.
LEMMA LoadExact ==
    ASSUME ChatInv, LoadMore \/ ReadPage \/ Loaded \/ LoadFails
    PROVE  ListExact'
<1>1. /\ UNCHANGED <<kind, time, writing, events>>
      /\ Whole' => Whole
  BY DEF LoadMore, ReadPage, Loaded, LoadFails, Whole, dbVars, streamVars, ChatInv, ChatShape
<1>2. Whole => Exact(fetch.got) /\ (fetch.op # "all" => Exact(pages))
  BY DEF ChatInv, ListExact
<1>3. CASE LoadMore
  <2>1. pages' = pages /\ fetch'.got = pages /\ (Whole' => fetch.op # "all")
    BY <1>3 DEF LoadMore, Whole
  <2>2. Whole' => Exact(pages)
    BY <1>1, <1>2, <2>1
  <2>3. Exact(pages)' <=> Exact(pages)
    BY <1>1, <2>1, ExactStays
  <2>4. Exact(fetch.got)' <=> Exact(pages)'
    BY <2>1
  <2> QED  BY <2>2, <2>3, <2>4 DEF ListExact
<1>4. CASE ReadPage
  <2>1. PICK p \in Reads(IF fetch.got = <<>> THEN <<>> ELSE LastOf(fetch.got).rows) :
            fetch' = [fetch EXCEPT !.got = Append(@, p)]
    BY <1>4 DEF ReadPage
  <2>2. pages' = pages /\ fetch'.op = fetch.op /\ fetch'.got = Append(fetch.got, p)
        /\ fetch.got \in Seq(PageSet) /\ (fetch.got # <<>> => LastOf(fetch.got).more)
    BY <1>4, <2>1 DEF ReadPage, WantsMore, ChatInv, ChatShape
  <2>3. Whole => Exact(Append(fetch.got, p))
    BY <1>2, <2>2, AppendExact DEF ChatInv
  <2>4. /\ Exact(fetch.got)' <=> Exact(Append(fetch.got, p))
        /\ Exact(pages)' <=> Exact(pages)
    BY <1>1, <2>2, ExactStays
  <2> QED  BY <1>1, <1>2, <2>2, <2>3, <2>4 DEF ListExact
<1>5. CASE Loaded
  <2>1. pages' = fetch.got /\ fetch'.got = <<>>
    BY <1>5 DEF Loaded, NoFetch
  <2>2. /\ Exact(pages)' <=> Exact(fetch.got)
        /\ Exact(fetch.got)'
    BY <1>1, <2>1, ExactStays, NothingExact
  <2> QED  BY <1>1, <1>2, <2>2 DEF ListExact
<1>6. CASE LoadFails
  <2>1. pages' = pages /\ fetch'.got = <<>> /\ (Whole' => fetch.op # "all")
    BY <1>6 DEF LoadFails, NoFetch, Whole
  <2>2. /\ Exact(pages)' <=> Exact(pages)
        /\ Exact(fetch.got)'
    BY <1>1, <2>1, ExactStays, NothingExact
  <2> QED  BY <1>1, <1>2, <2>1, <2>2 DEF ListExact
<1> QED  BY <1>3, <1>4, <1>5, <1>6

-----------------------------------------------------------------------------
(* The invariant, and the list at rest.                                    *)

\* Every reachable state satisfies the inductive invariant.
LEMMA ChatInvariant == ChatSpec => []ChatInv
<1>1. ChatInit => ChatInv
  <2> SUFFICES ASSUME ChatInit PROVE ChatInv
    OBVIOUS
  <2>1. ChatShape
    <3>1. <<>> \in Seq(PageSet)
      BY EmptySeq
    <3>2. time \in [Rows -> Nat]
      BY DEF ChatInit
    <3> QED  BY <3>1, <3>2 DEF ChatInit, ChatShape
  <2>2. fetch.got = <<>> /\ pages = <<>>
    BY DEF ChatInit
  <2> QED  BY <2>1, <2>2, NothingExact DEF ChatInv, ListExact
<1>2. ChatInv /\ [ChatNext]_chatVars => ChatInv'
  <2> SUFFICES ASSUME ChatInv, [ChatNext]_chatVars PROVE ChatInv'
    OBVIOUS
  <2>1. ChatShape'
    BY ShapeKept DEF ChatInv
  <2>2. ListExact'
    <3>1. CASE UNCHANGED chatVars
      BY <3>1, CacheKept DEF chatVars, dbVars, streamVars, cacheVars, Whole
    <3>2. CASE ChatNext
      BY <3>2, WorkerExact, StreamExact, EventExact, VisitExact, LoadExact DEF ChatNext, List
    <3> QED  BY <3>1, <3>2
  <2> QED  BY <2>1, <2>2 DEF ChatInv
<1> QED  BY <1>1, <1>2, PTL DEF ChatSpec

\* The cached pages are well-formed whatever the worker, the stream and the fetches do.
THEOREM ChatTypes == ChatSpec => []ChatShape
<1>1. ChatInv => ChatShape
  BY DEF ChatInv
<1> QED  BY <1>1, ChatInvariant, PTL

\* Exact pages are what the property asks of a list at rest.
LEMMA ExactIsCurrent ==
    ASSUME ChatShape, pages # <<>>, Exact(pages)
    PROVE  Current
<1>1. pages \in Seq(PageSet)
  BY DEF ChatShape
<1>2. \A x : x \in Slots <=>
          \E p \in DOMAIN pages : \E i \in DOMAIN pages[p].rows :
                  x = [page |-> p, at |-> i]
  <2>1. \A p \in DOMAIN pages : Len(pages[p].rows) <= Limit
    BY DEF Exact, Ordered
  <2>2. ASSUME NEW p \in DOMAIN pages, NEW i \in DOMAIN pages[p].rows
        PROVE  [page |-> p, at |-> i] \in Slots
    <3>1. /\ p \in 1..Len(pages) /\ i \in 1..Limit
          /\ i <= Len(pages[p].rows)
      BY <1>1, <2>1, PagesHaveRecords, LimitAssumption
    <3> QED  BY <3>1 DEF Slots, ShownRows
  <2>3. ASSUME NEW x \in Slots
        PROVE  \E p \in DOMAIN pages : \E i \in DOMAIN pages[p].rows :
                  x = [page |-> p, at |-> i]
    <3>1. PICK p \in 1..Len(pages), i \in 1..Limit :
              x = [page |-> p, at |-> i] /\ i <= Len(pages[p].rows)
      BY DEF Slots, ShownRows
    <3>2. p \in DOMAIN pages /\ i \in DOMAIN pages[p].rows
      BY <1>1, <3>1, PagesHaveRecords, LimitAssumption
    <3> QED  BY <3>1, <3>2
  <2> QED  BY <2>2, <2>3
<1>3. ASSUME NEW x \in Slots
      PROVE  /\ x = [page |-> x.page, at |-> x.at]
             /\ x.page \in DOMAIN pages /\ x.at \in DOMAIN pages[x.page].rows
             /\ At(x) = pages[x.page].rows[x.at]
             /\ At(x).id \in Present /\ At(x) = Record(At(x).id)
  BY <1>2 DEF At, Exact, Ordered
<1>4. \A x \in Slots : At(x).time = time[At(x).id]
  BY <1>3, RecordsOfRows
<1>5. ASSUME NEW x \in Slots, NEW y \in Slots, At(x).id = At(y).id
      PROVE  x = y
  <2>1. At(x) = At(y)
    BY <1>3, <1>5
  <2>2. x.page = y.page
    <3>1. x.page < y.page \/ y.page < x.page \/ x.page = y.page
      BY <1>1, <1>3, PagesHaveRecords
    <3> QED  BY <1>3, <2>1, <3>1 DEF Exact, Apart
  <2>3. x.at = y.at
    BY <1>1, <1>3, <2>1, <2>2, PagesHaveRecords DEF Exact, Ordered
  <2> QED  BY <1>3, <2>2, <2>3
<1>6. \A x, y \in Slots : x.page < y.page => ~Before(At(y), At(x))
  BY <1>3 DEF Exact, Apart
<1>7. ASSUME NEW r \in Present
      PROVE  \/ \E x \in Slots : At(x).id = r
             \/ CutOff(r)
             \/ /\ LastOf(pages).more
                 /\ \A x \in Slots : ~Before([id |-> r, time |-> time[r]], At(x))
  <2>1. Covered(pages, r)
    BY DEF Exact
  <2>2. CASE \E p \in DOMAIN pages : \E i \in DOMAIN pages[p].rows : pages[p].rows[i].id = r
    <3>1. PICK p \in DOMAIN pages : \E i \in DOMAIN pages[p].rows : pages[p].rows[i].id = r
      BY <2>2
    <3>2. PICK i \in DOMAIN pages[p].rows : pages[p].rows[i].id = r
      BY <3>1
    <3>3. [page |-> p, at |-> i] \in Slots /\ At([page |-> p, at |-> i]).id = r
      BY <1>2, <3>2 DEF At
    <3> QED  BY <3>3
  <2>3. CASE kind = "messages" /\ \E p \in DOMAIN pages :
                 pages[p].rows # <<>> /\ pages[p].more /\ LastOf(pages[p].rows).time = time[r]
    BY <1>1, <2>3, PagesHaveRecords DEF CutOff
  <2>4. CASE LastOf(pages).more /\ \A p \in DOMAIN pages : Reaches(pages[p], Record(r))
    BY <1>3, <2>4 DEF Reaches, Record
  <2> QED  BY <2>1, <2>2, <2>3, <2>4 DEF Covered
<1> QED  BY <1>4, <1>5, <1>6, <1>7 DEF Current

\* The list shows what the database has (ConversationList.tsx and MessageList.tsx over
\* routes/conversations.ts and messages.ts), for any number of rows and pages: once all has
\* settled, every row down to where the pages end, once, in order and with its present time,
\* unless a message is cut off or an announcement was dropped.
THEOREM ListIsCurrent == ChatSpec => []ListCurrent
<1>1. ChatInv => ListCurrent
  <2> SUFFICES ASSUME ChatInv, watched, Settled, pages # <<>>, ~dropped
               PROVE  Exact(pages)
    BY ExactIsCurrent DEF ListCurrent, ChatInv
  <2> QED  BY DEF ChatInv, ListExact, Whole, Settled, NoFetch
<1> QED  BY <1>1, ChatInvariant, PTL
=============================================================================
