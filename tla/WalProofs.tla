----------------------------- MODULE WalProofs -----------------------------
(***************************************************************************)
(* Proofs about Wal, for any pages, batches, threads, numbers of records   *)
(* and crashes.  LogInv, the inductive invariant, consists of:             *)
(*   SegmentInv  the open segment is well formed: what is buffered lies    *)
(*               between what is flushed and what is allocated, the file   *)
(*               ends where the flushed part does, and, if the capacity is *)
(*               of whole pages, its page starts a number of pages before  *)
(*               the capacity ends;                                        *)
(*   PiecesInv   chunks are pieces of records that were appended;          *)
(*   DurableInv  acknowledged records are in the files;                    *)
(*   PendingInv  what a call under way has appended is in the files or in  *)
(*               the page buffer, and there below the position the call    *)
(*               will flush to.                                            *)
(* What appending leaves of the log is Persists: nothing is taken from the *)
(* files, and what is in the buffer stays in its place or gets into them.  *)
(***************************************************************************)
EXTENDS Wal, Integers, SequenceTheorems, WellFoundedInduction, TLAPS

(* Loops: a recursive function of the number of turns. *)

\* Every nonempty set of natural numbers has a least element.
LEMMA LeastNumber ==
  ASSUME NEW S, S \subseteq Nat, S # {}
  PROVE  \E m \in S : \A n \in S : m <= n
  <1> DEFINE R == OpToRel(<, Nat)
  <1>1. IsWellFoundedOn(R, Nat)
    BY NatLessThanWellFounded
  <1>2. \A m, n \in Nat : n < m => <<n, m>> \in R
    BY DEF OpToRel
  <1> HIDE DEF R
  <1>3. PICK m \in S : \A n \in S : ~ (<<n, m>> \in R)
    BY <1>1, WFMin
  <1>4. ASSUME NEW n \in S PROVE m <= n
    <2>1. m \in Nat /\ n \in Nat
      OBVIOUS
    <2>2. ~ (n < m)
      BY <1>2, <1>3, <2>1
    <2>3. QED
      BY <2>1, <2>2
  <1>5. QED
    BY <1>4

\* What holds before the first turn, and after each turn if it did before it,
\* holds throughout.
LEMMA EveryTurn ==
  ASSUME NEW n \in Nat, NEW G, 0 \in G, \A i \in 1 .. n : i - 1 \in G => i \in G
  PROVE  0 .. n \subseteq G
  <1>1. SUFFICES ASSUME (0 .. n) \ G # {} PROVE FALSE
    OBVIOUS
  <1> DEFINE S == (0 .. n) \ G
  <1>2. PICK m \in S : \A k \in S : m <= k
    <2>1. S \subseteq Nat /\ S # {}
      BY <1>1
    <2> HIDE DEF S
    <2>2. QED
      BY <2>1, LeastNumber
  <1>3. m \in 1 .. n /\ m - 1 \in 0 .. n /\ ~ (m <= m - 1)
    BY <1>2
  <1>4. m - 1 \in G
    BY <1>2, <1>3
  <1>5. QED
    BY <1>2, <1>3, <1>4

\* The states of a loop of n turns that stays in V.
Runs(n, V, v0, step) ==
  {f \in [0 .. n -> V] : f[0] = v0 /\ \A i \in 1 .. n : f[i] = step[<<i, f[i - 1]>>]}

\* There are such states.
LEMMA LoopRuns ==
  ASSUME NEW n \in Nat, NEW V, NEW v0 \in V, NEW step \in [(1 .. n) \X V -> V]
  PROVE  Runs(n, V, v0, step) # {}
  <1> DEFINE Upto(m, f) == f[0] = v0 /\ \A i \in 1 .. m : f[i] = step[<<i, f[i - 1]>>]
             G == {m \in 0 .. n : \E f \in [0 .. n -> V] : Upto(m, f)}
  <1>1. 0 \in G
    <2>1. Upto(0, [i \in 0 .. n |-> v0])
      OBVIOUS
    <2>2. [i \in 0 .. n |-> v0] \in [0 .. n -> V] /\ 0 \in 0 .. n
      OBVIOUS
    <2> HIDE DEF Upto
    <2>3. QED
      BY <2>1, <2>2
  <1>2. ASSUME NEW m \in 1 .. n, m - 1 \in G PROVE m \in G
    <2>1. PICK f \in [0 .. n -> V] : Upto(m - 1, f)
      BY <1>2
    <2> DEFINE g == [f EXCEPT ![m] = step[<<m, f[m - 1]>>]]
    <2>2. m - 1 \in 0 .. n /\ f[m - 1] \in V /\ step[<<m, f[m - 1]>>] \in V
      OBVIOUS
    <2>3. g \in [0 .. n -> V]
      BY <2>2
    <2>4. \A i \in 0 .. m - 1 : g[i] = f[i]
      OBVIOUS
    <2>5. ASSUME NEW i \in 1 .. m PROVE g[i] = step[<<i, g[i - 1]>>]
      <3>1. i - 1 \in 0 .. m - 1 /\ (i = m \/ i \in 1 .. m - 1)
        OBVIOUS
      <3>2. g[i - 1] = f[i - 1]
        BY <2>4, <3>1
      <3>3. CASE i = m
        <4>1. g[m] = step[<<m, f[m - 1]>>]
          BY m \in 0 .. n
        <4> HIDE DEF g
        <4>2. QED
          BY <3>2, <3>3, <4>1
      <3>4. CASE i \in 1 .. m - 1
        <4>1. g[i] = f[i] /\ f[i] = step[<<i, f[i - 1]>>]
          BY <2>1, <2>4, <3>4
        <4>2. QED
          BY <3>2, <4>1
      <3>5. QED
        BY <3>1, <3>3, <3>4
    <2>6. g[0] = v0
      BY <2>1, <2>4
    <2> HIDE DEF g
    <2>7. Upto(m, g)
      BY <2>5, <2>6
    <2>8. QED
      BY <2>3, <2>7
  <1> HIDE DEF G
  <1>3. n \in G
    BY <1>1, <1>2, EveryTurn
  <1>4. QED
    BY <1>3 DEF G, Runs

-----------------------------------------------------------------------------
(* Segments. *)

Types == {"none", "full", "first", "middle", "last"}

Chunk == [at : Nat, type : Types, rec : Nat, from : Nat, len : 1 .. (Page - Header)]

Segment ==
  [start : Nat, allocated : Nat, flushed : Nat, buffer : SUBSET Chunk,
   size : Nat, chunks : SUBSET Chunk]

SegOK(s) ==
  /\ s \in Segment
  /\ s.flushed <= s.allocated /\ s.allocated <= Page
  /\ s.size = s.start + s.flushed
  /\ \A c \in s.buffer : s.flushed <= c.at /\ c.at + Header + c.len <= s.allocated

\* Chunks at different places with the same piece of a record.
Same(c, d) == c.rec = d.rec /\ c.from = d.from /\ c.len = d.len

\* The buffer gets into the file.
Moved(s, t) ==
  /\ t.buffer = {} /\ s.chunks \subseteq t.chunks
  /\ \A c \in s.buffer : \E d \in t.chunks : Same(c, d)
  /\ \A d \in t.chunks : d \in s.chunks \/ \E c \in s.buffer : Same(c, d)

\* Writing out the buffer moves its chunks to the end of the file.
LEMMA WrittenOut ==
  ASSUME NEW s, SegOK(s), NEW upto \in Nat, s.allocated <= upto
  PROVE  LET w == WriteOut(s, upto)
         IN  /\ w \in Segment /\ w.start = s.start /\ w.allocated = s.allocated
             /\ w.flushed = upto /\ w.size = s.start + upto
             /\ Moved(s, w)
  <1> DEFINE at(c) == s.size + (c.at - s.flushed)
             move(c) == [c EXCEPT !.at = at(c)]
             w == WriteOut(s, upto)
  <1>1. /\ s \in Segment /\ {s.start, s.allocated, s.flushed, s.size} \subseteq Nat
        /\ s.buffer \subseteq Chunk /\ s.chunks \subseteq Chunk
    BY DEF SegOK, Segment
  <1>2. ASSUME NEW c \in s.buffer PROVE move(c) \in Chunk /\ Same(c, move(c))
    <2>1. c \in Chunk /\ at(c) \in Nat
      BY <1>1 DEF SegOK, Chunk
    <2> HIDE DEF at
    <2>2. QED
      BY <2>1 DEF Chunk, Same
  <1>3. w = [s EXCEPT !.size = s.size + (upto - s.flushed),
                      !.chunks = s.chunks \cup {move(c) : c \in s.buffer},
                      !.buffer = {}, !.flushed = upto]
    BY <1>1 DEF WriteOut, Segment
  <1> HIDE DEF move, w
  <1>4. /\ w.start = s.start /\ w.allocated = s.allocated /\ w.flushed = upto
        /\ w.size = s.size + (upto - s.flushed) /\ w.buffer = {}
        /\ w.chunks = s.chunks \cup {move(c) : c \in s.buffer}
        /\ w = [start |-> w.start, allocated |-> w.allocated, flushed |-> w.flushed,
                buffer |-> w.buffer, size |-> w.size, chunks |-> w.chunks]
    BY <1>1, <1>3 DEF Segment
  <1>5. w.size = s.start + upto /\ w.size \in Nat
    BY <1>1, <1>4 DEF SegOK
  <1>6. w.chunks \subseteq Chunk
    BY <1>1, <1>2, <1>4
  <1>7. w \in Segment
    BY <1>1, <1>4, <1>5, <1>6 DEF Segment
  <1>8. Moved(s, w)
    BY <1>2, <1>4 DEF Moved
  <1>9. QED
    BY <1>4, <1>5, <1>7, <1>8 DEF w

\* A flush, with and without a new page after it.
LEMMA PageFlushed ==
  ASSUME NEW s, SegOK(s), NEW reset \in BOOLEAN
  PROVE  LET t == FlushPage(s, reset)
         IN  /\ SegOK(t) /\ Moved(s, t)
             /\ IF PageDone(s, reset) THEN t.start = s.start + Page /\ t.allocated = 0
                                      ELSE t.start = s.start /\ t.allocated = s.allocated
  <1> DEFINE t == FlushPage(s, reset)
  <1>1. Page \in Nat /\ s.allocated \in Nat /\ s.start \in Nat /\ s.allocated <= Page
    BY WalAssumption DEF SegOK, Segment
  <1>2. CASE PageDone(s, reset)
    <2> DEFINE w == WriteOut(s, Page)
    <2>1. w \in Segment /\ w.start = s.start /\ w.size = s.start + Page /\ Moved(s, w)
      BY <1>1, WrittenOut
    <2>2. t = NewPage(w)
      BY <1>2 DEF FlushPage
    <2> HIDE DEF w, t
    <2>3. /\ t \in Segment /\ t.start = s.start + Page /\ t.allocated = 0 /\ t.flushed = 0
          /\ t.size = w.size /\ t.chunks = w.chunks /\ t.buffer = w.buffer
      BY <1>1, <2>1, <2>2 DEF NewPage, Segment
    <2>4. Moved(s, t)
      BY <2>1, <2>3 DEF Moved
    <2>5. SegOK(t)
      BY <1>1, <2>1, <2>3, <2>4 DEF SegOK, Moved
    <2>6. QED
      BY <1>2, <2>3, <2>4, <2>5 DEF t
  <1>3. CASE ~ PageDone(s, reset)
    <2>1. t = WriteOut(s, s.allocated)
      BY <1>3 DEF FlushPage
    <2>2. /\ t \in Segment /\ t.start = s.start /\ t.allocated = s.allocated
          /\ t.flushed = s.allocated /\ t.size = s.start + s.allocated /\ Moved(s, t)
      BY <1>1, <2>1, WrittenOut
    <2> HIDE DEF t
    <2>3. SegOK(t)
      BY <1>1, <2>2 DEF SegOK, Moved
    <2>4. QED
      BY <1>3, <2>2, <2>3 DEF t
  <1>4. QED
    BY <1>2, <1>3

-----------------------------------------------------------------------------
(* The log: an open segment and the files before it. *)

\* The chunks in the files, and with them those in the buffer.
Stored(p) == p.seg.chunks \cup UNION {p.closed[i].chunks : i \in DOMAIN p.closed}
Everything(p) == Stored(p) \cup p.seg.buffer

\* A piece of a record of L that comes after the first n.
Fresh(c, n, L) == c.rec \in n + 1 .. Len(L) /\ c.from + c.len <= L[c.rec]

\* From p to q only records of L after the first n are added to the log; what
\* stays in the buffer stays in its place.
Persists(p, q, n, L) ==
  /\ Stored(p) \subseteq Stored(q)
  /\ \A c \in p.seg.buffer : \E d \in Everything(q) : Same(c, d)
  /\ \A d \in q.seg.buffer :
       \/ d \in p.seg.buffer /\ q.seg.start = p.seg.start /\ Len(q.closed) = Len(p.closed)
       \/ Fresh(d, n, L)
  /\ \A d \in Everything(q) : (\E c \in Everything(p) : Same(c, d)) \/ Fresh(d, n, L)

\* A log persists in itself.
LEMMA PersistsReflexive == \A p, n, L : Persists(p, p, n, L)
  BY DEF Persists, Everything, Same

\* Steps one after the other that leave the log leave it together.
LEMMA PersistsTransitive ==
  ASSUME NEW p, NEW q, NEW o, NEW n, NEW L, Persists(p, q, n, L), Persists(q, o, n, L)
  PROVE  Persists(p, o, n, L)
  <1>1. Stored(p) \subseteq Stored(o)
    BY DEF Persists
  <1>2. ASSUME NEW c \in Everything(p) PROVE \E d \in Everything(q) : Same(c, d)
    BY DEF Persists, Everything, Same
  <1>3. ASSUME NEW c \in Everything(q) PROVE \E d \in Everything(o) : Same(c, d)
    BY DEF Persists, Everything, Same
  <1>4. ASSUME NEW c \in p.seg.buffer PROVE \E d \in Everything(o) : Same(c, d)
    <2>1. PICK e \in Everything(q) : Same(c, e)
      BY <1>2 DEF Everything
    <2>2. PICK d \in Everything(o) : Same(e, d)
      BY <1>3
    <2>3. QED
      BY <2>1, <2>2 DEF Same
  <1>5. ASSUME NEW d \in o.seg.buffer
        PROVE  \/ d \in p.seg.buffer /\ o.seg.start = p.seg.start /\ Len(o.closed) = Len(p.closed)
               \/ Fresh(d, n, L)
    BY DEF Persists
  <1>6. ASSUME NEW d \in Everything(o) PROVE (\E c \in Everything(p) : Same(c, d)) \/ Fresh(d, n, L)
    <2>1. CASE Fresh(d, n, L)
      BY <2>1
    <2>2. CASE ~ Fresh(d, n, L)
      <3>1. PICK e \in Everything(q) : Same(e, d)
        BY <2>2 DEF Persists
      <3>2. ~ Fresh(e, n, L)
        BY <2>2, <3>1 DEF Same, Fresh
      <3>3. PICK c \in Everything(p) : Same(c, e)
        BY <3>2 DEF Persists
      <3>4. QED
        BY <3>1, <3>3 DEF Same
    <2>3. QED
      BY <2>1, <2>2
  <1>7. QED
    BY <1>1, <1>4, <1>5, <1>6 DEF Persists

\* The first m bytes of record r are in the log.
Cover(p, r, m) == \A b \in 0 .. m - 1 : \E c \in Everything(p) : c.rec = r /\ Carries(c, b)

\* What is in the log of a record stays in it.
LEMMA CoverPersists ==
  ASSUME NEW p, NEW q, NEW n, NEW L, Persists(p, q, n, L), NEW r, NEW m, Cover(p, r, m)
  PROVE  Cover(q, r, m)
  <1>1. ASSUME NEW c \in Everything(p) PROVE \E d \in Everything(q) : Same(c, d)
    BY DEF Persists, Everything, Same
  <1>2. ASSUME NEW b \in 0 .. m - 1 PROVE \E d \in Everything(q) : d.rec = r /\ Carries(d, b)
    <2>1. PICK c \in Everything(p) : c.rec = r /\ Carries(c, b)
      BY DEF Cover
    <2>2. PICK d \in Everything(q) : Same(c, d)
      BY <1>1
    <2>3. QED
      BY <2>1, <2>2 DEF Same, Carries
  <1>3. QED
    BY <1>2 DEF Cover

\* A page is written out.
LEMMA PageFlushedPersists ==
  ASSUME NEW p, NEW q, Moved(p.seg, q.seg), q.closed = p.closed, NEW n, NEW L
  PROVE  Persists(p, q, n, L)
  <1>1. /\ Stored(q) = q.seg.chunks \cup UNION {p.closed[i].chunks : i \in DOMAIN p.closed}
        /\ Everything(q) = Stored(q) /\ q.seg.buffer = {}
    BY DEF Stored, Everything, Moved
  <1>2. Stored(p) \subseteq Stored(q)
    BY <1>1 DEF Stored, Moved
  <1>3. \A c \in p.seg.buffer : \E d \in Everything(q) : Same(c, d)
    BY <1>1 DEF Moved
  <1>4. ASSUME NEW d \in Everything(q) PROVE \E c \in Everything(p) : Same(c, d)
    <2>1. d \in q.seg.chunks \/ d \in Everything(p)
      BY <1>1 DEF Stored, Everything
    <2>2. CASE d \in q.seg.chunks
      BY <2>2 DEF Moved, Everything, Stored, Same
    <2>3. QED
      BY <2>1, <2>2 DEF Same
  <1>5. QED
    BY <1>1, <1>2, <1>3, <1>4 DEF Persists

\* A segment whose buffer is empty is left for a new one.
LEMMA SegmentLeft ==
  ASSUME NEW p, NEW q, p.closed \in Seq([size : Nat, chunks : SUBSET Chunk]),
         SegOK(p.seg), p.seg.buffer = {},
         q.closed = Append(p.closed, File(p.seg)), q.seg = NewSegment, NEW n, NEW L
  PROVE  /\ q.closed \in Seq([size : Nat, chunks : SUBSET Chunk])
         /\ Stored(q) = Stored(p)
         /\ Persists(p, q, n, L)
  <1> DEFINE F == [size : Nat, chunks : SUBSET Chunk]
  <1>1. File(p.seg) \in F /\ File(p.seg).chunks = p.seg.chunks
    BY DEF File, SegOK, Segment
  <1> HIDE DEF F
  <1>2. /\ q.closed \in Seq(F)
        /\ DOMAIN p.closed = 1 .. Len(p.closed) /\ Len(p.closed) \in Nat
        /\ DOMAIN q.closed = 1 .. Len(p.closed) + 1
        /\ \A i \in 1 .. Len(p.closed) : q.closed[i] = p.closed[i]
        /\ q.closed[Len(p.closed) + 1] = File(p.seg)
    BY <1>1, AppendProperties, LenProperties DEF F
  <1>3. q.seg.chunks = {} /\ q.seg.buffer = {}
    BY DEF NewSegment
  <1>4. Stored(q) = Stored(p)
    <2>1. ASSUME NEW c \in Stored(q) PROVE c \in Stored(p)
      <3>1. PICK i \in 1 .. Len(p.closed) + 1 : c \in q.closed[i].chunks
        BY <1>2, <1>3 DEF Stored
      <3>2. i = Len(p.closed) + 1 \/ i \in 1 .. Len(p.closed)
        BY <1>2
      <3>3. QED
        BY <1>1, <1>2, <3>1, <3>2 DEF Stored
    <2>2. ASSUME NEW c \in p.seg.chunks PROVE c \in Stored(q)
      <3>1. Len(p.closed) + 1 \in DOMAIN q.closed /\ c \in q.closed[Len(p.closed) + 1].chunks
        BY <1>1, <1>2
      <3>2. QED
        BY <3>1 DEF Stored
    <2>3. ASSUME NEW i \in DOMAIN p.closed, NEW c \in p.closed[i].chunks PROVE c \in Stored(q)
      <3>1. i \in DOMAIN q.closed /\ c \in q.closed[i].chunks
        BY <1>2
      <3>2. QED
        BY <3>1 DEF Stored
    <2>4. QED
      BY <2>1, <2>2, <2>3 DEF Stored
  <1>5. Everything(p) = Stored(p) /\ Everything(q) = Stored(p)
    BY <1>3, <1>4 DEF Everything
  <1>6. Persists(p, q, n, L)
    BY <1>3, <1>4, <1>5 DEF Persists, Same
  <1>7. QED
    BY <1>2, <1>4, <1>6 DEF F

-----------------------------------------------------------------------------
(* A record is appended chunk by chunk. *)

\* A chunk is added behind what is allocated.
LEMMA ChunkPut ==
  ASSUME NEW p, NEW q, NEW c \in Chunk, NEW n, NEW L,
         SegOK(p.seg), c.at = p.seg.allocated, p.seg.allocated + Header + c.len <= Page,
         Fresh(c, n, L), q.closed = p.closed,
         q.seg = [p.seg EXCEPT !.allocated = @ + Header + c.len, !.buffer = @ \cup {c}]
  PROVE  /\ SegOK(q.seg) /\ c \in Everything(q) /\ q.seg.start = p.seg.start
         /\ q.seg.allocated = p.seg.allocated + Header + c.len
         /\ Persists(p, q, n, L)
  <1>1. /\ p.seg \in Segment /\ c.len \in Nat /\ Header \in Nat /\ Page \in Nat
        /\ c.len > 0
    BY WalAssumption DEF SegOK, Chunk
  <1>2. /\ q.seg \in Segment /\ q.seg.start = p.seg.start
        /\ q.seg.allocated = p.seg.allocated + Header + c.len
        /\ q.seg.flushed = p.seg.flushed /\ q.seg.size = p.seg.size
        /\ q.seg.chunks = p.seg.chunks /\ q.seg.buffer = p.seg.buffer \cup {c}
    <2> DEFINE a == p.seg.allocated + Header + c.len
               b == p.seg.buffer \cup {c}
    <2>1. a \in Nat /\ b \in SUBSET Chunk
      BY <1>1 DEF Segment
    <2>2. q.seg = [p.seg EXCEPT !.allocated = a, !.buffer = b]
      BY <1>1 DEF Segment
    <2> HIDE DEF a, b
    <2>3. /\ q.seg \in Segment /\ q.seg.start = p.seg.start /\ q.seg.allocated = a
          /\ q.seg.flushed = p.seg.flushed /\ q.seg.size = p.seg.size
          /\ q.seg.chunks = p.seg.chunks /\ q.seg.buffer = b
      BY <1>1, <2>1, <2>2 DEF Segment
    <2>4. QED
      BY <2>3 DEF a, b
  <1>3. /\ p.seg.allocated \in Nat /\ p.seg.flushed \in Nat
        /\ \A d \in p.seg.buffer : d.at \in Nat /\ d.len \in Nat
    BY <1>1 DEF Segment, Chunk
  <1>4. SegOK(q.seg)
    BY <1>1, <1>2, <1>3 DEF SegOK
  <1>5. Stored(q) = Stored(p) /\ Everything(q) = Everything(p) \cup {c}
    BY <1>2 DEF Stored, Everything
  <1>6. ASSUME NEW d \in Everything(p) PROVE \E e \in Everything(q) : Same(d, e) /\ Same(e, d)
    BY <1>5 DEF Same
  <1>7. \A d \in Everything(q) : (\E e \in Everything(p) : Same(e, d)) \/ Fresh(d, n, L)
    BY <1>5 DEF Same
  <1>8. \A d \in p.seg.buffer : \E e \in Everything(q) : Same(d, e)
    BY <1>6 DEF Everything
  <1>9. Persists(p, q, n, L)
    BY <1>2, <1>5, <1>7, <1>8 DEF Persists
  <1>10. QED
    BY <1>2, <1>4, <1>5, <1>9

\* The page of the open segment starts j pages before its capacity ends. What a record may put behind the end does not fill a page.
PagesLeft(s, j) ==
  /\ j \in Nat /\ s.start + j * Page = Capacity
  /\ j = 0 => s.allocated <= 2 * Header
InSegment(s) == WholePages => \E j \in Nat : PagesLeft(s, j)

\* In so many pages there is room for what is left of a record, although the
\* capacity test leaves out the header of the first chunk.
Room(left, allocated, j) ==
  \/ left = 0
  \/ /\ j # 0
     /\ \/ left <= (Page - allocated) + (Page - Header) * (j - 1)
        \/ left <= Header + (Page - Header) * (j - 1)

\* What append finds in a page, after it has taken a new one if it had to.
LEMMA RoomOnPage ==
  ASSUME NEW left \in Nat \ {0}, NEW s, SegOK(s), NEW j, PagesLeft(s, j), Room(left, s.allocated, j),
         NEW t, IF Page - s.allocated <= Header
                THEN t.start = s.start + Page /\ t.allocated = 0
                ELSE t.start = s.start /\ t.allocated = s.allocated
  PROVE  \E k \in Nat : /\ PagesLeft(t, k)
                        /\ Page - t.allocated > Header
                        /\ k = 0 => t.allocated = 0 /\ left <= Header
                        /\ left > Page - t.allocated - Header
                             => Room(left - (Page - t.allocated - Header), Page, k)
  <1>1. /\ Page \in Nat /\ Header \in Nat /\ Header > 0 /\ Page > 4 * Header /\ j \in Nat
        /\ s.allocated \in Nat /\ s.start \in Nat /\ s.start + j * Page = Capacity /\ j # 0
    BY WalAssumption DEF SegOK, Segment, PagesLeft, Room
  <1>0. Capacity \in Nat
    BY WalAssumption
  <1> DEFINE x == (Page - Header) * (j - 1)
  <1>2. x \in Int
    BY <1>1
  <1>3. left <= (Page - s.allocated) + x \/ left <= Header + x
    BY <1>1 DEF Room
  <1>4. CASE Page - s.allocated > Header
    <2>1. t.start = s.start /\ t.allocated = s.allocated
      BY <1>1, <1>4
    <2> HIDE DEF x
    <2>2. left - (Page - t.allocated - Header) <= Header + x
      BY <1>1, <1>2, <1>3, <1>4, <2>1
    <2>3. Room(left - (Page - t.allocated - Header), Page, j)
      BY <1>1, <2>2 DEF Room, x
    <2>4. QED
      BY <1>1, <1>4, <2>1, <2>3 DEF PagesLeft
  <1>5. CASE Page - s.allocated <= Header
    <2>1. t.start = s.start + Page /\ t.allocated = 0
      BY <1>5
    <2>2. j - 1 \in Nat /\ (j - 1) * Page = j * Page - Page
      BY <1>1
    <2>3. PagesLeft(t, j - 1) /\ Page - t.allocated > Header
      <3> DEFINE y == j * Page
                 z == (j - 1) * Page
      <3>1. y \in Int /\ z = y - Page /\ s.start + y = Capacity
        BY <1>1, <2>2
      <3> HIDE DEF y, z
      <3>2. t.start + z = Capacity
        BY <1>1, <2>1, <3>1
      <3>3. QED
        BY <1>1, <2>1, <2>2, <3>2 DEF PagesLeft, z
    <2>4. j - 1 = 0 => left <= Header
      <3>1. j = 1 => x = 0
        BY <1>1
      <3> HIDE DEF x
      <3>2. QED
        BY <1>1, <1>2, <1>3, <1>5, <3>1
    <2>5. ASSUME left > Page - t.allocated - Header
          PROVE  Room(left - (Page - t.allocated - Header), Page, j - 1)
      <3> DEFINE y == (Page - Header) * ((j - 1) - 1)
      <3>1. y = x - (Page - Header) /\ (j = 1 => x = 0)
        BY <1>1
      <3> HIDE DEF x, y
      <3>2. left <= Header + x
        BY <1>1, <1>2, <1>3, <1>5
      <3>3. j # 1
        BY <1>1, <2>1, <2>5, <3>1, <3>2
      <3>4. left - (Page - t.allocated - Header) <= Header + y
        BY <1>1, <1>2, <2>1, <3>1, <3>2
      <3>5. QED
        BY <1>1, <3>3, <3>4 DEF Room, y
    <2>6. QED
      BY <2>1, <2>2, <2>3, <2>4, <2>5
  <1>6. QED
    BY <1>1, <1>4, <1>5

\* The capacity test finds the room.
LEMMA CapacityIsRoom ==
  ASSUME WholePages, NEW s, SegOK(s), InSegment(s), NEW n \in Nat, SufficientCapacity(s, n)
  PROVE  \E j \in Nat : PagesLeft(s, j) /\ Room(n, s.allocated, j)
  <1>1. PICK j \in Nat : s.start + j * Page = Capacity /\ PagesLeft(s, j)
    BY DEF InSegment, PagesLeft
  <1>2. Page \in Nat \ {0} /\ Header \in Nat /\ s.start \in Nat /\ s.allocated \in Nat /\ Capacity \in Nat
    BY WalAssumption DEF SegOK, Segment
  <1>3. j # 0
    BY <1>1, <1>2 DEF SufficientCapacity
  <1>4. (Capacity - s.start) \div Page = j
    <2>1. Capacity - s.start = j * Page
      BY <1>1, <1>2
    <2>2. (j * Page) \div Page = j
      BY <1>2
    <2>3. QED
      BY <2>1, <2>2
  <1>5. Page - s.allocated + (Page - Header) * (j - 1) >= n
    BY <1>2, <1>3, <1>4 DEF SufficientCapacity
  <1>6. QED
    BY <1>1, <1>2, <1>3, <1>5 DEF Room

\* The minimum of two numbers.
LEMMA LesserOfTwo ==
  ASSUME NEW a \in Nat, NEW b \in Nat
  PROVE  SetMin({a, b}) = IF a <= b THEN a ELSE b
  <1>1. \E m \in {a, b} : \A n \in {a, b} : m <= n
    BY a <= b \/ b <= a
  <1>2. SetMin({a, b}) \in {a, b} /\ \A n \in {a, b} : SetMin({a, b}) <= n
    BY <1>1 DEF SetMin
  <1>3. QED
    BY <1>2

\* The log p with another open segment.
With(p, s) == [seg |-> s, closed |-> p.closed]

\* The states of the loop that appends record r, of m bytes, to the log p.
TurnSet(p, r, m, n, L) ==
  {v \in [seg : Segment, left : Nat, from : Nat, type : Types] :
     /\ SegOK(v.seg) /\ v.left + v.from = m
     /\ Persists(p, With(p, v.seg), n, L) /\ Cover(With(p, v.seg), r, v.from)
     /\ WholePages => \E j \in Nat : PagesLeft(v.seg, j) /\ Room(v.left, v.seg.allocated, j)}

\* A turn cuts off a piece.
LEMMA TurnTaken ==
  ASSUME NEW p, NEW n \in Nat, NEW L, NEW r \in n + 1 .. Len(L), NEW m \in Nat, m = L[r],
         NEW v \in TurnSet(p, r, m, n, L), v.left # 0
  PROVE  AppendChunk(v, r) \in TurnSet(p, r, m, n, L) /\ AppendChunk(v, r).left < v.left
  <1> DEFINE s == v.seg
             full == Page - s.allocated <= Header
             t == IF full THEN FlushPage(s, TRUE) ELSE s
             space == Page - t.allocated - Header
             k == SetMin({v.left, space})
             c == [at |-> t.allocated, type |-> ChunkType(v.type, k = v.left), rec |-> r,
                   from |-> v.from, len |-> k]
             u == [t EXCEPT !.allocated = @ + Header + k, !.buffer = @ \cup {c}]
             w == [seg |-> u, left |-> v.left - k, from |-> v.from + k,
                   type |-> ChunkType(v.type, k = v.left)]
  <1>1. AppendChunk(v, r) = w
    BY DEF AppendChunk
  <1>2. /\ SegOK(s) /\ v.left \in Nat \ {0} /\ v.from \in Nat /\ v.left + v.from = m
        /\ Persists(p, With(p, s), n, L) /\ Cover(With(p, s), r, v.from)
    BY DEF TurnSet
  <1>4. Page \in Nat /\ Header \in Nat \ {0} /\ s.allocated \in Nat
    BY <1>2, WalAssumption DEF SegOK, Segment
  <1>5. /\ SegOK(t) /\ Persists(With(p, s), With(p, t), n, L)
        /\ IF full THEN t.start = s.start + Page /\ t.allocated = 0
                   ELSE t.start = s.start /\ t.allocated = s.allocated
    <2>1. CASE full
      <3>1. t = FlushPage(s, TRUE) /\ PageDone(s, TRUE)
        BY <2>1 DEF PageDone
      <3>2. SegOK(t) /\ Moved(s, t) /\ t.start = s.start + Page /\ t.allocated = 0
        BY <1>2, <3>1, PageFlushed
      <3> HIDE DEF t
      <3>3. Persists(With(p, s), With(p, t), n, L)
        BY <3>2, PageFlushedPersists DEF With
      <3>4. QED
        BY <2>1, <3>2, <3>3
    <2>2. CASE ~ full
      BY <1>2, <2>2, PersistsReflexive
    <2>3. QED
      BY <2>1, <2>2
  <1> HIDE DEF t
  <1>3. ASSUME WholePages
        PROVE  \E i \in Nat : /\ PagesLeft(t, i)
                              /\ i = 0 => t.allocated = 0 /\ v.left <= Header
                              /\ v.left > space => Room(v.left - space, Page, i)
    <2>1. PICK j \in Nat : PagesLeft(s, j) /\ Room(v.left, s.allocated, j)
      BY <1>3 DEF TurnSet
    <2>2. QED
      BY <1>2, <1>5, <2>1, RoomOnPage
  <1>6. Page - t.allocated > Header
    BY <1>4, <1>5, WalAssumption
  <1>7. /\ t \in Segment /\ t.allocated \in Nat /\ space \in Nat \ {0} /\ t.allocated + Header + space = Page
        /\ space <= Page - Header
    <2>1. t \in Segment
      BY <1>5 DEF SegOK
    <2>2. t.allocated \in Nat
      BY <2>1 DEF Segment
    <2>3. Page - t.allocated > Header
      BY <1>6
    <2>4. QED
      BY <1>4, <2>1, <2>2, <2>3
  <1> HIDE DEF space
  <1>8. k = IF v.left <= space THEN v.left ELSE space
    BY <1>2, <1>7, LesserOfTwo
  <1> HIDE DEF k
  <1>9. k \in 1 .. (Page - Header) /\ k <= v.left /\ k <= space
    BY <1>2, <1>4, <1>7, <1>8
  <1>10. ChunkType(v.type, k = v.left) \in Types
    BY DEF ChunkType, Types
  <1>11. c \in Chunk /\ c.at = t.allocated /\ c.len = k /\ Fresh(c, n, L)
    <2>1. r \in Nat
      OBVIOUS
    <2>2. v.from + k <= m
      BY <1>2, <1>4, <1>9
    <2>3. QED
      BY <1>2, <1>7, <1>9, <1>10, <2>1, <2>2 DEF Chunk, Fresh
  <1>12. t.allocated + Header + c.len <= Page
    BY <1>4, <1>7, <1>9, <1>11
  <1>13. c.rec = r /\ c.from = v.from
    OBVIOUS
  <1> HIDE DEF c
  <1>14. u = [t EXCEPT !.allocated = @ + Header + c.len, !.buffer = @ \cup {c}]
    <2>1. k = c.len
      BY <1>11
    <2>2. QED
      BY <2>1
  <1> HIDE DEF u
  <1>15. /\ SegOK(u) /\ c \in Everything(With(p, u)) /\ u.start = t.start
         /\ u.allocated = t.allocated + Header + k
         /\ Persists(With(p, t), With(p, u), n, L)
    <2>1. With(p, t).seg = t /\ With(p, u).seg = u /\ With(p, t).closed = With(p, u).closed
      BY DEF With
    <2> DEFINE before == With(p, t)
               after == With(p, u)
    <2> HIDE DEF before, after
    <2>2. /\ SegOK(after.seg) /\ c \in Everything(after) /\ after.seg.start = before.seg.start
          /\ after.seg.allocated = before.seg.allocated + Header + c.len
          /\ Persists(before, after, n, L)
      BY <1>5, <1>11, <1>12, <1>14, <2>1, ChunkPut DEF before, after
    <2>3. QED
      BY <1>11, <2>1, <2>2 DEF before, after
  <1>16. Persists(With(p, s), With(p, u), n, L)
    BY <1>5, <1>15, PersistsTransitive
  <1>17. Persists(p, With(p, u), n, L)
    BY <1>2, <1>16, PersistsTransitive
  <1>18. Cover(With(p, u), r, v.from + k)
    <2>1. Cover(With(p, u), r, v.from)
      BY <1>2, <1>16, CoverPersists
    <2>2. ASSUME NEW b \in 0 .. (v.from + k) - 1
          PROVE  \E d \in Everything(With(p, u)) : d.rec = r /\ Carries(d, b)
      <3>1. CASE b < v.from
        <4>1. b \in 0 .. v.from - 1
          BY <1>2, <3>1
        <4>2. QED
          BY <2>1, <4>1 DEF Cover
      <3>2. CASE ~ (b < v.from)
        <4>1. Carries(c, b)
          BY <1>2, <1>9, <1>11, <1>13, <3>2 DEF Carries
        <4>2. QED
          BY <1>13, <1>15, <4>1
      <3>3. QED
        BY <3>1, <3>2
    <2>3. QED
      BY <2>2 DEF Cover
  <1>19. ASSUME WholePages PROVE \E i \in Nat : PagesLeft(u, i) /\ Room(v.left - k, u.allocated, i)
    <2>0. PICK i \in Nat : /\ PagesLeft(t, i)
                           /\ i = 0 => t.allocated = 0 /\ v.left <= Header
                           /\ v.left > space => Room(v.left - space, Page, i)
      BY <1>3, <1>19
    <2>1. PagesLeft(u, i)
      <3>1. i = 0 => u.allocated <= 2 * Header
        <4>1. SUFFICES ASSUME i = 0 PROVE u.allocated <= 2 * Header
          OBVIOUS
        <4>2. t.allocated = 0 /\ v.left <= Header
          BY <2>0, <4>1
        <4>3. u.allocated = 0 + Header + k /\ k <= v.left /\ k \in Nat /\ v.left \in Nat /\ Header \in Nat
          BY <1>2, <1>4, <1>9, <1>15, <4>2
        <4>4. QED
          BY <4>2, <4>3
      <3>2. QED
        BY <1>15, <2>0, <3>1 DEF PagesLeft
    <2>2. CASE v.left <= space
      <3>1. v.left - k = 0
        BY <1>2, <1>8, <2>2
      <3>2. QED
        BY <2>1, <3>1 DEF Room
    <2>3. CASE ~ (v.left <= space)
      <3>1. k = space /\ v.left > space
        BY <1>2, <1>7, <1>8, <2>3
      <3>2. u.allocated = Page
        BY <1>7, <1>15, <3>1
      <3>3. QED
        BY <2>0, <2>1, <3>1, <3>2
    <2>4. QED
      BY <2>1, <2>2, <2>3
  <1>20. v.left - k \in Nat /\ v.from + k \in Nat /\ (v.left - k) + (v.from + k) = m /\ v.left - k < v.left
    BY <1>2, <1>4, <1>9
  <1>21. w \in [seg : Segment, left : Nat, from : Nat, type : Types]
    BY <1>10, <1>15, <1>20 DEF SegOK
  <1>22. w \in TurnSet(p, r, m, n, L)
    BY <1>15, <1>17, <1>18, <1>19, <1>20, <1>21 DEF TurnSet
  <1>23. QED
    BY <1>1, <1>20, <1>22

\* A record that passes the capacity test is appended as a whole, and the
\* segment still ends within a capacity of whole pages.
LEMMA RecordAppended ==
  ASSUME NEW p, SegOK(p.seg), InSegment(p.seg), NEW n \in Nat, NEW L,
         NEW r \in n + 1 .. Len(L), NEW m \in Nat \ {0}, m = L[r], SufficientCapacity(p.seg, m)
  PROVE  LET s == SegmentAppend(p.seg, r, m)
         IN  SegOK(s) /\ InSegment(s) /\ Persists(p, With(p, s), n, L) /\ Cover(With(p, s), r, m)
  <1> DEFINE V == TurnSet(p, r, m, n, L)
             v0 == [seg |-> p.seg, left |-> m, from |-> 0, type |-> "none"]
             Loop(f) == f = [i \in 0 .. m |-> IF i = 0 THEN v0 ELSE AppendChunk(f[i - 1], r)]
             turn == CHOOSE f : Loop(f)
             step == [x \in (1 .. m) \X V |-> AppendChunk(x[2], r)]
  <1>1. SegmentAppend(p.seg, r, m) = turn[m].seg
    BY DEF SegmentAppend
  <1>2. v0 \in V
    <2>1. WholePages => \E j \in Nat : PagesLeft(p.seg, j) /\ Room(m, p.seg.allocated, j)
      BY CapacityIsRoom
    <2>2. Persists(p, With(p, p.seg), n, L)
      BY DEF Persists, With, Stored, Everything, Same
    <2>3. Cover(With(p, p.seg), r, 0)
      BY DEF Cover
    <2>4. v0 \in [seg : Segment, left : Nat, from : Nat, type : Types]
      BY DEF SegOK, Types
    <2>5. QED
      BY <2>1, <2>2, <2>3, <2>4 DEF TurnSet
  <1>3. ASSUME NEW v \in V
        PROVE  /\ v.left \in Nat /\ v.left + v.from = m /\ v.from \in Nat
               /\ AppendChunk(v, r) \in V
               /\ IF v.left = 0 THEN AppendChunk(v, r) = v ELSE AppendChunk(v, r).left < v.left
    <2>1. v.left \in Nat /\ v.from \in Nat /\ v.left + v.from = m
      BY DEF TurnSet
    <2>2. CASE v.left = 0
      BY <2>1, <2>2 DEF AppendChunk
    <2>3. CASE v.left # 0
      BY <2>1, <2>3, TurnTaken
    <2>4. QED
      BY <2>2, <2>3
  <1> HIDE DEF V, v0
  <1>4. step \in [(1 .. m) \X V -> V]
    BY <1>3
  <1>5. PICK f : f \in Runs(m, V, v0, step)
    <2> HIDE DEF step
    <2>1. Runs(m, V, v0, step) # {}
      BY m \in Nat, <1>2, <1>4, LoopRuns
    <2>2. QED
      BY <2>1
  <1>6. Loop(f)
    <2>1. f \in [0 .. m -> V] /\ f[0] = v0 /\ \A i \in 1 .. m : f[i] = step[<<i, f[i - 1]>>]
      BY <1>5 DEF Runs
    <2>2. ASSUME NEW i \in 1 .. m PROVE f[i] = AppendChunk(f[i - 1], r)
      <3>1. i - 1 \in 0 .. m
        OBVIOUS
      <3>2. f[i - 1] \in V
        BY <2>1, <3>1
      <3>3. step[<<i, f[i - 1]>>] = AppendChunk(f[i - 1], r)
        BY <3>2
      <3>4. QED
        BY <2>1, <3>3
    <2>3. QED
      BY <2>1, <2>2
  <1>7. Loop(turn)
    BY <1>6
  <1> HIDE DEF turn, step
  <1>8. turn[0] = v0 /\ \A i \in 1 .. m : turn[i] = AppendChunk(turn[i - 1], r)
    BY <1>7
  <1> DEFINE G == {i \in 0 .. m : turn[i] \in V /\ turn[i].left <= m - i}
  <1>9. 0 \in G
    <2>1. v0.left = m
      BY DEF v0
    <2>2. QED
      BY <1>2, <1>8, <2>1
  <1>10. ASSUME NEW i \in 1 .. m, i - 1 \in G PROVE i \in G
    <2> DEFINE v == turn[i - 1]
    <2>1. v \in V /\ v.left <= m - (i - 1) /\ turn[i] = AppendChunk(v, r)
      BY <1>8, <1>10
    <2> HIDE DEF v
    <2>2. turn[i] \in V /\ turn[i].left \in Nat /\ v.left \in Nat
      BY <1>3, <2>1
    <2>3. turn[i].left <= m - i
      <3>1. CASE v.left = 0
        BY <1>3, <2>1, <3>1
      <3>2. CASE v.left # 0
        BY <1>3, <2>1, <2>2, <3>2
      <3>3. QED
        BY <3>1, <3>2
    <2>4. QED
      BY <2>2, <2>3
  <1> HIDE DEF G
  <1>11. m \in G
    <2>1. 0 .. m \subseteq G
      BY m \in Nat, <1>9, <1>10, EveryTurn
    <2>2. QED
      BY <2>1
  <1>12. turn[m] \in V /\ turn[m].left <= m - m
    BY <1>11 DEF G
  <1>13. turn[m].left = 0 /\ turn[m].from = m
    BY <1>3, <1>12
  <1> DEFINE s == turn[m].seg
  <1>14. SegOK(s) /\ Persists(p, With(p, s), n, L) /\ Cover(With(p, s), r, m) /\ InSegment(s)
    BY <1>12, <1>13 DEF V, TurnSet, InSegment
  <1>15. QED
    BY <1>1, <1>14

-----------------------------------------------------------------------------
(* Records are appended one after the other, in one segment or more. *)

LogFiles == Seq([size : Nat, chunks : SUBSET Chunk])

\* The log that append_all works on.
Work == [seg : Segment, closed : LogFiles, dropped : SUBSET Nat, failed : BOOLEAN]
WorkOK(w) ==
  /\ w \in Work
  /\ SegOK(w.seg) /\ InSegment(w.seg)

\* Only the segment and the files make the log.
LEMMA SameLog ==
  ASSUME NEW p, NEW q, NEW o, o.seg = q.seg, o.closed = q.closed, NEW n, NEW L
  PROVE  /\ Persists(p, q, n, L) => Persists(p, o, n, L)
         /\ \A r, m : Cover(q, r, m) => Cover(o, r, m)
  <1>1. Stored(o) = Stored(q) /\ Everything(o) = Everything(q)
    BY DEF Stored, Everything
  <1>2. QED
    BY <1>1 DEF Persists, Cover

\* A new segment is well formed and has its pages before it.
LEMMA NewSegmentOK == SegOK(NewSegment) /\ InSegment(NewSegment) /\ NewSegment.buffer = {}
  <1>1. Page \in Nat /\ Capacity \in Nat \ {0} /\ Header \in Nat
    BY WalAssumption
  <1>2. SegOK(NewSegment) /\ NewSegment.start = 0
    BY <1>1 DEF NewSegment, SegOK, Segment
  <1>3. ASSUME WholePages PROVE \E k \in Nat : PagesLeft(NewSegment, k)
    <2>1. PICK k \in 1 .. Capacity : Capacity = k * Page
      BY <1>3 DEF WholePages
    <2>2. k \in Nat /\ k # 0 /\ 0 + k * Page = Capacity
      BY <1>1, <2>1
    <2>3. QED
      BY <1>2, <2>2 DEF PagesLeft
  <1>4. QED
    BY <1>1, <1>2, <1>3 DEF InSegment, NewSegment

\* A segment without unwritten bytes has nothing in its buffer.
LEMMA NothingBuffered ==
  ASSUME NEW s, SegOK(s), s.allocated = s.flushed PROVE s.buffer = {}
  <1>1. SUFFICES ASSUME NEW c \in s.buffer PROVE FALSE
    OBVIOUS
  <1>2. c \in Chunk /\ Header \in Nat /\ s.flushed \in Nat
    BY WalAssumption DEF SegOK, Segment
  <1>3. c.at \in Nat /\ c.len \in 1 .. (Page - Header)
    BY <1>2 DEF Chunk
  <1>4. s.flushed <= c.at /\ c.at + Header + c.len <= s.flushed
    BY DEF SegOK
  <1>5. QED
    BY <1>2, <1>3, <1>4

\* Changing segments loses nothing.
LEMMA SegmentSwitched ==
  ASSUME NEW w, WorkOK(w), NEW n, NEW L
  PROVE  LET v == NextSegment(w)
         IN  /\ WorkOK(v) /\ v.seg = NewSegment /\ v.dropped = w.dropped /\ v.failed = w.failed
             /\ Persists(w, v, n, L)
  <1> DEFINE s == IF w.seg.allocated # w.seg.flushed THEN FlushPage(w.seg, TRUE) ELSE w.seg
             mid == With(w, s)
             v == NextSegment(w)
  <1>1. SegOK(s) /\ s.buffer = {} /\ Persists(w, mid, n, L)
    <2>1. CASE w.seg.allocated # w.seg.flushed
      <3>1. SegOK(s) /\ Moved(w.seg, s)
        BY <2>1, PageFlushed DEF WorkOK
      <3> HIDE DEF s
      <3>2. Persists(w, mid, n, L)
        BY <3>1, PageFlushedPersists DEF With
      <3>3. QED
        BY <3>1, <3>2 DEF Moved
    <2>2. CASE w.seg.allocated = w.seg.flushed
      <3>1. s = w.seg /\ SegOK(s) /\ s.buffer = {}
        BY <2>2, NothingBuffered DEF WorkOK
      <3> HIDE DEF s
      <3>2. Persists(w, mid, n, L)
        BY <3>1, SameLog, PersistsReflexive DEF With
      <3>3. QED
        BY <3>1, <3>2
    <2>3. QED
      BY <2>1, <2>2
  <1>2. v = [w EXCEPT !.closed = Append(w.closed, File(s)), !.seg = NewSegment]
    BY DEF NextSegment, WorkOK, Work
  <1> HIDE DEF s, v
  <1>3. /\ v.seg = NewSegment /\ v.closed = Append(w.closed, File(s)) /\ v.dropped = w.dropped
        /\ v.failed = w.failed
        /\ v = [seg |-> v.seg, closed |-> v.closed, dropped |-> v.dropped, failed |-> v.failed]
    BY <1>2 DEF WorkOK, Work
  <1>4. mid.seg = s /\ mid.closed = w.closed /\ w.closed \in LogFiles
    BY DEF With, WorkOK, Work
  <1> HIDE DEF mid
  <1>5. v.closed \in LogFiles /\ Persists(mid, v, n, L)
    BY <1>1, <1>3, <1>4, SegmentLeft DEF LogFiles
  <1>6. Persists(w, v, n, L)
    BY <1>1, <1>5, PersistsTransitive
  <1>7. WorkOK(v)
    BY <1>3, <1>5, NewSegmentOK DEF WorkOK, Work, SegOK
  <1>8. QED
    BY <1>3, <1>6, <1>7 DEF v

\* A segment starts within a capacity of whole pages.
LEMMA InCapacity ==
  ASSUME WholePages, NEW s, SegOK(s), InSegment(s) PROVE s.start <= Capacity
  <1>1. PICK j \in Nat : s.start + j * Page = Capacity
    BY DEF InSegment, PagesLeft
  <1>2. Page \in Nat /\ s.start \in Nat /\ Capacity \in Nat
    BY WalAssumption DEF SegOK, Segment
  <1> DEFINE x == j * Page
  <1>3. x \in Nat /\ s.start + x = Capacity
    BY <1>1, <1>2
  <1> HIDE DEF x
  <1>4. QED
    BY <1>2, <1>3

\* A record is appended as a whole, or dropped, or the call has panicked.
LEMMA OneAppended ==
  ASSUME NEW w, WorkOK(w), NEW n \in Nat, NEW L, NEW r \in n + 1 .. Len(L),
         NEW m \in Nat \ {0}, m = L[r]
  PROVE  LET x == AppendOne(w, r, m)
         IN  /\ WorkOK(x) /\ Persists(w, x, n, L)
             /\ w.dropped \subseteq x.dropped /\ x.dropped \subseteq w.dropped \cup {r}
             /\ x.failed \/ r \in x.dropped \/ Cover(x, r, m)
             /\ w.failed => x.failed
             /\ WholePages => x.failed = w.failed
             /\ SufficientCapacity(NewSegment, m) => x.dropped = w.dropped
  <1> DEFINE v == IF SufficientCapacity(w.seg, m) THEN w ELSE NextSegment(w)
             x == AppendOne(w, r, m)
             fails == w.failed \/ w.seg.start > Capacity
  <1>1. WorkOK(v) /\ v.dropped = w.dropped /\ v.failed = w.failed /\ Persists(w, v, n, L)
    BY SegmentSwitched, PersistsReflexive
  <1>2. x = IF fails THEN [w EXCEPT !.failed = TRUE]
            ELSE IF SufficientCapacity(v.seg, m)
            THEN [v EXCEPT !.seg = SegmentAppend(@, r, m)]
            ELSE [v EXCEPT !.dropped = @ \cup {r}]
    BY DEF AppendOne
  <1>0. ~ fails => ~ w.failed
    OBVIOUS
  <1>7. WholePages => (fails => w.failed)
    <2>1. ASSUME WholePages PROVE ~ (w.seg.start > Capacity)
      <3>1. w.seg.start <= Capacity
        BY <2>1, InCapacity DEF WorkOK
      <3>2. w.seg.start \in Nat /\ Capacity \in Nat
        BY WalAssumption DEF WorkOK, SegOK, Segment
      <3>3. QED
        BY <3>1, <3>2
    <2>2. QED
      BY <2>1 DEF fails
  <1>8. SufficientCapacity(NewSegment, m) => SufficientCapacity(v.seg, m)
    BY SegmentSwitched
  <1> HIDE DEF v, x, fails
  <1>5. CASE fails
    <2>1. /\ x.seg = w.seg /\ x.closed = w.closed /\ x.dropped = w.dropped /\ x.failed
          /\ x = [seg |-> x.seg, closed |-> x.closed, dropped |-> x.dropped, failed |-> TRUE]
      BY <1>2, <1>5 DEF WorkOK, Work
    <2>2. WorkOK(x)
      BY <2>1 DEF WorkOK, Work
    <2>3. Persists(w, x, n, L)
      BY <2>1, SameLog, PersistsReflexive
    <2>4. QED
      BY <1>5, <1>7, <2>1, <2>2, <2>3 DEF x, WorkOK, Work
  <1>3. CASE ~ fails /\ SufficientCapacity(v.seg, m)
    <2> DEFINE s == SegmentAppend(v.seg, r, m)
    <2>1. SegOK(s) /\ InSegment(s) /\ Persists(v, With(v, s), n, L) /\ Cover(With(v, s), r, m)
      BY <1>1, <1>3, RecordAppended DEF WorkOK, Work
    <2>2. x = [v EXCEPT !.seg = s]
      BY <1>2, <1>3
    <2> HIDE DEF s
    <2>3. /\ x.seg = s /\ x.closed = v.closed /\ x.dropped = v.dropped
          /\ x.failed = v.failed
          /\ x = [seg |-> x.seg, closed |-> x.closed, dropped |-> x.dropped, failed |-> x.failed]
      BY <1>1, <2>2 DEF WorkOK, Work
    <2>4. WorkOK(x)
      BY <1>1, <2>1, <2>3 DEF WorkOK, Work, SegOK
    <2>5. Persists(v, x, n, L) /\ Cover(x, r, m)
      <3>1. With(v, s).seg = s /\ With(v, s).closed = v.closed
        BY DEF With
      <3>2. QED
        BY <2>1, <2>3, <3>1, SameLog
    <2>6. Persists(w, x, n, L)
      BY <1>1, <2>5, PersistsTransitive
    <2>7. QED
      BY <1>0, <1>1, <1>3, <2>3, <2>4, <2>5, <2>6 DEF x
  <1>4. CASE ~ fails /\ ~ SufficientCapacity(v.seg, m)
    <2>1. /\ x.seg = v.seg /\ x.closed = v.closed /\ x.dropped = v.dropped \cup {r}
          /\ x.failed = v.failed
          /\ x = [seg |-> x.seg, closed |-> x.closed, dropped |-> x.dropped, failed |-> x.failed]
      BY <1>1, <1>2, <1>4 DEF WorkOK, Work
    <2>2. WorkOK(x)
      BY <1>1, <2>1 DEF WorkOK, Work
    <2>3. Persists(w, x, n, L)
      BY <1>1, <2>1, SameLog
    <2>4. QED
      BY <1>0, <1>1, <1>4, <1>8, <2>1, <2>2, <2>3 DEF x
  <1>6. QED
    BY <1>3, <1>4, <1>5

\* The log as it is.
Log == [seg |-> seg, closed |-> closed, dropped |-> dropped, failed |-> poisoned]

\* A batch follows the records that have been appended before.
LEMMA BatchRecords ==
  ASSUME NEW old \in Seq(Nat \ {0}), NEW batch \in Seq(Nat \ {0})
  PROVE  /\ Len(old) \in Nat /\ Len(batch) \in Nat
         /\ old \o batch \in Seq(Nat \ {0}) /\ Len(old \o batch) = Len(old) + Len(batch)
         /\ \A r \in 1 .. Len(old) : (old \o batch)[r] = old[r]
         /\ \A i \in 1 .. Len(batch) : /\ batch[i] \in Nat \ {0}
                                       /\ Len(old) + i \in Len(old) + 1 .. Len(old \o batch)
                                       /\ (old \o batch)[Len(old) + i] = batch[i]
  <1>1. Len(old) \in Nat /\ Len(batch) \in Nat
    BY LenProperties
  <1>2. /\ old \o batch \in Seq(Nat \ {0}) /\ Len(old \o batch) = Len(old) + Len(batch)
        /\ \A i \in 1 .. Len(old) + Len(batch) :
             (old \o batch)[i] = IF i <= Len(old) THEN old[i] ELSE batch[i - Len(old)]
    BY ConcatProperties
  <1>3. ASSUME NEW i \in 1 .. Len(batch)
        PROVE  /\ batch[i] \in Nat \ {0}
               /\ Len(old) + i \in Len(old) + 1 .. Len(old) + Len(batch)
               /\ (old \o batch)[Len(old) + i] = batch[i]
    <2>1. batch[i] \in Nat \ {0}
      BY ElementOfSeq
    <2>2. /\ Len(old) + i \in Len(old) + 1 .. Len(old) + Len(batch)
          /\ Len(old) + i \in 1 .. Len(old) + Len(batch)
          /\ ~ (Len(old) + i <= Len(old)) /\ (Len(old) + i) - Len(old) = i
      BY <1>1
    <2>3. QED
      BY <1>2, <2>1, <2>2
  <1>4. \A r \in 1 .. Len(old) : (old \o batch)[r] = old[r]
    BY <1>1, <1>2
  <1>5. QED
    BY <1>1, <1>2, <1>3, <1>4

\* A segment can hold each record.
Fit(batch) == \A i \in 1 .. Len(batch) : SufficientCapacity(NewSegment, batch[i])

\* Each record of a batch is appended as a whole, or dropped, unless the call
\* panics.
LEMMA BatchAppended ==
  ASSUME WorkOK(Log), lens \in Seq(Nat \ {0}), NEW batch \in Seq(Nat \ {0})
  PROVE  LET w == AppendBatch(batch)
             L == lens \o batch
         IN  /\ WorkOK(w) /\ Persists(Log, w, Len(lens), L)
             /\ dropped \subseteq w.dropped /\ w.dropped \subseteq dropped \cup (Len(lens) + 1 .. Len(L))
             /\ \A r \in Len(lens) + 1 .. Len(L) : w.failed \/ r \in w.dropped \/ Cover(w, r, L[r])
             /\ WholePages => w.failed = poisoned
             /\ Fit(batch) => w.dropped = dropped
  <1> DEFINE n == Len(lens)
             L == lens \o batch
             m == Len(batch)
             V == {w \in Work :
                     /\ WorkOK(w) /\ Persists(Log, w, n, L)
                     /\ dropped \subseteq w.dropped /\ w.dropped \subseteq dropped \cup (n + 1 .. Len(L))
                     /\ WholePages => w.failed = poisoned
                     /\ Fit(batch) => w.dropped = dropped}
             Loop(f) == f = [i \in 0 .. m |-> IF i = 0 THEN Log
                                              ELSE AppendOne(f[i - 1], n + i, batch[i])]
             after == CHOOSE f : Loop(f)
             step == [x \in (1 .. m) \X V |-> AppendOne(x[2], n + x[1], batch[x[1]])]
  <1>1. AppendBatch(batch) = after[m]
    BY DEF AppendBatch, Log
  <1>2. n \in Nat /\ m \in Nat /\ Len(L) = n + m
    BY BatchRecords
  <1>3. ASSUME NEW i \in 1 .. m
        PROVE  batch[i] \in Nat \ {0} /\ n + i \in n + 1 .. Len(L) /\ L[n + i] = batch[i]
    BY BatchRecords
  <1> HIDE DEF n, L, m
  <1>4. Log \in V
    BY PersistsReflexive DEF WorkOK, Work, Log
  <1>5. ASSUME NEW i \in 1 .. m, NEW w \in V
        PROVE  LET x == AppendOne(w, n + i, batch[i])
               IN  /\ x \in V /\ Persists(w, x, n, L) /\ w.dropped \subseteq x.dropped
                   /\ x.failed \/ n + i \in x.dropped \/ Cover(x, n + i, batch[i])
                   /\ w.failed => x.failed
                   /\ WholePages => x.failed = w.failed
                   /\ Fit(batch) => x.dropped = w.dropped
    <2> DEFINE r == n + i
               x == AppendOne(w, r, batch[i])
    <2>1. r \in n + 1 .. Len(L) /\ batch[i] \in Nat \ {0} /\ batch[i] = L[r]
      BY <1>3
    <2> HIDE DEF r
    <2>2. /\ WorkOK(x) /\ Persists(w, x, n, L)
          /\ w.dropped \subseteq x.dropped /\ x.dropped \subseteq w.dropped \cup {r}
          /\ x.failed \/ r \in x.dropped \/ Cover(x, r, batch[i])
          /\ w.failed => x.failed
          /\ WholePages => x.failed = w.failed
          /\ SufficientCapacity(NewSegment, batch[i]) => x.dropped = w.dropped
      BY <1>2, <2>1, OneAppended
    <2> HIDE DEF x
    <2>6. Fit(batch) => x.dropped = w.dropped
      BY <2>2 DEF Fit, m
    <2>3. Persists(Log, x, n, L)
      BY <2>2, PersistsTransitive
    <2>4. x \in V
      BY <2>1, <2>2, <2>3, <2>6 DEF WorkOK, Work
    <2>5. QED
      BY <2>2, <2>4, <2>6 DEF r, x
  <1>6. ASSUME NEW w \in V PROVE w.dropped \subseteq dropped \cup (n + 1 .. Len(L))
    OBVIOUS
  <1>7. ASSUME NEW w \in V
        PROVE  /\ WorkOK(w) /\ Persists(Log, w, n, L) /\ dropped \subseteq w.dropped
               /\ WholePages => w.failed = poisoned
               /\ Fit(batch) => w.dropped = dropped
    OBVIOUS
  <1> HIDE DEF V
  <1>8. step \in [(1 .. m) \X V -> V]
    BY <1>5
  <1>9. PICK f : f \in Runs(m, V, Log, step)
    <2> HIDE DEF step
    <2>1. Runs(m, V, Log, step) # {}
      BY <1>2, <1>4, <1>8, LoopRuns
    <2>2. QED
      BY <2>1
  <1>10. Loop(f)
    <2>1. f \in [0 .. m -> V] /\ f[0] = Log /\ \A i \in 1 .. m : f[i] = step[<<i, f[i - 1]>>]
      BY <1>9 DEF Runs
    <2>2. ASSUME NEW i \in 1 .. m PROVE f[i] = AppendOne(f[i - 1], n + i, batch[i])
      <3>1. i - 1 \in 0 .. m
        BY <1>2
      <3>2. f[i - 1] \in V
        BY <2>1, <3>1
      <3>3. step[<<i, f[i - 1]>>] = AppendOne(f[i - 1], n + i, batch[i])
        BY <3>2
      <3>4. QED
        BY <2>1, <3>3
    <2>3. QED
      BY <1>2, <2>1, <2>2
  <1>11. Loop(after)
    BY <1>10
  <1> HIDE DEF after, step
  <1>12. after[0] = Log /\ \A i \in 1 .. m : after[i] = AppendOne(after[i - 1], n + i, batch[i])
    BY <1>2, <1>11
  <1> DEFINE G == {i \in 0 .. m : /\ after[i] \in V
                                  /\ \A k \in 1 .. i : \/ after[i].failed
                                                       \/ n + k \in after[i].dropped
                                                       \/ Cover(after[i], n + k, batch[k])}
  <1>13. 0 \in G
    BY <1>2, <1>4, <1>12
  <1>14. ASSUME NEW i \in 1 .. m, i - 1 \in G PROVE i \in G
    <2> DEFINE w == after[i - 1]
               x == after[i]
    <2>1. /\ w \in V /\ x = AppendOne(w, n + i, batch[i])
          /\ \A k \in 1 .. i - 1 : w.failed \/ n + k \in w.dropped \/ Cover(w, n + k, batch[k])
      BY <1>12, <1>14
    <2> HIDE DEF w, x
    <2>2. /\ x \in V /\ Persists(w, x, n, L) /\ w.dropped \subseteq x.dropped
          /\ x.failed \/ n + i \in x.dropped \/ Cover(x, n + i, batch[i])
          /\ w.failed => x.failed
      BY <1>5, <2>1
    <2>3. ASSUME NEW k \in 1 .. i PROVE x.failed \/ n + k \in x.dropped \/ Cover(x, n + k, batch[k])
      <3>1. k = i \/ k \in 1 .. i - 1
        OBVIOUS
      <3>2. CASE k = i
        BY <2>2, <3>2
      <3>3. CASE k \in 1 .. i - 1
        BY <2>1, <2>2, <3>3, CoverPersists
      <3>4. QED
        BY <3>1, <3>2, <3>3
    <2>4. QED
      BY <1>2, <2>2, <2>3 DEF x
  <1> HIDE DEF G
  <1>15. m \in G
    <2>1. 0 .. m \subseteq G
      BY <1>2, <1>13, <1>14, EveryTurn
    <2>2. QED
      BY <1>2, <2>1
  <1> DEFINE w == after[m]
  <1>16. w \in V /\ \A k \in 1 .. m : w.failed \/ n + k \in w.dropped \/ Cover(w, n + k, batch[k])
    BY <1>15 DEF G
  <1> HIDE DEF w
  <1>17. ASSUME NEW r \in n + 1 .. Len(L) PROVE w.failed \/ r \in w.dropped \/ Cover(w, r, L[r])
    <2>1. r - n \in 1 .. m /\ n + (r - n) = r
      BY <1>2
    <2>2. L[r] = batch[r - n]
      BY <1>3, <2>1
    <2>3. QED
      BY <1>16, <2>1, <2>2
  <1>18. QED
    BY <1>1, <1>6, <1>7, <1>16, <1>17 DEF w, n, L

-----------------------------------------------------------------------------
(* The invariant. *)

Stages == {"idle", "logged", "appended", "panicked"}

SegmentInv ==
  /\ Log \in Work
  /\ up \in BOOLEAN /\ crashes \in 0 .. MaxCrashes
  /\ up => WorkOK(Log)
  /\ ~ up => seg.buffer = {} /\ seg.allocated = 0 /\ seg.flushed = 0
  /\ WholePages /\ RecordsFit => ~ poisoned

PiecesInv ==
  /\ lens \in Seq(Nat \ {0})
  /\ \A c \in Everything(Log) : c.rec \in 1 .. Len(lens) /\ c.from + c.len <= lens[c.rec]
  /\ acked \subseteq 1 .. Len(lens) /\ dropped \subseteq 1 .. Len(lens)
  /\ mine \in [Thread -> SUBSET (1 .. Len(lens))]
  /\ stage \in [Thread -> Stages] /\ lsn \in [Thread -> Nat]

\* The first m bytes of record r are in the files.
Durable(p, r, m) == \A b \in 0 .. m - 1 : \E c \in Stored(p) : c.rec = r /\ Carries(c, b)

DurableInv == \A r \in acked \ dropped : Durable(Log, r, lens[r])

\* All that is in the buffer of these records is below the position.
Below(p, records, position) ==
  \A c \in p.seg.buffer : c.rec \in records =>
    Len(p.closed) * Capacity + p.seg.start + c.at + Header + c.len <= position

PendingInv ==
  \A t \in Thread :
    /\ \A r \in mine[t] \ dropped : Cover(Log, r, lens[r])
    /\ stage[t] = "appended" => Below(Log, mine[t], lsn[t])

LogInv == SegmentInv /\ PiecesInv /\ DurableInv /\ PendingInv

\* The log after a step.
LEMMA LogNext ==
  /\ Log' = [seg |-> seg', closed |-> closed', dropped |-> dropped', failed |-> poisoned']
  /\ WorkOK(Log)' <=> WorkOK(Log')
  /\ Everything(Log)' = Everything(Log') /\ Stored(Log)' = Stored(Log')
  BY DEF Log, Work, WorkOK, Everything, Stored, SegOK, InSegment, PagesLeft, Segment, LogFiles, Chunk, WholePages

\* The first part of the invariant after a step.
LEMMA SegmentNext ==
  SegmentInv' <=>
    /\ Log' \in Work
    /\ up' \in BOOLEAN /\ crashes' \in 0 .. MaxCrashes
    /\ up' => WorkOK(Log)'
    /\ ~ up' => seg'.buffer = {} /\ seg'.allocated = 0 /\ seg'.flushed = 0
    /\ WholePages /\ RecordsFit => ~ poisoned'
  BY DEF SegmentInv, Work, Segment, LogFiles, Chunk, WholePages, RecordsFit, SufficientCapacity, NewSegment

\* What calls under way may rely on after a step.
LEMMA PendingNext ==
  PendingInv' <=>
    \A t \in Thread :
      /\ \A r \in mine'[t] \ dropped' : Cover(Log', r, lens'[r])
      /\ stage'[t] = "appended" => Below(Log', mine'[t], lsn'[t])
  BY DEF PendingInv, Cover, Below, Everything, Stored, Carries

\* What is durable after a step.
LEMMA DurableNext == DurableInv' <=> \A r \in acked' \ dropped' : Durable(Log', r, lens'[r])
  BY DEF DurableInv, Durable, Stored, Carries

\* What is on the disk.
LEMMA ChunksOfFiles ==
  ASSUME NEW p, p.closed \in LogFiles, SegOK(p.seg) \/ p.seg \in Segment
  PROVE  LET files == Append(p.closed, File(p.seg))
         IN  UNION {files[i].chunks : i \in DOMAIN files} = Stored(p)
  <1> DEFINE F == [size : Nat, chunks : SUBSET Chunk]
             files == Append(p.closed, File(p.seg))
             k == Len(p.closed) + 1
  <1>1. File(p.seg) \in F /\ File(p.seg).chunks = p.seg.chunks
    BY DEF File, SegOK, Segment
  <1>2. p.closed \in Seq(F)
    BY DEF LogFiles
  <1> HIDE DEF F
  <1>3. /\ DOMAIN p.closed = 1 .. Len(p.closed) /\ Len(p.closed) \in Nat /\ DOMAIN files = 1 .. k
        /\ \A i \in 1 .. Len(p.closed) : files[i] = p.closed[i]
        /\ files[k] = File(p.seg)
    BY <1>1, <1>2, AppendProperties, LenProperties
  <1> HIDE DEF files
  <1>4. ASSUME NEW i \in DOMAIN files, NEW c \in files[i].chunks PROVE c \in Stored(p)
    <2>1. i = k \/ i \in DOMAIN p.closed
      BY <1>3
    <2>2. QED
      BY <1>1, <1>3, <1>4, <2>1 DEF Stored
  <1>5. ASSUME NEW c \in Stored(p) PROVE \E i \in DOMAIN files : c \in files[i].chunks
    <2>1. CASE c \in p.seg.chunks
      <3>1. k \in DOMAIN files /\ c \in files[k].chunks
        BY <1>1, <1>3, <2>1
      <3>2. QED
        BY <3>1
    <2>2. CASE \E i \in DOMAIN p.closed : c \in p.closed[i].chunks
      BY <1>3, <2>2
    <2>3. QED
      BY <2>1, <2>2 DEF Stored
  <1>6. UNION {files[i].chunks : i \in DOMAIN files} = Stored(p)
    BY <1>4, <1>5
  <1>7. QED
    BY <1>6 DEF files

\* An empty log satisfies the invariant.
LEMMA InitLogInv == Init => LogInv
  <1>1. SUFFICES ASSUME Init PROVE LogInv
    OBVIOUS
  <1>2. Log = [seg |-> NewSegment, closed |-> <<>>, dropped |-> {}, failed |-> FALSE] /\ up = TRUE /\ crashes = 0
    BY <1>1 DEF Init, Log
  <1>3. <<>> \in LogFiles
    BY EmptySeq DEF LogFiles
  <1>4. WorkOK(Log)
    BY <1>2, <1>3, NewSegmentOK DEF WorkOK, Work, SegOK
  <1>5. SegmentInv
    BY <1>1, <1>2, <1>4, WalAssumption DEF Init, SegmentInv, WorkOK
  <1>6. Everything(Log) = {}
    BY <1>2 DEF Everything, Stored, NewSegment
  <1>7. PiecesInv
    BY <1>1, <1>6, EmptySeq DEF Init, PiecesInv, Stages
  <1>8. DurableInv /\ PendingInv
    BY <1>1 DEF Init, DurableInv, PendingInv
  <1>9. QED
    BY <1>5, <1>7, <1>8 DEF LogInv

\* What a write leaves.
LEMMA WriteFacts ==
  ASSUME LogInv, NEW t \in Thread, NEW batch \in Seq(Nat \ {0}), NEW next \in Stages,
         Write(t, batch, next)
  PROVE  /\ WorkOK(Log') /\ Persists(Log, Log', Len(lens), lens')
         /\ lens' = lens \o batch
         /\ dropped \subseteq dropped' /\ dropped' \subseteq dropped \cup (Len(lens) + 1 .. Len(lens'))
         /\ mine' = [mine EXCEPT ![t] = IF poisoned' THEN {} ELSE @ \cup (Len(lens) + 1 .. Len(lens'))]
         /\ ~ poisoned' =>
              \A r \in Len(lens) + 1 .. Len(lens') : r \in dropped' \/ Cover(Log', r, lens'[r])
         /\ stage' = [stage EXCEPT ![t] = IF poisoned' THEN "panicked" ELSE next]
         /\ WholePages /\ (next = "appended" => Fit(batch)) => ~ poisoned'
         /\ up /\ UNCHANGED <<up, acked, crashes>>
  <1> DEFINE w == AppendBatch(batch)
             panics == w.failed \/ (next = "appended" /\ w.dropped # dropped)
  <1>1. /\ seg' = w.seg /\ closed' = w.closed /\ dropped' = w.dropped /\ lens' = lens \o batch
        /\ poisoned' = panics
        /\ mine' = [mine EXCEPT ![t] = IF panics THEN {} ELSE @ \cup Records(batch)]
        /\ stage' = [stage EXCEPT ![t] = IF panics THEN "panicked" ELSE next]
        /\ up /\ ~ poisoned /\ UNCHANGED <<up, acked, crashes>>
    BY DEF Write
  <1>2. WorkOK(Log) /\ lens \in Seq(Nat \ {0})
    BY <1>1 DEF LogInv, SegmentInv, PiecesInv
  <1>3. /\ WorkOK(w) /\ Persists(Log, w, Len(lens), lens')
        /\ dropped \subseteq w.dropped /\ w.dropped \subseteq dropped \cup (Len(lens) + 1 .. Len(lens'))
        /\ \A r \in Len(lens) + 1 .. Len(lens') : w.failed \/ r \in w.dropped \/ Cover(w, r, lens'[r])
        /\ WholePages => w.failed = poisoned
        /\ Fit(batch) => w.dropped = dropped
    BY <1>1, <1>2, BatchAppended
  <1>4. w.failed => panics
    OBVIOUS
  <1>5. WholePages /\ (next = "appended" => Fit(batch)) => ~ panics
    BY <1>1, <1>3
  <1> HIDE DEF w
  <1>6. w.failed \in BOOLEAN /\ panics \in BOOLEAN
    BY <1>3 DEF WorkOK, Work
  <1> HIDE DEF panics
  <1>7. Log' = [seg |-> w.seg, closed |-> w.closed, dropped |-> w.dropped, failed |-> panics]
    BY <1>1, LogNext
  <1>8. WorkOK(Log')
    BY <1>3, <1>6, <1>7 DEF WorkOK, Work
  <1>9. /\ Persists(Log, Log', Len(lens), lens')
        /\ \A r, m : Cover(w, r, m) => Cover(Log', r, m)
    BY <1>3, <1>7, SameLog
  <1>10. Records(batch) = Len(lens) + 1 .. Len(lens')
    BY <1>1, <1>2, BatchRecords DEF Records
  <1>11. ASSUME ~ poisoned', NEW r \in Len(lens) + 1 .. Len(lens')
         PROVE  r \in dropped' \/ Cover(Log', r, lens'[r])
    BY <1>1, <1>3, <1>4, <1>9, <1>11
  <1>12. QED
    BY <1>1, <1>3, <1>5, <1>8, <1>9, <1>10, <1>11

\* What was on the disk stays there.
LEMMA DurablePersists ==
  ASSUME NEW p, NEW q, NEW n, NEW L, Persists(p, q, n, L), NEW r, NEW m, Durable(p, r, m)
  PROVE  Durable(q, r, m)
  BY DEF Persists, Durable

\* What others have to flush stays below their positions.
LEMMA BelowPersists ==
  ASSUME NEW p, NEW q, NEW n \in Nat, NEW L, Len(L) \in Nat, Persists(p, q, n, L),
         NEW records, records \subseteq 1 .. n, NEW position, Below(p, records, position)
  PROVE  Below(q, records, position)
  <1>1. SUFFICES ASSUME NEW c \in q.seg.buffer, c.rec \in records
                 PROVE  Len(q.closed) * Capacity + q.seg.start + c.at + Header + c.len <= position
    BY DEF Below
  <1>2. ~ Fresh(c, n, L)
    <2>1. c.rec \in 1 .. n
      BY <1>1
    <2>2. \A i \in 1 .. n : i \notin n + 1 .. Len(L)
      OBVIOUS
    <2>3. QED
      BY <2>1, <2>2 DEF Fresh
  <1>3. c \in p.seg.buffer /\ q.seg.start = p.seg.start /\ Len(q.closed) = Len(p.closed)
    BY <1>1, <1>2 DEF Persists
  <1>4. QED
    BY <1>1, <1>3 DEF Below

\* After a write the log is as before, with its records in addition.
LEMMA WriteStep ==
  ASSUME LogInv, NEW t \in Thread, NEW batch \in Seq(Nat \ {0}), NEW next \in Stages,
         Write(t, batch, next), next = "appended" /\ RecordsFit => Fit(batch),
         lsn' \in [Thread -> Nat], \A u \in Thread : u # t => lsn'[u] = lsn[u],
         stage'[t] = "appended" => Below(Log', mine'[t], lsn'[t])
  PROVE  LogInv'
  <1> DEFINE n == Len(lens)
  <1>1. /\ WorkOK(Log') /\ Persists(Log, Log', n, lens') /\ lens' = lens \o batch
        /\ dropped \subseteq dropped' /\ dropped' \subseteq dropped \cup (n + 1 .. Len(lens'))
        /\ ~ poisoned' => \A r \in n + 1 .. Len(lens') : r \in dropped' \/ Cover(Log', r, lens'[r])
        /\ mine' = [mine EXCEPT ![t] = IF poisoned' THEN {} ELSE @ \cup (n + 1 .. Len(lens'))]
        /\ stage' = [stage EXCEPT ![t] = IF poisoned' THEN "panicked" ELSE next]
        /\ WholePages /\ (next = "appended" => Fit(batch)) => ~ poisoned'
        /\ up /\ UNCHANGED <<up, acked, crashes>>
    BY WriteFacts
  <1>2. /\ lens \in Seq(Nat \ {0}) /\ acked \subseteq 1 .. n /\ dropped \subseteq 1 .. n
        /\ mine \in [Thread -> SUBSET (1 .. n)] /\ stage \in [Thread -> Stages]
        /\ \A c \in Everything(Log) : c.rec \in 1 .. n /\ c.from + c.len <= lens[c.rec]
    BY DEF LogInv, PiecesInv
  <1>3. /\ n \in Nat /\ Len(batch) \in Nat /\ lens' \in Seq(Nat \ {0}) /\ Len(lens') = n + Len(batch)
        /\ \A r \in 1 .. n : lens'[r] = lens[r]
    BY <1>1, <1>2, BatchRecords
  <1> HIDE DEF n
  <1>4. 1 .. n \subseteq 1 .. Len(lens') /\ n + 1 .. Len(lens') \subseteq 1 .. Len(lens')
    BY <1>3
  <1>5. SegmentInv'
    <2>1. WorkOK(Log)' /\ Log' \in Work
      BY <1>1, LogNext DEF WorkOK
    <2>2. up' /\ up' \in BOOLEAN /\ crashes' \in 0 .. MaxCrashes
      BY <1>1 DEF LogInv, SegmentInv
    <2>3. WholePages /\ RecordsFit => ~ poisoned'
      BY <1>1
    <2>4. QED
      BY <2>1, <2>2, <2>3, SegmentNext
  <1>6. PiecesInv'
    <2>1. ASSUME NEW d \in Everything(Log')
          PROVE  d.rec \in 1 .. Len(lens') /\ d.from + d.len <= lens'[d.rec]
      <3>1. CASE Fresh(d, n, lens')
        BY <1>4, <3>1 DEF Fresh
      <3>2. CASE \E c \in Everything(Log) : Same(c, d)
        <4>1. d.rec \in 1 .. n /\ d.from + d.len <= lens[d.rec]
          BY <1>2, <3>2 DEF Same
        <4>2. QED
          BY <1>3, <1>4, <4>1
      <3>3. QED
        BY <1>1, <3>1, <3>2 DEF Persists
    <2>2. mine' \in [Thread -> SUBSET (1 .. Len(lens'))]
      BY <1>1, <1>2, <1>4
    <2>3. acked' \subseteq 1 .. Len(lens') /\ dropped' \subseteq 1 .. Len(lens')
      BY <1>1, <1>2, <1>4
    <2>4. \A d \in Everything(Log)' : d.rec \in 1 .. Len(lens') /\ d.from + d.len <= lens'[d.rec]
      BY <2>1, LogNext
    <2>5. stage' \in [Thread -> Stages]
      BY <1>1, <1>2 DEF Stages
    <2>6. QED
      BY <1>3, <2>2, <2>3, <2>4, <2>5 DEF PiecesInv
  <1>7. DurableInv'
    <2>1. ASSUME NEW r \in acked' \ dropped' PROVE Durable(Log', r, lens'[r])
      <3>1. r \in acked \ dropped /\ r \in 1 .. n
        BY <1>1, <1>2
      <3>2. Durable(Log, r, lens[r])
        BY <3>1 DEF LogInv, DurableInv
      <3>3. QED
        BY <1>1, <1>3, <3>1, <3>2, DurablePersists
    <2>2. QED
      BY <2>1, DurableNext
  <1>8. PendingInv'
    <2>1. ASSUME NEW u \in Thread, NEW r \in mine'[u] \ dropped' PROVE Cover(Log', r, lens'[r])
      <3>1. CASE r \in mine[u]
        <4>1. r \in mine[u] \ dropped /\ r \in 1 .. n
          BY <1>1, <1>2, <2>1, <3>1
        <4>2. Cover(Log, r, lens[r])
          BY <4>1 DEF LogInv, PendingInv
        <4>3. QED
          BY <1>1, <1>3, <4>1, <4>2, CoverPersists
      <3>2. CASE r \notin mine[u]
        <4>1. r \in n + 1 .. Len(lens') /\ ~ poisoned'
          BY <1>1, <1>2, <2>1, <3>2
        <4>2. QED
          BY <1>1, <2>1, <4>1
      <3>3. QED
        BY <3>1, <3>2
    <2>2. ASSUME NEW u \in Thread, stage'[u] = "appended" PROVE Below(Log', mine'[u], lsn'[u])
      <3>1. CASE u = t
        BY <2>2, <3>1
      <3>2. CASE u # t
        <4>1. mine'[u] = mine[u] /\ mine[u] \subseteq 1 .. n /\ stage[u] = "appended" /\ lsn'[u] = lsn[u]
          BY <1>1, <1>2, <2>2, <3>2
        <4>2. Below(Log, mine[u], lsn[u])
          BY <4>1 DEF LogInv, PendingInv
        <4>3. Len(lens') \in Nat
          BY <1>3
        <4>4. QED
          BY <1>1, <1>3, <4>1, <4>2, <4>3, BelowPersists
      <3>3. QED
        BY <3>1, <3>2
    <2>3. QED
      BY <2>1, <2>2, PendingNext
  <1>9. QED
    BY <1>5, <1>6, <1>7, <1>8 DEF LogInv

\* The staged records of a commit are appended; nothing is to be flushed yet.
LEMMA AppendAllStep ==
  ASSUME LogInv, NEW t \in Thread, AppendAll(t) PROVE LogInv'
  <1>1. PICK batch \in Batches : Write(t, batch, "logged")
    BY DEF AppendAll
  <1>2. batch \in Seq(Nat \ {0}) /\ "logged" \in Stages
    BY WalAssumption DEF Stages
  <1>3. lsn' = lsn /\ lsn \in [Thread -> Nat] /\ stage \in [Thread -> Stages]
    BY DEF AppendAll, LogInv, PiecesInv
  <1>4. stage'[t] # "appended"
    BY <1>1, <1>3 DEF Write
  <1>5. QED
    BY <1>1, <1>2, <1>3, <1>4, WriteStep

\* The position a record ends at is above all that is in the buffer.
LEMMA AppendRecordStep ==
  ASSUME LogInv, NEW t \in Thread, AppendRecord(t) PROVE LogInv'
  <1>1. PICK n \in RecordLens :
          /\ Write(t, <<n>>, "appended")
          /\ lsn' = [lsn EXCEPT ![t] = IF poisoned' THEN @ ELSE CurrentLsn(Len(closed'), seg')]
    BY DEF AppendRecord
  <1>2. n \in Nat \ {0} /\ "appended" \in Stages
    BY WalAssumption DEF Stages
  <1>3. <<n>> \in Seq(Nat \ {0}) /\ (RecordsFit => Fit(<<n>>))
    BY <1>2 DEF RecordsFit, Fit
  <1>4. WorkOK(Log')
    BY <1>1, <1>2, <1>3, WriteFacts
  <1>5. /\ SegOK(seg') /\ Len(closed') \in Nat /\ Capacity \in Nat /\ Header \in Nat
        /\ seg'.start \in Nat /\ seg'.allocated \in Nat
        /\ \A c \in seg'.buffer : c.at \in Nat /\ c.len \in Nat /\ c.at + Header + c.len <= seg'.allocated
    <2>1. SegOK(seg') /\ closed' \in LogFiles
      BY <1>4, LogNext DEF WorkOK, Work
    <2>2. Len(closed') \in Nat
      BY <2>1, LenProperties DEF LogFiles
    <2>3. QED
      BY <2>1, <2>2, WalAssumption DEF SegOK, Segment, Chunk
  <1> DEFINE x == Len(closed') * Capacity
             position == CurrentLsn(Len(closed'), seg')
  <1>6. x \in Nat
    BY <1>5
  <1>7. position = x + seg'.start + seg'.allocated
    BY DEF CurrentLsn
  <1> HIDE DEF x
  <1>8. position \in Nat
    BY <1>5, <1>6, <1>7
  <1>9. Below(Log', mine'[t], position)
    <2>1. SUFFICES ASSUME NEW c \in seg'.buffer
                   PROVE  x + seg'.start + c.at + Header + c.len <= position
      BY LogNext DEF Below, x
    <2>2. c.at \in Nat /\ c.len \in Nat /\ c.at + Header + c.len <= seg'.allocated
      BY <1>5
    <2>3. QED
      BY <1>5, <1>6, <1>7, <2>2
  <1> HIDE DEF position
  <1>10. lsn \in [Thread -> Nat] /\ stage \in [Thread -> Stages]
    BY DEF LogInv, PiecesInv
  <1>11. /\ lsn' \in [Thread -> Nat] /\ \A u \in Thread : u # t => lsn'[u] = lsn[u]
         /\ ~ poisoned' => lsn'[t] = position
    BY <1>1, <1>8, <1>10 DEF position
  <1>12. stage'[t] = "appended" => ~ poisoned'
    BY <1>1, <1>2, <1>3, <1>10, WriteFacts
  <1>13. QED
    BY <1>1, <1>2, <1>3, <1>9, <1>11, <1>12, WriteStep

\* A flush that finds its position flushed already has nothing in the buffer.
LEMMA NothingToFlush ==
  ASSUME LogInv, up, NEW t \in Thread, stage[t] = "appended", FlushDone(lsn[t]),
         NEW c \in seg.buffer
  PROVE  c.rec \notin mine[t]
  <1>1. SUFFICES ASSUME c.rec \in mine[t] PROVE FALSE
    OBVIOUS
  <1>2. SegOK(seg) /\ closed \in LogFiles /\ lsn[t] \in Nat
    BY DEF LogInv, SegmentInv, PiecesInv, WorkOK, Work, Log
  <1>3. /\ seg.start \in Nat /\ seg.flushed \in Nat /\ c \in Chunk /\ seg.flushed <= c.at
    BY <1>2 DEF SegOK, Segment
  <1>4. c.at \in Nat /\ c.len \in Nat \ {0} /\ Header \in Nat /\ Len(closed) \in Nat /\ Capacity \in Nat
    BY <1>2, <1>3, WalAssumption, LenProperties DEF Chunk, LogFiles
  <1> DEFINE x == Len(closed) * Capacity
  <1>5. x \in Nat
    BY <1>4
  <1>6. x + seg.start + c.at + Header + c.len <= lsn[t]
    BY <1>1 DEF LogInv, PendingInv, Below, Log
  <1>7. x + seg.start + seg.flushed >= lsn[t]
    BY DEF FlushDone, FlushedLsn, SegmentStart
  <1> HIDE DEF x
  <1>8. QED
    BY <1>2, <1>3, <1>4, <1>5, <1>6, <1>7

\* A flush keeps the segment within a capacity of whole pages: behind its end
\* no page is ever full.
LEMMA FlushedInSegment ==
  ASSUME NEW s, SegOK(s), InSegment(s)
  PROVE  LET t == FlushPage(s, FALSE)
         IN  SegOK(t) /\ InSegment(t) /\ Moved(s, t)
  <1> DEFINE t == FlushPage(s, FALSE)
  <1>1. /\ SegOK(t) /\ Moved(s, t)
        /\ IF PageDone(s, FALSE) THEN t.start = s.start + Page /\ t.allocated = 0
                                 ELSE t.start = s.start /\ t.allocated = s.allocated
    BY PageFlushed
  <1> HIDE DEF t
  <1>0. CASE ~ WholePages
    BY <1>0, <1>1 DEF InSegment, t
  <1>2. SUFFICES ASSUME WholePages, NEW j \in Nat, PagesLeft(s, j)
                 PROVE  SegOK(t) /\ InSegment(t) /\ Moved(s, t)
    BY <1>0 DEF InSegment, t
  <1>3. /\ Page \in Nat /\ Header \in Nat /\ Page > 4 * Header /\ s.allocated \in Nat /\ s.start \in Nat
    BY WalAssumption DEF SegOK, Segment
  <1>4. CASE PageDone(s, FALSE)
    <2>1. s.allocated + Header >= Page
      BY <1>4 DEF PageDone
    <2>2. j # 0
      BY <1>2, <1>3, <2>1 DEF PagesLeft
    <2> DEFINE x == j * Page
               y == (j - 1) * Page
    <2>3. j - 1 \in Nat /\ x \in Int /\ y = x - Page
      BY <1>3, <2>2
    <2>4. s.start + x = Capacity
      BY <1>2 DEF PagesLeft
    <2> HIDE DEF x, y
    <2>5. t.start + y = Capacity
      BY <1>1, <1>3, <1>4, <2>3, <2>4
    <2>6. t.allocated = 0 /\ 0 <= 2 * Header
      BY <1>1, <1>3, <1>4
    <2>7. PagesLeft(t, j - 1)
      BY <2>3, <2>5, <2>6 DEF PagesLeft, y
    <2>8. QED
      BY <1>1, <2>3, <2>7 DEF InSegment
  <1>5. CASE ~ PageDone(s, FALSE)
    <2>1. PagesLeft(t, j)
      BY <1>1, <1>2, <1>5 DEF PagesLeft
    <2>2. QED
      BY <1>1, <2>1 DEF InSegment
  <1>6. QED
    BY <1>4, <1>5

\* A flush acknowledges records that are in the files.
LEMMA FlushStep ==
  ASSUME LogInv, NEW t \in Thread, Flush(t) PROVE LogInv'
  <1> DEFINE n == Len(lens)
             done == FlushDone(lsn[t])
  <1>1. /\ up /\ stage[t] = "appended"
        /\ seg' = IF done THEN seg ELSE FlushPage(seg, FALSE)
        /\ acked' = acked \cup mine[t]
        /\ mine' = [mine EXCEPT ![t] = {}] /\ lsn' = [lsn EXCEPT ![t] = 0]
        /\ stage' = [stage EXCEPT ![t] = "idle"]
        /\ UNCHANGED <<closed, up, poisoned, lens, dropped, crashes>>
    BY DEF Flush
  <1>2. /\ WorkOK(Log) /\ Log.seg = seg /\ Log.closed = closed /\ Log.dropped = dropped
        /\ Log.failed = poisoned /\ SegOK(seg) /\ InSegment(seg)
    BY <1>1 DEF LogInv, SegmentInv, WorkOK, Log
  <1>3. /\ lens \in Seq(Nat \ {0}) /\ n \in Nat /\ acked \subseteq 1 .. n /\ dropped \subseteq 1 .. n
        /\ mine \in [Thread -> SUBSET (1 .. n)]
        /\ stage \in [Thread -> Stages] /\ lsn \in [Thread -> Nat]
        /\ \A c \in Everything(Log) : c.rec \in 1 .. n /\ c.from + c.len <= lens[c.rec]
    BY LenProperties DEF LogInv, PiecesInv
  <1> HIDE DEF done
  <1>4. Log' = [seg |-> seg', closed |-> closed, dropped |-> dropped, failed |-> poisoned]
    BY <1>1, LogNext
  <1>5. /\ SegOK(seg') /\ InSegment(seg') /\ Persists(Log, Log', n, lens)
        /\ done => Log' = Log
        /\ ~ done => seg'.buffer = {}
    <2>1. CASE done
      <3>1. seg' = seg /\ Log' = Log
        BY <1>1, <1>4, <2>1 DEF Log
      <3>2. QED
        BY <1>2, <2>1, <3>1, PersistsReflexive
    <2>2. CASE ~ done
      <3>1. SegOK(seg') /\ InSegment(seg') /\ Moved(seg, seg')
        BY <1>1, <1>2, <2>2, FlushedInSegment
      <3>2. Log'.seg = seg' /\ Log'.closed = Log.closed
        BY <1>2, <1>4
      <3>3. Persists(Log, Log', n, lens)
        BY <1>2, <3>1, <3>2, PageFlushedPersists
      <3>4. QED
        BY <2>2, <3>1, <3>3 DEF Moved
    <2>3. QED
      BY <2>1, <2>2
  <1>6. Log'.seg = seg' /\ Len(Log'.closed) = Len(Log.closed)
    BY <1>2, <1>4
  <1> HIDE DEF n
  <1>7. SegmentInv'
    <2>1. WorkOK(Log') /\ Log' \in Work
      BY <1>2, <1>4, <1>5 DEF WorkOK, Work, SegOK, Log
    <2>2. WorkOK(Log)'
      BY <2>1, LogNext
    <2>3. /\ up' /\ up' \in BOOLEAN /\ crashes' \in 0 .. MaxCrashes
          /\ WholePages /\ RecordsFit => ~ poisoned'
      BY <1>1 DEF LogInv, SegmentInv
    <2>4. QED
      BY <2>1, <2>2, <2>3, SegmentNext
  <1>8. PiecesInv'
    <2>1. ASSUME NEW d \in Everything(Log') PROVE d.rec \in 1 .. n /\ d.from + d.len <= lens[d.rec]
      <3>1. CASE Fresh(d, n, lens)
        <4>1. d.rec \in n + 1 .. n
          BY <3>1 DEF Fresh, n
        <4>2. QED
          BY <1>3, <4>1
      <3>2. CASE \E c \in Everything(Log) : Same(c, d)
        BY <1>3, <3>2 DEF Same
      <3>3. QED
        BY <1>5, <3>1, <3>2 DEF Persists
    <2>2. \A d \in Everything(Log)' : d.rec \in 1 .. n /\ d.from + d.len <= lens[d.rec]
      BY <2>1, LogNext
    <2>3. /\ acked' \subseteq 1 .. n /\ dropped' \subseteq 1 .. n /\ mine' \in [Thread -> SUBSET (1 .. n)]
          /\ stage' \in [Thread -> Stages] /\ lsn' \in [Thread -> Nat]
      BY <1>1, <1>3 DEF Stages
    <2>4. QED
      BY <1>1, <1>3, <2>2, <2>3 DEF PiecesInv, n
  <1>9. DurableInv'
    <2>1. ASSUME NEW r \in acked' \ dropped' PROVE Durable(Log', r, lens'[r])
      <3>1. CASE r \in acked
        <4>1. Durable(Log, r, lens[r])
          BY <1>1, <2>1, <3>1 DEF LogInv, DurableInv
        <4>2. QED
          BY <1>1, <1>5, <4>1, DurablePersists
      <3>2. CASE r \in mine[t]
        <4>1. Cover(Log, r, lens[r])
          BY <1>1, <2>1, <3>2 DEF LogInv, PendingInv
        <4>2. CASE done
          <5>1. \A c \in Everything(Log) : c.rec = r => c \in Stored(Log)
            <6>1. ASSUME NEW c \in seg.buffer PROVE c.rec # r
              BY <1>1, <3>2, <4>2, NothingToFlush DEF done
            <6>2. QED
              BY <1>2, <6>1 DEF Everything
          <5>2. Durable(Log, r, lens[r])
            BY <4>1, <5>1 DEF Cover, Durable
          <5>3. QED
            BY <1>1, <1>5, <4>2, <5>2
        <4>3. CASE ~ done
          <5>1. Cover(Log', r, lens[r])
            BY <1>5, <4>1, CoverPersists
          <5>2. Everything(Log') = Stored(Log')
            BY <1>5, <1>6, <4>3 DEF Everything
          <5>3. QED
            BY <1>1, <5>1, <5>2 DEF Cover, Durable
        <4>4. QED
          BY <4>2, <4>3
      <3>3. QED
        BY <1>1, <2>1, <3>1, <3>2
    <2>2. QED
      BY <2>1, DurableNext
  <1>10. PendingInv'
    <2>1. ASSUME NEW u \in Thread, NEW r \in mine'[u] \ dropped' PROVE Cover(Log', r, lens'[r])
      <3>1. r \in mine[u] \ dropped
        BY <1>1, <1>3, <2>1
      <3>2. Cover(Log, r, lens[r])
        BY <3>1 DEF LogInv, PendingInv
      <3>3. QED
        BY <1>1, <1>5, <3>2, CoverPersists
    <2>2. ASSUME NEW u \in Thread, stage'[u] = "appended" PROVE Below(Log', mine'[u], lsn'[u])
      <3>1. u # t
        BY <1>1, <1>3, <2>2
      <3>2. mine'[u] = mine[u] /\ mine[u] \subseteq 1 .. n /\ stage[u] = "appended" /\ lsn'[u] = lsn[u]
        BY <1>1, <1>3, <2>2, <3>1
      <3>3. Below(Log, mine[u], lsn[u])
        BY <3>2 DEF LogInv, PendingInv
      <3>4. Len(lens) \in Nat
        BY <1>3 DEF n
      <3>5. QED
        BY <1>3, <1>5, <3>2, <3>3, <3>4, BelowPersists
    <2>3. QED
      BY <2>1, <2>2, PendingNext
  <1>11. QED
    BY <1>7, <1>8, <1>9, <1>10 DEF LogInv

\* A step that leaves the files, and no thread anything to flush, leaves what
\* is said about them.
LEMMA FilesKept ==
  ASSUME LogInv, UNCHANGED <<lens, acked, dropped>>,
         Stored(Log') = Stored(Log), seg'.buffer = {},
         \A t \in Thread : mine'[t] = {}, mine' \in [Thread -> SUBSET (1 .. Len(lens))],
         stage' \in [Thread -> Stages], lsn' \in [Thread -> Nat]
  PROVE  PiecesInv' /\ DurableInv' /\ PendingInv'
  <1>1. Log'.seg.buffer = {}
    BY LogNext
  <1>2. Everything(Log') \subseteq Everything(Log)
    BY <1>1 DEF Everything
  <1>3. PiecesInv'
    <2>1. Everything(Log)' \subseteq Everything(Log)
      BY <1>2, LogNext
    <2>2. QED
      BY <2>1 DEF LogInv, PiecesInv
  <1>4. DurableInv'
    <2>1. ASSUME NEW r \in acked' \ dropped' PROVE Durable(Log', r, lens'[r])
      BY DEF LogInv, DurableInv, Durable
    <2>2. QED
      BY <2>1, DurableNext
  <1>5. PendingInv'
    BY <1>1, PendingNext DEF Below
  <1>6. QED
    BY <1>3, <1>4, <1>5

\* A crash empties the buffer and leaves the files.
LEMMA CrashStep ==
  ASSUME LogInv, Crash PROVE LogInv'
  <1>1. /\ up /\ ~ up' /\ ~ poisoned' /\ poisoned' \in BOOLEAN /\ up' \in BOOLEAN /\ crashes < MaxCrashes /\ crashes' = crashes + 1
        /\ seg' = [NewSegment EXCEPT !.size = seg.size, !.chunks = seg.chunks]
        /\ stage' = [t \in Thread |-> "idle"] /\ mine' = [t \in Thread |-> {}]
        /\ lsn' = [t \in Thread |-> 0]
        /\ UNCHANGED <<closed, lens, acked, dropped>>
    BY DEF Crash
  <1>2. Log \in Work /\ crashes \in 0 .. MaxCrashes
    BY DEF LogInv, SegmentInv
  <1>3. seg \in Segment /\ closed \in LogFiles /\ dropped \in SUBSET Nat
    BY <1>2 DEF Log, Work
  <1>4. /\ seg' \in Segment /\ seg'.chunks = seg.chunks /\ seg'.buffer = {}
        /\ seg'.allocated = 0 /\ seg'.flushed = 0
    BY <1>1, <1>3 DEF NewSegment, Segment
  <1>5. Log' = [seg |-> seg', closed |-> closed, dropped |-> dropped, failed |-> poisoned']
    BY <1>1, LogNext
  <1>6. Stored(Log') = Stored(Log)
    BY <1>4, <1>5 DEF Stored, Log
  <1>7. SegmentInv'
    <2>1. Log' \in Work
      BY <1>1, <1>3, <1>4, <1>5 DEF Work
    <2>2. crashes' \in 0 .. MaxCrashes
      BY <1>1, <1>2, WalAssumption
    <2>3. QED
      BY <1>1, <1>4, <2>1, <2>2, SegmentNext
  <1>8. PiecesInv' /\ DurableInv' /\ PendingInv'
    <2>1. stage' \in [Thread -> Stages] /\ lsn' \in [Thread -> Nat]
      BY <1>1 DEF Stages
    <2>2. \A t \in Thread : mine'[t] = {}
      BY <1>1
    <2>3. mine' \in [Thread -> SUBSET (1 .. Len(lens))]
      BY <1>1
    <2>4. QED
      BY <1>1, <1>4, <1>6, <2>1, <2>2, <2>3, FilesKept
  <1>9. QED
    BY <1>7, <1>8 DEF LogInv

\* The last file is filled up to a page, within the capacity.
LEMMA PaddedFile ==
  ASSUME NEW size \in Nat, size <= Capacity
  PROVE  /\ Padded(size) \in Nat
         /\ WholePages => \E j \in Nat : Padded(size) + j * Page = Capacity
  <1>1. Page \in Nat \ {0} /\ Capacity \in Nat
    BY WalAssumption
  <1> DEFINE k == (size + Page - 1) \div Page
  <1>2. Padded(size) = k * Page
    BY DEF Padded
  <1>3. k \in Nat /\ k * Page <= size + Page - 1 /\ k * Page \in Nat
    BY <1>1
  <1> HIDE DEF k
  <1>4. ASSUME WholePages PROVE \E j \in Nat : Padded(size) + j * Page = Capacity
    <2>1. PICK pages \in 1 .. Capacity : Capacity = pages * Page
      BY <1>4 DEF WholePages
    <2>2. k <= pages
      <3>1. SUFFICES ASSUME k >= pages + 1 PROVE FALSE
        BY <1>1, <1>3
      <3>2. k * Page >= (pages + 1) * Page
        BY <1>1, <1>3, <3>1
      <3>3. (pages + 1) * Page = Capacity + Page
        BY <1>1, <2>1
      <3> DEFINE x == k * Page
      <3> HIDE DEF x
      <3>4. x >= Capacity + Page /\ x <= size + Page - 1 /\ x \in Nat
        BY <1>3, <3>2, <3>3 DEF x
      <3>5. QED
        BY <1>1, <3>4
    <2>3. pages - k \in Nat /\ k * Page + (pages - k) * Page = Capacity
      BY <1>1, <1>3, <2>1, <2>2
    <2>4. QED
      BY <1>2, <2>3
  <1>5. QED
    BY <1>2, <1>3, <1>4

\* A reopened log continues at a page, behind all that is in its last file.
LEMMA OpenStep ==
  ASSUME LogInv, Open PROVE LogInv'
  <1>1. /\ ~ up /\ up' /\ up' \in BOOLEAN /\ seg.size <= Capacity
        /\ seg' = [seg EXCEPT !.size = Padded(@), !.start = Padded(seg.size)]
        /\ UNCHANGED <<closed, poisoned, stage, mine, lsn, lens, acked, dropped, crashes>>
    BY DEF Open, threads, history
  <1>2. /\ Log \in Work /\ crashes \in 0 .. MaxCrashes
        /\ seg.buffer = {} /\ seg.allocated = 0 /\ seg.flushed = 0
    BY <1>1 DEF LogInv, SegmentInv
  <1>3. seg \in Segment /\ closed \in LogFiles /\ dropped \in SUBSET Nat /\ poisoned \in BOOLEAN
    BY <1>2 DEF Log, Work
  <1> DEFINE size == Padded(seg.size)
  <1>4. size \in Nat /\ (WholePages => \E j \in Nat : size + j * Page = Capacity)
    BY <1>1, <1>3, PaddedFile DEF Segment
  <1>5. seg' = [seg EXCEPT !.size = size, !.start = size]
    BY <1>1, <1>3 DEF Segment
  <1> HIDE DEF size
  <1>6. /\ seg' \in Segment /\ seg'.chunks = seg.chunks /\ seg'.buffer = {}
        /\ seg'.allocated = 0 /\ seg'.flushed = 0 /\ seg'.start = size /\ seg'.size = size
    BY <1>2, <1>3, <1>4, <1>5 DEF Segment
  <1>7. Page \in Nat /\ Header \in Nat
    BY WalAssumption
  <1>8. SegOK(seg')
    BY <1>4, <1>6, <1>7 DEF SegOK
  <1>9. InSegment(seg')
    BY <1>4, <1>6, <1>7 DEF InSegment, PagesLeft
  <1>10. Log' = [seg |-> seg', closed |-> closed, dropped |-> dropped, failed |-> poisoned]
    BY <1>1, LogNext
  <1>11. SegmentInv'
    <2>1. Log' \in Work
      BY <1>3, <1>6, <1>10 DEF Work
    <2>2. WorkOK(Log')
      BY <1>8, <1>9, <1>10, <2>1 DEF WorkOK
    <2>3. WorkOK(Log)' /\ crashes' \in 0 .. MaxCrashes
      BY <1>1, <1>2, <2>2, LogNext
    <2>4. QED
      BY <1>1, <2>1, <2>3, SegmentNext DEF LogInv, SegmentInv
  <1>12. Persists(Log, Log', Len(lens), lens) /\ Stored(Log') = Stored(Log) /\ Log'.seg.buffer = {}
         /\ Everything(Log') = Everything(Log)
    BY <1>2, <1>6, <1>10 DEF Persists, Stored, Everything, Log, Same
  <1>13. PiecesInv'
    <2>1. Everything(Log)' = Everything(Log)
      BY <1>12, LogNext
    <2>2. QED
      BY <1>1, <2>1 DEF LogInv, PiecesInv
  <1>14. DurableInv'
    <2>1. ASSUME NEW r \in acked' \ dropped' PROVE Durable(Log', r, lens'[r])
      BY <1>1, <1>12 DEF LogInv, DurableInv, Durable
    <2>2. QED
      BY <2>1, DurableNext
  <1>15. PendingInv'
    <2>1. ASSUME NEW t \in Thread, NEW r \in mine'[t] \ dropped' PROVE Cover(Log', r, lens'[r])
      BY <1>1, <1>12 DEF LogInv, PendingInv, Cover
    <2>2. ASSUME NEW t \in Thread PROVE Below(Log', mine'[t], lsn'[t])
      BY <1>12 DEF Below
    <2>3. QED
      BY <2>1, <2>2, PendingNext
  <1>16. QED
    BY <1>11, <1>13, <1>14, <1>15 DEF LogInv

\* Every step keeps the invariant.
LEMMA NextLogInv == LogInv /\ [Next]_vars => LogInv'
  <1>1. SUFFICES ASSUME LogInv, [Next]_vars PROVE LogInv'
    OBVIOUS
  <1>2. ASSUME NEW t \in Thread, AppendAll(t) \/ AppendRecord(t) \/ Flush(t) PROVE LogInv'
    BY <1>1, <1>2, AppendAllStep, AppendRecordStep, FlushStep
  <1>3. CASE Crash
    BY <1>1, <1>3, CrashStep
  <1>4. CASE Open
    BY <1>1, <1>4, OpenStep
  <1>5. CASE UNCHANGED vars
    <2>1. UNCHANGED <<seg, closed, lens, up, poisoned, stage, mine, lsn, acked, dropped, crashes>>
      BY <1>5 DEF vars, disk, threads, history
    <2>2. Log' = Log
      BY <2>1 DEF Log
    <2>3. SegmentInv'
      BY <1>1, <2>1, <2>2, SegmentNext, LogNext DEF LogInv, SegmentInv
    <2>4. PiecesInv'
      BY <1>1, <2>1, <2>2, LogNext DEF LogInv, PiecesInv
    <2>5. DurableInv'
      BY <1>1, <2>1, <2>2, DurableNext DEF LogInv, DurableInv
    <2>6. PendingInv'
      BY <1>1, <2>1, <2>2, PendingNext DEF LogInv, PendingInv
    <2>7. QED
      BY <2>3, <2>4, <2>5, <2>6 DEF LogInv
  <1>6. QED
    BY <1>1, <1>2, <1>3, <1>4, <1>5 DEF Next

\* LogInv holds in every reachable state: the segments are well formed, what
\* was acknowledged is in the files, and what was only appended is where the
\* flush of its call will find it.
THEOREM AlwaysLogInv == Spec => []LogInv
  BY InitLogInv, NextLogInv, PTL DEF Spec

-----------------------------------------------------------------------------
(* What the runs check. *)

\* The chunks on the disk are those stored in the log.
LEMMA DiskIsStored == LogInv => OnDisk = Stored(Log)
  <1>1. SUFFICES ASSUME LogInv PROVE OnDisk = Stored(Log)
    OBVIOUS
  <1>2. Log.closed = closed /\ Log.seg = seg /\ closed \in LogFiles /\ seg \in Segment
    BY <1>1 DEF LogInv, SegmentInv, Work, Log
  <1>3. QED
    BY <1>2, ChunksOfFiles DEF OnDisk, Files

\* The invariant gives the types that the run checks.
LEMMA LogInvTypes == LogInv => WalTypeOK
  <1>1. SUFFICES ASSUME LogInv PROVE WalTypeOK
    OBVIOUS
  <1>2. /\ Log.closed = closed /\ Log.seg = seg /\ closed \in LogFiles /\ seg \in Segment
        /\ {up, poisoned} \subseteq BOOLEAN /\ crashes \in 0 .. MaxCrashes
        /\ up => SegOK(seg) /\ InSegment(seg)
        /\ ~ up => seg.allocated = 0 /\ seg.flushed = 0
        /\ WholePages /\ RecordsFit => ~ poisoned
    BY <1>1 DEF LogInv, SegmentInv, Log, Work, WorkOK
  <1>3. Page \in Nat /\ Header \in Nat
    BY WalAssumption
  <1>4. /\ seg.allocated <= Page /\ seg.flushed <= seg.allocated
        /\ {seg.start, seg.size, seg.allocated, seg.flushed} \subseteq Nat
    BY <1>2, <1>3 DEF Segment, SegOK
  <1>5. OnDisk = Stored(Log)
    BY <1>1, DiskIsStored
  <1> DEFINE F == [size : Nat, chunks : SUBSET Chunk]
  <1>6. closed \in Seq(F)
    BY <1>2 DEF LogFiles
  <1>7. \A i \in DOMAIN closed : closed[i] \in F
    BY <1>6, ElementOfSeq, LenProperties
  <1>8. ASSUME NEW c \in OnDisk \union seg.buffer
        PROVE  /\ c.rec \in 1..Len(lens) /\ c.len \in 1..(Page - Header) /\ c.at \in Nat
               /\ c.from \in Nat /\ c.from + c.len <= lens[c.rec]
    <2>1. c \in Everything(Log)
      BY <1>2, <1>5 DEF Everything
    <2>2. c \in Chunk
      BY <1>2, <1>7, <2>1 DEF Everything, Stored, Segment
    <2>3. QED
      BY <1>1, <2>1, <2>2 DEF LogInv, PiecesInv, Chunk
  <1>9. closed \in Seq([size : Nat, chunks : SUBSET OnDisk])
    <2>1. ASSUME NEW i \in DOMAIN closed PROVE closed[i] \in [size : Nat, chunks : SUBSET OnDisk]
      <3>1. closed[i].chunks \subseteq OnDisk
        BY <1>2, <1>5 DEF Stored
      <3>2. closed[i] \in F
        BY <1>7
      <3>3. QED
        BY <3>1, <3>2
    <2> HIDE DEF F
    <2>2. closed = [i \in 1 .. Len(closed) |-> closed[i]] /\ Len(closed) \in Nat /\ DOMAIN closed = 1 .. Len(closed)
      BY <1>6, LenProperties
    <2>3. closed \in [1 .. Len(closed) -> [size : Nat, chunks : SUBSET OnDisk]]
      BY <2>1, <2>2
    <2>4. QED
      BY <2>2, <2>3, SeqDef
  <1>10. acked \union dropped \subseteq 1..Len(lens) /\ stage \in [Thread -> {"idle", "logged", "appended", "panicked"}]
    BY <1>1 DEF LogInv, PiecesInv, Stages
  <1>11. ASSUME up PROVE seg.size = seg.start + seg.flushed /\ (WholePages => seg.start <= Capacity)
    BY <1>2, <1>11, InCapacity DEF SegOK
  <1>12. QED
    BY <1>2, <1>4, <1>8, <1>9, <1>10, <1>11 DEF WalTypeOK

\* Every part of the log has its type in every reachable state, log positions
\* are file offsets (segment.rs:146-155, 242-288), and, if the capacity is of
\* whole pages and can hold the records of append, no call panics: no page
\* starts behind the capacity (segment.rs:291, wal.rs:193).
THEOREM WalTypes == Spec => []WalTypeOK
  BY AlwaysLogInv, LogInvTypes, PTL

\* Once a call has returned Ok, every byte of its records is in the files for
\* good, except for records append_all gave up: whichever thread's flush or
\* change of segment wrote them, and through any crash
\* (transaction_manager.rs:124-134, wal.rs:197-218).
THEOREM Acknowledged == Spec => []AckedIsOnDisk
  <1>1. LogInv => AckedIsOnDisk
    BY DiskIsStored DEF LogInv, DurableInv, Durable, AckedIsOnDisk, Complete, Chunks
  <1>2. QED
    BY <1>1, AlwaysLogInv, PTL

=============================================================================
