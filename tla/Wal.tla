-------------------------------- MODULE Wal --------------------------------
(***************************************************************************)
(* The write ahead log: wal.rs (Wal, SegmentCreator), wal/segment.rs       *)
(* (Segment, the page buffer of the segment being written, and             *)
(* SegmentView, its reader) and wal/reader.rs (WalReader).                 *)
(*                                                                         *)
(* A record is cut into chunks, none crossing a page. A chunk is kept as   *)
(* its place, its type and the piece of the record it carries; Header      *)
(* stands for the type, length and checksum bytes around the data. What no *)
(* chunk covers is zero, the type None. Appending threads are serialised   *)
(* by the lock of open_segment, so each call is one action. A crash loses  *)
(* the page buffer and keeps every write made: a torn write is not         *)
(* modelled. Nothing calls the reader to replay yet (db.rs:121), so        *)
(* ReadBack is what a replay that started now would be handed.             *)
(***************************************************************************)
EXTENDS Naturals, FiniteSets, SequencesExt

CONSTANTS
  Thread,      \* the threads that commit, abort or write a checkpoint
  Page,        \* SEGMENT_PAGE_SIZE
  Header,      \* RECORD_HEADER_SIZE
  Capacity,    \* segment_capacity of the options
  Batches,     \* what append_all may be given: sequences of record lengths
  RecordLens,  \* the lengths of a commit, an abort or a checkpoint record
  MaxRecords,  \* bound: records ever appended
  MaxCrashes   \* bound: crashes

\* The page has room for more than four headers, as 64 KB have: a record that
\* outgrows the segment by its headers stays on one page. check_capacity asks
\* no more of the capacity than to be above the header.
ASSUME WalAssumption ==
  /\ {Page, Header, Capacity} \subseteq Nat \ {0} /\ RecordLens \subseteq Nat \ {0}
  /\ Page > 4 * Header /\ Capacity > Header
  /\ {MaxRecords, MaxCrashes} \subseteq Nat
  /\ \A b \in Batches : b \in Seq(Nat \ {0})

\* The capacity is a number of pages, as the default of 16 MB is.
WholePages == \E k \in 1 .. Capacity : Capacity = k * Page

VARIABLES
  seg,      \* open_segment: its page buffer, and its file (size, chunks on disk)
  closed,   \* the files of the segments before it
  lens,     \* the lengths of the records ever appended, by number
  up,       \* the process runs
  poisoned, \* a thread panicked with the lock of open_segment
  stage,    \* where each thread is
  mine,     \* the records each thread has appended in its present call
  lsn,      \* the position each thread will flush to
  acked,    \* records of calls that have returned Ok
  dropped,  \* records append answered Ok(None) for
  crashes

disk == <<seg, closed>>
threads == <<stage, mine, lsn>>
history == <<lens, acked, dropped, crashes>>
vars == <<disk, threads, history, up, poisoned>>

SetMin(S) == CHOOSE m \in S : \A n \in S : m <= n

NewSegment ==
  [start |-> 0, allocated |-> 0, flushed |-> 0, buffer |-> {}, size |-> 0, chunks |-> {}]

File(s) == [size |-> s.size, chunks |-> s.chunks]
Files == Append(closed, File(seg))

-----------------------------------------------------------------------------
(* Segment *)

\* The buffered bytes up to a place in the page go to the end of the file.
WriteOut(s, upto) ==
  [s EXCEPT
     !.size = @ + (upto - s.flushed),
     !.chunks = @ \union {[c EXCEPT !.at = s.size + (@ - s.flushed)] : c \in s.buffer},
     !.buffer = {},
     !.flushed = upto]

PageDone(s, reset) == reset \/ s.allocated + Header >= Page

\* Variant: the next page keeps the last one's flushed position.
NewPageKeepFlushed(s) == [s EXCEPT !.start = @ + Page, !.allocated = 0]
NewPage(s) == [s EXCEPT !.start = @ + Page, !.allocated = 0, !.flushed = 0]

\* A page with no room for a chunk, or given up, is filled with zeros.
FlushPage(s, reset) ==
  IF PageDone(s, reset) THEN NewPage(WriteOut(s, Page)) ELSE WriteOut(s, s.allocated)

\* The space left, counting one header for each page after the present one and
\* none for the present one.
SufficientCapacity(s, n) ==
  LET pages == (Capacity - s.start) \div Page
      later == IF pages > 0 THEN (Page - Header) * (pages - 1) ELSE 0
  IN s.start # Capacity /\ Page - s.allocated + later >= n

ChunkType(before, last) ==
  IF before = "none" THEN IF last THEN "full" ELSE "first"
                     ELSE IF last THEN "last" ELSE "middle"

\* One turn of the loop of append: a = [seg, left, from, type], the record
\* from the byte `from` on is left.
AppendChunk(a, r) ==
  IF a.left = 0 THEN a
  ELSE LET s == IF Page - a.seg.allocated <= Header THEN FlushPage(a.seg, TRUE) ELSE a.seg
           n == SetMin({a.left, Page - s.allocated - Header})
           type == ChunkType(a.type, n = a.left)
           chunk == [at |-> s.allocated, type |-> type, rec |-> r, from |-> a.from, len |-> n]
       IN [seg |-> [s EXCEPT !.allocated = @ + Header + n, !.buffer = @ \union {chunk}],
           left |-> a.left - n, from |-> a.from + n, type |-> type]

\* A chunk carries at least one byte, so a turn for each byte is enough.
SegmentAppend(s, r, n) ==
  LET turn[i \in 0..n] ==
        IF i = 0 THEN [seg |-> s, left |-> n, from |-> 0, type |-> "none"]
                 ELSE AppendChunk(turn[i - 1], r)
  IN turn[n].seg

SegmentStart == Len(closed) * Capacity
CurrentLsn(nclosed, s) == nclosed * Capacity + s.start + s.allocated
FlushedLsn == SegmentStart + seg.start + seg.flushed

-----------------------------------------------------------------------------
(* Wal: w = [seg, closed, dropped, failed] *)

\* Variant: the segment is left with its page unwritten.
NextSegmentUnflushed(w) ==
  [w EXCEPT !.closed = Append(@, File(w.seg)), !.seg = NewSegment]

\* The present page is written out before its segment is left.
NextSegment(w) ==
  LET s == IF w.seg.allocated # w.seg.flushed THEN FlushPage(w.seg, TRUE) ELSE w.seg
  IN [w EXCEPT !.closed = Append(@, File(s)), !.seg = NewSegment]

\* append_all for one record; Ok(None), for a record no segment can hold, is
\* taken for success. sufficient_capacity panics when the page starts behind
\* the capacity.
AppendOne(w, r, n) ==
  LET v == IF SufficientCapacity(w.seg, n) THEN w ELSE NextSegment(w)
  IN IF w.failed \/ w.seg.start > Capacity THEN [w EXCEPT !.failed = TRUE]
     ELSE IF SufficientCapacity(v.seg, n)
     THEN [v EXCEPT !.seg = SegmentAppend(@, r, n)]
     ELSE [v EXCEPT !.dropped = @ \union {r}]

Records(batch) == Len(lens) + 1 .. Len(lens) + Len(batch)

\* append_all: one record after the other.
AppendBatch(batch) ==
  LET appended[i \in 0..Len(batch)] ==
        IF i = 0 THEN [seg |-> seg, closed |-> closed, dropped |-> dropped, failed |-> poisoned]
                 ELSE AppendOne(appended[i - 1], Len(lens) + i, batch[i])
  IN appended[Len(batch)]

\* The call is over when it panics, append also on Ok(None): what it has
\* appended is in the buffer or in the files, and nobody is told.
Write(t, batch, next) ==
  LET w == AppendBatch(batch)
      panics == w.failed \/ (next = "appended" /\ w.dropped # dropped)
  IN /\ up /\ ~poisoned
     /\ Len(lens) + Len(batch) <= MaxRecords
     /\ seg' = w.seg /\ closed' = w.closed /\ dropped' = w.dropped /\ poisoned' = panics
     /\ lens' = lens \o batch
     /\ mine' = [mine EXCEPT ![t] = IF panics THEN {} ELSE @ \union Records(batch)]
     /\ stage' = [stage EXCEPT ![t] = IF panics THEN "panicked" ELSE next]
     /\ UNCHANGED <<up, acked, crashes>>

\* commit_log_records: the staged records of a commit.
AppendAll(t) ==
  /\ stage[t] = "idle"
  /\ \E batch \in Batches : Write(t, batch, "logged")
  /\ UNCHANGED lsn

\* append_record: the record of a commit, or that of an abort or a checkpoint.
AppendRecord(t) ==
  /\ stage[t] \in {"idle", "logged"}
  /\ \E n \in RecordLens : Write(t, <<n>>, "appended")
  /\ lsn' = [lsn EXCEPT ![t] = IF poisoned' THEN @ ELSE CurrentLsn(Len(closed'), seg')]

FlushDone(position) == FlushedLsn >= position

\* flush(Some(lsn)): nothing to do when another thread's flush went far enough.
Flush(t) ==
  /\ up /\ ~poisoned /\ stage[t] = "appended"
  /\ seg' = IF FlushDone(lsn[t]) THEN seg ELSE FlushPage(seg, FALSE)
  /\ acked' = acked \union mine[t]
  /\ mine' = [mine EXCEPT ![t] = {}]
  /\ lsn' = [lsn EXCEPT ![t] = 0]
  /\ stage' = [stage EXCEPT ![t] = "idle"]
  /\ UNCHANGED <<closed, up, poisoned, lens, dropped, crashes>>

Crash ==
  /\ up /\ crashes < MaxCrashes
  /\ up' = FALSE /\ poisoned' = FALSE
  /\ crashes' = crashes + 1
  /\ seg' = [NewSegment EXCEPT !.size = seg.size, !.chunks = seg.chunks]
  /\ stage' = [t \in Thread |-> "idle"]
  /\ mine' = [t \in Thread |-> {}]
  /\ lsn' = [t \in Thread |-> 0]
  /\ UNCHANGED <<closed, lens, acked, dropped>>

\* Where the page after the reopened file's last one starts.
Padded(size) == ((size + Page - 1) \div Page) * Page

\* Wal::open of a directory with segments: the last one is filled up to a page
\* and continued; one larger than its capacity is an error, and the log stays
\* closed.
Open ==
  /\ ~up /\ seg.size <= Capacity
  /\ up' = TRUE
  /\ seg' = [seg EXCEPT !.size = Padded(@), !.start = Padded(seg.size)]
  /\ UNCHANGED <<closed, poisoned, threads, history>>

Init ==
  /\ seg = NewSegment /\ closed = <<>> /\ lens = <<>> /\ up = TRUE /\ poisoned = FALSE
  /\ stage = [t \in Thread |-> "idle"]
  /\ mine = [t \in Thread |-> {}]
  /\ lsn = [t \in Thread |-> 0]
  /\ acked = {} /\ dropped = {} /\ crashes = 0

Next ==
  \/ \E t \in Thread : AppendAll(t) \/ AppendRecord(t) \/ Flush(t)
  \/ Crash
  \/ Open

Spec == Init /\ [][Next]_vars

-----------------------------------------------------------------------------
(* SegmentView and WalReader *)

Piece(c) == [rec |-> c.rec, from |-> c.from, len |-> c.len]
Nothing == [kind |-> "none", data |-> <<>>, next |-> 0]
Corrupted == [kind |-> "corrupted", data |-> <<>>, next |-> 0]

ChunkAt(file, p) == {c \in file.chunks : c.at = p}

\* Variant: a whole page further, wherever in its page the zero is.
OnePageFurther(p) == p + Page
\* A zero where a type should be: the type byte has been consumed already when
\* the rest of the page is skipped.
NextPage(p) == (p + 1) + (Page - ((p + 1) % Page))

\* SegmentView::read_record: the pieces of one record from an offset on, and
\* where the next one is looked for.
ReadRecord(file, offset) ==
  LET scan[p \in Nat, data \in Seq([rec : 1..Len(lens), from : Nat, len : 1..Page])] ==
        IF file.size <= p + Header THEN Corrupted
        ELSE IF ChunkAt(file, p) = {}
        THEN IF file.size <= NextPage(p) + Header /\ data = <<>>
             THEN Nothing ELSE scan[NextPage(p), data]
        ELSE LET c == CHOOSE c \in ChunkAt(file, p) : TRUE
                 after == p + Header + c.len
                 read == Append(data, Piece(c))
             IN IF c.type \in {"full", "last"}
                THEN [kind |-> "record", data |-> read, next |-> after]
                ELSE scan[after, read]
  IN IF file.size <= offset + Header THEN Nothing ELSE scan[offset, <<>>]

\* WalReader::open, and its iterator up to the end of the log or the first
\* error: the records it returns, each as its pieces, <<>> for an error.
ReadBack ==
  LET from[pos \in Nat] ==
        LET segno == pos \div Capacity + 1
            offset == pos % Capacity
            r == ReadRecord(Files[segno], offset)
        IN CASE segno > Len(Files) -> <<>>
             [] segno <= Len(Files) /\ r.kind = "record" ->
                  <<r.data>> \o from[pos - offset + r.next]
             [] segno <= Len(Files) /\ r.kind = "corrupted" -> << <<>> >>
             [] segno <= Len(Files) /\ r.kind = "none" ->
                  IF offset = 0 THEN <<>> ELSE from[segno * Capacity]
  IN IF \E i \in DOMAIN Files : Files[i].size > Capacity THEN << <<>> >> ELSE from[0]

-----------------------------------------------------------------------------
(* Properties *)

OnDisk == UNION {Files[i].chunks : i \in DOMAIN Files}
Chunks(r) == {c \in OnDisk : c.rec = r}
Carries(c, b) == c.from <= b /\ b < c.from + c.len
Complete(r) == \A b \in 0 .. lens[r] - 1 : \E c \in Chunks(r) : Carries(c, b)
Written == {c.rec : c \in OnDisk}
End(c) == c.at + Header + c.len

\* An empty segment can hold each record of append.
RecordsFit == \A n \in RecordLens : SufficientCapacity(NewSegment, n)

\* Every part of the state has its type, and no more is flushed than appended.
\* Log positions are file offsets: what the writer reckons flushed is the
\* length of the file it appends to, across partial flushes, page ends, segment
\* switches and reopenings (segment.rs:146-155, 242-288). With a capacity of
\* whole pages, records that fit make no call panic (segment.rs:291,
\* wal.rs:193).
WalTypeOK ==
  /\ seg.allocated <= Page /\ seg.flushed <= seg.allocated
  /\ {seg.start, seg.size, seg.allocated, seg.flushed} \subseteq Nat
  /\ \A c \in OnDisk \union seg.buffer :
       /\ c.rec \in 1..Len(lens) /\ c.len \in 1..(Page - Header) /\ c.at \in Nat
       /\ c.from \in Nat /\ c.from + c.len <= lens[c.rec]
  /\ closed \in Seq([size : Nat, chunks : SUBSET OnDisk])
  /\ acked \union dropped \subseteq 1..Len(lens)
  /\ stage \in [Thread -> {"idle", "logged", "appended", "panicked"}]
  /\ {up, poisoned} \subseteq BOOLEAN /\ crashes \in 0..MaxCrashes
  /\ up => seg.size = seg.start + seg.flushed
  /\ WholePages /\ up => seg.start <= Capacity
  /\ WholePages /\ RecordsFit => ~poisoned

\* A call that returned Ok has all of its records in the files, whichever
\* thread's flush or segment switch wrote them, and a crash takes none of them
\* away (transaction_manager.rs:124-134). Records that append_all gave up
\* (wal.rs:214) are the exception.
AckedIsOnDisk == \A r \in acked \ dropped : Complete(r)

\* What readers of the log cannot cope with: a file larger than its capacity;
\* an empty one before the last; one byte left at the end of a page that is not
\* the last; a record cut short by a crash or not yet wholly flushed.
Clean ==
  /\ \A i \in DOMAIN Files : Files[i].size <= Capacity
  /\ \A i \in DOMAIN closed : closed[i].size > 0
  /\ \A i \in DOMAIN Files : \A c, d \in Files[i].chunks :
       End(c) % Page = Page - 1 => d.at <= c.at
  /\ \A r \in Written : Complete(r)

\* In a clean log, whatever flushes, crashes and reopenings produced it, the
\* reader returns every record in the files, whole, once and in the order of
\* appending (reader.rs:86-105, segment.rs:346-429).
InLogOrder(S) == SetToSortSeq(S, LAMBDA a, b : a < b)

\* The pieces make up the record, from its first to its last byte.
MakeUp(pieces, r) ==
  LET upto(i) == IF i = 0 THEN 0 ELSE pieces[i].from + pieces[i].len
  IN /\ upto(Len(pieces)) = lens[r]
     /\ \A i \in DOMAIN pieces : pieces[i].rec = r /\ pieces[i].from = upto(i - 1)

ReadsBackAll ==
  LET rs == InLogOrder(Written)
  IN Len(ReadBack) = Len(rs) /\ \A i \in DOMAIN rs : MakeUp(ReadBack[i], rs[i])
CleanLogIsReadBack == Clean => ReadsBackAll
=============================================================================
