----------------------------- MODULE Timestamps -----------------------------
(***************************************************************************)
(* Timestamps as words (src/transaction.rs): the type in the high bits and *)
(* a counter that wraps in the others, and the narrower word a version     *)
(* keeps of the bound it was collected at (src/storage.rs).                *)
(*                                                                         *)
(* The other modules take timestamps for natural numbers; what they assume *)
(* of them is stated here for words of a small width.  The only state is   *)
(* the counter of the transaction manager.                                 *)
(***************************************************************************)
EXTENDS Integers

CONSTANTS
    Width,          \* of a timestamp; 64
    TypeWidth,      \* TIMESTAMP_TYPE_WIDTH
    CollectedWidth  \* of RedoNode.collected; 32

ASSUME TimestampsAssumption ==
    /\ {Width, TypeWidth, CollectedWidth} \subseteq Nat \ {0}
    /\ TypeWidth + 1 < Width
    /\ CollectedWidth < Width - TypeWidth

RawSize == 2 ^ (Width - TypeWidth)      \* TIMESTAMP_MASK + 1

Commit == 0
Uncommitted == 2 ^ TypeWidth - 1
Types == Commit .. Uncommitted

Invalid == 0

New(typ, timestamp) == (timestamp % RawSize) + typ * RawSize
Type(t) == t \div RawSize
Raw(t) == t % RawSize

\* Variant: counters are compared as they are.
CmpRaw(a, b) ==
    IF a = b THEN "Equal" ELSE IF a < b THEN "Less" ELSE "Greater"

\* Ord::cmp.  Of two counters, the one half the range or more ahead, modulo
\* the width of the word, is the older one.
Cmp(a, b) ==
    LET delta == (Raw(a) - Raw(b)) % 2 ^ Width
    IN  CASE a = b -> "Equal"
          [] a # b /\ (a = Invalid \/ (b # Invalid /\ Type(a) < Type(b))) -> "Less"
          [] a # b /\ (b = Invalid \/ (a # Invalid /\ Type(a) > Type(b))) -> "Greater"
          [] OTHER -> IF (delta \div (RawSize \div 2)) % 2 = 1 THEN "Less" ELSE "Greater"

\* inc and dec: the next counter whose timestamp is not the invalid one.
Skipping(t, by) ==
    LET next == New(Type(t), Raw(t) + by)
    IN  IF next = Invalid THEN New(Type(t), Raw(t) + 2 * by) ELSE next

Inc(t) == Skipping(t, 1)
Dec(t) == Skipping(t, -1)

-----------------------------------------------------------------------------
(* What a version remembers of the gc run that collected it. *)

CollectedSize == 2 ^ CollectedWidth

\* try_set_collected and load_collected on a version not collected before.
Collected(bound) == bound % CollectedSize

\* Variant: the bounds are compared as far as the mark goes.
CollectedByLow(mark, bound) == mark = bound % CollectedSize

\* HashMemTable::garbage_collect, `load_collected == min_xip`.
CollectedBy(mark, bound) == mark = bound

-----------------------------------------------------------------------------
(* The counter. *)

VARIABLE counter    \* timestamp_counter, an AtomicU64

CounterInit == counter = 1

\* fetch_add, in start_transaction and commit.
Take == counter' = (counter + 1) % 2 ^ Width

-----------------------------------------------------------------------------
(* What has to hold. *)

\* The order of timestamps (Ord::cmp) is that in which the counter hands them
\* out, across its wrap, as long as they are less than half the range apart;
\* every uncommitted timestamp is above the committed ones and the invalid one
\* below all; inc and dec go up and down without meeting it.
OrderFollowsCounter ==
    \A typ \in Types :
        LET t == New(typ, counter)
        IN  t # Invalid =>
                /\ \A n \in 1 .. RawSize \div 2 - 1 :
                       LET later == New(typ, counter + n)
                       IN  later # Invalid => Cmp(t, later) = "Less" /\ Cmp(later, t) = "Greater"
                /\ Dec(Inc(t)) = t /\ Inc(Dec(t)) = t
                /\ Cmp(Dec(t), t) = "Less" /\ Cmp(t, Inc(t)) = "Less"
                /\ Cmp(Invalid, t) = "Less"
                /\ typ # Uncommitted =>
                       \A u \in 0 .. RawSize - 1 : Cmp(t, New(Uncommitted, u)) = "Less"

\* A gc run takes a version's mark for its own (load_collected compared with
\* min_xip) only when it is its own, also when the mark has lost the high bits
\* of an earlier bound; and it knows its own marks as long as bounds fit.
MarksNameTheirRun ==
    \A marked \in 1 .. counter :
        counter < RawSize =>
            (CollectedBy(Collected(marked), counter) <=> marked = counter /\ counter < CollectedSize)

=============================================================================
