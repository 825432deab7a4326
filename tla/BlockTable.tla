----------------------------- MODULE BlockTable -----------------------------
(***************************************************************************)
(* The format of table files: data blocks with restarts and compressed     *)
(* prefixes (src/block/data_block.rs), the index of blocks (index.rs), the *)
(* full bloom filter (filter.rs, filter_policy.rs), and the builder,       *)
(* reader and iterator of a table (src/table/block_table.rs).              *)
(*                                                                         *)
(* Keys are non-empty sequences of letters, values are opaque and one byte *)
(* long.  Lengths are counted as in the file, a varint being one byte.     *)
(* Pointers, checksums and the block cache hand back what was written.     *)
(***************************************************************************)
EXTENDS Integers, Sequences, FiniteSets, SequencesExt, FiniteSetsExt, Functions

CONSTANTS
    TableKeys,      \* keys that may be in a table or looked up
    BlockSizes,     \* options.block_size
    Intervals,      \* options.block_restart_interval
    KeysPerLine,    \* keys for which the filter gets another cache line
    Ring,           \* BUFFER_MASK + 1, the hashes that are prepared ahead
    Probes          \* num_probes

ASSUME BlockTableAssumption ==
    /\ TableKeys \subseteq Seq(Nat) \ {<<>>}
    /\ BlockSizes \cup Intervals \cup {KeysPerLine, Ring, Probes} \subseteq Nat \ {0}

None == <<>>

\* The order of the keys, that of their bytes.
Less(a, b) ==
    \E n \in 0 .. Len(a) :
        /\ n < Len(b) /\ SubSeq(a, 1, n) = SubSeq(b, 1, n)
        /\ n < Len(a) => a[n + 1] < b[n + 1]

-----------------------------------------------------------------------------
(* Data blocks. *)

EmptyBlock == [entries |-> <<>>, restarts |-> <<1>>, last |-> <<>>, counter |-> 0, len |-> 0]

FullLen(b) == b.len + 4 * Len(b.restarts) + 4

CommonPrefix(a, b) ==
    Max({n \in 0 .. Min({Len(a), Len(b)}) : SubSeq(a, 1, n) = SubSeq(b, 1, n)})

WithEntry(b, key, val, shared, restarts, counter) ==
    LET entry == [shared |-> shared, rest |-> SubSeq(key, shared + 1, Len(key)), val |-> val]
    IN  [entries |-> Append(b.entries, entry), restarts |-> restarts, last |-> key,
         counter |-> counter, len |-> b.len + 3 + Len(entry.rest) + 1]

\* Variant: the key of a restart is compressed like the others.
AddPairSharing(b, interval, key, val) ==
    IF b.counter < interval
    THEN WithEntry(b, key, val, CommonPrefix(b.last, key), b.restarts, b.counter + 1)
    ELSE WithEntry(b, key, val, CommonPrefix(b.last, key), Append(b.restarts, Len(b.entries) + 1), 1)

\* DataBlockBuilder::add: an entry leaves out what its key shares with the key
\* before it, except at a restart.
AddPair(b, interval, key, val) ==
    IF b.counter < interval
    THEN WithEntry(b, key, val, CommonPrefix(b.last, key), b.restarts, b.counter + 1)
    ELSE WithEntry(b, key, val, 0, Append(b.restarts, Len(b.entries) + 1), 1)

\* assemble_key: what is shared is kept of the key assembled before.
Assembled(before, entry) == SubSeq(before, 1, Min({entry.shared, Len(before)})) \o entry.rest

\* DataBlockIterator::next from entry `from` to the end, started with a fresh
\* restart_key.
Scan(b, from) ==
    LET step(read, e) ==
            Append(read, <<Assembled(IF read = <<>> THEN <<>> ELSE Last(read)[1], e), e.val>>)
    IN  FoldLeft(step, <<>>, SubSeq(b.entries, from, Len(b.entries)))

\* DataBlockIterator::seek: the last restart before the key by halving, and on
\* from there to the first pair that is not below it; None past the end.
Seek(b, key) ==
    LET last[low \in 0 .. Len(b.restarts), high \in 0 .. Len(b.restarts)] ==
            LET mid == (low + high + 1) \div 2
                restartKey == b.entries[b.restarts[mid + 1]].rest
            IN  IF low >= high THEN low
                ELSE IF ~Less(restartKey, key) THEN last[low, mid - 1] ELSE last[mid, high]
        pairs == Scan(b, b.restarts[last[0, Len(b.restarts) - 1] + 1])
        found == SelectSeq(pairs, LAMBDA p : ~Less(p[1], key))
    IN  IF found = <<>> THEN None ELSE found[1]

-----------------------------------------------------------------------------
(* The filter. *)

\* Widths: hashes have two halves of 4 bits, a cache line has 8 bits.
HashSize == 16
LineBits == 8
Step == 9

\* xx::hash64, any function of the key.
Hash(key) ==
    LET h == FoldLeft(LAMBDA acc, letter : (acc * 7 + letter * 5 + 3) % (HashSize * HashSize), 1, key)
    IN  [lo |-> h % HashSize, hi |-> h \div HashSize]

\* prepare_hash and add_hash_prepared: the line, and the bits there.
Bits(h, lines) ==
    LET probe[i \in Nat] == IF i = 1 THEN h.hi ELSE (probe[i - 1] * Step) % HashSize
    IN  {<<(h.lo * lines) \div HashSize, probe[i] \div (HashSize \div LineBits)>> : i \in 1 .. Probes}

\* add_all_entries: a buffer of hashes whose lines are computed ahead; each
\* further hash pushes one out, and the rest follows at the end.
FilterBits(hashes, lines) ==
    LET first == Min({Ring, Len(hashes)})
        rest == SubSeq(hashes, first + 1, Len(hashes))
        step(s, i) ==
            LET slot == 1 + ((i - 1) % Ring)
            IN  [ring |-> [s.ring EXCEPT ![slot] = rest[i]],
                 bits |-> s.bits \cup Bits(s.ring[slot], lines)]
        end == FoldLeft(step, [ring |-> SubSeq(hashes, 1, first), bits |-> {}],
                        [i \in DOMAIN rest |-> i])
    IN  end.bits \cup UNION {Bits(h, lines) : h \in Range(end.ring)}

\* FullFilterBlockBuilder::seal.  A filter without keys is an empty block,
\* which the reader takes for no filter.
Filter(hashes) ==
    LET lines == (Len(hashes) + KeysPerLine - 1) \div KeysPerLine
    IN  [lines |-> lines, bits |-> IF hashes = <<>> THEN {} ELSE FilterBits(hashes, lines)]

MayMatch(filter, key) == filter.lines = 0 \/ Bits(Hash(key), filter.lines) \subseteq filter.bits

-----------------------------------------------------------------------------
(* Tables. *)

NewTable == [block |-> EmptyBlock, blocks |-> <<>>, index |-> EmptyBlock, hashes |-> <<>>, last |-> None]

\* flush, and add_item of the block to the index under the last key in it.
FlushBlock(t, interval) ==
    IF t.block.len = 0 THEN t
    ELSE [t EXCEPT !.block = EmptyBlock,
                   !.blocks = Append(@, t.block),
                   !.index = AddPair(@, interval, t.last, Len(t.blocks) + 1)]

\* add_raw: a pair that does not fit starts a block.
AddToTable(t, size, interval, key, val) ==
    LET u == IF FullLen(t.block) + Len(key) + 1 > size THEN FlushBlock(t, interval) ELSE t
    IN  [u EXCEPT !.hashes = Append(@, Hash(key)),
                  !.block = AddPair(@, interval, key, val),
                  !.last = key]

\* finish.
Finished(t, interval) ==
    LET u == FlushBlock(t, interval)
    IN  [blocks |-> u.blocks, index |-> u.index, filter |-> Filter(u.hashes)]

\* BlockTableReader::get: filter, index, block.
Lookup(t, key) ==
    LET place == Seek(t.index, key)
        pair == Seek(t.blocks[place[2]], key)
    IN  CASE ~MayMatch(t.filter, key) -> None
          [] MayMatch(t.filter, key) /\ (place = None \/ Less(place[1], key)) -> None
          [] OTHER -> IF pair = None \/ pair[1] # key THEN None ELSE pair

\* BlockTableIterator::next until it has no more.
Iterated(t) ==
    LET places == Scan(t.index, 1)
    IN  FlattenSeq([i \in DOMAIN places |-> Scan(t.blocks[places[i][2]], 1)])

-----------------------------------------------------------------------------
(* Building one table and reading it. *)

VARIABLES
    size, interval,     \* options of the table
    table,              \* the builder
    pairs,              \* the pairs it was given
    file                \* what finish wrote; None before

vars == <<size, interval, table, pairs, file>>

Init ==
    /\ size \in BlockSizes
    /\ interval \in Intervals
    /\ table = NewTable
    /\ pairs = <<>>
    /\ file = None

\* add_raw, whose callers add keys in ascending order.
AddRaw(key) ==
    /\ file = None
    /\ \A p \in Range(pairs) : Less(p[1], key)
    /\ table' = AddToTable(table, size, interval, key, Len(pairs) + 1)
    /\ pairs' = Append(pairs, <<key, Len(pairs) + 1>>)
    /\ UNCHANGED <<size, interval, file>>

Finish ==
    /\ file = None
    /\ file' = Finished(table, interval)
    /\ UNCHANGED <<size, interval, table, pairs>>

Next == (\E key \in TableKeys : AddRaw(key)) \/ Finish

Spec == Init /\ [][Next]_vars

\* Whatever the keys, the size of blocks and the restart interval: a table
\* answers a lookup (BlockTableReader::get) with the pair it was built from
\* and no other key, and its iterator, which compactions read, yields exactly
\* these pairs in order.
TablesAreReadBack ==
    file # None =>
        /\ Iterated(file) = pairs
        /\ \A key \in TableKeys :
               LET given == SelectSeq(pairs, LAMBDA p : p[1] = key)
               IN  Lookup(file, key) = IF given = <<>> THEN None ELSE given[1]

=============================================================================
