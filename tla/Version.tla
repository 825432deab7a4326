------------------------------ MODULE Version ------------------------------
(***************************************************************************)
(* Versions of the LSM tree (src/version.rs): which files a version holds  *)
(* at which level, how a key is looked up in them, which files a           *)
(* compaction takes, how an edit turns one version into the next, and how  *)
(* the merging iterator of a compaction orders and discards pairs          *)
(* (src/merging_iter.rs).  Operators only; VersionSet has the state.       *)
(*                                                                         *)
(* A version is a function from levels to sequences of file records        *)
(* [num, size, xip, inf, sup, busy].  Keys are integers, sizes count       *)
(* pairs, and 0 stands for Timestamp::default(), which is less than all    *)
(* valid timestamps.  disk[num] is the content of a table file.            *)
(***************************************************************************)
EXTENDS Integers, Sequences, FiniteSets, SequencesExt, FiniteSetsExt

CONSTANTS
    NumLevels,      \* options.num_levels
    L0Trigger,      \* options.level0_file_num_compaction_trigger
    LevelBase,      \* options.max_bytes_for_level_base, in pairs
    LevelMult,      \* options.max_bytes_for_level_multiplier
    MaxFileSize     \* options.max_file_size_for_level, in pairs

ASSUME OptionsAssumption ==
    /\ NumLevels \in Nat /\ NumLevels >= 2
    /\ {L0Trigger, LevelBase, LevelMult, MaxFileSize} \subseteq Nat \ {0}

Levels == 0 .. NumLevels - 1
DefaultTs == 0
Absent == 0         \* what a lookup returns for a key it does not find
Unreadable == -1    \* what it returns when the file fails its checksums

EmptyVersion == [l \in Levels |-> <<>>]

Overlaps(f, inf, sup) == f.sup >= inf /\ f.inf <= sup

AnyBusy(fs) == \E i \in DOMAIN fs : fs[i].busy

\* Iterator::filter: the elements of s that are in T.
Kept(s, T) ==
    LET kept[rest \in Seq(Range(s))] ==
            CASE rest = <<>> -> <<>>
              [] rest # <<>> /\ Head(rest) \in T -> <<Head(rest)>> \o kept[Tail(rest)]
              [] OTHER -> kept[Tail(rest)]
    IN  kept[s]

-----------------------------------------------------------------------------
(* Lookup. *)

\* find_in_files: how many files have their supremum below the key, by
\* halving; the key can only be in the next one.
FilesBelow(files, key) ==
    LET ranges == {r \in (0 .. Len(files)) \X (0 .. Len(files)) : r[1] + r[2] <= Len(files)}
        first[range \in ranges] ==
            LET from == range[1]
                count == range[2]
                step == count \div 2
            IN  CASE count = 0 -> from
                  [] count > 0 /\ files[from + step + 1].sup < key ->
                        first[<<from + step + 1, count - step - 1>>]
                  [] OTHER -> first[<<from, step>>]
    IN  first[<<0, Len(files)>>]

\* What one table file answers.
Answer(disk, num, key) ==
    CASE ~disk[num].ok -> Unreadable
      [] disk[num].ok /\ key \in DOMAIN disk[num].pairs -> disk[num].pairs[key]
      [] OTHER -> Absent

\* Version::get: of level 0 the files that span the key, newest first, then
\* one file of each other level.  The first answer is final, an error too.
Get(v, disk, key) ==
    LET AnswerOf(f) == Answer(disk, f.num, key)
        below[l \in 1 .. NumLevels] ==
            CASE l = NumLevels -> Absent
              [] l < NumLevels /\ FilesBelow(v[l], key) < Len(v[l]) ->
                    LET answer == AnswerOf(v[l][FilesBelow(v[l], key) + 1])
                    IN  IF answer # Absent THEN answer ELSE below[l + 1]
              [] OTHER -> below[l + 1]
        newest[i \in 1 .. Len(v[0]) + 1] ==
            CASE i > Len(v[0]) -> below[1]
              [] /\ i <= Len(v[0])
                 /\ v[0][i].inf <= key /\ key <= v[0][i].sup
                 /\ AnswerOf(v[0][i]) # Absent -> AnswerOf(v[0][i])
              [] OTHER -> newest[i + 1]
    IN  newest[1]

-----------------------------------------------------------------------------
(* Choosing the inputs of a compaction. *)

\* calculate_compaction_score: level 0 counts files, the levels between weigh
\* them, the last one is never compacted; files being compacted do not count.
ScoreReachesOne(v, level) ==
    LET free == {i \in DOMAIN v[level] : ~v[level][i].busy}
    IN  CASE level = NumLevels - 1 -> FALSE
          [] level = 0 -> Cardinality(free) >= L0Trigger
          [] OTHER -> MapThenSumSet(LAMBDA i : v[level][i].size, free) >= LevelBase * LevelMult ^ level

\* get_range.  The files of a level above 0 are sorted.
LowKey(level, files) ==
    IF level = 0 THEN Min({files[i].inf : i \in DOMAIN files}) ELSE files[1].inf
HighKey(level, files) ==
    IF level = 0 THEN Max({files[i].sup : i \in DOMAIN files}) ELSE files[Len(files)].sup

\* get_overlapping_inputs.  Level 0 is ordered newest first: everything that
\* is not newer than the selection belongs to it, and newer files as long as
\* they overlap and are free.
OverlappingInputs(v, level, prev, inf, sup) ==
    IF level = 0
    THEN LET maxTs == Max({prev[i].xip : i \in DOMAIN prev})
             Taken(f) == f.xip <= maxTs \/ (Overlaps(f, inf, sup) /\ ~f.busy)
             from == {i \in 1 .. Len(v[0]) + 1 : \A j \in i .. Len(v[0]) : Taken(v[0][j])}
         IN  SubSeq(v[0], Min(from), Len(v[0]))
    ELSE Kept(v[level], {f \in Range(v[level]) : Overlaps(f, inf, sup)})

\* expand_inputs.  The loop ends when the selection no longer grows, which is
\* so after as many rounds as there are files.
Expanded(v, level, files) ==
    LET grown[n \in 0 .. Len(v[level])] ==
            IF n = 0 THEN files
            ELSE LET fs == grown[n - 1]
                 IN  IF fs = <<>> THEN fs
                     ELSE OverlappingInputs(v, level, fs, LowKey(level, fs), HighKey(level, fs))
    IN  grown[Len(v[level])]

\* Variant: the files of the output level are left alone.
StartInputsOnly(v, level, f) == <<Expanded(v, level, <<f>>), <<>> >>

\* The inputs of a compaction that starts from file f.
InputsFrom(v, level, f) ==
    LET start == Expanded(v, level, <<f>>)
        inf == LowKey(level, start)
        sup == HighKey(level, start)
    IN  <<start, Expanded(v, level + 1, OverlappingInputs(v, level + 1, <<>>, inf, sup))>>

\* try_pick_files_to_compact: the positions it may start from.  At level 0
\* only the oldest free file is tried; no input may be in use.
StartFiles(v, level) ==
    LET free == {i \in DOMAIN v[level] : ~v[level][i].busy}
        Usable(i) == LET ins == InputsFrom(v, level, v[level][i])
                     IN  ~AnyBusy(ins[1]) /\ ~AnyBusy(ins[2])
        Tried(i) == level = 0 => \A j \in free : v[0][i].xip <= v[0][j].xip
    IN  {i \in free : Tried(i) /\ Usable(i)}

\* pick_compaction: the lowest level whose score is reached and that has a
\* usable start file, and there the largest one.
PickableLevels(v, l0InProgress) ==
    {l \in Levels : /\ ScoreReachesOne(v, l)
                    /\ ~(l = 0 /\ l0InProgress)
                    /\ StartFiles(v, l) # {}}

StartFile(v, level) ==
    LET start == StartFiles(v, level)
        size(i) == v[level][i].size
    IN  v[level][CHOOSE i \in start :
                    \A j \in start : size(i) > size(j) \/ (size(i) = size(j) /\ i <= j)]

-----------------------------------------------------------------------------
(* Edits. *)

\* compare_level_files: level 0 newest first, the others by key.
Before(level, a, b) ==
    IF level = 0 THEN a.xip > b.xip ELSE a.inf < b.inf

\* merge_iters: an added file goes before a base file only if it is less.
MergeFiles(level, added, base) ==
    LET merged[at \in (1 .. Len(added) + 1) \X (1 .. Len(base) + 1)] ==
            LET i == at[1]
                j == at[2]
            IN  CASE i > Len(added) -> SubSeq(base, j, Len(base))
                  [] i <= Len(added) /\ j > Len(base) -> SubSeq(added, i, Len(added))
                  [] OTHER -> IF Before(level, added[i], base[j])
                              THEN <<added[i]>> \o merged[<<i + 1, j>>]
                              ELSE <<base[j]>> \o merged[<<i, j + 1>>]
    IN  merged[<<1, 1>>]

\* VersionBuilder::apply and save_to: added files merged in, deleted ones
\* filtered out, marked ones marked.  deleted and marked are sets of
\* <<level, num>>, added a sequence of files for one level, in key order.
Applied(v, level, added, deleted, marked) ==
    [l \in Levels |->
        LET merged == MergeFiles(l, IF l = level THEN added ELSE <<>>, v[l])
            kept == Kept(merged, {f \in Range(merged) : <<l, f.num>> \notin deleted})
        IN  [i \in DOMAIN kept |->
                IF <<l, kept[i].num>> \in marked THEN [kept[i] EXCEPT !.busy = TRUE] ELSE kept[i]]]

-----------------------------------------------------------------------------
(* The input of a compaction. *)

\* Variant: the last of several equal keys wins.
NewerTsOrLater(ts, last) == ts >= last

\* MergingIter::next: a later iterator's pair replaces one of the same key
\* only if it has a valid and greater timestamp.
NewerTs(ts, last) == ts # DefaultTs /\ last < ts

\* MergingIter over the input files: its pairs, which come in the order of
\* their keys.  Of equal keys next_with_timestamp yields that of the first
\* iterator first, and next drops the losers.  make_input_iterator gives level
\* 0 its timestamps and all others the default.
MergedPairs(level, inputs, disk) ==
    LET files == inputs[1] \o inputs[2]
        Ts(i) == IF level = 0 /\ i <= Len(inputs[1]) THEN files[i].xip ELSE DefaultTs
        Pairs(i) == disk[files[i].num].pairs
        Having(k) == {i \in DOMAIN files : k \in DOMAIN Pairs(i)}
        Winner(k) == CHOOSE i \in Having(k) : \A j \in Having(k) :
                         /\ j < i => NewerTs(Ts(i), Ts(j))
                         /\ i < j => ~NewerTs(Ts(j), Ts(i))
    IN  [k \in UNION {DOMAIN Pairs(i) : i \in DOMAIN files} |-> Pairs(Winner(k))[k]]

\* start_compaction, one output file: the first pair is always taken, and the
\* size is only looked at after each further one.
OutputLength(rest) ==
    LET left == Cardinality(DOMAIN rest)
        stop == {n \in 2 .. left : n > MaxFileSize}
    IN  IF stop = {} THEN left ELSE Min(stop)

\* The keys of the pairs it takes.
OutputKeys(rest) ==
    {k \in DOMAIN rest : Cardinality({l \in DOMAIN rest : l < k}) < OutputLength(rest)}

=============================================================================
