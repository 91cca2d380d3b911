----------------------------- MODULE Operations -----------------------------
(***************************************************************************)
(* The algorithms on recorded operations (pkg/bench/ops.go, analyze.go):   *)
(* filters, time ranges, segments, percentiles, the CSV form and the       *)
(* merging of the operations of several clients.                           *)
(*                                                                         *)
(* An operation is a record                                                *)
(*     type, start, end, fb (time of the first byte or NoTime), err, size, *)
(*     file, thread, client, host                                          *)
(* with times in nanoseconds; 0 is Go's zero time and no operation starts  *)
(* before 1.  err tells whether the error string is non-empty.  The number *)
(* of objects of an operation, a float that only rates use, is left out.   *)
(***************************************************************************)
EXTENDS Integers, SequencesExt

NoTime == -1

Idx(o) == 1 .. Len(o)
Dur(op) == op.end - op.start
-----------------------------------------------------------------------------
(* The sum of f at the positions S up to n.                                *)
SumAt(S, f, n) ==
    LET F[k \in 0 .. n] == IF k = 0 THEN 0 ELSE F[k - 1] + (IF k \in S THEN f[k] ELSE 0)
    IN  F[n]

(* The positions S in the order of a number key[i] for each; equals keep   *)
(* their order.  (Written out, where proofs cannot look into SortSeq and   *)
(* SelectSeq.)                                                             *)
Order(S, key) ==
    LET before(i) == {j \in S : key[j] < key[i] \/ (key[j] = key[i] /\ j < i)}
        place == [i \in S |-> Cardinality(before(i)) + 1]
    IN  [k \in 1 .. Cardinality(S) |-> CHOOSE i \in S : place[i] = k]

(* The elements of o at the positions S in that order, or as they were.    *)
Arranged(o, S, key) ==
    LET p == Order(S, key)
    IN  [k \in 1 .. Cardinality(S) |-> o[p[k]]]
Keep(o, S) == Arranged(o, S, [i \in Idx(o) |-> i])

(* Sorting.  sort.Slice leaves the order of equals open; it is kept here.  *)
SortByStartTime(o) == Arranged(o, Idx(o), [i \in Idx(o) |-> o[i].start])
SortByDuration(o) == Arranged(o, Idx(o), [i \in Idx(o) |-> Dur(o[i])])
SortByTTFB(o) == Arranged(o, Idx(o), [i \in Idx(o) |-> o[i].fb - o[i].start])
Faster(a, b) ==
    IF a.size = 0 \/ b.size = 0 THEN Dur(a) < Dur(b)
    ELSE a.size * Dur(b) > b.size * Dur(a)
SortByThroughput(o) ==
    Arranged(o, Idx(o), [i \in Idx(o) |-> Cardinality({j \in Idx(o) : Faster(o[j], o[i])})])

(* Filters.                                                                *)
FilterByOp(o, t) == Keep(o, {i \in Idx(o) : t \in {o[i].type, ""}})
FilterByEndpoint(o, h) == Keep(o, {i \in Idx(o) : o[i].host = h})
FilterByHasTTFB(o) == Keep(o, {i \in Idx(o) : o[i].fb # NoTime})
FilterErrors(o) == Keep(o, {i \in Idx(o) : o[i].err})
FilterSuccessful(o) == Keep(o, {i \in Idx(o) : ~o[i].err})
FilterInsideRange(o, start, end) ==
    Keep(o, {i \in Idx(o) : o[i].start >= start /\ o[i].end <= end})
HasError(o) == \E i \in Idx(o) : o[i].err

(* What the operations touch; Threads counts the thread ids up to the      *)
(* highest one.                                                            *)
OpTypes(o) == {o[i].type : i \in Idx(o)}
Endpoints(o) == {o[i].host : i \in Idx(o)}
Clients(o) == {o[i].client : i \in Idx(o)}
Files(o) == {o[i].file : i \in Idx(o)}
Threads(o) == IF o = <<>> THEN 0 ELSE Max({o[i].thread : i \in Idx(o)}) + 1
IsMultiTouch(o) == Cardinality(Files(o)) < Len(o)
MultipleSizes(o) == \E i \in Idx(o) : ~o[i].err /\ o[i].size # o[1].size

(* The first operation on each file, and the last.                         *)
FilterFirst(o) ==
    LET s == SortByStartTime(o)
    IN  Keep(s, {i \in Idx(s) : \A j \in 1 .. i - 1 : s[j].file # s[i].file})
FilterLast(o) ==
    LET s == SortByStartTime(o)
    IN  Arranged(s, {i \in Idx(s) : \A j \in i + 1 .. Len(s) : s[j].file # s[i].file},
                 [i \in Idx(s) |-> -i])

(* Mutant of MedianIdx: no rounding.                                       *)
MedianIdxDown(n, p) == IF n * p >= 100 * n THEN n ELSE Max({1, (n * p) \div 100})

(* Median(p percent) of a sorted list of length n, as an index from 1: the *)
(* rounded share of the length, clamped to the last element.               *)
MedianIdx(n, p) == Min({(2 * n * p + 100) \div 200, n - 1}) + 1
Median(o, p) == o[MedianIdx(Len(o), p)]

(* The percentiles that are reported by name.                              *)
Percents == {0, 25, 50, 75, 90, 99, 100}
-----------------------------------------------------------------------------
(* Time ranges.                                                            *)
Interval(a, b) == [start |-> a, end |-> b]

TimeRange(o) ==
    IF o = <<>> THEN Interval(0, 0)
    ELSE Interval(Min({o[i].start : i \in Idx(o)}), Max({o[i].end : i \in Idx(o)}))
Duration(o) == TimeRange(o).end - TimeRange(o).start

OrNothing(r) == IF r.start > r.end THEN Interval(r.start, r.start) ELSE r

(* Only one operation is discarded at each end ...                         *)
ActiveExceptOne(o) ==
    LET startF == Min({o[1].start} \cup {o[i].end : i \in Idx(o)})
        endF == Max({o[1].end} \cup {o[i].start : i \in Idx(o)})
    IN  OrNothing(Interval(
            Min({endF} \cup {o[i].start : i \in {j \in Idx(o) : o[j].start > startF}}),
            Max({startF} \cup {o[i].end : i \in {j \in Idx(o) : o[j].end < endF}})))

(* Mutant of ActiveAllThreads: the range begins when a thread is through.  *)
ActiveAnyThread(o) ==
    LET Of(t) == {i \in Idx(o) : o[i].thread = t}
        ts == {o[i].thread : i \in Idx(o)}
    IN  OrNothing(Interval(Min({Min({o[i].end : i \in Of(t)}) : t \in ts}),
                           Min({Max({o[i].start : i \in Of(t)}) : t \in ts})))

(* ... or each thread has completed a request, up to the first of the last *)
(* starts of the threads.                                                  *)
ActiveAllThreads(o) ==
    LET Of(t) == {i \in Idx(o) : o[i].thread = t}
        ts == {o[i].thread : i \in Idx(o)}
    IN  OrNothing(Interval(Max({Min({o[i].end : i \in Of(t)}) : t \in ts}),
                           Min({Max({o[i].start : i \in Of(t)}) : t \in ts})))

ActiveTimeRange(o, allThreads) ==
    CASE o = <<>> -> Interval(0, 0)
      [] allThreads /\ o # <<>> -> ActiveAllThreads(o)
      [] OTHER -> ActiveExceptOne(o)

(* Mutant of isMixed: types that follow each other are mixed.              *)
isMixedTouching(o) ==
    \E a, b \in OpTypes(o) :
        LET ra == TimeRange(FilterByOp(o, a))
            rb == TimeRange(FilterByOp(o, b))
        IN  a # b /\ ra.start <= rb.start /\ ra.end >= rb.start

(* Types overlap; the later start is looked at for one order of the pair   *)
(* only, the other order compares the ends.                                *)
Overlaps(ra, rb) == IF rb.start < ra.start THEN rb.end > ra.start ELSE ra.end > rb.end

isMixed(o) ==
    \E a, b \in OpTypes(o) :
        a # b /\ Overlaps(TimeRange(FilterByOp(o, a)), TimeRange(FilterByOp(o, b)))
-----------------------------------------------------------------------------
(* Segments.                                                               *)

(* Operation.Aggregate: what an operation adds to a segment, by where it   *)
(* starts and ends.  The loop over the sorted operations breaks at the     *)
(* first one that starts after the segment.                                *)
InSegment(op, s) ==
    /\ op.start < s.ends
    /\ s.type \in {"", op.type}
    /\ op.end >= s.start
StartedIn(op, s) == op.start >= s.start
EndedIn(op, s) == op.end < s.ends
Whole(op, s) == StartedIn(op, s) /\ EndedIn(op, s)

(* Mutant of PartSize: a part is charged with the whole size.              *)
PartSizeWhole(op, s) == op.size

(* The share of the bytes that falls into the segment.                     *)
PartSize(op, s) ==
    (op.size * (Min({op.end, s.ends}) - Max({op.start, s.start}))) \div Dur(op)

Bytes(op, s) ==
    CASE Whole(op, s) -> IF op.err THEN 0 ELSE op.size
      [] op.err /\ (StartedIn(op, s) \/ EndedIn(op, s)) -> 0
      [] OTHER -> PartSize(op, s)

(* "Search for the first entry": the last of the leading operations that   *)
(* ended by the start of the segment.                                      *)
FirstEntry(o, s) ==
    LET lead == {i \in Idx(o) : \A j \in 1 .. i : o[j].end <= s.start}
    IN  IF lead = {} THEN 1 ELSE Max(lead)

NoSegment == [type |-> "", start |-> 0, ends |-> 0, bytes |-> 0, full |-> 0,
              partial |-> 0, started |-> 0, ended |-> 0, errors |-> 0]

FillSegment(o, s) ==
    LET in == {i \in FirstEntry(o, s) .. Len(o) : InSegment(o[i], s)}
        full == {i \in in : Whole(o[i], s) /\ ~o[i].err}
        part == {i \in in : ~Whole(o[i], s)}
    IN  [s EXCEPT !.bytes = SumAt(in, [i \in in |-> Bytes(o[i], s)], Len(o)),
                  !.full = Cardinality(full),
                  !.partial = Cardinality(part),
                  !.started = Cardinality(full \cup {i \in part : StartedIn(o[i], s)}),
                  !.ended = Cardinality(full \cup {i \in part : EndedIn(o[i], s)}),
                  !.errors = Cardinality({i \in in : o[i].err /\ EndedIn(o[i], s)})]

(* Segments of length dur from the start of the active range (or from      *)
(* from, if that is later) to its end.                                     *)
Segment(ops, from, dur, allThreads, multiOp) ==
    LET o == SortByStartTime(ops)
        r == ActiveTimeRange(o, allThreads)
        first == Max({from, r.start})
        n == IF r.end - dur <= first THEN 0 ELSE (r.end - first - 1) \div dur
        Blank(k) == [NoSegment EXCEPT
                        !.type = IF multiOp THEN "" ELSE o[1].type,
                        !.start = first + (k - 1) * dur,
                        !.ends = first + k * dur]
    IN  IF dur <= 0 THEN <<>> ELSE [k \in 1 .. n |-> FillSegment(o, Blank(k))]

(* The active operations as one segment, a nanosecond shorter than the     *)
(* active range; a range of one nanosecond would make it index an empty    *)
(* slice.                                                                  *)
Total(o, allThreads) ==
    LET r == ActiveTimeRange(o, allThreads)
    IN  IF r.start = r.end THEN NoSegment
        ELSE Segment(o, r.start, r.end - r.start - 1, allThreads, isMixed(o))[1]

(* Segments of one length, the slowest first.                              *)
SortSegments(segs) == Arranged(segs, Idx(segs), [i \in Idx(segs) |-> segs[i].bytes])
SegmentMedian(segs, p) == segs[MedianIdx(Len(segs), p)]

(* Percentiles of the time to the first byte.                              *)
TTFB(o, start, end) ==
    LET s == SortByTTFB(FilterInsideRange(FilterByHasTTFB(o), start, end))
    IN  IF start >= end \/ s = <<>> THEN <<>>
        ELSE [p \in Percents |-> Median(s, p).fb - Median(s, p).start]
-----------------------------------------------------------------------------
(* Sizes, up to the 32 bits of TLC.  A decimal magnitude k stands for the  *)
(* binary size 10^(k % 3) * 2^(10 * (k / 3)).                              *)
log10ToLog2Size == [k \in 0 .. 8 |-> 10 ^ (k % 3) * 2 ^ (10 * (k \div 3))]
Log10(n) == Max({k \in 0 .. 8 : 10 ^ k <= n})

MinMaxSize(o) == Interval(Min({o[i].size : i \in Idx(o)}), Max({o[i].size : i \in Idx(o)}))

SingleSizeSegment(o) ==
    LET mm == MinMaxSize(o)
    IN  [lo |-> Min({k \in 0 .. 7 : mm.start <= log10ToLog2Size[k + 1]}),
         hi |-> Min({k \in 0 .. 8 : mm.end < log10ToLog2Size[k]}), ops |-> o]

(* SplitSizes: a range takes in magnitudes until it holds the share of the *)
(* requests that is asked for.  Each magnitude goes through the list from  *)
(* the start of the range, so what the range already held is taken again;  *)
(* what is left over at the end is not returned.  (at lists positions.)    *)
SizeRanges(sizes, low, high, wantN) ==
    LET Between(a, b) == {i \in Idx(sizes) : /\ sizes[i] >= log10ToLog2Size[a]
                                             /\ sizes[i] < log10ToLog2Size[b]}
        F[k \in low .. high + 1] ==
            IF k = low THEN [res |-> {}, from |-> low, at |-> <<>>]
            ELSE LET p == F[k - 1]
                     held == p.at \o Order(Between(p.from, k), [i \in Idx(sizes) |-> i])
                 IN  IF Len(held) >= wantN
                     THEN [res |-> p.res \cup {[lo |-> p.from, hi |-> k, at |-> held]},
                           from |-> k, at |-> <<>>]
                     ELSE [p EXCEPT !.at = held]
    IN  F[high + 1].res

SplitSizes(o, share) ==
    LET mm == MinMaxSize(o)
        ranges == SizeRanges([i \in Idx(o) |-> o[i].size], Log10(Max({mm.start, 1})),
                             Log10(Max({mm.end, 1})), (Len(o) * share) \div 100)
    IN  IF ~MultipleSizes(o) THEN {SingleSizeSegment(o)}
        ELSE {[lo |-> z.lo, hi |-> z.hi, ops |-> [k \in Idx(z.at) |-> o[z.at[k]]]] : z \in ranges}
-----------------------------------------------------------------------------
(* The CSV form: every field is written, and read back by its column.      *)
(* Loading for analysis skips rows, stops at the limit (0: none), numbers  *)
(* the files and letters the clients in the order they appear.             *)

(* Mutant of Rank: a new name reuses the last number.                      *)
RankStuck(names, x) == 1

(* The number of the first appearance of a name.                           *)
Rank(names, x) ==
    LET first == Min({i \in Idx(names) : names[i] = x})
    IN  Cardinality({names[i] : i \in 1 .. first})

OperationsFromCSV(rows, offset, limit) ==
    LET stop == IF limit > 0 THEN Min({Len(rows), offset + limit}) ELSE Len(rows)
        used == SubSeq(rows, offset + 1, stop)
        files == [i \in Idx(used) |-> used[i].file]
        clients == [i \in Idx(used) |-> used[i].client]
    IN  [i \in Idx(used) |->
            [used[i] EXCEPT !.file = Rank(files, @),
                            !.client = (97 + Rank(clients, @) - 1) % 256]]
-----------------------------------------------------------------------------
(* Merging the operations of clients, as runServerBenchmark does.  Thread  *)
(* numbers are 16 bits wide.                                               *)
OffsetThreads(o, n) == [i \in Idx(o) |-> [o[i] EXCEPT !.thread = (@ + n) % 2 ^ 16]]

(* Mutant of NextThread: the highest thread number, not the next.          *)
NextThreadSame(o, n) ==
    IF o = <<>> THEN 0 ELSE Threads(OffsetThreads(o, n)) - 1

(* What OffsetThreads returns.                                             *)
NextThread(o, n) == Threads(OffsetThreads(o, n)) % 2 ^ 16

Merge(downloaded) ==
    LET F[k \in 0 .. Len(downloaded)] ==
            IF k = 0 THEN [ops |-> <<>>, threads |-> 0]
            ELSE [ops |-> F[k - 1].ops \o OffsetThreads(downloaded[k], F[k - 1].threads),
                  threads |-> NextThread(downloaded[k], F[k - 1].threads)]
    IN  IF Len(downloaded) = 1 THEN downloaded[1] ELSE F[Len(downloaded)].ops
=============================================================================
