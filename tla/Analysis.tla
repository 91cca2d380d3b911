------------------------------ MODULE Analysis ------------------------------
(***************************************************************************)
(* From recorded operations to the report: the clients of a benchmark      *)
(* record operations, the coordinator downloads and merges them, the data  *)
(* is written as CSV and read again, and printAnalysis aggregates it       *)
(* (cli/benchserver.go, cli/analyze.go, pkg/aggregate).  The algorithms    *)
(* are those of module Operations.                                         *)
(***************************************************************************)
EXTENDS Operations

CONSTANTS
    N,            \* number of clients, each with threads 0 .. T - 1
    T,
    Kinds,        \* what an operation can be: type, err, size, file, host, fb
    Tick,         \* resolution of the clock in nanoseconds
    MaxTick,      \* bound: operations end by Tick * MaxTick
    Lengths,      \* bound: how many ticks an operation takes
    MaxOps,       \* bound: operations recorded
    StdDurations, \* the segment durations analysisDur tries, in order
    WantAtMost,   \* the number of segments it accepts
    MinShare,     \* percent of the requests for a range of sizes (5 in the code)
    Flags         \* flags of an analysis: host, op ("": all), skip, offset, limit

ASSUME AnalysisAssumption ==
    /\ N \in Nat \ {0} /\ T \in 1 .. 2 ^ 16   \* Operation.Thread is a uint16
    /\ Tick \in Nat \ {0, 1}
    /\ MaxTick \in Nat /\ Lengths \subseteq Nat /\ MaxOps \in Nat /\ WantAtMost \in Nat
    /\ StdDurations \in Seq(Nat \ {0}) /\ StdDurations # <<>>
    /\ MinShare \in 0 .. 100
    /\ \A k \in Kinds : k.size \in Nat
    /\ \A f \in Flags : f.skip \in Nat /\ f.offset \in Nat /\ f.limit \in Nat

(* The operations of the benchmarks have a type.                           *)
ASSUME KindsNamed == \A k \in Kinds : k.type # ""

VARIABLES
    pc,     \* run, merged, or done
    got,    \* the operations of each client, in the order of the download
    ops,    \* the operations merged and then analysed
    flags,  \* the flags of the analysis
    aggr    \* its result

vars == <<pc, got, ops, flags, aggr>>
-----------------------------------------------------------------------------
(* analysisDur: the first standard duration that gives few enough          *)
(* segments, else the longest; none for no time at all.                    *)
analysisDur(total) ==
    LET fits == {i \in Idx(StdDurations) : total \div StdDurations[i] <= WantAtMost}
    IN  CASE total <= 0 -> 0
          [] total > 0 /\ fits = {} -> StdDurations[Len(StdDurations)]
          [] OTHER -> StdDurations[Min(fits)]

(* Throughput.fill: what a rate is computed from.                          *)
Throughput(total, errors) ==
    [operations |-> total.full, bytes |-> total.bytes,
     duration |-> total.ends - total.start, errors |-> errors]

Percentiles(o) ==
    LET s == SortByDuration(o)
    IN  [p \in Percents |-> Dur(Median(s, p))]

(* SingleSizedRequests.fill and fillFirstLast.                             *)
FillSingle(o) ==
    [requests |-> Len(o), dur |-> Percentiles(o),
     ttfb |-> TTFB(o, TimeRange(o).start, TimeRange(o).end)]
FirstLast(o) ==
    IF IsMultiTouch(o) THEN <<FillSingle(FilterFirst(o)), FillSingle(FilterLast(o))>>
    ELSE <<>>

(* RequestSizeRange.fill and fillFirst: what a rate is computed from, for  *)
(* requests of similar sizes, the fastest first.                           *)
FillRange(seg) ==
    LET s == SortByThroughput(seg.ops)
    IN  [requests |-> Len(s), lo |-> seg.lo, hi |-> seg.hi,
         bps |-> [p \in IF s = <<>> THEN {} ELSE Percents |->
                     [size |-> Median(s, p).size, dur |-> Dur(Median(s, p))]]]
FillFirst(seg) ==
    IF IsMultiTouch(seg.ops) THEN <<FillRange([seg EXCEPT !.ops = FilterFirst(@)])>>
    ELSE <<>>

(* MultiSizedRequests.fill: one entry for each range of sizes.             *)
FillMulti(o) ==
    {[range |-> FillRange(seg), first |-> FillFirst(seg),
      ttfb |-> TTFB(seg.ops, TimeRange(o).start, TimeRange(o).end)] :
        seg \in SplitSizes(o, MinShare)}

(* ThroughputSegmented.fill, for segments with bytes; without any they are *)
(* sorted by a number of objects that is not modelled.                     *)
Segmented(segs, total) ==
    LET s == SortSegments(segs)
    IN  IF total.bytes = 0 THEN [sortedBy |-> "ops"]
        ELSE [sortedBy |-> "bps", slowest |-> SegmentMedian(s, 0).bytes,
              median |-> SegmentMedian(s, 50).bytes, fastest |-> SegmentMedian(s, 100).bytes]

(* Statistics by host, for hosts with two requests at least.               *)
BusyHosts(o) == {h \in Endpoints(o) : Len(FilterByEndpoint(o, h)) > 1}
RequestAnalysisHostsSingleSized(o) ==
    [h \in BusyHosts(o) |-> FillSingle(FilterByEndpoint(o, h))]
RequestAnalysisHostsMultiSized(o) ==
    [h \in BusyHosts(o) |->
        LET mine == FilterByEndpoint(o, h)
        IN  [range |-> FillRange(SingleSizeSegment(mine)),
             ttfb |-> TTFB(mine, TimeRange(o).start, TimeRange(o).end)]]

(* The requests that are considered lie in the active range of all.        *)
RequestAnalysisSingleSized(o, allThreads) ==
    LET r == ActiveTimeRange(o, allThreads)
        active == FilterInsideRange(o, r.start, r.end)
    IN  IF active = <<>> THEN [requests |-> 0]
        ELSE [requests |-> Len(active), all |-> FillSingle(active), firstLast |-> FirstLast(o),
              byHost |-> RequestAnalysisHostsSingleSized(o)]

RequestAnalysisMultiSized(o, allThreads) ==
    LET r == ActiveTimeRange(o, allThreads)
        active == FilterInsideRange(o, r.start, r.end)
    IN  IF active = <<>> THEN [requests |-> 0]
        ELSE [requests |-> Len(active), bySize |-> FillMulti(active),
              byHost |-> RequestAnalysisHostsMultiSized(active)]

(* Throughput by host; a host where every request failed has none.         *)
ThroughputByHost(o) ==
    [h \in Endpoints(FilterSuccessful(o)) |->
        LET all == FilterByEndpoint(o, h)
        IN  Throughput(Total(FilterSuccessful(all), FALSE), Len(FilterErrors(all)))]

(* Mutant of AggregateType: failed operations stay in.                     *)
AggregateTypeFailed(o, t, prefiltered, skip) ==
    LET mine == FilterByOp(o, t)
        segs == Segment(mine, 0, analysisDur(Duration(mine)), ~prefiltered, FALSE)
    IN  IF Len(segs) <= 1
        THEN [type |-> t, n |-> Len(mine), errors |-> Len(FilterErrors(mine)), skipped |-> TRUE]
        ELSE [type |-> t, n |-> Len(mine), errors |-> Len(FilterErrors(mine)),
              skipped |-> FALSE, segs |-> segs,
              throughput |-> Throughput(Total(mine, ~prefiltered), 0),
              segmented |-> Segmented(segs, Total(mine, ~prefiltered)),
              concurrency |-> Threads(mine), clients |-> Cardinality(Clients(mine)),
              requests |-> RequestAnalysisSingleSized(mine, ~prefiltered),
              byHost |-> ThroughputByHost(mine)]

(* Aggregate, the goroutine of one operation type.                         *)
AggregateType(o, t, prefiltered, skip) ==
    LET of == FilterByOp(o, t)
        r == TimeRange(of)
        mine == IF skip > 0 THEN FilterInsideRange(of, r.start + skip, r.end) ELSE of
        segs == Segment(mine, 0, analysisDur(Duration(mine)), ~prefiltered, FALSE)
        good == FilterSuccessful(mine)
    IN  IF Len(segs) <= 1 \/ good = <<>>
        THEN [type |-> t, n |-> Len(mine), errors |-> Len(FilterErrors(mine)), skipped |-> TRUE]
        ELSE [type |-> t, n |-> Len(mine), errors |-> Len(FilterErrors(mine)),
              skipped |-> FALSE, segs |-> segs,
              throughput |-> Throughput(Total(good, ~prefiltered), 0),
              segmented |-> Segmented(segs, Total(good, ~prefiltered)),
              concurrency |-> Threads(good), clients |-> Cardinality(Clients(good)),
              requests |-> IF MultipleSizes(good)
                           THEN RequestAnalysisMultiSized(good, ~prefiltered)
                           ELSE RequestAnalysisSingleSized(good, ~prefiltered),
              byHost |-> ThroughputByHost(mine)]

(* Aggregate, the part of mixed operations: which operations count, and    *)
(* the statistics of the whole.                                            *)
MixedOps(o, prefiltered, skip) ==
    LET act == ActiveTimeRange(o, ~prefiltered)
        r == TimeRange(o)
    IN  CASE ~HasError(o) -> FilterInsideRange(o, act.start + skip, act.end)
          [] HasError(o) /\ skip > 0 -> FilterInsideRange(o, r.start + skip, r.end)
          [] OTHER -> o
MixedStats(o, errs) ==
    LET good == FilterSuccessful(o)
        total == Total(good, FALSE)
    IN  [throughput |-> Throughput(total, Len(errs)),
         segs |-> Segment(good, 0, analysisDur(total.ends - total.start), FALSE, TRUE),
         byHost |-> [h \in Endpoints(o) |->
                        Throughput(Total(FilterByEndpoint(good, h), FALSE),
                                   Len(FilterByEndpoint(errs, h)))]]

Aggregate(unsorted, filtered, skip) ==
    LET o == SortByStartTime(unsorted)
        prefiltered == filtered \/ HasError(o)
        used == MixedOps(o, prefiltered, skip)
    IN  IF isMixed(o)
        THEN [mixed |-> TRUE, stats |-> MixedStats(used, FilterErrors(o)),
              types |-> {AggregateType(used, t, TRUE, 0) : t \in OpTypes(o)}]
        ELSE [mixed |-> FALSE,
              types |-> {AggregateType(o, t, prefiltered, skip) : t \in OpTypes(o)}]

(* printAnalysis: the filters of the flags come first.                     *)
Selected(o, f) ==
    LET hosted == IF f.host = "" THEN o ELSE FilterByEndpoint(o, f.host)
    IN  FilterByOp(hosted, f.op)
Prefiltered(o, f) ==
    \/ f.host # ""
    \/ f.op # "" /\ isMixed(o)
-----------------------------------------------------------------------------
Init ==
    /\ pc = "run"
    /\ got = [i \in 1 .. N |-> <<>>]
    /\ ops = <<>>
    /\ flags = <<>>
    /\ aggr = <<>>

Recorded == SumAt(1 .. N, [i \in 1 .. N |-> Len(got[i])], N)

(* A thread makes one request after the other; the collector receives an   *)
(* operation when it has ended.                                            *)
Record(i, t, k, start, end) ==
    /\ pc = "run"
    /\ Recorded < MaxOps
    /\ \A j \in Idx(got[i]) :
          /\ got[i][j].end <= end
          /\ got[i][j].thread = t => got[i][j].end <= start
    /\ got' = [got EXCEPT ![i] = Append(@,
                 [type |-> k.type, start |-> start, end |-> end,
                  fb |-> IF k.fb THEN (start + end) \div 2 ELSE NoTime,
                  err |-> k.err, size |-> k.size, file |-> k.file,
                  thread |-> t, client |-> i, host |-> k.host])]
    /\ UNCHANGED <<pc, ops, flags, aggr>>

(* runServerBenchmark has downloaded the operations.                       *)
MergeAll ==
    /\ pc = "run"
    /\ pc' = "merged"
    /\ ops' = SortByStartTime(Merge(got))
    /\ UNCHANGED <<got, flags, aggr>>

(* The operations are analysed as they are, or after a detour over the     *)
(* CSV file.                                                               *)
Load(f) ==
    /\ pc = "merged"
    /\ ops' = OperationsFromCSV(ops, f.offset, f.limit)
Report(f, o) ==
    /\ pc' = "done"
    /\ flags' = f
    /\ aggr' = Aggregate(Selected(o, f), Prefiltered(o, f), f.skip)
    /\ UNCHANGED got
Analyze(f) ==
    /\ pc = "merged"
    /\ f.offset = 0 /\ f.limit = 0
    /\ UNCHANGED ops
    /\ Report(f, ops)
AnalyzeFile(f) == Load(f) /\ Report(f, ops')

Next ==
    \/ \E i \in 1 .. N, t \in 0 .. T - 1, k \in Kinds,
          a \in 1 .. MaxTick, d \in Lengths :
             a + d <= MaxTick /\ Record(i, t, k, a * Tick, (a + d) * Tick)
    \/ MergeAll
    \/ \E f \in Flags : Analyze(f) \/ AnalyzeFile(f)

Spec == Init /\ [][Next]_vars
-----------------------------------------------------------------------------
(* The sum of numbers f[x] over a set, counted out.                        *)
SumOver(S, f) == Cardinality(UNION {{x} \X (1 .. f[x]) : x \in S})

(* "All threads must have completed at least one request and the last      *)
(* start time of any thread" (ops.go:748), of every thread of every client *)
(* after the merge: before the active range each has completed a request   *)
(* and when it ends or later each starts another.  With one operation      *)
(* discarded, something begins before the range and ends after it.  A      *)
(* client without operations resets the thread numbers (OffsetThreads), so *)
(* it is supposed to come last.                                            *)
ActiveRangeIsActive ==
    pc = "merged" /\ ops # <<>> =>
        \A allThreads \in BOOLEAN :
            LET r == ActiveTimeRange(ops, allThreads)
                Mine(i, t) == {got[i][j] : j \in {k \in Idx(got[i]) : got[i][k].thread = t}}
            IN  /\ r.start <= r.end
                /\ r.start < r.end /\ allThreads /\ (\A i \in 1 .. N - 1 : got[i] # <<>>) =>
                     \A i \in 1 .. N, t \in 0 .. T - 1 : Mine(i, t) # {} =>
                         /\ \E op \in Mine(i, t) : op.end <= r.start
                         /\ \E op \in Mine(i, t) : op.start >= r.end
                /\ r.start < r.end /\ ~allThreads =>
                     /\ \E i \in Idx(ops) : ops[i].start < r.start
                     /\ \E i \in Idx(ops) : ops[i].end > r.end

(* The segments lie in the active range and no byte is counted twice: what *)
(* they add up to is at most what the requests they touch moved, and at    *)
(* least what those inside moved, but for a rounding of each part; every   *)
(* successful request that ends inside a segment is counted as ended once. *)
AddUp(o, allThreads, d) ==
    LET r == ActiveTimeRange(o, allThreads)
        segs == Segment(o, 0, d, allThreads, TRUE)
        from == segs[1].start
        to == segs[Len(segs)].ends
        bytes == SumAt(Idx(segs), [k \in Idx(segs) |-> segs[k].bytes], Len(segs))
        ended == SumAt(Idx(segs), [k \in Idx(segs) |-> segs[k].ended], Len(segs))
        sizes == [i \in Idx(o) |-> o[i].size]
        touched == {i \in Idx(o) : o[i].start < to /\ o[i].end >= from}
        inside == {i \in touched : ~o[i].err /\ o[i].start >= from
                                   /\ o[i].end < to /\ Dur(o[i]) > 0}
        within == {i \in inside : \E k \in Idx(segs) :
                        segs[k].start < o[i].end /\ o[i].end < segs[k].ends}
    IN  segs # <<>> =>
            /\ r.start <= from /\ to < r.end
            /\ bytes <= SumAt(touched, sizes, Len(o))
            /\ bytes + Len(segs) * Cardinality(inside) >= SumAt(inside, sizes, Len(o))
            /\ Cardinality(within) <= ended
            /\ ended <= Cardinality(touched)

(* The segments of the merged operations add up, for every duration that   *)
(* analysisDur can choose.                                                 *)
SegmentsAccount ==
    pc = "merged" =>
        \A allThreads \in BOOLEAN, d \in {StdDurations[i] : i \in Idx(StdDurations)} :
            AddUp(ops, allThreads, d)

(* A benchmark whose types follow one another is never taken for a mixed   *)
(* one, however its clients' operations interleave after the merge: types  *)
(* are mixed only if one begins before another one that began no later is  *)
(* through.  The converse, "returns true if different operation types are  *)
(* overlapping" (ops.go:446), fails for two types with the very same range.*)
MixedTypesOverlap ==
    pc = "merged" /\ isMixed(ops) =>
        LET R(t) == TimeRange(FilterByOp(ops, t))
        IN  \E a, b \in OpTypes(ops) :
                /\ a # b
                /\ R(a).start <= R(b).start
                /\ R(b).start < R(a).end

(* A percentile is a duration some request had, that share of the requests *)
(* took no longer and the rest no less, up to half a request of rounding.  *)
PercentilesCover ==
    pc = "merged" /\ ops # <<>> =>
        \A p \in Percents :
            LET dur == Percentiles(ops)[p]
                faster == {i \in Idx(ops) : Dur(ops[i]) <= dur}
                slower == {i \in Idx(ops) : Dur(ops[i]) >= dur}
            IN  /\ \E i \in Idx(ops) : Dur(ops[i]) = dur
                /\ 100 * Cardinality(faster) >= p * Len(ops)
                /\ 100 * Cardinality(slower) >= (100 - p) * Len(ops) - 50

(* The statistics of a type: none is about more requests than succeeded    *)
(* (those by size are: see SizesCountedOnce), a failed one is counted for  *)
(* one host at most, slowest and fastest segment are the extremes, and the *)
(* number of segments is at most what was wanted unless no duration is     *)
(* long enough for the whole time dur.                                     *)
TypeAccounts(a, dur) ==
    /\ a.requests.requests <= a.n - a.errors
    /\ a.throughput.operations <= a.n - a.errors
    /\ a.segmented.sortedBy = "bps" =>
         /\ \A k \in Idx(a.segs) :
               a.segs[k].bytes \in a.segmented.slowest .. a.segmented.fastest
         /\ a.segmented.median \in a.segmented.slowest .. a.segmented.fastest
    /\ SumOver(DOMAIN a.byHost, [h \in DOMAIN a.byHost |-> a.byHost[h].errors]) <= a.errors
    /\ SumOver(DOMAIN a.byHost, [h \in DOMAIN a.byHost |-> a.byHost[h].operations])
           <= a.n - a.errors
    /\ Len(a.segs) <= WantAtMost \/ dur \div StdDurations[Len(StdDurations)] > WantAtMost

(* The report accounts for the operations: nothing is lost between the     *)
(* types, and the statistics of each type are about its operations.        *)
AggregateAccounts ==
    pc = "done" =>
        LET sel == Selected(ops, flags)
        IN  /\ ~aggr.mixed /\ flags.skip = 0 =>
                 /\ SumOver(aggr.types, [a \in aggr.types |-> a.n]) = Len(sel)
                 /\ SumOver(aggr.types, [a \in aggr.types |-> a.errors]) = Len(FilterErrors(sel))
            /\ aggr.mixed => SumOver(aggr.types, [a \in aggr.types |-> a.n]) <= Len(sel)
            /\ \A a \in aggr.types : ~a.skipped => TypeAccounts(a, Duration(sel))

(* Writing the operations and reading them back changes no result: the     *)
(* numbers for files and the letters for clients keep apart what was       *)
(* apart, and the offset and the limit cut out exactly their window.       *)
CSVKeepsAnalysis ==
    [][\A f \in Flags : AnalyzeFile(f) =>
          LET o == Keep(ops, {i \in Idx(ops) :
                                i > f.offset /\ (f.limit = 0 \/ i <= f.offset + f.limit)})
          IN  aggr' = Aggregate(Selected(o, f), Prefiltered(o, f), f.skip)]_vars

(* "Number of requests in this range." (requests.go:109): the requests     *)
(* reported for the ranges of sizes are requests that were considered,     *)
(* each in one range.                                                      *)
SizesCountedOnce ==
    pc = "done" =>
        \A a \in aggr.types : ~a.skipped /\ "bySize" \in DOMAIN a.requests =>
            SumOver(a.requests.bySize, [z \in a.requests.bySize |-> z.range.requests])
                <= a.requests.requests

(* "Average bytes per second. Can be 0." (throughput.go:38): every rate of *)
(* the report is a number, so that it can be written as JSON.              *)
RatesAreNumbers ==
    pc = "done" =>
        /\ aggr.mixed => \A t \in {aggr.stats.throughput} \cup
                                {aggr.stats.byHost[h] : h \in DOMAIN aggr.stats.byHost} :
                            t.duration > 0
        /\ \A a \in aggr.types : ~a.skipped =>
             \A t \in {a.throughput} \cup {a.byHost[h] : h \in DOMAIN a.byHost} :
                 t.duration > 0
=============================================================================
