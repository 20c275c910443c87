---------------------------- MODULE MetricReduce ----------------------------
(***************************************************************************)
(* The reducers of a metrics query, metrics/query.go: the rate of a group  *)
(* of cumulative counters and the quantile of a group of cumulative        *)
(* histograms, asked of the rows that processes which count and restart    *)
(* were scraped into.  A histogram's bounds are fixed; its last bucket has *)
(* no upper bound.  A rate is compared by its numerator, its denominator   *)
(* being the time the pairs cover.                                         *)
(***************************************************************************)
EXTENDS Integers, Sequences, FiniteSetsExt

CONSTANTS
  MrSeries,          \* processes of the group
  MrBuckets,         \* buckets of a histogram, the last one the overflow
  MrQuantiles,       \* q, as a numerator over MrWhole
  MrWhole,
  MrStep,            \* scrapes of a step of the answer
  MaxMrObservations, MaxMrScrapes

ASSUME MrAssumption ==
  /\ {MrBuckets, MrWhole, MrStep} \subseteq Nat \ {0} /\ MrQuantiles \subseteq 1..MrWhole
  /\ {MaxMrObservations, MaxMrScrapes} \subseteq Nat

VARIABLES
  mrNow,    \* what a process has counted since it started
  mrEver,   \* what it was to be counted of it since ever
  mrEpoch,  \* how often it has started
  mrSeen,   \* bound: observations so far
  mrTime,
  mrRows    \* the rows, by time

mrVars == <<mrNow, mrEver, mrEpoch, mrSeen, mrTime, mrRows>>

MrBucket == 1..MrBuckets
MrZero == [b \in MrBucket |-> 0]
MrTotal(counts) == SumFunctionOnSet(counts, MrBucket)

MrInit ==
  /\ mrNow = [s \in MrSeries |-> MrZero] /\ mrEver = [s \in MrSeries |-> MrZero]
  /\ mrEpoch = [s \in MrSeries |-> 0] /\ mrSeen = 0 /\ mrTime = 0 /\ mrRows = <<>>

MrObserve(s, b) ==
  /\ mrSeen < MaxMrObservations /\ mrSeen' = mrSeen + 1
  /\ mrNow' = [mrNow EXCEPT ![s][b] = @ + 1] /\ mrEver' = [mrEver EXCEPT ![s][b] = @ + 1]
  /\ UNCHANGED <<mrEpoch, mrTime, mrRows>>

MrRestart(s) ==
  /\ mrNow[s] # MrZero
  /\ mrNow' = [mrNow EXCEPT ![s] = MrZero] /\ mrEpoch' = [mrEpoch EXCEPT ![s] = @ + 1]
  /\ UNCHANGED <<mrEver, mrSeen, mrTime, mrRows>>

\* The row is stored, or stored twice by an exporter that did not hear so.
MrScrape(s) ==
  /\ mrTime < MaxMrScrapes /\ mrTime' = mrTime + 1
  /\ LET row == [series |-> s, ts |-> mrTime + 1, counts |-> mrNow[s], ever |-> mrEver[s], epoch |-> mrEpoch[s]]
     IN \E again \in BOOLEAN : mrRows' = mrRows \o (IF again THEN <<row, row>> ELSE <<row>>)
  /\ UNCHANGED <<mrNow, mrEver, mrEpoch, mrSeen>>

MrNext ==
  \E s \in MrSeries : MrRestart(s) \/ MrScrape(s) \/ \E b \in MrBucket : MrObserve(s, b)

MrSpec == MrInit /\ [][MrNext]_mrVars

-----------------------------------------------------------------------------
\* Mutant: a group is one series.
SplitNone == {DOMAIN mrRows}

\* splitSeries: the places of a series' rows.
SplitSeries == {{i \in DOMAIN mrRows : mrRows[i].series = s} : s \in MrSeries}

BucketKey(ts) == ts \div MrStep

\* The pairs of neighbouring rows of a series that end in a step.
MrPairs(key) ==
  UNION {{pair \in places \X places :
            /\ pair[1] < pair[2] /\ BucketKey(mrRows[pair[2]].ts) = key
            /\ \A i \in places : i =< pair[1] \/ pair[2] =< i} : places \in SplitSeries}

\* Mutant: a counter that did not rise was reset.
IncreaseIfRisen(prev, curr) ==
  IF curr.ts =< prev.ts THEN 0
  ELSE IF MrTotal(curr.counts) =< MrTotal(prev.counts) THEN MrTotal(curr.counts)
  ELSE MrTotal(curr.counts) - MrTotal(prev.counts)

\* rateGroupReduce: what a pair of a counter's values contributes.
Increase(prev, curr) ==
  IF curr.ts =< prev.ts THEN 0
  ELSE IF MrTotal(curr.counts) < MrTotal(prev.counts) THEN MrTotal(curr.counts)
  ELSE MrTotal(curr.counts) - MrTotal(prev.counts)

RateOf(key) == SumFunction([pair \in MrPairs(key) |-> Increase(mrRows[pair[1]], mrRows[pair[2]])])

\* Mutant: a histogram that did not grow was reset.
PairHistogramIfGrown(prev, curr) ==
  IF MrTotal(curr.counts) =< MrTotal(prev.counts) THEN curr.counts
  ELSE [b \in MrBucket |-> IF curr.counts[b] < prev.counts[b] THEN 0 ELSE curr.counts[b] - prev.counts[b]]

\* quantileGroupReduce: the histogram of a pair.
PairHistogram(prev, curr) ==
  IF MrTotal(curr.counts) < MrTotal(prev.counts) THEN curr.counts
  ELSE [b \in MrBucket |-> IF curr.counts[b] < prev.counts[b] THEN 0 ELSE curr.counts[b] - prev.counts[b]]

HistogramOf(key) ==
  [b \in MrBucket |-> SumFunction([pair \in MrPairs(key) |-> PairHistogram(mrRows[pair[1]], mrRows[pair[2]])[b]])]

UpTo(counts, b) == SumFunctionOnSet(counts, 1..b)

\* Mutant: a rank on the edge of a bucket belongs to the next.
RankReachedAfter(counts, q, b) == MrWhole * UpTo(counts, b) > q * MrTotal(counts)

RankReached(counts, q, b) == MrWhole * UpTo(counts, b) >= q * MrTotal(counts)

\* histogramQuantile: the bucket the rank falls in, if one does, and how far.
QuantileBucket(counts, q) == Min({b \in MrBucket : b = MrBuckets \/ RankReached(counts, q, b)})

QuantileWithin(counts, q) ==
  LET b == QuantileBucket(counts, q)
  IN IF b \in {1, MrBuckets} THEN <<b, 1, 1>>
     ELSE <<b, q * MrTotal(counts) - MrWhole * UpTo(counts, b - 1), MrWhole * counts[b]>>

Underflow(counts, q) == q * MrTotal(counts) =< MrWhole * counts[1]
Overflow(counts, q) == q * MrTotal(counts) > MrWhole * UpTo(counts, MrBuckets - 1)

-----------------------------------------------------------------------------
MrTypeOK ==
  LET Counts == [MrBucket -> 0..MaxMrObservations]
  IN /\ mrNow \in [MrSeries -> Counts] /\ mrEver \in [MrSeries -> Counts]
     /\ mrEpoch \in [MrSeries -> 0..MaxMrObservations] /\ mrSeen \in 0..MaxMrObservations /\ mrTime \in 0..MaxMrScrapes
     /\ mrRows \in Seq([series : MrSeries, ts : 1..MaxMrScrapes, counts : Counts, ever : Counts,
                        epoch : 0..MaxMrObservations])

\* What came between a row of a process and the one before it.
TruePairs(key) ==
  {pair \in (DOMAIN mrRows) \X (DOMAIN mrRows) :
     /\ pair[1] < pair[2] /\ BucketKey(mrRows[pair[2]].ts) = key
     /\ mrRows[pair[1]].series = mrRows[pair[2]].series
     /\ \A i \in (pair[1] + 1)..(pair[2] - 1) : mrRows[i].series # mrRows[pair[2]].series}
TrueIncrease(key, b) == SumFunction([pair \in TruePairs(key) |-> mrRows[pair[2]].ever[b] - mrRows[pair[1]].ever[b]])
Unbroken(key) == \A pair \in TruePairs(key) : mrRows[pair[1]].epoch = mrRows[pair[2]].epoch

(* No answer counts what did not happen, however the processes restarted   *)
(* and rows were stored twice; with no restart in a step it counts all.    *)
ReducedHonestly ==
  \A key \in 0..BucketKey(MaxMrScrapes) :
    LET truth == [b \in MrBucket |-> TrueIncrease(key, b)]
    IN /\ RateOf(key) =< MrTotal(truth) /\ \A b \in MrBucket : HistogramOf(key)[b] =< truth[b]
       /\ Unbroken(key) => RateOf(key) = MrTotal(truth) /\ HistogramOf(key) = truth

(* The bucket a quantile is answered from holds it: a share q of what was  *)
(* observed lies in it or below, and less than q below it; the answer lies *)
(* in the bucket, and says so where only one of its edges is known.        *)
QuantileInBucket ==
  \A key \in 0..BucketKey(MaxMrScrapes), q \in MrQuantiles :
    LET counts == HistogramOf(key)
        n == MrTotal(counts)
        b == QuantileBucket(counts, q)
        within == QuantileWithin(counts, q)
    IN n > 0 =>
         /\ MrWhole * UpTo(counts, b) >= q * n /\ MrWhole * UpTo(counts, b - 1) < q * n
         /\ 0 < within[2] /\ within[2] =< within[3]
         /\ Underflow(counts, q) <=> b = 1
         /\ Overflow(counts, q) <=> b = MrBuckets

ReduceSound == ReducedHonestly /\ QuantileInBucket
=============================================================================
