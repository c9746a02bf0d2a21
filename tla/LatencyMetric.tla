--------------------------- MODULE LatencyMetric ----------------------------
(***************************************************************************)
(* One LatencyMetric (src/metrics.rs): a count, a sum, a minimum, a        *)
(* maximum and a histogram, every one an atomic of its own that recorders  *)
(* update with relaxed operations and without a lock.  fetch_min and       *)
(* fetch_max are loops of a load and a compare-exchange.                   *)
(***************************************************************************)
EXTENDS Integers, Sequences, FiniteSets, SequencesExt

CONSTANTS
  Recorders,  \* tasks that record durations
  Durations,  \* in microseconds
  bounds      \* LATENCY_BUCKET_US, the last one u64::MAX

ASSUME LatencyAssumption ==
  /\ Durations \subseteq Nat
  /\ bounds \in Seq(Nat)
  /\ bounds # <<>>
  /\ \A d \in Durations : d < bounds[Len(bounds)]

VARIABLES
  count, sum_us, min_us, max_us, buckets,
  rec,      \* the local state of every recorder
  recorded  \* how often the recording of a duration has begun

latencyVars == <<count, sum_us, min_us, max_us, buckets, rec, recorded>>

LatencyInit ==
  /\ count = 0
  /\ sum_us = 0
  /\ min_us = bounds[Len(bounds)]
  /\ max_us = 0
  /\ buckets = [i \in DOMAIN bounds |-> 0]
  /\ rec = [r \in Recorders |-> [pc |-> "idle"]]
  /\ recorded = [us \in Durations |-> 0]

\* The first bucket whose bound is not exceeded.
Bucket(us) ==
  CHOOSE i \in DOMAIN bounds :
    us <= bounds[i] /\ \A j \in 1..(i - 1) : bounds[j] < us

\* What the loop of fetch_min does after a load: another exchange, or on to
\* the maximum.
AfterMin(us, current) == IF us < current THEN "swap_min" ELSE "load_max"

\* record_us begins with two additions, which commute with whatever another
\* recorder does, and the load of fetch_min.
Add(r, us) ==
  /\ rec[r].pc = "idle"
  /\ count' = count + 1
  /\ sum_us' = sum_us + us
  /\ recorded' = [recorded EXCEPT ![us] = @ + 1]
  /\ rec' = [rec EXCEPT
       ![r] = [pc |-> AfterMin(us, min_us), us |-> us, current |-> min_us]]
  /\ UNCHANGED <<min_us, max_us, buckets>>

\* Slip: the minimum is stored without another look at it.
SwapMinStores(r) ==
  /\ rec[r].pc = "swap_min"
  /\ min_us' = rec[r].us
  /\ rec' = [rec EXCEPT ![r].pc = "load_max"]
  /\ UNCHANGED <<count, sum_us, max_us, buckets, recorded>>

\* The exchange fails, and gives the new minimum, if another one came first.
SwapMin(r) ==
  /\ rec[r].pc = "swap_min"
  /\ \/ /\ min_us = rec[r].current
        /\ min_us' = rec[r].us
        /\ rec' = [rec EXCEPT ![r].pc = "load_max"]
     \/ /\ min_us # rec[r].current
        /\ rec' = [rec EXCEPT ![r].pc = AfterMin(rec[r].us, min_us),
                              ![r].current = min_us]
        /\ UNCHANGED min_us
  /\ UNCHANGED <<count, sum_us, max_us, buckets, recorded>>

\* record_us ends with the addition to a bucket, which commutes like the
\* first two.
Finished(r) ==
  /\ buckets' = [buckets EXCEPT ![Bucket(rec[r].us)] = @ + 1]
  /\ rec' = [rec EXCEPT ![r] = [pc |-> "idle"]]

\* fetch_max has the maximum at hand: another exchange, or done.
AfterMax(r) ==
  \/ /\ rec[r].us > max_us
     /\ rec' = [rec EXCEPT ![r].pc = "swap_max", ![r].current = max_us]
     /\ UNCHANGED buckets
  \/ /\ rec[r].us <= max_us
     /\ Finished(r)

LoadMax(r) ==
  /\ rec[r].pc = "load_max"
  /\ AfterMax(r)
  /\ UNCHANGED <<count, sum_us, min_us, max_us, recorded>>

SwapMax(r) ==
  /\ rec[r].pc = "swap_max"
  /\ \/ /\ max_us = rec[r].current
        /\ max_us' = rec[r].us
        /\ Finished(r)
     \/ /\ max_us # rec[r].current
        /\ AfterMax(r)
        /\ UNCHANGED max_us
  /\ UNCHANGED <<count, sum_us, min_us, recorded>>

RecordStep(r) == SwapMin(r) \/ LoadMax(r) \/ SwapMax(r)

LatencyNext ==
  \E r \in Recorders : RecordStep(r) \/ \E us \in Durations : Add(r, us)

LatencySpec == LatencyInit /\ [][LatencyNext]_latencyVars

-----------------------------------------------------------------------------
(* snapshot.                                                               *)

\* The bound of the bucket in which the given percentage of the count ends.
percentile_from_buckets(percent) ==
  LET wanted == (count * percent + 99) \div 100
      target == IF wanted > 1 THEN wanted ELSE 1
      seen(i) == FoldLeft(LAMBDA a, b : a + b, 0, SubSeq(buckets, 1, i))
      reached == {i \in DOMAIN buckets : seen(i) >= target}
  IN IF count = 0 THEN 0
     ELSE bounds[IF reached = {} THEN Len(bounds) ELSE Min(reached)]

-----------------------------------------------------------------------------
(* Properties.                                                             *)

\* When nobody is recording, no minimum or maximum has been lost to a race of
\* the compare-exchange loops.
ExtremesExact ==
  LET values == {us \in Durations : recorded[us] > 0}
  IN (\A r \in Recorders : rec[r].pc = "idle") /\ values # {} =>
       min_us = Min(values) /\ max_us = Max(values)

\* When nobody is recording, the atomics describe the durations recorded:
\* with the extremes, the count and the sum are theirs, and a percentile is
\* the bound of the bucket of the least duration that this share does not
\* exceed.
LatencyExact ==
  LET values == {us \in Durations : recorded[us] > 0}
      upto(us) ==
        MapThenSumSet(LAMBDA x : recorded[x], {x \in values : x <= us})
  IN /\ ExtremesExact
     /\ (\A r \in Recorders : rec[r].pc = "idle") /\ values # {} =>
          /\ count = upto(Max(values))
          /\ sum_us = MapThenSumSet(LAMBDA us : us * recorded[us], values)
          /\ \A percent \in {50, 90, 99} :
               percentile_from_buckets(percent) =
                 bounds[Bucket(Min({us \in values :
                                      100 * upto(us) >= percent * count}))]

=============================================================================
