------------------------- MODULE EncodeFamiliesProofs -------------------------
(***************************************************************************)
(* Theorems about EncodeFamilies, for every list of families that the      *)
(* client libraries let a registry gather.                                 *)
(***************************************************************************)
EXTENDS EncodeFamilies, SequenceTheorems, TLAPS

\* What the types of the input say of the metric at hand.
LEMMA MetricAtHand ==
  ASSUME TypeOK, AtMetric
  PROVE  /\ i \in DOMAIN mfs /\ j \in DOMAIN Family.metrics
         /\ Family \in FamilySet /\ Metric \in MetricSet
         /\ Family.name \in Seq(STRING)
         /\ Metric.bounds \in Seq(STRING \ {"inf"})
         /\ DistinctValues(Metric.bounds)
         /\ \A label \in Metric.labels : label[1] \notin OwnLabels(Family.type)
         /\ \A n \in DOMAIN Family.metrics : n # j => Family.metrics[n].labels # Metric.labels
<1>1. mfs \in Seq(FamilySet) /\ i \in Nat /\ i >= 1 /\ i <= Len(mfs)
  BY DEF TypeOK, Registered, AtMetric
<1>2. i \in DOMAIN mfs /\ Family \in FamilySet
  BY <1>1 DEF Family
<1>3. Family.metrics \in Seq(MetricSet) /\ Family.name \in Seq(STRING)
  BY <1>2 DEF FamilySet
<1>4. j \in Nat /\ j >= 1 /\ j <= Len(Family.metrics)
  BY <1>1, <1>3 DEF TypeOK, AtMetric
<1>5. j \in DOMAIN Family.metrics /\ Metric \in MetricSet
  BY <1>3, <1>4 DEF Metric
<1>6. Metric.bounds \in Seq(STRING \ {"inf"})
  BY <1>5 DEF MetricSet
<1>7. Registered(mfs)
  BY DEF TypeOK
<1>8. QED
  BY <1>2, <1>3, <1>5, <1>6, <1>7 DEF Registered, Family, Metric

\* The series of a metric: whose they are, their time, and their labels.
LEMMA MetricShape ==
  ASSUME TypeOK, AtMetric, NEW x \in MetricSeries
  PROVE  /\ x.value.family = i /\ x.value.metric = j
         /\ x.time = Timestamp
         /\ Metric.labels \subseteq x.labels
         /\ \A label \in x.labels :
              label \in Metric.labels \/ label[1] \in OwnLabels(Family.type)
<1>1. ASSUME NEW name, NEW extra, NEW part, NEW k, x = Series(name, extra, part, k)
      PROVE  /\ x.value.family = i /\ x.value.metric = j
             /\ x.time = Timestamp
             /\ x.labels = Metric.labels \cup extra
  BY <1>1 DEF Series
<1>2. CASE Family.type = "HISTOGRAM"
  <2>1. x \in SumAndCount \cup Buckets
    BY <1>2 DEF MetricSeries
  <2>2. CASE x \in SumAndCount
    BY <1>1, <2>2 DEF SumAndCount
  <2>3. CASE x \in Buckets
    <3>1. PICK part, k, v : x = Series(WithName(<<"_bucket">>), {<<"le", v>>}, part, k)
      <4>1. \/ x = Series(WithName(<<"_bucket">>), {<<"le", Inf>>}, "count", 0)
            \/ \E k \in DOMAIN Metric.bounds :
                 x = Series(WithName(<<"_bucket">>), {<<"le", FloatLabel(Metric.bounds[k])>>},
                            "bucket", k)
        BY <2>3 DEF Buckets
      <4>2. QED
        BY <4>1
    <3>2. /\ x.value.family = i /\ x.value.metric = j
          /\ x.time = Timestamp
          /\ x.labels = Metric.labels \cup {<<"le", v>>}
      BY <1>1, <3>1
    <3>3. <<"le", v>>[1] \in OwnLabels(Family.type)
      BY <1>2 DEF OwnLabels
    <3>4. QED
      BY <3>2, <3>3
  <2>4. QED
    BY <2>1, <2>2, <2>3
<1>3. CASE Family.type = "SUMMARY"
  <2>1. x \in SumAndCount \cup Quantiles
    BY <1>3 DEF MetricSeries
  <2>2. CASE x \in SumAndCount
    BY <1>1, <2>2 DEF SumAndCount
  <2>3. CASE x \in Quantiles
    <3>1. PICK part, k, v : x = Series(Family.name, {<<"quantile", v>>}, part, k)
      BY <2>3 DEF Quantiles
    <3>2. /\ x.value.family = i /\ x.value.metric = j
          /\ x.time = Timestamp
          /\ x.labels = Metric.labels \cup {<<"quantile", v>>}
      BY <1>1, <3>1
    <3>3. <<"quantile", v>>[1] \in OwnLabels(Family.type)
      BY <1>3 DEF OwnLabels
    <3>4. QED
      BY <3>2, <3>3
  <2>4. QED
    BY <2>1, <2>2, <2>3
<1>4. CASE Family.type \notin {"HISTOGRAM", "SUMMARY"}
  <2>1. x = Series(Family.name, {}, "value", 0)
    BY <1>4 DEF MetricSeries, Scalar
  <2>2. QED
    BY <1>1, <2>1
<1>5. QED
  BY <1>2, <1>3, <1>4

\* The families stay what they are.
LEMMA InputStays ==
  ASSUME [Next]_vars
  PROVE  mfs' = mfs /\ sdk' = sdk /\ clock' = clock
BY DEF Next, Gather, Encode, NoCase, NextFamily, NextFamilyAt, Return, vars

\* Only Encode adds series.
LEMMA OutSteps ==
  ASSUME [Next]_vars
  PROVE  out' = out \/ (AtMetric /\ out' = out \cup MetricSeries)
BY DEF Next, Gather, Encode, NoCase, NextFamily, NextFamilyAt, Return, vars

\* The walk stays within the families, and the series are of metrics behind it.
THEOREM Typing == Spec => []TypeOK
<1>1. Init => TypeOK
  <2> SUFFICES ASSUME Init PROVE TypeOK
    OBVIOUS
  <2>1. Registered(mfs) /\ mfs \in Seq(FamilySet)
    BY InputsAssumption DEF Init, Registered
  <2>2. Len(mfs) \in Nat
    BY <2>1
  <2>3. i <= Len(mfs) => Len(Family.metrics) \in Nat
    <3>1. ASSUME i <= Len(mfs) PROVE mfs[1] \in FamilySet
      BY <2>1, <2>2, <3>1 DEF Init
    <3>2. QED
      BY <3>1 DEF Init, Family, FamilySet
  <2>4. QED
    BY <2>1, <2>2, <2>3 DEF Init, TypeOK
<1>2. TypeOK /\ [Next]_vars => TypeOK'
  <2> SUFFICES ASSUME TypeOK, [Next]_vars PROVE TypeOK'
    OBVIOUS
  <2>0. /\ mfs \in Seq(FamilySet) /\ Len(mfs) \in Nat /\ i \in Nat /\ i >= 1 /\ i <= Len(mfs) + 1
        /\ \A m \in 1 .. Len(mfs) : mfs[m] \in FamilySet /\ Len(mfs[m].metrics) \in Nat
    <3>1. mfs \in Seq(FamilySet) /\ i \in 1 .. Len(mfs) + 1
      BY DEF TypeOK, Registered
    <3>2. \A f \in FamilySet : Len(f.metrics) \in Nat
      BY DEF FamilySet
    <3>3. QED
      BY <3>1, <3>2
  <2>1. CASE Gather \/ Return \/ UNCHANGED vars
    <3>1. UNCHANGED <<sdk, clock, mfs, i, j, out>>
      BY <2>1 DEF Gather, Return, vars
    <3>2. status' \in {"gathering", "encoding", "encoded", "failed"}
      BY <2>1 DEF Gather, Return, vars, TypeOK
    <3>3. QED
      BY <3>1, <3>2 DEF TypeOK, Family, FamilyOf
  <2>2. CASE Encode
    <3>1. AtMetric /\ out' = out \cup MetricSeries /\ j' = j + 1
          /\ UNCHANGED <<sdk, clock, mfs, i, status>>
      BY <2>2 DEF Encode
    <3>2. /\ i \in 1 .. Len(mfs) /\ Len(Family.metrics) \in Nat
          /\ j \in 1 .. Len(Family.metrics)
      BY <2>0, <3>1 DEF TypeOK, AtMetric, Family
    <3>3. \A x \in MetricSeries : x.value.family = i /\ x.value.metric = j
      BY <3>1, MetricShape
    <3>4. ASSUME NEW x \in out'
          PROVE  /\ x.value.family \in 1 .. i /\ x.value.family <= Len(mfs)
                 /\ x.value.metric \in 1 .. Len(FamilyOf(x).metrics)
                 /\ x.value.family = i => x.value.metric < j + 1
      <4>1. CASE x \in out
        <5>1. /\ x.value.family \in 1 .. i /\ x.value.family <= Len(mfs)
              /\ x.value.metric \in 1 .. Len(FamilyOf(x).metrics)
              /\ x.value.family = i => x.value.metric < j
          BY <4>1 DEF TypeOK
        <5>2. x.value.metric \in Int
          BY <5>1
        <5>3. QED
          BY <3>2, <5>1, <5>2
      <4>2. CASE x \in MetricSeries
        BY <3>2, <3>3, <4>2 DEF FamilyOf, Family
      <4>3. QED
        BY <3>1, <4>1, <4>2
    <3>5. j' \in 1 .. Len(Family.metrics) + 1
      BY <3>1, <3>2
    <3>6. QED
      BY <3>1, <3>2, <3>4, <3>5 DEF TypeOK, Family, FamilyOf
  <2>3. CASE NoCase
    <3>1. AtMetric /\ (j' = j + 1 \/ j' = j) /\ UNCHANGED <<sdk, clock, mfs, i, out>>
          /\ status' \in {"encoding", "failed"}
      BY <2>3 DEF NoCase, AtMetric
    <3>2. /\ i \in 1 .. Len(mfs) /\ Len(Family.metrics) \in Nat
          /\ j \in 1 .. Len(Family.metrics)
      BY <2>0, <3>1 DEF TypeOK, AtMetric, Family
    <3>3. j' \in 1 .. Len(Family.metrics) + 1 /\ j <= j'
      BY <3>1, <3>2
    <3>4. ASSUME NEW x \in out
          PROVE  /\ x.value.family \in 1 .. i /\ x.value.family <= Len(mfs)
                 /\ x.value.metric \in 1 .. Len(FamilyOf(x).metrics)
                 /\ x.value.family = i => x.value.metric < j'
      <4>1. /\ x.value.family \in 1 .. i /\ x.value.family <= Len(mfs)
            /\ x.value.metric \in 1 .. Len(FamilyOf(x).metrics)
            /\ x.value.family = i => x.value.metric < j
        BY DEF TypeOK
      <4>2. x.value.metric \in Int /\ j' \in Int /\ j \in Int
        BY <3>2, <3>3, <4>1
      <4>3. QED
        BY <3>3, <4>1, <4>2
    <3>5. QED
      BY <3>1, <3>2, <3>3, <3>4 DEF TypeOK, Family, FamilyOf
  <2>4. CASE NextFamily
    <3>1. i <= Len(mfs) /\ i' = i + 1 /\ j' = 1 /\ UNCHANGED <<sdk, clock, mfs, out, status>>
      BY <2>4 DEF NextFamily, NextFamilyAt
    <3>2. i' \in 1 .. Len(mfs) + 1
      BY <2>0, <3>1
    <3>3. j' \in 1 .. (IF i' <= Len(mfs) THEN Len(mfs[i'].metrics) + 1 ELSE 1)
      BY <2>0, <3>1, <3>2
    <3>4. ASSUME NEW x \in out
          PROVE  x.value.family \in 1 .. i' /\ x.value.family # i'
      BY <2>0, <3>1 DEF TypeOK
    <3>5. QED
      BY <3>1, <3>2, <3>3, <3>4 DEF TypeOK, Family, FamilyOf
  <2>5. QED
    BY <2>1, <2>2, <2>3, <2>4 DEF Next
<1>3. QED
  BY <1>1, <1>2, PTL DEF Spec

-----------------------------------------------------------------------------
(* Times.                                                                  *)

\* TimesAreReal for every input and every clock: one reading of the clock serves
\* all metrics without a time, and zero is invented only by Rust before the epoch.
THEOREM Times == Spec => []TimesAreReal
<1>1. Init => TimesAreReal
  BY DEF Init, TimesAreReal
<1>2. TypeOK /\ TimesAreReal /\ [Next]_vars => TimesAreReal'
  <2> SUFFICES ASSUME TypeOK, TimesAreReal, [Next]_vars, NEW x \in out'
               PROVE  /\ MetricOf(x)'.time = NoTime => x.time = Now
                      /\ MetricOf(x)'.time \notin {NoTime, 0} => x.time = MetricOf(x)'.time
                      /\ x.time = 0 => \/ sdk = "go" /\ MetricOf(x)'.time = 0
                                       \/ clock = 0
                                       \/ sdk = "rust" /\ clock < 0
    BY InputStays DEF TimesAreReal, Now
  <2>0. MetricOf(x)' = MetricOf(x)
    BY InputStays DEF MetricOf
  <2>1. CASE x \in out
    BY <2>0, <2>1 DEF TimesAreReal
  <2>2. CASE AtMetric /\ x \in MetricSeries
    <3>1. MetricOf(x) = Metric /\ x.time = Timestamp
      BY <2>2, MetricShape DEF MetricOf, Metric, Family
    <3>2. Metric.time \in Int \cup {NoTime}
      BY <2>2, MetricAtHand DEF MetricSet
    <3>3. sdk \in {"rust", "go"} /\ clock \in Int
      BY TimeAssumption DEF TypeOK
    <3>4. QED
      BY <2>0, <3>1, <3>2, <3>3, TimeAssumption DEF Timestamp, HasTime, Now
  <2>3. QED
    BY <2>1, <2>2, OutSteps
<1>3. QED
  BY <1>1, <1>2, Typing, PTL DEF Spec

-----------------------------------------------------------------------------
(* Histograms.                                                             *)

\* HistogramsAreClosed for every input: no list of buckets, empty or with a +Inf
\* of its own, leaves a histogram without the bucket that holds its count.
THEOREM ClosedHistograms == Spec => []HistogramsAreClosed
<1>1. Init => HistogramsAreClosed
  BY DEF Init, HistogramsAreClosed
<1>2. TypeOK /\ HistogramsAreClosed /\ [Next]_vars => HistogramsAreClosed'
  <2> DEFINE Closes(x, y) == /\ y.labels = MetricOf(x).labels \cup {<<"le", Inf>>}
                             /\ y.name = FamilyOf(x).name \o <<"_bucket">>
                             /\ y.value.part = "count"
                             /\ y.value.family = x.value.family
                             /\ y.value.metric = x.value.metric
                             /\ y.time = x.time
  <2> SUFFICES ASSUME TypeOK, HistogramsAreClosed, [Next]_vars
               PROVE  HistogramsAreClosed'
    OBVIOUS
  <2>0. mfs' = mfs
    BY InputStays
  <2> SUFFICES ASSUME NEW x \in out', FamilyOf(x).type = "HISTOGRAM"
               PROVE  \E y \in out' : Closes(x, y)
    BY <2>0 DEF HistogramsAreClosed, MetricOf, FamilyOf
  <2>1. CASE x \in out
    <3>1. PICK y \in out : Closes(x, y)
      BY <2>1 DEF HistogramsAreClosed
    <3>2. y \in out'
      BY OutSteps
    <3>3. QED
      BY <3>1, <3>2
  <2>2. CASE AtMetric /\ out' = out \cup MetricSeries /\ x \in MetricSeries
    <3> DEFINE y == Series(WithName(<<"_bucket">>), {<<"le", Inf>>}, "count", 0)
    <3>1. /\ MetricOf(x) = Metric /\ FamilyOf(x) = Family /\ x.time = Timestamp
          /\ x.value.family = i /\ x.value.metric = j
      BY <2>2, MetricShape DEF MetricOf, FamilyOf, Metric, Family
    <3>2. y \in out'
      BY <2>2, <3>1 DEF MetricSeries, Buckets
    <3>3. Closes(x, y)
      BY <3>1 DEF Series, WithName
    <3>4. QED
      BY <3>2, <3>3
  <2>3. QED
    BY <2>1, <2>2, OutSteps
<1>3. QED
  BY <1>1, <1>2, Typing, PTL DEF Spec

-----------------------------------------------------------------------------
(* Series that cannot be told apart.                                       *)

\* Suffixes make different names.
LEMMA Suffixes ==
  ASSUME NEW S, NEW name \in Seq(S), NEW a \in S, NEW b \in S
  PROVE  /\ name \o <<a>> # name
         /\ name \o <<a>> = name \o <<b>> => a = b
<1>1. name \o <<a>> = Append(name, a) /\ name \o <<b>> = Append(name, b)
  BY AppendIsConcat
<1>2. /\ Len(name) \in Nat
      /\ Len(Append(name, a)) = Len(name) + 1
      /\ Append(name, a)[Len(name) + 1] = a
      /\ Append(name, b)[Len(name) + 1] = b
  BY AppendProperties, LenProperties
<1>3. Append(name, a) # name
  BY <1>2
<1>4. QED
  BY <1>1, <1>2, <1>3

\* A label that the metric does not have makes different labels.
LEMMA ExtraLabels ==
  ASSUME NEW t, \A label \in Metric.labels : label[1] # t, NEW a, NEW b,
         Metric.labels \cup {<<t, a>>} = Metric.labels \cup {<<t, b>>}
  PROVE  a = b
<1>1. <<t, a>>[1] = t
  OBVIOUS
<1>2. <<t, a>> \notin Metric.labels
  BY <1>1
<1>3. <<t, a>> = <<t, b>>
  BY <1>2
<1>4. QED
  BY <1>3

\* Bounds that are written alike are equal; in Rust none is written as "+Inf".
LEMMA FloatLabels ==
  ASSUME NEW a \in STRING \ {"inf"}, NEW b \in STRING \ {"inf"}
  PROVE  /\ FloatLabel(a) = FloatLabel(b) => a = b
         /\ FloatLabel(a) = Inf => a = Inf /\ sdk # "rust"
BY InfAssumption DEF FloatLabel

\* The series of one metric, taken apart.
LEMMA MetricParts ==
  ASSUME NEW x \in MetricSeries
  PROVE  \/ x = Series(WithName(<<"_sum">>), {}, "sum", 0)
         \/ x = Series(WithName(<<"_count">>), {}, "count", 0)
         \/ /\ Family.type = "HISTOGRAM"
            /\ \/ x = Series(WithName(<<"_bucket">>), {<<"le", Inf>>}, "count", 0)
               \/ \E k \in DOMAIN Metric.bounds :
                    x = Series(WithName(<<"_bucket">>), {<<"le", FloatLabel(Metric.bounds[k])>>},
                               "bucket", k)
         \/ /\ Family.type = "SUMMARY"
            /\ \E k \in DOMAIN Metric.bounds :
                 x = Series(Family.name, {<<"quantile", FloatLabel(Metric.bounds[k])>>},
                            "quantile", k)
         \/ Family.type # "SUMMARY" /\ x = Series(Family.name, {}, "value", 0)
<1>1. CASE Family.type = "HISTOGRAM"
  BY <1>1 DEF MetricSeries, SumAndCount, Buckets
<1>2. CASE Family.type = "SUMMARY"
  BY <1>2 DEF MetricSeries, SumAndCount, Quantiles
<1>3. CASE Family.type \notin {"HISTOGRAM", "SUMMARY"}
  BY <1>3 DEF MetricSeries, Scalar
<1>4. QED
  BY <1>1, <1>2, <1>3

\* Two buckets of one metric are alike only if one of them is a +Inf that Go wrote.
LEMMA BucketsDistinct ==
  ASSUME TypeOK, AtMetric, Family.type = "HISTOGRAM", NEW x \in Buckets, NEW y \in Buckets,
         x # y, x.labels = y.labels
  PROVE  /\ sdk = "go" /\ <<"le", Inf>> \in x.labels
         /\ \E k \in DOMAIN Metric.bounds : Metric.bounds[k] = Inf
<1> DEFINE End == Series(WithName(<<"_bucket">>), {<<"le", Inf>>}, "count", 0)
           B(k) == Series(WithName(<<"_bucket">>), {<<"le", FloatLabel(Metric.bounds[k])>>},
                          "bucket", k)
<1>0. /\ \A z \in Buckets : z = End \/ \E k \in DOMAIN Metric.bounds : z = B(k)
      /\ End.labels = Metric.labels \cup {<<"le", Inf>>}
      /\ \A k : B(k).labels = Metric.labels \cup {<<"le", FloatLabel(Metric.bounds[k])>>}
  BY DEF Buckets, Series
<1> HIDE DEF End, B
<1>1. /\ \A label \in Metric.labels : label[1] # "le"
      /\ \A k \in DOMAIN Metric.bounds : Metric.bounds[k] \in STRING \ {"inf"}
      /\ DistinctValues(Metric.bounds)
      /\ sdk \in {"rust", "go"}
  BY MetricAtHand DEF OwnLabels, TypeOK
<1>2. ASSUME NEW k \in DOMAIN Metric.bounds, B(k).labels = End.labels
      PROVE  sdk = "go" /\ Metric.bounds[k] = Inf
  <2>0. Metric.labels \cup {<<"le", FloatLabel(Metric.bounds[k])>>} =
          Metric.labels \cup {<<"le", Inf>>}
    BY <1>0, <1>2
  <2>1. FloatLabel(Metric.bounds[k]) = Inf
    BY <1>1, <2>0, ExtraLabels
  <2>2. QED
    BY <1>1, <2>1, FloatLabels
<1>3. ASSUME NEW k \in DOMAIN Metric.bounds, NEW l \in DOMAIN Metric.bounds,
             B(k).labels = B(l).labels
      PROVE  k = l
  <2>0. Metric.labels \cup {<<"le", FloatLabel(Metric.bounds[k])>>} =
          Metric.labels \cup {<<"le", FloatLabel(Metric.bounds[l])>>}
    BY <1>0, <1>3
  <2>1. FloatLabel(Metric.bounds[k]) = FloatLabel(Metric.bounds[l])
    BY <1>1, <2>0, ExtraLabels
  <2>2. Metric.bounds[k] = Metric.bounds[l]
    BY <1>1, <2>1, FloatLabels
  <2>3. QED
    BY <1>1, <2>2 DEF DistinctValues
<1>4. <<"le", Inf>> \in End.labels
  BY <1>0
<1>5. CASE x = End
  BY <1>0, <1>2, <1>4, <1>5
<1>6. CASE y = End
  BY <1>0, <1>2, <1>4, <1>6
<1>7. CASE x # End /\ y # End
  BY <1>0, <1>3, <1>7
<1>8. QED
  BY <1>5, <1>6, <1>7

\* The series of one metric differ, but for a +Inf bucket in Go.
LEMMA MetricDistinct ==
  ASSUME TypeOK, AtMetric, NEW x \in MetricSeries, NEW y \in MetricSeries,
         x # y, x.name = y.name, x.labels = y.labels
  PROVE  /\ sdk = "go" /\ <<"le", Inf>> \in x.labels
         /\ \E k \in DOMAIN Metric.bounds : Metric.bounds[k] = Inf
<1> DEFINE Sum == Series(WithName(<<"_sum">>), {}, "sum", 0)
           Count == Series(WithName(<<"_count">>), {}, "count", 0)
           Q(k) == Series(Family.name, {<<"quantile", FloatLabel(Metric.bounds[k])>>},
                          "quantile", k)
<1>0. /\ Family.name \in Seq(STRING)
      /\ \A k \in DOMAIN Metric.bounds : Metric.bounds[k] \in STRING \ {"inf"}
      /\ DistinctValues(Metric.bounds)
      /\ \A label \in Metric.labels : label[1] \notin OwnLabels(Family.type)
  BY MetricAtHand
<1>1. /\ Sum.name = WithName(<<"_sum">>) /\ Count.name = WithName(<<"_count">>)
      /\ \A k : /\ Q(k).name = Family.name
                /\ Q(k).labels = Metric.labels \cup {<<"quantile", FloatLabel(Metric.bounds[k])>>}
      /\ \A z \in Buckets : z.name = WithName(<<"_bucket">>)
  BY DEF Series, Buckets
<1>2. /\ WithName(<<"_sum">>) # WithName(<<"_count">>)
      /\ WithName(<<"_sum">>) # WithName(<<"_bucket">>)
      /\ WithName(<<"_count">>) # WithName(<<"_bucket">>)
      /\ WithName(<<"_sum">>) # Family.name
      /\ WithName(<<"_count">>) # Family.name
  BY <1>0, Suffixes DEF WithName
<1>3. /\ SumAndCount = {Sum, Count}
      /\ \A z \in Quantiles : \E k \in DOMAIN Metric.bounds : z = Q(k)
  BY DEF SumAndCount, Quantiles
<1> HIDE DEF Sum, Count, Q
<1>4. CASE Family.type = "HISTOGRAM"
  <2>1. x \in {Sum, Count} \cup Buckets /\ y \in {Sum, Count} \cup Buckets
    BY <1>3, <1>4 DEF MetricSeries
  <2>2. x \in Buckets /\ y \in Buckets
    BY <1>1, <1>2, <2>1
  <2>3. QED
    BY <1>4, <2>2, BucketsDistinct
<1>5. CASE Family.type = "SUMMARY"
  <2>1. x \in {Sum, Count} \cup Quantiles /\ y \in {Sum, Count} \cup Quantiles
    BY <1>3, <1>5 DEF MetricSeries
  <2>2. x \in Quantiles /\ y \in Quantiles
    BY <1>1, <1>2, <1>3, <2>1
  <2>3. PICK k \in DOMAIN Metric.bounds : x = Q(k)
    BY <1>3, <2>2
  <2>4. PICK l \in DOMAIN Metric.bounds : y = Q(l)
    BY <1>3, <2>2
  <2>5. \A label \in Metric.labels : label[1] # "quantile"
    BY <1>0, <1>5 DEF OwnLabels
  <2>6. FloatLabel(Metric.bounds[k]) = FloatLabel(Metric.bounds[l])
    <3>1. Metric.labels \cup {<<"quantile", FloatLabel(Metric.bounds[k])>>} =
            Metric.labels \cup {<<"quantile", FloatLabel(Metric.bounds[l])>>}
      BY <1>1, <2>3, <2>4
    <3>2. QED
      BY <2>5, <3>1, ExtraLabels
  <2>7. k = l
    BY <1>0, <2>6, FloatLabels DEF DistinctValues
  <2>8. QED
    BY <2>3, <2>4, <2>7
<1>6. CASE Family.type \notin {"HISTOGRAM", "SUMMARY"}
  BY <1>6 DEF MetricSeries, Scalar
<1>7. QED
  BY <1>4, <1>5, <1>6

\* The labels of a series are those of its metric, but for the one it was given.
Shaped ==
  \A x \in out :
    /\ MetricOf(x).labels \subseteq x.labels
    /\ \A label \in x.labels :
         label \in MetricOf(x).labels \/ label[1] \in OwnLabels(FamilyOf(x).type)

\* SeriesAreDistinct for every input: the labels that tell the metrics of a family
\* apart tell their series apart, and so do the names and bounds within a metric.
THEOREM DistinctSeries == Spec => []SeriesAreDistinct
<1>1. Init => Shaped /\ SeriesAreDistinct
  BY DEF Init, Shaped, SeriesAreDistinct
<1>2. TypeOK /\ Shaped /\ [Next]_vars => Shaped'
  <2> SUFFICES ASSUME TypeOK, Shaped, [Next]_vars PROVE Shaped'
    OBVIOUS
  <2>0. mfs' = mfs
    BY InputStays
  <2>1. CASE out' = out
    BY <2>0, <2>1 DEF Shaped, MetricOf, FamilyOf
  <2>2. CASE AtMetric /\ out' = out \cup MetricSeries
    <3>1. ASSUME NEW x \in MetricSeries
          PROVE  /\ MetricOf(x) = Metric /\ FamilyOf(x) = Family
                 /\ Metric.labels \subseteq x.labels
                 /\ \A label \in x.labels :
                      label \in Metric.labels \/ label[1] \in OwnLabels(Family.type)
      BY <2>2, MetricShape DEF MetricOf, FamilyOf, Metric, Family
    <3>2. \A x \in out' :
            /\ MetricOf(x).labels \subseteq x.labels
            /\ \A label \in x.labels :
                 label \in MetricOf(x).labels \/ label[1] \in OwnLabels(FamilyOf(x).type)
      BY <2>2, <3>1 DEF Shaped
    <3>3. QED
      BY <2>0, <3>2 DEF Shaped, MetricOf, FamilyOf
  <2>3. QED
    BY <2>1, <2>2, OutSteps
<1>3. TypeOK /\ Shaped /\ SeriesAreDistinct /\ [Next]_vars => SeriesAreDistinct'
  <2> DEFINE Excused(x) == /\ sdk = "go"
                           /\ \E k \in DOMAIN MetricOf(x).bounds : MetricOf(x).bounds[k] = Inf
                           /\ <<"le", Inf>> \in x.labels
             Alike(x, y) == /\ x # y /\ x.name = y.name /\ x.labels = y.labels
                            /\ x.value.family = y.value.family
  <2> SUFFICES ASSUME TypeOK, Shaped, SeriesAreDistinct, [Next]_vars
               PROVE  SeriesAreDistinct'
    OBVIOUS
  <2>0. mfs' = mfs /\ sdk' = sdk
    BY InputStays
  <2> SUFFICES ASSUME NEW x \in out', NEW y \in out', Alike(x, y)
               PROVE  Excused(x)
    BY <2>0 DEF SeriesAreDistinct, MetricOf
  <2>1. CASE x \in out /\ y \in out
    BY <2>1 DEF SeriesAreDistinct
  <2>2. ASSUME AtMetric, NEW u \in out, NEW v \in MetricSeries,
               u.value.family = v.value.family, u.labels = v.labels
        PROVE  FALSE
    <3>1. v.value.family = i /\ MetricOf(v) = Metric
      BY <2>2, MetricShape DEF MetricOf, Metric, Family
    <3>2. /\ Metric.labels \subseteq v.labels
          /\ \A label \in v.labels :
               label \in Metric.labels \/ label[1] \in OwnLabels(Family.type)
      BY <2>2, MetricShape
    <3>3. /\ u.value.family = i /\ FamilyOf(u) = Family
          /\ u.value.metric \in DOMAIN Family.metrics /\ u.value.metric # j
          /\ MetricOf(u) = Family.metrics[u.value.metric]
      <4>1. u.value.family = i /\ FamilyOf(u) = Family
        BY <2>2, <3>1 DEF FamilyOf, Family
      <4>2. u.value.metric \in 1 .. Len(Family.metrics) /\ u.value.metric < j
        BY <4>1 DEF TypeOK
      <4>3. Family.metrics \in Seq(MetricSet) /\ j \in DOMAIN Family.metrics
        BY <2>2, MetricAtHand DEF FamilySet
      <4>4. QED
        BY <4>1, <4>2, <4>3 DEF MetricOf, FamilyOf, Family
    <3>4. /\ MetricOf(u).labels # Metric.labels
          /\ \A label \in MetricOf(u).labels : label[1] \notin OwnLabels(Family.type)
          /\ \A label \in Metric.labels : label[1] \notin OwnLabels(Family.type)
      <4>1. MetricOf(u).labels # Metric.labels
        BY <2>2, <3>3, MetricAtHand
      <4>2. i \in DOMAIN mfs
        BY <2>2, MetricAtHand
      <4>3. \A n \in DOMAIN mfs[i].metrics :
              \A label \in mfs[i].metrics[n].labels : label[1] \notin OwnLabels(mfs[i].type)
        BY <4>2 DEF TypeOK, Registered
      <4>4. QED
        BY <2>2, <3>3, <4>1, <4>3, MetricAtHand DEF Family
    <3>5. /\ MetricOf(u).labels \subseteq u.labels
          /\ \A label \in u.labels :
               label \in MetricOf(u).labels \/ label[1] \in OwnLabels(Family.type)
      BY <3>3 DEF Shaped
    <3>6. MetricOf(u).labels = Metric.labels
      BY <2>2, <3>2, <3>4, <3>5
    <3>7. QED
      BY <3>4, <3>6
  <2>3. CASE AtMetric /\ out' = out \cup MetricSeries
    <3>1. CASE x \in MetricSeries /\ y \in MetricSeries
      <4>1. MetricOf(x) = Metric
        BY <2>3, <3>1, MetricShape DEF MetricOf, Metric, Family
      <4>2. QED
        BY <2>3, <3>1, <4>1, MetricDistinct
    <3>2. QED
      BY <2>1, <2>2, <2>3, <3>1
  <2>4. QED
    BY <2>1, <2>3, OutSteps
<1>4. QED
  BY <1>1, <1>2, <1>3, Typing, PTL DEF Spec

-----------------------------------------------------------------------------
(* Nothing is left out.                                                    *)

PartsIn(set) == {<<x.value.part, x.value.index>> : x \in set}

\* The series that are written for a metric are of all its parts and of no other.
LEMMA MetricWhole ==
  ASSUME TypeOK, AtMetric
  PROVE  PartsIn(MetricSeries) = PartsOf(Family.type, Metric)
<1> DEFINE parts == PartsOf(Family.type, Metric)
<1>0. ASSUME NEW name, NEW extra, NEW part, NEW k
      PROVE  /\ Series(name, extra, part, k).value.part = part
             /\ Series(name, extra, part, k).value.index = k
  BY DEF Series
<1>1. CASE Family.type = "HISTOGRAM"
  <2>1. parts = {<<"sum", 0>>, <<"count", 0>>} \cup {<<"bucket", k>> : k \in DOMAIN Metric.bounds}
    BY <1>1 DEF PartsOf
  <2>2. MetricSeries = SumAndCount \cup Buckets
    BY <1>1 DEF MetricSeries
  <2>3. ASSUME NEW x \in MetricSeries PROVE <<x.value.part, x.value.index>> \in parts
    <3>1. CASE x \in SumAndCount
      BY <1>0, <2>1, <3>1 DEF SumAndCount
    <3>2. CASE x \in Buckets
      <4>1. CASE x = Series(WithName(<<"_bucket">>), {<<"le", Inf>>}, "count", 0)
        BY <1>0, <2>1, <4>1
      <4>2. CASE \E k \in DOMAIN Metric.bounds :
                   x = Series(WithName(<<"_bucket">>), {<<"le", FloatLabel(Metric.bounds[k])>>},
                              "bucket", k)
        <5>1. PICK k \in DOMAIN Metric.bounds :
                x = Series(WithName(<<"_bucket">>), {<<"le", FloatLabel(Metric.bounds[k])>>},
                           "bucket", k)
          BY <4>2
        <5>2. x.value.part = "bucket" /\ x.value.index = k
          BY <1>0, <5>1
        <5>3. QED
          BY <2>1, <5>2
      <4>3. QED
        BY <3>2, <4>1, <4>2 DEF Buckets
    <3>3. QED
      BY <2>2, <2>3, <3>1, <3>2
  <2>4. <<"sum", 0>> \in PartsIn(MetricSeries) /\ <<"count", 0>> \in PartsIn(MetricSeries)
    <3>1. /\ Series(WithName(<<"_sum">>), {}, "sum", 0) \in MetricSeries
          /\ Series(WithName(<<"_count">>), {}, "count", 0) \in MetricSeries
      BY <2>2 DEF SumAndCount
    <3>2. QED
      BY <1>0, <3>1 DEF PartsIn
  <2>5. ASSUME NEW k \in DOMAIN Metric.bounds PROVE <<"bucket", k>> \in PartsIn(MetricSeries)
    <3>1. Series(WithName(<<"_bucket">>), {<<"le", FloatLabel(Metric.bounds[k])>>}, "bucket", k)
            \in MetricSeries
      BY <2>2 DEF Buckets
    <3>2. QED
      BY <1>0, <3>1 DEF PartsIn
  <2>6. QED
    BY <2>1, <2>3, <2>4, <2>5 DEF PartsIn
<1>2. CASE Family.type = "SUMMARY"
  <2>1. parts = {<<"sum", 0>>, <<"count", 0>>} \cup {<<"quantile", k>> : k \in DOMAIN Metric.bounds}
    BY <1>2 DEF PartsOf
  <2>2. MetricSeries = SumAndCount \cup Quantiles
    BY <1>2 DEF MetricSeries
  <2>3. ASSUME NEW x \in MetricSeries PROVE <<x.value.part, x.value.index>> \in parts
    <3>1. CASE x \in SumAndCount
      BY <1>0, <2>1, <3>1 DEF SumAndCount
    <3>2. CASE x \in Quantiles
      <4>1. PICK k \in DOMAIN Metric.bounds :
              x = Series(Family.name, {<<"quantile", FloatLabel(Metric.bounds[k])>>}, "quantile", k)
        BY <3>2 DEF Quantiles
      <4>2. x.value.part = "quantile" /\ x.value.index = k
        BY <1>0, <4>1
      <4>3. QED
        BY <2>1, <4>2
    <3>3. QED
      BY <2>2, <2>3, <3>1, <3>2
  <2>4. <<"sum", 0>> \in PartsIn(MetricSeries) /\ <<"count", 0>> \in PartsIn(MetricSeries)
    <3>1. /\ Series(WithName(<<"_sum">>), {}, "sum", 0) \in MetricSeries
          /\ Series(WithName(<<"_count">>), {}, "count", 0) \in MetricSeries
      BY <2>2 DEF SumAndCount
    <3>2. QED
      BY <1>0, <3>1 DEF PartsIn
  <2>5. ASSUME NEW k \in DOMAIN Metric.bounds PROVE <<"quantile", k>> \in PartsIn(MetricSeries)
    <3>1. Series(Family.name, {<<"quantile", FloatLabel(Metric.bounds[k])>>}, "quantile", k)
            \in MetricSeries
      BY <2>2 DEF Quantiles
    <3>2. QED
      BY <1>0, <3>1 DEF PartsIn
  <2>6. QED
    BY <2>1, <2>3, <2>4, <2>5 DEF PartsIn
<1>3. CASE Family.type \notin {"HISTOGRAM", "SUMMARY"}
  <2>1. parts = {<<"value", 0>>}
    BY <1>3 DEF PartsOf
  <2>2. MetricSeries = {Series(Family.name, {}, "value", 0)}
    BY <1>3 DEF MetricSeries, Scalar
  <2>3. QED
    BY <1>0, <2>1, <2>2 DEF PartsIn
<1>4. QED
  BY <1>1, <1>2, <1>3

\* A metric that the walk has not passed has no series yet.
LEMMA NotPassedYet ==
  ASSUME TypeOK, AtMetric
  PROVE  SeriesOf(i, j) = {}
<1>1. i \in Nat /\ j \in Nat
  BY MetricAtHand DEF TypeOK, AtMetric, Registered
<1>2. \A x \in out : x.value.family = i => x.value.metric < j /\ x.value.metric \in Int
  BY DEF TypeOK, FamilyOf
<1>3. QED
  BY <1>1, <1>2 DEF SeriesOf

\* A step writes series of the metric at hand and leaves those of the others alone.
LEMMA SeriesStep ==
  ASSUME TypeOK, Encode
  PROVE  /\ {x \in out' : x.value.family = i /\ x.value.metric = j} = MetricSeries
         /\ \A m, n : m # i \/ n # j =>
              {x \in out' : x.value.family = m /\ x.value.metric = n} = SeriesOf(m, n)
<1>1. AtMetric /\ out' = out \cup MetricSeries
  BY DEF Encode
<1>2. \A x \in MetricSeries : x.value.family = i /\ x.value.metric = j
  BY <1>1, MetricShape
<1>3. SeriesOf(i, j) = {}
  BY <1>1, NotPassedYet
<1>4. {x \in out' : x.value.family = i /\ x.value.metric = j} = MetricSeries
  BY <1>1, <1>2, <1>3 DEF SeriesOf
<1>5. QED
  BY <1>1, <1>2, <1>4 DEF SeriesOf

\* The series that a metric which is passed has to have.
Whole(m, n) ==
  PartsIn(SeriesOf(m, n)) =
    IF mfs[m].type \in Cases THEN PartsOf(mfs[m].type, mfs[m].metrics[n]) ELSE {}

\* A metric is passed when the walk leaves it, and is whole then and ever after.
LEMMA WholeStep ==
  ASSUME TypeOK, [Next]_vars, NEW m \in DOMAIN mfs, NEW n \in DOMAIN mfs[m].metrics,
         Passed(m, n) => Whole(m, n), Passed(m, n)'
  PROVE  Whole(m, n)'
<1>0. /\ mfs' = mfs /\ Cases' = Cases
      /\ i \in Nat /\ j \in Nat /\ m \in Nat /\ n \in Nat /\ n >= 1
      /\ i <= Len(mfs) => Len(Family.metrics) \in Nat
      /\ n <= Len(mfs[m].metrics)
  <2>1. mfs' = mfs /\ Cases' = Cases
    BY InputStays DEF Cases
  <2>2. mfs \in Seq(FamilySet) /\ i \in 1 .. Len(mfs) + 1 /\ Len(mfs) \in Nat
    BY DEF TypeOK, Registered
  <2>3. \A f \in FamilySet : f.metrics \in Seq(MetricSet)
    BY DEF FamilySet
  <2>4. mfs[m].metrics \in Seq(MetricSet) /\ m \in Nat
    BY <2>2, <2>3
  <2>5. n \in Nat /\ n >= 1 /\ n <= Len(mfs[m].metrics)
    BY <2>4
  <2>6. i <= Len(mfs) => Family.metrics \in Seq(MetricSet)
    BY <2>2, <2>3 DEF Family
  <2>7. i <= Len(mfs) => Len(Family.metrics) \in Nat
    BY <2>6
  <2>8. j \in Nat
    BY <2>2, <2>7 DEF TypeOK
  <2>9. QED
    BY <2>1, <2>2, <2>4, <2>5, <2>7, <2>8
<1>1. CASE Encode /\ m = i /\ n = j
  <2>1. SeriesOf(m, n)' = MetricSeries
    BY <1>1, SeriesStep DEF SeriesOf
  <2>2. /\ PartsIn(MetricSeries) = PartsOf(Family.type, Metric)
        /\ Family.type \in Cases
    BY <1>1, MetricWhole DEF Encode
  <2>3. Family = mfs[m] /\ Metric = mfs[m].metrics[n]
    BY <1>1 DEF Family, Metric
  <2>4. PartsIn(MetricSeries) = PartsOf(mfs[m].type, mfs[m].metrics[n])
    BY <2>2, <2>3
  <2>5. QED
    BY <1>0, <2>1, <2>2, <2>3, <2>4 DEF Whole, PartsIn
<1>2. CASE Encode /\ (m # i \/ n # j)
  <2>1. SeriesOf(m, n)' = SeriesOf(m, n)
    BY <1>2, SeriesStep DEF SeriesOf
  <2>2. Passed(m, n)
    BY <1>0, <1>2 DEF Encode, Passed
  <2>3. QED
    BY <1>0, <2>1, <2>2 DEF Whole, PartsIn
<1>3. CASE ~Encode
  <2>1. out' = out
    BY <1>3 DEF Next, Gather, NoCase, NextFamily, NextFamilyAt, Return, vars
  <2>2. SeriesOf(m, n)' = SeriesOf(m, n)
    BY <2>1 DEF SeriesOf
  <2>3. CASE Passed(m, n)
    BY <1>0, <2>2, <2>3 DEF Whole, PartsIn
  <2>4. CASE ~Passed(m, n) /\ NoCase
    <3>1. m = i /\ n = j
      BY <1>0, <2>4 DEF NoCase, Passed
    <3>2. SeriesOf(m, n) = {}
      BY <2>4, <3>1, NotPassedYet DEF NoCase
    <3>3. mfs[m].type \notin Cases
      BY <2>4, <3>1 DEF NoCase, Family
    <3>4. PartsIn(SeriesOf(m, n)) = {}
      BY <3>2 DEF PartsIn
    <3>5. QED
      BY <1>0, <2>2, <3>3, <3>4 DEF Whole, PartsIn
  <2>5. CASE ~Passed(m, n) /\ NextFamily
    <3>1. /\ i <= Len(mfs) /\ j > Len(mfs[i].metrics) /\ i' = i + 1 /\ j' = 1
      BY <2>5 DEF NextFamily, NextFamilyAt, Family
    <3>2. ~(m = i /\ n < j)
      BY <2>5 DEF Passed
    <3>3. m # i
      BY <1>0, <3>1, <3>2 DEF Family
    <3>4. QED
      BY <1>0, <2>5, <3>1, <3>3 DEF Passed
  <2>6. CASE ~Passed(m, n) /\ ~NoCase /\ ~NextFamily
    <3>1. i' = i /\ j' = j
      BY <1>3, <2>6 DEF Next, Gather, Return, vars
    <3>2. QED
      BY <2>6, <3>1 DEF Passed
  <2>7. QED
    BY <2>3, <2>4, <2>5, <2>6
<1>4. QED
  BY <1>1, <1>2, <1>3

\* Every metric that the encoders go past has all its numbers in the request and no
\* other, and is missing only if its type has no case (encode.rs:104-165,
\* encode.go:22-65), however families, types and timestamps are mixed.
THEOREM WholeMetrics == Spec => []MetricsAreWhole
<1>1. Init => MetricsAreWhole
  <2> SUFFICES ASSUME Init, NEW m \in DOMAIN mfs, NEW n \in DOMAIN mfs[m].metrics
               PROVE  ~Passed(m, n)
    BY DEF MetricsAreWhole
  <2>1. mfs \in Seq(FamilySet) /\ \A f \in FamilySet : f.metrics \in Seq(MetricSet)
    BY InputsAssumption DEF Init, Registered, FamilySet
  <2>2. m \in Nat /\ m >= 1 /\ mfs[m].metrics \in Seq(MetricSet)
    BY <2>1
  <2>3. n \in Nat /\ n >= 1
    BY <2>2
  <2>4. QED
    BY <2>2, <2>3 DEF Init, Passed
<1>2. MetricsAreWhole /\ TypeOK /\ [Next]_vars => MetricsAreWhole'
  <2> SUFFICES ASSUME MetricsAreWhole, TypeOK, [Next]_vars,
                      NEW m \in DOMAIN mfs, NEW n \in DOMAIN mfs[m].metrics, Passed(m, n)'
               PROVE  Whole(m, n)'
    BY InputStays DEF MetricsAreWhole, Whole, PartsIn
  <2>1. Passed(m, n) => Whole(m, n)
    BY DEF MetricsAreWhole, Whole, PartsIn
  <2>2. QED
    BY <2>1, WholeStep
<1>3. QED
  BY <1>1, <1>2, Typing, PTL DEF Spec

-----------------------------------------------------------------------------
(* The two languages side by side.                                         *)

\* One metric in two states, the Rust encoder at it in the first and the Go encoder
\* in the second: if both have a case for its type, they write the same series,
\* unless its timestamp is zero, +Inf is among its bounds, or it has no timestamp
\* and the clock is before the epoch (encode.rs:104-165, encode.go:22-65).
THEOREM LanguagesAgree ==
  ASSUME sdk = "rust", sdk' = "go", UNCHANGED <<clock, mfs, i, j>>, clock \in Int,
         Metric.time # 0, Metric.time = NoTime => clock >= 0, \A k \in DOMAIN Metric.bounds : Metric.bounds[k] # Inf
  PROVE  MetricSeries' = MetricSeries
<1>1. Family' = Family /\ Metric' = Metric
  BY DEF Family, Metric
<1>2. Timestamp' = Timestamp
  BY <1>1 DEF Timestamp, HasTime, Now
<1>3. \A k \in DOMAIN Metric.bounds : FloatLabel(Metric.bounds[k])' = FloatLabel(Metric.bounds[k])
  BY <1>1 DEF FloatLabel
<1>4. Scalar' = Scalar /\ SumAndCount' = SumAndCount
  BY <1>1, <1>2 DEF Scalar, SumAndCount, Series, WithName
<1>5. Buckets' = Buckets
  BY <1>1, <1>2, <1>3 DEF Buckets, Series, WithName
<1>6. Quantiles' = Quantiles
  BY <1>1, <1>2, <1>3 DEF Quantiles, Series
<1>7. QED
  BY <1>1, <1>4, <1>5, <1>6 DEF MetricSeries

=============================================================================
