---------------------------- MODULE EncodeFamilies ----------------------------
(***************************************************************************)
(* The remote_write encoders: encode_metric_families of                    *)
(* src/src/prom_proxy/encode.rs and EncodeMetricFamilies of                *)
(* src/promproxy/encode.go, which walk the families that a registry has    *)
(* gathered and write one time series for each number of each metric.      *)
(*                                                                         *)
(* Numbers are abstract: a sample names the metric and the part of it that *)
(* its value is taken from, so that no two series of a request are equal,  *)
(* and the request is a set: their order means nothing upstream.  A name   *)
(* is the sequence of its parts: "h" with "_count" is the name of a family *)
(* called "h_count" too.                                                   *)
(***************************************************************************)
EXTENDS Integers, Sequences

CONSTANTS
  Inputs,   \* the lists of families that registries gather
  Inf,      \* the bucket bound +Inf
  NoTime,   \* the timestamp of a metric that has none
  Clocks    \* what the system clock may show, in milliseconds since the epoch

VARIABLES
  sdk,     \* which of the encoders runs
  clock,   \* the system clock when it starts
  mfs,     \* the families it is given
  i, j,    \* the family and the metric it is at
  out,     \* the series so far
  status   \* "gathering", "encoding", "encoded" or "failed"

vars == <<sdk, clock, mfs, i, j, out, status>>

-----------------------------------------------------------------------------
(* What the registries of the client libraries see to: the names of the    *)
(* families differ, in each of them the labels of the metrics differ, no   *)
(* bound occurs twice in a metric, and no label of a histogram or summary  *)
(* has the name of the label that its buckets or quantiles get.            *)

MetricSet == [labels : SUBSET (STRING \X STRING),
              time   : Int \cup {NoTime},
              bounds : Seq(STRING \ {"inf"})]

FamilySet == [name : Seq(STRING), type : STRING, metrics : Seq(MetricSet)]

DistinctValues(seq) == \A a, b \in DOMAIN seq : a # b => seq[a] # seq[b]

OwnLabels(type) == IF type = "HISTOGRAM" THEN {"le"} ELSE IF type = "SUMMARY" THEN {"quantile"} ELSE {}

Registered(families) ==
  /\ families \in Seq(FamilySet)
  /\ \A a, b \in DOMAIN families : a # b => families[a].name # families[b].name
  /\ \A m \in DOMAIN families :
       LET metrics == families[m].metrics IN
       /\ \A a, b \in DOMAIN metrics : a # b => metrics[a].labels # metrics[b].labels
       /\ \A a \in DOMAIN metrics :
            /\ DistinctValues(metrics[a].bounds)
            /\ \A label \in metrics[a].labels : label[1] \notin OwnLabels(families[m].type)

ASSUME InputsAssumption == \A families \in Inputs : Registered(families)
ASSUME InfAssumption == Inf \in STRING \ {"inf"}
ASSUME TimeAssumption == NoTime \notin Int /\ Clocks \subseteq Int

-----------------------------------------------------------------------------
(* One metric.                                                             *)

Family == mfs[i]

Metric == Family.metrics[j]

\* The reading of the clock for the whole request.  chrono_now_ms falls back to
\* zero before the epoch; UnixMilli is negative then.
Now == IF sdk = "rust" /\ clock < 0 THEN 0 ELSE clock

\* A variant of HasTime: Rust takes no timestamp for the timestamp zero.
HasAnyTime == sdk = "rust" \/ Metric.time # NoTime

\* The metric has a timestamp of its own; to Rust, zero is none.
HasTime == Metric.time # NoTime /\ (sdk = "rust" => Metric.time # 0)

Timestamp == IF ~HasTime THEN Now ELSE IF Metric.time = NoTime THEN 0 ELSE Metric.time

\* float_label, FormatFloat: finite numbers read the same in both languages.
FloatLabel(x) == IF x = Inf /\ sdk = "rust" THEN "inf" ELSE x

\* A variant of WithName: the name of the family stays.
WithoutName(suffix) == Family.name

\* with_name, withName: the labels of the metric under another name.
WithName(suffix) == Family.name \o suffix

\* ts_one, timeSeries: one sample, of one part of the metric.
Series(name, extra, part, k) ==
  [name   |-> name,
   labels |-> Metric.labels \cup extra,
   value  |-> [family |-> i, metric |-> j, part |-> part, index |-> k],
   time   |-> Timestamp]

Scalar == {Series(Family.name, {}, "value", 0)}

\* A variant of SumAndCount: the sum is written under both names.
SumTwice == {Series(WithName(<<"_sum">>), {}, "sum", 0),
             Series(WithName(<<"_count">>), {}, "sum", 0)}

SumAndCount == {Series(WithName(<<"_sum">>), {}, "sum", 0),
                Series(WithName(<<"_count">>), {}, "count", 0)}

\* A variant of Buckets: the loop alone.
BucketsOnly ==
  {Series(WithName(<<"_bucket">>), {<<"le", FloatLabel(Metric.bounds[k])>>}, "bucket", k) :
     k \in DOMAIN Metric.bounds}

\* The buckets of the metric, and one for +Inf whatever they are.
Buckets ==
  {Series(WithName(<<"_bucket">>), {<<"le", FloatLabel(Metric.bounds[k])>>}, "bucket", k) :
     k \in DOMAIN Metric.bounds}
  \cup {Series(WithName(<<"_bucket">>), {<<"le", Inf>>}, "count", 0)}

Quantiles ==
  {Series(Family.name, {<<"quantile", FloatLabel(Metric.bounds[k])>>}, "quantile", k) :
     k \in DOMAIN Metric.bounds}

\* The types of the Rust crate; Go has more.
RustTypes == {"COUNTER", "GAUGE", "UNTYPED", "HISTOGRAM", "SUMMARY"}

\* The types that have a case in the match or switch.
Cases == {"COUNTER", "GAUGE", "HISTOGRAM", "SUMMARY"} \cup (IF sdk = "go" THEN {"UNTYPED"} ELSE {})

MetricSeries ==
  CASE Family.type = "HISTOGRAM" -> SumAndCount \cup Buckets
    [] Family.type = "SUMMARY"   -> SumAndCount \cup Quantiles
    [] OTHER                     -> Scalar

-----------------------------------------------------------------------------

Init ==
  /\ sdk \in {"rust", "go"}
  /\ clock \in Clocks
  /\ mfs \in Inputs
  /\ sdk = "rust" => \A m \in DOMAIN mfs : mfs[m].type \in RustTypes
  /\ i = 1
  /\ j = 1
  /\ out = {}
  /\ status = "gathering"

\* gather returns the families, or, in Go, an error.
Gather ==
  /\ status = "gathering"
  /\ status' \in {"encoding"} \cup (IF sdk = "go" THEN {"failed"} ELSE {})
  /\ UNCHANGED <<sdk, clock, mfs, i, j, out>>

AtMetric == status = "encoding" /\ i <= Len(mfs) /\ j <= Len(Family.metrics)

\* A metric of a type with a case.
Encode ==
  /\ AtMetric
  /\ Family.type \in Cases
  /\ out' = out \cup MetricSeries
  /\ j' = j + 1
  /\ UNCHANGED <<sdk, clock, mfs, i, status>>

\* Any other metric: Rust goes on to the next one, Go gives up.
NoCase ==
  /\ AtMetric
  /\ Family.type \notin Cases
  /\ IF sdk = "rust" THEN j' = j + 1 /\ UNCHANGED status
                     ELSE status' = "failed" /\ UNCHANGED j
  /\ UNCHANGED <<sdk, clock, mfs, i, out>>

NextFamilyAt(metric) ==
  /\ status = "encoding"
  /\ i <= Len(mfs)
  /\ j > Len(Family.metrics)
  /\ i' = i + 1
  /\ j' = metric
  /\ UNCHANGED <<sdk, clock, mfs, out, status>>

\* A variant of NextFamily: the inner loop goes on where it was.
NextFamilyOnward == NextFamilyAt(j)

\* Each family is walked from its first metric.
NextFamily == NextFamilyAt(1)

\* encode_write_request, Marshal: the series as they are, or an error.
Return ==
  /\ status = "encoding"
  /\ i > Len(mfs)
  /\ status' \in {"encoded", "failed"}
  /\ UNCHANGED <<sdk, clock, mfs, i, j, out>>

Next == Gather \/ Encode \/ NoCase \/ NextFamily \/ Return

Spec == Init /\ [][Next]_vars

-----------------------------------------------------------------------------

MetricOf(x) == mfs[x.value.family].metrics[x.value.metric]

FamilyOf(x) == mfs[x.value.family]

\* Each series is of a metric that the encoder has been at.
TypeOK ==
  /\ sdk \in {"rust", "go"}
  /\ clock \in Clocks
  /\ Registered(mfs)
  /\ i \in 1 .. Len(mfs) + 1
  /\ j \in 1 .. (IF i <= Len(mfs) THEN Len(Family.metrics) + 1 ELSE 1)
  /\ status \in {"gathering", "encoding", "encoded", "failed"}
  /\ \A x \in out :
       /\ x.value.family \in 1 .. i /\ x.value.family <= Len(mfs)
       /\ x.value.metric \in 1 .. Len(FamilyOf(x).metrics)
       /\ x.value.family = i => x.value.metric < j

-----------------------------------------------------------------------------

\* The parts of a metric that make a series of their own, or more than one.
PartsOf(type, metric) ==
  CASE type = "HISTOGRAM" -> {<<"sum", 0>>, <<"count", 0>>} \cup {<<"bucket", k>> : k \in DOMAIN metric.bounds}
    [] type = "SUMMARY"   -> {<<"sum", 0>>, <<"count", 0>>} \cup {<<"quantile", k>> : k \in DOMAIN metric.bounds}
    [] OTHER              -> {<<"value", 0>>}

SeriesOf(m, n) == {x \in out : x.value.family = m /\ x.value.metric = n}

Passed(m, n) == m < i \/ (m = i /\ n < j)

\* No number of a metric is left out and none is made up, however the families
\* and their types are mixed: a metric that is passed over is one without a case
\* (encode.rs:104-165, encode.go:22-65).
MetricsAreWhole ==
  \A m \in DOMAIN mfs : \A n \in DOMAIN mfs[m].metrics :
    Passed(m, n) => {<<x.value.part, x.value.index>> : x \in SeriesOf(m, n)} =
                      IF mfs[m].type \in Cases THEN PartsOf(mfs[m].type, mfs[m].metrics[n]) ELSE {}

\* Two samples for one series and time cannot both be stored.  A family has them
\* only in Go, for a histogram whose buckets include +Inf (encode.go:45-51); in
\* Rust that bucket is called "inf" (encode.rs:130-143, :211).
SeriesAreDistinct ==
  \A x, y \in out :
    x # y /\ x.name = y.name /\ x.labels = y.labels /\ x.value.family = y.value.family
      => /\ sdk = "go"
         /\ \E k \in DOMAIN MetricOf(x).bounds : MetricOf(x).bounds[k] = Inf
         /\ <<"le", Inf>> \in x.labels

\* Every histogram has a +Inf bucket that agrees with its count, in value and in
\* time, whatever buckets it was gathered with (encode.rs:138-143, encode.go:50-51).
HistogramsAreClosed ==
  \A x \in out : FamilyOf(x).type = "HISTOGRAM" =>
    \E y \in out : /\ y.labels = MetricOf(x).labels \cup {<<"le", Inf>>}
                   /\ y.name = FamilyOf(x).name \o <<"_bucket">>
                   /\ y.value.part = "count"
                   /\ y.value.family = x.value.family /\ y.value.metric = x.value.metric
                   /\ y.time = x.time

\* Metrics without a timestamp share one reading of the clock, and a metric keeps
\* its own.  The time zero comes from Go's metrics that carry it, from a clock that
\* shows it, and from Rust's fallback when the clock is before the epoch, from
\* nowhere else (encode.rs:101, :109-113, :221-227, encode.go:18, :29-32).
TimesAreReal ==
  \A x \in out : /\ MetricOf(x).time = NoTime => x.time = Now
                 /\ MetricOf(x).time \notin {NoTime, 0} => x.time = MetricOf(x).time
                 /\ x.time = 0 => \/ sdk = "go" /\ MetricOf(x).time = 0
                                  \/ clock = 0
                                  \/ sdk = "rust" /\ clock < 0

\* The types that the comments on both encoders promise (encode.rs:99, encode.go:17).
Documented == {"COUNTER", "GAUGE", "UNTYPED", "HISTOGRAM", "SUMMARY"}

\* A request that is encoded has every metric of a documented type.  The Rust
\* encoder drops the untyped ones without a word (encode.rs:162).
DocumentedTypesEncoded ==
  status = "encoded" =>
    \A m \in DOMAIN mfs : \A n \in DOMAIN mfs[m].metrics :
      mfs[m].type \in Documented => SeriesOf(m, n) # {}

=============================================================================
