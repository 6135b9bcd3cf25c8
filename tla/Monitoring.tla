------------------------------ MODULE Monitoring ------------------------------
(* What AutoService measures and what follows from it: the points a metric is *)
(* recorded by and the three windows they are read through                    *)
(* (sla_aggregator.py), the alerts their percentiles raise                    *)
(* (alert_engine.py), the counters a month is billed by (billing_metrics.py)  *)
(* and the bill (billing.py).                                                 *)
(*                                                                            *)
(* Everything is in the memory of one process, and no call but the            *)
(* notification of an alert awaits: each call is one action.  Values are      *)
(* integers (milliseconds, hundredths); a percentile is in hundredths of      *)
(* these, and money in hundredths of a dollar, so that both are exact.        *)
EXTENDS Integers, Sequences, FiniteSets

CONSTANTS
  Metrics,         \* MetricType
  Windows,         \* WindowSize
  WindowSeconds,   \* WINDOW_SECONDS
  Capacity,        \* max_capacity of a RingBuffer
  Values,          \* what may be recorded
  AlertRules,      \* [metric, window, percentile, threshold, direction, cooldown_seconds]
  Conversations,
  Takeovers,       \* the events that switch a conversation to takeover
  Periods,         \* months
  NoSnapshot,      \* a month that is not closed
  Unlimited        \* the cap of the last tier

VARIABLES
  now,          \* time.time()
  recorded,     \* metric -> all that was ever recorded: [value, at]
  kept,         \* <<metric, window>> -> which of these its buffer still holds
  last_fired,   \* rule -> when it fired last, 0 if never
  fired,        \* the alerts raised so far: [rule, at]
  pending,      \* those whose notification has not been tried
  pushed,       \* those the administrators were notified of
  takeovers, csat, escalations,   \* the live counters
  monthly       \* month -> its snapshot

sla     == <<recorded, kept>>
alerts  == <<last_fired, fired, pending, pushed>>
live    == <<takeovers, csat, escalations>>
monitoring_vars    == <<now, sla, alerts, live, monthly>>

-----------------------------------------------------------------------------
(* Metrics                                                                    *)

(* The deque of a window with one more point drops what was recorded Capacity *)
(* points earlier.                                                            *)
Pushed(points, last) == {k \in points \cup {last} : k > last - Capacity}

(* A point is recorded in all windows.                                        *)
Record(metric, value) ==
  /\ recorded' = [recorded EXCEPT ![metric] = Append(recorded[metric], [value |-> value, at |-> now])]
  /\ kept' = [p \in Metrics \X Windows |->
                IF p[1] = metric THEN Pushed(kept[p], Len(recorded[metric]) + 1) ELSE kept[p]]
  /\ UNCHANGED <<now, alerts, live, monthly>>

Fresh(p, i) == recorded[p[1]][i].at >= now - WindowSeconds[p[2]]

(* Reading a window removes points from its old end up to the first fresh one.*)
EvictOld(p) == {i \in kept[p] : \E j \in kept[p] : j <= i /\ Fresh(p, j)}

(* get_percentiles of some windows.                                           *)
Reads(pairs) == kept' = [p \in Metrics \X Windows |-> IF p \in pairs THEN EvictOld(p) ELSE kept[p]]

(* /api/sla/summary and the status command read one window of each metric.    *)
SlaSummary(window) ==
  /\ Reads(Metrics \X {window})
  /\ UNCHANGED <<now, recorded, alerts, live, monthly>>

(* The points of a window by their value.                                     *)
Orderings(metric, points) ==
  {o \in [1 .. Cardinality(points) -> points] :
     \A i, j \in DOMAIN o : i < j =>
       o[i] /= o[j] /\ recorded[metric][o[i]].value <= recorded[metric][o[j]].value}

(* The percentile of n values in order, interpolated between two of them.     *)
Percentile(values, n, pct) ==
  LET f == (pct * (n - 1)) \div 100
      d == (pct * (n - 1)) % 100
      c == IF f + 1 < n THEN f + 1 ELSE f
  IN 100 * values[f + 1] + d * (values[c + 1] - values[f + 1])

-----------------------------------------------------------------------------
(* Alerts                                                                     *)

Due(rule) == now - last_fired[rule] >= rule.cooldown_seconds

Pair(rule) == <<rule.metric, rule.window>>

Beyond(rule, value) ==
  IF rule.direction = "below" THEN value < 100 * rule.threshold ELSE value > 100 * rule.threshold

(* A window without a point raises nothing.                                   *)
Triggered(rule) ==
  /\ EvictOld(Pair(rule)) /= {}
  /\ \E o \in Orderings(rule.metric, EvictOld(Pair(rule))) :
       LET values == [i \in DOMAIN o |-> recorded[rule.metric][o[i]].value] IN
       Beyond(rule, Percentile(values, Cardinality(EvictOld(Pair(rule))), rule.percentile))

(* All rules are evaluated at once; the cooldown of those that fire starts    *)
(* whether or not anybody hears of it.                                        *)
Evaluate ==
  LET due   == {rule \in AlertRules : Due(rule)}
      fires == {rule \in due : Triggered(rule)}
      new   == {[rule |-> rule, at |-> now] : rule \in fires}
  IN
  /\ Reads({Pair(rule) : rule \in due})
  /\ last_fired' = [rule \in AlertRules |-> IF rule \in fires THEN now ELSE last_fired[rule]]
  /\ fired' = fired \cup new
  /\ pending' = pending \cup new
  /\ UNCHANGED <<now, recorded, pushed, live, monthly>>

(* A notification that fails is logged and not tried again.                   *)
Notify(alert) ==
  /\ alert \in pending
  /\ pending' = pending \ {alert}
  /\ pushed' \in {pushed, pushed \cup {alert}}
  /\ UNCHANGED <<now, sla, last_fired, fired, live, monthly>>

Tick ==
  /\ now' \in {t \in Nat : t > now}
  /\ UNCHANGED <<sla, alerts, live, monthly>>

-----------------------------------------------------------------------------
(* The counters of a month                                                    *)

(* Which takeovers there were; the code counts them by conversation.          *)
RecordTakeover(takeover) ==
  /\ takeover \notin takeovers /\ \A p \in Periods : monthly[p] /= NoSnapshot => takeover \notin monthly[p].takeovers
  /\ takeovers' = takeovers \cup {takeover}
  /\ UNCHANGED <<now, sla, alerts, csat, escalations, monthly>>

(* A score outside 1..5 raises; 0 stands for none.                            *)
RecordCsat(conversation, score) ==
  /\ score \in 1 .. 5
  /\ csat' = [csat EXCEPT ![conversation] = score]
  /\ UNCHANGED <<now, sla, alerts, takeovers, escalations, monthly>>

RecordEscalation(conversation) ==
  /\ escalations' = [escalations EXCEPT ![conversation] = "escalated"]
  /\ UNCHANGED <<now, sla, alerts, takeovers, csat, monthly>>

RecordResolution(conversation) ==
  /\ escalations[conversation] /= "none"
  /\ escalations' = [escalations EXCEPT ![conversation] = "resolved"]
  /\ UNCHANGED <<now, sla, alerts, takeovers, csat, monthly>>

CurrentSnapshot == [takeovers |-> takeovers, csat |-> csat, escalations |-> escalations]

NoCsat       == [c \in Conversations |-> 0]
NoEscalation == [c \in Conversations |-> "none"]

(* A month may be closed again: its first snapshot is overwritten.            *)
CloseMonth(period) ==
  /\ monthly' = [monthly EXCEPT ![period] = CurrentSnapshot]
  /\ takeovers' = {} /\ csat' = NoCsat /\ escalations' = NoEscalation
  /\ UNCHANGED <<now, sla, alerts>>

(* What a month is billed by: the live counters while it is open.             *)
BillingSnapshot(period) == IF monthly[period] = NoSnapshot THEN CurrentSnapshot ELSE monthly[period]

-----------------------------------------------------------------------------
(* The bill                                                                   *)

DefaultTiers == <<[cap |-> 100, price |-> 0], [cap |-> 1000, price |-> 50],
                  [cap |-> 10000, price |-> 30], [cap |-> Unlimited, price |-> 15]>>

(* validate_tiers compares each cap with itself.                              *)
Less(cap, other) == cap /= Unlimited /\ (other = Unlimited \/ cap < other)

PrevMax(tiers, i) == IF i = 1 THEN 0 ELSE tiers[i - 1].cap

Gap(tiers, i) == i > 1 /\ tiers[i].cap /= Unlimited /\ Less(tiers[i - 1].cap, PrevMax(tiers, i))

ValidTiers(tiers) == tiers /= <<>> /\ \A i \in DOMAIN tiers : ~Gap(tiers, i)

(* One round of calculate: the conversations that are left fill the tier.     *)
Room(bill, tier) == IF tier.cap = Unlimited THEN bill.remaining ELSE tier.cap - bill.prev_max

Taken(bill, tier) == IF bill.remaining < Room(bill, tier) THEN bill.remaining ELSE Room(bill, tier)

Fill(bill, tier) ==
  IF bill.remaining <= 0 THEN bill
  ELSE [remaining |-> bill.remaining - Taken(bill, tier),
        prev_max  |-> IF tier.cap = Unlimited THEN bill.prev_max ELSE tier.cap,
        billed    |-> bill.billed + Taken(bill, tier),
        total     |-> bill.total + tier.price * Taken(bill, tier)]

(* TieredBilling.calculate, with the tiers the service bills by.              *)
Calculate(count) ==
  Fill(Fill(Fill(Fill([remaining |-> count, prev_max |-> 0, billed |-> 0, total |-> 0],
    DefaultTiers[1]), DefaultTiers[2]), DefaultTiers[3]), DefaultTiers[4])

GenerateBill(period) ==
  LET count == Cardinality(BillingSnapshot(period).takeovers) IN
  [total  |-> Calculate(count).total,
   status |-> IF count = 0 THEN "zero_usage"
              ELSE IF monthly[period] = NoSnapshot THEN "provisional" ELSE "final"]

Invoices == [period \in Periods |-> GenerateBill(period)]

-----------------------------------------------------------------------------
MonitoringInit ==
  /\ now \in Nat
  /\ recorded = [m \in Metrics |-> <<>>]
  /\ kept = [p \in Metrics \X Windows |-> {}]
  /\ last_fired = [rule \in AlertRules |-> 0]
  /\ fired = {} /\ pending = {} /\ pushed = {}
  /\ takeovers = {} /\ csat = NoCsat /\ escalations = NoEscalation
  /\ monthly = [p \in Periods |-> NoSnapshot]

MonitoringNext ==
  \/ Tick \/ Evaluate
  \/ \E metric \in Metrics, value \in Values : Record(metric, value)
  \/ \E window \in Windows : SlaSummary(window)
  \/ \E alert \in pending : Notify(alert)
  \/ \E takeover \in Takeovers : RecordTakeover(takeover)
  \/ \E conversation \in Conversations :
       \/ \E score \in 1 .. 5 : RecordCsat(conversation, score)
       \/ RecordEscalation(conversation) \/ RecordResolution(conversation)
  \/ \E period \in Periods : CloseMonth(period)

MonitoringSpec == MonitoringInit /\ [][MonitoringNext]_monitoring_vars
-----------------------------------------------------------------------------
(* Properties                                                                 *)

Snapshots == [takeovers : SUBSET Takeovers, csat : [Conversations -> 0 .. 5],
              escalations : [Conversations -> {"none", "escalated", "resolved"}]]

MonitoringTypeOK ==
  /\ now \in Nat
  /\ recorded \in [Metrics -> Seq([value : Values, at : Nat])]
  /\ kept \in [Metrics \X Windows -> SUBSET Nat]
  /\ last_fired \in [AlertRules -> Nat]
  /\ fired \in SUBSET [rule : AlertRules, at : Nat]
  /\ pending \subseteq fired /\ pushed \subseteq fired
  /\ takeovers \in SUBSET Takeovers
  /\ csat \in [Conversations -> 0 .. 5]
  /\ escalations \in [Conversations -> {"none", "escalated", "resolved"}]
  /\ monthly \in [Periods -> Snapshots \cup {NoSnapshot}]

(* The points a reader of the window should see: those that are fresh, of the *)
(* last Capacity ones.                                                        *)
Recent(p) == {i \in 1 .. Len(recorded[p[1]]) : i > Len(recorded[p[1]]) - Capacity /\ Fresh(p, i)}

(* A reader sees exactly these, however the buffers of the three windows were *)
(* trimmed by other readers before.                                           *)
WindowsAreExact == \A p \in Metrics \X Windows : EvictOld(p) = Recent(p)

(* Two alerts of a rule are at least its cooldown apart.                      *)
CooldownsHold ==
  \A a, b \in fired : a.rule = b.rule /\ a.at < b.at => a.at + a.rule.cooldown_seconds <= b.at

Cause(rule) ==
  \E i \in Recent(Pair(rule)) :
    LET value == recorded[rule.metric][i].value IN
    IF rule.direction = "below" THEN value < rule.threshold ELSE value > rule.threshold

(* An alert is raised only when a recent value is beyond its threshold.       *)
AlertsHaveACause == [][\A alert \in fired' \ fired : Cause(alert.rule)]_monitoring_vars

(* No takeover is in the final bills of two months, nor in one while it is    *)
(* still counted for the months that are open.                                *)
BilledOnce ==
  \A p \in Periods : monthly[p] /= NoSnapshot =>
    /\ monthly[p].takeovers \cap takeovers = {}
    /\ \A q \in Periods \ {p} : monthly[q] /= NoSnapshot => monthly[p].takeovers \cap monthly[q].takeovers = {}

Counted == takeovers \cup UNION {monthly[p].takeovers : p \in {p \in Periods : monthly[p] /= NoSnapshot}}

Overwritten(takeover) ==
  \E p \in Periods : monthly[p] /= NoSnapshot /\ takeover \in monthly[p].takeovers /\ monthly'[p] = CurrentSnapshot

(* A takeover that was counted is forgotten only when its month is closed a   *)
(* second time.                                                               *)
TakeoversAreKept == [][\A takeover \in Counted \ Counted' : Overwritten(takeover)]_monitoring_vars
=============================================================================
