------------------------------ MODULE Metrics ------------------------------
(***************************************************************************)
(* The monitor gauges of internal/metrics/metrics.go.  SetMonitorSnapshot  *)
(* writes seven gauges one after the other, each write atomic and the      *)
(* whole not, in the order of AllGauges; the other modules make each write *)
(* a step.  An instance may follow only some of the gauges, in the same    *)
(* order; what a write to a gauge does never depends on the others.        *)
(***************************************************************************)
EXTENDS Monitor

CONSTANTS
    Gauges,           \* the gauges an instance follows, in the order written
    TicksPerSecond    \* ticks of the clock in a second of Unix time

PhaseGauges == <<"scheduled", "awaiting", "overdue", "alerting">>
AllGauges == PhaseGauges \o <<"lastCheckIn", "expectedBy", "alertingAt">>
GaugeNames == {AllGauges[i] : i \in DOMAIN AllGauges}

\* Some order-preserving choice of positions of AllGauges.
ASSUME GaugesAssumption ==
    /\ Gauges \in Seq(GaugeNames) \ {<<>>}
    /\ \A i, j \in DOMAIN Gauges : i < j =>
           \E k, l \in DOMAIN AllGauges :
               k < l /\ Gauges[i] = AllGauges[k] /\ Gauges[j] = AllGauges[l]

ASSUME TicksAssumption == TicksPerSecond \in Nat \ {0}

Followed == {Gauges[i] : i \in DOMAIN Gauges}

\* setActiveMonitorPhase: 1 for the active phase, 0 for every other.
PhaseValue(snapshot, g) == IF snapshot.phase = g THEN 1 ELSE 0

\* Whole Unix seconds; 0 for the zero time.
TimestampValue(t) == IF t = NoTime THEN 0 ELSE t \div TicksPerSecond

GaugeValue(snapshot, g) ==
    CASE g = "lastCheckIn" -> TimestampValue(snapshot.lastCheckIn)
      [] g = "expectedBy"  -> TimestampValue(snapshot.expectedBy)
      [] g = "alertingAt"  -> TimestampValue(snapshot.alertingAt)
      [] OTHER             -> PhaseValue(snapshot, g)

\* Every followed gauge shows the given snapshot.
GaugesShow(values, snapshot) ==
    \A g \in Followed : values[g] = GaugeValue(snapshot, g)

=============================================================================
