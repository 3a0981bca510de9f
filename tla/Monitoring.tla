----------------------------- MODULE Monitoring -----------------------------
(***************************************************************************)
(* Metrics export (src/o11y/monitoring/monitoring.go).  SetupViews builds *)
(* the package-level staticMetricLabels from a two-element literal and    *)
(* one append per -metrics_labels pair, then creates five instruments,    *)
(* returning at the first error.  Every ExportActionMetrics and           *)
(* ExportBuildMetrics call returns unless all five exist (enabled), then  *)
(* appends its own attributes (four, or one) to staticMetricLabels        *)
(* without holding mu and records with the result.                        *)
(*                                                                         *)
(* Go's append writes into the shared backing array when it has room      *)
(* (len + k <= cap) and copies otherwise.  The array's slot at index len  *)
(* is the one both exporters write their `status` attribute into: slot    *)
(* holds the last value written there.  A status is named by the actor    *)
(* that computed it.  attribute.KeyValue is 64 bytes, a power of two, so  *)
(* the capacities growslice picks are powers of two.                      *)
(***************************************************************************)
EXTENDS Naturals

CONSTANTS
    Procs,        \* goroutines finishing actions: ExportActionMetrics
    LabelCounts,  \* possible numbers of -metrics_labels pairs
    MaxSetups     \* SetupViews calls

Build == "build"              \* the ExportBuildMetrics caller
Actors == Procs \cup {Build}
Instruments == 5              \* actionCount ... buildCount

\* Attributes an exporter appends (lines 210-215, 229-231).
Extra(a) == IF a = Build THEN 1 ELSE 4

\* cap(staticMetricLabels) after the literal of two (lines 71-74) and k
\* single appends (lines 75-77): full, it doubles.
RECURSIVE CapAfter(_)
CapAfter(k) ==
    IF k = 0 THEN 2
    ELSE LET c == CapAfter(k - 1) IN IF 2 + k <= c THEN c ELSE 2 * c

VARIABLES
    numLabels,  \* len(labels), the -metrics_labels pairs
    len,        \* len(staticMetricLabels); 0 before SetupViews
    cap,        \* its cap
    setupPc,    \* SetupViews: "idle", "checked", "instruments", "done"
    made,       \* instruments created so far
    setups,     \* SetupViews calls so far
    epc,        \* actor -> "idle", "appended", "recorded", "skipped"
    shared,     \* actor -> its attributes live in the shared backing array
    slot,       \* the shared array's element at index len: an actor, or "none"
    rec         \* actor -> the status its record carries, or "none"

monVars == <<numLabels, len, cap, setupPc, made, setups, epc, shared, slot, rec>>

\* enabled() (lines 237-244).
Enabled == made = Instruments

Init ==
    /\ numLabels \in LabelCounts
    /\ len = 0 /\ cap = 0
    /\ setupPc = "idle" /\ made = 0 /\ setups = 0
    /\ epc = [a \in Actors |-> "idle"]
    /\ shared = [a \in Actors |-> FALSE]
    /\ slot = "none"
    /\ rec = [a \in Actors |-> "none"]

----------------------------------------------------------------------------
(* SetupViews, called by one goroutine.                                   *)

\* len(staticMetricLabels) != 0: "views were already setup" (lines 65-67).
SetupCheck ==
    /\ setupPc = "idle" /\ setups < MaxSetups
    /\ setups' = setups + 1
    /\ setupPc' = IF len # 0 THEN "idle" ELSE "checked"
    /\ UNCHANGED <<numLabels, len, cap, made, epc, shared, slot, rec>>

\* Under mu, the labels are built (lines 68-78).
SetupLabels ==
    /\ setupPc = "checked"
    /\ len' = 2 + numLabels
    /\ cap' = CapAfter(numLabels)
    /\ setupPc' = "instruments"
    /\ UNCHANGED <<numLabels, made, setups, epc, shared, slot, rec>>

\* meter.Int64Counter / Float64Histogram: the next instrument is created,
\* or SetupViews returns its error with the labels already set (lines
\* 80-125); after the fifth the views are returned (lines 126-152).
SetupInstrument ==
    /\ setupPc = "instruments"
    /\ \/ /\ made' = made + 1
          /\ setupPc' = IF made + 1 = Instruments THEN "done" ELSE "instruments"
       \/ /\ setupPc' = "idle"
          /\ UNCHANGED made
    /\ UNCHANGED <<numLabels, len, cap, setups, epc, shared, slot, rec>>

----------------------------------------------------------------------------
(* The exporters.                                                          *)

\* Not enabled: the call returns (lines 178-180, 222-224).
ExportSkipped(a) ==
    /\ epc[a] = "idle" /\ ~Enabled
    /\ epc' = [epc EXCEPT ![a] = "skipped"]
    /\ UNCHANGED <<numLabels, len, cap, setupPc, made, setups, shared, slot, rec>>

\* append(staticMetricLabels, ...): in place when it fits, the status
\* written at index len (lines 185-215, 225-231).
ExportAppend(a) ==
    /\ epc[a] = "idle" /\ Enabled
    /\ IF len + Extra(a) <= cap
          THEN shared' = [shared EXCEPT ![a] = TRUE] /\ slot' = a
          ELSE UNCHANGED <<shared, slot>>
    /\ epc' = [epc EXCEPT ![a] = "appended"]
    /\ UNCHANGED <<numLabels, len, cap, setupPc, made, setups, rec>>

\* Add and Record take the attributes: the shared slot as it is now, or
\* the caller's own copy (lines 216-217, 232-234).
ExportRecord(a) ==
    /\ epc[a] = "appended"
    /\ rec' = [rec EXCEPT ![a] = IF shared[a] THEN slot ELSE a]
    /\ epc' = [epc EXCEPT ![a] = "recorded"]
    /\ UNCHANGED <<numLabels, len, cap, setupPc, made, setups, shared, slot>>

Finished ==
    /\ \A a \in Actors : epc[a] \in {"recorded", "skipped"}
    /\ UNCHANGED monVars

Export(a) == ExportSkipped(a) \/ ExportAppend(a) \/ ExportRecord(a)

Next ==
    \/ SetupCheck \/ SetupLabels \/ SetupInstrument
    \/ \E a \in Actors : Export(a)
    \/ Finished

Spec == Init /\ [][Next]_monVars

----------------------------------------------------------------------------
TypeOK ==
    /\ numLabels \in LabelCounts
    /\ len \in {0} \cup {2 + k : k \in LabelCounts}
    /\ cap \in {0} \cup {CapAfter(k) : k \in LabelCounts}
    /\ len <= cap
    /\ setupPc \in {"idle", "checked", "instruments", "done"}
    /\ made \in 0..Instruments /\ setups \in 0..MaxSetups
    /\ epc \in [Actors -> {"idle", "appended", "recorded", "skipped"}]
    /\ shared \in [Actors -> BOOLEAN]
    /\ slot \in Actors \cup {"none"}
    /\ rec \in [Actors -> Actors \cup {"none"}]

\* "ExportActionMetrics exports metrics for one log record" (line 176),
\* and spec.md: metrics emit per-step status.  Each record carries the
\* status its own call computed, whatever other exporters run at once.
ActionLabelledWithOwnStatus ==
    \A a \in Actors : epc[a] = "recorded" => rec[a] = a

====
