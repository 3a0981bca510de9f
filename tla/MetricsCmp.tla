----------------------------- MODULE MetricsCmp -----------------------------
(***************************************************************************)
(* `siso metrics cmp` (package metricscmd, src/subcmd/proxy/proxy.go      *)
(* lines 108-351): pick the output format, chdir, load the two            *)
(* siso_metrics.json files, join their step metrics by output and print   *)
(* one line per joined pair, as a JSON pair (join) or as the differences  *)
(* input_a - input_b (diff).                                              *)
(*                                                                         *)
(* A step metric is abstracted to its output, its action and one         *)
(* duration; the other interval fields are subtracted the same way.  A    *)
(* loaded file is a record: whether it could be read and decoded, and its *)
(* sequence of metrics.                                                    *)
(***************************************************************************)
EXTENDS Integers, Sequences, SequencesExt, FiniteSets

CONSTANTS
    OutOrder,   \* the outputs, in sort.Strings order
    Files,      \* what loadMetrics may return for an input
    Formats     \* values of --format

Outputs == ToSet(OutOrder)

\* The zero build.StepMetric that a missing map key yields.
Zero == [output |-> "", action |-> "", dur |-> 0]

\* indexMap (lines 296-303): output -> metric, a later metric of the same
\* output replacing an earlier one.
IndexMap(x) ==
    FoldLeft(LAMBDA r, m : [o \in DOMAIN r \cup {m.output} |-> IF o = m.output THEN m ELSE r[o]],
             [o \in {} |-> Zero], x)

Get(r, o) == IF o \in DOMAIN r THEN r[o] ELSE Zero

\* Mutant: x's keys only.
JoinLeftKeys(x, y) ==
    LET xm == IndexMap(x)
        ym == IndexMap(y)
    IN [i \in 1 .. Len(SelectSeq(OutOrder, LAMBDA o : o \in DOMAIN xm)) |->
          LET o == SelectSeq(OutOrder, LAMBDA o2 : o2 \in DOMAIN xm)[i]
          IN <<Get(xm, o), Get(ym, o)>>]

\* join (lines 271-294): the keys of both maps, each once, sorted, each
\* with the pair of its metrics.
Join(x, y) ==
    LET xm == IndexMap(x)
        ym == IndexMap(y)
        keys == SelectSeq(OutOrder, LAMBDA o : o \in DOMAIN xm \cup DOMAIN ym)
    IN [i \in 1 .. Len(keys) |-> <<Get(xm, keys[i]), Get(ym, keys[i])>>]

\* outputDiff (lines 239-269): action and output from input_a's metric,
\* durations a - b.
OutputDiff(m) ==
    [action |-> m[1].action, output |-> m[1].output, dur |-> m[1].dur - m[2].dur]

VARIABLES
    format,  \* --format
    inA,     \* what loadMetrics returns for --input_a
    inB,     \* and for --input_b
    cpc,     \* "start", "print", "done"
    z,       \* the joined pairs
    pj,       \* the next pair to print
    lines,   \* the printed lines: a pair (join) or a difference (diff)
    cexit    \* "none", "success", "usage", "failure"

cmpVars == <<format, inA, inB, cpc, z, pj, lines, cexit>>

Init ==
    /\ format \in Formats
    /\ inA \in Files
    /\ inB \in Files
    /\ cpc = "start"
    /\ z = <<>>
    /\ pj = 1
    /\ lines = <<>>
    /\ cexit = "none"

\* run (lines 202-228): an unknown format is a usage error; a failed chdir
\* or load a failure; otherwise the join.
CmpRun ==
    /\ cpc = "start"
    /\ CASE format \notin {"diff", "join"} -> cexit' = "usage" /\ cpc' = "done" /\ UNCHANGED z
         [] ~inA.ok \/ ~inB.ok -> cexit' = "failure" /\ cpc' = "done" /\ UNCHANGED z
         [] OTHER -> \/ cexit' = "failure" /\ cpc' = "done" /\ UNCHANGED z
                     \/ z' = Join(inA.ms, inB.ms) /\ cpc' = "print" /\ UNCHANGED cexit
    /\ UNCHANGED <<format, inA, inB, pj, lines>>

\* Lines 220-227 with outputJoin (230-237) or outputDiff.
CmpPrint ==
    /\ cpc = "print"
    /\ pj <= Len(z)
    /\ lines' = Append(lines, IF format = "join" THEN z[pj] ELSE OutputDiff(z[pj]))
    /\ pj' = pj + 1
    /\ UNCHANGED <<format, inA, inB, cpc, z, cexit>>

CmpDone ==
    /\ cpc = "print"
    /\ pj > Len(z)
    /\ cexit' = "success" /\ cpc' = "done"
    /\ UNCHANGED <<format, inA, inB, z, pj, lines>>

Finished ==
    /\ cpc = "done"
    /\ UNCHANGED cmpVars

Next == CmpRun \/ CmpPrint \/ CmpDone \/ Finished

Spec == Init /\ [][Next]_cmpVars

----------------------------------------------------------------------------
TypeOK ==
    /\ cpc \in {"start", "print", "done"}
    /\ pj \in 1 .. Len(z) + 1
    /\ Len(lines) = pj - 1
    /\ cexit \in {"none", "success", "usage", "failure"}

\* The last metric of output o in x, by position: the reference for
\* indexMap.
LastOf(x, o) ==
    IF \E i \in DOMAIN x : x[i].output = o
    THEN x[CHOOSE i \in DOMAIN x : x[i].output = o /\ \A i2 \in DOMAIN x : x[i2].output = o => i2 <= i]
    ELSE Zero

\* The output a joined pair is about.
KeyOf(p) == IF p[1] # Zero THEN p[1].output ELSE p[2].output

\* join pairs every output of either file exactly once, in sorted order,
\* with the output's last metric in input_a and in input_b (the zero
\* metric when a file has none), so that `cmp` compares like with like.
JoinPairsEveryOutput ==
    cpc = "print" \/ cexit = "success" =>
        /\ {KeyOf(z[i]) : i \in DOMAIN z} =
              {inA.ms[i].output : i \in DOMAIN inA.ms} \cup {inB.ms[i].output : i \in DOMAIN inB.ms}
        /\ \A i \in DOMAIN z : \A i2 \in DOMAIN z :
              i < i2 => \E p, q \in DOMAIN OutOrder : p < q /\ OutOrder[p] = KeyOf(z[i])
                                                          /\ OutOrder[q] = KeyOf(z[i2])
        /\ \A i \in DOMAIN z : z[i] = <<LastOf(inA.ms, KeyOf(z[i])), LastOf(inB.ms, KeyOf(z[i]))>>

====
