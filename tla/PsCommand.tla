------------------------------ MODULE PsCommand ------------------------------
(***************************************************************************)
(* `siso ps` (package ps: Command.Execute and render, src/subcmd/ps/ps.go  *)
(* lines 73-161, and localSource.fetch, src/subcmd/ps/local.go lines      *)
(* 46-82): poll the running siso for its active steps every interval and  *)
(* render them, until the source reports io.EOF or the context that the   *)
(* first interrupt cancels is done.                                        *)
(*                                                                         *)
(* A fetch is abstracted to its outcome and the number of active steps;   *)
(* an interval to its sign; the terminal to whether ui.Default is a       *)
(* TermUI and its height.  HandleInterrupt's handler runs cancel on the   *)
(* first signal (a second one exits the process and is not modelled).     *)
(***************************************************************************)
EXTENDS Integers

CONSTANTS
    NFlags,     \* values of -n
    Heights,    \* terminal heights
    MaxSteps    \* bound: active steps a fetch returns

VARIABLES
    ppc,       \* "start", "fetch", "wait", "done"
    termui,    \* c.termui
    interval,  \* sign of c.interval: "neg" (default), "zero", "pos"
    limit,     \* c.n
    ret,       \* ret: "success" or "failure"
    canceled,  \* ctx is done (the first interrupt ran cancel)
    shown,     \* step lines of the last render
    total,     \* active steps of the last render
    pexit      \* what Execute returned: "none", "success", "failure"

psVars == <<ppc, termui, interval, limit, ret, canceled, shown, total, pexit>>

Init ==
    /\ ppc = "start"
    /\ termui \in BOOLEAN
    /\ interval \in {"neg", "zero", "pos"}
    /\ limit \in NFlags
    /\ ret = "success"
    /\ canceled = FALSE
    /\ shown = 0 /\ total = 0
    /\ pexit = "none"

\* render (lines 143-161): a step line is added for each active step until
\* the lines, headings included, reach c.n when it is positive.
RenderCount(n, headings, steps) ==
    LET room == IF n - headings < 1 THEN 1 ELSE n - headings
    IN  IF n > 0 /\ room < steps THEN room ELSE steps

\* Lines 73-100: on a terminal, -n 0 becomes the height less 2 and a
\* negative interval 1s; chdir or Getwd of newLocalSource (or the stdout
\* URL source) may fail.
PStart ==
    /\ ppc = "start"
    /\ \E h \in Heights :
          /\ limit' = IF termui /\ limit = 0 THEN h - 2 ELSE limit
          /\ interval' = IF termui /\ interval = "neg" THEN "pos" ELSE interval
    /\ \/ pexit' = "failure" /\ ppc' = "done"
       \/ ppc' = "fetch" /\ UNCHANGED pexit
    /\ UNCHANGED <<termui, ret, canceled, shown, total>>

\* localSource.fetch (local.go lines 46-82): reading .siso_port, building
\* or sending the request, the status, the read or the decode may fail,
\* and a request on a canceled context does fail; a connection the
\* server closes wraps io.EOF.
FetchOutcomes ==
    IF canceled THEN {"err"} ELSE {"ok", "err", "eof"}

\* Lines 101-133: one turn of the loop.  An error sets ret to failure; a
\* fetch that succeeds is rendered under the two headings; a non-positive
\* interval ends after one turn; io.EOF prints the source's text, renders
\* without headings on a LogUI and returns.
PFetch ==
    /\ ppc = "fetch"
    /\ \E o \in FetchOutcomes, k \in 0 .. MaxSteps :
          LET r == IF o = "ok" THEN ret ELSE "failure"
          IN /\ ret' = r
             /\ CASE interval # "pos" ->
                       /\ shown' = IF o = "ok" THEN RenderCount(limit, 2, k) ELSE shown
                       /\ total' = IF o = "ok" THEN k ELSE total
                       /\ pexit' = r /\ ppc' = "done" /\ UNCHANGED termui
                  [] o = "eof" ->
                       /\ shown' = 0 /\ total' = 0
                       /\ termui' = FALSE
                       /\ pexit' = r /\ ppc' = "done"
                  [] OTHER ->
                       /\ shown' = IF o = "ok" THEN RenderCount(limit, 2, k) ELSE shown
                       /\ total' = IF o = "ok" THEN k ELSE total
                       /\ ppc' = "wait" /\ UNCHANGED <<termui, pexit>>
    /\ UNCHANGED <<interval, limit, canceled>>

\* Mutant of PWaitTimer: the wait is a plain time.Sleep(c.interval) that
\* does not look at ctx.
PWaitSleep ==
    /\ ppc = "wait"
    /\ ppc' = "fetch"
    /\ UNCHANGED <<termui, interval, limit, ret, canceled, shown, total, pexit>>

\* Lines 134-138: the select between time.After(c.interval) and
\* ctx.Done().  A fresh timer is not ready when the select starts, so a
\* context already done is taken; otherwise whichever fires first.
PWaitTimer ==
    /\ ppc = "wait"
    /\ ~canceled
    /\ ppc' = "fetch"
    /\ UNCHANGED <<termui, interval, limit, ret, canceled, shown, total, pexit>>

PWaitDone ==
    /\ ppc = "wait"
    /\ canceled
    /\ pexit' = ret /\ ppc' = "done"
    /\ UNCHANGED <<termui, interval, limit, ret, canceled, shown, total>>

\* HandleInterrupt's first signal runs cancel (lines 74-77).
Interrupt ==
    /\ ppc # "done"
    /\ ~canceled
    /\ canceled' = TRUE
    /\ UNCHANGED <<ppc, termui, interval, limit, ret, shown, total, pexit>>

Finished ==
    /\ ppc = "done"
    /\ UNCHANGED psVars

Next == PStart \/ PFetch \/ PWaitTimer \/ PWaitDone \/ Interrupt \/ Finished

\* The main goroutine keeps running; the interrupt is the user's and is
\* not fair.
Fairness == WF_psVars(PStart \/ PFetch \/ PWaitTimer \/ PWaitDone)

Spec == Init /\ [][Next]_psVars /\ Fairness

----------------------------------------------------------------------------
TypeOK ==
    /\ ppc \in {"start", "fetch", "wait", "done"}
    /\ interval \in {"neg", "zero", "pos"}
    /\ ret \in {"success", "failure"}
    /\ shown \in 0 .. MaxSteps /\ total \in 0 .. MaxSteps
    /\ pexit \in {"none", "success", "failure"}

\* The first interrupt is enough: once HandleInterrupt has run cancel,
\* `siso ps` returns, whatever it was doing (a fetch in flight fails on
\* the canceled context, the select takes ctx.Done), without the second
\* signal that exits the process.
ReturnsOnInterrupt ==
    canceled ~> ppc = "done"

====
