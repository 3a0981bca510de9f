------------------------------ MODULE Interrupt ------------------------------
(***************************************************************************)
(* signals.HandleInterrupt (src/unnamed/part_017): Ctrl-C and SIGTERM are *)
(* delivered on a channel with room for two signals; a goroutine calls    *)
(* fn in a goroutine of its own on the first one and exits the process on *)
(* the second.  The returned cleanup stops the delivery and closes the    *)
(* channel, which ends the goroutine once the channel is drained.         *)
(*                                                                         *)
(* fn is the caller's: calls counts how often it has run.  A signal that  *)
(* arrives when no handler is installed has the default effect, the       *)
(* process is killed.                                                      *)
(***************************************************************************)
EXTENDS Naturals

CONSTANTS
    MaxSignals   \* interrupts the user sends

ChanCap == 2    \* make(chan os.Signal, 2)

VARIABLES
    ch,         \* signals buffered in ch
    installed,  \* signal.Notify(ch, ...) is in effect
    closed,     \* close(ch) has run
    handled,    \* the goroutine's handled
    hpc,        \* the goroutine: "loop" or "exited"
    pending,    \* `go fn()` started and fn not yet run
    calls,      \* fn has run this often
    sent,       \* signals sent to the process
    exited      \* the process has ended: Exitf, or killed by a signal

intVars == <<ch, installed, closed, handled, hpc, pending, calls, sent, exited>>

\* HandleInterrupt has returned: the handler is installed, the goroutine
\* is ranging over ch.
Init ==
    /\ ch = 0
    /\ installed = TRUE
    /\ closed = FALSE
    /\ handled = FALSE
    /\ hpc = "loop"
    /\ pending = 0
    /\ calls = 0
    /\ sent = 0
    /\ exited = FALSE

\* The user sends an interrupt.  signal.Notify never blocks: with ch full
\* the signal is dropped; with no handler the process is killed.
Signal ==
    /\ ~exited /\ sent < MaxSignals
    /\ sent' = sent + 1
    /\ IF installed
          THEN /\ ch' = IF ch < ChanCap THEN ch + 1 ELSE ch
               /\ UNCHANGED exited
          ELSE /\ exited' = TRUE
               /\ UNCHANGED ch
    /\ UNCHANGED <<installed, closed, handled, hpc, pending, calls>>

\* for range ch: the second signal exits (lines 31-33), the first starts
\* fn (lines 34-35).
Receive ==
    /\ ~exited /\ hpc = "loop" /\ ch > 0
    /\ ch' = ch - 1
    /\ IF handled
          THEN /\ exited' = TRUE
               /\ UNCHANGED <<handled, pending>>
          ELSE /\ handled' = TRUE
               /\ pending' = pending + 1
               /\ UNCHANGED exited
    /\ UNCHANGED <<installed, closed, hpc, calls, sent>>

\* The range ends once ch is closed and drained.
RangeEnds ==
    /\ ~exited /\ hpc = "loop" /\ closed /\ ch = 0
    /\ hpc' = "exited"
    /\ UNCHANGED <<ch, installed, closed, handled, pending, calls, sent, exited>>

\* The goroutine started by `go fn()` runs fn.
RunFn ==
    /\ ~exited /\ pending > 0
    /\ pending' = pending - 1
    /\ calls' = calls + 1
    /\ UNCHANGED <<ch, installed, closed, handled, hpc, sent, exited>>

\* The returned cleanup: signal.Stop(ch); close(ch) (lines 39-42).
Cleanup ==
    /\ ~exited /\ installed
    /\ installed' = FALSE
    /\ closed' = TRUE
    /\ UNCHANGED <<ch, handled, hpc, pending, calls, sent, exited>>

\* The process has exited, or nothing is left to do.
Stopped ==
    /\ exited \/ (sent = MaxSignals /\ hpc = "exited" /\ pending = 0)
    /\ UNCHANGED intVars

Next == Signal \/ Receive \/ RangeEnds \/ RunFn \/ Cleanup \/ Stopped

\* The handler goroutine and fn's goroutine are scheduled.
Fairness == WF_intVars(Receive) /\ WF_intVars(RangeEnds) /\ WF_intVars(RunFn)

Spec == Init /\ [][Next]_intVars /\ Fairness

----------------------------------------------------------------------------
TypeOK ==
    /\ ch \in 0..ChanCap
    /\ installed \in BOOLEAN /\ closed \in BOOLEAN /\ handled \in BOOLEAN
    /\ hpc \in {"loop", "exited"}
    /\ pending \in 0..1 /\ calls \in 0..1
    /\ sent \in 0..MaxSignals
    /\ exited \in BOOLEAN

\* An interrupt delivered while the handler is installed is acted on: fn
\* runs, or the process exits.
InterruptActedOn ==
    (ch > 0) ~> (calls > 0 \/ exited)

====
