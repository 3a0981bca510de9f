------------------------------- MODULE Spinner -------------------------------
(***************************************************************************)
(* ui.termSpinner (src/ui/termui.go): Start prints the message and starts *)
(* a goroutine that, every second until quit is closed, overwrites the    *)
(* last character with the next of `/-\|`; Stop (or Done) closes quit,    *)
(* waits for the goroutine to close done, then prints the final line.     *)
(*                                                                         *)
(* The terminal output is kept as the kind of the last thing printed;     *)
(* time.After firing is the Tick step, bounded by MaxTicks per Start.     *)
(***************************************************************************)
EXTENDS Naturals

CONSTANTS
    MaxTicks,   \* timer expiries per Start
    MaxStarts   \* Start calls on the spinner

Chars == 4      \* len(`/-\|`)

VARIABLES
    spc,        \* the caller: "idle", "running" (between Start and Stop),
                \* "waiting" (in Stop, after close(s.quit)), "stopped"
    gpc,        \* the goroutine: "none", "loop", "exited"
    quitClosed, \* close(s.quit) has run
    doneClosed, \* close(s.done) has run
    n,          \* s.n
    ticks,      \* ticks since Start
    starts,     \* Start calls so far
    last        \* last output: "none", "msg", "tick", "final"

spinVars == <<spc, gpc, quitClosed, doneClosed, n, ticks, starts, last>>

Init ==
    /\ spc = "idle"
    /\ gpc = "none"
    /\ quitClosed = FALSE
    /\ doneClosed = FALSE
    /\ n = 0
    /\ ticks = 0
    /\ starts = 0
    /\ last = "none"

\* Start (lines 25-48): print the message, make both channels, start the
\* goroutine.  s.n is not reset.
Start ==
    /\ spc \in {"idle", "stopped"} /\ starts < MaxStarts
    /\ spc' = "running"
    /\ gpc' = "loop"
    /\ quitClosed' = FALSE
    /\ doneClosed' = FALSE
    /\ ticks' = 0
    /\ starts' = starts + 1
    /\ last' = "msg"
    /\ UNCHANGED n

\* Mutant: the index is wrapped one character late.
TickWrapLate ==
    /\ gpc = "loop" /\ ticks < MaxTicks
    /\ n' = IF n + 1 > Chars THEN 0 ELSE n + 1
    /\ ticks' = ticks + 1
    /\ last' = "tick"
    /\ UNCHANGED <<spc, gpc, quitClosed, doneClosed, starts>>

\* time.After fires: print chars[s.n], advance s.n, wrap (lines 38-44).
\* Go's select picks this case even when quit is closed too.
Tick ==
    /\ gpc = "loop" /\ ticks < MaxTicks
    /\ n' = IF n + 1 >= Chars THEN 0 ELSE n + 1
    /\ ticks' = ticks + 1
    /\ last' = "tick"
    /\ UNCHANGED <<spc, gpc, quitClosed, doneClosed, starts>>

\* <-s.quit: the goroutine returns, closing done (lines 33-37).
Quit ==
    /\ gpc = "loop" /\ quitClosed
    /\ gpc' = "exited"
    /\ doneClosed' = TRUE
    /\ UNCHANGED <<spc, quitClosed, n, ticks, starts, last>>

\* Mutant: Stop waits for done without closing quit.
StopCloseNoQuit ==
    /\ spc = "running"
    /\ spc' = "waiting"
    /\ UNCHANGED <<gpc, quitClosed, doneClosed, n, ticks, starts, last>>

\* Stop or Done: close(s.quit) (lines 52, 69).
StopClose ==
    /\ spc = "running"
    /\ quitClosed' = TRUE
    /\ spc' = "waiting"
    /\ UNCHANGED <<gpc, doneClosed, n, ticks, starts, last>>

\* Mutant: Stop does not wait for the goroutine.
StopPrintNoWait ==
    /\ spc = "waiting"
    /\ last' = "final"
    /\ spc' = "stopped"
    /\ UNCHANGED <<gpc, quitClosed, doneClosed, n, ticks, starts>>

\* <-s.done, then the final line, whichever of Stop's three forms or
\* Done's (lines 53-64, 70-73).
StopPrint ==
    /\ spc = "waiting" /\ doneClosed
    /\ last' = "final"
    /\ spc' = "stopped"
    /\ UNCHANGED <<gpc, quitClosed, doneClosed, n, ticks, starts>>

Finished ==
    /\ spc \in {"idle", "stopped"} /\ starts = MaxStarts
    /\ UNCHANGED spinVars

Next == Start \/ Tick \/ Quit \/ StopClose \/ StopPrint \/ Finished

\* The goroutine runs; Stop is called after Start.
Fairness == WF_spinVars(Quit) /\ WF_spinVars(StopClose) /\ WF_spinVars(StopPrint)

Spec == Init /\ [][Next]_spinVars /\ Fairness

----------------------------------------------------------------------------
TypeOK ==
    /\ spc \in {"idle", "running", "waiting", "stopped"}
    /\ gpc \in {"none", "loop", "exited"}
    /\ quitClosed \in BOOLEAN /\ doneClosed \in BOOLEAN
    /\ n \in 0..Chars - 1
    /\ ticks \in 0..MaxTicks
    /\ starts \in 0..MaxStarts
    /\ last \in {"none", "msg", "tick", "final"}

\* Stop's line is the last thing the spinner prints: once it is out, no
\* spinner character follows it, however the goroutine's timer and the
\* close of quit interleave.
FinalLineLast ==
    [][last = "final" => last' \in {"final", "msg"}]_spinVars

====
