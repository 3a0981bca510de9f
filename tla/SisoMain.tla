------------------------------ MODULE SisoMain ------------------------------
(***************************************************************************)
(* sisoMain (src/main.go lines 65-296): parse the flags, register the     *)
(* deferred log flush and panic handler, set up the profilers the flags   *)
(* ask for (each with a deferred writer or closer), initialise the        *)
(* terminal UI with a deferred restore, then run the subcommand.  On      *)
(* return or panic the deferred calls run last-in first-out; log.Fatalf,  *)
(* at setup or inside a deferred call, exits at once and skips every      *)
(* deferred call still pending.                                           *)
(*                                                                         *)
(* A flag is abstracted to whether it is given; an os.Create, a           *)
(* trace.Start or a Close to its outcome; the subcommand to whether it   *)
(* returns or panics.  The -pprof_addr listener and the usage text are    *)
(* left out: the listener only serves HTTP.                               *)
(***************************************************************************)
EXTENDS Integers, Sequences, SequencesExt

CONSTANTS
    RateFlags   \* values of -blockprof_rate and -mutexprof_frac

VARIABLES
    mpc,        \* the setup step sisoMain is at, "unwind" or "exit"
    mflags,     \* which of the flags are given
    blockRate,  \* blockprofRate
    mutexFrac,  \* mutexprofFrac
    deferred,   \* the pending deferred calls, the last one last
    ranDefers,  \* the deferred calls run so far, in order
    panicking,  \* the subcommand panicked
    uiInited,   \* ui.Init has run
    mexit       \* "none", "return" (os.Exit(code)) or "fatal" (log.Fatalf)

mainVars == <<mpc, mflags, blockRate, mutexFrac, deferred, ranDefers, panicking, uiInited, mexit>>

Flags == {"version", "pprof", "cpu", "mem", "mutex", "block", "trace"}

\* flag.Parse has set the package variables (lines 113-136).
Init ==
    /\ mpc = "flags"
    /\ mflags \in SUBSET Flags
    /\ blockRate \in RateFlags /\ mutexFrac \in RateFlags
    /\ deferred = <<>> /\ ranDefers = <<>>
    /\ panicking = FALSE /\ uiInited = FALSE
    /\ mexit = "none"

\* Mutant of SetupOrder: ui.Init and its deferred restore come before the
\* profilers, whose log.Fatalf calls would then leave the terminal raw.
SetupOrderUiFirst == <<"rates", "ui", "pprof", "cpu", "mem", "mutex", "block", "trace", "run">>

\* The order of the setup steps after flag parsing (lines 155-295).
SetupOrder == <<"rates", "pprof", "cpu", "mem", "mutex", "block", "trace", "ui", "run">>

\* The step after s.
After(s) == SetupOrder[(CHOOSE i \in 1..Len(SetupOrder) - 1 : SetupOrder[i] = s) + 1]

Advance(s) == mpc' = After(s)

\* log.Fatalf: os.Exit(255) with the deferred calls still pending.
Fatal == mpc' = "exit" /\ mexit' = "fatal"

\* Lines 138-154: defer log.Flush, defer the panic handler, and with
\* -version run the version subcommand at once.
ParseDone ==
    /\ mpc = "flags"
    /\ deferred' = <<"flush", "recover">>
    /\ mpc' = IF "version" \in mflags THEN "run" ELSE SetupOrder[1]
    /\ UNCHANGED <<mflags, blockRate, mutexFrac, ranDefers, panicking, uiInited, mexit>>

\* Lines 155-166: a profile file without a rate gets rate 1.
Rates ==
    /\ mpc = "rates"
    /\ blockRate' = IF "block" \in mflags /\ blockRate = 0 THEN 1 ELSE blockRate
    /\ mutexFrac' = IF "mutex" \in mflags /\ mutexFrac = 0 THEN 1 ELSE mutexFrac
    /\ Advance("rates")
    /\ UNCHANGED <<mflags, deferred, ranDefers, panicking, uiInited, mexit>>

\* Lines 168-182: the listener goroutine, and a deferred wait for
\* Ctrl-C or SIGTERM.
Pprof ==
    /\ mpc = "pprof"
    /\ deferred' = IF "pprof" \in mflags THEN Append(deferred, "pprofWait") ELSE deferred
    /\ Advance("pprof")
    /\ UNCHANGED <<mflags, blockRate, mutexFrac, ranDefers, panicking, uiInited, mexit>>

\* Lines 184-241: os.Create of a requested profile file, log.Fatalf when
\* it fails, else the deferred writer d (a failing StartCPUProfile or
\* writer is only logged).
CreateProfile(s, flag, d) ==
    /\ mpc = s
    /\ \/ flag \notin mflags /\ Advance(s) /\ UNCHANGED <<deferred, mexit>>
       \/ flag \in mflags /\ Fatal /\ UNCHANGED deferred
       \/ flag \in mflags /\ deferred' = Append(deferred, d) /\ Advance(s) /\ UNCHANGED mexit
    /\ UNCHANGED <<mflags, blockRate, mutexFrac, ranDefers, panicking, uiInited>>

Cpu == CreateProfile("cpu", "cpu", "stopCPU")
Mem == CreateProfile("mem", "mem", "writeHeap")
Mutex == CreateProfile("mutex", "mutex", "writeMutex")
Block == CreateProfile("block", "block", "writeBlock")

\* Mutant of PushTrace: trace.Stop deferred before the file's close.
PushTraceSwapped(d) == d \o <<"stopTrace", "closeTrace">>

\* Lines 250-260: the deferred close of the trace file, then, once
\* trace.Start succeeded, the deferred trace.Stop.
PushTrace(d) == d \o <<"closeTrace", "stopTrace">>

\* Lines 244-261: a failing os.Create or trace.Start is log.Fatalf.
Trace ==
    /\ mpc = "trace"
    /\ \/ "trace" \notin mflags /\ Advance("trace") /\ UNCHANGED <<deferred, mexit>>
       \/ "trace" \in mflags /\ Fatal /\ UNCHANGED deferred
       \/ "trace" \in mflags /\ deferred' = PushTrace(deferred) /\ Advance("trace") /\ UNCHANGED mexit
    /\ UNCHANGED <<mflags, blockRate, mutexFrac, ranDefers, panicking, uiInited>>

\* Lines 263-265: ui.Init, defer ui.Restore.
Ui ==
    /\ mpc = "ui"
    /\ uiInited' = TRUE
    /\ deferred' = Append(deferred, "restore")
    /\ Advance("ui")
    /\ UNCHANGED <<mflags, blockRate, mutexFrac, ranDefers, panicking, mexit>>

\* Lines 267-295 (or line 153 with -version): the subcommand returns
\* or panics; either way the deferred calls run.
Run ==
    /\ mpc = "run"
    /\ panicking' \in BOOLEAN
    /\ mpc' = "unwind"
    /\ UNCHANGED <<mflags, blockRate, mutexFrac, deferred, ranDefers, uiInited, mexit>>

\* The deferred call on top runs.
Pop ==
    /\ deferred' = Front(deferred)
    /\ ranDefers' = Append(ranDefers, Last(deferred))

Top == IF deferred = <<>> THEN "none" ELSE Last(deferred)

\* Deferred calls that cannot exit: log.Flush, the pprof wait (for the
\* user's signal), StopCPUProfile, the heap, mutex and block profile
\* writers, trace.Stop and ui.Restore (lines 140, 175-181, 194, 203-208,
\* 217-224, 233-240, 260 and 265).
UnwindCall ==
    /\ mpc = "unwind"
    /\ Top \in {"flush", "pprofWait", "stopCPU", "writeHeap", "writeMutex",
               "writeBlock", "stopTrace", "restore"}
    /\ Pop
    /\ UNCHANGED <<mpc, mflags, blockRate, mutexFrac, panicking, uiInited, mexit>>

\* Lines 250-256: a failing Close of the trace file is log.Fatalf.
UnwindCloseTrace ==
    /\ mpc = "unwind"
    /\ Top = "closeTrace"
    /\ Pop
    /\ \/ UNCHANGED <<mpc, mexit>>
       \/ Fatal
    /\ UNCHANGED <<mflags, blockRate, mutexFrac, panicking, uiInited>>

\* Lines 143-150: recover, and log.Fatalf with the stack of a panic.
UnwindRecover ==
    /\ mpc = "unwind"
    /\ Top = "recover"
    /\ Pop
    /\ IF panicking THEN Fatal ELSE UNCHANGED <<mpc, mexit>>
    /\ UNCHANGED <<mflags, blockRate, mutexFrac, panicking, uiInited>>

\* Lines 62 and 295: every deferred call has run; os.Exit with the
\* subcommand's status.
Return ==
    /\ mpc = "unwind"
    /\ deferred = <<>>
    /\ mpc' = "exit" /\ mexit' = "return"
    /\ UNCHANGED <<mflags, blockRate, mutexFrac, deferred, ranDefers, panicking, uiInited>>

Exited ==
    /\ mpc = "exit"
    /\ UNCHANGED mainVars

Next ==
    \/ ParseDone \/ Rates \/ Pprof \/ Cpu \/ Mem \/ Mutex \/ Block \/ Trace \/ Ui \/ Run
    \/ UnwindCall \/ UnwindCloseTrace \/ UnwindRecover \/ Return \/ Exited

Spec == Init /\ [][Next]_mainVars

----------------------------------------------------------------------------
Defers == {"flush", "recover", "pprofWait", "stopCPU", "writeHeap", "writeMutex",
           "writeBlock", "closeTrace", "stopTrace", "restore"}

TypeOK ==
    /\ mpc \in {"flags", "unwind", "exit"} \cup ToSet(SetupOrder)
    /\ mflags \subseteq Flags
    /\ deferred \in Seq(Defers) /\ ranDefers \in Seq(Defers)
    /\ panicking \in BOOLEAN /\ uiInited \in BOOLEAN
    /\ mexit \in {"none", "return", "fatal"}

\* However sisoMain ends (a return, a panic reported by its handler, or
\* log.Fatalf at setup or in a deferred call), once ui.Init has put the
\* terminal in its mode ui.Restore has run, and a go trace was stopped
\* before its file was closed.  Both rest on the order of the defers
\* against the log.Fatalf calls that skip them.
ExitUnwindsInOrder ==
    mpc = "exit" =>
        /\ uiInited => \E i \in DOMAIN ranDefers : ranDefers[i] = "restore"
        /\ \A i \in DOMAIN ranDefers :
              ranDefers[i] = "closeTrace" => \E j \in 1..i - 1 : ranDefers[j] = "stopTrace"

====
