------------------------------- MODULE Isolate -------------------------------
(***************************************************************************)
(* `siso isolate` (package isolate, src/subcmd/ps/ps.go lines 162-626):   *)
(* Command.run installs signals.HandleInterrupt with cancel as fn, sets   *)
(* up credentials (with a spinner), cloud logging and two REAPI clients,  *)
(* loads the HashFS state, uploads every target's tree in an errgroup,    *)
(* dumps the digests as JSON and returns, running its deferred cleanups.  *)
(*                                                                         *)
(* Composed of Interrupt (the handler: a second Ctrl-C exits at once) and *)
(* Spinner (Start/Stop around cred.New).  Each setup call is a step that  *)
(* succeeds or returns its error; an upload is three steps that may each  *)
(* fail: reading the .isolate file and expanding its entries, building    *)
(* the tree from HashFS entries, and UploadAll, which fails once ectx is  *)
(* canceled.                                                              *)
(***************************************************************************)
EXTENDS Naturals, Sequences

CONSTANTS
    Targets,      \* c.Flags.Args()
    NeedCred,     \* c.reopt.NeedCred() || c.enableCloudLogging
    CloudLogging, \* -enable_cloud_logging
    DumpJSON,     \* -dump_json is set
    MaxSignals,   \* interrupts the user sends
    MaxTicks      \* spinner ticks

VARIABLES
    \* Interrupt
    ch, installed, closed, handled, hpc, pending, calls, sent, exited,
    \* Spinner
    spc, gpc, quitClosed, doneClosed, n, ticks, starts, last,
    \* run
    mpc,        \* the main goroutine's place in run (see Stages)
    err,        \* run returns an error
    credFailed, \* cred.New failed
    defers,     \* deferred calls, in the order they were deferred
    upc,        \* target -> its errgroup goroutine: "none", "read", "tree", "cas", "ok", "err"
    egErr,      \* the errgroup has an error, and has canceled ectx
    result,     \* the targets in result
    json        \* the targets in the dumped JSON, or {} when none is written

I == INSTANCE Interrupt
S == INSTANCE Spinner WITH MaxStarts <- 1

intVars == <<ch, installed, closed, handled, hpc, pending, calls, sent, exited>>
spinVars == <<spc, gpc, quitClosed, doneClosed, n, ticks, starts, last>>
runVars == <<mpc, err, credFailed, defers, upc, egErr, result, json>>
isoVars == <<intVars, spinVars, runVars>>

\* Steps of run that only pass or return their error.
Checks == {"workdirs", "jobid", "checkvalid", "cascred", "hashfs"}
\* Steps that create a REAPI client, whose Close is deferred.
Clients == {"client", "casclient"}

NextStage == [workdirs |-> "jobid", jobid |-> "checkvalid", checkvalid |-> "cred",
              cloud |-> "client", client |-> "cascred", cascred |-> "casclient",
              casclient |-> "hashfs", hashfs |-> "upload"]

\* ctx is canceled by fn (cancel(errInterrupted{})); ectx also by the
\* errgroup's first error.
CtxDone == calls > 0
ECtxDone == CtxDone \/ egErr

\* Nothing runs once the process has exited or main has returned.
Alive == ~exited /\ mpc # "exit"

Init ==
    /\ I!Init
    /\ S!Init
    /\ mpc = "workdirs"
    /\ err = FALSE
    /\ credFailed = FALSE
    /\ defers = <<"interrupt">>
    /\ upc = [t \in Targets |-> "none"]
    /\ egErr = FALSE
    /\ result = {}
    /\ json = {}

----------------------------------------------------------------------------
(* The main goroutine.                                                     *)

\* initWorkdirs, the -job_id length check, CheckValid, casCred and the
\* hashfs Load/New/SetState/WaitReady sequence pass ...
CheckOk(s) ==
    /\ Alive /\ mpc = s
    /\ mpc' = NextStage[s]
    /\ UNCHANGED <<intVars, spinVars, err, credFailed, defers, upc, egErr, result, json>>

\* ... or return their error.
CheckFails(s) ==
    /\ Alive /\ mpc = s
    /\ err' = TRUE
    /\ mpc' = "return"
    /\ UNCHANGED <<intVars, spinVars, credFailed, defers, upc, egErr, result, json>>

\* With credentials needed, spin.Start("init credentials") (lines 306-309).
CredStart ==
    /\ Alive /\ mpc = "cred"
    /\ IF NeedCred
          THEN S!Start /\ mpc' = "credcall"
          ELSE UNCHANGED spinVars /\ mpc' = "cloud"
    /\ UNCHANGED <<intVars, err, credFailed, defers, upc, egErr, result, json>>

\* cred.New returns; spin.Stop closes quit (lines 310-312, 315).
CredCall ==
    /\ Alive /\ mpc = "credcall"
    /\ S!StopClose
    /\ \E ok \in BOOLEAN : credFailed' = ~ok
    /\ mpc' = "credstop"
    /\ UNCHANGED <<intVars, err, defers, upc, egErr, result, json>>

\* spin.Stop waits for the spinner and prints; a cred.New error is
\* returned.
CredStop ==
    /\ Alive /\ mpc = "credstop"
    /\ S!StopPrint
    /\ IF credFailed
          THEN err' = TRUE /\ mpc' = "return"
          ELSE UNCHANGED err /\ mpc' = "cloud"
    /\ UNCHANGED <<intVars, credFailed, defers, upc, egErr, result, json>>

\* initCloudLogging: on success done is deferred; on failure run falls
\* back to glog and goes on (lines 317-330).
Cloud ==
    /\ Alive /\ mpc = "cloud"
    /\ IF CloudLogging
          THEN \E ok \in BOOLEAN :
                  defers' = IF ok THEN Append(defers, "done") ELSE defers
          ELSE UNCHANGED defers
    /\ mpc' = "client"
    /\ UNCHANGED <<intVars, spinVars, err, credFailed, upc, egErr, result, json>>

\* reapi.New for the RBE and the CAS instance: Close is deferred (lines
\* 333-342, 351-360); a failure is returned (CheckFails).
ClientOk(s) ==
    /\ Alive /\ mpc = s
    /\ defers' = Append(defers, s)
    /\ mpc' = NextStage[s]
    /\ UNCHANGED <<intVars, spinVars, err, credFailed, upc, egErr, result, json>>

\* eg.Go for every target (lines 383-403).
StartUploads ==
    /\ Alive /\ mpc = "upload"
    /\ upc' = [t \in Targets |-> "read"]
    /\ mpc' = "wait"
    /\ UNCHANGED <<intVars, spinVars, err, credFailed, defers, egErr, result, json>>

\* Mutant: eg.Wait's error is not checked.
WaitIgnoresError ==
    /\ Alive /\ mpc = "wait"
    /\ \A t \in Targets : upc[t] \in {"ok", "err"}
    /\ mpc' = "dump"
    /\ UNCHANGED <<intVars, spinVars, err, credFailed, defers, upc, egErr, result, json>>

\* eg.Wait returns once every goroutine has; its error is returned
\* (lines 404-407).
Wait ==
    /\ Alive /\ mpc = "wait"
    /\ \A t \in Targets : upc[t] \in {"ok", "err"}
    /\ IF egErr
          THEN err' = TRUE /\ mpc' = "return"
          ELSE UNCHANGED err /\ mpc' = "dump"
    /\ UNCHANGED <<intVars, spinVars, credFailed, defers, upc, egErr, result, json>>

\* json.MarshalIndent(result) and os.WriteFile, when -dump_json is set
\* (lines 408-417).
Dump ==
    /\ Alive /\ mpc = "dump"
    /\ IF DumpJSON
          THEN \E ok \in BOOLEAN :
                  IF ok THEN json' = result /\ UNCHANGED err
                        ELSE err' = TRUE /\ UNCHANGED json
          ELSE UNCHANGED <<err, json>>
    /\ mpc' = "return"
    /\ UNCHANGED <<intVars, spinVars, credFailed, defers, upc, egErr, result>>

\* run returns: its deferred calls run last-in first-out.  done() waits
\* for the logger's Close or 10s; the clients' Close errors are only
\* logged; the first deferred, HandleInterrupt's cleanup, stops the
\* signal delivery and closes its channel.
RunDeferred ==
    /\ Alive /\ mpc = "return" /\ defers # <<>>
    /\ defers' = SubSeq(defers, 1, Len(defers) - 1)
    /\ IF defers[Len(defers)] = "interrupt" THEN I!Cleanup ELSE UNCHANGED intVars
    /\ UNCHANGED <<spinVars, mpc, err, credFailed, upc, egErr, result, json>>

\* Execute returns the exit status and the process ends.
Exit ==
    /\ Alive /\ mpc = "return" /\ defers = <<>>
    /\ mpc' = "exit"
    /\ UNCHANGED <<intVars, spinVars, err, credFailed, defers, upc, egErr, result, json>>

----------------------------------------------------------------------------
(* The errgroup goroutines.                                                *)

\* The goroutine returns an error: the first one cancels ectx.
UploadFails(t) ==
    /\ upc' = [upc EXCEPT ![t] = "err"]
    /\ egErr' = TRUE

\* upload: read and parse <target>.isolate, Stat and expand its entries
\* (lines 482-534).
UploadRead(t) ==
    /\ Alive /\ upc[t] = "read"
    /\ \/ upc' = [upc EXCEPT ![t] = "tree"] /\ UNCHANGED egErr
       \/ UploadFails(t)
    /\ UNCHANGED <<intVars, spinVars, mpc, err, credFailed, defers, result, json>>

\* Entries, tree.Set and tree.Build (lines 535-563).
UploadTree(t) ==
    /\ Alive /\ upc[t] = "tree"
    /\ \/ upc' = [upc EXCEPT ![t] = "cas"] /\ UNCHANGED egErr
       \/ UploadFails(t)
    /\ UNCHANGED <<intVars, spinVars, mpc, err, credFailed, defers, result, json>>

\* casClient.UploadAll(ectx): fails once ectx is canceled; on success the
\* digest goes into result under mu (lines 564-574, 390-400).
UploadCAS(t) ==
    /\ Alive /\ upc[t] = "cas"
    /\ \/ /\ ~ECtxDone
          /\ upc' = [upc EXCEPT ![t] = "ok"]
          /\ result' = result \cup {t}
          /\ UNCHANGED egErr
       \/ UploadFails(t) /\ UNCHANGED result
    /\ UNCHANGED <<intVars, spinVars, mpc, err, credFailed, defers, json>>

----------------------------------------------------------------------------
(* The interrupt handler and the spinner's goroutine, while the process   *)
(* lives.                                                                  *)

Handler ==
    /\ Alive
    /\ I!Signal \/ I!Receive \/ I!RangeEnds \/ I!RunFn
    /\ UNCHANGED <<spinVars, runVars>>

SpinnerGoroutine ==
    /\ Alive
    /\ S!Tick \/ S!Quit
    /\ UNCHANGED <<intVars, runVars>>

Ended ==
    /\ ~Alive
    /\ UNCHANGED isoVars

Main ==
    \/ \E s \in Checks : CheckOk(s) \/ CheckFails(s)
    \/ \E s \in Clients : ClientOk(s) \/ CheckFails(s)
    \/ CredStart \/ CredCall \/ CredStop \/ Cloud \/ StartUploads \/ Wait
    \/ Dump \/ RunDeferred \/ Exit

Upload(t) == UploadRead(t) \/ UploadTree(t) \/ UploadCAS(t)

Next == Main \/ (\E t \in Targets : Upload(t)) \/ Handler \/ SpinnerGoroutine \/ Ended

\* Every goroutine is scheduled: main, the uploads, the handler, fn's and
\* the spinner's.
Fairness ==
    /\ WF_isoVars(Main)
    /\ \A t \in Targets : WF_isoVars(Upload(t))
    /\ WF_isoVars(Alive /\ (I!Receive \/ I!RangeEnds \/ I!RunFn) /\ UNCHANGED <<spinVars, runVars>>)
    /\ WF_isoVars(Alive /\ S!Quit /\ UNCHANGED <<intVars, runVars>>)

Spec == Init /\ [][Next]_isoVars /\ Fairness

----------------------------------------------------------------------------
TypeOK ==
    /\ I!TypeOK /\ S!TypeOK
    /\ mpc \in {"workdirs", "jobid", "checkvalid", "cred", "credcall", "credstop",
                "cloud", "client", "cascred", "casclient", "hashfs", "upload",
                "wait", "dump", "return", "exit"}
    /\ err \in BOOLEAN /\ credFailed \in BOOLEAN /\ egErr \in BOOLEAN
    /\ defers \in Seq({"interrupt", "done", "client", "casclient"})
    /\ upc \in [Targets -> {"none", "read", "tree", "cas", "ok", "err"}]
    /\ result \subseteq Targets /\ json \subseteq Targets

\* `siso isolate` exits successfully only when every target's tree was
\* uploaded and its digest is in result, and in the JSON when one is
\* dumped, whatever the interleaving of the uploads, the errgroup's
\* cancellation and an interrupt.
SucceedsOnlyWithEveryDigest ==
    mpc = "exit" /\ ~err =>
        /\ result = Targets
        /\ DumpJSON => json = Targets

\* run always ends: the process exits after the deferred cleanups, or at
\* a second interrupt; no step waits forever on a goroutine.
RunEnds ==
    <>(mpc = "exit" \/ exited)

====
