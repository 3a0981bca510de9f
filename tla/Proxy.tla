------------------------------- MODULE Proxy -------------------------------
(***************************************************************************)
(* `siso proxy` (src/subcmd/proxy/proxy.go) and the REAPI proxy it serves *)
(* (reapi.Proxy, src/unnamed/part_012).  run checks the options, makes    *)
(* the credential and the REAPI client, and Serve listens on -addr; then  *)
(* every RPC is relayed to the upstream service.  The unary RPCs are one  *)
(* call each; the streaming ones are the relay loops modelled here:       *)
(*   - Execute / WaitExecution: Recv an Operation upstream, Send it to    *)
(*     the caller, return once it is done;                                *)
(*   - ByteStream Read: Recv a chunk upstream, Send it on, until io.EOF;  *)
(*   - ByteStream Write: Recv a request from the caller, Send it          *)
(*     upstream; at the caller's io.EOF, CloseAndRecv upstream and        *)
(*     SendAndClose its response to the caller.                           *)
(* The handlers share no state, so their interleavings add nothing: a     *)
(* behaviour serves one stream, of a kind chosen in Init, and the other   *)
(* handlers start returned.                                               *)
(* The upstream service and the caller are the environment: upstream may  *)
(* fail any call, end a write early because the blob is already stored    *)
(* (the ByteStream dedup), or reject a finished write; the caller may go  *)
(* away (its context is canceled), which fails the proxy's sends to it    *)
(* and, through serv.Context(), the upstream stream.                      *)
(***************************************************************************)
EXTENDS Naturals, Sequences, SequencesExt

CONSTANTS
    MaxOps,     \* not-done Operations upstream sends before the done one
    Chunks      \* chunks a Read returns, data requests a Write sends

Statuses == {"none", "ok", "err"}

VARIABLES
    runPc,      \* run / Serve: "check", "cred", "client", "listen",
                \* "serving", "failed"
    needCred,   \* reopt.NeedCred()
    exec,       \* the Execute / WaitExecution handler and its streams
    read,       \* the ByteStream Read handler and its streams
    write       \* the ByteStream Write handler, its streams and the blob

(* exec.kind: "Execute" or "WaitExecution"; .pc: "call", "recv", "send",  *)
(* "ret"; .up: the Operations the upstream stream has delivered; .got:    *)
(* those the caller has received; .gone: the caller has gone away.        *)
(* read.up: chunks upstream has delivered; .end: how upstream ended the   *)
(* read, "none", "eof" or "err"; .got: chunks the caller has received.    *)
(* write.pc: "call", "recv", "send", "close", "reply", "ret"; .msg: the   *)
(* request in hand, "data" or "finish"; .sent: requests the caller has    *)
(* sent; .data: data requests upstream has received; .finished: upstream  *)
(* has received finish_write; .ended: upstream has ended the stream with  *)
(* its response; .committed: upstream holds the blob; .exists: it held    *)
(* it before the write.                                                   *)

proxyVars == <<runPc, needCred, exec, read, write>>

Serving == runPc = "serving"

Init ==
    /\ runPc = "check" /\ needCred \in BOOLEAN
    /\ \E stream \in {"exec", "read", "write"}, kind \in {"Execute", "WaitExecution"},
          blob \in BOOLEAN :
          LET pc(x) == IF stream = x THEN "call" ELSE "ret"
          IN /\ exec = [kind |-> kind, pc |-> pc("exec"), up |-> <<>>, got |-> <<>>,
                        status |-> "none", gone |-> FALSE]
             /\ read = [pc |-> pc("read"), up |-> 0, end |-> "none", got |-> 0,
                        status |-> "none", gone |-> FALSE]
             /\ write = [pc |-> pc("write"), msg |-> "data", sent |-> 0, data |-> 0,
                         finished |-> FALSE, ended |-> FALSE, committed |-> blob,
                         exists |-> blob, status |-> "none", gone |-> FALSE]

----------------------------------------------------------------------------
(* Command.run and Proxy.Serve (proxy.go lines 79-107, part_012 lines     *)
(* 969-1004).  Every step may fail: run returns the error.                *)

\* reopt.CheckValid(), then cred.New only if NeedCred (lines 84-95).
RunCheck ==
    /\ runPc = "check"
    /\ runPc' \in {"failed", IF needCred THEN "cred" ELSE "client"}
    /\ UNCHANGED <<needCred, exec, read, write>>

\* cred.New (lines 90-94), then reapi.New (lines 96-99).
RunConnect ==
    /\ runPc \in {"cred", "client"}
    /\ runPc' \in {"failed", IF runPc = "cred" THEN "client" ELSE "listen"}
    /\ UNCHANGED <<needCred, exec, read, write>>

\* Serve: url.Parse, os.Remove of a stale socket, net.Listen, each may
\* fail; then the services are registered and server.Serve runs.
Listen ==
    /\ runPc = "listen"
    /\ runPc' \in {"failed", "serving"}
    /\ UNCHANGED <<needCred, exec, read, write>>

\* A handler returns with status st.
Ret(h, st) == [h EXCEPT !.pc = "ret", !.status = st]

----------------------------------------------------------------------------
(* executionProxy.Execute and WaitExecution (lines 1047-1087).             *)

\* ep.client.Execute / WaitExecution opens the upstream stream, or fails.
ExecCall ==
    /\ Serving /\ exec.pc = "call"
    /\ exec' \in {[exec EXCEPT !.pc = "recv"], Ret(exec, "err")}
    /\ UNCHANGED <<runPc, needCred, read, write>>

\* exc.Recv(): the next Operation, or an error.  A canceled caller cancels
\* the upstream stream; after the done Operation the stream ends (io.EOF).
ExecRecv ==
    /\ Serving /\ exec.pc = "recv"
    /\ LET ended == exec.up # <<>> /\ Last(exec.up) = "done"
           ops == {"done"} \cup (IF Len(exec.up) < MaxOps THEN {"op"} ELSE {})
       IN \/ /\ ~exec.gone /\ ~ended
             /\ \E op \in ops :
                   exec' = [exec EXCEPT !.up = Append(@, op), !.pc = "send"]
          \/ exec' = Ret(exec, "err")
    /\ UNCHANGED <<runPc, needCred, read, write>>

\* Mutant: the done check is made before serv.Send.
ExecSendDoneFirst ==
    /\ Serving /\ exec.pc = "send"
    /\ exec' = CASE exec.gone -> Ret(exec, "err")
                 [] Last(exec.up) = "done" -> Ret(exec, "ok")
                 [] OTHER -> [exec EXCEPT !.got = Append(@, Last(exec.up)), !.pc = "recv"]
    /\ UNCHANGED <<runPc, needCred, read, write>>

\* serv.Send(op); return nil once op is done, else Recv again.
ExecSend ==
    /\ Serving /\ exec.pc = "send"
    /\ exec' = IF exec.gone THEN Ret(exec, "err")
               ELSE LET sent == [exec EXCEPT !.got = Append(@, Last(exec.up))]
                    IN IF Last(exec.up) = "done" THEN Ret(sent, "ok")
                       ELSE [sent EXCEPT !.pc = "recv"]
    /\ UNCHANGED <<runPc, needCred, read, write>>

----------------------------------------------------------------------------
(* byteStreamProxy.Read (lines 1094-1112).                                 *)

ReadCall ==
    /\ Serving /\ read.pc = "call"
    /\ read' \in {[read EXCEPT !.pc = "recv"], Ret(read, "err")}
    /\ UNCHANGED <<runPc, needCred, exec, write>>

\* Mutant: every Recv error ends the read like io.EOF.
ReadRecvErrIsEOF ==
    /\ Serving /\ read.pc = "recv"
    /\ \/ /\ ~read.gone /\ read.up < Chunks
          /\ read' = [read EXCEPT !.up = @ + 1, !.pc = "send"]
       \/ /\ ~read.gone /\ read.up = Chunks
          /\ read' = Ret([read EXCEPT !.end = "eof"], "ok")
       \/ read' = Ret([read EXCEPT !.end = "err"], "ok")
    /\ UNCHANGED <<runPc, needCred, exec, write>>

\* bsc.Recv(): a chunk, io.EOF after the last one (return nil), or an
\* error (returned); a canceled caller cancels the upstream stream.
ReadRecv ==
    /\ Serving /\ read.pc = "recv"
    /\ \/ /\ ~read.gone /\ read.up < Chunks
          /\ read' = [read EXCEPT !.up = @ + 1, !.pc = "send"]
       \/ /\ ~read.gone /\ read.up = Chunks
          /\ read' = Ret([read EXCEPT !.end = "eof"], "ok")
       \/ read' = Ret([read EXCEPT !.end = "err"], "err")
    /\ UNCHANGED <<runPc, needCred, exec, write>>

\* serv.Send(resp).
ReadSend ==
    /\ Serving /\ read.pc = "send"
    /\ read' = IF read.gone THEN Ret(read, "err")
               ELSE [read EXCEPT !.got = @ + 1, !.pc = "recv"]
    /\ UNCHANGED <<runPc, needCred, exec, write>>

----------------------------------------------------------------------------
(* byteStreamProxy.Write (lines 1114-1136).  The caller sends Chunks data  *)
(* requests, then finish_write, then closes its side.                      *)

WriteCall ==
    /\ Serving /\ write.pc = "call"
    /\ write' \in {[write EXCEPT !.pc = "recv"], Ret(write, "err")}
    /\ UNCHANGED <<runPc, needCred, exec, read>>

\* serv.Recv(): the caller's next request, io.EOF once it has closed, or
\* the error of a canceled caller.
WriteRecv ==
    /\ Serving /\ write.pc = "recv"
    /\ \/ /\ write.gone
          /\ write' = Ret(write, "err")
       \/ /\ ~write.gone /\ write.sent <= Chunks
          /\ write' = [write EXCEPT !.msg = IF write.sent < Chunks THEN "data" ELSE "finish",
                                    !.sent = @ + 1, !.pc = "send"]
       \/ /\ ~write.gone /\ write.sent = Chunks + 1
          /\ write' = [write EXCEPT !.pc = "close"]
    /\ UNCHANGED <<runPc, needCred, exec, read>>

\* bsc.Send(wreq): io.EOF once upstream has ended the stream, or another
\* error; either is returned.
WriteSend ==
    /\ Serving /\ write.pc = "send"
    /\ \/ /\ ~write.ended /\ ~write.gone
          /\ write' = IF write.msg = "data"
                         THEN [write EXCEPT !.data = @ + 1, !.pc = "recv"]
                         ELSE [write EXCEPT !.finished = TRUE, !.pc = "recv"]
       \/ write' = Ret(write, "err")
    /\ UNCHANGED <<runPc, needCred, exec, read>>

\* Mutant: the caller is answered without CloseAndRecv upstream.
WriteCloseNoUpstream ==
    /\ Serving /\ write.pc = "close"
    /\ write' = [write EXCEPT !.pc = "reply"]
    /\ UNCHANGED <<runPc, needCred, exec, read>>

\* At the caller's io.EOF: bsc.CloseAndRecv().  Upstream answers with the
\* response it ended the stream with, commits a complete finished write
\* or rejects it; an error is returned.
WriteClose ==
    /\ Serving /\ write.pc = "close"
    /\ \/ /\ write.ended
          /\ write' = [write EXCEPT !.pc = "reply"]
       \/ /\ ~write.ended /\ ~write.gone /\ write.finished /\ write.data = Chunks
          /\ write' = [write EXCEPT !.committed = TRUE, !.pc = "reply"]
       \/ write' = Ret(write, "err")
    /\ UNCHANGED <<runPc, needCred, exec, read>>

\* serv.SendAndClose(resp).
WriteReply ==
    /\ Serving /\ write.pc = "reply"
    /\ write' = Ret(write, IF write.gone THEN "err" ELSE "ok")
    /\ UNCHANGED <<runPc, needCred, exec, read>>

\* Upstream finds the blob already stored and ends the stream with its
\* response before the last request (ByteStream's early return).
UpstreamDedup ==
    /\ write.exists /\ ~write.ended /\ write.pc \in {"recv", "send"}
    /\ write' = [write EXCEPT !.ended = TRUE]
    /\ UNCHANGED <<runPc, needCred, exec, read>>

----------------------------------------------------------------------------
(* The callers, whose contexts may be canceled while a handler runs.       *)

\* The caller of a stream goes away.
CallerGone(h) == h.pc # "ret" /\ ~h.gone /\ h' = [h EXCEPT !.gone = TRUE]

CallersGo ==
    \/ CallerGone(exec) /\ UNCHANGED <<runPc, needCred, read, write>>
    \/ CallerGone(read) /\ UNCHANGED <<runPc, needCred, exec, write>>
    \/ CallerGone(write) /\ UNCHANGED <<runPc, needCred, exec, read>>

\* server.Serve never returns, and ignores ctx: with every stream
\* answered the proxy idles.
Idle ==
    /\ runPc = "failed" \/ (exec.pc = "ret" /\ read.pc = "ret" /\ write.pc = "ret")
    /\ UNCHANGED proxyVars

Next ==
    \/ RunCheck \/ RunConnect \/ Listen
    \/ ExecCall \/ ExecRecv \/ ExecSend
    \/ ReadCall \/ ReadRecv \/ ReadSend
    \/ WriteCall \/ WriteRecv \/ WriteSend \/ WriteClose \/ WriteReply
    \/ UpstreamDedup \/ CallersGo
    \/ Idle

Spec == Init /\ [][Next]_proxyVars

----------------------------------------------------------------------------
TypeOK ==
    /\ runPc \in {"check", "cred", "client", "listen", "serving", "failed"}
    /\ needCred \in BOOLEAN
    /\ exec.kind \in {"Execute", "WaitExecution"}
    /\ exec.pc \in {"call", "recv", "send", "ret"}
    /\ exec.up \in Seq({"op", "done"}) /\ exec.got \in Seq({"op", "done"})
    /\ Len(exec.up) <= MaxOps + 1
    /\ {exec.status, read.status, write.status} \subseteq Statuses
    /\ {exec.gone, read.gone, write.gone} \subseteq BOOLEAN
    /\ read.pc \in {"call", "recv", "send", "ret"}
    /\ read.up \in 0..Chunks /\ read.got \in 0..Chunks
    /\ read.end \in {"none", "eof", "err"}
    /\ write.pc \in {"call", "recv", "send", "close", "reply", "ret"}
    /\ write.msg \in {"data", "finish"}
    /\ write.sent \in 0..Chunks + 1 /\ write.data \in 0..Chunks
    /\ {write.finished, write.ended, write.committed, write.exists} \subseteq BOOLEAN

\* Execute / WaitExecution relay the upstream operation stream: the caller
\* receives upstream's Operations in order, and the relay returns OK
\* exactly when the caller has been sent the done Operation.
ExecuteRelayed ==
    /\ SubSeq(exec.up, 1, Len(exec.got)) = exec.got
    /\ exec.pc = "ret" =>
          (exec.status = "ok" <=> exec.got # <<>> /\ Last(exec.got) = "done")

\* A ByteStream Read through the proxy that returns OK has handed the
\* caller every chunk and upstream ended the read with io.EOF: an upstream
\* error never looks like the end of the blob.
ReadRelayed ==
    read.pc = "ret" /\ read.status = "ok" => read.end = "eof" /\ read.got = read.up

\* A ByteStream Write through the proxy answers OK only when upstream holds
\* the blob, whatever upstream or the caller do in between.
WriteOkMeansCommitted ==
    write.status = "ok" => write.committed

====
