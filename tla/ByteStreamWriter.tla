-------------------------- MODULE ByteStreamWriter --------------------------
(***************************************************************************)
(* bytestreamio.Writer (src/reapi/bytestreamio/bytestreamio.go): several  *)
(* uploads of the same blob, each on its own ByteStream.Write stream, to  *)
(* one CAS.  The caller of each Writer writes the blob in buffers and      *)
(* closes it, as io.Copy followed by Close does.  Lengths are in units of *)
(* bytes; ChunkSize stands for streamBufSize.                              *)
(*                                                                         *)
(* The server is the environment and follows the REAPI ByteStream rules:   *)
(* it appends each chunk to its stream, stores the blob on a FinishWrite   *)
(* after the whole blob, may end a stream early once the blob is stored   *)
(* (dedup) or at any time on an error; a client Send on an ended stream    *)
(* returns io.EOF, and the status comes from CloseAndRecv.                 *)
(***************************************************************************)
EXTENDS Integers

CONSTANTS
    Writers,     \* concurrent uploads of the blob
    BlobSize,    \* w.size, parsed from the resource name
    ChunkSize,   \* streamBufSize
    BufSizes,    \* lengths of the buffers the caller passes to Write
    Compressed   \* the resource name contains "compressed-blobs"

ASSUME BlobSize \in Nat \ {0} /\ ChunkSize \in Nat \ {0} /\
       BufSizes \subseteq 1..BlobSize /\ Compressed \in BOOLEAN

VARIABLES
    wpc,      \* caller of Writer w: "idle", "send" (in Write's loop), "close", "recv", "done"
    offset,   \* w.offset
    ok,       \* w.ok
    n,        \* Write's n (len(buf)) while in the loop
    p,        \* Write's p while in the loop
    written,  \* bytes the caller has been told are written
    result,   \* "none", "ok", "senderr", "finisherr", "closeerr", "badsize"
    recv,     \* server: bytes received on w's stream
    sstate,   \* server: w's stream "open", "finished", "exists" (ended, blob stored) or "failed"
    stored    \* server: the blob is in the CAS

writerVars == <<wpc, offset, ok, n, p, written, result, recv, sstate, stored>>

Results == {"none", "ok", "senderr", "finisherr", "closeerr", "badsize"}

\* A stream the server has ended: Send returns io.EOF on it.
Ended(w) == sstate[w] \in {"exists", "failed"}

\* Create (lines 88-104): the stream is opened, offset 0, ok false.
Init ==
    /\ wpc = [w \in Writers |-> "idle"]
    /\ offset = [w \in Writers |-> 0]
    /\ ok = [w \in Writers |-> FALSE]
    /\ n = [w \in Writers |-> 0]
    /\ p = [w \in Writers |-> 0]
    /\ written = [w \in Writers |-> 0]
    /\ result = [w \in Writers |-> "none"]
    /\ recv = [w \in Writers |-> 0]
    /\ sstate = [w \in Writers |-> "open"]
    /\ stored = FALSE

----------------------------------------------------------------------------
\* The caller calls Write(buf) with the next part of the blob.  After an
\* earlier io.EOF (w.ok) Write returns len(buf) at once.
WriteSkip(w) ==
    /\ wpc[w] = "idle" /\ written[w] < BlobSize /\ ok[w]
    /\ \E b \in BufSizes :
          /\ b <= BlobSize - written[w]
          /\ written' = [written EXCEPT ![w] = @ + b]
    /\ UNCHANGED <<wpc, offset, ok, n, p, result, recv, sstate, stored>>

WriteStart(w) ==
    /\ wpc[w] = "idle" /\ written[w] < BlobSize /\ ~ok[w]
    /\ \E b \in BufSizes :
          /\ b <= BlobSize - written[w]
          /\ n' = [n EXCEPT ![w] = b]
    /\ p' = [p EXCEPT ![w] = 0]
    /\ wpc' = [wpc EXCEPT ![w] = "send"]
    /\ UNCHANGED <<offset, ok, written, result, recv, sstate, stored>>

\* The size of the next chunk: len(buf[p:]) capped at streamBufSize.
ChunkLen(w) == IF n[w] - p[w] > ChunkSize THEN ChunkSize ELSE n[w] - p[w]

\* Mutant: the offset advances by a full streamBufSize for every chunk.
SendAcceptedFullChunk(w) ==
    /\ wpc[w] = "send" /\ sstate[w] = "open"
    /\ recv' = [recv EXCEPT ![w] = @ + ChunkLen(w)]
    /\ offset' = [offset EXCEPT ![w] = @ + ChunkSize]
    /\ p' = [p EXCEPT ![w] = @ + ChunkLen(w)]
    /\ IF p[w] + ChunkLen(w) < n[w]
          THEN UNCHANGED <<wpc, written>>
          ELSE /\ wpc' = [wpc EXCEPT ![w] = "idle"]
               /\ written' = [written EXCEPT ![w] = @ + n[w]]
    /\ UNCHANGED <<ok, n, result, sstate, stored>>

\* One iteration of Write's loop: Send succeeds, the server appends the
\* chunk at w.offset; offset and p advance; the loop ends when p reaches n.
SendAccepted(w) ==
    /\ wpc[w] = "send" /\ sstate[w] = "open"
    /\ recv' = [recv EXCEPT ![w] = @ + ChunkLen(w)]
    /\ offset' = [offset EXCEPT ![w] = @ + ChunkLen(w)]
    /\ p' = [p EXCEPT ![w] = @ + ChunkLen(w)]
    /\ IF p[w] + ChunkLen(w) < n[w]
          THEN UNCHANGED <<wpc, written>>
          ELSE /\ wpc' = [wpc EXCEPT ![w] = "idle"]
               /\ written' = [written EXCEPT ![w] = @ + n[w]]
    /\ UNCHANGED <<ok, n, result, sstate, stored>>

\* Send returns io.EOF on an ended stream: ok = true, Write returns n.
SendEOF(w) ==
    /\ wpc[w] = "send" /\ Ended(w)
    /\ ok' = [ok EXCEPT ![w] = TRUE]
    /\ written' = [written EXCEPT ![w] = @ + n[w]]
    /\ wpc' = [wpc EXCEPT ![w] = "idle"]
    /\ UNCHANGED <<offset, n, p, result, recv, sstate, stored>>

\* Send fails with another error: Write returns p and the error, and the
\* caller gives up the upload.
SendFails(w) ==
    /\ wpc[w] = "send"
    /\ written' = [written EXCEPT ![w] = @ + p[w]]
    /\ result' = [result EXCEPT ![w] = "senderr"]
    /\ wpc' = [wpc EXCEPT ![w] = "done"]
    /\ UNCHANGED <<offset, ok, n, p, recv, sstate, stored>>

\* The caller has written the blob and calls Close.
CallClose(w) ==
    /\ wpc[w] = "idle" /\ written[w] = BlobSize
    /\ wpc' = [wpc EXCEPT ![w] = "close"]
    /\ UNCHANGED <<offset, ok, n, p, written, result, recv, sstate, stored>>

\* Close without w.ok sends FinishWrite at w.offset.  The server stores the
\* blob if the stream holds all of it, and fails the stream otherwise.
FinishSent(w) ==
    /\ wpc[w] = "close" /\ ~ok[w] /\ sstate[w] = "open"
    /\ IF recv[w] = BlobSize
          THEN /\ sstate' = [sstate EXCEPT ![w] = "finished"]
               /\ stored' = TRUE
          ELSE /\ sstate' = [sstate EXCEPT ![w] = "failed"]
               /\ UNCHANGED stored
    /\ wpc' = [wpc EXCEPT ![w] = "recv"]
    /\ UNCHANGED <<offset, ok, n, p, written, result, recv>>

\* The FinishWrite Send returns io.EOF: "failed to finish".
FinishEOF(w) ==
    /\ wpc[w] = "close" /\ ~ok[w] /\ Ended(w)
    /\ result' = [result EXCEPT ![w] = "finisherr"]
    /\ wpc' = [wpc EXCEPT ![w] = "done"]
    /\ UNCHANGED <<offset, ok, n, p, written, recv, sstate, stored>>

\* Close with w.ok goes straight to CloseAndRecv.
FinishSkipped(w) ==
    /\ wpc[w] = "close" /\ ok[w]
    /\ wpc' = [wpc EXCEPT ![w] = "recv"]
    /\ UNCHANGED <<offset, ok, n, p, written, result, recv, sstate, stored>>

\* The switch on res.CommittedSize (lines 220-239).
CommittedResult(w, c) ==
    IF c = BlobSize THEN "ok"
    ELSE IF c = -1 /\ ok[w] /\ Compressed THEN "ok"
    ELSE "badsize"

\* The committed sizes the server reports: the blob's size, or -1 from a
\* server that rejects a compressed upload of a blob it already has.
Committed(w) ==
    IF sstate[w] = "exists" /\ Compressed THEN {BlobSize, -1} ELSE {BlobSize}

\* Mutant: after an io.EOF, Close trusts the upload and ignores the status.
CloseAndRecvTrustsEOF(w) ==
    /\ wpc[w] = "recv"
    /\ IF sstate[w] = "failed" /\ ~ok[w]
          THEN result' = [result EXCEPT ![w] = "closeerr"]
          ELSE \E c \in Committed(w) :
                  result' = [result EXCEPT ![w] = CommittedResult(w, c)]
    /\ wpc' = [wpc EXCEPT ![w] = "done"]
    /\ UNCHANGED <<offset, ok, n, p, written, recv, sstate, stored>>

\* CloseAndRecv: a failed stream gives its error; otherwise the committed
\* size is checked.
CloseAndRecv(w) ==
    /\ wpc[w] = "recv"
    /\ IF sstate[w] = "failed"
          THEN result' = [result EXCEPT ![w] = "closeerr"]
          ELSE \E c \in Committed(w) :
                  result' = [result EXCEPT ![w] = CommittedResult(w, c)]
    /\ wpc' = [wpc EXCEPT ![w] = "done"]
    /\ UNCHANGED <<offset, ok, n, p, written, recv, sstate, stored>>

\* Server: once the blob is stored, an open stream may be ended as a dedup.
ServerDedup(w) ==
    /\ stored /\ sstate[w] = "open"
    /\ sstate' = [sstate EXCEPT ![w] = "exists"]
    /\ UNCHANGED <<wpc, offset, ok, n, p, written, result, recv, stored>>

\* Server: an open stream is aborted with an error.
ServerAbort(w) ==
    /\ sstate[w] = "open"
    /\ sstate' = [sstate EXCEPT ![w] = "failed"]
    /\ UNCHANGED <<wpc, offset, ok, n, p, written, result, recv, stored>>

AllDone == \A w \in Writers : wpc[w] = "done"

Finished == AllDone /\ UNCHANGED writerVars

Next ==
    \/ \E w \in Writers :
          \/ WriteSkip(w) \/ WriteStart(w) \/ SendAccepted(w) \/ SendEOF(w)
          \/ SendFails(w) \/ CallClose(w) \/ FinishSent(w) \/ FinishEOF(w)
          \/ FinishSkipped(w) \/ CloseAndRecv(w) \/ ServerDedup(w) \/ ServerAbort(w)
    \/ Finished

Spec == Init /\ [][Next]_writerVars

----------------------------------------------------------------------------
TypeOK ==
    /\ wpc \in [Writers -> {"idle", "send", "close", "recv", "done"}]
    /\ offset \in [Writers -> 0..BlobSize]
    /\ ok \in [Writers -> BOOLEAN]
    /\ n \in [Writers -> 0..BlobSize] /\ p \in [Writers -> 0..BlobSize]
    /\ written \in [Writers -> 0..BlobSize]
    /\ result \in [Writers -> Results]
    /\ recv \in [Writers -> 0..BlobSize]
    /\ sstate \in [Writers -> {"open", "finished", "exists", "failed"}]
    /\ stored \in BOOLEAN

\* Close reports success only when the blob is in the CAS: an io.EOF from
\* Send (which also ends a stream the server aborted) never turns into a
\* successful upload unless CloseAndRecv confirms the blob.
CloseOkMeansStored ==
    \A w \in Writers : result[w] = "ok" => stored

\* Until a Send returns io.EOF, what the caller was told is written is
\* exactly what the server has received on the stream, and w.offset (the
\* WriteOffset of the next request) is where the server's stream ends.
WrittenMatchesServer ==
    \A w \in Writers :
        ~ok[w] /\ result[w] \in {"none", "ok"} =>
            /\ offset[w] = recv[w]
            /\ wpc[w] # "send" => written[w] = recv[w]
            /\ wpc[w] = "send" => written[w] + p[w] = recv[w]

\* The struct comment: after the server dedups an upload (io.EOF because
\* the blob is already stored), Write returns success and Close issues
\* CloseAndRecv: Close never fails an upload the server ended as a dedup.
DedupedUploadSucceeds ==
    \A w \in Writers :
        result[w] \in {"finisherr", "closeerr", "badsize"} => sstate[w] # "exists"

====
