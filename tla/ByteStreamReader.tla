-------------------------- MODULE ByteStreamReader --------------------------
(***************************************************************************)
(* bytestreamio.Reader (src/reapi/bytestreamio/bytestreamio.go): Read     *)
(* serves the caller's buffers from the chunks ByteStream.Read streams.   *)
(* Byte i of the blob is the value i; the server sends the blob in order, *)
(* in chunks of the sizes in RecvSizes (an empty chunk included), then    *)
(* io.EOF, or fails the stream.                                            *)
(***************************************************************************)
EXTENDS Integers, Sequences

CONSTANTS
    BlobSize,   \* bytes in the blob
    RecvSizes,  \* lengths of resp.Data the server may send
    ReadSizes   \* lengths of the buffers the caller passes to Read

ASSUME BlobSize \in Nat /\ RecvSizes \subseteq Nat /\ ReadSizes \subseteq Nat \ {0}

VARIABLES
    buf,    \* r.buf: data received and not yet returned
    size,   \* r.size
    sent,   \* server: bytes of the blob sent on the stream
    got,    \* the caller: bytes Read has returned, in order
    rpc     \* the caller: "reading", "eof" (Read returned io.EOF) or "err"

readerVars == <<buf, size, sent, got, rpc>>

\* Open (lines 37-47): a reader with an empty buffer.
Init ==
    /\ buf = <<>>
    /\ size = 0
    /\ sent = 0
    /\ got = <<>>
    /\ rpc = "reading"

\* n := copy(buf, r.buf): the bytes that fit.
Copied(b, k) == IF k < Len(b) THEN k ELSE Len(b)

\* Mutant: the rest of a chunk that did not fit is dropped.
CopyOutDropsRest(b, k) ==
    /\ got' = got \o SubSeq(b, 1, Copied(b, k))
    /\ buf' = <<>>
    /\ size' = size + Copied(b, k)

\* Mutant: r.size counts the caller's buffer length, not the bytes copied.
CopyOutCountsRequested(b, k) ==
    /\ got' = got \o SubSeq(b, 1, Copied(b, k))
    /\ buf' = SubSeq(b, Copied(b, k) + 1, Len(b))
    /\ size' = size + k

\* The copy, then r.buf = r.buf[n:]; r.size += n.
CopyOut(b, k) ==
    /\ got' = got \o SubSeq(b, 1, Copied(b, k))
    /\ buf' = SubSeq(b, Copied(b, k) + 1, Len(b))
    /\ size' = size + Copied(b, k)

\* Read with buffered data left: return it without a Recv (lines 63-68).
ReadBuffered ==
    /\ rpc = "reading" /\ buf # <<>>
    /\ \E k \in ReadSizes : CopyOut(buf, k)
    /\ UNCHANGED <<sent, rpc>>

\* Read with an empty buffer: Recv a chunk, keep it in r.buf and copy what
\* fits (lines 69-78).  An empty chunk makes Read return 0, nil.
ReadRecv ==
    /\ rpc = "reading" /\ buf = <<>> /\ sent < BlobSize
    /\ \E c \in RecvSizes, k \in ReadSizes :
          /\ c <= BlobSize - sent
          /\ sent' = sent + c
          /\ CopyOut([i \in 1..c |-> sent + i], k)
    /\ UNCHANGED rpc

\* Recv returns io.EOF after the whole blob: Read returns 0, io.EOF.
ReadEOF ==
    /\ rpc = "reading" /\ buf = <<>> /\ sent = BlobSize
    /\ rpc' = "eof"
    /\ UNCHANGED <<buf, size, sent, got>>

\* Recv fails: Read returns 0 and the error.
ReadErr ==
    /\ rpc = "reading" /\ buf = <<>>
    /\ rpc' = "err"
    /\ UNCHANGED <<buf, size, sent, got>>

Done ==
    /\ rpc # "reading"
    /\ UNCHANGED readerVars

Next == ReadBuffered \/ ReadRecv \/ ReadEOF \/ ReadErr \/ Done

Spec == Init /\ [][Next]_readerVars

----------------------------------------------------------------------------
TypeOK ==
    /\ buf \in Seq(1..BlobSize)
    /\ size \in 0..BlobSize
    /\ sent \in 0..BlobSize
    /\ got \in Seq(1..BlobSize)
    /\ rpc \in {"reading", "eof", "err"}

\* Whatever the chunk and buffer sizes, Read hands out the blob in order
\* with nothing lost or repeated, Size() counts exactly what it handed out,
\* and io.EOF reaches the caller only after the whole blob.
ReadsBlobInOrder ==
    /\ got = [i \in 1..Len(got) |-> i]
    /\ size = Len(got)
    /\ rpc = "eof" => Len(got) = BlobSize

====
