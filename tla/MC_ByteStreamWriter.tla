------------------------ MODULE MC_ByteStreamWriter ------------------------
EXTENDS ByteStreamWriter, TLC

CONSTANTS w1, w2

\* Two uploads of a 3-byte blob in 2-byte chunks: a buffer of 3 bytes takes
\* two Sends, buffers of 1 byte take three Writes.
MCWriters == {w1, w2}

MCSymmetry == Permutations(MCWriters)

====
