CONSTANTS
    w1 = w1
    w2 = w2
    Writers <- MCWriters
    BlobSize = 3
    ChunkSize = 2
    BufSizes = {1, 3}
    Compressed = FALSE
SPECIFICATION Spec
INVARIANT DedupedUploadSucceeds
