CONSTANTS
    Addrs <- MCAddrs
    CasAddrs <- MCAddrs
    Instances <- MCInstances
    ProjIDs = {"", "q"}
    Versions = {"", "bad"}
    ServerHigh = {"v2.0"}
SPECIFICATION Spec
INVARIANTS
    BlobCompressionOffUnderGrpc
