CONSTANTS
    w1 = w1
    w2 = w2
    cg1 = cg1
    cg2 = cg2
    lg1 = lg1
    lg2 = lg2
    lg3 = lg3
    apiA = apiA
    apiB = apiB
    other = other
    wildcard = wildcard
    NoProc = NoProc
SPECIFICATION Spec
INVARIANTS
    TypeOK
    CloseOkMeansStored
    WrittenMatchesServer
    ReadsBlobInOrder
    HelperRunsSerialized
    FreshCredential
    ExecuteRelayed
    ReadRelayed
    WriteOkMeansCommitted
    OAuthWrapsLiveSource
    ExitUnwindsInOrder
PROPERTIES
    DoTerminates
    TokenReturns
