SPECIFICATION SdSpec
INVARIANT
    ParseReturns
