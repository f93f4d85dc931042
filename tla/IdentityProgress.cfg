CONSTANTS
    s1 = s1
    s2 = s2
    m1 = m1
    m2 = m2
    m3 = m3
    Signer <- OneSigner
    Msg <- TwoMsgs
    SignerOf <- BothFromIt
    CacheSizes = {0, 1}
    MaxPending = 0
    MaxPerSigner = 1
    MaxAnswers = 2
SPECIFICATION Spec
PROPERTIES ParkedIsResolved DestructionEnds
CHECK_DEADLOCK FALSE
