CONSTANTS
    s1 = s1
    s2 = s2
    m1 = m1
    m2 = m2
    m3 = m3
    Signer <- TwoSigners
    Msg <- ThreeMsgs
    SignerOf <- TwoFromFirst
    CacheSizes = {0, 1}
    MaxPending = 2
    MaxPerSigner = 2
    MaxAnswers = 1
SYMMETRY Interchangeable
SPECIFICATION Spec
INVARIANTS CacheConsistent PendingAccounted ParkedIffResolving EachMessageOnce
CHECK_DEADLOCK FALSE
