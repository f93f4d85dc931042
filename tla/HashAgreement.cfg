CONSTANTS
    Byte = 16
    SafeInteger = 50000
    Word64 = 16
    Word32 = 4
    Jobs <- ServiceJobs
    Messages <- MCMessages
    Context <- MCContext
    Identifiers <- MCIdentifiers
    Service <- MCService
    Endorsements <- MCEndorsements
SPECIFICATION Spec
INVARIANT ServiceMessageHashesMatch
CHECK_DEADLOCK FALSE
