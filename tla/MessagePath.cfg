CONSTANTS
    Byte = 16
    SafeInteger = 50000
    Word64 = 16
    Word32 = 4
    Jobs <- MCJobs
    Messages <- MCMessages
    Context <- MCContext
    Identifiers <- MCIdentifiers
    Service <- MCService
    Endorsements <- MCEndorsements
SPECIFICATION Spec
INVARIANTS
    HashesAgree
    
    AuthorizedIffSatisfied
    ReducedTellsWhatIsMissing
    
    GrantedAsConfigured
    
CHECK_DEADLOCK FALSE
