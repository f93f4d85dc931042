CONSTANTS
    MaxCalls = 2
    Plans <- MCPlans
    None = None
SPECIFICATION Spec
INVARIANTS
    NoStaleWaiter
    

    
CHECK_DEADLOCK FALSE
