CONSTANTS
    o1 = o1
    o2 = o2
    Owner = {o1, o2}
    None = None
    TTL = 2
    Plans <- MCPlans
SPECIFICATION Spec

    
PROPERTY NameComesBack
CHECK_DEADLOCK FALSE
