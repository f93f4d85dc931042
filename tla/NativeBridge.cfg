CONSTANT Plans <- MCPlans
SPECIFICATION Spec

    
PROPERTIES
    PayloadsInOrder
    DataAndCloseArrive
    StopEnds
CHECK_DEADLOCK FALSE
