SPECIFICATION Spec
CONSTANTS
    c1 = c1
    c2 = c2
    c3 = c3
    Conn = {c1, c2, c3}
    Workers = 2
    RM = "RM"
    None = "None"
    NoHash = "none"
    Node = {"a", "b", "c"}
    ParsedQuery <- MCParse
    MatchingServices <- MCServices
    Plans <- MCPlans
INVARIANTS  MailInOrder AdvertisedIsServed
PROPERTIES Reachable EveryRequestAnswered
CHECK_DEADLOCK FALSE
