CONSTANTS
    Node = {n1, n2}
    KeyId = {k1, k2}
    NoKey = NoKey
    Limits <- PairLimits
SYMMETRY Symmetry
SPECIFICATION Spec
INVARIANTS KeyLifecycle KeyAgreement OneSidedKeyIsRepaired
PROPERTY KeyTableDiscipline
