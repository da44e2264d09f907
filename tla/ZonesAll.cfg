CONSTANTS
    g1 = g1
    a1 = a1
    c1 = c1
    c2 = c2
    s1 = s1
    s2 = s2
    Bad = Bad
    Unset = Unset
    Nothing = Nothing
    Requests = {r1, r2, r3}
    Values <- AnyValue
    InitialZones <- OneOfEach
    Offered <- EveryRequest
SYMMETRY Permutation
SPECIFICATION Spec
INVARIANTS
    TypeOK
    FieldsAreLatest
    AnswersAreTruthful
    PageFitsTotal
\* Every request has ended: nothing is left to do.
CHECK_DEADLOCK FALSE
