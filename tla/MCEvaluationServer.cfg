SPECIFICATION Spec
CONSTANTS
    Ref = {main, dev}
    BaseRef = main
    NoText <- MCNoText
    NaN = NaN
    Trial <- MCTrial
    Content <- MCContent
    Flag <- MCFlag
    Entity <- MCEntity
    MaxBuilds = 1
INVARIANTS
    DefaultReferenceKept
    FairShares
    OperatorsAgree
    LocalEvaluationAgrees
PROPERTIES
    BooleanTornOnlyInDefault
