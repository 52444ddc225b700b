SPECIFICATION Spec
CONSTANTS
    Ref = {main}
    BaseRef = main
    NoText <- MCNoText
    NaN = NaN
    Trial <- MCTrial
    Content <- MCContent
    Flag <- MCFlag
    Entity <- MCEntity
    MaxBuilds = 0
INVARIANT LocalEvaluationKept
