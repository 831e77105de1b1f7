CONSTANTS
    n1 = n1  n2 = n2
    None = None
    NoPath = ""
    Nodes <- MCNodes
    Datas <- MCDatas
    MaxResends = 1
    MaxRestarts = 1
    Debug = FALSE
SPECIFICATION Spec
INVARIANT TypeOK ModelIsUnionOfReports ProfileIndependentOfPostOrder
PROPERTY ModelingCompletesWithoutFailover
