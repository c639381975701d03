SPECIFICATION HeapSpec
CONSTANTS
 Witness = {1,2}
 Variable = {"t","a","b"}
 TypeOf <- SmallTypes
 Indices <- SmallIndices
 Mutable = {"t","b"}
 Branches = {{2}}
 MaxSteps = 3
CHECK_DEADLOCK FALSE
PROPERTY ImmutableKeepsItsValue
