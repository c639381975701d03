SPECIFICATION LayoutSpec
CONSTANTS
    Contracts <- SmallContracts
    Nesting <- SmallNesting
    MaxSlot = 12
    MaxWrites = 1
    MinHeight = 4
    Away = TRUE
CHECK_DEADLOCK FALSE
INVARIANTS BulkGetReadsItsOwnSlots
