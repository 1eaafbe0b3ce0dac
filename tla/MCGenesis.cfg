\* Factory.Load and Genesis.InitializeState over genesis files that leave
\* fields out or set them on either side of each check.  Genesis runs once
\* and the node stops running it: a final state is not a deadlock.
CONSTANTS
    a1 = a1
    a2 = a2
    ZeroAddress = ZeroAddress
    NoValue = NoValue
    WordBits = 8
    AllocChoices <- MCAllocChoices
    FieldChoices <- MCChoices
SPECIFICATION GenesisSpec
CHECK_DEADLOCK FALSE
INVARIANTS
    GenesisTypeOK
    GenesisAllOrNothing
    GenesisRowsReadable
    GenesisRowsRoundTrip
