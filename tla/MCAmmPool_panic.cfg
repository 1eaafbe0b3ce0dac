CONSTANTS
    gov = gov
    usr = usr
    Actors <- MCActors
    Governance = gov
    WordBits = 4
    AssetIds = {0, 1, 2}
    Amounts = {1, 2, 3, 5}
    Minimums = {0, 2}
    FeeChoices = {0, 1000}
    InitBalance <- MCInitBalance
    NoValue = NoValue
SPECIFICATION AmmSpec
INVARIANTS NoExecutionPanic
