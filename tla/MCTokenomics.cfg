CONSTANTS
    gov = gov
    usr = usr
    Actors <- MCActors
    Governance = gov
    MintAuthority = gov
    WordBits = 16
    AssetIds = {0, 1}
    Amounts = {2, 3}
    Minimums = {0}
    FeeChoices = {30}
    InitBalance <- MCInitBalance
    NoValue = NoValue
    VAIConfig <- MCVAIConfig
    TreasuryConfig <- MCTreasuryConfig
    FeeRouterConfig <- MCFeeRouterConfig
    InitTreasury <- MCInitTreasurySmall
    InitReserve = 10
    InitBackingFloor = 10000
    ReserveChoices = {2}
    FloorChoices = {0, 20000}
    TimeSteps = {1000}
    MaxTime = 2001
SPECIFICATION TokenSpec
INVARIANTS TokenTypeOK WritesDeclared ReserveViewAgreesWithMint VaiSupplyMatchesDebt DebtWithinCeiling NativeSupplyConserved TreasuryBalanced
