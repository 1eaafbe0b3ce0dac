------------------------------ MODULE MCGenesis ------------------------------
EXTENDS Genesis, TLC

CONSTANTS a1, a2

\* No allocation, or one allocation whose address becomes the default
\* governance.
MCAllocChoices == {<<>>, <<[address |-> a1, balance |-> 5]>>}

\* The candidate values of each tokenomics field: 0 (left out of the JSON)
\* and values on either side of each check of validateTokenomics.
MCChoices ==
    [totalSupply |-> {0, 7}, governance |-> {ZeroAddress}, operations |-> {ZeroAddress},
     mintAuthority |-> {ZeroAddress}, colVaultLocked |-> {2, 251}, colVaultLive |-> {0},
     maxReleaseBips |-> {0, 10001}, releaseEpochSeconds |-> {0, -1},
     feeRouterMsrbBips |-> {0, 5000}, feeRouterColBips |-> {0, 5000},
     feeRouterOpsBips |-> {0},
     vaiDebtCeiling |-> {0, 100}, vaiEpochMintLimit |-> {0, 200},
     vaiMintEpochSeconds |-> {0}, backingFloorBips |-> {0},
     ltvBips |-> {0}, wsVeilLtvBips |-> {0, 500}, haircutBips |-> {0, 10001},
     exogenousReserveInit |-> {0}, vaiBufferInit |-> {0},
     requiredProofType |-> {0, 2, 3}, windowMs |-> {0, -1},
     proverAuthority |-> {ZeroAddress, a2}]
=============================================================================
