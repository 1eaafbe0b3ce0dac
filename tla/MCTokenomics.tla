----------------------------- MODULE MCTokenomics -----------------------------
EXTENDS Tokenomics, TLC

CONSTANTS gov, usr

MCActors == {gov, usr}
\* Genesis allocates native VEIL only; VAI exists only once minted.
MCInitBalance == [s \in SupportedAssets |->
                    [a \in MCActors |-> IF s = AssetVEIL /\ a = gov THEN 3 ELSE 0]]
\* A larger native allocation, for fee routing.
MCInitBalanceFees == [s \in SupportedAssets |->
                        [a \in MCActors |-> IF s = AssetVEIL /\ a = gov THEN 4 ELSE 0]]
\* A holder of more VEIL than 2^16 / 5000, for fee routing at the wrap.
MCInitBalanceWhale == [s \in SupportedAssets |->
                         [a \in MCActors |-> IF s = AssetVEIL /\ a = gov THEN 14 ELSE 0]]
MCVAIConfig == [debtCeiling |-> 6, epochMintLimit |-> 4, mintEpochSeconds |-> 1]
MCTreasuryConfig == [maxReleaseBips |-> 1000, releaseEpochSeconds |-> 1]
MCFeeRouterConfig == [msrbBips |-> 5000, colBips |-> 3000, opsBips |-> 2000]
MCInitTreasury == [locked |-> 40, live |-> 0]
MCInitTreasurySmall == [locked |-> 20, live |-> 0]
\* No COL to release.
MCNoTreasury == [locked |-> 0, live |-> 0]
=============================================================================
