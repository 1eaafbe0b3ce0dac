------------------------------ MODULE MCAmmPool ------------------------------
EXTENDS AmmPool, TLC

CONSTANTS gov, usr

MCActors == {gov, usr}
\* Genesis balances of both assets.
MCInitBalance == [s \in SupportedAssets |-> [a \in MCActors |-> 5]]
=============================================================================
