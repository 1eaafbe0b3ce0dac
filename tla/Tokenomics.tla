------------------------------ MODULE Tokenomics ------------------------------
(***************************************************************************)
(* The monetary side of veilvm composed with the AMM: mint_vai, burn_vai, *)
(* update_reserve_state, set_risk_params, release_col_tranche and         *)
(* route_fees (src/actions/*.go) over the VAIState, ReserveState,         *)
(* RiskConfig, TreasuryState and FeeRouterState singletons, sharing the   *)
(* asset balances and pools of AmmPool: VAI minted to a user can be       *)
(* swapped into a pool and burnt by someone else.                         *)
(*                                                                         *)
(* The configuration singletons (VAIConfig, TreasuryConfig,               *)
(* FeeRouterConfig) are written only by genesis, so they are constants    *)
(* here; genesis validation (genesis.go validateTokenomics) is an ASSUME. *)
(* uint64 products that the code computes without a check wrap modulo    *)
(* 2^WordBits.  Timestamps are milliseconds; the int64 sums               *)
(* start + seconds * 1000 are computed exactly (see README).              *)
(* Of RiskConfig only BackingFloorBips is read by an action; of           *)
(* ReserveState only ExogenousReserve.                                     *)
(***************************************************************************)
EXTENDS AmmPool

CONSTANTS
    MintAuthority,     \* VAIConfig.MintAuthority
    VAIConfig,         \* [debtCeiling, epochMintLimit, mintEpochSeconds]
    TreasuryConfig,    \* [maxReleaseBips, releaseEpochSeconds]
    FeeRouterConfig,   \* [msrbBips, colBips, opsBips]
    InitTreasury,      \* [locked, live]: COLVaultLocked, COLVaultLive
    InitReserve,       \* ExogenousReserveInit
    InitBackingFloor,  \* BackingFloorBips
    ReserveChoices,    \* ExogenousReserve values offered to update_reserve_state
    FloorChoices,      \* BackingFloorBips values offered to set_risk_params
    TimeSteps,         \* block time advances (ms)
    MaxTime            \* bound on block time (ms)

BipsDenominator == 10000

ASSUME MintAuthority \in Actors
ASSUME /\ VAIConfig.debtCeiling > 0
       /\ VAIConfig.epochMintLimit \in 1..VAIConfig.debtCeiling
       /\ VAIConfig.mintEpochSeconds > 0
ASSUME /\ TreasuryConfig.maxReleaseBips \in 1..BipsDenominator
       /\ TreasuryConfig.releaseEpochSeconds > 0
ASSUME FeeRouterConfig.msrbBips + FeeRouterConfig.colBips
         + FeeRouterConfig.opsBips = BipsDenominator
ASSUME InitBackingFloor > 0

VARIABLES
    now,            \* the block timestamp (ms)
    vaiState,       \* [debt, epochStart, epochMinted]  (storage.VAIState)
    reserve,        \* ReserveState.ExogenousReserve
    backingFloor,   \* RiskConfig.BackingFloorBips
    treasuryState,  \* [locked, live, released, last]   (storage.TreasuryState)
    feeState,       \* [msrb, col, ops]                 (storage.FeeRouterState)
    exactShares     \* history: the MSRB and COL shares of all routed fees,
                    \* computed exactly as the spec writes them

tokenVars == <<now, vaiState, reserve, backingFloor, treasuryState, feeState,
               exactShares>>
vars == <<ammVars, tokenVars, keysOK>>

\* The store keys whose row a step changes.
TokenChangedKeys ==
    AmmChangedKeys
    \cup SingletonChanged(VAIStateKey, vaiState, vaiState')
    \cup SingletonChanged(ReserveStateKey, reserve, reserve')
    \cup SingletonChanged(RiskConfigKey, backingFloor, backingFloor')
    \cup SingletonChanged(TreasuryStateKey, treasuryState, treasuryState')
    \cup SingletonChanged(FeeRouterStateKey, feeState, feeState')

\* The backing check of mint_vai, in big integers.
Backed(res, debt, floor) == res * BipsDenominator >= debt * floor

\* mint_vai's epoch bookkeeping: an epoch starts at the first mint and is
\* replaced by a new one at the first mint at or after its end.
AdvanceEpoch(s, t) ==
    LET s1 == IF s.epochStart = 0 THEN [s EXCEPT !.epochStart = t] ELSE s
    IN  IF t >= s1.epochStart + VAIConfig.mintEpochSeconds * 1000
        THEN [s1 EXCEPT !.epochStart = t, !.epochMinted = 0]
        ELSE s1

\* route_fees' split: the two bips products are unchecked uint64 products,
\* ops takes the remainder.
FeeShare(bips, amount) == ((bips * amount) % Word) \div BipsDenominator
\* A faulty variant that gives ops its configured share instead of the
\* remainder.
FeeSplitOpsByBips(amount) ==
    [msrb |-> FeeShare(FeeRouterConfig.msrbBips, amount),
     col  |-> FeeShare(FeeRouterConfig.colBips, amount),
     ops  |-> FeeShare(FeeRouterConfig.opsBips, amount)]

FeeSplit(amount) ==
    LET msrb == FeeShare(FeeRouterConfig.msrbBips, amount)
        col  == FeeShare(FeeRouterConfig.colBips, amount)
    IN  [msrb |-> msrb, col |-> col, ops |-> (amount - msrb - col) % Word]

\* A faulty variant of the debt-ceiling check that tests the epoch's
\* minted amount instead of the total debt.
CeilingCheckEpoch(s, amount) == s.epochMinted + amount <= VAIConfig.debtCeiling

\* mint_vai: nextDebt <= DebtCeiling.
CeilingCheck(s, amount) == s.debt + amount <= VAIConfig.debtCeiling

\* A faulty variant of burn_vai that never writes the VAIState back.
BurnDebtNotSaved(s, amount) == s

\* burn_vai: TotalDebt -= Amount, then PutVAIState.
BurnDebt(s, amount) == [s EXCEPT !.debt = @ - amount]

\* A faulty variant of validateRiskConfig that accepts any floor.
ValidRiskConfigAny(floor) == TRUE

\* validateRiskConfig, for the one field an action reads: the floor is
\* non-zero (the LTV and haircut bounds concern fields nothing reads).
ValidRiskConfig(floor) == floor # 0

\* A faulty variant of the treasury write that forgets
\* stateVal.Locked -= t.Amount.
ReleaseTrancheKeepLocked(st, amount, t) ==
    [st EXCEPT !.live = @ + amount, !.released = @ + amount, !.last = t]

\* The TreasuryState release_col_tranche writes back.
ReleaseTranche(st, amount, t) ==
    [st EXCEPT !.locked = @ - amount, !.live = @ + amount,
               !.released = @ + amount, !.last = t]

\* release_col_tranche's cap, an unchecked uint64 product.
MaxRelease(locked) ==
    ((locked * TreasuryConfig.maxReleaseBips) % Word) \div BipsDenominator

TokenInit ==
    /\ AmmInit
    /\ now = 1
    /\ vaiState = [debt |-> 0, epochStart |-> 0, epochMinted |-> 0]
    /\ reserve = InitReserve
    /\ backingFloor = InitBackingFloor
    /\ treasuryState = [locked |-> InitTreasury.locked, live |-> InitTreasury.live,
                        released |-> 0, last |-> 0]
    /\ feeState = [msrb |-> 0, col |-> 0, ops |-> 0]
    /\ exactShares = [msrb |-> 0, col |-> 0]

\* A later block.
Tick(d) ==
    /\ now + d <= MaxTime
    /\ now' = now + d
    /\ UNCHANGED <<ammVars, vaiState, reserve, backingFloor, treasuryState,
                   feeState, exactShares>>

\* mint_vai: authority only; epoch rollover, epoch limit, debt ceiling and
\* backing floor checked against the debt after the mint; VAI credited.
MintVAI(actor, to, amount) ==
    LET st   == AdvanceEpoch(vaiState, now)
        next == vaiState.debt + amount
    IN  /\ amount # 0
        /\ actor = MintAuthority
        /\ AddFits(st.epochMinted, amount)
        /\ st.epochMinted + amount <= VAIConfig.epochMintLimit
        /\ AddFits(vaiState.debt, amount)
        /\ CeilingCheck(st, amount)
        /\ next > 0 => Backed(reserve, next, backingFloor)
        /\ CanAddAsset(assetBalance, AssetVAI, to, amount)
        /\ assetBalance' = [assetBalance EXCEPT ![AssetVAI][to] = @ + amount]
        /\ vaiState' = [st EXCEPT !.epochMinted = @ + amount, !.debt = next]
        /\ UNCHANGED <<pool, lpBalance, halted, now, reserve, backingFloor,
                       treasuryState, feeState, exactShares>>

\* burn_vai: any holder; VAI debited, then Amount <= TotalDebt checked.
BurnVAI(actor, amount) ==
    /\ amount # 0
    /\ CanSubAsset(AssetVAI, actor, amount)
    /\ amount <= vaiState.debt
    /\ assetBalance' = [assetBalance EXCEPT ![AssetVAI][actor] = @ - amount]
    /\ vaiState' = BurnDebt(vaiState, amount)
    /\ UNCHANGED <<pool, lpBalance, halted, now, reserve, backingFloor,
                   treasuryState, feeState, exactShares>>

\* update_reserve_state: governance replaces the reserve; nothing checks
\* the outstanding debt against it.
UpdateReserveState(actor, r) ==
    /\ actor = Governance
    /\ reserve' = r
    /\ UNCHANGED <<ammVars, now, vaiState, backingFloor, treasuryState,
                   feeState, exactShares>>

\* set_risk_params: governance replaces the risk config (validated).
SetRiskParams(actor, floor) ==
    /\ actor = Governance
    /\ ValidRiskConfig(floor)
    /\ backingFloor' = floor
    /\ UNCHANGED <<ammVars, now, vaiState, reserve, treasuryState,
                   feeState, exactShares>>

\* release_col_tranche: governance moves Amount from locked to live, at
\* most once per release epoch and at most the cap.
ReleaseCOLTranche(actor, amount) ==
    LET st == treasuryState
    IN  /\ amount # 0
        /\ actor = Governance
        /\ st.last > 0 => now >= st.last + TreasuryConfig.releaseEpochSeconds * 1000
        /\ amount <= st.locked
        /\ MaxRelease(st.locked) # 0 /\ amount <= MaxRelease(st.locked)
        /\ AddFits(st.live, amount) /\ AddFits(st.released, amount)
        /\ treasuryState' = ReleaseTranche(st, amount, now)
        /\ UNCHANGED <<ammVars, now, vaiState, reserve, backingFloor,
                       feeState, exactShares>>

\* route_fees: any sender; native VEIL debited and split into the three
\* budgets.
RouteFees(actor, amount) ==
    LET sp == FeeSplit(amount)
    IN  /\ amount # 0
        /\ CanSubAsset(AssetVEIL, actor, amount)
        /\ AddFits(feeState.msrb, sp.msrb) /\ AddFits(feeState.col, sp.col)
        /\ AddFits(feeState.ops, sp.ops)
        /\ assetBalance' = [assetBalance EXCEPT ![AssetVEIL][actor] = @ - amount]
        /\ feeState' = [msrb |-> feeState.msrb + sp.msrb,
                        col |-> feeState.col + sp.col,
                        ops |-> feeState.ops + sp.ops]
        /\ exactShares' =
              [msrb |-> exactShares.msrb
                          + (FeeRouterConfig.msrbBips * amount) \div BipsDenominator,
               col  |-> exactShares.col
                          + (FeeRouterConfig.colBips * amount) \div BipsDenominator]
        /\ UNCHANGED <<pool, lpBalance, halted, now, vaiState, reserve,
                       backingFloor, treasuryState>>

-----------------------------------------------------------------------------
(* The StateKeys of the tokenomics actions.                                *)

\* A faulty variant of the StateKeys below that declares the signer's VAI
\* row instead of the recipient's.
MintVAIKeysOfSigner(actor, to) ==
    StateKeys(<<<<VAIConfigKey, Read>>, <<VAIStateKey, Read \cup Write>>,
                <<RiskConfigKey, Read>>, <<ReserveStateKey, Read>>,
                <<VAIBalanceKey(actor), Read \cup Write>>>>)

MintVAIKeys(actor, to) ==
    StateKeys(<<<<VAIConfigKey, Read>>, <<VAIStateKey, Read \cup Write>>,
                <<RiskConfigKey, Read>>, <<ReserveStateKey, Read>>,
                <<VAIBalanceKey(to), Read \cup Write>>>>)

BurnVAIKeys(actor) ==
    StateKeys(<<<<VAIBalanceKey(actor), Read \cup Write>>, <<VAIStateKey, Read \cup Write>>>>)

UpdateReserveStateKeys ==
    StateKeys(<<<<TreasuryConfigKey, Read>>, <<ReserveStateKey, Read \cup Write>>>>)

SetRiskParamsKeys ==
    StateKeys(<<<<TreasuryConfigKey, Read>>, <<RiskConfigKey, Read \cup Write>>>>)

ReleaseCOLTrancheKeys ==
    StateKeys(<<<<TreasuryConfigKey, Read>>, <<TreasuryStateKey, Read \cup Write>>>>)

RouteFeesKeys(actor) ==
    StateKeys(<<<<BalanceKey(actor), Read \cup Write>>, <<FeeRouterConfigKey, Read>>,
                <<FeeRouterStateKey, Read \cup Write>>>>)

\* The transaction's step stays within the keys it declared writable.
TokenDeclared(keys) ==
    keysOK' = (keysOK /\ TokenChangedKeys \subseteq Writable(keys))

TokenNext ==
    \/ AmmNext /\ UNCHANGED tokenVars
    \/ /\ ~halted
       /\ \/ \E d \in TimeSteps : Tick(d) /\ UNCHANGED keysOK
          \/ \E a, to \in Actors, x \in Amounts :
                MintVAI(a, to, x) /\ TokenDeclared(MintVAIKeys(a, to))
          \/ \E a \in Actors, x \in Amounts :
                \/ BurnVAI(a, x) /\ TokenDeclared(BurnVAIKeys(a))
                \/ ReleaseCOLTranche(a, x) /\ TokenDeclared(ReleaseCOLTrancheKeys)
                \/ RouteFees(a, x) /\ TokenDeclared(RouteFeesKeys(a))
          \/ \E a \in Actors, r \in ReserveChoices :
                UpdateReserveState(a, r) /\ TokenDeclared(UpdateReserveStateKeys)
          \/ \E a \in Actors, f \in FloorChoices :
                SetRiskParams(a, f) /\ TokenDeclared(SetRiskParamsKeys)

TokenSpec == TokenInit /\ [][TokenNext]_vars

-----------------------------------------------------------------------------
(* The Reserve RPC view (vm/server.go), read from the current state.      *)

\* A faulty variant that needs the ratio to exceed the floor.
ReserveViewStrict ==
    IF vaiState.debt = 0 THEN [ratio |-> 0, meetsFloor |-> TRUE]
    ELSE LET q == (reserve * BipsDenominator) \div vaiState.debt
             ratio == IF q <= MaxWord THEN q ELSE MaxWord
         IN  [ratio |-> ratio, meetsFloor |-> ratio > backingFloor]

\* JSONRPCServer.Reserve: the backing ratio in bips, a big-integer
\* quotient capped at the largest word, and whether it meets the floor;
\* with no debt the ratio is 0 and the floor is met.
ReserveView ==
    IF vaiState.debt = 0 THEN [ratio |-> 0, meetsFloor |-> TRUE]
    ELSE LET q == (reserve * BipsDenominator) \div vaiState.debt
             ratio == IF q <= MaxWord THEN q ELSE MaxWord
         IN  [ratio |-> ratio, meetsFloor |-> ratio >= backingFloor]

-----------------------------------------------------------------------------
TokenTypeOK ==
    /\ AmmTypeOK
    /\ now \in 1..MaxTime
    /\ vaiState \in [debt : 0..MaxWord, epochStart : 0..MaxTime,
                     epochMinted : 0..MaxWord]
    /\ backingFloor \in Nat \ {0}
    /\ treasuryState \in [locked : 0..MaxWord, live : 0..MaxWord,
                          released : 0..MaxWord, last : 0..MaxTime]
    /\ feeState \in [msrb : 0..MaxWord, col : 0..MaxWord, ops : 0..MaxWord]

\* Outstanding VAI equals the recorded debt: the VAI in accounts plus the
\* VAI held by AMM pools is exactly TotalDebt, however VAI was moved
\* through swaps and liquidity between mint and burn.  The debt-ceiling
\* and backing checks of mint_vai bound the supply only if this holds.
VaiSupplyMatchesDebt ==
    SumFunction(assetBalance[AssetVAI])
      + SumFunction([pr \in Pairs |-> Reserve(pr, AssetVAI)]) = vaiState.debt

\* The total debt never exceeds the ceiling (spec: total_debt <=
\* debt_ceiling), across epochs, burns and re-mints.
DebtWithinCeiling == vaiState.debt <= VAIConfig.debtCeiling

\* Native VEIL is conserved: accounts, pool reserves and the three fee
\* budgets together hold the genesis supply; route_fees gives the
\* rounding remainder to ops so no dust is lost.
NativeSupplyConserved ==
    SumFunction(assetBalance[AssetVEIL])
      + SumFunction([pr \in Pairs |-> Reserve(pr, AssetVEIL)])
      + feeState.msrb + feeState.col + feeState.ops
      = SumFunction(InitBalance[AssetVEIL])

\* The treasury only moves COL from locked to live: locked + released is
\* the genesis locked amount and live grows by exactly what was released.
TreasuryBalanced ==
    /\ treasuryState.locked + treasuryState.released = InitTreasury.locked
    /\ treasuryState.live = InitTreasury.live + treasuryState.released

\* Whenever debt is outstanding the exogenous reserve backs it at the
\* current floor (spec, invariants: reserve * 10000 >= total_debt *
\* backing_floor_bips whenever total_debt > 0).
ReserveBacked ==
    vaiState.debt > 0 => Backed(reserve, vaiState.debt, backingFloor)

\* The RPC Reserve view reports meets_floor exactly when mint_vai's backing
\* check holds for the outstanding debt: the rounded-down, capped ratio of
\* the handler and the cross-multiplication of the action never disagree,
\* including after update_reserve_state or set_risk_params move the
\* reserve or the floor under existing debt.
ReserveViewAgreesWithMint ==
    ReserveView.meetsFloor = (vaiState.debt > 0 => Backed(reserve, vaiState.debt, backingFloor))

\* The MSRB and COL budgets hold exactly the shares bips * amount / 10000
\* of every routed fee (spec, route_fees).
FeeSharesExact ==
    feeState.msrb = exactShares.msrb /\ feeState.col = exactShares.col
=============================================================================
