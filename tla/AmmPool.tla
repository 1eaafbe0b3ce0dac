------------------------------- MODULE AmmPool -------------------------------
(***************************************************************************)
(* The constant-product AMM of veilvm and the native transfer:            *)
(* create_pool, add_liquidity, remove_liquidity, swap_exact_in and        *)
(* transfer (src/actions/*.go) over the Pool rows, the LP balance rows    *)
(* and the two asset balances (VEIL: Balance, VAI: VAIBalance).           *)
(*                                                                         *)
(* Each action is one atomic step; every error return, including each     *)
(* checked-arithmetic error of smath and mulDiv, is a conjunct of its     *)
(* guard.  Amounts are words of WordBits bits (AmmMath).  intSqrt can     *)
(* panic; a panic inside Execute aborts block execution on every node,    *)
(* which the model records as halted: nothing runs afterwards.            *)
(***************************************************************************)
EXTENDS AmmMath, FiniteSets, Functions, StorageKeys

CONSTANTS
    Actors,        \* transaction signers
    Governance,    \* TreasuryConfig.Governance, set at genesis and never changed
    AssetIds,      \* asset ids (uint8) offered as inputs, supported or not
    Amounts,       \* amounts (uint64) offered as inputs
    Minimums,      \* slippage minimums offered (MinLP, MinAmount*, MinAmountOut)
    FeeChoices,    \* FeeBips values offered to create_pool
    InitBalance,   \* genesis balances: [SupportedAssets -> [Actors -> words]]
    NoValue        \* an absent row

\* AssetVEIL, AssetVAI, MinPoolFeeBips, MaxPoolFeeBips (amm_common.go)
AssetVEIL == 0
AssetVAI == 1
SupportedAssets == {AssetVEIL, AssetVAI}
MinPoolFeeBips == 1
MaxPoolFeeBips == 1000

ASSUME Governance \in Actors
ASSUME InitBalance \in [SupportedAssets -> [Actors -> 0..MaxWord]]

\* A pool is keyed by its sorted asset pair (storage.PoolKey).
Pairs == {<<a0, a1>> \in SupportedAssets \X SupportedAssets : a0 < a1}

VARIABLES
    pool,          \* pool[pr]: NoValue or [fee, r0, r1, lp] (storage.Pool)
    assetBalance,  \* assetBalance[s][a]: Balance (VEIL) or VAIBalance (VAI)
    lpBalance,     \* lpBalance[pr][a]: LPBalance row (a missing row reads 0)
    halted,        \* a panic inside Execute stopped block execution
    keysOK         \* history: every step so far wrote only keys its
                   \* transaction declared writable in StateKeys

ammVars == <<pool, assetBalance, lpBalance, halted>>

\* The store keys whose row a step changes: VEIL is the Balance row, VAI
\* the VAIBalance row.
AmmChangedKeys ==
    RowsChanged(BalanceKey, assetBalance[AssetVEIL], assetBalance'[AssetVEIL])
    \cup RowsChanged(VAIBalanceKey, assetBalance[AssetVAI], assetBalance'[AssetVAI])
    \cup RowsChanged(LAMBDA pr : PoolKey(pr[1], pr[2]), pool, pool')
    \cup UNION {RowsChanged(LAMBDA a : LPBalanceKey(pr[1], pr[2], a),
                            lpBalance[pr], lpBalance'[pr]) : pr \in Pairs}

\* validateAssetPair
ValidAssetPair(a0, a1) ==
    a0 \in SupportedAssets /\ a1 \in SupportedAssets /\ a0 # a1

\* A faulty variant of mapPairAmounts that ignores the caller's order.
PoolOrderAsGiven(a0, a1, x0, x1) == <<x0, x1>>

\* mapPairAmounts and mapPoolAmountsToPair: the pool stores the smaller
\* asset id as Asset0, so amounts given in the other order are swapped.
PoolOrder(a0, a1, x0, x1) == IF a0 < a1 THEN <<x0, x1>> ELSE <<x1, x0>>

\* subAssetBalance: SubBalance / SubVAIBalance fail on a missing row (a
\* zero balance is removed) or an insufficient balance.
CanSubAsset(s, a, x) == x # 0 /\ x <= assetBalance[s][a]
\* addAssetBalance: AddBalance / AddVAIBalance fail on overflow.
CanAddAsset(bal, s, a, x) == AddFits(bal[s][a], x)

\* The LP minted by add_liquidity: intSqrt of the product for the first
\* deposit, else the smaller of the two proportional shares.
FirstDeposit(p) == p.lp = 0
\* A faulty variant that mints the larger of the two shares.
MintedLPLarger(p, in0, in1) ==
    IF FirstDeposit(p) THEN IntSqrt(in0 * in1).root
    ELSE LET lp0 == MulDiv(in0, p.lp, p.r0)
             lp1 == MulDiv(in1, p.lp, p.r1)
         IN  IF lp0 < lp1 THEN lp1 ELSE lp0
MintedLP(p, in0, in1) ==
    IF FirstDeposit(p) THEN IntSqrt(in0 * in1).root
    ELSE MinU64(MulDiv(in0, p.lp, p.r0), MulDiv(in1, p.lp, p.r1))
MintFits(p, in0, in1) ==
    IF FirstDeposit(p)
    THEN MulFits(in0, in1) /\ ~IntSqrt(in0 * in1).panic
    ELSE /\ p.r0 # 0 /\ p.r1 # 0
         /\ MulDivFits(in0, p.lp, p.r0) /\ MulDivFits(in1, p.lp, p.r1)

\* A faulty variant of the pool write of add_liquidity that drops the
\* assignment pool.TotalLP = nextTotalLP.
PutPoolAfterAddNoLP(p, in0, in1, minted) ==
    [p EXCEPT !.r0 = @ + in0, !.r1 = @ + in1]

\* The pool row add_liquidity writes back.
PutPoolAfterAdd(p, in0, in1, minted) ==
    [p EXCEPT !.r0 = @ + in0, !.r1 = @ + in1, !.lp = @ + minted]

\* A faulty variant of swap_exact_in's quote that divides by the input
\* reserve alone.
SwapAmountOutNoInput(rin, rout, w) == MulDiv(rout, w, rin)

\* swap_exact_in: amountOut = reserveOut * w / (reserveIn + w).
SwapAmountOut(rin, rout, w) == MulDiv(rout, w, rin + w)

\* storage.AddLPBalance: a checked add onto the row (absent reads as 0).
CanAddLPBalance(bal, x) == AddFits(bal, x)

\* storage.SubLPBalance: an absent row (balance 0, since a row that
\* reaches 0 is removed) fails whatever the amount, so does a short one.
CanSubLPBalance(bal, x) == bal # 0 /\ x <= bal

AmmInit ==
    /\ pool = [pr \in Pairs |-> NoValue]
    /\ assetBalance = InitBalance
    /\ lpBalance = [pr \in Pairs |-> [a \in Actors |-> 0]]
    /\ halted = FALSE
    /\ keysOK = TRUE

\* A faulty variant of the fee check that forgets the lower bound.
ValidPoolFeeNoMin(fee) == fee <= MaxPoolFeeBips

ValidPoolFee(fee) == fee >= MinPoolFeeBips /\ fee <= MaxPoolFeeBips

\* create_pool: governance only, fee in range, no pool for the pair yet.
CreatePool(actor, a0, a1, fee) ==
    /\ ValidAssetPair(a0, a1)
    /\ ValidPoolFee(fee)
    /\ actor = Governance
    /\ pool[SortedPair(a0, a1)] = NoValue
    /\ pool' = [pool EXCEPT ![SortedPair(a0, a1)] =
                  [fee |-> fee, r0 |-> 0, r1 |-> 0, lp |-> 0]]
    /\ UNCHANGED <<assetBalance, lpBalance, halted>>

\* The guards add_liquidity evaluates before intSqrt / mulDiv.
AddLiquidityPrefix(actor, a0, a1, x0, x1) ==
    /\ ValidAssetPair(a0, a1)
    /\ x0 # 0 /\ x1 # 0
    /\ pool[SortedPair(a0, a1)] # NoValue
    /\ CanSubAsset(a0, actor, x0)
    /\ CanSubAsset(a1, actor, x1)

\* add_liquidity: debit both amounts, mint LP (with the slippage check),
\* grow the reserves and the LP supply, credit the actor's LP balance.
AddLiquidity(actor, a0, a1, x0, x1, minLP) ==
    LET pr     == SortedPair(a0, a1)
        p      == pool[pr]
        in     == PoolOrder(a0, a1, x0, x1)
        minted == MintedLP(p, in[1], in[2])
    IN  /\ AddLiquidityPrefix(actor, a0, a1, x0, x1)
        /\ MintFits(p, in[1], in[2])
        /\ minted # 0 /\ minted >= minLP
        /\ AddFits(p.r0, in[1]) /\ AddFits(p.r1, in[2]) /\ AddFits(p.lp, minted)
        /\ CanAddLPBalance(lpBalance[pr][actor], minted)
        /\ pool' = [pool EXCEPT ![pr] = PutPoolAfterAdd(p, in[1], in[2], minted)]
        /\ assetBalance' = [assetBalance EXCEPT ![a0][actor] = @ - x0,
                                                ![a1][actor] = @ - x1]
        /\ lpBalance' = [lpBalance EXCEPT ![pr][actor] = @ + minted]
        /\ UNCHANGED halted

\* add_liquidity on the first deposit of a pool whose product makes
\* intSqrt divide by zero: Execute panics.
AddLiquidityPanic(actor, a0, a1, x0, x1) ==
    LET p  == pool[SortedPair(a0, a1)]
        in == PoolOrder(a0, a1, x0, x1)
    IN  /\ AddLiquidityPrefix(actor, a0, a1, x0, x1)
        /\ FirstDeposit(p)
        /\ MulFits(in[1], in[2])
        /\ IntSqrt(in[1] * in[2]).panic
        /\ halted' = TRUE
        /\ UNCHANGED <<pool, assetBalance, lpBalance>>

\* remove_liquidity: burn l LP for the pro-rata share of both reserves,
\* rounded down, subject to the caller's minimums.
RemoveLiquidity(actor, a0, a1, l, min0, min1) ==
    LET pr   == SortedPair(a0, a1)
        p    == pool[pr]
        out0 == MulDiv(l, p.r0, p.lp)
        out1 == MulDiv(l, p.r1, p.lp)
        mins == PoolOrder(a0, a1, min0, min1)
        bal1 == [assetBalance EXCEPT ![pr[1]][actor] = @ + out0]
    IN  /\ ValidAssetPair(a0, a1)
        /\ l # 0
        /\ p # NoValue
        /\ p.lp # 0 /\ p.r0 # 0 /\ p.r1 # 0
        /\ CanSubLPBalance(lpBalance[pr][actor], l)
        /\ MulDivFits(l, p.r0, p.lp) /\ MulDivFits(l, p.r1, p.lp)
        /\ out0 # 0 /\ out1 # 0
        /\ out0 >= mins[1] /\ out1 >= mins[2]
        /\ CanAddAsset(assetBalance, pr[1], actor, out0)
        /\ CanAddAsset(bal1, pr[2], actor, out1)
        /\ pool' = [pool EXCEPT ![pr] = [p EXCEPT !.r0 = @ - out0,
                                           !.r1 = @ - out1, !.lp = @ - l]]
        /\ lpBalance' = [lpBalance EXCEPT ![pr][actor] = @ - l]
        /\ assetBalance' = [bal1 EXCEPT ![pr[2]][actor] = @ + out1]
        /\ UNCHANGED halted

\* swap_exact_in: the fee stays in the pool (the whole amount in is added
\* to the input reserve), the quote uses the amount net of the fee.
SwapExactIn(actor, ain, aout, x, minOut) ==
    LET pr   == SortedPair(ain, aout)
        p    == pool[pr]
        inIs0 == ain < aout
        rin  == IF inIs0 THEN p.r0 ELSE p.r1
        rout == IF inIs0 THEN p.r1 ELSE p.r0
        w    == MulDiv(x, 10000 - p.fee, 10000)
        out  == SwapAmountOut(rin, rout, w)
    IN  /\ ValidAssetPair(ain, aout)
        /\ x # 0
        /\ p # NoValue
        /\ rin # 0 /\ rout # 0
        /\ CanSubAsset(ain, actor, x)
        /\ w # 0
        /\ AddFits(rin, w)
        /\ out # 0 /\ out >= minOut
        /\ out <= rout
        /\ AddFits(rin, x)
        /\ CanAddAsset(assetBalance, aout, actor, out)
        /\ pool' = [pool EXCEPT ![pr] =
                      IF inIs0 THEN [p EXCEPT !.r0 = @ + x, !.r1 = @ - out]
                               ELSE [p EXCEPT !.r1 = @ + x, !.r0 = @ - out]]
        /\ assetBalance' = [assetBalance EXCEPT ![ain][actor] = @ - x,
                                                ![aout][actor] = @ + out]
        /\ UNCHANGED <<lpBalance, halted>>

\* transfer: native VEIL from the signer to any address (the signer too).
Transfer(actor, to, v) ==
    LET bal1 == [assetBalance EXCEPT ![AssetVEIL][actor] = @ - v]
    IN  /\ v # 0
        /\ CanSubAsset(AssetVEIL, actor, v)
        /\ CanAddAsset(bal1, AssetVEIL, to, v)
        /\ assetBalance' = [bal1 EXCEPT ![AssetVEIL][to] = @ + v]
        /\ UNCHANGED <<pool, lpBalance, halted>>

-----------------------------------------------------------------------------
(* The StateKeys of the AMM actions and of transfer.                      *)

CreatePoolKeys(a0, a1) ==
    StateKeys(<<<<TreasuryConfigKey, Read>>, <<PoolKey(a0, a1), All>>>>)

AddLiquidityKeys(actor, a0, a1) ==
    StateKeys(<<<<BalanceKey(actor), Read \cup Write>>, <<VAIBalanceKey(actor), Read \cup Write>>,
                <<PoolKey(a0, a1), Read \cup Write>>,
                <<LPBalanceKey(a0, a1, actor), Read \cup Write>>>>)

RemoveLiquidityKeys(actor, a0, a1) ==
    StateKeys(<<<<BalanceKey(actor), Read \cup Write>>, <<VAIBalanceKey(actor), Read \cup Write>>,
                <<PoolKey(a0, a1), Read \cup Write>>,
                <<LPBalanceKey(a0, a1, actor), Read \cup Write>>>>)

\* A faulty variant of the StateKeys below that leaves out the VAI row.
SwapExactInKeysNoVAI(actor, ain, aout) ==
    StateKeys(<<<<BalanceKey(actor), Read \cup Write>>,
                <<PoolKey(ain, aout), Read \cup Write>>>>)

SwapExactInKeys(actor, ain, aout) ==
    StateKeys(<<<<BalanceKey(actor), Read \cup Write>>, <<VAIBalanceKey(actor), Read \cup Write>>,
                <<PoolKey(ain, aout), Read \cup Write>>>>)

TransferKeys(actor, to) ==
    StateKeys(<<<<BalanceKey(actor), Read \cup Write>>, <<BalanceKey(to), All>>>>)

\* The transaction's step stays within the keys it declared writable.
AmmDeclared(keys) ==
    keysOK' = (keysOK /\ AmmChangedKeys \subseteq Writable(keys))

AmmNext ==
    /\ ~halted
    /\ \/ \E actor \in Actors, a0, a1 \in AssetIds :
          \/ \E fee \in FeeChoices :
                CreatePool(actor, a0, a1, fee) /\ AmmDeclared(CreatePoolKeys(a0, a1))
          \/ \E x0, x1 \in Amounts :
                /\ \/ \E m \in Minimums : AddLiquidity(actor, a0, a1, x0, x1, m)
                   \/ AddLiquidityPanic(actor, a0, a1, x0, x1)
                /\ AmmDeclared(AddLiquidityKeys(actor, a0, a1))
          \/ \E l \in Amounts, m0, m1 \in Minimums :
                /\ RemoveLiquidity(actor, a0, a1, l, m0, m1)
                /\ AmmDeclared(RemoveLiquidityKeys(actor, a0, a1))
          \/ \E x \in Amounts, m \in Minimums :
                /\ SwapExactIn(actor, a0, a1, x, m)
                /\ AmmDeclared(SwapExactInKeys(actor, a0, a1))
       \/ \E actor, to \in Actors, v \in Amounts :
             Transfer(actor, to, v) /\ AmmDeclared(TransferKeys(actor, to))

AmmSpec == AmmInit /\ [][AmmNext]_<<ammVars, keysOK>>

-----------------------------------------------------------------------------
PoolRows == [fee : MinPoolFeeBips..MaxPoolFeeBips,
             r0 : 0..MaxWord, r1 : 0..MaxWord, lp : 0..MaxWord]

AmmTypeOK ==
    /\ DOMAIN pool = Pairs
    /\ \A pr \in Pairs : pool[pr] = NoValue \/ pool[pr] \in PoolRows
    /\ assetBalance \in [SupportedAssets -> [Actors -> 0..MaxWord]]
    /\ lpBalance \in [Pairs -> [Actors -> 0..MaxWord]]
    /\ halted \in BOOLEAN

\* The reserve of asset s held by the pool of pair pr.
Reserve(pr, s) ==
    IF pool[pr] = NoValue THEN 0
    ELSE IF pr[1] = s THEN pool[pr].r0
    ELSE IF pr[2] = s THEN pool[pr].r1 ELSE 0

\* No AMM action or transfer creates or destroys an asset: for each asset
\* the balances plus the pools' reserves equal the genesis supply.  This
\* relies on every handler mapping the caller's asset order onto the
\* pool's sorted order the same way for debits, reserves and credits.
AssetConserved ==
    \A s \in SupportedAssets :
        SumFunction(assetBalance[s]) + SumFunction([pr \in Pairs |-> Reserve(pr, s)])
            = SumFunction(InitBalance[s])

\* The LP balances of a pool add up to its TotalLP, and there are none
\* before the pool exists: add_liquidity and remove_liquidity move the
\* pool row and the caller's LP row by the same amount.
LPSupplyConsistent ==
    \A pr \in Pairs :
        SumFunction(lpBalance[pr]) =
            IF pool[pr] = NoValue THEN 0 ELSE pool[pr].lp

\* A pool has LP outstanding exactly when both reserves are non-zero: no
\* sequence of swaps and withdrawals drains a reserve while LP tokens
\* still claim it, which would leave the pool unusable (add_liquidity and
\* remove_liquidity both refuse a pool with an empty reserve).
PoolEmptyIffNoLP ==
    \A pr \in Pairs :
        pool[pr] # NoValue =>
            ((pool[pr].lp = 0) <=> (pool[pr].r0 = 0 /\ pool[pr].r1 = 0)) /\
            ((pool[pr].r0 = 0) <=> (pool[pr].r1 = 0))

\* No step dilutes liquidity providers: while LP is outstanding, the
\* invariant sqrt(r0 * r1) / TotalLP never decreases.  Deposits mint the
\* smaller proportional share, withdrawals round down, and swaps keep the
\* fee in the pool and round the output down.
LPShareNeverDiluted ==
    [][\A pr \in Pairs :
         (pool[pr] # NoValue /\ pool'[pr] # NoValue /\
          pool[pr].lp > 0 /\ pool'[pr].lp > 0) =>
            pool'[pr].r0 * pool'[pr].r1 * pool[pr].lp * pool[pr].lp >=
                pool[pr].r0 * pool[pr].r1 * pool'[pr].lp * pool'[pr].lp
      ]_ammVars

\* LP tokens never claim more than the pool holds: TotalLP^2 <= r0 * r1.
\* The first deposit mints intSqrt(r0 * r1), which must not round up;
\* later deposits mint the smaller proportional share, withdrawals pay
\* out rounded down and swaps only grow r0 * r1, so the bound is kept
\* only if intSqrt returns the floor of the square root.
LPWithinGeometricMean ==
    \A pr \in Pairs :
        pool[pr] # NoValue => pool[pr].lp * pool[pr].lp <= pool[pr].r0 * pool[pr].r1

\* Block execution never panics: every handler returns an error instead.
NoExecutionPanic == ~halted

\* Every transaction of the AMM, transfer and tokenomics actions changes
\* only rows its StateKeys declares writable: swaps and liquidity calls in
\* either pair orientation (the pool and LP keys sort the pair, the model
\* orders amounts separately), a transfer to oneself, a mint to another
\* address.  hypersdk plans conflicts and parallel execution from these
\* declarations.
WritesDeclared == keysOK
=============================================================================
