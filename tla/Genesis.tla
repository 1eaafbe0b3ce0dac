------------------------------- MODULE Genesis -------------------------------
(***************************************************************************)
(* Chain genesis (src/genesis/genesis.go): Factory.Load fills in the      *)
(* defaults of the tokenomics block, then Genesis.InitializeState          *)
(* validates it and writes the nine singleton rows one Put after another  *)
(* (src/storage/storage.go).  The readers of those rows (the Get*         *)
(* functions every action and RPC handler calls) re-validate what they   *)
(* read.                                                                   *)
(*                                                                         *)
(* A genesis file is a record of the fields the code reads; a field the   *)
(* JSON leaves out is 0 (ZeroAddress for an address), which is what        *)
(* json.Unmarshal leaves in a Go struct.  The allocations are a sequence  *)
(* of [address, balance]; hypersdk's DefaultGenesis writes them before     *)
(* the tokenomics block is looked at, and they enter the model only       *)
(* through the supply check.  A row is stored as the bytes its Put*      *)
(* encodes and read back through its Get* (module StorageCodec).          *)
(***************************************************************************)
EXTENDS AmmMath, StorageCodec, Integers, SequencesExt

CONSTANTS
    AllocChoices,    \* candidate CustomAllocation lists
    FieldChoices,    \* FieldChoices.f: the candidate values of tokenomics field f
    NoValue          \* an omitted tokenomics block

\* The tokenomics blocks a genesis file can hold, over the candidate values.
TokenomicsBlocks ==
    [totalSupply : FieldChoices.totalSupply, governance : FieldChoices.governance,
     operations : FieldChoices.operations, mintAuthority : FieldChoices.mintAuthority,
     colVaultLocked : FieldChoices.colVaultLocked, colVaultLive : FieldChoices.colVaultLive,
     maxReleaseBips : FieldChoices.maxReleaseBips,
     releaseEpochSeconds : FieldChoices.releaseEpochSeconds,
     feeRouterMsrbBips : FieldChoices.feeRouterMsrbBips,
     feeRouterColBips : FieldChoices.feeRouterColBips,
     feeRouterOpsBips : FieldChoices.feeRouterOpsBips,
     vaiDebtCeiling : FieldChoices.vaiDebtCeiling,
     vaiEpochMintLimit : FieldChoices.vaiEpochMintLimit,
     vaiMintEpochSeconds : FieldChoices.vaiMintEpochSeconds,
     backingFloorBips : FieldChoices.backingFloorBips,
     veilLtvBips : FieldChoices.ltvBips, wVeilLtvBips : FieldChoices.ltvBips,
     wsVeilLtvBips : FieldChoices.wsVeilLtvBips,
     veilHaircutBips : FieldChoices.haircutBips, wVeilHaircutBips : FieldChoices.haircutBips,
     wsVeilHaircutBips : FieldChoices.haircutBips,
     exogenousReserveInit : FieldChoices.exogenousReserveInit,
     vaiBufferInit : FieldChoices.vaiBufferInit,
     requireBatchProof : BOOLEAN,
     requiredProofType : FieldChoices.requiredProofType,
     batchWindowMs : FieldChoices.windowMs, proofDeadlineMs : FieldChoices.windowMs,
     proverAuthority : FieldChoices.proverAuthority]

VARIABLES
    phase,      \* "unmarshalled", "loaded", "initialized" or "failed"
    genesis,    \* [allocs, tokenomics]: the Genesis struct
    rows        \* the singleton rows InitializeState has written, by key

vars == <<phase, genesis, rows>>

GenesisInit ==
    /\ phase = "unmarshalled"
    /\ genesis \in [allocs : AllocChoices, tokenomics : TokenomicsBlocks \cup {NoValue}]
    /\ rows = <<>>

-----------------------------------------------------------------------------
(* Factory.Load                                                            *)

\* applyTokenomicsDefaults: the first allocation's address stands in for
\* unset governance, operations and mint authority; every other field left
\* at 0 takes its default, and wsVeilLtvBips is forced to 0.
ApplyTokenomicsDefaults(t, allocs) ==
    LET dflt(v, d) == IF v = 0 THEN d ELSE v
        addr(v) == IF v = ZeroAddress /\ allocs # <<>> THEN allocs[1].address ELSE v
        fees0 == t.feeRouterMsrbBips = 0 /\ t.feeRouterColBips = 0 /\ t.feeRouterOpsBips = 0
        gov == addr(t.governance)
        proofUnset == t.requiredProofType = 0
    IN [t EXCEPT
          !.governance = gov,
          !.operations = addr(t.operations),
          !.mintAuthority = addr(t.mintAuthority),
          !.maxReleaseBips = dflt(@, 15),
          !.releaseEpochSeconds = dflt(@, 86400),
          !.feeRouterMsrbBips = IF fees0 THEN 7000 ELSE @,
          !.feeRouterColBips = IF fees0 THEN 2000 ELSE @,
          !.feeRouterOpsBips = IF fees0 THEN 1000 ELSE @,
          !.vaiMintEpochSeconds = dflt(@, 3600),
          !.vaiEpochMintLimit = dflt(@, t.vaiDebtCeiling),
          !.backingFloorBips = dflt(@, 10000),
          !.veilLtvBips = dflt(@, 3000),
          !.wVeilLtvBips = dflt(@, 3500),
          !.wsVeilLtvBips = 0,
          !.veilHaircutBips = dflt(@, 6000),
          !.wVeilHaircutBips = dflt(@, 5500),
          !.wsVeilHaircutBips = dflt(@, 10000),
          !.exogenousReserveInit = dflt(@, t.vaiDebtCeiling),
          !.requireBatchProof = IF proofUnset THEN TRUE ELSE @,
          !.requiredProofType = IF proofUnset THEN ProofTypeGroth16 ELSE @,
          !.batchWindowMs = dflt(@, 5000),
          !.proofDeadlineMs = dflt(@, 10000),
          !.proverAuthority = IF @ = ZeroAddress THEN gov ELSE @]

\* Factory.Load: unmarshal (the Init), then the defaults when the file has
\* a tokenomics block.  StateBranchFactor and Rules are hypersdk's.
Load ==
    /\ phase = "unmarshalled"
    /\ phase' = "loaded"
    /\ genesis' = IF genesis.tokenomics = NoValue THEN genesis
                  ELSE [genesis EXCEPT !.tokenomics =
                            ApplyTokenomicsDefaults(@, genesis.allocs)]
    /\ UNCHANGED rows

-----------------------------------------------------------------------------
(* Genesis.InitializeState                                                 *)

\* The sum of the allocations, then of COL locked and live, each with
\* smath.Add; -1 stands for the overflow error.
CheckedAdd(acc, x) == IF acc < 0 \/ ~AddFits(acc, x) THEN -1 ELSE acc + x
ComputedSupply(allocs, t) ==
    LET allocSum == FoldLeft(LAMBDA acc, a : CheckedAdd(acc, a.balance), 0, allocs)
    IN  CheckedAdd(CheckedAdd(allocSum, t.colVaultLocked), t.colVaultLive)

\* The treasury checks of validateTokenomics, and a faulty variant that
\* forgets the upper bound of maxReleaseBips.
TokenomicsTreasuryChecksNoMax(t) ==
    /\ t.releaseEpochSeconds > 0
    /\ t.maxReleaseBips # 0
TokenomicsTreasuryChecks(t) ==
    /\ t.releaseEpochSeconds > 0
    /\ t.maxReleaseBips # 0 /\ t.maxReleaseBips <= BipsDenominator

\* The proof-config checks of validateTokenomics, and a faulty variant
\* that forgets the prover authority.
TokenomicsProofChecksNoProver(t) ==
    /\ t.requiredProofType \in {ProofTypeGroth16, ProofTypePlonk}
    /\ t.batchWindowMs > 0 /\ t.proofDeadlineMs > 0
TokenomicsProofChecks(t) ==
    /\ t.requiredProofType \in {ProofTypeGroth16, ProofTypePlonk}
    /\ t.batchWindowMs > 0 /\ t.proofDeadlineMs > 0
    /\ t.proverAuthority # ZeroAddress

\* The fee-router check of validateTokenomics, and a faulty variant that
\* only bounds the sum.
TokenomicsFeeCheckBounded(t) ==
    t.feeRouterMsrbBips + t.feeRouterColBips + t.feeRouterOpsBips <= BipsDenominator
TokenomicsFeeCheck(t) ==
    t.feeRouterMsrbBips + t.feeRouterColBips + t.feeRouterOpsBips = BipsDenominator

\* validateTokenomics, in the code's order; which check fails only changes
\* the error's wording.  It repeats the checks of validateRiskConfig and
\* validateProofConfig on the block's fields rather than calling them.
ValidateTokenomics(allocs, t) ==
    /\ TokenomicsTreasuryChecks(t)
    /\ t.vaiMintEpochSeconds > 0
    /\ t.vaiDebtCeiling # 0
    /\ t.vaiEpochMintLimit # 0 /\ t.vaiEpochMintLimit <= t.vaiDebtCeiling
    /\ t.backingFloorBips # 0
    /\ t.wsVeilLtvBips = 0
    /\ \A f \in {"veilLtvBips", "wVeilLtvBips", "wsVeilLtvBips",
                  "veilHaircutBips", "wVeilHaircutBips", "wsVeilHaircutBips"} :
           t[f] <= BipsDenominator
    /\ TokenomicsProofChecks(t)
    /\ TokenomicsFeeCheck(t)
    /\ ComputedSupply(allocs, t) >= 0
    /\ t.totalSupply # 0 => ComputedSupply(allocs, t) = t.totalSupply

\* The structs InitializeState puts, in its order, as <<key, struct>>.
GenesisPuts(t) ==
    LET risk == [f \in {"backingFloorBips", "veilLtvBips", "wVeilLtvBips", "wsVeilLtvBips",
                        "veilHaircutBips", "wVeilHaircutBips", "wsVeilHaircutBips"} |-> t[f]]
        proof == [requireProof |-> t.requireBatchProof,
                  requiredProofType |-> t.requiredProofType,
                  batchWindowMs |-> t.batchWindowMs, proofDeadlineMs |-> t.proofDeadlineMs,
                  proverAuthority |-> t.proverAuthority]
    IN << <<TreasuryConfigKey, [governance |-> t.governance, operations |-> t.operations,
                                maxReleaseBips |-> t.maxReleaseBips,
                                releaseEpochSeconds |-> t.releaseEpochSeconds]>>,
          <<TreasuryStateKey, [locked |-> t.colVaultLocked, live |-> t.colVaultLive,
                               released |-> 0, last |-> 0]>>,
          <<FeeRouterConfigKey, [msrb |-> t.feeRouterMsrbBips, col |-> t.feeRouterColBips,
                                 ops |-> t.feeRouterOpsBips]>>,
          <<FeeRouterStateKey, [msrb |-> 0, col |-> 0, ops |-> 0]>>,
          <<VAIConfigKey, [mintAuthority |-> t.mintAuthority, debtCeiling |-> t.vaiDebtCeiling,
                           epochMintLimit |-> t.vaiEpochMintLimit,
                           mintEpochSeconds |-> t.vaiMintEpochSeconds]>>,
          <<VAIStateKey, [debt |-> 0, epochStart |-> 0, epochMinted |-> 0]>>,
          <<RiskConfigKey, risk>>,
          <<ReserveStateKey, [exogenousReserve |-> t.exogenousReserveInit,
                              vaiBuffer |-> t.vaiBufferInit]>>,
          <<ProofConfigKey, proof>> >>

\* The store after the Puts of puts, each inserting the bytes it encodes.
Inserted(puts) ==
    [k \in {puts[i][1] : i \in DOMAIN puts} |->
        PutRow(k, puts[CHOOSE i \in DOMAIN puts : puts[i][1] = k][2]).bytes]

\* Genesis.InitializeState: no tokenomics block writes nothing; a block
\* validateTokenomics refuses fails before any Put; otherwise the Puts run
\* in order and the first that fails ends the call, keeping the rows
\* already inserted.
InitializeState ==
    /\ phase = "loaded"
    /\ LET t == genesis.tokenomics
           puts == GenesisPuts(t)
           bad == SelectInSeq(puts, LAMBDA p : ~PutRow(p[1], p[2]).ok)
       IN \/ /\ t = NoValue
             /\ phase' = "initialized"
             /\ UNCHANGED rows
          \/ /\ t # NoValue
             /\ ~ValidateTokenomics(genesis.allocs, t)
             /\ phase' = "failed"
             /\ UNCHANGED rows
          \/ /\ t # NoValue
             /\ ValidateTokenomics(genesis.allocs, t)
             /\ rows' = Inserted(IF bad = 0 THEN puts ELSE SubSeq(puts, 1, bad - 1))
             /\ phase' = IF bad = 0 THEN "initialized" ELSE "failed"
    /\ UNCHANGED genesis

GenesisNext == Load \/ InitializeState

GenesisSpec == GenesisInit /\ [][GenesisNext]_vars

-----------------------------------------------------------------------------
(* The readers of the singleton rows.                                      *)

\* Get<row> on the rows genesis wrote succeeds.
Readable(k) == GetRow(rows, k).ok

SingletonKeys ==
    {TreasuryConfigKey, TreasuryStateKey, FeeRouterConfigKey, FeeRouterStateKey,
     VAIConfigKey, VAIStateKey, RiskConfigKey, ReserveStateKey, ProofConfigKey}

-----------------------------------------------------------------------------
(* Properties                                                              *)

\* The rows hold values of the types their readers rely on: a treasury
\* config's release bips is a fraction of the locked vault (1..10000).
GenesisTypeOK ==
    /\ phase \in {"unmarshalled", "loaded", "initialized", "failed"}
    /\ genesis.allocs \in AllocChoices
    /\ DOMAIN rows \subseteq SingletonKeys
    /\ TreasuryConfigKey \in DOMAIN rows =>
          LET cfg == GetRow(rows, TreasuryConfigKey).val
          IN /\ cfg.maxReleaseBips \in 1..BipsDenominator
             /\ cfg.releaseEpochSeconds \in Nat \ {0}

\* InitializeState writes the singleton rows all or not at all: a block
\* validateTokenomics accepts is never refused half-way by PutRiskConfig or
\* PutProofConfig, which validate again (genesis.go:95-162 against
\* storage.go:778-920).
GenesisAllOrNothing ==
    DOMAIN rows \in {{}, SingletonKeys}

\* When InitializeState succeeds on a tokenomics block, every singleton row
\* exists and its Get* (which every action and RPC handler calls) accepts
\* it: the defaults of Factory.Load and the checks of validateTokenomics
\* leave no row that a reader later refuses, such as a fee router config
\* whose bips do not sum to 10000.
GenesisRowsReadable ==
    phase = "initialized" /\ genesis.tokenomics # NoValue =>
        \A k \in SingletonKeys : Readable(k)

\* Every singleton row genesis wrote reads back, through its Get*, as the
\* struct InitializeState handed to its Put*: the append chain of each Put
\* (its layout) and the literal offsets and minLen of each Get (its own
\* read table, storage.go:610-917) agree field by field, so no slice of a
\* Get reads a neighbour's bytes and no row is shorter than its minLen.
GenesisRowsRoundTrip ==
    phase = "initialized" /\ genesis.tokenomics # NoValue =>
        \A i \in 1..9 :
            LET p == GenesisPuts(genesis.tokenomics)[i]
            IN GetRow(rows, p[1]).val = p[2]
====
