# TLA+ models of veilvm

veilvm is a HyperSDK/Avalanche virtual machine. It runs a commit–reveal
batch auction for prediction markets whose clears are gated by
zero-knowledge proofs. It also runs a constant-product AMM, a VAI
stablecoin with a debt ceiling and a backing floor, a treasury with tranche
releases, and a fee router.

This directory holds TLA+ modules for those parts, the TLC configurations
that check them, and `PROJECT.json`. That file lists:

- the components;
- the runs and what each one checks;
- the mutants that show each property can fail;
- the map from every definition to the source lines it models;
- the findings;
- the hazards of the code.

## The system

Every transaction action (`src/actions/*.go`) runs `Execute` atomically
against the chain's key/value store:

- The host runtime serialises transactions whose declared key sets
  (`StateKeys`) overlap. That holds only if every row an action writes is
  in its declared set with the write right; the `WritesDeclared`
  invariants check this for each action.
- A failed action leaves no write behind.
- Time is the block timestamp handed to `Execute`.

This is why the models have no intra-action interleaving. One action is
one TLA+ step, and an early return is a conjunct of the step's guard.

The interleavings that matter are between transactions of different
actors, in any order the block builder picks, and between governance
reconfiguration and in-flight work.

| Part | Source | State (storage rows) | Operations |
|---|---|---|---|
| Market lifecycle | `actions/create_market.go`, `resolve_market.go`, `dispute.go` | `Market`, native `Balance`, dispute slot of `Oracle` | create, resolve, dispute |
| Batch auction | `actions/commit_order.go`, `reveal_batch.go`, `submit_batch_proof.go`, `clear_batch.go`, `set_proof_config.go`, `glyph.go` | `Commitment`, `Oracle`, `BatchProof`, `VellumProof`, `Bloodsworn`, `Glyph`, `Batch`, `ProofConfig` | commit, reveal, submit proof, clear, set proof config |
| Proof envelopes and verifier | `actions/proof_verifier.go`, `proof_hash.go`, `zk/verifier.go`, `vm/option.go` | a process-wide (verifier, strict) pair; no chain state | parse VZK1/VZK2, hash public inputs, verify |
| AMM | `actions/create_pool.go`, `add_liquidity.go`, `remove_liquidity.go`, `swap_exact_in.go`, `amm_common.go` | `Pool`, `LPBalance`, `Balance`, `VAIBalance` | create pool, add/remove liquidity, swap |
| VAI | `actions/mint_vai.go`, `burn_vai.go`, `update_reserve_state.go`, `set_risk_params.go` | `VAIConfig`, `VAIState`, `VAIBalance`, `RiskConfig`, `ReserveState` | mint, burn, update reserve, set risk |
| Treasury and fees | `actions/release_col_tranche.go`, `route_fees.go` | `TreasuryConfig`, `TreasuryState`, `FeeRouterConfig`, `FeeRouterState` | release tranche, route fees |
| Transfer | `actions/transfer.go` | `Balance` | transfer |
| Storage encoding | `storage/storage.go` | all rows | Put/Get/Add/Sub per row |
| Genesis | `genesis/genesis.go`, with the `Put*`/`Get*` of `storage/storage.go` | every singleton | apply defaults (Load), validate, initialise |
| ZK metrics | `actions/zk_metrics.go`, `vm/server.go` (RPC) | an in-memory FIFO map guarded by a mutex; off-chain | record commit/reveal/submit/clear/prover stages, snapshot, reset |
| RPC server and client | `vm/server.go`, `vm/client.go` | reads only, apart from the metrics | queries |
| Circuits | `zk/clearhash_circuit.go`, `zk/shielded_ledger_circuit.go` | none (gnark constraint systems) | — |
| Tools | `cmd/*` | none | key generation, benchmarks, smoke tests |

### How the parts interact

- The batch auction reads the market row. Commit, reveal, submit and clear
  all require the market to be `Active`, so a `resolve_market` ends every
  window of the market, including proven windows that were never cleared.
- `submit_batch_proof` registers a proof under the `ProofConfig` of its
  block. `clear_batch` re-checks the record against the config current at
  clear time. Governance (`set_proof_config`) can change the config in
  between.
- Verification goes through a process-local verifier, installed at VM start
  from environment variables and from the files present on the node. It is
  not chain state: two nodes may be configured differently.
- The dispute record shares the `Oracle` key space with reveals. Its key is
  validator index `0xFFFFFFFF`.
- Genesis writes the singleton rows (`VAIConfig`, `TreasuryConfig`,
  `FeeRouterConfig`, `RiskConfig`, `ProofConfig` and the state rows) that
  every tokenomics and proof action later reads with a `Get*` that
  re-validates them.
- The ZK metrics collector is fed by deferred calls at the end of
  commit, reveal, submit and clear, from the outcome each action returned,
  and by the RPC handlers. It never feeds back into chain state.
- VAI minted by `mint_vai` moves between users and AMM pools. Treasury and
  fee routing only move singleton counters and the sender's balance.

## Modules

| Module | Models | Status |
|---|---|---|
| `StorageKeys` | the key layout of `storage.go`, hypersdk permissions, and `state.Keys` maps (`StateKeys`) | done |
| `MarketLifecycle` | create/resolve/dispute over `Market`, `Balance`, `Oracle` | done |
| `BatchMarket` | EXTENDS `MarketLifecycle`; commit, reveal, submit proof, clear, set proof config, block time | done |
| `BatchWindow` | abstract per-window promise: proven once, cleared once with the proven tuple | done |
| `ProofEnvelope` | `BuildProofEnvelope`, `BuildProofEnvelopeWithCircuit`, `parseProofEnvelope` and `isValidProofCircuitID` on byte sequences | done |
| `MCBatchMarket` | model values, blob shapes, node settings and genesis config for TLC | done |
| `AmmMath` | `intSqrt`, `mulDiv`, `minU64` and the smath checks on W-bit words | done |
| `AmmPool` | create pool, add/remove liquidity, swap, transfer over native, VAI and LP balances | done |
| `MCAmmPool` | two actors and genesis balances for TLC | done |
| `Tokenomics` | EXTENDS `AmmPool`; mint/burn VAI, reserve and risk updates, tranche releases, fee routing, block time, the `Reserve` RPC view | done |
| `MCTokenomics` | genesis configs (VAI, treasury, fee router) and balances for TLC | done |
| `StorageCodec` | the byte layout of the nine singleton rows and the four proof rows (`BatchProofRecord`, `VellumProof`, `Bloodsworn`, `Glyph`): each `Put*`'s append chain, each `Get*`'s `minLen` check, offsets and validation, big-endian and two's-complement integers | done |
| `Genesis` | `Factory.Load` (tokenomics defaults), `validateTokenomics`, `InitializeState` and the `Put*`/`Get*` validation of the singletons | done |
| `MCGenesis` | genesis files that omit fields or set them on either side of every check | done |
| `ZkMetrics` | the metrics collector as concurrent callers of a locked bounded FIFO map, with the RPC snapshot and reset | done |
| `MCZkMetrics` | window keys, closes and deadlines for TLC | done |

One module that was planned is not written: `ConsensusReplicas` (two
differently configured nodes on one stream). See "Not modelled".

### `ProofEnvelope`

A blob is a sequence of bytes. Header bytes are naturals below 256, a
circuit id is the sequence of its characters, and the proof and witness
bytes are opaque tokens, because the parser only reads their lengths.
The builders lay out the VZK1 and VZK2 headers with big-endian lengths
(`Uint32BE`), and the parser reads them back (`ReadUint32BE`) with every
check of the code: header length, positive lengths, the circuit-length
range, exact total length and the circuit-id alphabet. A blob shorter
than the magic or with another prefix is a legacy raw proof.
`BatchMarket` builds each blob shape's bytes (`BlobBytes`), parses them
once (`ParsedBlobs`), and reads the envelope flag, header type, circuit id
and witness that `verifyBatchProofInConsensus` and `zk.Verifier.Verify`
use from the parse.

### Declared state keys

Each action of `BatchMarket`, `AmmPool` and `Tokenomics` is conjoined with
a check that the rows it changes lie in `Writable(<Action>Keys(...))`. The
`<Action>Keys` operators translate the action's `StateKeys` method,
including the case where two entries name the same key (a Go map literal
keeps the later one). A ghost boolean `keysOK` records that every step so
far stayed inside its declaration, and `WritesDeclared == keysOK` is the
invariant. The changed rows are computed per row family (`RowsChanged`,
`SingletonChanged`), never as a whole-store comparison.

### State and actions of `BatchMarket`

| TLA+ | Code |
|---|---|
| `market`, `balance`, `oracle` | Market, Balance and Oracle rows; `oracle[m][DisputeValidatorIndex]` is `DisputeKey(m)` |
| `proofConfig` | the `ProofConfig` singleton |
| `commitment[m][w][a]` | `Commitment` rows |
| `batchProof[m][w]` | `BatchProofRecord` |
| `vellumProof[m][w]` | `VellumProof` (the proof bytes) |
| `bloodsworn[a]` | `Bloodsworn` counters |
| `glyph[m][w]` | `Glyph` as `deriveGlyph` builds it: class and rarity from the entropy's first three bytes, drawn from `GlyphEntropies` (the entropy is SHA-256 over the fresh txID, so the model lets it be any offered value) |
| `batch[m][w]` | `Batch` (the clear result) |
| `verifier`, `NodeVerifier` | the node's `[installed, strict]`: `resolveZKConfig` and `installBatchProofVerifier` (`vm/option.go`) applied to one of `NodeSettings` in Init, never changed; a node with nothing configured fails closed onto the fixture key |
| `now` | the block timestamp |
| `CreateMarket`, `ResolveMarket`, `Dispute` | the three market actions |
| `CommitOrder`, `RevealBatch`, `SetProofConfig`, `SubmitBatchProof`, `ClearBatch` | the five `Execute` methods, each a whole handler |
| `ClearProofGate` | the `if proofCfg.RequireProof` block of `clear_batch` |
| `VerifyBatchProofInConsensus`, `ZkVerify` | `verifyBatchProofInConsensus` and `zk.Verifier.Verify` |
| `ExpectedPublicInputsHash`, `PublicInputsDigest` | `computeExpectedPublicInputsHash`, `proof_hash.go` |
| `Tick` | a later block |

The model abstracts data in four ways:

- **Hashes are ideal.** A digest is the tagged tuple it hashes, so equal
  digests mean equal preimages.
- **Proof blobs are shapes.** A blob shape names its envelope kind, header
  proof type, circuit id, and the digest its proof proves; its bytes are
  built and parsed by `ProofEnvelope`. Soundness of
  Groth16/PLONK is the assumption that a verifying key accepts a proof only
  for that digest and only under its own proof system. A proof of a
  circuit proves only digests of its own domain: `ShieldedLedgerCircuitV1`
  asserts its tag bytes, and `ClearHashCircuit` hashes a preimage of the
  clear layout's length. A node loads the keys of one circuit (the
  constant `KeyCircuit`; `veilvm-zktool` keys each circuit apart), and
  `zk.Verifier.Verify` uses them whatever circuit id the envelope declares.
  So the digests a prover can prove (`ProvableDigests`) are those of the
  key's domain, under any declared id.
- **Payloads are model values.** Question text, signatures, evidence and
  shares carry no structure.
- **Dispute index.** Validator index `0xFFFFFFFF` is a model value, because
  TLC integers are 32-bit signed.

### State and actions of `AmmPool` and `Tokenomics`

| TLA+ | Code |
|---|---|
| `pool[<<a0, a1>>]` | the `Pool` row of the sorted pair (`NoValue` when absent); reserves in sorted order |
| `assetBalance[s][a]` | `Balance` (s = 0, VEIL) and `VAIBalance` (s = 1) rows, read through `subAssetBalance`/`addAssetBalance` |
| `lpBalance[pr][a]` | `LPBalance` rows |
| `halted` | a run-time panic inside `Execute` (the block cannot be executed) |
| `CreatePool`, `AddLiquidity`, `RemoveLiquidity`, `SwapExactIn`, `Transfer` | the five `Execute` methods |
| `AddLiquidityPanic` | `add_liquidity` reaching `intSqrt` with a product that makes it divide by zero |
| `PoolOrder` | `mapPairAmounts` / `mapPoolAmountsToPair`: the caller's asset order mapped onto the pool's |
| `vaiState` | `VAIState` (TotalDebt, EpochStartUnix, EpochMinted) |
| `reserve`, `backingFloor` | `ReserveState.ExogenousReserve`, `RiskConfig.BackingFloorBips` |
| `treasuryState`, `feeState` | `TreasuryState`, `FeeRouterState` |
| `exactShares` | a history variable: the shares `route_fees` would pay in exact arithmetic |
| `MintVAI`, `BurnVAI`, `UpdateReserveState`, `SetRiskParams`, `ReleaseCOLTranche`, `RouteFees` | the six `Execute` methods |
| `ReserveView` | the ratio and `MeetsBackingFloor` the `Reserve` RPC (`vm/server.go`) reports |
| `now`, `Tick` | the block timestamp (seconds) and a later block |

`VAIConfig`, `TreasuryConfig` and `FeeRouterConfig` are written only by
genesis, so they are CONSTANTS here; `Genesis` checks what genesis
accepts for them.

The AMM and tokenomics models abstract data in three ways:

- **Words of WordBits bits.** uint64 arithmetic is modelled on words of
  `WordBits` bits. A checked `smath` operation is a guard. An unchecked
  product (`route_fees`, `release_col_tranche`) or sum (`intSqrt`) is
  taken modulo `2^WordBits`. The code's boundaries do not depend on the
  width: the largest word, a wrap, and a quotient that does not fit.
- **Timestamps are exact.** Epoch sums (`EpochStartUnix + MintEpochSeconds`)
  are int64. They wrap only for epoch lengths above 9.2e15 seconds, so
  the model computes them exactly.
- **Fields no guard reads are left out.** These are `VAIBuffer` and the
  fee router's timestamps.

### State and actions of `Genesis`

| TLA+ | Code |
|---|---|
| `phase` | unmarshalled, loaded, initialized or failed |
| `genesis` | the parsed `Genesis` struct: allocations and the optional tokenomics block |
| `rows` | the singleton rows in the store, by key: the bytes each `Put*` encoded (`PutRow`) |
| `Load` | `Factory.Load` ending in `applyTokenomicsDefaults` |
| `ValidateTokenomics` | `validateTokenomics`, with supply sum via `ComputedSupply` (checked adds) |
| `GenesisPuts`, `InitializeState` | the `Put*` sequence of `InitializeState`, which stops at the first `Put` whose own validation fails |
| `BatchProofView`, `VellumProofView`, `BloodswornView` (with `ScoreBloodswornTrust`), `GlyphView` | the `BatchProof`, `VellumProof`, `Bloodsworn` and `Glyph` RPCs of `vm/server.go`, each decoding the bytes its row's `Put*` stored |
| `Readable(k)`, `GetRow` | whether the matching `Get*` of `storage.go` accepts the stored bytes, and the struct it decodes |

`StorageCodec` gives each singleton row a layout, a sequence of
`<<field, kind>>` in the order its `Put*` appends them. `Encode` is the
append chain. Each `Get*` has its own read table, `<<field, kind,
offset>>`, with the literal offsets its slice expressions name, and its
own `minLen` (`RowReads`, `RowMinLen`); `Decode` slices each field at
its offset. The tables are written from the `Get*` code, apart from the
`Put*` order, so a `Put`/`Get` disagreement is expressible. Integers use `AppendUint`, `Uint` and `Int64`, which are
modulo 2^(8w), most significant byte first, and two's complement for
`int64`. An address is 33 bytes: the zero address is all zeros, and any
other is its model value followed by 32 zeros.
The proof rows add the `h32` kind (a 32-byte hash: its ideal value, then
zeros) and the length-prefixed slices of `BatchProofRecord`, read back by
`GetBatchProofRecord` with a running offset and three length checks.
`submit_batch_proof` is guarded by the validation of each `Put` it calls
(`PutBatchProofRecord`, `PutVellumProof`, `PutGlyph`): a refused `Put`
fails the transaction, which hypersdk rolls back.

### State and actions of `ZkMetrics`

| TLA+ | Code |
|---|---|
| `windows`, `order` | `c.windows` and `c.order` of the collector |
| `summary` | the collector's running totals |
| `CommitOrder`, `RevealBatch`, `SubmitBatchProof`, `ClearBatch` | the deferred `Record*Metric` call of each action, with the outcome the action returned |
| `RecordZKProverMetrics`, `Reset` | the RPC handlers `RecordZKProverMetrics` and `ZKMetricsReset` |
| `Snapshot(limit)` | the `ZKMetrics` RPC (newest windows first, with derived latencies) |
| `SetProofDeadline`, `Tick` | governance changing `ProofDeadlineMs`, and a later block |

## Runs

| Run | Config | Expect | What it shows |
|---|---|---|---|
| `batch_nodes` | `MCBatchMarket_nodes.cfg` | pass | See below. |
| `market_lifecycle` | `MCBatchMarket_lifecycle.cfg` | pass | See below. |
| `batch_overwrite` | `MCBatchMarket_overwrite.cfg` | violation | Once governance turns proof-gated mode off, any actor can overwrite a cleared `Batch`, including one cleared with a proof. |
| `dispute_slot_reveal` | `MCBatchMarket_disputeslot.cfg` | violation | `reveal_batch` with validator index `0xFFFFFFFF` writes the market's dispute slot while the market is still Active. |
| `amm_pool` | `MCAmmPool.cfg` | pass | See below. |
| `amm_intsqrt_panic` | `MCAmmPool_panic.cfg` | violation | A first deposit whose product is `2^W - 1` makes `intSqrt` divide by zero inside `add_liquidity`. |
| `tokenomics_vai` | `MCTokenomics.cfg` | pass | See below. |
| `reserve_backing` | `MCTokenomics_backing.cfg` | violation | `update_reserve_state` drops the reserve below the backing floor of debt already minted, against the invariant of the spec. |
| `fee_split_wrap` | `MCTokenomics_feewrap.cfg` | violation | `route_fees` of a large amount wraps `bips * amount`, so MSRB gets far less than its share and ops gets the rest. |
| `zk_metrics` | `MCZkMetrics.cfg` | pass | See below. |
| `zk_missed_deadline_flag` | `MCZkMetrics_missed.cfg` | violation | A rejected `submit_batch_proof` (too early, or a retry after the deadline) flags the window `MissedDeadline` although the proof the chain accepted was on time. |
| `genesis` | `MCGenesis.cfg` | pass | See below. |

- **`batch_nodes`** runs a proof-gated chain on either node setting of
  `vm/option.go`: a strict node with a Groth16 key, or a node with no
  verifier and strict off (the `verifier` variable takes both values in
  Init). It shows two things:
  - every cleared batch stands on a record and a stored proof whose
    public-input hash is the digest of exactly the cleared tuple; on the
    node without a verifier this rests on the clear-time recomputation
    alone;
  - on the verifying node, a proof `submit_batch_proof` accepted stays
    clearable by the prover authority with the tuple inside its digest, as
    long as the market is Active and the config still requires the
    record's type within its deadline, and the envelope declares a
    circuit of the key's domain. `submit` leaves the binding of the
    digest to clear time, and `clear` re-parses, re-hashes and re-verifies
    the stored bytes; since a record is never replaced, any check of clear
    that submit did not make strands the window (premise: the record's
    fills and window are those inside its digest, which submit does not
    compare);
  - the auction refines `BatchWindow`, so each window is proven once and
    cleared once, with the proven tuple.
- **`market_lifecycle`** lets governance switch proof mode on and off, and
  adds disputes. It shows:
  - every action writes only rows its `StateKeys` declares writable;
  - market status only advances, and a resolved outcome is never rewritten;
  - Bloodsworn counters equal the records that name the prover;
  - every stored enveloped proof is byte for byte the envelope the builder
    makes of its parsed type, circuit, proof and witness, so no blob with
    trailing bytes, a forged circuit id or a stray magic prefix is stored
    as an envelope;
  - every accepted proof reads back through the `BatchProof`,
    `VellumProof` and `Glyph` RPCs as submitted, with the glyph's class
    and rarity those `deriveGlyph` computes from the entropy it returns,
    and the `Bloodsworn` RPC rates a prover "Unproven" exactly when no
    record names it (`ProofRowsReadBack`; two entropies give a Mythic
    Cipher and a Common Relic glyph).
- **`amm_pool`** runs every order of pool creation, deposits, withdrawals,
  swaps and transfers, with both caller orientations of the pair. It shows:
  - every action writes only rows its `StateKeys` declares writable,
    including the pool and LP keys of the sorted pair;
  - assets are conserved between accounts and pool reserves;
  - LP balances add up to `TotalLP`;
  - no reserve drains to 0 while LP is outstanding;
  - no step lowers the assets per LP unit of an existing pool;
  - `TotalLP^2` never exceeds `r0 * r1`, which needs `intSqrt` to round down.
- **`tokenomics_vai`** composes the AMM with the VAI, treasury and fee
  actions: VAI is minted, swapped through a pool and burnt by whoever holds
  it, and COL is released over several epochs. It shows:
  - every action, the AMM's and the tokenomics', stays inside its
    declared keys;
  - the `Reserve` RPC's `MeetsBackingFloor` agrees with the backing check
    `mint_vai` applies, at debt 0 and at the exact floor;
  - VAI in accounts and pools equals `TotalDebt`;
  - the debt stays under the ceiling across mint epochs;
  - native VEIL routed to the fee budgets is conserved;
  - tranche releases only move COL from locked to live.
- **`zk_metrics`** interleaves the four actions' metric calls, the
  prover-stage and reset RPCs, deadline changes and FIFO eviction at
  `maxWindows`. The collector's map and order agree, it keeps and
  snapshots the newest windows, and its summary covers the retained rows.
  `ClearBatch` records `acceptedAtMs` as the block time once
  `PutBatchResult` succeeded and 0 otherwise, as `clear_batch` does.
- **`genesis`** runs `Load` and `InitializeState` on genesis files that omit
  fields or set each on either side of its check. Genesis never leaves a
  half-written set of singletons (all or nothing, although `Put*` stops at
  the first failure), and every singleton row it writes is one its `Get*`
  accepts: `validateTokenomics` is at least as strict as the storage
  validation. Every such row also decodes to exactly the struct
  `InitializeState` handed to its `Put*` (`GenesisRowsRoundTrip`). That
  compares the append chain of each `Put*` with the literal offsets and
  `minLen` of its `Get*`, field by field, for the zero address, the
  one-byte bool and proof type, and every `int64` field (a `Get*` that
  slices a neighbour's field, as its mutant does, breaks it). `validateTokenomics` refuses negative
  `int64` values before any `Put`, so none reaches the store.

### Bounds

Batch auction:

- One market and one window, with three actors: governance, prover, user.
- Two prices, one volume, and one fills hash.
- Block time is `0..3` with `BatchWindowMs = 2`. The proof deadline is 1,
  or 0, which `validateProofConfig` rejects.
- Proof types are {Groth16, PLONK}, with a verifying key for Groth16 only.
- Blob shapes are raw, VZK1, and VZK2 for clearhash-v1, shielded-ledger-v1
  and an unsupported id, each either proving the claimed digest or not.
  `market_lifecycle` adds malformed blobs: a VZK1 envelope with one
  trailing byte, a VZK2 envelope whose circuit id has an upper-case
  letter, and a raw proof that starts with the VZK1 magic. It keeps
  `batch_nodes` to well-formed shapes, which reach every guard there.
- Glyph entropies: `market_lifecycle` offers two, whose first bytes give
  the extreme rarity rolls (0, Mythic; 9999, Common) and classes Cipher
  and Relic; the other runs offer one, since no guard reads the glyph.

These bounds reach every guard of submit and clear: the wrong type,
circuit, window alignment and deadline; a duplicate submission; a clear
with the wrong price; a type change between submit and clear. A second
window multiplies the state space by about 50 and adds no new guard.
Window ids enter the model only as keys and as a digest component, and
with ideal hashes every digest component is compared the same way.

AMM and tokenomics:

- `amm_pool` uses 4-bit words (largest word 15), two actors with 5 of each
  asset, amounts {1, 2, 3, 5} and minimums {0, 2}. These reach every error
  of the handlers and the `intSqrt` panic (3 * 5 = 15), which is why
  `AddLiquidityPanic` fires in this run. First deposits reach every product
  of two amounts up to 15, perfect squares and non-squares.
- `tokenomics_vai` uses 16-bit words, debt ceiling 6, epoch limit 4, amounts
  {2, 3}, two epochs of time, and releases from 20 locked COL at
  10% per epoch. That is enough for the epoch limit to bind within an
  epoch, for the ceiling to bind after a rollover, and for releases to
  span epochs.
- `fee_split_wrap` routes 14 VEIL on 16-bit words at 5000 bips. The product
  70000 exceeds 2^16, as 5000 * 3.7e15 exceeds 2^64.

ZK metrics: three window keys with `maxWindows = 2`, so eviction happens;
times `1..3`, closes {-1, 1, 2}, deadlines {0, 1}, and at most four
samples. Window keys are symmetric.

Genesis: 8-bit words, an empty or one-entry allocation, and for every
field one value that passes its check and one that fails it or is omitted
(0), so every check of `validateTokenomics` and of the `Put*` validation
is reached on both sides, including a total supply that disagrees with
the allocations and treasury.

### Fairness

No run checks liveness. Every action is a transaction that some actor may
or may not send, or an RPC that may or may not be called, so no action is
guaranteed to happen. Weak fairness would be justified only for `Tick`,
since block production continues, and no property needs it alone.

Two runs set `CHECK_DEADLOCK FALSE`:

- `amm_pool`, because a panic inside `Execute` halts block execution for
  good. The model's `halted` state has no successor, as in the code.
- `genesis`, because genesis runs once and then stops.

## Not modelled, and why

- **Circuits, gnark, the pairing check.** These are cryptography. The
  model assumes soundness, as described above.
- **RPC server and client, `cmd/*` tools, keygen, benchmarks, smoke
  tests.** They are off-chain I/O, and they read state without changing
  it. The exceptions are modelled: the metrics RPCs (`ZkMetrics`), the
  `Reserve` view (`Tokenomics`) and the proof-row views (`BatchMarket`).
- **Byte encodings of the non-singleton rows.** They are modelled by what
  they store. There are three exceptions: the nine singleton rows
  (`StorageCodec`, used by `Genesis`), the four proof rows (`StorageCodec`,
  used by `BatchMarket`'s submit and RPC views) and the proof envelopes
  (`ProofEnvelope`). Inside an envelope the proof and witness bytes are
  opaque tokens. The actions of `Tokenomics` and `BatchMarket` read the
  singletons by value.
- **Two replicas with different verifier settings.** `batch_nodes` checks
  each setting; a composition of two replicas on one stream is not
  written.
- **hypersdk's semantics of the Allocate permission** and its default
  genesis. Only the write right is checked against what an action changes.
- **Interleaving inside a handler.** The handlers are atomic.
- **The glyph entropy hash.** `deriveGlyphEntropy` is SHA-256 over the
  txID; the model offers its first three bytes from `GlyphEntropies` and
  leaves the other 29 zero, since only those three decide class and
  rarity.

Divergences seen while modelling genesis, kept in the model but not
checked as violations:

- the total-supply check is skipped when `TotalSupply` is 0;
- a nonzero `wsVeilLtvBips` is zeroed by the defaults instead of rejected;
- `RequireBatchProof` is turned on when `requiredProofType` is omitted;
- a genesis without a tokenomics block writes no singleton rows.

Divergence seen while modelling the proof path, kept in the model but
not checked as a violation: `Verify` never ties the envelope's circuit id
to the loaded key. An envelope declaring `shielded-ledger-v1` around a
proof of a `VEIL_CLEAR_V1` digest under a clearhash key passes
`submit_batch_proof` (which checks only that the id is supported), and
`clear_batch` then recomputes the digest under the shielded-ledger tag,
finds it differs from the record's and refuses the clear forever.
`ProvenWindowClearable` excludes exactly these windows; without that
premise TLC finds the stranded window.

The `commit_order` hazard (commitments still change after a window's
`Batch` exists) is listed in `PROJECT.json` without a run.
