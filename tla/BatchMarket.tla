---------------------------- MODULE BatchMarket ----------------------------
(***************************************************************************)
(* The proof-gated batch auction of veilvm: commit_order, reveal_batch,   *)
(* submit_batch_proof, clear_batch and set_proof_config                   *)
(* (src/actions/*.go), composed with the market lifecycle it reads.       *)
(*                                                                         *)
(* A window (market, window id) has no state row of its own: its phase is *)
(* which of Commitment, BatchProof, VellumProof, Glyph and Batch rows     *)
(* exist.  The proof verifier is process-local configuration installed   *)
(* at VM start (src/vm/option.go): whether a verifier is installed, the   *)
(* strict flag, the proof systems with a verifying key and the required   *)
(* circuit id are CONSTANTS of a node.                                    *)
(*                                                                         *)
(* Hashes are ideal: SHA-256 of a preimage is the tagged preimage itself, *)
(* so equal digests mean equal preimages.  A proof blob is a record of    *)
(* its envelope (raw, VZK1, VZK2), its header proof type, its circuit id  *)
(* and the digest its zk proof actually proves; a verifying key accepts a *)
(* proof exactly for that digest (soundness of Groth16/PLONK).  Only      *)
(* whether that digest is the claimed one matters, so a submitted blob    *)
(* proves either the claimed digest or another one (stmt = NoValue).      *)
(***************************************************************************)
EXTENDS MarketLifecycle, ProofEnvelope, Integers, Sequences

CONSTANTS
    Windows,           \* window ids (uint64)
    OrderPayloads,     \* abstract envelope ++ commitment of commit_order
    Shares,            \* abstract decryption shares of reveal_batch
    Prices,            \* clear prices offered to clear_batch (non-zero)
    Volumes,           \* total volumes offered to clear_batch
    FillsHashes,       \* 32-byte fills hashes
    BlobShapes,        \* envelope kind, header proof type and circuit id
                       \* of the proof blobs offered to submit_batch_proof
    CircuitText,       \* the characters of each circuit id string offered
    MaxTime,           \* bound on the block timestamp (ms)
    Governance,        \* TreasuryConfig.Governance (fixed at genesis)
    GenesisProofConfig,\* ProofConfig written by genesis
    RequireChoices,    \* RequireProof values offered to set_proof_config
    ProofTypeChoices,  \* RequiredProofType values offered to set_proof_config
    WindowMsChoices,   \* BatchWindowMs values offered to set_proof_config
    DeadlineChoices,   \* ProofDeadlineMs values offered to set_proof_config
    ProverChoices,     \* ProverAuthority values offered to set_proof_config
    NodeSettings,      \* ZKVerifierConfig of a node after its env overrides
                       \* (vm/option.go): [enabled, strict, vkPath], and
                       \* fixture, whether the fixture Groth16 key exists
    VerifyingKeyTypes, \* proof types with a loaded verifying key
    RequiredCircuitID, \* VEILVM_ZK_REQUIRED_CIRCUIT_ID, "" when unset
    KeyCircuit,        \* the circuit whose setup produced the node's
                       \* verifying keys (veilvm-zktool keys each circuit)
    GlyphEntropies     \* the first three bytes of the glyph entropies a
                       \* submit may draw: SHA-256 over the fresh txID

ASSUME Prices \subseteq Nat \ {0}
ASSUME Governance \in Actors /\ ProverChoices \subseteq Actors

\* src/consts: proof types and circuit ids
ProofTypeGroth16 == 1
ProofTypePlonk == 2
ProofCircuitClearHashV1 == "clearhash-v1"
ProofCircuitShieldedLedgerV1 == "shielded-ledger-v1"

\* actions/proof_hash.go: the domain tags of the two public-input hashes
ClearPublicInputsTag == "VEIL_CLEAR_V1"
ShieldedLedgerPublicInputsTag == "VEIL_SHIELDED_LEDGER_V1"

\* SHA-256(tag || market || window || price || volume || len || fills)
PublicInputsDigest(tag, m, w, p, v, f) == <<tag, m, w, p, v, f>>

\* Every digest a prover can claim over the modelled markets and windows.
PublicInputsHashes ==
    {PublicInputsDigest(t, m, w, p, v, f) :
        t \in {ClearPublicInputsTag, ShieldedLedgerPublicInputsTag},
        m \in Markets, w \in Windows, p \in Prices, v \in Volumes,
        f \in FillsHashes}

\* A proof blob of the given shape whose zk proof proves digest stmt.
Blob(shape, stmt) == [shape EXCEPT !.stmt = stmt]
Blobs == {Blob(b, s) : b \in BlobShapes, s \in PublicInputsHashes \cup {NoValue}}

\* sha256.Sum256(proof): the commitment stored in the proof record
ProofCommitment(blob) == <<"sha256", blob>>

\* The byte layouts of the rows (storage.go), with no address all-zero.
Codec == INSTANCE StorageCodec WITH ZeroAddress <- NoValue

\* A [32]byte hash as bytes: its ideal value, then zeros; an entropy is its
\* first three bytes, then zeros.
HashBytes(h) == <<h>> \o [i \in 1..31 |-> 0]
EntropyBytes(e) == e \o [i \in 1..29 |-> 0]

-----------------------------------------------------------------------------
(* Glyph derivation (actions/glyph.go).                                    *)

GlyphRarityCommon == 1
GlyphRarityRare == 2
GlyphRarityEpic == 3
GlyphRarityLegendary == 4
GlyphRarityMythic == 5
\* GlyphClassAsh, Crown, Cipher, Eclipse, Aegis, Relic
GlyphClasses == <<1, 2, 3, 4, 5, 6>>

\* deriveGlyphClass: entropy[2] mod 6 indexes the classes.
DeriveGlyphClass(e) == GlyphClasses[(e[3] % 6) + 1]

\* deriveGlyphRarity: a roll in 0..9999 from the first two bytes (the
\* uint32 product stays below 2^32).
DeriveGlyphRarity(e) ==
    LET roll == ((e[1] * 256 + e[2]) * 10000) \div 65536 IN
    CASE roll < 2 -> GlyphRarityMythic
      [] roll < 20 -> GlyphRarityLegendary
      [] roll < 150 -> GlyphRarityEpic
      [] roll < 800 -> GlyphRarityRare
      [] OTHER -> GlyphRarityCommon

\* deriveGlyph: the Glyph of an accepted proof, its hashes kept ideal.
DeriveGlyph(prover, commitment, pih, timestamp, e) ==
    [class |-> DeriveGlyphClass(e), rarity |-> DeriveGlyphRarity(e),
     createdAt |-> timestamp, prover |-> prover,
     commitment |-> commitment, pih |-> pih, entropy |-> e]

\* The Glyph as PutGlyph receives it: the public-input hash copied into a
\* [32]byte, the commitment and the entropy 32-byte arrays.
GlyphBytes(g) ==
    [g EXCEPT !.commitment = HashBytes(@), !.pih = HashBytes(@),
              !.entropy = EntropyBytes(@)]

\* The BatchProofRecord as PutBatchProofRecord receives it: the hashes as
\* byte slices.
RecordBytes(rec) ==
    [rec EXCEPT !.commitment = HashBytes(@), !.pih = HashBytes(@), !.fills = HashBytes(@)]

VARIABLES
    now,          \* block timestamp (ms) handed to Execute
    proofConfig,  \* the ProofConfig singleton
    commitment,   \* commitment[m][w][a]: NoValue or envelope ++ commitment
    batchProof,   \* batchProof[m][w]: NoValue or the BatchProofRecord
    vellumProof,  \* vellumProof[m][w]: NoValue or the stored proof blob
    bloodsworn,   \* bloodsworn[a]: the prover's Bloodsworn row
    glyph,        \* glyph[m][w]: NoValue or the Glyph row
    batch,        \* batch[m][w]: NoValue or the Batch (clear result) row
    verifier,     \* the node's [installed, strict], fixed when the VM starts
    keysOK        \* history: every step so far wrote only keys its
                  \* transaction declared writable in StateKeys

batchVars == <<now, proofConfig, commitment, batchProof, vellumProof,
               bloodsworn, glyph, batch>>
vars == <<marketVars, batchVars, verifier, keysOK>>

\* The store keys whose row a step changes.
BatchChangedKeys ==
    MarketChangedKeys
    \cup UNION {RowsChanged(LAMBDA a : CommitmentKey(m, w, a),
                            commitment[m][w], commitment'[m][w]) : m \in Markets, w \in Windows}
    \cup UNION {RowsChanged(LAMBDA w : BatchKey(m, w), batch[m], batch'[m]) : m \in Markets}
    \cup UNION {RowsChanged(LAMBDA w : BatchProofKey(m, w), batchProof[m], batchProof'[m]) : m \in Markets}
    \cup UNION {RowsChanged(LAMBDA w : VellumProofKey(m, w), vellumProof[m], vellumProof'[m]) : m \in Markets}
    \cup UNION {RowsChanged(LAMBDA w : GlyphKey(m, w), glyph[m], glyph'[m]) : m \in Markets}
    \cup RowsChanged(BloodswornKey, bloodsworn, bloodsworn')
    \cup SingletonChanged(ProofConfigKey, proofConfig, proofConfig')

-----------------------------------------------------------------------------
(* Proof envelopes and the consensus verifier (actions/proof_verifier.go, *)
(* zk/verifier.go).                                                        *)

(* The bytes a prover sends for a blob: the builders' payloads, a legacy  *)
(* raw proof, and three blobs no builder produces: a VZK1 payload with a  *)
(* trailing byte, a VZK2 layout around a circuit id the builder rejects,  *)
(* and a raw proof that begins with the VZK1 magic.  The proof and the    *)
(* public witness are one opaque token each, the digest they bind.       *)
BlobBytes(blob) ==
    LET tok == <<blob.stmt>> IN
    CASE blob.env = "raw" -> tok
      [] blob.env = "v1" -> BuildProofEnvelope(blob.ptype, tok, tok).bytes
      [] blob.env = "v2" ->
            BuildProofEnvelopeWithCircuit(blob.ptype, CircuitText[blob.circuit], tok, tok).bytes
      [] blob.env = "v1tail" -> EnvelopeV1Layout(blob.ptype, tok, tok) \o <<0>>
      [] blob.env = "v2forged" ->
            EnvelopeV2Layout(blob.ptype, CircuitText[blob.circuit], tok, tok)
      [] blob.env = "rawmagic" -> MagicV1 \o tok

\* parseProofEnvelope of the blob (tabulated once over all blobs), its
\* hasEnvelope, and its circuit id as a string (VZK1 carries none).
ParsedBlobs == [b \in Blobs |-> ParseProofEnvelope(BlobBytes(b))]
Parsed(blob) == ParsedBlobs[blob]

\* Whether PutBatchProofRecord accepts a record with these hashes, whose
\* lengths are all it checks (tabulated once).
RecordStorable ==
    [hs \in PublicInputsHashes \X FillsHashes |->
        Codec!ValidBatchProofRecord([pih |-> HashBytes(hs[1]), fills |-> HashBytes(hs[2])])]

\* Whether PutVellumProof accepts the blob (tabulated once).
VellumProofStorable == [b \in Blobs |-> Codec!ValidVellumProof(BlobBytes(b))]
HasEnvelope(blob) == Parsed(blob).hasEnvelope
CircuitName(cid) ==
    IF cid = <<>> THEN "" ELSE CHOOSE c \in DOMAIN CircuitText : CircuitText[c] = cid
EnvelopeCircuitID(blob) == CircuitName(Parsed(blob).circuit)

\* zk.normalizeCircuitID / isSupportedCircuitID
NormalizeCircuitID(c) == IF c = "" THEN ProofCircuitClearHashV1 ELSE c
SupportedCircuitIDs == {ProofCircuitClearHashV1, ProofCircuitShieldedLedgerV1}

\* A faulty variant of the verifier below with no isSupportedCircuitID check.
ZkVerifyAnyCircuit(proofType, blob, pih) ==
    LET c == NormalizeCircuitID(EnvelopeCircuitID(blob)) IN
    /\ RequiredCircuitID = "" \/ c = RequiredCircuitID
    /\ proofType \in VerifyingKeyTypes
    /\ Parsed(blob).witness # <<>>
    /\ blob.ptype = proofType
    /\ blob.stmt = pih

\* zk.Verifier.Verify: required circuit, supported circuit, a verifying key
\* for the proof type, a public witness (raw blobs carry none), and the
\* pairing check, which holds only for the system and digest proven.
ZkVerify(proofType, blob, pih) ==
    LET c == NormalizeCircuitID(EnvelopeCircuitID(blob)) IN
    /\ RequiredCircuitID = "" \/ c = RequiredCircuitID
    /\ c \in SupportedCircuitIDs
    /\ proofType \in VerifyingKeyTypes
    /\ Parsed(blob).witness # <<>>
    /\ blob.ptype = proofType
    /\ blob.stmt = pih

\* verifyBatchProofInConsensus
VerifyBatchProofInConsensus(requiredType, blob, pih) ==
    /\ ~Parsed(blob).err
    /\ ~(HasEnvelope(blob) /\ Parsed(blob).ptype # requiredType)
    /\ IF verifier.installed THEN ZkVerify(requiredType, blob, pih)
                             ELSE ~verifier.strict

\* A faulty variant that hashes every circuit under the clear domain tag.
ExpectedPublicInputsHashOneTag(circuit, m, w, p, v, f) ==
    IF circuit \in {"", ProofCircuitClearHashV1, ProofCircuitShieldedLedgerV1}
    THEN PublicInputsDigest(ClearPublicInputsTag, m, w, p, v, f)
    ELSE NoValue

\* clear_batch.computeExpectedPublicInputsHash; NoValue is
\* ErrUnsupportedProofCircuit.
ExpectedPublicInputsHash(circuit, m, w, p, v, f) ==
    CASE circuit \in {"", ProofCircuitClearHashV1} ->
            PublicInputsDigest(ClearPublicInputsTag, m, w, p, v, f)
      [] circuit = ProofCircuitShieldedLedgerV1 ->
            PublicInputsDigest(ShieldedLedgerPublicInputsTag, m, w, p, v, f)
      [] OTHER -> NoValue

\* Domain tag of each circuit id (spec §4.3.2): shielded-ledger-v1 proves
\* VEIL_SHIELDED_LEDGER_V1 digests, clearhash-v1 and VZK1/raw envelopes
\* (no circuit id) prove VEIL_CLEAR_V1 digests.
CircuitTag(circuit) ==
    IF circuit = ProofCircuitShieldedLedgerV1 THEN ShieldedLedgerPublicInputsTag
                                              ELSE ClearPublicInputsTag

\* The digests a proof can carry that passes the pairing check of the
\* node's key: verifyGroth16/verifyPlonk use the one loaded key whatever
\* circuit id the envelope declares (the id only selects the identical
\* validateDigestVector), and that key proves only its own circuit's
\* statements: ShieldedLedgerCircuitV1 asserts its domain tag in the
\* preimage, ClearHashCircuit hashes a preimage of the clear layout.
ProvableDigests ==
    {d \in PublicInputsHashes : d[1] = CircuitTag(KeyCircuit)}

-----------------------------------------------------------------------------
(* State and actions                                                       *)

(* resolveZKConfig then installBatchProofVerifier (vm/option.go): a node  *)
(* with the verifier disabled and no key path fails closed onto the      *)
(* fixture key when that file exists (and then requires clearhash-v1,    *)
(* which RequiredCircuitID stands for); a disabled verifier installs nil  *)
(* with the configured strict flag.                                       *)
NodeVerifier(n) ==
    LET fallback == ~n.enabled /\ ~n.vkPath /\ n.fixture
    IN [installed |-> n.enabled \/ fallback, strict |-> n.strict \/ fallback]

NoBloodsworn == [total |-> 0, streak |-> 0, lastAt |-> 0, scars |-> 0]

Init ==
    /\ MarketInit
    /\ now = 0
    /\ proofConfig = GenesisProofConfig
    /\ commitment = [m \in Markets |-> [w \in Windows |-> [a \in Actors |-> NoValue]]]
    /\ batchProof = [m \in Markets |-> [w \in Windows |-> NoValue]]
    /\ vellumProof = [m \in Markets |-> [w \in Windows |-> NoValue]]
    /\ bloodsworn = [a \in Actors |-> NoBloodsworn]
    /\ glyph = [m \in Markets |-> [w \in Windows |-> NoValue]]
    /\ batch = [m \in Markets |-> [w \in Windows |-> NoValue]]
    /\ verifier \in {NodeVerifier(n) : n \in NodeSettings}
    /\ keysOK = TRUE

\* A block with a later timestamp; transactions of one block share it.
Tick ==
    /\ now < MaxTime
    /\ now' = now + 1
    /\ UNCHANGED <<marketVars, proofConfig, commitment, batchProof,
                   vellumProof, bloodsworn, glyph, batch>>


\* commit_order: the market must be Active; the commitment of (m, w, actor)
\* is overwritten (last write wins); no window phase is checked.
CommitOrder(actor, m, w, payload) ==
    /\ MarketActive(m)
    /\ commitment' = [commitment EXCEPT ![m][w][actor] = payload]
    /\ UNCHANGED <<marketVars, now, proofConfig, batchProof, vellumProof,
                   bloodsworn, glyph, batch>>

\* reveal_batch: any signer; writes window ++ share at OracleKey(m, index)
\* for whatever uint32 index the transaction names.
RevealBatch(m, w, index, share) ==
    /\ MarketActive(m)
    /\ oracle' = [oracle EXCEPT ![m][index] = OracleValue(w, share)]
    /\ UNCHANGED <<market, balance, batchVars>>

\* A faulty variant of the validation below that checks the type only.
ValidProofConfigTypeOnly(ptype, windowMs, deadlineMs) ==
    ptype \in {ProofTypeGroth16, ProofTypePlonk}

\* storage.validateProofConfig: a known proof type and a positive window
\* and deadline (the prover address is never zero in the model).
ValidProofConfig(ptype, windowMs, deadlineMs) ==
    /\ ptype \in {ProofTypeGroth16, ProofTypePlonk}
    /\ windowMs > 0
    /\ deadlineMs > 0

\* set_proof_config: governance replaces the ProofConfig singleton through
\* storage.PutProofConfig, which validates it.
SetProofConfig(actor, require, ptype, windowMs, deadlineMs, prover) ==
    /\ actor = Governance
    /\ ValidProofConfig(ptype, windowMs, deadlineMs)
    /\ proofConfig' = [requireProof |-> require, ptype |-> ptype,
                       windowMs |-> windowMs, deadlineMs |-> deadlineMs,
                       prover |-> prover]
    /\ UNCHANGED <<marketVars, now, commitment, batchProof, vellumProof,
                   bloodsworn, glyph, batch>>

\* A faulty variant that skips the exactly-once check below.
ProofSlotAlwaysFree(m, w) == TRUE

\* submit_batch_proof: GetBatchProofRecord must report ErrProofNotFound.
ProofNotYetSubmitted(m, w) == batchProof[m][w] = NoValue

\* GetBloodsworn, the counters of one more accepted proof, PutBloodsworn:
\* an absent row reads as the zero row.
AcceptedProofBloodsworn(b, t) ==
    [b EXCEPT !.total = @ + 1, !.streak = @ + 1, !.lastAt = t]

\* submit_batch_proof's checks of the chain state that come before any
\* per-window check: an Active market, proof-gated mode, the prover
\* authority.
SubmitBatchProofAllowed(actor, m) ==
    /\ MarketActive(m)
    /\ proofConfig.requireProof
    /\ actor = proofConfig.prover

\* submit_batch_proof: input and market checks, the prover authority,
\* proof type and window alignment of the current config, the deadline
\* window [close, close + deadline], exactly-once, the consensus verifier;
\* then the record, the vellum proof, the prover's Bloodsworn counters and
\* the window's Glyph are written.
SubmitBatchProof(actor, m, w, close, ptype, pih, fills, blob, e) ==
    /\ close > 0
    /\ ptype # 0
    /\ SubmitBatchProofAllowed(actor, m)
    /\ ptype = proofConfig.ptype
    /\ close % proofConfig.windowMs = 0
    /\ now >= close
    /\ now <= close + proofConfig.deadlineMs
    /\ ProofNotYetSubmitted(m, w)
    /\ VerifyBatchProofInConsensus(proofConfig.ptype, blob, pih)
    /\ LET rec == [ptype |-> ptype, submittedAt |-> now, closeAt |-> close,
                   prover |-> actor, commitment |-> ProofCommitment(blob),
                   pih |-> pih, fills |-> fills]
           g == DeriveGlyph(actor, ProofCommitment(blob), pih, now, e)
       IN \* a Put that refuses its row fails the transaction, rolled back
          /\ RecordStorable[pih, fills]
          /\ VellumProofStorable[blob]
          /\ Codec!ValidGlyph(g)
          /\ batchProof' = [batchProof EXCEPT ![m][w] = rec]
          /\ vellumProof' = [vellumProof EXCEPT ![m][w] = blob]
          /\ bloodsworn' = [bloodsworn EXCEPT ![actor] = AcceptedProofBloodsworn(@, now)]
          /\ glyph' = [glyph EXCEPT ![m][w] = g]
    /\ UNCHANGED <<marketVars, now, proofConfig, commitment, batch>>

\* A faulty variant of the gate below that trusts the stored record and
\* neither recomputes the public-input hash nor re-verifies the proof.
ClearProofGateTrustingRecord(actor, m, w, price, volume, fills) ==
    \/ ~proofConfig.requireProof
    \/ /\ proofConfig.requireProof
       /\ actor = proofConfig.prover
       /\ batchProof[m][w] # NoValue
       /\ batchProof[m][w].ptype = proofConfig.ptype
       /\ batchProof[m][w].fills = fills

\* clear_batch, proof-gated mode: only the prover authority; the record
\* must exist, match the current required type and deadline, carry the
\* same fills hash; the vellum proof must match the record's commitment;
\* the public-input hash recomputed for the envelope's circuit from the
\* clear inputs must equal the recorded one, and the proof must verify
\* against it.  With RequireProof off anyone may clear.
ClearProofGate(actor, m, w, price, volume, fills) ==
    \/ ~proofConfig.requireProof
    \/ LET rec == batchProof[m][w]
           blob == vellumProof[m][w]
           expected == ExpectedPublicInputsHash(EnvelopeCircuitID(blob),
                                                m, w, price, volume, fills)
       IN /\ proofConfig.requireProof
          /\ actor = proofConfig.prover
          /\ rec # NoValue
          /\ rec.ptype = proofConfig.ptype
          /\ rec.submittedAt <= rec.closeAt + proofConfig.deadlineMs
          /\ rec.fills = fills
          /\ blob # NoValue
          /\ ProofCommitment(blob) = rec.commitment
          /\ expected # NoValue
          /\ rec.pih = expected
          /\ VerifyBatchProofInConsensus(rec.ptype, blob, expected)

\* clear_batch: non-zero price, market Active, the proof gate, then the
\* Batch row is written with no check of an existing one.
ClearBatch(actor, m, w, price, volume, fills) ==
    /\ price # 0
    /\ MarketActive(m)
    /\ ClearProofGate(actor, m, w, price, volume, fills)
    /\ batch' = [batch EXCEPT ![m][w] =
                   [price |-> price, volume |-> volume, fills |-> fills]]
    /\ UNCHANGED <<marketVars, now, proofConfig, commitment, batchProof,
                   vellumProof, bloodsworn, glyph>>

-----------------------------------------------------------------------------
(* The StateKeys of the batch actions.                                     *)

CommitOrderKeys(actor, m, w) ==
    StateKeys(<<<<MarketKey(m), Read>>, <<CommitmentKey(m, w, actor), All>>>>)

RevealBatchKeys(m, index) ==
    StateKeys(<<<<MarketKey(m), Read>>, <<OracleKey(m, index), All>>>>)

SetProofConfigKeys ==
    StateKeys(<<<<TreasuryConfigKey, Read>>, <<ProofConfigKey, Read \cup Write>>>>)

SubmitBatchProofKeys(actor, m, w) ==
    StateKeys(<<<<MarketKey(m), Read>>, <<ProofConfigKey, Read>>,
                <<BatchProofKey(m, w), All>>, <<VellumProofKey(m, w), All>>,
                <<BloodswornKey(actor), All>>, <<GlyphKey(m, w), All>>>>)

\* A faulty variant of the StateKeys below that declares the Batch row
\* read-only.
ClearBatchKeysReadOnly(m, w) ==
    StateKeys(<<<<MarketKey(m), Read>>, <<BatchKey(m, w), Read>>,
                <<ProofConfigKey, Read>>, <<BatchProofKey(m, w), Read>>,
                <<VellumProofKey(m, w), Read>>>>)

ClearBatchKeys(m, w) ==
    StateKeys(<<<<MarketKey(m), Read>>, <<BatchKey(m, w), All>>,
                <<ProofConfigKey, Read>>, <<BatchProofKey(m, w), Read>>,
                <<VellumProofKey(m, w), Read>>>>)

\* The transaction's step stays within the keys it declared writable.
Declared(keys) ==
    keysOK' = (keysOK /\ BatchChangedKeys \subseteq Writable(keys))

\* Every step runs on the node's verifier setting; vm/option.go sets it
\* once, at Initialize.
Next ==
    /\ UNCHANGED verifier
    /\ \/ \E a \in Actors, m \in Markets, n \in OutcomeCounts, b \in Bonds :
             /\ CreateMarket(a, m, n, b)
             /\ UNCHANGED batchVars
             /\ Declared(CreateMarketKeys(a, m))
       \/ \E m \in Markets, o \in 0..MaxOutcomeCount :
             /\ ResolveMarket(m, o)
             /\ UNCHANGED batchVars
             /\ Declared(ResolveMarketKeys(m))
       \/ \E a \in Actors, m \in Markets, b \in Bonds, e \in Evidence :
             /\ Dispute(a, m, b, e)
             /\ UNCHANGED batchVars
             /\ Declared(DisputeKeys(a, m))
       \/ Tick /\ UNCHANGED keysOK
       \/ \E a \in Actors, m \in Markets, w \in Windows, p \in OrderPayloads :
             CommitOrder(a, m, w, p) /\ Declared(CommitOrderKeys(a, m, w))
       \/ \E m \in Markets, w \in Windows, i \in ValidatorIndexes, s \in Shares :
             RevealBatch(m, w, i, s) /\ Declared(RevealBatchKeys(m, i))
       \/ \E r \in RequireChoices, t \in ProofTypeChoices, wm \in WindowMsChoices,
             d \in DeadlineChoices, p \in ProverChoices :
             SetProofConfig(Governance, r, t, wm, d, p) /\ Declared(SetProofConfigKeys)
       \/ \E a \in ProverChoices, m \in Markets :
           SubmitBatchProofAllowed(a, m) /\
           \E w \in Windows, close \in 1..MaxTime, t \in ProofTypeChoices,
             pih \in PublicInputsHashes, f \in FillsHashes, b \in BlobShapes :
           \E proves \in IF pih \in ProvableDigests THEN {pih, NoValue} ELSE {NoValue} :
             \E e \in GlyphEntropies :
             /\ SubmitBatchProof(a, m, w, close, t, pih, f, Blob(b, proves), e)
             /\ Declared(SubmitBatchProofKeys(a, m, w))
       \/ \E a \in Actors, m \in Markets, w \in Windows, p \in Prices,
             v \in Volumes, f \in FillsHashes :
             ClearBatch(a, m, w, p, v, f) /\ Declared(ClearBatchKeys(m, w))

Spec == Init /\ [][Next]_vars

-----------------------------------------------------------------------------
(* Properties                                                              *)

BatchRecords ==
    [ptype : ProofTypeChoices \cup {GenesisProofConfig.ptype},
     submittedAt : 0..MaxTime, closeAt : 1..MaxTime, prover : Actors,
     commitment : {ProofCommitment(b) : b \in Blobs},
     pih : PublicInputsHashes, fills : FillsHashes]

TypeOK ==
    /\ MarketTypeOK
    /\ oracle \in [Markets -> [OracleSlots ->
                     {NoValue} \cup [prefix : Windows \cup Bonds,
                                     data : Shares \cup Evidence]]]
    /\ proofConfig \in [requireProof : BOOLEAN,
                        ptype : {ProofTypeGroth16, ProofTypePlonk},
                        windowMs : Nat, deadlineMs : Nat, prover : Actors]
    /\ proofConfig.windowMs > 0 /\ proofConfig.deadlineMs > 0
    /\ now \in 0..MaxTime
    /\ commitment \in [Markets -> [Windows -> [Actors -> OrderPayloads \cup {NoValue}]]]
    /\ batchProof \in [Markets -> [Windows -> BatchRecords \cup {NoValue}]]
    /\ vellumProof \in [Markets -> [Windows -> Blobs \cup {NoValue}]]
    /\ bloodsworn \in [Actors -> [total : Nat, streak : Nat,
                                  lastAt : 0..MaxTime, scars : Nat]]
    /\ batch \in [Markets -> [Windows -> {NoValue} \cup
                    [price : Prices, volume : Volumes, fills : FillsHashes]]]

\* Every Batch row written by clear_batch in proof-gated mode stands on a
\* proof record and a stored proof of the same window whose public-input
\* hash is the digest, under the domain tag of the proof's own circuit, of
\* exactly the cleared (market, window, price, volume, fills), and, when a
\* verifier is installed, the stored proof verifies for that digest.  The
\* record is written by submit_batch_proof under one config and read by
\* clear_batch under a possibly different one.
ClearedBatchIsProven ==
    \A m \in Markets, w \in Windows :
        batch[m][w] # NoValue =>
            LET b == batch[m][w]
                rec == batchProof[m][w]
                blob == vellumProof[m][w]
            IN /\ rec # NoValue
               /\ blob # NoValue
               /\ rec.fills = b.fills
               /\ rec.pih = PublicInputsDigest(CircuitTag(EnvelopeCircuitID(blob)),
                                               m, w, b.price, b.volume, b.fills)
               /\ verifier.installed => ZkVerify(rec.ptype, blob, rec.pih)

\* A proof that submit_batch_proof accepted on a verifying node stays
\* clearable: while the market is Active and the proof config still
\* requires the record's type within its deadline, the prover authority
\* can clear the window with the tuple inside the recorded digest.
\* submit verifies against the config and digest it is given and leaves
\* "canonical public-input binding" to clear_batch, which recomputes the
\* digest for the stored envelope's circuit, re-parses and re-verifies the
\* stored bytes; the record can never be resubmitted, so any check clear
\* makes that submit did not leaves the window proven and never cleared.
\* The record's fills hash and window are those inside its digest: submit
\* does not compare them (submit_batch_proof.go:165).  Left out: a stored
\* envelope that declares a circuit of the other digest domain than the
\* node's key.  submit accepts it (the key checks the proof, not the id)
\* and clear recomputes the digest under the declared domain, so that
\* window is never cleared; see the README.
ProvenWindowClearable ==
    \A m \in Markets, w \in Windows :
        LET rec == batchProof[m][w]
            d == rec.pih
        IN (/\ verifier.installed
            /\ rec # NoValue
            /\ CircuitTag(NormalizeCircuitID(EnvelopeCircuitID(vellumProof[m][w])))
                  = CircuitTag(KeyCircuit)
            /\ d[2] = m /\ d[3] = w /\ d[6] = rec.fills
            /\ MarketActive(m)
            /\ proofConfig.requireProof
            /\ proofConfig.ptype = rec.ptype
            /\ rec.submittedAt <= rec.closeAt + proofConfig.deadlineMs)
           => \* the guards of ClearBatch, which then only writes the Batch row
              /\ d[4] # 0
              /\ ClearProofGate(proofConfig.prover, m, w, d[4], d[5], d[6])

\* The payload the builders produce for the fields parseProofEnvelope read:
\* BuildProofEnvelope for VZK1, BuildProofEnvelopeWithCircuit for VZK2.
RebuiltEnvelope(p) ==
    IF p.circuit = <<>> THEN BuildProofEnvelope(p.ptype, p.proof, p.witness)
    ELSE BuildProofEnvelopeWithCircuit(p.ptype, p.circuit, p.proof, p.witness)

\* The consensus parser accepts only canonical envelopes: every VellumProof
\* that submit_batch_proof stored with an envelope is byte for byte what the
\* builders produce for the proof type, circuit id, proof and witness the
\* parser read out of it.  A parser that accepts trailing bytes, a circuit
\* id the builder refuses or misreads a length field lets several byte
\* strings, with several ProofCommitments, stand for one proof.
StoredProofCanonical ==
    \A m \in Markets, w \in Windows :
        LET blob == vellumProof[m][w] IN
        (blob # NoValue /\ HasEnvelope(blob)) =>
            RebuiltEnvelope(Parsed(blob)) = Built(BlobBytes(blob))

\* Every transaction of the market and batch actions changes only rows that
\* its StateKeys declares writable.  hypersdk plans conflicts and parallel
\* execution from these declarations, so a row written outside them (a key
\* built from other ids than the ones the action writes, a row declared
\* Read) breaks that plan.  The check spans every parameter: a reveal at
\* the dispute index, a commitment of any signer, a re-clear.
WritesDeclared == keysOK

\* A prover's Bloodsworn TotalAcceptedProofs equals the number of windows
\* whose proof record names it: submit_batch_proof increments the counter
\* exactly when it writes a record, and records are never rewritten.
BloodswornCountsRecords ==
    \A a \in Actors :
        bloodsworn[a].total =
            Cardinality({mw \in Markets \X Windows :
                            /\ batchProof[mw[1]][mw[2]] # NoValue
                            /\ batchProof[mw[1]][mw[2]].prover = a})

-----------------------------------------------------------------------------
(* The RPC views of the proof rows (vm/server.go): each decodes the bytes *)
(* its Put stored, with the Get of storage.go.                              *)

\* BatchProof: GetBatchProofRecord of the stored record.
BatchProofView(m, w) ==
    IF batchProof[m][w] = NoValue THEN Codec!GetError
    ELSE Codec!GetBatchProofRecord(
             Codec!PutBatchProofRecord(RecordBytes(batchProof[m][w])).bytes)

\* VellumProof: GetVellumProofFromState of the stored proof.
VellumProofView(m, w) ==
    IF vellumProof[m][w] = NoValue THEN Codec!GetError
    ELSE Codec!GetVellumProof(Codec!PutVellumProof(BlobBytes(vellumProof[m][w])).bytes)

\* scoreBloodswornTrust: trust in basis points and its tier.
ScoreBloodswornTrust(b) ==
    LET proofBoost == IF b.total * 15 > 3500 THEN 3500 ELSE b.total * 15
        streakBoost == IF b.streak * 25 > 1500 THEN 1500 ELSE b.streak * 25
        raw == 5000 + proofBoost + streakBoost
        penalty == b.scars * 700
        score == IF penalty >= raw THEN 0
                 ELSE IF raw - penalty > 10000 THEN 10000 ELSE raw - penalty
    IN IF b.total = 0 THEN [bips |-> 0, tier |-> "Unproven"]
       ELSE [bips |-> score,
             tier |-> CASE score >= 9000 -> "Mythic"
                        [] score >= 7500 -> "Legend"
                        [] score >= 6000 -> "Proven"
                        [] score >= 4000 -> "Rising"
                        [] score > 0 -> "Fragile"
                        [] OTHER -> "Unproven"]

\* Bloodsworn: GetBloodswornFromState (a missing row reads as zero
\* counters; submit writes the row with a counter of at least one), then
\* the trust score.
BloodswornView(a) ==
    LET r == Codec!GetBloodsworn(bloodsworn[a] # NoBloodsworn,
                                 Codec!PutBloodsworn(bloodsworn[a]))
    IN [ok |-> r.ok, val |-> r.val, trust |-> ScoreBloodswornTrust(r.val)]

\* Glyph: GetGlyphFromState of the stored glyph.
GlyphView(m, w) ==
    IF glyph[m][w] = NoValue THEN Codec!GetError
    ELSE Codec!GetGlyph(Codec!PutGlyph(GlyphBytes(glyph[m][w])).bytes)

\* What the RPC server reports of an accepted proof is what
\* submit_batch_proof was given: BatchProof returns the record with its
\* length-prefixed public-input and fills hashes, VellumProof the proof
\* bytes; Glyph names the same prover, commitment, public-input hash and
\* time, with the class and rarity deriveGlyph computes from the entropy
\* it returns; and Bloodsworn reads "Unproven" for exactly the provers no
\* record names.  An offset slip in the length-prefixed decoding, a glyph
\* field written out of order or a trust tier off at zero breaks it.
ProofRowsReadBack ==
    /\ \A m \in Markets, w \in Windows :
          LET rec == batchProof[m][w]
              g == GlyphView(m, w).val
          IN rec # NoValue =>
               /\ BatchProofView(m, w) = [ok |-> TRUE, val |-> RecordBytes(rec)]
               /\ VellumProofView(m, w) = [ok |-> TRUE, val |-> BlobBytes(vellumProof[m][w])]
               /\ GlyphView(m, w).ok
               /\ g.prover = rec.prover /\ g.createdAt = rec.submittedAt
               /\ g.commitment = HashBytes(rec.commitment) /\ g.pih = HashBytes(rec.pih)
               /\ g.class = DeriveGlyphClass(SubSeq(g.entropy, 1, 3))
               /\ g.rarity = DeriveGlyphRarity(SubSeq(g.entropy, 1, 3))
    /\ \A a \in Actors :
          /\ BloodswornView(a).ok
          /\ (BloodswornView(a).trust.tier = "Unproven"
                 <=> \A m \in Markets, w \in Windows :
                        batchProof[m][w] = NoValue \/ batchProof[m][w].prover # a)

\* Spec §3 / §4.2.4: clear_batch writes a window's Batch exactly once; a
\* written clear result is never replaced.
BatchWrittenOnce ==
    [][\A m \in Markets, w \in Windows :
          batch[m][w] # NoValue => batch'[m][w] = batch[m][w]]_vars

\* Spec §9: the dispute slot (validator index 0xFFFFFFFF) is reserved and
\* excluded from oracle reveals: the slot holds a value only for a
\* market that dispute has moved to Disputed.
DisputeSlotOnlyForDisputes ==
    \A m \in Markets :
        oracle[m][DisputeValidatorIndex] # NoValue =>
            market[m] # NoValue /\ market[m].status = MarketStatusDisputed

\* The refinement mapping: a window is proven for the tuple inside its
\* recorded public-input digest, and cleared with its Batch row.
ProvenStatement ==
    [m \in Markets |-> [w \in Windows |->
        IF batchProof[m][w] = NoValue THEN NoValue
                                      ELSE Tail(batchProof[m][w].pih)]]

BW == INSTANCE BatchWindow WITH proven <- ProvenStatement, cleared <- batch

\* The batch auction implements BatchWindow: proofs and clears are each
\* written once per window, and a clear carries the proven tuple.
BatchWindowRefinement == BW!Spec
=============================================================================
