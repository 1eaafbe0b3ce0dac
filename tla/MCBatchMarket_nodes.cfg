\* Proof-gated chain on either node setting of vm/option.go: a strict
\* verifier with a Groth16 key only, or no verifier with strict off.
CONSTANTS
    Markets = {m1}
    gov = gov
    prv = prv
    usr = usr
    Actors <- MCActors
    InitBalance <- MCInitBalance
    OutcomeCounts = {2}
    Bonds = {1}
    Evidence = {e1}
    ValidatorIndexes = {0}
    DisputeValidatorIndex = idxFFFFFFFF
    NoValue = NoValue
    Windows = {1}
    OrderPayloads = {o1}
    Shares = {s1}
    Prices = {1, 2}
    Volumes = {1}
    FillsHashes = {f1}
    BlobShapes <- MCBlobShapesAll
    CircuitText <- MCCircuitText
    MaxProofBytesSize = 131072
    MaxTime = 3
    Governance = gov
    GenesisProofConfig <- MCGenesisProofConfig
    RequireChoices = {TRUE}
    ProofTypeChoices = {1, 2}
    WindowMsChoices = {2}
    DeadlineChoices = {0, 1}
    ProverChoices = {prv}
    NodeSettings <- MCBothNodes
    VerifyingKeyTypes = {1}
    RequiredCircuitID = ""
    KeyCircuit = "clearhash-v1"
    GlyphEntropies <- MCGlyphEntropyOne
SPECIFICATION Spec
INVARIANTS
    TypeOK
    ClearedBatchIsProven
    ProvenWindowClearable
PROPERTIES
    BatchWindowRefinement
