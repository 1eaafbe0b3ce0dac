\* The market lifecycle and the order flow, with governance switching
\* proof-gated mode on and off, on a node with no verifier installed.
CONSTANTS
    Markets = {m1}
    gov = gov
    prv = prv
    usr = usr
    Actors <- MCActors
    InitBalance <- MCInitBalance
    OutcomeCounts = {2}
    Bonds = {1}
    Evidence = {e1}
    ValidatorIndexes = {0}
    DisputeValidatorIndex = idxFFFFFFFF
    NoValue = NoValue
    Windows = {1}
    OrderPayloads = {o1}
    Shares = {s1}
    Prices = {1}
    Volumes = {1}
    FillsHashes = {f1}
    BlobShapes <- MCBlobShapesEnvelopes
    CircuitText <- MCCircuitText
    MaxProofBytesSize = 131072
    MaxTime = 3
    Governance = gov
    GenesisProofConfig <- MCGenesisProofConfig
    RequireChoices = {TRUE, FALSE}
    ProofTypeChoices = {1}
    WindowMsChoices = {2}
    DeadlineChoices = {0, 1}
    ProverChoices = {prv}
    NodeSettings <- MCDevNodes
    VerifyingKeyTypes = {1}
    RequiredCircuitID = ""
    KeyCircuit = "clearhash-v1"
    GlyphEntropies <- MCGlyphEntropies
SPECIFICATION Spec
INVARIANTS StoredProofCanonical
    WritesDeclared
    BloodswornCountsRecords
    ProofRowsReadBack
PROPERTIES
    MarketStatusMonotone
