\* Proof-gated chain with a strict verifier where governance may turn
\* proof-gated mode off after a window has been cleared with a proof.
CONSTANTS
    Markets = {m1}
    gov = gov
    prv = prv
    usr = usr
    Actors <- MCActors
    InitBalance <- MCInitBalance
    OutcomeCounts = {2}
    Bonds = {1}
    Evidence = {e1}
    ValidatorIndexes = {0}
    DisputeValidatorIndex = idxFFFFFFFF
    NoValue = NoValue
    Windows = {1}
    OrderPayloads = {o1}
    Shares = {s1}
    Prices = {1, 2}
    Volumes = {1}
    FillsHashes = {f1}
    BlobShapes <- MCBlobShapesV1
    CircuitText <- MCCircuitText
    MaxProofBytesSize = 131072
    MaxTime = 3
    Governance = gov
    GenesisProofConfig <- MCGenesisProofConfig
    RequireChoices = {TRUE, FALSE}
    ProofTypeChoices = {1}
    WindowMsChoices = {2}
    DeadlineChoices = {1}
    ProverChoices = {prv}
    NodeSettings <- MCStrictNodes
    VerifyingKeyTypes = {1}
    RequiredCircuitID = ""
    KeyCircuit = "clearhash-v1"
    GlyphEntropies <- MCGlyphEntropyOne
SPECIFICATION Spec
PROPERTIES
    BatchWrittenOnce
