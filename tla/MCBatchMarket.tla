--------------------------- MODULE MCBatchMarket ---------------------------
(***************************************************************************)
(* Model-checking instances of BatchMarket: one market, model-value       *)
(* actors, two windows, and proof blobs of every envelope kind for every *)
(* digest a prover can claim.                                             *)
(***************************************************************************)
EXTENDS BatchMarket, TLC

CONSTANTS gov, prv, usr   \* governance, prover authority, plain user

MCActors == {gov, prv, usr}
MCInitBalance == [a \in MCActors |-> 1]

\* The genesis config of genesis.applyTokenomicsDefaults shape: proofs
\* required, Groth16, the prover authority set.
MCGenesisProofConfig ==
    [requireProof |-> TRUE, ptype |-> ProofTypeGroth16, windowMs |-> 2,
     deadlineMs |-> 1, prover |-> prv]

\* Node settings (vm/option.go): a node with the verifier enabled, strict
\* and a Groth16 key path (no required circuit), and the development
\* setting with no verifier, no key, no fixture key and strict off.
MCStrictNode == [enabled |-> TRUE, strict |-> TRUE, vkPath |-> TRUE, fixture |-> FALSE]
MCDevNode == [enabled |-> FALSE, strict |-> FALSE, vkPath |-> FALSE, fixture |-> FALSE]
MCStrictNodes == {MCStrictNode}
MCDevNodes == {MCDevNode}
MCBothNodes == {MCStrictNode, MCDevNode}

\* Proof blob shapes: a legacy raw blob, a VZK1 envelope and VZK2
\* envelopes for the given circuit ids, of each given proof type.
BlobShapesOf(envs, types, circuits) ==
    UNION {[env : {e}, ptype : types,
            circuit : IF e = "v2" THEN circuits ELSE {""},
            stmt : {NoValue}] : e \in envs}

\* Blobs no builder produces: a VZK1 payload with a trailing byte, a raw
\* proof beginning with the VZK1 magic, and a VZK2 layout around a circuit
\* id with an upper-case letter.
MCBlobShapesMalformed ==
    [env : {"v1tail", "rawmagic"}, ptype : {ProofTypeGroth16}, circuit : {""},
     stmt : {NoValue}]
    \cup [env : {"v2forged"}, ptype : {ProofTypeGroth16},
          circuit : {"ClearHash-v1"}, stmt : {NoValue}]

\* The characters of the circuit id strings the blobs carry.
MCCircuitText ==
    ("clearhash-v1" :> <<"c", "l", "e", "a", "r", "h", "a", "s", "h", "-", "v", "1">>)
    @@ ("clearhash-v2" :> <<"c", "l", "e", "a", "r", "h", "a", "s", "h", "-", "v", "2">>)
    @@ ("shielded-ledger-v1" :> <<"s", "h", "i", "e", "l", "d", "e", "d", "-",
                                  "l", "e", "d", "g", "e", "r", "-", "v", "1">>)
    @@ ("ClearHash-v1" :> <<"C", "l", "e", "a", "r", "H", "a", "s", "h", "-", "v", "1">>)

\* Every envelope kind, both proof types, the two supported circuits and
\* one unsupported but well-formed circuit id.
MCBlobShapesAll ==
    BlobShapesOf({"raw", "v1", "v2"}, {ProofTypeGroth16, ProofTypePlonk},
                 {ProofCircuitClearHashV1, ProofCircuitShieldedLedgerV1,
                  "clearhash-v2"})

\* Groth16 blobs of every envelope kind; VZK2 for the shielded-ledger
\* circuit and for an unsupported circuit id.
MCBlobShapesGroth16 ==
    BlobShapesOf({"raw", "v1", "v2"}, {ProofTypeGroth16},
                 {ProofCircuitShieldedLedgerV1, "clearhash-v2"})

\* Groth16 VZK1 and clearhash-v1 VZK2 blobs, and the malformed ones.
MCBlobShapesEnvelopes ==
    BlobShapesOf({"v1", "v2"}, {ProofTypeGroth16}, {ProofCircuitClearHashV1})
    \cup MCBlobShapesMalformed

\* A single Groth16 VZK1 blob shape.
MCBlobShapesV1 == BlobShapesOf({"v1"}, {ProofTypeGroth16}, {})

\* First three entropy bytes: a Mythic Cipher glyph (roll 0, byte 2 = 2)
\* and a Common Relic one (roll 9999, byte 2 = 5).
MCGlyphEntropies == {<<0, 1, 2>>, <<255, 255, 5>>}
MCGlyphEntropyOne == {<<255, 255, 5>>}
=============================================================================
