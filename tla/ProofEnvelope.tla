---------------------------- MODULE ProofEnvelope -----------------------------
(***************************************************************************)
(* The proof envelopes of veilvm (src/actions/proof_verifier.go): the    *)
(* builders of VZK1 and VZK2 payloads and the parser the consensus       *)
(* verifier runs on every submitted proof blob.  A blob is a sequence of *)
(* bytes; header bytes are naturals below 256, the circuit id is the      *)
(* sequence of its characters (one-character strings), and the proof and *)
(* public-witness bytes are opaque: each is given as a short sequence of  *)
(* tokens, since only their lengths and positions matter to the parser.   *)
(***************************************************************************)
EXTENDS Integers, Sequences

CONSTANT MaxProofBytesSize   \* actions.MaxProofBytesSize

MagicV1 == <<86, 90, 75, 49>>   \* "VZK1"
MagicV2 == <<86, 90, 75, 50>>   \* "VZK2"
V1HeaderLen == 13   \* magic(4) + proof_type(1) + proof_len(4) + witness_len(4)
V2HeaderLen == 14   \* magic(4) + proof_type(1) + circuit_len(1) + lengths(8)
MaxProofCircuitIDLen == 63

\* binary.BigEndian.AppendUint32, and Uint32 of blob[i..i+3] (1-based).
Uint32BE(n) ==
    <<(n \div 16777216) % 256, (n \div 65536) % 256, (n \div 256) % 256, n % 256>>
ReadUint32BE(s, i) == ((s[i] * 256 + s[i + 1]) * 256 + s[i + 2]) * 256 + s[i + 3]

\* The characters isValidProofCircuitID admits; a rune above 127 is none
\* of them.
IDChars ==
    {"a", "b", "c", "d", "e", "f", "g", "h", "i", "j", "k", "l", "m", "n",
     "o", "p", "q", "r", "s", "t", "u", "v", "w", "x", "y", "z",
     "0", "1", "2", "3", "4", "5", "6", "7", "8", "9", "-", "_", "."}

IsValidProofCircuitID(cid) ==
    /\ Len(cid) \in 1..MaxProofCircuitIDLen
    /\ \A i \in 1..Len(cid) : cid[i] \in IDChars

\* strings.TrimSpace on the characters of a circuit id (spaces only).
RECURSIVE TrimSpace(_)
TrimSpace(s) ==
    IF s # <<>> /\ Head(s) = " " THEN TrimSpace(Tail(s))
    ELSE IF s # <<>> /\ s[Len(s)] = " " THEN TrimSpace(SubSeq(s, 1, Len(s) - 1))
    ELSE s

-----------------------------------------------------------------------------
(* Builders: an error, or the payload.                                     *)

BuildError == [err |-> TRUE, bytes |-> <<>>]
Built(bytes) == [err |-> FALSE, bytes |-> bytes]

EnvelopeV1Layout(t, proof, wit) ==
    MagicV1 \o <<t>> \o Uint32BE(Len(proof)) \o Uint32BE(Len(wit)) \o proof \o wit

EnvelopeV2Layout(t, cid, proof, wit) ==
    MagicV2 \o <<t, Len(cid)>> \o Uint32BE(Len(proof)) \o Uint32BE(Len(wit))
        \o cid \o proof \o wit

\* BuildProofEnvelope
BuildProofEnvelope(t, proof, wit) ==
    IF \/ t = 0 \/ Len(proof) = 0 \/ Len(proof) > MaxProofBytesSize
       \/ Len(wit) = 0
       \/ V1HeaderLen + Len(proof) + Len(wit) > MaxProofBytesSize
    THEN BuildError
    ELSE Built(EnvelopeV1Layout(t, proof, wit))

\* BuildProofEnvelopeWithCircuit
BuildProofEnvelopeWithCircuit(t, circuitID, proof, wit) ==
    LET cid == TrimSpace(circuitID) IN
    IF \/ t = 0 \/ Len(proof) = 0 \/ Len(proof) > MaxProofBytesSize
       \/ Len(wit) = 0
       \/ ~IsValidProofCircuitID(cid)
       \/ V2HeaderLen + Len(cid) + Len(proof) + Len(wit) > MaxProofBytesSize
    THEN BuildError
    ELSE Built(EnvelopeV2Layout(t, cid, proof, wit))

-----------------------------------------------------------------------------
(* parseProofEnvelope: [err, ptype, circuit, proof, witness, hasEnvelope]. *)

Unwrapped(blob) ==
    [err |-> FALSE, ptype |-> 0, circuit |-> <<>>, proof |-> blob,
     witness |-> <<>>, hasEnvelope |-> FALSE]
InvalidEnvelope ==
    [err |-> TRUE, ptype |-> 0, circuit |-> <<>>, proof |-> <<>>,
     witness |-> <<>>, hasEnvelope |-> FALSE]

\* A faulty variant of parseProofEnvelopeV1 that accepts trailing bytes.
ParseProofEnvelopeV1AnyTail(blob) ==
    IF Len(blob) < V1HeaderLen THEN InvalidEnvelope
    ELSE LET pl == ReadUint32BE(blob, 6)
             wl == ReadUint32BE(blob, 10)
         IN IF pl <= 0 \/ wl <= 0 \/ Len(blob) < V1HeaderLen + pl + wl
            THEN InvalidEnvelope
            ELSE [err |-> FALSE, ptype |-> blob[5], circuit |-> <<>>,
                  proof |-> SubSeq(blob, V1HeaderLen + 1, V1HeaderLen + pl),
                  witness |-> SubSeq(blob, V1HeaderLen + pl + 1, V1HeaderLen + pl + wl),
                  hasEnvelope |-> TRUE]

\* parseProofEnvelopeV1
ParseProofEnvelopeV1(blob) ==
    IF Len(blob) < V1HeaderLen THEN InvalidEnvelope
    ELSE LET pl == ReadUint32BE(blob, 6)
             wl == ReadUint32BE(blob, 10)
         IN IF pl <= 0 \/ wl <= 0 \/ Len(blob) # V1HeaderLen + pl + wl
            THEN InvalidEnvelope
            ELSE [err |-> FALSE, ptype |-> blob[5], circuit |-> <<>>,
                  proof |-> SubSeq(blob, V1HeaderLen + 1, V1HeaderLen + pl),
                  witness |-> SubSeq(blob, V1HeaderLen + pl + 1, Len(blob)),
                  hasEnvelope |-> TRUE]

\* parseProofEnvelopeV2
ParseProofEnvelopeV2(blob) ==
    IF Len(blob) < V2HeaderLen THEN InvalidEnvelope
    ELSE LET cl == blob[6]
             pl == ReadUint32BE(blob, 7)
             wl == ReadUint32BE(blob, 11)
             cid == SubSeq(blob, V2HeaderLen + 1, V2HeaderLen + cl)
         IN IF \/ cl <= 0 \/ cl > MaxProofCircuitIDLen \/ pl <= 0 \/ wl <= 0
               \/ Len(blob) # V2HeaderLen + cl + pl + wl
               \/ ~IsValidProofCircuitID(cid)
            THEN InvalidEnvelope
            ELSE [err |-> FALSE, ptype |-> blob[5], circuit |-> cid,
                  proof |-> SubSeq(blob, V2HeaderLen + cl + 1, V2HeaderLen + cl + pl),
                  witness |-> SubSeq(blob, V2HeaderLen + cl + pl + 1, Len(blob)),
                  hasEnvelope |-> TRUE]

\* parseProofEnvelope: a blob shorter than the magic, or with another
\* prefix, is a legacy raw proof.
ParseProofEnvelope(blob) ==
    CASE Len(blob) < 4 -> Unwrapped(blob)
      [] SubSeq(blob, 1, 4) = MagicV1 -> ParseProofEnvelopeV1(blob)
      [] SubSeq(blob, 1, 4) = MagicV2 -> ParseProofEnvelopeV2(blob)
      [] OTHER -> Unwrapped(blob)
=============================================================================
