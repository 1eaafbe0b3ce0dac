---------------------------- MODULE StorageCodec ----------------------------
(***************************************************************************)
(* The byte layout of the nine singleton rows (src/storage/storage.go).   *)
(* Each Put* appends the struct's fields in a fixed order, fixed-width and *)
(* big-endian; each Get* refuses a row shorter than the layout, slices the *)
(* fields back out at their offsets and, for the fee router, risk and      *)
(* proof configs, validates the struct it decoded.                         *)
(*                                                                         *)
(* A row is a sequence of bytes (naturals below 256).  An address is       *)
(* codec.AddressLen bytes: the zero address is 33 zero bytes, any other is *)
(* its model value followed by 32 zero bytes, so distinct addresses have   *)
(* distinct encodings.  A decoded struct is a record with one field per Go *)
(* field.                                                                  *)
(*                                                                         *)
(* The proof rows (BatchProofRecord, VellumProof, Bloodsworn, Glyph) use  *)
(* the same layouts, plus fixed [32]byte hashes (kind h32: the field is  *)
(* its 32-byte sequence) and length-prefixed byte slices.                *)
(***************************************************************************)
EXTENDS StorageKeys, Integers, Sequences

CONSTANT ZeroAddress   \* the all-zero codec.Address

AddressLen == 33          \* codec.AddressLen
BipsDenominator == 10000  \* bipsDenominator
ProofTypeGroth16 == 1     \* mconsts.ProofTypeGroth16
ProofTypePlonk == 2       \* mconsts.ProofTypePlonk
MaxVellumProofBytes == 131072  \* maxVellumProofBytes

\* The width in bytes of each field kind: an address, a bool, a byte, a uint16, a
\* uint32, a uint64, and an int64 stored as uint64(v).
Width == [addr |-> AddressLen, bool |-> 1, u8 |-> 1, u16 |-> 2, u32 |-> 4, u64 |-> 8,
          i64 |-> 8, h32 |-> 32]

\* binary.BigEndian.AppendUint16/32/64: n modulo 2^(8w), most significant
\* byte first; for a negative int64 this is uint64(n), two's complement.
RECURSIVE AppendUint(_, _)
AppendUint(n, w) == IF w = 0 THEN <<>> ELSE AppendUint(n \div 256, w - 1) \o <<n % 256>>

\* binary.BigEndian.Uint16/32/64 of a slice.
RECURSIVE Uint(_)
Uint(s) == IF s = <<>> THEN 0 ELSE Uint(SubSeq(s, 1, Len(s) - 1)) * 256 + s[Len(s)]

\* int64(binary.BigEndian.Uint64(s)): the top bit set is a negative value.
Int64(s) == IF s[1] < 128 THEN Uint(s) ELSE -Uint([i \in 1..8 |-> 255 - s[i]]) - 1

AddressBytes(a) ==
    IF a = ZeroAddress THEN [i \in 1..AddressLen |-> 0]
    ELSE <<a>> \o [i \in 1..AddressLen - 1 |-> 0]

\* The bytes of one field, and the field read back out of s at Go offset o.
FieldBytes(kind, x) ==
    CASE kind = "addr" -> AddressBytes(x)
      [] kind = "bool" -> <<IF x THEN 1 ELSE 0>>
      [] kind = "h32" -> x
      [] OTHER -> AppendUint(x, Width[kind])
FieldAt(kind, s, o) ==
    LET b == SubSeq(s, o + 1, o + Width[kind]) IN
    CASE kind = "addr" -> IF b = AddressBytes(ZeroAddress) THEN ZeroAddress ELSE b[1]
      [] kind = "bool" -> b[1] = 1
      [] kind = "h32" -> b
      [] kind = "i64" -> Int64(b)
      [] OTHER -> Uint(b)

-----------------------------------------------------------------------------
(* The layouts: <<field, kind>> in the order Put* appends them.            *)

TreasuryConfigLayout ==
    <<<<"governance", "addr">>, <<"operations", "addr">>,
      <<"maxReleaseBips", "u16">>, <<"releaseEpochSeconds", "i64">>>>
TreasuryStateLayout ==
    <<<<"locked", "u64">>, <<"live", "u64">>, <<"released", "u64">>, <<"last", "i64">>>>
FeeRouterConfigLayout == <<<<"msrb", "u16">>, <<"col", "u16">>, <<"ops", "u16">>>>
FeeRouterStateLayout == <<<<"msrb", "u64">>, <<"col", "u64">>, <<"ops", "u64">>>>
VAIConfigLayout ==
    <<<<"mintAuthority", "addr">>, <<"debtCeiling", "u64">>,
      <<"epochMintLimit", "u64">>, <<"mintEpochSeconds", "i64">>>>
VAIStateLayout == <<<<"debt", "u64">>, <<"epochStart", "i64">>, <<"epochMinted", "u64">>>>
RiskConfigLayout ==
    <<<<"backingFloorBips", "u32">>, <<"veilLtvBips", "u16">>, <<"wVeilLtvBips", "u16">>,
      <<"wsVeilLtvBips", "u16">>, <<"veilHaircutBips", "u16">>,
      <<"wVeilHaircutBips", "u16">>, <<"wsVeilHaircutBips", "u16">>>>
ReserveStateLayout == <<<<"exogenousReserve", "u64">>, <<"vaiBuffer", "u64">>>>
ProofConfigLayout ==
    <<<<"requireProof", "bool">>, <<"requiredProofType", "u8">>,
      <<"batchWindowMs", "i64">>, <<"proofDeadlineMs", "i64">>,
      <<"proverAuthority", "addr">>>>

\* The append chain of a Put*.
RECURSIVE Encode(_, _)
Encode(layout, r) ==
    IF layout = <<>> THEN <<>>
    ELSE Encode(SubSeq(layout, 1, Len(layout) - 1), r)
         \o FieldBytes(layout[Len(layout)][2], r[layout[Len(layout)][1]])

-----------------------------------------------------------------------------
(* The reads of each Get*: <<field, kind, Go offset>>, the offsets its     *)
(* slice expressions name, written apart from the Put* order above.        *)

TreasuryConfigReads ==
    <<<<"governance", "addr", 0>>, <<"operations", "addr", AddressLen>>,
      <<"maxReleaseBips", "u16", AddressLen * 2>>,
      <<"releaseEpochSeconds", "i64", AddressLen * 2 + 2>>>>
TreasuryStateReads ==
    <<<<"locked", "u64", 0>>, <<"live", "u64", 8>>, <<"released", "u64", 16>>,
      <<"last", "i64", 24>>>>
FeeRouterConfigReads == <<<<"msrb", "u16", 0>>, <<"col", "u16", 2>>, <<"ops", "u16", 4>>>>
FeeRouterStateReads == <<<<"msrb", "u64", 0>>, <<"col", "u64", 8>>, <<"ops", "u64", 16>>>>
VAIConfigReads ==
    <<<<"mintAuthority", "addr", 0>>, <<"debtCeiling", "u64", AddressLen>>,
      <<"epochMintLimit", "u64", AddressLen + 8>>,
      <<"mintEpochSeconds", "i64", AddressLen + 16>>>>
VAIStateReads ==
    <<<<"debt", "u64", 0>>, <<"epochStart", "i64", 8>>, <<"epochMinted", "u64", 16>>>>
\* A faulty variant of GetRiskConfig's reads whose VEILHaircutBips slice
\* is the copied WSVEILLtvBips slice of the line above it.
RiskConfigReadsHaircutSlip ==
    <<<<"backingFloorBips", "u32", 0>>, <<"veilLtvBips", "u16", 4>>,
      <<"wVeilLtvBips", "u16", 6>>, <<"wsVeilLtvBips", "u16", 8>>,
      <<"veilHaircutBips", "u16", 8>>, <<"wVeilHaircutBips", "u16", 12>>,
      <<"wsVeilHaircutBips", "u16", 14>>>>
RiskConfigReads ==
    <<<<"backingFloorBips", "u32", 0>>, <<"veilLtvBips", "u16", 4>>,
      <<"wVeilLtvBips", "u16", 6>>, <<"wsVeilLtvBips", "u16", 8>>,
      <<"veilHaircutBips", "u16", 10>>, <<"wVeilHaircutBips", "u16", 12>>,
      <<"wsVeilHaircutBips", "u16", 14>>>>
ReserveStateReads == <<<<"exogenousReserve", "u64", 0>>, <<"vaiBuffer", "u64", 8>>>>
ProofConfigReads ==
    <<<<"requireProof", "bool", 0>>, <<"requiredProofType", "u8", 1>>,
      <<"batchWindowMs", "i64", 2>>, <<"proofDeadlineMs", "i64", 10>>,
      <<"proverAuthority", "addr", 18>>>>

\* The slicing of a Get*, on a row at least its minLen long.
Decode(reads, v) ==
    [f \in {reads[i][1] : i \in DOMAIN reads} |->
        LET i == CHOOSE j \in DOMAIN reads : reads[j][1] = f
        IN FieldAt(reads[i][2], v, reads[i][3])]

-----------------------------------------------------------------------------
(* The validation of the rows that have one.                               *)

\* validateRiskConfig
ValidRiskConfig(r) ==
    /\ r.backingFloorBips # 0
    /\ \A f \in {"veilLtvBips", "wVeilLtvBips", "wsVeilLtvBips",
                  "veilHaircutBips", "wVeilHaircutBips", "wsVeilHaircutBips"} :
           r[f] <= BipsDenominator
    /\ r.wsVeilLtvBips = 0

\* validateProofConfig
ValidProofConfig(p) ==
    /\ p.requiredProofType \in {ProofTypeGroth16, ProofTypePlonk}
    /\ p.batchWindowMs > 0 /\ p.proofDeadlineMs > 0
    /\ p.proverAuthority # ZeroAddress

\* GetFeeRouterConfig's check that the three bips sum to 10000.
FeeRouterConfigReadable(r) == r.msrb + r.col + r.ops = BipsDenominator

-----------------------------------------------------------------------------
(* Put* and Get* of the singleton rows, by key.                            *)

RowLayout(k) ==
    CASE k = TreasuryConfigKey -> TreasuryConfigLayout
      [] k = TreasuryStateKey -> TreasuryStateLayout
      [] k = FeeRouterConfigKey -> FeeRouterConfigLayout
      [] k = FeeRouterStateKey -> FeeRouterStateLayout
      [] k = VAIConfigKey -> VAIConfigLayout
      [] k = VAIStateKey -> VAIStateLayout
      [] k = RiskConfigKey -> RiskConfigLayout
      [] k = ReserveStateKey -> ReserveStateLayout
      [] k = ProofConfigKey -> ProofConfigLayout

RowReads(k) ==
    CASE k = TreasuryConfigKey -> TreasuryConfigReads
      [] k = TreasuryStateKey -> TreasuryStateReads
      [] k = FeeRouterConfigKey -> FeeRouterConfigReads
      [] k = FeeRouterStateKey -> FeeRouterStateReads
      [] k = VAIConfigKey -> VAIConfigReads
      [] k = VAIStateKey -> VAIStateReads
      [] k = RiskConfigKey -> RiskConfigReads
      [] k = ReserveStateKey -> ReserveStateReads
      [] k = ProofConfigKey -> ProofConfigReads

\* The minLen each Get* checks.
RowMinLen(k) ==
    CASE k = TreasuryConfigKey -> AddressLen * 2 + 2 + 8
      [] k = TreasuryStateKey -> 8 * 4
      [] k = FeeRouterConfigKey -> 2 * 3
      [] k = FeeRouterStateKey -> 8 * 3
      [] k = VAIConfigKey -> AddressLen + 8 * 3
      [] k = VAIStateKey -> 8 * 3
      [] k = RiskConfigKey -> 4 + 2 * 6
      [] k = ReserveStateKey -> 8 * 2
      [] k = ProofConfigKey -> 1 + 1 + 8 + 8 + AddressLen

\* PutRiskConfig and PutProofConfig refuse what they would not read back;
\* the other Puts only encode.  The result is [ok, the bytes inserted].
PutRow(k, r) ==
    [ok |-> /\ k = RiskConfigKey => ValidRiskConfig(r)
            /\ k = ProofConfigKey => ValidProofConfig(r),
     bytes |-> Encode(RowLayout(k), r)]

\* Get<row> on a store: a missing row (database.ErrNotFound) or one shorter
\* than minLen is an error; otherwise the decoded struct, which
\* GetFeeRouterConfig, GetRiskConfig and GetProofConfig validate.
GetRow(store, k) ==
    IF k \notin DOMAIN store \/ Len(store[k]) < RowMinLen(k)
    THEN [ok |-> FALSE, val |-> <<>>]
    ELSE LET r == Decode(RowReads(k), store[k])
         IN [ok |-> /\ k = FeeRouterConfigKey => FeeRouterConfigReadable(r)
                    /\ k = RiskConfigKey => ValidRiskConfig(r)
                    /\ k = ProofConfigKey => ValidProofConfig(r),
             val |-> r]

-----------------------------------------------------------------------------
(* The proof rows submit_batch_proof writes and clear_batch and the RPC    *)
(* views read back.  A Get* result is [ok, val].                           *)

GetError == [ok |-> FALSE, val |-> <<>>]

\* BatchProofRecord: a fixed header, then PublicInputsHash and FillsHash,
\* each behind a uint16 length.
BatchProofHeaderLayout ==
    <<<<"ptype", "u8">>, <<"submittedAt", "i64">>, <<"closeAt", "i64">>,
      <<"prover", "addr">>, <<"commitment", "h32">>>>

\* GetBatchProofRecord's header reads and the offset its walk reaches.
BatchProofHeaderReads ==
    <<<<"ptype", "u8", 0>>, <<"submittedAt", "i64", 1>>, <<"closeAt", "i64", 9>>,
      <<"prover", "addr", 17>>, <<"commitment", "h32", 17 + AddressLen>>>>
BatchProofHeaderLen == 1 + 8 * 2 + AddressLen + 32

\* PutBatchProofRecord: 1..32 bytes of public-input hash, 1..64 of fills.
ValidBatchProofRecord(rec) == Len(rec.pih) \in 1..32 /\ Len(rec.fills) \in 1..64
PutBatchProofRecord(rec) ==
    [ok |-> ValidBatchProofRecord(rec),
     bytes |-> Encode(BatchProofHeaderLayout, rec)
               \o AppendUint(Len(rec.pih), 2) \o rec.pih
               \o AppendUint(Len(rec.fills), 2) \o rec.fills]

\* A faulty variant of GetBatchProofRecord that slices the fills hash
\* without first stepping over its length prefix.
GetBatchProofRecordFillsAtPrefix(v) ==
    LET h == BatchProofHeaderLen
        pihLen == Uint(SubSeq(v, h + 1, h + 2))
        fo == h + 2 + pihLen
        fillsLen == Uint(SubSeq(v, fo + 1, fo + 2))
    IN IF Len(v) < h + 4 THEN GetError
       ELSE IF pihLen <= 0 \/ pihLen > 32 \/ Len(v) - (h + 2) < pihLen + 2 THEN GetError
       ELSE IF fillsLen <= 0 \/ fillsLen > 64 \/ Len(v) - (fo + 2) < fillsLen THEN GetError
       ELSE [ok |-> TRUE,
             val |-> Decode(BatchProofHeaderReads, v)
                     @@ [pih |-> SubSeq(v, h + 3, h + 2 + pihLen),
                         fills |-> SubSeq(v, fo + 1, fo + fillsLen)]]

\* GetBatchProofRecord: minLen covers the header and both length fields
\* (so the separate check that two bytes remain never fails); each length
\* must be in range and its bytes present; trailing bytes are ignored.
GetBatchProofRecord(v) ==
    LET h == BatchProofHeaderLen
        pihLen == Uint(SubSeq(v, h + 1, h + 2))
        fo == h + 2 + pihLen
        fillsLen == Uint(SubSeq(v, fo + 1, fo + 2))
    IN IF Len(v) < h + 4 THEN GetError
       ELSE IF pihLen <= 0 \/ pihLen > 32 \/ Len(v) - (h + 2) < pihLen + 2 THEN GetError
       ELSE IF fillsLen <= 0 \/ fillsLen > 64 \/ Len(v) - (fo + 2) < fillsLen THEN GetError
       ELSE [ok |-> TRUE,
             val |-> Decode(BatchProofHeaderReads, v)
                     @@ [pih |-> SubSeq(v, h + 3, h + 2 + pihLen),
                         fills |-> SubSeq(v, fo + 3, fo + 2 + fillsLen)]]

\* PutVellumProof and GetVellumProof: a uint32 length, then the proof.
ValidVellumProof(proof) == Len(proof) \in 1..MaxVellumProofBytes
PutVellumProof(proof) ==
    [ok |-> ValidVellumProof(proof),
     bytes |-> AppendUint(Len(proof), 4) \o proof]
GetVellumProof(v) ==
    IF Len(v) < 4 THEN GetError
    ELSE LET n == Uint(SubSeq(v, 1, 4)) IN
         IF n <= 0 \/ n > MaxVellumProofBytes \/ Len(v) # 4 + n THEN GetError
         ELSE [ok |-> TRUE, val |-> SubSeq(v, 5, Len(v))]

\* Bloodsworn: a missing row reads as the zero row.
BloodswornLayout ==
    <<<<"total", "u64">>, <<"streak", "u64">>, <<"lastAt", "i64">>, <<"scars", "u32">>>>
BloodswornReads ==
    <<<<"total", "u64", 0>>, <<"streak", "u64", 8>>, <<"lastAt", "i64", 16>>,
      <<"scars", "u32", 24>>>>
ZeroBloodsworn == [total |-> 0, streak |-> 0, lastAt |-> 0, scars |-> 0]
PutBloodsworn(b) == Encode(BloodswornLayout, b)
GetBloodsworn(found, v) ==
    IF ~found THEN [ok |-> TRUE, val |-> ZeroBloodsworn]
    ELSE IF Len(v) < 8 * 3 + 4 THEN GetError
    ELSE [ok |-> TRUE, val |-> Decode(BloodswornReads, v)]

\* Glyph: PutGlyph refuses a zero class or rarity and a non-positive
\* creation time; GetGlyph only checks the length.
GlyphLayout ==
    <<<<"class", "u8">>, <<"rarity", "u8">>, <<"createdAt", "i64">>,
      <<"prover", "addr">>, <<"commitment", "h32">>, <<"pih", "h32">>,
      <<"entropy", "h32">>>>
GlyphReads ==
    <<<<"class", "u8", 0>>, <<"rarity", "u8", 1>>, <<"createdAt", "i64", 2>>,
      <<"prover", "addr", 10>>, <<"commitment", "h32", 10 + AddressLen>>,
      <<"pih", "h32", 42 + AddressLen>>, <<"entropy", "h32", 74 + AddressLen>>>>
ValidGlyph(g) == g.class # 0 /\ g.rarity # 0 /\ g.createdAt > 0
PutGlyph(g) ==
    [ok |-> ValidGlyph(g),
     bytes |-> Encode(GlyphLayout, g)]
GetGlyph(v) ==
    IF Len(v) < 1 + 1 + 8 + AddressLen + 32 * 3 THEN GetError
    ELSE [ok |-> TRUE, val |-> Decode(GlyphReads, v)]
====
