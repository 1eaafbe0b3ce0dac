----------------------------- MODULE StorageKeys ------------------------------
(***************************************************************************)
(* The key layout of veilvm's store (src/storage/storage.go) and the      *)
(* state.Keys maps with which every action declares, ahead of execution,  *)
(* the rows it reads and writes.  A key is the tuple of its prefix and    *)
(* the ids the code packs after it; the trailing chunk count is a         *)
(* function of the prefix, so it adds nothing to a key's identity.        *)
(* Distinct prefixes give distinct keys, and equal ids give equal keys,   *)
(* exactly as the byte encodings do.                                      *)
(***************************************************************************)
EXTENDS Naturals, Sequences, TLC

\* storage.sortedAssetPair: pool and LP keys are built from the sorted pair.
SortedPair(a0, a1) == IF a0 <= a1 THEN <<a0, a1>> ELSE <<a1, a0>>

BalanceKey(addr) == <<"balance", addr>>
MarketKey(m) == <<"market", m>>
CommitmentKey(m, w, addr) == <<"commitment", m, w, addr>>
BatchKey(m, w) == <<"batch", m, w>>
OracleKey(m, index) == <<"oracle", m, index>>
PoolKey(a0, a1) == <<"pool">> \o SortedPair(a0, a1)
LPBalanceKey(a0, a1, addr) == <<"lpBalance">> \o SortedPair(a0, a1) \o <<addr>>

\* singletonKey(prefix, chunks) and the singletons built with it.
SingletonKey(prefix) == <<prefix>>
TreasuryConfigKey == SingletonKey("treasuryConfig")
TreasuryStateKey == SingletonKey("treasuryState")
FeeRouterConfigKey == SingletonKey("feeRouterConfig")
FeeRouterStateKey == SingletonKey("feeRouterState")
VAIConfigKey == SingletonKey("vaiConfig")
VAIStateKey == SingletonKey("vaiState")
RiskConfigKey == SingletonKey("riskConfig")
ReserveStateKey == SingletonKey("reserveState")
ProofConfigKey == SingletonKey("proofConfig")

BatchProofKey(m, w) == <<"batchProof", m, w>>
VellumProofKey(m, w) == <<"vellumProof", m, w>>
BloodswornKey(addr) == <<"bloodsworn", addr>>
GlyphKey(m, w) == <<"glyph", m, w>>
VAIBalanceKey(addr) == <<"vaiBalance", addr>>

-----------------------------------------------------------------------------
(* state.Permissions of hypersdk, as the sets of rights they grant; the   *)
(* code combines them with |, which is \cup here.                         *)

Read == {"read"}
Allocate == {"allocate"}
Write == {"write"}
All == Read \cup Allocate \cup Write

\* A state.Keys map literal, given as the sequence of its entries
\* <<key, permissions>> in source order.  Two entries may name the same
\* key (transfer to oneself); the map then holds the later one.
StateKeys(entries) ==
    LET keys == {entries[i][1] : i \in DOMAIN entries}
        last(k) == CHOOSE i \in DOMAIN entries :
                      /\ entries[i][1] = k
                      /\ \A j \in DOMAIN entries : entries[j][1] = k => j <= i
    IN [k \in keys |-> entries[last(k)][2]]

\* The keys a state.Keys map lets the transaction write.
Writable(declared) == {k \in DOMAIN declared : "write" \in declared[k]}

\* The keys of one family of rows whose row a step changes: rows maps ids
\* to rows before the step, rowsNext after it, and Key(x) is the store key
\* of id x.  SingletonChanged does the same for a singleton row.
RowsChanged(Key(_), rows, rowsNext) ==
    {Key(x) : x \in {x \in DOMAIN rows : rowsNext[x] # rows[x]}}
SingletonChanged(key, row, rowNext) == IF rowNext = row THEN {} ELSE {key}
=============================================================================
