-------------------------- MODULE MarketLifecycle --------------------------
(***************************************************************************)
(* The prediction-market entity of veilvm: the actions create_market,     *)
(* resolve_market and dispute (src/actions/create_market.go,              *)
(* resolve_market.go, dispute.go) over the Market row, the native Balance *)
(* rows they debit, and the Oracle key space, whose validator index       *)
(* 0xFFFFFFFF is the dispute slot (storage.DisputeKey).                   *)
(*                                                                         *)
(* Every action runs atomically on the chain's key/value store: a failed  *)
(* action leaves the state unchanged, so each early return of the code is *)
(* a conjunct of the action's guard and a failing call is a stuttering    *)
(* step.  Question text, resolution time and signatures are only checked  *)
(* for size and never read again, so they are left out.                  *)
(***************************************************************************)
EXTENDS Naturals, FiniteSets, StorageKeys

CONSTANTS
    Markets,          \* market ids (ids.ID)
    Actors,           \* transaction signers (codec.Address), all non-zero
    OutcomeCounts,    \* values offered for CreateMarket.Outcomes (uint8)
    Bonds,            \* values offered for CreatorBond and Dispute.Bond (uint64)
    Evidence,         \* abstract dispute evidence payloads (non-empty bytes)
    ValidatorIndexes, \* validator indexes (uint32) offered to reveal_batch
    InitBalance,      \* genesis native balances: a function Actors -> Nat
    DisputeValidatorIndex, \* 0xFFFFFFFF: storage.DisputeKey(m) is
                      \* OracleKey(m, 0xFFFFFFFF); beyond TLC's integers, so
                      \* a model value distinct from every other index
    NoValue           \* an absent row

ASSUME InitBalance \in [Actors -> Nat]
ASSUME OutcomeCounts \subseteq Nat /\ Bonds \subseteq Nat

\* storage.MarketStatus* (src/storage/storage.go)
MarketStatusActive == 0
MarketStatusResolved == 1
MarketStatusDisputed == 2

OracleSlots == ValidatorIndexes \cup {DisputeValidatorIndex}

\* An Oracle value is an 8-byte big-endian prefix followed by a payload:
\* window id ++ decryption share for a reveal, bond ++ evidence for a dispute.
OracleValue(prefix, data) == [prefix |-> prefix, data |-> data]

VARIABLES
    market,   \* market[m]: NoValue or the Market row
    balance,  \* balance[a]: native balance (a missing row reads as 0)
    oracle    \* oracle[m][i]: NoValue or the Oracle row at validator index i

marketVars == <<market, balance, oracle>>

\* storage.DisputeKey
DisputeKey(m) == OracleKey(m, DisputeValidatorIndex)

\* The store keys whose row a step changes.
MarketChangedKeys ==
    RowsChanged(BalanceKey, balance, balance')
    \cup RowsChanged(MarketKey, market, market')
    \cup UNION {RowsChanged(LAMBDA i : OracleKey(m, i), oracle[m], oracle'[m]) : m \in Markets}

\* storage.GetMarket succeeds and the status is Active (the guard shared by
\* commit_order, reveal_batch, submit_batch_proof and clear_batch).
MarketActive(m) ==
    market[m] # NoValue /\ market[m].status = MarketStatusActive

\* storage.SubBalance: fails on a missing row or an insufficient balance;
\* a row reaching 0 is removed, which reads back as 0.
CanDebit(a, amount) == amount <= balance[a]

MarketInit ==
    /\ market = [m \in Markets |-> NoValue]
    /\ balance = InitBalance
    /\ oracle = [m \in Markets |-> [i \in OracleSlots |-> NoValue]]

\* create_market: input checks, duplicate id rejected, creator bond debited,
\* market stored Active with resolved outcome 0.
CreateMarket(actor, id, outcomes, bond) ==
    /\ outcomes >= 2
    /\ bond # 0
    /\ market[id] = NoValue
    /\ CanDebit(actor, bond)
    /\ balance' = [balance EXCEPT ![actor] = @ - bond]
    /\ market' = [market EXCEPT ![id] =
                    [status |-> MarketStatusActive, outcomes |-> outcomes,
                     resolvedOutcome |-> 0]]
    /\ UNCHANGED oracle

\* A faulty variant of resolve_market that checks the market exists but
\* not that it is still Active.
ResolveMarketAnyStatus(id, outcome) ==
    /\ market[id] # NoValue
    /\ outcome < market[id].outcomes
    /\ market' = [market EXCEPT ![id].status = MarketStatusResolved,
                                ![id].resolvedOutcome = outcome]
    /\ UNCHANGED <<balance, oracle>>

\* resolve_market: any signer; the committee signature is not verified.
ResolveMarket(id, outcome) ==
    /\ MarketActive(id)
    /\ outcome < market[id].outcomes
    /\ market' = [market EXCEPT ![id].status = MarketStatusResolved,
                                ![id].resolvedOutcome = outcome]
    /\ UNCHANGED <<balance, oracle>>

\* A faulty variant of dispute that stores the dispute record but leaves
\* the market row untouched.
DisputeRecordOnly(actor, id, bond, evidence) ==
    /\ bond # 0
    /\ market[id] # NoValue
    /\ market[id].status = MarketStatusResolved
    /\ CanDebit(actor, bond)
    /\ balance' = [balance EXCEPT ![actor] = @ - bond]
    /\ oracle' = [oracle EXCEPT ![id][DisputeValidatorIndex] =
                                    OracleValue(bond, evidence)]
    /\ UNCHANGED market

\* dispute: market must be Resolved; bond debited; market marked Disputed;
\* bond ++ evidence written to the dispute slot of the Oracle space.
Dispute(actor, id, bond, evidence) ==
    /\ bond # 0
    /\ market[id] # NoValue
    /\ market[id].status = MarketStatusResolved
    /\ CanDebit(actor, bond)
    /\ balance' = [balance EXCEPT ![actor] = @ - bond]
    /\ market' = [market EXCEPT ![id].status = MarketStatusDisputed]
    /\ oracle' = [oracle EXCEPT ![id][DisputeValidatorIndex] =
                                    OracleValue(bond, evidence)]

\* The StateKeys of the three actions.
CreateMarketKeys(actor, id) ==
    StateKeys(<<<<BalanceKey(actor), Read \cup Write>>, <<MarketKey(id), All>>>>)
ResolveMarketKeys(id) == StateKeys(<<<<MarketKey(id), Read \cup Write>>>>)
DisputeKeys(actor, id) ==
    StateKeys(<<<<BalanceKey(actor), Read \cup Write>>, <<MarketKey(id), Read \cup Write>>,
                <<DisputeKey(id), All>>>>)

MaxOutcomeCount == CHOOSE n \in OutcomeCounts : \A k \in OutcomeCounts : k <= n

MarketNext ==
    \/ \E a \in Actors, m \in Markets, n \in OutcomeCounts, b \in Bonds :
          CreateMarket(a, m, n, b)
    \/ \E m \in Markets, o \in 0..MaxOutcomeCount : ResolveMarket(m, o)
    \/ \E a \in Actors, m \in Markets, b \in Bonds, e \in Evidence :
          Dispute(a, m, b, e)

-----------------------------------------------------------------------------
MarketTypeOK ==
    /\ market \in [Markets -> {NoValue} \cup
                     [status : {MarketStatusActive, MarketStatusResolved,
                                MarketStatusDisputed},
                      outcomes : OutcomeCounts,
                      resolvedOutcome : 0..MaxOutcomeCount]]
    /\ balance \in [Actors -> Nat]

\* The market row is never deleted, its status only moves forward
\* (Active -> Resolved -> Disputed, the guards of resolve_market and
\* dispute), and once resolved its outcome never changes: a re-resolution
\* of a resolved or disputed market would let the outcome be rewritten.
MarketStatusMonotone ==
    [][\A m \in Markets :
         market[m] # NoValue =>
           /\ market'[m] # NoValue
           /\ market'[m].status \in {market[m].status, market[m].status + 1}
           /\ market[m].status # MarketStatusActive =>
                 market'[m].resolvedOutcome = market[m].resolvedOutcome
      ]_marketVars
=============================================================================
