---------------------------- MODULE BatchWindow ----------------------------
(***************************************************************************)
(* What the proof-gated batch auction promises for each window            *)
(* (market, window id), stated without envelopes, verifiers or configs:  *)
(*                                                                         *)
(*   - a window is proven at most once, for one clearing statement        *)
(*     (market, window, price, volume, fills hash);                        *)
(*   - a window is cleared at most once, and only with the exact tuple of *)
(*     the statement it was proven for.                                    *)
(*                                                                         *)
(* BatchMarket implements this specification when the chain runs in      *)
(* proof-gated mode (see MCBatchMarket).                                  *)
(***************************************************************************)
CONSTANTS Markets, Windows, Prices, Volumes, FillsHashes, NoValue

VARIABLES
    proven,   \* proven[m][w]: NoValue or the statement proven for the window
    cleared   \* cleared[m][w]: NoValue or the clear result of the window

Statements ==
    {<<m, w, p, v, f>> : m \in Markets, w \in Windows, p \in Prices,
                         v \in Volumes, f \in FillsHashes}

ClearResults == [price : Prices, volume : Volumes, fills : FillsHashes]

Init ==
    /\ proven = [m \in Markets |-> [w \in Windows |-> NoValue]]
    /\ cleared = [m \in Markets |-> [w \in Windows |-> NoValue]]

\* A proof for any statement is accepted once for an unproven window.
Prove(m, w, s) ==
    /\ proven[m][w] = NoValue
    /\ proven' = [proven EXCEPT ![m][w] = s]
    /\ UNCHANGED cleared

\* A proven window is cleared once, with the tuple of its statement.
Clear(m, w, r) ==
    /\ cleared[m][w] = NoValue
    /\ proven[m][w] = <<m, w, r.price, r.volume, r.fills>>
    /\ cleared' = [cleared EXCEPT ![m][w] = r]
    /\ UNCHANGED proven

Next ==
    \E m \in Markets, w \in Windows :
        \/ \E s \in Statements : Prove(m, w, s)
        \/ \E r \in ClearResults : Clear(m, w, r)

Spec == Init /\ [][Next]_<<proven, cleared>>

TypeOK ==
    /\ proven \in [Markets -> [Windows -> Statements \cup {NoValue}]]
    /\ cleared \in [Markets -> [Windows -> ClearResults \cup {NoValue}]]
=============================================================================
