------------------------------- MODULE ZkMetrics ------------------------------
(***************************************************************************)
(* The process-wide ZK metrics collector (src/actions/zk_metrics.go) and  *)
(* the callers that feed it: the deferred Record*Metric calls at the end  *)
(* of commit_order, reveal_batch, submit_batch_proof and clear_batch, and *)
(* the RPC handlers ZKMetrics, ZKMetricsReset and RecordZKProverMetrics   *)
(* (src/vm/server.go).                                                     *)
(*                                                                         *)
(* Every collector method holds c.mu for its whole body, so each call is  *)
(* one atomic step, and the goroutines that call it interleave at call    *)
(* granularity.  A caller's sample is fixed by the action it ends: the    *)
(* block timestamp, the error it returns and the missedDeadline flag it   *)
(* set.  The chain state those actions read is kept here only as far as  *)
(* it decides a sample: the accepted proof record of a window, whether a  *)
(* clear succeeded, the proof deadline of ProofConfig and block time.     *)
(* Execution durations, error strings and the prover-stage values are     *)
(* left out; no guard of the collector reads them.                        *)
(***************************************************************************)
EXTENDS Integers, Sequences, SequencesExt, FiniteSets

CONSTANTS
    WindowKeys,      \* zkWindowKey(market, window): one model value per window
    MaxWindows,      \* c.maxWindows (defaultZKMetricsMaxWindows); 0 = unbounded
    MaxTime,         \* bound on the block timestamp (ms)
    Closes,          \* WindowCloseAtMs values callers put in submit_batch_proof
    DeadlineChoices, \* ProofDeadlineMs values set_proof_config may set
    InitDeadline,    \* ProofDeadlineMs at genesis
    MaxSamples,      \* bound on the number of Record* calls in a behaviour
    NoValue

ASSUME MaxWindows \in Nat /\ MaxTime \in Nat \ {0}
ASSUME Closes \subseteq Int /\ DeadlineChoices \subseteq Nat
ASSUME InitDeadline \in DeadlineChoices

Times == 1..MaxTime

\* The zero ZKWindowMetrics that getOrCreateLocked stores.
NewRow ==
    [CommitCount |-> 0, RevealCount |-> 0,
     FirstCommitAtMs |-> 0, LastCommitAtMs |-> 0,
     WindowCloseAtMs |-> 0, ProofSubmittedAtMs |-> 0, ClearAcceptedAtMs |-> 0,
     MissedDeadline |-> FALSE, Rejected |-> FALSE]

\* ZKMetricsSummary{}
ZeroSummary ==
    [TotalWindowsObserved |-> 0, TotalCommits |-> 0, TotalReveals |-> 0,
     TotalProofSubmissions |-> 0, TotalProofSubmissionErrors |-> 0,
     TotalClears |-> 0, TotalClearErrors |-> 0,
     TotalAcceptedBatches |-> 0, TotalRejectedBatches |-> 0,
     TotalMissedProofDeadlines |-> 0]

VARIABLES
    windows,     \* c.windows: key -> NoValue or the window's row
    order,       \* c.order: keys in the order their rows were created
    summary,     \* c.summary
    created,     \* history: every key created since the last reset, in order
    sampleCount, \* Record* calls so far (bounded by MaxSamples)
    now,         \* block timestamp handed to Execute
    deadline,    \* ProofConfig.ProofDeadlineMs
    proof        \* proof[k]: NoValue or [close, at] of the accepted BatchProof record

collectorVars == <<windows, order, summary, created>>
chainVars == <<now, deadline, proof>>
vars == <<collectorVars, sampleCount, chainVars>>

-----------------------------------------------------------------------------
(* getOrCreateLocked: the row of key k, created at the back of the FIFO;   *)
(* when c.order is full the oldest row is evicted first.  The result is   *)
(* the collector after the call and whether a row was created.            *)

\* A faulty variant that evicts only once the FIFO is over capacity.
MustEvictOver(o) == MaxWindows > 0 /\ Len(o) > MaxWindows

MustEvict(o) == MaxWindows > 0 /\ Len(o) >= MaxWindows

GetOrCreate(k) ==
    IF windows[k] # NoValue
    THEN [w |-> windows, o |-> order, new |-> FALSE]
    ELSE LET evict == MustEvict(order)
             w1 == IF evict THEN [windows EXCEPT ![Head(order)] = NoValue]
                            ELSE windows
             o1 == IF evict THEN Tail(order) ELSE order
         IN [w |-> [w1 EXCEPT ![k] = NewRow], o |-> Append(o1, k), new |-> TRUE]

Inc(s, f) == [s EXCEPT ![f] = @ + 1]

\* The row of key k that getOrCreateLocked hands to a record* method, and
\* the summary after it counted a new window.
CurrentRow(k) == IF windows[k] # NoValue THEN windows[k] ELSE NewRow
ObservedSummary(k) ==
    IF windows[k] # NoValue THEN summary ELSE Inc(summary, "TotalWindowsObserved")

\* One Record* call on key k under c.mu: getOrCreateLocked, then the
\* record* method leaves row in the window and sum as the summary.
Record(k, row, sum) ==
    LET g == GetOrCreate(k)
    IN /\ sampleCount < MaxSamples
       /\ windows' = [g.w EXCEPT ![k] = row]
       /\ order' = g.o
       /\ summary' = sum
       /\ created' = IF g.new THEN Append(created, k) ELSE created
       /\ sampleCount' = sampleCount + 1

-----------------------------------------------------------------------------
(* The collector methods, as row and summary updates.                      *)

\* A faulty variant of recordCommit without the return on error.
CommitRowCountsErrors(r, ts, ok) ==
    [r EXCEPT !.Rejected = @ \/ ~ok, !.CommitCount = @ + 1,
              !.FirstCommitAtMs = IF ok /\ (@ = 0 \/ ts < @) THEN ts ELSE @,
              !.LastCommitAtMs = IF ok /\ ts > @ THEN ts ELSE @]

\* recordCommit: an error marks the row rejected; a success counts the
\* commit and widens [FirstCommitAtMs, LastCommitAtMs].
CommitRow(r, ts, ok) ==
    IF ~ok THEN [r EXCEPT !.Rejected = TRUE]
    ELSE [r EXCEPT !.CommitCount = @ + 1,
                   !.FirstCommitAtMs = IF @ = 0 \/ ts < @ THEN ts ELSE @,
                   !.LastCommitAtMs = IF ts > @ THEN ts ELSE @]

\* recordReveal
RevealRow(r, ok) ==
    IF ~ok THEN [r EXCEPT !.Rejected = TRUE]
           ELSE [r EXCEPT !.RevealCount = @ + 1]

\* A faulty variant of recordProofSubmit without the windowCloseAtMs > 0
\* guard.
ProofSubmitRowAnyClose(r, close, at, missed, ok) ==
    [r EXCEPT !.WindowCloseAtMs = close,
              !.ProofSubmittedAtMs = IF at > 0 THEN at ELSE @,
              !.MissedDeadline = @ \/ missed,
              !.Rejected = @ \/ ~ok]

\* recordProofSubmit: the close and submission times of the call are
\* stored whatever its outcome, the missed flag is sticky.
ProofSubmitRow(r, close, at, missed, ok) ==
    [r EXCEPT !.WindowCloseAtMs = IF close > 0 THEN close ELSE @,
              !.ProofSubmittedAtMs = IF at > 0 THEN at ELSE @,
              !.MissedDeadline = @ \/ missed,
              !.Rejected = @ \/ ~ok]

ProofSubmitSummary(s, missed, ok) ==
    LET s1 == IF missed THEN Inc(s, "TotalMissedProofDeadlines") ELSE s
    IN IF ok THEN Inc(s1, "TotalProofSubmissions")
             ELSE Inc(s1, "TotalProofSubmissionErrors")

\* recordClear: only an accepted clear stores its acceptance time.
ClearRow(r, at, missed, ok) ==
    IF ~ok THEN [r EXCEPT !.MissedDeadline = @ \/ missed, !.Rejected = TRUE]
           ELSE [r EXCEPT !.MissedDeadline = @ \/ missed, !.ClearAcceptedAtMs = at]

ClearSummary(s, missed, ok) ==
    LET s1 == IF missed THEN Inc(s, "TotalMissedProofDeadlines") ELSE s
    IN IF ok THEN Inc(Inc(s1, "TotalClears"), "TotalAcceptedBatches")
             ELSE Inc(Inc(s1, "TotalClearErrors"), "TotalRejectedBatches")

-----------------------------------------------------------------------------
Init ==
    /\ windows = [k \in WindowKeys |-> NoValue]
    /\ order = <<>>
    /\ summary = ZeroSummary
    /\ created = <<>>
    /\ sampleCount = 0
    /\ now = 1
    /\ deadline = InitDeadline
    /\ proof = [k \in WindowKeys |-> NoValue]

\* A later block.
Tick ==
    /\ now < MaxTime
    /\ now' = now + 1
    /\ UNCHANGED <<collectorVars, sampleCount, deadline, proof>>

\* set_proof_config changing ProofDeadlineMs (the only field read here).
SetProofDeadline(d) ==
    /\ deadline' = d
    /\ UNCHANGED <<collectorVars, sampleCount, now, proof>>

\* commit_order ends: ok is whether it returned no error.
CommitOrder(k, ok) ==
    /\ Record(k, CommitRow(CurrentRow(k), now, ok),
                 IF ok THEN Inc(ObservedSummary(k), "TotalCommits")
                       ELSE ObservedSummary(k))
    /\ UNCHANGED chainVars

\* reveal_batch ends.
RevealBatch(k, ok) ==
    /\ Record(k, RevealRow(CurrentRow(k), ok),
                 IF ok THEN Inc(ObservedSummary(k), "TotalReveals")
                       ELSE ObservedSummary(k))
    /\ UNCHANGED chainVars

(* submit_batch_proof ends.  passed is whether the call got past the      *)
(* checks before the deadline check (close > 0, envelope sizes, market    *)
(* Active, proof mode, authority, proof type, window alignment); verified *)
(* is whether the checks after the duplicate check (envelope, digest,    *)
(* verifier) pass.  missedDeadline is set only by the deadline check, the *)
(* duplicate check comes after it, and the metric records the caller's   *)
(* WindowCloseAtMs and the block timestamp in every case.                 *)
SubmitBatchProof(k, close, passed, verified) ==
    LET missed == passed /\ close > 0 /\ (now < close \/ now > close + deadline)
        ok == passed /\ close > 0 /\ ~missed /\ proof[k] = NoValue /\ verified
    IN /\ Record(k, ProofSubmitRow(CurrentRow(k), close, now, missed, ok),
                    ProofSubmitSummary(ObservedSummary(k), missed, ok))
       /\ proof' = IF ok THEN [proof EXCEPT ![k] = [close |-> close, at |-> now]]
                         ELSE proof
       /\ UNCHANGED <<now, deadline>>

(* clear_batch ends, in proof-gated mode.  passed is whether the call got *)
(* past the checks before the proof record is read (price, fills hash,   *)
(* market Active, authority); matches is whether the tuple, commitment   *)
(* and verifier checks after the deadline re-check pass.  The deadline is *)
(* re-checked against the ProofConfig current at clear time.  The metric *)
(* gets acceptedAtMs, the block time once PutBatchResult succeeded and 0  *)
(* otherwise.                                                             *)
ClearBatch(k, passed, matches) ==
    LET rec == proof[k]
        missed == passed /\ rec # NoValue /\ rec.at > rec.close + deadline
        ok == passed /\ rec # NoValue /\ ~missed /\ matches
    IN /\ Record(k, ClearRow(CurrentRow(k), IF ok THEN now ELSE 0, missed, ok),
                    ClearSummary(ObservedSummary(k), missed, ok))
       /\ UNCHANGED chainVars

\* RecordZKProverMetrics RPC with non-nil args: recordProverStages only
\* overwrites prover-side fields, which are left out.
RecordZKProverMetrics(k) ==
    /\ Record(k, CurrentRow(k), ObservedSummary(k))
    /\ UNCHANGED chainVars

\* A faulty variant of reset that keeps c.order.
ResetKeepOrder ==
    /\ windows' = [k \in WindowKeys |-> NoValue]
    /\ summary' = ZeroSummary
    /\ created' = <<>>
    /\ UNCHANGED <<order, sampleCount, chainVars>>

\* reset, reached through the ZKMetricsReset RPC.
Reset ==
    /\ windows' = [k \in WindowKeys |-> NoValue]
    /\ order' = <<>>
    /\ summary' = ZeroSummary
    /\ created' = <<>>
    /\ UNCHANGED <<sampleCount, chainVars>>

Next ==
    \/ Tick
    \/ \E d \in DeadlineChoices : SetProofDeadline(d)
    \/ \E k \in WindowKeys :
          \/ \E ok \in BOOLEAN : CommitOrder(k, ok) \/ RevealBatch(k, ok)
          \/ \E c \in Closes, p, v \in BOOLEAN : SubmitBatchProof(k, c, p, v)
          \/ \E p, m \in BOOLEAN : ClearBatch(k, p, m)
          \/ RecordZKProverMetrics(k)
    \/ Reset

Spec == Init /\ [][Next]_vars

-----------------------------------------------------------------------------
(* snapshot(limit, true): the keys it walks and the latencies it derives.  *)

\* A faulty variant of snapshot that keeps the oldest limit windows.
SnapshotKeysOldest(limit) ==
    IF limit > 0 /\ Len(order) > limit THEN SubSeq(order, 1, limit) ELSE order

SnapshotKeys(limit) ==
    IF limit > 0 /\ Len(order) > limit
    THEN SubSeq(order, Len(order) - limit + 1, Len(order))
    ELSE order

\* The derived latencies snapshot adds to a copy of a row.
Derived(r) ==
    [BatchFreezeMs |->
        IF r.WindowCloseAtMs > 0 /\ r.FirstCommitAtMs > 0 /\ r.WindowCloseAtMs >= r.FirstCommitAtMs
        THEN r.WindowCloseAtMs - r.FirstCommitAtMs ELSE 0,
     ProofSubmitLatencyMs |->
        IF r.WindowCloseAtMs > 0 /\ r.ProofSubmittedAtMs >= r.WindowCloseAtMs
        THEN r.ProofSubmittedAtMs - r.WindowCloseAtMs ELSE 0,
     BlockAcceptLatencyMs |->
        IF r.WindowCloseAtMs > 0 /\ r.ClearAcceptedAtMs >= r.WindowCloseAtMs
        THEN r.ClearAcceptedAtMs - r.WindowCloseAtMs ELSE 0]

Snapshot(limit) ==
    LET keys == SnapshotKeys(limit)
    IN [i \in 1..Len(keys) |-> [key |-> keys[i]] @@ Derived(windows[keys[i]])]

-----------------------------------------------------------------------------
(* Properties.                                                             *)

Retained == ToSet(order)

Row == [CommitCount : Nat, RevealCount : Nat,
        FirstCommitAtMs : {0} \cup Times, LastCommitAtMs : {0} \cup Times,
        WindowCloseAtMs : {0} \cup {c \in Closes : c > 0},
        ProofSubmittedAtMs : {0} \cup Times, ClearAcceptedAtMs : {0} \cup Times,
        MissedDeadline : BOOLEAN, Rejected : BOOLEAN]

\* Rows hold only times a caller really passed: in particular
\* recordProofSubmit never stores a non-positive WindowCloseAtMs.
ZkTypeOK ==
    /\ windows \in [WindowKeys -> Row \cup {NoValue}]
    /\ order \in Seq(WindowKeys)
    /\ summary \in [DOMAIN ZeroSummary -> Nat]
    /\ now \in Times /\ deadline \in DeadlineChoices
    /\ proof \in [WindowKeys -> {NoValue} \cup [close : Closes, at : Times]]

\* c.order and c.windows describe the same windows: every key in the FIFO
\* once, and exactly the keys with a row; reset and the eviction in
\* getOrCreateLocked must update both.
WindowIndexConsistent ==
    /\ IsInjective(order)
    /\ Retained = {k \in WindowKeys : windows[k] # NoValue}

\* The collector keeps the newest windows: c.order is the tail of the
\* windows created since the last reset, as long as it can be without
\* passing maxWindows, and snapshot(limit) returns the newest limit of them.
FifoRetainsNewest ==
    /\ IsSuffix(order, created)
    /\ Len(order) = IF MaxWindows > 0 /\ Len(created) > MaxWindows
                    THEN MaxWindows ELSE Len(created)
    /\ \A limit \in 0..MaxWindows + 1 :
          LET keys == SnapshotKeys(limit)
          IN /\ IsSuffix(keys, order)
             /\ Len(keys) = IF limit > 0 /\ Len(order) > limit THEN limit ELSE Len(order)
             /\ Len(Snapshot(limit)) = Len(keys)

\* The summary counts at least what the retained rows count: a commit or
\* reveal is counted in a row only when its success is counted in the
\* summary, and every retained window was observed (eviction and reset
\* only ever lower the row side).
SummaryCoversWindows ==
    /\ MapThenSumSet(LAMBDA k : windows[k].CommitCount, Retained) <= summary.TotalCommits
    /\ MapThenSumSet(LAMBDA k : windows[k].RevealCount, Retained) <= summary.TotalReveals
    /\ Cardinality({k \in Retained : windows[k].MissedDeadline})
           <= summary.TotalMissedProofDeadlines
    /\ Len(order) <= summary.TotalWindowsObserved

\* A window flagged MissedDeadline had its accepted proof, if any, submitted
\* after the deadline: the flag zkbench reports per window says the
\* window's proof was late.
MissedFlagMeansLateProof ==
    \A k \in Retained :
        windows[k].MissedDeadline =>
            \/ proof[k] = NoValue
            \/ proof[k].at > proof[k].close + deadline
=============================================================================
