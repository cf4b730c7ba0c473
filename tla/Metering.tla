------------------------------ MODULE Metering ------------------------------
(***************************************************************************)
(* The merchant's books of one metered channel:                            *)
(* crates/paytp-core/src/channel/state.rs (ChannelState), together with    *)
(* the two handlers of crates/paytp-merchant/src/carriage.rs that drive it *)
(* while a channel is live: `batch` and `on_checkpoint_request`.           *)
(*                                                                         *)
(* The environment is every party that holds the session key: it may send  *)
(* any slice, in any order, any number of times, and even two slices that  *)
(* share a SEQ.  A slice that fails the MAC, and a slice or proposal that   *)
(* is refused without a consequence, leaves the books as they are and is   *)
(* not an action.  A proposal of a checkpoint is cut at one moment and     *)
(* arrives at another, as often as the network repeats it.                 *)
(*                                                                         *)
(* Amounts are whole micro-units.  `accounted` and the keys of `window`    *)
(* are inserted and retained together in the code; the model keeps one of  *)
(* them.  The transcript head, a hash chain, is the sequence of slices     *)
(* that were folded into it; a checkpoint's reference, a hash of the       *)
(* signed checkpoint, is a number that no other checkpoint has.            *)
(*                                                                         *)
(* A definition named Bug... is a mistake one could make in the definition *)
(* after it; no specification uses it.                                     *)
(***************************************************************************)
EXTENDS Sums, Sequences

CONSTANTS
  Mode,          \* "postpay" or "prepay"
  LimitL,        \* L_credit (postpay) or L_prepay (prepay)
  LimitE,        \* the evidence bound E
  Roles,         \* the roles of the meed vector
  Bp,            \* basis points of each role
  MaxSeq,        \* slices carry SEQs 1..MaxSeq
  MaxAmt,        \* a slice is worth 0..MaxAmt
  MaxCredit,     \* one funding transfer or round credits 0..MaxCredit
  MaxCredits,    \* bound on the sum of the credits
  MaxRef,        \* proposals carry references 1..MaxRef
  ImportedCums   \* the CUM_TOTALs a chained successor may import

ASSUME ModeAssumption == Mode \in {"postpay", "prepay"}
ASSUME LimitAssumption == LimitL \in Nat /\ LimitE \in Nat
ASSUME VectorAssumption == Bp \in [Roles -> Nat]
ASSUME BoundAssumption ==
  /\ MaxSeq \in Nat /\ MaxAmt \in Nat /\ MaxRef \in Nat
  /\ MaxCredit \in Nat /\ MaxCredits \in Nat
  /\ ImportedCums \subseteq Nat

VARIABLES
  ch,            \* the ChannelState
  proposals,     \* the CHECKPOINT_REQUESTs in the network
  operative,     \* the merchant's operative checkpoint, NoCheckpoint before the first
  countersigned, \* every checkpoint the merchant has countersigned and sent back
  log,           \* auxiliary: every slice accepted so far
  credits,       \* auxiliary: the sum of all funding and settlement credits
  opening,       \* auxiliary: the position the channel opened at
  refused        \* auxiliary: what was accepted when a batch last hit the window; empty
                 \* again once value comes in

vars == <<ch, proposals, operative, countersigned, log, credits, opening, refused>>

Slices == [seq : 1..MaxSeq, amt : 0..MaxAmt]
Phases == {"open", "settling", "closed"}
NoCheckpoint == [ref |-> 0]

BoundUpper == IF Mode = "postpay" THEN LimitL ELSE 0
BoundLower == IF Mode = "postpay" THEN 0 ELSE -LimitL

-----------------------------------------------------------------------------
(* Construction.                                                           *)

New ==
  [key |-> TRUE, phase |-> "open", balance |-> 0, cum |-> 0,
   accr |-> [r \in Roles |-> 0], unevidenced |-> 0, floor |-> 0,
   window |-> {}, head |-> <<>>, pausedWindow |-> FALSE, pausedEvidence |-> FALSE]

NewImported(cum, accr, balance) ==
  [New EXCEPT !.cum = cum, !.accr = accr, !.balance = balance]

-----------------------------------------------------------------------------
(* Acceptance, in the canonical order of checks.                           *)

Accounted(c) == {s.seq : s \in c.window}

BugDuplicateAdmitted(c, s) == c.key /\ c.phase = "open" /\ s.seq > c.floor

BugBelowFloorAdmitted(c, s) ==
  c.key /\ c.phase = "open" /\ s.seq \notin Accounted(c)

\* The slice passes the MAC, the phase and the SEQ checks.
Admissible(c, s) ==
  /\ c.key
  /\ c.phase = "open"
  /\ s.seq > c.floor
  /\ s.seq \notin Accounted(c)

\* PAYTP_WINDOW_EXCEEDED: the channel is barred already or the slice breaches B.
HitsWindow(c, s) ==
  /\ Admissible(c, s)
  /\ c.pausedWindow \/ c.balance + s.amt > BoundUpper

Accepts(c, s) ==
  /\ Admissible(c, s)
  /\ ~c.pausedWindow
  /\ c.balance + s.amt <= BoundUpper
  /\ c.unevidenced + s.amt <= LimitE

Accepted(c, s) ==
  [c EXCEPT !.balance = @ + s.amt,
            !.cum = @ + s.amt,
            !.accr = [r \in Roles |-> @[r] + s.amt * Bp[r]],
            !.unevidenced = @ + s.amt,
            !.window = @ \cup {s},
            !.pausedEvidence = @ \/ c.unevidenced + s.amt >= LimitE]

-----------------------------------------------------------------------------
(* Checkpoints.                                                            *)

Amount(slices) == SumOver([s \in slices |-> s.amt], slices)

UpTo(c, cutoff) == {s \in c.window : s.seq <= cutoff}
Above(c, cutoff) == {s \in c.window : s.seq > cutoff}

\* q holds every slice once, in SEQ order.
SeqOrdered(q, slices) ==
  /\ {q[i] : i \in DOMAIN q} = slices
  /\ \A i, j \in DOMAIN q : i < j => q[i] # q[j] /\ q[i].seq <= q[j].seq

InSeqOrder(slices) ==
  CHOOSE q \in [1..Cardinality(slices) -> slices] : SeqOrdered(q, slices)

\* The transcript head after folding slices in SEQ order.
Advance(head, slices) == head \o InSeqOrder(slices)

LastSeq(c, cutoff) ==
  IF UpTo(c, cutoff) = {} THEN c.floor ELSE Max({s.seq : s \in UpTo(c, cutoff)})

BugTotalsAreLive(c, cutoff, ref) ==
  [ref |-> ref, cum |-> c.cum, accr |-> c.accr, balance |-> c.balance,
   lastSeq |-> LastSeq(c, cutoff), ranges |-> {s.seq : s \in UpTo(c, cutoff)},
   transcript |-> Advance(c.head, UpTo(c, cutoff))]

\* build_checkpoint_at: the books as of `cutoff`, newer slices excluded.
BuildCheckpointAt(c, cutoff, ref) ==
  LET excluded == Amount(Above(c, cutoff))
  IN  [ref |-> ref,
       cum |-> IF excluded > c.cum THEN 0 ELSE c.cum - excluded,
       accr |-> [r \in Roles |-> c.accr[r] - excluded * Bp[r]],
       balance |-> c.balance - excluded,
       lastSeq |-> LastSeq(c, cutoff),
       ranges |-> {s.seq : s \in UpTo(c, cutoff)},
       transcript |-> Advance(c.head, UpTo(c, cutoff))]

\* The countersign decision: the proposal is what these books say at its LAST_SEQ.
Recomputes(c, p) == BuildCheckpointAt(c, p.lastSeq, p.ref) = p

BugEvidenceReset(c, cutoff) ==
  [c EXCEPT !.head = Advance(@, UpTo(c, cutoff)),
            !.window = Above(c, cutoff), !.floor = cutoff,
            !.unevidenced = 0, !.pausedEvidence = FALSE]

CheckpointUpTo(c, cutoff) ==
  LET retained == Above(c, cutoff)
  IN  [c EXCEPT !.head = Advance(@, UpTo(c, cutoff)),
                !.window = retained,
                !.floor = cutoff,
                !.unevidenced = Amount(retained),
                !.pausedEvidence = Amount(retained) >= LimitE]

-----------------------------------------------------------------------------
(* Value coming in, and the end of the channel.                            *)

Credited(c, amount) ==
  [c EXCEPT !.balance = IF @ - amount < BoundLower THEN BoundLower ELSE @ - amount,
            !.pausedWindow = @ /\ amount = 0]

Settled(c, gross) == IF Mode = "postpay" THEN Credited(c, gross) ELSE c

BeganSettling(c) == IF c.phase = "closed" THEN c ELSE [c EXCEPT !.phase = "settling"]

Closed(c) == [c EXCEPT !.phase = "closed", !.key = FALSE]

-----------------------------------------------------------------------------
(* The handlers.                                                           *)

\* A fresh channel, or a chained successor at an imported position.
Init ==
  /\ \/ ch = New
     \/ \E cum \in ImportedCums, b \in BoundLower..BoundUpper :
          ch = NewImported(cum, [r \in Roles |-> cum * Bp[r]], b)
  /\ proposals = {}
  /\ operative = NoCheckpoint
  /\ countersigned = {}
  /\ log = {}
  /\ credits = 0
  /\ opening = [cum |-> ch.cum, balance |-> ch.balance]
  /\ refused = {}

\* A batch of one slice: accepted, or the window pause it leaves behind.
BatchOfOne(s) ==
  /\ \/ /\ Accepts(ch, s)
        /\ ch' = Accepted(ch, s)
        /\ log' = log \cup {s}
        /\ refused' = refused
     \/ /\ HitsWindow(ch, s)
        /\ ch' = [ch EXCEPT !.pausedWindow = TRUE]
        /\ log' = log
        /\ refused' = {log}
  /\ UNCHANGED <<proposals, operative, countersigned, credits, opening>>

BugBatchRollsBackPause(s, t) ==
  /\ Accepts(ch, s)
  /\ \/ /\ Accepts(Accepted(ch, s), t)
        /\ ch' = Accepted(Accepted(ch, s), t)
        /\ log' = log \cup {s, t}
        /\ refused' = refused
     \/ /\ HitsWindow(Accepted(ch, s), t)
        /\ refused' = {log}
        /\ UNCHANGED <<ch, log>>
  /\ UNCHANGED <<proposals, operative, countersigned, credits, opening>>

\* A batch of two, validated on a tentative copy: both slices are accounted or
\* neither; a window breach by the second pauses the real channel.
BatchOfTwo(s, t) ==
  /\ Accepts(ch, s)
  /\ \/ /\ Accepts(Accepted(ch, s), t)
        /\ ch' = Accepted(Accepted(ch, s), t)
        /\ log' = log \cup {s, t}
        /\ refused' = refused
     \/ /\ HitsWindow(Accepted(ch, s), t)
        /\ ch' = [ch EXCEPT !.pausedWindow = TRUE]
        /\ log' = log
        /\ refused' = {log}
  /\ UNCHANGED <<proposals, operative, countersigned, credits, opening>>

CreditFunding(amount) ==
  /\ credits + amount <= MaxCredits
  /\ ch' = Credited(ch, amount)
  /\ credits' = credits + amount
  /\ refused' = IF amount > 0 THEN {} ELSE refused
  /\ UNCHANGED <<proposals, operative, countersigned, log, opening>>

ApplySettlementRound(gross) ==
  /\ Mode = "postpay"
  /\ credits + gross <= MaxCredits
  /\ ch' = Settled(ch, gross)
  /\ credits' = credits + gross
  /\ refused' = IF gross > 0 THEN {} ELSE refused
  /\ UNCHANGED <<proposals, operative, countersigned, log, opening>>

\* The payer's side cuts a proposal over the slices up to `cutoff` and signs it.
ProposeCheckpoint(cutoff, ref) ==
  /\ cutoff \in Accounted(ch) \cup {ch.floor}
  /\ \A p \in proposals : p.ref # ref
  /\ proposals' = proposals \cup {BuildCheckpointAt(ch, cutoff, ref)}
  /\ UNCHANGED <<ch, operative, countersigned, log, credits, opening, refused>>

\* The merchant countersigns a proposal that recomputes.  A proposal that does
\* not is answered again if it is the operative one, and otherwise refused.
OnCheckpointRequest(p) ==
  /\ Recomputes(ch, p)
  /\ ch' = CheckpointUpTo(ch, p.lastSeq)
  /\ operative' = p
  /\ countersigned' = countersigned \cup {p}
  /\ UNCHANGED <<proposals, log, credits, opening, refused>>

BeginSettling ==
  /\ ch' = BeganSettling(ch)
  /\ UNCHANGED <<proposals, operative, countersigned, log, credits, opening, refused>>

Close ==
  /\ ch' = Closed(ch)
  /\ UNCHANGED <<proposals, operative, countersigned, log, credits, opening, refused>>

Next ==
  \/ \E s \in Slices : BatchOfOne(s)
  \/ \E s, t \in Slices : BatchOfTwo(s, t)
  \/ \E amount \in 0..MaxCredit : CreditFunding(amount)
  \/ \E gross \in 0..MaxCredit : ApplySettlementRound(gross)
  \/ \E cutoff \in 0..MaxSeq, ref \in 1..MaxRef : ProposeCheckpoint(cutoff, ref)
  \/ \E p \in proposals : OnCheckpointRequest(p)
  \/ BeginSettling
  \/ Close

Spec == Init /\ [][Next]_vars

-----------------------------------------------------------------------------
(* Properties.                                                             *)

\* accept_slice, credit_funding and apply_settlement_round keep B inside the
\* mode's window, and B never understates what the merchant has delivered
\* against what it has been given: the value metered since the opening, net of
\* every credit, stays within L_credit (postpay), and within the deposit
\* (prepay: consumption never outruns the credited deposits).  And once a batch
\* has hit the window nothing more is metered until value comes in, so nobody
\* evades accept_batch's pause by trying again with less.
CreditBound ==
  /\ BoundLower <= ch.balance /\ ch.balance <= BoundUpper
  /\ opening.balance + (ch.cum - opening.cum) - credits <= BoundUpper
  /\ refused \subseteq {log}

\* accept_slice and checkpoint_upto: the unevidenced value is the value of the
\* slices no checkpoint covers, never exceeds E, and reaching E pauses.
EvidenceBound ==
  /\ ch.unevidenced = Amount(ch.window)
  /\ ch.unevidenced <= LimitE
  /\ LimitE > 0 => (ch.pausedEvidence <=> ch.unevidenced >= LimitE)

\* accept_slice under repeated and conflicting SEQs, before and after the floor
\* has moved past them: at most one slice of a SEQ is ever metered.
OneSlicePerSeq == \A s, t \in log : s.seq = t.seq => s = t

\* recomputes and checkpoint_upto: whatever arrived later, and in whatever
\* order, a countersigned checkpoint states the total of all slices ever
\* accepted at or below its LAST_SEQ, and its transcript folds exactly those
\* in SEQ order.
CheckpointsTruthful ==
  \A p \in countersigned :
    LET covered == {s \in log : s.seq <= p.lastSeq}
    IN  /\ p.cum = opening.cum + Amount(covered)
        /\ \A r \in Roles : p.accr[r] = p.cum * Bp[r]
        /\ p.transcript = Advance(<<>>, covered)

\* The prefix a countersigned checkpoint covers is frozen: no slice at or below
\* its LAST_SEQ is metered afterwards (accept_slice's floor check).
CoverageFrozen ==
  [][\A p \in countersigned : \A s \in log' \ log : s.seq > p.lastSeq]_vars
=============================================================================
