----------------------------- MODULE Settlement -----------------------------
(***************************************************************************)
(* Postpay settlement of one channel at the merchant:                      *)
(* on_settlement_propose, on_settlement_proof, on_funding and the ledger   *)
(* of crates/paytp-merchant/src/carriage.rs, against the payer's transfers *)
(* on the rail.                                                            *)
(*                                                                         *)
(* The channel's metering is reduced to the live CUM_TOTAL and B (module   *)
(* Metering has the rest) and a checkpoint to its CUM_TOTAL, since its     *)
(* accruals are that total times the vector.  The rail is the sequence of  *)
(* the transfers that have reached finality: an index is both the canonical *)
(* reference of a transfer and its finality time.  Signatures, pointers    *)
(* and assets are right on every message considered; a message that is     *)
(* refused changes nothing and is not an action.                           *)
(*                                                                         *)
(* A definition named Bug... is a mistake one could make in the definition *)
(* after it; no specification uses it.                                     *)
(***************************************************************************)
EXTENDS F7

CONSTANTS
  Bp,          \* basis points per role, in role-id order
  LimitL,      \* L_credit
  MaxCum,      \* bound on CUM_TOTAL
  MaxAmt,      \* a slice or a funding transfer moves 1..MaxAmt
  MaxCkpt,     \* bound on the checkpoints
  MaxRail,     \* bound on the transfers of a payer that is not conformant
  MaxFunds,    \* bound on the funding transfers among them
  Overshoot    \* how far past a round's target a payer may advance the watermark

\* The roles' share is never more than the whole: schema 0x01 gives them 100 of 10 000.
ASSUME VectorAssumption == Bp \in Seq(Nat) /\ Bp # <<>> /\ Total(Bp) <= BpDenom
ASSUME BoundAssumption ==
  /\ LimitL \in Nat /\ MaxCum \in Nat /\ MaxAmt \in Nat /\ MaxCkpt \in Nat
  /\ MaxRail \in Nat /\ MaxFunds \in Nat /\ Overshoot \in Nat

VARIABLES
  conformant, \* whether this payer pays each leg of a round once, the meed leg first
  cum,        \* the live CUM_TOTAL
  balance,    \* the live B
  ckpts,      \* CUM_TOTAL of every checkpoint countersigned so far, by reference
  op,         \* the reference of the operative checkpoint, 0 before the first
  ledger,     \* the Ledger: settled_r, net_legs_sum, funding_sum, version
  rounds,     \* the RoundDecisions, by checkpoint reference
  consumed,   \* consumed_funding: the transfers credited so far
  rail,       \* the transfers on the rail
  raced       \* auxiliary: funding credited while the last round's net leg was due

vars == <<conformant, cum, balance, ckpts, op, ledger, rounds, consumed, rail, raced>>

Roles == DOMAIN Bp
Zero == [r \in Roles |-> 0]
Accruals(total) == [r \in Roles |-> total * Bp[r]]
OnRail(kind, memo) == {i \in DOMAIN rail : rail[i].kind = kind /\ rail[i].memo = memo}

\* funded_p, the instance's watermark of the channel.
FundedP ==
  LET advances == OnRail("meed", 0)
  IN  IF advances = {} THEN 0
      ELSE rail[CHOOSE i \in advances : \A j \in advances : j <= i].amt

InFlight == {ref \in DOMAIN rounds : ~rounds[ref].confirmed}
NetDue == {ref \in InFlight : rounds[ref].output > 0 /\ ~rounds[ref].netFolded}

Init ==
  /\ conformant \in BOOLEAN
  /\ cum = 0 /\ balance = 0
  /\ ckpts = <<>> /\ op = 0
  /\ ledger = [settled |-> Zero, net |-> 0, funding |-> 0, version |-> 0]
  /\ rounds = <<>>
  /\ consumed = {} /\ rail = <<>> /\ raced = 0

-----------------------------------------------------------------------------
(* Metering and checkpoints.                                               *)

AcceptSlice(amt) ==
  /\ cum + amt <= MaxCum
  /\ balance + amt <= LimitL
  /\ cum' = cum + amt
  /\ balance' = balance + amt
  /\ UNCHANGED <<ckpts, op, ledger, rounds, consumed, rail, raced>>

\* A checkpoint of any prefix at or past the operative one.
Checkpoint(total) ==
  /\ Len(ckpts) < MaxCkpt
  /\ op # 0 => total >= ckpts[op]
  /\ ckpts' = Append(ckpts, total)
  /\ op' = Len(ckpts) + 1
  /\ UNCHANGED <<cum, balance, ledger, rounds, consumed, rail, raced>>

\* A late repetition of a proposal at the same CUM_TOTAL is countersigned again
\* and becomes the operative checkpoint again.
CheckpointAgain(ref) ==
  /\ op # 0 /\ ref # op
  /\ ckpts[ref] = ckpts[op]
  /\ op' = ref
  /\ UNCHANGED <<cum, balance, ckpts, ledger, rounds, consumed, rail, raced>>

-----------------------------------------------------------------------------
(* The payer's transfers.                                                  *)

Transfer(record) ==
  /\ conformant \/ Len(rail) < MaxRail
  /\ rail' = Append(rail, record)
  /\ UNCHANGED <<cum, balance, ckpts, op, ledger, rounds, consumed, raced>>

Fund(amt) ==
  /\ Cardinality(OnRail("fund", 0)) < MaxFunds
  /\ Transfer([kind |-> "fund", amt |-> amt, memo |-> 0])

\* The memo of a net leg names its round.
PayNet(ref) ==
  /\ rounds[ref].output > 0
  /\ conformant => FundedP >= rounds[ref].targetP /\ OnRail("net", ref) = {}
  /\ Transfer([kind |-> "net", amt |-> rounds[ref].output, memo |-> ref])

\* advance_channel_meed moves the watermark to a target, never back.
AdvanceMeed(ref, over) ==
  LET target == rounds[ref].targetP + over
  IN  /\ rounds[ref].targetP > 0
      /\ conformant => FundedP < rounds[ref].targetP
      /\ Transfer([kind |-> "meed", memo |-> 0,
                   amt |-> IF target > FundedP THEN target ELSE FundedP])

-----------------------------------------------------------------------------
(* on_settlement_propose.                                                  *)

\* The merchant-net still owed at a CUM_TOTAL.
OwedNet(total) ==
  OutstandingMerchantNet(total, Accruals(total), ledger.net, ledger.funding)

\* cumulative_target_p of a channel that imported nothing.
CumulativeTargetP(total) == DivideRound(Accruals(total), Unity).p

BugRoundFromAccruals(total) ==
  LET div == DivideRound(Accruals(total), Unity)
  IN  [meed |-> IF div.leg THEN div.p ELSE 0, er |-> div.er,
       targetP |-> IF div.leg THEN CumulativeTargetP(total) ELSE 0,
       output |-> OwedNet(total), version |-> ledger.version,
       meedFolded |-> FALSE, netFolded |-> FALSE, meedTime |-> 0, confirmed |-> FALSE]

\* recompute_round and the RoundDecision it is stored in; an amount of 0 is a leg
\* that is not there.
RecomputeRound(total) ==
  LET div == DivideRound(OutstandingMeedPerRole(Accruals(total), ledger.settled), Unity)
  IN  [meed |-> IF div.leg THEN div.p ELSE 0, er |-> div.er,
       targetP |-> IF div.leg THEN CumulativeTargetP(total) ELSE 0,
       output |-> OwedNet(total), version |-> ledger.version,
       meedFolded |-> FALSE, netFolded |-> FALSE, meedTime |-> 0, confirmed |-> FALSE]

BugNotSerialized(ref) == op # 0 /\ ref = op /\ ref \notin DOMAIN rounds

\* F6-l: a new round needs the operative checkpoint and no other round in flight.
AdmitsRound(ref) ==
  /\ op # 0 /\ ref = op
  /\ ref \notin DOMAIN rounds
  /\ InFlight \subseteq {ref}

SettlementPropose(ref) ==
  /\ AdmitsRound(ref)
  /\ ConsistentHistory(Accruals(ckpts[ref]), ledger.settled)
  /\ rounds' = [k \in DOMAIN rounds \cup {ref} |->
                  IF k = ref THEN RecomputeRound(ckpts[ref]) ELSE rounds[k]]
  /\ raced' = IF RecomputeRound(ckpts[ref]).output > 0 THEN 0 ELSE raced
  /\ UNCHANGED <<cum, balance, ckpts, op, ledger, consumed, rail>>

-----------------------------------------------------------------------------
(* on_settlement_proof.  A proof names a round and up to two transfers: m,  *)
(* the meed leg, and n, the net leg; 0 is a leg it does not name.          *)

\* The round is not confirmed yet, and the ledger is where its terms were computed.
ProofAdmitted(d) == ~d.confirmed /\ ledger.version = d.version

MeedLegOk(d, m) ==
  /\ d.targetP > 0
  /\ m \in DOMAIN rail
  /\ rail[m].kind = "meed"
  /\ rail[m].amt >= d.targetP

NetLegOk(ref, d, n) ==
  /\ d.output > 0
  /\ n \in DOMAIN rail
  /\ rail[n].kind = "net" /\ rail[n].memo = ref
  /\ rail[n].amt = d.output

FoldMeedNow(d, m) == d.meed > 0 /\ ~d.meedFolded /\ m # 0
FoldNetNow(d, n) == ~d.netFolded /\ n # 0
MeedDone(d, m) == d.meed = 0 \/ d.meedFolded \/ FoldMeedNow(d, m)
NetDone(d, n) == d.netFolded \/ d.output = 0 \/ n # 0

BugNetAnytime(d, m, n) == TRUE

\* F6.4: a net leg is final no earlier than the meed leg of its round.
NetAfterMeed(d, m, n) ==
  LET meedTime == IF m # 0 THEN m ELSE d.meedTime
  IN  IF meedTime # 0 THEN n >= meedTime ELSE d.meed = 0

BugProofNeedsFold(d, m, n) == FoldMeedNow(d, m) \/ FoldNetNow(d, n)

Progresses(d, m, n) ==
  \/ FoldMeedNow(d, m)
  \/ FoldNetNow(d, n)
  \/ MeedDone(d, m) /\ NetDone(d, n)

Folded(d, m, n, version) ==
  [d EXCEPT !.meedFolded = @ \/ FoldMeedNow(d, m),
            !.meedTime = IF FoldMeedNow(d, m) THEN m ELSE @,
            !.netFolded = @ \/ FoldNetNow(d, n),
            !.version = version,
            !.confirmed = @ \/ (MeedDone(d, m) /\ NetDone(d, n))]

FoldedLedger(d, m, n) ==
  [ledger EXCEPT
     !.settled = IF FoldMeedNow(d, m) THEN [r \in Roles |-> @[r] + d.er[r]] ELSE @,
     !.net = IF FoldNetNow(d, n) THEN @ + d.output ELSE @,
     !.version = IF FoldMeedNow(d, m) \/ FoldNetNow(d, n) THEN @ + 1 ELSE @]

\* The gross value a proof takes off B: the step of the cumulative carve, and the net.
GrossSettled(after) ==
  (MeedCarve(after.settled) - MeedCarve(ledger.settled)) + (after.net - ledger.net)

SettlementProof(ref, m, n) ==
  LET d == rounds[ref]
      after == FoldedLedger(d, m, n)
  IN  /\ ProofAdmitted(d)
      /\ m # 0 => MeedLegOk(d, m)
      /\ n # 0 => NetLegOk(ref, d, n)
      /\ Progresses(d, m, n)
      /\ FoldNetNow(d, n) => NetAfterMeed(d, m, n) /\ n \notin consumed
      /\ ledger' = after
      /\ rounds' = [rounds EXCEPT ![ref] = Folded(d, m, n, after.version)]
      /\ consumed' = IF FoldNetNow(d, n) THEN consumed \cup {n} ELSE consumed
      /\ balance' = SatSub(balance, GrossSettled(after))
      /\ UNCHANGED <<cum, ckpts, op, rail, raced>>

-----------------------------------------------------------------------------
(* on_funding.                                                             *)

\* Credited, not raw: no more than the merchant-net outstanding on the live books.
CreditedFunding(i) ==
  IF rail[i].amt < OwedNet(cum) THEN rail[i].amt ELSE OwedNet(cum)

BugFundingNotConsumed(i) == consumed

Consume(i) == consumed \cup {i}

Funding(i) ==
  /\ rail[i].kind = "fund"
  /\ i \notin consumed
  /\ consumed' = Consume(i)
  /\ balance' = SatSub(balance, CreditedFunding(i))
  /\ ledger' = [ledger EXCEPT !.funding = @ + CreditedFunding(i)]
  /\ raced' = IF NetDue # {} THEN raced + CreditedFunding(i) ELSE raced
  /\ UNCHANGED <<cum, ckpts, op, rounds, rail>>

-----------------------------------------------------------------------------
Step ==
  \/ \E amt \in 1..MaxAmt : AcceptSlice(amt)
  \/ \E total \in 0..cum : Checkpoint(total)
  \/ \E ref \in DOMAIN ckpts : CheckpointAgain(ref)
  \/ \E amt \in 1..MaxAmt : Fund(amt)
  \/ \E ref \in DOMAIN rounds : PayNet(ref)
  \/ \E ref \in DOMAIN rounds, over \in 0..Overshoot : AdvanceMeed(ref, over)
  \/ \E ref \in DOMAIN ckpts : SettlementPropose(ref)
  \/ \E ref \in DOMAIN rounds, m, n \in 0..Len(rail) : SettlementProof(ref, m, n)
  \/ \E i \in DOMAIN rail : Funding(i)

Next == Step /\ UNCHANGED conformant

Spec == Init /\ [][Next]_vars

\* The debtor executes the rounds it has proposed and presents their proofs.
FairSpec ==
  /\ Spec
  /\ WF_vars(conformant /\ (\E ref \in DOMAIN rounds : AdvanceMeed(ref, 0)) /\ UNCHANGED conformant)
  /\ WF_vars(conformant /\ (\E ref \in DOMAIN rounds : PayNet(ref)) /\ UNCHANGED conformant)
  /\ WF_vars(conformant /\ (\E ref \in DOMAIN rounds, m, n \in 0..Len(rail) : SettlementProof(ref, m, n))
                /\ UNCHANGED conformant)

-----------------------------------------------------------------------------
(* Properties.                                                             *)

Paid(indices) == SumOver([i \in indices |-> rail[i].amt], indices)
SettledCarve == MeedCarve(ledger.settled)

\* recompute_round never meets a history with settled > accrued, the state in
\* which a channel could never settle again: neither now nor once the round in
\* flight has folded its E_r.
NeverBricked ==
  /\ op # 0 => ConsistentHistory(Accruals(ckpts[op]), ledger.settled)
  /\ \A ref \in InFlight :
       ~rounds[ref].meedFolded =>
         \A r \in Roles : ledger.settled[r] + rounds[ref].er[r] <= ckpts[ref] * Bp[r]

\* F6-l: at most one round is in flight, and the ledger_version backstop of
\* on_settlement_proof never rejects it, whatever funding, checkpoints and partial
\* proofs come between its proposal and its last leg.
BackstopSilent ==
  /\ Cardinality(InFlight) <= 1
  /\ \A ref \in InFlight : rounds[ref].version = ledger.version

\* on_funding and on_settlement_proof: the extinguished numerators are backed by
\* the instance's watermark, to the unit; what a round in flight still asks for is
\* the distance from the settled carve to its target; and each transfer is credited
\* once, on the path its memo names, for no more than it moved.  So the merchant never
\* collects more than the merchant-net it has metered, except for funding that raced
\* the net leg of the round last proposed, and the live B never understates what the
\* ledger has not seen settled.
LedgerBacked ==
  /\ Total(ledger.settled) <= BpDenom * FundedP
  /\ Total(ledger.settled) % BpDenom = 0
  /\ \A ref \in InFlight :
       rounds[ref].meed > 0 /\ ~rounds[ref].meedFolded =>
         rounds[ref].targetP - SettledCarve = rounds[ref].meed
  /\ ledger.net = Paid({i \in consumed : rail[i].kind = "net"})
  /\ ledger.funding <= Paid({i \in consumed : rail[i].kind = "fund"})
  /\ \A i \in consumed : rail[i].kind # "meed"
  /\ ledger.net + ledger.funding <= cum - MeedCarve(Accruals(cum)) + raced
  /\ balance >= cum - ledger.net - ledger.funding - SettledCarve

\* F6.4: a round's net leg is credited only once its meed is, and no earlier
\* than the watermark reached the round's target, whichever of several advances
\* its proofs name.
MeedBeforeNet ==
  \A ref \in DOMAIN rounds :
    rounds[ref].netFolded /\ rounds[ref].meed > 0 =>
      /\ rounds[ref].meedFolded
      /\ \E n \in consumed \cap OnRail("net", ref), m \in OnRail("meed", 0) :
           m <= n /\ rail[m].amt >= rounds[ref].targetP

\* A conformant debtor's round always reaches CONFIRMED, a round that owes
\* nothing included, so it cannot bar every later round (F6-l).
EveryRoundConfirms ==
  \A ref \in 1..MaxCkpt :
    conformant /\ ref \in DOMAIN rounds ~> ref \in DOMAIN rounds /\ rounds[ref].confirmed
=============================================================================
