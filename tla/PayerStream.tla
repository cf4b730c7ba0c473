---------------------------- MODULE PayerStream ----------------------------
(***************************************************************************)
(* A prepay channel as its payer streams it: the ChannelClient of          *)
(* crates/paytp-wallet/src/channel.rs, which meters what it streams, halts *)
(* on a round of unsettled meed or on time, resumes on the merchant's      *)
(* PREPAY_DRAW_COMPLETED and credits the round from the rail; and the      *)
(* merchant's interim draws (run_prepay_interim_draw of                    *)
(* crates/paytp-merchant/src/carriage.rs), over the asynchronous rail.     *)
(*                                                                         *)
(* A checkpoint is its CUM_TOTAL and its reference its number.  An honest  *)
(* merchant signs the notices its draws make; a hostile one signs any      *)
(* notice, naming any transfer or none, and advances the watermark as it   *)
(* likes.  Notices stay in the network, and may be delivered late, often   *)
(* or never.                                                               *)
(***************************************************************************)
EXTENDS AsyncRail, FiniteSets

CONSTANTS
  Bp,          \* basis points per role, in role-id order
  ThValues,    \* the values TH_value may have
  ThTime,      \* TH_time; 0 disables the time trigger
  PerSlice,    \* the policy's ceiling for a slice
  MaxAmt,      \* a slice of 1..MaxAmt is asked for
  MaxCum,      \* bound on the value streamed
  MaxNow,      \* bound on the wallet's clock
  MaxRefs      \* bound on the advances of a hostile merchant

ASSUME StreamAssumption ==
  /\ Bp \in Seq(Nat) /\ Bp # <<>> /\ ThValues \subseteq Nat /\ ThTime \in Nat
  /\ PerSlice \in Nat /\ MaxAmt \in Nat /\ MaxCum \in Nat /\ MaxNow \in Nat /\ MaxRefs \in Nat

VARIABLES
  honest,      \* whether the merchant is
  thValue,     \* TH_value
  clock,       \* the wallet's clock
  wallet,      \* the ChannelClient
  ckpts,       \* the countersigned checkpoints; the last is the merchant's operative
  rounds,      \* the merchant's interim rounds, by checkpoint
  settled,     \* the merchant's settled_r
  notices      \* the notices the merchant has signed

terms == <<honest, thValue>>
merchant == <<ckpts, rounds, settled, notices>>
streamVars == <<terms, clock, wallet, merchant, rail>>

Roles == DOMAIN Bp
Zero == [r \in Roles |-> 0]
Accruals(total) == [r \in Roles |-> total * Bp[r]]

\* PREPAY_DRAW_COMPLETED; the claim-record it names is a function of the other fields.
Notice(ref, amount, tx) == [ref |-> ref, amount |-> amount, tx |-> tx]

NoRound == [ref |-> 0, amount |-> 0, cum |-> 0, tx |-> 0, defaulted |-> FALSE]

\* One round's carve, at least one unit when the value trigger is on.
RoundCarve ==
  LET floor == (thValue * Total(Bp)) \div BpDenom
  IN  IF thValue = 0 THEN 0 ELSE IF floor = 0 THEN 1 ELSE floor

StreamInit ==
  /\ RailInit
  /\ honest \in BOOLEAN /\ thValue \in ThValues
  /\ clock = 0
  /\ wallet = [cum |-> 0, op |-> 0, credited |-> Zero, pending |-> NoRound,
               halted |-> FALSE, lastSettle |-> 0]
  /\ ckpts = <<>> /\ rounds = <<>> /\ settled = Zero /\ notices = {}

-----------------------------------------------------------------------------
(* The wallet's metering.                                                  *)

\* carve_at: the meed owed at a position, net of what is credited.
CarveAt(w, total) ==
  ComputeP(Total(OutstandingMeedPerRole(Accruals(total), w.credited)), Unity)

\* A round that failed its verification is owed again.
InFlightAmount(w) ==
  IF w.pending = NoRound \/ w.pending.defaulted THEN 0 ELSE CarveAt(w, w.pending.cum)

OwedBeyondInFlight(w, total) == SatSub(CarveAt(w, total), InFlightAmount(w))

ValueHalt(w) ==
  IF RoundCarve > 0 THEN OwedBeyondInFlight(w, w.cum) >= RoundCarve
  ELSE w.op # 0 /\ CarveAt(w, ckpts[w.op]) > InFlightAmount(w)

\* The deadline is net of what is credited only, not of a round in flight.
TimeHalt(w) ==
  /\ ThTime > 0
  /\ clock - w.lastSettle >= ThTime
  /\ CarveAt(w, w.cum) > 0

MustHalt(w) == ValueHalt(w) \/ TimeHalt(w)

RefreshHalt(w) == [w EXCEPT !.halted = MustHalt(w)]

ApproveSlice(amt) == amt <= PerSlice

\* A slice may land on the bound of one round, never beyond it.
WithinRound(w, amt) ==
  RoundCarve > 0 => OwedBeyondInFlight(w, w.cum + amt) <= RoundCarve

NextSlice(amt) ==
  LET w == RefreshHalt(wallet)
  IN  /\ w.cum + amt <= MaxCum
      /\ ~w.halted /\ ApproveSlice(amt) /\ WithinRound(w, amt)
      /\ wallet' = [w EXCEPT !.cum = @ + amt]
      /\ UNCHANGED <<terms, clock, merchant, rail>>

\* next_slice refuses: halted, denied by the policy, or past the bound.
RefuseSlice(amt) ==
  LET w == RefreshHalt(wallet)
  IN  /\ w.halted \/ ~ApproveSlice(amt) \/ ~WithinRound(w, amt)
      /\ wallet' = [w EXCEPT !.halted = @ \/ ApproveSlice(amt)]
      /\ wallet' # wallet
      /\ UNCHANGED <<terms, clock, merchant, rail>>

\* on_overdue_meed: the policy is consulted for the record only.
OnOverdueMeed ==
  /\ wallet' = RefreshHalt(wallet) /\ wallet' # wallet
  /\ UNCHANGED <<terms, clock, merchant, rail>>

ClockTicks ==
  /\ clock < MaxNow
  /\ clock' = clock + 1
  /\ UNCHANGED <<terms, wallet, merchant, rail>>

-----------------------------------------------------------------------------
(* Checkpoints.                                                            *)

InFlight == {ref \in DOMAIN rounds : ~rounds[ref].confirmed}

\* "The wallet credits a resumed round before the operative advances past it": the
\* interaction layer of an honest merchant keeps to this order.
InOrder == InFlight = {} /\ Total(wallet.credited) = Total(settled)

\* request_checkpoint and on_checkpoint_request, for a position the wallet streamed.
Checkpoint(total) ==
  /\ total <= wallet.cum
  /\ total > (IF ckpts = <<>> THEN 0 ELSE Last(ckpts))
  /\ honest => InOrder
  /\ ckpts' = Append(ckpts, total)
  /\ UNCHANGED <<terms, clock, wallet, rounds, settled, notices, rail>>

\* Only a greater CUM_TOTAL supersedes.
RecordOperative(ref) ==
  /\ ref > wallet.op
  /\ wallet' = RefreshHalt([wallet EXCEPT !.op = ref])
  /\ UNCHANGED <<terms, clock, merchant, rail>>

-----------------------------------------------------------------------------
(* The merchant's interim draw.                                            *)

CumulativeTarget(total) == ComputeP(Total(Accruals(total)), Unity)

Division(ref) == DivideRound(OutstandingMeedPerRole(Accruals(ckpts[ref]), settled), Unity)

\* The round in flight, else a new one at the operative checkpoint if it owes a leg.
DrawableRounds ==
  IF ~honest THEN {}
  ELSE IF InFlight # {} THEN InFlight
  ELSE {ref \in {Len(ckpts)} \ DOMAIN rounds : ref # 0 /\ Division(ref).leg}

LockedRound(ref) ==
  IF ref \in DOMAIN rounds THEN rounds[ref]
  ELSE [target |-> CumulativeTarget(ckpts[ref]), er |-> Division(ref).er,
        tx |-> 0, confirmed |-> FALSE]

Locks(ref, d) == rounds' = [x \in DOMAIN rounds \cup {ref} |-> IF x = ref THEN d ELSE rounds[x]]

\* The rail refuses the advance: an outage, or the escrow does not cover it.
DrawRefused(ref) ==
  /\ ref \in DrawableRounds \ DOMAIN rounds
  /\ Locks(ref, LockedRound(ref))
  /\ UNCHANGED <<terms, clock, wallet, ckpts, settled, notices, rail>>

\* The advance is submitted, and is not final yet.
Draw(ref) ==
  /\ ref \in DrawableRounds
  /\ LockedRound(ref).tx = 0
  /\ Present(Advance(LockedRound(ref).target))
  /\ Locks(ref, [LockedRound(ref) EXCEPT !.tx = Len(refs) + 1])
  /\ UNCHANGED <<terms, clock, wallet, ckpts, settled, notices>>

\* The same advance is looked at again, and is final: the round is folded and the
\* notice signed.
DrawCompletes(ref) ==
  LET d == rounds[ref]
  IN  /\ ref \in InFlight /\ d.tx # 0
      /\ FinalityReached(d.tx)
      /\ Locks(ref, [d EXCEPT !.confirmed = TRUE])
      /\ settled' = [r \in Roles |-> settled[r] + d.er[r]]
      /\ notices' = notices \cup {Notice(ref, d.target, d.tx)}
      /\ UNCHANGED <<terms, clock, wallet, ckpts, rail>>

-----------------------------------------------------------------------------
(* The notice, and its verification on the rail.                           *)

BugExpectsRoundCarve(w) == CarveAt(w, ckpts[w.op])

\* The target the wallet itself computes: the cumulative position.
ExpectedAmount(w) == CumulativeTarget(ckpts[w.op])

BugResumesOverPending(n) ==
  /\ wallet.op # 0 /\ n.ref = wallet.op
  /\ n.amount # 0 /\ n.amount = ExpectedAmount(wallet)

\* A first notice must settle the operative checkpoint in full, and something must
\* be owed there; no other round may await its verification.
AcceptsRound(n) ==
  /\ wallet.pending = NoRound
  /\ wallet.op # 0 /\ n.ref = wallet.op
  /\ n.amount # 0 /\ n.amount = ExpectedAmount(wallet)
  /\ CarveAt(wallet, ckpts[wallet.op]) > 0

ResumeOnPrepayDraw(n) ==
  /\ AcceptsRound(n)
  /\ wallet' = RefreshHalt([wallet EXCEPT !.pending =
       [ref |-> n.ref, amount |-> n.amount, cum |-> ckpts[n.ref], tx |-> n.tx,
        defaulted |-> FALSE]])
  /\ UNCHANGED <<terms, clock, merchant, rail>>

\* Delivered again: a round that has defaulted is pointed at the new transfer, and
\* stays defaulted.
RepointPending(n) ==
  /\ wallet.pending # NoRound /\ wallet.pending.defaulted
  /\ n.ref = wallet.pending.ref /\ n.amount = wallet.pending.amount
  /\ n.tx # wallet.pending.tx
  /\ wallet' = [wallet EXCEPT !.pending.tx = n.tx]
  /\ UNCHANGED <<terms, clock, merchant, rail>>

\* try_credit: this channel's advance reached the target, and is final.
DrawVerifies(pv) == Fact(pv.tx) >= pv.amount /\ FinalityReached(pv.tx)

\* fold_credited
Credit(w) ==
  LET div == DivideRound(OutstandingMeedPerRole(Accruals(w.pending.cum), w.credited), Unity)
  IN  [w EXCEPT !.credited = [r \in Roles |-> @[r] + div.er[r]],
                !.pending = NoRound, !.lastSettle = clock]

VerifyPendingDraw ==
  /\ wallet.pending # NoRound
  /\ wallet' = RefreshHalt(IF DrawVerifies(wallet.pending) THEN Credit(wallet)
                           ELSE [wallet EXCEPT !.pending.defaulted = TRUE])
  /\ UNCHANGED <<terms, clock, merchant, rail>>

-----------------------------------------------------------------------------
\* What the network may deliver.
Deliverable ==
  IF honest THEN notices
  ELSE [ref : DOMAIN ckpts, amount : {CumulativeTarget(ckpts[k]) : k \in DOMAIN ckpts},
        tx : {0} \cup DOMAIN refs]

\* Another channel shares an honest merchant's escrow: a deposit, or a refund under
\* its key.
OtherChannel ==
  /\ honest /\ refs = <<>>
  /\ Present(Plain(1, 0)) \/ Present(Release(1, 1))

HostileAdvance ==
  /\ ~honest /\ Len(refs) < MaxRefs
  /\ \E k \in DOMAIN ckpts : Present(Advance(CumulativeTarget(ckpts[k])))

Environment == UNCHANGED <<terms, clock, wallet, merchant>>

RailStep ==
  \/ \E i \in DOMAIN refs : Confirm(i) \/ DropTx(i)
  \/ Finalize
  \/ Reorg

StreamNext ==
  \/ \E amt \in 1..MaxAmt : NextSlice(amt) \/ RefuseSlice(amt)
  \/ OnOverdueMeed \/ ClockTicks
  \/ \E total \in 1..MaxCum : Checkpoint(total)
  \/ \E ref \in DOMAIN ckpts :
       RecordOperative(ref) \/ DrawRefused(ref) \/ Draw(ref) \/ DrawCompletes(ref)
  \/ \E n \in Deliverable : ResumeOnPrepayDraw(n) \/ RepointPending(n)
  \/ VerifyPendingDraw
  \/ (OtherChannel \/ HostileAdvance \/ RailStep) /\ Environment

StreamSpec == StreamInit /\ [][StreamNext]_streamVars

\* With an honest merchant: the interaction layer asks for a checkpoint of all that
\* was streamed and delivers what it gets, the merchant repeats its draw, and
\* transfers are included and become final.
StreamFairSpec ==
  /\ StreamSpec
  /\ WF_streamVars(honest /\ Checkpoint(wallet.cum))
  /\ WF_streamVars(honest /\ ckpts # <<>> /\ RecordOperative(Len(ckpts)))
  /\ WF_streamVars(honest /\ \E ref \in DOMAIN ckpts : Draw(ref) \/ DrawCompletes(ref))
  /\ WF_streamVars(honest /\ \E n \in notices : ResumeOnPrepayDraw(n))
  /\ WF_streamVars(honest /\ VerifyPendingDraw)
  /\ WF_streamVars(honest /\ (\E i \in DOMAIN refs : Confirm(i)) /\ Environment)
  /\ WF_streamVars(honest /\ Finalize /\ Environment)

-----------------------------------------------------------------------------
(* Properties.                                                             *)

\* verify_pending_draw and run_prepay_interim_draw: what either end counts as
\* settled is on the watermark for good, whatever is reorganised and whatever a
\* hostile merchant signs.
SettledIsFinal ==
  /\ Total(wallet.credited) <= BpDenom * FinalMark
  /\ Total(settled) <= BpDenom * FinalMark

\* next_slice and resume_on_prepay_draw: a payer is stripped of two rounds of meed
\* at most, the one a worthless notice resumed and the one after it.  The comments
\* of both say one; a round in flight is not counted while the next is streamed.
StripBounded ==
  RoundCarve > 0 => MeedCarve(Accruals(wallet.cum)) <= FinalMark + 2 * RoundCarve

\* With an honest merchant and notices in order, a payer that must halt streams
\* again, unless the rail drops a draw.
StreamResumes ==
  honest /\ MustHalt(wallet) ~> ~MustHalt(wallet) \/ dropped # {}
=============================================================================
