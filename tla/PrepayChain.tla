---------------------------- MODULE PrepayChain ----------------------------
(***************************************************************************)
(* Prepaid channels at the merchant, from CHANNEL_OPEN to CLOSE: the       *)
(* handlers on_open, on_funding, on_close and run_prepay_interim_draw of   *)
(* crates/paytp-merchant/src/carriage.rs over the ChannelDriver of         *)
(* crates/paytp-merchant/src/channel.rs, with chained successors, a        *)
(* durable decision log, and a process that may stop inside a handler.     *)
(*                                                                         *)
(* A checkpoint is its CUM_TOTAL, and its reference its number within the  *)
(* channel; the synthetic checkpoint of a channel that never metered has a *)
(* negative reference made from its funding, which is what its hash tells  *)
(* apart.  The rail is a list of deposits, the channels' watermarks        *)
(* funded_p and the keyed releases.  Every message considered is well      *)
(* signed and timely, and finality levels and terms agree.                 *)
(*                                                                         *)
(* A definition named Bug... is a mistake one could make in the definition *)
(* after it; no specification uses it.                                     *)
(***************************************************************************)
EXTENDS F7, FiniteSets, FiniteSetsExt

CONSTANTS
  Cids,         \* channel ids, positive numbers; a successor's is larger
  Bp,           \* basis points per role, in role-id order
  LPrepay,      \* L_prepay of each channel
  MaxAmt,       \* a slice charges 1..MaxAmt
  DepositAmts,  \* the amounts of the deposits
  MaxDeposits,  \* bound on the deposits
  MaxCkpt,      \* bound on the checkpoints of a channel
  MaxRestarts,  \* bound on the restarts
  MayFail       \* which durable records of a disposition may fail: "commit", of a
                \* chained open; "reconcile", of a close that has released a refund

ASSUME CidAssumption ==
  Cids \subseteq Nat \ {0} /\ IsFiniteSet(Cids) /\ LPrepay \in [Cids -> Nat]
ASSUME VectorAssumption == Bp \in Seq(Nat) /\ Bp # <<>> /\ Total(Bp) <= BpDenom
ASSUME BoundAssumption ==
  /\ DepositAmts \subseteq Nat
  /\ MaxAmt \in Nat /\ MaxDeposits \in Nat /\ MaxCkpt \in Nat /\ MaxRestarts \in Nat
  /\ MayFail \subseteq {"commit", "reconcile"}

VARIABLES
  chan,       \* the live channels: metering, operative checkpoint, ledger, rounds
  retained,   \* the F5-m records: the open acknowledged, and whether terminated
  chain,      \* chain_state: the close dispositions in memory
  snaps,      \* chain_snapshots, by predecessor and checkpoint reference
  used,       \* consumed_chain_refs
  credited,   \* auxiliary: the deposits credited in this life of the process
  log,        \* the durable log: channels opened, references consumed, dispositions
  deposits,   \* the deposits on the rail, each with the channel its memo names
  fundedP,    \* the instance's watermark per channel
  released,   \* the keyed releases: the refund per channel and close reference
  acked,      \* auxiliary: the opens acknowledged per channel, in any life
  imports,    \* auxiliary: the pairs of a predecessor and its importer, in any life
  closing,    \* auxiliary: the evidenced CUM_TOTAL each plain close pinned
  restarts

memory == <<chan, retained, chain, snaps, used, credited>>
railVars == <<deposits, fundedP, released>>
aux == <<acked, imports, closing>>
chainVars == <<memory, log, railVars, aux, restarts>>

RoleIds == DOMAIN Bp
Zero == [r \in RoleIds |-> 0]
Accruals(total) == [r \in RoleIds |-> total * Bp[r]]
Without(f, S) == [x \in DOMAIN f \ S |-> f[x]]
Put(f, k, v) == [x \in DOMAIN f \cup {k} |-> IF x = k THEN v ELSE f[x]]

Live == DOMAIN chan
DispositionOf(c) == IF c \in DOMAIN chain THEN chain[c].kind ELSE "none"
Pending == [kind |-> "pending", succ |-> 0, draw |-> 0]
Committed(s) == [kind |-> "committed", succ |-> s, draw |-> 0]
Reconciled(p) == [kind |-> "reconciled", succ |-> 0, draw |-> p]

\* A position: what a chained successor imports.
Birth == [ref |-> 0, cum |-> 0, settled |-> Zero, funding |-> 0, bal |-> 0]

Opened(p) ==
  [status |-> "open", cum |-> p.cum, bal |-> p.bal, ckpts |-> <<>>, op |-> 0,
   settled |-> p.settled, funding |-> p.funding, imp |-> p, rounds |-> <<>>]

ChainInit ==
  /\ chan = <<>> /\ retained = <<>> /\ chain = <<>> /\ snaps = <<>>
  /\ used = {} /\ credited = {}
  /\ log = [opened |-> {}, fund |-> {}, disp |-> <<>>]
  /\ deposits = <<>> /\ fundedP = [c \in Cids |-> 0] /\ released = <<>>
  /\ acked = [c \in Cids |-> {}] /\ imports = {} /\ closing = <<>>
  /\ restarts = 0

\* The evidenced basis: the operative checkpoint, else the imported position.
BasisCum(c) == IF chan[c].op # 0 THEN chan[c].ckpts[chan[c].op] ELSE chan[c].imp.cum

InFlight(c) == {ref \in DOMAIN chan[c].rounds : ~chan[c].rounds[ref].confirmed}

-----------------------------------------------------------------------------
(* A stop of the process: memory is lost, and the log replayed.            *)

ReplayGuards(l) == l.disp

LoseMemory(l) ==
  /\ restarts < MaxRestarts
  /\ restarts' = restarts + 1
  /\ chan' = <<>> /\ retained' = <<>> /\ snaps' = <<>> /\ used' = {} /\ credited' = {}
  /\ chain' = ReplayGuards(l)
  /\ log' = l

ChainRestart ==
  /\ LoseMemory(log)
  /\ UNCHANGED <<railVars, aux>>

-----------------------------------------------------------------------------
(* Metering and checkpoints.                                               *)

AcceptSlice(c, amt) ==
  /\ chan[c].status = "open"
  /\ chan[c].bal + amt <= 0
  /\ chan' = [chan EXCEPT ![c].cum = @ + amt, ![c].bal = @ + amt]
  /\ UNCHANGED <<retained, chain, snaps, used, credited, log, railVars, aux, restarts>>

\* A checkpoint may complete while the channel is settling.
Checkpoint(c, total) ==
  /\ Len(chan[c].ckpts) < MaxCkpt
  /\ total >= BasisCum(c) /\ total > 0
  /\ chan' = [chan EXCEPT ![c].ckpts = Append(@, total), ![c].op = Len(chan[c].ckpts) + 1]
  /\ UNCHANGED <<retained, chain, snaps, used, credited, log, railVars, aux, restarts>>

-----------------------------------------------------------------------------
(* Funding.                                                                *)

Deposit(c, amt) ==
  /\ Len(deposits) < MaxDeposits
  /\ acked[c] # {}
  /\ deposits' = Append(deposits, [to |-> c, amt |-> amt])
  /\ UNCHANGED <<memory, log, fundedP, released, aux, restarts>>

\* resolve_chain_tip
ChainTip(c) ==
  LET step == [x \in Cids |-> IF DispositionOf(x) = "committed" THEN chain[x].succ ELSE x]
      cur[n \in 0..Cardinality(Cids)] == IF n = 0 THEN c ELSE step[cur[n - 1]]
  IN  cur[Cardinality(Cids)]

FundingAdmissible(c) ==
  /\ c \in Live
  /\ DispositionOf(c) \notin {"reconciled", "committed"}

CanFund(i) ==
  /\ deposits[i].to \in DOMAIN retained
  /\ FundingAdmissible(ChainTip(deposits[i].to))
  /\ i \notin log.fund

Consumed(i) == [log EXCEPT !.fund = @ \cup {i}]

BugLedgerTakesWindow(c, amt) ==
  LET after == Max({chan[c].bal - amt, -LPrepay[c]})
  IN  [chan EXCEPT ![c].funding = @ + (chan[c].bal - after), ![c].bal = after]

\* credit_funding: the window takes at most L_prepay, the ledger all of it.
CreditFunding(c, amt) ==
  [chan EXCEPT ![c].funding = @ + amt, ![c].bal = Max({@ - amt, -LPrepay[c]})]

Funding(i) ==
  /\ CanFund(i)
  /\ log' = Consumed(i)
  /\ credited' = credited \cup {i}
  /\ chan' = CreditFunding(ChainTip(deposits[i].to), deposits[i].amt)
  /\ UNCHANGED <<retained, chain, snaps, used, railVars, aux, restarts>>

\* The process stops once the reference is consumed, before the credit.
FundingStops(i) ==
  /\ CanFund(i)
  /\ LoseMemory(Consumed(i))
  /\ UNCHANGED <<railVars, aux>>

-----------------------------------------------------------------------------
(* Chained import.                                                         *)

\* imported_balance_f6e
ImportedBalance(c, total) ==
  LET b == total - chan[c].funding
  IN  IF b < -LPrepay[c] THEN -LPrepay[c] ELSE IF b > 0 THEN 0 ELSE b

\* The deterministic reference of the synthetic checkpoint (F6-e).
SyntheticRef(c) == -(1 + chan[c].funding)

NamesFinalCheckpoint(c, ref) ==
  IF chan[c].op # 0 THEN ref = chan[c].op
  ELSE chan[c].cum = 0 /\ ref = SyntheticRef(c)

\* compute_chain_snapshot
Snapshot(c, ref) ==
  [ref |-> ref, cum |-> BasisCum(c), settled |-> chan[c].settled,
   funding |-> chan[c].funding, bal |-> ImportedBalance(c, BasisCum(c))]

HasSnapshot(c, ref) ==
  /\ c \in Live
  /\ NamesFinalCheckpoint(c, ref)
  /\ ConsistentHistory(Accruals(BasisCum(c)), chan[c].settled)

\* on_open on a pending predecessor: the recorded snapshot is cleared, and
\* recomputed from the predecessor's current position.
SnapsAt(m) ==
  IF m.pred = 0 \/ DispositionOf(m.pred) # "pending" THEN snaps
  ELSE IF HasSnapshot(m.pred, m.ref)
       THEN Put(snaps, <<m.pred, m.ref>>, Snapshot(m.pred, m.ref))
       ELSE Without(snaps, {<<m.pred, m.ref>>})

-----------------------------------------------------------------------------
(* Establishment.  An open names its channel and, if chained, a            *)
(* predecessor and a checkpoint of it.                                     *)

Refs == -(1 + Max(DepositAmts) * MaxDeposits)..MaxCkpt
Opens ==
  {m \in [cid : Cids, pred : Cids \cup {0}, ref : Refs] :
     /\ m.pred < m.cid
     /\ m.pred = 0 <=> m.ref = 0}

\* chained_import: the snapshot exists and fits the successor's window.
CanImport(m) ==
  LET key == <<m.pred, m.ref>>
  IN  m.pred # 0 => key \in DOMAIN SnapsAt(m) /\ SnapsAt(m)[key].bal >= -LPrepay[m.cid]

Position(m) == IF m.pred = 0 THEN Birth ELSE SnapsAt(m)[<<m.pred, m.ref>>]

Admitted(m) == m.pred # 0 => DispositionOf(m.pred) # "reconciled"

\* open_channel up to the durable acceptance: no tombstone and no retained record
\* (both are in the log), a predecessor reference not consumed, and the import.
DriverAccepts(m) ==
  /\ m.cid \notin log.opened
  /\ <<m.pred, m.ref>> \notin used
  /\ CanImport(m)

Accepted(m) == [log EXCEPT !.opened = @ \cup {m.cid}]
Recorded(l, c, d) == IF c \in DOMAIN l.disp THEN l ELSE [l EXCEPT !.disp = Put(@, c, d)]

ChainAfter(m) == IF m.pred = 0 THEN chain ELSE Put(chain, m.pred, Committed(m.cid))

Establish(m, recorded) ==
  /\ Admitted(m) /\ DriverAccepts(m)
  /\ ~recorded => m.pred # 0 /\ "commit" \in MayFail
  /\ log' = IF m.pred # 0 /\ recorded
            THEN Recorded(Accepted(m), m.pred, Committed(m.cid)) ELSE Accepted(m)
  /\ retained' = Put(retained, m.cid, [open |-> m, terminated |-> FALSE])
  /\ chan' = Put(chan, m.cid, Opened(Position(m)))
  /\ chain' = ChainAfter(m)
  /\ snaps' = SnapsAt(m)
  /\ used' = IF m.pred = 0 THEN used ELSE used \cup {<<m.pred, m.ref>>}
  /\ acked' = [acked EXCEPT ![m.cid] = @ \cup {m}]
  /\ imports' = IF m.pred = 0 THEN imports ELSE imports \cup {<<m.pred, m.cid>>}
  /\ UNCHANGED <<credited, railVars, closing, restarts>>

\* A refused open may have recorded a snapshot: its timestamp or its seal is bad,
\* the import does not fit, or the acceptance cannot be made durable.
RefuseOpen(m) ==
  /\ Admitted(m)
  /\ snaps' = SnapsAt(m) /\ snaps' # snaps
  /\ UNCHANGED <<chan, retained, chain, used, credited, log, railVars, aux, restarts>>

\* The process stops once the acceptance is durable, before the answer.
OpenStops(m) ==
  /\ Admitted(m) /\ DriverAccepts(m)
  /\ LoseMemory(Accepted(m))
  /\ UNCHANGED <<railVars, aux>>

\* A byte-identical retransmission, or an ACK_REQUEST, is answered with the
\* retained ACK.
Retransmit(m) ==
  /\ Admitted(m)
  /\ m.cid \in DOMAIN retained
  /\ retained[m.cid].open = m /\ ~retained[m.cid].terminated
  /\ acked' = [acked EXCEPT ![m.cid] = @ \cup {m}]
  /\ UNCHANGED <<memory, log, railVars, imports, closing, restarts>>

-----------------------------------------------------------------------------
(* The interim draw.                                                       *)

BugTargetForgetsImport(c, total) == DivideRound(Accruals(total), Unity).p

\* cumulative_target_p: the channel's own carve, what a predecessor has funded
\* taken off.
CumulativeTargetP(c, total) ==
  DivideRound(OutstandingMeedPerRole(Accruals(total), chan[c].imp.settled), Unity).p

Round(c) == DivideRound(OutstandingMeedPerRole(Accruals(BasisCum(c)), chan[c].settled), Unity)

NewRound(c) ==
  [target |-> CumulativeTargetP(c, BasisCum(c)), er |-> Round(c).er,
   drawn |-> FALSE, confirmed |-> FALSE]

\* advance_channel_meed
AdvanceMeed(c, target) ==
  fundedP' = [fundedP EXCEPT ![c] = IF target > @ THEN target ELSE @]

\* fold_interim_round
FoldRound(x, ref) ==
  [x EXCEPT !.settled = [r \in RoleIds |-> @[r] + x.rounds[ref].er[r]],
            !.rounds[ref].drawn = TRUE, !.rounds[ref].confirmed = TRUE]

CanDraw(c) == chan[c].status = "open"

\* The round in flight, or a new one against the operative checkpoint.
DrawRounds(c) ==
  IF InFlight(c) # {} THEN chan[c].rounds
  ELSE Put(chan[c].rounds, chan[c].op, NewRound(c))

HasNewRound(c) ==
  /\ chan[c].op # 0
  /\ chan[c].op \notin DOMAIN chan[c].rounds
  /\ Round(c).leg

DrawnRound(c) == IF InFlight(c) # {} THEN CHOOSE ref \in InFlight(c) : TRUE ELSE chan[c].op

\* The rail refuses: the round stays locked.
DrawRefused(c) ==
  /\ CanDraw(c)
  /\ InFlight(c) = {} /\ HasNewRound(c)
  /\ chan' = [chan EXCEPT ![c].rounds = DrawRounds(c)]
  /\ UNCHANGED <<retained, chain, snaps, used, credited, log, railVars, aux, restarts>>

\* The advance is made, or found made; it is final now, or only submitted.
InterimDraw(c, final) ==
  LET ref == DrawnRound(c)
      x == [chan[c] EXCEPT !.rounds = DrawRounds(c)]
  IN  /\ CanDraw(c)
      /\ InFlight(c) # {} \/ HasNewRound(c)
      /\ chan' = [chan EXCEPT ![c] = IF final THEN FoldRound(x, ref)
                                     ELSE [x EXCEPT !.rounds[ref].drawn = TRUE]]
      /\ IF x.rounds[ref].drawn THEN UNCHANGED fundedP ELSE AdvanceMeed(c, x.rounds[ref].target)
      /\ UNCHANGED <<retained, chain, snaps, used, credited, log, deposits, released, aux,
                     restarts>>

-----------------------------------------------------------------------------
(* CLOSE.                                                                  *)

\* A close names the operative checkpoint, unless it repeats a plain close or
\* there is none.
CloseNames(c, ref) ==
  /\ c \in DOMAIN retained
  /\ DispositionOf(c) = "reconciled" \/ chan[c].op \in {0, ref}

Settling(x) == [x EXCEPT !.status = "settling"]
Terminated(c) == [retained EXCEPT ![c].terminated = TRUE]
Prior(c) ==
  IF c \in DOMAIN chain THEN chain[c].kind
  ELSE IF c \in DOMAIN log.disp THEN log.disp[c].kind ELSE "none"

BugEveryCloseRefunds(c) == Prior(c) # "committed"

\* The refund is due once: on a first plain close, or one that revokes a chain intent.
FirstClose(c) == Prior(c) \in {"none", "pending"}

\* F6-i, F6-k, F5-a: quiescent, all metering evidenced, by a checkpoint of its own.
CanChain(c) ==
  /\ InFlight(c) = {}
  /\ chan[c].cum = BasisCum(c)
  /\ chan[c].op # 0 \/ chan[c].cum = 0

ChainClose(c, ref) ==
  /\ CloseNames(c, ref)
  /\ CanChain(c)
  /\ chain' = IF Prior(c) = "none" THEN Put(chain, c, Pending) ELSE chain
  /\ chan' = [chan EXCEPT ![c] = Settling(@)]
  /\ retained' = Terminated(c)
  /\ UNCHANGED <<snaps, used, credited, log, railVars, aux, restarts>>

BugRefundForgetsImport(c) == SatSub(chan[c].funding, BasisCum(c) - chan[c].imp.cum)

\* prepay_unconsumed_deposit, against the evidenced basis.
Refund(c) == SatSub(chan[c].funding, BasisCum(c))

\* release_keyed moves value once per channel and close reference.
Released(c, ref) ==
  IF Refund(c) = 0 \/ <<c, ref>> \in DOMAIN released THEN released
  ELSE Put(released, <<c, ref>>, Refund(c))

\* drain_interim_rounds: a round whose advance is on the rail is folded, the
\* other dropped.
Drained(c) ==
  LET x == chan[c]
  IN  IF InFlight(c) = {} THEN x
      ELSE LET ref == DrawnRound(c)
           IN  IF x.rounds[ref].drawn THEN FoldRound(x, ref)
               ELSE [x EXCEPT !.rounds = Without(@, {ref})]

\* compute_pending_draw
PendingDraw(c) ==
  IF chan[c].op = 0 /\ chan[c].imp.ref = 0 THEN 0 ELSE CumulativeTargetP(c, BasisCum(c))

\* The rail may refuse the release; the disposition is recorded all the same.
FirstPlainClose(c, ref, releases, draws) ==
  LET p == PendingDraw(c)
  IN  /\ CloseNames(c, ref)
      /\ FirstClose(c)
      /\ released' = IF releases THEN Released(c, ref) ELSE released
      /\ log' = Recorded(log, c, Reconciled(p))
      /\ chain' = Put(chain, c, Reconciled(IF draws THEN 0 ELSE p))
      /\ IF draws THEN AdvanceMeed(c, p) ELSE UNCHANGED fundedP
      /\ chan' = [chan EXCEPT ![c] = Settling(Drained(c))]
      /\ retained' = Terminated(c)
      /\ closing' = Put(closing, c, BasisCum(c))
      /\ UNCHANGED <<snaps, used, credited, deposits, acked, imports, restarts>>

\* The disposition cannot be made durable: the close is refused after the drain
\* and the release, which the rail may have refused too.
CloseNotRecorded(c, ref, releases) ==
  /\ CloseNames(c, ref)
  /\ FirstClose(c)
  /\ releases => "reconcile" \in MayFail
  /\ released' = IF releases THEN Released(c, ref) ELSE released
  /\ chan' = [chan EXCEPT ![c] = Drained(c)]
  /\ UNCHANGED <<retained, chain, snaps, used, credited, log, deposits, fundedP, aux, restarts>>

BugDrawsCurrentCheckpoint(c) == CumulativeTargetP(c, BasisCum(c))

\* attempt_prepay_close_draw: the pinned draw, not what is operative now.
PinnedDraw(c) == chain[c].draw

\* A later close repeats only the pinned draw.
CloseAgain(c, ref, draws) ==
  /\ CloseNames(c, ref)
  /\ ~FirstClose(c)
  /\ retained' = Terminated(c)
  /\ chan' = [chan EXCEPT ![c] = Settling(@)]
  /\ IF draws /\ DispositionOf(c) = "reconciled" /\ chain[c].draw # 0
     THEN AdvanceMeed(c, PinnedDraw(c)) /\ chain' = [chain EXCEPT ![c].draw = 0]
     ELSE UNCHANGED <<fundedP, chain>>
  /\ UNCHANGED <<snaps, used, credited, log, deposits, released, aux, restarts>>

\* The process stops before the release, between the release and the record of
\* the disposition, or after the record.
CloseStops(c, ref, releases, recorded) ==
  /\ CloseNames(c, ref)
  /\ FirstClose(c)
  /\ released' = IF releases THEN Released(c, ref) ELSE released
  /\ LoseMemory(IF recorded THEN Recorded(log, c, Reconciled(PendingDraw(c))) ELSE log)
  /\ UNCHANGED <<deposits, fundedP, aux>>

-----------------------------------------------------------------------------
CloseRefs == 0..MaxCkpt

ChainNext ==
  \/ ChainRestart
  \/ \E c \in Live, amt \in 1..MaxAmt : AcceptSlice(c, amt)
  \/ \E c \in Live : \E total \in 0..chan[c].cum : Checkpoint(c, total)
  \/ \E c \in Cids, amt \in DepositAmts : Deposit(c, amt)
  \/ \E i \in DOMAIN deposits : Funding(i) \/ FundingStops(i)
  \/ \E m \in Opens :
       \/ \E recorded \in BOOLEAN : Establish(m, recorded)
       \/ RefuseOpen(m) \/ OpenStops(m) \/ Retransmit(m)
  \/ \E c \in Live : DrawRefused(c) \/ \E final \in BOOLEAN : InterimDraw(c, final)
  \/ \E c \in Live, ref \in CloseRefs :
       \/ ChainClose(c, ref)
       \/ \E ok \in BOOLEAN : CloseNotRecorded(c, ref, ok) \/ CloseAgain(c, ref, ok)
       \/ \E ok, also \in BOOLEAN :
            FirstPlainClose(c, ref, ok, also) \/ CloseStops(c, ref, ok, also)

ChainSpec == ChainInit /\ [][ChainNext]_chainVars

OwesDraw(c) == c \in Live /\ DispositionOf(c) = "reconciled" /\ chain[c].draw # 0

\* A payer repeats its close until the rail takes the draw; a repeated close may
\* name any checkpoint.
ChainFairSpec ==
  /\ ChainSpec
  /\ \A c \in Cids : WF_chainVars(OwesDraw(c) /\ CloseAgain(c, 0, TRUE))

-----------------------------------------------------------------------------
(* Properties.                                                             *)

\* The channels whose position c carries: c and what it imported, directly or not.
Ancestors(c) ==
  {p \in Cids : \A S \in SUBSET Cids :
     c \in S /\ (\A e \in imports : e[2] \in S => e[1] \in S) => p \in S}
RefundsOf(S) == SumOver(released, {k \in DOMAIN released : k[1] \in S})
DrawsOf(S) == SumOver(fundedP, S)
DepositsTo(S, I) ==
  SumOver([i \in DOMAIN deposits |-> deposits[i].amt], {i \in I : deposits[i].to \in S})

DrawnInFull(c) == c \in DOMAIN closing /\ fundedP[c] = CumulativeTargetP(c, closing[c])

\* open_channel and chain_state: over any retransmissions, refusals and restarts an id
\* is acknowledged for one open only (F5-m), and a closed position goes one way in any
\* life of the process: it is refunded, once, or imported by one successor.
OneDisposition ==
  \A c \in Cids :
    LET importers == {s \in Cids : <<c, s>> \in imports}
        refunds == {k \in DOMAIN released : k[1] = c}
    IN  /\ Cardinality(acked[c]) <= 1
        /\ Cardinality(importers) + Cardinality(refunds) <= 1

\* on_funding and compute_chain_snapshot: the end of a chain holds every deposit
\* credited to it or to a channel it imported, late ones included.
FundingFollowsFloat ==
  \A c \in Live :
    DispositionOf(c) # "committed" =>
      chan[c].funding = DepositsTo(Ancestors(c), credited)

\* on_close: what a chain pays out, the refund at its end and the draws along it,
\* is covered by the deposits consumed for it.
DepositsCoverUses ==
  \A c \in Cids :
    RefundsOf(Ancestors(c)) + DrawsOf(Ancestors(c)) <= DepositsTo(Ancestors(c), log.fund)

\* cumulative_target_p: over a chain no accrual is drawn twice, and what a channel
\* counts as settled is on its watermark; a plain close draws for the checkpoint
\* its refund was computed from, whatever completes afterwards.
CarveDrawnOnce ==
  /\ \A c \in Live :
       /\ DrawsOf(Ancestors(c)) <= MeedCarve(Accruals(BasisCum(c)))
       /\ Total(chan[c].settled) - Total(chan[c].imp.settled) <= BpDenom * fundedP[c]
  /\ \A c \in DOMAIN closing :
       DrawsOf(Ancestors(c)) <= MeedCarve(Accruals(closing[c]))

\* attempt_prepay_close_draw: the carve a close could not draw is drawn by a
\* later close, to the last unit of the checkpoint that was refunded against,
\* unless the process stops first.
CloseDrawLands ==
  \A c \in Cids : OwesDraw(c) ~> (c \notin Live \/ (~OwesDraw(c) /\ DrawnInFull(c)))
=============================================================================
