# A TLA+ verification of paytp-ri

This directory models the money path of `paytp-ri`, the reference implementation
of the PayTP payment protocol, in TLA+. TLC checks the models on small instances
and TLAPS proves the central properties for every value of the constants.
`PROJECT.json` maps each definition to the lines it models and lists the runs,
the mutants that show a property can fail, the hazards and the theorems.

## 1. Inventory

A payer's **wallet** pays a **merchant** for a service reached through an
**interaction layer**. Most of each payment is the merchant's net; a small part,
the *meed*, is divided by basis points among roles. Value moves on a **rail**.
There are two ways to pay: a single purchase (Tier 0), whose meed is held in an
escrow *entry* until the merchant attests delivery, and a *channel*, in which
the wallet seals a stream of slices that are metered, checkpointed and settled
in rounds.

| Component | State it keeps | Operations | Interacts with | What makes it correct |
|---|---|---|---|---|
| Channel metering (`paytp-core/channel/state.rs`) | balance `B`, `CUM_TOTAL`, accruals, floor, window of unevidenced slices, transcript head, pauses, phase | accept slice/batch, credit funding, apply a round, build/recompute/commit a checkpoint, settle, close | driven by the merchant's carriage, under `&mut self` | credit and evidence bounds; one slice per SEQ; checkpoints state exactly their prefix |
| Checkpoint exchange (`carriage.rs`, `wallet/channel.rs`) | each end's operative checkpoint | mint, request, countersign, re-answer, record | messages lost, repeated, reordered | the ends' evidence is ordered and converges |
| F7 arithmetic (`paytp-f7`) | none | accrue, divide a round, extinguish per role, claim | shared by host and contract | nothing extinguished or drawn beyond what was accrued or paid |
| Settlement rounds and funding (`carriage.rs`) | ledger, round decisions, consumed references | propose, proof, funding | rail transfers with finality; metering's `B` | never bricked, never wedged, every credit backed by one transfer |
| Entry contract (`contracts/paytp_kit`) | entries, escrow accounts | fund, attest, attest detached, cancel, lapse, open/execute reclaim, distribute, refund | anyone submits, the rail's clock decides | a deposit leaves once, one way, in its window |
| Split vault, claim-records, on-chain watermark (`contracts/paytp_kit`) | cumulative claims per seat, records, `funded_p` | deploy, claim, fund a claim-record, advance | permissionless; records of an earlier layout | claims are covered by what was received; an upgrade neither pays twice nor bricks a record |
| Host instance (`paytp-rail/instance.rs`) | entries, one pool, watermark per channel | the same transitions, paid at once | behind `VirtualRail`'s mutex, its float and its outages | conserves value; a repeated draw is answered as made |
| One-decision log (`one_decision.rs`) | append-only file, map, poison flag | open/replay, decide, get | gates every exactly-once effect of the merchant | one answer per key, durable before it is told |
| Prepay draws, close and chaining (`carriage.rs`) | reservations, dispositions, chain tips | draw, close, refund or import | log, rail, successor channel | a balance is refunded or imported, never both |
| Establishment (`merchant/channel.rs`, `establish.rs`, `registry.rs`) | opened channels, tombstones, consumed predecessors, registry snapshots | open, retransmit, serve an acknowledgment, accept slices | log, an untrusted carrier | both ends hold the same session; no replayed opening; governed shares stay governed |
| Wallet channel client (`wallet/channel.rs`) | streamed total, operative, halts, pending draws | mint, verify draws, resume, close, reclaim | merchant, rail, clock | stops streaming before it is exposed beyond its limit |
| Tier 0 purchase (`tier0/`, `merchant/lib.rs`, `twoleg.rs`, `store.rs`, `wallet/execute.rs`) | consumed nonces and references, receipts | quote, pay, fund, redeem | rail finality, entries, store's disk | one receipt per nonce and payment; what is paid in time is delivered |
| Rails (`virtual_rail.rs`, `async_rail.rs`) | ledger, references, clock | submit, settle, release, finality | everything | keyed operations happen once; finality is final |
| Settlement triggers (`trigger.rs`) | none | evaluate | the debtor that must settle | a payer is compelled to nothing it cannot do |
| Codecs, crypto, policy, client, host names, demos | none or static | encode, validate | – | pinned by the conformance corpus |

**What is hard here.** The merchant's handlers run one at a time, so the
difficulty is not data races but *order* (redemptions of purchases are the
exception: they run concurrently): a message or transfer prepared against
one state arrives at another. Proposals are overtaken by slices and funding;
rounds are proved one leg at a time; requests are repeated because a reply was
lost; permissionless instructions race the clock; the log's disk fails in the
middle of an append and the process stops anywhere. Rounding accumulates over
rounds. `PROJECT.json` lists these as hazards, each at its line.

## 2. Plan

1. **Metering**, the books everything else rests on, and its proofs. *Done.*
2. **CheckpointExchange**, composing Metering with the wallet and a network; its
   proofs are in MeteringProofs. *Done.*
3. **Sums** and SumsProofs, **F7**, **F7Rounds** and F7RoundsProofs, **Settlement**
   and SettlementProofs. *Done.*
4. **Escrow** (abstract), **EntryWindows**, **KitEntry**, shown to implement Escrow,
   and **HostInstance**; KitEntryProofs and HostInstanceProofs. *Done.*
5. **OneDecision**; its proofs are in CarriageProofs. *Done.*
6. **Tier0Quote**, **NonceStore** and **Redemption**: Tier 0 purchases over entries,
   from the quote to the receipt; MerchantProofs. *Done.*
7. **SplitVault**: `deploy_split`, `split_claim`, claim-records, the on-chain
   `advance_channel_meed` and the regrouping of old account layouts, driven by
   F7Rounds together with the settlement triggers. *Done.*
8. **PrepayChain**: prepay draws, close, refund or import, with restarts over the
   decision log; MerchantProofs. *Done.*
9. **MeedVector**, **Wire** and **Establishment**: opening a channel through an
   untrusted carrier, with replays and restarts; CarriageProofs. *Done.*
10. **PayerStream**: the wallet's halts, draw verification and resumption;
    CarriageProofs. *Done.*
11. **AsyncRail**: inclusion, finality and reorganisation; PayerStream extends it.
    *Done.*

Every invariant and every safety action property that a run checks is also a theorem,
the four of PrepayChain under the hypotheses section 5 names. What could come next is
outside the models rather than in the proofs: section 6.

## 3. Modules

**Metering** keeps `ChannelState` in the record `ch`; one operator per method
(`Accepts`/`Accepted` for `accept_slice`, `BuildCheckpointAt`, `Recomputes`,
`CheckpointUpTo`, `Credited`, ...) and one action per handler. Slices arrive in
any order, any number of times, two different ones with one SEQ included; a
batch has one or two slices. The transcript hash is the sequence of slices folded
into it (`InSeqOrder`), and a checkpoint reference, a hash, is a number no other checkpoint has.
`log`, `credits`, `opening` and `refused` (the log as it was when a batch last hit the
window, until value comes in) are history, read by properties only.

**CheckpointExchange** extends Metering with the wallet's `next_slice`,
`request_checkpoint` and `record_operative`. Minted slices and requests stay in
the network, and replies may be repeated or lost.

**Sums** has the one sum all ledgers use. **F7** holds the arithmetic as operators
over exact naturals; the loop of `extinguish_per_role` is the sequence of its visits
to the roles, one function value per visit. **SplitVault** is
where the meed ends up: the contract's split, its claim-records and a channel's
watermark, each possibly written by the earlier per-role layout, next to the
host's split, which pays on receipt. **F7Rounds** extends it and runs the
arithmetic through long histories of accruals, rounds at several rates, payments
and claims. `Evaluate` is the trigger of `trigger.rs`: the debtor settles at will,
must settle when a trigger fires, and streams nothing meanwhile. The time since
the last round is `age`, capped where `TH_TIME` no longer tells it apart. A compelled
round has the rate of the behaviour's load; a steep one can pay `P >= 1` and
extinguish nothing, the case `settleable` looks at `E` for.

**Settlement** has the merchant's ledger and round decisions and the rail as a
sequence of final transfers, an index being both the canonical reference and the
finality time. A proof names a round and up to two transfers. `Conformant`
selects whether the payer may pay legs twice and out of order. `raced` is history:
what funding was credited while the last round's net leg was due.

**Escrow** promises that each deposit leaves once and one way. **EntryWindows**
has what both implementations share: states, windows, saturating `T_exec`, the
division by destination. **KitEntry** is the contract, in which the terminal
transition and the transfer are two instructions. A receiving token account may be
frozen or closed, and reopened, at any time (`Freeze`, `Thaw`, the token program's
doing); `distribute` pays all shares above zero or reverts, so one such destination
holds up the entry's shares for everyone, for as long as it lasts. **HostInstance** is
`MeedInstance`, which pays at once, divides purchases and claim-records as one
pool, and has the channels' watermarks, and around it the part of `VirtualRail`
that deploys it, draws claim-records and watermarks from the merchant's float,
releases refunds by key, and is sometimes down. `retry` is history: the answer to
the last repetition of a draw or release that was made.

**OneDecision** is the write-ahead log: the file is a sequence of whole and torn
records, each file operation of `decide` may fail, and the process may stop inside
it. `fresh` and `told` record what callers were told. A record written whole whose
sync and truncation both fail is answered `Failed` and replayed as made by the next
`open`; the properties hold all the same, because a poisoned store says nothing else.

**NonceStore** is the merchant's durable store. It is the same log with a second
index, so an append is one step with three outcomes: durable, undone, or poisoned
with the record kept or lost. **Tier0Quote** is the quote: how a merchant builds and
signs one, the split, the instance and the entry it derives, and what the wallet asks
of it before it pays (`PayableOffers`, `PlannableOffers`) and the merchant before it
redeems (`BaselineRedeemable`, `TwoLegRedeemable`). The two differ as the code's do:
the wallet pays the one offer that mirrors what the operator approved, the merchant
looks at the first of the kind and does not ask for the offers' networks again. The
repository's builders make quotes of one offer, and its two-leg offers state no
resource, so `pay_baseline` refuses a quote that has one beside a baseline offer; the
quote with both offers in the run states it, as x402 requires. **Redemption** extends
these and EntryWindows with the
wallet's payments, the rail's references and finality, and the merchant's two
redemptions. Redemptions run concurrently; each write to the rail or the store is
a step, and the process stops between or inside them. Reads are one step with the
write before or after them, for the reason given at the head of that section of the
module. `delivered` is history: the receipts that were returned.

**PrepayChain** is a merchant's prepaid channels from open to close. A handler is
one action, except that a stop of the process inside it (`OpenStops`,
`FundingStops`, `CloseStops`) keeps what was already durable or on the rail and
loses the rest. `chain` is `chain_state`, `snaps` the snapshots a chained open
computes, `used` the references the driver consumed. `MayFail` says which durable
records may fail.

**AsyncRail** is the rail on which value moves when a transfer is included and an
included transfer may be reorganised away until it is final. The code's lifecycle
controls act on any transfer; the model's act as a chain does, the last inclusion
undone first. **PayerStream** extends it with `ChannelClient`'s metering, halts,
resumption and credit, and the merchant's interim draws. An honest merchant signs
the notices its draws make; a hostile one signs any notice and advances the
watermark as it likes.

**Wire** has the signed and sealed objects of establishment with symbolic
cryptography: a signature records its key, label and content, a sealed box its
recipient and associated data. **MeedVector** has registry snapshots and the checks
of a vector. **Establishment** puts a wallet and a merchant at two ends of a carrier
with keys of its own, which re-seals, alters, replays and forges whatever it can,
and which assembles the terms. It models the build with a decision store attached.
The wallet crate has no function that builds an ACK_REQUEST or FUNDING_PROOF; the
model has the holder of the payer key sign them.

`MC*` modules only give values to constants. A definition named `Bug...` is a
plausible mistake in the definition after it; no specification uses it, and
`PROJECT.json` pairs each property with one that breaks it.

## 4. Runs

| Run | Shows | Distinct states |
|---|---|---|
| metering | credit and evidence bounds, no evading a window pause, one slice per SEQ, truthful and frozen checkpoints, in postpay mode | 627,768 |
| exchange | an honest payer is never window-paused; a lost countersignature is recovered (liveness) | 40,570 |
| f7_rounds | canonical divisions; claims covered, contract and host in agreement; no watermark sticks after an upgrade; a halted payer is released, at a steep rate too (liveness) | 6,952 |
| settlement | never bricked, backstop silent, ledger backed by the rail, meed before net; a conformant debtor's round confirms (liveness) | 644,674 |
| kit_entry | contest periods, custody, the refinement of Escrow; a deposit leaves once the accounts it is due to accept it (liveness) | 57,152 |
| host_instance | conservation through outages and refusals; a retried draw or release is answered as made | 185,310 |
| one_decision | exactly once through failures and stops | 1,578 |
| redemption | the wallet pays nothing for a quote altered on the way or not redeemable; one receipt per nonce and payment, no delivery on a withdrawn meed, no net leg sent too late; what is paid in time is delivered (liveness) | 113,836 |
| prepay_chain | a closed position is refunded or imported once, funding follows the float, deposits cover refunds and draws, no accrual is drawn twice; a close's draw lands (liveness) | 108,152 |
| payer_stream | only final draws count as settled, at most two rounds of meed are unpaid; the stream resumes (liveness) | 187,250 |
| establishment | one session at both ends, nothing billed twice, governed shares governed; a lost acknowledgment is recovered (liveness) | 180,210 |
| chain_import | violation: see below | – |

The prepay mode of Metering differs in the bounds of `B` alone; the theorems of
section 5 cover both modes.

**The finding.** *chain_import*: `on_open` says that clearing and recomputing a
snapshot "guarantees the driver imports the CURRENT position or nothing"
(`carriage.rs:780-781`), and `chain_state` that a disposition is "refund XOR
successor-import, each exactly once" (`carriage.rs:231`). The clearing is done only
while the predecessor is `Pending`, and only for the reference the open names. TLC
finds: an open that names reference A is refused and leaves its snapshot; a late
deposit moves the predecessor to reference B; a successor imports under B; a third
channel names A, whose snapshot is still there and which nobody has consumed, and
imports the same position again. The run of two channels, prepay_chain, has no
third channel to do so, and its properties hold.

**Other places where the code and what it says differ**, met while modelling. The
models follow the code.

1. `record_operative` breaks ties between checkpoints of one `CUM_TOTAL` by
   reference and says the merchant does too (`wallet/channel.rs:613-617`);
   `on_checkpoint_request` (`carriage.rs:926`) takes the last one that recomputes.
   The totals agree all the same; the reference a round is keyed by may not.
2. Funding credited while a round's net leg is due makes `B` clamp at 0 when that
   leg folds, and `B` and the ledger then differ, though `carriage.rs:1742-1744`
   says they "can never disagree". `LedgerBacked` bounds the difference: at most the
   funding that raced, and the debt is never understated.
3. `MeedInstance::attest` and `cancel` (`instance.rs:307`) take no time and accept
   a FUNDED entry past `T_lapse`; the contract rejects it (`paytp_kit/lib.rs:463-465`,
   `contracts/README.md:27`).
4. When the durable record of a close's disposition fails, the close is rejected
   after its refund was released, and the comment at `carriage.rs:2092-2095` says a
   retry does not release twice. The release is keyed by the close's checkpoint: a
   retry after a late deposit or checkpoint has another key. With `"reconcile"` in
   `MayFail`, TLC finds OneDisposition violated; prepay_chain leaves it out.
5. `serve_ack_request` is documented to answer `None` for a terminated channel
   (`merchant/channel.rs:743`); it does not look.
6. An interim draw that the rail dropped is looked at again for ever
   (`carriage.rs:2371-2378`), although the rail reports it "safe to re-issue"
   (`async_rail.rs:651`). `StreamResumes` therefore excepts dropped draws. A keyed
   release that was dropped is likewise never made again.
7. An operative checkpoint that advances past a round drawn but not yet credited
   leaves the wallet with a notice for a reference it no longer expects, which
   `carriage.rs:2291-2297` means to exclude. The order is kept by `InOrder` in
   PayerStream, for an honest merchant only.
8. AsyncRail checks cover when a transfer is submitted and debits with saturation
   when it is included, so two transfers may be covered by the same value.
9. A payment that reaches a split before its deployment is distributed by the
   contract later; `VirtualRail` leaves it with the plain address.
10. The contract divides each claim-record by itself, the host pools them with the
    purchases, so the dust each keeps differs (always less than a unit per
    destination, `SplitCovered` and `ValueConserved`).
11. `trigger.rs` is used by tests and the conformance corpus; the wallet has its own
    `refresh_halt`, which PayerStream models.
12. A hostile merchant strips two rounds, not one. The wallet says the strip is
    "bounded to one round" (`wallet/channel.rs:484-501`, and so 674, 819-823, 938-940,
    958-960), and the test at 1762-1804 asserts that "the merchant stripped at most
    ONE round's meed" in a state in which it has stripped two: round 1 is unpaid and
    round 2 has accrued. A worthless notice resumes the stream over round 1, which is
    then in flight and not counted by `owed_beyond_in_flight`, and the wallet streams
    a further round before it verifies. With the bound at one round TLC finds this in
    six states: a round streamed, its checkpoint, the notice, the resumption and the
    next slice. `StripBounded` states the bound the code has, two rounds.
13. `split_claim` is written so that "a closed/frozen/misconfigured destination blocks
    only its own claim, never the others (no all-or-nothing push)"
    (`paytp_kit/lib.rs:788-791`). `distribute` (`lib.rs:645-667`) is such a push: a
    destination that refuses transfers reverts it, and an attested or lapsed entry
    whose destination is closed for good never pays any recipient. Nothing is lost or
    misdirected (`KeepsPromise`, `EscrowBacksEntry`), but `DepositLeaves` holds only
    of entries none of whose own payees refuses for ever. `refund` depends in the
    same way on the recorded refund account alone.

**Bounds.** Metering uses 3 SEQs of value 0..2, two roles, limits 3 and 2, two
proposals and credits of 2: enough for a slice above and one below a proposal's
cut, a breach by the second slice of a batch, and a proposal overtaken by both
slices and funding. Settlement uses two checkpoints, four transfers and basis points 1 and 2 of 4, so that carves round differently at each
total; that gives two rounds, one of which may owe nothing, with a repeated or
premature leg; `conformant` is chosen at the start. F7Rounds uses denominator 7 and rates 1, 2/3 and 15, so that sums
never divide evenly and the last pays for outstanding meed of 1 without extinguishing it; the ledger, the triggers and the split have behaviours of
their own, chosen at the start by `Loads`, since they share no state but the
watermark. The split's three seats share destinations with each other and with the
merchant, one account may be frozen, and records may be of the earlier layout.
PrepayChain uses two channels (three in chain_import), the successor's window the
smaller, two deposits, two checkpoints each and a stop: enough for an import that
does not fit, a late deposit, a checkpoint completing while settling, and a retry
after a restart. PayerStream streams up to four units, three rounds of meed of one
unit at 3 of 4 basis points, with the value and the time trigger; two advances of a
hostile merchant. Establishment uses one id, ten sets of terms of which eight are
wrong in one way, three snapshots of which one is forged, one slice and a restart:
the id is what every replay contends for. KitEntry and HostInstance use two entries, one with a contest
delay that saturates the clock, and weights that share a destination; in KitEntry both
destinations and one payer's account may refuse, and one share floors to zero. OneDecision
uses two keys, two values and four appends: a torn record, a record after it and a
restart. Redemption uses one quote with both offers and a cheaper one at the same
split, and twelve more that the carrier has altered, another key has signed or the
merchant has signed for something else (a price, a page, a wrong share, address, rail
or time): each is refused by one check and nearly sound otherwise. There are two
redemptions at once, three transfers, one authorization and one store
failure or stop: enough for a payment presented for two nonces, a quote paid both
ways, and a stop between attestation and consumption. The reclaim opens, executes
and lapses within the clock, and a redemption under reclaim is possible up to one
unit before `T_exec`. Deadlock checking is off where a run ends because its budget of transfers,
time or proposals is spent.

**Fairness.** `RetrySpec` assumes strong fairness of answering and receiving each
request: the wallet keeps its signed request and the handler re-answers it, and a
reply sent over and over is not lost each time. Settlement's `FairSpec` assumes the
debtor pays the legs of rounds it has proposed and presents proofs, which is what
a conformant wallet does; nothing is assumed of slices or funding. KitEntry's
`FairSpec` assumes that time passes and that somebody submits each permissionless
instruction that stays possible; nothing is assumed of the merchant, nor that an
account is ever thawed: `DepositLeaves` is conditional instead. F7Rounds'
assumes that time passes and that a debtor settles when a trigger compels it, which
is the only thing a trigger asks. PrepayChain's `ChainFairSpec` assumes that a payer whose close
left its draw pending repeats the close and the rail takes it at last, which is what
`attempt_prepay_close_draw` is written for. PayerStream's
`StreamFairSpec` assumes, of an honest
merchant, that its interaction layer asks for checkpoints and delivers replies and
notices, that it repeats its draw and that submitted transfers are included and
become final; nothing is assumed of a hostile one. Establishment's assumes that a
wallet without an acknowledgment keeps asking and some answer arrives. Redemption's `FairSpec` assumes
that time passes, that a running redemption continues, that a poisoned store is
opened again, and that the payer repeats the redemptions it may have asked for
until one ends.

## 5. Proofs

All theorems hold for every value of the constants that satisfies the named
`ASSUME`s. These state types (limits, amounts and times are naturals, a vector maps
roles to naturals), that roles, entries, channels and releases are finitely many, and
what the code validates of a vector: its shares add up to at most the whole, and to
more than nothing where they are divided by.

- **SumsProofs.** Sums and the division of F7, which the other modules cite. A sum is a fold, a recursive function on subsets. The module shows
  that the fold exists and does not depend on the order, by induction on the size of
  the subset with the induction hypothesis written as a set of subsets. From it follow
  the laws of sums (`SumRemove`, `SumUnion`, `SumPartition`, ...) and the two facts
  about money: `FloorSum` and `DividedByDest`, a floored division gives out at most the
  whole and leaves less than a unit per destination; and `SweepCanonical`, the
  round-robin sweep ends with everything placed, no role beyond its cap and the
  remainder with the lowest roles that have room. The sweep's induction is on the
  number of visits. `UnityDivides` says what a round at rate one is, from these.
- **MeteringProofs.** `BooksSound` proves an inductive invariant: types, the
  credit bound, every metered slice either at or below the floor or in the window,
  slices of the window above the floor, and every countersigned `LAST_SEQ` at or
  below the floor. Without the last two, nothing says that a repeated SEQ is
  either still remembered or below the floor. From it follow `CreditBoundHolds`
  (with `BarInv`: while a refused batch is remembered the window is paused),
  `OneSlicePerSeqHolds` and the action property `CoverageFrozenHolds`. `CountsSound`
  adds the counts: the window is what the log has above the floor, `unevidenced` its
  value, `CUM_TOTAL` the value of the whole log, the head the transcript of what is at
  or below the floor. It gives `EvidenceBoundHolds` and `CheckpointsTruthfulHolds`;
  the latter needs the frozen coverage, without which a countersigned total could be
  overtaken. `HonestPayerNeverPausedHolds` is about the composition with the wallet,
  in postpay mode, the one `CheckpointExchange` is about: `B` is the value of the log,
  the log is part of what was minted, and the wallet mints at most `L_credit`.
- **SettlementProofs.** `RoundsSound` proves that unconfirmed rounds are unique
  and carry the ledger's version, and that a round remembers the transfer its meed
  was folded from. The induction needs the memory because a later proof may omit
  the meed leg. From it follow `BackstopSilentHolds` and `MeedBeforeNetHolds`.
  `BooksSound` adds the amounts: what is settled fits the operative checkpoint and is
  a whole number of units; a round's `E_r` fit its checkpoint on top of it, and its
  target is the settled carve plus its meed; the rail's watermark never moves back;
  net and funding are at most what the metered value is worth plus what raced; and `B`
  covers the rest. `NeverBrickedHolds` and `LedgerBackedHolds` follow. The induction
  needs the bound of the round in flight, since its net leg is credited later, when
  funding may have come in between.
- **KitEntryProofs.** `EntriesSound` relates each entry's state, its `opened_at`
  and its transfers; from it follow `RefundNeedsNoticeHolds` (`opened_at` is in
  the window, and saturation keeps `T_exec` from wrapping) and `KeepsPromiseHolds`,
  the refinement of Escrow: initial states map to initial states and every
  instruction to a step of Escrow or a stutter. `EscrowBacksEntryHolds` follows the
  money through `distribute`, with `DividedByDest`.
- **HostInstanceProofs.** `InstanceSound`: the pool and each watermark have paid
  exactly the entitlement over all they ever received, refunds are those of ended
  entries, and all value is in one place. A step then pays the difference of two
  entitlements, and the dust is what a single division leaves, not the sum over the
  steps: `ValueConservedHolds`. `RetryIsAnsweredHolds` needs the recorded draws and
  keys only.
- **F7RoundsProofs.** `LedgerSound`: no role is settled beyond its accrual and the last
  round was computed from outstanding amounts and a rate; `DivisionCanonicalHolds`
  follows with `SweepCanonical`. `VaultSound`: vault and payments add up to the
  receipts, no destination is above its entitlement of all receipts, in a record of
  the earlier per-role layout too, and the host has paid the entitlement exactly;
  `SplitCoveredHolds` follows. `MarkSound` does the same for the watermark, where the
  payments of a destination's roles are collected at its canonical role, and gives
  `WatermarkNeverSticksHolds`. What makes the earlier layout safe is that a sum of
  floors is at most the floor of the sum.
- **CarriageProofs**, in three parts.
  *Establishment.* `EstablishmentSound` says of each client of the wallet how it was made
  (`Made`): for one of the two merchants, under the key the wallet has for it, with the
  secret sealed to that merchant. Of each channel the merchant holds it says that the
  decision is durable, that its vector is governed by the snapshot it was opened under
  and, if a key of the wallet pays for it, that it is the wallet's own session
  (`Agrees`). A carrier can open the secrets sealed to `Other`, but an open made for
  `Other` names it and is refused by `Merchant`; this is the step that needs the keys to
  differ. `SessionAgreementHolds`, `BilledOnceHolds` and `MeedGovernedHolds` follow.
  *The log.* `LogSound` relates memory, offsets and file: an open, unpoisoned store has
  exactly its durable records in the file and its cursor at their end, and what was told
  is among them. From it follow `FreshOnceHolds`, `OneAnswerHolds` and
  `ToldIsDurableHolds`.
  *The stream.* `StreamSound`: the rail's transfers are a chain whose final part never
  moves, one round is in flight, what merchant and wallet count as settled is a whole
  number of units on the final watermark, and the meed owed is within one round of what
  is settled or pending. `SettledIsFinalHolds` and `StripBoundedHolds` follow; the last
  conjunct is needed twice over, since a wallet streams on while a round is pending.
- **MerchantProofs**, in two parts.
  *Receipts.* `RedemptionSound` carries what a redemption saw to the receipt it leads
  to: a session past its checks, a record in the log and a receipt were each bought with
  transfers on the rail, and with an attested entry if the quote is paid in two legs.
  Nothing undoes either. `DeliveryIsPaidHolds` follows. `SentIsHonoredHolds` assumes
  `SameView`: both ends have one registry, the operator approves what the merchant
  serves, and the offers of a kind agree. The code does not enforce that, and without it
  a wallet may pay an offer the merchant does not look at.
  *Prepaid chains.* Two invariants, one on top of the other. `DispInv`
  (`DispositionsSound`) is about who has a position: what was imported is committed in
  this life or dead, what was refunded is reconciled or dead, and the log links only to
  imports. A restart loses the live channels, and it is the dead half of each clause that
  survives it. `OneDispositionHolds` follows. `Books` (`ChainBooksSound`) is about the
  amounts. Per channel (`Own`): what is evidenced is metered and what is metered is
  funded; the settled vector is within the accruals; between rounds it is the imported
  one plus the watermark, and a round in flight is what is missing to its target. Per
  chain, with `Anc` the least set closed under imports: what a channel imported as
  settled covers the draws before it (`Heir`), the end of a chain holds the deposits
  credited along it (`Float`), ends of different chains share no channel, and what is no
  longer an end was covered when it stopped being one (`Covered`).
  `FundingFollowsFloatHolds`, `DepositsCoverUsesHolds` and `CarveDrawnOnceHolds` follow,
  for chains of any length, where TLC checks two channels.

  They have two hypotheses, and each is a place where the code fails without it.
  `"reconcile" \notin MayFail`: the record of a close that has released its refund does
  not fail (point 4 of section 4). `OneImporter`: no position is imported twice, which
  chain_import shows to be possible. `ChainsSoundUnlessRefused` says how far that
  finding goes: in a behaviour in which no refused open leaves a snapshot behind, every
  recorded snapshot has been consumed, a second import is refused, and all four
  properties hold with no hypothesis on imports.

**Assumptions about the environment.** Beside types: the merchant and the carrier are
two parties with keys of their own, and the carrier has none of the wallet's
(`KeyAssumption`, `PayerKeyAssumption`); a verified registry snapshot is known by its
version (`IssuedOnce`); only the merchant signs as the merchant, with a nonce per quote
(`IssuedAssumption`), and the wallet has accepted that merchant's binding
(`OriginAssumption`).

**Only model-checked.** Liveness, fairness and ENABLED are out of the prover's reach,
so the liveness properties stay with TLC, and so do the facts that the failing sides of
the two hypotheses above are reachable.

## 6. Not modelled

Bytes: TLV, JCS and LEB128 encodings, CAIP pointers and x402 headers are pure and
pinned by the conformance corpus. Outside Establishment and quotes, where keys matter, hashes,
MACs and signatures are left out too: an object that fails a check is refused and
changes nothing, so those models contain only objects that pass. The 128-bit domain
limits of the arithmetic and `i128` saturation of `B`, unreachable for real amounts.
Conversion between currencies in a round (`Settlement` uses unity; F7Rounds covers
other rates). A frozen escrow or vault, which
has the effect of all its receivers being frozen. Lifecycle controls of the test rail that no chain has, such as a
reorganisation of an older transfer before a newer one. Establishment without a
decision store, in which the code keeps no promise across restarts. Policies other
than the static one, custody, host names, HTTP and demos have no state on the money
path. The in-memory stores of test builds.
