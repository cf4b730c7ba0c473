----------------------------- MODULE Redemption -----------------------------
(***************************************************************************)
(* A Tier 0 purchase from payment to receipt: the wallet's pay_baseline,   *)
(* fund_meed_leg and submit_net_leg, the rail's references and entries,    *)
(* and the merchant's redeem_baseline and redeem_two_leg over the durable  *)
(* store.  A quote may carry a baseline offer, a two-leg offer or both.    *)
(*                                                                         *)
(* Redemptions take &self and run concurrently; each of their writes to    *)
(* the rail or the store is a step of its own, and the process may stop    *)
(* between any two.  The carrier presents to either end whatever quotes    *)
(* circulate; quotes of the same terms share the address of their split.   *)
(* A quote goes by a name, which of an issued one stands for its nonce; a  *)
(* rail reference is an index into `rail`.                                 *)
(***************************************************************************)
EXTENDS EntryWindows, NonceStore, Tier0Quote

CONSTANTS
  Circulating,    \* the quotes a carrier can present, by name, as they arrive
  Issued,         \* those of them the merchant built and signed
  Approved,       \* what the operator asked for and selected
  Delay,          \* finality_delay
  Latency,        \* inclusion_latency
  Sessions,       \* the redemptions that can run at once
  MaxRefs,        \* bound on the transfers
  MaxAuths        \* bound on the authorizations

Quotes == DOMAIN Circulating
Of(isTwoLeg) == {q \in Quotes : OffersOf(Circulating[q].quote, isTwoLeg) # {}}
Baseline == Of(FALSE)
TwoLeg == Of(TRUE)

\* What the merchant reads of a quote: its offers of either kind.
Asked(q) == FirstOffer(Circulating[q].quote, FALSE)
Net(q) == FirstOffer(Circulating[q].quote, TRUE).accept
Meed(q) == CHOOSE tl \in FirstOffer(Circulating[q].quote, TRUE).twoLeg : TRUE

Honor == [q \in Quotes |-> HonorDeadline(Circulating[q].quote)]
Fin == [q \in Baseline |-> Max(Asked(q).finality)]
FinMeed == [q \in TwoLeg |-> Meed(q).finMeed]
FinNet == [q \in TwoLeg |-> Meed(q).finNet]

\* What the wallet makes of one: the quotes it pays or plans, whoever presents them.
PaidOffers(q) == UNION {PayableOffers(a, Circulating[q]) : a \in Approved}
Payable == {q \in Baseline : PaidOffers(q) # {}}
Planned == {q \in TwoLeg : \E a \in Approved : PlannableOffers(a, Circulating[q]) # {}}
Paid(q) == Circulating[q].quote.offers[Min(PaidOffers(q))].accept

\* Quotes of one entry_id share the entry, which has the name of one of them.
EntryId(q) == EntryIds(MerchantKey, Circulating[q].quote, Meed(q))
EntryOf == [q \in TwoLeg |-> CHOOSE p \in TwoLeg : EntryId(p) = EntryId(q)]

\* The quotes whose transfer is one that q asks for: as a baseline payment and, with
\* its nonce, as a net leg.
Covers(p, q) == p.payTo = q.payTo /\ p.asset = q.asset /\ p.amount >= q.amount
Buyers == [q \in Baseline |-> {p \in Payable : Covers(Paid(p), Asked(q).accept)}]
NetPayers ==
  [q \in TwoLeg |->
     {p \in TwoLeg : /\ Covers(Net(p), Net(q))
                     /\ Circulating[p].quote.nonce = Circulating[q].quote.nonce}]

ASSUME QuoteAssumption ==
  /\ Delay \in Nat /\ Latency \in Nat /\ MaxRefs \in Nat /\ MaxAuths \in Nat
  /\ Honor \in [Quotes -> Nat] /\ Fin \in [Baseline -> Nat]
  /\ FinMeed \in [TwoLeg -> Nat] /\ FinNet \in [TwoLeg -> Nat]
  /\ EntryOf \in [TwoLeg -> TwoLeg] /\ Declared \subseteq {1, 2}
  /\ Buyers \in [Baseline -> SUBSET Payable] /\ NetPayers \in [TwoLeg -> SUBSET TwoLeg]

\* Nobody else signs as the merchant, which gives each quote a nonce of its own.
ASSUME IssuedAssumption ==
  /\ Issued = {q \in Quotes : Verifies(MerchantKey, "reqs", Circulating[q].quote, Circulating[q].sig)}
  /\ \A p, q \in Issued : Circulating[p].quote.nonce = Circulating[q].quote.nonce => p = q

\* The binding the wallet has accepted is this merchant's.
ASSUME OriginAssumption == Origin.merchant = MerchantKey

\* The entries are those the quotes derive, with their amounts and windows.
ASSUME WindowAssumption ==
  /\ Ids = {EntryOf[q] : q \in TwoLeg}
  /\ \A q \in Ids :
       /\ Amount[q] = Meed(q).meed /\ Contest[q] = Meed(q).contest
       /\ TOpen[q] = Honor[q] /\ TLapse[q] = Honor[q] + Meed(q).reclaim

\* Both ends go by the same snapshots, the operator asks for what the merchant serves,
\* and the offers of a kind in an issued quote are all as the first.
SameView ==
  /\ WalletRegistry = MerchantRegistry
  /\ \A a \in Approved : a.resource \in ServedResources
  /\ \A q \in Issued, isTwoLeg \in BOOLEAN :
       LET quote == Circulating[q].quote
       IN  \A i \in OffersOf(quote, isTwoLeg) : quote.offers[i] = FirstOffer(quote, isTwoLeg)

VARIABLES
  rail,        \* the transfers made, each [kind, q, at]
  auths,       \* the payer's authorizations, each [q, ref]; ref 0 until settled
  session,     \* the redemptions in progress
  delivered    \* auxiliary: the receipts returned to payers

payer == <<rail, auths>>
vars == <<now, entry, payer, session, store, delivered>>

Init ==
  /\ now = 0 /\ entry = <<>> /\ rail = <<>> /\ auths = <<>>
  /\ session = [s \in Sessions |-> [stage |-> "idle"]]
  /\ StoreInit /\ delivered = {}

-----------------------------------------------------------------------------
(* The rail.                                                               *)

Transferred(kind, q) ==
  /\ Len(rail) < MaxRefs
  /\ rail' = Append(rail, [kind |-> kind, q |-> q, at |-> now])

\* The meed leg funds the quote's entry, whose id commits nonce and asset.
IsLeg(r, kind, q) ==
  /\ rail[r].kind = kind
  /\ IF kind = "meed" THEN EntryOf[rail[r].q] = EntryOf[q] ELSE rail[r].q \in NetPayers[q]

\* Of a transfer made at time `at`: its level only rises, and its time with it.
Finality(at) ==
  IF now >= at + Delay THEN [level |-> 2, time |-> at + Delay] ELSE [level |-> 1, time |-> at]

Tick ==
  /\ now < MaxTime
  /\ now' = now + 1
  /\ UNCHANGED <<entry, payer, session, store, delivered>>

\* A settle_id already settled keeps its reference.
Settle(a) ==
  IF auths[a].ref = 0
    THEN /\ Transferred("pay", auths[a].q)
         /\ auths' = [auths EXCEPT ![a].ref = Len(rail) + 1]
    ELSE UNCHANGED payer

FundEntry(q) ==
  /\ Fundable(EntryOf[q])
  /\ entry' = [k \in Funded \cup {EntryOf[q]} |->
                 IF k = EntryOf[q] THEN [state |-> "funded", openedAt |-> 0] ELSE entry[k]]
  /\ Transferred("meed", q)

\* An entry that is neither FUNDED nor RECLAIM_OPEN rejects the attestation.
AttestEntry(q) ==
  entry' = IF In(EntryOf[q], {"funded", "reclaimOpen"})
             THEN [entry EXCEPT ![EntryOf[q]].state = "attested"]
             ELSE entry

Moves(q, state) ==
  /\ entry' = [entry EXCEPT ![q].state = state]
  /\ UNCHANGED <<now, payer, session, store, delivered>>

OpenReclaim(q) ==
  /\ InReclaimWindow(q)
  /\ entry' = [entry EXCEPT ![q].state = "reclaimOpen", ![q].openedAt = now]
  /\ UNCHANGED <<now, payer, session, store, delivered>>

ExecuteReclaim(q) == Executable(q) /\ Moves(q, "reclaimed")
ClaimLapsed(q) == Lapsable(q) /\ Moves(q, "lapsed")
CancelEntry(q) == In(q, {"funded", "reclaimOpen"}) /\ Moves(q, "cancelled")

-----------------------------------------------------------------------------
(* The wallet.                                                             *)

\* baseline_headroom_ok: only what would certainly come too late is refused.
BaselineHeadroom(q) == (IF Fin[q] = 2 THEN now + Delay ELSE now) <= Honor[q]

\* A fresh authorization; the merchant settles it.
PayBaseline(q) ==
  /\ q \in Payable /\ Len(auths) < MaxAuths
  /\ BaselineHeadroom(q)
  /\ auths' = Append(auths, [q |-> q, ref |-> 0])
  /\ UNCHANGED <<now, entry, rail, session, store, delivered>>

\* The net leg starts after the meed is final, so both delays must fit.
Headroom(q) == now + 2 * Delay <= Honor[q]

\* The plan moves no value, and its headroom is checked again when it is funded.
FundMeedLeg(q) ==
  /\ q \in Planned /\ Headroom(q)
  /\ FundEntry(q)
  /\ UNCHANGED <<now, auths, session, store, delivered>>

BugNetHeadroomAtPlan(q) == TRUE

NetHeadroom(q) == now + Delay <= Honor[q]

\* meed_finality_time: the meed is at its quoted level, and came to it in time.
MeedIsFinal(q, m) ==
  LET f == Finality(rail[m].at) IN f.level >= FinMeed[q] /\ f.time <= Honor[q]

SubmitNetLeg(q) ==
  /\ q \in Planned
  /\ \E m \in DOMAIN rail : IsLeg(m, "meed", q) /\ MeedIsFinal(q, m)
  /\ NetHeadroom(q)
  /\ Transferred("net", q)
  /\ UNCHANGED <<now, entry, auths, session, store, delivered>>

-----------------------------------------------------------------------------
(* The merchant.  What a redemption reads of the wallet's two legs stays   *)
(* true, and the attestation and the store decide the rest again, so the   *)
(* reads before a write are one step.  A baseline redemption that settles  *)
(* and reads later is one that settled and failed and then its repetition, *)
(* so settlement and reads are one step too.                               *)

Idle == [stage |-> "idle"]
At(s, stage) == session[s].stage = stage
End(s) == session' = [session EXCEPT ![s] = Idle]
Started(s, q, ref, stage) ==
  session' = [session EXCEPT ![s] = [stage |-> stage, q |-> q, ref |-> ref]]

RedeemableBaseline == {q \in Baseline : BaselineRedeemable(Circulating[q])}
RedeemableTwoLeg == {q \in TwoLeg : TwoLegRedeemable(Circulating[q])}

\* leg_final, and the same check in redeem_baseline.
LegFinal(q, at, required) ==
  IF Finality(at).level < required
    THEN IF now > Honor[q] THEN "expired" ELSE "unverified"
    ELSE IF Finality(at).time > Honor[q] THEN "expired" ELSE "final"

\* redeem_baseline settles before it looks at finality, whatever comes of it.
RedeemBaseline(s, q, a) ==
  LET first == auths[a].ref = 0
      ref == IF first THEN Len(rail) + 1 ELSE auths[a].ref
      at == IF first THEN now ELSE rail[ref].at
  IN  /\ At(s, "idle")
      /\ q \in RedeemableBaseline /\ auths[a].q \in Buyers[q]
      /\ Settle(a)
      /\ IF LegFinal(q, at, Fin[q]) = "final" THEN Started(s, q, <<ref>>, "ready")
         ELSE UNCHANGED session
      /\ UNCHANGED <<now, entry, store, delivered>>

BugAttestedIsRefused(q) ==
  \/ In(EntryOf[q], {"funded"})
  \/ (In(EntryOf[q], {"reclaimOpen"}) /\ now + 2 * Latency < TExec(EntryOf[q]))

\* An entry under reclaim needs the margin of F8-f; an attested one is this
\* merchant's own work.
EntryRedeemable(q) ==
  \/ In(EntryOf[q], {"funded", "attested"})
  \/ (In(EntryOf[q], {"reclaimOpen"}) /\ now + 2 * Latency < TExec(EntryOf[q]))

\* redeem_two_leg peeks first and returns a stored receipt as it is.
RepeatTwoLeg(s, q, m, n) ==
  /\ At(s, "idle") /\ q \in RedeemableTwoLeg
  /\ Peek(q, <<m, n>>) = "stored"
  /\ delivered' = delivered \cup {byNonce[q]}
  /\ UNCHANGED <<now, entry, payer, session, store>>

\* Both legs and the entry are as they should be.
RedeemTwoLeg(s, q, m, n) ==
  /\ At(s, "idle") /\ q \in RedeemableTwoLeg
  /\ Peek(q, <<m, n>>) = "fresh"
  /\ IsLeg(m, "meed", q) /\ LegFinal(q, rail[m].at, FinMeed[q]) = "final"
  /\ EntryRedeemable(q)
  /\ LegFinal(q, rail[n].at, FinNet[q]) = "final" /\ IsLeg(n, "net", q)
  /\ Started(s, q, <<m, n>>, "verified")
  /\ UNCHANGED <<now, entry, payer, store, delivered>>

\* One of the wallet's legs is answered Expired.
ExpireTwoLeg(q, m, n) ==
  /\ q \in RedeemableTwoLeg
  /\ Peek(q, <<m, n>>) = "fresh"
  /\ IsLeg(m, "meed", q) /\ IsLeg(n, "net", q)
  /\ \/ LegFinal(q, rail[m].at, FinMeed[q]) = "expired"
     \/ /\ LegFinal(q, rail[m].at, FinMeed[q]) = "final"
        /\ EntryRedeemable(q)
        /\ LegFinal(q, rail[n].at, FinNet[q]) = "expired"

\* An attestation the entry rejects is tolerated if the entry is attested already.
AttestationTakes(q) == In(EntryOf[q], {"funded", "reclaimOpen", "attested"})

PostAttestation(s) ==
  /\ At(s, "verified")
  /\ LET q == session[s].q
     IN  /\ AttestEntry(q)
         /\ IF AttestationTakes(q) THEN session' = [session EXCEPT ![s].stage = "ready"]
            ELSE End(s)
  /\ UNCHANGED <<now, payer, store, delivered>>

\* Each redemption signs a receipt of its own.
Receipt(s) == [q |-> session[s].q, ref |-> session[s].ref, by |-> s]

Outcome(s) == IF poisoned THEN "unavailable" ELSE Peek(session[s].q, session[s].ref)

\* consume_nonce, before delivery: the receipt returned is the one stored.
Consume(s) ==
  /\ At(s, "ready")
  /\ End(s)
  /\ \/ /\ Outcome(s) = "fresh"
        /\ Append1(session[s].q, Receipt(s))
        /\ delivered' = delivered \cup {Receipt(s)}
     \/ /\ Outcome(s) = "stored"
        /\ delivered' = delivered \cup {byNonce[session[s].q]}
        /\ UNCHANGED store
     \/ /\ Outcome(s) \in {"replayed", "unavailable"}
        /\ UNCHANGED <<store, delivered>>
  /\ UNCHANGED <<now, entry, payer>>

\* StoreUnavailable: nothing is delivered.
ConsumeFails(s, undone, kept) ==
  /\ At(s, "ready")
  /\ Outcome(s) = "fresh"
  /\ AppendFails(session[s].q, Receipt(s), undone, kept)
  /\ End(s)
  /\ UNCHANGED <<now, entry, payer, delivered>>

Restarted(contents) ==
  /\ session' = [s \in Sessions |-> Idle]
  /\ Reopen(contents)
  /\ UNCHANGED <<now, entry, payer, delivered>>

Stopped == faults < MaxFaults /\ faults' = faults + 1

\* The process stops between two steps and is started again.
Restart == Stopped /\ Restarted(file)

\* It stops with the record durable and the receipt not returned.
RestartInConsume(s) ==
  /\ Stopped
  /\ At(s, "ready") /\ Outcome(s) = "fresh"
  /\ Restarted(With(file, session[s].q, Receipt(s)))

\* A poisoned store is recovered by a fresh open.
Recover == poisoned /\ Restarted(file) /\ UNCHANGED faults

-----------------------------------------------------------------------------
Step(s) == PostAttestation(s) \/ Consume(s)

Next ==
  \/ Tick
  \/ \E i \in Ids : OpenReclaim(i) \/ ExecuteReclaim(i) \/ ClaimLapsed(i) \/ CancelEntry(i)
  \/ \E q \in TwoLeg : FundMeedLeg(q) \/ SubmitNetLeg(q)
  \/ \E q \in Quotes : PayBaseline(q)
  \/ \E s \in Sessions :
       \/ Step(s)
       \/ RestartInConsume(s)
       \/ \E undone, kept \in BOOLEAN : ConsumeFails(s, undone, kept)
       \/ \E q \in Quotes, a \in DOMAIN auths : RedeemBaseline(s, q, a)
       \/ \E q \in TwoLeg, m, n \in DOMAIN rail :
            RepeatTwoLeg(s, q, m, n) \/ RedeemTwoLeg(s, q, m, n)
  \/ Restart
  \/ Recover

Spec == Init /\ [][Next]_vars

\* The payer repeats the redemption of a settled authorization, at every quote it
\* may have presented it for, or of its two legs.
RetryBaseline(q, a) ==
  /\ a \in DOMAIN auths /\ auths[a].ref # 0
  /\ \E s \in Sessions : RedeemBaseline(s, q, a)

RetryTwoLeg(q) ==
  \E s \in Sessions, m, n \in DOMAIN rail :
    /\ IsLeg(m, "meed", q) /\ IsLeg(n, "net", q)
    /\ RepeatTwoLeg(s, q, m, n) \/ RedeemTwoLeg(s, q, m, n)

FairSpec ==
  /\ Spec
  /\ WF_vars(Tick)
  /\ WF_vars(Recover)
  /\ \A s \in Sessions : WF_vars(Step(s))
  /\ \A q \in Payable, a \in 1..MaxAuths : SF_vars(RetryBaseline(q, a))
  /\ \A q \in Planned : SF_vars(RetryTwoLeg(q))

-----------------------------------------------------------------------------
(* Properties.                                                             *)

\* redeem_baseline, redeem_two_leg, consume_nonce: whatever happened to the entry, the
\* store or the process on the way, a receipt is returned only for a transfer of the
\* quoted terms, and with two legs only once the meed is the recipients', so that no
\* reclaim takes it back from under a delivery; and concurrent, repeated and
\* interrupted redemptions of a nonce return one receipt, and one payment buys one
\* nonce, though quotes share a split (F4.4).
DeliveryIsPaid ==
  \A d \in delivered :
    LET last == rail[d.ref[Len(d.ref)]]
    IN  /\ d.q \in Issued
        /\ IF Len(d.ref) = 1
             THEN last.kind = "pay" /\ last.q \in Buyers[d.q]
             ELSE last.kind = "net" /\ last.q = d.q /\ In(EntryOf[d.q], {"attested"})
        /\ \A e \in delivered :
             d.q = e.q \/ d.ref[Len(d.ref)] = e.ref[Len(e.ref)] => d = e

\* finality_headroom and its repetitions in fund_meed_leg and submit_net_leg: a leg
\* the wallet has sent is never answered Expired, whatever time passed between plan,
\* funding, net leg and redemption; and whatever the carrier presents, the wallet
\* authorizes and sends nothing for a quote that the merchant will not redeem.
SentIsHonored ==
  /\ \A q \in TwoLeg, m, n \in DOMAIN rail : ~ExpireTwoLeg(q, m, n)
  /\ \A a \in DOMAIN auths : auths[a].q \in Issued \cap RedeemableBaseline
  /\ \A r \in DOMAIN rail : rail[r].kind # "pay" => rail[r].q \in Issued \cap RedeemableTwoLeg

Served(q) == \E d \in delivered : d.q = q
SettledInTime(a) ==
  /\ a \in DOMAIN auths /\ auths[a].ref # 0
  /\ rail[auths[a].ref].at + Delay <= Honor[auths[a].q]
Redeemed(a) ==
  /\ a \in DOMAIN auths
  /\ Served(auths[a].q) \/ \E d \in delivered : d.ref = <<auths[a].ref>>

\* Exactly once also means once: a payment settled in time, and a purchase whose
\* entry the merchant has attested, end in a receipt, through stops between the
\* settlement or the attestation and the consumption of the nonce.  The payment's
\* receipt may be another quote's of the same split, if the payer presented it there.
PaidIsDelivered ==
  /\ \A q \in Planned : In(EntryOf[q], {"attested"}) ~> Served(q)
  /\ \A a \in 1..MaxAuths :
       SettledInTime(a) ~> Redeemed(a)
=============================================================================
