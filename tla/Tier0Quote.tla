----------------------------- MODULE Tier0Quote -----------------------------
(***************************************************************************)
(* The quote of a Tier 0 purchase: how a merchant builds and signs one,    *)
(* the addresses derived from it, and the checks made of one as it arrives *)
(* through an untrusted carrier, by the wallet before it pays and by the   *)
(* merchant before it redeems.                                             *)
(*                                                                         *)
(* A received quote is [quote, sig], the quote a record of its members,    *)
(* unknown ones included.  An offer's net, finality and twoLeg, and its    *)
(* accept's payTo and resource, are sets of at most one value.  A vector   *)
(* is in the canonical order of MeedVector; idem, retry, rate and the      *)
(* parts of an accept that only the mirror compares are left out.          *)
(***************************************************************************)
EXTENDS MeedVector, Wire, Sequences

CONSTANTS
  X402,              \* the CAIP-2 identifier of each network name
  TimeDomain,        \* the last time a quote may state, 2^53 - 1 in the code
  Declared,          \* the finality levels the rail declares
  Assets,            \* the assets the rail routes
  MerchantKey,       \* the merchant's identity key
  MerchantRegistry,  \* the merchant's snapshots
  ServedResources,   \* what the merchant serves
  Origin,            \* the wallet's AcceptedBinding: [merchant, host]
  HostOf,            \* the host of each resource that has a normalized one
  WalletRegistry,    \* the wallet's snapshots
  OwnDest,           \* the wallet's own meed destination, if any
  Budget             \* StaticPolicy: the limit per allowlisted asset

ASSUME DomainAssumption == TimeDomain \in Nat /\ Declared \subseteq Nat

-----------------------------------------------------------------------------
(* Derivations.  A seed stands for what is hashed, an address for its seed; *)
(* {} is a derivation that fails.                                           *)

AddressInputs(merchant, q, asset, net) ==
  [merchant |-> merchant, asset |-> asset, schema |-> q.schema, vector |-> q.vector,
   contract |-> q.contract, net |-> net]

\* A split commits the merchant's net destination, an instance has none.
SeedSplit(inputs) == IF inputs.net = {} THEN {} ELSE {<<"split", inputs>>}
SeedInstance(inputs) == IF inputs.net = {} THEN {<<"instance", inputs>>} ELSE {}

EntryIdPurchase(seed, nonce, amount, tOpen, tLapse, contest) ==
  <<seed, nonce, amount, tOpen, tLapse, contest>>

HonorDeadline(q) == q.exp + q.grace

\* The ids of the entry of a two-leg offer's terms, at most one.
EntryIds(merchant, q, tl) ==
  LET tOpen == HonorDeadline(q)
  IN  {EntryIdPurchase(seed, q.nonce, tl.meed, tOpen, tOpen + tl.reclaim, tl.contest) :
         seed \in SeedInstance(AddressInputs(merchant, q, tl.asset, {}))}

-----------------------------------------------------------------------------
(* Building. *)

SignQuote(key, q) == [quote |-> q, sig |-> Sign(key, "reqs", q)]

NameOf(caip2) == CHOOSE n \in DOMAIN X402 : X402[n] = caip2

BaselineOffer(key, payout, q, asset, amount, finality) ==
  [accept |-> [network |-> NameOf(q.baseline), asset |-> asset, amount |-> amount,
               payTo |-> SeedSplit(AddressInputs(key, q, asset, {payout})),
               resource |-> {q.resource}],
   finality |-> {finality}, net |-> {payout}, twoLeg |-> {}]

TwoLegOffer(payout, network, asset, amount, terms) ==
  [accept |-> [network |-> network, asset |-> asset, amount |-> amount,
               payTo |-> {payout}, resource |-> {}],
   finality |-> {}, net |-> {}, twoLeg |-> {terms}]

-----------------------------------------------------------------------------
(* Checks of a received quote. *)

\* from_members: the members that are read, in their domains.
FromMembers(q) ==
  /\ {"v", "resource", "nonce", "exp", "grace", "schema", "contract", "registry", "baseline",
      "vector", "offers"} \subseteq DOMAIN q
  /\ q.v = 1
  /\ q.exp <= TimeDomain /\ q.grace <= TimeDomain

\* Quote::parse_verify: the signature covers every member that arrived.
QuoteVerifies(key, o) == Verifies(key, "reqs", o.quote, o.sig) /\ FromMembers(o.quote)

OffersOf(q, isTwoLeg) == {i \in DOMAIN q.offers : (q.offers[i].twoLeg # {}) = isTwoLeg}

ValidateOfferNetworks(q) ==
  /\ \A i \in DOMAIN q.offers : q.offers[i].accept.resource = {q.resource}
  /\ \A i \in OffersOf(q, FALSE) :
       LET n == q.offers[i].accept.network IN n \in DOMAIN X402 /\ X402[n] = q.baseline

ValidateBaselineMerchantNet(q) ==
  \A i \in DOMAIN q.offers : (q.offers[i].net = {}) <=> (q.offers[i].twoLeg # {})

ValidateTier0(registry, q) ==
  /\ VectorGoverned(registry, q)
  /\ ValidateOfferNetworks(q)
  /\ ValidateBaselineMerchantNet(q)

\* verify_split_pay_to, and the same comparison in redeem_baseline.
PaysTheSplit(merchant, q, offer) ==
  LET split == SeedSplit(AddressInputs(merchant, q, offer.accept.asset, offer.net))
  IN  split # {} /\ split = offer.accept.payTo

-----------------------------------------------------------------------------
(* The wallet.  An approval is what the operator asked for and selected:   *)
(* [resource, offer].                                                       *)

\* require_binding_host_matches_resource
OriginServes(resource) == resource \in DOMAIN HostOf /\ HostOf[resource] = Origin.host

\* StaticPolicy::approve_quote, with the operator's consent.
ApproveQuote(amount, asset) == asset \in DOMAIN Budget /\ amount <= Budget[asset]

\* What pay_baseline and plan_two_leg ask of a quote before they look at its offers.
\* A plan is made without the interaction layer's pointer, whose share goes unchecked.
QuoteFor(approval, o) ==
  /\ OriginServes(approval.resource)
  /\ QuoteVerifies(Origin.merchant, o)
  /\ o.quote.resource = approval.resource
  /\ VectorGoverned(WalletRegistry, o.quote)
  /\ PayerSide(OwnDest, o.quote.vector)

MirroredBaseline(approval, q) ==
  {i \in OffersOf(q, FALSE) : q.offers[i].accept = approval.offer.accept}

\* offer_mirrors: of two legs the whole offer counts.
MirroredTwoLeg(approval, q) == {i \in OffersOf(q, TRUE) : q.offers[i] = approval.offer}

\* pay_baseline, but for the clock: the offer it pays.
PayableOffers(approval, o) ==
  {i \in MirroredBaseline(approval, o.quote) :
     LET q == o.quote
         offer == q.offers[i]
     IN  /\ QuoteFor(approval, o) /\ ValidateTier0(WalletRegistry, q)
         /\ MirroredBaseline(approval, q) = {i}
         /\ offer.finality # {} /\ offer.finality \subseteq Declared
         /\ ApproveQuote(offer.accept.amount, offer.accept.asset)
         /\ PaysTheSplit(Origin.merchant, q, offer)}

BPDenom == 10000
MeedCapBp == 150

MeedCarveCap(net) ==
  (net \div BPDenom) * MeedCapBp + ((net % BPDenom) * MeedCapBp) \div BPDenom

\* The legs against the budgets, together when they are of one asset.
LegsApproved(net, tl) ==
  IF net.asset = tl.asset
    THEN /\ ApproveQuote(net.amount + tl.meed, net.asset)
         /\ tl.meed <= MeedCarveCap(net.amount)
    ELSE ApproveQuote(net.amount, net.asset) /\ ApproveQuote(tl.meed, tl.asset)

InTimeDomain(tl) == tl.reclaim <= TimeDomain /\ tl.contest <= TimeDomain

\* plan_two_leg, but for the clock: the offer it plans.
PlannableOffers(approval, o) ==
  {i \in MirroredTwoLeg(approval, o.quote) :
     LET q == o.quote
         offer == q.offers[i]
     IN  /\ QuoteFor(approval, o) /\ ValidateBaselineMerchantNet(q)
         /\ MirroredTwoLeg(approval, q) = {i}
         /\ \A tl \in offer.twoLeg :
              /\ InTimeDomain(tl) /\ tl.reclaim > 0 /\ tl.contest > 0
              /\ {offer.accept.asset, tl.asset} \subseteq Assets
              /\ {tl.finMeed, tl.finNet} \subseteq Declared
              /\ LegsApproved(offer.accept, tl)}

-----------------------------------------------------------------------------
(* The merchant. *)

OwnQuote(o) ==
  /\ QuoteVerifies(MerchantKey, o)
  /\ VectorGoverned(MerchantRegistry, o.quote)
  /\ o.quote.resource \in ServedResources

\* It looks at the first offer of the kind, whichever the wallet mirrored.
FirstOffer(q, isTwoLeg) == q.offers[Min(OffersOf(q, isTwoLeg))]

\* redeem_baseline, up to the payment.
BaselineRedeemable(o) ==
  /\ OwnQuote(o)
  /\ OffersOf(o.quote, FALSE) # {}
  /\ LET offer == FirstOffer(o.quote, FALSE)
     IN  offer.finality # {} /\ PaysTheSplit(MerchantKey, o.quote, offer)

\* redeem_two_leg, up to the payment.
TwoLegRedeemable(o) ==
  /\ OwnQuote(o)
  /\ ValidateBaselineMerchantNet(o.quote)
  /\ OffersOf(o.quote, TRUE) # {}
  /\ \A tl \in FirstOffer(o.quote, TRUE).twoLeg : InTimeDomain(tl)
=============================================================================
