---------------------------- MODULE MCRedemption ----------------------------
(* Model values for Redemption.  Of the quotes that can be paid, q1 has     *)
(* both offers and q2 a cheaper baseline offer at the same split.  The      *)
(* others are each wrong in one way: altered by the carrier, signed by      *)
(* another, or signed by the merchant and not what the operator wants.      *)
EXTENDS Redemption, TLC

MCCaip == {"dev", "fund", "wallet", "il"}
MCX402 == "solana" :> "solana:main" @@ "solana-devnet" :> "solana:dev"
MCHostOf == "page" :> "shop" @@ "other" :> "shop" @@ "elsewhere" :> "forum"
MCOrigin == [merchant |-> "shopKey", host |-> "shop"]
MCOwnDest == {"wallet"}
MCBudget == "usd" :> 101
MCRegistry == EmptyStore

Vector(wallet, dev) ==
  RoleIL :> [bp |-> 50, dest |-> "il"] @@ RoleOS :> [bp |-> 10, dest |-> "fund"]
    @@ RoleWallet :> [bp |-> 30, dest |-> wallet] @@ RoleDevFund :> [bp |-> 10, dest |-> dev]

Terms == [asset |-> "usd", meed |-> 1, reclaim |-> 1, contest |-> 1, finMeed |-> 2, finNet |-> 1]

Blank(nonce, resource, vector) ==
  [v |-> 1, resource |-> resource, nonce |-> nonce, exp |-> 1, grace |-> 1, schema |-> 1,
   contract |-> 1, registry |-> 1, baseline |-> "solana:main", vector |-> vector, offers |-> <<>>]

TwoLegAt(q, terms) ==
  [TwoLegOffer("till", "solana", "usd", 100, terms) EXCEPT !.accept.resource = {q.resource}]

Both(q, amount, terms) ==
  [q EXCEPT !.offers =
     <<BaselineOffer("shopKey", "till", q, "usd", amount, 2), TwoLegAt(q, terms)>>]

Page(nonce) == Blank(nonce, "page", Vector("wallet", "dev"))
Quote1 == Both(Page(1), 2, Terms)
Quote2 == [Page(2) EXCEPT !.offers = <<BaselineOffer("shopKey", "till", Page(2), "usd", 1, 1)>>]
Signed1 == SignQuote("shopKey", Quote1)

\* The terms of an offer the operator approves and no sound quote makes.
Quote3 == Both(Page(3), 3, [Terms EXCEPT !.contest = 2])

MCIssued == {"q1", "q2", "dearer", "otherPage", "rerouted", "misrouted", "wrongPayTo", "wrongRail",
             "twice", "endless"}

MCCirculating ==
  "q1" :> Signed1
  @@ "q2" :> SignQuote("shopKey", Quote2)
  \* altered on the way
  @@ "cheaper" :> [Signed1 EXCEPT !.quote.offers[1].accept.amount = 0]
  @@ "appended" :> [Signed1 EXCEPT !.quote = ("memo" :> 1) @@ Quote1]
  @@ "longer" :> [Signed1 EXCEPT !.quote.grace = 3]
  \* another's
  @@ "forged" :> SignQuote("otherKey", Quote1)
  \* signed by the merchant, captured or hostile
  @@ "dearer" :> SignQuote("shopKey", Both(Page(4), 4, [Terms EXCEPT !.meed = 2]))
  @@ "otherPage" :> SignQuote("shopKey", Both(Blank(5, "other", Vector("wallet", "dev")), 3, Terms))
  @@ "rerouted" :> SignQuote("shopKey", Both(Blank(6, "page", Vector("il", "dev")), 3, Terms))
  @@ "misrouted" :> SignQuote("shopKey", Both(Blank(7, "page", Vector("wallet", "il")), 3, Terms))
  @@ "wrongPayTo" :> SignQuote("shopKey",
       [Page(8) EXCEPT !.offers = <<[Quote3.offers[1] EXCEPT !.net = {"il"}]>>])
  @@ "wrongRail" :> SignQuote("shopKey", [Quote3 EXCEPT !.nonce = 9, !.baseline = "solana:dev"])
  @@ "twice" :> SignQuote("shopKey",
       [Quote3 EXCEPT !.nonce = 10, !.offers = @ \o @])
  @@ "endless" :> SignQuote("shopKey", [Quote3 EXCEPT !.nonce = 11, !.exp = 9])

Approve(offer) == [resource |-> "page", offer |-> offer]
MCApproved ==
  {Approve(Quote1.offers[1]), Approve(Quote1.offers[2]), Approve(Quote2.offers[1])}
    \cup {Approve(MCCirculating[q].quote.offers[1]) : q \in {"rerouted", "misrouted", "wrongRail"}}

\* The entries that these quotes derive; WindowAssumption holds them to the quotes.
MCIds == {"q1", "longer", "dearer", "otherPage", "rerouted", "misrouted", "wrongRail", "twice",
          "endless"}
MCAmount == [i \in MCIds |-> IF i = "dearer" THEN 2 ELSE 1]
MCTOpen == [i \in MCIds |-> IF i = "longer" THEN 4 ELSE IF i = "endless" THEN 10 ELSE 2]
MCTLapse == [i \in MCIds |-> MCTOpen[i] + 1]
MCContest == [i \in MCIds |-> IF i \in {"wrongRail", "twice", "endless"} THEN 2 ELSE 1]
MCRoles == {"r"}
MCWeight == [r \in MCRoles |-> 1]
MCDestOf == [r \in MCRoles |-> "fund"]

\* SentIsHonored is a theorem of such instances.
ASSUME ViewAssumption == SameView
=============================================================================
