-------------------------- MODULE MCEstablishment --------------------------
(* Model values for Establishment: two registry snapshots, of which the    *)
(* first revokes version 1 and the second does not repeat it, one forged    *)
(* snapshot, and terms each wrong in one way.                               *)
EXTENDS Establishment, TLC

MCCaip == {"dev", "fund", "os", "wallet", "il"}

Vector(os, wallet, dev) ==
  RoleIL :> [bp |-> 50, dest |-> "il"] @@ RoleOS :> [bp |-> 10, dest |-> os]
    @@ RoleWallet :> [bp |-> 30, dest |-> wallet] @@ RoleDevFund :> [bp |-> 10, dest |-> dev]

Conformant ==
  [schema |-> 1, vector |-> Vector("fund", "wallet", "dev"), registry |-> 1, mode |-> "postpay",
   refund |-> {}, rate |-> {}, denom |-> "usd", baseline |-> "usd",
   finMeed |-> "final", finDenom |-> "final", limit |-> 1]
Listed == [Conformant EXCEPT !.mode = "prepay", !.refund = {"wallet"}, !.registry = 2,
             !.vector = Vector("os", "wallet", "dev")]

MCParams ==
  {Conformant, Listed,
   [Conformant EXCEPT !.vector = Vector("fund", "wallet", "il")],
   [Conformant EXCEPT !.vector = Vector("fund", "il", "dev")],
   [Conformant EXCEPT !.vector = Vector("il", "wallet", "dev")],
   [Conformant EXCEPT !.vector = (RoleIL :> [bp |-> 100, dest |-> "il"])],
   [Conformant EXCEPT !.refund = {"wallet"}],
   [Conformant EXCEPT !.denom = "eur", !.rate = {"src"}],
   [Conformant EXCEPT !.finMeed = "confirmed"],
   [Conformant EXCEPT !.limit = 2]}

Issued(v, kind, os, revoked) ==
  [version |-> v, kind |-> kind, os |-> os, floor |-> 1, revoked |-> revoked, signer |-> "foundation"]

MCSnapshots ==
  {Issued(2, "revocation", ("a" :> "os"), {1}),
   Issued(3, "rotation", ("a" :> "fund"), {}),
   [Issued(3, "rotation", ("a" :> "il"), {}) EXCEPT !.signer = "il"]}

MCBudget == "usd" :> 1 @@ "eur" :> 1
MCOwnDest == {"wallet"}
=============================================================================
