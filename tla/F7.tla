--------------------------------- MODULE F7 ---------------------------------
(***************************************************************************)
(* The settlement arithmetic of crates/paytp-f7/src/lib.rs, over exact     *)
(* naturals.  A vector is a sequence indexed by role in ascending role-id  *)
(* order; a rate is a pair of positive numbers.                            *)
(*                                                                         *)
(* The code computes in 256 and 512 bits and rejects what leaves the       *)
(* 128-bit domain (check_domain, P >= 2^128); inside that domain nothing   *)
(* saturates, which is where these definitions apply.                      *)
(*                                                                         *)
(* A definition named Bug... is a mistake one could make in the definition *)
(* after it; no specification uses it.                                     *)
(***************************************************************************)
EXTENDS Sums, Sequences

CONSTANT BpDenom   \* 10 000 in the code

ASSUME BpDenomAssumption == BpDenom \in Nat \ {0}

Rate == [p : Nat \ {0}, q : Nat \ {0}]
Unity == [p |-> 1, q |-> 1]

Total(v) == SumOver(v, DOMAIN v)

SatSub(a, b) == IF a > b THEN a - b ELSE 0

Accrue(accrued, bp, amount) == [r \in DOMAIN accrued |-> accrued[r] + amount * bp[r]]

ComputeP(n, rate) == (n * rate.p) \div (rate.q * BpDenom)

ComputeE(paid, rate) == (paid * rate.q * BpDenom) \div rate.p

\* floor(E * N_r / N)
Share(e, n) == [r \in DOMAIN n |-> IF Total(n) = 0 THEN 0 ELSE (e * n[r]) \div Total(n)]

BugShortfallToFirst(e, n) == [Share(e, n) EXCEPT ![1] = @ + (e - Total(Share(e, n)))]

\* extinguish_per_role: the shares, then sweeps over the roles in ascending order,
\* one unit to each role that is not at its cap, until all of E is placed.  Every
\* sweep places a unit, so there are no more of them than units are short.
ExtinguishPerRole(e, n) ==
  LET visit == [r \in DOMAIN n |-> [er \in Seq(Nat) |->
                  IF Total(er) < e /\ er[r] < n[r] THEN [er EXCEPT ![r] = @ + 1] ELSE er]]
      visits == (e - Total(Share(e, n))) * Len(n)
      swept[k \in 0..visits] ==
        IF k = 0 THEN Share(e, n) ELSE visit[((k - 1) % Len(n)) + 1][swept[k - 1]]
  IN  swept[visits]

\* divide_round; not `ok` is the rejection of a division that would extinguish
\* more than is outstanding.
DivideRound(n, rate) ==
  LET paid == ComputeP(Total(n), rate)
      e == ComputeE(paid, rate)
      ok == e <= Total(n)
  IN  [ok |-> ok, p |-> paid, e |-> e, leg |-> e # 0,
       er |-> IF ok THEN ExtinguishPerRole(e, n) ELSE [r \in DOMAIN n |-> 0]]

\* claimable_d
Claimable(v, bp, total, paid) ==
  IF total = 0 \/ bp > total THEN 0 ELSE SatSub((v * bp) \div total, paid)

MeedCarve(accruals) == Total(accruals) \div BpDenom

\* outstanding_meed_per_role answers an error unless this holds.
ConsistentHistory(accrued, settled) == \A r \in DOMAIN accrued : settled[r] <= accrued[r]

OutstandingMeedPerRole(accrued, settled) ==
  [r \in DOMAIN accrued |-> accrued[r] - settled[r]]

OutstandingMerchantNet(cum, accruals, net, funding) ==
  SatSub(SatSub(SatSub(cum, MeedCarve(accruals)), net), funding)
=============================================================================
