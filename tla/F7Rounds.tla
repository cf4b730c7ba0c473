------------------------------ MODULE F7Rounds ------------------------------
(***************************************************************************)
(* Long runs of the F7 arithmetic: value is accrued per role, settled in   *)
(* rounds at whatever rate each round pins and paid to the channel's       *)
(* watermark; payments reach the split and are claimed, in any order.      *)
(* This is how the merchant's ledger                                       *)
(* (crates/paytp-merchant/src/carriage.rs) and the contract of SplitVault  *)
(* drive crates/paytp-f7/src/lib.rs.  The channel is a prepay one: the     *)
(* debtor settles early at will and must settle when a trigger of          *)
(* crates/paytp-core/src/channel/trigger.rs fires, and until it does the   *)
(* payer streams nothing.                                                  *)
(***************************************************************************)
EXTENDS SplitVault

CONSTANTS
  Rates,       \* the rates rounds are pinned at
  MaxAmount,   \* one accrual or payment moves 1..MaxAmount
  Loads        \* the bounds on the value accrued and on the payments to the split,
               \* the thresholds TH_VALUE and TH_TIME (0 disables one) and the rate
               \* of the rounds the debtor is compelled to

ASSUME RatesAssumption == Rates \subseteq Rate
ASSUME LoadAssumption ==
  MaxAmount \in Nat /\ Loads \subseteq [accrue : Nat, pay : Nat, value : Nat, time : Nat, rate : Rates]

VARIABLES
  load,        \* the bounds and thresholds of this behaviour
  value,       \* the gross value accrued so far
  accrued,     \* accrued_r
  settled,     \* the sum of E_r over completed rounds
  round,       \* the last round divided: its inputs and its division
  age          \* the time since it was begun, as far as TH_TIME can tell

ledgerVars == <<value, accrued, settled, round, age>>
vars == <<load, ledgerVars, vaultVars, mark>>

Zero == [r \in DOMAIN Bp |-> 0]
Outstanding == OutstandingMeedPerRole(accrued, settled)
NoRound == [n |-> Zero, rate |-> Unity,
            div |-> DivideRound(Zero, Unity)]

Init ==
  /\ load \in Loads
  /\ value = 0 /\ accrued = Zero /\ settled = Zero
  /\ round = NoRound /\ age = 0
  /\ VaultInit
  \* the split stays as it is in a behaviour that is about the ledger
  /\ load.pay = 0 => frozen = {} /\ paid = [s \in Seats |-> 0]

-----------------------------------------------------------------------------
(* The triggers of a position that owes no net.                            *)

Settleable(net, e) == net > 0 \/ e >= 1

Evaluate(unsettled, settleable) ==
  IF ~settleable THEN "none"
  ELSE IF load.value > 0 /\ unsettled >= load.value THEN "value"
  ELSE IF load.time > 0 /\ age >= load.time THEN "time" ELSE "none"

BugPaidSettles ==
  Evaluate(MeedCarve(Outstanding), Settleable(0, DivideRound(Outstanding, load.rate).p))

\* A round that pays P >= 1 may still extinguish nothing, at a rate above BpDenom.
Due == Evaluate(MeedCarve(Outstanding), Settleable(0, DivideRound(Outstanding, load.rate).e))
PrepayHalt == Due # "none"

TimePasses ==
  /\ age < load.time
  /\ age' = age + 1
  /\ UNCHANGED <<value, accrued, settled, round, vaultVars, mark>>

-----------------------------------------------------------------------------

AccrueValue(amount) ==
  /\ ~PrepayHalt
  /\ value + amount <= load.accrue
  /\ value' = value + amount
  /\ accrued' = Accrue(accrued, Bp, amount)
  /\ UNCHANGED <<settled, round, age, vaultVars, mark>>

\* A completed round: a leg is carried only when something is extinguished, and
\* it advances the watermark.
SettleRound(rate) ==
  LET div == DivideRound(Outstanding, rate)
  IN  /\ ConsistentHistory(accrued, settled)
      /\ div.ok /\ div.leg
      /\ round' = [n |-> Outstanding, rate |-> rate, div |-> div]
      /\ settled' = [r \in DOMAIN settled |-> settled[r] + div.er[r]]
      /\ AdvanceMark(mark.funded + div.p)
      /\ age' = 0
      /\ UNCHANGED <<value, accrued>>

Step ==
  \/ TimePasses
  \/ \E amount \in 1..MaxAmount : AccrueValue(amount)
  \/ \E rate \in Rates : SettleRound(rate)
  \/ \E p \in ClaimP : load.pay = 0 /\ FundClaimRecord(p) /\ UNCHANGED ledgerVars
  \/ /\ load.pay > 0
     /\ \/ \E amount \in 1..MaxAmount : inflow + amount <= load.pay /\ PaySplit(amount)
        \/ DeploySplit
        \/ \E seat \in Seats : SplitClaim(seat)
     /\ UNCHANGED ledgerVars

Next == Step /\ UNCHANGED load

Spec == Init /\ [][Next]_vars

\* Time passes, and a conformant debtor begins the rounds it is compelled to.
FairSpec ==
  /\ Spec
  /\ WF_vars(TimePasses /\ UNCHANGED load)
  /\ WF_vars(PrepayHalt /\ SettleRound(load.rate) /\ UNCHANGED load)

-----------------------------------------------------------------------------
(* Properties.                                                             *)

\* divide_round over any history of rounds at any rates: no role is extinguished
\* beyond what it accrued (so the next round is never an InconsistentProposal); a
\* round pays every whole unit the outstanding accruals are worth at its rate, and
\* extinguishes no more than is paid for; the sweep places all of E, one unit above
\* the proportional share of the lowest role-ids that still have room.
DivisionCanonical ==
  LET n == round.n  div == round.div  rate == round.rate
      share == Share(div.e, n)
      spare == {r \in DOMAIN Bp : share[r] < n[r]}
  IN  /\ ConsistentHistory(accrued, settled)
      /\ div.ok
      /\ div.e * rate.p <= div.p * rate.q * BpDenom
      /\ div.p * rate.q * BpDenom <= Total(n) * rate.p
      /\ (div.p + 1) * rate.q * BpDenom > Total(n) * rate.p
      /\ \A r \in DOMAIN Bp :
           div.er[r] = IF r \in spare
                          /\ Cardinality({s \in spare : s < r}) < div.e - Total(share)
                       THEN share[r] + 1 ELSE share[r]

\* evaluate and prepay_halt over divide_round: a payer halted on a round that is due
\* is released by a debtor that does only what it must, whatever dust the earlier
\* rounds left and at whatever rate ("can never deadlock a halted payer"); and with a time threshold all
\* but dust is settled in the end.
HaltIsReleased ==
  /\ PrepayHalt ~> ~PrepayHalt
  /\ <>[](load.time > 0 => ~DivideRound(Outstanding, load.rate).leg)
=============================================================================
