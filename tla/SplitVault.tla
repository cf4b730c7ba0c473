---------------------------- MODULE SplitVault -----------------------------
(***************************************************************************)
(* Where the meed ends up on the rail: the baseline split (deploy_split,   *)
(* split_claim) and a channel's watermark (advance_channel_meed) of the    *)
(* contract, contracts/programs/paytp_kit/src/lib.rs, next to the split of *)
(* the host's crates/paytp-rail/src/virtual_rail.rs, which pays out on     *)
(* every receipt instead of on claims.                                     *)
(*                                                                         *)
(* Seat 0 is the merchant's; seats 1, 2, ... are the meed roles.  A record *)
(* may be of an earlier layout, which floored each role on its own: the    *)
(* program can be upgraded in place.  Payments to the split are never more *)
(* than the 128-bit domain holds.                                          *)
(*                                                                         *)
(* A definition named Bug... is a mistake one could make in the definition *)
(* after it; no specification uses it.                                     *)
(***************************************************************************)
EXTENDS F7

CONSTANTS
  Bp,            \* basis points per role
  Dest,          \* the destination of each role
  MerchantNet,   \* the merchant's destination
  FrozenSets,    \* which accounts may be frozen: a set of sets
  Legacy,        \* what a record of the earlier layout had received: a set
  ClaimP         \* the amounts of the claim-records; a key commits to its amount

\* Schema 0x01 gives the roles 100 basis points of 10 000.
ASSUME VectorAssumption == Bp \in Seq(Nat) /\ Bp # <<>> /\ Total(Bp) \in 1 .. BpDenom
ASSUME DestAssumption == DOMAIN Dest = DOMAIN Bp /\ Legacy \cup ClaimP \subseteq Nat

VARIABLES
  deployed,   \* whether the split exists, in the contract and on the host
  frozen,     \* the token accounts no transfer reaches
  vault,      \* the balance of the split's token account
  paid,       \* Split.paid, by seat
  got,        \* what each account has received from the vault
  host,       \* the host's SplitState and its ledger
  mark,       \* the channel's ChannelMeed
  claims,     \* the ClaimRecords, by amount
  inflow      \* auxiliary: all that was ever paid to the split

vaultVars == <<deployed, frozen, vault, paid, got, host, claims, inflow>>

Roles == DOMAIN Bp
Seats == 0 .. Len(Bp)
Accounts == {MerchantNet} \cup {Dest[r] : r \in Roles}

-----------------------------------------------------------------------------
(* aggregate_bp_by_dest: a destination is paid at the first role that names *)
(* it, on the weight of all that do.                                        *)

Canon(r) == Min({s \in Roles : Dest[s] = Dest[r]})
SameDest(r) == {s \in Roles : Canon(s) = r}

AtCanon(v) == [r \in Roles |-> IF Canon(r) = r THEN SumOver(v, SameDest(r)) ELSE 0]

SPLIT_MERCHANT_BP == BpDenom - Total(Bp)
SeatBp(seat) == IF seat = 0 THEN SPLIT_MERCHANT_BP ELSE AtCanon(Bp)[seat]
SeatDest(seat) == IF seat = 0 THEN MerchantNet ELSE Dest[seat]

(* The seats that are paid at all; the others are folded into one of them. *)
Drawing == {0} \cup {r \in Roles : Canon(r) = r}

-----------------------------------------------------------------------------
(* The contract's split *)

(* Only the seat's own slot is looked at. *)
BugOwnSlotOnly(seat) == paid[seat]

(* paid_dest *)
PaidDest(seat) == IF seat = 0 THEN paid[0] ELSE SumOver(paid, SameDest(seat))

TotalReceived == vault + SumOver(paid, Seats)

Owed(seat) == Claimable(TotalReceived, SeatBp(seat), BpDenom, PaidDest(seat))

(* split_claim; a claim that owes nothing, or of a folded seat, changes nothing *)
SplitClaim(seat) ==
  /\ deployed
  /\ seat \in Drawing
  /\ Owed(seat) \in 1 .. vault
  /\ SeatDest(seat) \notin frozen
  /\ vault' = vault - Owed(seat)
  /\ got' = [got EXCEPT ![SeatDest(seat)] = @ + Owed(seat)]
  /\ paid' = [s \in Seats |->
       IF s = seat THEN PaidDest(seat) + Owed(seat)
       ELSE IF seat # 0 /\ s \in SameDest(seat) THEN 0 ELSE paid[s]]
  /\ UNCHANGED <<deployed, frozen, host, mark, claims, inflow>>

-----------------------------------------------------------------------------
(* The host's split *)

(* distribute, after V grew by amt *)
HostDistribute(v, amt) ==
  LET entitled == [s \in Drawing |-> ((v.received + amt) * SeatBp(s)) \div BpDenom]
      due == [s \in Drawing |-> entitled[s] - v.paid[s]]
  IN
  [received |-> v.received + amt, paid |-> entitled,
   ledger |-> [a \in Accounts |-> v.ledger[a] + SumOver(due, {s \in Drawing : SeatDest(s) = a})]]

HostNew == [received |-> 0, paid |-> [s \in Drawing |-> 0], ledger |-> [a \in Accounts |-> 0]]

(* A payment to the split's address.  Before the deployment the contract's   *)
(* token account holds it; the host credits the plain address, for good.     *)
PaySplit(amt) ==
  /\ vault' = vault + amt
  /\ inflow' = inflow + amt
  /\ host' = IF deployed THEN HostDistribute(host, amt) ELSE host
  /\ UNCHANGED <<deployed, frozen, paid, got, mark, claims>>

(* deploy_split; a second deployment is refused or ignored *)
DeploySplit ==
  /\ ~ deployed
  /\ deployed' = TRUE
  /\ UNCHANGED <<frozen, vault, paid, got, host, mark, claims, inflow>>

-----------------------------------------------------------------------------
(* The channel's watermark *)

DueAt(target) == [r \in Roles |-> (target * AtCanon(Bp)[r]) \div Total(Bp)]

(* Every slot must grow on its own. *)
BugPerSlot(target) == \A r \in Roles : DueAt(target)[r] >= mark.paid[r]

(* The clawback check of advance_channel_meed. *)
Grows(target) == \A r \in Roles : DueAt(target)[r] >= AtCanon(mark.paid)[r]

(* advance_channel_meed past the watermark; short of it nothing changes. *)
AdvanceMark(target) ==
  /\ target > mark.funded
  /\ Grows(target)
  /\ mark' = [funded |-> target, paid |-> DueAt(target), residue |-> target - SumOver(DueAt(target), Roles)]
  /\ UNCHANGED vaultVars

(* distribute_p_into *)
DistributeP(p) == [shares |-> DueAt(p), residue |-> p - SumOver(DueAt(p), Roles)]

(* fund_claim_record: recorded once, and divided by itself *)
FundClaimRecord(p) ==
  /\ p > 0 /\ p \notin DOMAIN claims
  /\ claims' = [k \in DOMAIN claims \cup {p} |->
       IF k = p THEN DistributeP(p) ELSE claims[k]]
  /\ UNCHANGED <<deployed, frozen, vault, paid, got, host, mark, inflow>>

-----------------------------------------------------------------------------
(* A fresh split and channel, or ones whose records the earlier layout left *)
(* behind: each seat claimed when the vault had received some of r.         *)

FreshMark == [funded |-> 0, paid |-> [r \in Roles |-> 0], residue |-> 0]
LegacyMark(f) ==
  LET each == [r \in Roles |-> (f * Bp[r]) \div Total(Bp)] IN
  [funded |-> f, paid |-> each, residue |-> f - SumOver(each, Roles)]

RawBp(seat) == IF seat = 0 THEN SPLIT_MERCHANT_BP ELSE Bp[seat]

VaultInit ==
  /\ frozen \in FrozenSets
  /\ claims = <<>>
  /\ \/ /\ deployed = FALSE /\ inflow = 0 /\ vault = 0
        /\ paid = [s \in Seats |-> 0]
        /\ got = [a \in Accounts |-> 0]
        /\ host = HostNew
        /\ mark = FreshMark
     \/ \E r \in Legacy : \E at \in [Seats -> {0, r}] :
          /\ deployed = TRUE /\ inflow = r
          /\ paid = [s \in Seats |-> (at[s] * RawBp(s)) \div BpDenom]
          /\ vault = r - SumOver(paid, Seats)
          /\ got = [a \in Accounts |-> SumOver(paid, {s \in Seats : SeatDest(s) = a})]
          /\ host = HostDistribute(HostNew, r)
          /\ mark = LegacyMark(r)

-----------------------------------------------------------------------------
(* Properties *)

\* split_claim: all seats can be paid what they are owed, in any order and with any of
\* them frozen, also out of a record of the earlier layout, and the contract's estimate
\* of the receipts, vault plus all paid, is what was really received; and contract and
\* host agree: an account none of whose seats is owed anything holds exactly what the
\* host paid it, whenever the claims were made, provided nothing was paid before the
\* deployment.
SplitCovered ==
  /\ TotalReceived = inflow
  /\ vault + SumOver(got, Accounts) = inflow
  /\ SumOver([s \in Drawing |-> Owed(s)], Drawing) <= vault
  /\ host.received = inflow =>
       \A a \in Accounts :
         (\A s \in Drawing : SeatDest(s) = a => Owed(s) = 0) => got[a] = host.ledger[a]

\* advance_channel_meed: no record, of either layout, refuses an advance past its
\* watermark, and what it carries as residue is less than a unit per destination once
\* it has advanced; so is the residue of a claim-record.
WatermarkNeverSticks ==
  /\ \A ahead \in 1 .. BpDenom : Grows(mark.funded + ahead)
  /\ mark.paid = DueAt(mark.funded) => mark.residue \in 0 .. (Cardinality(Drawing) - 2)
  /\ mark.residue = mark.funded - SumOver(mark.paid, Roles)
  /\ \A p \in DOMAIN claims :
       /\ claims[p].residue \in 0 .. (Cardinality(Drawing) - 2)
       /\ claims[p].residue = p - SumOver(claims[p].shares, Roles)
=============================================================================
