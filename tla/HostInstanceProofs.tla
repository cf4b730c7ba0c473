------------------------- MODULE HostInstanceProofs -------------------------
(***************************************************************************)
(* Proofs about HostInstance, for any entries, claim-records, channels,    *)
(* releases, roles, weights and destinations: no value is lost or made,    *)
(* and a draw or release that was made is never refused when repeated.     *)
(*                                                                         *)
(* The invariant ties every payout to its running total: the pool and each *)
(* watermark have paid exactly the entitlement over all they received, so  *)
(* a step moves the difference of two entitlements and the dust stays what *)
(* one division leaves.                                                    *)
(***************************************************************************)
EXTENDS HostInstance, SumsProofs, TLAPS

Records == [state : States, openedAt : Nat]
Entitled(t) == [d \in Dests |-> Entitlement(d, t)]
Given(t) == SumOver(Entitled(t), Dests)

Types ==
  /\ now \in Nat
  /\ Funded \subseteq Ids /\ entry \in [Funded -> Records]
  /\ \A i \in Funded : Amount[i] > 0
  /\ claims \subseteq Claims /\ keys \subseteq DOMAIN Release
  /\ received \in Nat /\ funded \in [Channels -> Nat]
  /\ ledger \in [Dests -> Int] /\ float \in Int /\ fresh \in Int

\* What has been paid is the entitlement over what has been received.
PaidUp ==
  /\ paid = Entitled(received)
  /\ chanPaid = [c \in Channels |-> Entitled(funded[c])]
  /\ residue = [c \in Channels |-> funded[c] - Given(funded[c])]

\* A refund is made by the transition that ends the entry.
RefundOf(i) == IF In(i, {"cancelled", "reclaimed"}) THEN Amount[i] ELSE 0
RefundsMade == refunds = [i \in Ids |-> RefundOf(i)]

\* The places value can be in.
Brought == SumOver(Amount, Funded)
OpenIds == {i \in Ids : In(i, {"funded", "reclaimOpen"})}
InEntries == SumOver(Amount, OpenIds)
Refunded == SumOver(refunds, Ids)
AtDests == SumOver(ledger, Dests)
Dust == received - Given(received)
Carried == SumOver(residue, Channels)
Released == SumOver(Release, keys)

Conserved ==
  Brought + fresh = InEntries + Refunded + AtDests + Dust + Carried + float + Released

Answers == {"none", "outage", "alreadyFunded", "same"}

HInv == Types /\ PaidUp /\ RefundsMade /\ Conserved /\ retry \in Answers

-----------------------------------------------------------------------------
(* The division. *)

(* What t entitles the destinations to: at most t, and less than a unit per *)
(* destination short of it.                                                *)
LEMMA EntitledFit ==
  ASSUME NEW t \in Nat
  PROVE  /\ IsFiniteSet(Dests) /\ Cardinality(Dests) \in Nat
         /\ Entitled(t) \in [Dests -> Nat]
         /\ Given(t) \in Nat
         /\ Given(t) <= t /\ t - Given(t) < Cardinality(Dests)
<1> DEFINE bp == [d \in Dests |-> BpOf(d)]
<1>1. GroupSums(bp, Weight, Roles, DestOf, Dests)
  BY DEF BpOf, Group, GroupSums
<1>2. Shares(Entitled(t), t, bp, SumOver(Weight, Roles), Dests)
  BY DEF Entitled, Entitlement, BpTotal, Shares
<1>3. Dests = {DestOf[r] : r \in Roles}
  BY DEF Dests
<1>4. IsFiniteSet(Roles) /\ Weight \in [Roles -> Nat] /\ Positive(Weight, Roles)
  BY MeedAssumption DEF Positive
<1> HIDE DEF bp
<1>5. /\ IsFiniteSet(Dests) /\ Cardinality(Dests) \in Nat
      /\ \A d \in Dests : Entitled(t)[d] \in Nat
      /\ SumOver(Entitled(t), Dests) \in Nat
      /\ SumOver(Entitled(t), Dests) <= t
      /\ t - SumOver(Entitled(t), Dests) < Cardinality(Dests)
  BY <1>1, <1>2, <1>3, <1>4, DividedByDest
<1>6. Entitled(t) \in [Dests -> Nat]
  BY <1>5 DEF Entitled
<1> QED
  BY <1>5, <1>6 DEF Given

(* A watermark that moves on owes no destination less. *)
LEMMA EntitledGrows ==
  ASSUME NEW s \in Nat, NEW t \in Nat, s <= t, NEW d \in Dests
  PROVE  Entitlement(d, s) <= Entitlement(d, t)
<1> DEFINE bp == [e \in Dests |-> BpOf(e)]
<1>1. GroupSums(bp, Weight, Roles, DestOf, Dests)
  BY DEF BpOf, Group, GroupSums
<1>2. Shares(Entitled(t), t, bp, SumOver(Weight, Roles), Dests)
  BY DEF Entitled, Entitlement, BpTotal, Shares
<1>3. Dests = {DestOf[r] : r \in Roles}
  BY DEF Dests
<1>4. IsFiniteSet(Roles) /\ Weight \in [Roles -> Nat] /\ Positive(Weight, Roles)
  BY MeedAssumption DEF Positive
<1>5. bp[d] = BpOf(d)
  OBVIOUS
<1> HIDE DEF bp
<1>6. BpTotal \in Nat \ {0} /\ bp[d] \in Nat
  BY <1>1, <1>2, <1>3, <1>4, DividedByDest DEF BpTotal
<1> QED
  BY <1>5, <1>6, ShareMonotone DEF Entitlement

(* The parts of the balance are integers. *)
LEMMA PartTypes ==
  ASSUME Types, PaidUp, RefundsMade
  PROVE  /\ Brought \in Int /\ InEntries \in Int /\ Refunded \in Int /\ AtDests \in Int
         /\ Dust \in Int /\ Carried \in Int /\ Released \in Int /\ fresh \in Int /\ float \in Int
<1>1. IsFiniteSet(Funded) /\ IsFiniteSet(OpenIds) /\ IsFiniteSet(keys)
  <2>1. OpenIds \in SUBSET Ids /\ Funded \in SUBSET Ids /\ keys \in SUBSET (DOMAIN Release)
    BY DEF OpenIds, Types
  <2> QED BY <2>1, FiniteAssumption, FS_Subset
<1>2. IntOn(Amount, Funded) /\ IntOn(Amount, OpenIds) /\ IntOn(Release, keys)
  BY EntryAssumption, FloatAssumption DEF IntOn, Types, OpenIds
<1>3. IntOn(refunds, Ids)
  BY EntryAssumption DEF IntOn, RefundsMade, RefundOf
<1>4. IsFiniteSet(Dests) /\ Given(received) \in Nat
  BY EntitledFit DEF Types
<1>5. IntOn(ledger, Dests)
  BY DEF Types, IntOn
<1>6. IntOn(residue, Channels)
  BY EntitledFit DEF IntOn, PaidUp, Types
<1>7. IsFiniteSet(Ids) /\ IsFiniteSet(Channels)
  BY FiniteAssumption
<1>8. Dust \in Int
  BY <1>4 DEF Dust, Types
<1> QED
  BY <1>1, <1>2, <1>3, <1>4, <1>5, <1>6, <1>7, <1>8, SumType
     DEF Brought, InEntries, Refunded, AtDests, Carried, Released, Types

(* The same after a step. *)
LEMMA PartTypesNext ==
  ASSUME Types', PaidUp', RefundsMade'
  PROVE  /\ AtDests' \in Int /\ Dust' \in Int /\ Carried' \in Int
<1>1. /\ IsFiniteSet(Dests) /\ Given(received') \in Nat /\ received' \in Nat
  BY EntitledFit DEF Types
<1>2. IntOn(ledger', Dests)
  BY DEF Types, IntOn
<1>3. IntOn(residue', Channels)
  BY EntitledFit DEF IntOn, PaidUp, Types, Given, Entitled
<1>4. IsFiniteSet(Channels)
  BY FiniteAssumption
<1>5. Dust' = received' - Given(received')
  BY DEF Dust, Given, Entitled
<1> QED
  BY <1>1, <1>2, <1>3, <1>4, <1>5, SumType DEF AtDests, Carried

(* Paying each destination a difference moves the difference of the sums. *)
LEMMA LedgerMoves ==
  ASSUME IsFiniteSet(Dests), NEW l \in [Dests -> Int], NEW a \in [Dests -> Nat],
         NEW b \in [Dests -> Nat], NEW m, m = [d \in Dests |-> l[d] + a[d] - b[d]]
  PROVE  /\ m \in [Dests -> Int]
         /\ SumOver(m, Dests) = SumOver(l, Dests) + SumOver(a, Dests) - SumOver(b, Dests)
<1> DEFINE h == [d \in Dests |-> l[d] + a[d]]
<1>1. IntOn(l, Dests) /\ IntOn(a, Dests) /\ IntOn(b, Dests) /\ IntOn(m, Dests)
  BY DEF IntOn
<1>2. SumsOn(h, l, a, Dests) /\ SumsOn(h, m, b, Dests)
  BY DEF SumsOn
<1> HIDE DEF h
<1>3. /\ SumOver(h, Dests) = SumOver(l, Dests) + SumOver(a, Dests)
      /\ SumOver(h, Dests) = SumOver(m, Dests) + SumOver(b, Dests)
  BY <1>1, <1>2, SumAdd
<1>4. /\ SumOver(l, Dests) \in Int /\ SumOver(a, Dests) \in Int
      /\ SumOver(m, Dests) \in Int /\ SumOver(b, Dests) \in Int
  BY <1>1, SumType
<1>5. m \in [Dests -> Int]
  OBVIOUS
<1>6. SumOver(m, Dests) = SumOver(l, Dests) + SumOver(a, Dests) - SumOver(b, Dests)
  BY <1>3, <1>4
<1> QED
  BY <1>5, <1>6

(* What Distribute(a) pays out and what it adds to the dust is a. *)
LEMMA PoolGrows ==
  ASSUME HInv, NEW a \in Nat, Distribute(a)
  PROVE  /\ received' \in Nat /\ paid' = Entitled(received')
         /\ ledger' \in [Dests -> Int]
         /\ AtDests' + Dust' = AtDests + Dust + a
<1>1. /\ received \in Nat /\ paid = Entitled(received) /\ ledger \in [Dests -> Int]
  BY DEF HInv, Types, PaidUp
<1>2. /\ received' = received + a /\ received' \in Nat
      /\ paid' = Entitled(received')
      /\ ledger' = [d \in Dests |-> ledger[d] + Entitled(received')[d] - paid[d]]
  BY <1>1 DEF Distribute, Entitled
<1>3. /\ IsFiniteSet(Dests) /\ Entitled(received') \in [Dests -> Nat]
      /\ paid \in [Dests -> Nat] /\ Given(received') \in Nat /\ Given(received) \in Nat
  BY <1>1, <1>2, EntitledFit
<1>4. /\ ledger' \in [Dests -> Int]
      /\ AtDests' = AtDests + Given(received') - Given(received)
  BY <1>1, <1>2, <1>3, LedgerMoves DEF AtDests, Given
<1>5. AtDests \in Int
  BY PartTypes DEF HInv
<1>6. Dust' = received' - Given(received') /\ Dust = received - Given(received)
  BY DEF Dust, Given, Entitled, Entitlement
<1> QED
  BY <1>1, <1>2, <1>3, <1>4, <1>5, <1>6

(* What a change of one open entry does to the entries. *)
LEMMA EntryMoves ==
  ASSUME HInv, NEW i \in Ids, In(i, {"funded", "reclaimOpen"}), NEW r \in Records,
         entry' = [entry EXCEPT ![i] = r]
  PROVE  /\ Funded' = Funded /\ entry' \in [Funded -> Records] /\ Brought' = Brought
         /\ \A k \in Ids : k # i => RefundOf(k)' = RefundOf(k)
         /\ RefundOf(i) = 0
         /\ RefundOf(i)' = IF r.state \in {"cancelled", "reclaimed"} THEN Amount[i] ELSE 0
         /\ InEntries' = IF r.state \in {"funded", "reclaimOpen"} THEN InEntries
                         ELSE InEntries - Amount[i]
<1>1. i \in Funded /\ entry[i].state \in {"funded", "reclaimOpen"}
  BY DEF In
<1>2. entry \in [Funded -> Records] /\ Funded \subseteq Ids
  BY DEF HInv, Types
<1>3. /\ Funded' = Funded /\ entry' \in [Funded -> Records] /\ entry'[i] = r
      /\ \A k \in Funded : k # i => entry'[k] = entry[k]
  BY <1>1, <1>2 DEF Funded
<1>4. Brought' = Brought
  BY <1>3 DEF Brought
<1>5. \A k \in Ids : k # i => RefundOf(k)' = RefundOf(k)
  BY <1>3 DEF RefundOf, In
<1>6. /\ RefundOf(i) = 0
      /\ RefundOf(i)' = IF r.state \in {"cancelled", "reclaimed"} THEN Amount[i] ELSE 0
  BY <1>1, <1>3 DEF RefundOf, In
<1>7. OpenIds' = IF r.state \in {"funded", "reclaimOpen"} THEN OpenIds ELSE OpenIds \ {i}
  <2>1. \A k \in Ids : k # i => (k \in OpenIds' <=> k \in OpenIds)
    BY <1>3 DEF OpenIds, In
  <2>2. i \in OpenIds' <=> r.state \in {"funded", "reclaimOpen"}
    BY <1>1, <1>3 DEF OpenIds, In
  <2>3. i \in OpenIds /\ OpenIds \subseteq Ids /\ OpenIds' \subseteq Ids
    BY DEF OpenIds
  <2> QED BY <2>1, <2>2, <2>3
<1>8. i \in OpenIds /\ IsFiniteSet(OpenIds) /\ IntOn(Amount, OpenIds)
  BY EntryAssumption, FiniteAssumption, FS_Subset DEF OpenIds, IntOn
<1>9. SumOver(Amount, OpenIds) = Amount[i] + SumOver(Amount, OpenIds \ {i})
  BY <1>8, SumRemove
<1>10. /\ SumOver(Amount, OpenIds) \in Int /\ Amount[i] \in Nat
       /\ SumOver(Amount, OpenIds \ {i}) \in Int
  <2>1. IsFiniteSet(OpenIds \ {i}) /\ IntOn(Amount, OpenIds \ {i})
    BY <1>8, FS_RemoveElement DEF IntOn
  <2> QED BY <1>8, <2>1, SumType, EntryAssumption
<1>11. InEntries' = IF r.state \in {"funded", "reclaimOpen"} THEN InEntries
                    ELSE InEntries - Amount[i]
  BY <1>7, <1>9, <1>10 DEF InEntries
<1> QED
  BY <1>3, <1>4, <1>5, <1>6, <1>11

(* A step that leaves the entries alone. *)
LEMMA EntriesStay ==
  ASSUME entry' = entry
  PROVE  /\ Funded' = Funded /\ Brought' = Brought /\ InEntries' = InEntries
         /\ \A k \in Ids : RefundOf(k)' = RefundOf(k)
<1>1. Funded' = Funded
  BY DEF Funded
<1>2. OpenIds' = OpenIds /\ \A k \in Ids : RefundOf(k)' = RefundOf(k)
  BY <1>1 DEF OpenIds, RefundOf, In
<1> QED
  BY <1>1, <1>2 DEF Brought, InEntries

(* Steps that move no value. *)
LEMMA QuietHInv ==
  ASSUME HInv, now' \in Nat, retry' \in Answers,
         UNCHANGED <<entry, pool, marks, ledger, refunds, account>>
  PROVE  HInv'
<1>1. /\ entry' = entry /\ claims' = claims /\ received' = received /\ paid' = paid
      /\ funded' = funded /\ chanPaid' = chanPaid /\ residue' = residue /\ ledger' = ledger
      /\ refunds' = refunds /\ float' = float /\ keys' = keys /\ fresh' = fresh
  BY DEF pool, marks, account
<1>2. /\ Funded' = Funded /\ Brought' = Brought /\ InEntries' = InEntries
      /\ \A k \in Ids : RefundOf(k)' = RefundOf(k)
  BY <1>1, EntriesStay
<1>3. Types'
  BY <1>1, <1>2 DEF HInv, Types
<1>4. PaidUp'
  BY <1>1 DEF HInv, PaidUp, Entitled, Given
<1>5. RefundsMade'
  BY <1>1, <1>2 DEF HInv, RefundsMade
<1>6. /\ Refunded' = Refunded /\ AtDests' = AtDests /\ Dust' = Dust /\ Carried' = Carried
      /\ Released' = Released
  BY <1>1 DEF Refunded, AtDests, Dust, Carried, Released, Given, Entitled
<1>7. Conserved'
  BY <1>1, <1>2, <1>6 DEF HInv, Conserved
<1> QED
  BY <1>3, <1>4, <1>5, <1>7 DEF HInv

(* fund_entry brings an amount and holds it. *)
LEMMA FundEntryHInv == ASSUME HInv, NEW i \in Ids, FundEntry(i) PROVE HInv'
<1>1. /\ i \notin Funded /\ Amount[i] > 0
      /\ entry' = [k \in Funded \cup {i} |->
                     IF k = i THEN [state |-> "funded", openedAt |-> 0] ELSE entry[k]]
      /\ now' = now /\ claims' = claims /\ received' = received /\ paid' = paid
      /\ funded' = funded /\ chanPaid' = chanPaid /\ residue' = residue /\ ledger' = ledger
      /\ refunds' = refunds /\ float' = float /\ keys' = keys /\ fresh' = fresh
      /\ retry' = retry
  BY DEF FundEntry, Fundable, pool, marks, account, link
<1>2. [state |-> "funded", openedAt |-> 0] \in Records
  BY DEF Records, States
<1>3. /\ Funded' = Funded \cup {i} /\ entry' \in [Funded' -> Records]
      /\ entry'[i].state = "funded" /\ \A k \in Funded : entry'[k] = entry[k]
  BY <1>1, <1>2 DEF HInv, Types, Funded
<1>4. \A k \in Ids : RefundOf(k)' = RefundOf(k)
  BY <1>1, <1>3 DEF RefundOf, In
<1>5. Types'
  BY <1>1, <1>3 DEF HInv, Types
<1>6. PaidUp'
  BY <1>1 DEF HInv, PaidUp, Entitled, Given
<1>7. RefundsMade'
  BY <1>1, <1>4 DEF HInv, RefundsMade
<1>8. OpenIds' = OpenIds \cup {i} /\ i \notin OpenIds
  BY <1>1, <1>3 DEF OpenIds, In
<1>9. /\ Brought' = Amount[i] + Brought /\ InEntries' = Amount[i] + InEntries
  <2>1. OpenIds \in SUBSET Ids /\ Funded \in SUBSET Ids
    BY DEF OpenIds, HInv, Types
  <2>2. IsFiniteSet(Funded) /\ IsFiniteSet(OpenIds)
    BY <2>1, FiniteAssumption, FS_Subset
  <2>3. IntOn(Amount, Funded \cup {i}) /\ IntOn(Amount, OpenIds \cup {i})
    BY <2>1, EntryAssumption DEF IntOn
  <2> QED
    BY <1>1, <1>3, <1>8, <2>2, <2>3, SumInsert DEF Brought, InEntries
<1>10. /\ Refunded' = Refunded /\ AtDests' = AtDests /\ Dust' = Dust /\ Carried' = Carried
       /\ Released' = Released
  BY <1>1 DEF Refunded, AtDests, Dust, Carried, Released, Given, Entitled
<1>11. Conserved'
  <2>1. Amount[i] \in Nat
    BY EntryAssumption
  <2>2. /\ Brought \in Int /\ InEntries \in Int /\ Refunded \in Int /\ AtDests \in Int
        /\ Dust \in Int /\ Carried \in Int /\ Released \in Int /\ fresh \in Int /\ float \in Int
    BY PartTypes DEF HInv
  <2>3. Brought + fresh = InEntries + Refunded + AtDests + Dust + Carried + float + Released
    BY DEF HInv, Conserved
  <2>4. Amount[i] + Brought + fresh
          = (Amount[i] + InEntries) + Refunded + AtDests + Dust + Carried + float + Released
    BY <2>1, <2>2, <2>3
  <2> QED BY <1>1, <1>9, <1>10, <2>4 DEF Conserved
<1> QED
  BY <1>1, <1>5, <1>6, <1>7, <1>11 DEF HInv

(* A new state of an open entry. *)
LEMMA NewState ==
  ASSUME HInv, NEW i \in Ids, In(i, {"funded", "reclaimOpen"}), NEW s \in States,
         entry' = [entry EXCEPT ![i].state = s]
  PROVE  \E r \in Records : r.state = s /\ entry' = [entry EXCEPT ![i] = r]
<1>1. entry \in [Funded -> Records] /\ i \in Funded /\ entry[i] \in Records
  BY DEF HInv, Types, In
<1>2. [entry[i] EXCEPT !.state = s] \in Records /\ [entry[i] EXCEPT !.state = s].state = s
  BY <1>1 DEF Records
<1>3. entry' = [entry EXCEPT ![i] = [entry[i] EXCEPT !.state = s]]
  BY <1>1
<1> QED
  BY <1>2, <1>3

(* attest and claim_lapsed move an entry into the pool. *)
LEMMA DeliverHInv ==
  ASSUME HInv, NEW i \in Ids, In(i, {"funded", "reclaimOpen"}),
         NEW s \in {"attested", "lapsed"}, Deliver(i, s)
  PROVE  HInv'
<1>1. /\ entry' = [entry EXCEPT ![i].state = s] /\ Distribute(Amount[i])
      /\ now' = now /\ claims' = claims
      /\ funded' = funded /\ chanPaid' = chanPaid /\ residue' = residue
      /\ refunds' = refunds /\ float' = float /\ keys' = keys /\ fresh' = fresh
      /\ retry' = retry
  BY DEF Deliver, marks, account, link
<1>2. PICK r \in Records : r.state = s /\ entry' = [entry EXCEPT ![i] = r]
  <2>1. s \in States
    BY DEF States
  <2> QED BY <1>1, <2>1, NewState
<1>3. /\ Funded' = Funded /\ entry' \in [Funded -> Records] /\ Brought' = Brought
      /\ \A k \in Ids : k # i => RefundOf(k)' = RefundOf(k)
      /\ RefundOf(i)' = RefundOf(i)
      /\ InEntries' = InEntries - Amount[i]
  BY <1>2, EntryMoves
<1>4. Amount[i] \in Nat
  BY EntryAssumption
<1>5. /\ received' \in Nat /\ paid' = Entitled(received')
      /\ ledger' \in [Dests -> Int]
      /\ AtDests' + Dust' = AtDests + Dust + Amount[i]
  BY <1>1, <1>4, PoolGrows
<1>6. Types'
  BY <1>1, <1>3, <1>5 DEF HInv, Types
<1>7. PaidUp'
  BY <1>1, <1>5 DEF HInv, PaidUp, Entitled, Given
<1>8. RefundsMade'
  BY <1>1, <1>3 DEF HInv, RefundsMade
<1>9. /\ Refunded' = Refunded /\ Carried' = Carried /\ Released' = Released
  BY <1>1 DEF Refunded, Carried, Released
<1>10. Conserved'
  <2>1. /\ Brought \in Int /\ InEntries \in Int /\ Refunded \in Int /\ AtDests \in Int
        /\ Dust \in Int /\ Carried \in Int /\ Released \in Int /\ fresh \in Int /\ float \in Int
    BY PartTypes DEF HInv
  <2>2. AtDests' \in Int /\ Dust' \in Int
    BY <1>6, <1>7, <1>8, PartTypesNext
  <2> QED BY <1>1, <1>3, <1>4, <1>5, <1>9, <2>1, <2>2 DEF HInv, Conserved
<1> QED
  BY <1>1, <1>6, <1>7, <1>8, <1>10 DEF HInv

(* cancel and execute_reclaim move an entry to its refund account. *)
LEMMA GiveBackHInv ==
  ASSUME HInv, NEW i \in Ids, In(i, {"funded", "reclaimOpen"}),
         NEW s \in {"cancelled", "reclaimed"}, GiveBack(i, s)
  PROVE  HInv'
<1>1. /\ entry' = [entry EXCEPT ![i].state = s]
      /\ refunds' = [refunds EXCEPT ![i] = @ + Amount[i]]
      /\ now' = now /\ claims' = claims /\ received' = received /\ paid' = paid
      /\ funded' = funded /\ chanPaid' = chanPaid /\ residue' = residue /\ ledger' = ledger
      /\ float' = float /\ keys' = keys /\ fresh' = fresh
      /\ retry' = retry
  BY DEF GiveBack, pool, marks, account, link
<1>2. PICK r \in Records : r.state = s /\ entry' = [entry EXCEPT ![i] = r]
  <2>1. s \in States
    BY DEF States
  <2> QED BY <1>1, <2>1, NewState
<1>3. /\ Funded' = Funded /\ entry' \in [Funded -> Records] /\ Brought' = Brought
      /\ \A k \in Ids : k # i => RefundOf(k)' = RefundOf(k)
      /\ RefundOf(i) = 0 /\ RefundOf(i)' = Amount[i]
      /\ InEntries' = InEntries - Amount[i]
  BY <1>2, EntryMoves
<1>4. Amount[i] \in Nat /\ refunds = [k \in Ids |-> RefundOf(k)] /\ IsFiniteSet(Ids)
  BY EntryAssumption, FiniteAssumption DEF HInv, RefundsMade
<1>5. refunds' = [k \in Ids |-> RefundOf(k)'] /\ refunds'[i] = Amount[i] /\ refunds[i] = 0
  BY <1>1, <1>3, <1>4
<1>6. Types'
  BY <1>1, <1>3 DEF HInv, Types
<1>7. PaidUp'
  BY <1>1 DEF HInv, PaidUp, Entitled, Given
<1>8. RefundsMade'
  BY <1>5 DEF RefundsMade
<1>9. Refunded' = Refunded + Amount[i] /\ Refunded \in Int
  <2>1. IntOn(refunds, Ids) /\ IntOn(refunds', Ids)
    BY <1>3, <1>4, <1>5, EntryAssumption DEF IntOn, RefundOf
  <2>2. SameOn(refunds, refunds', Ids \ {i})
    BY <1>3, <1>4, <1>5 DEF SameOn
  <2>3. SumOver(refunds', Ids) = SumOver(refunds, Ids) - refunds[i] + refunds'[i]
    BY <1>4, <2>1, <2>2, SumUpdate
  <2>4. SumOver(refunds, Ids) \in Int
    BY <1>4, <2>1, SumType
  <2> QED BY <1>4, <1>5, <2>3, <2>4 DEF Refunded
<1>10. /\ AtDests' = AtDests /\ Dust' = Dust /\ Carried' = Carried /\ Released' = Released
  BY <1>1 DEF AtDests, Dust, Carried, Released, Given, Entitled
<1>11. Conserved'
  <2>1. /\ Brought \in Int /\ InEntries \in Int /\ Refunded \in Int /\ AtDests \in Int
        /\ Dust \in Int /\ Carried \in Int /\ Released \in Int /\ fresh \in Int /\ float \in Int
    BY PartTypes DEF HInv
  <2> QED BY <1>1, <1>3, <1>4, <1>9, <1>10, <2>1 DEF HInv, Conserved
<1> QED
  BY <1>1, <1>6, <1>7, <1>8, <1>11 DEF HInv

(* open_reclaim moves nothing. *)
LEMMA OpenReclaimHInv == ASSUME HInv, NEW i \in Ids, OpenReclaim(i) PROVE HInv'
<1>1. /\ In(i, {"funded", "reclaimOpen"})
      /\ entry' = [entry EXCEPT ![i].state = "reclaimOpen", ![i].openedAt = now]
      /\ now' = now /\ claims' = claims /\ received' = received /\ paid' = paid
      /\ funded' = funded /\ chanPaid' = chanPaid /\ residue' = residue /\ ledger' = ledger
      /\ refunds' = refunds /\ float' = float /\ keys' = keys /\ fresh' = fresh
      /\ retry' = retry
  BY DEF OpenReclaim, InReclaimWindow, In, pool, marks, account, link
<1> DEFINE r == [entry[i] EXCEPT !.state = "reclaimOpen", !.openedAt = now]
<1>2. entry \in [Funded -> Records] /\ i \in Funded /\ entry[i] \in Records /\ now \in Nat
  BY <1>1 DEF HInv, Types, In
<1>3. r \in Records /\ r.state = "reclaimOpen"
  BY <1>2 DEF Records, States
<1>4. entry' = [entry EXCEPT ![i] = r]
  BY <1>1, <1>2
<1> HIDE DEF r
<1>5. /\ Funded' = Funded /\ entry' \in [Funded -> Records] /\ Brought' = Brought
      /\ \A k \in Ids : k # i => RefundOf(k)' = RefundOf(k)
      /\ RefundOf(i)' = RefundOf(i)
      /\ InEntries' = InEntries
  BY <1>1, <1>3, <1>4, EntryMoves
<1>6. Types'
  BY <1>1, <1>5 DEF HInv, Types
<1>7. PaidUp'
  BY <1>1 DEF HInv, PaidUp, Entitled, Given
<1>8. RefundsMade'
  BY <1>1, <1>5 DEF HInv, RefundsMade
<1>9. /\ Refunded' = Refunded /\ AtDests' = AtDests /\ Dust' = Dust /\ Carried' = Carried
      /\ Released' = Released
  BY <1>1 DEF Refunded, AtDests, Dust, Carried, Released, Given, Entitled
<1>10. Conserved'
  BY <1>1, <1>5, <1>9 DEF HInv, Conserved
<1> QED
  BY <1>1, <1>6, <1>7, <1>8, <1>10 DEF HInv

(* What Pay takes from the float it need not bring. *)
LEMMA PaySource ==
  ASSUME HInv, NEW a \in Int, NEW drawn \in BOOLEAN, Pay(a, drawn)
  PROVE  /\ float' \in Int /\ fresh' \in Int
         /\ fresh' - float' = fresh - float + a
<1>1. float \in Int /\ fresh \in Int
  BY DEF HInv, Types
<1>2. CASE drawn
  BY <1>1, <1>2 DEF Pay
<1>3. CASE ~drawn
  BY <1>1, <1>3 DEF Pay
<1> QED
  BY <1>2, <1>3

(* fund_claim_record and draw_claim_record. *)
LEMMA FundClaimRecordHInv ==
  ASSUME HInv, NEW k \in Claims, NEW drawn \in BOOLEAN, FundClaimRecord(k, drawn)
  PROVE  HInv'
<1>1. /\ Distribute(ClaimP[k]) /\ Pay(ClaimP[k], drawn) /\ claims' = claims \cup {k}
      /\ now' = now /\ entry' = entry
      /\ funded' = funded /\ chanPaid' = chanPaid /\ residue' = residue
      /\ refunds' = refunds /\ keys' = keys /\ retry' = retry
  BY DEF FundClaimRecord, marks, link
<1>2. ClaimP[k] \in Nat
  BY ClaimAssumption
<1>3. /\ received' \in Nat /\ paid' = Entitled(received')
      /\ ledger' \in [Dests -> Int]
      /\ AtDests' + Dust' = AtDests + Dust + ClaimP[k]
  BY <1>1, <1>2, PoolGrows
<1>4. float' \in Int /\ fresh' \in Int /\ fresh' - float' = fresh - float + ClaimP[k]
  BY <1>1, <1>2, PaySource
<1>5. /\ Funded' = Funded /\ Brought' = Brought /\ InEntries' = InEntries
      /\ \A j \in Ids : RefundOf(j)' = RefundOf(j)
  BY <1>1, EntriesStay
<1>6. Types'
  BY <1>1, <1>3, <1>4, <1>5 DEF HInv, Types
<1>7. PaidUp'
  BY <1>1, <1>3 DEF HInv, PaidUp, Entitled, Given
<1>8. RefundsMade'
  BY <1>1, <1>5 DEF HInv, RefundsMade
<1>9. /\ Refunded' = Refunded /\ Carried' = Carried /\ Released' = Released
  BY <1>1 DEF Refunded, Carried, Released
<1>10. Conserved'
  <2>1. /\ Brought \in Int /\ InEntries \in Int /\ Refunded \in Int /\ AtDests \in Int
        /\ Dust \in Int /\ Carried \in Int /\ Released \in Int /\ fresh \in Int /\ float \in Int
    BY PartTypes DEF HInv
  <2>2. AtDests' \in Int /\ Dust' \in Int
    BY <1>6, <1>7, <1>8, PartTypesNext
  <2>3. Brought + fresh = InEntries + Refunded + AtDests + Dust + Carried + float + Released
    BY DEF HInv, Conserved
  <2>4. Brought + fresh'
          = InEntries + Refunded + AtDests' + Dust' + Carried + float' + Released
    BY <1>2, <1>3, <1>4, <2>1, <2>2, <2>3
  <2> QED BY <1>5, <1>9, <2>4 DEF Conserved
<1> QED
  BY <1>1, <1>6, <1>7, <1>8, <1>10 DEF HInv

(* A deposit on the float. *)
LEMMA DepositHInv == ASSUME HInv, Deposit PROVE HInv'
<1>1. /\ float' = float + 1 /\ fresh' = fresh + 1 /\ keys' = keys
      /\ now' = now /\ entry' = entry /\ claims' = claims /\ received' = received /\ paid' = paid
      /\ funded' = funded /\ chanPaid' = chanPaid /\ residue' = residue /\ ledger' = ledger
      /\ refunds' = refunds /\ retry' = retry
  BY DEF Deposit, pool, marks, link
<1>2. /\ Funded' = Funded /\ Brought' = Brought /\ InEntries' = InEntries
      /\ \A j \in Ids : RefundOf(j)' = RefundOf(j)
  BY <1>1, EntriesStay
<1>3. Types'
  BY <1>1, <1>2 DEF HInv, Types
<1>4. PaidUp'
  BY <1>1 DEF HInv, PaidUp, Entitled, Given
<1>5. RefundsMade'
  BY <1>1, <1>2 DEF HInv, RefundsMade
<1>6. /\ Refunded' = Refunded /\ AtDests' = AtDests /\ Dust' = Dust /\ Carried' = Carried
      /\ Released' = Released
  BY <1>1 DEF Refunded, AtDests, Dust, Carried, Released, Given, Entitled
<1>7. Conserved'
  <2>1. /\ Brought \in Int /\ InEntries \in Int /\ Refunded \in Int /\ AtDests \in Int
        /\ Dust \in Int /\ Carried \in Int /\ Released \in Int /\ fresh \in Int /\ float \in Int
    BY PartTypes DEF HInv
  <2>2. Brought + fresh = InEntries + Refunded + AtDests + Dust + Carried + float + Released
    BY DEF HInv, Conserved
  <2>3. Brought + (fresh + 1)
          = InEntries + Refunded + AtDests + Dust + Carried + (float + 1) + Released
    BY <2>1, <2>2
  <2> QED BY <1>1, <1>2, <1>6, <2>3 DEF Conserved
<1> QED
  BY <1>1, <1>3, <1>4, <1>5, <1>7 DEF HInv

(* release_keyed: a key is released once. *)
LEMMA ReleaseKeyedHInv == ASSUME HInv, NEW k \in DOMAIN Release, ReleaseKeyed(k) PROVE HInv'
<1>1. /\ k \notin keys /\ float' = float - Release[k] /\ keys' = keys \cup {k} /\ fresh' = fresh
      /\ now' = now /\ entry' = entry /\ claims' = claims /\ received' = received /\ paid' = paid
      /\ funded' = funded /\ chanPaid' = chanPaid /\ residue' = residue /\ ledger' = ledger
      /\ refunds' = refunds /\ retry' = retry
  BY DEF ReleaseKeyed, ReleaseOutcome, pool, marks, link
<1>2. /\ Funded' = Funded /\ Brought' = Brought /\ InEntries' = InEntries
      /\ \A j \in Ids : RefundOf(j)' = RefundOf(j)
  BY <1>1, EntriesStay
<1>3. Release[k] \in Nat /\ keys \subseteq DOMAIN Release
  BY FloatAssumption DEF HInv, Types
<1>4. Types'
  BY <1>1, <1>2, <1>3 DEF HInv, Types
<1>5. PaidUp'
  BY <1>1 DEF HInv, PaidUp, Entitled, Given
<1>6. RefundsMade'
  BY <1>1, <1>2 DEF HInv, RefundsMade
<1>7. /\ Refunded' = Refunded /\ AtDests' = AtDests /\ Dust' = Dust /\ Carried' = Carried
  BY <1>1 DEF Refunded, AtDests, Dust, Carried, Given, Entitled
<1>8. Released' = Release[k] + Released
  <2>1. IsFiniteSet(keys) /\ IntOn(Release, keys \cup {k})
    BY <1>3, FiniteAssumption, FloatAssumption, FS_Subset DEF IntOn
  <2> QED BY <1>1, <2>1, SumInsert DEF Released
<1>9. Conserved'
  <2>1. /\ Brought \in Int /\ InEntries \in Int /\ Refunded \in Int /\ AtDests \in Int
        /\ Dust \in Int /\ Carried \in Int /\ Released \in Int /\ fresh \in Int /\ float \in Int
    BY PartTypes DEF HInv
  <2>2. Brought + fresh = InEntries + Refunded + AtDests + Dust + Carried + float + Released
    BY DEF HInv, Conserved
  <2>3. Brought + fresh = InEntries + Refunded + AtDests + Dust + Carried
                          + (float - Release[k]) + (Release[k] + Released)
    BY <1>3, <2>1, <2>2
  <2> QED BY <1>1, <1>2, <1>7, <1>8, <2>3 DEF Conserved
<1> QED
  BY <1>1, <1>4, <1>5, <1>6, <1>9 DEF HInv

(* advance_channel_meed: the channel is brought up to its entitlement over *)
(* the new watermark.                                                      *)
LEMMA AdvanceHInv ==
  ASSUME HInv, NEW c \in Channels, NEW target \in 1..MaxP, NEW drawn \in BOOLEAN,
         AdvanceChannelMeed(c, target, drawn)
  PROVE  HInv'
<1> DEFINE due == [d \in Dests |-> IF Entitlement(d, target) > chanPaid[c][d]
                                  THEN Entitlement(d, target) ELSE chanPaid[c][d]]
           was == funded[c]
<1>1. /\ target > was
      /\ funded' = [funded EXCEPT ![c] = target]
      /\ chanPaid' = [chanPaid EXCEPT ![c] = due]
      /\ residue' = [residue EXCEPT ![c] = target - SumOver(due, Dests)]
      /\ ledger' = [d \in Dests |-> ledger[d] + due[d] - chanPaid[c][d]]
      /\ Pay(target - was, drawn)
      /\ now' = now /\ entry' = entry /\ claims' = claims /\ received' = received /\ paid' = paid
      /\ refunds' = refunds /\ keys' = keys /\ retry' = retry
  BY DEF AdvanceChannelMeed, Advances, pool, link
<1>2. /\ target \in Nat /\ was \in Nat /\ chanPaid[c] = Entitled(was) /\ was <= target
      /\ residue[c] = was - Given(was) /\ ledger \in [Dests -> Int]
  BY <1>1, ClaimAssumption DEF HInv, Types, PaidUp
<1>3. /\ IsFiniteSet(Dests) /\ Entitled(was) \in [Dests -> Nat]
      /\ Entitled(target) \in [Dests -> Nat]
      /\ Given(was) \in Nat /\ Given(target) \in Nat
  BY <1>2, EntitledFit
<1>4. due = Entitled(target)
  <2>1. ASSUME NEW d \in Dests
        PROVE  due[d] = Entitlement(d, target)
    <3>1. Entitlement(d, was) <= Entitlement(d, target)
      BY <1>2, EntitledGrows
    <3>2. /\ chanPaid[c][d] = Entitlement(d, was)
          /\ Entitlement(d, was) \in Nat /\ Entitlement(d, target) \in Nat
      BY <1>2, <1>3 DEF Entitled
    <3> QED BY <3>1, <3>2
  <2> QED BY <2>1 DEF Entitled
<1>5. /\ ledger' \in [Dests -> Int]
      /\ AtDests' = AtDests + Given(target) - Given(was)
  BY <1>1, <1>2, <1>3, <1>4, LedgerMoves, SMTT(30) DEF AtDests, Given
<1>6. /\ float' \in Int /\ fresh' \in Int
      /\ fresh' - float' = fresh - float + (target - was)
  <2>1. target - was \in Int
    BY <1>2
  <2> QED BY <1>1, <2>1, PaySource
<1>7. /\ Funded' = Funded /\ Brought' = Brought /\ InEntries' = InEntries
      /\ \A j \in Ids : RefundOf(j)' = RefundOf(j)
  BY <1>1, EntriesStay
<1>8. Types'
  BY <1>1, <1>2, <1>5, <1>6, <1>7 DEF HInv, Types
<1>9. residue' = [residue EXCEPT ![c] = target - Given(target)]
  BY <1>1, <1>4 DEF Given
<1>10. chanPaid' = [chanPaid EXCEPT ![c] = Entitled(target)]
  BY <1>1, <1>4
<1> HIDE DEF due
<1>11. PaidUp'
  <2>1. /\ funded \in [Channels -> Nat]
        /\ paid = Entitled(received)
        /\ chanPaid = [k \in Channels |-> Entitled(funded[k])]
        /\ residue = [k \in Channels |-> funded[k] - Given(funded[k])]
    BY DEF HInv, Types, PaidUp
  <2>2. funded' \in [Channels -> Nat] /\ funded'[c] = target
        /\ \A k \in Channels : k # c => funded'[k] = funded[k]
    BY <1>1, <1>2, <2>1
  <2>3. chanPaid' = [k \in Channels |-> Entitled(funded'[k])]
    BY <1>10, <2>1, <2>2
  <2>4. residue' = [k \in Channels |-> funded'[k] - Given(funded'[k])]
    BY <1>9, <2>1, <2>2
  <2>5. paid' = Entitled(received')
    BY <1>1, <2>1
  <2> QED BY <2>3, <2>4, <2>5 DEF PaidUp, Given, Entitled
<1>12. RefundsMade'
  BY <1>1, <1>7 DEF HInv, RefundsMade
<1>13. /\ Refunded' = Refunded /\ Released' = Released /\ Dust' = Dust
  BY <1>1 DEF Refunded, Released, Dust, Given, Entitled
<1>14. Carried' = Carried - (was - Given(was)) + (target - Given(target))
  <2>1. IsFiniteSet(Channels)
    BY FiniteAssumption
  <2>2. residue = [k \in Channels |-> funded[k] - Given(funded[k])]
    BY DEF HInv, PaidUp
  <2>3. \A k \in Channels : funded[k] - Given(funded[k]) \in Int
    BY EntitledFit DEF HInv, Types
  <2>4. IntOn(residue, Channels)
    BY <2>2, <2>3 DEF IntOn
  <2>5. IntOn(residue', Channels)
    BY <1>2, <1>3, <1>9, <2>2, <2>3 DEF IntOn
  <2>6. SameOn(residue, residue', Channels \ {c})
    BY <1>9, <2>2 DEF SameOn
  <2>7. residue'[c] = target - Given(target)
    BY <1>9, <2>2
  <2>8. SumOver(residue', Channels) = SumOver(residue, Channels) - residue[c] + residue'[c]
    BY <2>1, <2>4, <2>5, <2>6, SumUpdate
  <2>9. residue[c] = was - Given(was)
    BY <1>2
  <2> QED BY <2>7, <2>8, <2>9 DEF Carried
<1>15. Conserved'
  <2>1. /\ Brought \in Int /\ InEntries \in Int /\ Refunded \in Int /\ AtDests \in Int
        /\ Dust \in Int /\ Carried \in Int /\ Released \in Int /\ fresh \in Int /\ float \in Int
    BY PartTypes DEF HInv
  <2>2. Brought + fresh = InEntries + Refunded + AtDests + Dust + Carried + float + Released
    BY DEF HInv, Conserved
  <2>3. Brought + fresh'
          = InEntries + Refunded + (AtDests + Given(target) - Given(was)) + Dust
            + (Carried - (was - Given(was)) + (target - Given(target))) + float' + Released
    <3>1. target \in Int /\ was \in Int /\ Given(was) \in Int /\ Given(target) \in Int
      BY <1>2, <1>3
    <3>2. /\ float' \in Int /\ fresh' \in Int
          /\ fresh' = float' + fresh - float + target - was
      <4>1. fresh \in Int /\ float \in Int
        BY <2>1
      <4> QED BY <1>6, <3>1, <4>1
    <3> QED BY <2>1, <2>2, <3>1, <3>2
  <2> QED BY <1>5, <1>7, <1>13, <1>14, <2>3 DEF Conserved
<1> QED
  BY <1>1, <1>8, <1>11, <1>12, <1>15 DEF HInv

-----------------------------------------------------------------------------
(* The whole specification. *)

(* An instance that has received nothing. *)
LEMMA InitHInv == Init => HInv
<1> SUFFICES ASSUME Init PROVE HInv
  OBVIOUS
<1>1. /\ IsFiniteSet(Dests) /\ Entitled(0) \in [Dests -> Nat] /\ Given(0) = 0
  <2>1. 0 \in Nat
    OBVIOUS
  <2>2. /\ IsFiniteSet(Dests) /\ Entitled(0) \in [Dests -> Nat]
        /\ Given(0) \in Nat /\ Given(0) <= 0
    BY <2>1, EntitledFit
  <2> QED BY <2>2
<1>2. Entitled(0) = [d \in Dests |-> 0]
  <2>1. IntOn(Entitled(0), Dests) /\ NatOn(Entitled(0), Dests)
    BY <1>1 DEF IntOn, NatOn
  <2>2. ASSUME NEW d \in Dests
        PROVE  Entitled(0)[d] = 0
    <3>1. SumOver(Entitled(0), Dests) = Entitled(0)[d] + SumOver(Entitled(0), Dests \ {d})
      BY <1>1, <2>1, SumRemove
    <3>2. IsFiniteSet(Dests \ {d}) /\ NatOn(Entitled(0), Dests \ {d})
      BY <1>1, <2>1, FS_RemoveElement DEF NatOn
    <3>3. SumOver(Entitled(0), Dests \ {d}) \in Nat
      BY <3>2, SumNat
    <3>4. Entitled(0)[d] \in Nat /\ SumOver(Entitled(0), Dests) = 0
      BY <1>1 DEF Given
    <3> QED BY <3>1, <3>3, <3>4
  <2> QED BY <1>1, <2>2
<1>3. Funded = {}
  BY DEF Init, Funded
<1>4. Types
  BY <1>3 DEF Init, Types, Records
<1>5. PaidUp
  BY <1>1, <1>2 DEF Init, PaidUp
<1>6. RefundsMade
  BY <1>3 DEF Init, RefundsMade, RefundOf, In
<1>7. Conserved
  <2>1. Brought = 0 /\ Released = 0
    BY <1>3, SumEmpty DEF Brought, Released, Init
  <2>2. InEntries = 0
    <3>1. OpenIds = {}
      BY <1>3 DEF OpenIds, In
    <3> QED BY <3>1, SumEmpty DEF InEntries
  <2>3. Refunded = 0
    BY FiniteAssumption, SumZero DEF Refunded, Init
  <2>4. AtDests = 0
    BY <1>1, SumZero DEF AtDests, Init
  <2>5. Carried = 0
    BY FiniteAssumption, SumZero DEF Carried, Init
  <2>6. Dust = 0
    BY <1>1 DEF Dust, Init
  <2> QED BY <2>1, <2>2, <2>3, <2>4, <2>5, <2>6 DEF Conserved, Init
<1> QED
  BY <1>4, <1>5, <1>6, <1>7 DEF HInv, Init, Answers

(* Every step of the instance keeps the books. *)
LEMMA NextHInv == HInv /\ [Next]_vars => HInv'
<1> SUFFICES ASSUME HInv, [Next]_vars PROVE HInv'
  OBVIOUS
<1>1. CASE Tick
  BY <1>1, QuietHInv DEF Tick, pool, marks, account, link, HInv, Types
<1>2. ASSUME NEW i \in Ids, FundEntry(i) PROVE HInv'
  BY <1>2, FundEntryHInv
<1>3. ASSUME NEW i \in Ids, Attest(i) PROVE HInv'
  BY <1>3, DeliverHInv DEF Attest, Active
<1>4. ASSUME NEW i \in Ids, Cancel(i) PROVE HInv'
  BY <1>4, GiveBackHInv DEF Cancel, Active
<1>5. ASSUME NEW i \in Ids, OpenReclaim(i) PROVE HInv'
  BY <1>5, OpenReclaimHInv
<1>6. ASSUME NEW i \in Ids, ExecuteReclaim(i) PROVE HInv'
  BY <1>6, GiveBackHInv DEF ExecuteReclaim, Executable, In
<1>7. ASSUME NEW i \in Ids, ClaimLapsed(i) PROVE HInv'
  BY <1>7, DeliverHInv DEF ClaimLapsed, Lapsable, In
<1>8. CASE SetOutage
  BY <1>8, QuietHInv DEF SetOutage, pool, marks, account, HInv, Types
<1>9. CASE DeployInstance
  BY <1>9, QuietHInv DEF DeployInstance, pool, marks, account, HInv, Types
<1>10. CASE Deposit
  BY <1>10, DepositHInv
<1>11. ASSUME NEW k \in Claims, RetryDraw(k) PROVE HInv'
  <2>1. retry' \in Answers
    BY <1>11 DEF RetryDraw, ClaimOutcome, Answers
  <2> QED BY <1>11, <2>1, QuietHInv DEF RetryDraw, pool, marks, account, HInv, Types
<1>12. ASSUME NEW k \in Claims, NEW drawn \in BOOLEAN, FundClaimRecord(k, drawn) PROVE HInv'
  BY <1>12, FundClaimRecordHInv
<1>13. ASSUME NEW k \in DOMAIN Release, ReleaseKeyed(k) PROVE HInv'
  BY <1>13, ReleaseKeyedHInv
<1>14. ASSUME NEW k \in DOMAIN Release, RetryRelease(k) PROVE HInv'
  <2>1. retry' \in Answers
    BY <1>14 DEF RetryRelease, ReleaseOutcome, Answers
  <2> QED BY <1>14, <2>1, QuietHInv DEF RetryRelease, pool, marks, account, HInv, Types
<1>15. ASSUME NEW c \in Channels, NEW target \in 1..MaxP, NEW drawn \in BOOLEAN,
              AdvanceChannelMeed(c, target, drawn)
       PROVE  HInv'
  BY <1>15, AdvanceHInv
<1>16. CASE UNCHANGED vars
  BY <1>16, QuietHInv DEF vars, pool, marks, account, link, HInv, Types
<1> QED
  BY <1>1, <1>2, <1>3, <1>4, <1>5, <1>6, <1>7, <1>8, <1>9, <1>10, <1>11, <1>12, <1>13,
     <1>14, <1>15, <1>16 DEF Next

(* The pool and every watermark have paid the entitlement over all they    *)
(* received, and the places value is in account for all that was brought.  *)
THEOREM InstanceSound == Spec => []HInv
<1> QED
  BY InitHInv, NextHInv, PTL DEF Spec

(* distribute, advance_channel_meed, draw_claim_record, release_keyed: the *)
(* balance and the bounds on the dust, for every instance.                 *)
THEOREM ValueConservedHolds == Spec => []ValueConserved
<1>1. HInv => ValueConserved
  <2> SUFFICES ASSUME HInv PROVE ValueConserved
    OBVIOUS
  <2>1. /\ received \in Nat /\ funded \in [Channels -> Nat]
        /\ paid = Entitled(received)
        /\ residue = [c \in Channels |-> funded[c] - Given(funded[c])]
    BY DEF HInv, Types, PaidUp
  <2>2. SumOver(paid, Dests) = Given(received)
    BY <2>1 DEF Given
  <2>3. /\ Cardinality(Dests) \in Nat /\ Given(received) \in Nat
        /\ Given(received) <= received /\ received - Given(received) < Cardinality(Dests)
    BY <2>1, EntitledFit
  <2>4. ASSUME NEW c \in Channels
        PROVE  residue[c] \in 0..(Cardinality(Dests) - 1)
    <3>1. funded[c] \in Nat
      BY <2>1
    <3>2. /\ Given(funded[c]) \in Nat /\ Given(funded[c]) <= funded[c]
          /\ funded[c] - Given(funded[c]) < Cardinality(Dests)
      BY <3>1, EntitledFit
    <3>3. residue[c] = funded[c] - Given(funded[c])
      BY <2>1
    <3> QED BY <2>3, <3>1, <3>2, <3>3
  <2>5. {i \in Ids : Fate(i) = "held"} = OpenIds
    <3>1. ASSUME NEW i \in Ids
          PROVE  Fate(i) = "held" <=> In(i, {"funded", "reclaimOpen"})
      <4>1. refunds[i] = RefundOf(i) /\ (i \in Funded => Amount[i] > 0 /\ entry[i].state \in States)
        BY DEF HInv, RefundsMade, Types, Records
      <4> QED BY <4>1 DEF Fate, In, RefundOf, States
    <3> QED BY <3>1 DEF OpenIds
  <2>6. Held = InEntries
    BY <2>5 DEF Held, InEntries
  <2>7. SumOver(Amount, Funded) + fresh
          = Held + SumOver(refunds, Ids) + SumOver(ledger, Dests)
            + (received - SumOver(paid, Dests)) + SumOver(residue, Channels)
            + float + SumOver(Release, keys)
    BY <2>2, <2>6 DEF HInv, Conserved, Brought, Refunded, AtDests, Dust, Carried, Released
  <2>8. 0 <= received - SumOver(paid, Dests) /\ received - SumOver(paid, Dests) < Cardinality(Dests)
    BY <2>1, <2>2, <2>3
  <2> QED BY <2>4, <2>7, <2>8 DEF ValueConserved
<1> QED
  BY <1>1, InstanceSound, PTL

(* fund_claim_record_impl and release_keyed: what was made is found before *)
(* the float it used up is looked at.                                      *)
THEOREM RetryIsAnsweredHolds == Spec => []RetryIsAnswered
<1>1. HInv => RetryIsAnswered
  BY DEF HInv, Answers, RetryIsAnswered
<1> QED
  BY <1>1, InstanceSound, PTL
=============================================================================
