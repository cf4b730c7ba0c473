-------------------------- MODULE SettlementProofs --------------------------
(***************************************************************************)
(* Proofs about Settlement, for any vector and any bounds: rounds are      *)
(* serialized, so the ledger_version backstop of on_settlement_proof never *)
(* rejects a round in flight, and a round's net leg is never credited      *)
(* before its meed leg.                                                    *)
(*                                                                         *)
(* The amounts play no part in this.  What the induction needs beyond the  *)
(* properties is that a round knows the transfer its meed leg was folded   *)
(* from, and that the rail only grows.                                     *)
(*                                                                         *)
(* The second part is about the amounts.  Its invariant, BooksInv, bounds  *)
(* the ledger by what was metered and by what the rail moved, and the      *)
(* round in flight on top of the ledger; no channel is bricked, and all    *)
(* the ledger says is backed by final transfers.                           *)
(***************************************************************************)
EXTENDS Settlement, SumsProofs, TLAPS

RoundFields == {"meed", "er", "targetP", "output", "version",
                "meedFolded", "netFolded", "meedTime", "confirmed"}
LedgerFields == {"settled", "net", "funding", "version"}

RoundTyped(d) ==
  /\ DOMAIN d = RoundFields /\ d = [f \in RoundFields |-> d[f]]
  /\ d.meedFolded \in BOOLEAN /\ d.netFolded \in BOOLEAN
  /\ d.confirmed \in BOOLEAN /\ d.meedTime \in Nat

Types ==
  /\ DOMAIN ledger = LedgerFields
  /\ ledger = [f \in LedgerFields |-> ledger[f]]
  /\ rounds = [ref \in DOMAIN rounds |-> rounds[ref]]
  /\ \A ref \in DOMAIN rounds : RoundTyped(rounds[ref])
  /\ \E S : rail \in Seq(S)

\* F6-l as the induction carries it.
Serialized ==
  /\ \A a, b \in DOMAIN rounds : ~rounds[a].confirmed /\ ~rounds[b].confirmed => a = b
  /\ \A a \in DOMAIN rounds : ~rounds[a].confirmed => rounds[a].version = ledger.version

\* Transfer m on the rail s is an advance of the watermark to a target.
Reaches(s, m, target) ==
  m \in 1..Len(s) /\ s[m].kind = "meed" /\ s[m].memo = 0 /\ s[m].amt >= target

\* Transfer n on the rail s is a net leg of round ref.
IsNetLeg(s, n, ref) == n \in 1..Len(s) /\ s[n].kind = "net" /\ s[n].memo = ref

\* F6.4 of the round d with reference ref, on the rail s with the transfers c credited.
Ordered(ref, d, s, c) ==
  /\ d.meedFolded => Reaches(s, d.meedTime, d.targetP)
  /\ d.meedTime # 0 => d.meedFolded
  /\ d.netFolded /\ d.meed > 0 =>
       /\ d.meedFolded
       /\ \E n \in c : /\ IsNetLeg(s, n, ref)
                       /\ \E m \in 1..n : Reaches(s, m, d.targetP)

RailInv == \A i \in 1..Len(rail) : rail[i].kind = "meed" => rail[i].memo = 0

IInv ==
  /\ Types
  /\ Serialized
  /\ RailInv
  /\ \A ref \in DOMAIN rounds : Ordered(ref, rounds[ref], rail, consumed)

-----------------------------------------------------------------------------
(* A longer rail and more credited transfers keep the order of a round. *)
LEMMA OrderedGrows ==
  ASSUME NEW ref, NEW d, NEW s, NEW t, NEW c, NEW e,
         Len(s) \in Nat, Len(t) \in Nat, Len(s) <= Len(t), \A i \in 1..Len(s) : t[i] = s[i], c \subseteq e,
         Ordered(ref, d, s, c)
  PROVE  Ordered(ref, d, t, e)
<1>2. \A m : Reaches(s, m, d.targetP) => Reaches(t, m, d.targetP)
  BY DEF Reaches
<1>3. \A n : IsNetLeg(s, n, ref) => IsNetLeg(t, n, ref)
  BY DEF IsNetLeg
<1> QED
  BY <1>2, <1>3 DEF Ordered

(* No round yet. *)
LEMMA InitIInv == Init => IInv
<1> SUFFICES ASSUME Init PROVE IInv
  OBVIOUS
<1>1. /\ DOMAIN rounds = {} /\ rounds = [ref \in DOMAIN rounds |-> rounds[ref]]
      /\ rail \in Seq({}) /\ Len(rail) = 0
      /\ DOMAIN ledger = LedgerFields /\ ledger = [f \in LedgerFields |-> ledger[f]]
  BY DEF Init, LedgerFields
<1> QED
  BY <1>1 DEF IInv, Types, Serialized, RailInv

(* The channel's own steps touch neither the rounds nor the rail. *)
LEMMA QuietIInv ==
  ASSUME IInv, UNCHANGED <<ledger, rounds, rail, consumed>>
  PROVE  IInv'
BY DEF IInv, Types, Serialized, RailInv

(* Append to a sequence over any set. *)
LEMMA AppendAny ==
  ASSUME NEW S, NEW s \in Seq(S), NEW x
  PROVE  /\ Append(s, x) \in Seq(S \cup {x})
         /\ Len(s) \in Nat /\ Len(Append(s, x)) = Len(s) + 1
         /\ \A i \in 1..Len(s) : Append(s, x)[i] = s[i]
         /\ Append(s, x)[Len(s) + 1] = x
<1>1. Len(s) \in Nat /\ s \in [1..Len(s) -> S]
  OBVIOUS
<1>2. s \in [1..Len(s) -> S \cup {x}]
  BY <1>1
<1>3. s \in Seq(S \cup {x})
  BY <1>1, <1>2
<1> QED
  BY <1>3

(* A transfer only adds to the rail. *)
LEMMA TransferIInv ==
  ASSUME IInv, NEW x, Transfer(x), x.kind = "meed" => x.memo = 0
  PROVE  IInv'
<1>1. /\ rail' = Append(rail, x)
      /\ ledger' = ledger /\ rounds' = rounds /\ consumed' = consumed
  BY DEF Transfer
<1>2. PICK S : rail \in Seq(S)
  BY DEF IInv, Types
<1>3. /\ rail' \in Seq(S \cup {x}) /\ Len(rail') = Len(rail) + 1 /\ Len(rail) \in Nat
      /\ \A i \in 1..Len(rail) : rail'[i] = rail[i]
      /\ rail'[Len(rail) + 1] = x
  BY <1>1, <1>2, AppendAny
<1>4. RailInv'
  BY <1>3 DEF IInv, RailInv
<1>5. \A ref \in DOMAIN rounds : Ordered(ref, rounds[ref], rail', consumed)
  <2> SUFFICES ASSUME NEW ref \in DOMAIN rounds
               PROVE  Ordered(ref, rounds[ref], rail', consumed)
    OBVIOUS
  <2>1. Ordered(ref, rounds[ref], rail, consumed)
    BY DEF IInv
  <2>2. Len(rail) <= Len(rail') /\ consumed \subseteq consumed /\ Len(rail') \in Nat
    BY <1>3
  <2> QED
    BY <1>3, <2>1, <2>2, OrderedGrows
<1>6. Types'
  BY <1>1, <1>3 DEF IInv, Types
<1>7. Serialized'
  BY <1>1 DEF IInv, Serialized
<1> QED
  BY <1>1, <1>4, <1>5, <1>6, <1>7 DEF IInv

(* A new round finds no other in flight and is recorded with the ledger's version. *)
LEMMA SettlementProposeIInv ==
  ASSUME IInv, NEW ref, SettlementPropose(ref)
  PROVE  IInv'
<1> DEFINE d == RecomputeRound(ckpts[ref])
<1>1. /\ ref \notin DOMAIN rounds /\ InFlight \subseteq {ref}
      /\ rounds' = [k \in DOMAIN rounds \cup {ref} |-> IF k = ref THEN d ELSE rounds[k]]
      /\ ledger' = ledger /\ rail' = rail /\ consumed' = consumed
  BY DEF SettlementPropose, AdmitsRound
<1>2. /\ DOMAIN d = RoundFields /\ d = [f \in RoundFields |-> d[f]]
      /\ d.version = ledger.version /\ d.meedFolded = FALSE /\ d.netFolded = FALSE
      /\ d.meedTime = 0 /\ d.confirmed = FALSE
  BY DEF RecomputeRound, RoundFields
<1> HIDE DEF d
<1>3. \A a \in DOMAIN rounds : rounds[a].confirmed
  BY <1>1 DEF InFlight
<1>4. /\ DOMAIN rounds' = DOMAIN rounds \cup {ref} /\ rounds'[ref] = d
      /\ rounds' = [k \in DOMAIN rounds' |-> rounds'[k]]
      /\ \A a \in DOMAIN rounds : rounds'[a] = rounds[a]
  BY <1>1
<1>5. Types'
  <2>1. d.meedFolded \in BOOLEAN /\ d.netFolded \in BOOLEAN /\ d.confirmed \in BOOLEAN
    BY <1>2
  <2>2. d.meedTime \in Nat
    BY <1>2
  <2>3. RoundTyped(d)
    BY <1>2, <2>1, <2>2, Zenon DEF RoundTyped
  <2>4. \A a \in DOMAIN rounds' : RoundTyped(rounds'[a])
    BY <1>4, <2>3 DEF IInv, Types
  <2> QED
    BY <1>1, <1>4, <2>4 DEF IInv, Types
<1>6. Serialized'
  BY <1>1, <1>2, <1>3, <1>4 DEF Serialized
<1>7. \A a \in DOMAIN rounds' : Ordered(a, rounds'[a], rail', consumed')
  <2>1. Ordered(ref, d, rail, consumed)
    BY <1>2 DEF Ordered
  <2> QED
    BY <1>1, <1>4, <2>1 DEF IInv
<1> QED
  BY <1>1, <1>5, <1>6, <1>7 DEF IInv, RailInv

(* Funding changes one sum of the ledger and no version. *)
LEMMA FundingIInv ==
  ASSUME IInv, NEW i, Funding(i)
  PROVE  IInv'
<1>1. /\ ledger' = [ledger EXCEPT !.funding = @ + CreditedFunding(i)]
      /\ rounds' = rounds /\ rail' = rail /\ consumed' = consumed \cup {i}
  BY DEF Funding, Consume
<1>2. Types
  BY DEF IInv
<1>3. /\ DOMAIN ledger' = LedgerFields /\ ledger' = [f \in LedgerFields |-> ledger'[f]]
      /\ ledger'.version = ledger.version
  BY <1>1, <1>2 DEF Types, LedgerFields
<1>4. Types'
  BY <1>1, <1>2, <1>3 DEF Types
<1>5. Serialized'
  BY <1>1, <1>3 DEF IInv, Serialized
<1>6. \A ref \in DOMAIN rounds : Ordered(ref, rounds[ref], rail, consumed \cup {i})
  <2> SUFFICES ASSUME NEW ref \in DOMAIN rounds
               PROVE  Ordered(ref, rounds[ref], rail, consumed \cup {i})
    OBVIOUS
  <2>1. Ordered(ref, rounds[ref], rail, consumed) /\ Len(rail) \in Nat
    BY <1>2 DEF IInv, Types
  <2>2. consumed \subseteq consumed \cup {i} /\ Len(rail) <= Len(rail)
    BY <2>1
  <2> QED
    BY <2>1, <2>2, OrderedGrows
<1> QED
  BY <1>1, <1>4, <1>5, <1>6 DEF IInv, RailInv
(* What a proof makes of a round. *)
LEMMA FoldedFacts ==
  ASSUME NEW d, RoundTyped(d), NEW m \in Nat, NEW n \in Nat, NEW v
  PROVE  LET f == Folded(d, m, n, v)
         IN  /\ RoundTyped(f)
             /\ f.meed = d.meed /\ f.targetP = d.targetP /\ f.version = v
             /\ f.er = d.er /\ f.output = d.output
             /\ f.meedFolded <=> d.meedFolded \/ FoldMeedNow(d, m)
             /\ f.netFolded <=> d.netFolded \/ FoldNetNow(d, n)
             /\ f.meedTime = IF FoldMeedNow(d, m) THEN m ELSE d.meedTime
             /\ ~f.confirmed => ~d.confirmed
<1> DEFINE f == Folded(d, m, n, v)
<1>1. DOMAIN f = RoundFields /\ f = [x \in RoundFields |-> f[x]]
  BY DEF Folded, RoundTyped
<1>2. f.meed = d.meed /\ f.targetP = d.targetP /\ f.version = v
      /\ f.er = d.er /\ f.output = d.output
  BY DEF Folded, RoundTyped, RoundFields
<1>3. f.meedFolded = (d.meedFolded \/ FoldMeedNow(d, m))
  BY DEF Folded, RoundTyped, RoundFields
<1>4. f.netFolded = (d.netFolded \/ FoldNetNow(d, n))
  BY DEF Folded, RoundTyped, RoundFields
<1>5. f.meedTime = IF FoldMeedNow(d, m) THEN m ELSE d.meedTime
  BY DEF Folded, RoundTyped, RoundFields
<1>6. f.confirmed = (d.confirmed \/ (MeedDone(d, m) /\ NetDone(d, n)))
  BY DEF Folded, RoundTyped, RoundFields
<1> HIDE DEF f
<1>7. f.meedFolded \in BOOLEAN /\ f.netFolded \in BOOLEAN /\ f.confirmed \in BOOLEAN
  BY <1>3, <1>4, <1>6
<1>8. f.meedTime \in Nat
  BY <1>5 DEF RoundTyped
<1>9. RoundTyped(f)
  BY <1>1, <1>7, <1>8 DEF RoundTyped
<1>10. ~f.confirmed => ~d.confirmed
  BY <1>6
<1> QED
  BY <1>2, <1>3, <1>4, <1>5, <1>9, <1>10 DEF f

(* A proof leaves its round in order: a net leg it folds follows an advance that   *)
(* reached the target, and the meed is folded with it or was before.       *)
LEMMA FoldedOrdered ==
  ASSUME IInv, NEW ref \in DOMAIN rounds, NEW m \in 0..Len(rail), NEW n \in 0..Len(rail),
         NEW v, SettlementProof(ref, m, n)
  PROVE  Ordered(ref, Folded(rounds[ref], m, n, v), rail, consumed')
<1> DEFINE d == rounds[ref]
           f == Folded(d, m, n, v)
<1>1. /\ m # 0 => MeedLegOk(d, m)
      /\ n # 0 => NetLegOk(ref, d, n)
      /\ FoldNetNow(d, n) => NetAfterMeed(d, m, n)
      /\ consumed' = IF FoldNetNow(d, n) THEN consumed \cup {n} ELSE consumed
  BY DEF SettlementProof, ProofAdmitted
<1>2. RoundTyped(d) /\ Ordered(ref, d, rail, consumed) /\ Len(rail) \in Nat
      /\ DOMAIN rail = 1..Len(rail)
  BY DEF IInv, Types
<1>3. /\ f.meed = d.meed /\ f.targetP = d.targetP
      /\ f.meedFolded <=> d.meedFolded \/ FoldMeedNow(d, m)
      /\ f.netFolded <=> d.netFolded \/ FoldNetNow(d, n)
      /\ f.meedTime = IF FoldMeedNow(d, m) THEN m ELSE d.meedTime
  <2>1. m \in Nat /\ n \in Nat
    BY <1>2
  <2> QED
    BY <1>2, <2>1, FoldedFacts
<1> HIDE DEF d, f
<1>4. m # 0 => Reaches(rail, m, d.targetP)
  BY <1>1, <1>2 DEF MeedLegOk, Reaches, IInv, RailInv
<1>5. n # 0 => IsNetLeg(rail, n, ref)
  BY <1>1, <1>2 DEF NetLegOk, IsNetLeg
<1>6. f.meedFolded => Reaches(rail, f.meedTime, f.targetP)
  BY <1>2, <1>3, <1>4 DEF Ordered, FoldMeedNow
<1>7. f.meedTime # 0 => f.meedFolded
  BY <1>2, <1>3 DEF Ordered
<1>8. ASSUME f.netFolded, f.meed > 0
      PROVE  /\ f.meedFolded
             /\ \E k \in consumed' : /\ IsNetLeg(rail, k, ref)
                                     /\ \E j \in 1..k : Reaches(rail, j, f.targetP)
  <2>1. CASE d.netFolded
    BY <1>1, <1>2, <1>3, <1>8, <2>1 DEF Ordered
  <2>2. CASE FoldNetNow(d, n) /\ m # 0
    <3>1. f.meedFolded
      BY <1>3, <1>8, <2>2 DEF FoldMeedNow
    <3>2. m \in 1..n
      BY <1>1, <1>2, <2>2 DEF NetAfterMeed, FoldNetNow
    <3> QED
      BY <1>1, <1>3, <1>4, <1>5, <2>2, <3>1, <3>2 DEF FoldNetNow
  <2>3. CASE FoldNetNow(d, n) /\ m = 0
    <3>1. d.meedTime # 0 /\ n >= d.meedTime
      BY <1>1, <1>3, <1>8, <2>3 DEF NetAfterMeed
    <3>2. d.meedFolded /\ Reaches(rail, d.meedTime, d.targetP)
      BY <1>2, <3>1 DEF Ordered
    <3>3. d.meedTime \in 1..n
      BY <1>2, <3>1, <3>2 DEF Reaches
    <3> QED
      BY <1>1, <1>3, <1>5, <2>3, <3>2, <3>3 DEF FoldNetNow
  <2> QED
    BY <1>3, <1>8, <2>1, <2>2, <2>3
<1> QED
  BY <1>6, <1>7, <1>8 DEF Ordered, f, d

(* A proof moves the version of the ledger and of the one round in flight together. *)
LEMMA SettlementProofIInv ==
  ASSUME IInv, NEW ref \in DOMAIN rounds, NEW m \in 0..Len(rail), NEW n \in 0..Len(rail),
         SettlementProof(ref, m, n)
  PROVE  IInv'
<1> DEFINE d == rounds[ref]
           after == FoldedLedger(d, m, n)
           f == Folded(d, m, n, after.version)
<1>1. /\ ~d.confirmed /\ ledger' = after
      /\ rounds' = [rounds EXCEPT ![ref] = f]
      /\ rail' = rail
      /\ consumed \subseteq consumed'
  BY DEF SettlementProof, ProofAdmitted
<1>2. Types /\ RoundTyped(d) /\ Len(rail) \in Nat /\ m \in Nat /\ n \in Nat
  BY DEF IInv, Types
<1>3. RoundTyped(f) /\ f.version = after.version
  <2> HIDE DEF d, after
  <2> QED
    BY <1>2, FoldedFacts
<1>4. DOMAIN after = LedgerFields /\ after = [x \in LedgerFields |-> after[x]]
  BY <1>2 DEF FoldedLedger, Types
<1>5. Ordered(ref, f, rail, consumed')
  BY FoldedOrdered
<1> HIDE DEF d, after, f
<1>6. /\ DOMAIN rounds' = DOMAIN rounds /\ rounds'[ref] = f
      /\ rounds' = [k \in DOMAIN rounds' |-> rounds'[k]]
      /\ \A a \in DOMAIN rounds : a # ref => rounds'[a] = rounds[a]
  BY <1>1, <1>2 DEF Types
<1>7. Types'
  <2>1. \A a \in DOMAIN rounds' : RoundTyped(rounds'[a])
    BY <1>2, <1>3, <1>6 DEF Types
  <2> QED
    BY <1>1, <1>2, <1>4, <1>6, <2>1 DEF Types
<1>8. Serialized'
  <2>1. \A a \in DOMAIN rounds : a # ref => rounds[a].confirmed
    BY <1>1 DEF IInv, Serialized, d
  <2> QED
    BY <1>1, <1>3, <1>6, <2>1 DEF Serialized
<1>9. \A a \in DOMAIN rounds' : Ordered(a, rounds'[a], rail', consumed')
  <2> SUFFICES ASSUME NEW a \in DOMAIN rounds
               PROVE  Ordered(a, rounds'[a], rail, consumed')
    BY <1>1, <1>6
  <2>1. CASE a = ref
    BY <1>5, <1>6, <2>1
  <2>2. CASE a # ref
    <3>1. Ordered(a, rounds[a], rail, consumed) /\ Len(rail) <= Len(rail)
      BY <1>2 DEF IInv
    <3>2. Ordered(a, rounds[a], rail, consumed')
      BY <1>1, <1>2, <3>1, OrderedGrows
    <3> QED
      BY <1>6, <2>2, <3>2
  <2> QED
    BY <2>1, <2>2
<1> QED
  BY <1>1, <1>7, <1>8, <1>9 DEF IInv, RailInv

(* The invariant of the merchant's rounds. *)
THEOREM RoundsSound == Spec => []IInv
<1>1. IInv /\ [Next]_vars => IInv'
  <2> SUFFICES ASSUME IInv, [Next]_vars PROVE IInv'
    OBVIOUS
  <2>1. CASE UNCHANGED vars
    BY <2>1, QuietIInv DEF vars
  <2>2. CASE \/ \E amt \in 1..MaxAmt : AcceptSlice(amt)
             \/ \E total \in 0..cum : Checkpoint(total)
             \/ \E ref \in DOMAIN ckpts : CheckpointAgain(ref)
    BY <2>2, QuietIInv DEF AcceptSlice, Checkpoint, CheckpointAgain
  <2>3. ASSUME NEW amt \in 1..MaxAmt, Fund(amt) PROVE IInv'
    BY <2>3, TransferIInv DEF Fund
  <2>4. ASSUME NEW ref \in DOMAIN rounds, PayNet(ref) PROVE IInv'
    BY <2>4, TransferIInv DEF PayNet
  <2>5. ASSUME NEW ref \in DOMAIN rounds, NEW over \in 0..Overshoot, AdvanceMeed(ref, over)
        PROVE  IInv'
    BY <2>5, TransferIInv DEF AdvanceMeed
  <2>6. ASSUME NEW ref \in DOMAIN ckpts, SettlementPropose(ref) PROVE IInv'
    BY <2>6, SettlementProposeIInv
  <2>7. ASSUME NEW ref \in DOMAIN rounds, NEW m \in 0..Len(rail), NEW n \in 0..Len(rail),
               SettlementProof(ref, m, n)
        PROVE  IInv'
    BY <2>7, SettlementProofIInv
  <2>8. ASSUME NEW i \in DOMAIN rail, Funding(i) PROVE IInv'
    BY <2>8, FundingIInv
  <2> QED
    BY <2>1, <2>2, <2>3, <2>4, <2>5, <2>6, <2>7, <2>8 DEF Next, Step
<1> QED
  BY <1>1, InitIInv, PTL DEF Spec

(* F6-l: rounds are serialized and the version backstop is never reached. *)
THEOREM BackstopSilentHolds == Spec => []BackstopSilent
<1>1. IInv => BackstopSilent
  <2> SUFFICES ASSUME IInv PROVE BackstopSilent
    OBVIOUS
  <2>1. \A a, b \in InFlight : a = b
    BY DEF IInv, Serialized, InFlight
  <2>2. Cardinality(InFlight) <= 1
    <3>1. CASE InFlight = {}
      BY <3>1, FS_EmptySet
    <3>2. CASE InFlight # {}
      <4>1. PICK a \in InFlight : InFlight = {a}
        BY <2>1, <3>2
      <4>2. Cardinality(InFlight) = 1
        BY <4>1, FS_Singleton, Zenon
      <4> QED
        BY <4>2
    <3> QED
      BY <3>1, <3>2
  <2>3. \A ref \in InFlight : rounds[ref].version = ledger.version
    BY DEF IInv, Serialized, InFlight
  <2> QED
    BY <2>2, <2>3 DEF BackstopSilent
<1> QED
  BY <1>1, RoundsSound, PTL

(* F6.4: no round's net leg is credited before its meed. *)
THEOREM MeedBeforeNetHolds == Spec => []MeedBeforeNet
<1>1. IInv => MeedBeforeNet
  <2> SUFFICES ASSUME IInv, NEW ref \in DOMAIN rounds,
                      rounds[ref].netFolded, rounds[ref].meed > 0
               PROVE  /\ rounds[ref].meedFolded
                      /\ \E n \in consumed \cap OnRail("net", ref), m \in OnRail("meed", 0) :
                           m <= n /\ rail[m].amt >= rounds[ref].targetP
    BY DEF MeedBeforeNet
  <2>1. rounds[ref].meedFolded /\ DOMAIN rail = 1..Len(rail) /\ Len(rail) \in Nat
    BY DEF IInv, Types, Ordered
  <2>2. PICK n \in consumed : /\ IsNetLeg(rail, n, ref)
                              /\ \E m \in 1..n : Reaches(rail, m, rounds[ref].targetP)
    BY DEF IInv, Ordered
  <2>3. PICK m \in 1..n : Reaches(rail, m, rounds[ref].targetP)
    BY <2>2
  <2>4. n \in OnRail("net", ref) /\ m \in OnRail("meed", 0) /\ m <= n
    BY <2>1, <2>2, <2>3 DEF OnRail, IsNetLeg, Reaches
  <2> QED
    BY <2>1, <2>2, <2>3, <2>4 DEF Reaches
<1> QED
  BY <1>1, RoundsSound, PTL

-----------------------------------------------------------------------------
(* The arithmetic of a round.                                              *)

LEMMA RolesFact ==
  /\ Len(Bp) \in Nat \ {0} /\ Roles = 1..Len(Bp) /\ IsFiniteSet(Roles)
  /\ Bp \in [Roles -> Nat]
<1>1. Len(Bp) \in Nat \ {0} /\ Roles = 1..Len(Bp) /\ Bp \in [Roles -> Nat]
  BY VectorAssumption DEF Roles
<1> QED
  BY <1>1, RolesFinite

LEMMA TotalFact ==
  ASSUME NEW v \in [Roles -> Nat]
  PROVE  Total(v) = SumOver(v, Roles) /\ Total(v) \in Nat /\ NatOn(v, Roles) /\ IntOn(v, Roles)
<1>1. DOMAIN v = Roles /\ NatOn(v, Roles)
  BY DEF NatOn
<1>2. SumOver(v, Roles) \in Nat /\ IntOn(v, Roles)
  BY <1>1, RolesFact, SumNat
<1> QED
  BY <1>1, <1>2 DEF Total

\* A round at unity pays every whole unit outstanding and extinguishes exactly that.
LEMMA UnityDivision ==
  ASSUME NEW n \in [Roles -> Nat], NEW d, d = DivideRound(n, Unity)
  PROVE  /\ d.p = Total(n) \div BpDenom /\ d.p \in Nat
         /\ d.leg <=> d.p # 0
         /\ d.er \in [Roles -> Nat] /\ Total(d.er) = BpDenom * d.p
         /\ \A r \in Roles : d.er[r] <= n[r]
  BY RolesFact, UnityDivides

LEMMA AccrualsFact ==
  ASSUME NEW total \in Nat
  PROVE  Accruals(total) \in [Roles -> Nat] /\ Total(Accruals(total)) = total * Total(Bp)
<1>1. Accruals(total) \in [Roles -> Nat] /\ Scales(Accruals(total), total, Bp, Roles)
  BY RolesFact DEF Accruals, Scales
<1>2. SumOver(Accruals(total), Roles) = total * SumOver(Bp, Roles)
  <2>1. IntOn(Bp, Roles) /\ IsFiniteSet(Roles) /\ total \in Int
    BY RolesFact, TotalFact
  <2> QED
    BY <1>1, <2>1, SumScale
<1> QED
  BY <1>1, <1>2, RolesFact, TotalFact

\* Division by b grows no faster than the dividend does by the unit.
LEMMA CarveGap ==
  ASSUME NEW b \in Nat \ {0}, NEW w \in Nat, w <= b, NEW s \in Nat, NEW t \in Nat, s <= t
  PROVE  /\ (s * w) \div b \in Nat /\ (s * w) \div b <= s
         /\ s - ((s * w) \div b) <= t - ((t * w) \div b)
<1> DEFINE x == s * w
           y == t * w
           g == t - s
           z == g * w
<1>1. x \in Nat /\ y \in Nat /\ g \in Nat /\ z \in Nat
  OBVIOUS
<1>2. y = x + z
  OBVIOUS
<1>3. x <= b * s /\ z <= b * g
  <2> HIDE DEF g
  <2> QED BY <1>1
<1> HIDE DEF x, y, z, g
<1>4. /\ x \div b \in Nat /\ b * (x \div b) <= x /\ x < b * (x \div b) + b
      /\ y \div b \in Nat /\ b * (y \div b) <= y
  BY <1>1, DivFact
<1> DEFINE p == x \div b
           q == y \div b
<1> HIDE DEF p, q
<1>5. p \in Nat /\ q \in Nat /\ b * p <= x /\ x < b * p + b /\ b * q <= y
  BY <1>4 DEF p, q
<1>6. p <= s
  <2>1. b * p <= b * s
    BY <1>1, <1>3, <1>5
  <2> QED
    BY <1>5, <2>1, ScaleLess
<1>7. q < p + 1 + g
  <2>1. b * (p + 1 + g) = b * p + b + b * g
    BY <1>1, <1>5
  <2>2. b * q < b * (p + 1 + g)
    BY <1>1, <1>2, <1>3, <1>5, <2>1
  <2> QED
    BY <1>1, <1>5, <2>2, ScaleLess
<1>8. s - p <= t - q
  BY <1>5, <1>7 DEF g
<1> QED
  BY <1>5, <1>6, <1>8 DEF p, q, x, y

\* The merchant-net metered up to a CUM_TOTAL.
Worth(total) == total - MeedCarve(Accruals(total))

LEMMA WorthFact ==
  ASSUME NEW s \in Nat, NEW t \in Nat, s <= t
  PROVE  /\ MeedCarve(Accruals(s)) \in Nat /\ MeedCarve(Accruals(s)) <= s
         /\ Worth(s) \in Nat /\ Worth(s) <= Worth(t)
<1>1. Total(Bp) \in Nat /\ Total(Bp) <= BpDenom /\ BpDenom \in Nat \ {0}
  BY RolesFact, TotalFact, VectorAssumption, BpDenomAssumption
<1> DEFINE w == Total(Bp)
<1>2. /\ MeedCarve(Accruals(s)) = (s * w) \div BpDenom
      /\ MeedCarve(Accruals(t)) = (t * w) \div BpDenom
  BY AccrualsFact DEF MeedCarve
<1>3. /\ (s * w) \div BpDenom \in Nat /\ (s * w) \div BpDenom <= s
      /\ s - ((s * w) \div BpDenom) <= t - ((t * w) \div BpDenom)
  <2> HIDE DEF w
  <2> QED BY <1>1, CarveGap DEF w
<1> HIDE DEF w
<1>4. /\ MeedCarve(Accruals(s)) \in Nat /\ MeedCarve(Accruals(s)) <= s
      /\ s - MeedCarve(Accruals(s)) <= t - MeedCarve(Accruals(t))
  BY <1>2, <1>3
<1> QED
  BY <1>4 DEF Worth

-----------------------------------------------------------------------------
(* The merchant's books.                                                   *)

\* What the transfers c on the rail s that are of a kind have moved.
KindIn(s, c, kind) == {i \in c : s[i].kind = kind}
PaidOn(s, c, kind) == SumOver([i \in KindIn(s, c, kind) |-> s[i].amt], KindIn(s, c, kind))

OpCum == IF op = 0 THEN 0 ELSE ckpts[op]

\* The operative checkpoint is the furthest one, and the live CUM_TOTAL is past it.
Metered ==
  /\ cum \in Nat /\ balance \in Nat /\ raced \in Nat
  /\ ckpts \in Seq(Nat) /\ op \in 0..Len(ckpts)
  /\ op = 0 => Len(ckpts) = 0
  /\ \A i \in 1..Len(ckpts) : ckpts[i] <= OpCum
  /\ OpCum <= cum
  /\ DOMAIN rounds \subseteq 1..Len(ckpts)

LedgerAmounts ==
  ledger.settled \in [Roles -> Nat] /\ ledger.net \in Nat /\ ledger.funding \in Nat

RoundAmounts(d) ==
  d.meed \in Nat /\ d.targetP \in Nat /\ d.output \in Nat /\ d.er \in [Roles -> Nat]

\* What the round d of a checkpoint at total has still to fold fits that checkpoint.
MeedFits(total, d, settled) ==
  ~d.confirmed /\ ~d.meedFolded =>
    /\ \A r \in Roles : settled[r] + d.er[r] <= total * Bp[r]
    /\ d.meed > 0 => /\ Total(d.er) = BpDenom * d.meed
                     /\ d.targetP = MeedCarve(settled) + d.meed
NetFits(total, d, taken, slack) ==
  ~d.confirmed /\ ~d.netFolded /\ d.output > 0 => taken + d.output <= Worth(total) + slack

RoundsFit ==
  \A ref \in DOMAIN rounds :
    /\ RoundAmounts(rounds[ref])
    /\ MeedFits(ckpts[ref], rounds[ref], ledger.settled)
    /\ NetFits(ckpts[ref], rounds[ref], ledger.net + ledger.funding, raced)

\* On the rail s the watermark never moves back.
NeverBack(s) ==
  /\ \A i \in 1..Len(s) : s[i].amt \in Nat
  /\ \A i, j \in 1..Len(s) :
       i <= j /\ s[i].kind = "meed" /\ s[j].kind = "meed" => s[i].amt <= s[j].amt
RailAmounts == NeverBack(rail)

SettledFits == \A r \in Roles : ledger.settled[r] <= OpCum * Bp[r]
MeedBacked ==
  /\ Total(ledger.settled) = BpDenom * SettledCarve
  /\ Total(ledger.settled) <= BpDenom * FundedP
Credited ==
  /\ consumed \subseteq 1..Len(rail)
  /\ \A i \in consumed : rail[i].kind # "meed"
  /\ ledger.net = PaidOn(rail, consumed, "net")
  /\ ledger.funding <= PaidOn(rail, consumed, "fund")
WithinWorth == ledger.net + ledger.funding <= Worth(cum) + raced
Covered == balance >= cum - ledger.net - ledger.funding - SettledCarve

BooksInv ==
  /\ Metered /\ LedgerAmounts /\ RoundsFit /\ RailAmounts
  /\ SettledFits /\ MeedBacked /\ Credited /\ WithinWorth /\ Covered

-----------------------------------------------------------------------------
\* A set of numbers up to L that has a member has a greatest one.
LEMMA GreatestExists ==
  ASSUME NEW L \in Nat, NEW S \in SUBSET (1..L), S # {}
  PROVE  \E i \in S : \A j \in S : j <= i
<1> DEFINE HasGreatest(T) == \E i \in T : \A j \in T : j <= i
           Ok == {m \in Nat : \A T \in SUBSET (1..m) : T # {} => HasGreatest(T)}
<1>1. 0 \in Ok
  <2>1. 1..0 = {}
    OBVIOUS
  <2> QED
    BY <2>1
<1>2. ASSUME NEW m \in Nat, m \in Ok PROVE m + 1 \in Ok
  <2> SUFFICES ASSUME NEW T \in SUBSET (1..(m + 1)), T # {} PROVE HasGreatest(T)
    OBVIOUS
  <2>1. CASE m + 1 \in T
    BY <2>1
  <2>2. CASE m + 1 \notin T
    <3>1. T \in SUBSET (1..m)
      BY <2>2
    <3> QED
      BY <1>2, <3>1
  <2> QED
    BY <2>1, <2>2
<1>3. L \in Ok
  <2> HIDE DEF Ok
  <2> QED BY <1>1, <1>2, NatSetInduction
<1> QED
  BY <1>3

\* funded_p as a function of the rail.
Advances(s) == {i \in DOMAIN s : s[i].kind = "meed" /\ s[i].memo = 0}
FundedOn(s) ==
  IF Advances(s) = {} THEN 0
  ELSE s[CHOOSE i \in Advances(s) : \A j \in Advances(s) : j <= i].amt

LEMMA FundedIs == FundedP = FundedOn(rail) /\ FundedP' = FundedOn(rail')
  BY DEF FundedP, FundedOn, OnRail, Advances

\* funded_p is what the furthest advance reached.
LEMMA FundedFact ==
  ASSUME NEW s, Len(s) \in Nat, DOMAIN s = 1..Len(s), NeverBack(s),
         \A i \in 1..Len(s) : s[i].kind = "meed" => s[i].memo = 0
  PROVE  /\ FundedOn(s) \in Nat
         /\ \A i \in 1..Len(s) : s[i].kind = "meed" => s[i].amt <= FundedOn(s)
         /\ FundedOn(s) = 0 \/ \E i \in 1..Len(s) : s[i].kind = "meed" /\ s[i].amt = FundedOn(s)
<1> DEFINE A == Advances(s)
           last == CHOOSE i \in A : \A j \in A : j <= i
<1>2. \A i : i \in A <=> i \in 1..Len(s) /\ s[i].kind = "meed"
  BY DEF Advances
<1>3. CASE A = {}
  <2>1. FundedOn(s) = 0
    BY <1>3 DEF FundedOn
  <2> QED
    BY <1>2, <1>3, <2>1
<1>4. CASE A # {}
  <2>1. FundedOn(s) = s[last].amt
    BY <1>4 DEF FundedOn
  <2>2. A \in SUBSET (1..Len(s))
    BY <1>2
  <2>3. \E i \in A : \A j \in A : j <= i
    <3> DEFINE L == Len(s)
    <3>1. L \in Nat /\ A \in SUBSET (1..L)
      BY <2>2
    <3> HIDE DEF A, L
    <3> QED BY <1>4, <3>1, GreatestExists
  <2>4. last \in A /\ \A j \in A : j <= last
    <3> HIDE DEF A
    <3> QED BY <2>3
  <2> HIDE DEF last, A
  <2>5. last \in 1..Len(s) /\ s[last].kind = "meed"
    BY <1>2, <2>4
  <2>6. \A i \in 1..Len(s) : s[i].kind = "meed" => s[i].amt <= s[last].amt
    BY <1>2, <2>4, <2>5 DEF NeverBack
  <2> QED
    BY <2>1, <2>5, <2>6 DEF NeverBack
<1> QED
  BY <1>3, <1>4

\* The same of the live rail.
LEMMA FundedNow ==
  ASSUME IInv, RailAmounts
  PROVE  /\ FundedP \in Nat
         /\ \A i \in 1..Len(rail) : rail[i].kind = "meed" => rail[i].amt <= FundedP
         /\ FundedP = 0 \/ \E i \in 1..Len(rail) : rail[i].kind = "meed" /\ rail[i].amt = FundedP
<1>1. Len(rail) \in Nat /\ DOMAIN rail = 1..Len(rail)
  BY DEF IInv, Types
<1>2. \A i \in 1..Len(rail) : rail[i].kind = "meed" => rail[i].memo = 0
  BY DEF IInv, RailInv
<1> QED
  BY <1>1, <1>2, FundedIs, FundedFact DEF RailAmounts

\* A longer rail has paid the same.
LEMMA PaidSame ==
  ASSUME NEW s, NEW t, NEW L, NEW c \in SUBSET (1..L), \A i \in 1..L : t[i] = s[i], NEW kind
  PROVE  PaidOn(t, c, kind) = PaidOn(s, c, kind)
<1>1. KindIn(t, c, kind) = KindIn(s, c, kind)
  BY DEF KindIn
<1>2. [i \in KindIn(t, c, kind) |-> t[i].amt] = [i \in KindIn(s, c, kind) |-> s[i].amt]
  BY <1>1 DEF KindIn
<1> QED
  BY <1>1, <1>2 DEF PaidOn

\* One transfer more, credited once.
With(c, n) == c \cup {n}
AmountsOn(s, L) == \A i \in 1..L : s[i].amt \in Nat

LEMMA PaidMore ==
  ASSUME NEW s, NEW L \in Nat, NEW c \in SUBSET (1..L), NEW n \in 1..L, n \notin c,
         AmountsOn(s, L), NEW kind
  PROVE  /\ PaidOn(s, c, kind) \in Nat
         /\ s[n].kind = kind => PaidOn(s, With(c, n), kind) = PaidOn(s, c, kind) + s[n].amt
         /\ s[n].kind # kind => PaidOn(s, With(c, n), kind) = PaidOn(s, c, kind)
<1> DEFINE S == KindIn(s, c, kind)
           T == KindIn(s, With(c, n), kind)
           f == [i \in S |-> s[i].amt]
           g == [i \in T |-> s[i].amt]
<1>0. \A i \in 1..L : s[i].amt \in Nat
  BY DEF AmountsOn
<1>1. IsFiniteSet(S) /\ S \subseteq 1..L /\ n \notin S
  <2>1. S \subseteq 1..L /\ n \notin S
    BY DEF KindIn
  <2> QED
    BY <2>1, RolesFinite, FS_Subset
<1>2. NatOn(f, S)
  BY <1>0, <1>1 DEF NatOn
<1>3. SumOver(f, S) \in Nat /\ IntOn(f, S)
  <2> HIDE DEF f, S
  <2> QED BY <1>1, <1>2, SumNat
<1>4. CASE s[n].kind # kind
  <2>1. T = S
    BY <1>4 DEF KindIn, With
  <2>2. g = f
    BY <2>1
  <2> QED
    BY <1>3, <1>4, <2>1, <2>2 DEF PaidOn
<1>5. CASE s[n].kind = kind
  <2>1. T = S \cup {n}
    BY <1>5 DEF KindIn, With
  <2>2. g[n] = s[n].amt /\ g[n] \in Nat /\ IntOn(g, S \cup {n})
    <3>1. \A i \in T : g[i] = s[i].amt /\ i \in 1..L
      BY <1>1, <2>1
    <3>2. n \in T
      BY <2>1
    <3>3. \A i \in S \cup {n} : g[i] \in Int
      <4> HIDE DEF g, S, T
      <4> QED BY <1>0, <2>1, <3>1
    <3> HIDE DEF g, S, T
    <3> QED
      BY <1>0, <3>1, <3>2, <3>3 DEF IntOn
  <2>3. SameOn(f, g, S)
    BY <2>1 DEF SameOn
  <2>4. SumOver(g, S) = SumOver(f, S)
    <3> HIDE DEF f, g, S, T
    <3> QED BY <1>1, <1>3, <2>3, SumCong
  <2>5. SumOver(g, S \cup {n}) = g[n] + SumOver(g, S)
    <3> HIDE DEF f, g, S, T
    <3> QED BY <1>1, <2>2, SumInsert
  <2>6. SumOver(g, T) = SumOver(f, S) + s[n].amt
    <3>1. SumOver(g, T) = g[n] + SumOver(f, S)
      BY <2>1, <2>4, <2>5
    <3> HIDE DEF f, g, S, T
    <3> QED BY <1>3, <2>2, <3>1
  <2> QED
    BY <1>3, <1>5, <2>6 DEF PaidOn
<1> QED
  BY <1>4, <1>5

\* One more leg credited, seen from each of the two paths.
LEMMA NetPaid ==
  ASSUME NEW s, NEW L \in Nat, NEW c \in SUBSET (1..L), NEW n \in 1..L, n \notin c,
         AmountsOn(s, L)
  PROVE  /\ s[n].kind = "net" => PaidOn(s, With(c, n), "net") = PaidOn(s, c, "net") + s[n].amt
         /\ s[n].kind # "fund" => PaidOn(s, With(c, n), "fund") = PaidOn(s, c, "fund")
<1>1. s[n].kind = "net" => PaidOn(s, With(c, n), "net") = PaidOn(s, c, "net") + s[n].amt
  BY ONLY n \notin c, AmountsOn(s, L), PaidMore
<1>2. s[n].kind # "fund" => PaidOn(s, With(c, n), "fund") = PaidOn(s, c, "fund")
  BY ONLY n \notin c, AmountsOn(s, L), PaidMore
<1> QED BY <1>1, <1>2

\* The merchant-net still owed, when there is any, is what is missing to the worth.
LEMMA OwedNetFact ==
  ASSUME LedgerAmounts, NEW total \in Nat
  PROVE  /\ OwedNet(total) \in Nat
         /\ OwedNet(total) > 0 => ledger.net + ledger.funding + OwedNet(total) = Worth(total)
<1> DEFINE carve == MeedCarve(Accruals(total))
           net == ledger.net
           funding == ledger.funding
<1>1. carve \in Nat /\ carve <= total /\ Worth(total) = total - carve
  BY WorthFact DEF Worth
<1>2. net \in Nat /\ funding \in Nat
  BY DEF LedgerAmounts
<1>3. OwedNet(total) = SatSub(SatSub(SatSub(total, carve), net), funding)
  BY DEF OwedNet, OutstandingMerchantNet
<1> HIDE DEF carve, net, funding
<1>4. /\ OwedNet(total) \in Nat
      /\ OwedNet(total) > 0 => net + funding + OwedNet(total) = Worth(total)
  BY <1>1, <1>2, <1>3 DEF SatSub
<1> QED
  BY <1>4 DEF net, funding

LEMMA CarveFact ==
  ASSUME NEW v \in [Roles -> Nat]
  PROVE  MeedCarve(v) \in Nat /\ BpDenom * MeedCarve(v) <= Total(v)
  BY TotalFact, BpDenomAssumption, DivFact DEF MeedCarve

LEMMA ProductMonotone ==
  ASSUME NEW a \in Nat, NEW b \in Nat, a <= b, NEW c \in Nat
  PROVE  a * c <= b * c
  OBVIOUS

\* An exact multiple divides out.
LEMMA WholeDivision ==
  ASSUME NEW b \in Nat \ {0}, NEW x \in Nat, NEW a \in Nat, b * x <= a
  PROVE  /\ (b * x) \div b = x
         /\ (a - b * x) \div b + x = a \div b
<1> DEFINE y == b * x
           q == a \div b
           c == a - y
           p == c \div b
<1>1. y \in Nat /\ c \in Nat /\ a = c + y
  OBVIOUS
<1>2. q \in Nat /\ b * q <= a /\ a < b * q + b
  BY DivFact
<1>3. p \in Nat /\ b * p <= c /\ c < b * p + b
  <2> HIDE DEF c
  <2> QED BY <1>1, DivFact
<1>4. y \div b \in Nat /\ b * (y \div b) <= y /\ y < b * (y \div b) + b
  <2> HIDE DEF y
  <2> QED BY <1>1, DivFact
<1> HIDE DEF p, q, c
<1>5. b * (p + x) = b * p + y /\ b * (q + 1) = b * q + b /\ b * (p + x + 1) = b * p + y + b
  BY <1>2, <1>3
<1>6. p + x < q + 1 /\ q < p + x + 1
  <2> HIDE DEF y
  <2>1. b * (p + x) < b * (q + 1) /\ b * q < b * (p + x + 1)
    BY <1>1, <1>2, <1>3, <1>5
  <2> QED
    BY <1>2, <1>3, <2>1, ScaleLess
<1>7. y \div b = x
  <2> DEFINE z == y \div b
  <2> HIDE DEF z
  <2>1. z \in Nat /\ b * z <= b * x /\ b * x < b * z + b
    BY <1>4 DEF z, y
  <2>2. b * (z + 1) = b * z + b
    BY <2>1
  <2>3. z <= x /\ x < z + 1
    <3>1. b * x < b * (z + 1)
      BY <2>1, <2>2
    <3> QED
      BY <2>1, <3>1, ScaleLess
  <2> QED
    BY <2>1, <2>3 DEF z
<1>8. p + x = q
  BY <1>2, <1>3, <1>6
<1> QED
  BY <1>7, <1>8 DEF p, q, c

(* Nothing metered, nothing owed. *)
LEMMA InitBooks == Init => BooksInv
<1> SUFFICES ASSUME Init PROVE BooksInv
  OBVIOUS
<1>1. IInv
  BY InitIInv
<1>2. /\ cum = 0 /\ balance = 0 /\ raced = 0 /\ ckpts = <<>> /\ Len(ckpts) = 0 /\ op = 0
      /\ DOMAIN rounds = {} /\ consumed = {} /\ Len(rail) = 0
      /\ ledger.settled = Zero /\ ledger.net = 0 /\ ledger.funding = 0
  BY DEF Init
<1>3. Zero \in [Roles -> Nat] /\ \A r \in Roles : Zero[r] = 0
  BY DEF Zero
<1>4. Total(Zero) = 0 /\ MeedCarve(Zero) = 0
  <2>1. Total(Zero) = 0
    BY <1>3, RolesFact, TotalFact, SumZero
  <2>2. \A b \in Nat \ {0} : 0 \div b = 0
    OBVIOUS
  <2> QED
    BY <2>1, <2>2, BpDenomAssumption DEF MeedCarve
<1>5. Metered
  BY <1>2 DEF Metered, OpCum
<1>6. LedgerAmounts /\ RoundsFit /\ RailAmounts
  BY <1>2, <1>3 DEF LedgerAmounts, RoundsFit, RailAmounts, NeverBack
<1>7. FundedP = 0
  BY <1>1, <1>2, <1>6, FundedNow
<1>8. MeedBacked
  BY <1>2, <1>4, <1>7, BpDenomAssumption DEF MeedBacked, SettledCarve
<1>9. SettledFits
  BY <1>2, <1>3, RolesFact DEF SettledFits, OpCum
<1>10. Credited
  <2>1. \A kind : KindIn(rail, consumed, kind) = {}
    BY <1>2 DEF KindIn
  <2>2. \A kind : PaidOn(rail, consumed, kind) = 0
    BY <2>1, SumEmpty DEF PaidOn
  <2> QED
    BY <1>2, <2>2 DEF Credited
<1>11. WithinWorth
  BY <1>2, WorthFact DEF WithinWorth
<1>12. Covered
  BY <1>2, <1>4 DEF Covered, SettledCarve
<1> QED
  BY <1>5, <1>6, <1>8, <1>9, <1>10, <1>11, <1>12 DEF BooksInv

(* What a step leaves alone. *)
LEMMA RailKept ==
  ASSUME UNCHANGED <<ledger, rail, consumed>>
  PROVE  /\ LedgerAmounts => LedgerAmounts'
         /\ RailAmounts => RailAmounts'
         /\ MeedBacked => MeedBacked'
         /\ Credited => Credited'
         /\ SettledCarve' = SettledCarve
  BY DEF LedgerAmounts, RailAmounts, MeedBacked, Credited, SettledCarve, FundedP, OnRail, KindIn, PaidOn

LEMMA QuietBooks ==
  ASSUME BooksInv, UNCHANGED vars
  PROVE  BooksInv'
<1>1. UNCHANGED <<ledger, rail, consumed>>
  BY DEF vars
<1>2. /\ cum' = cum /\ balance' = balance /\ ckpts' = ckpts /\ op' = op /\ rounds' = rounds
      /\ raced' = raced /\ ledger' = ledger
  BY DEF vars
<1>3. Metered' /\ SettledFits' /\ RoundsFit'
  BY <1>2 DEF BooksInv, Metered, SettledFits, RoundsFit, OpCum
<1>4. WithinWorth' /\ Covered'
  BY <1>1, <1>2, RailKept DEF BooksInv, WithinWorth, Covered
<1> QED
  BY <1>1, <1>3, <1>4, RailKept DEF BooksInv

(* A slice adds to CUM_TOTAL and to B alike. *)
LEMMA AcceptSliceBooks ==
  ASSUME BooksInv, NEW amt \in 1..MaxAmt, AcceptSlice(amt)
  PROVE  BooksInv'
<1>1. /\ cum' = cum + amt /\ balance' = balance + amt /\ ckpts' = ckpts /\ op' = op
      /\ rounds' = rounds /\ raced' = raced /\ ledger' = ledger
      /\ UNCHANGED <<ledger, rail, consumed>>
  BY DEF AcceptSlice
<1>2. amt \in Nat /\ cum \in Nat /\ balance \in Nat /\ raced \in Nat
  BY BoundAssumption DEF BooksInv, Metered
<1>3. OpCum' = OpCum /\ OpCum \in Nat
  BY <1>1 DEF OpCum, BooksInv, Metered
<1>4. Metered'
  <2>1. OpCum <= cum + amt
    BY <1>2, <1>3 DEF BooksInv, Metered
  <2> QED
    BY <1>1, <1>2, <1>3, <2>1 DEF BooksInv, Metered
<1>5. SettledFits' /\ RoundsFit'
  BY <1>1, <1>3 DEF BooksInv, SettledFits, RoundsFit
<1>6. LedgerAmounts /\ LedgerAmounts' /\ SettledCarve \in Nat /\ SettledCarve' = SettledCarve
  BY <1>1, RailKept, CarveFact DEF BooksInv, LedgerAmounts, SettledCarve
<1>7. WithinWorth'
  <2>1. Worth(cum) \in Nat /\ Worth(cum + amt) \in Nat /\ Worth(cum) <= Worth(cum + amt)
    <3>1. cum + amt \in Nat /\ cum <= cum + amt /\ cum + amt <= cum + amt
      BY <1>2
    <3> QED
      BY <1>2, <3>1, WorthFact
  <2>2. ledger.net + ledger.funding <= Worth(cum + amt) + raced
    BY <1>2, <1>6, <2>1 DEF BooksInv, WithinWorth, LedgerAmounts
  <2> QED
    BY <1>1, <2>2 DEF WithinWorth
<1>8. Covered'
  <2>1. balance + amt >= cum + amt - ledger.net - ledger.funding - SettledCarve
    BY <1>2, <1>6 DEF BooksInv, Covered, LedgerAmounts
  <2>2. Covered' <=> balance' >= cum' - ledger'.net - ledger'.funding - SettledCarve'
    BY DEF Covered
  <2>3. balance' >= cum' - ledger'.net - ledger'.funding - SettledCarve'
    BY <1>1, <1>2, <1>6, <2>1 DEF LedgerAmounts
  <2> QED
    BY <2>2, <2>3
<1> QED
  BY <1>1, <1>4, <1>5, <1>7, <1>8, RailKept DEF BooksInv

(* A checkpoint is never behind the operative one. *)
LEMMA CheckpointBooks ==
  ASSUME BooksInv, NEW total \in 0..cum, Checkpoint(total)
  PROVE  BooksInv'
<1>1. /\ ckpts' = Append(ckpts, total) /\ op' = Len(ckpts) + 1
      /\ op # 0 => total >= ckpts[op]
      /\ cum' = cum /\ balance' = balance /\ rounds' = rounds /\ raced' = raced
      /\ ledger' = ledger /\ UNCHANGED <<ledger, rail, consumed>>
  BY DEF Checkpoint
<1>2. /\ cum \in Nat /\ total \in Nat /\ total <= cum /\ ckpts \in Seq(Nat)
      /\ Len(ckpts) \in Nat /\ op \in 0..Len(ckpts)
      /\ DOMAIN rounds \subseteq 1..Len(ckpts)
  BY DEF BooksInv, Metered
<1>3. OpCum \in Nat /\ OpCum <= total
  BY <1>1, <1>2 DEF OpCum
<1>4. /\ ckpts' \in Seq(Nat) /\ Len(ckpts') = Len(ckpts) + 1
      /\ \A i \in 1..Len(ckpts) : ckpts'[i] = ckpts[i]
      /\ ckpts'[Len(ckpts) + 1] = total
  BY <1>1, <1>2
<1>5. OpCum' = total
  BY <1>1, <1>2, <1>4 DEF OpCum
<1>6. Metered'
  <2>1. \A i \in 1..Len(ckpts') : ckpts'[i] <= total
    <3> SUFFICES ASSUME NEW i \in 1..(Len(ckpts) + 1) PROVE ckpts'[i] <= total
      BY <1>4
    <3>1. CASE i = Len(ckpts) + 1
      BY <1>2, <1>4, <3>1
    <3>2. CASE i \in 1..Len(ckpts)
      <4>1. ckpts[i] \in Nat /\ ckpts[i] <= OpCum
        BY <1>2, <3>2 DEF BooksInv, Metered
      <4> QED
        BY <1>2, <1>3, <1>4, <3>2, <4>1
    <3> QED
      BY <1>2, <3>1, <3>2
  <2>2. op' \in 0..Len(ckpts') /\ op' # 0 /\ DOMAIN rounds \subseteq 1..Len(ckpts')
    BY <1>1, <1>2, <1>4
  <2> QED
    BY <1>1, <1>2, <1>4, <1>5, <2>1, <2>2 DEF BooksInv, Metered
<1>7. SettledFits'
  <2> SUFFICES ASSUME NEW r \in Roles PROVE ledger.settled[r] <= total * Bp[r]
    BY <1>1, <1>5 DEF SettledFits
  <2>1. ledger.settled[r] \in Nat /\ Bp[r] \in Nat /\ ledger.settled[r] <= OpCum * Bp[r]
    BY RolesFact DEF BooksInv, LedgerAmounts, SettledFits
  <2>2. OpCum * Bp[r] <= total * Bp[r]
    <3> DEFINE b == Bp[r]
               was == OpCum
    <3>1. b \in Nat /\ was \in Nat /\ was <= total
      BY <1>3, <2>1
    <3>2. was * b <= total * b
      <4> HIDE DEF b, was
      <4> QED BY <1>2, <3>1, ProductMonotone
    <3> QED
      BY <3>2
  <2>3. OpCum * Bp[r] \in Nat /\ total * Bp[r] \in Nat
    BY <1>2, <1>3, <2>1
  <2> QED
    BY <2>1, <2>2, <2>3
<1>8. RoundsFit'
  BY <1>1, <1>2, <1>4 DEF BooksInv, RoundsFit
<1>9. WithinWorth' /\ Covered'
  BY <1>1, RailKept DEF BooksInv, WithinWorth, Covered
<1> QED
  BY <1>1, <1>6, <1>7, <1>8, <1>9, RailKept DEF BooksInv

LEMMA CheckpointAgainBooks ==
  ASSUME BooksInv, NEW ref \in DOMAIN ckpts, CheckpointAgain(ref)
  PROVE  BooksInv'
<1>1. /\ op # 0 /\ ckpts[ref] = ckpts[op] /\ op' = ref
      /\ ckpts' = ckpts /\ cum' = cum /\ balance' = balance /\ rounds' = rounds /\ raced' = raced
      /\ ledger' = ledger /\ UNCHANGED <<ledger, rail, consumed>>
  BY DEF CheckpointAgain
<1>2. ref \in 1..Len(ckpts)
  BY DEF BooksInv, Metered
<1>3. OpCum' = OpCum
  BY <1>1, <1>2 DEF OpCum
<1>4. Metered'
  BY <1>1, <1>2, <1>3 DEF BooksInv, Metered
<1>5. SettledFits' /\ RoundsFit'
  BY <1>1, <1>3 DEF BooksInv, SettledFits, RoundsFit
<1>6. WithinWorth' /\ Covered'
  BY <1>1, RailKept DEF BooksInv, WithinWorth, Covered
<1> QED
  BY <1>1, <1>4, <1>5, <1>6, RailKept DEF BooksInv

(* A transfer is appended, and an advance never goes back. *)
LEMMA TransferBooks ==
  ASSUME IInv, BooksInv, NEW x, Transfer(x), x.amt \in Nat,
         x.kind = "meed" => x.memo = 0 /\ x.amt >= FundedP
  PROVE  BooksInv'
<1>1. /\ rail' = Append(rail, x) /\ ckpts' = ckpts /\ op' = op /\ cum' = cum
      /\ balance' = balance /\ rounds' = rounds /\ raced' = raced
      /\ ledger' = ledger /\ consumed' = consumed
  BY DEF Transfer
<1>2. PICK S : rail \in Seq(S)
  BY DEF IInv, Types
<1>3. /\ Len(rail) \in Nat /\ Len(rail') = Len(rail) + 1
      /\ \A i \in 1..Len(rail) : rail'[i] = rail[i]
      /\ rail'[Len(rail) + 1] = x
  BY <1>1, <1>2, AppendAny
<1>4. IInv'
  BY TransferIInv
<1>5. /\ FundedP \in Nat
      /\ \A i \in 1..Len(rail) : rail[i].kind = "meed" => rail[i].amt <= FundedP
      /\ FundedP = 0 \/ \E i \in 1..Len(rail) : rail[i].kind = "meed" /\ rail[i].amt = FundedP
  BY FundedNow DEF BooksInv
<1>6. RailAmounts'
  <2>1. \A i \in 1..Len(rail') : rail'[i].amt \in Nat
    BY <1>3 DEF BooksInv, RailAmounts, NeverBack
  <2>2. ASSUME NEW i \in 1..Len(rail'), NEW j \in 1..Len(rail'), i <= j,
               rail'[i].kind = "meed", rail'[j].kind = "meed"
        PROVE  rail'[i].amt <= rail'[j].amt
    <3>1. CASE j \in 1..Len(rail)
      <4>1. i \in 1..Len(rail)
        BY <1>3, <2>2, <3>1
      <4> QED
        BY <1>3, <2>2, <3>1, <4>1 DEF BooksInv, RailAmounts, NeverBack
    <3>2. CASE j = Len(rail) + 1 /\ i \in 1..Len(rail)
      <4>1. rail'[i].amt = rail[i].amt /\ rail[i].amt <= FundedP /\ rail[i].amt \in Nat
        BY <1>3, <1>5, <2>2, <3>2 DEF BooksInv, RailAmounts, NeverBack
      <4>2. rail'[j].amt = x.amt /\ x.amt >= FundedP
        BY <1>3, <2>2, <3>2
      <4> QED
        BY <1>5, <4>1, <4>2
    <3>3. CASE j = Len(rail) + 1 /\ i = Len(rail) + 1
      BY <1>3, <3>3
    <3> QED
      BY <1>3, <3>1, <3>2, <3>3
  <2> QED
    BY <2>1, <2>2 DEF RailAmounts, NeverBack
<1>7. FundedP' \in Nat /\ FundedP <= FundedP'
  <2>1. /\ FundedP' \in Nat
        /\ \A i \in 1..Len(rail') : rail'[i].kind = "meed" => rail'[i].amt <= FundedP'
    <3> DEFINE s == rail'
    <3>1. Len(s) \in Nat /\ DOMAIN s = 1..Len(s)
      BY <1>4 DEF IInv, Types
    <3>2. NeverBack(s) /\ \A i \in 1..Len(s) : s[i].kind = "meed" => s[i].memo = 0
      BY <1>4, <1>6 DEF IInv, RailInv, RailAmounts
    <3>3. /\ FundedOn(s) \in Nat
          /\ \A i \in 1..Len(s) : s[i].kind = "meed" => s[i].amt <= FundedOn(s)
      <4> HIDE DEF s
      <4> QED BY <3>1, <3>2, FundedFact
    <3> QED
      BY <3>3, FundedIs
  <2>2. CASE FundedP = 0
    BY <2>1, <2>2
  <2>3. ASSUME NEW i \in 1..Len(rail), rail[i].kind = "meed", rail[i].amt = FundedP
        PROVE  FundedP <= FundedP'
    <3>1. i \in 1..Len(rail') /\ rail'[i] = rail[i]
      BY <1>3
    <3> QED
      BY <2>1, <2>3, <3>1
  <2> QED
    BY <1>5, <2>1, <2>2, <2>3
<1>8. LedgerAmounts' /\ SettledCarve' = SettledCarve
  BY <1>1 DEF BooksInv, LedgerAmounts, SettledCarve
<1>9. MeedBacked'
  <2>1. Total(ledger.settled) \in Nat /\ BpDenom \in Nat
    BY TotalFact, BpDenomAssumption DEF BooksInv, LedgerAmounts
  <2>2. Total(ledger.settled) <= BpDenom * FundedP'
    <3> DEFINE a == FundedP
               b == FundedP'
    <3>1. a \in Nat /\ b \in Nat /\ a <= b /\ Total(ledger.settled) <= BpDenom * a
      BY <1>5, <1>7 DEF BooksInv, MeedBacked
    <3>2. BpDenom * a <= BpDenom * b /\ BpDenom * a \in Nat /\ BpDenom * b \in Nat
      <4> HIDE DEF a, b
      <4> QED BY <2>1, <3>1
    <3> QED
      BY <2>1, <3>1, <3>2
  <2>3. Total(ledger.settled) = BpDenom * SettledCarve
    BY DEF BooksInv, MeedBacked
  <2>4. MeedBacked' <=> /\ Total(ledger'.settled) = BpDenom * SettledCarve'
                        /\ Total(ledger'.settled) <= BpDenom * FundedP'
    BY DEF MeedBacked
  <2> QED
    BY <1>1, <1>8, <2>2, <2>3, <2>4
<1>10. Credited'
  <2>1. consumed \in SUBSET (1..Len(rail)) /\ \A i \in consumed : rail[i].kind # "meed"
    BY DEF BooksInv, Credited
  <2>2. ASSUME NEW kind PROVE PaidOn(rail', consumed, kind) = PaidOn(rail, consumed, kind)
    <3> DEFINE s == rail
               t == rail'
               L == Len(rail)
    <3>1. consumed \in SUBSET (1..L) /\ \A i \in 1..L : t[i] = s[i]
      BY <1>3, <2>1
    <3>2. PaidOn(t, consumed, kind) = PaidOn(s, consumed, kind)
      <4> HIDE DEF s, t, L
      <4> QED BY <3>1, PaidSame
    <3> QED
      BY <3>2
  <2>3. consumed' \subseteq 1..Len(rail') /\ \A i \in consumed' : rail'[i].kind # "meed"
    BY <1>1, <1>3, <2>1
  <2> QED
    BY <1>1, <2>2, <2>3 DEF BooksInv, Credited
<1>11. Metered' /\ SettledFits' /\ RoundsFit'
  BY <1>1 DEF BooksInv, Metered, SettledFits, RoundsFit, OpCum
<1>12. WithinWorth' /\ Covered'
  BY <1>1, <1>8 DEF BooksInv, WithinWorth, Covered
<1> QED
  BY <1>6, <1>8, <1>9, <1>10, <1>11, <1>12 DEF BooksInv

(* The terms of a new round: it asks for what is outstanding at its checkpoint. *)
LEMMA RecomputedFits ==
  ASSUME BooksInv, NEW total \in Nat,
         ConsistentHistory(Accruals(total), ledger.settled),
         NEW d, d = RecomputeRound(total)
  PROVE  /\ RoundAmounts(d) /\ MeedFits(total, d, ledger.settled)
         /\ d.output = OwedNet(total) /\ d.output \in Nat
<1> DEFINE acc == Accruals(total)
           settled == ledger.settled
           n == OutstandingMeedPerRole(acc, settled)
           div == DivideRound(n, Unity)
           whole == DivideRound(acc, Unity)
           X == MeedCarve(settled)
<1>1. acc \in [Roles -> Nat] /\ settled \in [Roles -> Nat] /\ DOMAIN acc = Roles
  BY AccrualsFact DEF BooksInv, LedgerAmounts
<1>2. \A r \in Roles : settled[r] <= acc[r]
  BY <1>1 DEF ConsistentHistory
<1>3. n \in [Roles -> Nat] /\ \A r \in Roles : n[r] = acc[r] - settled[r]
  <2> HIDE DEF acc, settled
  <2>1. \A r \in Roles : acc[r] - settled[r] \in Nat
    BY <1>1, <1>2
  <2> QED
    BY <1>1, <2>1 DEF OutstandingMeedPerRole
<1>4. Total(acc) = Total(n) + Total(settled) /\ Total(n) \in Nat /\ Total(acc) \in Nat
  <2>1. SumsOn(acc, n, settled, Roles)
    <3> HIDE DEF acc, settled, n
    <3>1. \A r \in Roles : acc[r] = n[r] + settled[r]
      BY <1>1, <1>3
    <3> QED
      BY <3>1 DEF SumsOn
  <2>2. IntOn(n, Roles) /\ IntOn(settled, Roles) /\ IsFiniteSet(Roles)
    <3> HIDE DEF acc, settled, n
    <3> QED BY <1>1, <1>3, TotalFact, RolesFact
  <2> HIDE DEF acc, settled, n
  <2>3. SumOver(acc, Roles) = SumOver(n, Roles) + SumOver(settled, Roles)
    BY <2>1, <2>2, SumAdd
  <2> QED
    BY <1>1, <1>3, <2>3, TotalFact
<1>5. /\ div.p = Total(n) \div BpDenom /\ div.p \in Nat
      /\ div.leg <=> div.p # 0
      /\ div.er \in [Roles -> Nat] /\ Total(div.er) = BpDenom * div.p
      /\ \A r \in Roles : div.er[r] <= n[r]
  <2> HIDE DEF n
  <2> QED BY <1>3, UnityDivision
<1>6. CumulativeTargetP(total) = Total(acc) \div BpDenom /\ CumulativeTargetP(total) \in Nat
  <2>1. CumulativeTargetP(total) = whole.p
    BY DEF CumulativeTargetP
  <2> HIDE DEF acc
  <2> QED
    BY <1>1, <2>1, UnityDivision
<1>7. X \in Nat /\ Total(settled) = BpDenom * X
  BY <1>1, CarveFact DEF BooksInv, MeedBacked, SettledCarve
<1>8. CumulativeTargetP(total) = X + div.p
  <2> DEFINE a == Total(acc)
             b == Total(n)
  <2>1. a \in Nat /\ b \in Nat /\ a = b + BpDenom * X
    BY <1>4, <1>7
  <2>2. CumulativeTargetP(total) = a \div BpDenom /\ div.p = b \div BpDenom
    BY <1>5, <1>6
  <2> HIDE DEF a, b, X, div
  <2>3. b = a - BpDenom * X /\ BpDenom * X <= a /\ BpDenom \in Nat \ {0}
    BY <1>7, <2>1, BpDenomAssumption
  <2>4. (a - BpDenom * X) \div BpDenom + X = a \div BpDenom
    BY <1>7, <2>1, <2>3, WholeDivision
  <2>5. div.p + X = CumulativeTargetP(total)
    BY <2>2, <2>3, <2>4
  <2> QED
    BY <1>5, <1>7, <2>5
<1>9. /\ d.meed = (IF div.leg THEN div.p ELSE 0) /\ d.er = div.er
      /\ d.targetP = (IF div.leg THEN CumulativeTargetP(total) ELSE 0)
      /\ d.output = OwedNet(total)
  BY DEF RecomputeRound
<1>10. OwedNet(total) \in Nat
  BY OwedNetFact DEF BooksInv
<1> HIDE DEF div, n, X, acc
<1>11. d.meed = div.p /\ d.meed \in Nat /\ d.targetP \in Nat
       /\ (d.meed > 0 => d.targetP = X + d.meed)
  BY <1>5, <1>6, <1>8, <1>9
<1>12. \A r \in Roles : settled[r] + d.er[r] <= total * Bp[r]
  <2> SUFFICES ASSUME NEW r \in Roles PROVE settled[r] + d.er[r] <= total * Bp[r]
    OBVIOUS
  <2>1. acc[r] = total * Bp[r]
    BY DEF acc, Accruals
  <2>2. acc[r] \in Nat /\ settled[r] \in Nat /\ n[r] = acc[r] - settled[r]
        /\ div.er[r] <= n[r] /\ div.er[r] \in Nat
    BY <1>1, <1>3, <1>5
  <2>3. settled[r] + div.er[r] <= acc[r]
    <3> HIDE DEF settled
    <3> QED BY <2>2
  <2> QED
    BY <1>9, <2>1, <2>3
<1>13. RoundAmounts(d)
  BY <1>5, <1>9, <1>10, <1>11 DEF RoundAmounts
<1>14. MeedFits(total, d, settled)
  BY <1>5, <1>9, <1>11, <1>12 DEF MeedFits, X
<1> QED
  BY <1>9, <1>10, <1>13, <1>14

(* A proposal finds no other round in flight. *)
LEMMA SettlementProposeBooks ==
  ASSUME IInv, BooksInv, NEW ref \in DOMAIN ckpts, SettlementPropose(ref)
  PROVE  BooksInv'
<1> DEFINE total == ckpts[ref]
           d == RecomputeRound(total)
           taken == ledger.net + ledger.funding
<1>1. /\ ref \notin DOMAIN rounds /\ InFlight \subseteq {ref}
      /\ ConsistentHistory(Accruals(total), ledger.settled)
      /\ rounds' = [k \in DOMAIN rounds \cup {ref} |-> IF k = ref THEN d ELSE rounds[k]]
      /\ raced' = (IF d.output > 0 THEN 0 ELSE raced)
      /\ ckpts' = ckpts /\ op' = op /\ cum' = cum /\ balance' = balance
      /\ ledger' = ledger /\ UNCHANGED <<ledger, rail, consumed>>
  BY DEF SettlementPropose, AdmitsRound
<1>2. ref \in 1..Len(ckpts) /\ total \in Nat /\ cum \in Nat /\ raced \in Nat /\ total <= cum
  <2>1. ref \in 1..Len(ckpts) /\ total \in Nat /\ cum \in Nat /\ raced \in Nat
    BY DEF BooksInv, Metered
  <2>2. total <= OpCum /\ OpCum <= cum /\ OpCum \in Nat
    BY <2>1 DEF BooksInv, Metered, OpCum
  <2> QED
    BY <2>1, <2>2
<1>3. /\ RoundAmounts(d) /\ MeedFits(total, d, ledger.settled)
      /\ d.output = OwedNet(total) /\ d.output \in Nat
  BY <1>1, <1>2, RecomputedFits
<1>4. taken \in Nat /\ (d.output > 0 => taken + d.output = Worth(total))
  <2>1. d.output > 0 => ledger.net + ledger.funding + d.output = Worth(total)
    BY <1>2, <1>3, OwedNetFact DEF BooksInv
  <2> QED
    BY <2>1 DEF BooksInv, LedgerAmounts
<1>5. Worth(total) \in Nat /\ Worth(cum) \in Nat /\ Worth(total) <= Worth(cum)
  <2>1. cum <= cum
    BY <1>2
  <2> QED
    BY <1>2, <2>1, WorthFact
<1> HIDE DEF d, total
<1>6. raced' \in Nat
  BY <1>1, <1>2
<1>7. NetFits(total, d, taken, raced')
  <2> HIDE DEF taken
  <2>1. ASSUME d.output > 0 PROVE taken + d.output <= Worth(total) + raced'
    BY <1>3, <1>4, <1>5, <1>6, <2>1
  <2> QED
    BY <2>1 DEF NetFits
<1>8. \A k \in DOMAIN rounds : rounds[k].confirmed
  BY <1>1 DEF InFlight
<1>9. RoundsFit'
  <2> SUFFICES ASSUME NEW k \in DOMAIN rounds \cup {ref}
               PROVE  /\ RoundAmounts(rounds'[k])
                      /\ MeedFits(ckpts[k], rounds'[k], ledger.settled)
                      /\ NetFits(ckpts[k], rounds'[k], taken, raced')
    BY <1>1 DEF RoundsFit
  <2>1. CASE k = ref
    BY <1>1, <1>3, <1>7, <2>1 DEF total
  <2>2. CASE k # ref
    <3>1. rounds'[k] = rounds[k] /\ rounds[k].confirmed /\ RoundAmounts(rounds[k])
      BY <1>1, <1>8, <2>2 DEF BooksInv, RoundsFit
    <3> QED
      BY <3>1 DEF MeedFits, NetFits
  <2> QED
    BY <2>1, <2>2
<1>10. Metered'
  BY <1>1, <1>2, <1>6 DEF BooksInv, Metered, OpCum
<1>11. SettledFits'
  BY <1>1 DEF BooksInv, SettledFits, OpCum
<1>12. Covered'
  BY <1>1, RailKept DEF BooksInv, Covered
<1>13. WithinWorth'
  <2>1. taken <= Worth(cum) + raced'
    <3>1. CASE d.output > 0
      <4> HIDE DEF taken
      <4> QED BY <1>3, <1>4, <1>5, <1>6, <3>1
    <3>2. CASE ~(d.output > 0)
      BY <1>1, <3>2 DEF BooksInv, WithinWorth
    <3> QED
      BY <3>1, <3>2
  <2> QED
    BY <1>1, <2>1 DEF WithinWorth
<1> QED
  BY <1>1, <1>9, <1>10, <1>11, <1>12, <1>13, RailKept DEF BooksInv

(* What a proof adds to the ledger. *)
LEMMA FoldedAmounts ==
  ASSUME IInv, BooksInv, NEW ref \in DOMAIN rounds, NEW m, NEW n, NEW d, d = rounds[ref],
         NEW after, after = FoldedLedger(d, m, n)
  PROVE  /\ after.funding = ledger.funding
         /\ after.net = IF FoldNetNow(d, n) THEN ledger.net + d.output ELSE ledger.net
         /\ FoldMeedNow(d, m) => /\ after.settled \in [Roles -> Nat]
                                 /\ \A r \in Roles : after.settled[r] = ledger.settled[r] + d.er[r]
                                 /\ Total(after.settled) = Total(ledger.settled) + Total(d.er)
         /\ ~FoldMeedNow(d, m) => after.settled = ledger.settled
<1> DEFINE sum == [r \in Roles |-> ledger.settled[r] + d.er[r]]
<1>1. "settled" \in DOMAIN ledger /\ "net" \in DOMAIN ledger /\ "funding" \in DOMAIN ledger
  BY DEF IInv, Types, LedgerFields
<1>2. after.funding = ledger.funding
  BY <1>1 DEF FoldedLedger
<1>3. after.net = IF FoldNetNow(d, n) THEN ledger.net + d.output ELSE ledger.net
  BY <1>1 DEF FoldedLedger
<1>4. after.settled = IF FoldMeedNow(d, m) THEN sum ELSE ledger.settled
  BY <1>1 DEF FoldedLedger
<1>5. ledger.settled \in [Roles -> Nat] /\ d.er \in [Roles -> Nat]
  BY DEF BooksInv, LedgerAmounts, RoundsFit, RoundAmounts
<1>6. sum \in [Roles -> Nat] /\ \A r \in Roles : sum[r] = ledger.settled[r] + d.er[r]
  BY <1>5
<1>7. Total(sum) = Total(ledger.settled) + Total(d.er)
  <2> DEFINE a == ledger.settled
             b == d.er
  <2>1. a \in [Roles -> Nat] /\ b \in [Roles -> Nat] /\ SumsOn(sum, a, b, Roles)
    BY <1>5, <1>6 DEF SumsOn
  <2> HIDE DEF a, b, sum
  <2>2. IntOn(a, Roles) /\ IntOn(b, Roles) /\ IsFiniteSet(Roles)
    BY <2>1, TotalFact, RolesFact
  <2>3. SumOver(sum, Roles) = SumOver(a, Roles) + SumOver(b, Roles)
    BY <2>1, <2>2, SumAdd
  <2>4. Total(sum) = Total(a) + Total(b)
    BY <1>6, <2>1, <2>3, TotalFact
  <2> QED
    BY <2>4 DEF a, b
<1> HIDE DEF sum
<1> QED
  BY <1>2, <1>3, <1>4, <1>6, <1>7

\* The arithmetic of a proof and of a funding credit: what is added stays within the
\* worth, and what leaves B is what the ledger has gained.
LEMMA AddWithin ==
  ASSUME NEW a \in Nat, NEW b \in Nat, NEW c \in Nat, NEW w \in Nat, NEW v \in Nat, NEW x \in Nat,
         a + b + c <= w + x, w <= v
  PROVE  (a + c) + b <= v + x
  OBVIOUS

LEMMA CoverKept ==
  ASSUME NEW b \in Nat, NEW b2 \in Nat, NEW t \in Nat, NEW n \in Nat, NEW n2 \in Nat, NEW f \in Nat,
         NEW x \in Nat, NEW y \in Nat, n <= n2, x <= y,
         b >= t - n - f - x, b2 >= b - ((y - x) + (n2 - n))
  PROVE  b2 >= t - n2 - f - y
  OBVIOUS

(* A proof folds the legs of its round: the books move by what the transfers moved. *)
LEMMA SettlementProofBooks ==
  ASSUME IInv, BooksInv, NEW ref \in DOMAIN rounds, NEW m \in 0..Len(rail), NEW n \in 0..Len(rail),
         SettlementProof(ref, m, n)
  PROVE  BooksInv'
<1> DEFINE d == rounds[ref]
           after == FoldedLedger(d, m, n)
           f == Folded(d, m, n, after.version)
           total == ckpts[ref]
<1>1. /\ ~d.confirmed /\ ledger' = after
      /\ m # 0 => MeedLegOk(d, m)
      /\ n # 0 => NetLegOk(ref, d, n)
      /\ FoldNetNow(d, n) => n \notin consumed
      /\ rounds' = [rounds EXCEPT ![ref] = f]
      /\ consumed' = (IF FoldNetNow(d, n) THEN consumed \cup {n} ELSE consumed)
      /\ balance' = SatSub(balance, GrossSettled(after))
      /\ cum' = cum /\ ckpts' = ckpts /\ op' = op /\ rail' = rail /\ raced' = raced
  BY DEF SettlementProof, ProofAdmitted
<1>2. /\ RoundTyped(d) /\ RoundAmounts(d) /\ MeedFits(total, d, ledger.settled)
      /\ NetFits(total, d, ledger.net + ledger.funding, raced)
  BY DEF IInv, Types, BooksInv, RoundsFit
<1>3. m \in Nat /\ n \in Nat /\ Len(rail) \in Nat /\ DOMAIN rail = 1..Len(rail)
  BY DEF IInv, Types
<1>4. /\ f.meed = d.meed /\ f.targetP = d.targetP /\ f.er = d.er /\ f.output = d.output
      /\ f.meedFolded <=> d.meedFolded \/ FoldMeedNow(d, m)
      /\ f.netFolded <=> d.netFolded \/ FoldNetNow(d, n)
  <2> HIDE DEF d, after
  <2> QED BY <1>2, <1>3, FoldedFacts
<1>5. /\ after.funding = ledger.funding
      /\ after.net = (IF FoldNetNow(d, n) THEN ledger.net + d.output ELSE ledger.net)
      /\ FoldMeedNow(d, m) => /\ after.settled \in [Roles -> Nat]
                              /\ \A r \in Roles : after.settled[r] = ledger.settled[r] + d.er[r]
                              /\ Total(after.settled) = Total(ledger.settled) + Total(d.er)
      /\ ~FoldMeedNow(d, m) => after.settled = ledger.settled
  BY FoldedAmounts
<1>6. ledger.settled \in [Roles -> Nat] /\ ledger.net \in Nat /\ ledger.funding \in Nat
  BY DEF BooksInv, LedgerAmounts
<1>7. /\ ref \in 1..Len(ckpts) /\ total \in Nat /\ cum \in Nat /\ raced \in Nat /\ balance \in Nat
      /\ OpCum \in Nat /\ total <= OpCum /\ OpCum <= cum
  BY DEF BooksInv, Metered, OpCum
<1>8. d.output \in Nat /\ d.meed \in Nat /\ d.targetP \in Nat /\ d.er \in [Roles -> Nat]
  BY <1>2 DEF RoundAmounts
<1>9. \A k \in DOMAIN rounds : k # ref => rounds[k].confirmed
  BY <1>1 DEF IInv, Serialized
<1>10. RoundsFit /\ DOMAIN rounds' = DOMAIN rounds /\ rounds'[ref] = f
       /\ \A k \in DOMAIN rounds : k # ref => rounds'[k] = rounds[k]
  BY <1>1 DEF BooksInv, IInv, Types
<1> HIDE DEF d, after, f, total
<1>11. LedgerAmounts' /\ after.net \in Nat /\ after.settled \in [Roles -> Nat]
  <2>1. after.settled \in [Roles -> Nat]
    <3>1. CASE FoldMeedNow(d, m)
      BY <1>5, <3>1
    <3>2. CASE ~FoldMeedNow(d, m)
      BY <1>5, <1>6, <3>2
    <3> QED
      BY <3>1, <3>2
  <2>2. after.net \in Nat
    <3>1. CASE FoldNetNow(d, n)
      <4>1. after.net = ledger.net + d.output
        BY <1>5, <3>1
      <4> QED
        BY <1>6, <1>8, <4>1
    <3>2. CASE ~FoldNetNow(d, n)
      BY <1>5, <1>6, <3>2
    <3> QED
      BY <3>1, <3>2
  <2>3. after.funding \in Nat
    BY <1>5, <1>6
  <2> QED
    BY <1>1, <2>1, <2>2, <2>3 DEF LedgerAmounts
<1>12. FoldNetNow(d, n) => d.output > 0 /\ ~d.netFolded /\ rail[n].kind = "net" /\ rail[n].amt = d.output
                           /\ n \in 1..Len(rail)
  BY <1>1, <1>3 DEF FoldNetNow, NetLegOk
<1>13. FoldMeedNow(d, m) => d.meed > 0 /\ ~d.meedFolded /\ rail[m].kind = "meed" /\ rail[m].amt >= d.targetP
                            /\ m \in 1..Len(rail)
  BY <1>1, <1>3 DEF FoldMeedNow, MeedLegOk
<1>14. SettledFits'
  <2> SUFFICES ASSUME NEW r \in Roles PROVE after.settled[r] <= OpCum * Bp[r]
    BY <1>1 DEF SettledFits, OpCum
  <2>1. CASE ~FoldMeedNow(d, m)
    BY <1>5, <2>1 DEF BooksInv, SettledFits
  <2>2. CASE FoldMeedNow(d, m)
    <3>1. after.settled[r] = ledger.settled[r] + d.er[r] /\ after.settled[r] \in Nat
      BY <1>5, <2>2
    <3>2. ledger.settled[r] + d.er[r] <= total * Bp[r]
      BY <1>1, <1>2, <1>13, <2>2 DEF MeedFits
    <3> DEFINE b == Bp[r]
               far == OpCum
    <3>3. b \in Nat /\ far \in Nat /\ total <= far
      BY <1>7, RolesFact
    <3>4. total * b <= far * b /\ total * b \in Nat /\ far * b \in Nat
      <4> HIDE DEF b, far
      <4> QED BY <1>7, <3>3, ProductMonotone
    <3>5. after.settled[r] <= total * b
      BY <3>1, <3>2
    <3>6. after.settled[r] <= far * b
      <4> HIDE DEF b, far
      <4> QED BY <3>1, <3>4, <3>5
    <3> QED
      BY <3>6
  <2> QED
    BY <2>1, <2>2
<1>15. /\ Total(after.settled) = BpDenom * MeedCarve(after.settled)
       /\ Total(after.settled) <= BpDenom * FundedP
  <2>1. CASE ~FoldMeedNow(d, m)
    BY <1>5, <2>1 DEF BooksInv, MeedBacked, SettledCarve
  <2>2. CASE FoldMeedNow(d, m)
    <3> DEFINE X == MeedCarve(ledger.settled)
               Y == X + d.meed
               F == FundedP
    <3>1. X \in Nat /\ Total(ledger.settled) = BpDenom * X
      BY <1>6, CarveFact DEF BooksInv, MeedBacked, SettledCarve
    <3>2. Total(d.er) = BpDenom * d.meed /\ d.targetP = Y
      BY <1>1, <1>2, <1>13, <2>2 DEF MeedFits
    <3>3. F \in Nat /\ d.targetP <= F
      <4>1. FundedP \in Nat /\ rail[m].amt <= FundedP /\ rail[m].amt \in Nat
        BY <1>13, <2>2, FundedNow DEF BooksInv, RailAmounts, NeverBack
      <4> QED
        BY <1>8, <1>13, <2>2, <4>1
    <3>4. BpDenom \in Nat \ {0}
      BY BpDenomAssumption
    <3>5. Total(after.settled) = BpDenom * X + BpDenom * d.meed
      BY <1>5, <2>2, <3>1, <3>2
    <3> HIDE DEF X, F
    <3>6. Total(after.settled) = BpDenom * Y /\ Y \in Nat
      BY <1>8, <3>1, <3>4, <3>5, Distributes
    <3>7. MeedCarve(after.settled) = Y
      <4>1. BpDenom * Y \in Nat /\ BpDenom * Y <= BpDenom * Y
        BY <3>4, <3>6
      <4> HIDE DEF Y
      <4>2. (BpDenom * Y) \div BpDenom = Y
        BY <3>4, <3>6, <4>1, WholeDivision
      <4> QED
        BY <3>6, <4>2 DEF MeedCarve
    <3>8. BpDenom * Y <= BpDenom * F
      <4> HIDE DEF Y
      <4> QED BY <3>2, <3>3, <3>4, <3>6
    <3> HIDE DEF Y
    <3> QED
      BY <3>6, <3>7, <3>8 DEF F
  <2> QED
    BY <2>1, <2>2
<1>16. MeedBacked'
  <2>1. FundedP' = FundedP
    BY <1>1 DEF FundedP, OnRail
  <2>2. MeedBacked' <=> /\ Total(ledger'.settled) = BpDenom * MeedCarve(ledger'.settled)
                        /\ Total(ledger'.settled) <= BpDenom * FundedP'
    BY DEF MeedBacked, SettledCarve
  <2> QED
    BY <1>1, <1>15, <2>1, <2>2
<1>17. Credited'
  <2> DEFINE s == rail
             L == Len(rail)
             net == PaidOn(rail, consumed, "net")
  <2>1. consumed \in SUBSET (1..L) /\ \A i \in consumed : s[i].kind # "meed"
    BY DEF BooksInv, Credited
  <2>2. ledger.net = net /\ ledger.funding <= PaidOn(s, consumed, "fund")
    BY DEF BooksInv, Credited
  <2>3. CASE ~FoldNetNow(d, n)
    BY <1>1, <1>5, <2>1, <2>2, <2>3 DEF Credited
  <2>4. CASE FoldNetNow(d, n)
    <3>1. n \in 1..L /\ n \notin consumed /\ L \in Nat /\ \A i \in 1..L : s[i].amt \in Nat
      BY <1>1, <1>3, <1>12, <2>4 DEF BooksInv, RailAmounts, NeverBack
    <3>2. consumed \in SUBSET (1..L) /\ n \in 1..L /\ n \notin consumed /\ L \in Nat /\ AmountsOn(s, L)
      BY <2>1, <3>1 DEF AmountsOn
    <3>3. /\ s[n].kind = "net" => PaidOn(s, With(consumed, n), "net") = PaidOn(s, consumed, "net") + s[n].amt
          /\ s[n].kind # "fund" => PaidOn(s, With(consumed, n), "fund") = PaidOn(s, consumed, "fund")
      <4> HIDE DEF s, L, net
      <4> QED BY ONLY <3>2, NetPaid
    <3>4. s[n].kind = "net" /\ s[n].amt = d.output
      BY <1>12, <2>4
    <3>5. /\ PaidOn(s, With(consumed, n), "net") = ledger.net + d.output
          /\ PaidOn(s, With(consumed, n), "fund") = PaidOn(s, consumed, "fund")
      BY <2>2, <3>3, <3>4
    <3>6. after.net = ledger.net + d.output /\ consumed' = With(consumed, n) /\ rail' = s
      BY <1>1, <1>5, <2>4 DEF With
    <3>7. consumed' \subseteq 1..L /\ \A i \in consumed' : s[i].kind # "meed"
      BY <2>1, <3>1, <3>4, <3>6 DEF With
    <3> QED
      BY <1>1, <1>5, <2>2, <3>5, <3>6, <3>7 DEF Credited
  <2> QED
    BY <2>3, <2>4
<1>18. Worth(total) \in Nat /\ Worth(cum) \in Nat /\ Worth(total) <= Worth(cum)
  <2>1. total <= cum /\ cum <= cum
    BY <1>7
  <2> QED
    BY <1>7, <2>1, WorthFact
<1>19. WithinWorth'
  <2>1. after.net + after.funding <= Worth(cum) + raced
    <3>1. CASE ~FoldNetNow(d, n)
      BY <1>5, <3>1 DEF BooksInv, WithinWorth
    <3>2. CASE FoldNetNow(d, n)
      <4>1. ledger.net + ledger.funding + d.output <= Worth(total) + raced
        BY <1>1, <1>2, <1>12, <3>2 DEF NetFits
      <4>2. after.net = ledger.net + d.output /\ after.funding = ledger.funding
        BY <1>5, <3>2
      <4> QED
        BY <1>6, <1>7, <1>8, <1>18, <4>1, <4>2, AddWithin
    <3> QED
      BY <3>1, <3>2
  <2> QED
    BY <1>1, <2>1 DEF WithinWorth
<1>20. Covered' /\ balance' \in Nat
  <2> DEFINE X == MeedCarve(ledger.settled)
             Y == MeedCarve(after.settled)
             g == GrossSettled(after)
  <2>1. X \in Nat /\ Y \in Nat
    BY <1>6, <1>11, CarveFact
  <2>2. g = (Y - X) + (after.net - ledger.net) /\ X <= Y /\ ledger.net <= after.net
    <3>1. g = (Y - X) + (after.net - ledger.net)
      BY DEF GrossSettled
    <3>2. ledger.net <= after.net
      BY <1>5, <1>6, <1>8
    <3>3. X <= Y
      <4>1. CASE ~FoldMeedNow(d, m)
        BY <1>5, <2>1, <4>1
      <4>2. CASE FoldMeedNow(d, m)
        <5>1. Total(ledger.settled) = BpDenom * X /\ Total(after.settled) = BpDenom * Y
          BY <1>15 DEF BooksInv, MeedBacked, SettledCarve
        <5>2. Total(ledger.settled) <= Total(after.settled)
          <6>1. Total(ledger.settled) \in Nat /\ Total(d.er) \in Nat
            BY <1>6, <1>8, TotalFact
          <6> QED
            BY <1>5, <4>2, <6>1
        <5> HIDE DEF X, Y
        <5>3. BpDenom * X <= BpDenom * Y
          BY <5>1, <5>2
        <5> QED
          BY <2>1, <5>3, BpDenomAssumption, ScaleLess
      <4> QED
        BY <4>1, <4>2
    <3> QED
      BY <3>1, <3>2, <3>3
  <2>3. balance >= cum - ledger.net - ledger.funding - X
    BY DEF BooksInv, Covered, SettledCarve
  <2> HIDE DEF X, Y, g
  <2>4. balance' = SatSub(balance, g)
    BY <1>1 DEF g
  <2>5. g \in Nat
    BY <1>6, <1>11, <2>1, <2>2
  <2>6. balance' \in Nat /\ balance' >= balance - g
    BY <1>7, <2>4, <2>5 DEF SatSub
  <2>7. balance' >= cum - after.net - ledger.funding - Y
    <3>1. balance' >= balance - ((Y - X) + (after.net - ledger.net))
      BY <2>2, <2>6
    <3> QED
      BY <1>6, <1>7, <1>11, <2>1, <2>2, <2>3, <2>6, <3>1, CoverKept
  <2>8. Covered' <=> balance' >= cum' - ledger'.net - ledger'.funding - MeedCarve(ledger'.settled)
    BY DEF Covered, SettledCarve
  <2>9. balance' >= cum' - ledger'.net - ledger'.funding - MeedCarve(ledger'.settled)
    BY <1>1, <1>5, <2>7 DEF Y
  <2> QED
    BY <2>6, <2>8, <2>9
<1>21. RoundsFit'
  <2> SUFFICES ASSUME NEW k \in DOMAIN rounds
               PROVE  /\ RoundAmounts(rounds'[k])
                      /\ MeedFits(ckpts[k], rounds'[k], after.settled)
                      /\ NetFits(ckpts[k], rounds'[k], after.net + after.funding, raced)
    BY <1>1, <1>10 DEF RoundsFit
  <2>1. CASE k = ref
    <3>1. RoundAmounts(f)
      BY <1>2, <1>4 DEF RoundAmounts
    <3>2. MeedFits(total, f, after.settled)
      BY <1>1, <1>2, <1>4, <1>5 DEF MeedFits
    <3>3. NetFits(total, f, after.net + after.funding, raced)
      BY <1>1, <1>2, <1>4, <1>5 DEF NetFits
    <3> QED
      BY <1>10, <2>1, <3>1, <3>2, <3>3 DEF total
  <2>2. CASE k # ref
    <3>1. rounds'[k] = rounds[k] /\ rounds[k].confirmed /\ RoundAmounts(rounds[k])
      BY <1>9, <1>10, <2>2 DEF RoundsFit
    <3> QED
      BY <3>1 DEF MeedFits, NetFits
  <2> QED
    BY <2>1, <2>2
<1>22. Metered'
  BY <1>1, <1>10, <1>20 DEF BooksInv, Metered, OpCum
<1>23. RailAmounts'
  BY <1>1 DEF BooksInv, RailAmounts
<1> QED
  BY <1>11, <1>14, <1>16, <1>17, <1>19, <1>20, <1>21, <1>22, <1>23 DEF BooksInv

LEMMA CreditKept ==
  ASSUME NEW b \in Nat, NEW b2 \in Nat, NEW t \in Nat, NEW n \in Nat, NEW f \in Nat, NEW c \in Nat,
         NEW x \in Nat, b >= t - n - f - x, b2 >= b - c
  PROVE  b2 >= t - n - (f + c) - x
  OBVIOUS

LEMMA CreditWithin ==
  ASSUME NEW n \in Nat, NEW f \in Nat, NEW c \in Nat, NEW o \in Nat, NEW w \in Nat,
         NEW x \in Nat, NEW y \in Nat, n + f <= w + x, x <= y, c <= o, o > 0 => n + f + o = w
  PROVE  n + (f + c) <= w + y
<1>1. CASE o = 0
  BY <1>1
<1>2. CASE o > 0
  BY <1>2
<1> QED
  BY <1>1, <1>2

(* A funding transfer is credited once, for no more than it moved and no more than is owed. *)
LEMMA FundingBooks ==
  ASSUME IInv, BooksInv, NEW i \in DOMAIN rail, Funding(i)
  PROVE  BooksInv'
<1> DEFINE c == CreditedFunding(i)
           o == OwedNet(cum)
           X == SettledCarve
<1>1. /\ rail[i].kind = "fund" /\ i \notin consumed /\ consumed' = With(consumed, i)
      /\ balance' = SatSub(balance, c)
      /\ ledger' = [ledger EXCEPT !.funding = @ + c]
      /\ raced' = (IF NetDue # {} THEN raced + c ELSE raced)
      /\ cum' = cum /\ ckpts' = ckpts /\ op' = op /\ rounds' = rounds /\ rail' = rail
  BY DEF Funding, Consume, With
<1>2. Len(rail) \in Nat /\ DOMAIN rail = 1..Len(rail) /\ i \in 1..Len(rail)
  BY DEF IInv, Types
<1>3. \A k \in 1..Len(rail) : rail[k].amt \in Nat
  BY DEF BooksInv, RailAmounts, NeverBack
<1>4. /\ ledger.settled \in [Roles -> Nat] /\ ledger.net \in Nat /\ ledger.funding \in Nat
      /\ cum \in Nat /\ raced \in Nat /\ balance \in Nat
  BY DEF BooksInv, LedgerAmounts, Metered
<1>5. o \in Nat /\ (o > 0 => ledger.net + ledger.funding + o = Worth(cum))
  BY <1>4, OwedNetFact DEF BooksInv
<1>6. c \in Nat /\ c <= o /\ c <= rail[i].amt
  <2> DEFINE a == rail[i].amt
  <2>1. a \in Nat /\ c = IF a < o THEN a ELSE o
    BY <1>2, <1>3 DEF CreditedFunding
  <2> HIDE DEF a, o, c
  <2>2. c \in Nat /\ c <= o /\ c <= a
    BY <1>5, <2>1
  <2> QED
    BY <2>2 DEF a
<1> HIDE DEF c, o
<1>7. /\ ledger'.settled = ledger.settled /\ ledger'.net = ledger.net
      /\ ledger'.funding = ledger.funding + c
  BY <1>1 DEF IInv, Types, LedgerFields
<1>8. LedgerAmounts'
  BY <1>4, <1>6, <1>7 DEF LedgerAmounts
<1>9. raced' \in Nat /\ raced <= raced'
  BY <1>1, <1>4, <1>6
<1>10. balance' \in Nat /\ balance' >= balance - c
  BY <1>1, <1>4, <1>6 DEF SatSub
<1>11. X \in Nat /\ SettledCarve' = X
  BY <1>4, <1>7, CarveFact DEF SettledCarve
<1>12. Metered'
  BY <1>1, <1>9, <1>10 DEF BooksInv, Metered, OpCum
<1>13. RoundsFit'
  <2> SUFFICES ASSUME NEW ref \in DOMAIN rounds
               PROVE  /\ RoundAmounts(rounds[ref])
                      /\ MeedFits(ckpts[ref], rounds[ref], ledger.settled)
                      /\ NetFits(ckpts[ref], rounds[ref], ledger'.net + ledger'.funding, raced')
    BY <1>1, <1>7 DEF RoundsFit
  <2> DEFINE d == rounds[ref]
             w == Worth(ckpts[ref])
  <2>1. /\ RoundAmounts(d) /\ MeedFits(ckpts[ref], d, ledger.settled)
        /\ NetFits(ckpts[ref], d, ledger.net + ledger.funding, raced)
    BY DEF BooksInv, RoundsFit
  <2>2. ASSUME ~d.confirmed, ~d.netFolded, d.output > 0
        PROVE  (ledger'.net + ledger'.funding) + d.output <= w + raced'
    <3>1. raced' = raced + c
      BY <1>1, <2>2 DEF NetDue, InFlight
    <3>2. (ledger.net + ledger.funding) + d.output <= w + raced
      BY <2>1, <2>2 DEF NetFits
    <3>3. d.output \in Nat /\ w \in Nat
      <4>1. ckpts[ref] \in Nat
        BY DEF BooksInv, Metered
      <4> QED
        BY <2>1, <4>1, WorthFact DEF RoundAmounts
    <3> DEFINE net == ledger.net
               funding == ledger.funding
               output == d.output
    <3>4. net \in Nat /\ funding \in Nat /\ output \in Nat /\ (net + funding) + output <= w + raced
      BY <1>4, <3>2, <3>3
    <3> HIDE DEF net, funding, output, w
    <3>5. (net + (funding + c)) + output <= w + (raced + c)
      BY <1>4, <1>6, <3>3, <3>4
    <3> QED
      BY <1>7, <3>1, <3>5 DEF net, funding, output
  <2> QED
    BY <2>1, <2>2 DEF NetFits
<1>14. RailAmounts'
  BY <1>1 DEF BooksInv, RailAmounts
<1>15. SettledFits'
  BY <1>1, <1>7 DEF BooksInv, SettledFits, OpCum
<1>16. MeedBacked'
  <2>1. FundedP' = FundedP
    BY <1>1 DEF FundedP, OnRail
  <2> QED
    BY <1>7, <1>11, <2>1 DEF BooksInv, MeedBacked
<1>17. Credited'
  <2> DEFINE s == rail
             L == Len(rail)
             paid == PaidOn(s, consumed, "fund")
  <2>1. /\ consumed \in SUBSET (1..L) /\ i \in 1..L /\ i \notin consumed /\ L \in Nat
        /\ AmountsOn(s, L)
    BY <1>1, <1>2, <1>3 DEF BooksInv, Credited, AmountsOn
  <2>2. /\ s[i].kind = "fund" => PaidOn(s, With(consumed, i), "fund") = PaidOn(s, consumed, "fund") + s[i].amt
        /\ s[i].kind # "net" => PaidOn(s, With(consumed, i), "net") = PaidOn(s, consumed, "net")
        /\ PaidOn(s, consumed, "fund") \in Nat
    <3> HIDE DEF s, L, paid
    <3> QED BY ONLY <2>1, PaidMore
  <2>3. ledger.net = PaidOn(s, consumed, "net") /\ ledger.funding <= paid
        /\ \A k \in consumed : s[k].kind # "meed"
    BY DEF BooksInv, Credited
  <2>4. PaidOn(s, With(consumed, i), "fund") = paid + s[i].amt /\ paid \in Nat
        /\ PaidOn(s, With(consumed, i), "net") = ledger.net
    BY <1>1, <2>2, <2>3
  <2>5. ledger.funding + c <= paid + s[i].amt
    <3>1. s[i].amt \in Nat /\ c <= s[i].amt
      BY <1>2, <1>3, <1>6
    <3> DEFINE funding == ledger.funding
               a == s[i].amt
    <3>2. funding \in Nat /\ a \in Nat /\ funding <= paid /\ c <= a /\ paid \in Nat
      BY <1>4, <2>3, <2>4, <3>1
    <3> HIDE DEF funding, a, paid
    <3>3. funding + c <= paid + a
      BY <1>6, <3>2
    <3> QED
      BY <3>3 DEF funding, a
  <2>6. consumed' \subseteq 1..L /\ \A k \in consumed' : s[k].kind # "meed"
    BY <1>1, <2>1, <2>3 DEF With
  <2> HIDE DEF paid
  <2> QED
    BY <1>1, <1>7, <2>4, <2>5, <2>6 DEF Credited
<1>18. Worth(cum) \in Nat
  BY <1>4, WorthFact
<1>19. WithinWorth'
  <2>1. ledger.net + ledger.funding <= Worth(cum) + raced
    BY DEF BooksInv, WithinWorth
  <2>2. ledger.net + (ledger.funding + c) <= Worth(cum) + raced'
    BY <1>4, <1>5, <1>6, <1>9, <1>18, <2>1, CreditWithin
  <2> QED
    BY <1>1, <1>7, <2>2 DEF WithinWorth
<1>20. Covered'
  <2>1. balance >= cum - ledger.net - ledger.funding - X
    BY DEF BooksInv, Covered
  <2> HIDE DEF X
  <2>2. balance' >= cum - ledger.net - (ledger.funding + c) - X
    BY <1>4, <1>6, <1>10, <1>11, <2>1, CreditKept
  <2> QED
    BY <1>1, <1>7, <1>11, <2>2 DEF Covered
<1> QED
  BY <1>8, <1>12, <1>13, <1>14, <1>15, <1>16, <1>17, <1>19, <1>20 DEF BooksInv

(* The invariant of the merchant's books, kept by every step. *)
THEOREM BooksSound == Spec => [](IInv /\ BooksInv)
<1>1. IInv /\ BooksInv /\ [Next]_vars => BooksInv'
  <2> SUFFICES ASSUME IInv, BooksInv, [Next]_vars PROVE BooksInv'
    OBVIOUS
  <2>1. CASE UNCHANGED vars
    BY <2>1, QuietBooks
  <2>2. ASSUME NEW amt \in 1..MaxAmt, AcceptSlice(amt) PROVE BooksInv'
    BY <2>2, AcceptSliceBooks
  <2>3. ASSUME NEW total \in 0..cum, Checkpoint(total) PROVE BooksInv'
    BY <2>3, CheckpointBooks
  <2>4. ASSUME NEW ref \in DOMAIN ckpts, CheckpointAgain(ref) PROVE BooksInv'
    BY <2>4, CheckpointAgainBooks
  <2>5. ASSUME NEW amt \in 1..MaxAmt, Fund(amt) PROVE BooksInv'
    <3> DEFINE x == [kind |-> "fund", amt |-> amt, memo |-> 0]
    <3>1. Transfer(x) /\ x.amt \in Nat /\ x.kind # "meed"
      BY <2>5, BoundAssumption DEF Fund
    <3> HIDE DEF x
    <3> QED
      BY <3>1, TransferBooks
  <2>6. ASSUME NEW ref \in DOMAIN rounds, PayNet(ref) PROVE BooksInv'
    <3> DEFINE x == [kind |-> "net", amt |-> rounds[ref].output, memo |-> ref]
    <3>1. Transfer(x) /\ x.amt \in Nat /\ x.kind # "meed"
      BY <2>6 DEF PayNet, BooksInv, RoundsFit, RoundAmounts
    <3> HIDE DEF x
    <3> QED
      BY <3>1, TransferBooks
  <2>7. ASSUME NEW ref \in DOMAIN rounds, NEW over \in 0..Overshoot, AdvanceMeed(ref, over)
        PROVE  BooksInv'
    <3> DEFINE target == rounds[ref].targetP + over
               to == IF target > FundedP THEN target ELSE FundedP
               x == [kind |-> "meed", memo |-> 0, amt |-> to]
    <3>1. Transfer(x) /\ x.amt = to /\ x.memo = 0
      BY <2>7 DEF AdvanceMeed
    <3>2. FundedP \in Nat /\ target \in Nat
      BY FundedNow, BoundAssumption DEF BooksInv, RoundsFit, RoundAmounts
    <3> HIDE DEF target, x
    <3>3. to \in Nat /\ to >= FundedP
      BY <3>2
    <3> HIDE DEF to
    <3> QED
      BY <3>1, <3>3, TransferBooks
  <2>8. ASSUME NEW ref \in DOMAIN ckpts, SettlementPropose(ref) PROVE BooksInv'
    BY <2>8, SettlementProposeBooks
  <2>9. ASSUME NEW ref \in DOMAIN rounds, NEW m \in 0..Len(rail), NEW n \in 0..Len(rail),
               SettlementProof(ref, m, n)
        PROVE  BooksInv'
    BY <2>9, SettlementProofBooks
  <2>10. ASSUME NEW i \in DOMAIN rail, Funding(i) PROVE BooksInv'
    BY <2>10, FundingBooks
  <2> QED
    BY <2>1, <2>2, <2>3, <2>4, <2>5, <2>6, <2>7, <2>8, <2>9, <2>10 DEF Next, Step
<1> QED
  BY <1>1, InitBooks, RoundsSound, PTL DEF Spec

(* recompute_round never meets settled > accrued, now or once the round in flight has folded. *)
THEOREM NeverBrickedHolds == Spec => []NeverBricked
<1>1. IInv /\ BooksInv => NeverBricked
  <2> SUFFICES ASSUME IInv, BooksInv PROVE NeverBricked
    OBVIOUS
  <2>1. ASSUME op # 0 PROVE ConsistentHistory(Accruals(ckpts[op]), ledger.settled)
    <3>1. \A r \in Roles : ledger.settled[r] <= ckpts[op] * Bp[r]
      BY <2>1 DEF BooksInv, SettledFits, OpCum
    <3>2. ledger.settled \in [Roles -> Nat]
      BY DEF BooksInv, LedgerAmounts
    <3> QED
      BY <3>1, <3>2 DEF ConsistentHistory, Accruals
  <2>2. ASSUME NEW ref \in InFlight, ~rounds[ref].meedFolded, NEW r \in Roles
        PROVE  ledger.settled[r] + rounds[ref].er[r] <= ckpts[ref] * Bp[r]
    BY <2>2 DEF BooksInv, RoundsFit, MeedFits, InFlight
  <2> QED
    BY <2>1, <2>2 DEF NeverBricked
<1> QED
  BY <1>1, BooksSound, PTL

(* The ledger is backed by the rail to the unit, and B covers what it has not seen settled. *)
THEOREM LedgerBackedHolds == Spec => []LedgerBacked
<1>1. IInv /\ BooksInv => LedgerBacked
  <2> SUFFICES ASSUME IInv, BooksInv PROVE LedgerBacked
    OBVIOUS
  <2> DEFINE X == SettledCarve
  <2>1. Total(ledger.settled) = BpDenom * X /\ Total(ledger.settled) <= BpDenom * FundedP
    BY DEF BooksInv, MeedBacked
  <2>2. X \in Nat /\ BpDenom \in Nat \ {0} /\ X = MeedCarve(ledger.settled)
    BY CarveFact, BpDenomAssumption DEF BooksInv, LedgerAmounts, SettledCarve
  <2>3. Total(ledger.settled) % BpDenom = 0
    <3> DEFINE b == BpDenom
               y == b * X
    <3> HIDE DEF X, b
    <3>1. b \in Nat \ {0} /\ X \in Nat /\ y \in Nat
      BY <2>2 DEF b
    <3>2. y \div b = X
      BY <3>1, WholeDivision
    <3> HIDE DEF y
    <3>3. y = b * (y \div b) + (y % b)
      BY <3>1
    <3>4. y % b = 0
      BY <3>1, <3>2, <3>3 DEF y
    <3> QED
      BY <2>1, <3>4 DEF y, b
  <2>4. ASSUME NEW ref \in InFlight, rounds[ref].meed > 0, ~rounds[ref].meedFolded
        PROVE  rounds[ref].targetP - X = rounds[ref].meed
    <3>1. rounds[ref].targetP = MeedCarve(ledger.settled) + rounds[ref].meed /\ rounds[ref].meed \in Nat
      BY <2>4 DEF BooksInv, RoundsFit, MeedFits, RoundAmounts, InFlight
    <3> HIDE DEF X
    <3> QED
      BY <2>2, <3>1
  <2>5. /\ ledger.net = Paid({i \in consumed : rail[i].kind = "net"})
        /\ ledger.funding <= Paid({i \in consumed : rail[i].kind = "fund"})
        /\ \A i \in consumed : rail[i].kind # "meed"
    BY DEF BooksInv, Credited, PaidOn, KindIn, Paid
  <2>6. ledger.net + ledger.funding <= cum - MeedCarve(Accruals(cum)) + raced
    BY DEF BooksInv, WithinWorth, Worth
  <2>7. balance >= cum - ledger.net - ledger.funding - X
    BY DEF BooksInv, Covered
  <2> QED
    BY <2>1, <2>3, <2>4, <2>5, <2>6, <2>7 DEF LedgerBacked
<1> QED
  BY <1>1, BooksSound, PTL
=============================================================================
