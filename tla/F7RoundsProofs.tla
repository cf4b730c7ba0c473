--------------------------- MODULE F7RoundsProofs ---------------------------
(***************************************************************************)
(* Proofs about F7Rounds: how a settlement is divided among the roles, how *)
(* the split is paid out, and the channel's watermark, for every vector,   *)
(* every set of destinations, every rate and every bound.                  *)
(***************************************************************************)
EXTENDS F7Rounds, SumsProofs, TLAPS

-----------------------------------------------------------------------------
(* The division of a round.                                                *)

LEMMA RolesFact ==
  /\ Len(Bp) \in Nat \ {0} /\ Roles = 1..Len(Bp) /\ DOMAIN Bp = Roles /\ IsFiniteSet(Roles)
  /\ Bp \in [Roles -> Nat] /\ BpDenom \in Nat \ {0}
<1>1. Len(Bp) \in Nat \ {0} /\ Roles = 1..Len(Bp) /\ Bp \in [Roles -> Nat]
  BY VectorAssumption DEF Roles
<1> QED
  BY <1>1, RolesFinite, BpDenomAssumption DEF Roles

LEMMA TotalFact ==
  ASSUME NEW v \in [Roles -> Nat]
  PROVE  Total(v) = SumOver(v, Roles) /\ Total(v) \in Nat /\ NatOn(v, Roles) /\ IntOn(v, Roles)
<1>1. DOMAIN v = Roles /\ NatOn(v, Roles)
  BY DEF NatOn
<1>2. SumOver(v, Roles) \in Nat /\ IntOn(v, Roles)
  BY <1>1, RolesFact, SumNat
<1> QED
  BY <1>1, <1>2 DEF Total

\* extinguish_per_role: within the caps, and the units above the floored shares go to
\* the lowest roles that have room.
LEMMA Extinguished ==
  ASSUME NEW n \in [Roles -> Nat], NEW e \in Nat, e <= Total(n), NEW er, er = ExtinguishPerRole(e, n)
  PROVE  /\ er \in [Roles -> Nat]
         /\ LeqOn(er, n, Roles)
         /\ Total(Share(e, n)) = SumOver(Share(e, n), 1..Len(Bp))
         /\ \A r \in Roles : er[r] = Swept(Share(e, n), n, Len(Bp), e, r)
<1> DEFINE L == Len(Bp)
<1>1. L \in Nat \ {0} /\ Roles = 1..L /\ n \in [1..L -> Nat]
  BY RolesFact
<1> HIDE DEF L
<1>2. /\ Within(er, n, L, e) /\ Total(Share(e, n)) = SumOver(Share(e, n), 1..L)
      /\ \A r \in 1..L : er[r] = Swept(Share(e, n), n, L, e, r)
  BY <1>1, ExtinguishPlaces
<1> QED
  BY <1>1, <1>2 DEF Within, L

\* The payment and the extinguished value of a round, at any rate.
LEMMA RateFact ==
  ASSUME NEW N \in Nat, NEW rate \in Rate, NEW p, p = ComputeP(N, rate), NEW e, e = ComputeE(p, rate)
  PROVE  /\ p \in Nat /\ e \in Nat /\ e <= N
         /\ e * rate.p <= p * rate.q * BpDenom
         /\ p * rate.q * BpDenom <= N * rate.p
         /\ (p + 1) * rate.q * BpDenom > N * rate.p
<1> DEFINE P == rate.p
           Q == rate.q
           B == BpDenom
           c == Q * B
           y == N * P
           z == p * Q * B
<1>1. P \in Nat \ {0} /\ Q \in Nat \ {0} /\ B \in Nat \ {0}
  BY BpDenomAssumption DEF Rate
<1>2. p = y \div c /\ e = z \div P
  BY DEF ComputeP, ComputeE
<1> HIDE DEF P, Q, B
<1>3. c \in Nat \ {0} /\ y \in Nat
  BY <1>1
<1>4. p \in Nat /\ c * p <= y /\ y < c * p + c
  <2> HIDE DEF c, y
  <2> QED BY <1>2, <1>3, DivFact
<1>5. z = c * p /\ (p + 1) * Q * B = c * p + c
  BY <1>1, <1>4
<1>6. z \in Nat
  BY <1>3, <1>4, <1>5
<1>7. e \in Nat /\ P * e <= z
  <2> HIDE DEF z
  <2> QED BY <1>1, <1>2, <1>6, DivFact
<1>8. P * e = e * P /\ P * N = y
  BY <1>1, <1>7
<1>9. z <= y /\ (p + 1) * Q * B > y
  <2> DEFINE x == (p + 1) * Q * B
             k == c * p
  <2>1. k \in Nat /\ k <= y /\ y < k + c /\ z = k /\ x = k + c
    BY <1>3, <1>4, <1>5
  <2> HIDE DEF x, k, c, y, z
  <2>2. z <= y /\ x > y
    BY <1>3, <2>1
  <2> QED
    BY <2>2 DEF x
<1>10. e <= N
  <2>1. P * e <= P * N
    <3> DEFINE a == P * e
               b == P * N
    <3>1. a \in Nat /\ b \in Nat /\ a <= z /\ b = y
      BY <1>1, <1>7, <1>8
    <3> HIDE DEF a, b, z, y
    <3>2. a <= b
      BY <1>3, <1>6, <1>9, <3>1
    <3> QED
      BY <3>2 DEF a, b
  <2> QED
    BY <1>1, <1>7, <2>1, ScaleLess
<1>11. e * P <= z
  BY <1>7, <1>8
<1> QED
  BY <1>4, <1>7, <1>9, <1>10, <1>11 DEF P, Q, B

\* The round n divided at rate: what DivisionCanonical says of it.
Divided(n, rate, div) ==
  LET share == Share(div.e, n)
      spare == {r \in DOMAIN Bp : share[r] < n[r]}
  IN  /\ div.ok
      /\ div.e * rate.p <= div.p * rate.q * BpDenom
      /\ div.p * rate.q * BpDenom <= Total(n) * rate.p
      /\ (div.p + 1) * rate.q * BpDenom > Total(n) * rate.p
      /\ \A r \in DOMAIN Bp :
           div.er[r] = IF r \in spare
                          /\ Cardinality({s \in spare : s < r}) < div.e - Total(share)
                       THEN share[r] + 1 ELSE share[r]

LEMMA DivisionFact ==
  ASSUME NEW n \in [Roles -> Nat], NEW rate \in Rate, NEW d, d = DivideRound(n, rate)
  PROVE  /\ d.p \in Nat /\ d.er \in [Roles -> Nat] /\ LeqOn(d.er, n, Roles)
         /\ Divided(n, rate, d)
<1> DEFINE N == Total(n)
           p == ComputeP(N, rate)
           e == ComputeE(p, rate)
           er == ExtinguishPerRole(e, n)
           q == Share(e, n)
           L == Len(Bp)
<1>1. N \in Nat
  BY TotalFact
<1>2. /\ p \in Nat /\ e \in Nat /\ e <= N
      /\ e * rate.p <= p * rate.q * BpDenom
      /\ p * rate.q * BpDenom <= N * rate.p
      /\ (p + 1) * rate.q * BpDenom > N * rate.p
  <2> HIDE DEF N, p, e
  <2>1. p = ComputeP(N, rate) /\ e = ComputeE(p, rate)
    BY DEF p, e
  <2> QED BY <1>1, <2>1, RateFact
<1>3. d.ok /\ d.p = p /\ d.e = e /\ d.er = er
  BY <1>2 DEF DivideRound
<1> HIDE DEF p, e
<1>4. /\ er \in [Roles -> Nat] /\ LeqOn(er, n, Roles)
      /\ Total(q) = SumOver(q, 1..L)
      /\ \A r \in Roles : er[r] = Swept(q, n, L, e, r)
  BY <1>2, Extinguished
<1> HIDE DEF er, q
<1> DEFINE spare == {r \in DOMAIN Bp : q[r] < n[r]}
<1>5. spare = Spare(q, n, L) /\ DOMAIN Bp = Roles
  BY RolesFact DEF Spare
<1>6. ASSUME NEW r \in DOMAIN Bp
      PROVE  er[r] = IF r \in spare /\ Cardinality({s \in spare : s < r}) < e - Total(q)
                     THEN q[r] + 1 ELSE q[r]
  <2>1. er[r] = Swept(q, n, L, e, r)
    BY <1>4, <1>5
  <2> HIDE DEF spare
  <2> QED
    BY <1>4, <1>5, <2>1 DEF Swept, Before
<1>7. Divided(n, rate, d)
  BY <1>2, <1>3, <1>6 DEF Divided, q
<1> QED
  BY <1>2, <1>3, <1>4, <1>7

-----------------------------------------------------------------------------
(* The ledger of rounds.                                                   *)

RoundOf(n, rate) == [n |-> n, rate |-> rate, div |-> DivideRound(n, rate)]

\* Nothing is settled beyond what has accrued, and the last round is the division of
\* what was outstanding then.
LedgerInv ==
  /\ accrued \in [Roles -> Nat] /\ settled \in [Roles -> Nat]
  /\ LeqOn(settled, accrued, Roles)
  /\ \E n \in [Roles -> Nat], rate \in Rate : round = RoundOf(n, rate)

LEMMA OutstandingFact ==
  ASSUME LedgerInv
  PROVE  /\ Outstanding \in [Roles -> Nat]
         /\ \A r \in Roles : Outstanding[r] = accrued[r] - settled[r]
  BY DEF LedgerInv, LeqOn, Outstanding, OutstandingMeedPerRole

LEMMA InitLedger == Init => LedgerInv
<1> SUFFICES ASSUME Init PROVE LedgerInv
  OBVIOUS
<1>1. accrued = Zero /\ settled = Zero /\ round = NoRound
  BY DEF Init
<1>2. Zero \in [Roles -> Nat] /\ \A r \in Roles : Zero[r] = 0
  BY RolesFact DEF Zero
<1>3. Unity \in Rate
  BY DEF Unity, Rate
<1>4. NoRound = RoundOf(Zero, Unity)
  BY DEF NoRound, RoundOf
<1>5. LeqOn(Zero, Zero, Roles)
  BY <1>2 DEF LeqOn
<1> QED
  BY <1>1, <1>2, <1>3, <1>4, <1>5 DEF LedgerInv

LEMMA AccrueValueLedger ==
  ASSUME LedgerInv, NEW amount \in 1..MaxAmount, AccrueValue(amount)
  PROVE  LedgerInv'
<1>1. settled' = settled /\ round' = round /\ accrued' = Accrue(accrued, Bp, amount)
  BY DEF AccrueValue
<1>2. amount \in Nat
  BY LoadAssumption
<1>3. \A r \in Roles : amount * Bp[r] \in Nat /\ accrued[r] \in Nat /\ settled[r] \in Nat
                       /\ settled[r] <= accrued[r]
  BY <1>2, RolesFact DEF LedgerInv, LeqOn
<1>4. DOMAIN accrued' = Roles /\ \A r \in Roles : accrued'[r] = accrued[r] + amount * Bp[r]
  BY <1>1 DEF Accrue, LedgerInv
<1>5. accrued' = [r \in Roles |-> accrued'[r]]
  BY <1>1, <1>4 DEF Accrue
<1>6. \A r \in Roles : accrued'[r] \in Nat /\ settled[r] <= accrued'[r]
  BY <1>3, <1>4
<1>7. accrued' \in [Roles -> Nat] /\ LeqOn(settled', accrued', Roles)
  BY <1>1, <1>5, <1>6 DEF LeqOn
<1> QED
  BY <1>1, <1>7 DEF LedgerInv

LEMMA SettleRoundLedger ==
  ASSUME LedgerInv, NEW rate \in Rates, SettleRound(rate)
  PROVE  LedgerInv' /\ DivideRound(Outstanding, rate).p \in Nat
<1> DEFINE n == Outstanding
           d == DivideRound(n, rate)
<1>1. /\ accrued' = accrued /\ settled' = [r \in DOMAIN settled |-> settled[r] + d.er[r]]
      /\ round' = RoundOf(n, rate)
  BY DEF SettleRound, RoundOf
<1>2. rate \in Rate /\ n \in [Roles -> Nat] /\ \A r \in Roles : n[r] = accrued[r] - settled[r]
  BY RatesAssumption, OutstandingFact
<1>3. d.p \in Nat /\ d.er \in [Roles -> Nat] /\ LeqOn(d.er, n, Roles)
  <2> HIDE DEF n
  <2> QED BY <1>2, DivisionFact
<1> HIDE DEF n, d
<1>4. ASSUME NEW r \in Roles PROVE settled'[r] \in Nat /\ settled'[r] <= accrued[r]
  <2>1. settled[r] \in Nat /\ accrued[r] \in Nat /\ d.er[r] \in Nat /\ n[r] \in Nat
        /\ d.er[r] <= n[r] /\ n[r] = accrued[r] - settled[r] /\ settled'[r] = settled[r] + d.er[r]
    BY <1>1, <1>2, <1>3 DEF LedgerInv, LeqOn
  <2> QED
    BY <2>1
<1>5. settled' \in [Roles -> Nat] /\ LeqOn(settled', accrued', Roles)
  BY <1>1, <1>4 DEF LedgerInv, LeqOn
<1> QED
  BY <1>1, <1>2, <1>3, <1>5 DEF LedgerInv, d, n

(* The ledger's invariant, kept by every step. *)
THEOREM LedgerSound == Spec => []LedgerInv
<1>1. LedgerInv /\ [Next]_vars => LedgerInv'
  <2> SUFFICES ASSUME LedgerInv, [Next]_vars PROVE LedgerInv'
    OBVIOUS
  <2>1. ASSUME UNCHANGED <<accrued, settled, round>> PROVE LedgerInv'
    BY <2>1 DEF LedgerInv
  <2>2. CASE UNCHANGED vars
    BY <2>1, <2>2 DEF vars, ledgerVars
  <2>3. CASE TimePasses
    BY <2>1, <2>3 DEF TimePasses
  <2>4. ASSUME NEW amount \in 1..MaxAmount, AccrueValue(amount) PROVE LedgerInv'
    BY <2>4, AccrueValueLedger
  <2>5. ASSUME NEW rate \in Rates, SettleRound(rate) PROVE LedgerInv'
    BY <2>5, SettleRoundLedger
  <2>6. CASE UNCHANGED ledgerVars
    BY <2>1, <2>6 DEF ledgerVars
  <2> QED
    BY <2>2, <2>3, <2>4, <2>5, <2>6 DEF Next, Step
<1> QED
  BY <1>1, InitLedger, PTL DEF Spec

(* Over any history of rounds at any rates, divide_round is canonical and never extinguishes *)
(* a role beyond what it accrued. *)
THEOREM DivisionCanonicalHolds == Spec => []DivisionCanonical
<1>1. LedgerInv => DivisionCanonical
  <2> SUFFICES ASSUME LedgerInv PROVE DivisionCanonical
    OBVIOUS
  <2>1. PICK n \in [Roles -> Nat], rate \in Rate : round = RoundOf(n, rate)
    BY DEF LedgerInv
  <2> DEFINE d == DivideRound(n, rate)
  <2>2. round.n = n /\ round.rate = rate /\ round.div = d
    BY <2>1 DEF RoundOf
  <2>3. Divided(n, rate, d)
    BY DivisionFact
  <2>4. ConsistentHistory(accrued, settled)
    BY DEF LedgerInv, LeqOn, ConsistentHistory
  <2> HIDE DEF d
  <2>5. Divided(round.n, round.rate, round.div)
    BY <2>2, <2>3
  <2> QED
    BY <2>4, <2>5 DEF DivisionCanonical, Divided
<1> QED
  BY <1>1, LedgerSound, PTL

-----------------------------------------------------------------------------
(* Seats, destinations and what they are entitled to.                      *)

\* A nonempty set of numbers up to L has a least one.
LEMMA LeastExists ==
  ASSUME NEW L \in Nat, NEW S \in SUBSET (1..L), S # {}
  PROVE  \E i \in S : \A j \in S : i <= j
<1> DEFINE HasLeast(T) == \E i \in T : \A j \in T : i <= j
           Ok == {m \in Nat : \A T \in SUBSET (1..m) : T # {} => HasLeast(T)}
<1>1. 0 \in Ok
  <2>1. 1..0 = {}
    OBVIOUS
  <2> QED
    BY <2>1
<1>2. ASSUME NEW m \in Nat, m \in Ok PROVE m + 1 \in Ok
  <2> SUFFICES ASSUME NEW T \in SUBSET (1..(m + 1)), T # {} PROVE HasLeast(T)
    OBVIOUS
  <2>1. CASE T = {m + 1}
    BY <2>1
  <2>2. CASE T # {m + 1}
    <3> DEFINE U == T \ {m + 1}
    <3>1. U \in SUBSET (1..m) /\ U # {}
      BY <2>2
    <3>2. PICK i \in U : \A j \in U : i <= j
      <4> HIDE DEF U
      <4> QED BY <1>2, <3>1
    <3>3. i \in T /\ i <= m + 1
      BY <3>1
    <3>4. \A j \in T : j = m + 1 \/ j \in U
      OBVIOUS
    <3> QED
      BY <3>2, <3>3, <3>4
  <2> QED
    BY <2>1, <2>2
<1>3. L \in Ok
  <2> HIDE DEF Ok
  <2> QED BY <1>1, <1>2, NatSetInduction
<1> QED
  BY <1>3

LEMMA SumOne ==
  ASSUME NEW f, NEW a, f[a] \in Int
  PROVE  SumOver(f, {a}) = f[a]
<1> DEFINE S == {a}
           T == S \ {a}
<1>1. IsFiniteSet(S) /\ IntOn(f, S) /\ a \in S
  BY FS_Singleton DEF IntOn
<1>2. T = {}
  OBVIOUS
<1>3. SumOver(f, T) = 0
  BY <1>2, SumEmpty
<1> HIDE DEF S
<1>4. SumOver(f, S) = f[a] + SumOver(f, T)
  BY <1>1, SumRemove
<1> HIDE DEF T
<1>5. SumOver(f, S) = f[a]
  BY <1>3, <1>4
<1> QED
  BY <1>5 DEF S

\* The first role of a destination stands for all of them.
LEMMA CanonFact ==
  ASSUME NEW r \in Roles
  PROVE  Canon(r) \in Roles /\ Dest[Canon(r)] = Dest[r] /\ Canon(Canon(r)) = Canon(r)
<1> DEFINE L == Len(Bp)
           S == {s \in Roles : Dest[s] = Dest[r]}
<1>1. L \in Nat /\ S \in SUBSET (1..L) /\ S # {}
  BY RolesFact
<1>2. \E i \in S : \A j \in S : i <= j
  <2> HIDE DEF S, L
  <2> QED BY <1>1, LeastExists
<1>3. Canon(r) = Min(S)
  BY DEF Canon
<1>4. Min(S) \in S
  <2> HIDE DEF S
  <2> QED BY <1>2 DEF Min
<1>5. Canon(r) \in Roles /\ Dest[Canon(r)] = Dest[r]
  BY <1>3, <1>4
<1>6. {s \in Roles : Dest[s] = Dest[Canon(r)]} = S
  BY <1>5
<1>7. Canon(Canon(r)) = Min({s \in Roles : Dest[s] = Dest[Canon(r)]})
  BY DEF Canon
<1> QED
  BY <1>3, <1>5, <1>6, <1>7

\* The seat that is paid for a seat, what has been paid at each drawing seat when the
\* seats have received p, the drawing seats of an account and all its seats, and what
\* each drawing seat is entitled to of v.
SeatCanon == [s \in Seats |-> IF s = 0 THEN 0 ELSE Canon(s)]
AtDrawing(p) == [s \in Drawing |-> SumOver(p, Group(Seats, SeatCanon, s))]
DrawingOf(a) == {s \in Drawing : SeatDest(s) = a}
SeatsOf(a) == {s \in Seats : SeatDest(s) = a}
Entitled(v) == [s \in Drawing |-> (v * SeatBp(s)) \div BpDenom]

LEMMA SeatsFact ==
  /\ Seats = {0} \cup Roles /\ 0 \notin Roles /\ IsFiniteSet(Seats)
  /\ Drawing \subseteq Seats /\ IsFiniteSet(Drawing) /\ 0 \in Drawing
  /\ \A s \in Drawing : s # 0 => s \in Roles /\ Canon(s) = s
  /\ \A s \in Seats : SeatCanon[s] \in Drawing /\ SeatDest(SeatCanon[s]) = SeatDest(s)
<1>1. Seats = {0} \cup Roles /\ 0 \notin Roles
  BY RolesFact DEF Seats
<1>2. IsFiniteSet(Seats)
  <2>1. Len(Bp) \in Int /\ 0 \in Int
    BY RolesFact
  <2> QED
    BY <2>1, FS_Interval DEF Seats
<1>3. Drawing \subseteq Seats /\ 0 \in Drawing /\ \A s \in Drawing : s # 0 => s \in Roles /\ Canon(s) = s
  BY <1>1 DEF Drawing
<1>4. IsFiniteSet(Drawing)
  BY <1>2, <1>3, FS_Subset
<1>5. ASSUME NEW s \in Seats PROVE SeatCanon[s] \in Drawing /\ SeatDest(SeatCanon[s]) = SeatDest(s)
  <2>1. CASE s = 0
    BY <1>3, <2>1 DEF SeatCanon
  <2>2. CASE s # 0
    <3>1. s \in Roles /\ SeatCanon[s] = Canon(s)
      BY <1>1, <2>2 DEF SeatCanon
    <3>2. Canon(s) \in Roles /\ Dest[Canon(s)] = Dest[s] /\ Canon(Canon(s)) = Canon(s)
      BY <3>1, CanonFact
    <3>3. Canon(s) # 0
      BY <1>1, <3>2
    <3>4. Canon(s) \in Drawing
      BY <3>2 DEF Drawing
    <3>5. SeatDest(Canon(s)) = SeatDest(s)
      BY <2>2, <3>2, <3>3 DEF SeatDest
    <3> QED
      BY <3>1, <3>4, <3>5
  <2> QED
    BY <2>1, <2>2
<1> QED
  BY <1>1, <1>2, <1>3, <1>4, <1>5

LEMMA GroupFact ==
  ASSUME NEW s \in Drawing
  PROVE  /\ s = 0 => Group(Seats, SeatCanon, s) = {0}
         /\ s # 0 => Group(Seats, SeatCanon, s) = SameDest(s)
         /\ Group(Seats, SeatCanon, s) \in SUBSET Seats /\ s \in Group(Seats, SeatCanon, s)
<1>1. \A t \in Seats : SeatCanon[t] = IF t = 0 THEN 0 ELSE Canon(t)
  BY DEF SeatCanon
<1>2. \A t \in Roles : Canon(t) # 0 /\ t # 0 /\ t \in Seats
  BY SeatsFact, CanonFact
<1>3. CASE s = 0
  BY <1>1, <1>2, <1>3, SeatsFact DEF Group
<1>4. CASE s # 0
  <2>1. Group(Seats, SeatCanon, s) = SameDest(s)
    BY <1>1, <1>2, <1>4, SeatsFact DEF Group, SameDest
  <2> QED
    BY <1>4, <2>1, SeatsFact DEF SameDest
<1> QED
  BY <1>3, <1>4

\* Paying a destination at one seat moves nothing between the accounts.
LEMMA AtDrawingFact ==
  ASSUME NEW p \in [Seats -> Nat]
  PROVE  /\ AtDrawing(p) \in [Drawing -> Nat]
         /\ SumOver(AtDrawing(p), Drawing) = SumOver(p, Seats)
         /\ \A a : SumOver(AtDrawing(p), DrawingOf(a)) = SumOver(p, SeatsOf(a))
         /\ \A s \in Drawing : AtDrawing(p)[s] = IF s = 0 THEN p[0] ELSE SumOver(p, SameDest(s))
<1> DEFINE g == AtDrawing(p)
<1>1. NatOn(p, Seats) /\ IntOn(p, Seats)
  BY DEF NatOn, IntOn
<1>2. \A s \in Drawing : g[s] = SumOver(p, Group(Seats, SeatCanon, s))
  BY DEF AtDrawing
<1>3. ASSUME NEW s \in Drawing PROVE g[s] \in Nat
  <2> DEFINE G == Group(Seats, SeatCanon, s)
  <2>1. G \in SUBSET Seats
    BY GroupFact
  <2>2. IsFiniteSet(G) /\ NatOn(p, G)
    BY <1>1, <2>1, SeatsFact, FS_Subset DEF NatOn
  <2>3. SumOver(p, G) \in Nat
    <3> HIDE DEF G
    <3> QED BY <2>2, SumNat
  <2> QED
    BY <1>2, <2>3
<1>4. g \in [Drawing -> Nat]
  BY <1>3 DEF AtDrawing
<1>5. SumOver(g, Drawing) = SumOver(p, Seats)
  <2>1. GroupSums(g, p, Seats, SeatCanon, Drawing)
    BY <1>2 DEF GroupSums
  <2>2. IsFiniteSet(Seats) /\ IsFiniteSet(Drawing) /\ \A s \in Seats : SeatCanon[s] \in Drawing
    BY SeatsFact
  <2> HIDE DEF g
  <2> QED
    BY <1>1, <2>1, <2>2, SumPartition
<1>6. ASSUME NEW a PROVE SumOver(g, DrawingOf(a)) = SumOver(p, SeatsOf(a))
  <2> DEFINE S == SeatsOf(a)
             K == DrawingOf(a)
  <2>1. S \in SUBSET Seats /\ K \in SUBSET Drawing
    BY DEF SeatsOf, DrawingOf
  <2>2. IsFiniteSet(S) /\ IsFiniteSet(K) /\ IntOn(p, S)
    BY <1>1, <2>1, SeatsFact, FS_Subset DEF IntOn
  <2>3. \A s \in S : SeatCanon[s] \in K
    BY SeatsFact DEF SeatsOf, DrawingOf
  <2>4. ASSUME NEW k \in K PROVE Group(Seats, SeatCanon, k) = Group(S, SeatCanon, k)
    <3>1. \A s \in Seats : SeatCanon[s] = k => SeatDest(s) = a
      <4>1. SeatDest(k) = a
        BY DEF DrawingOf
      <4> QED
        BY <4>1, SeatsFact
    <3> QED
      BY <3>1 DEF Group, SeatsOf
  <2>5. GroupSums(g, p, S, SeatCanon, K)
    BY <1>2, <2>1, <2>4 DEF GroupSums
  <2> HIDE DEF S, K, g
  <2>6. SumOver(g, K) = SumOver(p, S)
    BY <2>2, <2>3, <2>5, SumPartition
  <2> QED
    BY <2>6 DEF S, K
<1>7. ASSUME NEW s \in Drawing PROVE g[s] = IF s = 0 THEN p[0] ELSE SumOver(p, SameDest(s))
  <2>1. CASE s # 0
    BY <1>2, <2>1, GroupFact
  <2>2. CASE s = 0
    <3>1. g[s] = SumOver(p, {0})
      BY <1>2, <2>2, GroupFact
    <3>2. SumOver(p, {0}) = p[0]
      BY SeatsFact, SumOne
    <3> QED
      BY <2>2, <3>1, <3>2
  <2> QED
    BY <2>1, <2>2
<1> QED
  BY <1>4, <1>5, <1>6, <1>7

\* Flooring part by part gives no more than flooring the whole.
LEMMA FloorsBelow ==
  ASSUME NEW D, IsFiniteSet(D), NEW w, NatOn(w, D), NEW W \in Nat \ {0}, NEW t \in Nat,
         NEW q, Shares(q, t, w, W, D)
  PROVE  NatOn(q, D) /\ SumOver(q, D) \in Nat /\ SumOver(q, D) <= (t * SumOver(w, D)) \div W
<1> DEFINE wq == [d \in D |-> W * q[d]]
           tw == [d \in D |-> t * w[d]]
           A == SumOver(q, D)
           B == SumOver(w, D)
<1>1. \A d \in D : t * w[d] \in Nat /\ q[d] \in Nat /\ W * q[d] <= t * w[d]
  <2> SUFFICES ASSUME NEW d \in D PROVE t * w[d] \in Nat /\ q[d] \in Nat /\ W * q[d] <= t * w[d]
    OBVIOUS
  <2>1. w[d] \in Nat /\ q[d] = (t * w[d]) \div W
    BY DEF NatOn, Shares
  <2> DEFINE y == t * w[d]
  <2>2. y \in Nat
    BY <2>1
  <2> HIDE DEF y
  <2>3. y \div W \in Nat /\ W * (y \div W) <= y
    BY <2>2, DivFact
  <2> QED
    BY <2>1, <2>2, <2>3 DEF y
<1>2. NatOn(q, D)
  BY <1>1 DEF NatOn
<1>3. A \in Nat /\ B \in Nat /\ IntOn(q, D) /\ IntOn(w, D)
  BY <1>2, SumNat
<1>4. IntOn(wq, D) /\ IntOn(tw, D) /\ LeqOn(wq, tw, D) /\ Scales(wq, W, q, D) /\ Scales(tw, t, w, D)
  BY <1>1 DEF IntOn, LeqOn, Scales
<1>5. SumOver(wq, D) = W * A /\ SumOver(tw, D) = t * B /\ SumOver(wq, D) <= SumOver(tw, D)
  <2> HIDE DEF wq, tw
  <2>1. SumOver(wq, D) = W * A
    BY <1>3, <1>4, SumScale
  <2>2. SumOver(tw, D) = t * B
    BY <1>3, <1>4, SumScale
  <2>3. SumOver(wq, D) <= SumOver(tw, D)
    BY <1>4, SumMonotone
  <2> QED
    BY <2>1, <2>2, <2>3
<1> HIDE DEF wq, tw, A, B
<1>6. A <= (t * B) \div W
  <2> DEFINE y == t * B
             z == y \div W
  <2>1. y \in Nat /\ W * A <= y
    BY <1>3, <1>5
  <2> HIDE DEF y
  <2>2. z \in Nat /\ y < W * z + W
    BY <2>1, DivFact
  <2> HIDE DEF z
  <2>3. W * (z + 1) = W * z + W
    BY <2>2
  <2>4. W * A < W * (z + 1)
    <3> DEFINE a == W * A
               b == W * z
    <3>1. a \in Nat /\ b \in Nat /\ a <= y /\ y < b + W
      BY <1>3, <2>1, <2>2
    <3> HIDE DEF a, b
    <3>2. a < b + W
      BY <2>1, <3>1
    <3> QED
      BY <2>3, <3>2 DEF a, b
  <2>5. A < z + 1
    BY <1>3, <2>2, <2>4, ScaleLess
  <2>6. A <= z
    BY <1>3, <2>2, <2>5
  <2> QED
    BY <2>6 DEF z, y
<1> QED
  BY <1>2, <1>3, <1>6 DEF A, B

\* The weights of the drawing seats: all of them together are the whole.
Raw == [s \in Seats |-> RawBp(s)]

LEMMA RawFact ==
  /\ Raw \in [Seats -> Nat] /\ SumOver(Raw, Seats) = BpDenom
  /\ \A s \in Drawing : SeatBp(s) = AtDrawing(Raw)[s] /\ SeatBp(s) \in Nat /\ SeatBp(s) <= BpDenom
  /\ SumOver(AtDrawing(Raw), Drawing) = BpDenom
<1> DEFINE T == Total(Bp)
<1>1. T \in Nat /\ T <= BpDenom /\ T = SumOver(Bp, Roles) /\ BpDenom \in Nat /\ IntOn(Bp, Roles)
  BY VectorAssumption, RolesFact, TotalFact
<1>2. /\ \A r \in Roles : Raw[r] = Bp[r] /\ Raw[r] \in Nat
      /\ Raw[0] = BpDenom - T /\ Raw[0] \in Nat
  <2>1. ASSUME NEW r \in Roles PROVE Raw[r] = Bp[r] /\ Raw[r] \in Nat
    <3>1. r \in Seats /\ r # 0 /\ Bp[r] \in Nat
      BY SeatsFact, RolesFact
    <3> QED
      BY <3>1 DEF Raw, RawBp
  <2>2. Raw[0] = BpDenom - T
    BY SeatsFact DEF Raw, RawBp, SPLIT_MERCHANT_BP
  <2> HIDE DEF T
  <2> QED
    BY <1>1, <2>1, <2>2
<1>3. Raw \in [Seats -> Nat]
  <2>1. Raw = [s \in Seats |-> Raw[s]] /\ \A s \in Seats : Raw[s] \in Nat
    BY <1>2, SeatsFact DEF Raw
  <2> QED
    BY <2>1
<1>4. SumOver(Raw, Seats) = BpDenom
  <2> DEFINE S == Roles \cup {0}
  <2>1. S = Seats /\ 0 \notin Roles /\ IsFiniteSet(Roles)
    BY SeatsFact, RolesFact
  <2>2. IntOn(Raw, Roles \cup {0}) /\ IntOn(Raw, Roles) /\ SameOn(Bp, Raw, Roles)
    BY <1>2 DEF IntOn, SameOn
  <2>3. SumOver(Raw, Roles \cup {0}) = Raw[0] + SumOver(Raw, Roles)
    BY <2>1, <2>2, SumInsert
  <2>4. SumOver(Raw, Roles) = T
    BY <1>1, <2>1, <2>2, SumCong
  <2>5. SumOver(Raw, S) = Raw[0] + T
    BY <2>3, <2>4
  <2> HIDE DEF S, T
  <2> QED
    BY <1>1, <1>2, <2>1, <2>5
<1>5. /\ AtDrawing(Raw) \in [Drawing -> Nat] /\ SumOver(AtDrawing(Raw), Drawing) = BpDenom
      /\ \A s \in Drawing : AtDrawing(Raw)[s] = IF s = 0 THEN Raw[0] ELSE SumOver(Raw, SameDest(s))
  BY <1>3, <1>4, AtDrawingFact
<1>6. ASSUME NEW s \in Drawing PROVE SeatBp(s) = AtDrawing(Raw)[s]
  <2>1. CASE s = 0
    BY <1>2, <1>5, <2>1 DEF SeatBp, SPLIT_MERCHANT_BP
  <2>2. CASE s # 0
    <3> DEFINE G == SameDest(s)
    <3>1. s \in Roles /\ Canon(s) = s /\ G \in SUBSET Roles
      BY <2>2, SeatsFact DEF SameDest
    <3>2. SeatBp(s) = SumOver(Bp, G)
      BY <2>2, <3>1 DEF SeatBp, AtCanon
    <3>3. IsFiniteSet(G) /\ IntOn(Bp, G) /\ SameOn(Bp, Raw, G)
      BY <1>1, <1>2, <3>1, RolesFact, FS_Subset DEF IntOn, SameOn
    <3>4. SumOver(Bp, G) = SumOver(Raw, G)
      <4> HIDE DEF G
      <4> QED BY <3>3, SumCong
    <3> QED
      BY <1>5, <2>2, <3>2, <3>4
  <2> QED
    BY <2>1, <2>2
<1>7. ASSUME NEW s \in Drawing PROVE SeatBp(s) \in Nat /\ SeatBp(s) <= BpDenom
  <2> DEFINE g == AtDrawing(Raw)
             E == {s}
  <2>1. g[s] \in Nat /\ NatOn(g, Drawing) /\ IsFiniteSet(Drawing) /\ E \in SUBSET Drawing
    BY <1>5, SeatsFact DEF NatOn
  <2>2. SumOver(g, E) = g[s]
    BY <2>1, SumOne
  <2> HIDE DEF E, g
  <2>3. SumOver(g, E) <= SumOver(g, Drawing)
    BY <2>1, SumSubset
  <2> QED
    BY <1>5, <1>6, <2>1, <2>2, <2>3 DEF g
<1> QED
  BY <1>3, <1>4, <1>5, <1>6, <1>7

LEMMA EntitledFact ==
  ASSUME NEW v \in Nat
  PROVE  /\ Entitled(v) \in [Drawing -> Nat]
         /\ SumOver(Entitled(v), Drawing) \in Nat /\ SumOver(Entitled(v), Drawing) <= v
         /\ \A u \in Nat : v <= u => LeqOn(Entitled(v), Entitled(u), Drawing)
<1> DEFINE q == Entitled(v)
           w == AtDrawing(Raw)
<1>1. \A s \in Drawing : w[s] \in Nat /\ w[s] = SeatBp(s)
  BY RawFact
<1>2. NatOn(w, Drawing) /\ SumOver(w, Drawing) = BpDenom /\ Shares(q, v, w, BpDenom, Drawing)
  BY <1>1, RawFact DEF NatOn, Shares, Entitled
<1>3. BpDenom \in Nat \ {0} /\ IsFiniteSet(Drawing) /\ DOMAIN q = Drawing
  BY RolesFact, SeatsFact DEF Entitled
<1>4. q = [s \in Drawing |-> q[s]]
  BY DEF Entitled
<1>5. NatOn(q, Drawing) /\ SumOver(q, Drawing) \in Nat /\ SumOver(q, Drawing) <= v
  <2> HIDE DEF q, w
  <2>1. NatOn(q, Drawing)
    BY <1>2, <1>3, FloorsBelow
  <2> QED
    BY <1>2, <1>3, <2>1, FloorSum
<1>6. q \in [Drawing -> Nat]
  BY <1>4, <1>5 DEF NatOn
<1>7. ASSUME NEW u \in Nat, v <= u, NEW s \in Drawing PROVE q[s] <= Entitled(u)[s]
  <2> DEFINE b == SeatBp(s)
  <2>1. b \in Nat /\ q[s] = (v * b) \div BpDenom /\ Entitled(u)[s] = (u * b) \div BpDenom
    BY RawFact DEF Entitled
  <2> HIDE DEF b
  <2>2. (v * b) \div BpDenom <= (u * b) \div BpDenom
    BY <1>3, <1>7, <2>1, ShareMonotone
  <2> QED
    BY <2>1, <2>2
<1> QED
  BY <1>5, <1>6, <1>7 DEF LeqOn

-----------------------------------------------------------------------------
(* The split.                                                              *)

\* The contract: what it has received is in the vault or was paid out, no destination
\* has more than it is entitled to, and the accounts hold what was paid at their seats.
VaultInv ==
  /\ vault \in Nat /\ inflow \in Nat /\ paid \in [Seats -> Nat]
  /\ vault + SumOver(paid, Seats) = inflow
  /\ LeqOn(AtDrawing(paid), Entitled(inflow), Drawing)
  /\ got \in [Accounts -> Nat]
  /\ \A a \in Accounts : got[a] = SumOver(AtDrawing(paid), DrawingOf(a))

\* The host: every destination has been paid all it is entitled to.
HostBooks(v) ==
  /\ v.received \in Nat
  /\ v.paid = Entitled(v.received)
  /\ v.ledger \in [Accounts -> Nat]
  /\ \A a \in Accounts : v.ledger[a] = SumOver(v.paid, DrawingOf(a))

LEMMA DrawingOfFact ==
  ASSUME NEW a
  PROVE  DrawingOf(a) \in SUBSET Drawing /\ IsFiniteSet(DrawingOf(a))
<1>1. DrawingOf(a) \in SUBSET Drawing
  BY DEF DrawingOf
<1> QED
  BY <1>1, SeatsFact, FS_Subset

LEMMA HostDistributeFact ==
  ASSUME NEW v, HostBooks(v), NEW amt \in Nat, NEW w, w = HostDistribute(v, amt)
  PROVE  HostBooks(w) /\ w.received = v.received + amt
<1> DEFINE x == v.received
           y == v.received + amt
           was == Entitled(x)
           now == Entitled(y)
           due == [s \in Drawing |-> now[s] - was[s]]
<1>1. x \in Nat /\ y \in Nat /\ x <= y /\ v.paid = was
  BY DEF HostBooks
<1>2. was \in [Drawing -> Nat] /\ now \in [Drawing -> Nat] /\ LeqOn(was, now, Drawing)
  <2> HIDE DEF x, y
  <2> QED BY <1>1, EntitledFact
<1>3. w.received = y /\ w.paid = now
  BY DEF HostDistribute, Entitled
<1>4. w.ledger = [a \in Accounts |-> v.ledger[a] + SumOver(due, DrawingOf(a))]
  BY <1>1 DEF HostDistribute, Entitled, DrawingOf
<1> HIDE DEF was, now, x, y
<1>5. \A s \in Drawing : due[s] \in Nat /\ now[s] = was[s] + due[s] /\ was[s] \in Nat
  BY <1>2 DEF LeqOn
<1> HIDE DEF due
<1>6. ASSUME NEW a \in Accounts
      PROVE  /\ SumOver(due, DrawingOf(a)) \in Nat
             /\ v.ledger[a] + SumOver(due, DrawingOf(a)) = SumOver(now, DrawingOf(a))
  <2> DEFINE D == DrawingOf(a)
  <2>1. D \in SUBSET Drawing /\ IsFiniteSet(D)
    BY DrawingOfFact
  <2>2. NatOn(due, D) /\ NatOn(was, D) /\ SumsOn(now, was, due, D)
    BY <1>5, <2>1 DEF NatOn, SumsOn
  <2>3. v.ledger[a] = SumOver(was, D)
    BY <1>1 DEF HostBooks
  <2> HIDE DEF D
  <2>4. SumOver(due, D) \in Nat /\ IntOn(due, D) /\ IntOn(was, D)
    BY <2>1, <2>2, SumNat
  <2>5. SumOver(now, D) = SumOver(was, D) + SumOver(due, D)
    BY <2>1, <2>2, <2>4, SumAdd
  <2> QED
    BY <2>3, <2>4, <2>5 DEF D
<1>7. ASSUME NEW a \in Accounts PROVE w.ledger[a] \in Nat /\ w.ledger[a] = SumOver(now, DrawingOf(a))
  <2>1. w.ledger[a] = v.ledger[a] + SumOver(due, DrawingOf(a)) /\ v.ledger[a] \in Nat
    BY <1>4 DEF HostBooks
  <2> QED
    BY <1>6, <2>1
<1>8. w.ledger \in [Accounts -> Nat]
  BY <1>4, <1>7
<1> QED
  BY <1>1, <1>3, <1>7, <1>8 DEF HostBooks, now, y

LEMMA HostNewFact == HostBooks(HostNew) /\ HostNew.received = 0
<1> DEFINE zero == [s \in Drawing |-> 0]
<1>1. HostNew.received = 0 /\ HostNew.paid = zero /\ HostNew.ledger = [a \in Accounts |-> 0]
  BY DEF HostNew
<1>2. \A s \in Drawing : (0 * SeatBp(s)) \div BpDenom = 0
  <2> SUFFICES ASSUME NEW s \in Drawing PROVE (0 * SeatBp(s)) \div BpDenom = 0
    OBVIOUS
  <2>1. SeatBp(s) \in Nat /\ BpDenom \in Nat \ {0}
    BY RawFact, RolesFact
  <2>2. 0 * SeatBp(s) = 0
    BY <2>1
  <2>3. 0 \div BpDenom = 0
    BY <2>1
  <2> QED
    BY <2>2, <2>3
<1>3. Entitled(0) = zero
  BY <1>2 DEF Entitled
<1>4. ASSUME NEW a PROVE SumOver(zero, DrawingOf(a)) = 0
  <2> DEFINE D == DrawingOf(a)
  <2>1. IsFiniteSet(D) /\ \A s \in D : zero[s] = 0
    BY DrawingOfFact
  <2> HIDE DEF D, zero
  <2>2. SumOver(zero, D) = 0
    BY <2>1, SumZero
  <2> QED
    BY <2>2 DEF D
<1> QED
  BY <1>1, <1>3, <1>4 DEF HostBooks

\* What a seat is owed is what it is entitled to and has not had.
LEMMA OwedFact ==
  ASSUME VaultInv, NEW s \in Drawing
  PROVE  /\ TotalReceived = inflow
         /\ PaidDest(s) = AtDrawing(paid)[s]
         /\ AtDrawing(paid)[s] \in Nat /\ Entitled(inflow)[s] \in Nat
         /\ Owed(s) = Entitled(inflow)[s] - AtDrawing(paid)[s]
         /\ Owed(s) \in Nat
<1>1. TotalReceived = inflow
  BY DEF VaultInv, TotalReceived
<1> DEFINE g == AtDrawing(paid)
           q == Entitled(inflow)
<1>2. g \in [Drawing -> Nat] /\ g[s] = IF s = 0 THEN paid[0] ELSE SumOver(paid, SameDest(s))
  BY AtDrawingFact DEF VaultInv
<1>3. PaidDest(s) = g[s]
  BY <1>2 DEF PaidDest
<1>4. q \in [Drawing -> Nat] /\ g[s] <= q[s]
  BY EntitledFact DEF VaultInv, LeqOn
<1>5. Owed(s) = SatSub(q[s], g[s])
  <2>1. BpDenom # 0 /\ ~(SeatBp(s) > BpDenom)
    BY RawFact, RolesFact
  <2>2. q[s] = (inflow * SeatBp(s)) \div BpDenom
    BY DEF Entitled
  <2>3. Owed(s) = SatSub((inflow * SeatBp(s)) \div BpDenom, g[s])
    BY <1>1, <1>3, <2>1 DEF Owed, Claimable
  <2> QED
    BY <2>2, <2>3
<1> HIDE DEF g, q
<1>6. g[s] \in Nat /\ q[s] \in Nat
  BY <1>2, <1>4
<1>7. Owed(s) = q[s] - g[s] /\ Owed(s) \in Nat
  BY <1>4, <1>5, <1>6 DEF SatSub
<1> QED
  BY <1>1, <1>3, <1>6, <1>7 DEF g, q

LEMMA AccountsFact ==
  /\ IsFiniteSet(Accounts)
  /\ \A s \in Drawing : SeatDest(s) \in Accounts
<1> DEFINE f == [r \in Roles |-> Dest[r]]
           D == {Dest[r] : r \in Roles}
<1>1. f \in Surjection(Roles, D)
  BY DEF Surjection
<1>2. IsFiniteSet(D)
  BY <1>1, RolesFact, FS_Surjection
<1>3. IsFiniteSet({MerchantNet} \cup D)
  BY <1>2, FS_Singleton, FS_Union
<1>4. \A s \in Drawing : SeatDest(s) \in Accounts
  BY SeatsFact DEF SeatDest, Accounts
<1> QED
  BY <1>3, <1>4 DEF Accounts

\* The seats of the earlier layout, each floored on its own and claimed or not when
\* the vault had received r.
LEMMA LegacyFact ==
  ASSUME NEW r \in Nat, NEW at \in [Seats -> {0, r}],
         NEW p, p = [s \in Seats |-> (at[s] * RawBp(s)) \div BpDenom]
  PROVE  /\ p \in [Seats -> Nat]
         /\ LeqOn(AtDrawing(p), Entitled(r), Drawing)
         /\ SumOver(p, Seats) \in Nat /\ SumOver(p, Seats) <= r
<1> DEFINE full == [s \in Seats |-> (r * Raw[s]) \div BpDenom]
<1>1. Raw \in [Seats -> Nat] /\ BpDenom \in Nat \ {0} /\ \A s \in Seats : Raw[s] = RawBp(s)
  BY RawFact, RolesFact DEF Raw
<1>2. ASSUME NEW s \in Seats PROVE p[s] \in Nat /\ full[s] \in Nat /\ p[s] <= full[s]
  <2> DEFINE b == Raw[s]
             u == at[s]
             B == BpDenom
  <2>1. b \in Nat /\ u \in Nat /\ u <= r /\ B \in Nat \ {0}
    BY <1>1
  <2>2. p[s] = (u * b) \div B /\ full[s] = (r * b) \div B
    BY <1>1
  <2> HIDE DEF b, u, B
  <2>3. u * b \in Nat /\ r * b \in Nat
    BY <2>1
  <2>4. (u * b) \div B \in Nat /\ (r * b) \div B \in Nat /\ (u * b) \div B <= (r * b) \div B
    <3> DEFINE y == u * b
               z == r * b
    <3>1. y \div B \in Nat /\ z \div B \in Nat
      <4> HIDE DEF y, z
      <4> QED BY <2>1, <2>3, DivFact DEF y, z
    <3> QED
      BY <2>1, <3>1, ShareMonotone
  <2> QED
    BY <2>2, <2>4
<1>3. p \in [Seats -> Nat]
  BY <1>2
<1> DEFINE g == AtDrawing(p)
           q == Entitled(r)
<1>4. g \in [Drawing -> Nat] /\ SumOver(g, Drawing) = SumOver(p, Seats)
  BY <1>3, AtDrawingFact
<1>5. ASSUME NEW s \in Drawing PROVE g[s] <= q[s]
  <2> DEFINE G == Group(Seats, SeatCanon, s)
             W == SumOver(Raw, G)
  <2>1. G \in SUBSET Seats /\ g[s] = SumOver(p, G)
    BY GroupFact DEF AtDrawing
  <2>2. IsFiniteSet(G)
    BY <2>1, SeatsFact, FS_Subset
  <2>3. NatOn(Raw, G) /\ Shares(full, r, Raw, BpDenom, G)
    BY <1>1, <2>1 DEF NatOn, Shares
  <2>4. IntOn(p, G) /\ IntOn(full, G) /\ LeqOn(p, full, G)
    BY <1>2, <2>1 DEF IntOn, LeqOn
  <2>5. q[s] = (r * W) \div BpDenom
    BY RawFact DEF Entitled, AtDrawing
  <2> HIDE DEF G, full
  <2>6. SumOver(full, G) \in Nat /\ SumOver(full, G) <= (r * SumOver(Raw, G)) \div BpDenom
    BY <1>1, <2>2, <2>3, FloorsBelow
  <2>7. SumOver(p, G) <= SumOver(full, G)
    BY <2>2, <2>4, SumMonotone
  <2> DEFINE A == SumOver(p, G)
             F == SumOver(full, G)
             Z == (r * W) \div BpDenom
  <2>8. A \in Nat /\ F \in Nat /\ Z \in Nat
    <3>1. q \in [Drawing -> Nat]
      BY EntitledFact
    <3> QED
      BY <1>4, <2>1, <2>5, <2>6, <3>1
  <2>9. A <= F /\ F <= Z
    BY <2>6, <2>7
  <2> HIDE DEF A, F, Z
  <2>10. A <= Z
    BY <2>8, <2>9
  <2> QED
    BY <2>1, <2>5, <2>10 DEF A, Z
<1>6. LeqOn(g, q, Drawing)
  BY <1>5 DEF LeqOn
<1>7. SumOver(g, Drawing) \in Nat /\ SumOver(g, Drawing) <= r
  <2>1. /\ q \in [Drawing -> Nat] /\ SumOver(q, Drawing) \in Nat /\ SumOver(q, Drawing) <= r
    BY EntitledFact
  <2>2. NatOn(g, Drawing) /\ NatOn(q, Drawing) /\ IsFiniteSet(Drawing)
    BY <1>4, <2>1, SeatsFact DEF NatOn
  <2> HIDE DEF g, q
  <2>3. SumOver(g, Drawing) \in Nat /\ IntOn(g, Drawing) /\ IntOn(q, Drawing)
    BY <2>2, SumNat
  <2>4. SumOver(g, Drawing) <= SumOver(q, Drawing)
    BY <1>6, <2>2, <2>3, SumMonotone
  <2> QED
    BY <2>1, <2>3, <2>4
<1> QED
  BY <1>3, <1>4, <1>6, <1>7

\* A vault whose seats have received p of r.
LEMMA VaultOf ==
  ASSUME NEW r \in Nat, NEW p \in [Seats -> Nat], SumOver(p, Seats) <= r,
         LeqOn(AtDrawing(p), Entitled(r), Drawing),
         paid = p, inflow = r, vault = r - SumOver(p, Seats),
         got = [a \in Accounts |-> SumOver(p, SeatsOf(a))]
  PROVE  VaultInv
<1> DEFINE g == AtDrawing(p)
           P == SumOver(p, Seats)
<1>1. /\ g \in [Drawing -> Nat] /\ SumOver(g, Drawing) = P
      /\ \A a : SumOver(g, DrawingOf(a)) = SumOver(p, SeatsOf(a))
  BY AtDrawingFact
<1>2. P \in Nat
  <2>1. NatOn(p, Seats) /\ IsFiniteSet(Seats)
    BY SeatsFact DEF NatOn
  <2> QED
    BY <2>1, SumNat
<1>3. ASSUME NEW a \in Accounts PROVE got[a] = SumOver(g, DrawingOf(a)) /\ got[a] \in Nat
  <2> DEFINE D == DrawingOf(a)
  <2>1. D \in SUBSET Drawing /\ IsFiniteSet(D)
    BY DrawingOfFact
  <2>2. NatOn(g, D)
    BY <1>1, <2>1 DEF NatOn
  <2> HIDE DEF D, g
  <2>3. SumOver(g, D) \in Nat
    BY <2>1, <2>2, SumNat
  <2>4. got[a] = SumOver(p, SeatsOf(a))
    OBVIOUS
  <2> QED
    BY <1>1, <2>3, <2>4 DEF D
<1>4. got \in [Accounts -> Nat]
  BY <1>3
<1>5. vault \in Nat /\ vault + P = inflow
  <2> HIDE DEF P
  <2> QED BY <1>2 DEF P
<1> QED
  BY <1>3, <1>4, <1>5 DEF VaultInv

LEMMA InitVault == Init => VaultInv /\ HostBooks(host)
<1> SUFFICES ASSUME VaultInit PROVE VaultInv /\ HostBooks(host)
  BY DEF Init
<1>1. CASE /\ inflow = 0 /\ vault = 0 /\ paid = [s \in Seats |-> 0]
           /\ got = [a \in Accounts |-> 0] /\ host = HostNew
  <2> DEFINE zero == [s \in Seats |-> 0]
             at == [s \in Seats |-> 0]
  <2>1. zero = [s \in Seats |-> (at[s] * RawBp(s)) \div BpDenom]
    <3>1. ASSUME NEW s \in Seats PROVE (at[s] * RawBp(s)) \div BpDenom = 0
      <4>1. RawBp(s) \in Nat /\ BpDenom \in Nat \ {0} /\ at[s] = 0
        BY RawFact, RolesFact DEF Raw
      <4>2. at[s] * RawBp(s) = 0 /\ 0 \div BpDenom = 0
        BY <4>1
      <4> QED
        BY <4>2
    <3> QED
      BY <3>1
  <2>2. at \in [Seats -> {0, 0}]
    OBVIOUS
  <2> HIDE DEF at
  <2>3. zero \in [Seats -> Nat] /\ LeqOn(AtDrawing(zero), Entitled(0), Drawing)
    <3> HIDE DEF zero
    <3> QED BY <2>1, <2>2, LegacyFact
  <2>4. ASSUME NEW S \in SUBSET Seats PROVE SumOver(zero, S) = 0
    <3>1. IsFiniteSet(S) /\ \A s \in S : zero[s] = 0
      BY SeatsFact, FS_Subset
    <3> HIDE DEF zero
    <3> QED BY <3>1, SumZero
  <2>5. SumOver(zero, Seats) = 0 /\ \A a \in Accounts : SumOver(zero, SeatsOf(a)) = 0
    BY <2>4 DEF SeatsOf
  <2>6. got = [a \in Accounts |-> SumOver(zero, SeatsOf(a))] /\ paid = zero
    BY <1>1, <2>5
  <2> HIDE DEF zero
  <2>7. VaultInv
    BY <1>1, <2>3, <2>5, <2>6, VaultOf
  <2> QED
    BY <1>1, <2>7, HostNewFact
<1>2. ASSUME NEW r \in Legacy, NEW at \in [Seats -> {0, r}],
             inflow = r, paid = [s \in Seats |-> (at[s] * RawBp(s)) \div BpDenom],
             vault = r - SumOver(paid, Seats),
             got = [a \in Accounts |-> SumOver(paid, {s \in Seats : SeatDest(s) = a})],
             host = HostDistribute(HostNew, r)
      PROVE  VaultInv /\ HostBooks(host)
  <2>1. r \in Nat
    BY DestAssumption
  <2>2. /\ paid \in [Seats -> Nat] /\ LeqOn(AtDrawing(paid), Entitled(r), Drawing)
        /\ SumOver(paid, Seats) <= r
    BY <1>2, <2>1, LegacyFact
  <2>3. got = [a \in Accounts |-> SumOver(paid, SeatsOf(a))]
    BY <1>2 DEF SeatsOf
  <2>4. VaultInv
    BY <1>2, <2>1, <2>2, <2>3, VaultOf
  <2> QED
    BY <1>2, <2>1, <2>4, HostNewFact, HostDistributeFact
<1> QED
  BY <1>1, <1>2 DEF VaultInit

\* What a claim leaves behind: the destination's whole entitlement at its drawing seat.
ClaimedAt(p, seat, sum) ==
  [s \in Seats |-> IF s = seat THEN sum ELSE IF seat # 0 /\ s \in SameDest(seat) THEN 0 ELSE p[s]]

LEMMA ClaimedFact ==
  ASSUME NEW p \in [Seats -> Nat], NEW seat \in Drawing, NEW sum \in Nat,
         NEW n, n = ClaimedAt(p, seat, sum)
  PROVE  /\ n \in [Seats -> Nat]
         /\ AtDrawing(n)[seat] = sum
         /\ \A t \in Drawing : t # seat => AtDrawing(n)[t] = AtDrawing(p)[t]
<1>1. n \in [Seats -> Nat] /\ \A s \in Seats : n[s] = IF s = seat THEN sum
                                ELSE IF seat # 0 /\ s \in SameDest(seat) THEN 0 ELSE p[s]
  BY DEF ClaimedAt
<1> DEFINE G == Group(Seats, SeatCanon, seat)
<1>2. /\ G \in SUBSET Seats /\ seat \in G /\ IsFiniteSet(G)
      /\ (seat = 0 => G = {0}) /\ (seat # 0 => G = SameDest(seat))
  <2>1. /\ G \in SUBSET Seats /\ seat \in G
        /\ (seat = 0 => G = {0}) /\ (seat # 0 => G = SameDest(seat))
    BY GroupFact
  <2> QED
    BY <2>1, SeatsFact, FS_Subset
<1>3. \A s \in G \ {seat} : n[s] = 0
  BY <1>1, <1>2
<1>4. AtDrawing(n)[seat] = sum
  <2> DEFINE H == G \ {seat}
  <2>1. AtDrawing(n)[seat] = SumOver(n, G)
    BY DEF AtDrawing
  <2>2. n[seat] = sum /\ IntOn(n, G)
    <3>1. \A s \in G : s \in Seats
      BY <1>2
    <3> QED
      BY <1>1, <1>2, <3>1 DEF IntOn
  <2>3. IsFiniteSet(H) /\ \A s \in H : n[s] = 0
    BY <1>2, <1>3, FS_RemoveElement
  <2> HIDE DEF G
  <2>4. SumOver(n, G) = n[seat] + SumOver(n, H)
    BY <1>2, <2>2, SumRemove
  <2> HIDE DEF H
  <2>5. SumOver(n, H) = 0
    BY <2>3, SumZero
  <2> QED
    BY <2>1, <2>2, <2>4, <2>5 DEF G
<1>5. ASSUME NEW t \in Drawing \ {seat} PROVE AtDrawing(n)[t] = AtDrawing(p)[t]
  <2> DEFINE F == Group(Seats, SeatCanon, t)
  <2>1. F \in SUBSET Seats /\ AtDrawing(n)[t] = SumOver(n, F) /\ AtDrawing(p)[t] = SumOver(p, F)
    BY GroupFact DEF AtDrawing
  <2>2. IsFiniteSet(F)
    BY <2>1, SeatsFact, FS_Subset
  <2>3. \A s \in F : s \notin G
    BY DEF Group
  <2>4. \A s \in F : s \in Seats /\ n[s] = p[s]
    <3> HIDE DEF F, G
    <3> QED BY <1>1, <1>2, <2>1, <2>3
  <2>5. SameOn(p, n, F) /\ IntOn(p, F)
    BY <2>4 DEF SameOn, IntOn
  <2> HIDE DEF F
  <2>6. SumOver(p, F) = SumOver(n, F)
    BY <2>2, <2>5, SumCong
  <2> QED
    BY <2>1, <2>6
<1> QED
  BY <1>1, <1>4, <1>5

(* A claim moves what the destination is owed from the vault to its account. *)
LEMMA SplitClaimVault ==
  ASSUME VaultInv, NEW seat \in Seats, SplitClaim(seat)
  PROVE  VaultInv'
<1> DEFINE o == Owed(seat)
           e == Entitled(inflow)
           g == AtDrawing(paid)
           h == AtDrawing(paid')
           dest == SeatDest(seat)
<1>1. /\ seat \in Drawing /\ o \in 1..vault /\ vault' = vault - o /\ inflow' = inflow
      /\ got' = [got EXCEPT ![dest] = @ + o]
      /\ paid' = ClaimedAt(paid, seat, PaidDest(seat) + o)
  BY DEF SplitClaim, ClaimedAt
<1>2. vault \in Nat /\ inflow \in Nat /\ paid \in [Seats -> Nat] /\ got \in [Accounts -> Nat]
  BY DEF VaultInv
<1>3. /\ PaidDest(seat) = g[seat] /\ g[seat] \in Nat /\ e[seat] \in Nat
      /\ o = e[seat] - g[seat] /\ o \in Nat
  BY <1>1, OwedFact
<1>4. PaidDest(seat) + o = e[seat]
  <2> HIDE DEF o, e, g
  <2> QED BY <1>3
<1>5. paid' \in [Seats -> Nat] /\ h[seat] = e[seat] /\ \A t \in Drawing : t # seat => h[t] = g[t]
  <2> DEFINE sum == e[seat]
  <2>1. sum \in Nat /\ paid' = ClaimedAt(paid, seat, sum)
    BY <1>1, <1>3, <1>4
  <2> HIDE DEF sum, o, e
  <2>2. paid' \in [Seats -> Nat] /\ h[seat] = sum /\ \A t \in Drawing : t # seat => h[t] = g[t]
    <3>1. seat \in Drawing /\ paid \in [Seats -> Nat]
      BY <1>1, <1>2
    <3> QED
      BY <2>1, <3>1, ClaimedFact
  <2> QED
    BY <2>2 DEF sum
<1>6. /\ g \in [Drawing -> Nat] /\ h \in [Drawing -> Nat] /\ e \in [Drawing -> Nat]
      /\ SumOver(g, Drawing) = SumOver(paid, Seats) /\ SumOver(h, Drawing) = SumOver(paid', Seats)
  BY <1>2, <1>5, AtDrawingFact, EntitledFact
<1> HIDE DEF o, e, g, h
<1>7. ASSUME NEW D \in SUBSET Drawing, seat \in D
      PROVE  SumOver(h, D) = SumOver(g, D) + o /\ SumOver(g, D) \in Nat
  <2>1. IsFiniteSet(D) /\ NatOn(g, D) /\ NatOn(h, D)
    BY <1>6, SeatsFact, FS_Subset DEF NatOn
  <2>2. SumOver(g, D) \in Nat /\ IntOn(g, D) /\ IntOn(h, D)
    BY <2>1, SumNat
  <2>3. SameOn(g, h, D \ {seat})
    BY <1>5 DEF SameOn
  <2>4. SumOver(h, D) = SumOver(g, D) - g[seat] + h[seat]
    BY <1>7, <2>1, <2>2, <2>3, SumUpdate
  <2> QED
    BY <1>3, <1>5, <2>2, <2>4
<1>8. vault' \in Nat /\ vault' + SumOver(paid', Seats) = inflow
  <2>1. SumOver(h, Drawing) = SumOver(g, Drawing) + o /\ SumOver(g, Drawing) \in Nat
    BY <1>1, <1>7
  <2>2. vault + SumOver(g, Drawing) = inflow
    BY <1>6 DEF VaultInv
  <2> DEFINE a == SumOver(g, Drawing)
             b == SumOver(h, Drawing)
  <2>3. a \in Nat /\ b = a + o /\ vault + a = inflow
    BY <2>1, <2>2
  <2> HIDE DEF a, b
  <2>4. vault' \in Nat /\ vault' + b = inflow
    BY <1>1, <1>2, <1>3, <2>3
  <2> QED
    BY <1>6, <2>4 DEF b
<1>9. LeqOn(h, e, Drawing)
  <2> SUFFICES ASSUME NEW s \in Drawing PROVE h[s] <= e[s]
    BY DEF LeqOn
  <2>1. CASE s = seat
    BY <1>3, <1>5, <2>1
  <2>2. CASE s # seat
    <3>1. g[s] <= e[s]
      BY DEF VaultInv, LeqOn, g, e
    <3>2. h[s] = g[s]
      BY <1>5, <2>2
    <3> QED
      BY <3>1, <3>2
  <2> QED
    BY <2>1, <2>2
<1>10. dest \in Accounts
  BY <1>1, AccountsFact
<1>11. ASSUME NEW a \in Accounts PROVE got'[a] \in Nat /\ got'[a] = SumOver(h, DrawingOf(a))
  <2>1. got[a] = SumOver(g, DrawingOf(a)) /\ got[a] \in Nat
    BY DEF VaultInv, g
  <2>2. DrawingOf(a) \in SUBSET Drawing /\ IsFiniteSet(DrawingOf(a))
    BY DrawingOfFact
  <2>3. CASE a = dest
    <3>1. seat \in DrawingOf(a) /\ got'[a] = got[a] + o
      BY <1>1, <1>2, <2>3 DEF DrawingOf
    <3> QED
      BY <1>3, <1>7, <2>1, <2>2, <3>1
  <2>4. CASE a # dest
    <3>1. seat \notin DrawingOf(a) /\ got'[a] = got[a]
      BY <1>1, <1>2, <2>4 DEF DrawingOf
    <3>2. SameOn(g, h, DrawingOf(a)) /\ IntOn(g, DrawingOf(a))
      BY <1>5, <1>6, <2>2, <3>1 DEF SameOn, IntOn
    <3>3. SumOver(g, DrawingOf(a)) = SumOver(h, DrawingOf(a))
      BY <2>2, <3>2, SumCong
    <3> QED
      BY <2>1, <3>1, <3>3
  <2> QED
    BY <2>3, <2>4
<1>12. got' \in [Accounts -> Nat]
  BY <1>1, <1>2, <1>11
<1> QED
  BY <1>1, <1>2, <1>5, <1>8, <1>9, <1>11, <1>12 DEF VaultInv, h, e

(* A payment entitles every destination to at least as much as before. *)
LEMMA PaySplitVault ==
  ASSUME VaultInv, HostBooks(host), NEW amt \in Nat, PaySplit(amt)
  PROVE  VaultInv' /\ HostBooks(host')
<1>1. /\ vault' = vault + amt /\ inflow' = inflow + amt /\ paid' = paid /\ got' = got
      /\ host' = (IF deployed THEN HostDistribute(host, amt) ELSE host)
  BY DEF PaySplit
<1>2. HostBooks(host')
  BY <1>1, HostDistributeFact
<1> DEFINE g == AtDrawing(paid)
           e == Entitled(inflow)
           f == Entitled(inflow')
           P == SumOver(paid, Seats)
<1>3. vault \in Nat /\ inflow \in Nat /\ inflow' \in Nat /\ inflow <= inflow' /\ paid \in [Seats -> Nat]
  BY <1>1 DEF VaultInv
<1>4. /\ e \in [Drawing -> Nat] /\ f \in [Drawing -> Nat] /\ LeqOn(e, f, Drawing)
      /\ g \in [Drawing -> Nat] /\ LeqOn(g, e, Drawing)
  BY <1>3, EntitledFact, AtDrawingFact DEF VaultInv
<1>5. LeqOn(g, f, Drawing)
  <2> HIDE DEF g, e, f
  <2> SUFFICES ASSUME NEW s \in Drawing PROVE g[s] <= f[s]
    BY DEF LeqOn
  <2>1. g[s] \in Nat /\ e[s] \in Nat /\ f[s] \in Nat /\ g[s] <= e[s] /\ e[s] <= f[s]
    BY <1>4 DEF LeqOn
  <2> QED
    BY <2>1
<1>6. P \in Nat
  <2>1. NatOn(paid, Seats) /\ IsFiniteSet(Seats)
    BY <1>3, SeatsFact DEF NatOn
  <2> QED
    BY <2>1, SumNat
<1>7. vault' \in Nat /\ vault' + P = inflow'
  <2>1. vault + P = inflow
    BY DEF VaultInv
  <2> HIDE DEF P
  <2> QED
    BY <1>1, <1>3, <1>6, <2>1
<1> QED
  BY <1>1, <1>2, <1>3, <1>5, <1>7 DEF VaultInv

(* The invariant of the split, kept by every step. *)
THEOREM VaultSound == Spec => [](VaultInv /\ HostBooks(host))
<1> DEFINE Inv == VaultInv /\ HostBooks(host)
<1>1. Inv /\ [Next]_vars => Inv'
  <2> SUFFICES ASSUME VaultInv, HostBooks(host), [Next]_vars PROVE VaultInv' /\ HostBooks(host')
    OBVIOUS
  <2>1. ASSUME UNCHANGED <<vault, inflow, paid, got, host>> PROVE VaultInv' /\ HostBooks(host')
    BY <2>1 DEF VaultInv
  <2>2. CASE UNCHANGED vars
    BY <2>1, <2>2 DEF vars, vaultVars
  <2>3. CASE TimePasses \/ \E amount \in 1..MaxAmount : AccrueValue(amount)
    BY <2>1, <2>3 DEF TimePasses, AccrueValue, vaultVars
  <2>4. CASE \E rate \in Rates : SettleRound(rate)
    BY <2>1, <2>4 DEF SettleRound, AdvanceMark, vaultVars
  <2>5. CASE \E p \in ClaimP : FundClaimRecord(p)
    BY <2>1, <2>5 DEF FundClaimRecord
  <2>6. ASSUME NEW amount \in 1..MaxAmount, PaySplit(amount) PROVE VaultInv' /\ HostBooks(host')
    <3>1. amount \in Nat
      BY LoadAssumption
    <3> QED
      BY <2>6, <3>1, PaySplitVault
  <2>7. CASE DeploySplit
    BY <2>1, <2>7 DEF DeploySplit
  <2>8. ASSUME NEW seat \in Seats, SplitClaim(seat) PROVE VaultInv' /\ HostBooks(host')
    <3>1. VaultInv'
      BY <2>8, SplitClaimVault
    <3>2. host' = host
      BY <2>8 DEF SplitClaim
    <3> QED
      BY <3>1, <3>2
  <2> QED
    BY <2>2, <2>3, <2>4, <2>5, <2>6, <2>7, <2>8 DEF Next, Step
<1> QED
  BY <1>1, InitVault, PTL DEF Spec

(* Every seat can be paid what it is owed, in any order, and contract and host agree. *)
THEOREM SplitCoveredHolds == Spec => []SplitCovered
<1>1. VaultInv /\ HostBooks(host) => SplitCovered
  <2> SUFFICES ASSUME VaultInv, HostBooks(host) PROVE SplitCovered
    OBVIOUS
  <2> DEFINE g == AtDrawing(paid)
             e == Entitled(inflow)
             o == [s \in Drawing |-> Owed(s)]
  <2>1. /\ paid \in [Seats -> Nat] /\ vault \in Nat /\ inflow \in Nat /\ vault + SumOver(paid, Seats) = inflow
        /\ got \in [Accounts -> Nat] /\ \A a \in Accounts : got[a] = SumOver(g, DrawingOf(a))
    BY DEF VaultInv
  <2>2. g \in [Drawing -> Nat] /\ SumOver(g, Drawing) = SumOver(paid, Seats)
    BY <2>1, AtDrawingFact
  <2>3. e \in [Drawing -> Nat] /\ SumOver(e, Drawing) \in Nat /\ SumOver(e, Drawing) <= inflow
    BY <2>1, EntitledFact
  <2>4. TotalReceived = inflow
    BY SeatsFact, OwedFact
  <2>5. \A s \in Drawing : o[s] = e[s] - g[s] /\ o[s] \in Nat /\ o[s] = Owed(s)
    BY OwedFact
  <2> HIDE DEF g, e, o
  <2>6. /\ NatOn(g, Drawing) /\ NatOn(o, Drawing) /\ NatOn(e, Drawing)
        /\ SumsOn(e, g, o, Drawing) /\ IsFiniteSet(Drawing)
    BY <2>2, <2>3, <2>5, SeatsFact DEF NatOn, SumsOn
  <2>7. /\ IntOn(g, Drawing) /\ IntOn(o, Drawing)
        /\ SumOver(g, Drawing) \in Nat /\ SumOver(o, Drawing) \in Nat
    BY <2>6, SumNat
  <2>8. SumOver(o, Drawing) <= vault
    <3> DEFINE a == SumOver(g, Drawing)
               b == SumOver(o, Drawing)
               c == SumOver(e, Drawing)
    <3>1. c = a + b
      BY <2>6, <2>7, SumAdd
    <3>2. a \in Nat /\ b \in Nat /\ c \in Nat /\ c <= inflow /\ vault + a = inflow
      BY <2>1, <2>2, <2>3, <2>7
    <3> HIDE DEF a, b, c
    <3>3. b <= vault
      BY <2>1, <3>1, <3>2
    <3> QED
      BY <3>3 DEF b
  <2>9. vault + SumOver(got, Accounts) = inflow
    <3> DEFINE key == [s \in Drawing |-> SeatDest(s)]
    <3>1. IsFiniteSet(Accounts) /\ \A s \in Drawing : key[s] \in Accounts
      BY AccountsFact
    <3>2. \A a : Group(Drawing, key, a) = DrawingOf(a)
      BY DEF Group, DrawingOf
    <3>3. GroupSums(got, g, Drawing, key, Accounts)
      BY <2>1, <3>2 DEF GroupSums
    <3> HIDE DEF key
    <3>4. SumOver(got, Accounts) = SumOver(g, Drawing)
      BY <2>6, <2>7, <3>1, <3>3, SumPartition
    <3> QED
      BY <2>1, <2>2, <3>4
  <2>10. ASSUME host.received = inflow, NEW a \in Accounts,
                \A s \in Drawing : SeatDest(s) = a => Owed(s) = 0
         PROVE  got[a] = host.ledger[a]
    <3> DEFINE D == DrawingOf(a)
    <3>1. D \in SUBSET Drawing /\ IsFiniteSet(D) /\ \A s \in D : SeatDest(s) = a
      BY DrawingOfFact DEF DrawingOf
    <3>2. host.ledger[a] = SumOver(e, D)
      BY <2>10 DEF HostBooks, e
    <3>3. got[a] = SumOver(g, D)
      BY <2>1
    <3> HIDE DEF D
    <3>4. ASSUME NEW s \in D PROVE g[s] = e[s] /\ g[s] \in Nat
      <4>1. s \in Drawing /\ e[s] \in Nat /\ g[s] \in Nat /\ o[s] = e[s] - g[s] /\ o[s] = 0
        BY <2>2, <2>3, <2>5, <2>10, <3>1
      <4> QED
        BY <4>1
    <3>5. SameOn(g, e, D) /\ IntOn(g, D)
      BY <3>4 DEF SameOn, IntOn
    <3>6. SumOver(g, D) = SumOver(e, D)
      BY <3>1, <3>5, SumCong
    <3> QED
      BY <3>2, <3>3, <3>6
  <2>11. SumOver([s \in Drawing |-> Owed(s)], Drawing) <= vault
    BY <2>8 DEF o
  <2> QED
    BY <2>4, <2>9, <2>10, <2>11 DEF SplitCovered
<1> QED
  BY <1>1, VaultSound, PTL

-----------------------------------------------------------------------------
(* The channel's watermark and the claim-records.                          *)

Canonical == {r \in Roles : Canon(r) = r}

LEMMA CanonicalFact ==
  /\ Canonical \in SUBSET Roles /\ IsFiniteSet(Canonical) /\ Cardinality(Canonical) \in Nat
  /\ Cardinality(Drawing) = Cardinality(Canonical) + 1
<1>1. Canonical \in SUBSET Roles /\ 0 \notin Canonical /\ Drawing = Canonical \cup {0}
  BY SeatsFact DEF Canonical, Drawing
<1>2. IsFiniteSet(Canonical)
  BY <1>1, RolesFact, FS_Subset
<1>3. Cardinality(Canonical \cup {0}) = Cardinality(Canonical) + 1
  BY <1>1, <1>2, FS_AddElement
<1> QED
  BY <1>1, <1>2, <1>3, FS_CardinalityType

\* The roles of one destination.
LEMMA SameDestFact ==
  ASSUME NEW r \in Canonical
  PROVE  /\ SameDest(r) \in SUBSET Roles /\ IsFiniteSet(SameDest(r)) /\ r \in SameDest(r)
         /\ \A s \in SameDest(r) : s # r => s \notin Canonical
<1>1. SameDest(r) \in SUBSET Roles /\ r \in SameDest(r) /\ \A s \in SameDest(r) : s # r => s \notin Canonical
  BY DEF SameDest, Canonical
<1> QED
  BY <1>1, RolesFact, FS_Subset

\* Taking a vector together by destination loses nothing.
LEMMA AtCanonFact ==
  ASSUME NEW v \in [Roles -> Nat]
  PROVE  /\ AtCanon(v) \in [Roles -> Nat]
         /\ \A r \in Canonical : AtCanon(v)[r] = SumOver(v, SameDest(r))
         /\ \A r \in Roles : r \notin Canonical => AtCanon(v)[r] = 0
         /\ SumOver(AtCanon(v), Canonical) = SumOver(v, Roles)
<1> DEFINE w == AtCanon(v)
           key == [r \in Roles |-> Canon(r)]
<1>1. /\ w = [r \in Roles |-> w[r]]
      /\ \A r \in Canonical : w[r] = SumOver(v, SameDest(r))
      /\ \A r \in Roles : r \notin Canonical => w[r] = 0
  BY DEF AtCanon, Canonical
<1>2. ASSUME NEW r \in Canonical PROVE w[r] \in Nat
  <2> DEFINE G == SameDest(r)
  <2>1. IsFiniteSet(G) /\ NatOn(v, G)
    BY SameDestFact DEF NatOn
  <2>2. SumOver(v, G) \in Nat
    <3> HIDE DEF G
    <3> QED BY <2>1, SumNat
  <2> QED
    BY <1>1, <2>2
<1>3. w \in [Roles -> Nat]
  BY <1>1, <1>2
<1>4. \A r \in Roles : key[r] \in Canonical
  BY CanonFact DEF Canonical
<1>5. \A r \in Canonical : Group(Roles, key, r) = SameDest(r)
  BY DEF Group, SameDest
<1>6. GroupSums(w, v, Roles, key, Canonical)
  BY <1>1, <1>5 DEF GroupSums
<1>7. IntOn(v, Roles) /\ IsFiniteSet(Roles) /\ IsFiniteSet(Canonical)
  BY TotalFact, RolesFact, CanonicalFact
<1>8. SumOver(w, Canonical) = SumOver(v, Roles)
  <2> HIDE DEF w, key
  <2> QED BY <1>4, <1>6, <1>7, SumPartition
<1> QED
  BY <1>1, <1>3, <1>8

\* The due amounts at a target: a destination is due at its first role, less than a
\* unit per destination is left over, and a later target is due no less.
LEMMA DueFact ==
  ASSUME NEW t \in Nat
  PROVE  /\ DueAt(t) \in [Roles -> Nat]
         /\ \A r \in Roles : r \notin Canonical => DueAt(t)[r] = 0
         /\ t - SumOver(DueAt(t), Roles) \in 0 .. (Cardinality(Drawing) - 2)
         /\ \A u \in Nat : t <= u => LeqOn(DueAt(t), DueAt(u), Roles)
<1> DEFINE W == Total(Bp)
           w == AtCanon(Bp)
           q == DueAt(t)
<1>1. W \in Nat \ {0} /\ W = SumOver(Bp, Roles)
  BY VectorAssumption, RolesFact, TotalFact
<1>2. /\ w \in [Roles -> Nat] /\ SumOver(w, Canonical) = W
      /\ \A r \in Roles : r \notin Canonical => w[r] = 0
  BY <1>1, RolesFact, AtCanonFact
<1>3. q = [r \in Roles |-> q[r]] /\ Shares(q, t, w, W, Roles)
  BY DEF DueAt, Shares
<1> HIDE DEF W, w, q
<1>4. NatOn(w, Roles) /\ IsFiniteSet(Roles) /\ Canonical \in SUBSET Roles /\ IsFiniteSet(Canonical)
  BY <1>2, RolesFact, CanonicalFact DEF NatOn
<1>5. NatOn(q, Roles)
  BY <1>1, <1>3, <1>4, FloorsBelow
<1>6. q \in [Roles -> Nat]
  BY <1>3, <1>5 DEF NatOn
<1>7. ASSUME NEW r \in Roles, r \notin Canonical PROVE q[r] = 0
  <2>1. q[r] = (t * w[r]) \div W /\ w[r] = 0
    BY <1>2, <1>3, <1>7 DEF Shares
  <2>2. t * 0 = 0 /\ 0 \div W = 0
    BY <1>1
  <2> QED
    BY <2>1, <2>2
<1>8. SumOver(q, Roles) = SumOver(q, Canonical)
  <2> DEFINE A == Canonical
             B == Roles \ Canonical
  <2>1. A \cup B = Roles /\ A \cap B = {} /\ IsFiniteSet(A) /\ IsFiniteSet(B)
    BY <1>4, FS_Difference
  <2>2. IntOn(q, A \cup B) /\ NatOn(q, A)
    BY <1>5, <2>1 DEF IntOn, NatOn
  <2>3. \A r \in B : q[r] = 0
    BY <1>7
  <2> HIDE DEF A, B
  <2>4. SumOver(q, B) = 0
    BY <2>1, <2>3, SumZero
  <2>5. SumOver(q, A \cup B) = SumOver(q, A) + SumOver(q, B)
    BY <2>1, <2>2, SumUnion
  <2>6. SumOver(q, A) \in Nat
    BY <2>1, <2>2, SumNat
  <2>7. SumOver(q, Roles) = SumOver(q, A) + 0
    BY <2>1, <2>4, <2>5
  <2> QED
    BY <2>6, <2>7 DEF A
<1>9. t - SumOver(q, Roles) \in 0 .. (Cardinality(Drawing) - 2)
  <2>1. NatOn(w, Canonical) /\ Shares(q, t, w, W, Canonical)
    BY <1>3, <1>4 DEF NatOn, Shares
  <2> DEFINE D == Canonical
  <2>2. IsFiniteSet(D) /\ NatOn(w, D) /\ SumOver(w, D) = W /\ Shares(q, t, w, W, D)
    BY <1>2, <1>4, <2>1
  <2> HIDE DEF D
  <2>3. SumOver(q, D) \in Nat /\ SumOver(q, D) <= t /\ t - SumOver(q, D) < Cardinality(D)
    BY <1>1, <2>2, FloorSum
  <2>4. Cardinality(D) \in Nat /\ Cardinality(Drawing) = Cardinality(D) + 1
    BY CanonicalFact DEF D
  <2> DEFINE a == SumOver(q, D)
             c == Cardinality(D)
             x == Cardinality(Drawing)
  <2>5. a \in Nat /\ a <= t /\ t - a < c /\ c \in Nat /\ x = c + 1
    BY <2>3, <2>4
  <2> HIDE DEF a, c, x
  <2>6. t - a \in 0 .. (x - 2)
    BY <2>5
  <2> QED
    BY <1>8, <2>6 DEF a, x, D
<1>10. ASSUME NEW u \in Nat, t <= u, NEW r \in Roles PROVE q[r] <= DueAt(u)[r]
  <2> DEFINE b == w[r]
  <2>1. b \in Nat /\ q[r] = (t * b) \div W /\ DueAt(u)[r] = (u * b) \div W
    BY <1>2, <1>3 DEF DueAt, Shares, w, W
  <2> HIDE DEF b
  <2>2. (t * b) \div W <= (u * b) \div W
    BY <1>1, <1>10, <2>1, ShareMonotone
  <2> QED
    BY <2>1, <2>2
<1> QED
  BY <1>6, <1>7, <1>9, <1>10 DEF LeqOn, q

\* A record of the new layout, taken together by destination, is what it was.
LEMMA DueAtCanon ==
  ASSUME NEW t \in Nat
  PROVE  LeqOn(AtCanon(DueAt(t)), DueAt(t), Roles)
<1> DEFINE q == DueAt(t)
<1>1. q \in [Roles -> Nat] /\ \A r \in Roles : r \notin Canonical => q[r] = 0
  BY DueFact
<1>2. /\ \A r \in Canonical : AtCanon(q)[r] = SumOver(q, SameDest(r))
      /\ \A r \in Roles : r \notin Canonical => AtCanon(q)[r] = 0
  BY <1>1, AtCanonFact
<1> HIDE DEF q
<1>3. ASSUME NEW r \in Canonical PROVE AtCanon(q)[r] = q[r] /\ q[r] \in Nat
  <2> DEFINE G == SameDest(r)
             H == G \ {r}
  <2>1. IsFiniteSet(G) /\ r \in G /\ G \in SUBSET Roles /\ \A s \in G : s # r => s \notin Canonical
    BY SameDestFact
  <2>2. IntOn(q, G) /\ q[r] \in Nat
    BY <1>1, <2>1 DEF IntOn
  <2> HIDE DEF G
  <2>3. IsFiniteSet(H) /\ \A s \in H : q[s] = 0
    BY <1>1, <2>1, FS_RemoveElement
  <2>4. SumOver(q, G) = q[r] + SumOver(q, H)
    BY <2>1, <2>2, SumRemove
  <2> HIDE DEF H
  <2>5. SumOver(q, H) = 0
    BY <2>3, SumZero
  <2>6. SumOver(q, G) = q[r]
    BY <2>2, <2>4, <2>5
  <2> QED
    BY <1>2, <2>2, <2>6 DEF G
<1>4. ASSUME NEW r \in Roles PROVE AtCanon(q)[r] <= q[r]
  <2>1. CASE r \in Canonical
    BY <1>3, <2>1
  <2>2. CASE r \notin Canonical
    BY <1>1, <1>2, <2>2
  <2> QED
    BY <2>1, <2>2
<1> QED
  BY <1>4 DEF LeqOn, q

\* A record of the earlier layout has paid no destination more than it is due.
LEMMA LegacyMarkFact ==
  ASSUME NEW f \in Nat, NEW each, each = [r \in Roles |-> (f * Bp[r]) \div Total(Bp)]
  PROVE  each \in [Roles -> Nat] /\ LeqOn(AtCanon(each), DueAt(f), Roles)
<1> DEFINE W == Total(Bp)
           q == DueAt(f)
<1>1. W \in Nat \ {0} /\ NatOn(Bp, Roles) /\ IsFiniteSet(Roles)
  BY VectorAssumption, RolesFact, TotalFact
<1>2. Shares(each, f, Bp, W, Roles)
  BY DEF Shares
<1>3. NatOn(each, Roles)
  <2> HIDE DEF W
  <2> QED BY <1>1, <1>2, FloorsBelow
<1>4. each \in [Roles -> Nat]
  BY <1>3 DEF NatOn
<1>5. q \in [Roles -> Nat]
  BY DueFact
<1>6. /\ \A r \in Canonical : AtCanon(each)[r] = SumOver(each, SameDest(r))
      /\ \A r \in Roles : r \notin Canonical => AtCanon(each)[r] = 0
      /\ \A r \in Canonical : AtCanon(Bp)[r] = SumOver(Bp, SameDest(r))
  BY <1>4, RolesFact, AtCanonFact
<1>7. \A r \in Roles : q[r] = (f * AtCanon(Bp)[r]) \div W
  BY DEF DueAt
<1> HIDE DEF W, q
<1>8. ASSUME NEW r \in Canonical PROVE AtCanon(each)[r] <= q[r]
  <2> DEFINE G == SameDest(r)
  <2>1. IsFiniteSet(G) /\ G \in SUBSET Roles /\ r \in Roles
    BY SameDestFact, CanonicalFact
  <2>2. NatOn(Bp, G) /\ Shares(each, f, Bp, W, G)
    BY <1>1, <1>2, <2>1 DEF NatOn, Shares
  <2> HIDE DEF G
  <2>3. SumOver(each, G) <= (f * SumOver(Bp, G)) \div W
    BY <1>1, <2>1, <2>2, FloorsBelow
  <2>4. q[r] = (f * SumOver(Bp, G)) \div W /\ AtCanon(each)[r] = SumOver(each, G)
    BY <1>6, <1>7, <2>1 DEF G
  <2> QED
    BY <2>3, <2>4
<1>9. ASSUME NEW r \in Roles PROVE AtCanon(each)[r] <= q[r]
  <2>1. CASE r \in Canonical
    BY <1>8, <2>1
  <2>2. CASE r \notin Canonical
    BY <1>5, <1>6, <2>2
  <2> QED
    BY <2>1, <2>2
<1> QED
  BY <1>4, <1>9 DEF LeqOn, q

\* No destination has been paid more than it is due at the watermark.
MarkBooks(m) ==
  /\ m.funded \in Nat /\ m.paid \in [Roles -> Nat]
  /\ m.residue = m.funded - SumOver(m.paid, Roles)
  /\ LeqOn(AtCanon(m.paid), DueAt(m.funded), Roles)

ClaimBooks == \A p \in DOMAIN claims : p \in Nat /\ claims[p] = DistributeP(p)

LEMMA InitMark == Init => MarkBooks(mark) /\ ClaimBooks
<1> SUFFICES ASSUME VaultInit PROVE MarkBooks(mark) /\ ClaimBooks
  BY DEF Init
<1>1. ClaimBooks
  BY DEF VaultInit, ClaimBooks
<1>2. ASSUME NEW f \in Nat PROVE MarkBooks(LegacyMark(f))
  <2> DEFINE each == [r \in Roles |-> (f * Bp[r]) \div Total(Bp)]
  <2>1. LegacyMark(f) = [funded |-> f, paid |-> each, residue |-> f - SumOver(each, Roles)]
    BY DEF LegacyMark
  <2>2. each \in [Roles -> Nat] /\ LeqOn(AtCanon(each), DueAt(f), Roles)
    BY LegacyMarkFact
  <2> HIDE DEF each
  <2> QED
    BY <1>2, <2>1, <2>2 DEF MarkBooks
<1>3. FreshMark = LegacyMark(0)
  <2> DEFINE zero == [r \in Roles |-> 0]
             each == [r \in Roles |-> (0 * Bp[r]) \div Total(Bp)]
  <2>1. each = zero
    <3>1. ASSUME NEW r \in Roles PROVE (0 * Bp[r]) \div Total(Bp) = 0
      <4>1. Bp[r] \in Nat /\ Total(Bp) \in Nat \ {0}
        BY RolesFact, TotalFact, VectorAssumption
      <4>2. 0 * Bp[r] = 0 /\ 0 \div Total(Bp) = 0
        BY <4>1
      <4> QED
        BY <4>2
    <3> QED
      BY <3>1
  <2>2. SumOver(zero, Roles) = 0
    <3>1. IsFiniteSet(Roles) /\ \A r \in Roles : zero[r] = 0
      BY RolesFact
    <3> HIDE DEF zero
    <3> QED BY <3>1, SumZero
  <2>3. LegacyMark(0) = [funded |-> 0, paid |-> each, residue |-> 0 - SumOver(each, Roles)]
    BY DEF LegacyMark
  <2> QED
    BY <2>1, <2>2, <2>3 DEF FreshMark
<1>4. CASE mark = FreshMark
  BY <1>1, <1>2, <1>3, <1>4
<1>5. ASSUME NEW r \in Legacy, mark = LegacyMark(r) PROVE MarkBooks(mark)
  <2>1. r \in Nat
    BY DestAssumption
  <2> QED
    BY <1>2, <1>5, <2>1
<1> QED
  BY <1>1, <1>4, <1>5 DEF VaultInit

LEMMA AdvanceMarkBooks ==
  ASSUME NEW target \in Nat, AdvanceMark(target)
  PROVE  MarkBooks(mark')
<1> DEFINE q == DueAt(target)
<1>1. mark' = [funded |-> target, paid |-> q, residue |-> target - SumOver(q, Roles)]
  BY DEF AdvanceMark
<1>2. q \in [Roles -> Nat] /\ LeqOn(AtCanon(q), q, Roles)
  BY DueFact, DueAtCanon
<1>3. DueAt(target) = q
  OBVIOUS
<1> HIDE DEF q
<1> QED
  BY <1>1, <1>2, <1>3 DEF MarkBooks

(* The invariant of the watermark and the claim-records, kept by every step. *)
THEOREM MarkSound == Spec => [](LedgerInv /\ MarkBooks(mark) /\ ClaimBooks)
<1>1. LedgerInv /\ MarkBooks(mark) /\ ClaimBooks /\ [Next]_vars => MarkBooks(mark)' /\ ClaimBooks'
  <2> SUFFICES ASSUME LedgerInv, MarkBooks(mark), ClaimBooks, [Next]_vars
               PROVE  MarkBooks(mark') /\ ClaimBooks'
    OBVIOUS
  <2>1. ASSUME mark' = mark, claims' = claims PROVE MarkBooks(mark') /\ ClaimBooks'
    BY <2>1 DEF ClaimBooks
  <2>2. CASE UNCHANGED vars
    BY <2>1, <2>2 DEF vars, vaultVars
  <2>3. CASE TimePasses \/ \E amount \in 1..MaxAmount : AccrueValue(amount)
    BY <2>1, <2>3 DEF TimePasses, AccrueValue, vaultVars
  <2>4. ASSUME NEW rate \in Rates, SettleRound(rate) PROVE MarkBooks(mark') /\ ClaimBooks'
    <3> DEFINE target == mark.funded + DivideRound(Outstanding, rate).p
    <3>1. AdvanceMark(target) /\ claims' = claims
      BY <2>4 DEF SettleRound, AdvanceMark, vaultVars
    <3>2. target \in Nat
      BY <2>4, SettleRoundLedger DEF MarkBooks
    <3> HIDE DEF target
    <3>3. MarkBooks(mark')
      BY <3>1, <3>2, AdvanceMarkBooks
    <3> QED
      BY <3>1, <3>3 DEF ClaimBooks
  <2>5. ASSUME NEW p \in ClaimP, FundClaimRecord(p) PROVE MarkBooks(mark') /\ ClaimBooks'
    <3>1. /\ mark' = mark
          /\ claims' = [k \in DOMAIN claims \cup {p} |-> IF k = p THEN DistributeP(p) ELSE claims[k]]
      BY <2>5 DEF FundClaimRecord
    <3>2. p \in Nat
      BY DestAssumption
    <3>3. ClaimBooks'
      BY <3>1, <3>2 DEF ClaimBooks
    <3> QED
      BY <3>1, <3>3
  <2>6. CASE \/ \E amount \in 1..MaxAmount : PaySplit(amount)
             \/ DeploySplit
             \/ \E seat \in Seats : SplitClaim(seat)
    BY <2>1, <2>6 DEF PaySplit, DeploySplit, SplitClaim
  <2> QED
    BY <2>2, <2>3, <2>4, <2>5, <2>6 DEF Next, Step
<1> QED
  BY <1>1, InitMark, LedgerSound, PTL DEF Spec

(* No record refuses an advance past its watermark, and residues stay below a unit per destination. *)
THEOREM WatermarkNeverSticksHolds == Spec => []WatermarkNeverSticks
<1>1. LedgerInv /\ MarkBooks(mark) /\ ClaimBooks => WatermarkNeverSticks
  <2> SUFFICES ASSUME MarkBooks(mark), ClaimBooks PROVE WatermarkNeverSticks
    OBVIOUS
  <2> DEFINE f == mark.funded
             p == mark.paid
  <2>1. /\ f \in Nat /\ p \in [Roles -> Nat] /\ mark.residue = f - SumOver(p, Roles)
        /\ LeqOn(AtCanon(p), DueAt(f), Roles)
    BY DEF MarkBooks
  <2>2. ASSUME NEW ahead \in 1 .. BpDenom PROVE Grows(f + ahead)
    <3> DEFINE u == f + ahead
    <3>1. u \in Nat /\ f <= u
      BY <2>1, BpDenomAssumption
    <3> HIDE DEF u, f, p
    <3>2. LeqOn(DueAt(f), DueAt(u), Roles) /\ DueAt(u) \in [Roles -> Nat] /\ DueAt(f) \in [Roles -> Nat]
      BY <2>1, <3>1, DueFact
    <3>3. AtCanon(p) \in [Roles -> Nat]
      BY <2>1, AtCanonFact
    <3>4. ASSUME NEW r \in Roles PROVE DueAt(u)[r] >= AtCanon(p)[r]
      <4>1. /\ DueAt(u)[r] \in Nat /\ DueAt(f)[r] \in Nat /\ AtCanon(p)[r] \in Nat
            /\ AtCanon(p)[r] <= DueAt(f)[r] /\ DueAt(f)[r] <= DueAt(u)[r]
        BY <2>1, <3>2, <3>3 DEF LeqOn
      <4> QED
        BY <4>1
    <3> QED
      BY <3>4 DEF Grows, u, p
  <2>3. ASSUME p = DueAt(f) PROVE mark.residue \in 0 .. (Cardinality(Drawing) - 2)
    <3> HIDE DEF f, p
    <3> QED BY <2>1, <2>3, DueFact
  <2>4. ASSUME NEW c \in DOMAIN claims
        PROVE  /\ claims[c].residue \in 0 .. (Cardinality(Drawing) - 2)
               /\ claims[c].residue = c - SumOver(claims[c].shares, Roles)
    <3>1. c \in Nat /\ claims[c].shares = DueAt(c) /\ claims[c].residue = c - SumOver(DueAt(c), Roles)
      BY DEF ClaimBooks, DistributeP
    <3> QED
      BY <3>1, DueFact
  <2> QED
    BY <2>1, <2>2, <2>3, <2>4 DEF WatermarkNeverSticks
<1> QED
  BY <1>1, MarkSound, PTL
=============================================================================
