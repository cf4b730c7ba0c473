--------------------------- MODULE MerchantProofs ---------------------------
(***************************************************************************)
(* Proofs about what a merchant decides: whether a payment buys its        *)
(* receipt (Redemption), and where the position of a prepaid channel goes  *)
(* (PrepayChain).  They hold for any quotes, channels, deposits and        *)
(* amounts, and any number of faults and restarts.                         *)
(*                                                                         *)
(* A receipt is returned out of the store, and a redemption writes to it   *)
(* steps after it looked at the rail and the entry.  The invariant carries *)
(* what it saw to the receipt: what a session or a record in the log was   *)
(* bought with stays true, since transfers are never undone and ATTESTED   *)
(* is terminal.                                                            *)
(*                                                                         *)
(* A prepaid position passes from channel to channel, and its deposits and *)
(* its draws with it.  The first invariant, DispInv, is about who has it;  *)
(* the second, Books, about the amounts, along whatever chain of imports   *)
(* leads to a channel.                                                     *)
(***************************************************************************)
EXTENDS Redemption, PrepayChain, SumsProofs, TLAPS

\* A transfer the wallet made: for a quote it pays or plans, with its headroom.
SentOk(x) ==
  /\ x.at \in Nat
  /\ x.kind \in {"pay", "meed", "net"}
  /\ x.kind = "pay" => x.q \in Payable
  /\ x.kind = "meed" => x.q \in Planned /\ x.at + 2 * Delay <= Honor[x.q]
  /\ x.kind = "net" => x.q \in Planned /\ x.at + Delay <= Honor[x.q]

RailOk(t) ==
  /\ t = [i \in 1..Len(t) |-> t[i]] /\ Len(t) \in Nat
  /\ \A i \in 1..Len(t) : SentOk(t[i])

\* An authorization x, given the transfers t.
AuthOk(x, t) ==
  /\ DOMAIN x = {"q", "ref"} /\ x.q \in Payable
  /\ x.ref # 0 => x.ref \in 1..Len(t) /\ t[x.ref].kind = "pay" /\ t[x.ref].q = x.q

AuthsOk(as, t) ==
  /\ as = [a \in 1..Len(as) |-> as[a]] /\ Len(as) \in Nat
  /\ \A a \in 1..Len(as) : AuthOk(as[a], t)

EntriesOk(e) == \A i \in DOMAIN e : DOMAIN e[i] = {"state", "openedAt"}
Attested(q, e) == EntryOf[q] \in DOMAIN e /\ e[EntryOf[q]].state = "attested"

\* What the quote q was bought with, by a transfer to its split or by two legs.
PaidOnce(q, ref, t) ==
  \E x \in 1..Len(t) : ref = <<x>> /\ t[x].kind = "pay" /\ t[x].q \in Buyers[q]
PaidLegs(q, ref, t) ==
  \E m, x \in 1..Len(t) : ref = <<m, x>> /\ t[x].kind = "net" /\ t[x].q = q
Bought(q, ref, t, e) ==
  /\ q \in Issued
  /\ PaidOnce(q, ref, t) \/ (PaidLegs(q, ref, t) /\ Attested(q, e))

SessionOk(x, t, e) ==
  /\ x.stage \in {"idle", "verified", "ready"}
  /\ x.stage # "idle" => DOMAIN x = {"stage", "q", "ref"}
  /\ x.stage = "verified" => x.q \in Issued /\ PaidLegs(x.q, x.ref, t)
  /\ x.stage = "ready" => Bought(x.q, x.ref, t, e)

\* The payment of a reference: its only transfer, or the net leg.
LastOf(ref) == ref[Len(ref)]

FileOk(f, t, e) ==
  /\ \A n \in DOMAIN f : f[n].q = n /\ Bought(n, f[n].ref, t, e)
  /\ \A n, k \in DOMAIN f : LastOf(f[n].ref) = LastOf(f[k].ref) => n = k

\* Memory, against the log.
MemoryOk(mem, f, isPoisoned) ==
  /\ mem = [n \in DOMAIN mem |-> mem[n]] /\ f = [n \in DOMAIN f |-> f[n]]
  /\ DOMAIN mem \subseteq DOMAIN f /\ \A n \in DOMAIN mem : mem[n] = f[n]
  /\ ~ isPoisoned => mem = f

ReceiptsOk(ds, mem) == \A d \in ds : d.q \in DOMAIN mem /\ mem[d.q] = d

RInv ==
  /\ now \in Nat
  /\ RailOk(rail) /\ AuthsOk(auths, rail) /\ EntriesOk(entry)
  /\ session = [s \in Sessions |-> session[s]]
  /\ \A s \in Sessions : SessionOk(session[s], rail, entry)
  /\ FileOk(file, rail, entry)
  /\ poisoned \in BOOLEAN
  /\ MemoryOk(byNonce, file, poisoned)
  /\ ReceiptsOk(delivered, byNonce)

-----------------------------------------------------------------------------
(* The quotes *)

\* Quote::parse_verify at either end: what the wallet pays or plans, and what the
\* merchant redeems, the merchant signed.
LEMMA SignedIsIssued ==
  /\ Payable \subseteq Issued
  /\ Planned \subseteq Issued /\ Planned \subseteq TwoLeg
  /\ RedeemableBaseline \subseteq Issued
  /\ RedeemableTwoLeg \subseteq Issued
<1>1. ASSUME NEW q \in Quotes, QuoteVerifies(MerchantKey, Circulating[q]) PROVE q \in Issued
  BY <1>1, IssuedAssumption DEF QuoteVerifies
<1>2. Payable \subseteq Issued
  <2> SUFFICES ASSUME NEW q \in Payable PROVE q \in Issued
    OBVIOUS
  <2>1. q \in Quotes /\ PaidOffers(q) # {}
    BY DEF Payable, Baseline, Of
  <2>2. PICK a \in Approved : PayableOffers(a, Circulating[q]) # {}
    BY <2>1 DEF PaidOffers
  <2>3. QuoteFor(a, Circulating[q])
    BY <2>2 DEF PayableOffers
  <2> QED BY <1>1, <2>1, <2>3, OriginAssumption DEF QuoteFor
<1>3. Planned \subseteq Issued /\ Planned \subseteq TwoLeg
  <2> SUFFICES ASSUME NEW q \in Planned PROVE q \in Issued /\ q \in TwoLeg
    OBVIOUS
  <2>1. q \in Quotes /\ q \in TwoLeg
    BY DEF Planned, TwoLeg, Of
  <2>2. PICK a \in Approved : PlannableOffers(a, Circulating[q]) # {}
    BY DEF Planned
  <2>3. QuoteFor(a, Circulating[q])
    BY <2>2 DEF PlannableOffers
  <2> QED BY <1>1, <2>1, <2>3, OriginAssumption DEF QuoteFor
<1>4. RedeemableBaseline \subseteq Issued
  BY <1>1 DEF RedeemableBaseline, BaselineRedeemable, OwnQuote, Baseline, Of
<1>5. RedeemableTwoLeg \subseteq Issued
  BY <1>1 DEF RedeemableTwoLeg, TwoLegRedeemable, OwnQuote, TwoLeg, Of
<1> QED
  BY <1>2, <1>3, <1>4, <1>5

\* A net leg names its nonce, so it pays for no other issued quote.
LEMMA NetPaysItsOwn ==
  ASSUME NEW q \in TwoLeg, q \in Issued, NEW p \in NetPayers[q], p \in Issued
  PROVE  p = q
<1>1. Circulating[p].quote.nonce = Circulating[q].quote.nonce
  BY DEF NetPayers
<1> QED
  BY <1>1, IssuedAssumption

-----------------------------------------------------------------------------
(* What was seen stays so. *)

Grown(t, u) == Len(u) \in Nat /\ Len(t) <= Len(u) /\ \A i \in 1..Len(t) : u[i] = t[i]
KeepsAttested(e, f) == \A q : Attested(q, e) => Attested(q, f)

LEMMA BoughtStays ==
  ASSUME NEW t, Len(t) \in Nat, NEW u, Grown(t, u), NEW e, NEW f, KeepsAttested(e, f)
  PROVE  /\ \A q, ref : PaidOnce(q, ref, t) => PaidOnce(q, ref, u)
         /\ \A q, ref : PaidLegs(q, ref, t) => PaidLegs(q, ref, u)
         /\ \A q, ref : Bought(q, ref, t, e) => Bought(q, ref, u, f)
<1>1. \A i \in 1..Len(t) : i \in 1..Len(u) /\ u[i] = t[i]
  BY DEF Grown
<1>2. \A q, ref : PaidOnce(q, ref, t) => PaidOnce(q, ref, u)
  BY <1>1 DEF PaidOnce
<1>3. \A q, ref : PaidLegs(q, ref, t) => PaidLegs(q, ref, u)
  BY <1>1 DEF PaidLegs
<1> QED
  BY <1>2, <1>3, Zenon DEF Bought, KeepsAttested

LEMMA ViewsStay ==
  ASSUME NEW t, Len(t) \in Nat, NEW u, Grown(t, u), NEW e, NEW f, KeepsAttested(e, f)
  PROVE  /\ \A x : SessionOk(x, t, e) => SessionOk(x, u, f)
         /\ \A x : AuthOk(x, t) => AuthOk(x, u)
         /\ \A records : FileOk(records, t, e) => FileOk(records, u, f)
<1>1. \A i \in 1..Len(t) : i \in 1..Len(u) /\ u[i] = t[i]
  BY DEF Grown
<1>2. \A q, ref : PaidLegs(q, ref, t) => PaidLegs(q, ref, u)
  BY BoughtStays
<1>3. \A q, ref : Bought(q, ref, t, e) => Bought(q, ref, u, f)
  BY BoughtStays
<1>4. \A x : SessionOk(x, t, e) => SessionOk(x, u, f)
  BY <1>2, <1>3, Zenon DEF SessionOk
<1>5. \A x : AuthOk(x, t) => AuthOk(x, u)
  BY <1>1, Zenon DEF AuthOk
<1>6. \A records : FileOk(records, t, e) => FileOk(records, u, f)
  BY <1>3, Zenon DEF FileOk
<1> QED
  BY <1>4, <1>5, <1>6

LEMMA SameIsGrown ==
  ASSUME NEW t, Len(t) \in Nat, NEW e
  PROVE  Grown(t, t) /\ KeepsAttested(e, e)
  BY DEF Grown, KeepsAttested

\* A step that puts on the rail, in the entries, the sessions and the store what is as
\* it should be.
LEMMA SoundStep ==
  ASSUME RInv, now' \in Nat, RailOk(rail'), Grown(rail, rail'), EntriesOk(entry'), KeepsAttested(entry, entry'),
         AuthsOk(auths', rail'),
         session' = [s \in Sessions |-> session'[s]],
         \A s \in Sessions : session'[s] = session[s] \/ SessionOk(session'[s], rail', entry'),
         FileOk(file', rail, entry) \/ FileOk(file', rail', entry'),
         poisoned' \in BOOLEAN, MemoryOk(byNonce', file', poisoned'), ReceiptsOk(delivered', byNonce')
  PROVE  RInv'
<1>1. Len(rail) \in Nat /\ \A s \in Sessions : SessionOk(session[s], rail, entry)
  BY DEF RInv, RailOk
<1>2. /\ \A x : SessionOk(x, rail, entry) => SessionOk(x, rail', entry')
      /\ FileOk(file', rail, entry) => FileOk(file', rail', entry')
  BY <1>1, ViewsStay
<1>3. \A s \in Sessions : SessionOk(session'[s], rail', entry')
  BY <1>1, <1>2
<1> QED
  BY <1>2, <1>3 DEF RInv

LEMMA RailUnchanged ==
  ASSUME RInv, UNCHANGED payer
  PROVE  RailOk(rail') /\ Grown(rail, rail') /\ AuthsOk(auths', rail')
<1>1. RailOk(rail) /\ AuthsOk(auths, rail) /\ Len(rail) \in Nat /\ rail' = rail /\ auths' = auths
  BY DEF RInv, RailOk, payer
<1>2. Grown(rail, rail)
  BY <1>1, SameIsGrown
<1> QED
  BY <1>1, <1>2

LEMMA StoreUnchanged ==
  ASSUME RInv, UNCHANGED store
  PROVE  /\ FileOk(file', rail, entry) /\ poisoned' \in BOOLEAN /\ MemoryOk(byNonce', file', poisoned')
         /\ byNonce' = byNonce
  BY DEF RInv, store

LEMMA EntriesUnchanged ==
  ASSUME RInv, UNCHANGED entry
  PROVE  EntriesOk(entry') /\ KeepsAttested(entry, entry')
  BY DEF RInv, KeepsAttested

\* ATTESTED is terminal: a move of an entry that is not attested.
LEMMA EntryMoves ==
  ASSUME RInv, NEW i \in DOMAIN entry, NEW x, DOMAIN x = {"state", "openedAt"},
         entry' = [entry EXCEPT ![i] = x],
         entry[i].state = "attested" => x.state = "attested"
  PROVE  EntriesOk(entry') /\ KeepsAttested(entry, entry')
<1>1. /\ DOMAIN entry' = DOMAIN entry /\ entry'[i] = x
      /\ \A k \in DOMAIN entry \ {i} : entry'[k] = entry[k]
  OBVIOUS
<1>2. EntriesOk(entry')
  BY <1>1 DEF RInv, EntriesOk
<1>3. KeepsAttested(entry, entry')
  BY <1>1 DEF KeepsAttested, Attested
<1> QED
  BY <1>2, <1>3

\* A step that changes the clock or the entries only.
LEMMA WorldStep ==
  ASSUME RInv, now' \in Nat, EntriesOk(entry'), KeepsAttested(entry, entry'),
         UNCHANGED <<payer, session, store, delivered>>
  PROVE  RInv'
<1>1. RailOk(rail') /\ Grown(rail, rail') /\ AuthsOk(auths', rail')
  BY RailUnchanged
<1>2. /\ FileOk(file', rail, entry) /\ poisoned' \in BOOLEAN /\ MemoryOk(byNonce', file', poisoned')
      /\ byNonce' = byNonce
  BY StoreUnchanged
<1>3. session' = session /\ session = [s \in Sessions |-> session[s]] /\ ReceiptsOk(delivered', byNonce')
  BY <1>2 DEF RInv
<1> QED
  BY <1>1, <1>2, <1>3, SoundStep

LEMMA TickStep ==
  ASSUME RInv, Tick
  PROVE  RInv'
<1>1. EntriesOk(entry') /\ KeepsAttested(entry, entry') /\ UNCHANGED <<payer, session, store, delivered>>
  BY EntriesUnchanged DEF Tick
<1>2. now' \in Nat
  BY DEF Tick, RInv
<1> QED
  BY <1>1, <1>2, WorldStep

LEMMA ReclaimStep ==
  ASSUME RInv, NEW i, OpenReclaim(i) \/ ExecuteReclaim(i) \/ ClaimLapsed(i) \/ CancelEntry(i)
  PROVE  RInv'
<1>1. i \in DOMAIN entry /\ entry[i].state \in {"funded", "reclaimOpen"} /\ DOMAIN entry[i] = {"state", "openedAt"}
  BY DEF OpenReclaim, ExecuteReclaim, ClaimLapsed, CancelEntry, InReclaimWindow, Executable, Lapsable, In, Funded,
         RInv, EntriesOk
<1>2. now' = now /\ UNCHANGED <<payer, session, store, delivered>>
  BY DEF OpenReclaim, ExecuteReclaim, ClaimLapsed, CancelEntry, Moves
<1>3. ASSUME NEW st, entry' = [entry EXCEPT ![i].state = st]
      PROVE  EntriesOk(entry') /\ KeepsAttested(entry, entry')
  <2> DEFINE x == [entry[i] EXCEPT !.state = st]
  <2>1. DOMAIN x = {"state", "openedAt"} /\ entry' = [entry EXCEPT ![i] = x]
    BY <1>1, <1>3
  <2> HIDE DEF x
  <2> QED BY <1>1, <2>1, EntryMoves
<1>4. CASE OpenReclaim(i)
  <2> DEFINE x == [entry[i] EXCEPT !.state = "reclaimOpen", !.openedAt = now]
  <2>1. DOMAIN x = {"state", "openedAt"} /\ entry' = [entry EXCEPT ![i] = x]
    BY <1>1, <1>4 DEF OpenReclaim
  <2> HIDE DEF x
  <2>2. EntriesOk(entry') /\ KeepsAttested(entry, entry')
    BY <1>1, <2>1, EntryMoves
  <2> QED BY <1>2, <2>2, WorldStep DEF RInv
<1>5. CASE ExecuteReclaim(i) \/ ClaimLapsed(i) \/ CancelEntry(i)
  <2>1. PICK st : entry' = [entry EXCEPT ![i].state = st]
    BY <1>5 DEF ExecuteReclaim, ClaimLapsed, CancelEntry, Moves
  <2>2. EntriesOk(entry') /\ KeepsAttested(entry, entry')
    BY <1>3, <2>1
  <2> QED BY <1>2, <2>2, WorldStep DEF RInv
<1> QED
  BY <1>4, <1>5

-----------------------------------------------------------------------------
(* The wallet *)

\* One more transfer.
LEMMA TransferredIs ==
  ASSUME RInv, NEW kind, NEW q, Transferred(kind, q), SentOk([kind |-> kind, q |-> q, at |-> now])
  PROVE  /\ RailOk(rail') /\ Grown(rail, rail')
         /\ Len(rail') = Len(rail) + 1 /\ Len(rail) \in Nat
         /\ rail'[Len(rail) + 1] = [kind |-> kind, q |-> q, at |-> now]
<1> DEFINE x == [kind |-> kind, q |-> q, at |-> now]
           S == {rail[i] : i \in 1..Len(rail)} \cup {x}
<1>1. rail' = Append(rail, x)
  BY DEF Transferred
<1>2. rail = [i \in 1..Len(rail) |-> rail[i]] /\ Len(rail) \in Nat /\ \A i \in 1..Len(rail) : SentOk(rail[i])
  BY DEF RInv, RailOk
<1>3. SentOk(x)
  OBVIOUS
<1> HIDE DEF x
<1>4. rail \in Seq(S) /\ x \in S
  BY <1>2
<1> HIDE DEF S
<1>5. /\ Len(rail') = Len(rail) + 1 /\ rail'[Len(rail) + 1] = x
      /\ \A i \in 1..Len(rail) : rail'[i] = rail[i]
      /\ rail' = [i \in 1..Len(rail') |-> rail'[i]]
  <2>1. rail' \in Seq(S) /\ Len(rail') = Len(rail) + 1 /\ rail'[Len(rail) + 1] = x
    BY <1>1, <1>4
  <2>2. \A i \in 1..Len(rail) : rail'[i] = rail[i]
    BY <1>1, <1>4
  <2> QED BY <2>1, <2>2
<1>6. RailOk(rail')
  BY <1>2, <1>3, <1>5 DEF RailOk
<1>7. Grown(rail, rail')
  BY <1>2, <1>5 DEF Grown
<1> QED
  BY <1>2, <1>5, <1>6, <1>7 DEF x

\* A step of the wallet: transfers, authorizations and the entry they fund.
LEMMA PayerStep ==
  ASSUME RInv, RailOk(rail'), Grown(rail, rail'), AuthsOk(auths', rail'),
         EntriesOk(entry'), KeepsAttested(entry, entry'), UNCHANGED <<now, session, store, delivered>>
  PROVE  RInv'
<1>1. /\ FileOk(file', rail, entry) /\ poisoned' \in BOOLEAN /\ MemoryOk(byNonce', file', poisoned')
      /\ byNonce' = byNonce
  BY StoreUnchanged
<1>2. session' = session /\ session = [s \in Sessions |-> session[s]] /\ ReceiptsOk(delivered', byNonce')
  BY <1>1 DEF RInv
<1>3. now' \in Nat
  BY DEF RInv
<1> QED
  BY <1>1, <1>2, <1>3, SoundStep

LEMMA AuthsStay ==
  ASSUME RInv, Grown(rail, rail'), UNCHANGED auths
  PROVE  AuthsOk(auths', rail')
<1>1. AuthsOk(auths, rail) /\ Len(rail) \in Nat
  BY DEF RInv, RailOk
<1>2. KeepsAttested(entry, entry)
  BY DEF KeepsAttested
<1>3. \A x : AuthOk(x, rail) => AuthOk(x, rail')
  BY <1>1, <1>2, ViewsStay
<1> QED
  BY <1>1, <1>3 DEF AuthsOk

LEMMA FundMeedLegStep ==
  ASSUME RInv, NEW q \in TwoLeg, FundMeedLeg(q)
  PROVE  RInv'
<1>1. /\ q \in Planned /\ Headroom(q) /\ EntryOf[q] \notin DOMAIN entry /\ Transferred("meed", q)
      /\ UNCHANGED <<now, auths, session, store, delivered>>
  BY DEF FundMeedLeg, FundEntry, Fundable, Funded
<1>2. SentOk([kind |-> "meed", q |-> q, at |-> now])
  BY <1>1 DEF SentOk, Headroom, RInv
<1>3. RailOk(rail') /\ Grown(rail, rail')
  BY <1>1, <1>2, TransferredIs
<1>4. AuthsOk(auths', rail')
  BY <1>1, <1>3, AuthsStay
<1>5. /\ DOMAIN entry' = DOMAIN entry \cup {EntryOf[q]} /\ DOMAIN entry'[EntryOf[q]] = {"state", "openedAt"}
      /\ \A k \in DOMAIN entry : entry'[k] = entry[k]
  BY <1>1 DEF FundMeedLeg, FundEntry, Funded
<1>6. EntriesOk(entry') /\ KeepsAttested(entry, entry')
  BY <1>5 DEF RInv, EntriesOk, KeepsAttested, Attested
<1> QED
  BY <1>1, <1>3, <1>4, <1>6, PayerStep

LEMMA SubmitNetLegStep ==
  ASSUME RInv, NEW q \in TwoLeg, SubmitNetLeg(q)
  PROVE  RInv'
<1>1. /\ q \in Planned /\ NetHeadroom(q) /\ Transferred("net", q)
      /\ UNCHANGED <<now, entry, auths, session, store, delivered>>
  BY DEF SubmitNetLeg
<1>2. SentOk([kind |-> "net", q |-> q, at |-> now])
  BY <1>1 DEF SentOk, NetHeadroom, RInv
<1>3. RailOk(rail') /\ Grown(rail, rail')
  BY <1>1, <1>2, TransferredIs
<1>4. AuthsOk(auths', rail') /\ EntriesOk(entry') /\ KeepsAttested(entry, entry')
  BY <1>1, <1>3, AuthsStay, EntriesUnchanged
<1> QED
  BY <1>1, <1>3, <1>4, PayerStep

LEMMA PayBaselineStep ==
  ASSUME RInv, NEW q, PayBaseline(q)
  PROVE  RInv'
<1> DEFINE x == [q |-> q, ref |-> 0]
           S == {auths[i] : i \in 1..Len(auths)} \cup {x}
<1>1. /\ q \in Payable /\ auths' = Append(auths, x)
      /\ rail' = rail /\ UNCHANGED <<now, entry, session, store, delivered>>
  BY DEF PayBaseline
<1>2. /\ auths = [i \in 1..Len(auths) |-> auths[i]] /\ Len(auths) \in Nat
      /\ \A i \in 1..Len(auths) : AuthOk(auths[i], rail)
      /\ RailOk(rail) /\ Len(rail) \in Nat
  BY DEF RInv, AuthsOk, RailOk
<1>3. AuthOk(x, rail)
  BY <1>1 DEF AuthOk
<1> HIDE DEF x
<1>4. auths \in Seq(S) /\ x \in S
  BY <1>2
<1> HIDE DEF S
<1>5. auths' \in Seq(S) /\ Len(auths') = Len(auths) + 1 /\ auths'[Len(auths) + 1] = x
  BY <1>1, <1>4
<1>6. \A i \in 1..Len(auths) : auths'[i] = auths[i]
  BY <1>1, <1>4
<1>7. AuthsOk(auths', rail)
  BY <1>2, <1>3, <1>5, <1>6 DEF AuthsOk
<1>8. Grown(rail, rail)
  BY <1>2, SameIsGrown
<1>9. EntriesOk(entry') /\ KeepsAttested(entry, entry')
  BY <1>1, EntriesUnchanged
<1> QED
  BY <1>1, <1>2, <1>7, <1>8, <1>9, PayerStep

-----------------------------------------------------------------------------
(* The merchant *)

\* settle: the authorization's transfer, made now or before.
LEMMA SettleIs ==
  ASSUME RInv, NEW a \in 1..Len(auths), Settle(a),
         NEW ref, ref = IF auths[a].ref = 0 THEN Len(rail) + 1 ELSE auths[a].ref
  PROVE  /\ RailOk(rail') /\ Grown(rail, rail') /\ AuthsOk(auths', rail')
         /\ ref \in 1..Len(rail') /\ rail'[ref].kind = "pay" /\ rail'[ref].q = auths[a].q
<1>1. /\ auths = [i \in 1..Len(auths) |-> auths[i]] /\ Len(auths) \in Nat
      /\ \A i \in 1..Len(auths) : AuthOk(auths[i], rail)
      /\ RailOk(rail) /\ Len(rail) \in Nat
  BY DEF RInv, AuthsOk, RailOk
<1>2. CASE auths[a].ref # 0
  <2>1. UNCHANGED payer /\ ref = auths[a].ref
    BY <1>2 DEF Settle
  <2>2. RailOk(rail') /\ Grown(rail, rail') /\ AuthsOk(auths', rail') /\ rail' = rail
    BY <2>1, RailUnchanged DEF payer
  <2>3. AuthOk(auths[a], rail)
    BY <1>1
  <2> QED
    BY <1>2, <2>1, <2>2, <2>3 DEF AuthOk
<1>3. CASE auths[a].ref = 0
  <2> DEFINE x == [auths[a] EXCEPT !.ref = Len(rail) + 1]
  <2>1. Transferred("pay", auths[a].q) /\ auths' = [auths EXCEPT ![a] = x] /\ ref = Len(rail) + 1
    BY <1>3 DEF Settle
  <2>2. AuthOk(auths[a], rail)
    BY <1>1
  <2>3. SentOk([kind |-> "pay", q |-> auths[a].q, at |-> now])
    BY <2>2 DEF SentOk, AuthOk, RInv
  <2>4. /\ RailOk(rail') /\ Grown(rail, rail')
        /\ Len(rail') = Len(rail) + 1
        /\ rail'[Len(rail) + 1] = [kind |-> "pay", q |-> auths[a].q, at |-> now]
    BY <2>1, <2>3, TransferredIs
  <2>5. DOMAIN x = {"q", "ref"} /\ x.q = auths[a].q /\ x.ref = Len(rail) + 1 /\ x.q \in Payable
    BY <2>2 DEF AuthOk
  <2> HIDE DEF x
  <2>6. ref \in 1..Len(rail') /\ rail'[ref].kind = "pay" /\ rail'[ref].q = auths[a].q
    BY <1>1, <2>1, <2>4
  <2>7. AuthOk(x, rail')
    BY <2>1, <2>5, <2>6 DEF AuthOk
  <2>8. KeepsAttested(entry, entry)
    BY DEF KeepsAttested
  <2>9. \A y : AuthOk(y, rail) => AuthOk(y, rail')
    BY <1>1, <2>4, <2>8, ViewsStay
  <2>10. /\ auths' = [i \in 1..Len(auths) |-> auths'[i]] /\ auths'[a] = x
         /\ \A i \in (1..Len(auths)) \ {a} : auths'[i] = auths[i]
    BY <1>1, <2>1
  <2>11. Len(auths') = Len(auths)
    BY <1>1, <2>10
  <2>12. AuthsOk(auths', rail')
    BY <1>1, <2>7, <2>9, <2>10, <2>11 DEF AuthsOk
  <2> QED
    BY <2>4, <2>6, <2>12
<1> QED
  BY <1>2, <1>3

LEMMA RedeemBaselineStep ==
  ASSUME RInv, NEW s \in Sessions, NEW q \in Quotes, NEW a \in DOMAIN auths, RedeemBaseline(s, q, a)
  PROVE  RInv'
<1> DEFINE ref == IF auths[a].ref = 0 THEN Len(rail) + 1 ELSE auths[a].ref
           x == [stage |-> "ready", q |-> q, ref |-> <<ref>>]
<1>1. /\ q \in RedeemableBaseline /\ auths[a].q \in Buyers[q] /\ Settle(a)
      /\ UNCHANGED <<now, entry, store, delivered>>
  BY DEF RedeemBaseline
<1>2. session' = session \/ session' = [session EXCEPT ![s] = x]
  BY DEF RedeemBaseline, Started
<1>3. DOMAIN auths = 1..Len(auths)
  BY DEF RInv, AuthsOk
<1>4. /\ RailOk(rail') /\ Grown(rail, rail') /\ AuthsOk(auths', rail')
      /\ ref \in 1..Len(rail') /\ rail'[ref].kind = "pay" /\ rail'[ref].q = auths[a].q
  BY <1>1, <1>3, SettleIs
<1> HIDE DEF ref
<1>5. Bought(q, <<ref>>, rail', entry')
  <2>1. q \in Issued
    BY <1>1, SignedIsIssued
  <2>2. PaidOnce(q, <<ref>>, rail')
    BY <1>1, <1>4 DEF PaidOnce
  <2> QED BY <2>1, <2>2 DEF Bought
<1>6. x.stage = "ready" /\ x.q = q /\ x.ref = <<ref>> /\ DOMAIN x = {"stage", "q", "ref"}
  OBVIOUS
<1> HIDE DEF x
<1>7. SessionOk(x, rail', entry')
  BY <1>5, <1>6 DEF SessionOk
<1>8. /\ session' = [y \in Sessions |-> session'[y]]
      /\ \A y \in Sessions : session'[y] = session[y] \/ SessionOk(session'[y], rail', entry')
  BY <1>2, <1>7 DEF RInv
<1>9. EntriesOk(entry') /\ KeepsAttested(entry, entry')
  BY <1>1, EntriesUnchanged
<1>10. /\ FileOk(file', rail, entry) /\ poisoned' \in BOOLEAN /\ MemoryOk(byNonce', file', poisoned')
       /\ ReceiptsOk(delivered', byNonce')
  BY <1>1, StoreUnchanged DEF RInv
<1>11. now' \in Nat
  BY <1>1 DEF RInv
<1> QED
  BY <1>4, <1>8, <1>9, <1>10, <1>11, SoundStep

\* A step of a redemption that touches neither rail nor entries.
LEMMA MerchantKeeps ==
  ASSUME RInv, UNCHANGED <<now, entry, payer>>,
         session' = [y \in Sessions |-> session'[y]],
         \A y \in Sessions : session'[y] = session[y] \/ SessionOk(session'[y], rail, entry),
         FileOk(file', rail, entry), poisoned' \in BOOLEAN,
         MemoryOk(byNonce', file', poisoned'), ReceiptsOk(delivered', byNonce')
  PROVE  RInv'
<1>1. RailOk(rail') /\ Grown(rail, rail') /\ AuthsOk(auths', rail') /\ rail' = rail /\ entry' = entry
  BY RailUnchanged DEF payer
<1>2. EntriesOk(entry') /\ KeepsAttested(entry, entry')
  BY EntriesUnchanged
<1>3. now' \in Nat
  BY DEF RInv
<1> QED
  BY <1>1, <1>2, <1>3, SoundStep

LEMMA RepeatTwoLegStep ==
  ASSUME RInv, NEW s, NEW q, NEW m, NEW n, RepeatTwoLeg(s, q, m, n)
  PROVE  RInv'
<1>1. /\ Peek(q, <<m, n>>) = "stored" /\ delivered' = delivered \cup {byNonce[q]}
      /\ UNCHANGED <<now, entry, payer, session, store>>
  BY DEF RepeatTwoLeg
<1>2. q \in DOMAIN byNonce
  BY <1>1 DEF Peek
<1>3. byNonce[q].q = q
  BY <1>2 DEF RInv, MemoryOk, FileOk
<1>4. /\ FileOk(file', rail, entry) /\ poisoned' \in BOOLEAN /\ MemoryOk(byNonce', file', poisoned')
      /\ byNonce' = byNonce
  BY <1>1, StoreUnchanged
<1>5. ReceiptsOk(delivered', byNonce')
  BY <1>1, <1>2, <1>3, <1>4 DEF RInv, ReceiptsOk
<1>6. session' = session /\ session = [y \in Sessions |-> session[y]]
  BY <1>1 DEF RInv
<1> QED
  BY <1>1, <1>4, <1>5, <1>6, MerchantKeeps

LEMMA RedeemTwoLegStep ==
  ASSUME RInv, NEW s \in Sessions, NEW q \in TwoLeg, NEW m \in DOMAIN rail, NEW n \in DOMAIN rail,
         RedeemTwoLeg(s, q, m, n)
  PROVE  RInv'
<1> DEFINE x == [stage |-> "verified", q |-> q, ref |-> <<m, n>>]
<1>1. /\ q \in RedeemableTwoLeg /\ IsLeg(n, "net", q)
      /\ session' = [session EXCEPT ![s] = x]
      /\ UNCHANGED <<now, entry, payer, store, delivered>>
  BY DEF RedeemTwoLeg, Started
<1>2. q \in Issued
  BY <1>1, SignedIsIssued
<1>3. m \in 1..Len(rail) /\ n \in 1..Len(rail) /\ SentOk(rail[n])
  BY DEF RInv, RailOk
<1>4. rail[n].kind = "net" /\ rail[n].q \in NetPayers[q]
  BY <1>1 DEF IsLeg
<1>5. rail[n].q = q
  <2>1. rail[n].q \in Issued
    BY <1>3, <1>4, SignedIsIssued DEF SentOk
  <2> QED BY <1>2, <1>4, <2>1, NetPaysItsOwn
<1>6. PaidLegs(q, <<m, n>>, rail)
  BY <1>3, <1>4, <1>5 DEF PaidLegs
<1>7. x.stage = "verified" /\ x.q = q /\ x.ref = <<m, n>> /\ DOMAIN x = {"stage", "q", "ref"}
  OBVIOUS
<1> HIDE DEF x
<1>8. SessionOk(x, rail, entry)
  BY <1>2, <1>6, <1>7 DEF SessionOk
<1>9. /\ session' = [y \in Sessions |-> session'[y]]
      /\ \A y \in Sessions : session'[y] = session[y] \/ SessionOk(session'[y], rail, entry)
  BY <1>1, <1>8 DEF RInv
<1>10. /\ FileOk(file', rail, entry) /\ poisoned' \in BOOLEAN /\ MemoryOk(byNonce', file', poisoned')
       /\ ReceiptsOk(delivered', byNonce')
  BY <1>1, StoreUnchanged DEF RInv
<1> QED
  BY <1>1, <1>9, <1>10, MerchantKeeps

LEMMA IdleOk ==
  ASSUME NEW t, NEW e
  PROVE  SessionOk(Idle, t, e)
  BY DEF SessionOk, Idle

LEMMA PostAttestationStep ==
  ASSUME RInv, NEW s \in Sessions, PostAttestation(s)
  PROVE  RInv'
<1> DEFINE q == session[s].q
           x == [session[s] EXCEPT !.stage = "ready"]
<1>1. session[s].stage = "verified" /\ SessionOk(session[s], rail, entry) /\ UNCHANGED <<now, payer, store, delivered>>
  BY DEF PostAttestation, At, RInv
<1>2. DOMAIN session[s] = {"stage", "q", "ref"} /\ q \in Issued /\ PaidLegs(q, session[s].ref, rail)
  BY <1>1 DEF SessionOk
<1>3. /\ EntriesOk(entry') /\ KeepsAttested(entry, entry')
      /\ AttestationTakes(q) => Attested(q, entry')
  <2>1. CASE In(EntryOf[q], {"funded", "reclaimOpen"})
    <3> DEFINE i == EntryOf[q]
               y == [entry[i] EXCEPT !.state = "attested"]
    <3>1. i \in DOMAIN entry /\ entry' = [entry EXCEPT ![i] = y]
      BY <2>1 DEF PostAttestation, AttestEntry, In, Funded
    <3>2. DOMAIN entry[i] = {"state", "openedAt"}
      BY <3>1 DEF RInv, EntriesOk
    <3>3. DOMAIN y = {"state", "openedAt"} /\ y.state = "attested"
      BY <3>2
    <3> HIDE DEF y
    <3>4. EntriesOk(entry') /\ KeepsAttested(entry, entry')
      BY <3>1, <3>3, EntryMoves
    <3>5. Attested(q, entry')
      BY <3>1, <3>3 DEF Attested
    <3> QED BY <3>4, <3>5
  <2>2. CASE ~ In(EntryOf[q], {"funded", "reclaimOpen"})
    <3>1. entry' = entry
      BY <2>2 DEF PostAttestation, AttestEntry
    <3>2. AttestationTakes(q) => Attested(q, entry)
      BY <2>2 DEF AttestationTakes, In, Funded, Attested
    <3> QED BY <3>1, <3>2, EntriesUnchanged
  <2> QED BY <2>1, <2>2
<1>4. RailOk(rail') /\ Grown(rail, rail') /\ AuthsOk(auths', rail') /\ rail' = rail
  BY <1>1, RailUnchanged DEF payer
<1>5. x.stage = "ready" /\ x.q = q /\ x.ref = session[s].ref /\ DOMAIN x = {"stage", "q", "ref"}
  BY <1>2
<1>6. \/ session' = [session EXCEPT ![s] = Idle]
      \/ AttestationTakes(q) /\ session' = [session EXCEPT ![s] = x]
  BY DEF PostAttestation, End
<1> HIDE DEF x
<1>7. AttestationTakes(q) => SessionOk(x, rail', entry')
  BY <1>2, <1>3, <1>4, <1>5 DEF SessionOk, Bought
<1>8. SessionOk(Idle, rail', entry')
  BY IdleOk
<1>9. /\ session' = [y \in Sessions |-> session'[y]]
      /\ \A y \in Sessions : session'[y] = session[y] \/ SessionOk(session'[y], rail', entry')
  BY <1>6, <1>7, <1>8 DEF RInv
<1>10. /\ FileOk(file', rail, entry) /\ poisoned' \in BOOLEAN /\ MemoryOk(byNonce', file', poisoned')
       /\ ReceiptsOk(delivered', byNonce')
  BY <1>1, StoreUnchanged DEF RInv
<1>11. now' \in Nat
  BY <1>1 DEF RInv
<1> QED
  BY <1>3, <1>4, <1>9, <1>10, <1>11, SoundStep

-----------------------------------------------------------------------------
(* The store *)

\* A receipt that Peek found fresh, written to the log.
LEMMA LogExtends ==
  ASSUME RInv, NEW q, NEW ref, NEW rec, Bought(q, ref, rail, entry), rec.q = q, rec.ref = ref,
         ~ poisoned, Peek(q, ref) = "fresh"
  PROVE  /\ byNonce = file /\ q \notin DOMAIN file
         /\ FileOk(With(file, q, rec), rail, entry)
         /\ DOMAIN With(file, q, rec) = DOMAIN file \cup {q} /\ With(file, q, rec)[q] = rec
         /\ \A n \in DOMAIN file : With(file, q, rec)[n] = file[n]
         /\ With(file, q, rec) = [n \in DOMAIN With(file, q, rec) |-> With(file, q, rec)[n]]
<1> DEFINE f == With(file, q, rec)
<1>1. byNonce = file /\ FileOk(file, rail, entry)
  BY DEF RInv, MemoryOk
<1>2. q \notin DOMAIN file /\ ~ RefUsed(ref)
  BY <1>1 DEF Peek
<1>3. /\ DOMAIN f = DOMAIN file \cup {q} /\ f[q] = rec /\ \A n \in DOMAIN file : f[n] = file[n]
      /\ f = [n \in DOMAIN f |-> f[n]]
  BY <1>2 DEF With
<1> HIDE DEF f
<1>4. \A n \in DOMAIN file : LastOf(file[n].ref) # LastOf(ref)
  BY <1>1, <1>2 DEF RefUsed, UsedRefKeys, LastOf
<1>5. \A n \in DOMAIN f : f[n].q = n /\ Bought(n, f[n].ref, rail, entry)
  BY <1>1, <1>3 DEF FileOk
<1>6. \A n, k \in DOMAIN f : LastOf(f[n].ref) = LastOf(f[k].ref) => n = k
  BY <1>1, <1>3, <1>4 DEF FileOk
<1>7. FileOk(f, rail, entry)
  BY <1>5, <1>6 DEF FileOk
<1> QED
  BY <1>1, <1>2, <1>3, <1>7 DEF f

\* A session that is ready has bought what it signs the receipt of.
LEMMA ReadyIs ==
  ASSUME RInv, NEW s \in Sessions, At(s, "ready")
  PROVE  /\ Bought(session[s].q, session[s].ref, rail, entry)
         /\ Receipt(s).q = session[s].q /\ Receipt(s).ref = session[s].ref
<1>1. SessionOk(session[s], rail, entry) /\ session[s].stage = "ready"
  BY DEF RInv, At
<1> QED
  BY <1>1 DEF SessionOk, Receipt

LEMMA EndIs ==
  ASSUME RInv, NEW s \in Sessions, End(s)
  PROVE  /\ session' = [y \in Sessions |-> session'[y]]
         /\ \A y \in Sessions : session'[y] = session[y] \/ SessionOk(session'[y], rail, entry)
<1>1. SessionOk(Idle, rail, entry)
  BY IdleOk
<1> QED
  BY <1>1 DEF End, RInv

LEMMA ConsumeStep ==
  ASSUME RInv, NEW s \in Sessions, Consume(s)
  PROVE  RInv'
<1> DEFINE q == session[s].q
           rec == Receipt(s)
           f == With(file, q, rec)
<1>1. At(s, "ready") /\ UNCHANGED <<now, entry, payer>>
      /\ session' = [y \in Sessions |-> session'[y]]
      /\ \A y \in Sessions : session'[y] = session[y] \/ SessionOk(session'[y], rail, entry)
  BY EndIs DEF Consume
<1>2. Bought(q, session[s].ref, rail, entry) /\ rec.q = q /\ rec.ref = session[s].ref
  BY <1>1, ReadyIs
<1> HIDE DEF rec
<1>3. CASE Outcome(s) = "fresh" /\ Append1(q, rec) /\ delivered' = delivered \cup {rec}
  <2>1. ~ poisoned /\ Peek(q, session[s].ref) = "fresh"
    BY <1>3 DEF Outcome
  <2>2. /\ byNonce = file /\ q \notin DOMAIN file
        /\ FileOk(f, rail, entry) /\ DOMAIN f = DOMAIN file \cup {q} /\ f[q] = rec
        /\ \A n \in DOMAIN file : f[n] = file[n]
        /\ f = [n \in DOMAIN f |-> f[n]]
    BY <1>2, <2>1, LogExtends
  <2>3. file' = f /\ byNonce' = f /\ poisoned' = poisoned
    BY <1>3, <2>2 DEF Append1
  <2> HIDE DEF f
  <2>4. FileOk(file', rail, entry) /\ poisoned' \in BOOLEAN /\ MemoryOk(byNonce', file', poisoned')
    BY <2>2, <2>3 DEF RInv, MemoryOk
  <2>5. ReceiptsOk(delivered', byNonce')
    <3>1. ReceiptsOk(delivered, file)
      BY <2>2 DEF RInv
    <3> QED BY <1>2, <1>3, <2>2, <2>3, <3>1 DEF ReceiptsOk
  <2> QED BY <1>1, <2>4, <2>5, MerchantKeeps
<1>4. CASE Outcome(s) = "stored" /\ delivered' = delivered \cup {byNonce[q]} /\ UNCHANGED store
  <2>1. q \in DOMAIN byNonce
    BY <1>4 DEF Outcome, Peek
  <2>2. byNonce[q].q = q
    BY <2>1 DEF RInv, MemoryOk, FileOk
  <2>3. /\ FileOk(file', rail, entry) /\ poisoned' \in BOOLEAN /\ MemoryOk(byNonce', file', poisoned')
        /\ byNonce' = byNonce
    BY <1>4, StoreUnchanged
  <2>4. ReceiptsOk(delivered', byNonce')
    BY <1>4, <2>1, <2>2, <2>3 DEF RInv, ReceiptsOk
  <2> QED BY <1>1, <2>3, <2>4, MerchantKeeps
<1>5. CASE UNCHANGED <<store, delivered>>
  <2>1. /\ FileOk(file', rail, entry) /\ poisoned' \in BOOLEAN /\ MemoryOk(byNonce', file', poisoned')
        /\ ReceiptsOk(delivered', byNonce')
    BY <1>5, StoreUnchanged DEF RInv
  <2> QED BY <1>1, <2>1, MerchantKeeps
<1> QED
  BY <1>3, <1>4, <1>5 DEF Consume, rec

LEMMA ConsumeFailsStep ==
  ASSUME RInv, NEW s \in Sessions, NEW undone \in BOOLEAN, NEW kept \in BOOLEAN, ConsumeFails(s, undone, kept)
  PROVE  RInv'
<1> DEFINE q == session[s].q
           rec == Receipt(s)
           f == With(file, q, rec)
<1>1. At(s, "ready") /\ UNCHANGED <<now, entry, payer, delivered>>
      /\ session' = [y \in Sessions |-> session'[y]]
      /\ \A y \in Sessions : session'[y] = session[y] \/ SessionOk(session'[y], rail, entry)
  BY EndIs DEF ConsumeFails
<1>2. Bought(q, session[s].ref, rail, entry) /\ rec.q = q /\ rec.ref = session[s].ref
  BY <1>1, ReadyIs
<1>3. ~ poisoned /\ Peek(q, session[s].ref) = "fresh" /\ AppendFails(q, rec, undone, kept)
  BY DEF ConsumeFails, Outcome
<1> HIDE DEF rec
<1>4. /\ byNonce = file /\ q \notin DOMAIN file
      /\ FileOk(f, rail, entry) /\ DOMAIN f = DOMAIN file \cup {q}
      /\ \A n \in DOMAIN file : f[n] = file[n]
      /\ f = [n \in DOMAIN f |-> f[n]]
  BY <1>2, <1>3, LogExtends
<1>5. byNonce' = byNonce /\ poisoned' = ~ undone /\ (file' = file \/ (file' = f /\ poisoned'))
  BY <1>3 DEF AppendFails
<1> HIDE DEF f
<1>6. FileOk(file', rail, entry)
  BY <1>4, <1>5 DEF RInv
<1>7. MemoryOk(byNonce', file', poisoned')
  BY <1>4, <1>5 DEF RInv, MemoryOk
<1>8. ReceiptsOk(delivered', byNonce') /\ poisoned' \in BOOLEAN
  BY <1>1, <1>5 DEF RInv
<1> QED
  BY <1>1, <1>6, <1>7, <1>8, MerchantKeeps

\* open: memory is the log, with nothing lost of what was answered from memory.
LEMMA RestartedStep ==
  ASSUME RInv, NEW f, Restarted(f), FileOk(f, rail, entry), f = [n \in DOMAIN f |-> f[n]],
         DOMAIN file \subseteq DOMAIN f, \A n \in DOMAIN file : f[n] = file[n]
  PROVE  RInv'
<1>1. /\ session' = [s \in Sessions |-> Idle] /\ file' = f /\ byNonce' = f /\ poisoned' = FALSE
      /\ UNCHANGED <<now, entry, payer, delivered>>
  BY DEF Restarted, Reopen
<1>2. /\ session' = [y \in Sessions |-> session'[y]]
      /\ \A y \in Sessions : session'[y] = session[y] \/ SessionOk(session'[y], rail, entry)
  BY <1>1, IdleOk
<1>3. MemoryOk(byNonce', file', poisoned')
  BY <1>1 DEF MemoryOk
<1>4. ReceiptsOk(delivered', byNonce')
  BY <1>1 DEF RInv, ReceiptsOk, MemoryOk
<1> QED
  BY <1>1, <1>2, <1>3, <1>4, MerchantKeeps

LEMMA RestartStep ==
  ASSUME RInv, Restart \/ Recover
  PROVE  RInv'
<1>1. Restarted(file)
  BY DEF Restart, Recover
<1>2. FileOk(file, rail, entry) /\ file = [n \in DOMAIN file |-> file[n]]
  BY DEF RInv, MemoryOk
<1> QED
  BY <1>1, <1>2, RestartedStep

LEMMA RestartInConsumeStep ==
  ASSUME RInv, NEW s \in Sessions, RestartInConsume(s)
  PROVE  RInv'
<1> DEFINE q == session[s].q
           rec == Receipt(s)
           f == With(file, q, rec)
<1>0. Restarted(f)
  BY DEF RestartInConsume
<1>1. At(s, "ready") /\ ~ poisoned /\ Peek(q, session[s].ref) = "fresh"
  BY DEF RestartInConsume, Outcome
<1>2. Bought(q, session[s].ref, rail, entry) /\ rec.q = q /\ rec.ref = session[s].ref
  BY <1>1, ReadyIs
<1> HIDE DEF rec
<1>3. /\ byNonce = file /\ q \notin DOMAIN file
      /\ FileOk(f, rail, entry) /\ DOMAIN f = DOMAIN file \cup {q} /\ f[q] = rec
      /\ \A n \in DOMAIN file : f[n] = file[n]
      /\ f = [n \in DOMAIN f |-> f[n]]
  BY <1>1, <1>2, LogExtends
<1> HIDE DEF f
<1> QED
  BY <1>0, <1>3, RestartedStep

-----------------------------------------------------------------------------
(* Theorems *)

LEMMA InitRInv == Init => RInv
<1> SUFFICES ASSUME Init PROVE RInv
  OBVIOUS
<1>1. RailOk(rail) /\ AuthsOk(auths, rail) /\ EntriesOk(entry) /\ now \in Nat
  BY DEF Init, RailOk, AuthsOk, EntriesOk
<1>2. FileOk(file, rail, entry) /\ MemoryOk(byNonce, file, poisoned) /\ poisoned \in BOOLEAN
  <2>1. byNonce = <<>> /\ file = <<>> /\ poisoned = FALSE /\ DOMAIN file = {}
    BY DEF Init, StoreInit
  <2>2. FileOk(file, rail, entry)
    BY <2>1 DEF FileOk
  <2>3. MemoryOk(byNonce, file, poisoned)
    BY <2>1 DEF MemoryOk
  <2> QED BY <2>1, <2>2, <2>3
<1>3. session = [s \in Sessions |-> session[s]] /\ \A s \in Sessions : SessionOk(session[s], rail, entry)
  BY IdleOk DEF Init, Idle
<1>4. ReceiptsOk(delivered, byNonce)
  BY DEF Init, ReceiptsOk
<1> QED
  BY <1>1, <1>2, <1>3, <1>4 DEF RInv

LEMMA NextRInv == RInv /\ [Next]_vars => RInv'
<1> SUFFICES ASSUME RInv, [Next]_vars PROVE RInv'
  OBVIOUS
<1>1. CASE UNCHANGED vars
  BY <1>1 DEF vars, payer, store, RInv
<1>2. ASSUME NEW q \in TwoLeg, FundMeedLeg(q) \/ SubmitNetLeg(q) PROVE RInv'
  BY <1>2, FundMeedLegStep, SubmitNetLegStep
<1>3. ASSUME NEW s \in Sessions,
             \/ Step(s) \/ RestartInConsume(s)
             \/ \E undone, kept \in BOOLEAN : ConsumeFails(s, undone, kept)
      PROVE  RInv'
  BY <1>3, PostAttestationStep, ConsumeStep, RestartInConsumeStep, ConsumeFailsStep DEF Step
<1>4. ASSUME NEW s \in Sessions, NEW q \in TwoLeg, NEW m \in DOMAIN rail, NEW n \in DOMAIN rail,
             RepeatTwoLeg(s, q, m, n) \/ RedeemTwoLeg(s, q, m, n)
      PROVE  RInv'
  BY <1>4, RepeatTwoLegStep, RedeemTwoLegStep
<1>5. ASSUME NEW i \in Ids, OpenReclaim(i) \/ ExecuteReclaim(i) \/ ClaimLapsed(i) \/ CancelEntry(i) PROVE RInv'
  BY <1>5, ReclaimStep
<1> QED
  BY <1>1, <1>2, <1>3, <1>4, <1>5, TickStep, PayBaselineStep, RedeemBaselineStep, RestartStep DEF Next

\* What a redemption, a record of the log or a receipt was bought with is on the rail,
\* through every fault, stop and restart of the merchant.
THEOREM RedemptionSound == Spec => []RInv
<1> QED
  BY InitRInv, NextRInv, PTL DEF Spec

\* Every receipt is for a payment of the quoted terms, with two legs only once the meed is
\* the recipients', and a nonce has one receipt and a payment one nonce (consume_nonce).
THEOREM DeliveryIsPaidHolds == Spec => []DeliveryIsPaid
<1>1. RInv => DeliveryIsPaid
  <2> SUFFICES ASSUME RInv, NEW d \in delivered
               PROVE  /\ d.q \in Issued
                      /\ IF Len(d.ref) = 1
                           THEN rail[LastOf(d.ref)].kind = "pay" /\ rail[LastOf(d.ref)].q \in Buyers[d.q]
                           ELSE /\ rail[LastOf(d.ref)].kind = "net" /\ rail[LastOf(d.ref)].q = d.q
                                /\ In(EntryOf[d.q], {"attested"})
                      /\ \A e \in delivered : d.q = e.q \/ LastOf(d.ref) = LastOf(e.ref) => d = e
    BY DEF DeliveryIsPaid, LastOf
  <2>1. \A e \in delivered : e.q \in DOMAIN file /\ file[e.q] = e
    BY DEF RInv, ReceiptsOk, MemoryOk
  <2>2. Bought(d.q, d.ref, rail, entry)
    BY <2>1 DEF RInv, FileOk
  <2>3. ASSUME PaidOnce(d.q, d.ref, rail)
        PROVE  Len(d.ref) = 1 /\ rail[LastOf(d.ref)].kind = "pay" /\ rail[LastOf(d.ref)].q \in Buyers[d.q]
    <3>1. PICK x \in 1..Len(rail) : d.ref = <<x>> /\ rail[x].kind = "pay" /\ rail[x].q \in Buyers[d.q]
      BY <2>3 DEF PaidOnce
    <3>2. Len(d.ref) = 1 /\ LastOf(d.ref) = x
      BY <3>1 DEF LastOf
    <3> QED BY <3>1, <3>2
  <2>4. ASSUME PaidLegs(d.q, d.ref, rail)
        PROVE  Len(d.ref) = 2 /\ rail[LastOf(d.ref)].kind = "net" /\ rail[LastOf(d.ref)].q = d.q
    <3>1. PICK m, x \in 1..Len(rail) : d.ref = <<m, x>> /\ rail[x].kind = "net" /\ rail[x].q = d.q
      BY <2>4 DEF PaidLegs
    <3>2. Len(d.ref) = 2 /\ LastOf(d.ref) = x
      BY <3>1 DEF LastOf
    <3> QED BY <3>1, <3>2
  <2>5. Attested(d.q, entry) => In(EntryOf[d.q], {"attested"})
    BY DEF Attested, In, Funded
  <2>6. \A e \in delivered : LastOf(d.ref) = LastOf(e.ref) => d.q = e.q
    BY <2>1 DEF RInv, FileOk
  <2>7. \A e \in delivered : d.q = e.q => d = e
    BY <2>1
  <2> QED
    BY <2>2, <2>3, <2>4, <2>5, <2>6, <2>7 DEF Bought
<1> QED
  BY <1>1, RedemptionSound, PTL

-----------------------------------------------------------------------------
(* What the wallet sends is honoured. *)

\* pay_baseline and redeem_baseline look at the same offer of the same quote.
LEMMA PayableIsRedeemable ==
  ASSUME SameView
  PROVE  Payable \subseteq RedeemableBaseline
<1> SUFFICES ASSUME NEW q \in Payable PROVE q \in RedeemableBaseline
  OBVIOUS
<1> DEFINE o == Circulating[q]
<1>1. q \in Baseline /\ q \in Quotes /\ PaidOffers(q) # {} /\ q \in Issued
  BY SignedIsIssued DEF Payable, Baseline, Of
<1>2. PICK a \in Approved : PayableOffers(a, o) # {}
  BY <1>1 DEF PaidOffers
<1>3. PICK i \in MirroredBaseline(a, o.quote) :
        /\ QuoteFor(a, o) /\ o.quote.offers[i].finality # {}
        /\ PaysTheSplit(Origin.merchant, o.quote, o.quote.offers[i])
  BY <1>2 DEF PayableOffers
<1>4. i \in OffersOf(o.quote, FALSE)
  BY DEF MirroredBaseline
<1>5. o.quote.offers[i] = FirstOffer(o.quote, FALSE)
  BY <1>1, <1>4 DEF SameView
<1>6. OwnQuote(o)
  BY <1>3, OriginAssumption DEF QuoteFor, OwnQuote, SameView
<1>7. BaselineRedeemable(o)
  <2> HIDE DEF o
  <2>1. FirstOffer(o.quote, FALSE).finality # {} /\ PaysTheSplit(MerchantKey, o.quote, FirstOffer(o.quote, FALSE))
    BY <1>3, <1>5, OriginAssumption
  <2> QED BY <1>4, <1>6, <2>1 DEF BaselineRedeemable
<1> QED
  BY <1>1, <1>7 DEF RedeemableBaseline

\* plan_two_leg and redeem_two_leg too; the levels quoted are ones the rail declares.
LEMMA PlannedIsRedeemable ==
  ASSUME SameView, NEW q \in Planned
  PROVE  q \in RedeemableTwoLeg /\ FinMeed[q] \in {1, 2} /\ FinNet[q] \in {1, 2}
<1> DEFINE o == Circulating[q]
<1>1. q \in TwoLeg /\ q \in Quotes /\ q \in Issued
  BY SignedIsIssued DEF Planned, TwoLeg, Of
<1>2. PICK a \in Approved : PlannableOffers(a, o) # {}
  BY DEF Planned
<1>3. PICK i \in MirroredTwoLeg(a, o.quote) :
        /\ QuoteFor(a, o) /\ ValidateBaselineMerchantNet(o.quote)
        /\ \A tl \in o.quote.offers[i].twoLeg : InTimeDomain(tl) /\ {tl.finMeed, tl.finNet} \subseteq Declared
  BY <1>2 DEF PlannableOffers
<1>4. i \in OffersOf(o.quote, TRUE) /\ o.quote.offers[i].twoLeg # {}
  BY DEF MirroredTwoLeg, OffersOf
<1>5. o.quote.offers[i] = FirstOffer(o.quote, TRUE)
  BY <1>1, <1>4 DEF SameView
<1>6. OwnQuote(o)
  BY <1>3, OriginAssumption DEF QuoteFor, OwnQuote, SameView
<1>7. TwoLegRedeemable(o)
  <2> HIDE DEF o
  <2>1. \A tl \in FirstOffer(o.quote, TRUE).twoLeg : InTimeDomain(tl)
    BY <1>3, <1>5
  <2> QED BY <1>3, <1>4, <1>6, <2>1 DEF TwoLegRedeemable
<1>8. Meed(q) \in o.quote.offers[i].twoLeg
  BY <1>4, <1>5 DEF Meed
<1>9. {Meed(q).finMeed, Meed(q).finNet} \subseteq {1, 2}
  BY <1>3, <1>8, QuoteAssumption
<1> QED
  BY <1>1, <1>7, <1>9 DEF RedeemableTwoLeg, FinMeed, FinNet

\* An entry_id commits the nonce.
LEMMA EntryHasItsNonce ==
  ASSUME NEW p \in TwoLeg, NEW q \in TwoLeg, p \in Issued, q \in Issued, EntryOf[p] = EntryOf[q]
  PROVE  p = q
<1>1. \A x \in TwoLeg : EntryOf[x] = CHOOSE y \in TwoLeg : EntryId(y) = EntryId(x)
  BY DEF EntryOf
<1>2. \A x \in TwoLeg : EntryId(EntryOf[x]) = EntryId(x)
  BY <1>1
<1>3. EntryId(p) = EntryId(q)
  BY <1>2
<1>4. Circulating[p].quote.nonce = Circulating[q].quote.nonce
  <2>1. ASSUME NEW x, NEW e \in EntryId(x) PROVE e[2] = Circulating[x].quote.nonce
    BY <2>1 DEF EntryId, EntryIds, EntryIdPurchase
  <2>2. ASSUME NEW m, NEW quote, NEW a PROVE SeedInstance(AddressInputs(m, quote, a, {})) # {}
    BY DEF SeedInstance, AddressInputs
  <2>3. ASSUME NEW m, NEW quote, NEW tl PROVE EntryIds(m, quote, tl) # {}
    BY <2>2 DEF EntryIds
  <2>4. EntryId(p) # {}
    BY <2>3 DEF EntryId
  <2>5. PICK e \in EntryId(p) : TRUE
    BY <2>4
  <2> QED BY <1>3, <2>1, <2>5
<1> QED
  BY <1>4, IssuedAssumption

\* leg_final: a leg sent with its headroom is late at no later time.
LEMMA InTimeIsNeverLate ==
  ASSUME now \in Nat, NEW q, Honor[q] \in Nat, NEW at \in Nat, at + Delay <= Honor[q], NEW level \in {1, 2}
  PROVE  LegFinal(q, at, level) # "expired"
<1>1. Delay \in Nat
  BY QuoteAssumption
<1>2. CASE now >= at + Delay
  <2>1. Finality(at).level = 2 /\ Finality(at).time = at + Delay
    BY <1>2 DEF Finality
  <2>2. ~ (Finality(at).level < level) /\ ~ (Finality(at).time > Honor[q])
    BY <1>1, <2>1
  <2> QED BY <2>2 DEF LegFinal
<1>3. CASE ~ (now >= at + Delay)
  <2>1. Finality(at).level = 1 /\ Finality(at).time = at
    BY <1>3 DEF Finality
  <2>2. ~ (now > Honor[q]) /\ ~ (Finality(at).time > Honor[q])
    BY <1>1, <1>3, <2>1
  <2> QED BY <2>2 DEF LegFinal
<1> QED
  BY <1>2, <1>3

\* A leg the wallet has sent is never answered Expired, and it sends and authorizes
\* nothing for a quote the merchant will not redeem (finality_headroom, pay_baseline,
\* plan_two_leg), where both ends go by the same snapshots and offers (SameView).
THEOREM SentIsHonoredHolds == ASSUME SameView PROVE Spec => []SentIsHonored
<1>1. ASSUME RInv PROVE SentIsHonored
  <2>1. ASSUME NEW q \in TwoLeg, NEW m \in DOMAIN rail, NEW n \in DOMAIN rail, ExpireTwoLeg(q, m, n) PROVE FALSE
    <3>1. q \in RedeemableTwoLeg /\ q \in Issued /\ IsLeg(m, "meed", q) /\ IsLeg(n, "net", q)
      BY <2>1, SignedIsIssued DEF ExpireTwoLeg
    <3>2. SentOk(rail[m]) /\ SentOk(rail[n]) /\ now \in Nat
      BY <1>1 DEF RInv, RailOk
    <3>3. rail[n].kind = "net" /\ rail[n].q \in Planned /\ rail[n].q \in NetPayers[q]
      BY <3>1, <3>2 DEF IsLeg, SentOk
    <3>4. rail[n].q = q
      BY <3>1, <3>3, SignedIsIssued, NetPaysItsOwn
    <3>5. rail[m].kind = "meed" /\ rail[m].q \in Planned /\ EntryOf[rail[m].q] = EntryOf[q]
      BY <3>1, <3>2 DEF IsLeg, SentOk
    <3>6. rail[m].q = q
      BY <3>1, <3>5, SignedIsIssued, EntryHasItsNonce
    <3>7. FinMeed[q] \in {1, 2} /\ FinNet[q] \in {1, 2}
      BY <1>1, <3>3, <3>4, PlannedIsRedeemable
    <3>8. Honor[q] \in Nat /\ Delay \in Nat
      BY QuoteAssumption DEF TwoLeg, Of
    <3>9. rail[n].at \in Nat /\ rail[n].at + Delay <= Honor[q]
      BY <3>2, <3>3, <3>4 DEF SentOk
    <3>10. rail[m].at \in Nat /\ rail[m].at + Delay <= Honor[q]
      BY <3>2, <3>5, <3>6, <3>8 DEF SentOk
    <3>11. LegFinal(q, rail[m].at, FinMeed[q]) # "expired" /\ LegFinal(q, rail[n].at, FinNet[q]) # "expired"
      BY <3>2, <3>7, <3>8, <3>9, <3>10, InTimeIsNeverLate
    <3> QED
      BY <2>1, <3>11 DEF ExpireTwoLeg
  <2>2. \A a \in DOMAIN auths : auths[a].q \in Issued \cap RedeemableBaseline
    BY <1>1, PayableIsRedeemable, SignedIsIssued DEF RInv, AuthsOk, AuthOk
  <2>3. \A r \in DOMAIN rail : rail[r].kind # "pay" => rail[r].q \in Issued \cap RedeemableTwoLeg
    BY <1>1, PlannedIsRedeemable, SignedIsIssued DEF RInv, RailOk, SentOk
  <2> QED
    BY <2>1, <2>2, <2>3 DEF SentIsHonored
<1>2. RInv => SentIsHonored
  BY <1>1
<1> QED
  BY <1>2, RedemptionSound, PTL

-----------------------------------------------------------------------------
(* Prepaid chains: the dispositions.                                       *)

\* A position is imported by one successor.  The run chain_import shows how the code
\* may fail it; ChainsSoundUnlessRefused says when it does not.
OneImporter == \A d, e \in imports : d[1] = e[1] => d = e

\* The durable log: dispositions are of channels it has opened.
LogOk(l) ==
  /\ l = [opened |-> l.opened, fund |-> l.fund, disp |-> l.disp]
  /\ l.opened \subseteq Cids
  /\ DOMAIN l.disp \subseteq l.opened

DispKinds == {"pending", "committed", "reconciled"}
DispFields == {"kind", "succ", "draw"}

\* The links of the disposition map m are imports.
LinksOk(m, E) ==
  /\ \A c \in DOMAIN m : DOMAIN m[c] = DispFields
  /\ \A c \in DOMAIN m : m[c].kind \in DispKinds
  /\ \A c \in DOMAIN m : m[c].kind = "committed" => <<c, m[c].succ>> \in E

KindIn(m, c) == IF c \in DOMAIN m THEN m[c].kind ELSE "none"

\* Of the live channels L, retained in r; o are the ids opened in any life.
AcksOk(a, r, L, o) ==
  /\ a = [c \in Cids |-> a[c]]
  /\ \A c \in L : DOMAIN r[c] = {"open", "terminated"} /\ a[c] = {r[c].open}
  /\ \A c \in Cids : (a[c] # {} => c \in o) /\ \A m, n \in a[c] : m = n

\* What was imported or refunded stays so: in this life the disposition says which.
ImportsOk(E, L, m, o) ==
  /\ E \subseteq o \X o
  /\ \A e \in E : (e[1] \in L <=> e[2] \in L) /\ (e[1] \in L => KindIn(m, e[1]) = "committed")
RefundsOk(K, E, L, m, o) ==
  /\ K \subseteq o \X CloseRefs
  /\ \A k \in K : k[1] \in L => KindIn(m, k[1]) = "reconciled"
  /\ \A k, l \in K : k[1] = l[1] => k = l
  /\ \A k \in K : \A e \in E : k[1] # e[1]

\* The inductive invariant of the dispositions.
DispInv ==
  /\ LogOk(log) /\ Live \subseteq log.opened /\ DOMAIN retained = Live
  /\ DOMAIN chain \subseteq log.opened
  /\ LinksOk(chain, imports) /\ LinksOk(log.disp, imports)
  /\ \A k \in DOMAIN snaps : k[1] \in Live /\ k[1] \in DOMAIN chain
  /\ AcksOk(acked, retained, Live, log.opened)
  /\ ImportsOk(imports, Live, chain, log.opened)
  /\ RefundsOk(DOMAIN released, imports, Live, chain, log.opened)

-----------------------------------------------------------------------------
(* Prepaid chains: the books.                                              *)

\* The evidenced total of the channel x, and its rounds in flight.
Basis(x) == IF x.op # 0 THEN x.ckpts[x.op] ELSE x.imp.cum
Flight(x) == {ref \in DOMAIN x.rounds : ~x.rounds[ref].confirmed}

\* The vector v is within the accruals at a total.
Below(v, total) == v \in [RoleIds -> Nat] /\ \A r \in RoleIds : v[r] <= Accruals(total)[r]

\* A position to meter on: funded up to its total, its balance a credit.
PosOk(p) ==
  /\ DOMAIN p = {"ref", "cum", "settled", "funding", "bal"}
  /\ p.cum \in Nat /\ p.funding \in Nat /\ p.bal \in Int
  /\ Below(p.settled, p.cum)
  /\ p.cum - p.funding <= p.bal /\ p.bal <= 0

\* The round y in flight on the channel x whose watermark is f.
FlightOk(x, y, f) ==
  /\ y.target \in Nat /\ y.er \in [RoleIds -> Nat]
  /\ \A r \in RoleIds : x.settled[r] + y.er[r] <= Accruals(Basis(x))[r]
  /\ Total(x.settled) + Total(y.er) = Total(x.imp.settled) + BpDenom * y.target
  /\ IF y.drawn THEN f = y.target ELSE Total(x.settled) = Total(x.imp.settled) + BpDenom * f

ChanFields == {"status", "cum", "bal", "ckpts", "op", "settled", "funding", "imp", "rounds"}
RoundFields == {"target", "er", "drawn", "confirmed"}

\* The meter: what is evidenced is metered, and what is metered is funded.
MeterOk(x) ==
  /\ DOMAIN x = ChanFields
  /\ x.status \in {"open", "settling"}
  /\ PosOk(x.imp)
  /\ x.cum \in Nat /\ x.funding \in Nat /\ x.bal \in Int
  /\ x.cum - x.funding <= x.bal /\ x.bal <= 0
  /\ x.ckpts \in Seq(Nat) /\ x.op \in 0..Len(x.ckpts)
  /\ Basis(x) \in Nat /\ x.imp.cum <= Basis(x) /\ Basis(x) <= x.cum
  /\ Below(x.settled, Basis(x))

RoundsTyped(R) ==
  /\ \A ref \in DOMAIN R : ref \in Nat
  /\ \A ref \in DOMAIN R : DOMAIN R[ref] = RoundFields
  /\ \A ref \in DOMAIN R : R[ref].drawn \in BOOLEAN

\* The ledger against the watermark f: they agree between rounds, and a plain close
\* may have drawn more than the ledger knows.
RoundsOk(x, f, kind) ==
  /\ RoundsTyped(x.rounds)
  /\ \A a, b \in Flight(x) : a = b
  /\ \A ref \in Flight(x) : FlightOk(x, x.rounds[ref], f)
  /\ Flight(x) = {} => Total(x.settled) <= Total(x.imp.settled) + BpDenom * f
  /\ Flight(x) = {} /\ kind # "reconciled" => Total(x.settled) = Total(x.imp.settled) + BpDenom * f
  /\ kind # "none" => x.status = "settling" /\ Flight(x) = {}

\* The channel x, its watermark f and its disposition.
Own(x, f, kind) ==
  /\ MeterOk(x) /\ f \in Nat
  /\ Total(x.imp.settled) + BpDenom * f <= Total(Accruals(Basis(x)))
  /\ RoundsOk(x, f, kind)

\* The channels whose position c carries, by the imports E.
Anc(E, c) ==
  {p \in Cids : \A S \in SUBSET Cids :
     c \in S /\ (\A e \in E : e[2] \in S => e[1] \in S) => p \in S}

\* Of the deposits d those in I that name a channel of S, and the refunds of S.
Amounts(d) == [i \in DOMAIN d |-> d[i].amt]
Deps(d, S, I) == SumOver(Amounts(d), {i \in I : d[i].to \in S})
Refunds(R, S) == SumOver(R, {k \in DOMAIN R : k[1] \in S})

\* What c imported as settled covers the draws before it.
Heir(c, x, E, F) == BpDenom * SumOver(F, Anc(E, c) \ {c}) <= Total(x.imp.settled)
\* Its ledger has all that was credited along its chain.
Float(c, x, E, d, I) == x.funding = Deps(d, Anc(E, c), I)

\* A plain close: q is the disposition, t the evidenced total it pinned.
ClosedOk(c, x, f, q, R, t) ==
  /\ t \in Nat /\ t <= Basis(x) /\ Refunds(R, {c}) + t <= x.funding
  /\ q.draw \in Nat
  /\ Total(x.imp.settled) + BpDenom * q.draw <= Total(Accruals(t))
  /\ Total(x.imp.settled) + BpDenom * f <= Total(Accruals(t))

\* The refunds and draws of a chain are within its deposits.
Covered(c, E, R, F, d, I) ==
  Refunds(R, Anc(E, c)) + SumOver(F, Anc(E, c)) <= Deps(d, Anc(E, c), I)

\* The ends of the live chains.
Tips == {c \in Live : KindIn(chain, c) # "committed"}

\* The rail and the log of consumed references.
Rail ==
  /\ deposits \in Seq([to : log.opened, amt : Nat])
  /\ credited \subseteq log.fund /\ log.fund \subseteq DOMAIN deposits
  /\ fundedP \in [Cids -> Nat] /\ \A c \in Cids : c \notin log.opened => fundedP[c] = 0
  /\ \A k \in DOMAIN released : released[k] \in Nat
  /\ DOMAIN closing \subseteq log.opened
  /\ \A c \in DOMAIN closing : c \in Live => KindIn(chain, c) = "reconciled"

\* The inductive invariant of the amounts: no channel is in two live chains, and what
\* is lost with a restart was covered when it was lost.
Books ==
  /\ Rail
  /\ \A a, b \in Tips : Anc(imports, a) \cap Anc(imports, b) # {} => a = b
  /\ \A c \in Live : Own(chan[c], fundedP[c], KindIn(chain, c)) /\ Heir(c, chan[c], imports, fundedP)
  /\ \A c \in Tips : Float(c, chan[c], imports, deposits, credited)
  /\ \A c \in Live : KindIn(chain, c) = "reconciled" =>
       c \in DOMAIN closing /\ ClosedOk(c, chan[c], fundedP[c], chain[c], released, closing[c])
  /\ \A c \in Cids \ Tips : Covered(c, imports, released, fundedP, deposits, log.fund)
  /\ \A c \in DOMAIN closing \ Live :
       closing[c] \in Nat /\ BpDenom * SumOver(fundedP, Anc(imports, c)) <= Total(Accruals(closing[c]))

-----------------------------------------------------------------------------
(* The dispositions, step by step.                                         *)

\* Before any open nothing is imported, refunded or acknowledged.
LEMMA InitDisp == ChainInit => DispInv
<1> SUFFICES ASSUME ChainInit PROVE DispInv
  OBVIOUS
<1>1. /\ DOMAIN chan = {} /\ DOMAIN retained = {} /\ DOMAIN chain = {} /\ DOMAIN snaps = {}
      /\ DOMAIN released = {} /\ DOMAIN log.disp = {} /\ log.opened = {} /\ imports = {}
      /\ log = [opened |-> log.opened, fund |-> log.fund, disp |-> log.disp]
      /\ acked = [c \in Cids |-> acked[c]] /\ \A c \in Cids : acked[c] = {}
  BY DEF ChainInit
<1> QED
  BY <1>1 DEF DispInv, LogOk, LinksOk, Live, AcksOk, ImportsOk, RefundsOk

\* What the durable log is after a consumed reference and after an accepted open.
LEMMA LogGrows ==
  ASSUME LogOk(log)
  PROVE  /\ \A i : Consumed(i) = [opened |-> log.opened, fund |-> log.fund \cup {i}, disp |-> log.disp]
         /\ \A m : Accepted(m) = [opened |-> log.opened \cup {m.cid}, fund |-> log.fund, disp |-> log.disp]
<1> DEFINE o == log.opened
           f == log.fund
           d == log.disp
<1>1. log = [opened |-> o, fund |-> f, disp |-> d]
  BY DEF LogOk
<1> HIDE DEF o, f, d
<1>2. \A i : Consumed(i) = [opened |-> o, fund |-> f \cup {i}, disp |-> d]
  BY <1>1 DEF Consumed
<1>3. \A m : Accepted(m) = [opened |-> o \cup {m.cid}, fund |-> f, disp |-> d]
  BY <1>1 DEF Accepted
<1> QED BY <1>2, <1>3 DEF o, f, d

\* A channel's own step: its record changes, and perhaps the rail.
LEMMA DispKeeps ==
  ASSUME DispInv, DOMAIN chan' = DOMAIN chan, log'.opened = log.opened, log'.disp = log.disp,
         LogOk(log'), UNCHANGED <<retained, chain, acked, imports>>,
         DOMAIN released' = DOMAIN released,
         \A k \in DOMAIN snaps' : k[1] \in Live /\ k[1] \in DOMAIN chain
  PROVE  DispInv'
<1>1. Live' = Live
  BY DEF Live
<1> QED BY <1>1 DEF DispInv

\* A recorded snapshot is of a live channel that has a disposition.
LEMMA SnapsKept == DispInv => LogOk(log) /\ \A k \in DOMAIN snaps : k[1] \in Live /\ k[1] \in DOMAIN chain
  BY DEF DispInv

\* Metering leaves the dispositions alone.
LEMMA AcceptSliceDisp ==
  ASSUME DispInv, NEW c \in Live, NEW amt, AcceptSlice(c, amt) PROVE DispInv'
<1>1. DOMAIN chan' = DOMAIN chan
  BY DEF AcceptSlice
<1> QED BY <1>1, DispKeeps, SnapsKept DEF AcceptSlice, railVars, aux

\* A checkpoint leaves the dispositions alone, on a settling channel too.
LEMMA CheckpointDisp ==
  ASSUME DispInv, NEW c \in Live, NEW total, Checkpoint(c, total) PROVE DispInv'
<1>1. DOMAIN chan' = DOMAIN chan
  BY DEF Checkpoint
<1> QED BY <1>1, DispKeeps, SnapsKept DEF Checkpoint, railVars, aux

\* A deposit on the rail leaves the dispositions alone.
LEMMA DepositDisp ==
  ASSUME DispInv, NEW c, NEW amt, Deposit(c, amt) PROVE DispInv'
  BY DispKeeps, SnapsKept DEF Deposit, memory, aux

\* A credited deposit consumes its reference and leaves the dispositions alone.
LEMMA FundingDisp ==
  ASSUME DispInv, NEW i, Funding(i) PROVE DispInv'
<1>1. DOMAIN chan' = DOMAIN chan
  BY DEF Funding, CreditFunding
<1>2. log'.opened = log.opened /\ log'.disp = log.disp /\ LogOk(log')
  BY SnapsKept, LogGrows DEF Funding, LogOk
<1> QED BY <1>1, <1>2, DispKeeps, SnapsKept DEF Funding, railVars, aux

\* An interim draw, taken or refused, leaves the dispositions alone.
LEMMA DrawDisp ==
  ASSUME DispInv, NEW c \in Live, DrawRefused(c) \/ \E final \in BOOLEAN : InterimDraw(c, final)
  PROVE DispInv'
<1>1. DOMAIN chan' = DOMAIN chan
  BY DEF DrawRefused, InterimDraw
<1> QED BY <1>1, DispKeeps, SnapsKept DEF DrawRefused, InterimDraw, railVars, aux

\* A close whose record fails has released nothing, and disposes of nothing.
LEMMA CloseNotRecordedDisp ==
  ASSUME DispInv, "reconcile" \notin MayFail, NEW c \in Live, NEW ref, NEW ok \in BOOLEAN,
         CloseNotRecorded(c, ref, ok)
  PROVE DispInv'
<1>1. DOMAIN chan' = DOMAIN chan /\ ~ ok
  BY DEF CloseNotRecorded
<1> QED BY <1>1, DispKeeps, SnapsKept DEF CloseNotRecorded, aux

\* Memory is lost: what it had decided is history.
LEMMA LostDisp ==
  ASSUME DispInv, NEW l, LoseMemory(l), LogOk(l), log.opened \subseteq l.opened,
         LinksOk(l.disp, imports), UNCHANGED <<acked, imports>>,
         RefundsOk(DOMAIN released', imports, {}, l.disp, l.opened)
  PROVE  DispInv'
<1>1. /\ DOMAIN chan' = {} /\ DOMAIN retained' = {} /\ DOMAIN snaps' = {}
      /\ chain' = l.disp /\ log' = l
  BY DEF LoseMemory, ReplayGuards
<1>2. Live' = {}
  BY <1>1 DEF Live
<1>3. DOMAIN l.disp \subseteq l.opened
  BY DEF LogOk
<1>4. AcksOk(acked, retained', {}, l.opened)
  BY DEF DispInv, AcksOk
<1>5. ImportsOk(imports, {}, l.disp, l.opened)
  BY DEF DispInv, ImportsOk
<1> QED BY <1>1, <1>2, <1>3, <1>4, <1>5 DEF DispInv

\* The refunds stand when memory is lost.
LEMMA RefundsStand ==
  ASSUME DispInv, NEW o, log.opened \subseteq o, NEW m
  PROVE  RefundsOk(DOMAIN released, imports, {}, m, o)
  BY DEF DispInv, RefundsOk

\* After a restart the dispositions are those the log replays.
LEMMA RestartDisp == ASSUME DispInv, ChainRestart PROVE DispInv'
<1>1. LoseMemory(log) /\ UNCHANGED <<acked, imports, released>>
  BY DEF ChainRestart, railVars, aux
<1>2. LogOk(log) /\ LinksOk(log.disp, imports)
  BY DEF DispInv
<1> QED BY <1>1, <1>2, LostDisp, RefundsStand

\* A stop between the consumed reference and the credit.
LEMMA FundingStopsDisp == ASSUME DispInv, NEW i, FundingStops(i) PROVE DispInv'
<1> DEFINE l == Consumed(i)
<1>1. LogOk(log) /\ LinksOk(log.disp, imports)
  BY DEF DispInv
<1>2. LogOk(l) /\ l.opened = log.opened /\ l.disp = log.disp
  BY <1>1, LogGrows DEF LogOk
<1>3. LoseMemory(l) /\ UNCHANGED <<acked, imports, released>>
  BY DEF FundingStops, railVars, aux
<1> HIDE DEF l
<1> QED BY <1>1, <1>2, <1>3, LostDisp, RefundsStand

\* A stop after the durable acceptance: the id is taken, and no open is acknowledged.
LEMMA OpenStopsDisp == ASSUME DispInv, NEW m \in Opens, OpenStops(m) PROVE DispInv'
<1> DEFINE l == Accepted(m)
<1>1. m.cid \in Cids /\ LogOk(log) /\ LinksOk(log.disp, imports)
  BY DEF Opens, DispInv
<1>2. LogOk(l) /\ l.opened = log.opened \cup {m.cid} /\ l.disp = log.disp
  BY <1>1, LogGrows DEF LogOk
<1>3. LoseMemory(l) /\ UNCHANGED <<released, acked, imports>>
  BY DEF OpenStops, railVars, aux
<1> HIDE DEF l
<1>4. log.opened \subseteq l.opened
  BY <1>2
<1> QED BY <1>1, <1>2, <1>3, <1>4, LostDisp, RefundsStand

\* What a release adds: one key of a channel that was neither refunded nor imported.
LEMMA ReleasedIs ==
  ASSUME DispInv, NEW c \in Live, NEW ref \in CloseRefs, FirstClose(c),
         NEW R, R = Released(c, ref) \/ R = released
  PROVE  /\ KindIn(chain, c) \in {"none", "pending"}
         /\ \A k \in DOMAIN released : k[1] # c
         /\ \A e \in imports : e[1] # c
         /\ DOMAIN R \subseteq DOMAIN released \cup {<<c, ref>>}
         /\ \A L, m : L = {} \/ (L = Live /\ KindIn(m, c) = "reconciled"
                                  /\ \A x \in Live : x # c => KindIn(m, x) = KindIn(chain, x))
                        => RefundsOk(DOMAIN R, imports, L, m, log.opened)
<1>1. KindIn(chain, c) \in {"none", "pending"}
  BY DEF FirstClose, Prior, KindIn
<1>0. c \in log.opened /\ RefundsOk(DOMAIN released, imports, Live, chain, log.opened)
      /\ ImportsOk(imports, Live, chain, log.opened)
  BY DEF DispInv
<1>2. (\A k \in DOMAIN released : k[1] # c) /\ (\A e \in imports : e[1] # c)
  BY <1>0, <1>1 DEF RefundsOk, ImportsOk
<1>3. DOMAIN R \subseteq DOMAIN released \cup {<<c, ref>>}
  BY DEF Released, Put
<1>4. DOMAIN released \subseteq log.opened \X CloseRefs
  BY <1>0 DEF RefundsOk
<1>5. DOMAIN R \subseteq log.opened \X CloseRefs
  BY <1>0, <1>2, <1>3, <1>4
<1>6. \A k \in DOMAIN R : k \in DOMAIN released \/ (k = <<c, ref>> /\ k[1] = c)
  BY <1>3
<1>7. \A k, m \in DOMAIN R : k[1] = m[1] => k = m
  <2>1. \A k, m \in DOMAIN released : k[1] = m[1] => k = m
    BY <1>0 DEF RefundsOk
  <2> QED BY <1>2, <1>6, <2>1
<1>8. \A k \in DOMAIN R : \A e \in imports : k[1] # e[1]
  <2>1. \A k \in DOMAIN released : \A e \in imports : k[1] # e[1]
    BY <1>0 DEF RefundsOk
  <2> QED BY <1>2, <1>6, <2>1
<1>9. ASSUME NEW L, NEW m, L = {} \/ (L = Live /\ KindIn(m, c) = "reconciled"
                                  /\ \A x \in Live : x # c => KindIn(m, x) = KindIn(chain, x))
      PROVE  RefundsOk(DOMAIN R, imports, L, m, log.opened)
  <2>1. \A k \in DOMAIN released : k[1] \in Live => KindIn(chain, k[1]) = "reconciled"
    BY <1>0 DEF RefundsOk
  <2>2. \A k \in DOMAIN R : k[1] \in L => KindIn(m, k[1]) = "reconciled"
    BY <1>2, <1>6, <1>9, <2>1
  <2> QED BY <1>5, <1>7, <1>8, <2>2 DEF RefundsOk
<1> QED BY <1>1, <1>2, <1>3, <1>9

\* A disposition is recorded once; a recorded one is kept.
LEMMA RecordedIs ==
  ASSUME NEW l, LogOk(l), NEW c \in l.opened, NEW d, NEW E, LinksOk(l.disp, E),
         DOMAIN d = DispFields, d.kind \in DispKinds, d.kind = "committed" => <<c, d.succ>> \in E,
         NEW r, r = Recorded(l, c, d)
  PROVE  LogOk(r) /\ r.opened = l.opened /\ r.fund = l.fund /\ LinksOk(r.disp, E)
<1>1. CASE c \in DOMAIN l.disp
  BY <1>1 DEF Recorded
<1>2. CASE c \notin DOMAIN l.disp
  <2> DEFINE o == l.opened
             f == l.fund
             p == l.disp
  <2>1. l = [opened |-> o, fund |-> f, disp |-> p] /\ o \subseteq Cids /\ DOMAIN p \subseteq o /\ c \in o
        /\ LinksOk(p, E) /\ c \notin DOMAIN p
    BY <1>2 DEF LogOk
  <2>2. r = [l EXCEPT !.disp = Put(l.disp, c, d)]
    BY <1>2 DEF Recorded
  <2> HIDE DEF o, f, p
  <2>3. r = [opened |-> o, fund |-> f, disp |-> Put(p, c, d)]
    BY <2>1, <2>2
  <2>4. LogOk(r)
    BY <2>1, <2>3 DEF LogOk, Put
  <2>5. LinksOk(Put(p, c, d), E)
    BY <2>1 DEF LinksOk, Put
  <2> QED BY <2>3, <2>4, <2>5 DEF o, f
<1> QED BY <1>1, <1>2

\* The fields of a disposition.
LEMMA LinkFields ==
  ASSUME NEW m, NEW E, LinksOk(m, E), NEW c \in DOMAIN m
  PROVE  DOMAIN m[c] = DispFields
  BY DEF LinksOk

\* The three dispositions.
LEMMA KindsOf ==
  /\ Pending.kind = "pending" /\ DOMAIN Pending = DispFields /\ Pending.draw = 0
  /\ \A s : /\ Committed(s).kind = "committed" /\ Committed(s).succ = s
            /\ DOMAIN Committed(s) = DispFields
  /\ \A p : /\ Reconciled(p).kind = "reconciled" /\ Reconciled(p).draw = p
            /\ DOMAIN Reconciled(p) = DispFields
  /\ DispKinds = {"pending", "committed", "reconciled"}
  BY DEF Pending, Committed, Reconciled, DispFields, DispKinds

\* A stop inside a first plain close: a refund released before the record is not released
\* for a successor too.
LEMMA CloseStopsDisp ==
  ASSUME DispInv, NEW c \in Live, NEW ref \in CloseRefs, NEW ok, NEW also, CloseStops(c, ref, ok, also)
  PROVE  DispInv'
<1> DEFINE d == Reconciled(PendingDraw(c))
           l == IF also THEN Recorded(log, c, d) ELSE log
<1>1. LogOk(log) /\ c \in log.opened /\ LinksOk(log.disp, imports)
  BY DEF DispInv
<1>2. DOMAIN d = DispFields /\ d.kind # "committed" /\ d.kind \in DispKinds
  BY KindsOf
<1>3. LoseMemory(l) /\ UNCHANGED <<acked, imports>> /\ FirstClose(c)
      /\ (released' = Released(c, ref) \/ released' = released)
  BY DEF CloseStops, aux
<1> HIDE DEF d
<1>4. LogOk(l) /\ l.opened = log.opened /\ LinksOk(l.disp, imports)
  BY <1>1, <1>2, RecordedIs
<1> HIDE DEF l
<1>5. RefundsOk(DOMAIN released', imports, {}, l.disp, l.opened)
  BY <1>3, <1>4, ReleasedIs
<1> QED BY <1>3, <1>4, <1>5, LostDisp

\* on_open records snapshots of live channels that have a disposition.
LEMMA SnapsLive ==
  ASSUME DispInv, NEW m \in Opens
  PROVE  \A k \in DOMAIN SnapsAt(m) : k[1] \in Live /\ k[1] \in DOMAIN chain
<1>1. DispositionOf(m.pred) = "pending" => m.pred \in DOMAIN chain
  BY DEF DispositionOf
<1> QED BY <1>1, SnapsKept DEF SnapsAt, HasSnapshot, Put, Without

\* A refused open may leave a snapshot, and disposes of nothing.
LEMMA RefuseOpenDisp == ASSUME DispInv, NEW m \in Opens, RefuseOpen(m) PROVE DispInv'
  BY SnapsLive, SnapsKept, DispKeeps DEF RefuseOpen, railVars, aux

\* A retransmission is answered with the acknowledgement of the same open.
LEMMA RetransmitDisp == ASSUME DispInv, NEW m \in Opens, Retransmit(m) PROVE DispInv'
<1>1. m.cid \in Cids /\ AcksOk(acked, retained, Live, log.opened) /\ m.cid \in Live
  BY DEF Retransmit, DispInv, Opens
<1>2. acked = [c \in Cids |-> acked[c]] /\ acked[m.cid] = {m}
  BY <1>1 DEF AcksOk, Retransmit
<1>3. acked' = [acked EXCEPT ![m.cid] = acked[m.cid]]
  BY <1>2 DEF Retransmit
<1>4. acked' = acked
  BY <1>1, <1>2, <1>3
<1> QED BY <1>4, SnapsKept, DispKeeps DEF Retransmit, memory, railVars

\* A predecessor that an open imports is live and has a disposition.
LEMMA ImportsLive ==
  ASSUME DispInv, NEW m \in Opens, m.pred # 0, CanImport(m)
  PROVE  m.pred \in Live /\ m.pred \in DOMAIN chain /\ m.pred \in log.opened
<1>1. <<m.pred, m.ref>> \in DOMAIN SnapsAt(m)
  BY DEF CanImport
<1>2. m.pred \in Live /\ m.pred \in DOMAIN chain
  BY <1>1, SnapsLive
<1> QED BY <1>2 DEF DispInv

\* An accepted open is the first of its id; its predecessor, not refunded, becomes
\* committed to it.
LEMMA EstablishDisp ==
  ASSUME DispInv, NEW m \in Opens, NEW recorded \in BOOLEAN, Establish(m, recorded)
  PROVE  DispInv'
<1> DEFINE id == m.cid
           l == Accepted(m)
<1>0. id \in Cids /\ id \notin log.opened /\ CanImport(m) /\ Admitted(m)
  BY DEF Establish, DriverAccepts, Opens
<1>1. /\ LogOk(log) /\ Live \subseteq log.opened /\ DOMAIN retained = Live /\ DOMAIN chain \subseteq log.opened
      /\ LinksOk(chain, imports) /\ LinksOk(log.disp, imports)
      /\ AcksOk(acked, retained, Live, log.opened) /\ ImportsOk(imports, Live, chain, log.opened)
      /\ RefundsOk(DOMAIN released, imports, Live, chain, log.opened)
  BY DEF DispInv
<1>2. LogOk(l) /\ l.opened = log.opened \cup {id} /\ l.disp = log.disp
  BY <1>0, <1>1, LogGrows DEF LogOk
<1>3. /\ DOMAIN chan' = DOMAIN chan \cup {id}
      /\ retained' = Put(retained, id, [open |-> m, terminated |-> FALSE])
      /\ snaps' = SnapsAt(m) /\ released' = released
      /\ acked' = [acked EXCEPT ![id] = @ \cup {m}]
      /\ log' = IF m.pred # 0 /\ recorded THEN Recorded(l, m.pred, Committed(id)) ELSE l
      /\ chain' = IF m.pred = 0 THEN chain ELSE Put(chain, m.pred, Committed(id))
      /\ imports' = IF m.pred = 0 THEN imports ELSE imports \cup {<<m.pred, id>>}
  BY DEF Establish, Put, railVars, ChainAfter
<1> HIDE DEF l, id
<1>4. Live' = Live \cup {id} /\ id \notin Live /\ Live \subseteq Cids /\ DOMAIN retained' = Live'
  BY <1>0, <1>1, <1>3 DEF Live, Put, LogOk
<1>5. AcksOk(acked', retained', Live', l.opened)
  <2>1. /\ acked = [c \in Cids |-> acked[c]]
        /\ \A c \in Live : DOMAIN retained[c] = {"open", "terminated"} /\ acked[c] = {retained[c].open}
        /\ \A c \in Cids : (acked[c] # {} => c \in log.opened) /\ \A x, y \in acked[c] : x = y
    BY <1>1 DEF AcksOk
  <2>2. acked[id] = {}
    BY <1>0, <2>1
  <2>3. acked' = [c \in Cids |-> acked'[c]] /\ acked'[id] = {m} /\ \A c \in Cids : c # id => acked'[c] = acked[c]
    BY <1>0, <1>3, <2>1, <2>2
  <2>4. /\ retained'[id] = [open |-> m, terminated |-> FALSE]
        /\ \A c \in Live : retained'[c] = retained[c]
    BY <1>1, <1>3, <1>4 DEF Put
  <2>5. \A c \in Live' : DOMAIN retained'[c] = {"open", "terminated"} /\ acked'[c] = {retained'[c].open}
    <3>1. ASSUME NEW c \in Live PROVE DOMAIN retained'[c] = {"open", "terminated"} /\ acked'[c] = {retained'[c].open}
      BY <1>4, <2>1, <2>3, <2>4
    <3>2. DOMAIN retained'[id] = {"open", "terminated"} /\ acked'[id] = {retained'[id].open}
      BY <2>3, <2>4
    <3> QED BY <1>4, <3>1, <3>2
  <2>6. \A c \in Cids : (acked'[c] # {} => c \in l.opened) /\ \A x, y \in acked'[c] : x = y
    BY <1>2, <2>1, <2>3
  <2> QED BY <2>3, <2>5, <2>6 DEF AcksOk
<1>6. \A e \in imports : e[1] \in log.opened /\ e[2] \in log.opened
  BY <1>1 DEF ImportsOk
<1>7. CASE m.pred = 0
  <2>1. log' = l /\ chain' = chain /\ imports' = imports
    BY <1>3, <1>7
  <2>2. ImportsOk(imports, Live', chain, l.opened)
    <3>1. imports \subseteq l.opened \X l.opened
      BY <1>1, <1>2 DEF ImportsOk
    <3>2. \A e \in imports : e[1] # id /\ e[2] # id
      BY <1>0, <1>6
    <3> QED BY <1>1, <1>4, <3>1, <3>2 DEF ImportsOk
  <2>3. RefundsOk(DOMAIN released, imports, Live', chain, l.opened)
    <3>1. DOMAIN released \subseteq l.opened \X CloseRefs
      BY <1>1, <1>2 DEF RefundsOk
    <3>2. \A k \in DOMAIN released : k[1] # id
      BY <1>0, <1>1 DEF RefundsOk
    <3> QED BY <1>1, <1>4, <3>1, <3>2 DEF RefundsOk
  <2>4. \A k \in DOMAIN snaps' : k[1] \in Live' /\ k[1] \in DOMAIN chain'
    BY <1>3, <1>4, <2>1, SnapsLive
  <2>5. Live' \subseteq l.opened /\ DOMAIN chain \subseteq l.opened
    BY <1>1, <1>2, <1>4
  <2> QED BY <1>1, <1>2, <1>3, <1>4, <1>5, <2>1, <2>2, <2>3, <2>4, <2>5 DEF DispInv
<1>8. CASE m.pred # 0
  <2> DEFINE d == Committed(id)
             p == m.pred
  <2>0. p \in Live /\ p \in DOMAIN chain /\ p \in log.opened /\ p # id
    BY <1>0, <1>8, ImportsLive
  <2>1. /\ log' = IF recorded THEN Recorded(l, p, d) ELSE l
        /\ chain' = Put(chain, p, d) /\ imports' = imports \cup {<<p, id>>}
    BY <1>3, <1>8
  <2>2. d.kind = "committed" /\ d.succ = id /\ DOMAIN d = DispFields /\ d.kind \in DispKinds
    BY KindsOf
  <2>3. KindIn(chain, p) # "reconciled"
    BY <1>0, <1>8 DEF Admitted, DispositionOf, KindIn
  <2> HIDE DEF d, p
  <2>4. LinksOk(log.disp, imports')
    BY <1>1, <2>1 DEF LinksOk
  <2>5. LogOk(log') /\ log'.opened = l.opened /\ LinksOk(log'.disp, imports')
    <3>1. p \in l.opened /\ <<p, d.succ>> \in imports' /\ LinksOk(l.disp, imports')
      BY <1>2, <2>0, <2>1, <2>2, <2>4
    <3>2. LogOk(Recorded(l, p, d)) /\ Recorded(l, p, d).opened = l.opened
          /\ LinksOk(Recorded(l, p, d).disp, imports')
      BY <1>2, <2>2, <3>1, RecordedIs
    <3> QED BY <1>2, <2>1, <3>1, <3>2
  <2>6. /\ DOMAIN chain' = DOMAIN chain /\ KindIn(chain', p) = "committed" /\ chain'[p] = d
        /\ \A c : c # p => KindIn(chain', c) = KindIn(chain, c)
        /\ \A c \in DOMAIN chain : c # p => chain'[c] = chain[c]
    BY <2>0, <2>1, <2>2 DEF Put, KindIn
  <2>7. LinksOk(chain', imports')
    BY <1>1, <2>1, <2>2, <2>6 DEF LinksOk
  <2>8. ImportsOk(imports', Live', chain', l.opened)
    <3>1. imports' \subseteq l.opened \X l.opened
      BY <1>1, <1>2, <2>0, <2>1 DEF ImportsOk
    <3>2. ASSUME NEW e \in imports
          PROVE  (e[1] \in Live' <=> e[2] \in Live') /\ (e[1] \in Live' => KindIn(chain', e[1]) = "committed")
      <4>1. e[1] # id /\ e[2] # id
        BY <1>0, <1>6
      <4>2. (e[1] \in Live <=> e[2] \in Live) /\ (e[1] \in Live => KindIn(chain, e[1]) = "committed")
        BY <1>1 DEF ImportsOk
      <4> QED BY <1>4, <2>6, <4>1, <4>2
    <3>3. ASSUME NEW e, e = <<p, id>>
          PROVE  (e[1] \in Live' <=> e[2] \in Live') /\ (e[1] \in Live' => KindIn(chain', e[1]) = "committed")
      BY <1>4, <2>0, <2>6, <3>3
    <3> QED BY <2>1, <3>1, <3>2, <3>3 DEF ImportsOk
  <2>9. RefundsOk(DOMAIN released, imports', Live', chain', l.opened)
    <3>0. /\ DOMAIN released \subseteq log.opened \X CloseRefs
          /\ \A k \in DOMAIN released : k[1] \in log.opened
          /\ \A k \in DOMAIN released : k[1] \in Live => KindIn(chain, k[1]) = "reconciled"
          /\ \A k, n \in DOMAIN released : k[1] = n[1] => k = n
          /\ \A k \in DOMAIN released : \A e \in imports : k[1] # e[1]
      BY <1>1 DEF RefundsOk
    <3>1. DOMAIN released \subseteq l.opened \X CloseRefs
      BY <1>2, <3>0
    <3>2. \A k \in DOMAIN released : k[1] # p /\ k[1] # id
      BY <1>0, <2>0, <2>3, <3>0
    <3>3. \A k \in DOMAIN released : k[1] \in Live' => KindIn(chain', k[1]) = "reconciled"
      BY <1>4, <2>6, <3>0, <3>2
    <3>4. \A k \in DOMAIN released : \A e \in imports' : k[1] # e[1]
      BY <2>1, <3>0, <3>2
    <3> QED BY <3>0, <3>1, <3>3, <3>4 DEF RefundsOk
  <2>10. \A k \in DOMAIN snaps' : k[1] \in Live' /\ k[1] \in DOMAIN chain'
    BY <1>3, <1>4, <2>6, SnapsLive
  <2>11. Live' \subseteq l.opened /\ DOMAIN chain' \subseteq l.opened
    BY <1>1, <1>2, <1>4, <2>6
  <2> QED BY <1>3, <1>4, <1>5, <2>5, <2>7, <2>8, <2>9, <2>10, <2>11 DEF DispInv
<1> QED BY <1>7, <1>8

\* A close: the channel may get a disposition, if no successor has its position.
LEMMA CloseDisp ==
  ASSUME DispInv, NEW c \in Live, retained' = Terminated(c), DOMAIN chan' = DOMAIN chan,
         UNCHANGED <<snaps, acked, imports>>,
         LogOk(log'), log'.opened = log.opened, LinksOk(log'.disp, imports),
         NEW d, \/ chain' = chain
                \/ /\ chain' = Put(chain, c, d) /\ DOMAIN d = DispFields /\ d.kind \in DispKinds
                   /\ d.kind # "committed" /\ \A e \in imports : e[1] # c,
         RefundsOk(DOMAIN released', imports, Live, chain', log.opened)
  PROVE  DispInv'
<1>0. /\ LogOk(log) /\ Live \subseteq log.opened /\ DOMAIN retained = Live /\ DOMAIN chain \subseteq log.opened
      /\ LinksOk(chain, imports) /\ c \in log.opened
      /\ AcksOk(acked, retained, Live, log.opened) /\ ImportsOk(imports, Live, chain, log.opened)
  BY DEF DispInv
<1>1. DOMAIN retained' = DOMAIN retained /\ Live' = Live
  BY DEF Terminated, Live
<1>2. AcksOk(acked, retained', Live, log.opened)
  <2>1. \A x \in Live : DOMAIN retained[x] = {"open", "terminated"}
    BY <1>0 DEF AcksOk
  <2>2. \A x \in Live : DOMAIN retained'[x] = {"open", "terminated"} /\ retained'[x].open = retained[x].open
    BY <1>0, <2>1 DEF Terminated
  <2> QED BY <1>0, <2>2 DEF AcksOk
<1>3. DOMAIN chain' \subseteq log.opened /\ DOMAIN chain \subseteq DOMAIN chain'
  BY <1>0 DEF Put
<1>4. LinksOk(chain', imports)
  BY <1>0 DEF LinksOk, Put
<1>5. ImportsOk(imports, Live, chain', log.opened)
  BY <1>0 DEF ImportsOk, Put, KindIn
<1>6. \A k \in DOMAIN snaps' : k[1] \in Live /\ k[1] \in DOMAIN chain'
  BY <1>3, SnapsKept
<1> QED BY <1>0, <1>1, <1>2, <1>3, <1>4, <1>5, <1>6 DEF DispInv

\* A chain intent sets a first disposition, pending.
LEMMA ChainCloseDisp ==
  ASSUME DispInv, NEW c \in Live, NEW ref, ChainClose(c, ref)
  PROVE  DispInv'
<1>0. /\ LogOk(log) /\ LinksOk(log.disp, imports) /\ ImportsOk(imports, Live, chain, log.opened)
      /\ RefundsOk(DOMAIN released, imports, Live, chain, log.opened)
  BY DEF DispInv
<1>1. /\ DOMAIN chan' = DOMAIN chan /\ retained' = Terminated(c)
      /\ UNCHANGED <<snaps, acked, imports, log, released>>
      /\ chain' = chain \/ (chain' = Put(chain, c, Pending) /\ Prior(c) = "none")
  BY DEF ChainClose, railVars, aux
<1>2. Prior(c) = "none" => KindIn(chain, c) = "none"
  BY DEF Prior, KindIn
<1>3. Prior(c) = "none" => \A e \in imports : e[1] # c
  BY <1>0, <1>2 DEF ImportsOk
<1>4. RefundsOk(DOMAIN released', imports, Live, chain', log.opened)
  <2>1. Prior(c) = "none" => \A k \in DOMAIN released : k[1] # c
    BY <1>0, <1>2 DEF RefundsOk
  <2>2. \A x : x # c => KindIn(chain', x) = KindIn(chain, x)
    BY <1>1 DEF KindIn, Put
  <2>3. \A k \in DOMAIN released : k[1] \in Live => KindIn(chain', k[1]) = "reconciled"
    BY <1>0, <1>1, <2>1, <2>2 DEF RefundsOk
  <2> QED BY <1>0, <1>1, <2>3 DEF RefundsOk
<1> QED BY <1>0, <1>1, <1>3, <1>4, KindsOf, CloseDisp

\* A repeated close keeps the disposition and clears the draw it has made.
LEMMA CloseAgainDisp ==
  ASSUME DispInv, NEW c \in Live, NEW ref, NEW ok, CloseAgain(c, ref, ok)
  PROVE  DispInv'
<1>0. /\ LogOk(log) /\ LinksOk(log.disp, imports) /\ ImportsOk(imports, Live, chain, log.opened)
      /\ RefundsOk(DOMAIN released, imports, Live, chain, log.opened) /\ LinksOk(chain, imports)
  BY DEF DispInv
<1>1. /\ DOMAIN chan' = DOMAIN chan /\ retained' = Terminated(c)
      /\ UNCHANGED <<snaps, acked, imports, log, released>>
      /\ \/ chain' = chain
         \/ chain' = [chain EXCEPT ![c].draw = 0] /\ DispositionOf(c) = "reconciled"
  BY DEF CloseAgain, aux
<1>2. CASE chain' = chain
  BY <1>0, <1>1, <1>2, CloseDisp
<1>3. CASE chain' = [chain EXCEPT ![c].draw = 0] /\ DispositionOf(c) = "reconciled"
  <2> DEFINE d == [chain[c] EXCEPT !.draw = 0]
  <2>1. c \in DOMAIN chain /\ chain[c].kind = "reconciled" /\ KindIn(chain, c) = "reconciled"
    BY <1>3 DEF DispositionOf, KindIn
  <2>2. DOMAIN chain[c] = DispFields
    BY <1>0, <2>1, LinkFields
  <2>3. d.kind = "reconciled" /\ DOMAIN d = DispFields /\ d.kind \in DispKinds
    BY <2>1, <2>2 DEF DispFields, DispKinds
  <2>4. chain' = Put(chain, c, d)
    BY <1>3, <2>1 DEF Put
  <2> HIDE DEF d
  <2>5. \A e \in imports : e[1] # c
    BY <1>0, <2>1 DEF ImportsOk
  <2>6. \A x : KindIn(chain', x) = KindIn(chain, x)
    BY <2>1, <2>3, <2>4 DEF KindIn, Put
  <2>7. RefundsOk(DOMAIN released', imports, Live, chain', log.opened)
    BY <1>0, <1>1, <2>6 DEF RefundsOk
  <2> QED BY <1>0, <1>1, <2>3, <2>4, <2>5, <2>7, CloseDisp
<1> QED BY <1>1, <1>2, <1>3

\* A first plain close, or one that revokes a chain intent, disposes of a position no
\* successor has.
LEMMA FirstPlainCloseDisp ==
  ASSUME DispInv, NEW c \in Live, NEW ref \in CloseRefs, NEW ok, NEW also,
         FirstPlainClose(c, ref, ok, also)
  PROVE  DispInv'
<1> DEFINE p == PendingDraw(c)
           q == Reconciled(p)
           d == Reconciled(IF also THEN 0 ELSE p)
<1>1. /\ DOMAIN chan' = DOMAIN chan /\ retained' = Terminated(c) /\ FirstClose(c)
      /\ UNCHANGED <<snaps, acked, imports>>
      /\ log' = Recorded(log, c, q) /\ chain' = Put(chain, c, d)
      /\ released' = Released(c, ref) \/ released' = released
  BY DEF FirstPlainClose
<1>2. /\ d.kind = "reconciled" /\ q.kind = "reconciled"
      /\ DOMAIN d = DispFields /\ DOMAIN q = DispFields
  BY KindsOf
<1> HIDE DEF d, q
<1>3. LogOk(log') /\ log'.opened = log.opened /\ LinksOk(log'.disp, imports)
  <2>1. LogOk(log) /\ LinksOk(log.disp, imports) /\ c \in log.opened
    BY DEF DispInv
  <2>2. q.kind # "committed" /\ q.kind \in DispKinds
    BY <1>2 DEF DispKinds
  <2>3. LogOk(Recorded(log, c, q)) /\ Recorded(log, c, q).opened = log.opened
        /\ LinksOk(Recorded(log, c, q).disp, imports)
    BY <1>2, <2>1, <2>2, RecordedIs
  <2> QED BY <1>1, <2>3
<1>4. KindIn(chain', c) = "reconciled" /\ \A x \in Live : x # c => KindIn(chain', x) = KindIn(chain, x)
  BY <1>1, <1>2 DEF KindIn, Put
<1>5. RefundsOk(DOMAIN released', imports, Live, chain', log.opened) /\ \A e \in imports : e[1] # c
  BY <1>1, <1>4, ReleasedIs
<1>6. d.kind # "committed" /\ d.kind \in DispKinds
  BY <1>2 DEF DispKinds
<1> QED BY <1>1, <1>2, <1>3, <1>5, <1>6, CloseDisp

\* Every step keeps the dispositions sound.
LEMMA NextDisp ==
  ASSUME "reconcile" \notin MayFail PROVE DispInv /\ [ChainNext]_chainVars => DispInv'
<1> SUFFICES ASSUME DispInv, [ChainNext]_chainVars PROVE DispInv'
  OBVIOUS
<1>1. CASE UNCHANGED chainVars
  BY <1>1, DispKeeps, SnapsKept DEF chainVars, memory, railVars, aux
<1>2. CASE ChainRestart
  BY <1>2, RestartDisp
<1>3. CASE \E c \in Live, amt \in 1..MaxAmt : AcceptSlice(c, amt)
  BY <1>3, AcceptSliceDisp
<1>4. CASE \E c \in Live : \E total \in 0..chan[c].cum : Checkpoint(c, total)
  BY <1>4, CheckpointDisp
<1>5. CASE \E c \in Cids, amt \in DepositAmts : Deposit(c, amt)
  BY <1>5, DepositDisp
<1>6. CASE \E i \in DOMAIN deposits : Funding(i) \/ FundingStops(i)
  BY <1>6, FundingDisp, FundingStopsDisp
<1>7. CASE \E m \in Opens :
             \/ \E recorded \in BOOLEAN : Establish(m, recorded)
             \/ RefuseOpen(m) \/ OpenStops(m) \/ Retransmit(m)
  BY <1>7, EstablishDisp, RefuseOpenDisp, OpenStopsDisp, RetransmitDisp
<1>8. CASE \E c \in Live : DrawRefused(c) \/ \E final \in BOOLEAN : InterimDraw(c, final)
  BY <1>8, DrawDisp
<1>9. CASE \E c \in Live, ref \in CloseRefs :
             \/ ChainClose(c, ref)
             \/ \E ok \in BOOLEAN : CloseNotRecorded(c, ref, ok) \/ CloseAgain(c, ref, ok)
             \/ \E ok, also \in BOOLEAN :
                  FirstPlainClose(c, ref, ok, also) \/ CloseStops(c, ref, ok, also)
  BY <1>9, ChainCloseDisp, CloseNotRecordedDisp, CloseAgainDisp, FirstPlainCloseDisp, CloseStopsDisp
<1> QED
  BY <1>1, <1>2, <1>3, <1>4, <1>5, <1>6, <1>7, <1>8, <1>9 DEF ChainNext

\* chain_state, on_open and on_close: in every life a position that was imported or
\* refunded
\* is known to be so, as long as the record of a refund that was released does not fail.
THEOREM DispositionsSound ==
  ASSUME "reconcile" \notin MayFail PROVE ChainSpec => []DispInv
<1>1. DispInv /\ [ChainNext]_chainVars => DispInv'
  BY NextDisp
<1> QED BY <1>1, InitDisp, PTL DEF ChainSpec

\* open_channel and chain_state: an id is acknowledged for one open, and a closed position
\* is refunded once or imported, never both; importing twice is left to OneImporter.
THEOREM OneDispositionHolds ==
  ASSUME "reconcile" \notin MayFail PROVE ChainSpec => [](OneImporter => OneDisposition)
<1>1. DispInv => (OneImporter => OneDisposition)
  <2> SUFFICES ASSUME DispInv, OneImporter, NEW c \in Cids
               PROVE  /\ Cardinality(acked[c]) <= 1
                      /\ Cardinality({s \in Cids : <<c, s>> \in imports})
                           + Cardinality({k \in DOMAIN released : k[1] = c}) <= 1
    BY DEF OneDisposition
  <2> DEFINE I == {s \in Cids : <<c, s>> \in imports}
             R == {k \in DOMAIN released : k[1] = c}
  <2>0. /\ AcksOk(acked, retained, Live, log.opened)
        /\ RefundsOk(DOMAIN released, imports, Live, chain, log.opened)
    BY DEF DispInv
  <2>1. ASSUME NEW S, \A x, y \in S : x = y PROVE Cardinality(S) \in Nat /\ Cardinality(S) <= 1
    <3>1. CASE S = {}
      BY <3>1, FS_EmptySet
    <3>2. CASE S # {}
      <4>1. PICK x : x \in S
        BY <3>2
      <4>2. S = {x}
        BY <2>1, <4>1
      <4> QED BY <4>2, FS_Singleton
    <3> QED BY <3>1, <3>2
  <2>2. \A x, y \in acked[c] : x = y
    BY <2>0 DEF AcksOk
  <2>3. \A x, y \in R : x = y
    BY <2>0 DEF RefundsOk
  <2>4. \A x, y \in I : x = y
    BY DEF OneImporter
  <2>5. I = {} \/ R = {}
    <3> SUFFICES ASSUME NEW s \in I, NEW k \in R PROVE FALSE
      OBVIOUS
    <3>1. <<c, s>> \in imports /\ k \in DOMAIN released /\ k[1] = c
      OBVIOUS
    <3> QED BY <2>0, <3>1 DEF RefundsOk
  <2> HIDE DEF I, R
  <2>6. Cardinality(I) \in Nat /\ Cardinality(I) <= 1 /\ Cardinality(R) \in Nat /\ Cardinality(R) <= 1
    BY <2>1, <2>3, <2>4
  <2>7. Cardinality(I) = 0 \/ Cardinality(R) = 0
    BY <2>5, FS_EmptySet
  <2>8. Cardinality(acked[c]) <= 1
    BY <2>1, <2>2
  <2> QED BY <2>6, <2>7, <2>8 DEF I, R
<1> QED BY <1>1, DispositionsSound, PTL

-----------------------------------------------------------------------------
(* Chains.  E is a set of imports, pairs of a predecessor and its importer. *)

\* A channel carries itself.
LEMMA AncSelf == ASSUME NEW E, NEW c \in Cids PROVE c \in Anc(E, c) /\ Anc(E, c) \subseteq Cids
  BY DEF Anc

\* A set that has c and is closed under imports has all it carries.
LEMMA AncLeast ==
  ASSUME NEW E, NEW c, NEW S, S \subseteq Cids, c \in S, \A e \in E : e[2] \in S => e[1] \in S
  PROVE  Anc(E, c) \subseteq S
  BY DEF Anc

\* What a carried channel imported is carried.
LEMMA AncClosed ==
  ASSUME NEW E, NEW c, NEW e \in E, e[1] \in Cids, e[2] \in Anc(E, c)
  PROVE  e[1] \in Anc(E, c)
  BY DEF Anc

\* A chain is finite.
LEMMA AncFinite == ASSUME NEW E, NEW c PROVE IsFiniteSet(Anc(E, c)) /\ IsFiniteSet(Anc(E, c) \ {c})
<1>1. Anc(E, c) \subseteq Cids /\ Anc(E, c) \ {c} \subseteq Cids
  BY DEF Anc
<1> QED BY <1>1, CidAssumption, FS_Subset

\* The others are predecessors.
LEMMA AncOthers ==
  ASSUME NEW E, NEW c \in Cids, \A e \in E : e[1] \in Cids, NEW p \in Anc(E, c), p # c
  PROVE  \E e \in E : e[1] = p
<1> DEFINE S == {c} \cup {e[1] : e \in E}
<1>1. S \subseteq Cids /\ c \in S /\ \A e \in E : e[2] \in S => e[1] \in S
  OBVIOUS
<1>2. p \in S
  <2> HIDE DEF S
  <2> QED BY <1>1, AncLeast
<1> QED BY <1>2

\* A first import by n, which nothing has imported: n carries what p carries, and
\* nobody else carries more.
LEMMA AncGrows ==
  ASSUME NEW E, E \subseteq Cids \X Cids, NEW p \in Cids, NEW n \in Cids, n # p,
         \A e \in E : e[1] # n /\ e[2] # n,
         NEW D, D = E \cup {<<p, n>>}
  PROVE  /\ Anc(D, n) = {n} \cup Anc(E, p)
         /\ n \notin Anc(E, p)
         /\ \A c \in Cids : c # n => Anc(D, c) = Anc(E, c) /\ n \notin Anc(E, c)
<1>0. \A e \in E : e[1] \in Cids /\ e[2] \in Cids
  OBVIOUS
<1>1. ASSUME NEW c \in Cids, c # n PROVE Anc(D, c) = Anc(E, c) /\ n \notin Anc(E, c)
  <2>1. Anc(E, c) \subseteq Cids \ {n}
    <3> DEFINE S == Cids \ {n}
    <3>1. S \subseteq Cids /\ c \in S /\ \A e \in E : e[2] \in S => e[1] \in S
      BY <1>0, <1>1
    <3> HIDE DEF S
    <3>2. Anc(E, c) \subseteq S
      BY <3>1, AncLeast
    <3> QED BY <3>2 DEF S
  <2>2. Anc(D, c) \subseteq Anc(E, c)
    <3> DEFINE S == Anc(E, c)
    <3>1. S \subseteq Cids /\ c \in S
      BY <1>1, AncSelf
    <3>2. \A e \in E : e[2] \in S => e[1] \in S
      BY <1>0, AncClosed
    <3>3. \A e \in D : e[2] \in S => e[1] \in S
      BY <2>1, <3>2
    <3> HIDE DEF S
    <3>4. Anc(D, c) \subseteq S
      BY <3>1, <3>3, AncLeast
    <3> QED BY <3>4 DEF S
  <2>3. Anc(E, c) \subseteq Anc(D, c)
    <3> DEFINE S == Anc(D, c)
    <3>1. S \subseteq Cids /\ c \in S
      BY <1>1, AncSelf
    <3>2. \A e \in E : e[2] \in S => e[1] \in S
      BY <1>0, AncClosed
    <3> HIDE DEF S
    <3>3. Anc(E, c) \subseteq S
      BY <3>1, <3>2, AncLeast
    <3> QED BY <3>3 DEF S
  <2> QED BY <2>1, <2>2, <2>3
<1>2. Anc(D, n) \subseteq {n} \cup Anc(E, p)
  <2> DEFINE S == {n} \cup Anc(E, p)
  <2>1. S \subseteq Cids /\ n \in S /\ p \in S
    BY AncSelf
  <2>2. \A e \in E : e[2] \in S => e[1] \in S
    BY <1>0, AncClosed
  <2>3. \A e \in D : e[2] \in S => e[1] \in S
    BY <2>1, <2>2
  <2> HIDE DEF S
  <2>4. Anc(D, n) \subseteq S
    BY <2>1, <2>3, AncLeast
  <2> QED BY <2>4 DEF S
<1>3. {n} \cup Anc(E, p) \subseteq Anc(D, n)
  <2> DEFINE S == Anc(D, n)
  <2>1. S \subseteq Cids /\ n \in S
    BY AncSelf
  <2>2. p \in S
    <3>1. <<p, n>> \in D /\ <<p, n>>[1] = p /\ <<p, n>>[2] = n
      OBVIOUS
    <3> QED BY <2>1, <3>1, AncClosed
  <2>3. \A e \in E : e[2] \in S => e[1] \in S
    BY <1>0, AncClosed
  <2> HIDE DEF S
  <2>4. Anc(E, p) \subseteq S
    BY <2>1, <2>2, <2>3, AncLeast
  <2> QED BY <2>1, <2>4 DEF S
<1> QED BY <1>1, <1>2, <1>3

\* An id that nothing imported by and that imported nothing carries itself only.
LEMMA AncFresh ==
  ASSUME NEW E, NEW n \in Cids, \A e \in E : e[2] # n
  PROVE  Anc(E, n) = {n}
<1>1. {n} \subseteq Cids /\ n \in {n} /\ \A e \in E : e[2] \in {n} => e[1] \in {n}
  OBVIOUS
<1>2. Anc(E, n) \subseteq {n}
  BY <1>1, AncLeast
<1> QED BY <1>2, AncSelf

\* What a live channel carries is live, and committed; what is dead carries the dead.
LEMMA AncOfLive ==
  ASSUME DispInv
  PROVE  /\ imports \subseteq Cids \X Cids /\ Live \subseteq Cids
         /\ \A c \in Live : \A a \in Anc(imports, c) :
              a \in Live /\ (a # c => KindIn(chain, a) = "committed")
         /\ \A c \in Cids \ Live : \A a \in Anc(imports, c) : a \notin Live
<1>1. /\ ImportsOk(imports, Live, chain, log.opened) /\ log.opened \subseteq Cids /\ Live \subseteq log.opened
  BY DEF DispInv, LogOk
<1>2. /\ imports \subseteq Cids \X Cids /\ Live \subseteq Cids
      /\ \A e \in imports : e[1] \in Cids /\ e[2] \in Cids
      /\ \A e \in imports : (e[1] \in Live <=> e[2] \in Live) /\ (e[1] \in Live => KindIn(chain, e[1]) = "committed")
  BY <1>1 DEF ImportsOk
<1>3. ASSUME NEW c \in Live, NEW a \in Anc(imports, c)
      PROVE  a \in Live /\ (a # c => KindIn(chain, a) = "committed")
  <2>1. Anc(imports, c) \subseteq Live
    BY <1>2, AncLeast
  <2>2. a # c => \E e \in imports : e[1] = a
    BY <1>2, AncOthers
  <2> QED BY <1>2, <2>1, <2>2
<1>4. ASSUME NEW c \in Cids \ Live, NEW a \in Anc(imports, c) PROVE a \notin Live
  <2> DEFINE S == Cids \ Live
  <2>1. S \subseteq Cids /\ c \in S /\ \A e \in imports : e[2] \in S => e[1] \in S
    BY <1>2
  <2> HIDE DEF S
  <2>2. Anc(imports, c) \subseteq S
    BY <2>1, AncLeast
  <2> QED BY <2>2 DEF S
<1> QED BY <1>2, <1>3, <1>4

-----------------------------------------------------------------------------
(* The arithmetic of a channel.                                            *)

\* The roles of the vector.
LEMMA ChainRoles ==
  /\ Len(Bp) \in Nat \ {0} /\ RoleIds = 1..Len(Bp) /\ IsFiniteSet(RoleIds) /\ Bp \in [RoleIds -> Nat]
  /\ BpDenom \in Nat \ {0}
<1>1. Len(Bp) \in Nat \ {0} /\ RoleIds = 1..Len(Bp) /\ Bp \in [RoleIds -> Nat]
  BY VectorAssumption DEF RoleIds
<1> QED BY <1>1, RolesFinite, BpDenomAssumption

\* The total of a vector is the sum over the roles.
LEMMA ChainTotal ==
  ASSUME NEW v \in [RoleIds -> Nat]
  PROVE  Total(v) = SumOver(v, RoleIds) /\ Total(v) \in Nat /\ NatOn(v, RoleIds) /\ IntOn(v, RoleIds)
<1> DEFINE L == Len(Bp)
<1>1. L \in Nat /\ RoleIds = 1..L
  BY ChainRoles
<1> HIDE DEF L
<1> QED BY <1>1, TotalIs

\* The accruals at a metered total are at most that total, in units of the denominator.
LEMMA ChainAccruals ==
  ASSUME NEW total \in Nat
  PROVE  /\ Accruals(total) \in [RoleIds -> Nat] /\ Total(Accruals(total)) \in Nat
         /\ Total(Accruals(total)) <= BpDenom * total
<1>1. Accruals(total) \in [RoleIds -> Nat] /\ Scales(Accruals(total), total, Bp, RoleIds)
  BY ChainRoles DEF Accruals, Scales
<1>2. SumOver(Accruals(total), RoleIds) = total * SumOver(Bp, RoleIds)
  <2>1. IntOn(Bp, RoleIds) /\ IsFiniteSet(RoleIds) /\ total \in Int
    BY ChainRoles, ChainTotal
  <2> QED BY <1>1, <2>1, SumScale
<1> DEFINE w == Total(Bp)
<1>3. w \in Nat /\ w <= BpDenom /\ Total(Accruals(total)) = total * w
  BY <1>1, <1>2, ChainRoles, ChainTotal, VectorAssumption
<1> HIDE DEF w
<1>4. total * w \in Nat /\ total * w <= BpDenom * total
  BY <1>3, ChainRoles
<1> QED BY <1>1, <1>3, <1>4

\* Accruals grow with the total.
LEMMA AccrualsGrow ==
  ASSUME NEW s \in Nat, NEW t \in Nat, s <= t
  PROVE  /\ \A r \in RoleIds : Accruals(s)[r] <= Accruals(t)[r]
         /\ Total(Accruals(s)) <= Total(Accruals(t))
<1>1. \A r \in RoleIds : Accruals(s)[r] <= Accruals(t)[r]
  <2> SUFFICES ASSUME NEW r \in RoleIds PROVE Accruals(s)[r] <= Accruals(t)[r]
    OBVIOUS
  <2> DEFINE b == Bp[r]
  <2>1. b \in Nat /\ Accruals(s)[r] = s * b /\ Accruals(t)[r] = t * b
    BY ChainRoles DEF Accruals
  <2> HIDE DEF b
  <2>2. s * b <= t * b
    BY <2>1
  <2> QED BY <2>1, <2>2
<1> DEFINE a == Accruals(s)
           b == Accruals(t)
<1>2. a \in [RoleIds -> Nat] /\ b \in [RoleIds -> Nat]
  BY ChainAccruals
<1>3. LeqOn(a, b, RoleIds)
  BY <1>1 DEF LeqOn
<1> HIDE DEF a, b
<1>4. IntOn(a, RoleIds) /\ IntOn(b, RoleIds) /\ Total(a) = SumOver(a, RoleIds) /\ Total(b) = SumOver(b, RoleIds)
  BY <1>2, ChainTotal
<1>5. Total(a) <= Total(b)
  BY <1>3, <1>4, ChainRoles, SumMonotone
<1> QED BY <1>1, <1>5 DEF a, b

\* What is within the accruals at a total is within those at a larger one.
LEMMA BelowGrows ==
  ASSUME NEW v, NEW s \in Nat, NEW t \in Nat, s <= t, Below(v, s)
  PROVE  Below(v, t) /\ Total(v) \in Nat
<1>1. v \in [RoleIds -> Nat] /\ \A r \in RoleIds : v[r] <= Accruals(s)[r]
  BY DEF Below
<1>2. Accruals(s) \in [RoleIds -> Nat] /\ Accruals(t) \in [RoleIds -> Nat]
  BY ChainAccruals
<1>3. \A r \in RoleIds : v[r] <= Accruals(t)[r]
  BY <1>1, <1>2, AccrualsGrow
<1> QED BY <1>1, <1>3, ChainTotal DEF Below

\* What is outstanding at a total, and the units of it.
LEMMA OutstandingFrom ==
  ASSUME NEW v, NEW total \in Nat, Below(v, total),
         NEW n, n = OutstandingMeedPerRole(Accruals(total), v),
         NEW d, d = DivideRound(n, Unity)
  PROVE  /\ n \in [RoleIds -> Nat] /\ \A r \in RoleIds : n[r] = Accruals(total)[r] - v[r]
         /\ Total(n) \in Nat /\ Total(v) \in Nat /\ Total(Accruals(total)) = Total(v) + Total(n)
         /\ d.p = Total(n) \div BpDenom /\ d.p \in Nat /\ BpDenom * d.p <= Total(n)
         /\ d.er \in [RoleIds -> Nat] /\ Total(d.er) = BpDenom * d.p
         /\ \A r \in RoleIds : d.er[r] <= n[r]
<1> DEFINE A == Accruals(total)
           L == Len(Bp)
<1>1. A \in [RoleIds -> Nat] /\ v \in [RoleIds -> Nat] /\ \A r \in RoleIds : v[r] <= A[r]
  BY ChainAccruals DEF Below
<1>2. n \in [RoleIds -> Nat] /\ \A r \in RoleIds : n[r] = A[r] - v[r]
  <2>1. DOMAIN A = RoleIds
    BY <1>1
  <2> HIDE DEF A
  <2>2. n = [r \in RoleIds |-> A[r] - v[r]]
    BY <2>1 DEF OutstandingMeedPerRole, A
  <2> QED BY <1>1, <2>2
<1>3. SumsOn(A, v, n, RoleIds)
  <2> HIDE DEF A
  <2> QED BY <1>1, <1>2 DEF SumsOn
<1>4. Total(A) = Total(v) + Total(n) /\ Total(n) \in Nat /\ Total(v) \in Nat
  BY <1>1, <1>2, <1>3, ChainRoles, ChainTotal, SumAdd
<1>5. L \in Nat \ {0} /\ RoleIds = 1..L
  BY ChainRoles
<1> HIDE DEF L
<1>6. /\ d.p = Total(n) \div BpDenom /\ d.p \in Nat
      /\ d.er \in [RoleIds -> Nat] /\ Total(d.er) = BpDenom * d.p
      /\ \A r \in RoleIds : d.er[r] <= n[r]
  BY <1>2, <1>5, UnityDivides
<1>7. BpDenom * d.p <= Total(n)
  BY <1>4, <1>6, ChainRoles, DivFact
<1> QED BY <1>2, <1>4, <1>6, <1>7

\* Whole units taken off a total come off its quotient.
LEMMA UnitsOff ==
  ASSUME NEW b \in Nat \ {0}, NEW N \in Nat, NEW u \in Nat, NEW n \in Nat, N = b * u + n
  PROVE  b * (n \div b) + b * u = b * (N \div b)
<1> DEFINE p == n \div b
           q == N \div b
<1>1. p \in Nat /\ q \in Nat /\ b * p <= n /\ n < b * p + b /\ b * q <= N /\ N < b * q + b
  BY DivFact
<1> HIDE DEF p, q
<1>2. b * (p + u) = b * p + b * u /\ b * (q + 1) = b * q + b /\ b * (p + u + 1) = b * p + b * u + b
  BY <1>1
<1>3. b * (p + u) < b * (q + 1) /\ b * q < b * (p + u + 1)
  BY <1>1, <1>2
<1>4. p + u < q + 1 /\ q < p + u + 1
  BY <1>1, <1>3, ScaleLess
<1>5. q = p + u
  BY <1>1, <1>4
<1> QED BY <1>2, <1>5 DEF p, q

\* A new round on a channel without one in flight.
LEMMA NewRoundOk ==
  ASSUME NEW c, Own(chan[c], fundedP[c], "none"), Flight(chan[c]) = {}
  PROVE  /\ FlightOk(chan[c], NewRound(c), fundedP[c])
         /\ DOMAIN NewRound(c) = RoundFields
         /\ NewRound(c).confirmed = FALSE /\ NewRound(c).drawn = FALSE
<1> DEFINE x == chan[c]
           f == fundedP[c]
           y == NewRound(c)
           b == Basis(x)
           i == x.imp.settled
           s == x.settled
           n == OutstandingMeedPerRole(Accruals(b), i)
           m == OutstandingMeedPerRole(Accruals(b), s)
           d == DivideRound(n, Unity)
           e == DivideRound(m, Unity)
<1>1. /\ b \in Nat /\ x.imp.cum \in Nat /\ x.imp.cum <= b /\ Below(i, x.imp.cum) /\ Below(s, b) /\ f \in Nat
      /\ Total(s) = Total(i) + BpDenom * f
  BY DEF Own, MeterOk, PosOk, RoundsOk
<1>2. y = [target |-> d.p, er |-> e.er, drawn |-> FALSE, confirmed |-> FALSE]
  BY DEF NewRound, CumulativeTargetP, Round, BasisCum, Basis
<1>3. Below(i, b)
  BY <1>1, BelowGrows
<1> HIDE DEF b, i, s, y, f
<1>4. /\ Total(n) \in Nat /\ Total(i) \in Nat /\ Total(Accruals(b)) = Total(i) + Total(n)
      /\ d.p = Total(n) \div BpDenom /\ d.p \in Nat
  BY <1>1, <1>3, OutstandingFrom
<1>5. /\ m \in [RoleIds -> Nat] /\ \A r \in RoleIds : m[r] = Accruals(b)[r] - s[r]
      /\ Total(m) \in Nat /\ Total(s) \in Nat /\ Total(Accruals(b)) = Total(s) + Total(m)
      /\ e.p = Total(m) \div BpDenom /\ e.p \in Nat
      /\ e.er \in [RoleIds -> Nat] /\ Total(e.er) = BpDenom * e.p
      /\ \A r \in RoleIds : e.er[r] <= m[r]
  BY <1>1, OutstandingFrom
<1> HIDE DEF n, m, d, e
<1>6. Total(n) = BpDenom * f + Total(m) /\ BpDenom \in Nat \ {0}
  <2> DEFINE k == BpDenom * f
             A == Total(Accruals(b))
  <2>1. k \in Nat /\ BpDenom \in Nat \ {0}
    BY <1>1, ChainRoles
  <2>2. Total(s) = Total(i) + k /\ A = Total(i) + Total(n) /\ A = Total(s) + Total(m)
    BY <1>1, <1>4, <1>5
  <2> HIDE DEF k, A
  <2>3. Total(n) = k + Total(m)
    BY <1>4, <1>5, <2>1, <2>2
  <2> QED BY <2>1, <2>3 DEF k
<1>7. BpDenom * e.p + BpDenom * f = BpDenom * d.p
  <2> DEFINE N == Total(n)
             M == Total(m)
             D == BpDenom
  <2>1. N \in Nat /\ M \in Nat /\ D \in Nat \ {0} /\ f \in Nat /\ N = D * f + M
    BY <1>1, <1>4, <1>5, <1>6
  <2>2. e.p = M \div D /\ d.p = N \div D
    BY <1>4, <1>5
  <2> HIDE DEF N, M, D
  <2>3. D * (M \div D) + D * f = D * (N \div D)
    BY <2>1, UnitsOff
  <2>4. D * e.p + D * f = D * d.p
    BY <2>2, <2>3
  <2> QED BY <2>4 DEF D
<1>8. Total(s) + Total(e.er) = Total(i) + BpDenom * d.p
  <2> DEFINE k == BpDenom * f
             g == BpDenom * e.p
             h == BpDenom * d.p
  <2>1. k \in Nat /\ g \in Nat /\ h \in Nat
    BY <1>1, <1>4, <1>5, <1>6
  <2> HIDE DEF k, g, h
  <2>2. Total(s) = Total(i) + k /\ Total(e.er) = g /\ g + k = h
    BY <1>1, <1>5, <1>7 DEF k, g, h
  <2>3. Total(s) + Total(e.er) = Total(i) + h
    BY <1>4, <2>1, <2>2
  <2> QED BY <2>3 DEF h
<1>9. \A r \in RoleIds : s[r] + e.er[r] <= Accruals(b)[r]
  <2>1. Accruals(b) \in [RoleIds -> Nat] /\ s \in [RoleIds -> Nat]
    BY <1>1, ChainAccruals DEF Below
  <2> QED BY <1>5, <2>1
<1>10. y.target = d.p /\ y.er = e.er /\ y.drawn = FALSE /\ y.confirmed = FALSE /\ DOMAIN y = RoundFields
  BY <1>2 DEF RoundFields
<1>11. FlightOk(x, y, f)
  BY <1>1, <1>4, <1>5, <1>8, <1>9, <1>10 DEF FlightOk, b, i, s
<1> QED BY <1>10, <1>11 DEF y, f

-----------------------------------------------------------------------------
(* The channels of a chain, one by one.                                    *)

\* y is x with other metering: its settled vector and its rounds stand.
Metered(x, y) ==
  /\ DOMAIN y = ChanFields /\ y.status = x.status
  /\ y.imp = x.imp /\ y.settled = x.settled /\ y.rounds = x.rounds
  /\ y.cum \in Nat /\ y.funding \in Nat /\ y.bal \in Int
  /\ y.cum - y.funding <= y.bal /\ y.bal <= 0
  /\ y.ckpts \in Seq(Nat) /\ y.op \in 0..Len(y.ckpts)
  /\ Basis(y) \in Nat /\ Basis(x) <= Basis(y) /\ Basis(y) <= y.cum

\* y is x with other rounds R and the settled vector s.
Rounded(x, y, s, R) ==
  /\ DOMAIN y = ChanFields
  /\ y.cum = x.cum /\ y.bal = x.bal /\ y.ckpts = x.ckpts /\ y.op = x.op
  /\ y.funding = x.funding /\ y.imp = x.imp
  /\ y.settled = s /\ y.rounds = R

\* What a channel's own books say, in the form the steps use.
LEMMA OwnFacts ==
  ASSUME NEW x, NEW f, NEW k, Own(x, f, k)
  PROVE  /\ MeterOk(x) /\ RoundsOk(x, f, k) /\ f \in Nat
         /\ Basis(x) \in Nat /\ x.imp.cum \in Nat /\ x.imp.cum <= Basis(x) /\ Basis(x) <= x.cum
         /\ Below(x.settled, Basis(x)) /\ Below(x.imp.settled, Basis(x))
         /\ Total(x.settled) \in Nat /\ Total(x.imp.settled) \in Nat /\ BpDenom * f \in Nat
         /\ Total(Accruals(Basis(x))) \in Nat
         /\ Total(x.imp.settled) + BpDenom * f <= Total(Accruals(Basis(x)))
         /\ x.settled \in [RoleIds -> Nat]
         /\ x.funding \in Nat /\ x.cum \in Nat /\ Basis(x) <= x.funding
<1>1. MeterOk(x) /\ RoundsOk(x, f, k) /\ f \in Nat
      /\ Total(x.imp.settled) + BpDenom * f <= Total(Accruals(Basis(x)))
  BY DEF Own
<1>2. Basis(x) \in Nat /\ x.imp.cum \in Nat /\ x.imp.cum <= Basis(x) /\ Basis(x) <= x.cum
      /\ Below(x.settled, Basis(x)) /\ Below(x.imp.settled, x.imp.cum)
      /\ x.cum \in Nat /\ x.funding \in Nat /\ x.bal \in Int /\ x.cum - x.funding <= x.bal /\ x.bal <= 0
  BY <1>1 DEF MeterOk, PosOk
<1>3. Below(x.imp.settled, Basis(x)) /\ Total(x.imp.settled) \in Nat
  BY <1>2, BelowGrows
<1>4. Total(x.settled) \in Nat
  BY <1>2, BelowGrows
<1>5. BpDenom * f \in Nat
  BY <1>1, ChainRoles
<1>6. Total(Accruals(Basis(x))) \in Nat
  BY <1>2, ChainAccruals
<1>7. x.settled \in [RoleIds -> Nat]
  BY <1>2 DEF Below
<1>8. Basis(x) <= x.funding
  BY <1>2
<1> QED BY <1>1, <1>2, <1>3, <1>4, <1>5, <1>6, <1>7, <1>8

\* More metering and more evidence leave the ledger and the round in flight valid.
LEMMA OwnMetered ==
  ASSUME NEW x, NEW y, NEW f, NEW k, Own(x, f, k), Metered(x, y)
  PROVE  Own(y, f, k)
<1>1. /\ MeterOk(x) /\ RoundsOk(x, f, k) /\ f \in Nat /\ Basis(x) \in Nat /\ Below(x.settled, Basis(x))
      /\ Total(Accruals(Basis(x))) \in Nat /\ Total(x.imp.settled) \in Nat /\ BpDenom * f \in Nat
      /\ Total(x.imp.settled) + BpDenom * f <= Total(Accruals(Basis(x)))
      /\ x.imp.cum \in Nat /\ x.imp.cum <= Basis(x) /\ x.settled \in [RoleIds -> Nat]
  BY OwnFacts
<1>2. /\ y.imp = x.imp /\ y.settled = x.settled /\ y.rounds = x.rounds /\ y.status = x.status
      /\ Basis(y) \in Nat /\ Basis(x) <= Basis(y) /\ Basis(y) <= y.cum
  BY DEF Metered
<1>3. Below(y.settled, Basis(y))
  BY <1>1, <1>2, BelowGrows
<1>4. \A r \in RoleIds : Accruals(Basis(x))[r] <= Accruals(Basis(y))[r]
  BY <1>1, <1>2, AccrualsGrow
<1>5. Total(Accruals(Basis(x))) <= Total(Accruals(Basis(y))) /\ Total(Accruals(Basis(y))) \in Nat
  BY <1>1, <1>2, AccrualsGrow, ChainAccruals
<1>6. x.imp.cum <= Basis(y)
  BY <1>1, <1>2
<1>7. MeterOk(y)
  BY <1>1, <1>2, <1>3, <1>6 DEF MeterOk, Metered
<1>8. Flight(y) = Flight(x)
  BY <1>2 DEF Flight
<1>9. \A ref \in Flight(y) : FlightOk(y, y.rounds[ref], f)
  <2> SUFFICES ASSUME NEW ref \in Flight(x) PROVE FlightOk(y, x.rounds[ref], f)
    BY <1>2, <1>8
  <2> DEFINE z == x.rounds[ref]
  <2>1. FlightOk(x, z, f)
    BY <1>1 DEF RoundsOk
  <2> HIDE DEF z
  <2>2. Accruals(Basis(x)) \in [RoleIds -> Nat] /\ Accruals(Basis(y)) \in [RoleIds -> Nat]
    BY <1>1, <1>2, ChainAccruals
  <2>3. \A r \in RoleIds : x.settled[r] + z.er[r] <= Accruals(Basis(y))[r]
    BY <1>1, <1>4, <2>1, <2>2 DEF FlightOk
  <2>4. FlightOk(y, z, f)
    BY <1>2, <2>1, <2>3 DEF FlightOk
  <2> QED BY <2>4 DEF z
<1>10. RoundsOk(y, f, k)
  BY <1>1, <1>2, <1>8, <1>9 DEF RoundsOk
<1>11. Total(y.imp.settled) + BpDenom * f <= Total(Accruals(Basis(y)))
  BY <1>1, <1>2, <1>5
<1> QED BY <1>1, <1>7, <1>10, <1>11 DEF Own

\* A channel's status is settling once it has a disposition.
LEMMA OwnSettling ==
  ASSUME NEW x, NEW f, NEW k, NEW j, Own(x, f, k), j = k \/ Flight(x) = {},
         k = "reconciled" => j = "reconciled"
  PROVE  /\ Own(Settling(x), f, j)
         /\ Settling(x).imp = x.imp /\ Settling(x).funding = x.funding
         /\ Basis(Settling(x)) = Basis(x) /\ Flight(Settling(x)) = Flight(x)
<1> DEFINE y == Settling(x)
<1>1. DOMAIN x = ChanFields
  BY DEF Own, MeterOk
<1>2. DOMAIN y = ChanFields /\ y.status = "settling"
  BY <1>1 DEF Settling, ChanFields
<1>3. /\ y.cum = x.cum /\ y.bal = x.bal /\ y.ckpts = x.ckpts /\ y.op = x.op
      /\ y.funding = x.funding /\ y.imp = x.imp /\ y.settled = x.settled /\ y.rounds = x.rounds
  BY <1>1 DEF Settling, ChanFields
<1> HIDE DEF y
<1>4. Basis(y) = Basis(x) /\ Flight(y) = Flight(x)
  BY <1>3 DEF Basis, Flight
<1>5. MeterOk(x) /\ RoundsOk(x, f, k) /\ f \in Nat
      /\ Total(x.imp.settled) + BpDenom * f <= Total(Accruals(Basis(x)))
  BY DEF Own
<1>6. MeterOk(y)
  BY <1>2, <1>3, <1>4, <1>5 DEF MeterOk
<1>7. \A ref \in Flight(y) : FlightOk(y, y.rounds[ref], f)
  BY <1>3, <1>4, <1>5 DEF RoundsOk, FlightOk
<1>8. RoundsOk(y, f, j)
  BY <1>2, <1>3, <1>4, <1>5, <1>7 DEF RoundsOk
<1>9. Own(y, f, j)
  BY <1>3, <1>4, <1>5, <1>6, <1>8 DEF Own
<1> QED BY <1>3, <1>4, <1>9 DEF y

\* The round in flight: what it will bring the watermark to is within the accruals.
LEMMA InFlightOk ==
  ASSUME NEW x, NEW f, NEW k, Own(x, f, k), NEW ref \in Flight(x), NEW z, z = x.rounds[ref]
  PROVE  /\ FlightOk(x, z, f) /\ DOMAIN z = RoundFields /\ z.drawn \in BOOLEAN /\ z.target \in Nat
         /\ f <= z.target /\ z.er \in [RoleIds -> Nat] /\ Total(z.er) \in Nat
         /\ BpDenom * z.target \in Nat
         /\ Total(x.settled) + Total(z.er) = Total(x.imp.settled) + BpDenom * z.target
         /\ Total(x.imp.settled) + BpDenom * z.target <= Total(Accruals(Basis(x)))
         /\ Total(x.settled) <= Total(x.imp.settled) + BpDenom * f
<1>1. FlightOk(x, z, f) /\ DOMAIN z = RoundFields /\ z.drawn \in BOOLEAN
  <2>1. RoundsOk(x, f, k) /\ ref \in DOMAIN x.rounds
    BY DEF Own, Flight
  <2> QED BY <2>1 DEF RoundsOk, RoundsTyped
<1>2. /\ z.target \in Nat /\ z.er \in [RoleIds -> Nat]
      /\ \A r \in RoleIds : x.settled[r] + z.er[r] <= Accruals(Basis(x))[r]
      /\ Total(x.settled) + Total(z.er) = Total(x.imp.settled) + BpDenom * z.target
      /\ IF z.drawn THEN f = z.target ELSE Total(x.settled) = Total(x.imp.settled) + BpDenom * f
  BY <1>1 DEF FlightOk
<1>3. /\ f \in Nat /\ Basis(x) \in Nat /\ Total(x.settled) \in Nat /\ Total(x.imp.settled) \in Nat
      /\ BpDenom * f \in Nat /\ x.settled \in [RoleIds -> Nat]
  BY OwnFacts
<1>4. Total(z.er) \in Nat /\ BpDenom \in Nat \ {0} /\ BpDenom * z.target \in Nat
  BY <1>2, ChainTotal, ChainRoles
<1> DEFINE S == Total(x.settled)
           I == Total(x.imp.settled)
           T == Total(z.er)
           g == BpDenom * f
           h == BpDenom * z.target
<1>5. S + T <= Total(Accruals(Basis(x)))
  <2> DEFINE s == x.settled
             A == Accruals(Basis(x))
             w == [r \in RoleIds |-> s[r] + z.er[r]]
  <2>1. A \in [RoleIds -> Nat]
    BY <1>3, ChainAccruals
  <2>2. s \in [RoleIds -> Nat] /\ \A r \in RoleIds : s[r] + z.er[r] <= A[r]
    BY <1>2, <1>3
  <2> HIDE DEF s, A
  <2>3. w \in [RoleIds -> Nat] /\ SumsOn(w, s, z.er, RoleIds) /\ LeqOn(w, A, RoleIds)
    BY <1>2, <2>2 DEF SumsOn, LeqOn
  <2> HIDE DEF w
  <2>4. SumOver(w, RoleIds) = SumOver(s, RoleIds) + SumOver(z.er, RoleIds)
    BY <1>2, <2>2, <2>3, ChainRoles, ChainTotal, SumAdd
  <2>5. SumOver(w, RoleIds) <= SumOver(A, RoleIds)
    BY <2>1, <2>3, ChainRoles, ChainTotal, SumMonotone
  <2>6. Total(s) = SumOver(s, RoleIds) /\ Total(z.er) = SumOver(z.er, RoleIds) /\ Total(A) = SumOver(A, RoleIds)
    BY <1>2, <2>1, <2>2, ChainTotal
  <2> QED BY <2>4, <2>5, <2>6 DEF s, A
<1>6. S \in Nat /\ I \in Nat /\ T \in Nat /\ g \in Nat /\ h \in Nat /\ S + T = I + h
      /\ (z.drawn => g = h) /\ (~z.drawn => S = I + g)
  BY <1>1, <1>2, <1>3, <1>4
<1> HIDE DEF S, I, T, g, h
<1>7. S <= I + g /\ g <= h
  BY <1>1, <1>6
<1>8. I + h <= Total(Accruals(Basis(x)))
  BY <1>5, <1>6
<1>9. f <= z.target
  <2>1. BpDenom * f <= BpDenom * z.target
    BY <1>7 DEF g, h
  <2> QED BY <1>2, <1>3, <1>4, <2>1, ScaleLess
<1> QED BY <1>1, <1>2, <1>4, <1>7, <1>8, <1>9 DEF S, I, g, h

\* What the rounds do to the rest of a channel.
LEMMA RoundedMeter ==
  ASSUME NEW x, NEW y, NEW s, NEW R, MeterOk(x), Rounded(x, y, s, R), y.status = x.status,
         Below(s, Basis(x))
  PROVE  MeterOk(y) /\ Basis(y) = Basis(x)
<1>1. Basis(y) = Basis(x)
  BY DEF Rounded, Basis
<1> QED BY <1>1 DEF MeterOk, Rounded

OnRail(x, ref) == [x EXCEPT !.rounds[ref].drawn = TRUE]

\* The advance of the round in flight is on the rail: the watermark is its target.
LEMMA OwnDrawn ==
  ASSUME NEW x, NEW f, NEW k, Own(x, f, k), NEW ref \in Flight(x),
         NEW y, y = OnRail(x, ref)
  PROVE  Own(y, x.rounds[ref].target, k) /\ y.imp = x.imp /\ y.funding = x.funding /\ Basis(y) = Basis(x)
<1> DEFINE z == x.rounds[ref]
           w == [z EXCEPT !.drawn = TRUE]
           R == [x.rounds EXCEPT ![ref] = w]
           g == z.target
<1>1. DOMAIN x = ChanFields /\ ref \in DOMAIN x.rounds /\ MeterOk(x) /\ RoundsOk(x, f, k)
      /\ x.status \in {"open", "settling"}
  BY DEF Own, MeterOk, Flight
<1>2. /\ FlightOk(x, z, f) /\ DOMAIN z = RoundFields /\ g \in Nat
      /\ Total(x.imp.settled) + BpDenom * g <= Total(Accruals(Basis(x)))
  BY InFlightOk
<1>3. w.target = g /\ w.er = z.er /\ w.drawn = TRUE /\ w.confirmed = z.confirmed /\ DOMAIN w = RoundFields
  BY <1>2 DEF RoundFields
<1>4. y = [x EXCEPT !.rounds = R]
  BY DEF OnRail
<1>5. DOMAIN R = DOMAIN x.rounds /\ R[ref] = w /\ \A a \in DOMAIN R : a # ref => R[a] = x.rounds[a]
  BY <1>1
<1> HIDE DEF z, w, R, g
<1>6. Rounded(x, y, x.settled, R) /\ y.status = x.status
  BY <1>1, <1>4 DEF Rounded, ChanFields
<1>7. y.imp = x.imp /\ y.funding = x.funding /\ Basis(y) = Basis(x) /\ MeterOk(y)
      /\ y.rounds = R /\ y.settled = x.settled
  <2>1. Below(x.settled, Basis(x))
    BY OwnFacts
  <2> QED BY <1>1, <1>6, <2>1, RoundedMeter DEF Rounded
<1>8. Flight(y) = Flight(x) /\ Flight(x) = {ref}
  <2>1. \A a \in DOMAIN R : R[a].confirmed = x.rounds[a].confirmed
    BY <1>3, <1>5 DEF z
  <2>2. Flight(y) = Flight(x)
    BY <1>5, <1>7, <2>1 DEF Flight
  <2>3. \A a, b \in Flight(x) : a = b
    BY <1>1 DEF RoundsOk
  <2> QED BY <2>2, <2>3
<1>9. FlightOk(y, w, g)
  <2>1. w.drawn /\ w.target = g /\ w.er = z.er /\ z.target = g
    BY <1>3 DEF g
  <2>2. /\ z.target \in Nat /\ z.er \in [RoleIds -> Nat]
        /\ \A r \in RoleIds : x.settled[r] + z.er[r] <= Accruals(Basis(x))[r]
        /\ Total(x.settled) + Total(z.er) = Total(x.imp.settled) + BpDenom * z.target
    BY <1>2 DEF FlightOk
  <2> QED BY <1>7, <2>1, <2>2 DEF FlightOk
<1>10. k = "none"
  BY <1>1, <1>8 DEF RoundsOk
<1>11. RoundsOk(y, g, k)
  <2>1. RoundsTyped(y.rounds)
    <3>1. RoundsTyped(x.rounds) /\ w.drawn \in BOOLEAN
      BY <1>1, <1>3 DEF RoundsOk
    <3>2. RoundsTyped(R)
      BY <1>3, <1>5, <3>1 DEF RoundsTyped
    <3> QED BY <1>7, <3>2
  <2>2. \A a \in Flight(y) : FlightOk(y, y.rounds[a], g)
    BY <1>5, <1>7, <1>8, <1>9
  <2> QED BY <1>8, <1>10, <2>1, <2>2 DEF RoundsOk
<1>12. Own(y, g, k)
  BY <1>2, <1>7, <1>11 DEF Own
<1> QED BY <1>7, <1>12 DEF g, z

\* The round is folded: what it extinguished is settled.
LEMMA OwnFolded ==
  ASSUME NEW x, NEW f, NEW k, Own(x, f, k), NEW ref \in Flight(x), NEW y, y = FoldRound(x, ref)
  PROVE  /\ Own(y, x.rounds[ref].target, k) /\ y.imp = x.imp /\ y.funding = x.funding
         /\ Basis(y) = Basis(x) /\ Flight(y) = {}
<1> DEFINE z == x.rounds[ref]
           w == [z EXCEPT !.drawn = TRUE, !.confirmed = TRUE]
           R == [x.rounds EXCEPT ![ref] = w]
           s == [r \in RoleIds |-> x.settled[r] + z.er[r]]
           g == z.target
<1>1. DOMAIN x = ChanFields /\ ref \in DOMAIN x.rounds /\ MeterOk(x) /\ RoundsOk(x, f, k)
      /\ x.status \in {"open", "settling"}
  BY DEF Own, MeterOk, Flight
<1>2. /\ FlightOk(x, z, f) /\ DOMAIN z = RoundFields /\ g \in Nat /\ z.er \in [RoleIds -> Nat]
      /\ Total(x.settled) + Total(z.er) = Total(x.imp.settled) + BpDenom * g
      /\ Total(x.imp.settled) + BpDenom * g <= Total(Accruals(Basis(x)))
  BY InFlightOk
<1>0. x.settled \in [RoleIds -> Nat]
  BY OwnFacts
<1>3. w.drawn = TRUE /\ w.confirmed = TRUE /\ DOMAIN w = RoundFields
  BY <1>2 DEF RoundFields
<1>4. y = [x EXCEPT !.settled = s, !.rounds = R]
  BY DEF FoldRound
<1>5. DOMAIN R = DOMAIN x.rounds /\ R[ref] = w /\ \A a \in DOMAIN R : a # ref => R[a] = x.rounds[a]
  BY <1>1
<1>6. /\ s \in [RoleIds -> Nat] /\ SumsOn(s, x.settled, z.er, RoleIds)
      /\ \A r \in RoleIds : s[r] = x.settled[r] + z.er[r]
  BY <1>0, <1>2 DEF SumsOn
<1> HIDE DEF z, w, R, g, s
<1>7. Below(s, Basis(x))
  BY <1>2, <1>6 DEF FlightOk, Below
<1>8. Total(s) = Total(x.settled) + Total(z.er)
  <2>1. SumOver(s, RoleIds) = SumOver(x.settled, RoleIds) + SumOver(z.er, RoleIds)
    BY <1>0, <1>2, <1>6, ChainRoles, ChainTotal, SumAdd
  <2> QED BY <1>0, <1>2, <1>6, <2>1, ChainTotal
<1>9. Rounded(x, y, s, R) /\ y.status = x.status
  BY <1>1, <1>4 DEF Rounded, ChanFields
<1>10. y.imp = x.imp /\ y.funding = x.funding /\ Basis(y) = Basis(x) /\ MeterOk(y)
       /\ y.rounds = R /\ y.settled = s
  BY <1>1, <1>7, <1>9, RoundedMeter DEF Rounded
<1>11. Flight(y) = {}
  <2>1. \A a, b \in Flight(x) : a = b
    BY <1>1 DEF RoundsOk
  <2> QED BY <1>3, <1>5, <1>10, <2>1 DEF Flight
<1>12. k = "none"
  BY <1>1 DEF RoundsOk
<1>13. RoundsOk(y, g, k)
  <2>1. RoundsTyped(y.rounds)
    <3>1. RoundsTyped(x.rounds) /\ w.drawn \in BOOLEAN
      BY <1>1, <1>3 DEF RoundsOk
    <3>2. RoundsTyped(R)
      BY <1>3, <1>5, <3>1 DEF RoundsTyped
    <3> QED BY <1>10, <3>2
  <2>2. Total(y.settled) = Total(y.imp.settled) + BpDenom * g
    BY <1>2, <1>8, <1>10
  <2>3. Total(y.settled) <= Total(y.imp.settled) + BpDenom * g
    <3>1. Total(y.settled) \in Nat
      BY <1>6, <1>10, ChainTotal
    <3> QED BY <2>2, <3>1
  <2> QED BY <1>11, <1>12, <2>1, <2>2, <2>3 DEF RoundsOk
<1>14. Own(y, g, k)
  BY <1>2, <1>10, <1>13 DEF Own
<1> QED BY <1>10, <1>11, <1>14 DEF g, z

\* A new round is locked.
LEMMA OwnLocked ==
  ASSUME NEW c, Own(chan[c], fundedP[c], "none"), Flight(chan[c]) = {},
         chan[c].op # 0, chan[c].op \notin DOMAIN chan[c].rounds,
         NEW y, y = [chan[c] EXCEPT !.rounds = Put(@, chan[c].op, NewRound(c))]
  PROVE  /\ Own(y, fundedP[c], "none") /\ chan[c].op \in Flight(y)
         /\ y.imp = chan[c].imp /\ y.funding = chan[c].funding /\ Basis(y) = Basis(chan[c])
<1> DEFINE x == chan[c]
           f == fundedP[c]
           n == NewRound(c)
           o == x.op
           R == Put(x.rounds, o, n)
<1>1. DOMAIN x = ChanFields /\ MeterOk(x) /\ RoundsOk(x, f, "none") /\ o \in Nat /\ f \in Nat
      /\ Total(x.imp.settled) + BpDenom * f <= Total(Accruals(Basis(x)))
  BY DEF Own, MeterOk
<1>2. FlightOk(x, n, f) /\ DOMAIN n = RoundFields /\ n.confirmed = FALSE /\ n.drawn = FALSE
  BY NewRoundOk
<1>3. y = [x EXCEPT !.rounds = R] /\ o \notin DOMAIN x.rounds /\ Flight(x) = {}
  OBVIOUS
<1>4. DOMAIN R = DOMAIN x.rounds \cup {o} /\ R[o] = n /\ \A a \in DOMAIN x.rounds : R[a] = x.rounds[a]
  BY <1>3 DEF Put
<1>5. Below(x.settled, Basis(x))
  BY OwnFacts
<1>6. ~n.confirmed /\ n.drawn \in BOOLEAN
  BY <1>2
<1> HIDE DEF x, f, n, o, R
<1>7. Rounded(x, y, x.settled, R) /\ y.status = x.status
  BY <1>1, <1>3 DEF Rounded, ChanFields
<1>8. /\ y.imp = x.imp /\ y.funding = x.funding /\ y.rounds = R /\ y.settled = x.settled
      /\ Basis(y) = Basis(x) /\ MeterOk(y)
  <2>1. Basis(y) = Basis(x) /\ MeterOk(y)
    BY <1>1, <1>5, <1>7, RoundedMeter
  <2>2. y.imp = x.imp /\ y.funding = x.funding /\ y.rounds = R /\ y.settled = x.settled
    BY <1>7 DEF Rounded
  <2> QED BY <2>1, <2>2
<1>9. Flight(y) = {o}
  <2>1. \A a \in DOMAIN x.rounds : x.rounds[a].confirmed
    BY <1>3 DEF Flight
  <2> QED BY <1>4, <1>6, <1>8, <2>1 DEF Flight
<1>10. FlightOk(y, n, f)
  BY <1>2, <1>8 DEF FlightOk
<1>11. RoundsTyped(R)
  <2>1. RoundsTyped(x.rounds)
    BY <1>1 DEF RoundsOk
  <2>2. \A a \in DOMAIN R : a \in DOMAIN x.rounds \/ a = o
    BY <1>4
  <2> QED BY <1>1, <1>2, <1>4, <1>6, <2>1, <2>2 DEF RoundsTyped
<1>12. RoundsOk(y, f, "none")
  BY <1>4, <1>8, <1>9, <1>10, <1>11 DEF RoundsOk
<1>13. Own(y, f, "none")
  BY <1>1, <1>8, <1>12 DEF Own
<1> QED BY <1>8, <1>9, <1>13 DEF x, f, o

\* A drain leaves nothing in flight.
LEMMA OwnDrained ==
  ASSUME NEW c, NEW f, NEW k, Own(chan[c], f, k), NEW y, y = Drained(c)
  PROVE  /\ Own(y, f, k) /\ Flight(y) = {}
         /\ y.imp = chan[c].imp /\ y.funding = chan[c].funding /\ Basis(y) = Basis(chan[c])
<1> DEFINE x == chan[c]
<1>0. InFlight(c) = Flight(x)
  BY DEF InFlight, Flight
<1>1. CASE Flight(x) = {}
  BY <1>0, <1>1 DEF Drained
<1>2. CASE Flight(x) # {}
  <2> DEFINE ref == DrawnRound(c)
             z == x.rounds[ref]
             R == Without(x.rounds, {ref})
  <2>1. ref \in Flight(x)
    BY <1>0, <1>2 DEF DrawnRound
  <2>2. y = IF z.drawn THEN FoldRound(x, ref) ELSE [x EXCEPT !.rounds = R]
    BY <1>0, <1>2 DEF Drained
  <2>3. z.drawn \in BOOLEAN /\ FlightOk(x, z, f)
    BY <2>1, InFlightOk
  <2>4. MeterOk(x) /\ RoundsOk(x, f, k) /\ DOMAIN x = ChanFields
        /\ f \in Nat /\ Total(x.imp.settled) + BpDenom * f <= Total(Accruals(Basis(x)))
    BY DEF Own, MeterOk
  <2>5. DOMAIN R = DOMAIN x.rounds \ {ref} /\ \A a \in DOMAIN R : R[a] = x.rounds[a]
    BY DEF Without
  <2> HIDE DEF ref, z, R
  <2>6. CASE z.drawn
    <3>1. y = FoldRound(x, ref) /\ z.target = f
      BY <2>2, <2>3, <2>6 DEF FlightOk
    <3> QED BY <2>1, <3>1, OwnFolded DEF z
  <2>7. CASE ~z.drawn
    <3>1. y = [x EXCEPT !.rounds = R] /\ Total(x.settled) = Total(x.imp.settled) + BpDenom * f
      BY <2>2, <2>3, <2>7 DEF FlightOk
    <3> HIDE DEF x
    <3>2. Rounded(x, y, x.settled, R) /\ y.status = x.status
      BY <2>4, <3>1 DEF Rounded, ChanFields
    <3>3. Below(x.settled, Basis(x)) /\ Total(x.settled) \in Nat
      BY OwnFacts DEF x
    <3>4. /\ y.imp = x.imp /\ y.funding = x.funding /\ y.rounds = R /\ y.settled = x.settled
          /\ Basis(y) = Basis(x) /\ MeterOk(y)
      BY <2>4, <3>2, <3>3, RoundedMeter DEF Rounded
    <3>5. Flight(y) = {}
      <4>1. \A a, b \in Flight(x) : a = b
        BY <2>4 DEF RoundsOk
      <4> QED BY <2>1, <2>5, <3>4, <4>1 DEF Flight
    <3>6. RoundsTyped(R)
      <4>1. RoundsTyped(x.rounds)
        BY <2>4 DEF RoundsOk
      <4> QED BY <2>5, <4>1 DEF RoundsTyped
    <3>7. Total(y.settled) <= Total(y.imp.settled) + BpDenom * f /\ Total(y.settled) = Total(y.imp.settled) + BpDenom * f
      BY <3>1, <3>3, <3>4
    <3>8. k = "none"
      BY <1>2, <2>4 DEF RoundsOk
    <3>9. RoundsOk(y, f, k)
      BY <3>4, <3>5, <3>6, <3>7, <3>8 DEF RoundsOk
    <3>10. Own(y, f, k)
      BY <2>4, <3>4, <3>9 DEF Own
    <3> QED BY <3>4, <3>5, <3>10 DEF x
  <2> QED BY <2>3, <2>6, <2>7
<1> QED BY <1>1, <1>2

-----------------------------------------------------------------------------
(* Sums along a chain.                                                     *)

\* The draws of a chain are those of its end and of what the end imported.
LEMMA ChainDraws ==
  ASSUME NEW F \in [Cids -> Nat], NEW E, NEW c \in Cids
  PROVE  /\ SumOver(F, Anc(E, c)) \in Nat /\ SumOver(F, Anc(E, c) \ {c}) \in Nat
         /\ SumOver(F, Anc(E, c)) = F[c] + SumOver(F, Anc(E, c) \ {c})
         /\ BpDenom * SumOver(F, Anc(E, c)) = BpDenom * F[c] + BpDenom * SumOver(F, Anc(E, c) \ {c})
         /\ BpDenom * F[c] \in Nat /\ BpDenom * SumOver(F, Anc(E, c) \ {c}) \in Nat
<1> DEFINE A == Anc(E, c)
           B == A \ {c}
<1>1. IsFiniteSet(A) /\ IsFiniteSet(B) /\ c \in A /\ A \subseteq Cids
  BY AncFinite, AncSelf
<1>2. NatOn(F, A) /\ NatOn(F, B)
  BY <1>1 DEF NatOn
<1> HIDE DEF A
<1>3. SumOver(F, A) \in Nat /\ SumOver(F, B) \in Nat /\ IntOn(F, A)
  BY <1>1, <1>2, SumNat
<1>4. SumOver(F, A) = F[c] + SumOver(F, B)
  BY <1>1, <1>3, SumRemove
<1> DEFINE s == SumOver(F, A)
           b == SumOver(F, B)
           f == F[c]
           D == BpDenom
<1>5. s \in Nat /\ b \in Nat /\ f \in Nat /\ s = f + b /\ D \in Nat
  BY <1>3, <1>4, ChainRoles
<1> HIDE DEF s, b, f, D, B
<1>6. D * s = D * f + D * b /\ D * f \in Nat /\ D * b \in Nat
  BY <1>5
<1> QED BY <1>5, <1>6 DEF s, b, f, D, A, B

\* What a chain has drawn is within the accruals at t, and so within t.
LEMMA ChainSpent ==
  ASSUME NEW F \in [Cids -> Nat], NEW E, NEW c \in Cids, NEW i \in Nat, NEW t \in Nat,
         BpDenom * SumOver(F, Anc(E, c) \ {c}) <= i, i + BpDenom * F[c] <= Total(Accruals(t))
  PROVE  /\ SumOver(F, Anc(E, c)) \in Nat /\ SumOver(F, Anc(E, c)) <= t
         /\ BpDenom * SumOver(F, Anc(E, c)) <= Total(Accruals(t))
<1> DEFINE s == SumOver(F, Anc(E, c))
           b == BpDenom * SumOver(F, Anc(E, c) \ {c})
           f == BpDenom * F[c]
           T == Total(Accruals(t))
<1>1. s \in Nat /\ BpDenom * s = f + b /\ f \in Nat /\ b \in Nat
  BY ChainDraws
<1>2. T \in Nat /\ T <= BpDenom * t /\ b <= i /\ i + f <= T
  BY ChainAccruals
<1> HIDE DEF s, b, f, T
<1>3. f + b <= T
  BY <1>1, <1>2
<1>4. BpDenom * s <= BpDenom * t
  <2> DEFINE u == BpDenom * s
             v == BpDenom * t
  <2>1. v \in Nat
    BY ChainRoles
  <2>2. u = f + b /\ T <= v
    BY <1>1, <1>2
  <2> HIDE DEF u, v
  <2>3. u <= v
    BY <1>1, <1>2, <1>3, <2>1, <2>2
  <2> QED BY <2>3 DEF u, v
<1>5. s <= t
  BY <1>1, <1>4, ChainRoles, ScaleLess
<1>6. BpDenom * s <= T
  BY <1>1, <1>3
<1> QED BY <1>1, <1>5, <1>6 DEF s, T

\* The items of a sequence.
LEMMA SeqItems ==
  ASSUME NEW T, NEW d \in Seq(T)
  PROVE  DOMAIN d = 1..Len(d) /\ Len(d) \in Nat /\ \A i \in DOMAIN d : d[i] \in T
  OBVIOUS

\* More deposits add to more.
LEMMA DepsGrow ==
  ASSUME NEW o, NEW d \in Seq([to : o, amt : Nat]), NEW J, J \subseteq DOMAIN d, NEW I, I \subseteq J, NEW S
  PROVE  Deps(d, S, I) \in Nat /\ Deps(d, S, J) \in Nat /\ Deps(d, S, I) <= Deps(d, S, J)
<1> DEFINE a == Amounts(d)
           K == {i \in J : d[i].to \in S}
           L == {i \in I : d[i].to \in S}
<1>1. DOMAIN d = 1..Len(d) /\ Len(d) \in Nat /\ \A i \in DOMAIN d : d[i] \in [to : o, amt : Nat]
  BY SeqItems
<1>2. \A i \in DOMAIN d : a[i] \in Nat
  BY <1>1 DEF Amounts
<1>3. IsFiniteSet(DOMAIN d) /\ K \subseteq DOMAIN d /\ L \subseteq K
  BY <1>1, RolesFinite
<1>4. IsFiniteSet(K) /\ IsFiniteSet(L)
  BY <1>3, FS_Subset
<1>5. NatOn(a, K) /\ NatOn(a, L)
  BY <1>2, <1>3 DEF NatOn
<1> HIDE DEF a, K, L
<1>6. SumOver(a, L) \in Nat /\ SumOver(a, K) \in Nat /\ SumOver(a, L) <= SumOver(a, K)
  BY <1>3, <1>4, <1>5, SumNat, SumSubset
<1> QED BY <1>6 DEF Deps, a, K, L

\* A channel's refund is one amount; where there is none the sum is zero.
LEMMA RefundsOne ==
  ASSUME NEW R, NEW c
  PROVE  /\ (\A k \in DOMAIN R : k[1] # c) => Refunds(R, {c}) = 0
         /\ \A S : c \in S /\ (\A k \in DOMAIN R : k[1] \in S => k[1] = c) => Refunds(R, S) = Refunds(R, {c})
         /\ \A ref : \A v \in Nat : (\A k \in DOMAIN R : k[1] # c) => Refunds(Put(R, <<c, ref>>, v), {c}) = v
<1>1. (\A k \in DOMAIN R : k[1] # c) => Refunds(R, {c}) = 0
  <2> SUFFICES ASSUME \A k \in DOMAIN R : k[1] # c PROVE Refunds(R, {c}) = 0
    OBVIOUS
  <2>1. {k \in DOMAIN R : k[1] \in {c}} = {}
    OBVIOUS
  <2> QED BY <2>1, SumEmpty DEF Refunds
<1>2. \A S : c \in S /\ (\A k \in DOMAIN R : k[1] \in S => k[1] = c) => Refunds(R, S) = Refunds(R, {c})
  <2> SUFFICES ASSUME NEW S, c \in S, \A k \in DOMAIN R : k[1] \in S => k[1] = c
               PROVE  Refunds(R, S) = Refunds(R, {c})
    OBVIOUS
  <2>1. {k \in DOMAIN R : k[1] \in S} = {k \in DOMAIN R : k[1] \in {c}}
    OBVIOUS
  <2> QED BY <2>1 DEF Refunds
<1>3. \A ref : \A v \in Nat : (\A k \in DOMAIN R : k[1] # c) => Refunds(Put(R, <<c, ref>>, v), {c}) = v
  <2> SUFFICES ASSUME NEW ref, NEW v \in Nat, \A k \in DOMAIN R : k[1] # c
               PROVE  Refunds(Put(R, <<c, ref>>, v), {c}) = v
    OBVIOUS
  <2> DEFINE key == <<c, ref>>
             P == Put(R, key, v)
  <2>1. key[1] = c
    OBVIOUS
  <2> HIDE DEF key
  <2>2. DOMAIN P = DOMAIN R \cup {key} /\ P[key] = v
    BY DEF Put
  <2> HIDE DEF P
  <2>3. {k \in DOMAIN P : k[1] \in {c}} = {key}
    BY <2>1, <2>2
  <2>4. {} \cup {key} = {key} /\ IsFiniteSet({}) /\ key \notin {} /\ IntOn(P, {} \cup {key})
    BY <2>2, FS_EmptySet DEF IntOn
  <2>5. SumOver(P, {} \cup {key}) = P[key] + SumOver(P, {})
    BY <2>4, SumInsert
  <2>6. SumOver(P, {key}) = v
    BY <2>2, <2>4, <2>5, SumEmpty
  <2> QED BY <2>3, <2>6 DEF Refunds, P, key
<1> QED BY <1>1, <1>2, <1>3

\* The end of a chain is covered, with the refunds R, by the deposits J.
LEMMA TipCovered ==
  ASSUME DispInv, Books, NEW c \in Tips, NEW R, NEW t \in Nat,
         \A k \in DOMAIN R : k[1] \in Anc(imports, c) => k[1] = c,
         Refunds(R, {c}) \in Nat, Refunds(R, {c}) + t <= chan[c].funding,
         Total(chan[c].imp.settled) + BpDenom * fundedP[c] <= Total(Accruals(t)),
         NEW J, credited \subseteq J, J \subseteq DOMAIN deposits
  PROVE  Covered(c, imports, R, fundedP, deposits, J)
<1> DEFINE x == chan[c]
           A == Anc(imports, c)
           i == Total(x.imp.settled)
<1>1. /\ c \in Live /\ fundedP \in [Cids -> Nat] /\ deposits \in Seq([to : log.opened, amt : Nat])
      /\ Own(x, fundedP[c], KindIn(chain, c)) /\ Heir(c, x, imports, fundedP)
      /\ Float(c, x, imports, deposits, credited)
  BY DEF Books, Rail, Tips
<1>2. c \in Cids
  BY <1>1, AncOfLive
<1>3. i \in Nat /\ x.funding \in Nat
  BY <1>1, OwnFacts
<1>4. BpDenom * SumOver(fundedP, A \ {c}) <= i
  BY <1>1 DEF Heir
<1> HIDE DEF x, i
<1>5. SumOver(fundedP, A) \in Nat /\ SumOver(fundedP, A) <= t
  BY <1>1, <1>2, <1>3, <1>4, ChainSpent DEF i, x
<1>6. x.funding = Deps(deposits, A, credited)
  BY <1>1 DEF Float
<1>7. Deps(deposits, A, credited) <= Deps(deposits, A, J) /\ Deps(deposits, A, J) \in Nat
  BY <1>1, DepsGrow
<1>8. Refunds(R, A) = Refunds(R, {c})
  BY <1>2, AncSelf, RefundsOne
<1>9. Refunds(R, A) + SumOver(fundedP, A) <= Deps(deposits, A, J)
  BY <1>3, <1>5, <1>6, <1>7, <1>8 DEF x
<1> QED BY <1>9 DEF Covered

\* The refunds released are finitely many.
LEMMA ReleasedFinite == ASSUME DispInv PROVE IsFiniteSet(DOMAIN released)
<1>1. DOMAIN released \subseteq Cids \X CloseRefs
  BY DEF DispInv, RefundsOk, LogOk
<1>2. IsFiniteSet(CloseRefs)
  BY BoundAssumption, FS_Interval DEF CloseRefs
<1>3. IsFiniteSet(Cids \X CloseRefs)
  BY <1>2, CidAssumption, FS_Product
<1> QED BY <1>1, <1>3, FS_Subset

\* Refunds add to an amount.
LEMMA RefundsNat == ASSUME DispInv, Rail, NEW S PROVE Refunds(released, S) \in Nat
<1> DEFINE K == {k \in DOMAIN released : k[1] \in S}
<1>3. IsFiniteSet(K)
  BY ReleasedFinite, FS_Subset
<1>4. NatOn(released, K)
  BY DEF Rail, NatOn
<1> HIDE DEF K
<1>5. SumOver(released, K) \in Nat
  BY <1>3, <1>4, SumNat
<1> QED BY <1>5 DEF Refunds, K

\* The refund of a first close, paid or not, is what its channel has not evidenced.
LEMMA RefundFits ==
  ASSUME DispInv, Books, NEW c \in Live, KindIn(chain, c) # "reconciled", NEW ref,
         NEW R, R = Released(c, ref) \/ R = released
  PROVE  /\ Refunds(R, {c}) \in Nat /\ Refunds(R, {c}) + Basis(chan[c]) <= chan[c].funding
         /\ DOMAIN released \subseteq DOMAIN R
         /\ \A k \in DOMAIN released : R[k] = released[k] /\ k[1] # c
         /\ \A k \in DOMAIN R : k \in DOMAIN released \/ k[1] = c
         /\ \A k \in DOMAIN R : R[k] \in Nat
<1> DEFINE x == chan[c]
           b == Basis(x)
           v == Refund(c)
           key == <<c, ref>>
<1>1. Rail /\ Own(x, fundedP[c], KindIn(chain, c)) /\ RefundsOk(DOMAIN released, imports, Live, chain, log.opened)
  BY DEF Books, DispInv
<1>2. b \in Nat /\ x.funding \in Nat /\ b <= x.funding
  BY <1>1, OwnFacts
<1>3. v \in Nat /\ v + b <= x.funding
  <2>1. v = SatSub(x.funding, b)
    BY DEF Refund, BasisCum, Basis
  <2> HIDE DEF v, b, x
  <2> QED BY <1>2, <2>1 DEF SatSub
<1>4. \A k \in DOMAIN released : k[1] # c /\ released[k] \in Nat
  BY <1>1 DEF RefundsOk, Rail
<1>5. Refunds(released, {c}) = 0
  BY <1>4, RefundsOne
<1>6. CASE R = released
  BY <1>2, <1>4, <1>5, <1>6
<1>7. CASE R # released
  <2>1. key[1] = c
    OBVIOUS
  <2>2. R = Put(released, key, v)
    BY <1>7 DEF Released
  <2>3. Refunds(R, {c}) = v
    BY <1>3, <1>4, <2>2, RefundsOne
  <2> HIDE DEF key, v
  <2>4. DOMAIN R = DOMAIN released \cup {key} /\ R[key] = v /\ \A k \in DOMAIN released : k # key => R[k] = released[k]
    BY <2>2 DEF Put
  <2>5. key \notin DOMAIN released
    BY <1>4, <2>1
  <2> QED BY <1>3, <1>4, <2>1, <2>3, <2>4, <2>5
<1> QED BY <1>6, <1>7

\* The channels a live one carries have no refund.
LEMMA RefundsAtTip ==
  ASSUME DispInv, NEW c \in Live, NEW k \in DOMAIN released, k[1] \in Anc(imports, c)
  PROVE  k[1] = c
<1>1. k[1] \in Live /\ (k[1] # c => KindIn(chain, k[1]) = "committed")
  BY AncOfLive
<1>2. k[1] \in Live => KindIn(chain, k[1]) = "reconciled"
  BY DEF DispInv, RefundsOk
<1> QED BY <1>1, <1>2

\* The draws of a chain and the refund at its end are within the deposits credited to it.
LEMMA TipCoveredNow ==
  ASSUME DispInv, Books, NEW c \in Tips, NEW J, credited \subseteq J, J \subseteq DOMAIN deposits
  PROVE  Covered(c, imports, released, fundedP, deposits, J)
<1>0. c \in Live /\ Rail /\ Own(chan[c], fundedP[c], KindIn(chain, c))
  BY DEF Tips, Books
<1>1. \A k \in DOMAIN released : k[1] \in Anc(imports, c) => k[1] = c
  BY <1>0, RefundsAtTip
<1>2. CASE KindIn(chain, c) = "reconciled"
  <2> DEFINE t == closing[c]
  <2>1. ClosedOk(c, chan[c], fundedP[c], chain[c], released, t)
    BY <1>0, <1>2 DEF Books
  <2>2. /\ t \in Nat /\ Refunds(released, {c}) + t <= chan[c].funding
        /\ Total(chan[c].imp.settled) + BpDenom * fundedP[c] <= Total(Accruals(t))
    BY <2>1 DEF ClosedOk
  <2>3. Refunds(released, {c}) \in Nat
    BY <1>0, RefundsNat
  <2> HIDE DEF t
  <2> QED BY <1>1, <2>2, <2>3, TipCovered
<1>3. CASE KindIn(chain, c) # "reconciled"
  <2> DEFINE t == Basis(chan[c])
  <2>1. Refunds(released, {c}) \in Nat /\ Refunds(released, {c}) + t <= chan[c].funding
    BY <1>0, <1>3, RefundFits
  <2>2. t \in Nat /\ Total(chan[c].imp.settled) + BpDenom * fundedP[c] <= Total(Accruals(t))
    BY <1>0, OwnFacts
  <2> HIDE DEF t
  <2> QED BY <1>1, <2>1, <2>2, TipCovered
<1> QED BY <1>2, <1>3

\* So they are once a first close has released the refund of the end.
LEMMA TipCoveredRefunded ==
  ASSUME DispInv, Books, NEW c \in Tips, KindIn(chain, c) # "reconciled", NEW ref,
         NEW R, R = Released(c, ref) \/ R = released,
         NEW J, credited \subseteq J, J \subseteq DOMAIN deposits
  PROVE  Covered(c, imports, R, fundedP, deposits, J)
<1>0. c \in Live /\ Rail /\ Own(chan[c], fundedP[c], KindIn(chain, c))
  BY DEF Tips, Books
<1> DEFINE t == Basis(chan[c])
<1>1. /\ Refunds(R, {c}) \in Nat /\ Refunds(R, {c}) + t <= chan[c].funding
      /\ \A k \in DOMAIN R : k \in DOMAIN released \/ k[1] = c
  <2>1. /\ Refunds(R, {c}) \in Nat /\ Refunds(R, {c}) + Basis(chan[c]) <= chan[c].funding
        /\ DOMAIN released \subseteq DOMAIN R
        /\ \A k \in DOMAIN released : R[k] = released[k] /\ k[1] # c
        /\ \A k \in DOMAIN R : k \in DOMAIN released \/ k[1] = c
        /\ \A k \in DOMAIN R : R[k] \in Nat
    BY <1>0, RefundFits, Zenon
  <2> QED BY <2>1, Zenon
<1>2. \A k \in DOMAIN R : k[1] \in Anc(imports, c) => k[1] = c
  BY <1>0, <1>1, RefundsAtTip
<1>3. t \in Nat /\ Total(chan[c].imp.settled) + BpDenom * fundedP[c] <= Total(Accruals(t))
  BY <1>0, OwnFacts
<1> HIDE DEF t
<1> QED BY <1>1, <1>2, <1>3, TipCovered

\* Deposits consumed later, and refunds of other channels, leave a chain covered.
LEMMA CoveredStays ==
  ASSUME NEW o, NEW d \in Seq([to : o, amt : Nat]), NEW I, NEW J, I \subseteq J, J \subseteq DOMAIN d,
         NEW E, NEW c, NEW R, NEW Q, NEW F,
         DOMAIN R \subseteq DOMAIN Q, \A k \in DOMAIN R : Q[k] = R[k],
         \A k \in DOMAIN Q : k \in DOMAIN R \/ k[1] \notin Anc(E, c),
         Refunds(R, Anc(E, c)) \in Nat, SumOver(F, Anc(E, c)) \in Nat,
         \A k \in DOMAIN R : R[k] \in Nat, IsFiniteSet(DOMAIN R),
         Covered(c, E, R, F, d, I)
  PROVE  Covered(c, E, Q, F, d, J)
<1> DEFINE A == Anc(E, c)
           K == {k \in DOMAIN R : k[1] \in A}
<1>1. {k \in DOMAIN Q : k[1] \in A} = K
  OBVIOUS
<1>2. IsFiniteSet(K) /\ IntOn(R, K) /\ SameOn(R, Q, K)
  BY FS_Subset DEF IntOn, SameOn
<1> HIDE DEF K
<1>3. SumOver(R, K) = SumOver(Q, K)
  BY <1>2, SumCong
<1>4. Refunds(Q, A) = Refunds(R, A)
  BY <1>1, <1>3 DEF Refunds, K
<1>5. Deps(d, A, I) <= Deps(d, A, J) /\ Deps(d, A, I) \in Nat /\ Deps(d, A, J) \in Nat
  BY DepsGrow
<1> QED BY <1>4, <1>5 DEF Covered

\* The end of a chain is carried by no other channel.
LEMMA AncTip ==
  ASSUME DispInv, NEW c \in Tips, NEW d \in Cids, c \in Anc(imports, d)
  PROVE  d = c
<1>1. c \in Live /\ KindIn(chain, c) # "committed"
  BY DEF Tips
<1> QED BY <1>1, AncOfLive

\* The draws of a chain add to an amount.
LEMMA DrawsNat ==
  ASSUME Rail, NEW c \in Cids PROVE SumOver(fundedP, Anc(imports, c)) \in Nat
  BY ChainDraws DEF Rail

\* Every chain, live or not, is covered by the deposits consumed for it.
LEMMA AllCovered ==
  ASSUME DispInv, Books, NEW J, log.fund \subseteq J, J \subseteq DOMAIN deposits, NEW c \in Cids
  PROVE  Covered(c, imports, released, fundedP, deposits, J)
<1>0. /\ Rail /\ credited \subseteq log.fund /\ deposits \in Seq([to : log.opened, amt : Nat])
      /\ \A k \in DOMAIN released : released[k] \in Nat
  BY DEF Books, Rail
<1>1. CASE c \in Tips
  <2>1. credited \subseteq J
    BY <1>0
  <2> QED BY <1>1, <2>1, TipCoveredNow
<1>2. CASE c \notin Tips
  <2>1. Covered(c, imports, released, fundedP, deposits, log.fund)
    BY <1>2 DEF Books
  <2>2. /\ Refunds(released, Anc(imports, c)) \in Nat /\ SumOver(fundedP, Anc(imports, c)) \in Nat
        /\ IsFiniteSet(DOMAIN released)
    BY <1>0, RefundsNat, DrawsNat, ReleasedFinite
  <2> QED BY <1>0, <2>1, <2>2, CoveredStays
<1> QED BY <1>1, <1>2

\* A first close of c that has released its refund.
LEMMA RefundCovered ==
  ASSUME DispInv, Books, NEW c \in Tips, KindIn(chain, c) # "reconciled", NEW ref,
         NEW R, R = Released(c, ref) \/ R = released, NEW d \in Cids
  PROVE  Covered(d, imports, R, fundedP, deposits, log.fund)
<1>0. /\ Rail /\ credited \subseteq log.fund /\ deposits \in Seq([to : log.opened, amt : Nat])
      /\ log.fund \subseteq DOMAIN deposits
      /\ \A k \in DOMAIN released : released[k] \in Nat
  BY DEF Books, Rail
<1>1. CASE d = c
  BY <1>0, <1>1, TipCoveredRefunded
<1>2. CASE d # c
  <2>1. c \notin Anc(imports, d)
    BY <1>2, AncTip
  <2>2. /\ DOMAIN released \subseteq DOMAIN R /\ \A k \in DOMAIN released : R[k] = released[k]
        /\ \A k \in DOMAIN R : k \in DOMAIN released \/ k[1] = c
    <3>1. c \in Live
      BY DEF Tips
    <3>2. /\ Refunds(R, {c}) \in Nat /\ Refunds(R, {c}) + Basis(chan[c]) <= chan[c].funding
          /\ DOMAIN released \subseteq DOMAIN R
          /\ \A k \in DOMAIN released : R[k] = released[k] /\ k[1] # c
          /\ \A k \in DOMAIN R : k \in DOMAIN released \/ k[1] = c
          /\ \A k \in DOMAIN R : R[k] \in Nat
      BY <3>1, RefundFits, Zenon
    <3> QED BY <3>2, Zenon
  <2>3. /\ Refunds(released, Anc(imports, d)) \in Nat /\ SumOver(fundedP, Anc(imports, d)) \in Nat
        /\ IsFiniteSet(DOMAIN released)
    BY <1>0, RefundsNat, DrawsNat, ReleasedFinite
  <2>4. Covered(d, imports, released, fundedP, deposits, log.fund)
    BY <1>0, AllCovered
  <2> QED BY <1>0, <2>1, <2>2, <2>3, <2>4, CoveredStays
<1> QED BY <1>1, <1>2

\* What a plain close pinned bounds the draws of its chain.
LEMMA ClosedDraws ==
  ASSUME DispInv, Books, NEW c \in DOMAIN closing
  PROVE  closing[c] \in Nat /\ BpDenom * SumOver(fundedP, Anc(imports, c)) <= Total(Accruals(closing[c]))
<1>1. CASE c \notin Live
  BY <1>1 DEF Books
<1>2. CASE c \in Live
  <2> DEFINE t == closing[c]
             i == Total(chan[c].imp.settled)
  <2>1. Rail /\ KindIn(chain, c) = "reconciled" /\ fundedP \in [Cids -> Nat]
    BY <1>2 DEF Books, Rail
  <2>2. ClosedOk(c, chan[c], fundedP[c], chain[c], released, t)
    BY <1>2, <2>1 DEF Books
  <2>3. Own(chan[c], fundedP[c], KindIn(chain, c)) /\ Heir(c, chan[c], imports, fundedP) /\ c \in Cids
    BY <1>2, AncOfLive DEF Books
  <2>4. i \in Nat
    BY <2>3, OwnFacts
  <2>5. t \in Nat /\ i + BpDenom * fundedP[c] <= Total(Accruals(t))
    BY <2>2 DEF ClosedOk
  <2>6. BpDenom * SumOver(fundedP, Anc(imports, c) \ {c}) <= i
    BY <2>3 DEF Heir
  <2> HIDE DEF t, i
  <2>7. BpDenom * SumOver(fundedP, Anc(imports, c)) <= Total(Accruals(t))
    BY <2>1, <2>3, <2>4, <2>5, <2>6, ChainSpent
  <2> QED BY <2>5, <2>7 DEF t
<1> QED BY <1>1, <1>2

\* A stop of the process.
LEMMA LostBooks ==
  ASSUME DispInv, Books, NEW l, LoseMemory(l), UNCHANGED <<deposits, fundedP, imports, closing>>,
         log.opened \subseteq l.opened, log.fund \subseteq l.fund, l.fund \subseteq DOMAIN deposits,
         \A k \in DOMAIN released' : released'[k] \in Nat,
         \A c \in Cids : Covered(c, imports, released', fundedP, deposits, l.fund)
  PROVE  Books'
<1>1. log' = l /\ credited' = {} /\ Live' = {}
  BY DEF LoseMemory, Live
<1>2. Tips' = {}
  BY <1>1 DEF Tips
<1>3. Rail
  BY DEF Books
<1>4. Rail'
  <2>1. deposits' \in Seq([to : log'.opened, amt : Nat])
    <3> DEFINE T == [to : log.opened, amt : Nat]
               V == [to : l.opened, amt : Nat]
    <3>1. deposits \in Seq(T)
      BY <1>3 DEF Rail
    <3>2. T \subseteq V
      OBVIOUS
    <3> HIDE DEF T, V
    <3>3. deposits \in Seq(V)
      BY <3>1, <3>2
    <3> QED BY <1>1, <3>3 DEF V
  <2> QED BY <1>1, <1>3, <2>1 DEF Rail
<1>5. \A c \in DOMAIN closing' \ Live' :
        closing'[c] \in Nat /\ BpDenom * SumOver(fundedP', Anc(imports', c)) <= Total(Accruals(closing'[c]))
  BY ClosedDraws
<1>6. \A c \in Cids \ Tips' : Covered(c, imports', released', fundedP', deposits', log'.fund)
  BY <1>1
<1> QED BY <1>1, <1>2, <1>4, <1>5, <1>6 DEF Books

\* A restart: the live channels are lost, and the chains stay covered.
LEMMA RestartBooks == ASSUME DispInv, Books, ChainRestart PROVE Books'
<1>1. LoseMemory(log) /\ UNCHANGED <<deposits, fundedP, imports, closing, released>>
  BY DEF ChainRestart, railVars, aux
<1>2. Rail
  BY DEF Books
<1>3. log.fund \subseteq DOMAIN deposits /\ \A k \in DOMAIN released : released[k] \in Nat
  BY <1>2 DEF Rail
<1>4. \A c \in Cids : Covered(c, imports, released', fundedP, deposits, log.fund)
  BY <1>1, <1>3, AllCovered
<1> QED BY <1>1, <1>3, <1>4, LostBooks

\* A stop between the consumed reference and the credit loses the credit to the payer.
LEMMA FundingStopsBooks ==
  ASSUME DispInv, Books, NEW i \in DOMAIN deposits, FundingStops(i) PROVE Books'
<1> DEFINE l == Consumed(i)
<1>1. LoseMemory(l) /\ UNCHANGED <<deposits, fundedP, imports, closing, released>>
  BY DEF FundingStops, railVars, aux
<1>2. Rail /\ LogOk(log)
  BY DEF Books, DispInv
<1>3. log.fund \subseteq DOMAIN deposits /\ \A k \in DOMAIN released : released[k] \in Nat
  BY <1>2 DEF Rail
<1>4. l.opened = log.opened /\ l.fund = log.fund \cup {i}
  BY <1>2 DEF LogOk, Consumed
<1> HIDE DEF l
<1>5. log.fund \subseteq l.fund /\ l.fund \subseteq DOMAIN deposits
  BY <1>3, <1>4
<1>6. \A c \in Cids : Covered(c, imports, released', fundedP, deposits, l.fund)
  BY <1>1, <1>5, AllCovered
<1> QED BY <1>1, <1>3, <1>4, <1>5, <1>6, LostBooks

\* A stop after the durable acceptance of an open.
LEMMA OpenStopsBooks ==
  ASSUME DispInv, Books, NEW m \in Opens, OpenStops(m) PROVE Books'
<1> DEFINE l == Accepted(m)
<1>1. LoseMemory(l) /\ UNCHANGED <<deposits, fundedP, imports, closing, released>>
  BY DEF OpenStops, railVars, aux
<1>2. Rail /\ LogOk(log)
  BY DEF Books, DispInv
<1>3. log.fund \subseteq DOMAIN deposits /\ \A k \in DOMAIN released : released[k] \in Nat
  BY <1>2 DEF Rail
<1>4. l.opened = log.opened \cup {m.cid} /\ l.fund = log.fund
  BY <1>2 DEF LogOk, Accepted
<1> HIDE DEF l
<1>5. log.opened \subseteq l.opened /\ l.fund \subseteq DOMAIN deposits
  BY <1>3, <1>4
<1>6. \A c \in Cids : Covered(c, imports, released', fundedP, deposits, l.fund)
  BY <1>1, <1>4, <1>5, AllCovered
<1> QED BY <1>1, <1>3, <1>4, <1>5, <1>6, LostBooks

\* A first close is of a channel no successor has and no close has refunded.
LEMMA FirstCloseKind ==
  ASSUME DispInv, NEW c \in Live, FirstClose(c)
  PROVE  KindIn(chain, c) \in {"none", "pending"} /\ c \in Tips
  BY DEF FirstClose, Prior, KindIn, Tips

\* A stop inside a first plain close, whether or not the refund was released.
LEMMA CloseStopsBooks ==
  ASSUME DispInv, Books, NEW c \in Live, NEW ref \in CloseRefs, NEW ok, NEW also, CloseStops(c, ref, ok, also)
  PROVE  Books'
<1> DEFINE d == Reconciled(PendingDraw(c))
           l == IF also THEN Recorded(log, c, d) ELSE log
<1>1. LogOk(log) /\ c \in log.opened /\ LinksOk(log.disp, imports)
  BY DEF DispInv
<1>2. DOMAIN d = DispFields /\ d.kind # "committed" /\ d.kind \in DispKinds
  BY KindsOf
<1>3. /\ LoseMemory(l) /\ UNCHANGED <<deposits, fundedP, imports, closing>> /\ FirstClose(c)
      /\ (released' = Released(c, ref) \/ released' = released)
  BY DEF CloseStops, aux
<1> HIDE DEF d
<1>4. l.opened = log.opened /\ l.fund = log.fund
  BY <1>1, <1>2, RecordedIs
<1> HIDE DEF l
<1>5. KindIn(chain, c) # "reconciled" /\ c \in Tips
  BY <1>3, FirstCloseKind
<1>6. log.fund \subseteq DOMAIN deposits
  BY DEF Books, Rail
<1> DEFINE R == IF ok THEN Released(c, ref) ELSE released
<1>7. released' = R /\ (R = Released(c, ref) \/ R = released)
  BY DEF CloseStops
<1> HIDE DEF R
<1>8. \A e \in Cids : Covered(e, imports, R, fundedP, deposits, log.fund)
  BY <1>5, <1>7, RefundCovered
<1>9. \A k \in DOMAIN R : R[k] \in Nat
  BY <1>5, <1>7, RefundFits
<1> QED BY <1>3, <1>4, <1>6, <1>7, <1>8, <1>9, LostBooks

-----------------------------------------------------------------------------
(* A step of one channel.                                                  *)

\* g is f but at c.
OnlyAt(f, g, c) ==
  /\ \A d : d # c => (d \in DOMAIN g <=> d \in DOMAIN f)
  /\ \A d \in DOMAIN g : d # c => g[d] = f[d]

\* The refunds Q are those of R and maybe one of c.
OnlyRefunds(R, Q, c) ==
  /\ DOMAIN R \subseteq DOMAIN Q
  /\ \A k \in DOMAIN R : Q[k] = R[k]
  /\ \A k \in DOMAIN Q : k \in DOMAIN R \/ k[1] = c
  /\ \A k \in DOMAIN Q : Q[k] \in Nat

\* c becomes y, its watermark g and its disposition k.
Steps(c, y, g, k) ==
  /\ chan' = [chan EXCEPT ![c] = y] /\ fundedP' = [fundedP EXCEPT ![c] = g]
  /\ Own(y, g, k) /\ y.imp = chan[c].imp /\ y.funding = chan[c].funding
  /\ OnlyAt(chain, chain', c) /\ KindIn(chain', c) = k
  /\ k = "committed" <=> KindIn(chain, c) = "committed"
  /\ k = "committed" => g = fundedP[c] /\ released' = released
  /\ UNCHANGED <<deposits, credited, imports>> /\ log'.fund = log.fund /\ log'.opened = log.opened
  /\ OnlyRefunds(released, released', c)
  /\ OnlyAt(closing, closing', c) /\ (c \in DOMAIN closing' => k = "reconciled")
  /\ k = "reconciled" =>
       c \in DOMAIN closing' /\ ClosedOk(c, y, g, chain'[c], released', closing'[c])

\* The draws and the refunds of the other chains stand.
LEMMA StepApart ==
  ASSUME DispInv, Books, NEW c \in Live, NEW y, NEW g, NEW k, Steps(c, y, g, k), NEW d \in Cids
  PROVE  /\ d # c \/ c \notin Tips => SumOver(fundedP', Anc(imports, d)) = SumOver(fundedP, Anc(imports, d))
         /\ SumOver(fundedP', Anc(imports, d) \ {d}) = SumOver(fundedP, Anc(imports, d) \ {d})
         /\ d # c => Refunds(released', {d}) = Refunds(released, {d})
         /\ d # c \/ c \notin Tips => Covered(d, imports, released', fundedP', deposits, log.fund)
<1> DEFINE A == Anc(imports, d)
<1>0. /\ Rail /\ fundedP \in [Cids -> Nat] /\ \A a \in DOMAIN released : released[a] \in Nat
      /\ log.fund \subseteq DOMAIN deposits /\ deposits \in Seq([to : log.opened, amt : Nat])
  BY DEF Books, Rail
<1>1. c \in Cids /\ g \in Nat /\ OnlyRefunds(released, released', c) /\ fundedP' = [fundedP EXCEPT ![c] = g]
  BY AncOfLive, OwnFacts DEF Steps
<1>2. c \notin Tips => fundedP' = fundedP /\ released' = released
  <2>1. c \notin Tips => KindIn(chain, c) = "committed"
    BY DEF Tips
  <2>2. KindIn(chain, c) = "committed" => g = fundedP[c] /\ released' = released
    BY DEF Steps
  <2> QED BY <1>0, <1>1, <2>1, <2>2
<1>3. c \in Tips /\ d # c => c \notin A
  BY AncTip
<1>4. IsFiniteSet(A) /\ IsFiniteSet(A \ {d}) /\ A \subseteq Cids
  BY AncFinite, AncSelf
<1>5. ASSUME NEW S, IsFiniteSet(S), S \subseteq Cids, c \notin S
      PROVE  SumOver(fundedP', S) = SumOver(fundedP, S)
  <2>1. IntOn(fundedP, S) /\ SameOn(fundedP, fundedP', S)
    BY <1>0, <1>1, <1>5 DEF IntOn, SameOn
  <2> QED BY <1>5, <2>1, SumCong
<1>6. d # c \/ c \notin Tips => SumOver(fundedP', A) = SumOver(fundedP, A)
  <2>1. CASE c \in Tips /\ d # c
    BY <1>3, <1>4, <1>5, <2>1
  <2>2. CASE c \notin Tips
    BY <1>2, <2>2
  <2> QED BY <2>1, <2>2
<1>7. SumOver(fundedP', A \ {d}) = SumOver(fundedP, A \ {d})
  <2>1. CASE c \in Tips
    <3>1. c \notin A \ {d} /\ A \ {d} \subseteq Cids
      BY <1>3, <1>4, <2>1
    <3> QED BY <1>4, <1>5, <3>1
  <2>2. CASE c \notin Tips
    BY <1>2, <2>2
  <2> QED BY <2>1, <2>2
<1>8. d # c => Refunds(released', {d}) = Refunds(released, {d})
  <2> SUFFICES ASSUME d # c PROVE Refunds(released', {d}) = Refunds(released, {d})
    OBVIOUS
  <2> DEFINE K == {a \in DOMAIN released : a[1] \in {d}}
             Q == released'
  <2>1. /\ DOMAIN released \subseteq DOMAIN Q /\ \A a \in DOMAIN released : Q[a] = released[a]
        /\ \A a \in DOMAIN Q : a \in DOMAIN released \/ a[1] = c
    BY <1>1 DEF OnlyRefunds
  <2> HIDE DEF Q
  <2>2. {a \in DOMAIN Q : a[1] \in {d}} = K
    BY <2>1
  <2>3. IsFiniteSet(K) /\ IntOn(released, K) /\ SameOn(released, Q, K)
    BY <1>0, <2>1, ReleasedFinite, FS_Subset DEF IntOn, SameOn
  <2> HIDE DEF K
  <2>4. SumOver(released, K) = SumOver(Q, K)
    BY <2>3, SumCong
  <2>5. Refunds(Q, {d}) = Refunds(released, {d})
    BY <2>2, <2>4 DEF Refunds, K
  <2> QED BY <2>5 DEF Q
<1>9. d # c \/ c \notin Tips => Covered(d, imports, released', fundedP', deposits, log.fund)
  <2> SUFFICES ASSUME d # c \/ c \notin Tips
               PROVE  Covered(d, imports, released', fundedP', deposits, log.fund)
    OBVIOUS
  <2>1. Covered(d, imports, released, fundedP, deposits, log.fund)
    BY <1>0, AllCovered
  <2> DEFINE Q == released'
  <2>2. /\ Refunds(released, A) \in Nat /\ SumOver(fundedP, A) \in Nat
        /\ IsFiniteSet(DOMAIN released)
    BY <1>0, RefundsNat, DrawsNat, ReleasedFinite
  <2>3. /\ DOMAIN released \subseteq DOMAIN Q /\ \A a \in DOMAIN released : Q[a] = released[a]
        /\ \A a \in DOMAIN Q : a \in DOMAIN released \/ a[1] \notin A
    BY <1>1, <1>2, <1>3 DEF OnlyRefunds
  <2> HIDE DEF Q
  <2>4. Covered(d, imports, Q, fundedP, deposits, log.fund)
    BY <1>0, <2>1, <2>2, <2>3, CoveredStays
  <2>5. SumOver(fundedP', A) = SumOver(fundedP, A)
    BY <1>6
  <2> QED BY <2>4, <2>5 DEF Covered, Q
<1> QED BY <1>6, <1>7, <1>8, <1>9

\* A step of one channel that keeps its own books keeps the books.
LEMMA StepBooks ==
  ASSUME DispInv, Books, NEW c \in Live, NEW y, NEW g, NEW k, Steps(c, y, g, k)
  PROVE  Books'
<1>1. Live' = Live /\ chan'[c] = y /\ \A d \in Live : d # c => chan'[d] = chan[d]
  BY DEF Steps, Live
<1>2. /\ OnlyAt(chain, chain', c) /\ KindIn(chain', c) = k
      /\ \A d : d # c => KindIn(chain', d) = KindIn(chain, d)
  BY DEF Steps, OnlyAt, KindIn
<1>3. Tips' = Tips
  <2>1. k = "committed" <=> KindIn(chain, c) = "committed"
    BY DEF Steps
  <2> QED BY <1>1, <1>2, <2>1 DEF Tips
<1>4. Rail /\ c \in Cids /\ Live \subseteq Cids /\ c \in log.opened
  BY AncOfLive DEF Books, DispInv
<1>5. /\ UNCHANGED <<deposits, credited, imports>> /\ log'.fund = log.fund /\ log'.opened = log.opened
      /\ fundedP' = [fundedP EXCEPT ![c] = g] /\ g \in Nat
      /\ Own(y, g, k) /\ y.imp = chan[c].imp /\ y.funding = chan[c].funding
      /\ OnlyRefunds(released, released', c)
      /\ OnlyAt(closing, closing', c) /\ (c \in DOMAIN closing' => k = "reconciled")
      /\ k = "reconciled" => c \in DOMAIN closing' /\ ClosedOk(c, y, g, chain'[c], released', closing'[c])
  BY OwnFacts DEF Steps
<1>6. Rail'
  <2>1. DOMAIN closing' \subseteq log.opened
    BY <1>4, <1>5 DEF Rail, OnlyAt
  <2>2. \A d \in DOMAIN closing' : d \in Live' => KindIn(chain', d) = "reconciled"
    BY <1>1, <1>2, <1>4, <1>5 DEF Rail, OnlyAt
  <2>3. fundedP' \in [Cids -> Nat] /\ \A d \in Cids : d \notin log.opened => fundedP'[d] = 0
    BY <1>4, <1>5 DEF Rail
  <2>4. \A a \in DOMAIN released' : released'[a] \in Nat
    BY <1>5 DEF OnlyRefunds
  <2> QED BY <1>4, <1>5, <2>1, <2>2, <2>3, <2>4 DEF Rail
<1>7. \A a, b \in Tips' : Anc(imports', a) \cap Anc(imports', b) # {} => a = b
  BY <1>3, <1>5 DEF Books
<1>8. ASSUME NEW d \in Live
      PROVE  Own(chan'[d], fundedP'[d], KindIn(chain', d)) /\ Heir(d, chan'[d], imports', fundedP')
  <2>1. Own(chan[d], fundedP[d], KindIn(chain, d)) /\ Heir(d, chan[d], imports, fundedP)
        /\ fundedP \in [Cids -> Nat]
    BY <1>4 DEF Books, Rail
  <2>2. Own(chan'[d], fundedP'[d], KindIn(chain', d))
    BY <1>1, <1>2, <1>4, <1>5, <2>1
  <2>3. chan'[d].imp = chan[d].imp
    BY <1>1, <1>5
  <2>4. SumOver(fundedP', Anc(imports, d) \ {d}) = SumOver(fundedP, Anc(imports, d) \ {d})
    BY <1>4, StepApart
  <2> QED BY <1>5, <2>1, <2>2, <2>3, <2>4 DEF Heir
<1>9. ASSUME NEW d \in Tips' PROVE Float(d, chan'[d], imports', deposits', credited')
  <2>1. d \in Live /\ Float(d, chan[d], imports, deposits, credited)
    BY <1>3 DEF Books, Tips
  <2>2. chan'[d].funding = chan[d].funding
    BY <1>1, <1>5, <2>1
  <2> QED BY <1>5, <2>1, <2>2 DEF Float
<1>10. ASSUME NEW d \in Live, KindIn(chain', d) = "reconciled"
       PROVE  d \in DOMAIN closing' /\ ClosedOk(d, chan'[d], fundedP'[d], chain'[d], released', closing'[d])
  <2>1. CASE d = c
    <3>1. fundedP'[c] = g
      BY <1>4, <1>5 DEF Rail
    <3> QED BY <1>1, <1>2, <1>5, <1>10, <2>1, <3>1
  <2>2. CASE d # c
    <3>1. KindIn(chain, d) = "reconciled" /\ d \in DOMAIN chain
      BY <1>2, <1>10, <2>2 DEF KindIn
    <3>2. d \in DOMAIN closing /\ ClosedOk(d, chan[d], fundedP[d], chain[d], released, closing[d])
      BY <3>1 DEF Books
    <3>3. d \in DOMAIN closing' /\ closing'[d] = closing[d] /\ chain'[d] = chain[d]
      BY <1>2, <1>5, <2>2, <3>1, <3>2 DEF OnlyAt
    <3>4. fundedP'[d] = fundedP[d] /\ chan'[d] = chan[d]
      BY <1>1, <1>4, <1>5, <2>2 DEF Rail
    <3>5. Refunds(released', {d}) = Refunds(released, {d})
      BY <1>4, <2>2, StepApart
    <3> QED BY <3>2, <3>3, <3>4, <3>5 DEF ClosedOk
  <2> QED BY <2>1, <2>2
<1>11. ASSUME NEW d \in Cids \ Tips' PROVE Covered(d, imports', released', fundedP', deposits', log'.fund)
  <2>1. d # c \/ c \notin Tips
    BY <1>3
  <2> QED BY <1>5, <2>1, StepApart
<1>12. ASSUME NEW d \in DOMAIN closing' \ Live'
       PROVE  closing'[d] \in Nat /\ BpDenom * SumOver(fundedP', Anc(imports', d)) <= Total(Accruals(closing'[d]))
  <2>1. d # c /\ d \in DOMAIN closing /\ closing'[d] = closing[d]
    BY <1>1, <1>5 DEF OnlyAt
  <2>2. d \in Cids
    BY <1>4, <2>1 DEF Rail, DispInv, LogOk
  <2>3. SumOver(fundedP', Anc(imports, d)) = SumOver(fundedP, Anc(imports, d))
    BY <2>1, <2>2, StepApart
  <2>4. closing[d] \in Nat /\ BpDenom * SumOver(fundedP, Anc(imports, d)) <= Total(Accruals(closing[d]))
    BY <2>1, ClosedDraws
  <2> QED BY <1>5, <2>1, <2>3, <2>4
<1> QED BY <1>1, <1>6, <1>7, <1>8, <1>9, <1>10, <1>11, <1>12 DEF Books

\* The channel changes, and its watermark if it is open; no disposition does.
LEMMA QuietStep ==
  ASSUME DispInv, Books, NEW c \in Live, NEW y, NEW g, Own(y, g, KindIn(chain, c)),
         y.imp = chan[c].imp, y.funding = chan[c].funding, Basis(chan[c]) <= Basis(y),
         chan' = [chan EXCEPT ![c] = y], fundedP' = [fundedP EXCEPT ![c] = g],
         KindIn(chain, c) # "none" => g = fundedP[c],
         UNCHANGED <<chain, deposits, credited, imports, released, closing, log>>
  PROVE  Books'
<1> DEFINE k == KindIn(chain, c)
<1>1. Rail
  BY DEF Books
<1>2. k = "reconciled" => c \in DOMAIN closing' /\ ClosedOk(c, y, g, chain'[c], released', closing'[c])
  <2> SUFFICES ASSUME k = "reconciled"
               PROVE  c \in DOMAIN closing' /\ ClosedOk(c, y, g, chain'[c], released', closing'[c])
    OBVIOUS
  <2>1. c \in DOMAIN closing /\ ClosedOk(c, chan[c], fundedP[c], chain[c], released, closing[c])
    BY DEF Books
  <2>2. g = fundedP[c]
    OBVIOUS
  <2>3. closing[c] <= Basis(chan[c]) /\ closing[c] \in Nat
    BY <2>1 DEF ClosedOk
  <2>4. Basis(chan[c]) \in Nat /\ Basis(y) \in Nat
    <3>1. Own(chan[c], fundedP[c], KindIn(chain, c))
      BY DEF Books
    <3> QED BY <3>1, OwnFacts
  <2>5. closing[c] <= Basis(y)
    BY <2>3, <2>4
  <2>6. ClosedOk(c, y, g, chain[c], released, closing[c])
    BY <2>1, <2>2, <2>5 DEF ClosedOk
  <2> QED BY <2>1, <2>6
<1>3. OnlyRefunds(released, released', c)
  BY <1>1 DEF OnlyRefunds, Rail
<1>4. OnlyAt(chain, chain', c) /\ OnlyAt(closing, closing', c)
  BY DEF OnlyAt
<1>5. c \in DOMAIN closing' => k = "reconciled"
  BY <1>1 DEF Rail
<1>6. Steps(c, y, g, k)
  BY <1>2, <1>3, <1>4, <1>5 DEF Steps
<1> QED BY <1>6, StepBooks

\* The own books of a live channel.
LEMMA LiveOwn ==
  ASSUME DispInv, Books, NEW c \in Live
  PROVE  /\ Own(chan[c], fundedP[c], KindIn(chain, c)) /\ DOMAIN chan[c] = ChanFields /\ c \in Cids
         /\ fundedP = [fundedP EXCEPT ![c] = fundedP[c]] /\ fundedP \in [Cids -> Nat]
         /\ Basis(chan[c]) \in Nat
<1>1. Own(chan[c], fundedP[c], KindIn(chain, c)) /\ fundedP \in [Cids -> Nat]
  BY DEF Books, Rail
<1>2. c \in Cids
  BY AncOfLive
<1> QED BY <1>1, <1>2 DEF Own, MeterOk

\* A slice stays within the prepaid window.
LEMMA AcceptSliceBooks ==
  ASSUME DispInv, Books, NEW c \in Live, NEW amt \in 1..MaxAmt, AcceptSlice(c, amt)
  PROVE  Books'
<1> DEFINE x == chan[c]
           y == [x EXCEPT !.cum = @ + amt, !.bal = @ + amt]
           f == fundedP[c]
           k == KindIn(chain, c)
<1>1. /\ Own(x, f, k) /\ DOMAIN x = ChanFields /\ Basis(x) \in Nat
      /\ fundedP = [fundedP EXCEPT ![c] = f]
  BY LiveOwn
<1>2. /\ chan' = [chan EXCEPT ![c] = y] /\ x.bal + amt <= 0
      /\ UNCHANGED <<chain, deposits, credited, imports, released, closing, log, fundedP>>
  BY DEF AcceptSlice, railVars, aux
<1>3. /\ DOMAIN y = ChanFields /\ y.cum = x.cum + amt /\ y.bal = x.bal + amt
      /\ y.status = x.status /\ y.ckpts = x.ckpts /\ y.op = x.op
      /\ y.funding = x.funding /\ y.imp = x.imp /\ y.settled = x.settled /\ y.rounds = x.rounds
  BY <1>1 DEF ChanFields
<1>4. amt \in Nat
  BY BoundAssumption
<1> HIDE DEF x, y, f, k
<1>5. Basis(y) = Basis(x)
  BY <1>3 DEF Basis
<1>6. MeterOk(x)
  BY <1>1 DEF Own
<1>7. Metered(x, y)
  BY <1>2, <1>3, <1>4, <1>5, <1>6 DEF MeterOk, Metered
<1>8. Own(y, f, k)
  BY <1>1, <1>7, OwnMetered
<1>9. Basis(x) <= Basis(y)
  BY <1>1, <1>5
<1> QED BY <1>1, <1>2, <1>3, <1>8, <1>9, QuietStep DEF x, f, k

\* A checkpoint raises the evidenced basis up to the metered total.
LEMMA CheckpointBooks ==
  ASSUME DispInv, Books, NEW c \in Live, NEW total \in 0..chan[c].cum, Checkpoint(c, total)
  PROVE  Books'
<1> DEFINE x == chan[c]
           n == Len(x.ckpts) + 1
           q == Append(x.ckpts, total)
           y == [x EXCEPT !.ckpts = q, !.op = n]
           f == fundedP[c]
           k == KindIn(chain, c)
<1>1. /\ Own(x, f, k) /\ DOMAIN x = ChanFields /\ Basis(x) \in Nat
      /\ fundedP = [fundedP EXCEPT ![c] = f]
  BY LiveOwn
<1>2. /\ chan' = [chan EXCEPT ![c] = y] /\ total >= Basis(x)
      /\ UNCHANGED <<chain, deposits, credited, imports, released, closing, log, fundedP>>
  BY DEF Checkpoint, BasisCum, Basis, railVars, aux
<1>3. /\ DOMAIN y = ChanFields /\ y.ckpts = q /\ y.op = n
      /\ y.status = x.status /\ y.cum = x.cum /\ y.bal = x.bal
      /\ y.funding = x.funding /\ y.imp = x.imp /\ y.settled = x.settled /\ y.rounds = x.rounds
  BY <1>1 DEF ChanFields
<1>4. MeterOk(x)
  BY <1>1 DEF Own
<1>5. x.ckpts \in Seq(Nat) /\ x.cum \in Nat
  BY <1>4 DEF MeterOk
<1>6. total \in Nat /\ total <= x.cum
  BY <1>5
<1>7. n \in Nat \ {0} /\ q \in Seq(Nat) /\ Len(q) = n /\ q[n] = total
  BY <1>5, <1>6
<1> HIDE DEF x, y, f, k, n, q
<1>8. Basis(y) = total
  BY <1>3, <1>7 DEF Basis
<1>9. Metered(x, y)
  BY <1>1, <1>2, <1>3, <1>4, <1>6, <1>7, <1>8 DEF MeterOk, Metered
<1>10. Own(y, f, k)
  BY <1>1, <1>9, OwnMetered
<1>11. Basis(x) <= Basis(y)
  BY <1>1, <1>2, <1>6, <1>8
<1> QED BY <1>1, <1>2, <1>3, <1>10, <1>11, QuietStep DEF x, f, k

\* An open channel has no disposition.
LEMMA OpenKind ==
  ASSUME DispInv, Books, NEW c \in Live, CanDraw(c) PROVE KindIn(chain, c) = "none"
<1>1. RoundsOk(chan[c], fundedP[c], KindIn(chain, c))
  BY DEF Books, Own
<1> QED BY <1>1 DEF RoundsOk, CanDraw

\* A refused interim draw locks its round.
LEMMA DrawRefusedBooks ==
  ASSUME DispInv, Books, NEW c \in Live, DrawRefused(c)
  PROVE  Books'
<1> DEFINE x == chan[c]
           y == [x EXCEPT !.rounds = Put(@, x.op, NewRound(c))]
           f == fundedP[c]
<1>1. Own(x, f, KindIn(chain, c)) /\ Basis(x) \in Nat /\ fundedP = [fundedP EXCEPT ![c] = f]
  BY LiveOwn
<1>2. CanDraw(c) /\ InFlight(c) = {} /\ HasNewRound(c)
  BY DEF DrawRefused
<1>3. KindIn(chain, c) = "none"
  BY <1>2, OpenKind
<1>4. Flight(x) = {} /\ x.op # 0 /\ x.op \notin DOMAIN x.rounds
  BY <1>2 DEF InFlight, Flight, HasNewRound
<1>5. /\ Own(y, f, "none") /\ y.imp = x.imp /\ y.funding = x.funding /\ Basis(y) = Basis(x)
  BY <1>1, <1>3, <1>4, OwnLocked
<1>6. /\ chan' = [chan EXCEPT ![c] = y]
      /\ UNCHANGED <<chain, deposits, credited, imports, released, closing, log, fundedP>>
  BY <1>2 DEF DrawRefused, DrawRounds, railVars, aux
<1> HIDE DEF x, y, f
<1>7. Basis(x) <= Basis(y)
  BY <1>1, <1>5
<1> QED BY <1>1, <1>3, <1>5, <1>6, <1>7, QuietStep DEF x, f

\* The round that is drawn, and the watermark its advance leaves.
LEMMA InterimRound ==
  ASSUME DispInv, Books, NEW c \in Live, NEW final, InterimDraw(c, final),
         NEW x, x = [chan[c] EXCEPT !.rounds = DrawRounds(c)], NEW ref, ref = DrawnRound(c)
  PROVE  /\ Own(x, fundedP[c], "none") /\ ref \in Flight(x)
         /\ x.imp = chan[c].imp /\ x.funding = chan[c].funding /\ Basis(x) = Basis(chan[c])
         /\ KindIn(chain, c) = "none"
<1>1. /\ Own(chan[c], fundedP[c], KindIn(chain, c)) /\ DOMAIN chan[c] = ChanFields
  BY LiveOwn
<1>2. CanDraw(c) /\ (InFlight(c) # {} \/ HasNewRound(c)) /\ InFlight(c) = Flight(chan[c])
  BY DEF InterimDraw, InFlight, Flight
<1>3. KindIn(chain, c) = "none"
  BY <1>2, OpenKind
<1>4. CASE InFlight(c) # {}
  <2> DEFINE w == chan[c]
  <2>1. x = [w EXCEPT !.rounds = w.rounds] /\ ref \in Flight(w)
    BY <1>2, <1>4 DEF DrawRounds, DrawnRound
  <2>2. MeterOk(w) /\ DOMAIN w = ChanFields /\ Own(w, fundedP[c], "none")
    BY <1>1, <1>3 DEF Own
  <2> HIDE DEF w
  <2>3. /\ DOMAIN x = ChanFields /\ x.status = w.status /\ x.ckpts = w.ckpts /\ x.op = w.op
        /\ x.cum = w.cum /\ x.bal = w.bal
        /\ x.funding = w.funding /\ x.imp = w.imp /\ x.settled = w.settled /\ x.rounds = w.rounds
    BY <2>1, <2>2 DEF ChanFields
  <2>4. Basis(x) = Basis(w) /\ Flight(x) = Flight(w)
    BY <2>3 DEF Basis, Flight
  <2>5. Metered(w, x)
    BY <2>2, <2>3, <2>4 DEF MeterOk, Metered
  <2>6. Own(x, fundedP[c], "none")
    BY <2>2, <2>5, OwnMetered
  <2> QED BY <1>3, <2>1, <2>3, <2>4, <2>6 DEF w
<1>5. CASE InFlight(c) = {}
  <2>1. chan[c].op # 0 /\ chan[c].op \notin DOMAIN chan[c].rounds
    BY <1>2, <1>5 DEF HasNewRound
  <2> DEFINE w == [chan[c] EXCEPT !.rounds = Put(@, chan[c].op, NewRound(c))]
  <2>2. x = w /\ ref = chan[c].op
    BY <1>5 DEF DrawRounds, DrawnRound
  <2>3. Flight(chan[c]) = {} /\ Own(chan[c], fundedP[c], "none")
    BY <1>1, <1>2, <1>3, <1>5
  <2>4. /\ Own(w, fundedP[c], "none") /\ chan[c].op \in Flight(w)
        /\ w.imp = chan[c].imp /\ w.funding = chan[c].funding /\ Basis(w) = Basis(chan[c])
    BY <2>1, <2>3, OwnLocked
  <2> HIDE DEF w
  <2> QED BY <1>3, <2>2, <2>4
<1> QED BY <1>4, <1>5

\* An interim draw advances the watermark to its target, and a final one is folded.
LEMMA InterimDrawBooks ==
  ASSUME DispInv, Books, NEW c \in Live, NEW final \in BOOLEAN, InterimDraw(c, final)
  PROVE  Books'
<1> DEFINE x == [chan[c] EXCEPT !.rounds = DrawRounds(c)]
           ref == DrawnRound(c)
           z == x.rounds[ref]
           y == IF final THEN FoldRound(x, ref) ELSE OnRail(x, ref)
           f == fundedP[c]
           g == z.target
<1>1. /\ chan' = [chan EXCEPT ![c] = y]
      /\ UNCHANGED <<chain, deposits, credited, imports, released, closing, log>>
      /\ IF z.drawn THEN fundedP' = fundedP ELSE AdvanceMeed(c, g)
  BY DEF InterimDraw, OnRail, aux
<1>2. /\ Own(x, f, "none") /\ ref \in Flight(x) /\ KindIn(chain, c) = "none"
      /\ x.imp = chan[c].imp /\ x.funding = chan[c].funding /\ Basis(x) = Basis(chan[c])
  BY InterimRound
<1>3. /\ FlightOk(x, z, f) /\ z.drawn \in BOOLEAN /\ g \in Nat /\ f <= g
  BY <1>2, InFlightOk
<1> HIDE DEF x, ref
<1>4. /\ Own(y, g, "none") /\ y.imp = x.imp /\ y.funding = x.funding /\ Basis(y) = Basis(x)
  BY <1>2, OwnFolded, OwnDrawn
<1> HIDE DEF z, y, g, f
<1>5. /\ fundedP = [fundedP EXCEPT ![c] = f] /\ fundedP \in [Cids -> Nat] /\ Basis(chan[c]) \in Nat
  BY LiveOwn DEF f
<1>6. fundedP' = [fundedP EXCEPT ![c] = g]
  <2>1. CASE z.drawn
    <3>1. f = g
      BY <1>3, <2>1 DEF FlightOk, g
    <3> QED BY <1>1, <1>5, <2>1, <3>1
  <2>2. CASE ~z.drawn
    <3>1. fundedP' = [fundedP EXCEPT ![c] = IF g > @ THEN g ELSE @]
      BY <1>1, <2>2 DEF AdvanceMeed
    <3>2. fundedP[c] \in Nat /\ fundedP[c] <= g
      BY <1>2, <1>3, OwnFacts DEF f
    <3>3. (IF g > fundedP[c] THEN g ELSE fundedP[c]) = g
      BY <1>3, <3>2
    <3> QED BY <3>1, <3>3
  <2> QED BY <1>3, <2>1, <2>2
<1>7. Basis(chan[c]) <= Basis(y)
  BY <1>2, <1>4, <1>5
<1> QED BY <1>1, <1>2, <1>4, <1>6, <1>7, QuietStep

\* A close whose record fails has drained the round in flight and moved no value.
LEMMA CloseNotRecordedBooks ==
  ASSUME "reconcile" \notin MayFail, DispInv, Books, NEW c \in Live, NEW ref, NEW ok \in BOOLEAN,
         CloseNotRecorded(c, ref, ok)
  PROVE  Books'
<1> DEFINE y == Drained(c)
           f == fundedP[c]
           k == KindIn(chain, c)
<1>1. /\ chan' = [chan EXCEPT ![c] = y]
      /\ UNCHANGED <<chain, deposits, credited, imports, released, closing, log, fundedP>>
  BY DEF CloseNotRecorded, aux
<1>2. /\ Own(chan[c], f, k) /\ Basis(chan[c]) \in Nat /\ fundedP = [fundedP EXCEPT ![c] = f]
  BY LiveOwn
<1>3. Own(y, f, k) /\ y.imp = chan[c].imp /\ y.funding = chan[c].funding /\ Basis(y) = Basis(chan[c])
  BY <1>2, OwnDrained
<1> HIDE DEF y
<1>4. Basis(chan[c]) <= Basis(y)
  BY <1>2, <1>3
<1> QED BY <1>1, <1>2, <1>3, <1>4, QuietStep

\* A close draw on a closed channel.
LEMMA OwnAdvanced ==
  ASSUME NEW x, NEW f, Own(x, f, "reconciled"), NEW p \in Nat,
         Total(x.imp.settled) + BpDenom * p <= Total(Accruals(Basis(x))),
         NEW g, g = IF p > f THEN p ELSE f
  PROVE  Own(x, g, "reconciled") /\ Total(x.imp.settled) + BpDenom * g <= Total(Accruals(Basis(x)))
<1>1. MeterOk(x) /\ RoundsOk(x, f, "reconciled") /\ f \in Nat /\ Total(x.settled) \in Nat
      /\ Total(x.imp.settled) \in Nat /\ BpDenom * f \in Nat
      /\ Total(x.imp.settled) + BpDenom * f <= Total(Accruals(Basis(x)))
  BY OwnFacts
<1>2. g \in Nat /\ f <= g
  BY <1>1
<1>3. BpDenom * g \in Nat /\ BpDenom * f <= BpDenom * g
  BY <1>1, <1>2, ChainRoles
<1>4. Flight(x) = {} /\ Total(x.settled) <= Total(x.imp.settled) + BpDenom * f
  BY <1>1 DEF RoundsOk
<1>5. Total(x.settled) <= Total(x.imp.settled) + BpDenom * g
  <2> DEFINE u == BpDenom * f
             v == BpDenom * g
  <2>1. u \in Nat /\ v \in Nat /\ u <= v /\ Total(x.settled) <= Total(x.imp.settled) + u
    BY <1>1, <1>3, <1>4
  <2> HIDE DEF u, v
  <2>2. Total(x.settled) <= Total(x.imp.settled) + v
    BY <1>1, <2>1
  <2> QED BY <2>2 DEF v
<1>6. RoundsOk(x, g, "reconciled")
  BY <1>1, <1>4, <1>5 DEF RoundsOk
<1>7. Total(x.imp.settled) + BpDenom * g <= Total(Accruals(Basis(x)))
  BY <1>1
<1> QED BY <1>1, <1>2, <1>6, <1>7 DEF Own

\* compute_pending_draw asks for no more than the channel's accruals.
LEMMA PendingDrawFits ==
  ASSUME NEW c, NEW f, NEW k, Own(chan[c], f, k)
  PROVE  /\ PendingDraw(c) \in Nat
         /\ Total(chan[c].imp.settled) + BpDenom * PendingDraw(c) <= Total(Accruals(Basis(chan[c])))
<1> DEFINE x == chan[c]
           b == Basis(x)
           i == x.imp.settled
           n == OutstandingMeedPerRole(Accruals(b), i)
           d == DivideRound(n, Unity)
           T == Total(Accruals(b))
<1>1. /\ b \in Nat /\ Below(i, b) /\ Total(i) \in Nat /\ BpDenom * f \in Nat /\ T \in Nat
      /\ Total(i) + BpDenom * f <= T
  BY OwnFacts
<1>2. PendingDraw(c) = 0 \/ PendingDraw(c) = d.p
  BY DEF PendingDraw, CumulativeTargetP, BasisCum, Basis
<1> HIDE DEF b, i, d, x
<1>3. Total(n) \in Nat /\ T = Total(i) + Total(n) /\ d.p \in Nat /\ BpDenom * d.p <= Total(n)
  BY <1>1, OutstandingFrom DEF d
<1>4. BpDenom * d.p \in Nat /\ BpDenom * 0 = 0
  BY <1>3, ChainRoles
<1> HIDE DEF n, T
<1> DEFINE q == BpDenom * d.p
           h == BpDenom * f
<1>5. q \in Nat /\ q <= Total(n) /\ h \in Nat /\ Total(i) + h <= T
  BY <1>1, <1>3, <1>4
<1> HIDE DEF q, h
<1>6. Total(i) + q <= T /\ Total(i) + 0 <= T
  BY <1>1, <1>3, <1>5
<1>7. PendingDraw(c) \in Nat /\ Total(i) + BpDenom * PendingDraw(c) <= T
  BY <1>2, <1>3, <1>4, <1>6 DEF q
<1> QED BY <1>7 DEF T, b, i, x

\* A chain intent stops the metering.
LEMMA ChainCloseBooks ==
  ASSUME DispInv, Books, NEW c \in Live, NEW ref, ChainClose(c, ref)
  PROVE  Books'
<1> DEFINE x == chan[c]
           y == Settling(x)
           f == fundedP[c]
           k == KindIn(chain, c)
<1>1. /\ Own(x, f, k) /\ Basis(x) \in Nat /\ fundedP = [fundedP EXCEPT ![c] = f]
  BY LiveOwn
<1>2. /\ chan' = [chan EXCEPT ![c] = y] /\ Flight(x) = {}
      /\ UNCHANGED <<deposits, credited, imports, released, closing, log, fundedP>>
      /\ chain' = IF Prior(c) = "none" THEN Put(chain, c, Pending) ELSE chain
  BY DEF ChainClose, CanChain, InFlight, Flight, railVars, aux
<1>3. CASE Prior(c) # "none"
  <2>1. Own(y, f, k) /\ y.imp = x.imp /\ y.funding = x.funding /\ Basis(y) = Basis(x)
    BY <1>1, OwnSettling
  <2>2. Basis(x) <= Basis(y)
    BY <1>1, <2>1
  <2> HIDE DEF y
  <2> QED BY <1>1, <1>2, <1>3, <2>1, <2>2, QuietStep
<1>4. CASE Prior(c) = "none"
  <2>1. k = "none"
    BY <1>4 DEF Prior, KindIn
  <2>2. Own(y, f, "pending") /\ y.imp = x.imp /\ y.funding = x.funding
    BY <1>1, <1>2, <2>1, OwnSettling
  <2>3. chain' = Put(chain, c, Pending) /\ Pending.kind = "pending"
    BY <1>2, <1>4, KindsOf
  <2>4. KindIn(chain', c) = "pending" /\ OnlyAt(chain, chain', c)
    BY <2>3 DEF KindIn, Put, OnlyAt
  <2>5. Rail
    BY DEF Books
  <2>6. OnlyRefunds(released, released', c)
    BY <1>2, <2>5 DEF OnlyRefunds, Rail
  <2>7. OnlyAt(closing, closing', c) /\ c \notin DOMAIN closing'
    BY <1>2, <2>1, <2>5 DEF OnlyAt, Rail
  <2>8. fundedP' = [fundedP EXCEPT ![c] = f]
    BY <1>1, <1>2
  <2>9. Steps(c, y, f, "pending")
    BY <1>2, <2>1, <2>2, <2>4, <2>6, <2>7, <2>8 DEF Steps
  <2> QED BY <2>9, StepBooks
<1> QED BY <1>3, <1>4

\* A repeated close draws at most what the first one pinned.
LEMMA CloseAgainBooks ==
  ASSUME DispInv, Books, NEW c \in Live, NEW ref, NEW ok \in BOOLEAN, CloseAgain(c, ref, ok)
  PROVE  Books'
<1> DEFINE x == chan[c]
           y == Settling(x)
           f == fundedP[c]
           k == KindIn(chain, c)
           p == chain[c].draw
           draws == ok /\ DispositionOf(c) = "reconciled" /\ chain[c].draw # 0
<1>1. /\ Own(x, f, k) /\ Basis(x) \in Nat /\ fundedP = [fundedP EXCEPT ![c] = f]
  BY LiveOwn
<1>2. /\ chan' = [chan EXCEPT ![c] = y]
      /\ UNCHANGED <<deposits, credited, imports, released, closing, log>>
      /\ IF draws THEN AdvanceMeed(c, p) /\ chain' = [chain EXCEPT ![c].draw = 0]
         ELSE UNCHANGED <<fundedP, chain>>
  BY DEF CloseAgain, PinnedDraw, aux
<1>3. Own(y, f, k) /\ y.imp = x.imp /\ y.funding = x.funding /\ Basis(y) = Basis(x)
  BY <1>1, OwnSettling
<1>4. CASE ~draws
  <2>1. Basis(x) <= Basis(y)
    BY <1>1, <1>3
  <2> HIDE DEF y
  <2> QED BY <1>1, <1>2, <1>3, <1>4, <2>1, QuietStep
<1>5. CASE draws
  <2> DEFINE g == IF p > f THEN p ELSE f
             t == closing[c]
             q == chain'[c]
  <2>1. k = "reconciled" /\ c \in DOMAIN chain /\ chain[c].kind = "reconciled"
    BY <1>5 DEF DispositionOf, KindIn
  <2>2. c \in DOMAIN closing /\ ClosedOk(c, x, f, chain[c], released, t)
    BY <2>1 DEF Books
  <2>3. /\ p \in Nat /\ t \in Nat /\ t <= Basis(x) /\ Refunds(released, {c}) + t <= x.funding
        /\ Total(x.imp.settled) + BpDenom * p <= Total(Accruals(t))
        /\ Total(x.imp.settled) + BpDenom * f <= Total(Accruals(t))
    BY <2>2 DEF ClosedOk
  <2>4. Total(x.imp.settled) + BpDenom * p <= Total(Accruals(Basis(x)))
    <3> DEFINE u == BpDenom * p
    <3>1. u \in Nat
      BY <2>3, ChainRoles
    <3>2. Total(Accruals(t)) <= Total(Accruals(Basis(x))) /\ Total(Accruals(t)) \in Nat
          /\ Total(Accruals(Basis(x))) \in Nat
      BY <1>1, <2>3, AccrualsGrow, ChainAccruals
    <3>3. Total(x.imp.settled) \in Nat
      BY <1>1, OwnFacts
    <3>4. Total(x.imp.settled) + u <= Total(Accruals(t))
      BY <2>3
    <3> HIDE DEF u, x, t
    <3>5. Total(x.imp.settled) + u <= Total(Accruals(Basis(x)))
      BY <3>1, <3>2, <3>3, <3>4
    <3> QED BY <3>5 DEF u
  <2>5. DOMAIN chain[c] = DispFields
    BY <2>1, LinkFields DEF DispInv
  <2>6. /\ q.kind = "reconciled" /\ q.draw = 0 /\ KindIn(chain', c) = "reconciled"
        /\ OnlyAt(chain, chain', c)
    <3>1. q = [chain[c] EXCEPT !.draw = 0] /\ c \in DOMAIN chain' /\ OnlyAt(chain, chain', c)
      BY <1>2, <1>5, <2>1 DEF OnlyAt
    <3>2. q.kind = "reconciled" /\ q.draw = 0
      BY <2>1, <2>5, <3>1 DEF DispFields
    <3> QED BY <3>1, <3>2 DEF KindIn
  <2>7. fundedP' = [fundedP EXCEPT ![c] = g]
    BY <1>2, <1>5 DEF AdvanceMeed
  <2> HIDE DEF x, y, f, k, p, q, t
  <2>8. Own(y, g, "reconciled")
    BY <1>3, <2>1, <2>3, <2>4, OwnAdvanced
  <2>9. Total(x.imp.settled) + BpDenom * g <= Total(Accruals(t))
    BY <2>3
  <2>10. BpDenom * 0 = 0 /\ Total(x.imp.settled) \in Nat /\ BpDenom * f \in Nat /\ Total(Accruals(t)) \in Nat
    BY <1>1, <2>3, OwnFacts, ChainRoles, ChainAccruals
  <2>11. Total(x.imp.settled) + BpDenom * 0 <= Total(Accruals(t))
    BY <2>3, <2>10
  <2>12. ClosedOk(c, y, g, q, released', t)
    BY <1>2, <1>3, <2>3, <2>6, <2>9, <2>11 DEF ClosedOk
  <2>13. Rail
    BY DEF Books
  <2>14. OnlyRefunds(released, released', c) /\ OnlyAt(closing, closing', c)
    BY <1>2, <2>13 DEF OnlyRefunds, Rail, OnlyAt
  <2>15. closing' = closing /\ c \in DOMAIN closing'
    BY <1>2, <2>2
  <2>16. Steps(c, y, g, "reconciled")
    BY <1>2, <1>3, <2>1, <2>6, <2>7, <2>8, <2>12, <2>14, <2>15 DEF Steps, x, t, q, k
  <2> QED BY <2>16, StepBooks
<1> QED BY <1>4, <1>5

\* A first plain close refunds and draws against the same evidenced total.
LEMMA FirstPlainCloseBooks ==
  ASSUME DispInv, Books, NEW c \in Live, NEW ref \in CloseRefs, NEW ok \in BOOLEAN, NEW also \in BOOLEAN,
         FirstPlainClose(c, ref, ok, also)
  PROVE  Books'
<1> DEFINE x == chan[c]
           w == Drained(c)
           y == Settling(w)
           f == fundedP[c]
           k == KindIn(chain, c)
           p == PendingDraw(c)
           t == Basis(x)
           g == IF also THEN IF p > f THEN p ELSE f ELSE f
           R == IF ok THEN Released(c, ref) ELSE released
           d == Reconciled(IF also THEN 0 ELSE p)
<1>1. /\ Own(x, f, k) /\ Basis(x) \in Nat /\ fundedP = [fundedP EXCEPT ![c] = f]
  BY LiveOwn
<1>2. /\ chan' = [chan EXCEPT ![c] = y] /\ FirstClose(c) /\ released' = R
      /\ UNCHANGED <<deposits, credited, imports>>
      /\ chain' = Put(chain, c, d) /\ closing' = Put(closing, c, t)
      /\ log' = Recorded(log, c, Reconciled(p))
      /\ IF also THEN AdvanceMeed(c, p) ELSE fundedP' = fundedP
  BY DEF FirstPlainClose, BasisCum, Basis
<1>3. k \in {"none", "pending"}
  BY <1>2, FirstCloseKind
<1>4. Own(w, f, k) /\ Flight(w) = {} /\ w.imp = x.imp /\ w.funding = x.funding /\ Basis(w) = t
  BY <1>1, OwnDrained
<1>5. p \in Nat /\ Total(x.imp.settled) + BpDenom * p <= Total(Accruals(t))
  BY <1>1, PendingDrawFits
<1>6. d.kind = "reconciled" /\ (d.draw = 0 \/ d.draw = p)
  BY KindsOf
<1>7. log'.fund = log.fund /\ log'.opened = log.opened
  <2> DEFINE q == Reconciled(p)
  <2>1. LogOk(log) /\ LinksOk(log.disp, imports) /\ c \in log.opened
    BY DEF DispInv
  <2>2. q.kind # "committed" /\ q.kind \in DispKinds /\ DOMAIN q = DispFields
    BY KindsOf
  <2> HIDE DEF q
  <2>3. Recorded(log, c, q).opened = log.opened /\ Recorded(log, c, q).fund = log.fund
    BY <2>1, <2>2, RecordedIs
  <2> QED BY <1>2, <2>3 DEF q
<1>8. R = Released(c, ref) \/ R = released
  OBVIOUS
<1> HIDE DEF R
<1>9. Refunds(R, {c}) \in Nat /\ Refunds(R, {c}) + t <= x.funding /\ OnlyRefunds(released, R, c)
  <2>1. k # "reconciled"
    BY <1>3
  <2>2. /\ Refunds(R, {c}) \in Nat /\ Refunds(R, {c}) + Basis(chan[c]) <= chan[c].funding
        /\ DOMAIN released \subseteq DOMAIN R
        /\ \A a \in DOMAIN released : R[a] = released[a] /\ a[1] # c
        /\ \A a \in DOMAIN R : a \in DOMAIN released \/ a[1] = c
        /\ \A a \in DOMAIN R : R[a] \in Nat
    BY <1>8, <2>1, RefundFits, Zenon
  <2> QED BY <2>2 DEF OnlyRefunds
<1>10. fundedP' = [fundedP EXCEPT ![c] = g]
  BY <1>1, <1>2 DEF AdvanceMeed
<1>11. KindIn(chain', c) = "reconciled" /\ OnlyAt(chain, chain', c) /\ chain'[c] = d
       /\ OnlyAt(closing, closing', c) /\ c \in DOMAIN closing' /\ closing'[c] = t
  <2> HIDE DEF d, t
  <2> QED BY <1>2, <1>6 DEF Put, KindIn, OnlyAt
<1>12. Own(y, f, "reconciled") /\ y.imp = x.imp /\ y.funding = x.funding /\ Basis(y) = t
  <2> HIDE DEF w
  <2>1. k # "reconciled"
    BY <1>3
  <2> QED BY <1>4, <2>1, OwnSettling
<1> HIDE DEF x, y, w, f, k, p, t, d
<1>13. Total(x.imp.settled) + BpDenom * f <= Total(Accruals(t)) /\ t \in Nat
       /\ Total(x.imp.settled) \in Nat /\ BpDenom * f \in Nat /\ Total(Accruals(t)) \in Nat
  BY <1>1, OwnFacts DEF t
<1>14. Own(y, g, "reconciled") /\ Total(x.imp.settled) + BpDenom * g <= Total(Accruals(t))
  BY <1>5, <1>12, <1>13, OwnAdvanced
<1>15. d.draw \in Nat /\ Total(x.imp.settled) + BpDenom * d.draw <= Total(Accruals(t))
  <2>1. BpDenom * 0 = 0
    BY ChainRoles
  <2>2. Total(x.imp.settled) + BpDenom * 0 <= Total(Accruals(t))
    BY <1>13, <2>1
  <2> QED BY <1>5, <1>6, <2>2
<1>16. t <= Basis(y)
  BY <1>12, <1>13
<1> HIDE DEF g
<1>17. ClosedOk(c, y, g, d, R, t)
  BY <1>9, <1>12, <1>13, <1>14, <1>15, <1>16 DEF ClosedOk
<1>18. Steps(c, y, g, "reconciled")
  <2>1. "reconciled" # "committed" /\ KindIn(chain, c) # "committed"
    BY <1>3 DEF k
  <2>2. y.imp = chan[c].imp /\ y.funding = chan[c].funding
    BY <1>12 DEF x
  <2> QED BY <1>2, <1>7, <1>9, <1>10, <1>11, <1>14, <1>17, <2>1, <2>2 DEF Steps
<1> QED BY <1>18, StepBooks

-----------------------------------------------------------------------------
(* Deposits.                                                               *)

DepositList(d) == IsFiniteSet(DOMAIN d) /\ \A i \in DOMAIN d : d[i].amt \in Nat

\* The rail's deposits are a list of amounts.
LEMMA DepositsListed == Rail => DepositList(deposits)
<1> SUFFICES ASSUME Rail PROVE DepositList(deposits)
  OBVIOUS
<1>1. /\ DOMAIN deposits = 1..Len(deposits) /\ Len(deposits) \in Nat
      /\ \A j \in DOMAIN deposits : deposits[j] \in [to : log.opened, amt : Nat]
  BY SeqItems DEF Rail
<1> QED BY <1>1, RolesFinite DEF DepositList

\* The list e of deposits has those of d and maybe others.
Extends(d, e) ==
  /\ DepositList(d)
  /\ \A i \in DOMAIN d : i \in DOMAIN e /\ e[i] = d[i]

\* A further deposit changes no sum of earlier ones.
LEMMA DepsExtend ==
  ASSUME NEW d, NEW e, Extends(d, e), NEW I, I \subseteq DOMAIN d, NEW S
  PROVE  Deps(e, S, I) = Deps(d, S, I)
<1> DEFINE K == {i \in I : d[i].to \in S}
<1>5. {i \in I : e[i].to \in S} = K
  BY DEF Extends
<1>6. IsFiniteSet(K)
  <2>1. K \subseteq DOMAIN d
    OBVIOUS
  <2> QED BY <2>1, FS_Subset DEF Extends, DepositList
<1>7. IntOn(Amounts(d), K) /\ SameOn(Amounts(d), Amounts(e), K)
  BY DEF IntOn, SameOn, Amounts, Extends, DepositList
<1> HIDE DEF K
<1>8. SumOver(Amounts(d), K) = SumOver(Amounts(e), K)
  BY <1>6, <1>7, SumCong
<1> QED BY <1>5, <1>8 DEF Deps, K

\* A deposit on the rail is not credited yet.
LEMMA DepositBooks ==
  ASSUME DispInv, Books, NEW c \in Cids, NEW amt \in DepositAmts, Deposit(c, amt)
  PROVE  Books'
<1> DEFINE a == [to |-> c, amt |-> amt]
<1>1. /\ deposits' = Append(deposits, a) /\ acked[c] # {}
      /\ UNCHANGED <<chan, chain, credited, log, fundedP, released, imports, closing>>
  BY DEF Deposit, memory, aux
<1>2. Rail /\ deposits \in Seq([to : log.opened, amt : Nat]) /\ log.fund \subseteq DOMAIN deposits
      /\ credited \subseteq log.fund
  BY DEF Books, Rail
<1>3. c \in log.opened
  BY <1>1 DEF DispInv, AcksOk
<1>4. a \in [to : log.opened, amt : Nat]
  BY <1>3, BoundAssumption
<1> HIDE DEF a
<1>5. \A S : /\ Deps(deposits', S, credited) = Deps(deposits, S, credited)
             /\ Deps(deposits', S, log.fund) = Deps(deposits, S, log.fund)
  <2> SUFFICES ASSUME NEW S
               PROVE  /\ Deps(deposits', S, credited) = Deps(deposits, S, credited)
                      /\ Deps(deposits', S, log.fund) = Deps(deposits, S, log.fund)
    OBVIOUS
  <2> DEFINE e == deposits'
             T == [to : log.opened, amt : Nat]
  <2>1. e = Append(deposits, a) /\ deposits \in Seq(T) /\ a \in T
    BY <1>1, <1>2, <1>4
  <2> HIDE DEF e, T
  <2>4. \A i \in DOMAIN deposits : i \in DOMAIN e /\ e[i] = deposits[i]
    BY <2>1
  <2>6. credited \subseteq DOMAIN deposits /\ log.fund \subseteq DOMAIN deposits
    BY <1>2
  <2>7. Extends(deposits, e)
    BY <1>2, <2>4, DepositsListed DEF Extends
  <2>2. Deps(e, S, credited) = Deps(deposits, S, credited)
    BY <2>6, <2>7, DepsExtend
  <2>3. Deps(e, S, log.fund) = Deps(deposits, S, log.fund)
    BY <2>6, <2>7, DepsExtend
  <2> QED BY <2>2, <2>3 DEF e
<1>6. deposits' \in Seq([to : log.opened, amt : Nat]) /\ DOMAIN deposits \subseteq DOMAIN deposits'
  <2> DEFINE T == [to : log.opened, amt : Nat]
  <2>1. deposits \in Seq(T) /\ a \in T
    BY <1>2, <1>4
  <2> HIDE DEF T
  <2>2. deposits' \in Seq(T) /\ DOMAIN deposits \subseteq DOMAIN deposits'
    BY <1>1, <2>1
  <2> QED BY <2>2 DEF T
<1>7. Live' = Live /\ Tips' = Tips
  BY <1>1 DEF Live, Tips
<1>8. Rail'
  BY <1>1, <1>2, <1>6, <1>7 DEF Rail
<1>9. \A d \in Tips' : Float(d, chan'[d], imports', deposits', credited')
  BY <1>1, <1>5, <1>7 DEF Books, Float
<1>10. \A d \in Cids \ Tips' : Covered(d, imports', released', fundedP', deposits', log'.fund)
  BY <1>1, <1>5, <1>7 DEF Books, Covered
<1> QED BY <1>1, <1>7, <1>8, <1>9, <1>10 DEF Books

\* What the books are about is unchanged.
LEMMA UnchangedBooks ==
  ASSUME Books, UNCHANGED <<chan, chain, credited, log, deposits, fundedP, released, imports, closing>>
  PROVE  Books'
<1>1. Live' = Live /\ Tips' = Tips
  BY DEF Live, Tips
<1>2. Rail'
  BY <1>1 DEF Books, Rail
<1> QED BY <1>1, <1>2 DEF Books

\* An import follows from what a channel carries.
LEMMA AncVia ==
  ASSUME NEW E, E \subseteq Cids \X Cids, NEW c, NEW x, NEW s \in Cids, <<x, s>> \in E, c \in Anc(E, x)
  PROVE  c \in Anc(E, s)
<1>0. \A e \in E : e[1] \in Cids /\ e[2] \in Cids
  OBVIOUS
<1>1. x \in Cids /\ <<x, s>>[1] = x /\ <<x, s>>[2] = s
  OBVIOUS
<1>2. s \in Anc(E, s) /\ Anc(E, s) \subseteq Cids
  BY AncSelf
<1>3. x \in Anc(E, s)
  BY <1>1, <1>2, AncClosed
<1>4. \A e \in E : e[2] \in Anc(E, s) => e[1] \in Anc(E, s)
  BY <1>0, AncClosed
<1>5. Anc(E, x) \subseteq Anc(E, s)
  BY <1>2, <1>3, <1>4, AncLeast
<1> QED BY <1>5

\* resolve_chain_tip follows imports: the tip carries the channel.
LEMMA TipCarries ==
  ASSUME DispInv, NEW c \in Cids
  PROVE  c \in Anc(imports, ChainTip(c))
<1> DEFINE step == [x \in Cids |-> IF DispositionOf(x) = "committed" THEN chain[x].succ ELSE x]
           K == Cardinality(Cids)
           Runs(f) == f = [n \in 0..K |-> IF n = 0 THEN c ELSE step[f[n - 1]]]
           cur == CHOOSE f : Runs(f)
<1>1. ChainTip(c) = cur[K]
  BY DEF ChainTip
<1>2. K \in Nat
  BY CidAssumption, FS_CardinalityType
<1>3. \E f : Runs(f)
  <2> DEFINE v == [j \in {1} |-> step]
  <2> HIDE DEF step, K
  <2>1. PICK f : IsSweep(f, c, v, 1, K)
    BY <1>2, SweepExists
  <2>2. f = [n \in 0..K |-> IF n = 0 THEN c ELSE v[((n - 1) % 1) + 1][f[n - 1]]]
    BY <2>1 DEF IsSweep
  <2>3. \A n \in 0..K : n # 0 => v[((n - 1) % 1) + 1] = step
    BY <1>2
  <2>4. Runs(f)
    BY <2>2, <2>3
  <2> QED BY <2>4
<1>4. Runs(cur)
  BY <1>3
<1>5. cur[0] = c /\ \A n \in 0..K : n # 0 => cur[n] = step[cur[n - 1]]
  <2> HIDE DEF cur, step, K
  <2> QED BY <1>2, <1>4
<1>6. imports \subseteq Cids \X Cids
  BY AncOfLive
<1>7. ASSUME NEW x \in Cids, c \in Anc(imports, x) PROVE step[x] \in Cids /\ c \in Anc(imports, step[x])
  <2>1. CASE DispositionOf(x) # "committed"
    BY <1>7, <2>1
  <2>2. CASE DispositionOf(x) = "committed"
    <3>1. x \in DOMAIN chain /\ chain[x].kind = "committed"
      BY <2>2 DEF DispositionOf
    <3>2. <<x, chain[x].succ>> \in imports
      BY <3>1 DEF DispInv, LinksOk
    <3>3. chain[x].succ \in Cids /\ step[x] = chain[x].succ
      BY <1>6, <2>2, <3>2
    <3> QED BY <1>6, <1>7, <3>2, <3>3, AncVia
  <2> QED BY <2>1, <2>2
<1> DEFINE P == {n \in Nat : n <= K => cur[n] \in Cids /\ c \in Anc(imports, cur[n])}
<1> HIDE DEF cur, step, K
<1>8. 0 \in P
  BY <1>5, AncSelf
<1>9. \A n \in Nat : n \in P => n + 1 \in P
  <2> SUFFICES ASSUME NEW n \in Nat, n \in P, n + 1 <= K
               PROVE  cur[n + 1] \in Cids /\ c \in Anc(imports, cur[n + 1])
    OBVIOUS
  <2>1. n + 1 \in 0..K /\ n + 1 # 0 /\ (n + 1) - 1 = n /\ n <= K
    BY <1>2
  <2>2. cur[n + 1] = step[cur[n]]
    BY <1>5, <2>1
  <2>3. cur[n] \in Cids /\ c \in Anc(imports, cur[n])
    BY <2>1
  <2> QED BY <1>7, <2>2, <2>3
<1>10. K \in P
  <2> HIDE DEF P
  <2> QED BY <1>2, <1>8, <1>9, NatSetInduction
<1> QED BY <1>1, <1>2, <1>10

\* The larger of two integers.
LEMMA MaxTwo ==
  ASSUME NEW a \in Int, NEW b \in Int, NEW m, m = Max({a, b})
  PROVE  m \in Int /\ a <= m /\ b <= m /\ (m = a \/ m = b)
<1>1. \E x \in {a, b} : \A y \in {a, b} : x >= y
  <2>1. CASE a >= b
    <3>1. \A y \in {a, b} : a >= y
      BY <2>1
    <3> QED BY <3>1
  <2>2. CASE ~(a >= b)
    <3>1. \A y \in {a, b} : b >= y
      BY <2>2
    <3> QED BY <3>1
  <2> QED BY <2>1, <2>2
<1>2. m \in {a, b} /\ \A y \in {a, b} : m >= y
  BY <1>1 DEF Max
<1> QED BY <1>2

\* A deposit credited adds its amount to the chain its memo names.
LEMMA DepsCredit ==
  ASSUME NEW d, DepositList(d), NEW I, I \subseteq DOMAIN d, NEW i \in DOMAIN d, i \notin I, NEW S
  PROVE  /\ d[i].to \in S => Deps(d, S, I \cup {i}) = Deps(d, S, I) + d[i].amt
         /\ d[i].to \notin S => Deps(d, S, I \cup {i}) = Deps(d, S, I)
<1> DEFINE K == {j \in I : d[j].to \in S}
           a == Amounts(d)
<1>1. IsFiniteSet(DOMAIN d) /\ \A j \in DOMAIN d : d[j].amt \in Nat
  BY DEF DepositList
<1>2. \A j \in DOMAIN d : a[j] = d[j].amt /\ a[j] \in Nat
  BY <1>1 DEF Amounts
<1>3. IsFiniteSet(K) /\ K \subseteq DOMAIN d
  <2>1. K \subseteq DOMAIN d
    OBVIOUS
  <2> QED BY <1>1, <2>1, FS_Subset
<1>4. NatOn(a, K) /\ IntOn(a, K \cup {i}) /\ i \notin K
  BY <1>2, <1>3 DEF NatOn, IntOn
<1> HIDE DEF a
<1>5. SumOver(a, K) \in Nat /\ SumOver(a, K \cup {i}) = a[i] + SumOver(a, K)
  <2> HIDE DEF K
  <2> QED BY <1>3, <1>4, SumNat, SumInsert
<1>6. Deps(d, S, I) = SumOver(a, K)
  BY DEF Deps, a
<1>7. CASE d[i].to \in S
  <2>1. {j \in I \cup {i} : d[j].to \in S} = K \cup {i}
    BY <1>7
  <2>2. Deps(d, S, I \cup {i}) = SumOver(a, K \cup {i})
    BY <2>1 DEF Deps, a
  <2> QED BY <1>2, <1>5, <1>6, <1>7, <2>2
<1>8. CASE d[i].to \notin S
  <2>1. {j \in I \cup {i} : d[j].to \in S} = K
    BY <1>8
  <2>2. Deps(d, S, I \cup {i}) = SumOver(a, K)
    BY <2>1 DEF Deps, a
  <2> QED BY <1>5, <1>6, <1>8, <2>2
<1> QED BY <1>7, <1>8

\* on_funding: the end of the chain the memo names takes the whole deposit into its ledger.
LEMMA FundingBooks ==
  ASSUME DispInv, Books, NEW i \in DOMAIN deposits, Funding(i)
  PROVE  Books'
<1> DEFINE o == deposits[i].to
           amt == deposits[i].amt
           c == ChainTip(o)
           x == chan[c]
           y == [x EXCEPT !.funding = @ + amt, !.bal = Max({@ - amt, -LPrepay[c]})]
           f == fundedP[c]
           k == KindIn(chain, c)
<1>1. /\ Rail /\ deposits \in Seq([to : log.opened, amt : Nat])
      /\ credited \subseteq log.fund /\ log.fund \subseteq DOMAIN deposits /\ LogOk(log)
  BY DEF Books, Rail, DispInv
<1>2. o \in log.opened /\ amt \in Nat /\ o \in Cids
  <2>1. \A j \in DOMAIN deposits : deposits[j] \in [to : log.opened, amt : Nat]
    BY <1>1, SeqItems
  <2> QED BY <1>1, <2>1 DEF LogOk
<1>3. /\ c \in Live /\ k \notin {"reconciled", "committed"} /\ i \notin log.fund /\ c \in Tips
  BY DEF Funding, CanFund, FundingAdmissible, DispositionOf, KindIn, Tips
<1>4. o \in Anc(imports, c)
  BY <1>2, TipCarries
<1>5. /\ log' = Consumed(i) /\ credited' = credited \cup {i} /\ chan' = [chan EXCEPT ![c] = y]
      /\ UNCHANGED <<chain, deposits, fundedP, released, imports, closing>>
  BY DEF Funding, CreditFunding, railVars, aux
<1>6. log'.fund = log.fund \cup {i} /\ log'.opened = log.opened
  BY <1>1, <1>5 DEF LogOk, Consumed
<1>7. Own(x, f, k) /\ DOMAIN x = ChanFields /\ c \in Cids /\ Basis(x) \in Nat
  BY <1>3, LiveOwn
<1> DEFINE b == Max({x.bal - amt, -LPrepay[c]})
<1>8. /\ DOMAIN y = ChanFields /\ y.funding = x.funding + amt /\ y.bal = b
      /\ y.status = x.status /\ y.ckpts = x.ckpts /\ y.op = x.op /\ y.cum = x.cum
      /\ y.imp = x.imp /\ y.settled = x.settled /\ y.rounds = x.rounds
  BY <1>7 DEF ChanFields
<1> HIDE DEF o, amt, c, x, y, f, k, b
<1>9. MeterOk(x)
  BY <1>7 DEF Own
<1>10. b \in Int /\ x.bal - amt <= b /\ b <= 0
  <2>1. x.bal \in Int /\ x.bal <= 0 /\ LPrepay[c] \in Nat
    BY <1>7, <1>9, CidAssumption DEF MeterOk
  <2> DEFINE p == x.bal - amt
             q == -LPrepay[c]
  <2>2. p \in Int /\ q \in Int /\ p <= 0 /\ q <= 0 /\ b = Max({p, q})
    BY <1>2, <2>1 DEF b
  <2> HIDE DEF p, q
  <2>3. b \in Int /\ p <= b /\ b <= 0
    BY <2>2, MaxTwo
  <2> QED BY <2>3 DEF p
<1>11. Basis(y) = Basis(x)
  BY <1>8 DEF Basis
<1>12. Metered(x, y)
  BY <1>2, <1>8, <1>9, <1>10, <1>11 DEF MeterOk, Metered
<1>13. Own(y, f, k)
  BY <1>7, <1>12, OwnMetered
<1>14. /\ Live' = Live /\ Tips' = Tips /\ chan'[c] = y
       /\ \A d \in Live : d # c => chan'[d] = chan[d]
  BY <1>3, <1>5 DEF Live, Tips
<1>15. Rail'
  BY <1>1, <1>5, <1>6, <1>14 DEF Rail
<1>16. ASSUME NEW d \in Live
       PROVE  Own(chan'[d], fundedP'[d], KindIn(chain', d)) /\ Heir(d, chan'[d], imports', fundedP')
  <2>1. Own(chan[d], fundedP[d], KindIn(chain, d)) /\ Heir(d, chan[d], imports, fundedP)
    BY DEF Books
  <2>2. chan'[d].imp = chan[d].imp
    BY <1>8, <1>14 DEF x
  <2>3. Own(chan'[d], fundedP[d], KindIn(chain, d))
    BY <1>13, <1>14, <2>1 DEF f, k
  <2> QED BY <1>5, <2>1, <2>2, <2>3 DEF Heir
<1>17. ASSUME NEW d \in Tips PROVE Float(d, chan'[d], imports', deposits', credited')
  <2> DEFINE A == Anc(imports, d)
  <2>1. d \in Live /\ chan[d].funding = Deps(deposits, A, credited)
    BY DEF Books, Float, Tips
  <2>2. credited \subseteq DOMAIN deposits /\ i \notin credited
    BY <1>1, <1>3
  <2>3. /\ o \in A => Deps(deposits, A, credited \cup {i}) = Deps(deposits, A, credited) + amt
        /\ o \notin A => Deps(deposits, A, credited \cup {i}) = Deps(deposits, A, credited)
    <3> HIDE DEF A
    <3>1. DepositList(deposits)
      BY <1>1, DepositsListed
    <3>2. /\ deposits[i].to \in A => Deps(deposits, A, credited \cup {i}) = Deps(deposits, A, credited) + deposits[i].amt
          /\ deposits[i].to \notin A => Deps(deposits, A, credited \cup {i}) = Deps(deposits, A, credited)
      BY <2>2, <3>1, DepsCredit
    <3> QED BY <3>2 DEF o, amt
  <2>4. d # c => o \notin A
    BY <1>3, <1>4 DEF Books
  <2>5. d = c => o \in A
    BY <1>4
  <2>6. chan'[d].funding = Deps(deposits, A, credited \cup {i})
    BY <1>2, <1>8, <1>14, <2>1, <2>3, <2>4, <2>5 DEF x
  <2> QED BY <1>5, <2>6 DEF Float
<1>18. ASSUME NEW d \in Live, KindIn(chain', d) = "reconciled"
       PROVE  d \in DOMAIN closing' /\ ClosedOk(d, chan'[d], fundedP'[d], chain'[d], released', closing'[d])
  <2>1. KindIn(chain, d) = "reconciled" /\ d # c
    BY <1>3, <1>5, <1>18 DEF k
  <2> QED BY <1>5, <1>14, <2>1 DEF Books
<1>19. \A d \in Cids : Covered(d, imports', released', fundedP', deposits', log'.fund)
  <2>1. log.fund \subseteq log'.fund /\ log'.fund \subseteq DOMAIN deposits
    BY <1>1, <1>6
  <2> DEFINE J == log'.fund
  <2> HIDE DEF J
  <2>2. \A d \in Cids : Covered(d, imports, released, fundedP, deposits, J)
    BY <2>1, AllCovered DEF J
  <2> QED BY <1>5, <2>2 DEF J
<1>20. \A d \in DOMAIN closing' \ Live' :
         closing'[d] \in Nat /\ BpDenom * SumOver(fundedP', Anc(imports', d)) <= Total(Accruals(closing'[d]))
  BY <1>5, <1>14 DEF Books
<1>21. \A d, e \in Tips' : Anc(imports', d) \cap Anc(imports', e) # {} => d = e
  BY <1>5, <1>14 DEF Books
<1> QED BY <1>14, <1>15, <1>16, <1>17, <1>18, <1>19, <1>20, <1>21 DEF Books

-----------------------------------------------------------------------------
(* Establishment.                                                          *)

\* What is within the accruals adds to no more than their total.
LEMMA BelowTotal ==
  ASSUME NEW t \in Nat, NEW v, Below(v, t)
  PROVE  Total(v) \in Nat /\ Total(v) <= Total(Accruals(t))
<1> DEFINE A == Accruals(t)
<1>1. A \in [RoleIds -> Nat] /\ v \in [RoleIds -> Nat] /\ LeqOn(v, A, RoleIds)
  BY ChainAccruals DEF Below, LeqOn
<1> HIDE DEF A
<1>2. /\ Total(v) = SumOver(v, RoleIds) /\ Total(v) \in Nat /\ IntOn(v, RoleIds)
      /\ Total(A) = SumOver(A, RoleIds) /\ IntOn(A, RoleIds)
  BY <1>1, ChainTotal
<1>3. SumOver(v, RoleIds) <= SumOver(A, RoleIds)
  BY <1>1, <1>2, ChainRoles, SumMonotone
<1> QED BY <1>2, <1>3 DEF A

\* A new channel on the position it imports.
LEMMA OwnOpened ==
  ASSUME NEW pos, PosOk(pos), NEW y, y = Opened(pos)
  PROVE  Own(y, 0, "none") /\ y.imp = pos /\ y.funding = pos.funding
<1>1. /\ DOMAIN y = ChanFields /\ y.status = "open" /\ y.cum = pos.cum /\ y.bal = pos.bal
      /\ y.ckpts = <<>> /\ y.op = 0 /\ y.settled = pos.settled /\ y.funding = pos.funding
      /\ y.imp = pos /\ y.rounds = <<>>
  BY DEF Opened, ChanFields
<1>2. /\ pos.cum \in Nat /\ pos.funding \in Nat /\ pos.bal \in Int /\ Below(pos.settled, pos.cum)
      /\ pos.cum - pos.funding <= pos.bal /\ pos.bal <= 0
  BY DEF PosOk
<1>3. Basis(y) = pos.cum
  BY <1>1 DEF Basis
<1>4. y.ckpts \in Seq(Nat) /\ y.op \in 0..Len(y.ckpts) /\ DOMAIN y.rounds = {}
  BY <1>1
<1>5. MeterOk(y)
  BY <1>1, <1>2, <1>3, <1>4 DEF MeterOk
<1>6. Total(pos.settled) \in Nat /\ Total(pos.settled) <= Total(Accruals(pos.cum)) /\ BpDenom * 0 = 0
  BY <1>2, BelowTotal, ChainRoles
<1>7. Flight(y) = {} /\ RoundsTyped(y.rounds)
  BY <1>4 DEF Flight, RoundsTyped
<1>8. Total(y.settled) = Total(y.imp.settled) + BpDenom * 0
  BY <1>1, <1>6
<1>9. RoundsOk(y, 0, "none")
  BY <1>1, <1>6, <1>7, <1>8 DEF RoundsOk
<1>10. Total(y.imp.settled) + BpDenom * 0 <= Total(Accruals(Basis(y)))
  BY <1>1, <1>3, <1>6
<1> QED BY <1>1, <1>5, <1>9, <1>10 DEF Own

\* The channel id, which carries B besides itself, is opened on the position pos.
Founded(id, pos, B) ==
  /\ PosOk(pos) /\ pos.funding = Deps(deposits, B, credited)
  /\ BpDenom * SumOver(fundedP, B) <= Total(pos.settled)
  /\ chan' = Put(chan, id, Opened(pos)) /\ KindIn(chain', id) = "none"
  /\ UNCHANGED <<credited, deposits, fundedP, released, closing>>
  /\ log'.fund = log.fund /\ log'.opened = log.opened \cup {id}

\* What id carries is carried by no other end of a chain.
Lineage(id, B) ==
  /\ id \notin B /\ Anc(imports', id) = {id} \cup B
  /\ \A d \in Cids : d # id => Anc(imports', d) = Anc(imports, d) /\ id \notin Anc(imports, d)
  /\ \A d \in Tips' : d # id => Anc(imports, d) \cap B = {}

\* The dispositions of the channels that were live.
Disposed ==
  /\ \A d \in Live : Own(chan[d], fundedP[d], KindIn(chain', d))
  /\ \A d \in Live : KindIn(chain', d) # "committed" => KindIn(chain, d) # "committed"
  /\ \A d \in Live : KindIn(chain', d) = "reconciled" <=> KindIn(chain, d) = "reconciled"
  /\ \A d \in Live : KindIn(chain, d) = "reconciled" => chain'[d] = chain[d]

\* A new channel on a position that nobody else carries keeps the books.
LEMMA FoundedBooks ==
  ASSUME DispInv, Books, NEW id \in Cids, id \notin log.opened, NEW pos, NEW B,
         Founded(id, pos, B), Lineage(id, B), Disposed
  PROVE  Books'
<1> DEFINE y == Opened(pos)
<1>1. /\ chan' = Put(chan, id, y) /\ KindIn(chain', id) = "none"
      /\ UNCHANGED <<credited, deposits, fundedP, released, closing>>
      /\ log'.fund = log.fund /\ log'.opened = log.opened \cup {id}
  BY DEF Founded
<1>2. Rail /\ Live \subseteq log.opened /\ log.opened \subseteq Cids /\ fundedP[id] = 0
      /\ deposits \in Seq([to : log.opened, amt : Nat])
  BY DEF Books, Rail, DispInv, LogOk
<1>3. Own(y, 0, "none") /\ y.imp = pos /\ y.funding = pos.funding
  BY OwnOpened DEF Founded
<1> HIDE DEF y
<1>4. /\ Live' = Live \cup {id} /\ id \notin Live /\ chan'[id] = y
      /\ \A d \in Live : chan'[d] = chan[d]
  BY <1>1, <1>2 DEF Live, Put
<1>5. id \in Tips' /\ \A d \in Tips' : d # id => d \in Tips
  BY <1>1, <1>4 DEF Tips, Disposed
<1>6. \A d \in Cids : d # id => Anc(imports', d) = Anc(imports, d) /\ id \notin Anc(imports, d)
  BY DEF Lineage
<1>7. Rail'
  <2>1. deposits' \in Seq([to : log'.opened, amt : Nat])
    <3> DEFINE T == [to : log.opened, amt : Nat]
               V == [to : log.opened \cup {id}, amt : Nat]
    <3>1. deposits \in Seq(T)
      BY <1>2
    <3>2. T \subseteq V
      OBVIOUS
    <3> HIDE DEF T, V
    <3>3. deposits \in Seq(V)
      BY <3>1, <3>2
    <3> QED BY <1>1, <3>3 DEF V
  <2>2. \A d \in DOMAIN closing' : d \in Live' => KindIn(chain', d) = "reconciled"
    <3>1. \A d \in DOMAIN closing : d # id
      BY <1>2 DEF Rail
    <3> QED BY <1>1, <1>2, <1>4, <3>1 DEF Rail, Disposed
  <2> QED BY <1>1, <1>2, <2>1, <2>2 DEF Rail
<1>8. ASSUME NEW a \in Tips', NEW b \in Tips', Anc(imports', a) \cap Anc(imports', b) # {} PROVE a = b
  <2>0. Live' \subseteq Cids /\ a \in Cids /\ b \in Cids
    BY <1>2, <1>4 DEF Tips
  <2>1. CASE a # id /\ b # id
    BY <1>5, <1>6, <1>8, <2>0, <2>1 DEF Books
  <2>2. CASE a = id /\ b # id
    BY <1>6, <1>8, <2>0, <2>2 DEF Lineage
  <2>3. CASE a # id /\ b = id
    BY <1>6, <1>8, <2>0, <2>3 DEF Lineage
  <2> QED BY <2>1, <2>2, <2>3
<1>9. ASSUME NEW d \in Live'
      PROVE  Own(chan'[d], fundedP'[d], KindIn(chain', d)) /\ Heir(d, chan'[d], imports', fundedP')
  <2>1. CASE d = id
    <3>1. Anc(imports', id) \ {id} = B
      BY DEF Lineage
    <3>2. Heir(id, y, imports', fundedP')
      BY <1>1, <1>3, <3>1 DEF Heir, Founded
    <3> QED BY <1>1, <1>2, <1>3, <1>4, <2>1, <3>2
  <2>2. CASE d # id
    <3>1. d \in Live /\ d \in Cids
      BY <1>2, <1>4, <2>2
    <3>2. Heir(d, chan[d], imports, fundedP) /\ Own(chan[d], fundedP[d], KindIn(chain', d))
      BY <3>1 DEF Books, Disposed
    <3> QED BY <1>1, <1>4, <1>6, <2>2, <3>1, <3>2 DEF Heir
  <2> QED BY <2>1, <2>2
<1>10. \A S, T : \A I \in SUBSET DOMAIN deposits : T = {id} \cup S => Deps(deposits, T, I) = Deps(deposits, S, I)
  <2>1. \A j \in DOMAIN deposits : deposits[j].to # id
    <3>1. \A j \in DOMAIN deposits : deposits[j] \in [to : log.opened, amt : Nat]
      BY <1>2, SeqItems
    <3> QED BY <3>1
  <2> SUFFICES ASSUME NEW S, NEW T, NEW I \in SUBSET DOMAIN deposits, T = {id} \cup S
               PROVE  Deps(deposits, T, I) = Deps(deposits, S, I)
    OBVIOUS
  <2>2. {j \in I : deposits[j].to \in T} = {j \in I : deposits[j].to \in S}
    BY <2>1
  <2> QED BY <2>2 DEF Deps
<1>11. ASSUME NEW d \in Tips' PROVE Float(d, chan'[d], imports', deposits', credited')
  <2>1. CASE d = id
    <3>1. Anc(imports', id) = {id} \cup B /\ credited \in SUBSET DOMAIN deposits
      BY <1>2 DEF Lineage, Rail
    <3>2. Deps(deposits, Anc(imports', id), credited) = Deps(deposits, B, credited)
      BY <1>10, <3>1
    <3>3. y.funding = Deps(deposits, B, credited)
      BY <1>3 DEF Founded
    <3> QED BY <1>1, <1>4, <2>1, <3>2, <3>3 DEF Float
  <2>2. CASE d # id
    <3>1. d \in Tips /\ d \in Live /\ d \in Cids
      BY <1>2, <1>5, <2>2 DEF Tips
    <3>2. Float(d, chan[d], imports, deposits, credited)
      BY <3>1 DEF Books
    <3> QED BY <1>1, <1>4, <1>6, <2>2, <3>1, <3>2 DEF Float
  <2> QED BY <2>1, <2>2
<1>12. ASSUME NEW d \in Live', KindIn(chain', d) = "reconciled"
       PROVE  d \in DOMAIN closing' /\ ClosedOk(d, chan'[d], fundedP'[d], chain'[d], released', closing'[d])
  <2>1. d # id /\ d \in Live
    BY <1>1, <1>4, <1>12
  <2>2. KindIn(chain, d) = "reconciled" /\ chain'[d] = chain[d]
    BY <1>12, <2>1 DEF Disposed
  <2> QED BY <1>1, <1>4, <2>1, <2>2 DEF Books
<1>13. ASSUME NEW d \in Cids \ Tips' PROVE Covered(d, imports', released', fundedP', deposits', log'.fund)
  <2>1. d # id
    BY <1>5
  <2>2. log.fund \subseteq DOMAIN deposits
    BY <1>2 DEF Rail
  <2>3. Covered(d, imports, released, fundedP, deposits, log.fund)
    BY <2>2, AllCovered
  <2> QED BY <1>1, <1>6, <2>1, <2>3 DEF Covered
<1>14. ASSUME NEW d \in DOMAIN closing' \ Live'
       PROVE  closing'[d] \in Nat /\ BpDenom * SumOver(fundedP', Anc(imports', d)) <= Total(Accruals(closing'[d]))
  <2>1. d \in DOMAIN closing /\ d # id /\ d \in Cids /\ d \notin Live
    BY <1>1, <1>2, <1>4 DEF Rail
  <2>2. closing[d] \in Nat /\ BpDenom * SumOver(fundedP, Anc(imports, d)) <= Total(Accruals(closing[d]))
    BY <2>1 DEF Books
  <2> QED BY <1>1, <1>6, <2>1, <2>2
<1> QED BY <1>7, <1>8, <1>9, <1>11, <1>12, <1>13, <1>14 DEF Books

\* An accepted open makes its id known, and consumes no funding reference.
LEMMA EstablishedLog ==
  ASSUME DispInv, NEW m \in Opens, NEW recorded \in BOOLEAN, Establish(m, recorded)
  PROVE  log'.fund = log.fund /\ log'.opened = log.opened \cup {m.cid}
<1> DEFINE l == Accepted(m)
           d == Committed(m.cid)
<1>1. LogOk(log) /\ m.cid \in Cids /\ CanImport(m)
  BY DEF DispInv, Opens, Establish, DriverAccepts
<1>2. LogOk(l) /\ l.opened = log.opened \cup {m.cid} /\ l.disp = log.disp /\ l.fund = log.fund
  BY <1>1, LogGrows DEF LogOk
<1>3. log' = IF m.pred # 0 /\ recorded THEN Recorded(l, m.pred, d) ELSE l
  BY DEF Establish
<1> HIDE DEF l, d
<1>4. CASE m.pred # 0 /\ recorded
  <2> DEFINE E == imports \cup {<<m.pred, d.succ>>}
  <2>1. m.pred \in l.opened
    BY <1>1, <1>2, <1>4, ImportsLive
  <2>2. LinksOk(l.disp, E)
    BY <1>2 DEF DispInv, LinksOk
  <2>3. DOMAIN d = DispFields /\ d.kind \in DispKinds /\ <<m.pred, d.succ>> \in E
    BY KindsOf DEF d
  <2> HIDE DEF E
  <2>4. Recorded(l, m.pred, d).opened = l.opened /\ Recorded(l, m.pred, d).fund = l.fund
    BY <1>2, <2>1, <2>2, <2>3, RecordedIs
  <2> QED BY <1>2, <1>3, <1>4, <2>4
<1>5. CASE ~(m.pred # 0 /\ recorded)
  BY <1>2, <1>3, <1>5
<1> QED BY <1>4, <1>5

\* A first channel: its position is that of a birth, and it carries itself only.
LEMMA EstablishPlainBooks ==
  ASSUME DispInv, Books, NEW m \in Opens, m.pred = 0, NEW recorded \in BOOLEAN, Establish(m, recorded)
  PROVE  Books'
<1> DEFINE id == m.cid
<1>1. /\ id \in Cids /\ id \notin log.opened /\ chan' = Put(chan, id, Opened(Birth))
      /\ chain' = chain /\ imports' = imports
      /\ UNCHANGED <<credited, deposits, fundedP, released, closing>>
  BY DEF Establish, DriverAccepts, Opens, Position, ChainAfter, railVars
<1>2. log'.fund = log.fund /\ log'.opened = log.opened \cup {id}
  BY EstablishedLog
<1> HIDE DEF id
<1>3. Below(Zero, 0)
  <2>1. Accruals(0) \in [RoleIds -> Nat]
    BY ChainAccruals
  <2> QED BY <2>1 DEF Below, Zero
<1>4. Total(Zero) \in Nat
  BY <1>3, BelowTotal
<1>5. /\ DOMAIN Birth = {"ref", "cum", "settled", "funding", "bal"} /\ Birth.cum = 0
      /\ Birth.funding = 0 /\ Birth.bal = 0 /\ Birth.settled = Zero
  BY DEF Birth
<1>6. PosOk(Birth)
  BY <1>3, <1>5 DEF PosOk
<1>7. SumOver(fundedP, {}) = 0 /\ BpDenom * 0 = 0 /\ Deps(deposits, {}, credited) = 0
  <2>1. {i \in credited : deposits[i].to \in {}} = {}
    OBVIOUS
  <2>2. Deps(deposits, {}, credited) = SumOver(Amounts(deposits), {})
    BY <2>1 DEF Deps
  <2>3. SumOver(fundedP, {}) = 0 /\ SumOver(Amounts(deposits), {}) = 0
    BY SumEmpty, Zenon
  <2>4. BpDenom * 0 = 0
    BY ChainRoles
  <2> QED BY <2>2, <2>3, <2>4
<1>8. KindIn(chain', id) = "none" /\ id \notin Live
  BY <1>1 DEF KindIn, DispInv
<1>9. Founded(id, Birth, {})
  BY <1>1, <1>2, <1>4, <1>5, <1>6, <1>7, <1>8 DEF Founded
<1>10. \A e \in imports : e[1] \in log.opened /\ e[2] \in log.opened /\ e[1] \in Cids /\ e[2] \in Cids
  BY DEF DispInv, ImportsOk, LogOk
<1>11. ASSUME NEW d \in Cids, d # id PROVE id \notin Anc(imports, d)
  <2> DEFINE S == Cids \ {id}
  <2>1. S \subseteq Cids /\ d \in S /\ \A e \in imports : e[2] \in S => e[1] \in S
    BY <1>1, <1>10, <1>11
  <2> HIDE DEF S
  <2>2. Anc(imports, d) \subseteq S
    BY <2>1, AncLeast
  <2> QED BY <2>2 DEF S
<1>12. Anc(imports, id) = {id}
  BY <1>1, <1>10, AncFresh
<1>13. Lineage(id, {})
  BY <1>1, <1>11, <1>12 DEF Lineage
<1>14. Disposed
  <2>1. \A d \in Live : Own(chan[d], fundedP[d], KindIn(chain, d))
    BY DEF Books
  <2> QED BY <1>1, <2>1 DEF Disposed
<1> QED BY <1>1, <1>9, <1>13, <1>14, FoundedBooks

\* The predecessor of an accepted open, which no channel has imported, has closed
\* towards a successor: the snapshot is taken of its current position.
LEMMA PredecessorPends ==
  ASSUME DispInv, NEW m \in Opens, m.pred # 0, Admitted(m), CanImport(m),
         \A e \in imports : e[1] # m.pred
  PROVE  /\ m.pred \in Tips /\ KindIn(chain, m.pred) = "pending"
         /\ Position(m) = Snapshot(m.pred, m.ref)
<1> DEFINE p == m.pred
           key == <<m.pred, m.ref>>
<1>1. p \in Live /\ p \in DOMAIN chain
  BY ImportsLive
<1>2. chain[p].kind \in DispKinds /\ (chain[p].kind = "committed" => <<p, chain[p].succ>> \in imports)
  BY <1>1 DEF DispInv, LinksOk
<1>3. chain[p].kind # "committed"
  <2>1. <<p, chain[p].succ>>[1] = p
    OBVIOUS
  <2> QED BY <1>2, <2>1
<1>4. chain[p].kind # "reconciled"
  BY <1>1 DEF Admitted, DispositionOf
<1>5. DispositionOf(p) = "pending" /\ KindIn(chain, p) = "pending"
  BY <1>1, <1>2, <1>3, <1>4 DEF DispKinds, DispositionOf, KindIn
<1>6. key \in DOMAIN SnapsAt(m)
  BY DEF CanImport
<1>7. SnapsAt(m) = IF HasSnapshot(p, m.ref) THEN Put(snaps, key, Snapshot(p, m.ref)) ELSE Without(snaps, {key})
  BY <1>5 DEF SnapsAt
<1> HIDE DEF key
<1>8. SnapsAt(m)[key] = Snapshot(p, m.ref)
  <2>1. key \notin DOMAIN Without(snaps, {key}) /\ Put(snaps, key, Snapshot(p, m.ref))[key] = Snapshot(p, m.ref)
    BY DEF Without, Put
  <2> QED BY <1>6, <1>7, <2>1
<1>9. p \in Tips
  BY <1>1, <1>5 DEF Tips
<1> QED BY <1>5, <1>8, <1>9 DEF Position, key

\* compute_chain_snapshot: the position of an own channel is one a successor can meter on.
LEMMA SnapshotOk ==
  ASSUME DispInv, NEW p \in Live, NEW f, NEW k, Own(chan[p], f, k), NEW ref
  PROVE  /\ PosOk(Snapshot(p, ref)) /\ Snapshot(p, ref).funding = chan[p].funding
         /\ Snapshot(p, ref).settled = chan[p].settled
<1> DEFINE s == Snapshot(p, ref)
           b == Basis(chan[p])
           g == chan[p].funding
           L == LPrepay[p]
<1>1. b \in Nat /\ g \in Nat /\ b <= g /\ Below(chan[p].settled, b)
  BY OwnFacts
<1>2. BasisCum(p) = b
  BY DEF BasisCum, Basis
<1>3. L \in Nat
  BY AncOfLive, CidAssumption
<1>4. /\ DOMAIN s = {"ref", "cum", "settled", "funding", "bal"} /\ s.cum = b /\ s.funding = g
      /\ s.settled = chan[p].settled /\ s.bal = ImportedBalance(p, b)
  BY <1>2 DEF Snapshot
<1>5. ImportedBalance(p, b) = IF b - g < -L THEN -L ELSE IF b - g > 0 THEN 0 ELSE b - g
  BY DEF ImportedBalance
<1> HIDE DEF s, b, g, L
<1>6. s.bal \in Int /\ b - g <= s.bal /\ s.bal <= 0
  BY <1>1, <1>3, <1>4, <1>5
<1> QED BY <1>1, <1>4, <1>6 DEF PosOk, s, g

\* A chained channel: it carries what its predecessor carries, with its deposits,
\* and what its predecessor counts as settled covers the draws before it.
LEMMA EstablishChainedBooks ==
  ASSUME DispInv, Books, OneImporter', NEW m \in Opens, m.pred # 0, NEW recorded \in BOOLEAN,
         Establish(m, recorded)
  PROVE  Books'
<1> DEFINE id == m.cid
           p == m.pred
           d == Committed(m.cid)
           pos == Snapshot(m.pred, m.ref)
           B == Anc(imports, m.pred)
           x == chan[m.pred]
           f == fundedP[m.pred]
<1>1. /\ id \in Cids /\ id \notin log.opened /\ chan' = Put(chan, id, Opened(Position(m)))
      /\ chain' = Put(chain, p, d) /\ imports' = imports \cup {<<p, id>>}
      /\ UNCHANGED <<credited, deposits, fundedP, released, closing>>
      /\ Admitted(m) /\ CanImport(m)
  BY DEF Establish, DriverAccepts, Opens, ChainAfter, railVars
<1>2. log'.fund = log.fund /\ log'.opened = log.opened \cup {id}
  BY EstablishedLog
<1>3. \A e \in imports : e[1] \in log.opened /\ e[2] \in log.opened /\ e[1] \in Cids /\ e[2] \in Cids
  BY DEF DispInv, ImportsOk, LogOk
<1>4. \A e \in imports : e[1] # p
  <2> SUFFICES ASSUME NEW e \in imports, e[1] = p PROVE FALSE
    OBVIOUS
  <2>1. e \in imports' /\ <<p, id>> \in imports' /\ <<p, id>>[1] = p
    BY <1>1
  <2>2. e = <<p, id>>
    BY <2>1 DEF OneImporter
  <2>3. e[2] = id
    BY <2>2
  <2> QED BY <1>1, <1>3, <2>3
<1>5. p \in Tips /\ KindIn(chain, p) = "pending" /\ Position(m) = pos
  BY <1>1, <1>4, PredecessorPends
<1>6. p \in Live /\ p \in Cids /\ p \in DOMAIN chain /\ p # id /\ id \notin Live
  <2>1. p \in Live /\ p \in Cids
    BY <1>5, AncOfLive DEF Tips
  <2>2. p \in DOMAIN chain
    BY <1>5 DEF KindIn
  <2> QED BY <1>1, <2>1, <2>2 DEF DispInv
<1>7. /\ Own(x, f, "pending") /\ Heir(p, x, imports, fundedP) /\ Rail
      /\ Float(p, x, imports, deposits, credited)
  BY <1>5, <1>6 DEF Books
<1>8. PosOk(pos) /\ pos.funding = x.funding /\ pos.settled = x.settled
  BY <1>6, <1>7, SnapshotOk
<1>9. d.kind = "committed"
  BY KindsOf
<1> HIDE DEF id, p, d, pos, x, f
<1>10. BpDenom * SumOver(fundedP, B) <= Total(x.settled)
  <2> DEFINE i == Total(x.imp.settled)
             a == BpDenom * fundedP[p]
             b == BpDenom * SumOver(fundedP, Anc(imports, p) \ {p})
  <2>1. fundedP \in [Cids -> Nat]
    BY <1>7 DEF Rail
  <2>2. BpDenom * SumOver(fundedP, Anc(imports, p)) = a + b /\ a \in Nat /\ b \in Nat
    BY <1>6, <2>1, ChainDraws
  <2>3. b <= i
    BY <1>7 DEF Heir
  <2>4. Total(x.settled) = i + BpDenom * f /\ i \in Nat
    <3>1. RoundsOk(x, f, "pending") /\ i \in Nat
      BY <1>7, OwnFacts
    <3>2. Flight(x) = {}
      BY <3>1 DEF RoundsOk
    <3> QED BY <3>1, <3>2 DEF RoundsOk
  <2>5. Total(x.settled) = i + a
    BY <2>4 DEF f, p
  <2> HIDE DEF i, a, b
  <2>6. a + b <= i + a
    BY <2>2, <2>3, <2>4
  <2> QED BY <2>2, <2>5, <2>6 DEF p
<1>11. pos.funding = Deps(deposits, B, credited)
  BY <1>7, <1>8 DEF Float, p
<1>12. /\ KindIn(chain', p) = "committed" /\ \A c : c # p => KindIn(chain', c) = KindIn(chain, c)
       /\ \A c \in DOMAIN chain : c # p => chain'[c] = chain[c]
  BY <1>1, <1>6, <1>9 DEF Put, KindIn
<1>13. KindIn(chain', id) = "none"
  <2>1. KindIn(chain, id) = "none"
    BY <1>1 DEF KindIn, DispInv
  <2> QED BY <1>6, <1>12, <2>1
<1>14. Founded(id, pos, B)
  BY <1>1, <1>2, <1>5, <1>8, <1>10, <1>11, <1>13 DEF Founded
<1>15. /\ Anc(imports', id) = {id} \cup Anc(imports, p) /\ id \notin Anc(imports, p)
       /\ \A c \in Cids : c # id => Anc(imports', c) = Anc(imports, c) /\ id \notin Anc(imports, c)
  <2>1. imports \subseteq Cids \X Cids
    BY AncOfLive
  <2>2. \A e \in imports : e[1] # id /\ e[2] # id
    BY <1>1, <1>3
  <2> QED BY <1>1, <1>6, <2>1, <2>2, AncGrows
<1>16. \A c \in Live : KindIn(chain', c) # "committed" => c # p /\ c \in Tips
  BY <1>12 DEF Tips
<1>17. ASSUME NEW c \in Tips', c # id PROVE Anc(imports, c) \cap B = {}
  <2>1. c \in Live /\ KindIn(chain', c) # "committed"
    BY <1>1, <1>17 DEF Tips, Live, Put
  <2>2. c \in Tips /\ c # p
    BY <1>16, <2>1
  <2> QED BY <1>5, <2>2 DEF Books, p
<1>18. Lineage(id, B)
  BY <1>15, <1>17 DEF Lineage, p
<1>19. Disposed
  <2>1. ASSUME NEW c \in Live PROVE Own(chan[c], fundedP[c], KindIn(chain', c))
    <3>1. CASE c = p
      <4>1. Own(x, f, "committed")
        BY <1>7 DEF Own, RoundsOk
      <4> QED BY <1>12, <3>1, <4>1 DEF x, f, p
    <3>2. CASE c # p
      BY <1>12, <3>2 DEF Books
    <3> QED BY <3>1, <3>2
  <2>2. \A c \in Live : KindIn(chain', c) # "committed" => KindIn(chain, c) # "committed"
    BY <1>12
  <2>3. \A c \in Live : KindIn(chain', c) = "reconciled" <=> KindIn(chain, c) = "reconciled"
    BY <1>5, <1>12
  <2>4. \A c \in Live : KindIn(chain, c) = "reconciled" => chain'[c] = chain[c]
    BY <1>5, <1>12 DEF KindIn
  <2> QED BY <2>1, <2>2, <2>3, <2>4 DEF Disposed
<1> QED BY <1>1, <1>14, <1>18, <1>19, FoundedBooks

-----------------------------------------------------------------------------
(* The books over every behaviour.                                         *)

\* Before any open nothing is drawn, refunded or deposited.
LEMMA InitBooks == ChainInit => Books
<1> SUFFICES ASSUME ChainInit PROVE Books
  OBVIOUS
<1>1. /\ DOMAIN chan = {} /\ DOMAIN released = {} /\ DOMAIN closing = {} /\ imports = {}
      /\ DOMAIN deposits = {} /\ deposits = <<>> /\ credited = {} /\ log.fund = {}
      /\ fundedP = [c \in Cids |-> 0]
  BY DEF ChainInit
<1>2. Live = {} /\ Tips = {}
  BY <1>1 DEF Live, Tips
<1>3. Rail
  BY <1>1 DEF Rail
<1>4. ASSUME NEW c \in Cids PROVE Covered(c, imports, released, fundedP, deposits, log.fund)
  <2> DEFINE A == Anc(imports, c)
  <2>1. SumOver(fundedP, A) = 0
    <3>1. A \subseteq Cids /\ IsFiniteSet(A)
      BY AncSelf, AncFinite
    <3>2. \A a \in A : fundedP[a] = 0
      BY <1>1, <3>1
    <3> HIDE DEF A
    <3> QED BY <3>1, <3>2, SumZero
  <2>2. {k \in DOMAIN released : k[1] \in A} = {} /\ {i \in log.fund : deposits[i].to \in A} = {}
    BY <1>1
  <2>3. Refunds(released, A) = SumOver(released, {}) /\ Deps(deposits, A, log.fund) = SumOver(Amounts(deposits), {})
    BY <2>2 DEF Refunds, Deps
  <2>4. SumOver(released, {}) = 0 /\ SumOver(Amounts(deposits), {}) = 0
    BY SumEmpty, Zenon
  <2> QED BY <2>1, <2>3, <2>4 DEF Covered
<1> QED BY <1>1, <1>2, <1>3, <1>4 DEF Books

\* Only an accepted open imports.
LEMMA ImportsBy ==
  ASSUME [ChainNext]_chainVars
  PROVE  imports' = imports \/ \E m \in Opens, recorded \in BOOLEAN : Establish(m, recorded)
<1>1. CASE UNCHANGED chainVars
  BY <1>1 DEF chainVars, aux
<1>2. CASE ChainRestart
  BY <1>2 DEF ChainRestart, aux
<1>3. CASE \E c \in Live, amt \in 1..MaxAmt : AcceptSlice(c, amt)
  BY <1>3 DEF AcceptSlice, aux
<1>4. CASE \E c \in Live : \E total \in 0..chan[c].cum : Checkpoint(c, total)
  BY <1>4 DEF Checkpoint, aux
<1>5. CASE \E c \in Cids, amt \in DepositAmts : Deposit(c, amt)
  BY <1>5 DEF Deposit, aux
<1>6. CASE \E i \in DOMAIN deposits : Funding(i) \/ FundingStops(i)
  BY <1>6 DEF Funding, FundingStops, aux
<1>7. CASE \E m \in Opens :
             \/ \E recorded \in BOOLEAN : Establish(m, recorded)
             \/ RefuseOpen(m) \/ OpenStops(m) \/ Retransmit(m)
  BY <1>7 DEF RefuseOpen, OpenStops, Retransmit, aux
<1>8. CASE \E c \in Live : DrawRefused(c) \/ \E final \in BOOLEAN : InterimDraw(c, final)
  BY <1>8 DEF DrawRefused, InterimDraw, aux
<1>9. CASE \E c \in Live, ref \in CloseRefs :
             \/ ChainClose(c, ref)
             \/ \E ok \in BOOLEAN : CloseNotRecorded(c, ref, ok) \/ CloseAgain(c, ref, ok)
             \/ \E ok, also \in BOOLEAN :
                  FirstPlainClose(c, ref, ok, also) \/ CloseStops(c, ref, ok, also)
  BY <1>9 DEF ChainClose, CloseNotRecorded, CloseAgain, FirstPlainClose, CloseStops, aux
<1> QED
  BY <1>1, <1>2, <1>3, <1>4, <1>5, <1>6, <1>7, <1>8, <1>9 DEF ChainNext

\* Imports are never forgotten.
LEMMA ImportsKept == [ChainNext]_chainVars => imports \subseteq imports'
  BY ImportsBy DEF Establish

\* Every step keeps the books.
LEMMA NextBooks ==
  ASSUME "reconcile" \notin MayFail, DispInv, OneImporter => Books, [ChainNext]_chainVars
  PROVE  OneImporter' => Books'
<1> SUFFICES ASSUME OneImporter' PROVE Books'
  OBVIOUS
<1>0. Books
  BY ImportsKept DEF OneImporter
<1>1. CASE UNCHANGED chainVars
  BY <1>0, <1>1, UnchangedBooks DEF chainVars, memory, railVars, aux
<1>2. CASE ChainRestart
  BY <1>0, <1>2, RestartBooks
<1>3. CASE \E c \in Live, amt \in 1..MaxAmt : AcceptSlice(c, amt)
  BY <1>0, <1>3, AcceptSliceBooks
<1>4. CASE \E c \in Live : \E total \in 0..chan[c].cum : Checkpoint(c, total)
  BY <1>0, <1>4, CheckpointBooks
<1>5. CASE \E c \in Cids, amt \in DepositAmts : Deposit(c, amt)
  BY <1>0, <1>5, DepositBooks
<1>6. CASE \E i \in DOMAIN deposits : Funding(i) \/ FundingStops(i)
  BY <1>0, <1>6, FundingBooks, FundingStopsBooks
<1>7. CASE \E m \in Opens :
             \/ \E recorded \in BOOLEAN : Establish(m, recorded)
             \/ RefuseOpen(m) \/ OpenStops(m) \/ Retransmit(m)
  <2>1. PICK m \in Opens :
             \/ \E recorded \in BOOLEAN : Establish(m, recorded)
             \/ RefuseOpen(m) \/ OpenStops(m) \/ Retransmit(m)
    BY <1>7
  <2>2. CASE \E recorded \in BOOLEAN : Establish(m, recorded)
    <3>1. CASE m.pred = 0
      BY <1>0, <2>2, <3>1, EstablishPlainBooks
    <3>2. CASE m.pred # 0
      BY <1>0, <2>2, <3>2, EstablishChainedBooks
    <3> QED BY <3>1, <3>2
  <2>3. CASE RefuseOpen(m)
    BY <1>0, <2>3, UnchangedBooks DEF RefuseOpen, railVars, aux
  <2>4. CASE OpenStops(m)
    BY <1>0, <2>4, OpenStopsBooks
  <2>5. CASE Retransmit(m)
    BY <1>0, <2>5, UnchangedBooks DEF Retransmit, memory, railVars
  <2> QED BY <2>1, <2>2, <2>3, <2>4, <2>5
<1>8. CASE \E c \in Live : DrawRefused(c) \/ \E final \in BOOLEAN : InterimDraw(c, final)
  BY <1>0, <1>8, DrawRefusedBooks, InterimDrawBooks
<1>9. CASE \E c \in Live, ref \in CloseRefs :
             \/ ChainClose(c, ref)
             \/ \E ok \in BOOLEAN : CloseNotRecorded(c, ref, ok) \/ CloseAgain(c, ref, ok)
             \/ \E ok, also \in BOOLEAN :
                  FirstPlainClose(c, ref, ok, also) \/ CloseStops(c, ref, ok, also)
  BY <1>0, <1>9, ChainCloseBooks, CloseNotRecordedBooks, CloseAgainBooks, FirstPlainCloseBooks,
     CloseStopsBooks
<1> QED
  BY <1>1, <1>2, <1>3, <1>4, <1>5, <1>6, <1>7, <1>8, <1>9 DEF ChainNext

\* run_prepay_interim_draw, on_funding, on_close and chained_import: as long as no
\* position is imported twice, the books of every channel and of every chain hold.
THEOREM ChainBooksSound ==
  ASSUME "reconcile" \notin MayFail PROVE ChainSpec => [](DispInv /\ (OneImporter => Books))
<1>1. DispInv /\ [ChainNext]_chainVars => DispInv'
  BY NextDisp
<1>2. DispInv /\ (OneImporter => Books) /\ [ChainNext]_chainVars => (OneImporter => Books)'
  BY NextBooks
<1> QED BY <1>1, <1>2, InitDisp, InitBooks, PTL DEF ChainSpec

\* on_funding and compute_chain_snapshot: as long as no position is imported twice, the
\* end of a chain holds every deposit credited to it or to a channel it imported.
THEOREM FundingFollowsFloatHolds ==
  ASSUME "reconcile" \notin MayFail PROVE ChainSpec => [](OneImporter => FundingFollowsFloat)
<1>1. ASSUME DispInv, Books PROVE FundingFollowsFloat
  <2> SUFFICES ASSUME NEW c \in Live, DispositionOf(c) # "committed"
               PROVE  chan[c].funding = DepositsTo(Ancestors(c), credited)
    BY DEF FundingFollowsFloat
  <2>1. c \in Tips
    BY DEF Tips, KindIn, DispositionOf
  <2>2. chan[c].funding = Deps(deposits, Anc(imports, c), credited)
    BY <1>1, <2>1 DEF Books, Float
  <2>3. Ancestors(c) = Anc(imports, c)
    BY DEF Ancestors, Anc
  <2>4. \A S, I : DepositsTo(S, I) = Deps(deposits, S, I)
    BY DEF DepositsTo, Deps, Amounts
  <2> QED BY <2>2, <2>3, <2>4
<1>2. DispInv /\ (OneImporter => Books) => (OneImporter => FundingFollowsFloat)
  BY <1>1
<1> QED BY <1>2, ChainBooksSound, PTL

\* on_close: as long as no position is imported twice, the refund at a chain's end and
\* the draws along it are covered by the deposits consumed for it, in every life.
THEOREM DepositsCoverUsesHolds ==
  ASSUME "reconcile" \notin MayFail PROVE ChainSpec => [](OneImporter => DepositsCoverUses)
<1>1. ASSUME DispInv, Books PROVE DepositsCoverUses
  <2> SUFFICES ASSUME NEW c \in Cids
               PROVE  RefundsOf(Ancestors(c)) + DrawsOf(Ancestors(c)) <= DepositsTo(Ancestors(c), log.fund)
    BY DEF DepositsCoverUses
  <2>1. log.fund \subseteq DOMAIN deposits
    BY <1>1 DEF Books, Rail
  <2>2. Covered(c, imports, released, fundedP, deposits, log.fund)
    BY <1>1, <2>1, AllCovered
  <2>3. Ancestors(c) = Anc(imports, c)
    BY DEF Ancestors, Anc
  <2>4. \A S : /\ DepositsTo(S, log.fund) = Deps(deposits, S, log.fund)
               /\ RefundsOf(S) = Refunds(released, S) /\ DrawsOf(S) = SumOver(fundedP, S)
    BY DEF DepositsTo, Deps, Amounts, RefundsOf, Refunds, DrawsOf
  <2> QED BY <2>2, <2>3, <2>4 DEF Covered
<1>2. DispInv /\ (OneImporter => Books) => (OneImporter => DepositsCoverUses)
  BY <1>1
<1> QED BY <1>2, ChainBooksSound, PTL

\* Whole units within the accruals are within their carve.
LEMMA WithinCarve ==
  ASSUME NEW t \in Nat, NEW s \in Nat, BpDenom * s <= Total(Accruals(t))
  PROVE  s <= MeedCarve(Accruals(t))
<1> DEFINE T == Total(Accruals(t))
           D == BpDenom
           q == T \div D
<1>1. T \in Nat /\ D \in Nat \ {0} /\ D * s <= T
  BY ChainAccruals, ChainRoles
<1> HIDE DEF T, D
<1>2. q \in Nat /\ T < D * q + D
  BY <1>1, DivFact
<1> HIDE DEF q
<1>3. D * s \in Nat /\ D * q \in Nat /\ D * (q + 1) = D * q + D
  BY <1>1, <1>2
<1>4. D * s < D * (q + 1)
  BY <1>1, <1>2, <1>3
<1>5. s < q + 1
  BY <1>1, <1>2, <1>4, ScaleLess
<1>6. s <= q
  BY <1>2, <1>5
<1> QED BY <1>6 DEF MeedCarve, q, T, D

\* What a channel counts as settled is on its watermark.
LEMMA SettledIsDrawn ==
  ASSUME NEW x, NEW f, NEW k, Own(x, f, k)
  PROVE  Total(x.settled) - Total(x.imp.settled) <= BpDenom * f
<1> DEFINE s == Total(x.settled)
           i == Total(x.imp.settled)
           u == BpDenom * f
<1>1. RoundsOk(x, f, k) /\ s \in Nat /\ i \in Nat /\ u \in Nat
  BY OwnFacts
<1>2. s <= i + u
  <2>1. CASE Flight(x) = {}
    BY <1>1, <2>1 DEF RoundsOk
  <2>2. CASE Flight(x) # {}
    <3>1. PICK ref \in Flight(x) : TRUE
      BY <2>2
    <3> DEFINE y == x.rounds[ref]
               e == Total(x.rounds[ref].er)
    <3>2. FlightOk(x, y, f)
      BY <1>1, <3>1 DEF RoundsOk
    <3>3. y.er \in [RoleIds -> Nat] /\ s + e = i + BpDenom * y.target
          /\ (IF y.drawn THEN f = y.target ELSE s = i + u)
      BY <3>2 DEF FlightOk
    <3>4. e \in Nat
      BY <3>3, ChainTotal
    <3>5. CASE y.drawn
      <4>1. s + e = i + u
        BY <3>3, <3>5
      <4> HIDE DEF s, e, i, u
      <4> QED BY <1>1, <3>4, <4>1
    <3>6. CASE ~y.drawn
      <4>1. s = i + u
        BY <3>3, <3>6
      <4> HIDE DEF s, i, u
      <4> QED BY <1>1, <4>1
    <3> QED BY <3>5, <3>6
  <2> QED BY <2>1, <2>2
<1> HIDE DEF s, i, u
<1>3. s - i <= u
  BY <1>1, <1>2
<1> QED BY <1>3 DEF s, i, u

\* cumulative_target_p and attempt_prepay_close_draw: as long as no position is imported
\* twice, a chain draws no accrual twice, and no more than its close was refunded against.
THEOREM CarveDrawnOnceHolds ==
  ASSUME "reconcile" \notin MayFail PROVE ChainSpec => [](OneImporter => CarveDrawnOnce)
<1>1. ASSUME DispInv, Books PROVE CarveDrawnOnce
  <2>0. Rail /\ fundedP \in [Cids -> Nat]
    BY <1>1 DEF Books, Rail
  <2>1. \A c : Ancestors(c) = Anc(imports, c)
    BY DEF Ancestors, Anc
  <2>2. \A S : DrawsOf(S) = SumOver(fundedP, S)
    BY DEF DrawsOf
  <2>3. ASSUME NEW c \in Live
        PROVE  /\ DrawsOf(Ancestors(c)) <= MeedCarve(Accruals(BasisCum(c)))
               /\ Total(chan[c].settled) - Total(chan[c].imp.settled) <= BpDenom * fundedP[c]
    <3> DEFINE t == Basis(chan[c])
               i == Total(chan[c].imp.settled)
               s == SumOver(fundedP, Anc(imports, c))
    <3>1. /\ Own(chan[c], fundedP[c], KindIn(chain, c)) /\ Heir(c, chan[c], imports, fundedP) /\ c \in Cids
      BY <1>1, AncOfLive DEF Books
    <3>2. i \in Nat /\ t \in Nat /\ i + BpDenom * fundedP[c] <= Total(Accruals(t))
      BY <3>1, OwnFacts
    <3>3. BpDenom * SumOver(fundedP, Anc(imports, c) \ {c}) <= i
      BY <3>1 DEF Heir
    <3>4. BasisCum(c) = t
      BY DEF BasisCum, Basis
    <3> HIDE DEF t, i
    <3>5. s \in Nat /\ BpDenom * s <= Total(Accruals(t))
      BY <2>0, <3>1, <3>2, <3>3, ChainSpent
    <3> HIDE DEF s
    <3>6. s <= MeedCarve(Accruals(t))
      BY <3>2, <3>5, WithinCarve
    <3>7. Total(chan[c].settled) - Total(chan[c].imp.settled) <= BpDenom * fundedP[c]
      BY <3>1, SettledIsDrawn
    <3> QED BY <2>1, <2>2, <3>4, <3>6, <3>7 DEF s
  <2>4. ASSUME NEW c \in DOMAIN closing PROVE DrawsOf(Ancestors(c)) <= MeedCarve(Accruals(closing[c]))
    <3>1. c \in Cids
      BY <1>1, <2>0 DEF Rail, DispInv, LogOk
    <3>2. closing[c] \in Nat /\ BpDenom * SumOver(fundedP, Anc(imports, c)) <= Total(Accruals(closing[c]))
      BY <1>1, ClosedDraws
    <3>3. SumOver(fundedP, Anc(imports, c)) \in Nat
      BY <2>0, <3>1, DrawsNat
    <3>4. SumOver(fundedP, Anc(imports, c)) <= MeedCarve(Accruals(closing[c]))
      BY <3>2, <3>3, WithinCarve
    <3> QED BY <2>1, <2>2, <3>4
  <2> QED BY <2>3, <2>4 DEF CarveDrawnOnce
<1>2. DispInv /\ (OneImporter => Books) => (OneImporter => CarveDrawnOnce)
  BY <1>1
<1> QED BY <1>2, ChainBooksSound, PTL

-----------------------------------------------------------------------------
(* Where the hypothesis on imports comes from.                             *)

\* A recorded snapshot has been consumed: no refused open left it behind.
SnapsSpent == DOMAIN snaps \subseteq used
NoneRefused == \A m \in Opens : ~RefuseOpen(m)

\* DriverAccepts: with every snapshot consumed, a position is imported no second time.
LEMMA SecondImportRefused ==
  ASSUME DispInv, SnapsSpent, NEW m \in Opens, m.pred # 0, DriverAccepts(m)
  PROVE  \A e \in imports : e[1] # m.pred
<1> SUFFICES ASSUME NEW e \in imports, e[1] = m.pred PROVE FALSE
  OBVIOUS
<1>1. CanImport(m) /\ <<m.pred, m.ref>> \notin used
  BY DEF DriverAccepts
<1>2. m.pred \in Live
  BY <1>1, ImportsLive
<1>3. KindIn(chain, m.pred) = "committed"
  BY <1>2 DEF DispInv, ImportsOk
<1>4. SnapsAt(m) = snaps
  BY <1>3 DEF KindIn, DispositionOf, SnapsAt
<1>5. <<m.pred, m.ref>> \in DOMAIN snaps
  BY <1>1, <1>4 DEF CanImport
<1> QED BY <1>1, <1>5 DEF SnapsSpent

\* An accepted open consumes the snapshot it records.
LEMMA NextSpent ==
  ASSUME DispInv, SnapsSpent, [ChainNext]_chainVars, [NoneRefused]_chainVars
  PROVE  SnapsSpent'
<1>1. CASE UNCHANGED chainVars
  BY <1>1 DEF chainVars, memory, SnapsSpent
<1>2. CASE ChainRestart
  BY <1>2 DEF ChainRestart, LoseMemory, SnapsSpent
<1>3. CASE \E c \in Live, amt \in 1..MaxAmt : AcceptSlice(c, amt)
  BY <1>3 DEF AcceptSlice, SnapsSpent
<1>4. CASE \E c \in Live : \E total \in 0..chan[c].cum : Checkpoint(c, total)
  BY <1>4 DEF Checkpoint, SnapsSpent
<1>5. CASE \E c \in Cids, amt \in DepositAmts : Deposit(c, amt)
  BY <1>5 DEF Deposit, memory, SnapsSpent
<1>6. CASE \E i \in DOMAIN deposits : Funding(i) \/ FundingStops(i)
  BY <1>6 DEF Funding, FundingStops, LoseMemory, SnapsSpent
<1>7. CASE \E m \in Opens :
             \/ \E recorded \in BOOLEAN : Establish(m, recorded)
             \/ RefuseOpen(m) \/ OpenStops(m) \/ Retransmit(m)
  <2>1. PICK m \in Opens :
             \/ \E recorded \in BOOLEAN : Establish(m, recorded)
             \/ RefuseOpen(m) \/ OpenStops(m) \/ Retransmit(m)
    BY <1>7
  <2>2. CASE \E recorded \in BOOLEAN : Establish(m, recorded)
    <3> DEFINE key == <<m.pred, m.ref>>
    <3>1. snaps' = SnapsAt(m) /\ used' = IF m.pred = 0 THEN used ELSE used \cup {key}
      BY <2>2 DEF Establish
    <3>2. m.pred = 0 => SnapsAt(m) = snaps
      BY DEF SnapsAt
    <3>3. DOMAIN SnapsAt(m) \subseteq DOMAIN snaps \cup {key}
      BY DEF SnapsAt, Put, Without
    <3> HIDE DEF key
    <3> QED BY <3>1, <3>2, <3>3 DEF SnapsSpent
  <2>3. CASE RefuseOpen(m)
    <3>1. snaps' # snaps
      BY <2>3 DEF RefuseOpen
    <3> QED BY <2>3, <3>1 DEF NoneRefused, chainVars, memory
  <2>4. CASE OpenStops(m)
    BY <2>4 DEF OpenStops, LoseMemory, SnapsSpent
  <2>5. CASE Retransmit(m)
    BY <2>5 DEF Retransmit, memory, SnapsSpent
  <2> QED BY <2>1, <2>2, <2>3, <2>4, <2>5
<1>8. CASE \E c \in Live : DrawRefused(c) \/ \E final \in BOOLEAN : InterimDraw(c, final)
  BY <1>8 DEF DrawRefused, InterimDraw, SnapsSpent
<1>9. CASE \E c \in Live, ref \in CloseRefs :
             \/ ChainClose(c, ref)
             \/ \E ok \in BOOLEAN : CloseNotRecorded(c, ref, ok) \/ CloseAgain(c, ref, ok)
             \/ \E ok, also \in BOOLEAN :
                  FirstPlainClose(c, ref, ok, also) \/ CloseStops(c, ref, ok, also)
  BY <1>9 DEF ChainClose, CloseNotRecorded, CloseAgain, FirstPlainClose, CloseStops, LoseMemory, SnapsSpent
<1> QED
  BY <1>1, <1>2, <1>3, <1>4, <1>5, <1>6, <1>7, <1>8, <1>9 DEF ChainNext

\* So every step leaves each position with one importer.
LEMMA NextOneImporter ==
  ASSUME DispInv, SnapsSpent, OneImporter, [ChainNext]_chainVars
  PROVE  OneImporter'
<1>1. CASE \E m \in Opens, recorded \in BOOLEAN : Establish(m, recorded)
  <2>1. PICK m \in Opens, recorded \in BOOLEAN : Establish(m, recorded)
    BY <1>1
  <2>2. DriverAccepts(m) /\ imports' = IF m.pred = 0 THEN imports ELSE imports \cup {<<m.pred, m.cid>>}
    BY <2>1 DEF Establish
  <2>3. m.pred # 0 => \A e \in imports : e[1] # m.pred
    BY <2>2, SecondImportRefused
  <2>4. <<m.pred, m.cid>>[1] = m.pred
    OBVIOUS
  <2> QED BY <2>2, <2>3, <2>4 DEF OneImporter
<1>2. CASE ~\E m \in Opens, recorded \in BOOLEAN : Establish(m, recorded)
  <2>1. imports' = imports
    BY <1>2, ImportsBy
  <2> QED BY <2>1 DEF OneImporter
<1> QED BY <1>1, <1>2

\* on_open and consumed_chain_refs: a position is imported twice only by way of a snapshot
\* that a refused open recorded; where none does, the disposition of every position and
\* the books of every chain hold without a further hypothesis.
THEOREM ChainsSoundUnlessRefused ==
  ASSUME "reconcile" \notin MayFail
  PROVE  ChainSpec /\ [][NoneRefused]_chainVars =>
           [](OneDisposition /\ FundingFollowsFloat /\ DepositsCoverUses /\ CarveDrawnOnce)
<1>1. ChainInit => SnapsSpent /\ OneImporter
  BY DEF ChainInit, SnapsSpent, OneImporter
<1>2. DispInv /\ SnapsSpent /\ OneImporter /\ [ChainNext]_chainVars /\ [NoneRefused]_chainVars
        => SnapsSpent' /\ OneImporter'
  BY NextSpent, NextOneImporter
<1>3. ChainSpec => []DispInv
  BY DispositionsSound
<1>4. ChainSpec /\ [][NoneRefused]_chainVars => []OneImporter
  BY <1>1, <1>2, <1>3, PTL DEF ChainSpec
<1>5. ChainSpec => [](OneImporter => OneDisposition)
  BY OneDispositionHolds
<1>6. ChainSpec => [](OneImporter => FundingFollowsFloat)
  BY FundingFollowsFloatHolds
<1>7. ChainSpec => [](OneImporter => DepositsCoverUses)
  BY DepositsCoverUsesHolds
<1>8. ChainSpec => [](OneImporter => CarveDrawnOnce)
  BY CarveDrawnOnceHolds
<1> QED BY <1>4, <1>5, <1>6, <1>7, <1>8, PTL
=============================================================================
