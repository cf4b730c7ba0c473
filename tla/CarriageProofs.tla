--------------------------- MODULE CarriageProofs ---------------------------
(***************************************************************************)
(* Proofs about a channel's carriage: its establishment, the log that      *)
(* makes an opening decision once, and the stream that is paid from it,    *)
(* for any ids, terms, snapshots, vectors and bounds.                      *)
(*                                                                         *)
(* The invariant of Establishment says of the wallet's sessions how they   *)
(* were made (Made), with the secret sealed to the party the open is for,  *)
(* and of the merchant's channels that each is durably decided, governed   *)
(* by the registry it was opened under and, if a key of the wallet pays    *)
(* for it, the wallet's own session.  The log's is in its own part, and so *)
(* is the stream's.                                                        *)
(***************************************************************************)
EXTENDS Establishment, OneDecision, PayerStream, SumsProofs, SequenceTheorems, TLAPS

ClientFields == {"open", "key", "minted", "funding", "closes", "acked"}
ChannelFields == {"open", "key", "seq", "terminated", "disposition", "funding"}

Secret(c) == <<"s", c>>
ContentOf(c, m, t, ts) == AuthContent(PayerKey(m, Host), c, m, t, HCommit(Secret(c)), ts)

\* How the wallet made the client w of channel c.
MadeFor(w, c, m, t, ts) ==
  /\ w.open = Open(Auth(PayerKey(m, Host), ContentOf(c, m, t, ts)), EncKey(m), Secret(c))
  /\ w.key = KSession(Secret(c), PayerKey(m, Host), m, c)
  /\ PayerSide(OwnDest, t.vector)
Made(w, c) == \E m \in {Merchant, Other}, t \in Params, ts \in Stamps : MadeFor(w, c, m, t, ts)

ClientOk(w, c) ==
  w # None =>
    /\ DOMAIN w = ClientFields
    /\ Made(w, c)
    /\ w.minted \in 0..MaxSeq

\* The channel r that the merchant holds under c, against the wallet's client w.
Agrees(r, w) ==
  /\ w # None
  /\ r.open.auth = w.open.auth
  /\ r.key = w.key
  /\ r.funding # {} => w.funding
  /\ r.disposition = "pending" => TRUE \in w.closes

ChannelOk(r, w) ==
  r # None =>
    /\ DOMAIN r = ChannelFields
    /\ r.seq \in Nat
    /\ r.open.auth.content.merchant = Merchant
    /\ r.open.auth.content.payer \in WalletKeys => Agrees(r, w)

Governed(r, store) == r # None => VectorGoverned(store, r.open.auth.content.terms)

\* The snapshots of a store are verified ones.
StoreOk(store) == \A v \in DOMAIN store : store[v] \in Snapshots /\ ParseVerify(store[v])

\* What was billed of a channel, given whether it is decided and what is held.
BillOk(b, isDecided, r, w) ==
  /\ b \in [1..MaxSeq -> Nat]
  /\ \A q \in 1..MaxSeq : b[q] > 0 =>
       /\ b[q] = 1
       /\ w # None /\ q <= w.minted
       /\ isDecided
       /\ r # None => q <= r.seq

IInv ==
  /\ session = [c \in Ids |-> session[c]]
  /\ retained = [c \in Ids |-> retained[c]]
  /\ billed = [c \in Ids |-> billed[c]]
  /\ StoreOk(held) /\ StoreOk(registry)
  /\ \A c \in Ids :
       /\ ClientOk(session[c], c)
       /\ ChannelOk(retained[c], session[c])
       /\ Governed(retained[c], registry)
       /\ retained[c] # None => c \in decided
       /\ BillOk(billed[c], c \in decided, retained[c], session[c])

-----------------------------------------------------------------------------
(* What the objects of Wire commit to. *)

LEMMA SecretsDiffer ==
  /\ \A c, d : Secret(c) = Secret(d) => c = d
  /\ \A c \in Ids : Secret(c) # OwnSecret
<1>1. \A c, d : Secret(c) = Secret(d) => c = d
  BY DEF Secret
<1>2. \A c \in Ids : c # 0
  BY IdAssumption
<1> QED
  BY <1>1, <1>2 DEF Secret, OwnSecret

\* HCommit and KSession commit to the secret.
LEMMA Commits ==
  ASSUME NEW x, NEW y, NEW p, NEW m, NEW c
  PROVE  /\ HCommit(x) = HCommit(y) => x = y
         /\ KSession(x, p, m, c) = KSession(y, p, m, c) => x = y
  BY DEF HCommit, KSession

\* accept_origin: the wallet seals to the key of the party it opens with.
LEMMA SealedTo ==
  ASSUME NEW m \in {Merchant, Other}, NEW k \in BoundKeys(m)
  PROVE  k = EncKey(m)
<1>1. EncKey(Merchant) # EncKey(Other)
  BY KeyAssumption DEF EncKey
<1>2. PICK a \in Artifacts : k = a.content.encKey /\ Verifies(m, "artifact", a.content, a.sig)
  BY DEF BoundKeys, ArtifactAccepted
<1>3. a.sig.key = m /\ a.sig.over = a.content
  BY <1>2 DEF Verifies, Sign
<1>4. CASE a = Artifact(Merchant, Host, Cert, EncKey(Merchant), 0, 1)
  BY <1>2, <1>3, <1>4 DEF Artifact, Sign
<1>5. CASE a = Artifact(Other, Host, Cert, EncKey(Other), 0, MaxTime)
  BY <1>2, <1>3, <1>5 DEF Artifact, Sign
<1>6. CASE a = [Artifact(Merchant, Host, Cert, EncKey(Merchant), 0, 1) EXCEPT !.content.encKey = EncKey(Other)]
  <2>1. a.content.encKey = EncKey(Other) /\ a.sig.over.encKey = EncKey(Merchant)
    BY <1>6 DEF Artifact, Sign
  <2> QED
    BY <1>1, <1>3, <2>1
<1> QED
  BY <1>2, <1>4, <1>5, <1>6 DEF Artifacts

\* A session that was made carries its id, its merchant and its payer.
LEMMA MadeSays ==
  ASSUME NEW w, NEW c, NEW m \in {Merchant, Other}, NEW t, NEW ts, MadeFor(w, c, m, t, ts)
  PROVE  /\ w.open.auth.content.id = c
         /\ w.open.auth.content.merchant = m
         /\ w.open.auth.content.payer = PayerKey(m, Host)
         /\ w.open.auth.content.payer \in WalletKeys
         /\ w.open.auth.content.hs = HCommit(Secret(c))
         /\ w.open.auth.content.terms = t
         /\ w.open.auth.sig = Sign(PayerKey(m, Host), "chan-auth", w.open.auth.content)
         /\ w.open.seal.for = EncKey(m)
         /\ w.open.seal.secret = Secret(c)
         /\ w.key = KSession(Secret(c), PayerKey(m, Host), m, c)
         /\ DOMAIN w.open = {"auth", "seal"} /\ DOMAIN w.open.auth = {"content", "sig"}
         /\ DOMAIN w.open.auth.content = {"payer", "id", "merchant", "terms", "hs", "timestamp"}
  BY DEF MadeFor, Open, Auth, Seal, AuthContent, ContentOf, WalletKeys

\* A client is one of a session.
LEMMA ClientIs ==
  ASSUME IInv, NEW u \in Clients
  PROVE  \E d \in Ids, m \in {Merchant, Other}, t \in Params, ts \in Stamps :
           session[d] # None /\ u = session[d] /\ MadeFor(u, d, m, t, ts)
<1>1. PICK d \in Ids : session[d] # None /\ u = session[d]
  BY DEF Clients
<1>2. Made(u, d)
  BY <1>1 DEF IInv, ClientOk
<1> QED
  BY <1>1, <1>2 DEF Made

LEMMA ClientSays ==
  ASSUME IInv, NEW c \in Ids, session[c] # None
  PROVE  \E m \in {Merchant, Other} :
           /\ session[c].open.auth.content.id = c
           /\ session[c].open.auth.content.merchant = m
           /\ session[c].open.auth.content.payer = PayerKey(m, Host)
           /\ session[c].open.auth.content.hs = HCommit(Secret(c))
           /\ session[c].key = KSession(Secret(c), PayerKey(m, Host), m, c)
<1>1. PICK m \in {Merchant, Other}, t \in Params, ts \in Stamps : MadeFor(session[c], c, m, t, ts)
  BY DEF IInv, ClientOk, Made
<1> QED
  BY <1>1 DEF MadeFor, Open, Auth, AuthContent, ContentOf

\* The secrets of the wallet's that Other has are those of sessions with Other.
LEMMA OthersSecret ==
  ASSUME IInv, NEW c \in Ids, Secret(c) \in OtherSecrets
  PROVE  session[c] # None /\ session[c].open.auth.content.merchant = Other
<1>1. PICK u \in Clients : u.open.seal.for = EncKey(Other) /\ Secret(c) = u.open.seal.secret
  BY SecretsDiffer DEF OtherSecrets
<1>2. PICK d \in Ids, m \in {Merchant, Other}, t \in Params, ts \in Stamps :
        session[d] # None /\ u = session[d] /\ MadeFor(u, d, m, t, ts)
  BY ClientIs
<1>3. /\ u.open.seal.for = EncKey(m) /\ u.open.seal.secret = Secret(d)
      /\ u.open.auth.content.merchant = m
  BY <1>2 DEF MadeFor, Open, Auth, Seal, AuthContent, ContentOf
<1>4. d = c
  BY <1>1, <1>3, SecretsDiffer
<1>5. m = Other
  BY <1>1, <1>3, KeyAssumption DEF EncKey
<1> QED
  BY <1>2, <1>3, <1>4, <1>5

LEMMA OpenShape ==
  ASSUME IInv, NEW u \in Clients
  PROVE  /\ DOMAIN u.open = {"auth", "seal"} /\ DOMAIN u.open.auth = {"content", "sig"}
         /\ DOMAIN u.open.auth.content = {"payer", "id", "merchant", "terms", "hs", "timestamp"}
<1>1. PICK d \in Ids, m \in {Merchant, Other}, t \in Params, ts \in Stamps : MadeFor(u, d, m, t, ts)
  BY ClientIs
<1> QED
  BY <1>1 DEF MadeFor, Open, Auth, AuthContent, ContentOf

\* The kinds of opens that can be presented: the authorization is the wallet's, or the
\* wallet's with other terms, or Other's.
LEMMA OpenIs ==
  ASSUME IInv, NEW o \in Opens
  PROVE  \/ \E u \in Clients : o.auth = u.open.auth
         \/ \E u \in Clients : /\ o.auth.content.id = u.open.auth.content.id
                               /\ o.auth.sig = u.open.auth.sig
                               /\ DOMAIN o.auth = {"content", "sig"}
                               /\ o.auth = [content |-> o.auth.content, sig |-> o.auth.sig]
         \/ o.auth.content.payer = Other /\ o.auth.content.id \in Ids
<1>1. CASE o \in {u.open : u \in Clients}
  BY <1>1
<1>2. CASE o \in {[u.open EXCEPT !.seal = Seal(EncKey(Merchant), u.open.auth.content, x)] :
                    u \in Clients, x \in OtherSecrets}
  <2>1. PICK u \in Clients, x \in OtherSecrets :
          o = [u.open EXCEPT !.seal = Seal(EncKey(Merchant), u.open.auth.content, x)]
    BY <1>2
  <2>2. DOMAIN u.open = {"auth", "seal"}
    BY OpenShape
  <2> QED BY <2>1, <2>2
<1>3. CASE o \in {[u.open EXCEPT !.auth.content.terms = t] : u \in Clients, t \in Params}
  <2>1. PICK u \in Clients, t \in Params : o = [u.open EXCEPT !.auth.content.terms = t]
    BY <1>3
  <2>2. /\ DOMAIN u.open = {"auth", "seal"} /\ DOMAIN u.open.auth = {"content", "sig"}
        /\ DOMAIN u.open.auth.content = {"payer", "id", "merchant", "terms", "hs", "timestamp"}
    BY OpenShape
  <2>3. o.auth = [u.open.auth EXCEPT !.content.terms = t]
    BY <2>1, <2>2
  <2>4. /\ o.auth.content = [u.open.auth.content EXCEPT !.terms = t]
        /\ o.auth.sig = u.open.auth.sig
        /\ DOMAIN o.auth = {"content", "sig"}
        /\ o.auth = [content |-> o.auth.content, sig |-> o.auth.sig]
    BY <2>2, <2>3
  <2>5. o.auth.content.id = u.open.auth.content.id
    BY <2>2, <2>4
  <2> QED BY <2>4, <2>5
<1>4. CASE o \in {Open(Auth(Other, AuthContent(Other, c, Merchant, t, HCommit(OwnSecret), now)),
                       EncKey(Merchant), OwnSecret) : c \in Ids, t \in Params}
  <2>1. PICK c \in Ids, t \in Params :
          o = Open(Auth(Other, AuthContent(Other, c, Merchant, t, HCommit(OwnSecret), now)),
                   EncKey(Merchant), OwnSecret)
    BY <1>4
  <2>2. o.auth.content = AuthContent(Other, c, Merchant, t, HCommit(OwnSecret), now)
    BY <2>1 DEF Open, Auth
  <2> QED
    BY <2>2 DEF AuthContent
<1> QED
  BY <1>1, <1>2, <1>3, <1>4 DEF Opens

LEMMA OpenHasId ==
  ASSUME IInv, NEW o \in Opens
  PROVE  o.auth.content.id \in Ids
<1>1. ASSUME NEW u \in Clients PROVE u.open.auth.content.id \in Ids
  <2>1. PICK d \in Ids : session[d] # None /\ u = session[d]
    BY DEF Clients
  <2> QED BY <2>1, ClientSays
<1> QED
  BY <1>1, OpenIs

\* open_channel: an authorization that verifies under a key of the wallet's is the one
\* the wallet signed for that id.
LEMMA AuthIsTheWallets ==
  ASSUME IInv, NEW o \in Opens, OpenVerified(o), o.auth.content.payer \in WalletKeys,
         NEW c, c = o.auth.content.id
  PROVE  c \in Ids /\ session[c] # None /\ o.auth = session[c].open.auth
<1>1. o.auth.sig = Sign(o.auth.content.payer, "chan-auth", o.auth.content)
  BY DEF OpenVerified, AuthVerifies, Verifies
<1>2. o.auth.content.payer # Other
  BY PayerKeyAssumption
<1>3. ASSUME NEW u \in Clients, o.auth = u.open.auth \/
               /\ o.auth.sig = u.open.auth.sig
               /\ o.auth = [content |-> o.auth.content, sig |-> o.auth.sig]
      PROVE  o.auth = u.open.auth
  <2>1. PICK d \in Ids, m \in {Merchant, Other}, t \in Params, ts \in Stamps : MadeFor(u, d, m, t, ts)
    BY ClientIs
  <2>2. /\ u.open.auth.sig = Sign(PayerKey(m, Host), "chan-auth", u.open.auth.content)
        /\ u.open.auth = [content |-> u.open.auth.content, sig |-> u.open.auth.sig]
    BY <2>1, MadeSays DEF MadeFor, Open, Auth
  <2>3. o.auth.sig = u.open.auth.sig => o.auth.content = u.open.auth.content
    BY <1>1, <2>2 DEF Sign
  <2> QED BY <1>3, <2>2, <2>3
<1>4. PICK u \in Clients : o.auth = u.open.auth
  BY <1>2, <1>3, OpenIs
<1>5. PICK d \in Ids : session[d] # None /\ u = session[d]
  BY DEF Clients
<1>6. d = c
  <2>1. session[d].open.auth.content.id = d
    BY <1>5, ClientSays
  <2> QED BY <1>4, <1>5, <2>1
<1> QED
  BY <1>4, <1>5, <1>6

\* The H(s) check: whoever sealed it, the secret is the wallet's, and so is the key.
LEMMA KeyIsTheWallets ==
  ASSUME IInv, NEW o \in Opens, OpenVerified(o), o.auth.content.payer \in WalletKeys,
         NEW c, c = o.auth.content.id, NEW x \in OpenSecrets(o)
  PROVE  KSession(x, o.auth.content.payer, o.auth.content.merchant, c) = session[c].key
<1>1. c \in Ids /\ session[c] # None /\ o.auth = session[c].open.auth
  BY AuthIsTheWallets
<1>2. PICK m \in {Merchant, Other} :
        /\ session[c].open.auth.content.merchant = m
        /\ session[c].open.auth.content.payer = PayerKey(m, Host)
        /\ session[c].open.auth.content.hs = HCommit(Secret(c))
        /\ session[c].key = KSession(Secret(c), PayerKey(m, Host), m, c)
  BY <1>1, ClientSays
<1>3. HCommit(x) = o.auth.content.hs
  BY DEF OpenSecrets
<1>4. x = Secret(c)
  <2>1. HCommit(x) = HCommit(Secret(c))
    BY <1>1, <1>2, <1>3
  <2> QED BY <2>1, Commits
<1> QED
  BY <1>1, <1>2, <1>4

-----------------------------------------------------------------------------
(* The steps *)

LEMMA InitIInv == Init => IInv
<1> SUFFICES ASSUME Init PROVE IInv
  OBVIOUS
<1>1. StoreOk(EmptyStore)
  BY DEF StoreOk, EmptyStore
<1>2. \A c \in Ids : session[c] = None /\ retained[c] = None /\ billed[c] = [q \in 1..MaxSeq |-> 0]
  BY DEF Init
<1>3. \A c \in Ids : BillOk(billed[c], c \in decided, retained[c], session[c])
  <2> SUFFICES ASSUME NEW c \in Ids PROVE BillOk(billed[c], c \in decided, retained[c], session[c])
    OBVIOUS
  <2>1. billed[c] = [q \in 1..MaxSeq |-> 0]
    BY <1>2
  <2>2. billed[c] \in [1..MaxSeq -> Nat]
    BY ONLY <2>1
  <2>3. \A q \in 1..MaxSeq : ~ (billed[c][q] > 0)
    BY ONLY <2>1
  <2> QED BY ONLY <2>2, <2>3, Zenon DEF BillOk
<1> QED
  BY <1>1, <1>2, <1>3 DEF Init, IInv, ClientOk, ChannelOk, Governed

\* A step of the wallet, by which a client keeps its keys and signs no less.
LEMMA WalletStep ==
  ASSUME IInv, NEW c \in Ids, NEW w, w # None, ClientOk(w, c),
         session' = [session EXCEPT ![c] = w],
         session[c] # None =>
           /\ w.open = session[c].open /\ w.key = session[c].key
           /\ session[c].funding => w.funding
           /\ session[c].closes \subseteq w.closes
           /\ session[c].minted <= w.minted,
         UNCHANGED <<held, registry, retained, decided, billed>>
  PROVE  IInv'
<1>1. session' = [d \in Ids |-> session'[d]] /\ session'[c] = w /\ \A d \in Ids \ {c} : session'[d] = session[d]
  BY DEF IInv
<1>2. \A d \in Ids : ClientOk(session'[d], d)
  BY <1>1 DEF IInv
<1>3. ChannelOk(retained[c], w)
  <2>1. ChannelOk(retained[c], session[c])
    BY DEF IInv
  <2> QED BY <2>1 DEF ChannelOk, Agrees
<1>4. BillOk(billed[c], c \in decided, retained[c], w)
  <2>1. BillOk(billed[c], c \in decided, retained[c], session[c])
    BY DEF IInv
  <2>2. session[c] # None => session[c].minted \in 0..MaxSeq
    BY DEF IInv, ClientOk
  <2>3. w.minted \in 0..MaxSeq
    BY DEF ClientOk
  <2> QED BY <2>1, <2>2, <2>3, EstablishmentBounds DEF BillOk
<1>5. \A d \in Ids : /\ ChannelOk(retained[d], session'[d])
                     /\ BillOk(billed[d], d \in decided, retained[d], session'[d])
  BY <1>1, <1>3, <1>4 DEF IInv
<1> QED
  BY <1>1, <1>2, <1>5 DEF IInv

\* A step of the merchant on the channel c, which it holds afterwards.
LEMMA MerchantStep ==
  ASSUME IInv, NEW c \in Ids, NEW r, r # None, retained' = [retained EXCEPT ![c] = r],
         ChannelOk(r, session[c]), Governed(r, registry),
         decided' = decided \cup {c},
         NEW b, billed' = [billed EXCEPT ![c] = b], BillOk(b, TRUE, r, session[c]),
         UNCHANGED <<held, registry, session>>
  PROVE  IInv'
<1>1. retained' = [d \in Ids |-> retained'[d]] /\ retained'[c] = r /\ \A d \in Ids \ {c} : retained'[d] = retained[d]
  BY DEF IInv
<1>2. billed' = [d \in Ids |-> billed'[d]] /\ billed'[c] = b /\ \A d \in Ids \ {c} : billed'[d] = billed[d]
  BY DEF IInv
<1>3. c \in decided' /\ \A d \in Ids \ {c} : d \in decided' <=> d \in decided
  OBVIOUS
<1>4. \A d \in Ids \ {c} : BillOk(billed[d], d \in decided, retained[d], session[d])
  BY DEF IInv
<1>5. \A d \in Ids : BillOk(billed'[d], d \in decided', retained'[d], session[d])
  BY <1>1, <1>2, <1>3, <1>4 DEF BillOk
<1>6. \A d \in Ids : /\ ChannelOk(retained'[d], session[d]) /\ Governed(retained'[d], registry)
                     /\ retained'[d] # None => d \in decided'
  BY <1>1, <1>3 DEF IInv
<1> QED
  BY <1>1, <1>2, <1>5, <1>6 DEF IInv

\* A client signs or learns more.
LEMMA SameSession ==
  ASSUME IInv, NEW c \in Ids, session[c] # None, NEW w, session' = [session EXCEPT ![c] = w],
         DOMAIN w = ClientFields, w.open = session[c].open, w.key = session[c].key,
         session[c].funding => w.funding, session[c].closes \subseteq w.closes,
         w.minted \in 0..MaxSeq, session[c].minted <= w.minted,
         UNCHANGED <<held, registry, retained, decided, billed>>
  PROVE  IInv'
<1>1. w # None
  BY DEF None, ClientFields
<1>2. Made(session[c], c)
  BY DEF IInv, ClientOk
<1>3. ClientOk(w, c)
  BY <1>2 DEF ClientOk, Made, MadeFor
<1> QED
  BY <1>1, <1>3, WalletStep, Zenon

LEMMA ClientShape ==
  ASSUME IInv, NEW c \in Ids, session[c] # None
  PROVE  DOMAIN session[c] = ClientFields /\ session[c].minted \in 0..MaxSeq
  BY DEF IInv, ClientOk

\* The acknowledgment changes nothing the invariant speaks of.
LEMMA AcknowledgeKeeps ==
  ASSUME IInv, NEW c \in Ids, NEW o, Acknowledge(c, o)
  PROVE  /\ session' = [d \in Ids |-> session'[d]]
         /\ \A d \in Ids : ClientOk(session'[d], d)
         /\ \A d \in Ids : \A r : ChannelOk(r, session[d]) => ChannelOk(r, session'[d])
         /\ \A d \in Ids : \A b, i, r : BillOk(b, i, r, session[d]) => BillOk(b, i, r, session'[d])
<1>1. CASE session' = session
  BY <1>1 DEF IInv
<1>2. CASE session[c] # None /\ session' = [session EXCEPT ![c].acked = TRUE]
  <2> DEFINE w == [session[c] EXCEPT !.acked = TRUE]
  <2>1. DOMAIN session[c] = ClientFields /\ session[c].minted \in 0..MaxSeq /\ Made(session[c], c)
    BY <1>2 DEF IInv, ClientOk
  <2>2. /\ w.open = session[c].open /\ w.key = session[c].key /\ w.minted = session[c].minted
        /\ w.funding = session[c].funding /\ w.closes = session[c].closes /\ DOMAIN w = ClientFields
    BY <2>1 DEF ClientFields
  <2>3. session' = [session EXCEPT ![c] = w]
    BY <1>2
  <2> HIDE DEF w
  <2>4. session' = [d \in Ids |-> session'[d]] /\ session'[c] = w /\ \A d \in Ids \ {c} : session'[d] = session[d]
    BY <2>3 DEF IInv
  <2>5. w # None
    BY <2>2 DEF None, ClientFields
  <2>6. ClientOk(w, c)
    BY <2>1, <2>2 DEF ClientOk, Made, MadeFor
  <2>7. ASSUME NEW r, ChannelOk(r, session[c]) PROVE ChannelOk(r, w)
    BY <2>2, <2>5, <2>7, Zenon DEF ChannelOk, Agrees
  <2>8. ASSUME NEW b, NEW i, NEW r, BillOk(b, i, r, session[c]) PROVE BillOk(b, i, r, w)
    BY <2>2, <2>5, <2>8, Zenon DEF BillOk
  <2> HIDE <1>2
  <2>9. \A d \in Ids : ClientOk(session'[d], d)
    BY <2>4, <2>6 DEF IInv
  <2>10. ASSUME NEW d \in Ids, NEW r, ChannelOk(r, session[d]) PROVE ChannelOk(r, session'[d])
    BY <2>4, <2>7, <2>10
  <2>11. ASSUME NEW d \in Ids, NEW b, NEW i, NEW r, BillOk(b, i, r, session[d])
         PROVE  BillOk(b, i, r, session'[d])
    <3>1. CASE d = c
      BY <2>4, <2>8, <2>11, <3>1, Zenon
    <3>2. CASE d \in Ids \ {c}
      BY <2>4, <2>11, <3>2, Zenon
    <3> QED BY <3>1, <3>2
  <2> QED
    BY <2>4, <2>9, <2>10, <2>11
<1> QED
  BY <1>1, <1>2 DEF Acknowledge

LEMMA AcknowledgeStep ==
  ASSUME IInv, NEW c \in Ids, NEW o, Acknowledge(c, o),
         UNCHANGED <<held, registry, retained, decided, billed>>
  PROVE  IInv'
  BY AcknowledgeKeeps DEF IInv

LEMMA MintStep ==
  ASSUME IInv, NEW c \in Ids, Mint(c)
  PROVE  IInv'
<1> DEFINE w == [session[c] EXCEPT !.minted = @ + 1]
<1>1. session[c] # None /\ session[c].minted < MaxSeq /\ session' = [session EXCEPT ![c] = w]
  BY DEF Mint
<1>2. DOMAIN session[c] = ClientFields /\ session[c].minted \in 0..MaxSeq
  BY <1>1, ClientShape
<1>3. /\ w.open = session[c].open /\ w.key = session[c].key /\ w.minted = session[c].minted + 1
      /\ w.funding = session[c].funding /\ w.closes = session[c].closes /\ DOMAIN w = ClientFields
  BY <1>2 DEF ClientFields
<1>4. UNCHANGED <<held, registry, retained, decided, billed>>
  BY DEF Mint
<1> HIDE DEF w
<1>5. w.minted \in 0..MaxSeq /\ session[c].minted <= w.minted
  BY <1>1, <1>2, <1>3, EstablishmentBounds
<1>6. (session[c].funding => w.funding) /\ session[c].closes \subseteq w.closes
  BY <1>3, Zenon
<1> QED
  BY <1>1, <1>3, <1>4, <1>5, <1>6, SameSession, Zenon

LEMMA SignFundingStep ==
  ASSUME IInv, NEW c \in Ids, SignFunding(c)
  PROVE  IInv'
<1> DEFINE w == [session[c] EXCEPT !.funding = TRUE]
<1>1. session[c] # None /\ session' = [session EXCEPT ![c] = w]
  BY DEF SignFunding
<1>2. DOMAIN session[c] = ClientFields /\ session[c].minted \in 0..MaxSeq
  BY <1>1, ClientShape
<1>3. /\ w.open = session[c].open /\ w.key = session[c].key /\ w.minted = session[c].minted
      /\ w.funding = TRUE /\ w.closes = session[c].closes /\ DOMAIN w = ClientFields
  BY <1>2 DEF ClientFields
<1>4. UNCHANGED <<held, registry, retained, decided, billed>>
  BY DEF SignFunding
<1> HIDE DEF w
<1>5. w.minted \in 0..MaxSeq /\ session[c].minted <= w.minted
  BY <1>2, <1>3, EstablishmentBounds
<1>6. (session[c].funding => w.funding) /\ session[c].closes \subseteq w.closes
  BY <1>3, Zenon
<1> QED
  BY <1>1, <1>3, <1>4, <1>5, <1>6, SameSession, Zenon

LEMMA SignCloseStep ==
  ASSUME IInv, NEW c \in Ids, NEW i, SignClose(c, i)
  PROVE  IInv'
<1> DEFINE w == [session[c] EXCEPT !.closes = @ \cup {i}]
<1>1. session[c] # None /\ session' = [session EXCEPT ![c] = w]
  BY DEF SignClose
<1>2. DOMAIN session[c] = ClientFields /\ session[c].minted \in 0..MaxSeq
  BY <1>1, ClientShape
<1>3. /\ w.open = session[c].open /\ w.key = session[c].key /\ w.minted = session[c].minted
      /\ w.funding = session[c].funding /\ w.closes = session[c].closes \cup {i} /\ DOMAIN w = ClientFields
  BY <1>2 DEF ClientFields
<1>4. UNCHANGED <<held, registry, retained, decided, billed>>
  BY DEF SignClose
<1> HIDE DEF w
<1>5. w.minted \in 0..MaxSeq /\ session[c].minted <= w.minted
  BY <1>2, <1>3, EstablishmentBounds
<1>6. (session[c].funding => w.funding) /\ session[c].closes \subseteq w.closes
  BY <1>3, Zenon
<1> QED
  BY <1>1, <1>3, <1>4, <1>5, <1>6, SameSession, Zenon

LEMMA WalletOpenStep ==
  ASSUME IInv, NEW c \in Ids, NEW m \in {Merchant, Other}, NEW t \in Params, NEW ts \in Stamps,
         NEW k \in BoundKeys(m), WalletOpen(c, m, k, t, ts)
  PROVE  IInv'
<1> DEFINE w == [open |-> Open(Auth(PayerKey(m, Host), ContentOf(c, m, t, ts)), k, Secret(c)),
                 key |-> KSession(Secret(c), PayerKey(m, Host), m, c),
                 minted |-> 0, funding |-> FALSE, closes |-> {}, acked |-> FALSE]
<1>1. /\ session[c] = None
      /\ PayerSide(OwnDest, t.vector)
      /\ session' = [session EXCEPT ![c] = w]
      /\ UNCHANGED <<held, registry, retained, decided, billed>>
  BY DEF WalletOpen, WalletSigns, Secret, ContentOf
<1>2. DOMAIN w = ClientFields /\ w.minted \in 0..MaxSeq
  BY EstablishmentBounds DEF ClientFields
<1>3. MadeFor(w, c, m, t, ts)
  <2>1. k = EncKey(m)
    BY SealedTo
  <2> QED BY <1>1, <2>1 DEF MadeFor
<1> HIDE DEF w
<1>4. w # None
  BY <1>2 DEF None, ClientFields
<1>5. ClientOk(w, c)
  BY <1>2, <1>3 DEF ClientOk, Made
<1> QED
  BY <1>1, <1>4, <1>5, WalletStep, Zenon

\* Step 4 of open_channel, given the verified open and the secret it was unsealed to.
LEMMA RetainIsOk ==
  ASSUME IInv, NEW o \in Opens, OpenVerified(o), NEW s \in OpenSecrets(o),
         NEW c, c = o.auth.content.id
  PROVE  /\ Retain(o, s) # None
         /\ ChannelOk(Retain(o, s), session[c])
         /\ Governed(Retain(o, s), registry)
<1> DEFINE r == Retain(o, s)
<1>1. /\ DOMAIN r = ChannelFields /\ r.seq = 0 /\ r.open = o /\ r.disposition = "none" /\ r.funding = {}
      /\ r.key = KSession(s, o.auth.content.payer, o.auth.content.merchant, c)
  BY DEF Retain, ChannelFields
<1> HIDE DEF r
<1>2. o.auth.content.merchant = Merchant /\ VectorGoverned(registry, o.auth.content.terms)
  BY DEF OpenVerified
<1>3. o.auth.content.payer \in WalletKeys => Agrees(r, session[c])
  <2> HAVE o.auth.content.payer \in WalletKeys
  <2>1. session[c] # None /\ o.auth = session[c].open.auth
    BY AuthIsTheWallets
  <2>2. r.key = session[c].key
    BY <1>1, KeyIsTheWallets
  <2> QED
    BY <1>1, <2>1, <2>2 DEF Agrees
<1>4. r # None
  BY <1>1 DEF None, ChannelFields
<1> QED
  BY <1>1, <1>2, <1>3, <1>4 DEF ChannelOk, Governed, r

LEMMA OpenChannelStep ==
  ASSUME IInv, NEW o \in Opens, OpenChannel(o)
  PROVE  IInv'
<1> DEFINE c == o.auth.content.id
<1>1. PICK s \in OpenSecrets(o) : retained' = [retained EXCEPT ![c] = Retain(o, s)]
  BY DEF OpenChannel
<1>2. /\ OpenVerified(o) /\ c \notin decided /\ decided' = decided \cup {c}
      /\ Acknowledge(c, o) /\ UNCHANGED <<held, registry, billed>>
  BY DEF OpenChannel
<1>3. c \in Ids
  BY OpenHasId
<1>4. c = o.auth.content.id
  OBVIOUS
<1> HIDE DEF c
<1> DEFINE r == Retain(o, s)
<1>5. r # None /\ ChannelOk(r, session[c]) /\ Governed(r, registry)
  BY <1>2, <1>4, RetainIsOk
<1> HIDE DEF r
<1>6. retained' = [retained EXCEPT ![c] = r]
  BY <1>1 DEF r
<1>7. IInv
  OBVIOUS
<1>8. /\ retained' = [d \in Ids |-> retained'[d]] /\ retained'[c] = r
      /\ \A d \in Ids \ {c} : retained'[d] = retained[d]
  BY <1>3, <1>6 DEF IInv
<1>9. \A d \in Ids \ {c} : d \in decided' <=> d \in decided
  BY <1>2
<1>10. \A d \in Ids : BillOk(billed[d], d \in decided', retained'[d], session[d])
  <2>1. \A d \in Ids : BillOk(billed[d], d \in decided, retained[d], session[d])
    BY DEF IInv
  <2>2. ASSUME NEW d \in Ids \ {c} PROVE BillOk(billed[d], d \in decided', retained'[d], session[d])
    BY <1>8, <1>9, <2>1 DEF BillOk
  <2>3. BillOk(billed[c], c \in decided', retained'[c], session[c])
    <3>1. billed[c] \in [1..MaxSeq -> Nat] /\ \A q \in 1..MaxSeq : ~ (billed[c][q] > 0)
      BY <1>2, <1>3, <2>1 DEF BillOk
    <3> QED BY ONLY <3>1, Zenon DEF BillOk
  <2> QED BY <2>2, <2>3
<1>11. \A d \in Ids : /\ ChannelOk(retained'[d], session[d]) /\ Governed(retained'[d], registry)
                      /\ retained'[d] # None => d \in decided'
  BY <1>2, <1>5, <1>8 DEF IInv
<1>12. /\ session' = [d \in Ids |-> session'[d]]
       /\ \A d \in Ids : ClientOk(session'[d], d)
       /\ \A d \in Ids : \A x : ChannelOk(x, session[d]) => ChannelOk(x, session'[d])
       /\ \A d \in Ids : \A b, i, x : BillOk(b, i, x, session[d]) => BillOk(b, i, x, session'[d])
  BY <1>2, <1>3, AcknowledgeKeeps
<1>13. \A d \in Ids : ChannelOk(retained'[d], session'[d])
  BY <1>11, <1>12
<1>14. \A d \in Ids : BillOk(billed[d], d \in decided', retained'[d], session'[d])
  BY <1>10, <1>12, Zenon
<1> QED
  BY <1>2, <1>8, <1>11, <1>12, <1>13, <1>14 DEF IInv

LEMMA AnswerStep ==
  ASSUME IInv,
         \/ \E o \in Opens : Retransmit(o)
         \/ \E c \in Ids, r \in AckRequests : OnAckRequest(c, r)
  PROVE  IInv'
<1>1. ASSUME NEW o \in Opens, Retransmit(o) PROVE IInv'
  <2>1. o.auth.content.id \in Ids
    BY OpenHasId
  <2>2. Acknowledge(o.auth.content.id, o) /\ UNCHANGED <<held, registry, retained, decided, billed>>
    BY <1>1 DEF Retransmit
  <2> QED BY <2>1, <2>2, AcknowledgeStep
<1>2. ASSUME NEW c \in Ids, NEW r \in AckRequests, OnAckRequest(c, r) PROVE IInv'
  <2>1. Acknowledge(c, retained[c].open) /\ UNCHANGED <<held, registry, retained, decided, billed>>
    BY <1>2 DEF OnAckRequest
  <2> QED BY <2>1, AcknowledgeStep
<1> QED
  BY <1>1, <1>2

\* What the invariant says of a channel that is held.
LEMMA HeldIs ==
  ASSUME IInv, NEW c \in Ids, retained[c] # None
  PROVE  /\ DOMAIN retained[c] = ChannelFields /\ retained[c].seq \in Nat
         /\ retained[c].open.auth.content.merchant = Merchant
         /\ retained[c].open.auth.content.payer \in WalletKeys => Agrees(retained[c], session[c])
         /\ Governed(retained[c], registry)
         /\ c \in decided
         /\ BillOk(billed[c], TRUE, retained[c], session[c])
<1>1. ChannelOk(retained[c], session[c]) /\ Governed(retained[c], registry) /\ c \in decided
  BY DEF IInv
<1>2. BillOk(billed[c], c \in decided, retained[c], session[c])
  BY DEF IInv
<1> QED
  BY <1>1, <1>2 DEF ChannelOk, BillOk

\* Carriage::batch: a slice that verifies on a channel of the wallet's is the wallet's.
LEMMA SliceIsTheWallets ==
  ASSUME IInv, NEW c \in Ids, retained[c] # None,
         retained[c].open.auth.content.payer \in WalletKeys,
         NEW slice \in Slices(c), SliceVerifies(retained[c].key, slice)
  PROVE  session[c] # None /\ slice.seq \in 1..session[c].minted
<1>1. /\ session[c] # None
      /\ retained[c].open.auth = session[c].open.auth
      /\ retained[c].key = session[c].key
      /\ retained[c].open.auth.content.merchant = Merchant
  BY HeldIs DEF Agrees
<1>2. PICK m \in {Merchant, Other} :
        /\ session[c].open.auth.content.merchant = m
        /\ session[c].open.auth.content.payer = PayerKey(m, Host)
        /\ session[c].key = KSession(Secret(c), PayerKey(m, Host), m, c)
  BY <1>1, ClientSays
<1>3. m = Merchant /\ Secret(c) \notin OtherSecrets
  BY <1>1, <1>2, OthersSecret, KeyAssumption
<1>4. ASSUME NEW x \in OtherSecrets, NEW q \in 1..MaxSeq,
             slice = Slice(KSession(x, retained[c].open.auth.content.payer, Merchant, c), q)
      PROVE  FALSE
  <2>1. slice.tag = <<KSession(x, PayerKey(Merchant, Host), Merchant, c), q>>
    BY <1>1, <1>2, <1>3, <1>4 DEF Slice
  <2>2. slice.tag = <<KSession(Secret(c), PayerKey(Merchant, Host), Merchant, c), slice.seq>>
    BY <1>1, <1>2, <1>3 DEF SliceVerifies
  <2>3. x = Secret(c)
    BY <2>1, <2>2, Commits
  <2> QED BY <1>3, <2>3
<1>5. PICK q \in 1..session[c].minted : slice = Slice(session[c].key, q)
  BY <1>1, <1>4 DEF Slices
<1> QED
  BY <1>1, <1>5 DEF Slice

LEMMA BillAdds ==
  ASSUME NEW n, NEW f \in [1..n -> Nat], NEW q \in 1..n, f[q] = 0,
         NEW g, g = [f EXCEPT ![q] = @ + 1]
  PROVE  g \in [1..n -> Nat] /\ g[q] = 1 /\ \A p \in (1..n) \ {q} : g[p] = f[p]
  OBVIOUS

LEMMA OnSliceStep ==
  ASSUME IInv, NEW c \in Ids, NEW slice \in Slices(c), OnSlice(c, slice)
  PROVE  IInv'
<1> DEFINE v == retained[c]
           r == [v EXCEPT !.seq = slice.seq]
           mine == v.open.auth.content.payer \in WalletKeys
           b == IF mine THEN [billed[c] EXCEPT ![slice.seq] = @ + 1] ELSE billed[c]
<1>1. /\ v # None /\ SliceVerifies(v.key, slice) /\ slice.seq > v.seq
      /\ retained' = [retained EXCEPT ![c] = r]
      /\ UNCHANGED <<held, registry, session, decided>>
  BY DEF OnSlice
<1>2. /\ DOMAIN v = ChannelFields /\ v.seq \in Nat
      /\ v.open.auth.content.merchant = Merchant
      /\ mine => Agrees(v, session[c])
      /\ Governed(v, registry)
      /\ c \in decided
      /\ BillOk(billed[c], TRUE, v, session[c])
  BY <1>1, HeldIs
<1>3. /\ DOMAIN r = ChannelFields /\ r.seq = slice.seq /\ r.open = v.open /\ r.key = v.key
      /\ r.funding = v.funding /\ r.disposition = v.disposition
  BY <1>2 DEF ChannelFields
<1>4. billed' = [billed EXCEPT ![c] = b]
  BY DEF OnSlice, IInv
<1>5. slice.seq \in Nat
  <2>1. session[c] # None => session[c].minted \in 0..MaxSeq
    BY ClientShape
  <2> QED BY <2>1, EstablishmentBounds DEF Slices, Slice
<1>6. mine => session[c] # None /\ slice.seq \in 1..session[c].minted /\ session[c].minted \in 0..MaxSeq
  BY <1>1, SliceIsTheWallets, ClientShape
<1>7. decided' = decided \cup {c}
  BY <1>1, <1>2
<1>8. r # None
  BY <1>3 DEF None, ChannelFields
<1> HIDE DEF r
<1>9. ChannelOk(r, session[c]) /\ Governed(r, registry)
  BY <1>1, <1>2, <1>3, <1>5 DEF ChannelOk, Agrees, Governed
<1>10. BillOk(b, TRUE, r, session[c])
  <2>1. /\ billed[c] \in [1..MaxSeq -> Nat]
        /\ \A q \in 1..MaxSeq : billed[c][q] > 0 =>
             billed[c][q] = 1 /\ session[c] # None /\ q <= session[c].minted /\ q <= v.seq
    BY <1>1, <1>2 DEF BillOk
  <2>2. CASE mine
    <3>1. slice.seq \in 1..MaxSeq /\ slice.seq <= session[c].minted /\ session[c] # None
      BY <1>5, <1>6, <2>2, EstablishmentBounds
    <3>2. billed[c][slice.seq] = 0
      <4>1. ~ (slice.seq <= v.seq)
        BY <1>1, <1>2, <1>5
      <4>2. billed[c][slice.seq] \in Nat /\ ~ (billed[c][slice.seq] > 0)
        BY <2>1, <3>1, <4>1
      <4> QED BY ONLY <4>2
    <3>a. b = [billed[c] EXCEPT ![slice.seq] = @ + 1]
      BY <2>2
    <3>3. b \in [1..MaxSeq -> Nat] /\ b[slice.seq] = 1 /\ \A q \in (1..MaxSeq) \ {slice.seq} : b[q] = billed[c][q]
      BY <2>1, <3>1, <3>2, <3>a, BillAdds
    <3> HIDE DEF b, mine
    <3> SUFFICES ASSUME NEW q \in 1..MaxSeq, b[q] > 0
                 PROVE  b[q] = 1 /\ session[c] # None /\ q <= session[c].minted /\ q <= r.seq
      BY <3>3 DEF BillOk
    <3>4. CASE q = slice.seq
      BY <1>3, <1>5, <3>1, <3>3, <3>4
    <3>5. CASE q # slice.seq
      BY <1>1, <1>2, <1>3, <1>5, <2>1, <3>3, <3>5
    <3> QED BY <3>4, <3>5
  <2>3. CASE ~ mine
    <3>1. b = billed[c]
      BY <2>3
    <3> HIDE DEF b, mine
    <3> QED BY <1>1, <1>2, <1>3, <1>5, <2>1, <3>1 DEF BillOk
  <2> QED BY <2>2, <2>3
<1> HIDE DEF b, mine, v
<1> QED
  BY <1>1, <1>4, <1>7, <1>8, <1>9, <1>10, MerchantStep

\* A channel that keeps its open, its key and what it metered.
LEMMA SameChannel ==
  ASSUME IInv, NEW c \in Ids, retained[c] # None, NEW r, retained' = [retained EXCEPT ![c] = r],
         DOMAIN r = ChannelFields,
         r.open = retained[c].open, r.key = retained[c].key, r.seq = retained[c].seq,
         retained[c].open.auth.content.payer \in WalletKeys =>
           /\ r.funding # {} => session[c].funding
           /\ r.disposition = "pending" => TRUE \in session[c].closes,
         UNCHANGED <<held, registry, session, decided, billed>>
  PROVE  IInv'
<1>1. r # None
  BY DEF None, ChannelFields
<1>2. /\ retained[c].seq \in Nat
      /\ retained[c].open.auth.content.merchant = Merchant
      /\ retained[c].open.auth.content.payer \in WalletKeys => Agrees(retained[c], session[c])
      /\ Governed(retained[c], registry)
      /\ c \in decided
      /\ BillOk(billed[c], TRUE, retained[c], session[c])
  BY HeldIs
<1>3. ChannelOk(r, session[c])
  BY <1>2, Zenon DEF ChannelOk, Agrees
<1>4. Governed(r, registry)
  BY <1>2 DEF Governed
<1>5. BillOk(billed[c], TRUE, r, session[c])
  BY <1>2, Zenon DEF BillOk
<1>6. decided' = decided \cup {c}
  BY <1>2
<1>7. billed' = [billed EXCEPT ![c] = billed[c]]
  BY DEF IInv
<1> QED
  BY <1>1, <1>3, <1>4, <1>5, <1>6, <1>7, MerchantStep

\* on_funding: a proof that verifies under the wallet's key is the wallet's.
LEMMA OnFundingStep ==
  ASSUME IInv, NEW c \in Ids, NEW f \in FundingProofs(c), OnFunding(c, f)
  PROVE  IInv'
<1> DEFINE v == retained[c]
           r == [v EXCEPT !.funding = @ \cup {f.tx}]
           payer == v.open.auth.content.payer
<1>1. /\ v # None /\ FundingVerifies(payer, f)
      /\ retained' = [retained EXCEPT ![c] = r]
      /\ UNCHANGED <<held, registry, session, decided, billed>>
  BY DEF OnFunding
<1>2. DOMAIN v = ChannelFields /\ (payer \in WalletKeys => Agrees(v, session[c]))
  BY <1>1, HeldIs
<1>3. /\ DOMAIN r = ChannelFields /\ r.seq = v.seq /\ r.open = v.open /\ r.key = v.key
      /\ r.disposition = v.disposition
  BY <1>2 DEF ChannelFields
<1>4. payer \in WalletKeys => session[c].funding
  <2> HAVE payer \in WalletKeys
  <2>1. f.sig.key = payer
    BY <1>1 DEF FundingVerifies, Verifies, Sign
  <2>2. f # FundingProof(Other, c, retained[c].open.auth.content, "tx")
    BY <2>1, PayerKeyAssumption DEF FundingProof, Sign
  <2> QED BY <2>2 DEF FundingProofs
<1>5. payer \in WalletKeys =>
        /\ r.funding # {} => session[c].funding
        /\ r.disposition = "pending" => TRUE \in session[c].closes
  BY <1>2, <1>3, <1>4 DEF Agrees
<1> HIDE DEF r
<1> QED
  BY <1>1, <1>3, <1>5, SameChannel

\* Close::accept: a chain intent under the wallet's key is one the wallet signed.
LEMMA OnCloseStep ==
  ASSUME IInv, NEW c \in Ids, NEW m \in Closes(c), OnClose(c, m)
  PROVE  IInv'
<1> DEFINE v == retained[c]
           payer == v.open.auth.content.payer
           intent == ChainIntent(m, payer)
           disp == IF ~ intent THEN "reconciled" ELSE IF v.disposition = "none" THEN "pending" ELSE v.disposition
           r == [v EXCEPT !.terminated = TRUE, !.disposition = disp]
<1>1. /\ v # None
      /\ UNCHANGED <<held, registry, session, decided, billed>>
  BY DEF OnClose
<1>2. DOMAIN v = ChannelFields /\ (payer \in WalletKeys => Agrees(v, session[c]))
  BY <1>1, HeldIs
<1>3. retained' = [retained EXCEPT ![c] = r]
  BY <1>2 DEF OnClose, ChannelFields
<1>4. /\ DOMAIN r = ChannelFields /\ r.seq = v.seq /\ r.open = v.open /\ r.key = v.key
      /\ r.funding = v.funding /\ r.disposition = disp
  BY <1>2 DEF ChannelFields
<1>5. ASSUME payer \in WalletKeys, intent PROVE TRUE \in session[c].closes
  <2>1. m.sig.key = payer /\ m.content.intent
    BY <1>5 DEF ChainIntent, CloseVerifies, Verifies, Sign
  <2>2. ASSUME NEW i \in BOOLEAN PROVE m # Close(Other, c, i)
    BY <1>5, <2>1, PayerKeyAssumption DEF Close, Sign
  <2>3. PICK i \in session[c].closes : m = Close(session[c].open.auth.content.payer, c, i)
    BY <2>2 DEF Closes
  <2>4. m.content.intent = i
    BY <2>3 DEF Close, CloseContent
  <2> QED BY <2>1, <2>3, <2>4
<1>6. payer \in WalletKeys =>
        /\ r.funding # {} => session[c].funding
        /\ r.disposition = "pending" => TRUE \in session[c].closes
  <2> HAVE payer \in WalletKeys
  <2>1. r.funding # {} => session[c].funding
    BY <1>2, <1>4 DEF Agrees
  <2>2. disp = "pending" => intent
    OBVIOUS
  <2> QED BY <1>4, <1>5, <2>1, <2>2
<1> HIDE DEF r
<1> QED
  BY <1>1, <1>3, <1>4, <1>6, SameChannel

LEMMA LearnSnapshotStep ==
  ASSUME IInv, NEW o \in Snapshots, LearnSnapshot(o)
  PROVE  IInv'
<1>1. StoreOk(held') /\ ParseVerify(o) /\ UNCHANGED <<registry, session, retained, decided, billed>>
  BY DEF LearnSnapshot, Insert, StoreOk, IInv
<1> QED
  BY <1>1 DEF IInv

LEMMA RestartStep ==
  ASSUME IInv, Restart
  PROVE  IInv'
<1>1. /\ decided \subseteq decided' /\ retained' = [c \in Ids |-> None]
      /\ registry' = held /\ UNCHANGED <<held, session, billed>>
  BY DEF Restart
<1>2. \A c \in Ids : retained'[c] = None
  BY <1>1
<1>3. ASSUME NEW c \in Ids PROVE BillOk(billed[c], c \in decided', retained'[c], session[c])
  <2>1. BillOk(billed[c], c \in decided, retained[c], session[c])
    BY DEF IInv
  <2> QED BY <1>1, <1>2, <2>1 DEF BillOk
<1> QED
  BY <1>1, <1>2, <1>3 DEF IInv, ChannelOk, Governed

LEMMA NextIInv == IInv /\ [Next]_vars => IInv'
<1> SUFFICES ASSUME IInv, [Next]_vars PROVE IInv'
  OBVIOUS
<1>1. CASE Tick
  BY <1>1 DEF Tick, IInv
<1>2. CASE UNCHANGED vars
  BY <1>2 DEF vars, IInv
<1>3. ASSUME NEW c \in Ids, Mint(c) \/ SignFunding(c) \/ (\E i \in BOOLEAN : SignClose(c, i)) PROVE IInv'
  BY <1>3, MintStep, SignFundingStep, SignCloseStep
<1>4. ASSUME NEW c \in {d \in Ids : retained[d] # None},
             \/ \E slice \in Slices(c) : OnSlice(c, slice)
             \/ \E f \in FundingProofs(c) : OnFunding(c, f)
             \/ \E m \in Closes(c) : OnClose(c, m)
      PROVE  IInv'
  BY <1>4, OnSliceStep, OnFundingStep, OnCloseStep
<1> QED
  BY <1>1, <1>2, <1>3, <1>4, LearnSnapshotStep, WalletOpenStep, OpenChannelStep, AnswerStep, RestartStep
     DEF Next

-----------------------------------------------------------------------------
(* Theorems *)

\* Every session of the wallet and every channel of the merchant is as the open made it,
\* in every interleaving of opens, replays, slices, closes and restarts.
THEOREM EstablishmentSound == Spec => []IInv
<1> QED
  BY InitIInv, NextIInv, PTL DEF Spec

\* A channel held against a wallet's key is the one that wallet opened, whatever the
\* carrier did (open_channel).
THEOREM SessionAgreementHolds == Spec => []SessionAgreement
<1>1. IInv => SessionAgreement
  <2> SUFFICES ASSUME IInv, NEW c \in PaidByWallet
               PROVE  /\ session[c] # None
                      /\ retained[c].open.auth = session[c].open.auth
                      /\ retained[c].key = session[c].key
                      /\ PayerSide(OwnDest, retained[c].open.auth.content.terms.vector)
                      /\ retained[c].funding # {} => session[c].funding
                      /\ retained[c].disposition = "pending" => TRUE \in session[c].closes
    BY DEF SessionAgreement
  <2>1. c \in Ids /\ retained[c] # None /\ retained[c].open.auth.content.payer \in WalletKeys
    BY DEF PaidByWallet, Retained
  <2>2. Agrees(retained[c], session[c])
    BY <2>1, HeldIs
  <2>3. PICK m \in {Merchant, Other}, t \in Params, ts \in Stamps : MadeFor(session[c], c, m, t, ts)
    BY <2>1, <2>2 DEF IInv, ClientOk, Made, Agrees
  <2>4. session[c].open.auth.content.terms = t /\ PayerSide(OwnDest, t.vector)
    BY <2>3 DEF MadeFor, Open, Auth, AuthContent, ContentOf
  <2>5. PayerSide(OwnDest, retained[c].open.auth.content.terms.vector)
    BY <2>2, <2>4 DEF Agrees
  <2> QED
    BY <2>2, <2>5 DEF Agrees
<1> QED
  BY <1>1, EstablishmentSound, PTL

\* Over all lives of the merchant a slice of the wallet's is billed at most once, and
\* only one the wallet minted (open_channel, Carriage::batch).
THEOREM BilledOnceHolds == Spec => []BilledOnce
<1>1. IInv => BilledOnce
  BY DEF IInv, BillOk, BilledOnce
<1> QED
  BY <1>1, EstablishmentSound, PTL

\* The governed shares of every channel held reach the funds or a recipient the
\* Foundation listed, under no revoked version (version_accepted).
THEOREM MeedGovernedHolds == Spec => []MeedGoverned
<1>1. ASSUME NEW o \in Snapshots, NEW i \in DOMAIN o.os, NEW dest \in ResolveOs(held, o.version, i)
      PROVE  OsDestinationAccepted(held, o.version, dest)
  BY DEF ResolveOs, OsDestinationAccepted
<1>2. RoleOS \in DOMAIN Schema01 /\ RoleDevFund \in DOMAIN Schema01
  BY DEF Schema01
<1>3. ASSUME IInv, NEW c \in Retained, NEW t, t = retained[c].open.auth.content.terms
      PROVE  /\ t.vector[RoleDevFund].dest = DevFund
             /\ t.registry \notin RevokedIn(registry)
             /\ \/ t.vector[RoleOS].dest = OsFund
                \/ \E o \in Snapshots : ParseVerify(o) /\ \E i \in DOMAIN o.os : o.os[i] = t.vector[RoleOS].dest
  <2>1. VectorGoverned(registry, t) /\ StoreOk(registry)
    BY <1>3, HeldIs DEF Retained, Governed, IInv
  <2>2. /\ t.vector[RoleDevFund].dest = DevFund
        /\ OsDestinationAccepted(registry, t.registry, t.vector[RoleOS].dest)
    BY <1>2, <2>1 DEF VectorGoverned, ShapeSchema01, GovernedDestinations
  <2>3. t.registry \notin RevokedIn(registry)
    BY <2>2 DEF OsDestinationAccepted, VersionAccepted, RevokedIn
  <2> QED
    BY <2>1, <2>2, <2>3 DEF OsDestinationAccepted, StoreOk
<1>4. IInv => MeedGoverned
  BY <1>1, <1>3 DEF MeedGoverned
<1> QED
  BY <1>4, EstablishmentSound, PTL

-----------------------------------------------------------------------------
(***************************************************************************)
(* The decision log behind `decided`, for any keys and values and any      *)
(* number of appends, failures and restarts.                               *)
(*                                                                         *)
(* The properties are about answers; the invariant ties the answers to the *)
(* file.  Among the records before the first torn one no key occurs twice, *)
(* every key that was answered has a record there, and that record names   *)
(* the value of the answer.  While the store is open and healthy the file  *)
(* is whole and memory holds all of it, which is what poisoning is for.    *)
(***************************************************************************)

LogTypes ==
  /\ up \in BOOLEAN /\ poisoned \in BOOLEAN
  /\ len \in Nat /\ cursor \in Nat
  /\ fresh \in [Keys -> Nat] /\ told \in [Keys -> SUBSET Values]

\* The file d against the answers t.
FileInv(d, t) ==
  /\ d \in Seq(Records)
  /\ \A i, j \in 1..Len(d) :
       WholeUpTo(d, i) /\ WholeUpTo(d, j) /\ d[i].key = d[j].key => i = j
  /\ \A k \in Keys : t[k] # {} =>
       \E n \in 1..Len(d) : WholeUpTo(d, n) /\ d[n].key = k
  /\ \A n \in 1..Len(d) : WholeUpTo(d, n) => \A x \in t[d[n].key] : x = d[n].val

\* Memory m holds the first l records of the file d, and every key answered.
MemoryInv(d, m, l, t) ==
  /\ l \in 0..Len(d)
  /\ WholeUpTo(d, l)
  /\ \A k : k \in DOMAIN m <=> \E j \in 1..l : d[j].key = k
  /\ \A j \in 1..l : m[d[j].key] = d[j].val
  /\ \A k \in Keys : t[k] # {} => k \in DOMAIN m

\* A caller told to go ahead was told a value.
FreshInv(f, t) == \A k \in Keys : f[k] <= 1 /\ (f[k] = 1 => t[k] # {})

LogInv ==
  /\ LogTypes
  /\ FileInv(disk, told)
  /\ up => MemoryInv(disk, map, len, told)
  /\ up /\ ~poisoned => len = Len(disk) /\ cursor = len
  /\ FreshInv(fresh, told)

-----------------------------------------------------------------------------
(* The parts of a record of the file. *)
LEMMA RecordsTyped ==
  ASSUME NEW d \in Seq(Records)
  PROVE  Len(d) \in Nat /\ \A j \in 1..Len(d) : d[j].key \in Keys /\ d[j].val \in Values
<1>1. \A j \in 1..Len(d) : d[j] \in Records
  OBVIOUS
<1> QED
  BY <1>1 DEF Records

(* One more record, of a key not in a whole file, keeps the file's invariant. *)
LEMMA FileExtends ==
  ASSUME NEW d, NEW e \in Seq(Records), NEW t \in [Keys -> SUBSET Values],
         FileInv(d, t), WholeUpTo(d, Len(d)),
         Len(e) = Len(d) + 1,
         \A j \in 1..Len(d) : e[j] = d[j] /\ d[j].key # e[Len(e)].key,
         t[e[Len(e)].key] = {}
  PROVE  FileInv(e, t)
<1>1. d \in Seq(Records) /\ Len(d) \in Nat
  BY DEF FileInv
<1>a. \A n \in 1..Len(d) : n \in 1..Len(e) /\ e[n].key = d[n].key /\ (WholeUpTo(e, n) <=> WholeUpTo(d, n))
  BY <1>1, SMTT(30) DEF WholeUpTo
<1>b. \A n \in 1..Len(e) : n \in 1..Len(d) \/ n = Len(e)
  BY <1>1
<1>2. \A i, j \in 1..Len(e) : e[i].key = e[j].key /\ WholeUpTo(e, i) /\ WholeUpTo(e, j) => i = j
  <2>1. \A i, j \in 1..Len(d) : d[i].key = d[j].key /\ WholeUpTo(d, i) /\ WholeUpTo(d, j) => i = j
    BY DEF FileInv
  <2>2. \A n \in 1..Len(d) : e[n].key # e[Len(e)].key
    OBVIOUS
  <2> QED
    BY <1>a, <1>b, <2>1, <2>2, Zenon
<1>3. \A k \in Keys : t[k] # {} => \E n \in 1..Len(e) : WholeUpTo(e, n) /\ e[n].key = k
  <2>1. \A k \in Keys : t[k] # {} => \E n \in 1..Len(d) : WholeUpTo(d, n) /\ d[n].key = k
    BY DEF FileInv
  <2> QED
    BY <1>a, <2>1, Zenon
<1>4. \A n \in 1..Len(e) : WholeUpTo(e, n) => \A x \in t[e[n].key] : x = e[n].val
  <2> SUFFICES ASSUME NEW n \in 1..Len(e), WholeUpTo(e, n), NEW x \in t[e[n].key]
               PROVE  x = e[n].val
    OBVIOUS
  <2>1. n \in 1..Len(d)
    BY <1>1
  <2>2. WholeUpTo(d, n) /\ e[n] = d[n]
    BY <1>1, <2>1 DEF WholeUpTo
  <2> QED
    BY <2>1, <2>2 DEF FileInv
<1> QED
  BY <1>2, <1>3, <1>4 DEF FileInv

(* What a write at the cursor of a healthy store leaves. *)
LEMMA AppendedFacts ==
  ASSUME LogInv, Healthy, NEW k \in Keys, NEW v \in Values, NEW w \in {"whole", "torn"}
  PROVE  /\ Appended(k, v, w) \in Seq(Records)
         /\ Len(Appended(k, v, w)) = Len(disk) + 1
         /\ \A j \in 1..Len(disk) : Appended(k, v, w)[j] = disk[j]
         /\ Appended(k, v, w)[Len(disk) + 1] = [form |-> w, key |-> k, val |-> v]
<1>1. disk \in Seq(Records) /\ Len(disk) \in Nat /\ cursor = Len(disk)
  BY DEF LogInv, FileInv, Healthy
<1>2. \A j \in 1..Len(disk) : disk[j] \in Records
  BY <1>1
<1>3. \A j \in 1..(cursor + 1) :
        (IF j <= cursor /\ j <= Len(disk) THEN disk[j]
         ELSE [form |-> IF j = cursor + 1 THEN w ELSE "torn", key |-> k, val |-> v]) \in Records
  BY <1>1, <1>2 DEF Records
<1>4. Appended(k, v, w) \in [1..(Len(disk) + 1) -> Records]
  BY <1>1, <1>3 DEF Appended
<1>5. Appended(k, v, w) \in Seq(Records) /\ Len(Appended(k, v, w)) = Len(disk) + 1
  BY <1>1, <1>4
<1> QED
  BY <1>1, <1>5 DEF Appended

(* A healthy store appends a key its file does not have. *)
LEMMA AppendingFacts ==
  ASSUME LogInv, NEW k \in Keys, Appending(k)
  PROVE  /\ up /\ ~poisoned /\ Healthy
         /\ disk \in Seq(Records) /\ Len(disk) \in Nat /\ len = Len(disk) /\ cursor = len
         /\ WholeUpTo(disk, Len(disk))
         /\ MemoryInv(disk, map, len, told)
         /\ \A j \in 1..Len(disk) : disk[j].key # k
         /\ told[k] = {}
BY DEF LogInv, FileInv, MemoryInv, Appending, Healthy

(* Whatever a failed append leaves, the file's invariant holds and the records  *)
(* before it are as they were.                                             *)
LEMMA LeftFacts ==
  ASSUME LogInv, NEW k \in Keys, NEW v \in Values, NEW o \in Outcomes, Appending(k)
  PROVE  /\ FileInv(Left(k, v, o), told)
         /\ Len(disk) <= Len(Left(k, v, o))
         /\ \A j \in 1..Len(disk) : Left(k, v, o)[j] = disk[j]
<1>1. CASE o = "nothing"
  BY <1>1, AppendingFacts DEF Left, LogInv
<1>2. CASE o # "nothing"
  <2> DEFINE e == Appended(k, v, o)
  <2>1. /\ e \in Seq(Records) /\ Len(e) = Len(disk) + 1
        /\ \A j \in 1..Len(disk) : e[j] = disk[j]
        /\ e[Len(disk) + 1] = [form |-> o, key |-> k, val |-> v]
    <3>1. o \in {"whole", "torn"} /\ Healthy
      BY <1>2, AppendingFacts DEF Outcomes
    <3>2. \A w \in {"whole", "torn"} :
            /\ Appended(k, v, w) \in Seq(Records)
            /\ Len(Appended(k, v, w)) = Len(disk) + 1
            /\ \A j \in 1..Len(disk) : Appended(k, v, w)[j] = disk[j]
            /\ Appended(k, v, w)[Len(disk) + 1] = [form |-> w, key |-> k, val |-> v]
      BY <3>1, AppendedFacts, Zenon
    <3> QED
      BY <3>1, <3>2, Zenon
  <2>2. FileInv(e, told)
    <3>0. e[Len(e)].key = k
      BY <2>1
    <3>1. \A j \in 1..Len(disk) : e[j] = disk[j] /\ disk[j].key # e[Len(e)].key
      BY <2>1, <3>0, AppendingFacts
    <3>2. told[e[Len(e)].key] = {}
      BY <3>0, AppendingFacts
    <3>3. FileInv(disk, told) /\ told \in [Keys -> SUBSET Values] /\ WholeUpTo(disk, Len(disk))
      BY AppendingFacts DEF LogInv, LogTypes
    <3> HIDE DEF e
    <3> QED
      BY <2>1, <3>1, <3>2, <3>3, FileExtends
  <2> QED
    BY <1>2, <2>1, <2>2, AppendingFacts DEF Left
<1> QED
  BY <1>1, <1>2

-----------------------------------------------------------------------------
(* The empty file and no answers. *)
LEMMA LogInitInv == LogInit => LogInv
<1> SUFFICES ASSUME LogInit PROVE LogInv
  OBVIOUS
<1>1. LogTypes
  BY DEF LogInit, LogTypes
<1>2. FileInv(disk, told)
  <2>1. disk \in Seq(Records) /\ Len(disk) = 0 /\ \A k \in Keys : told[k] = {}
    BY DEF LogInit
  <2> QED
    BY <2>1 DEF FileInv
<1>3. FreshInv(fresh, told) /\ ~up
  BY DEF LogInit, FreshInv
<1> QED
  BY <1>1, <1>2, <1>3 DEF LogInv

(* OpenLog rebuilds memory from the whole prefix, which has every key answered. *)
LEMMA OpenLogInv ==
  ASSUME LogInv, NEW n \in 0..Len(disk), OpenLog(n)
  PROVE  LogInv'
<1>1. /\ disk \in Seq(Records) /\ Len(disk) \in Nat /\ n \in 0..Len(disk)
      /\ WholeUpTo(disk, n) /\ (n < Len(disk) => disk[n + 1].form = "torn")
  BY DEF LogInv, FileInv, OpenLog, IsWholePrefix
<1>2. \A j \in 1..Len(disk) : WholeUpTo(disk, j) => j <= n
  BY <1>1 DEF WholeUpTo
<1>3. /\ disk' \in Seq(Records) /\ Len(disk') = n
      /\ \A j \in 1..n : disk'[j] = disk[j]
  <2>1. \A j \in 1..n : disk[j] \in Records
    BY <1>1
  <2>2. disk' = SubSeq(disk, 1, n)
    BY DEF OpenLog, Truncated
  <2> QED
    BY <1>1, <2>1, <2>2, SubSeqProperties
<1>4. \A j \in 1..n : WholeUpTo(disk', j) /\ WholeUpTo(disk, j)
  BY <1>1, <1>3 DEF WholeUpTo
<1>5. told' = told /\ fresh' = fresh
  BY DEF OpenLog, answers
<1>6. FileInv(disk', told')
  <2>0. FileInv(disk, told)
    BY DEF LogInv
  <2>1. \A i, j \in 1..n : disk'[i].key = disk'[j].key => i = j
    BY <1>1, <1>3, <1>4, <2>0 DEF FileInv
  <2>2. \A k \in Keys : told[k] # {} => \E i \in 1..n : disk'[i].key = k
    BY <1>1, <1>2, <1>3, <2>0 DEF FileInv
  <2>3. \A i \in 1..n : \A x \in told[disk'[i].key] : x = disk'[i].val
    <3> SUFFICES ASSUME NEW i \in 1..n PROVE \A x \in told[disk'[i].key] : x = disk'[i].val
      OBVIOUS
    <3>1. i \in 1..Len(disk) /\ WholeUpTo(disk, i) /\ disk'[i] = disk[i]
      BY <1>1, <1>3, <1>4
    <3>2. \A x \in told[disk[i].key] : x = disk[i].val
      BY <2>0, <3>1 DEF FileInv
    <3> QED
      BY <3>1, <3>2
  <2> QED
    BY <1>3, <1>4, <1>5, <2>1, <2>2, <2>3 DEF FileInv
<1>7. \A j \in 1..n : FirstOf(disk, disk[j].key) = disk[j].val
  <2> SUFFICES ASSUME NEW j \in 1..n PROVE FirstOf(disk, disk[j].key) = disk[j].val
    OBVIOUS
  <2> DEFINE P(m) == /\ m \in DOMAIN disk /\ disk[m].key = disk[j].key
                     /\ \A i \in 1..(m - 1) : disk[i].key # disk[j].key
  <2>1. P(j)
    BY <1>1, <1>4 DEF LogInv, FileInv
  <2>2. \A m : P(m) => m = j
    BY <1>1, <2>1
  <2>3. (CHOOSE m \in DOMAIN disk : disk[m].key = disk[j].key
            /\ \A i \in 1..(m - 1) : disk[i].key # disk[j].key) = j
    BY <2>1, <2>2
  <2> QED
    BY <2>3 DEF FirstOf
<1>8. (\A k : k \in DOMAIN map' <=> \E j \in 1..n : disk[j].key = k)
      /\ \A j \in 1..n : map'[disk[j].key] = disk[j].val
  BY <1>7 DEF OpenLog, Recorded
<1>9. \A k \in Keys : told[k] # {} => k \in DOMAIN map'
  BY <1>1, <1>2, <1>8 DEF LogInv, FileInv
<1>10. len' = n /\ cursor' = n /\ up' = TRUE /\ poisoned' = FALSE
  BY DEF OpenLog, Truncated
<1>11. MemoryInv(disk', map', len', told')
  <2>1. n \in 0..Len(disk') /\ WholeUpTo(disk', n)
    BY <1>1, <1>3 DEF WholeUpTo
  <2>2. \A k : k \in DOMAIN map' <=> \E j \in 1..n : disk'[j].key = k
    BY <1>3, <1>8
  <2>3. \A j \in 1..n : map'[disk'[j].key] = disk'[j].val
    BY <1>3, <1>8
  <2> QED
    BY <1>5, <1>9, <1>10, <2>1, <2>2, <2>3 DEF MemoryInv
<1>12. LogTypes'
  <2>1. n \in Nat /\ LogTypes
    BY <1>1 DEF LogInv
  <2> QED
    BY <1>5, <1>10, <2>1 DEF LogTypes
<1> QED
  BY <1>3, <1>5, <1>6, <1>10, <1>11, <1>12 DEF LogInv, FreshInv

(* A first decision is told once, and its record is in the file. *)
LEMMA DecideFreshInv ==
  ASSUME LogInv, NEW k \in Keys, NEW v \in Values, DecideFresh(k, v)
  PROVE  LogInv'
<1> DEFINE e == Appended(k, v, "whole")
<1>1. Appending(k)
  BY DEF DecideFresh
<1>2. /\ disk \in Seq(Records) /\ Len(disk) \in Nat /\ len = Len(disk) /\ cursor = len
      /\ WholeUpTo(disk, Len(disk)) /\ up /\ ~poisoned
      /\ MemoryInv(disk, map, len, told)
      /\ \A j \in 1..Len(disk) : disk[j].key # k
      /\ told[k] = {}
  BY <1>1, AppendingFacts
<1>3. /\ e \in Seq(Records) /\ Len(e) = Len(disk) + 1
      /\ \A j \in 1..Len(disk) : e[j] = disk[j]
      /\ e[Len(disk) + 1].form = "whole" /\ e[Len(disk) + 1].key = k /\ e[Len(disk) + 1].val = v
  <2>1. Healthy /\ "whole" \in {"whole", "torn"}
    BY <1>1, AppendingFacts
  <2>2. /\ e \in Seq(Records) /\ Len(e) = Len(disk) + 1
        /\ \A j \in 1..Len(disk) : e[j] = disk[j]
        /\ e[Len(disk) + 1] = [form |-> "whole", key |-> k, val |-> v]
    BY <2>1, AppendedFacts
  <2> HIDE DEF e
  <2> QED
    BY <2>2
<1>4. /\ told' = [told EXCEPT ![k] = {v}]
      /\ fresh' = [fresh EXCEPT ![k] = @ + 1]
  BY <1>2 DEF DecideFresh, Answer
<1>5. /\ disk' = e /\ cursor' = cursor + 1 /\ len' = len + 1
      /\ up' = up /\ poisoned' = poisoned
      /\ map' = [x \in DOMAIN map \cup {k} |-> IF x = k THEN v ELSE map[x]]
  BY DEF DecideFresh
<1>6. told \in [Keys -> SUBSET Values] /\ fresh \in [Keys -> Nat] /\ FreshInv(fresh, told)
      /\ FileInv(disk, told)
  BY DEF LogInv, LogTypes
<1>7. LogTypes'
  BY <1>2, <1>4, <1>5, <1>6 DEF LogInv, LogTypes
<1>8. WholeUpTo(e, Len(e))
  BY <1>2, <1>3 DEF WholeUpTo
<1> HIDE DEF e
<1>9. FileInv(disk', told')
  <2>1. \A i, j \in 1..Len(e) : e[i].key = e[j].key => i = j
    <3>1. \A i, j \in 1..Len(disk) : disk[i].key = disk[j].key => i = j
      BY <1>2, <1>6 DEF FileInv, WholeUpTo
    <3>2. \A i \in 1..Len(e) : i \in 1..Len(disk) \/ i = Len(disk) + 1
      BY <1>2, <1>3
    <3> QED
      BY <1>2, <1>3, <3>1, <3>2
  <2>2. \A x \in Keys : told'[x] # {} => \E n \in 1..Len(e) : e[n].key = x
    BY <1>2, <1>3, <1>4, <1>6 DEF FileInv
  <2>3. \A n \in 1..Len(e) : \A x \in told'[e[n].key] : x = e[n].val
    <3>1. \A n \in 1..Len(disk) :
            disk[n].key \in Keys /\ \A x \in told[disk[n].key] : x = disk[n].val
      BY <1>2, <1>6, RecordsTyped DEF FileInv, WholeUpTo
    <3>2. told'[k] = {v} /\ \A x \in Keys : x # k => told'[x] = told[x]
      BY <1>4, <1>6
    <3>3. \A n \in 1..Len(disk) : \A x \in told'[e[n].key] : x = e[n].val
      BY <1>2, <1>3, <3>1, <3>2
    <3>4. \A n \in 1..Len(e) : n \in 1..Len(disk) \/ n = Len(disk) + 1
      BY <1>2, <1>3
    <3>5. \A x \in told'[e[Len(disk) + 1].key] : x = e[Len(disk) + 1].val
      BY <1>3, <3>2
    <3> QED
      BY <3>3, <3>4, <3>5
  <2>4. \A n \in 1..Len(e) : WholeUpTo(e, n)
    BY <1>8, <1>2, <1>3 DEF WholeUpTo
  <2> QED
    BY <1>3, <1>5, <2>1, <2>2, <2>3, <2>4 DEF FileInv
<1>10. MemoryInv(disk', map', len', told')
  <2>1. \A x : x \in DOMAIN map' <=> \E j \in 1..Len(e) : e[j].key = x
    <3>1. Len(disk) \in Nat /\ len = Len(disk)
          /\ \A x : x \in DOMAIN map <=> \E j \in 1..Len(disk) : disk[j].key = x
      BY <1>2 DEF MemoryInv
    <3>2. \A x : x \in DOMAIN map' <=> x \in DOMAIN map \/ x = k
      BY <1>5
    <3>3. /\ Len(disk) + 1 \in 1..Len(e) /\ e[Len(disk) + 1].key = k
          /\ \A j \in 1..Len(disk) : j \in 1..Len(e) /\ e[j].key = disk[j].key
          /\ \A j \in 1..Len(e) : j \in 1..Len(disk) \/ j = Len(disk) + 1
      BY <1>3, <3>1
    <3> QED
      BY <3>1, <3>2, <3>3, Zenon
  <2>2. \A j \in 1..Len(e) : map'[e[j].key] = e[j].val
    BY <1>2, <1>3, <1>5 DEF MemoryInv
  <2>3. \A x \in Keys : told'[x] # {} => x \in DOMAIN map'
    BY <1>2, <1>4, <1>5, <1>6 DEF MemoryInv
  <2>4. disk' = e /\ len' = Len(e) /\ Len(e) \in Nat
    BY <1>2, <1>3, <1>5
  <2> QED
    BY <1>8, <2>1, <2>2, <2>3, <2>4 DEF MemoryInv
<1>11. FreshInv(fresh', told')
  BY <1>2, <1>4, <1>6 DEF FreshInv
<1> QED
  BY <1>2, <1>3, <1>5, <1>7, <1>9, <1>10, <1>11 DEF LogInv

(* A repeated decision is answered with the value on record. *)
LEMMA DecideAgainInv ==
  ASSUME LogInv, NEW k \in Keys, NEW v \in Values, DecideAgain(k, v)
  PROVE  LogInv'
<1>1. MemoryInv(disk, map, len, told) /\ k \in DOMAIN map /\ FileInv(disk, told) /\ LogTypes
  BY DEF LogInv, DecideAgain, Healthy
<1>2. PICK j \in 1..len : disk[j].key = k
  BY <1>1 DEF MemoryInv
<1>3. /\ j \in 1..Len(disk) /\ WholeUpTo(disk, j) /\ map[k] = disk[j].val
      /\ disk[j].val \in Values
  BY <1>1, <1>2, RecordsTyped DEF MemoryInv, WholeUpTo, FileInv
<1>4. told' = [told EXCEPT ![k] = {map[k]}] /\ fresh' = fresh
  <2>1. told[k] \cup {map[k]} = {map[k]}
    BY <1>1, <1>2, <1>3 DEF FileInv
  <2>2. told' = [told EXCEPT ![k] = told[k] \cup {map[k]}]
    BY <1>1 DEF DecideAgain, Answer, LogTypes
  <2>3. fresh' = [fresh EXCEPT ![k] = fresh[k]]
    BY <1>1 DEF DecideAgain, Answer, LogTypes
  <2> QED
    BY <1>1, <2>1, <2>2, <2>3 DEF LogTypes
<1>5. UNCHANGED wal
  BY DEF DecideAgain
<1>6. told' \in [Keys -> SUBSET Values]
      /\ \A x \in Keys : told'[x] = IF x = k THEN {map[k]} ELSE told[x]
  BY <1>1, <1>3, <1>4 DEF LogTypes
<1>7. FileInv(disk, told')
  <2>1. \A n \in 1..Len(disk) : WholeUpTo(disk, n) /\ disk[n].key = k => n = j
    BY <1>1, <1>2, <1>3 DEF FileInv
  <2>2. \A n \in 1..Len(disk) : disk[n].key \in Keys
    BY <1>1, RecordsTyped DEF FileInv
  <2>3. \A n \in 1..Len(disk) :
          WholeUpTo(disk, n) => \A x \in told'[disk[n].key] : x = disk[n].val
    <3> SUFFICES ASSUME NEW n \in 1..Len(disk), WholeUpTo(disk, n),
                        NEW x \in told'[disk[n].key]
                 PROVE  x = disk[n].val
      OBVIOUS
    <3>1. CASE disk[n].key = k
      BY <1>3, <1>6, <2>1, <3>1
    <3>2. CASE disk[n].key # k
      BY <1>1, <1>6, <2>2, <3>2 DEF FileInv
    <3> QED
      BY <3>1, <3>2
  <2>4. \A x \in Keys : told'[x] # {} => \E n \in 1..Len(disk) : WholeUpTo(disk, n) /\ disk[n].key = x
    BY <1>1, <1>2, <1>3, <1>6 DEF FileInv
  <2> QED
    BY <1>1, <2>3, <2>4 DEF FileInv
<1>8. MemoryInv(disk, map, len, told')
  BY <1>1, <1>6 DEF MemoryInv
<1>9. FreshInv(fresh, told')
  BY <1>6 DEF LogInv, FreshInv
<1> QED
  BY <1>1, <1>4, <1>5, <1>6, <1>7, <1>8, <1>9 DEF LogInv, LogTypes, wal

(* A failed append tells nobody anything and poisons a file it could not mend. *)
LEMMA DecideFailsInv ==
  ASSUME LogInv, NEW k \in Keys, NEW v \in Values, NEW o \in Outcomes,
         NEW setOk \in BOOLEAN, NEW seekOk \in BOOLEAN,
         DecideFails(k, v, o, setOk, seekOk)
  PROVE  LogInv'
<1> DEFINE e == Left(k, v, o)
<1>1. Appending(k)
  BY DEF DecideFails
<1>2. /\ disk \in Seq(Records) /\ Len(disk) \in Nat /\ len = Len(disk) /\ cursor = len
      /\ WholeUpTo(disk, Len(disk)) /\ up /\ ~poisoned
      /\ MemoryInv(disk, map, len, told)
  BY <1>1, AppendingFacts
<1>3. /\ FileInv(e, told) /\ Len(disk) <= Len(e)
      /\ \A j \in 1..Len(disk) : e[j] = disk[j]
  BY <1>1, LeftFacts
<1>4. e \in Seq(Records) /\ Len(e) \in Nat
  BY <1>3 DEF FileInv
<1>5. told' = told /\ fresh' = fresh /\ up' = up /\ map' = map /\ len' = len
      /\ cursor' \in Nat /\ poisoned' = (~setOk \/ ~seekOk)
  <2>1. told' = [told EXCEPT ![k] = told[k]] /\ fresh' = [fresh EXCEPT ![k] = fresh[k]]
    BY DEF DecideFails, Answer, LogInv, LogTypes
  <2> QED
    BY <1>2, <1>4, <2>1 DEF DecideFails, Poisons, LogInv, LogTypes
<1>6. disk' = IF setOk THEN disk ELSE e
  <2>1. \A j \in 1..len : e[j] \in Records
    BY <1>2, <1>3, <1>4
  <2> DEFINE c == SubSeq(e, 1, len)
  <2>2. c \in Seq(Records) /\ Len(c) = len /\ \A j \in 1..len : c[j] = e[j]
    <3> HIDE DEF e
    <3> QED
      BY <1>2, <2>1, SubSeqProperties
  <2>3. c = disk
    <3> HIDE DEF c, e
    <3> QED
      BY <1>2, <1>3, <2>2
  <2> QED
    BY <2>3 DEF DecideFails
<1>7. FileInv(disk', told') /\ Len(disk') >= len /\ (setOk => Len(disk') = len)
  BY <1>2, <1>3, <1>4, <1>5, <1>6 DEF LogInv
<1>8. \A j \in 1..len : disk'[j] = disk[j]
  BY <1>2, <1>3, <1>6
<1>9. MemoryInv(disk', map', len', told')
  <2>0. Len(disk') \in Nat
    BY <1>2, <1>4, <1>6
  <2>1. \A x : x \in DOMAIN map <=> \E j \in 1..len : disk'[j].key = x
    BY <1>2, <1>8 DEF MemoryInv
  <2> QED
    BY <1>2, <1>5, <1>7, <1>8, <2>0, <2>1 DEF MemoryInv, WholeUpTo
<1>10. up' /\ ~poisoned' => len' = Len(disk') /\ cursor' = len'
  BY <1>2, <1>5, <1>7 DEF DecideFails
<1>11. LogTypes'
  BY <1>2, <1>5 DEF LogInv, LogTypes
<1> QED
  BY <1>5, <1>7, <1>9, <1>10, <1>11 DEF LogInv

LEMMA StopInv == ASSUME LogInv, Stop PROVE LogInv'
BY DEF LogInv, LogTypes, Stop, FreshInv, answers

LEMMA StopInDecideInv ==
  ASSUME LogInv, NEW k \in Keys, NEW v \in Values, NEW o \in Outcomes, StopInDecide(k, v, o)
  PROVE  LogInv'
<1>1. FileInv(Left(k, v, o), told)
  BY LeftFacts DEF StopInDecide
<1> QED
  BY <1>1 DEF LogInv, LogTypes, StopInDecide, FreshInv, answers

LEMMA DecidePoisonedInv ==
  ASSUME LogInv, NEW k \in Keys, NEW v \in Values, DecidePoisoned(k, v)
  PROVE  LogInv'
<1>1. told' = told /\ fresh' = fresh
  <2>1. told' = [told EXCEPT ![k] = told[k]] /\ fresh' = [fresh EXCEPT ![k] = fresh[k]]
    BY DEF DecidePoisoned, Answer, LogInv, LogTypes
  <2> QED
    BY <2>1 DEF LogInv, LogTypes
<1> QED
  BY <1>1 DEF DecidePoisoned, wal, LogInv, LogTypes, FreshInv

(* The invariant of WalOneDecision: the file and the answers agree, whatever    *)
(* fails and whenever the process stops.                                   *)
THEOREM LogSound == LogSpec => []LogInv
<1>1. LogInit => LogInv
  BY LogInitInv
<1>2. LogInv /\ [LogNext]_logVars => LogInv'
  <2> SUFFICES ASSUME LogInv, [LogNext]_logVars PROVE LogInv'
    OBVIOUS
  <2>1. CASE UNCHANGED logVars
    BY <2>1 DEF logVars, wal, answers, LogInv, LogTypes, FreshInv
  <2>2. CASE \E n \in 0..Len(disk) : OpenLog(n)
    BY <2>2, OpenLogInv
  <2>3. CASE Stop
    BY <2>3, StopInv
  <2>4. ASSUME NEW k \in Keys, NEW v \in Values,
               DecidePoisoned(k, v) \/ DecideAgain(k, v) \/ DecideFresh(k, v)
        PROVE  LogInv'
    BY <2>4, DecidePoisonedInv, DecideAgainInv, DecideFreshInv
  <2>5. ASSUME NEW k \in Keys, NEW v \in Values, NEW o \in Outcomes, StopInDecide(k, v, o)
        PROVE  LogInv'
    BY <2>5, StopInDecideInv
  <2>6. ASSUME NEW k \in Keys, NEW v \in Values, NEW o \in Outcomes,
               NEW setOk \in BOOLEAN, NEW seekOk \in BOOLEAN,
               DecideFails(k, v, o, setOk, seekOk)
        PROVE  LogInv'
    BY <2>6, DecideFailsInv
  <2> QED
    BY <2>1, <2>2, <2>3, <2>4, <2>5, <2>6 DEF LogNext
<1> QED
  BY <1>1, <1>2, PTL DEF LogSpec

(* decide answers Fresh at most once for a key, across failures and restarts. *)
THEOREM FreshOnceHolds == LogSpec => []FreshOnce
<1>1. LogInv => FreshOnce
  BY DEF LogInv, FreshInv, FreshOnce
<1> QED
  BY <1>1, LogSound, PTL

(* decide never names two decisions for a key. *)
THEOREM OneAnswerHolds == LogSpec => []OneAnswer
<1>1. LogInv => OneAnswer
  <2> SUFFICES ASSUME LogInv, NEW k \in Keys, NEW v \in told[k], NEW w \in told[k]
               PROVE  v = w
    BY DEF OneAnswer
  <2>1. PICK n \in 1..Len(disk) : WholeUpTo(disk, n) /\ disk[n].key = k
    BY DEF LogInv, FileInv
  <2>2. \A x \in told[k] : x = disk[n].val
    BY <2>1 DEF LogInv, FileInv
  <2> QED
    BY <2>2
<1> QED
  BY <1>1, LogSound, PTL

(* What decide told a caller, the log replays. *)
THEOREM ToldIsDurableHolds == LogSpec => []ToldIsDurable
<1>1. LogInv => ToldIsDurable
  <2> SUFFICES ASSUME LogInv, NEW k \in Keys, told[k] # {}
               PROVE  \E n \in DOMAIN disk :
                        WholeUpTo(disk, n) /\ disk[n].key = k /\ disk[n].val \in told[k]
    BY DEF ToldIsDurable
  <2>1. PICK n \in 1..Len(disk) : WholeUpTo(disk, n) /\ disk[n].key = k
    BY DEF LogInv, FileInv
  <2>2. \A x \in told[k] : x = disk[n].val
    BY <2>1 DEF LogInv, FileInv
  <2>3. n \in DOMAIN disk
    BY <2>1 DEF LogInv, FileInv
  <2> QED
    BY <2>1, <2>2, <2>3
<1> QED
  BY <1>1, LogSound, PTL

-----------------------------------------------------------------------------
(* The payer's stream.  The rail part of the invariant: the watermark a    *)
(* transfer found and the one it left grow along the chain, and an         *)
(* included advance left at least its target.                              *)

Op == [kind : {"plain", "release", "advance"}, amt : Nat, key : Nat]
Inclusion == [ref : Nat, delta : Int, before : Nat, fact : Nat]

Link(k) ==
  /\ chain[k].ref \in 1..Len(refs)
  /\ chain[k].before <= mark /\ chain[k].fact <= mark
  /\ refs[chain[k].ref].kind = "advance" => refs[chain[k].ref].amt <= chain[k].fact
  /\ \A j \in 1..(k - 1) :
       /\ chain[j].ref # chain[k].ref
       /\ chain[j].before <= chain[k].before /\ chain[j].fact <= chain[k].before

ChainOk ==
  /\ refs \in Seq(Op) /\ chain \in Seq(Inclusion)
  /\ final \in 0..Len(chain) /\ mark \in Nat
  /\ \A k \in 1..Len(chain) : Link(k)

Below(v, total) == \A r \in Roles : v[r] <= Accruals(total)[r]

\* The units of meed that v extinguishes, and that it extinguishes whole ones.
Units(v) == Total(v) \div BpDenom
Exact(v) == v \in [Roles -> Nat] /\ Total(v) = BpDenom * Units(v)

CkptsOk ==
  /\ ckpts \in Seq(Nat)
  /\ \A k \in 1..Len(ckpts) : ckpts[k] <= wallet.cum /\ \A j \in 1..k : ckpts[j] <= ckpts[k]

CkptAt(k) == IF k = 0 THEN 0 ELSE ckpts[k]

WalletFields == {"cum", "op", "credited", "pending", "halted", "lastSettle"}
PendingFields == {"ref", "amount", "cum", "tx", "defaulted"}

PendingOk(w, pv) ==
  /\ pv.ref \in 1..w.op
  /\ pv.cum = ckpts[pv.ref] /\ pv.amount = CumulativeTarget(pv.cum)
  /\ Below(w.credited, pv.cum)

WalletOk(w) ==
  /\ DOMAIN w = WalletFields /\ DOMAIN w.pending = PendingFields
  /\ w.cum \in Nat /\ w.op \in 0..Len(ckpts)
  /\ Exact(w.credited) /\ Units(w.credited) <= FinalMark
  /\ Below(w.credited, CkptAt(w.op))
  /\ w.pending = NoRound \/ PendingOk(w, w.pending)

\* What one round bounds: the meed owed beyond the round in flight, and that round.
WithinBounds(w) ==
  RoundCarve > 0 =>
    IF w.pending = NoRound
    THEN CumulativeTarget(w.cum) <= Units(w.credited) + RoundCarve
    ELSE /\ CumulativeTarget(w.pending.cum) <= Units(w.credited) + RoundCarve
         /\ CumulativeTarget(w.cum) <= CumulativeTarget(w.pending.cum) + RoundCarve

RoundFields == {"target", "er", "tx", "confirmed"}

FlightOk(d, sent) ==
  /\ d.target \in Nat /\ d.er \in [Roles -> Nat]
  /\ Total(settled) + Total(d.er) = BpDenom * d.target
  /\ \A r \in Roles : settled[r] + d.er[r] <= Accruals(CkptAt(Len(ckpts)))[r]
  /\ d.tx # 0 => d.tx \in 1..Len(sent) /\ sent[d.tx] = Advance(d.target)

RoundsOk ==
  /\ \A ref \in DOMAIN rounds : DOMAIN rounds[ref] = RoundFields
  /\ \A a, b \in InFlight : a = b
  /\ \A ref \in InFlight : FlightOk(rounds[ref], refs)
  /\ Exact(settled) /\ Units(settled) <= FinalMark
  /\ Below(settled, CkptAt(Len(ckpts)))

StreamInv ==
  /\ thValue \in Nat /\ ChainOk /\ CkptsOk
  /\ WalletOk(wallet) /\ WithinBounds(wallet) /\ RoundsOk

-----------------------------------------------------------------------------
(* The meed owed at a position.                                            *)

LEMMA StreamRoles ==
  /\ Len(Bp) \in Nat \ {0} /\ Roles = 1..Len(Bp) /\ IsFiniteSet(Roles) /\ Bp \in [Roles -> Nat]
  /\ BpDenom \in Nat \ {0}
<1>1. Len(Bp) \in Nat \ {0} /\ Roles = 1..Len(Bp) /\ Bp \in [Roles -> Nat]
  BY StreamAssumption DEF Roles
<1> QED
  BY <1>1, RolesFinite, BpDenomAssumption

LEMMA StreamTotal ==
  ASSUME NEW v \in [Roles -> Nat]
  PROVE  Total(v) = SumOver(v, Roles) /\ Total(v) \in Nat /\ NatOn(v, Roles) /\ IntOn(v, Roles)
<1> DEFINE L == Len(Bp)
<1>1. L \in Nat /\ Roles = 1..L
  BY StreamRoles
<1> HIDE DEF L
<1> QED
  BY <1>1, TotalIs

LEMMA StreamAccruals ==
  ASSUME NEW total \in Nat
  PROVE  /\ Accruals(total) \in [Roles -> Nat] /\ Total(Accruals(total)) = total * Total(Bp)
         /\ Total(Bp) \in Nat
<1>1. Accruals(total) \in [Roles -> Nat] /\ Scales(Accruals(total), total, Bp, Roles)
  BY StreamRoles DEF Accruals, Scales
<1>2. SumOver(Accruals(total), Roles) = total * SumOver(Bp, Roles)
  <2>1. IntOn(Bp, Roles) /\ IsFiniteSet(Roles) /\ total \in Int
    BY StreamRoles, StreamTotal
  <2> QED
    BY <1>1, <2>1, SumScale
<1> QED
  BY <1>1, <1>2, StreamRoles, StreamTotal

\* At unity, compute_p is the whole units.
LEMMA UnityPays == ASSUME NEW n \in Nat PROVE ComputeP(n, Unity) = n \div BpDenom
<1>1. n * 1 = n /\ 1 * BpDenom = BpDenom
  BY BpDenomAssumption
<1> QED
  BY <1>1 DEF ComputeP, Unity

LEMMA TargetFact ==
  ASSUME NEW total \in Nat
  PROVE  /\ CumulativeTarget(total) = (total * Total(Bp)) \div BpDenom
         /\ CumulativeTarget(total) \in Nat
         /\ MeedCarve(Accruals(total)) = CumulativeTarget(total)
<1> DEFINE n == total * Total(Bp)
<1>1. n \in Nat /\ Total(Accruals(total)) = n /\ BpDenom \in Nat \ {0}
  BY StreamAccruals, BpDenomAssumption
<1> HIDE DEF n
<1>2. CumulativeTarget(total) = n \div BpDenom
  BY <1>1, UnityPays DEF CumulativeTarget
<1>3. n \div BpDenom \in Nat
  BY <1>1, DivFact
<1> QED
  BY <1>1, <1>2, <1>3 DEF MeedCarve, n

LEMMA TargetMonotone ==
  ASSUME NEW s \in Nat, NEW t \in Nat, s <= t
  PROVE  CumulativeTarget(s) <= CumulativeTarget(t)
<1>1. Total(Bp) \in Nat /\ BpDenom \in Nat \ {0}
  BY StreamRoles, StreamTotal
<1>2. (s * Total(Bp)) \div BpDenom <= (t * Total(Bp)) \div BpDenom
  <2> DEFINE w == Total(Bp)
  <2>1. w \in Nat
    BY <1>1
  <2> HIDE DEF w
  <2>2. (s * w) \div BpDenom <= (t * w) \div BpDenom
    BY <1>1, <2>1, ShareMonotone
  <2> QED BY <2>2 DEF w
<1>3. CumulativeTarget(s) = (s * Total(Bp)) \div BpDenom /\ CumulativeTarget(t) = (t * Total(Bp)) \div BpDenom
  BY TargetFact
<1> QED
  BY <1>2, <1>3

LEMMA DivLess ==
  ASSUME NEW b \in Nat \ {0}, NEW N \in Nat, NEW u \in Nat, NEW n \in Nat, N = b * u + n
  PROVE  n \div b = (N \div b) - u /\ u <= N \div b
<1> DEFINE p == n \div b
           q == N \div b
<1>1. p \in Nat /\ q \in Nat /\ b * p <= n /\ n < b * p + b /\ b * q <= N /\ N < b * q + b
  BY DivFact
<1> HIDE DEF p, q
<1>2. b * (u + p) = b * u + b * p /\ b * (u + p + 1) = b * u + b * p + b /\ b * (q + 1) = b * q + b
  BY <1>1, Distributes
<1>3. b * (u + p) < b * (q + 1) /\ b * q < b * (u + p + 1)
  BY <1>1, <1>2
<1>4. u + p < q + 1 /\ q < u + p + 1
  BY <1>1, <1>3, ScaleLess
<1>5. p = q - u /\ u <= q
  BY <1>1, <1>4
<1> QED
  BY <1>5 DEF p, q

LEMMA ExactUnits ==
  ASSUME NEW v \in [Roles -> Nat], NEW u \in Nat, Total(v) = BpDenom * u
  PROVE  Units(v) = u /\ Exact(v)
<1>1. (BpDenom * u) \div BpDenom = u
  <2>1. BpDenom \in Nat \ {0} /\ BpDenom * u \in Nat /\ BpDenom * u = BpDenom * u + 0
    BY BpDenomAssumption
  <2>2. 0 \div BpDenom = 0
    BY <2>1
  <2> DEFINE N == BpDenom * u
  <2>3. N \in Nat /\ N = BpDenom * u + 0 /\ N \div BpDenom \in Nat
    BY <2>1, DivFact
  <2> HIDE DEF N
  <2>4. 0 \div BpDenom = (N \div BpDenom) - u
    BY <2>1, <2>3, DivLess
  <2>5. N \div BpDenom = u
    BY <2>2, <2>3, <2>4
  <2> QED
    BY <2>5 DEF N
<1> QED
  BY <1>1 DEF Units, Exact

\* outstanding_meed_per_role at a position that what is extinguished is below.
LEMMA OutstandingAt ==
  ASSUME NEW v, Exact(v), NEW total \in Nat, Below(v, total),
         NEW n, n = OutstandingMeedPerRole(Accruals(total), v)
  PROVE  /\ n \in [Roles -> Nat] /\ \A r \in Roles : n[r] = Accruals(total)[r] - v[r]
         /\ Units(v) \in Nat /\ Units(v) <= CumulativeTarget(total)
         /\ Total(n) \div BpDenom = CumulativeTarget(total) - Units(v)
<1> DEFINE A == Accruals(total)
<1>1. A \in [Roles -> Nat] /\ v \in [Roles -> Nat] /\ \A r \in Roles : v[r] <= A[r]
  BY StreamAccruals DEF Exact, Below
<1>2. n \in [Roles -> Nat] /\ \A r \in Roles : n[r] = A[r] - v[r]
  BY <1>1 DEF OutstandingMeedPerRole
<1>3. SumsOn(A, v, n, Roles)
  <2> HIDE DEF A
  <2> QED BY <1>1, <1>2 DEF SumsOn
<1>4. Total(A) = Total(v) + Total(n)
  BY <1>1, <1>2, <1>3, StreamRoles, StreamTotal, SumAdd
<1>5. Total(v) \in Nat /\ Total(n) \in Nat /\ Total(v) = BpDenom * Units(v) /\ Units(v) \in Nat
  BY <1>1, <1>2, StreamTotal, DivFact, BpDenomAssumption DEF Exact, Units
<1> DEFINE N == total * Total(Bp)
<1>6. N \in Nat /\ N = BpDenom * Units(v) + Total(n)
  BY <1>4, <1>5, StreamAccruals
<1> HIDE DEF N
<1>7. Total(n) \div BpDenom = (N \div BpDenom) - Units(v) /\ Units(v) <= N \div BpDenom
  <2> DEFINE m == Total(n)
             u == Units(v)
  <2>1. m \in Nat /\ u \in Nat /\ N = BpDenom * u + m /\ BpDenom \in Nat \ {0}
    BY <1>5, <1>6, BpDenomAssumption
  <2> HIDE DEF m, u
  <2>2. m \div BpDenom = (N \div BpDenom) - u /\ u <= N \div BpDenom
    BY <1>6, <2>1, DivLess
  <2> QED BY <2>2 DEF m, u
<1>8. N \div BpDenom = CumulativeTarget(total)
  BY TargetFact DEF N
<1> QED
  BY <1>2, <1>5, <1>7, <1>8

\* carve_at
LEMMA CarveIs ==
  ASSUME NEW w, Exact(w.credited), NEW total \in Nat, Below(w.credited, total)
  PROVE  /\ CarveAt(w, total) = CumulativeTarget(total) - Units(w.credited)
         /\ Units(w.credited) \in Nat /\ Units(w.credited) <= CumulativeTarget(total)
<1> DEFINE n == OutstandingMeedPerRole(Accruals(total), w.credited)
<1>1. /\ n \in [Roles -> Nat] /\ Units(w.credited) \in Nat /\ Units(w.credited) <= CumulativeTarget(total)
      /\ Total(n) \div BpDenom = CumulativeTarget(total) - Units(w.credited)
  BY OutstandingAt
<1>2. Total(n) \in Nat /\ CarveAt(w, total) = ComputeP(Total(n), Unity)
  BY <1>1, StreamTotal DEF CarveAt
<1> HIDE DEF n
<1> QED
  BY <1>1, <1>2, UnityPays

\* A round at a position extinguishes all the whole units owed there.
LEMMA RoundFolds ==
  ASSUME NEW v, Exact(v), NEW total \in Nat, Below(v, total),
         NEW d, d = DivideRound(OutstandingMeedPerRole(Accruals(total), v), Unity),
         NEW f, f = [r \in Roles |-> v[r] + d.er[r]]
  PROVE  /\ d.er \in [Roles -> Nat] /\ Total(v) + Total(d.er) = BpDenom * CumulativeTarget(total)
         /\ \A r \in Roles : v[r] + d.er[r] <= Accruals(total)[r]
<1> DEFINE n == OutstandingMeedPerRole(Accruals(total), v)
           L == Len(Bp)
           c == CumulativeTarget(total)
           u == Units(v)
<1>1. /\ n \in [Roles -> Nat] /\ \A r \in Roles : n[r] = Accruals(total)[r] - v[r]
      /\ u \in Nat /\ u <= c /\ Total(n) \div BpDenom = c - u
  BY OutstandingAt
<1>2. L \in Nat \ {0} /\ Roles = 1..L /\ d = DivideRound(n, Unity)
  BY StreamRoles
<1> HIDE DEF n, L
<1>3. d.p = c - u /\ d.er \in [Roles -> Nat] /\ Total(d.er) = BpDenom * d.p /\ \A r \in Roles : d.er[r] <= n[r]
  BY <1>1, <1>2, UnityDivides
<1>4. Total(v) = BpDenom * u /\ v \in [Roles -> Nat] /\ Accruals(total) \in [Roles -> Nat]
  BY StreamAccruals DEF Exact
<1>5. c \in Nat
  BY TargetFact
<1>6. \A r \in Roles : v[r] + d.er[r] <= Accruals(total)[r]
  BY <1>1, <1>3, <1>4
<1> HIDE DEF c, u
<1>7. BpDenom * u + BpDenom * (c - u) = BpDenom * c
  <2>1. BpDenom \in Int /\ u \in Int /\ c - u \in Int /\ u + (c - u) = c
    BY <1>1, <1>5, BpDenomAssumption
  <2> QED BY <2>1, Distributes
<1> QED
  BY <1>3, <1>4, <1>6, <1>7 DEF c

\* fold_credited and the fold of settled_r
LEMMA FoldedExact ==
  ASSUME NEW v \in [Roles -> Nat], NEW er \in [Roles -> Nat], NEW c \in Nat, NEW total,
         Total(v) + Total(er) = BpDenom * c,
         \A r \in Roles : v[r] + er[r] <= Accruals(total)[r],
         NEW f, f = [r \in Roles |-> v[r] + er[r]]
  PROVE  f \in [Roles -> Nat] /\ Units(f) = c /\ Exact(f) /\ Below(f, total)
<1>1. f \in [Roles -> Nat] /\ SumsOn(f, v, er, Roles)
  BY DEF SumsOn
<1>2. Total(f) = BpDenom * c
  BY <1>1, StreamRoles, StreamTotal, SumAdd
<1> QED
  BY <1>1, <1>2, ExactUnits DEF Below

-----------------------------------------------------------------------------
(* The rail.                                                               *)

LEMMA NextIndex ==
  ASSUME NEW n \in Nat, NEW f \in 0..n, f # n
  PROVE  f + 1 \in 1..n /\ f # n + 1 /\ (f + 1) - 1 = f
OBVIOUS

LEMMA FrontFact ==
  ASSUME NEW S, NEW s \in Seq(S), Len(s) # 0
  PROVE  /\ Front(s) \in Seq(S) /\ Len(Front(s)) = Len(s) - 1
         /\ \A k \in 1..(Len(s) - 1) : Front(s)[k] = s[k]
<1> DEFINE n == Len(s)
           t == SubSeq(s, 1, n - 1)
<1>1. n \in Nat \ {0} /\ n - 1 \in Int /\ 1 \in Int /\ \A i \in 1..(n - 1) : s[i] \in S
  OBVIOUS
<1>2. /\ t \in Seq(S) /\ Len(t) = (IF 1 <= n - 1 THEN (n - 1) - 1 + 1 ELSE 0)
      /\ \A i \in 1..((n - 1) - 1 + 1) : t[i] = s[1 + i - 1]
  BY <1>1, SubSeqProperties
<1>3. Front(s) = t
  BY DEF Front
<1> HIDE DEF t, n
<1>4. t \in Seq(S) /\ Len(t) = n - 1 /\ \A k \in 1..(n - 1) : t[k] = s[k]
  BY <1>1, <1>2
<1> QED
  BY <1>3, <1>4 DEF n

LEMMA FinalMarkType == ASSUME ChainOk PROVE FinalMark \in Nat
<1>1. ASSUME final # 0, final # Len(chain) PROVE chain[final + 1] \in Inclusion
  <2>1. final + 1 \in 1..Len(chain)
    BY <1>1 DEF ChainOk
  <2> QED BY <2>1 DEF ChainOk
<1> QED
  BY <1>1 DEF ChainOk, FinalMark, Inclusion

\* What a final transfer left is final.
LEMMA FinalFact ==
  ASSUME ChainOk, NEW i, FinalityReached(i)
  PROVE  /\ Fact(i) \in Nat /\ Fact(i) <= FinalMark
         /\ i \in 1..Len(refs)
         /\ refs[i].kind = "advance" => refs[i].amt <= FinalMark
<1>1. PICK k \in 1..final : chain[k].ref = i
  BY DEF FinalityReached, Finalized
<1>2. final \in Nat /\ Len(chain) \in Nat /\ final <= Len(chain) /\ DOMAIN chain = 1..Len(chain)
  BY DEF ChainOk
<1>3. k \in 1..Len(chain) /\ k \in DOMAIN chain /\ Link(k)
  BY <1>1, <1>2 DEF ChainOk
<1>4. ASSUME NEW m \in DOMAIN chain, chain[m].ref = i PROVE m = k
  <2>1. m \in 1..Len(chain) /\ Link(m)
    BY <1>2, <1>4 DEF ChainOk
  <2>2. ~ (m < k)
    <3>1. ASSUME m < k PROVE FALSE
      <4>1. m \in 1..(k - 1)
        BY <1>2, <1>3, <2>1, <3>1
      <4> QED BY <1>1, <1>3, <1>4, <4>1 DEF Link
    <3> QED BY <3>1
  <2>3. ~ (k < m)
    <3>1. ASSUME k < m PROVE FALSE
      <4>1. k \in 1..(m - 1)
        BY <1>2, <1>3, <2>1, <3>1
      <4> QED BY <1>1, <2>1, <1>4, <4>1 DEF Link
    <3> QED BY <3>1
  <2> QED
    BY <1>2, <1>3, <2>1, <2>2, <2>3
<1>5. (CHOOSE m \in DOMAIN chain : chain[m].ref = i) = k
  BY <1>1, <1>3, <1>4
<1>6. Fact(i) = chain[k].fact
  BY <1>1, <1>3, <1>5 DEF Fact
<1>7. chain[k].fact \in Nat
  <2>1. chain[k] \in Inclusion
    BY <1>3 DEF ChainOk
  <2> QED BY <2>1 DEF Inclusion
<1>8. chain[k].fact <= FinalMark
  <2>1. CASE final = Len(chain)
    BY <1>1, <1>2, <1>3, <2>1 DEF FinalMark, Link
  <2>2. CASE final # Len(chain)
    <3>1. final + 1 \in 1..Len(chain) /\ k \in 1..((final + 1) - 1) /\ final # 0
      <4>1. final \in 0..Len(chain) /\ Len(chain) \in Nat
        BY <1>2 DEF ChainOk
      <4>2. final + 1 \in 1..Len(chain) /\ (final + 1) - 1 = final
        BY <2>2, <4>1, NextIndex
      <4> QED BY <1>1, <1>2, <4>2
    <3>2. Link(final + 1)
      BY <3>1 DEF ChainOk
    <3>3. chain[k].fact <= chain[final + 1].before
      BY <3>1, <3>2 DEF Link
    <3> QED BY <2>2, <3>1, <3>3 DEF FinalMark
  <2> QED BY <2>1, <2>2
<1>9. i \in 1..Len(refs) /\ (refs[i].kind = "advance" => refs[i].amt <= chain[k].fact)
  BY <1>1, <1>3 DEF Link
<1>10. refs[i].amt \in Nat
  <2>1. refs[i] \in Op
    BY <1>9 DEF ChainOk
  <2> QED BY <2>1 DEF Op
<1> QED
  BY <1>6, <1>7, <1>8, <1>9, <1>10, FinalMarkType

\* What no step of the rail takes back.
Kept ==
  /\ FinalMark' \in Nat /\ FinalMark <= FinalMark' /\ Len(refs) <= Len(refs')
  /\ \A i \in 1..Len(refs) : refs'[i] = refs[i]

LEMMA QuietRail ==
  ASSUME ChainOk, UNCHANGED rail
  PROVE  ChainOk' /\ Kept
<1>1. UNCHANGED <<refs, chain, final, dropped, escrow, mark>>
  BY DEF rail
<1>2. FinalMark' = FinalMark
  BY <1>1 DEF FinalMark
<1>3. FinalMark \in Nat
  BY FinalMarkType
<1>4. ChainOk'
  BY <1>1 DEF ChainOk, Link
<1> QED
  BY <1>1, <1>2, <1>3, <1>4 DEF Kept, ChainOk

LEMMA PresentKeeps ==
  ASSUME ChainOk, NEW op \in Op, Present(op)
  PROVE  /\ ChainOk' /\ Kept
         /\ Len(refs) \in Nat /\ refs' = Append(refs, op) /\ Len(refs') = Len(refs) + 1
         /\ refs'[Len(refs) + 1] = op
<1>1. refs' = Append(refs, op) /\ UNCHANGED <<chain, final, mark>>
  BY DEF Present
<1>2. /\ refs' \in Seq(Op) /\ Len(refs) \in Nat /\ Len(refs') = Len(refs) + 1
      /\ \A i \in 1..Len(refs) : refs'[i] = refs[i]
      /\ refs'[Len(refs) + 1] = op
  BY <1>1 DEF ChainOk
<1>3. FinalMark' = FinalMark /\ FinalMark \in Nat
  BY <1>1, FinalMarkType DEF FinalMark
<1>4. ASSUME NEW k \in 1..Len(chain) PROVE Link(k)'
  <2>1. Link(k) /\ chain[k].ref \in 1..Len(refs)
    BY DEF ChainOk, Link
  <2>2. refs'[chain[k].ref] = refs[chain[k].ref] /\ chain[k].ref \in 1..Len(refs')
    BY <1>2, <2>1
  <2> QED BY <1>1, <2>1, <2>2 DEF Link
<1>5. ChainOk'
  BY <1>1, <1>2, <1>4 DEF ChainOk
<1> QED
  BY <1>1, <1>2, <1>3, <1>5 DEF Kept

LEMMA ConfirmKeeps ==
  ASSUME ChainOk, NEW i, Confirm(i)
  PROVE  ChainOk' /\ Kept
<1> DEFINE n == Len(chain)
           x == Applied(i)
           op == refs[i]
<1>1. /\ i \in Submitted /\ chain' = Append(chain, x) /\ refs' = refs /\ final' = final
      /\ mark' = IF op.kind = "advance" THEN AdvanceChannel(op.amt) ELSE mark
  BY DEF Confirm
<1>2. /\ i \in 1..Len(refs) /\ op \in Op /\ mark \in Nat /\ n \in Nat /\ final \in 0..n
      /\ DOMAIN chain = 1..n
  BY <1>1 DEF Submitted, ChainOk
<1>3. \A k \in 1..n : chain[k].ref # i
  BY <1>1, <1>2 DEF Submitted, Included
<1>4. /\ mark' \in Nat /\ mark <= mark'
      /\ op.kind = "advance" => op.amt <= mark'
      /\ x.ref = i /\ x.before = mark /\ x.fact = IF op.kind = "advance" THEN mark' ELSE 0
      /\ x \in Inclusion
  <2>1. op.amt \in Nat /\ AdvanceChannel(op.amt) \in Nat /\ mark <= AdvanceChannel(op.amt) /\ op.amt <= AdvanceChannel(op.amt)
    BY <1>2 DEF AdvanceChannel, Op
  <2>2. Delta(op) \in Int
    BY <1>2, <2>1 DEF Delta, SatSub
  <2> QED BY <1>1, <1>2, <2>1, <2>2 DEF Applied, Inclusion
<1> HIDE DEF x
<1>5. /\ chain' \in Seq(Inclusion) /\ Len(chain') = n + 1 /\ chain'[n + 1] = x
      /\ \A k \in 1..n : chain'[k] = chain[k]
  BY <1>1, <1>2, <1>4 DEF ChainOk
<1>6. \A k \in 1..n : chain[k] \in Inclusion /\ Link(k)
  BY DEF ChainOk
<1>7. ASSUME NEW k \in 1..(n + 1) PROVE Link(k)'
  <2>1. CASE k \in 1..n
    <3>1. Link(k) /\ chain'[k] = chain[k] /\ chain[k] \in Inclusion
      BY <1>5, <1>6, <2>1
    <3>2. \A j \in 1..(k - 1) : chain'[j] = chain[j]
      BY <1>2, <1>5, <2>1
    <3>3. chain[k].before <= mark' /\ chain[k].fact <= mark'
      <4>1. chain[k].before \in Nat /\ chain[k].fact \in Nat
        BY <3>1 DEF Inclusion
      <4>2. chain[k].before <= mark /\ chain[k].fact <= mark
        BY <3>1, Zenon DEF Link
      <4>3. mark \in Nat /\ mark' \in Nat /\ mark <= mark'
        BY <1>2, <1>4, Zenon
      <4> QED BY <4>1, <4>2, <4>3
    <3>4. ASSUME NEW j \in 1..(k - 1)
          PROVE  /\ chain'[j].ref # chain'[k].ref
                 /\ chain'[j].before <= chain'[k].before /\ chain'[j].fact <= chain'[k].before
      <4>1. /\ chain[j].ref # chain[k].ref
            /\ chain[j].before <= chain[k].before /\ chain[j].fact <= chain[k].before
        BY <3>1, Zenon DEF Link
      <4>2. chain'[j] = chain[j] /\ chain'[k] = chain[k]
        BY <3>1, <3>2, Zenon
      <4> QED BY <4>1, <4>2, Zenon
    <3>5. /\ chain'[k].ref \in 1..Len(refs') /\ chain'[k].before <= mark' /\ chain'[k].fact <= mark'
          /\ refs'[chain'[k].ref].kind = "advance" => refs'[chain'[k].ref].amt <= chain'[k].fact
      BY <1>1, <3>1, <3>3 DEF Link
    <3> QED BY <3>4, <3>5 DEF Link
  <2>2. CASE k = n + 1
    <3>1. chain'[k] = x /\ \A j \in 1..(k - 1) : j \in 1..n /\ chain'[j] = chain[j]
      BY <1>2, <1>5, <2>2
    <3>2. \A j \in 1..n : chain[j].before <= x.before /\ chain[j].fact <= x.before /\ chain[j].ref # x.ref
      BY <1>3, <1>4, <1>6 DEF Link
    <3>3. x.before <= mark' /\ x.fact <= mark' /\ x.ref \in 1..Len(refs')
      BY <1>1, <1>2, <1>4
    <3>4. refs'[x.ref].kind = "advance" => refs'[x.ref].amt <= x.fact
      BY <1>1, <1>4
    <3> QED BY <3>1, <3>2, <3>3, <3>4 DEF Link
  <2> QED BY <1>2, <2>1, <2>2
<1>8. ChainOk'
  <2>1. final' \in 0..Len(chain') /\ mark' \in Nat /\ refs' \in Seq(Op)
    BY <1>1, <1>2, <1>4, <1>5 DEF ChainOk
  <2> QED BY <1>5, <1>7, <2>1 DEF ChainOk
<1>9. FinalMark' = FinalMark
  <2>1. CASE final = n
    BY <1>1, <1>2, <1>4, <1>5, <2>1 DEF FinalMark
  <2>2. CASE final # n
    <3>1. final + 1 \in 1..n /\ final # n + 1
      BY <1>2, <2>2, NextIndex
    <3> QED BY <1>1, <1>2, <1>5, <2>2, <3>1 DEF FinalMark
  <2> QED BY <2>1, <2>2
<1> QED
  BY <1>1, <1>8, <1>9, FinalMarkType DEF Kept, ChainOk

LEMMA FinalizeKeeps ==
  ASSUME ChainOk, Finalize
  PROVE  ChainOk' /\ Kept
<1> DEFINE n == Len(chain)
<1>1. final < n /\ final' = final + 1 /\ UNCHANGED <<refs, chain, mark>>
  BY DEF Finalize
<1>2. n \in Nat /\ final \in 0..n /\ mark \in Nat
  BY DEF ChainOk
<1>3. ChainOk'
  <2>1. final' \in 0..Len(chain') /\ Len(chain') = n /\ mark' \in Nat
    BY <1>1, <1>2
  <2>2. \A k \in 1..n : Link(k)'
    BY <1>1 DEF ChainOk, Link
  <2> QED BY <1>1, <2>1, <2>2 DEF ChainOk
<1>4. FinalMark <= FinalMark'
  <2>1. final + 1 \in 1..n /\ Link(final + 1) /\ chain[final + 1] \in Inclusion
    BY <1>1, <1>2 DEF ChainOk
  <2>2. FinalMark <= chain[final + 1].before
    <3>1. FinalMark = 0 \/ FinalMark = chain[final + 1].before
      BY <1>1, <1>2 DEF FinalMark
    <3> QED BY <2>1, <3>1 DEF Inclusion
  <2>3. CASE final + 1 = n
    BY <1>1, <1>2, <2>1, <2>2, <2>3, FinalMarkType DEF FinalMark, Link, Inclusion
  <2>4. CASE final + 1 # n
    <3>1. final + 2 \in 1..n /\ final + 1 \in 1..((final + 2) - 1)
      BY <1>1, <1>2, <2>4
    <3>2. Link(final + 2) /\ chain[final + 2] \in Inclusion
      BY <3>1 DEF ChainOk
    <3>3. chain[final + 1].before <= chain[final + 2].before
      BY <3>1, <3>2 DEF Link
    <3>4. FinalMark' = chain[final + 2].before
      <4>1. final' # 0 /\ final' # Len(chain') /\ final' + 1 = final + 2 /\ chain' = chain
        BY <1>1, <1>2, <2>4
      <4> QED BY <4>1 DEF FinalMark
    <3> QED BY <2>1, <2>2, <3>2, <3>3, <3>4, FinalMarkType DEF Inclusion
  <2> QED BY <2>3, <2>4
<1>5. FinalMark' \in Nat
  <2>1. CASE final + 1 = n
    BY <1>1, <1>2, <2>1 DEF FinalMark
  <2>2. CASE final + 1 # n
    <3>1. final + 2 \in 1..n /\ final' + 1 = final + 2 /\ final' # n /\ final' # 0
      BY <1>1, <1>2, <2>2
    <3>2. chain[final + 2] \in Inclusion
      BY <3>1 DEF ChainOk
    <3> QED BY <1>1, <3>1, <3>2 DEF FinalMark, Inclusion
  <2> QED BY <2>1, <2>2
<1> QED
  BY <1>1, <1>3, <1>4, <1>5 DEF Kept, ChainOk

LEMMA ReorgKeeps ==
  ASSUME ChainOk, Reorg
  PROVE  ChainOk' /\ Kept
<1> DEFINE n == Len(chain)
<1>1. n \in Nat /\ final \in 0..n /\ mark \in Nat /\ final < n /\ n \in 1..n
  BY DEF ChainOk, Reorg
<1>2. /\ refs' = refs /\ final' = final /\ chain' = Front(chain) /\ mark' = chain[n].before
  BY DEF Reorg, Revert, Last
<1>3. /\ chain' \in Seq(Inclusion) /\ Len(chain') = n - 1
      /\ \A k \in 1..(n - 1) : chain'[k] = chain[k]
  <2>1. chain \in Seq(Inclusion) /\ Len(chain) # 0
    BY <1>1 DEF ChainOk
  <2>2. /\ Front(chain) \in Seq(Inclusion) /\ Len(Front(chain)) = n - 1
        /\ \A k \in 1..(n - 1) : Front(chain)[k] = chain[k]
    BY <2>1, FrontFact
  <2> QED BY <1>2, <2>2
<1>4. Link(n) /\ chain[n] \in Inclusion
  BY <1>1 DEF ChainOk
<1>5. mark' \in Nat
  BY <1>2, <1>4 DEF Inclusion
<1>6. ASSUME NEW k \in 1..(n - 1) PROVE Link(k)'
  <2>1. k \in 1..n /\ chain'[k] = chain[k] /\ \A j \in 1..(k - 1) : chain'[j] = chain[j]
    BY <1>1, <1>3
  <2>2. Link(k)
    BY <2>1 DEF ChainOk
  <2>3. chain[k].before <= chain[n].before /\ chain[k].fact <= chain[n].before
    BY <1>1, <1>4 DEF Link
  <2> QED BY <1>2, <2>1, <2>2, <2>3 DEF Link
<1>7. ChainOk'
  <2>1. final' \in 0..Len(chain') /\ refs' \in Seq(Op)
    BY <1>1, <1>2, <1>3 DEF ChainOk
  <2> QED BY <1>3, <1>5, <1>6, <2>1 DEF ChainOk
<1>8. FinalMark' = FinalMark
  <2>1. CASE final = n - 1
    <3>1. final + 1 = n /\ final # n
      BY <1>1, <2>1
    <3> QED BY <1>1, <1>2, <1>3, <2>1, <3>1 DEF FinalMark
  <2>2. CASE final # n - 1
    <3>1. final + 1 \in 1..(n - 1) /\ final # n
      BY <1>1, <2>2
    <3> QED BY <1>1, <1>2, <1>3, <2>2, <3>1 DEF FinalMark
  <2> QED BY <2>1, <2>2
<1> QED
  BY <1>2, <1>7, <1>8, FinalMarkType DEF Kept, ChainOk

LEMMA RailStepKeeps ==
  ASSUME ChainOk, RailStep
  PROVE  ChainOk' /\ Kept
<1>1. ASSUME NEW i, DropTx(i) PROVE ChainOk' /\ Kept
  <2>1. UNCHANGED <<refs, chain, final, mark>>
    BY <1>1 DEF DropTx
  <2>2. FinalMark' = FinalMark /\ FinalMark \in Nat
    BY <2>1, FinalMarkType DEF FinalMark
  <2>3. ChainOk'
    BY <2>1 DEF ChainOk, Link
  <2> QED BY <2>1, <2>2, <2>3 DEF Kept, ChainOk
<1> QED
  BY <1>1, ConfirmKeeps, FinalizeKeeps, ReorgKeeps DEF RailStep

-----------------------------------------------------------------------------
(* The wallet's steps.                                                     *)

LEMMA RoundCarveType == ASSUME thValue \in Nat PROVE RoundCarve \in Nat
<1> DEFINE n == thValue * Total(Bp)
<1>1. n \in Nat /\ BpDenom \in Nat \ {0}
  BY StreamRoles, StreamTotal
<1>2. n \div BpDenom \in Nat
  <2> HIDE DEF n
  <2> QED BY <1>1, DivFact
<1> QED
  BY <1>2 DEF RoundCarve

LEMMA BelowMonotone ==
  ASSUME NEW v \in [Roles -> Nat], NEW s \in Nat, NEW t \in Nat, s <= t, Below(v, s)
  PROVE  Below(v, t)
<1> SUFFICES ASSUME NEW r \in Roles PROVE v[r] <= Accruals(t)[r]
  BY DEF Below
<1>1. Bp[r] \in Nat /\ v[r] \in Nat
  BY StreamRoles
<1>2. v[r] <= s * Bp[r]
  BY DEF Below, Accruals
<1>3. s * Bp[r] <= t * Bp[r] /\ s * Bp[r] \in Nat /\ t * Bp[r] \in Nat
  <2> DEFINE b == Bp[r]
  <2>1. b \in Nat
    BY <1>1
  <2> HIDE DEF b
  <2>2. s * b <= t * b /\ s * b \in Nat /\ t * b \in Nat
    BY <2>1
  <2> QED BY <2>2 DEF b
<1>4. v[r] <= t * Bp[r]
  BY <1>1, <1>2, <1>3
<1> QED
  BY <1>4 DEF Accruals

\* The positions of a wallet: of its checkpoint, of the round that awaits its
\* verification, and its own.
LEMMA Positions ==
  ASSUME CkptsOk, NEW w, WalletOk(w), wallet.cum <= w.cum, wallet.cum \in Nat
  PROVE  /\ CkptAt(w.op) \in Nat /\ CkptAt(w.op) <= w.cum /\ Below(w.credited, w.cum)
         /\ w.op # 0 => w.op \in 1..Len(ckpts) /\ CkptAt(w.op) = ckpts[w.op]
         /\ PendingOk(w, w.pending) =>
              /\ w.pending.cum \in Nat /\ w.pending.cum <= CkptAt(w.op) /\ w.pending.cum <= w.cum
              /\ w.pending # NoRound
<1>1. /\ w.cum \in Nat /\ Len(ckpts) \in Nat /\ w.op \in 0..Len(ckpts) /\ w.credited \in [Roles -> Nat]
      /\ Below(w.credited, CkptAt(w.op))
  BY DEF WalletOk, CkptsOk, Exact
<1>2. \A k \in 1..Len(ckpts) : ckpts[k] \in Nat /\ ckpts[k] <= w.cum /\ \A j \in 1..k : ckpts[j] <= ckpts[k]
  BY <1>1 DEF CkptsOk
<1>3. w.op # 0 => w.op \in 1..Len(ckpts) /\ CkptAt(w.op) = ckpts[w.op]
  BY <1>1 DEF CkptAt
<1>4. CkptAt(w.op) \in Nat /\ CkptAt(w.op) <= w.cum
  BY <1>1, <1>2, <1>3 DEF CkptAt
<1>5. Below(w.credited, w.cum)
  BY <1>1, <1>4, BelowMonotone
<1>6. ASSUME PendingOk(w, w.pending)
      PROVE  /\ w.pending.cum \in Nat /\ w.pending.cum <= CkptAt(w.op) /\ w.pending.cum <= w.cum
             /\ w.pending # NoRound
  <2>1. w.pending.ref \in 1..w.op /\ w.pending.cum = ckpts[w.pending.ref]
    BY <1>6 DEF PendingOk
  <2>2. w.op # 0 /\ w.pending.ref \in 1..Len(ckpts) /\ w.pending.ref # 0
    BY <1>1, <2>1
  <2>3. ckpts[w.pending.ref] <= ckpts[w.op]
    BY <1>2, <1>3, <2>1, <2>2
  <2>4. w.pending # NoRound
    BY <2>2 DEF NoRound
  <2> QED BY <1>2, <1>3, <2>1, <2>2, <2>3, <2>4
<1> QED
  BY <1>3, <1>4, <1>5, <1>6

\* refresh_halt sets the halt and nothing else.
LEMMA Refreshes ==
  ASSUME NEW w, DOMAIN w = WalletFields
  PROVE  LET x == RefreshHalt(w)
         IN  /\ DOMAIN x = WalletFields /\ x.cum = w.cum /\ x.op = w.op
             /\ x.credited = w.credited /\ x.pending = w.pending
BY DEF RefreshHalt, WalletFields

LEMMA SameBooks ==
  ASSUME NEW w, NEW x, DOMAIN x = WalletFields, x.cum = w.cum, x.op = w.op,
         x.credited = w.credited, x.pending = w.pending, WalletOk(w), WithinBounds(w)
  PROVE  WalletOk(x) /\ WithinBounds(x)
BY DEF WalletOk, WithinBounds, PendingOk

LEMMA BooksStep ==
  ASSUME StreamInv, WalletOk(wallet'), WithinBounds(wallet'), wallet.cum <= wallet'.cum,
         UNCHANGED <<terms, merchant, rail>>
  PROVE  StreamInv'
<1>1. /\ thValue' = thValue /\ ckpts' = ckpts /\ rounds' = rounds /\ settled' = settled
      /\ refs' = refs /\ chain' = chain /\ final' = final /\ mark' = mark
  BY DEF terms, merchant, rail
<1>2. ChainOk' /\ FinalMark' = FinalMark
  BY <1>1 DEF StreamInv, ChainOk, Link, FinalMark
<1>3. CkptsOk'
  <2>1. wallet.cum \in Nat /\ wallet'.cum \in Nat
    BY DEF StreamInv, WalletOk
  <2>2. \A k \in 1..Len(ckpts) : ckpts[k] \in Nat
    BY DEF StreamInv, CkptsOk
  <2> QED BY <1>1, <2>1, <2>2 DEF StreamInv, CkptsOk
<1>4. WalletOk(wallet)'
  BY <1>1, <1>2 DEF WalletOk, PendingOk, CkptAt
<1>5. WithinBounds(wallet)'
  BY <1>1 DEF WithinBounds, RoundCarve
<1>6. RoundsOk'
  BY <1>1, <1>2 DEF StreamInv, RoundsOk, FlightOk, InFlight, CkptAt
<1> QED
  BY <1>1, <1>2, <1>3, <1>4, <1>5, <1>6 DEF StreamInv

\* Steps that refresh the halt only.
LEMMA RefreshStep ==
  ASSUME StreamInv, DOMAIN wallet' = WalletFields, wallet'.cum = wallet.cum, wallet'.op = wallet.op,
         wallet'.credited = wallet.credited, wallet'.pending = wallet.pending,
         UNCHANGED <<terms, merchant, rail>>
  PROVE  StreamInv'
<1>1. WalletOk(wallet) /\ WithinBounds(wallet) /\ wallet.cum \in Nat
  BY DEF StreamInv, WalletOk
<1>2. WalletOk(wallet') /\ WithinBounds(wallet')
  BY <1>1, SameBooks
<1> QED
  BY <1>1, <1>2, BooksStep

LEMMA RefuseSliceStep ==
  ASSUME StreamInv, NEW amt, RefuseSlice(amt)
  PROVE  StreamInv'
<1> DEFINE w == RefreshHalt(wallet)
<1>1. /\ DOMAIN w = WalletFields /\ w.cum = wallet.cum /\ w.op = wallet.op
      /\ w.credited = wallet.credited /\ w.pending = wallet.pending
  BY Refreshes DEF StreamInv, WalletOk
<1>2. wallet' = [w EXCEPT !.halted = w.halted \/ ApproveSlice(amt)] /\ UNCHANGED <<terms, merchant, rail>>
  BY DEF RefuseSlice
<1> HIDE DEF w
<1>3. /\ DOMAIN wallet' = WalletFields /\ wallet'.cum = wallet.cum /\ wallet'.op = wallet.op
      /\ wallet'.credited = wallet.credited /\ wallet'.pending = wallet.pending
  BY <1>1, <1>2 DEF WalletFields
<1> QED
  BY <1>2, <1>3, RefreshStep

LEMMA SatSubAtMost ==
  ASSUME NEW a \in Nat, NEW b \in Nat, NEW c \in Nat, SatSub(a, b) <= c
  PROVE  a <= b + c
BY DEF SatSub

LEMMA NextSliceStep ==
  ASSUME StreamInv, NEW amt \in 1..MaxAmt, NextSlice(amt)
  PROVE  StreamInv'
<1> DEFINE w == RefreshHalt(wallet)
           c == wallet.cum + amt
           u == Units(wallet.credited)
<1>1. /\ DOMAIN w = WalletFields /\ w.cum = wallet.cum /\ w.op = wallet.op
      /\ w.credited = wallet.credited /\ w.pending = wallet.pending
  BY Refreshes DEF StreamInv, WalletOk
<1>2. /\ WithinRound(w, amt) /\ wallet' = [w EXCEPT !.cum = w.cum + amt]
      /\ UNCHANGED <<terms, merchant, rail>>
  BY DEF NextSlice
<1> HIDE DEF w
<1>3. /\ DOMAIN wallet' = WalletFields /\ wallet'.cum = c /\ wallet'.op = wallet.op
      /\ wallet'.credited = wallet.credited /\ wallet'.pending = wallet.pending
  BY <1>1, <1>2 DEF WalletFields
<1>4. amt \in Nat /\ wallet.cum \in Nat /\ c \in Nat /\ wallet.cum <= c
  BY StreamAssumption DEF StreamInv, WalletOk
<1>5. WalletOk(wallet')
  BY <1>3, <1>4 DEF StreamInv, WalletOk, PendingOk
<1>6. /\ CkptsOk /\ Exact(w.credited) /\ Below(wallet'.credited, c)
      /\ PendingOk(wallet', wallet'.pending) => wallet'.pending.cum \in Nat
  BY <1>1, <1>3, <1>4, <1>5, Positions DEF StreamInv, WalletOk
<1>7. CarveAt(w, c) = CumulativeTarget(c) - u /\ u \in Nat /\ u <= CumulativeTarget(c)
  BY <1>1, <1>3, <1>4, <1>6, CarveIs
<1>8. CumulativeTarget(c) \in Nat /\ CarveAt(w, c) \in Nat
  BY <1>4, <1>7, TargetFact
<1>9. RoundCarve \in Nat
  BY RoundCarveType DEF StreamInv
<1>10. WithinBounds(wallet')
  <2> SUFFICES ASSUME RoundCarve > 0 PROVE WithinBounds(wallet')
    BY DEF WithinBounds
  <2>1. SatSub(CarveAt(w, c), InFlightAmount(w)) <= RoundCarve
    BY <1>1, <1>2 DEF WithinRound, OwedBeyondInFlight
  <2>2. CASE wallet.pending = NoRound
    <3>1. InFlightAmount(w) = 0
      BY <1>1, <2>2 DEF InFlightAmount
    <3>2. CarveAt(w, c) <= 0 + RoundCarve
      BY <1>8, <1>9, <2>1, <3>1, SatSubAtMost
    <3>3. CumulativeTarget(c) <= u + RoundCarve
      BY <1>7, <1>8, <1>9, <3>2
    <3> QED BY <1>3, <2>2, <3>3 DEF WithinBounds
  <2>3. CASE wallet.pending # NoRound
    <3> DEFINE p == CumulativeTarget(wallet.pending.cum)
    <3>1. PendingOk(wallet, wallet.pending) /\ PendingOk(wallet', wallet'.pending)
      BY <1>3, <1>5, <2>3 DEF StreamInv, WalletOk
    <3>2. wallet.pending.cum \in Nat /\ Below(w.credited, wallet.pending.cum)
      BY <1>1, <1>3, <1>6, <3>1 DEF PendingOk
    <3>3. CarveAt(w, wallet.pending.cum) = p - u /\ u <= p /\ p \in Nat
      BY <1>1, <1>6, <3>2, CarveIs, TargetFact
    <3>4. InFlightAmount(w) = 0 \/ InFlightAmount(w) = p - u
      BY <1>1, <3>3 DEF InFlightAmount
    <3>5. InFlightAmount(w) \in Nat /\ InFlightAmount(w) <= p - u
      BY <1>7, <3>3, <3>4
    <3>6. CarveAt(w, c) <= InFlightAmount(w) + RoundCarve
      BY <1>8, <1>9, <2>1, <3>5, SatSubAtMost
    <3>7. CumulativeTarget(c) <= p + RoundCarve
      BY <1>7, <1>8, <1>9, <3>3, <3>5, <3>6
    <3>8. p <= u + RoundCarve
      BY <2>3 DEF StreamInv, WithinBounds
    <3> QED BY <1>3, <2>3, <3>7, <3>8 DEF WithinBounds
  <2> QED BY <2>2, <2>3
<1> QED
  BY <1>2, <1>3, <1>4, <1>5, <1>10, BooksStep

LEMMA RecordOperativeStep ==
  ASSUME StreamInv, NEW ref \in DOMAIN ckpts, RecordOperative(ref)
  PROVE  StreamInv'
<1> DEFINE x == [wallet EXCEPT !.op = ref]
<1>0. DOMAIN wallet = WalletFields /\ WalletOk(wallet) /\ WithinBounds(wallet) /\ CkptsOk /\ wallet.cum \in Nat
  BY DEF StreamInv, WalletOk
<1>1. /\ ref > wallet.op /\ wallet' = RefreshHalt(x) /\ UNCHANGED <<terms, merchant, rail>>
  BY DEF RecordOperative
<1>2. /\ DOMAIN x = WalletFields /\ x.cum = wallet.cum /\ x.op = ref
      /\ x.credited = wallet.credited /\ x.pending = wallet.pending
  BY <1>0 DEF WalletFields
<1> HIDE DEF x
<1>3. /\ DOMAIN wallet' = WalletFields /\ wallet'.cum = wallet.cum /\ wallet'.op = ref
      /\ wallet'.credited = wallet.credited /\ wallet'.pending = wallet.pending
  BY <1>1, <1>2, Refreshes
<1>4. ref \in 1..Len(ckpts) /\ Len(ckpts) \in Nat /\ wallet.op \in 0..Len(ckpts) /\ wallet.op < ref
  BY <1>0, <1>1 DEF CkptsOk, WalletOk
<1>5. ckpts[ref] \in Nat /\ \A j \in 1..ref : ckpts[j] <= ckpts[ref]
  BY <1>4 DEF StreamInv, CkptsOk
<1>6. CkptAt(wallet.op) \in Nat /\ CkptAt(ref) \in Nat /\ CkptAt(wallet.op) <= CkptAt(ref)
  <2>1. CkptAt(wallet.op) \in Nat /\ (wallet.op # 0 => wallet.op \in 1..Len(ckpts) /\ CkptAt(wallet.op) = ckpts[wallet.op])
    BY <1>0, Positions
  <2>2. CkptAt(ref) = ckpts[ref]
    BY <1>4 DEF CkptAt
  <2>3. wallet.op # 0 => wallet.op \in 1..ref
    BY <1>4
  <2> QED BY <1>5, <2>1, <2>2, <2>3 DEF CkptAt
<1>7. Below(wallet.credited, CkptAt(ref))
  BY <1>0, <1>6, BelowMonotone DEF WalletOk, Exact
<1>8. wallet.pending = NoRound \/ PendingOk(wallet', wallet'.pending)
  <2>1. ASSUME PendingOk(wallet, wallet.pending) PROVE PendingOk(wallet', wallet'.pending)
    <3>1. wallet.pending.ref \in 1..wallet.op
      BY <2>1 DEF PendingOk
    <3>2. wallet.pending.ref \in 1..ref
      BY <1>4, <3>1
    <3> QED BY <1>3, <2>1, <3>2 DEF PendingOk
  <2> QED BY <1>0, <2>1 DEF WalletOk
<1>9. WalletOk(wallet')
  BY <1>0, <1>3, <1>4, <1>7, <1>8 DEF WalletOk
<1>10. WithinBounds(wallet')
  BY <1>0, <1>3 DEF WithinBounds
<1> QED
  BY <1>0, <1>1, <1>3, <1>9, <1>10, BooksStep

LEMMA OnOverdueMeedStep ==
  ASSUME StreamInv, OnOverdueMeed
  PROVE  StreamInv'
<1>1. DOMAIN wallet = WalletFields /\ wallet' = RefreshHalt(wallet) /\ UNCHANGED <<terms, merchant, rail>>
  BY DEF OnOverdueMeed, StreamInv, WalletOk
<1>2. /\ DOMAIN wallet' = WalletFields /\ wallet'.cum = wallet.cum /\ wallet'.op = wallet.op
      /\ wallet'.credited = wallet.credited /\ wallet'.pending = wallet.pending
  BY <1>1, Refreshes
<1> QED
  BY <1>1, <1>2, RefreshStep

LEMMA ResumeStep ==
  ASSUME StreamInv, NEW n, ResumeOnPrepayDraw(n)
  PROVE  StreamInv'
<1> DEFINE pv == [ref |-> n.ref, amount |-> n.amount, cum |-> ckpts[n.ref], tx |-> n.tx, defaulted |-> FALSE]
           x == [wallet EXCEPT !.pending = pv]
           u == Units(wallet.credited)
           k == wallet.op
           o == CumulativeTarget(ckpts[k])
<1>0. DOMAIN wallet = WalletFields /\ WalletOk(wallet) /\ WithinBounds(wallet) /\ CkptsOk /\ wallet.cum \in Nat
  BY DEF StreamInv, WalletOk
<1>1. /\ wallet.pending = NoRound /\ k # 0 /\ n.ref = k /\ n.amount = o
      /\ CarveAt(wallet, ckpts[k]) > 0
      /\ wallet' = RefreshHalt(x) /\ UNCHANGED <<terms, merchant, rail>>
  BY DEF ResumeOnPrepayDraw, AcceptsRound, ExpectedAmount
<1>2. /\ pv.ref = k /\ pv.cum = ckpts[k] /\ pv.amount = o /\ DOMAIN pv = PendingFields
  BY <1>1 DEF PendingFields
<1> HIDE DEF pv
<1>3. /\ DOMAIN x = WalletFields /\ x.cum = wallet.cum /\ x.op = k
      /\ x.credited = wallet.credited /\ x.pending = pv
  BY <1>0 DEF WalletFields
<1> HIDE DEF x
<1>4. /\ DOMAIN wallet' = WalletFields /\ wallet'.cum = wallet.cum /\ wallet'.op = k
      /\ wallet'.credited = wallet.credited /\ wallet'.pending = pv
  BY <1>1, <1>3, Refreshes
<1>5. /\ k \in 1..Len(ckpts) /\ CkptAt(k) = ckpts[k] /\ ckpts[k] \in Nat /\ ckpts[k] <= wallet.cum
      /\ Below(wallet.credited, ckpts[k]) /\ k \in 1..k
  <2>1. k \in 1..Len(ckpts) /\ CkptAt(k) = ckpts[k] /\ CkptAt(k) \in Nat /\ CkptAt(k) <= wallet.cum
    BY <1>0, <1>1, Positions
  <2>2. Below(wallet.credited, CkptAt(k)) /\ Len(ckpts) \in Nat
    BY <1>0 DEF WalletOk, CkptsOk
  <2> QED BY <2>1, <2>2
<1>6. PendingOk(wallet', wallet'.pending)
  BY <1>2, <1>4, <1>5 DEF PendingOk
<1>7. WalletOk(wallet')
  BY <1>0, <1>2, <1>4, <1>6 DEF WalletOk
<1>8. CarveAt(wallet, ckpts[k]) = o - u /\ u \in Nat /\ o \in Nat
  BY <1>0, <1>5, CarveIs, TargetFact DEF WalletOk
<1>9. pv # NoRound
  BY <1>1, <1>2 DEF NoRound
<1>10. WithinBounds(wallet')
  <2> SUFFICES ASSUME RoundCarve > 0 PROVE WithinBounds(wallet')
    BY DEF WithinBounds
  <2> DEFINE c == CumulativeTarget(wallet.cum)
  <2>1. c <= u + RoundCarve /\ c \in Nat /\ RoundCarve \in Nat
    BY <1>0, <1>1, TargetFact, RoundCarveType DEF WithinBounds, StreamInv
  <2>2. o <= c
    BY <1>0, <1>5, TargetMonotone
  <2>3. u < o
    BY <1>1, <1>8
  <2> HIDE DEF c, o, u
  <2>4. o <= u + RoundCarve /\ c <= o + RoundCarve
    BY <1>8, <2>1, <2>2, <2>3
  <2> QED BY <1>2, <1>4, <1>9, <2>4 DEF WithinBounds, c, o, u
<1> QED
  BY <1>0, <1>1, <1>4, <1>7, <1>10, BooksStep

\* A pending round that only its transfer, or its default, sets apart.
LEMMA PendingStep ==
  ASSUME StreamInv, wallet.pending # NoRound, NEW pv, wallet'.pending = pv,
         DOMAIN wallet' = WalletFields, DOMAIN pv = PendingFields,
         wallet'.cum = wallet.cum, wallet'.op = wallet.op, wallet'.credited = wallet.credited,
         pv.ref = wallet.pending.ref, pv.cum = wallet.pending.cum, pv.amount = wallet.pending.amount,
         UNCHANGED <<terms, merchant, rail>>
  PROVE  StreamInv'
<1>0. WalletOk(wallet) /\ WithinBounds(wallet) /\ CkptsOk /\ wallet.cum \in Nat /\ PendingOk(wallet, wallet.pending)
  BY DEF StreamInv, WalletOk
<1>1. PendingOk(wallet', wallet'.pending)
  BY <1>0 DEF PendingOk
<1>2. WalletOk(wallet')
  BY <1>0, <1>1 DEF WalletOk
<1>3. pv # NoRound
  <2>1. wallet.op \in Nat
    BY <1>0 DEF WalletOk, CkptsOk
  <2>2. pv.ref # 0
    BY <1>0, <2>1 DEF PendingOk
  <2> QED BY <2>2 DEF NoRound
<1>4. WithinBounds(wallet')
  BY <1>0, <1>3 DEF WithinBounds
<1> QED
  BY <1>0, <1>2, <1>4, BooksStep

LEMMA RepointStep ==
  ASSUME StreamInv, NEW n, RepointPending(n)
  PROVE  StreamInv'
<1> DEFINE pv == [wallet.pending EXCEPT !.tx = n.tx]
<1>1. /\ wallet.pending # NoRound /\ wallet' = [wallet EXCEPT !.pending = pv]
      /\ UNCHANGED <<terms, merchant, rail>>
  BY DEF RepointPending
<1>2. DOMAIN wallet = WalletFields /\ DOMAIN wallet.pending = PendingFields
  BY DEF StreamInv, WalletOk
<1>3. /\ DOMAIN pv = PendingFields /\ pv.ref = wallet.pending.ref /\ pv.cum = wallet.pending.cum
      /\ pv.amount = wallet.pending.amount
  BY <1>2 DEF PendingFields
<1> HIDE DEF pv
<1>4. /\ DOMAIN wallet' = WalletFields /\ wallet'.cum = wallet.cum /\ wallet'.op = wallet.op
      /\ wallet'.credited = wallet.credited /\ wallet'.pending = pv
  BY <1>1, <1>2 DEF WalletFields
<1> QED
  BY <1>1, <1>3, <1>4, PendingStep

\* A round that does not verify is defaulted.
LEMMA DefaultStep ==
  ASSUME StreamInv, VerifyPendingDraw, ~ DrawVerifies(wallet.pending)
  PROVE  StreamInv'
<1> DEFINE pv == [wallet.pending EXCEPT !.defaulted = TRUE]
           x == [wallet EXCEPT !.pending = pv]
<1>1. /\ wallet.pending # NoRound /\ wallet' = RefreshHalt(x)
      /\ UNCHANGED <<terms, merchant, rail>>
  BY DEF VerifyPendingDraw
<1>2. DOMAIN wallet = WalletFields /\ DOMAIN wallet.pending = PendingFields
  BY DEF StreamInv, WalletOk
<1>3. /\ DOMAIN pv = PendingFields /\ pv.ref = wallet.pending.ref /\ pv.cum = wallet.pending.cum
      /\ pv.amount = wallet.pending.amount
  BY <1>2 DEF PendingFields
<1> HIDE DEF pv
<1>4. /\ DOMAIN x = WalletFields /\ x.cum = wallet.cum /\ x.op = wallet.op
      /\ x.credited = wallet.credited /\ x.pending = pv
  BY <1>2 DEF WalletFields
<1> HIDE DEF x
<1>5. /\ DOMAIN wallet' = WalletFields /\ wallet'.cum = wallet.cum /\ wallet'.op = wallet.op
      /\ wallet'.credited = wallet.credited /\ wallet'.pending = pv
  BY <1>1, <1>4, Refreshes
<1> QED
  BY <1>1, <1>3, <1>5, PendingStep

\* A round that verifies is credited, and its units are on the final watermark.
LEMMA CreditStep ==
  ASSUME StreamInv, VerifyPendingDraw, DrawVerifies(wallet.pending)
  PROVE  StreamInv'
<1> DEFINE p == wallet.pending.cum
           v == wallet.credited
           d == DivideRound(OutstandingMeedPerRole(Accruals(p), v), Unity)
           f == [r \in Roles |-> v[r] + d.er[r]]
           x == Credit(wallet)
           c == CumulativeTarget(p)
<1>0. /\ DOMAIN wallet = WalletFields /\ WalletOk(wallet) /\ WithinBounds(wallet) /\ CkptsOk
      /\ wallet.cum \in Nat /\ ChainOk /\ Exact(v)
  BY DEF StreamInv, WalletOk
<1>1. /\ wallet.pending # NoRound /\ wallet' = RefreshHalt(x) /\ UNCHANGED <<terms, merchant, rail>>
      /\ Fact(wallet.pending.tx) >= wallet.pending.amount /\ FinalityReached(wallet.pending.tx)
  BY DEF VerifyPendingDraw, DrawVerifies
<1>2. x = [wallet EXCEPT !.credited = f, !.pending = NoRound, !.lastSettle = clock]
  BY DEF Credit
<1> HIDE DEF x, f
<1>3. /\ DOMAIN x = WalletFields /\ x.cum = wallet.cum /\ x.op = wallet.op
      /\ x.credited = f /\ x.pending = NoRound
  BY <1>0, <1>2 DEF WalletFields
<1>4. /\ DOMAIN wallet' = WalletFields /\ wallet'.cum = wallet.cum /\ wallet'.op = wallet.op
      /\ wallet'.credited = f /\ wallet'.pending = NoRound
  BY <1>1, <1>3, Refreshes
<1>5. PendingOk(wallet, wallet.pending)
  BY <1>0, <1>1 DEF WalletOk
<1>6. /\ p \in Nat /\ p <= CkptAt(wallet.op) /\ CkptAt(wallet.op) \in Nat
      /\ Below(v, p) /\ wallet.pending.amount = c /\ c \in Nat
  BY <1>0, <1>5, Positions, TargetFact DEF PendingOk
<1>7. /\ d.er \in [Roles -> Nat] /\ Total(v) + Total(d.er) = BpDenom * c
      /\ \A r \in Roles : v[r] + d.er[r] <= Accruals(p)[r]
  BY <1>0, <1>6, RoundFolds
<1>8. f \in [Roles -> Nat] /\ Units(f) = c /\ Exact(f) /\ Below(f, p)
  <2> DEFINE er == d.er
  <2>1. er \in [Roles -> Nat] /\ Total(v) + Total(er) = BpDenom * c /\ f = [r \in Roles |-> v[r] + er[r]]
        /\ \A r \in Roles : v[r] + er[r] <= Accruals(p)[r]
    BY <1>7 DEF f
  <2>2. v \in [Roles -> Nat]
    BY <1>0 DEF Exact
  <2> HIDE DEF er, c, v
  <2> QED BY <1>6, <2>1, <2>2, FoldedExact
<1>9. Below(f, CkptAt(wallet.op))
  BY <1>6, <1>8, BelowMonotone
<1>10. c <= FinalMark
  <2>1. Fact(wallet.pending.tx) \in Nat /\ Fact(wallet.pending.tx) <= FinalMark
    BY <1>0, <1>1, FinalFact
  <2> QED BY <1>0, <1>1, <1>6, <2>1, FinalMarkType
<1>11. DOMAIN NoRound = PendingFields
  BY DEF NoRound, PendingFields
<1>12. WalletOk(wallet')
  BY <1>0, <1>4, <1>8, <1>9, <1>10, <1>11 DEF WalletOk
<1>13. WithinBounds(wallet')
  BY <1>0, <1>1, <1>4, <1>8 DEF WithinBounds
<1> QED
  BY <1>0, <1>1, <1>4, <1>12, <1>13, BooksStep

-----------------------------------------------------------------------------
(* The merchant's steps, and the rail's.                                   *)

\* What the wallet holds stands while the rail moves.
LEMMA WalletKept ==
  ASSUME StreamInv, ChainOk', Kept, UNCHANGED <<terms, wallet, ckpts>>
  PROVE  thValue' \in Nat /\ CkptsOk' /\ WalletOk(wallet)' /\ WithinBounds(wallet)'
<1>1. thValue' = thValue /\ wallet' = wallet /\ ckpts' = ckpts
  BY DEF terms
<1>2. /\ FinalMark \in Nat /\ FinalMark' \in Nat /\ FinalMark <= FinalMark'
      /\ Exact(wallet.credited) /\ Units(wallet.credited) <= FinalMark
  BY FinalMarkType DEF StreamInv, WalletOk, Kept
<1>3. Units(wallet.credited) \in Nat
  BY <1>2, StreamTotal, DivFact, BpDenomAssumption DEF Exact, Units
<1>4. Units(wallet.credited) <= FinalMark'
  BY <1>2, <1>3
<1>5. CkptsOk' /\ WithinBounds(wallet)' /\ thValue' \in Nat
  BY <1>1 DEF StreamInv, CkptsOk, WithinBounds, RoundCarve
<1>6. WalletOk(wallet)'
  BY <1>1, <1>4 DEF StreamInv, WalletOk, PendingOk, CkptAt
<1> QED
  BY <1>5, <1>6

\* What is settled stands too.
LEMMA SettledKept ==
  ASSUME StreamInv, Kept
  PROVE  Units(settled) <= FinalMark'
<1>1. /\ FinalMark \in Nat /\ FinalMark' \in Nat /\ FinalMark <= FinalMark'
      /\ Exact(settled) /\ Units(settled) <= FinalMark
  BY FinalMarkType DEF StreamInv, RoundsOk, Kept
<1>2. Units(settled) \in Nat
  BY <1>1, StreamTotal, DivFact, BpDenomAssumption DEF Exact, Units
<1> QED
  BY <1>1, <1>2

LEMMA RailMoves ==
  ASSUME StreamInv, ChainOk', Kept, UNCHANGED <<terms, wallet, merchant>>
  PROVE  StreamInv'
<1>1. terms' = terms /\ wallet' = wallet /\ ckpts' = ckpts /\ rounds' = rounds /\ settled' = settled
  BY DEF merchant
<1>2. thValue' \in Nat /\ CkptsOk' /\ WalletOk(wallet)' /\ WithinBounds(wallet)'
  BY <1>1, WalletKept
<1>3. InFlight' = InFlight
  BY <1>1 DEF InFlight
<1>4. \A ref \in InFlight : FlightOk(rounds[ref], refs)'
  <2> SUFFICES ASSUME NEW ref \in InFlight PROVE FlightOk(rounds[ref], refs)'
    OBVIOUS
  <2>1. FlightOk(rounds[ref], refs)
    BY DEF StreamInv, RoundsOk
  <2> DEFINE d == rounds[ref]
  <2>2. Len(refs) \in Nat /\ Len(refs') \in Nat /\ Len(refs) <= Len(refs')
    BY DEF StreamInv, ChainOk, Kept
  <2>3. d.tx # 0 => d.tx \in 1..Len(refs') /\ refs'[d.tx] = Advance(d.target)
    BY <2>1, <2>2 DEF FlightOk, Kept
  <2> QED BY <1>1, <2>1, <2>3 DEF FlightOk, CkptAt
<1>5. RoundsOk'
  BY <1>1, <1>3, <1>4, SettledKept DEF StreamInv, RoundsOk, CkptAt
<1> QED
  BY <1>2, <1>5 DEF StreamInv

LEMMA CheckpointStep ==
  ASSUME StreamInv, NEW total \in 1..MaxCum, Checkpoint(total)
  PROVE  StreamInv'
<1> DEFINE m == Len(ckpts)
<1>0. /\ ChainOk /\ CkptsOk /\ WalletOk(wallet) /\ WithinBounds(wallet) /\ RoundsOk /\ wallet.cum \in Nat
      /\ total \in Nat /\ ckpts \in Seq(Nat) /\ m \in Nat
  BY StreamAssumption DEF StreamInv, WalletOk, CkptsOk
<1>1. /\ total <= wallet.cum /\ total > (IF ckpts = <<>> THEN 0 ELSE Last(ckpts))
      /\ ckpts' = Append(ckpts, total)
      /\ UNCHANGED <<thValue, wallet, rounds, settled, refs, chain, final, mark>>
  BY DEF Checkpoint, terms, rail
<1>2. /\ ckpts' \in Seq(Nat) /\ Len(ckpts') = m + 1 /\ ckpts'[m + 1] = total
      /\ \A k \in 1..m : ckpts'[k] = ckpts[k]
  BY <1>0, <1>1
<1>3. CkptAt(m) \in Nat /\ CkptAt(m) <= total
  <2>1. CASE m = 0
    BY <1>0, <2>1 DEF CkptAt
  <2>2. CASE m # 0
    <3>1. ckpts # <<>> /\ m \in 1..m
      BY <1>0, <2>2
    <3>2. ckpts[m] \in Nat /\ ckpts[m] < total
      BY <1>0, <1>1, <3>1 DEF Last
    <3> QED BY <1>0, <2>2, <3>2 DEF CkptAt
  <2> QED BY <2>1, <2>2
<1>4. \A k \in 1..m : ckpts[k] \in Nat /\ ckpts[k] <= total
  <2> SUFFICES ASSUME NEW k \in 1..m PROVE ckpts[k] \in Nat /\ ckpts[k] <= total
    OBVIOUS
  <2>1. m \in 1..m /\ CkptAt(m) = ckpts[m] /\ k \in 1..m
    BY <1>0 DEF CkptAt
  <2>2. ckpts[k] <= ckpts[m] /\ ckpts[k] \in Nat
    BY <1>0, <2>1 DEF CkptsOk
  <2> QED BY <1>0, <1>3, <2>1, <2>2
<1>5. CkptsOk'
  <2>1. ASSUME NEW k \in 1..(m + 1)
        PROVE  ckpts'[k] <= wallet.cum /\ \A j \in 1..k : ckpts'[j] <= ckpts'[k]
    <3>1. CASE k \in 1..m
      <4>1. \A j \in 1..k : ckpts'[j] = ckpts[j]
        BY <1>0, <1>2, <3>1
      <4> QED BY <1>0, <1>2, <3>1, <4>1 DEF CkptsOk
    <3>2. CASE k = m + 1
      <4>1. \A j \in 1..k : j = k \/ j \in 1..m
        BY <1>0, <3>2
      <4> QED BY <1>0, <1>1, <1>2, <1>4, <3>2, <4>1
    <3> QED BY <1>0, <3>1, <3>2
  <2> QED BY <1>1, <1>2, <2>1 DEF CkptsOk
<1>6. FinalMark' = FinalMark /\ ChainOk' /\ InFlight' = InFlight
  BY <1>0, <1>1 DEF FinalMark, ChainOk, Link, InFlight
<1>7. /\ wallet.op \in 0..Len(ckpts') /\ CkptAt(wallet.op)' = CkptAt(wallet.op)
      /\ CkptAt(Len(ckpts))' = total
  <2>1. wallet.op \in 0..m
    BY <1>0 DEF WalletOk
  <2>2. m + 1 # 0 /\ wallet.op \in 0..(m + 1) /\ (wallet.op # 0 => wallet.op \in 1..m)
    BY <1>0, <2>1
  <2> QED BY <1>1, <1>2, <2>2 DEF CkptAt
<1>8. WalletOk(wallet)'
  <2>1. ASSUME PendingOk(wallet, wallet.pending) PROVE PendingOk(wallet, wallet.pending)'
    <3>1. wallet.pending.ref \in 1..wallet.op
      BY <2>1 DEF PendingOk
    <3>2. wallet.pending.ref \in 1..m
      BY <1>0, <3>1 DEF WalletOk
    <3> QED BY <1>1, <1>2, <2>1, <3>2 DEF PendingOk
  <2> QED BY <1>0, <1>1, <1>6, <1>7, <2>1 DEF WalletOk
<1>9. WithinBounds(wallet)'
  BY <1>0, <1>1 DEF WithinBounds, RoundCarve
<1>10. \A r \in Roles : Accruals(CkptAt(m))[r] <= Accruals(total)[r] /\ Accruals(CkptAt(m))[r] \in Nat /\ Accruals(total)[r] \in Nat
  <2> DEFINE a == Accruals(CkptAt(m))
  <2>1. a \in [Roles -> Nat] /\ Accruals(total) \in [Roles -> Nat]
    BY <1>0, <1>3, StreamAccruals
  <2>2. Below(a, CkptAt(m))
    BY <2>1 DEF Below
  <2>3. Below(a, total)
    <3> HIDE DEF a
    <3> QED BY <1>0, <1>3, <2>1, <2>2, BelowMonotone
  <2> QED BY <2>1, <2>3 DEF Below
<1>11. ASSUME NEW ref \in InFlight PROVE FlightOk(rounds[ref], refs)'
  <2> DEFINE d == rounds[ref]
  <2>1. FlightOk(d, refs) /\ Exact(settled)
    BY <1>0 DEF RoundsOk
  <2>2. \A r \in Roles : settled[r] + d.er[r] <= Accruals(total)[r]
    <3> SUFFICES ASSUME NEW r \in Roles PROVE settled[r] + d.er[r] <= Accruals(total)[r]
      OBVIOUS
    <3>1. settled[r] \in Nat /\ d.er[r] \in Nat /\ settled[r] + d.er[r] <= Accruals(CkptAt(m))[r]
      BY <2>1 DEF FlightOk, Exact
    <3> QED BY <1>10, <3>1
  <2> QED BY <1>1, <1>7, <2>1, <2>2 DEF FlightOk
<1>12. Below(settled, total)
  BY <1>0, <1>3, BelowMonotone DEF RoundsOk, Exact
<1>13. RoundsOk'
  BY <1>0, <1>1, <1>6, <1>7, <1>11, <1>12 DEF RoundsOk
<1> QED
  BY <1>1, <1>5, <1>6, <1>8, <1>9, <1>13 DEF StreamInv

\* A round is locked at the operative checkpoint for all it owes there, and no other
\* round is in flight.
LEMMA LockedFact ==
  ASSUME StreamInv, NEW ref, ref \in DrawableRounds
  PROVE  /\ DOMAIN LockedRound(ref) = RoundFields /\ FlightOk(LockedRound(ref), refs)
         /\ \A x \in InFlight : x = ref
<1>0. RoundsOk /\ CkptsOk /\ InFlight \subseteq DOMAIN rounds
  BY DEF StreamInv, InFlight
<1>1. CASE ref \in DOMAIN rounds
  <2>1. ref \in InFlight
    BY <1>1 DEF DrawableRounds
  <2> QED BY <1>0, <1>1, <2>1 DEF RoundsOk, LockedRound
<1>2. CASE ref \notin DOMAIN rounds
  <2> DEFINE total == ckpts[ref]
             v == settled
             dv == Division(ref)
             d == LockedRound(ref)
             c == CumulativeTarget(total)
  <2>1. InFlight = {} /\ ref = Len(ckpts) /\ ref # 0
    BY <1>0, <1>2 DEF DrawableRounds
  <2>2. total \in Nat /\ total = CkptAt(Len(ckpts))
    <3>1. ref \in 1..Len(ckpts)
      BY <1>0, <2>1 DEF CkptsOk
    <3> QED BY <1>0, <2>1, <3>1 DEF CkptsOk, CkptAt
  <2>3. Exact(v) /\ Below(v, total)
    BY <1>0, <2>2 DEF RoundsOk
  <2>4. dv = DivideRound(OutstandingMeedPerRole(Accruals(total), v), Unity)
    BY DEF Division
  <2>5. d = [target |-> c, er |-> dv.er, tx |-> 0, confirmed |-> FALSE]
    BY <1>2 DEF LockedRound
  <2> HIDE DEF d, dv, total
  <2>6. /\ dv.er \in [Roles -> Nat] /\ Total(v) + Total(dv.er) = BpDenom * c
        /\ \A r \in Roles : v[r] + dv.er[r] <= Accruals(total)[r]
    BY <2>2, <2>3, <2>4, RoundFolds
  <2>7. c \in Nat
    BY <2>2, TargetFact
  <2>8. DOMAIN d = RoundFields /\ d.target = c /\ d.er = dv.er /\ d.tx = 0
    BY <2>5 DEF RoundFields
  <2>9. FlightOk(d, refs)
    BY <2>2, <2>6, <2>7, <2>8 DEF FlightOk
  <2> QED BY <2>1, <2>8, <2>9 DEF d
<1> QED
  BY <1>1, <1>2

LEMMA LocksStep ==
  ASSUME StreamInv, ChainOk', Kept, UNCHANGED <<terms, wallet, ckpts, settled>>,
         NEW ref, NEW d, Locks(ref, d), DOMAIN d = RoundFields, FlightOk(d, refs'),
         \A x \in InFlight : x = ref
  PROVE  StreamInv'
<1>1. DOMAIN rounds' = DOMAIN rounds \cup {ref} /\ rounds'[ref] = d
  BY DEF Locks
<1>2. \A x \in DOMAIN rounds : x # ref => rounds'[x] = rounds[x]
  BY DEF Locks
<1>3. \A x \in InFlight' : x = ref
  BY <1>1, <1>2 DEF InFlight
<1>4. \A x \in DOMAIN rounds' : DOMAIN rounds'[x] = RoundFields
  BY <1>1, <1>2 DEF StreamInv, RoundsOk
<1>5. \A x \in InFlight' : FlightOk(rounds[x], refs)'
  BY <1>1, <1>3 DEF FlightOk, CkptAt
<1>6. Units(settled) <= FinalMark'
  BY SettledKept
<1>7. RoundsOk'
  BY <1>3, <1>4, <1>5, <1>6 DEF StreamInv, RoundsOk, CkptAt
<1>8. thValue' \in Nat /\ CkptsOk' /\ WalletOk(wallet)' /\ WithinBounds(wallet)'
  BY WalletKept
<1> QED
  BY <1>7, <1>8 DEF StreamInv

LEMMA DrawRefusedStep ==
  ASSUME StreamInv, NEW ref, DrawRefused(ref)
  PROVE  StreamInv'
<1> DEFINE d == LockedRound(ref)
<1>1. /\ ref \in DrawableRounds /\ Locks(ref, d)
      /\ UNCHANGED <<terms, wallet, ckpts, settled>> /\ UNCHANGED rail
  BY DEF DrawRefused
<1>2. DOMAIN d = RoundFields /\ FlightOk(d, refs) /\ \A x \in InFlight : x = ref
  BY <1>1, LockedFact
<1>3. ChainOk' /\ Kept
  BY <1>1, QuietRail DEF StreamInv
<1> HIDE DEF d
<1>4. FlightOk(d, refs')
  BY <1>1, <1>2 DEF FlightOk, CkptAt, rail
<1> QED
  BY <1>1, <1>2, <1>3, <1>4, LocksStep

LEMMA AdvanceIsOp == ASSUME NEW t \in Nat PROVE Advance(t) \in Op
BY DEF Advance, Op

LEMMA DrawStep ==
  ASSUME StreamInv, NEW ref, Draw(ref)
  PROVE  StreamInv'
<1> DEFINE b == LockedRound(ref)
           d == [b EXCEPT !.tx = Len(refs) + 1]
           op == Advance(b.target)
<1>1. /\ ref \in DrawableRounds /\ Present(op) /\ Locks(ref, d)
      /\ UNCHANGED <<terms, wallet, ckpts, settled>>
  BY DEF Draw
<1>2. DOMAIN b = RoundFields /\ FlightOk(b, refs) /\ \A x \in InFlight : x = ref
  BY <1>1, LockedFact
<1>3. op \in Op
  BY <1>2, AdvanceIsOp DEF FlightOk
<1>4. /\ ChainOk' /\ Kept /\ Len(refs) \in Nat /\ Len(refs') = Len(refs) + 1 /\ refs'[Len(refs) + 1] = op
  BY <1>1, <1>3, PresentKeeps DEF StreamInv
<1>5. DOMAIN d = RoundFields /\ d.tx = Len(refs) + 1 /\ d.target = b.target /\ d.er = b.er
  <2> HIDE DEF b
  <2> QED BY <1>2 DEF RoundFields
<1> HIDE DEF d, b
<1>6. d.tx \in 1..Len(refs') /\ refs'[d.tx] = Advance(d.target)
  BY <1>4, <1>5
<1>7. FlightOk(d, refs')
  BY <1>2, <1>5, <1>6 DEF FlightOk
<1> QED
  BY <1>1, <1>2, <1>4, <1>5, <1>7, LocksStep

\* A round is folded when the advance it submitted is final.
LEMMA DrawCompletesStep ==
  ASSUME StreamInv, NEW ref, DrawCompletes(ref)
  PROVE  StreamInv'
<1> DEFINE d == rounds[ref]
           e == [d EXCEPT !.confirmed = TRUE]
           total == CkptAt(Len(ckpts))
<1>1. /\ ref \in InFlight /\ d.tx # 0 /\ FinalityReached(d.tx) /\ Locks(ref, e)
      /\ settled' = [r \in Roles |-> settled[r] + d.er[r]]
      /\ UNCHANGED <<terms, wallet, ckpts>> /\ UNCHANGED rail
  BY DEF DrawCompletes
<1>2. /\ ref \in DOMAIN rounds /\ DOMAIN d = RoundFields /\ FlightOk(d, refs)
      /\ Exact(settled) /\ \A x \in InFlight : x = ref
  BY <1>1 DEF StreamInv, RoundsOk, InFlight
<1>3. ChainOk' /\ Kept /\ ChainOk /\ FinalMark' = FinalMark
  BY <1>1, QuietRail DEF StreamInv, rail, FinalMark
<1>4. thValue' \in Nat /\ CkptsOk' /\ WalletOk(wallet)' /\ WithinBounds(wallet)'
  BY <1>1, <1>3, WalletKept
<1>5. Units(settled') = d.target /\ Exact(settled') /\ Below(settled', total)
  <2> DEFINE er == d.er
             c == d.target
  <2>1. /\ er \in [Roles -> Nat] /\ c \in Nat /\ Total(settled) + Total(er) = BpDenom * c
        /\ settled \in [Roles -> Nat] /\ \A r \in Roles : settled[r] + er[r] <= Accruals(total)[r]
        /\ settled' = [r \in Roles |-> settled[r] + er[r]]
    BY <1>1, <1>2 DEF FlightOk, Exact
  <2> HIDE DEF er, c, total
  <2>2. Units(settled') = c /\ Exact(settled') /\ Below(settled', total)
    BY <2>1, FoldedExact
  <2> QED BY <2>2 DEF c
<1>6. d.target <= FinalMark
  <2>1. d.tx \in 1..Len(refs) /\ refs[d.tx] = Advance(d.target)
    BY <1>1, <1>2 DEF FlightOk
  <2>2. refs[d.tx].kind = "advance" /\ refs[d.tx].amt = d.target
    BY <2>1 DEF Advance
  <2>3. refs[d.tx].kind = "advance" => refs[d.tx].amt <= FinalMark
    BY <1>1, <1>3, FinalFact
  <2> QED BY <2>2, <2>3
<1>7. e.confirmed = TRUE /\ DOMAIN e = RoundFields
  <2> HIDE DEF d
  <2>1. DOMAIN e = RoundFields
    BY <1>2
  <2>2. "confirmed" \in DOMAIN d
    BY <1>2 DEF RoundFields
  <2>3. e.confirmed = TRUE
    BY <2>2
  <2> QED BY <2>1, <2>3
<1> HIDE DEF e
<1>8. DOMAIN rounds' = DOMAIN rounds /\ rounds'[ref] = e /\ \A x \in DOMAIN rounds : x # ref => rounds'[x] = rounds[x]
  BY <1>1, <1>2 DEF Locks
<1>9. InFlight' = {}
  <2>1. rounds'[ref].confirmed
    BY <1>7, <1>8
  <2>2. ASSUME NEW x \in DOMAIN rounds, x # ref PROVE rounds'[x].confirmed
    <3>1. x \notin InFlight
      BY <1>2, <2>2
    <3>2. rounds[x].confirmed
      BY <3>1 DEF InFlight
    <3> QED BY <1>8, <2>2, <3>2
  <2> QED BY <1>8, <2>1, <2>2 DEF InFlight
<1>10. \A x \in DOMAIN rounds' : DOMAIN rounds'[x] = RoundFields
  BY <1>7, <1>8 DEF StreamInv, RoundsOk
<1>11. Below(settled', CkptAt(Len(ckpts))') /\ Units(settled') <= FinalMark'
  BY <1>1, <1>3, <1>5, <1>6 DEF CkptAt
<1>12. RoundsOk'
  BY <1>5, <1>9, <1>10, <1>11 DEF RoundsOk
<1> QED
  BY <1>3, <1>4, <1>12 DEF StreamInv

\* Transfers of the other channel, and of a hostile merchant.
LEMMA PresentStep ==
  ASSUME StreamInv, OtherChannel \/ HostileAdvance
  PROVE  ChainOk' /\ Kept
<1>1. CASE OtherChannel
  <2>1. Plain(1, 0) \in Op /\ Release(1, 1) \in Op
    BY DEF Plain, Release, Op
  <2> QED BY <1>1, <2>1, PresentKeeps DEF OtherChannel, StreamInv
<1>2. CASE HostileAdvance
  <2>1. PICK k \in DOMAIN ckpts : Present(Advance(CumulativeTarget(ckpts[k])))
    BY <1>2 DEF HostileAdvance
  <2>2. ckpts[k] \in Nat
    BY DEF StreamInv, CkptsOk
  <2>3. Advance(CumulativeTarget(ckpts[k])) \in Op
    BY <2>2, TargetFact, AdvanceIsOp
  <2> QED BY <2>1, <2>3, PresentKeeps DEF StreamInv
<1> QED
  BY <1>1, <1>2

LEMMA StreamInitInv == ASSUME StreamInit PROVE StreamInv
<1>1. /\ thValue \in ThValues /\ ckpts = <<>> /\ rounds = <<>> /\ settled = Zero
      /\ wallet = [cum |-> 0, op |-> 0, credited |-> Zero, pending |-> NoRound,
                   halted |-> FALSE, lastSettle |-> 0]
      /\ refs = <<>> /\ chain = <<>> /\ final = 0 /\ mark = 0
  BY DEF StreamInit, RailInit
<1>2. Zero \in [Roles -> Nat] /\ Units(Zero) = 0 /\ Exact(Zero)
  <2>1. Zero \in [Roles -> Nat] /\ \A r \in Roles : Zero[r] = 0
    BY DEF Zero
  <2>2. Total(Zero) = 0 /\ BpDenom * 0 = 0
    BY <2>1, StreamRoles, StreamTotal, SumZero
  <2> QED BY <2>1, <2>2, ExactUnits
<1>3. Below(Zero, 0)
  BY StreamRoles DEF Below, Accruals, Zero
<1>4. ChainOk /\ FinalMark = 0
  BY <1>1 DEF ChainOk, FinalMark
<1>5. CkptsOk /\ CkptAt(0) = 0 /\ Len(ckpts) = 0
  BY <1>1 DEF CkptsOk, CkptAt
<1>6. /\ DOMAIN wallet = WalletFields /\ wallet.cum = 0 /\ wallet.op = 0 /\ wallet.credited = Zero
      /\ wallet.pending = NoRound /\ DOMAIN NoRound = PendingFields
  BY <1>1 DEF WalletFields, PendingFields, NoRound
<1>7. WalletOk(wallet)
  BY <1>2, <1>3, <1>4, <1>5, <1>6 DEF WalletOk
<1>8. CumulativeTarget(0) = 0
  <2>1. Total(Bp) \in Nat /\ 0 * Total(Bp) = 0 /\ 0 \div BpDenom = 0
    BY StreamRoles, StreamTotal
  <2> QED BY <2>1, TargetFact
<1>9. thValue \in Nat /\ WithinBounds(wallet)
  <2>1. thValue \in Nat
    BY <1>1, StreamAssumption
  <2>2. RoundCarve \in Nat
    BY <2>1, RoundCarveType
  <2> QED BY <1>2, <1>6, <1>8, <2>1, <2>2 DEF WithinBounds
<1>10. RoundsOk
  BY <1>1, <1>2, <1>3, <1>4, <1>5 DEF RoundsOk, InFlight
<1> QED
  BY <1>4, <1>5, <1>7, <1>9, <1>10 DEF StreamInv

\* The payer's stream and the merchant's draws keep the invariant, over a rail that
\* reorganises and whatever a hostile merchant signs or submits.
THEOREM StreamSound == StreamSpec => []StreamInv
<1>1. StreamInit => StreamInv
  BY StreamInitInv
<1>2. StreamInv /\ [StreamNext]_streamVars => StreamInv'
  <2> SUFFICES ASSUME StreamInv, [StreamNext]_streamVars PROVE StreamInv'
    OBVIOUS
  <2>1. ASSUME UNCHANGED <<terms, wallet, merchant, rail>> PROVE StreamInv'
    <3>1. ChainOk' /\ Kept
      BY <2>1, QuietRail DEF StreamInv
    <3> QED BY <2>1, <3>1, RailMoves
  <2>2. CASE UNCHANGED streamVars
    BY <2>1, <2>2 DEF streamVars
  <2>3. CASE \E amt \in 1..MaxAmt : NextSlice(amt) \/ RefuseSlice(amt)
    BY <2>3, NextSliceStep, RefuseSliceStep
  <2>4. CASE OnOverdueMeed
    BY <2>4, OnOverdueMeedStep
  <2>5. CASE ClockTicks
    BY <2>1, <2>5 DEF ClockTicks
  <2>6. CASE \E total \in 1..MaxCum : Checkpoint(total)
    BY <2>6, CheckpointStep
  <2>7. CASE \E ref \in DOMAIN ckpts : RecordOperative(ref) \/ DrawRefused(ref) \/ Draw(ref) \/ DrawCompletes(ref)
    BY <2>7, RecordOperativeStep, DrawRefusedStep, DrawStep, DrawCompletesStep
  <2>8. CASE \E n \in Deliverable : ResumeOnPrepayDraw(n) \/ RepointPending(n)
    BY <2>8, ResumeStep, RepointStep
  <2>9. CASE VerifyPendingDraw
    BY <2>9, CreditStep, DefaultStep
  <2>10. CASE (OtherChannel \/ HostileAdvance \/ RailStep) /\ Environment
    <3>1. ChainOk' /\ Kept
      BY <2>10, PresentStep, RailStepKeeps DEF StreamInv
    <3>2. UNCHANGED <<terms, wallet, merchant>>
      BY <2>10 DEF Environment
    <3> QED BY <3>1, <3>2, RailMoves
  <2> QED
    BY <2>2, <2>3, <2>4, <2>5, <2>6, <2>7, <2>8, <2>9, <2>10 DEF StreamNext
<1> QED
  BY <1>1, <1>2, PTL DEF StreamSpec

\* verify_pending_draw and run_prepay_interim_draw: what either end counts as settled
\* stays on the watermark, for any roles, triggers and reorganisations.
THEOREM SettledIsFinalHolds == StreamSpec => []SettledIsFinal
<1>1. StreamInv => SettledIsFinal
  <2> SUFFICES ASSUME StreamInv PROVE SettledIsFinal
    OBVIOUS
  <2>1. FinalMark \in Nat
    BY FinalMarkType DEF StreamInv
  <2>2. ASSUME NEW v, Exact(v), Units(v) <= FinalMark PROVE Total(v) <= BpDenom * FinalMark
    <3> DEFINE u == Units(v)
    <3>1. u \in Nat /\ u <= FinalMark /\ Total(v) = BpDenom * u /\ BpDenom \in Nat
      BY <2>2, StreamTotal, DivFact, BpDenomAssumption DEF Exact, Units
    <3> HIDE DEF u
    <3>2. BpDenom * u <= BpDenom * FinalMark
      BY <2>1, <3>1
    <3> QED BY <3>1, <3>2
  <2> QED
    BY <2>2 DEF StreamInv, WalletOk, RoundsOk, SettledIsFinal
<1> QED
  BY <1>1, StreamSound, PTL

\* next_slice and resume_on_prepay_draw: what a payer can be stripped of is bounded by
\* two rounds of meed, for any vector, value trigger and slice.
THEOREM StripBoundedHolds == StreamSpec => []StripBounded
<1>1. StreamInv => StripBounded
  <2> SUFFICES ASSUME StreamInv, RoundCarve > 0
               PROVE  MeedCarve(Accruals(wallet.cum)) <= FinalMark + 2 * RoundCarve
    BY DEF StripBounded
  <2> DEFINE u == Units(wallet.credited)
             c == CumulativeTarget(wallet.cum)
             p == CumulativeTarget(wallet.pending.cum)
  <2>1. /\ wallet.cum \in Nat /\ Exact(wallet.credited) /\ u <= FinalMark /\ CkptsOk
        /\ WalletOk(wallet) /\ WithinBounds(wallet) /\ ChainOk /\ thValue \in Nat
    BY DEF StreamInv, WalletOk
  <2>2. u \in Nat /\ FinalMark \in Nat /\ RoundCarve \in Nat /\ c \in Nat /\ MeedCarve(Accruals(wallet.cum)) = c
    BY <2>1, StreamTotal, DivFact, BpDenomAssumption, FinalMarkType, RoundCarveType, TargetFact DEF Exact, Units
  <2>3. CASE wallet.pending = NoRound
    <3>1. c <= u + RoundCarve
      BY <2>1, <2>3 DEF WithinBounds
    <3> HIDE DEF c, u
    <3> QED BY <2>1, <2>2, <3>1
  <2>4. CASE wallet.pending # NoRound
    <3>1. p <= u + RoundCarve /\ c <= p + RoundCarve
      BY <2>1, <2>4 DEF WithinBounds
    <3>2. p \in Nat
      <4>1. PendingOk(wallet, wallet.pending)
        BY <2>1, <2>4 DEF WalletOk
      <4>2. wallet.pending.cum \in Nat
        BY <2>1, <4>1, Positions
      <4> QED BY <4>2, TargetFact
    <3> HIDE DEF c, u, p
    <3> QED BY <2>1, <2>2, <3>1, <3>2
  <2> QED BY <2>3, <2>4
<1> QED
  BY <1>1, StreamSound, PTL
=============================================================================
