--------------------------- MODULE Establishment ---------------------------
(***************************************************************************)
(* Opening a channel between a wallet and a merchant through a party       *)
(* neither of them trusts: ChannelClient::open of                          *)
(* crates/paytp-wallet/src/channel.rs, the ChannelDriver of                *)
(* crates/paytp-merchant/src/channel.rs and the carriage entries that use  *)
(* it, over the objects of Wire and the vector checks of MeedVector.       *)
(*                                                                         *)
(* Other is everybody else: the interaction layer that assembles the terms *)
(* and carries the objects, with a signing key and a sealing key of its    *)
(* own.  Every object the wallet made may be delivered late, again or      *)
(* never, and Other presents objects of its own making.  A merchant may    *)
(* stop at any time; its memory is lost, its decision log is not.          *)
(* Chained opens are in PrepayChain, checkpoints in CheckpointExchange.    *)
(*                                                                         *)
(* A definition named Bug... is a mistake one could make in the definition *)
(* after it; no specification uses it.                                     *)
(***************************************************************************)
EXTENDS MeedVector, Wire

CONSTANTS
  Ids,               \* channel ids
  Params,            \* the terms an interaction layer assembles
  Snapshots,         \* the registry snapshots in circulation
  Merchant, Other,   \* identity keys; a sealing key is <<"enc", its owner>>
  Host, Cert,        \* the merchant's host and certificate
  OtherCert,         \* the certificate of another terminator
  OwnDest,           \* the wallet's asserted meed destination: a set of at most one
  Budget,            \* StaticPolicy: the limit per allowlisted asset
  Assets, Pointers,  \* the well-formed asset ids and destination pointers
  Strongest,         \* the rail's strongest finality level
  Stamps,            \* the timestamps an interaction layer asks for
  Skew, Latency,     \* SKEW_SECS and LATENCY_SECS
  MaxTime,           \* bound on the clock
  MaxSeq,            \* bound on the slices of a channel
  MaxRestarts        \* bound on the restarts

ASSUME IdAssumption == Ids \subseteq Nat \ {0}
ASSUME KeyAssumption == Merchant # Other /\ Cert # OtherCert
ASSUME IssuedOnce ==
  \A a, b \in Snapshots : ParseVerify(a) /\ ParseVerify(b) /\ a.version = b.version => a = b
ASSUME EstablishmentBounds ==
  {Skew, Latency, MaxTime, MaxSeq, MaxRestarts} \subseteq Nat

VARIABLES
  now,
  held,        \* the registry snapshots the operators hold
  registry,    \* the store the merchant's driver was constructed with
  session,     \* the wallet's channel clients, with what they signed
  retained,    \* the merchant's F5-m records and live channels
  tombstones,  \* ids accepted in an earlier life of the merchant
  decided,     \* the durable chopen: decisions
  billed,      \* auxiliary: how often each slice number of a channel was billed to the wallet
  restarts

vars == <<now, held, registry, session, retained, tombstones, decided, billed, restarts>>

None == [none |-> TRUE]
EncKey(owner) == <<"enc", owner>>

Init ==
  /\ now = 0
  /\ held = EmptyStore
  /\ registry = EmptyStore
  /\ session = [c \in Ids |-> None]
  /\ retained = [c \in Ids |-> None]
  /\ tombstones = {}
  /\ decided = {}
  /\ billed = [c \in Ids |-> [q \in 1 .. MaxSeq |-> 0]]
  /\ restarts = 0

Tick ==
  /\ now < MaxTime
  /\ now' = now + 1
  /\ UNCHANGED <<held, registry, session, retained, tombstones, decided, billed, restarts>>

(* An operator stores a snapshot it received. *)
LearnSnapshot(o) ==
  /\ ParseVerify(o)
  /\ held' = Insert(held, o)
  /\ UNCHANGED <<now, registry, session, retained, tombstones, decided, billed, restarts>>

-----------------------------------------------------------------------------
(* The wallet *)

(* Custody: the payer key of a merchant and its registrable domain. *)
PayerKey(merchant, host) == <<"wallet", merchant, host>>

WalletKeys == {PayerKey(m, Host) : m \in {Merchant, Other}}

(* Nobody else has one of the wallet's keys. *)
ASSUME PayerKeyAssumption == Other \notin WalletKeys

(* StaticPolicy::approve_channel *)
ApproveChannel(t) == t.denom \in DOMAIN Budget /\ t.limit <= Budget[t.denom]

(* Wallet::accept_origin and the AcceptedBinding it returns: the identity   *)
(* the connection is for and the key to seal to.  Any party may present any *)
(* artifact; a signed one cannot be altered. *)
Artifacts ==
  {Artifact(Merchant, Host, Cert, EncKey(Merchant), 0, 1),
   Artifact(Other, Host, Cert, EncKey(Other), 0, MaxTime),
   [Artifact(Merchant, Host, Cert, EncKey(Merchant), 0, 1) EXCEPT !.content.encKey = EncKey(Other)]}
Connections == {[host |-> Host, cert |-> c] : c \in {Cert, OtherCert}}

BoundKeys(m) ==
  {a.content.encKey : a \in {b \in Artifacts : \E conn \in Connections :
     ArtifactAccepted(b, m, conn, now, Skew)}}

(* open_inner: what the wallet checks before it signs. *)
WalletSigns(c, t) ==
  /\ ApproveChannel(t)
  /\ VectorGoverned(held, t)
  /\ PayerSide(OwnDest, t.vector)
  /\ PresenceOk(c, t)
  /\ GrammarOk(t, Assets, Pointers)

(* ChannelClient::open, with a fresh id and secret; the timestamp is the *)
(* interaction layer's. *)
WalletOpen(c, m, encKey, t, timestamp) ==
  LET secret == <<"s", c>>
      payer == PayerKey(m, Host)
      content == AuthContent(payer, c, m, t, HCommit(secret), timestamp)
  IN
  /\ session[c] = None
  /\ encKey \in BoundKeys(m)
  /\ WalletSigns(c, t)
  /\ session' = [session EXCEPT ![c] =
       [open |-> Open(Auth(payer, content), encKey, secret),
        key |-> KSession(secret, payer, m, c),
        minted |-> 0, funding |-> FALSE, closes |-> {}, acked |-> FALSE]]
  /\ UNCHANGED <<now, held, registry, retained, tombstones, decided, billed, restarts>>

(* next_slice; the bounds on what a wallet mints are in PayerStream. *)
Mint(c) ==
  /\ session[c] # None
  /\ session[c].minted < MaxSeq
  /\ session' = [session EXCEPT ![c].minted = @ + 1]
  /\ UNCHANGED <<now, held, registry, retained, tombstones, decided, billed, restarts>>

(* The holder of the payer key names a deposit of its own to the channel. *)
SignFunding(c) ==
  /\ session[c] # None
  /\ session' = [session EXCEPT ![c].funding = TRUE]
  /\ UNCHANGED <<now, held, registry, retained, tombstones, decided, billed, restarts>>

(* ChannelClient::close, called once *)
SignClose(c, intent) ==
  /\ session[c] # None
  /\ session[c].closes = {}
  /\ session' = [session EXCEPT ![c].closes = @ \cup {intent}]
  /\ UNCHANGED <<now, held, registry, retained, tombstones, decided, billed, restarts>>

-----------------------------------------------------------------------------
(* What can be presented to the merchant *)

Clients == {session[c] : c \in {d \in Ids : session[d] # None}}

(* The session secrets Other has: its own and those sealed to it. *)
OwnSecret == <<"s", 0>>
OtherSecrets == {OwnSecret} \cup {s.open.seal.secret : s \in {u \in Clients : u.open.seal.for = EncKey(Other)}}

(* The wallet's opens; one sealed again around a secret of Other's; one with *)
(* other terms under the same signature; and Other's own, on any id. *)
Opens ==
  {s.open : s \in Clients}
    \cup {[s.open EXCEPT !.seal = Seal(EncKey(Merchant), s.open.auth.content, x)] :
            s \in Clients, x \in OtherSecrets}
    \cup {[s.open EXCEPT !.auth.content.terms = t] : s \in Clients, t \in Params}
    \cup {Open(Auth(Other, AuthContent(Other, c, Merchant, t, HCommit(OwnSecret), now)), EncKey(Merchant), OwnSecret) :
            c \in Ids, t \in Params}

AckRequests ==
  {AckRequest(k, c, ts) : k \in {Other, PayerKey(Merchant, Host)}, c \in Ids, ts \in 0 .. now}

Closes(c) ==
  {Close(Other, c, i) : i \in BOOLEAN}
    \cup (IF session[c] = None THEN {}
          ELSE {Close(session[c].open.auth.content.payer, c, i) : i \in session[c].closes})

FundingProofs(c) ==
  {FundingProof(Other, c, retained[c].open.auth.content, "tx")}
    \cup (IF session[c] = None \/ ~ session[c].funding THEN {}
          ELSE LET a == session[c].open.auth.content IN {FundingProof(a.payer, c, a, "tx")})

Slices(c) ==
  {Slice(KSession(x, retained[c].open.auth.content.payer, Merchant, c), q) :
     x \in OtherSecrets, q \in 1 .. MaxSeq}
    \cup (IF session[c] = None THEN {} ELSE {Slice(session[c].key, q) : q \in 1 .. session[c].minted})

-----------------------------------------------------------------------------
(* The merchant *)

InWindow(timestamp) == now <= timestamp + Skew + Latency /\ timestamp <= now + Skew + Latency

(* finality_is_irreversible, of on_open *)
FinalityIrreversible(t) == t.finMeed = Strongest /\ t.finDenom = Strongest

(* ChannelOpen::parse and steps 1 to 2 of open_channel. *)
OpenVerified(o) ==
  LET a == o.auth.content IN
  /\ AuthParses(a, Assets, Pointers)
  /\ FinalityIrreversible(a.terms)
  /\ a.merchant = Merchant
  /\ AuthVerifies(o.auth)
  /\ VectorGoverned(registry, a.terms)
  /\ a.terms.denom = a.terms.baseline
  /\ InWindow(a.timestamp)

(* The unsealed secret is not compared with the commitment. *)
BugNoCommitment(o) == Unseal(EncKey(Merchant), o.auth.content, o.seal)

(* unseal and the H(s) check: the secrets a channel may be opened with. *)
OpenSecrets(o) ==
  {s \in Unseal(EncKey(Merchant), o.auth.content, o.seal) : HCommit(s) = o.auth.content.hs}

(* An acknowledgment reaches the wallet that signed the open, or is lost. *)
Acknowledge(c, o) ==
  \/ session' = session
  \/ /\ session[c] # None
     /\ AckVerifies(session[c].open.auth.content.merchant, Ack(Merchant, o.auth.content))
     /\ o.auth.content = session[c].open.auth.content
     /\ session' = [session EXCEPT ![c].acked = TRUE]

Retain(o, s) ==
  LET a == o.auth.content IN
  [open |-> o, key |-> KSession(s, a.payer, a.merchant, a.id), seq |-> 0,
   terminated |-> FALSE, disposition |-> "none", funding |-> {}]

(* The channel is retained and nothing durable says so. *)
BugOpenUndecided(o) ==
  LET c == o.auth.content.id IN
  /\ OpenVerified(o)
  /\ c \notin tombstones
  /\ retained[c] = None
  /\ c \notin decided
  /\ \E s \in OpenSecrets(o) : retained' = [retained EXCEPT ![c] = Retain(o, s)]
  /\ Acknowledge(c, o)
  /\ UNCHANGED <<now, held, registry, tombstones, decided, billed, restarts>>

(* A fresh channel: the decision is durable before the channel is retained. *)
OpenChannel(o) ==
  LET c == o.auth.content.id IN
  /\ OpenVerified(o)
  /\ c \notin tombstones
  /\ retained[c] = None
  /\ c \notin decided
  /\ \E s \in OpenSecrets(o) : retained' = [retained EXCEPT ![c] = Retain(o, s)]
  /\ decided' = decided \cup {c}
  /\ Acknowledge(c, o)
  /\ UNCHANGED <<now, held, registry, tombstones, billed, restarts>>

(* OpenOutcome::Retransmit *)
Retransmit(o) ==
  LET c == o.auth.content.id IN
  /\ OpenVerified(o)
  /\ c \notin tombstones
  /\ retained[c] # None
  /\ ~ retained[c].terminated
  /\ retained[c].open = o
  /\ Acknowledge(c, o)
  /\ UNCHANGED <<now, held, registry, retained, tombstones, decided, billed, restarts>>

(* The request must be as recent as the open it asks about. *)
BugStaleRequests(c, r) ==
  /\ retained[c] # None /\ r.id = c
  /\ InWindow(retained[c].open.auth.content.timestamp)
  /\ AckRequestVerifies(retained[c].open.auth.content.payer, r)

(* serve_ack_request *)
Serves(c, r) ==
  /\ retained[c] # None /\ r.id = c
  /\ InWindow(r.timestamp)
  /\ AckRequestVerifies(retained[c].open.auth.content.payer, r)

OnAckRequest(c, r) ==
  /\ Serves(c, r)
  /\ Acknowledge(c, retained[c].open)
  /\ UNCHANGED <<now, held, registry, retained, tombstones, decided, billed, restarts>>

(* Carriage::batch, one slice: authenticated and beyond the last one. *)
OnSlice(c, slice) ==
  /\ retained[c] # None
  /\ ~ retained[c].terminated
  /\ SliceVerifies(retained[c].key, slice)
  /\ slice.seq > retained[c].seq
  /\ retained' = [retained EXCEPT ![c].seq = slice.seq]
  /\ billed' = IF retained[c].open.auth.content.payer \in WalletKeys
                 THEN [billed EXCEPT ![c][slice.seq] = @ + 1] ELSE billed
  /\ UNCHANGED <<now, held, registry, session, tombstones, decided, restarts>>

(* on_funding, for a deposit the rail shows; crediting is in PrepayChain. *)
OnFunding(c, f) ==
  /\ retained[c] # None /\ f.id = c
  /\ FundingVerifies(retained[c].open.auth.content.payer, f)
  /\ f.auth = retained[c].open.auth.content
  /\ retained' = [retained EXCEPT ![c].funding = @ \cup {f.tx}]
  /\ UNCHANGED <<now, held, registry, session, tombstones, decided, billed, restarts>>

(* on_close: the disposition decided and the channel terminated.  Nothing is *)
(* checkpointed here, so a chain intent needs a channel that metered nothing. *)
OnClose(c, m) ==
  LET payer == retained[c].open.auth.content.payer
      intent == ChainIntent(m, payer)
  IN
  /\ retained[c] # None
  /\ CloseAccepted(m, c, payer, Merchant)
  /\ intent => retained[c].seq = 0
  /\ retained' = [retained EXCEPT ![c].terminated = TRUE,
                    ![c].disposition = IF ~ intent THEN "reconciled"
                                       ELSE IF @ = "none" THEN "pending" ELSE @]
  /\ UNCHANGED <<now, held, registry, session, tombstones, decided, billed, restarts>>

(* attach_decisions reads every durable acceptance back as a tombstone.  The *)
(* process stops, possibly after an open's decision became durable and before *)
(* it was retained, and starts again with the snapshots held now. *)
Restart ==
  /\ restarts < MaxRestarts
  /\ restarts' = restarts + 1
  /\ decided' \in {decided} \cup {decided \cup {o.auth.content.id} :
       o \in {p \in Opens : OpenVerified(p) /\ OpenSecrets(p) # {} /\ retained[p.auth.content.id] = None}}
  /\ retained' = [c \in Ids |-> None]
  /\ tombstones' = decided'
  /\ registry' = held
  /\ UNCHANGED <<now, held, session, billed>>

-----------------------------------------------------------------------------
Next ==
  \/ Tick
  \/ \E o \in Snapshots : LearnSnapshot(o)
  \/ \E c \in Ids, m \in {Merchant, Other}, t \in Params, timestamp \in Stamps :
       \E encKey \in BoundKeys(m) : WalletOpen(c, m, encKey, t, timestamp)
  \/ \E c \in Ids : Mint(c) \/ SignFunding(c) \/ (\E i \in BOOLEAN : SignClose(c, i))
  \/ \E o \in Opens : OpenChannel(o) \/ Retransmit(o)
  \/ \E c \in Ids : \E r \in AckRequests : OnAckRequest(c, r)
  \/ \E c \in {d \in Ids : retained[d] # None} :
       \/ \E slice \in Slices(c) : OnSlice(c, slice)
       \/ \E f \in FundingProofs(c) : OnFunding(c, f)
       \/ \E m \in Closes(c) : OnClose(c, m)
  \/ Restart

Spec == Init /\ [][Next]_vars

(* A wallet that has no acknowledgment keeps asking, and an answer does not get *)
(* lost for ever. *)
Answered(c) ==
  /\ session[c] # None /\ ~ session[c].acked
  /\ OnAckRequest(c, AckRequest(session[c].open.auth.content.payer, c, now))
  /\ session'[c].acked

FairSpec == Spec /\ \A c \in Ids : WF_vars(Answered(c))

-----------------------------------------------------------------------------
(* Properties *)

Retained == {c \in Ids : retained[c] # None}
PaidByWallet == {c \in Retained : retained[c].open.auth.content.payer \in WalletKeys}

\* A channel the merchant holds against one of the wallet's keys is the channel that
\* wallet opened: the same signed terms, the same session key, its own share routed to
\* it, and neither a funding nor a chain intent the wallet did not sign -- whatever the
\* carrier re-sealed, altered, replayed or presented on the same id (open_channel).
SessionAgreement ==
  \A c \in PaidByWallet :
    LET r == retained[c] IN
    /\ session[c] # None
    /\ r.open.auth = session[c].open.auth
    /\ r.key = session[c].key
    /\ PayerSide(OwnDest, r.open.auth.content.terms.vector)
    /\ r.funding # {} => session[c].funding
    /\ r.disposition = "pending" => TRUE \in session[c].closes

\* Over all lives of the merchant, a slice number of a wallet's channel is billed at
\* most once, and only when the wallet minted that slice: neither a replayed open after
\* a restart nor somebody else's session secret bills it (open_channel steps 2b to 4).
BilledOnce ==
  \A c \in Ids, q \in 1 .. MaxSeq :
    billed[c][q] > 0 => billed[c][q] = 1 /\ session[c] # None /\ q <= session[c].minted

\* What a vector's builder resolves from a store its validator accepts, and the
\* governed shares of every channel held reach the funds or a recipient the
\* Foundation listed, never under a registry version the merchant's store knows to be
\* revoked, in whatever order the snapshots arrived (version_accepted).
MeedGoverned ==
  /\ \A o \in Snapshots : \A i \in DOMAIN o.os : \A dest \in ResolveOs(held, o.version, i) :
       OsDestinationAccepted(held, o.version, dest)
  /\ \A c \in Retained :
       LET t == retained[c].open.auth.content.terms
           os == t.vector[RoleOS].dest
       IN
       /\ t.vector[RoleDevFund].dest = DevFund
       /\ t.registry \notin RevokedIn(registry)
       /\ os = OsFund \/ \E o \in Snapshots : ParseVerify(o) /\ \E i \in DOMAIN o.os : o.os[i] = os

\* A wallet whose open the merchant holds learns of it however late it asks, unless the
\* merchant restarts first (serve_ack_request has no deadline of its own).
LostAckRecovered ==
  \A c \in Ids :
    c \in PaidByWallet ~> (c \notin PaidByWallet \/ session[c].acked)
=============================================================================
