-------------------------------- MODULE Wire --------------------------------
(***************************************************************************)
(* The signed and sealed objects of channel establishment, as              *)
(* crates/paytp-core/src/channel/establish.rs builds and checks them over  *)
(* crypto.rs, envelope.rs and slice.rs.                                    *)
(*                                                                         *)
(* Cryptography is symbolic.  A hash is the value hashed, so an object     *)
(* stands for its own hash; a signature records its key, its domain label  *)
(* and what it covers; a sealed box records the key it is for, the         *)
(* associated data and the secret.  The encodings are canonical and        *)
(* self-delimiting, so an object is its field values.                      *)
(***************************************************************************)
EXTENDS Naturals

(* ed25519_sign over covered(label, content). *)
Sign(key, label, content) == [key |-> key, label |-> label, over |-> content]

(* ed25519_verify_strict. *)
Verifies(key, label, content, sig) == sig = Sign(key, label, content)

(* seal_session_secret, with the canonical CHANNEL_AUTH as associated data. *)
Seal(encKey, aad, s) == [for |-> encKey, aad |-> aad, secret |-> s]

(* open_session_secret: the secrets a recipient obtains, at most one. *)
Unseal(encKey, aad, box) == {x \in {box.secret} : box.for = encKey /\ box.aad = aad}

(* h_commit *)
HCommit(s) == <<"hs", s>>

(* k_session, salted with bind_salt. *)
KSession(s, payer, merchant, cid) == <<"k", s, payer, merchant, cid>>

(* Slice::seal and Slice::verify: the tag is under a subkey of the session *)
(* key and the sequence number. *)
Slice(kSession, seq) == [seq |-> seq, tag |-> <<kSession, seq>>]
SliceVerifies(kSession, slice) == slice.tag = <<kSession, slice.seq>>

-----------------------------------------------------------------------------
(* The binding artifact *)

Artifact(signer, host, cert, encKey, notBefore, notAfter) ==
  LET content == [host |-> host, cert |-> cert, encKey |-> encKey,
                  notBefore |-> notBefore, notAfter |-> notAfter]
  IN  [content |-> content, sig |-> Sign(signer, "artifact", content)]

(* BindingArtifact::accept on a connection to host conn.host whose verified *)
(* certificate is conn.cert. *)
ArtifactAccepted(a, merchantKey, conn, now, skew) ==
  /\ Verifies(merchantKey, "artifact", a.content, a.sig)
  /\ now + skew >= a.content.notBefore
  /\ now <= a.content.notAfter + skew
  /\ a.content.cert = conn.cert
  /\ a.content.host = conn.host

-----------------------------------------------------------------------------
(* CHANNEL_AUTH.  Its terms are a record of what the interaction layer      *)
(* assembles: mode, refund, rate, denom, baseline, schema, vector, registry *)
(* and the finality levels; refund and rate are sets of at most one value.  *)

(* check_presence, on building and on parsing. *)
PresenceOk(cid, t) ==
  /\ cid # 0
  /\ t.mode \in {"prepay", "postpay"}
  /\ (t.mode = "prepay") <=> (t.refund # {})
  /\ (t.denom # t.baseline) <=> (t.rate # {})

(* validate_grammar: asset ids and pointers well formed, and the baseline *)
(* asset not of the adapter form. *)
GrammarOk(t, assets, pointers) ==
  /\ t.denom \in assets /\ t.baseline \in assets
  /\ t.refund \subseteq pointers

(* ChannelAuth::parse: an object that decodes was checked as when it was built. *)
AuthParses(a, assets, pointers) == PresenceOk(a.id, a.terms) /\ GrammarOk(a.terms, assets, pointers)

AuthContent(payer, cid, merchant, t, hs, timestamp) ==
  [payer |-> payer, id |-> cid, merchant |-> merchant, terms |-> t, hs |-> hs, timestamp |-> timestamp]

Auth(signer, content) == [content |-> content, sig |-> Sign(signer, "chan-auth", content)]

AuthVerifies(a) == Verifies(a.content.payer, "chan-auth", a.content, a.sig)

(* CHANNEL_OPEN: the authorization and the sealed secret. *)
Open(auth, encKey, s) == [auth |-> auth, seal |-> Seal(encKey, auth.content, s)]

(* CHANNEL_ACK, by which the channel exists. *)
Ack(merchantKey, content) == [auth |-> content, sig |-> Sign(merchantKey, "chan-ack", content)]
AckVerifies(merchantKey, k) == Verifies(merchantKey, "chan-ack", k.auth, k.sig)

(* ACK_REQUEST *)
AckRequest(signer, cid, timestamp) ==
  [id |-> cid, timestamp |-> timestamp, sig |-> Sign(signer, "ack-req", <<cid, timestamp>>)]
AckRequestVerifies(payer, r) == Verifies(payer, "ack-req", <<r.id, r.timestamp>>, r.sig)

(* FUNDING_PROOF: a deposit named to the channel AUTH_HASH identifies. *)
FundingProof(signer, cid, authHash, tx) ==
  [id |-> cid, auth |-> authHash, tx |-> tx, sig |-> Sign(signer, "funding", <<cid, authHash, tx>>)]
FundingVerifies(payer, f) == Verifies(payer, "funding", <<f.id, f.auth, f.tx>>, f.sig)

(* CLOSE *)
CloseContent(cid, intent) == [id |-> cid, intent |-> intent]
Close(signer, cid, intent) ==
  [content |-> CloseContent(cid, intent), sig |-> Sign(signer, "close", CloseContent(cid, intent))]
CloseVerifies(key, c) == Verifies(key, "close", c.content, c.sig)

(* Close::accept: who may have signed, and whose chain intent counts. *)
CloseAccepted(c, cid, payer, merchant) ==
  /\ c.content.id = cid
  /\ CloseVerifies(payer, c) \/ CloseVerifies(merchant, c)
ChainIntent(c, payer) == CloseVerifies(payer, c) /\ c.content.intent
=============================================================================
