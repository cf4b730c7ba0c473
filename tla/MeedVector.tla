----------------------------- MODULE MeedVector -----------------------------
(***************************************************************************)
(* The meed vector of a quote or of a channel, and the role registry it is *)
(* validated against: crates/paytp-core/src/registry.rs, the vector checks *)
(* of tier0/quote.rs and the governance constants of consts.rs.            *)
(*                                                                         *)
(* A destination is a value, a CAIP pointer when it is in Caip.  A vector  *)
(* is a function from role ids: its canonical form lists them ascending,   *)
(* each once.  A snapshot's rate sources are left out: nothing reads them. *)
(*                                                                         *)
(* A definition named Bug... is a mistake one could make in the definition *)
(* after it; no specification uses it.                                     *)
(***************************************************************************)
EXTENDS Naturals, FiniteSets, FiniteSetsExt

CONSTANTS
  Caip,             \* the destinations that are CAIP pointers
  DevFund, OsFund,  \* the pinned Development Fund and independent OS fund
  Foundation,       \* the key that signs snapshots
  GovernanceReady   \* whether this build may act on the pinned destinations

ASSUME PinnedAssumption == {DevFund, OsFund} \subseteq Caip /\ DevFund # OsFund
ASSUME GovernanceAssumption == GovernanceReady \in BOOLEAN

-----------------------------------------------------------------------------
(* Snapshots.  A snapshot as it travels is a record of its body and signer. *)

Kinds == {"rotation", "revocation"}

(* Snapshot::parse_verify: recipients the baseline rail can pay, a REVOKED *)
(* list exactly on a revocation, and the Foundation's signature. *)
ParseVerify(o) ==
  /\ o.kind \in Kinds
  /\ \A id \in DOMAIN o.os : o.os[id] \in Caip
  /\ o.kind = "rotation" => o.revoked = {}
  /\ o.signer = Foundation

(* SnapshotStore: the snapshots held, by version. *)
EmptyStore == [v \in {} |-> {}]

Insert(snapshots, o) ==
  [v \in DOMAIN snapshots \cup {o.version} |-> IF v = o.version THEN o ELSE snapshots[v]]

Tip(snapshots) == snapshots[Max(DOMAIN snapshots)]

RevokedIn(snapshots) == UNION {snapshots[v].revoked : v \in DOMAIN snapshots}

(* Only the newest snapshot's list of revoked versions is consulted. *)
BugTipRevokesOnly(snapshots, version) ==
  /\ DOMAIN snapshots # {}
  /\ version \in Tip(snapshots).floor .. Tip(snapshots).version
  /\ version \notin Tip(snapshots).revoked

VersionAccepted(snapshots, version) ==
  /\ DOMAIN snapshots # {}
  /\ version \in Tip(snapshots).floor .. Tip(snapshots).version
  /\ version \notin RevokedIn(snapshots)

(* resolve_os_destination, for a vector's builder: the recipient listed at  *)
(* the version named, or the independent fund.  {} is a refusal.            *)
ResolveOs(snapshots, version, id) ==
  IF ~ GovernanceReady \/ ~ VersionAccepted(snapshots, version) \/ version \notin DOMAIN snapshots
    THEN {}
    ELSE {IF id \in DOMAIN snapshots[version].os THEN snapshots[version].os[id] ELSE OsFund}

(* os_destination_accepted, for a validator, which knows no identifier. *)
OsDestinationAccepted(snapshots, version, dest) ==
  /\ GovernanceReady
  /\ DOMAIN snapshots # {} => VersionAccepted(snapshots, version)
  /\ \/ dest = OsFund
     \/ /\ version \in DOMAIN snapshots
        /\ \E id \in DOMAIN snapshots[version].os : snapshots[version].os[id] = dest

-----------------------------------------------------------------------------
(* Vectors of schema 0x01 *)

RoleIL == 16
RoleOS == 17
RoleWallet == 18
RoleDevFund == 19

Schema01 ==
  [r \in {RoleIL, RoleOS, RoleWallet, RoleDevFund} |->
     CASE r = RoleIL -> 50 [] r = RoleOS -> 10 [] r = RoleWallet -> 30 [] r = RoleDevFund -> 10]

(* validate_shape_schema_01; that the shares add up to 100 bp follows. *)
ShapeSchema01(schema, vector) ==
  /\ schema = 1
  /\ DOMAIN vector = DOMAIN Schema01
  /\ \A r \in DOMAIN vector : vector[r].bp = Schema01[r] /\ vector[r].dest \in Caip

(* validate_governed_destinations: the OS share and the Development Fund's. *)
GovernedDestinations(snapshots, version, vector) ==
  /\ GovernanceReady
  /\ RoleOS \in DOMAIN vector => OsDestinationAccepted(snapshots, version, vector[RoleOS].dest)
  /\ RoleDevFund \in DOMAIN vector => vector[RoleDevFund].dest = DevFund

(* validate_vector_governed, of a quote and of a CHANNEL_AUTH. *)
VectorGoverned(snapshots, t) ==
  /\ ShapeSchema01(t.schema, t.vector)
  /\ GovernedDestinations(snapshots, t.registry, t.vector)

(* ExpectedDest::check for a wallet that asserted the destinations in own, *)
(* or, when own is empty, none: its share then goes to the Development Fund. *)
ExpectedDest(own, dest) == dest \in (IF own = {} THEN {DevFund} ELSE own)

(* validate_payer_side_destinations as the wallet calls it: its own share, *)
(* present and where it expects it; the interaction layer's is unchecked. *)
PayerSide(own, vector) ==
  RoleWallet \in DOMAIN vector /\ ExpectedDest(own, vector[RoleWallet].dest)
=============================================================================
