---------------------------- MODULE EntryWindows ----------------------------
(***************************************************************************)
(* The purchase entry of F4.3: its states, its windows on the rail's clock *)
(* and what both of its implementations share, the contract (module        *)
(* KitEntry) and the host's mirror of it (module HostInstance).            *)
(*                                                                         *)
(* An entry_id is a hash of the entry's parameters, so an id stands for    *)
(* one amount and one set of windows.  The clock is unsigned and MaxTime   *)
(* is its last value, u64::MAX in the code.                                *)
(*                                                                         *)
(* A definition named Bug... is a mistake one could make in the definition *)
(* after it; no specification uses it.                                     *)
(***************************************************************************)
EXTENDS Sums

CONSTANTS
  Ids,        \* the entry_ids
  Amount,     \* of each entry: its amount,
  TOpen,      \*   the start of its reclaim window,
  TLapse,     \*   the end of it,
  Contest,    \*   and the delay between opening a reclaim and executing it
  MaxTime,    \* the last value of the clock
  Roles,      \* the meed roles
  Weight,     \* basis points of each role
  DestOf      \* the destination each role is paid at

ASSUME EntryAssumption ==
  /\ Amount \in [Ids -> Nat] /\ TOpen \in [Ids -> Nat]
  /\ TLapse \in [Ids -> Nat] /\ Contest \in [Ids -> Nat]
  /\ MaxTime \in Nat
ASSUME MeedAssumption ==
  /\ IsFiniteSet(Roles) /\ Weight \in [Roles -> Nat]
  /\ \E r \in Roles : Weight[r] > 0

VARIABLES
  now,        \* the rail's clock
  entry       \* the entries funded so far, by id

States == {"funded", "attested", "cancelled", "reclaimOpen", "reclaimed", "lapsed"}
Terminal == {"attested", "cancelled", "reclaimed", "lapsed"}
Funded == DOMAIN entry
In(i, states) == i \in Funded /\ entry[i].state \in states

BugDuplicateFunded(i) == Amount[i] > 0 /\ TOpen[i] <= TLapse[i] /\ TLapse[i] >= now

Fundable(i) ==
  /\ i \notin Funded
  /\ Amount[i] > 0
  /\ TOpen[i] <= TLapse[i]
  /\ TLapse[i] >= now

InReclaimWindow(i) == In(i, {"funded"}) /\ TOpen[i] <= now /\ now <= TLapse[i]

BugTExecWraps(i) == (entry[i].openedAt + Contest[i]) % (MaxTime + 1)

\* The saturating T_exec: a reclaim is executable strictly after it.
TExec(i) ==
  IF entry[i].openedAt + Contest[i] > MaxTime THEN MaxTime
  ELSE entry[i].openedAt + Contest[i]

Executable(i) == In(i, {"reclaimOpen"}) /\ now > TExec(i)
Lapsable(i) == In(i, {"funded"}) /\ now > TLapse[i]

-----------------------------------------------------------------------------
(* The division of a cumulative amount among the destinations.             *)

Dests == {DestOf[r] : r \in Roles}
BpTotal == SumOver(Weight, Roles)
BpOf(d) == SumOver(Weight, {r \in Roles : DestOf[r] = d})

BugEntitlementPerRole(d, total) ==
  MapThenSumSet(LAMBDA r : (total * Weight[r]) \div BpTotal, {r \in Roles : DestOf[r] = d})

\* Roles that share a destination floor once, on their combined weight.
Entitlement(d, total) == (total * BpOf(d)) \div BpTotal

-----------------------------------------------------------------------------
(* Properties both implementations are held to.                            *)

\* execute_reclaim: without the merchant's word no refund comes before a full
\* contest period after the reclaim window opened.
RefundNeedsNotice ==
  \A i \in Funded : entry[i].state = "reclaimed" => now > TOpen[i] + Contest[i]
=============================================================================
