---------------------------- MODULE HostInstance ----------------------------
(***************************************************************************)
(* MeedInstance of crates/paytp-rail/src/instance.rs, the host's mirror of *)
(* the contract behind VirtualRail: purchase entries, claim-records and    *)
(* per-channel watermarks.  Unlike the contract it pays in the transition  *)
(* itself, and it divides the purchases and the claim-records as one pool, *)
(* over the running total received.  Around it, virtual_rail.rs: the       *)
(* deployment of the instance, outages, and the merchant's float, which    *)
(* prepay draws come from and refunds are released from by key.            *)
(***************************************************************************)
EXTENDS EntryWindows

CONSTANTS
  Claims,     \* the keys of the claim-records
  ClaimP,     \* the amount each of them funds
  Channels,   \* the channels that advance a watermark
  MaxP,       \* bound on the watermarks
  Release,    \* the amount of each keyed release
  MaxFloat    \* bound on the float

ASSUME ClaimAssumption == ClaimP \in [Claims -> Nat] /\ MaxP \in Nat
ASSUME FloatAssumption == (\A k \in DOMAIN Release : Release[k] \in Nat) /\ MaxFloat \in Nat
ASSUME FiniteAssumption == IsFiniteSet(Ids) /\ IsFiniteSet(Channels) /\ IsFiniteSet(DOMAIN Release)

VARIABLES
  claims,     \* the claim-records funded so far
  received,   \* v_received: what the pool has distributed over
  paid,       \* what the pool has paid each destination
  funded,     \* funded_p of each channel
  chanPaid,   \* what each channel's watermark has paid each destination
  residue,    \* the dust each watermark carries
  ledger,     \* the rail's account of each destination
  refunds,    \* what the refund account of each entry has received
  outage,     \* whether the rail is down
  deployed,   \* whether the instance exists
  float,      \* the balance of the merchant's settlement pointer
  keys,       \* release_keys: the releases made
  fresh,      \* auxiliary: all that was brought to the rail other than into entries
  retry       \* auxiliary: the answer to the last repetition of a draw or release

pool == <<claims, received, paid>>
marks == <<funded, chanPaid, residue>>
account == <<float, keys, fresh>>
link == <<outage, deployed, retry>>
vars == <<now, entry, pool, marks, ledger, refunds, account, link>>

Init ==
  /\ outage = FALSE /\ deployed = FALSE /\ retry = "none"
  /\ float = 0 /\ keys = {} /\ fresh = 0
  /\ now = 0 /\ entry = <<>>
  /\ claims = {} /\ received = 0 /\ paid = [d \in Dests |-> 0]
  /\ funded = [c \in Channels |-> 0]
  /\ chanPaid = [c \in Channels |-> [d \in Dests |-> 0]]
  /\ residue = [c \in Channels |-> 0]
  /\ ledger = [d \in Dests |-> 0]
  /\ refunds = [i \in Ids |-> 0]

Tick ==
  /\ now < MaxTime
  /\ now' = now + 1
  /\ UNCHANGED <<entry, pool, marks, ledger, refunds, account, link>>

SetOutage ==
  /\ outage' = ~outage
  /\ UNCHANGED <<now, entry, pool, marks, ledger, refunds, account, deployed, retry>>

\* A repeated deployment leaves the instance as it is.
DeployInstance ==
  /\ ~deployed
  /\ deployed' = TRUE
  /\ UNCHANGED <<now, entry, pool, marks, ledger, refunds, account, outage, retry>>

BugDistributeEach(amount) ==
  LET due == [d \in Dests |-> Entitlement(d, amount)]
  IN  /\ received' = received + amount
      /\ paid' = [d \in Dests |-> paid[d] + due[d]]
      /\ ledger' = [d \in Dests |-> ledger[d] + due[d]]

\* Each destination is brought up to its entitlement over all that was received.
Distribute(amount) ==
  LET due == [d \in Dests |-> Entitlement(d, received + amount)]
  IN  /\ received' = received + amount
      /\ paid' = due
      /\ ledger' = [d \in Dests |-> ledger[d] + due[d] - paid[d]]

FundEntry(i) ==
  /\ ~outage /\ deployed
  /\ Fundable(i)
  /\ entry' = [k \in Funded \cup {i} |->
                 IF k = i THEN [state |-> "funded", openedAt |-> 0] ELSE entry[k]]
  /\ UNCHANGED <<now, pool, marks, ledger, refunds, account, link>>

Deliver(i, state) ==
  /\ entry' = [entry EXCEPT ![i].state = state]
  /\ Distribute(Amount[i])
  /\ UNCHANGED <<now, claims, marks, refunds, account, link>>

GiveBack(i, state) ==
  /\ entry' = [entry EXCEPT ![i].state = state]
  /\ refunds' = [refunds EXCEPT ![i] = @ + Amount[i]]
  /\ UNCHANGED <<now, pool, marks, ledger, account, link>>

\* attest and cancel look at the state alone.
Active(i) == In(i, {"funded", "reclaimOpen"})

Attest(i) == Active(i) /\ Deliver(i, "attested")
Cancel(i) == Active(i) /\ GiveBack(i, "cancelled")
ExecuteReclaim(i) == Executable(i) /\ GiveBack(i, "reclaimed")
ClaimLapsed(i) == Lapsable(i) /\ Deliver(i, "lapsed")

OpenReclaim(i) ==
  /\ InReclaimWindow(i)
  /\ entry' = [entry EXCEPT ![i].state = "reclaimOpen", ![i].openedAt = now]
  /\ UNCHANGED <<now, pool, marks, ledger, refunds, account, link>>

-----------------------------------------------------------------------------
(* The float, and what is drawn on it.  A call moves all of its value or is *)
(* refused and moves none.                                                  *)

\* submit, to the merchant's settlement pointer.
Deposit ==
  /\ ~outage
  /\ float < MaxFloat
  /\ float' = float + 1 /\ fresh' = fresh + 1
  /\ UNCHANGED <<now, entry, pool, marks, ledger, refunds, keys, link>>

BugCoverFirst(k, drawn) ==
  IF outage THEN "outage"
  ELSE IF drawn /\ ClaimP[k] \notin 1..float THEN "rejected"
  ELSE IF k \in claims THEN "alreadyFunded"
  ELSE IF ~deployed THEN "noSuchAccount"
  ELSE IF ClaimP[k] = 0 THEN "rejected" ELSE "ok"

\* The record is looked up before the float: a draw that was made has used it.
ClaimOutcome(k, drawn) ==
  IF outage THEN "outage"
  ELSE IF k \in claims THEN "alreadyFunded"
  ELSE IF drawn /\ ClaimP[k] \notin 1..float THEN "rejected"
  ELSE IF ~deployed THEN "noSuchAccount"
  ELSE IF ClaimP[k] = 0 THEN "rejected" ELSE "ok"

\* The source is debited at the point of no return; without one the value is new.
Pay(amount, drawn) ==
  IF drawn THEN float' = float - amount /\ UNCHANGED fresh
  ELSE fresh' = fresh + amount /\ UNCHANGED float

\* fund_claim_record, and draw_claim_record when `drawn`.
FundClaimRecord(k, drawn) ==
  /\ ClaimOutcome(k, drawn) = "ok"
  /\ claims' = claims \cup {k}
  /\ Distribute(ClaimP[k])
  /\ Pay(ClaimP[k], drawn)
  /\ UNCHANGED <<now, entry, marks, refunds, keys, link>>

\* The draw of a record that exists is submitted again.
RetryDraw(k) ==
  /\ k \in claims
  /\ retry' = ClaimOutcome(k, TRUE)
  /\ UNCHANGED <<now, entry, pool, marks, ledger, refunds, account, outage, deployed>>

ReleaseOutcome(k) ==
  IF k \in keys THEN "same"
  ELSE IF outage THEN "outage"
  ELSE IF Release[k] \notin 1..float THEN "rejected" ELSE "ok"

\* release_keyed, with its check and its insertion under one lock
ReleaseKeyed(k) ==
  /\ ReleaseOutcome(k) = "ok"
  /\ float' = float - Release[k]
  /\ keys' = keys \cup {k}
  /\ UNCHANGED <<now, entry, pool, marks, ledger, refunds, fresh, link>>

RetryRelease(k) ==
  /\ k \in keys
  /\ retry' = ReleaseOutcome(k)
  /\ UNCHANGED <<now, entry, pool, marks, ledger, refunds, account, outage, deployed>>

\* A stale or repeated target is a no-op.
Advances(c, target) == target > funded[c]

AdvanceChannelMeed(c, target, drawn) ==
  LET due == [d \in Dests |-> IF Entitlement(d, target) > chanPaid[c][d]
                             THEN Entitlement(d, target) ELSE chanPaid[c][d]]
      delta == target - funded[c]
  IN  /\ ~outage /\ deployed
      /\ Advances(c, target)
      /\ drawn => delta <= float
      /\ funded' = [funded EXCEPT ![c] = target]
      /\ chanPaid' = [chanPaid EXCEPT ![c] = due]
      /\ residue' = [residue EXCEPT ![c] = target - SumOver(due, Dests)]
      /\ ledger' = [d \in Dests |-> ledger[d] + due[d] - chanPaid[c][d]]
      /\ Pay(delta, drawn)
      /\ UNCHANGED <<now, entry, pool, refunds, keys, link>>

Next ==
  \/ Tick
  \/ \E i \in Ids :
       \/ FundEntry(i) \/ Attest(i) \/ Cancel(i)
       \/ OpenReclaim(i) \/ ExecuteReclaim(i) \/ ClaimLapsed(i)
  \/ SetOutage \/ DeployInstance \/ Deposit
  \/ \E k \in Claims : RetryDraw(k) \/ \E drawn \in BOOLEAN : FundClaimRecord(k, drawn)
  \/ \E k \in DOMAIN Release : ReleaseKeyed(k) \/ RetryRelease(k)
  \/ \E c \in Channels, target \in 1..MaxP, drawn \in BOOLEAN :
       AdvanceChannelMeed(c, target, drawn)

Spec == Init /\ [][Next]_vars

-----------------------------------------------------------------------------
(* Properties.                                                             *)

Fate(i) ==
  IF i \notin Funded THEN "none"
  ELSE IF refunds[i] > 0 THEN "payer"
  ELSE IF entry[i].state \in {"attested", "lapsed"} THEN "recipients"
  ELSE "held"

Held == SumOver(Amount, {i \in Ids : Fate(i) = "held"})

\* distribute, advance_channel_meed, draw_claim_record, release_keyed: whatever order
\* purchases, claim-records, watermarks and refunds are paid in, new or out of the
\* float, all value is in one place, and what no destination has been paid is less
\* than a unit per destination, once for the pool and once for each channel.
ValueConserved ==
  LET dust == received - SumOver(paid, Dests)
  IN  /\ SumOver(Amount, Funded) + fresh
           = Held + SumOver(refunds, Ids) + SumOver(ledger, Dests)
             + dust + SumOver(residue, Channels) + float + SumOver(Release, keys)
      /\ 0 <= dust /\ dust < Cardinality(Dests)
      /\ \A c \in Channels : residue[c] \in 0..(Cardinality(Dests) - 1)

\* fund_claim_record_impl ("duplicate-claim check before the escrow-balance check") and
\* release_keyed: a draw or a refund that was made and whose answer was lost is never
\* refused when it is repeated, though it used up the float it would be drawn from.
RetryIsAnswered == retry \in {"none", "outage", "alreadyFunded", "same"}
=============================================================================
