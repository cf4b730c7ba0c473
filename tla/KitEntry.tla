------------------------------ MODULE KitEntry ------------------------------
(***************************************************************************)
(* The purchase entries of the meed-instance contract,                     *)
(* contracts/programs/paytp_kit/src/lib.rs.  An instruction is atomic and a *)
(* rejected one changes nothing; between two of them anyone may submit any *)
(* other.  The terminal transition of an entry and the transfer of its     *)
(* escrow are two instructions: `distribute` and `refund` come later, from *)
(* anyone, and may be submitted any number of times.                       *)
(*                                                                         *)
(* Accounts, seeds and mints are the right ones on every instruction       *)
(* considered.  A receiving token account may be frozen by the mint's      *)
(* authority or closed by its owner at any time, for a while or for good;  *)
(* a transfer to it then fails, and with it the whole instruction.         *)
(***************************************************************************)
EXTENDS EntryWindows

CONSTANTS
  RefundTo,   \* the refund account each entry records at funding
  Freezable   \* the token accounts that may come to refuse transfers

VARIABLES
  frozen,     \* those that do now
  signed,     \* entries the merchant has signed a detached attestation of
  escrow,     \* the balance of each entry's escrow token account
  toDests,    \* what each escrow has sent to each destination
  toPayer     \* what each escrow has sent to the recorded refund account

vars == <<now, entry, frozen, signed, escrow, toDests, toPayer>>

Init ==
  /\ now = 0
  /\ entry = <<>>
  /\ frozen = {}
  /\ signed = {}
  /\ escrow = [i \in Ids |-> 0]
  /\ toDests = [i \in Ids |-> [d \in Dests |-> 0]]
  /\ toPayer = [i \in Ids |-> 0]

Tick ==
  /\ now < MaxTime
  /\ now' = now + 1
  /\ UNCHANGED <<entry, frozen, signed, escrow, toDests, toPayer>>

Freeze(a) ==
  /\ a \notin frozen
  /\ frozen' = frozen \cup {a}
  /\ UNCHANGED <<now, entry, signed, escrow, toDests, toPayer>>

Thaw(a) ==
  /\ a \in frozen
  /\ frozen' = frozen \ {a}
  /\ UNCHANGED <<now, entry, signed, escrow, toDests, toPayer>>

FundEntry(i) ==
  /\ Fundable(i)
  /\ entry' = [k \in Funded \cup {i} |->
                 IF k = i THEN [state |-> "funded", openedAt |-> 0, distributed |-> FALSE]
                 ELSE entry[k]]
  /\ escrow' = [escrow EXCEPT ![i] = Amount[i]]
  /\ UNCHANGED <<now, frozen, signed, toDests, toPayer>>

GuardActive(i) == In(i, {"reclaimOpen"}) \/ (In(i, {"funded"}) /\ now <= TLapse[i])

Move(i, state) ==
  /\ entry' = [entry EXCEPT ![i].state = state]
  /\ UNCHANGED <<now, frozen, signed, escrow, toDests, toPayer>>

Attest(i) == GuardActive(i) /\ Move(i, "attested")
Cancel(i) == GuardActive(i) /\ Move(i, "cancelled")
Lapse(i) == Lapsable(i) /\ Move(i, "lapsed")

\* The merchant signs once, off the rail, before or after the entry is funded.
SignAttestation(i) ==
  /\ signed' = signed \cup {i}
  /\ UNCHANGED <<now, entry, frozen, escrow, toDests, toPayer>>

\* Anyone relays the signed attestation, at any time.
AttestDetached(i) ==
  /\ i \in signed
  /\ GuardActive(i)
  /\ Move(i, "attested")

OpenReclaim(i) ==
  /\ InReclaimWindow(i)
  /\ entry' = [entry EXCEPT ![i].state = "reclaimOpen", ![i].openedAt = now]
  /\ UNCHANGED <<now, frozen, signed, escrow, toDests, toPayer>>

ExecuteReclaim(i) == Executable(i) /\ Move(i, "reclaimed")

BugDeliverableIfAttested(i) == In(i, {"attested"}) /\ ~entry[i].distributed

Deliverable(i) == In(i, {"attested", "lapsed"}) /\ ~entry[i].distributed

EntryShare(i, d) == Entitlement(d, Amount[i])

\* The accounts a distribution pays: none for a share that floors to zero.
Payees(i) == {d \in Dests : EntryShare(i, d) > 0}

\* All shares or none: a transfer the escrow cannot cover, or to one account that
\* refuses it, reverts the instruction.
Distribute(i) ==
  LET total == SumOver([d \in Dests |-> EntryShare(i, d)], Dests)
  IN  /\ Deliverable(i)
      /\ Payees(i) \cap frozen = {}
      /\ total <= escrow[i]
      /\ escrow' = [escrow EXCEPT ![i] = @ - total]
      /\ toDests' = [toDests EXCEPT ![i] = [d \in Dests |-> @[d] + EntryShare(i, d)]]
      /\ entry' = [entry EXCEPT ![i].distributed = TRUE]
      /\ UNCHANGED <<now, frozen, signed, toPayer>>

Refundable(i) == In(i, {"cancelled", "reclaimed"}) /\ ~entry[i].distributed

Refund(i) ==
  /\ Refundable(i)
  /\ RefundTo[i] \notin frozen
  /\ Amount[i] <= escrow[i]
  /\ escrow' = [escrow EXCEPT ![i] = @ - Amount[i]]
  /\ toPayer' = [toPayer EXCEPT ![i] = @ + Amount[i]]
  /\ entry' = [entry EXCEPT ![i].distributed = TRUE]
  /\ UNCHANGED <<now, frozen, signed, toDests>>

Next ==
  \/ Tick
  \/ \E a \in Freezable : Freeze(a) \/ Thaw(a)
  \/ \E i \in Ids :
       \/ FundEntry(i) \/ SignAttestation(i)
       \/ Attest(i) \/ AttestDetached(i) \/ Cancel(i) \/ Lapse(i)
       \/ OpenReclaim(i) \/ ExecuteReclaim(i)
       \/ Distribute(i) \/ Refund(i)

Spec == Init /\ [][Next]_vars

\* Time passes, and somebody submits each permissionless instruction that stays
\* possible; nothing is assumed of the merchant, nor that an account is ever
\* thawed.
FairSpec ==
  /\ Spec
  /\ WF_vars(Tick)
  /\ \A i \in Ids :
       /\ WF_vars(Lapse(i))
       /\ WF_vars(ExecuteReclaim(i))
       /\ WF_vars(Distribute(i))
       /\ WF_vars(Refund(i))

-----------------------------------------------------------------------------
(* Properties.                                                             *)

Delivered(i) == SumOver(toDests[i], Dests)

\* The fate of each deposit, read off the transfers.
Fate(i) ==
  IF i \notin Funded THEN "none"
  ELSE IF toPayer[i] > 0 THEN "payer"
  ELSE IF entry[i].distributed THEN "recipients"
  ELSE "held"

Fates == [i \in Ids |-> Fate(i)]
Promise == INSTANCE Escrow WITH fate <- Fates

\* distribute and refund keep the promise of Escrow: whatever order the
\* instructions come in, a deposit leaves once and one way.
KeepsPromise == Promise!Spec

\* fund_entry, distribute, refund: no escrow pays for another entry, a payout that
\* is due is always covered in full, and per-destination flooring leaves less
\* than a unit per destination behind.
EscrowBacksEntry ==
  \A i \in Ids :
    /\ escrow[i] + Delivered(i) + toPayer[i] = IF i \in Funded THEN Amount[i] ELSE 0
    /\ i \in Funded /\ ~entry[i].distributed => escrow[i] = Amount[i]
    /\ i \in Funded /\ Delivered(i) > 0 => escrow[i] < Cardinality(Dests)

\* An account that entry i is to be paid at refuses transfers.
Blocked(i) ==
  \/ Deliverable(i) /\ Payees(i) \cap frozen # {}
  \/ Refundable(i) /\ RefundTo[i] \in frozen

\* execute_reclaim, lapse, distribute, refund: a deposit leaves the escrow whatever
\* the merchant does, unless one of the accounts its own outcome pays keeps refusing
\* transfers (one frozen destination holds up the shares of all), or a reclaim was
\* opened whose T_exec is past the end of time.  Refusals that end, other entries'
\* accounts and the accounts of the outcome it did not have hold up nothing.
DepositLeaves ==
  \A i \in Ids :
    <>[]~Blocked(i) =>
      (i \in Funded ~>
         /\ i \in Funded
         /\ \/ entry[i].distributed
            \/ entry[i].state = "reclaimOpen" /\ TExec(i) = MaxTime)
=============================================================================
