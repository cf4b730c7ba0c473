--------------------------- MODULE KitEntryProofs ---------------------------
(***************************************************************************)
(* Proofs about KitEntry, for any entries, windows, amounts and weights:   *)
(* the contract implements Escrow, and the merchant always has a full      *)
(* contest period before a refund it did not ask for.                      *)
(*                                                                         *)
(* The invariant says what the escrow of an unsettled entry still holds,   *)
(* that no money has gone to the payer of an entry that is not settled by  *)
(* a refund, and when an open reclaim was opened.  The division among the  *)
(* destinations does not enter that part: whatever the shares are, the     *)
(* flag lets them leave once.  It enters the last part, which shows that   *)
(* an escrow covers its entry and what a distribution leaves behind.       *)
(***************************************************************************)
EXTENDS KitEntry, SumsProofs, TLAPS

EntryRecords == [state : States, openedAt : Nat, distributed : BOOLEAN]

Types ==
  /\ now \in 0..MaxTime
  /\ Funded \subseteq Ids
  /\ entry \in [Funded -> EntryRecords]
  /\ escrow = [i \in Ids |-> escrow[i]]
  /\ toPayer \in [Ids -> Int]

\* The money of entry i.
Custody(i) ==
  /\ i \notin Funded => toPayer[i] = 0
  /\ i \in Funded =>
       /\ Amount[i] > 0
       /\ ~entry[i].distributed => escrow[i] = Amount[i] /\ toPayer[i] = 0
       /\ entry[i].state \notin {"cancelled", "reclaimed"} => toPayer[i] = 0
       /\ entry[i].distributed => entry[i].state \in Terminal

\* The reclaim of entry i.
Notice(i) ==
  i \in Funded =>
    /\ entry[i].state = "reclaimOpen" => TOpen[i] <= entry[i].openedAt
    /\ entry[i].state = "reclaimed" => now > TOpen[i] + Contest[i]

IInv ==
  /\ Types
  /\ \A i \in Ids : Custody(i) /\ Notice(i)

-----------------------------------------------------------------------------
(* No entry yet. *)
LEMMA InitIInv == Init => IInv
<1> SUFFICES ASSUME Init PROVE IInv
  OBVIOUS
<1>1. Funded = {} /\ entry \in [Funded -> EntryRecords]
  BY DEF Init, Funded
<1>2. Types
  BY <1>1, EntryAssumption DEF Init, Types
<1>3. \A i \in Ids : Custody(i) /\ Notice(i)
  BY <1>1 DEF Init, Custody, Notice
<1> QED
  BY <1>2, <1>3 DEF IInv

(* What a change of state does to the entries. *)
LEMMA MoveFacts ==
  ASSUME IInv, NEW i \in Ids, i \in Funded, NEW s \in States,
         entry' = [entry EXCEPT ![i].state = s]
  PROVE  /\ Funded' = Funded
         /\ entry' \in [Funded -> EntryRecords]
         /\ \A k \in Funded : k # i => entry'[k] = entry[k]
         /\ entry'[i].state = s /\ entry'[i].openedAt = entry[i].openedAt
         /\ entry'[i].distributed = entry[i].distributed
<1>1. entry \in [Funded -> EntryRecords] /\ entry[i] \in EntryRecords
  BY DEF IInv, Types
<1>2. [entry[i] EXCEPT !.state = s] \in EntryRecords
  BY <1>1 DEF EntryRecords
<1>3. entry' = [entry EXCEPT ![i] = [entry[i] EXCEPT !.state = s]]
  BY <1>1
<1> QED
  BY <1>1, <1>2, <1>3 DEF Funded, EntryRecords

(* The four transitions that only change the state of an unsettled entry. *)
LEMMA MoveIInv ==
  ASSUME IInv, NEW i \in Ids, NEW s \in Terminal, Move(i, s),
         In(i, {"funded", "reclaimOpen"}),
         s = "reclaimed" => now > TOpen[i] + Contest[i]
  PROVE  IInv'
<1>1. i \in Funded /\ s \in States /\ entry' = [entry EXCEPT ![i].state = s]
      /\ entry[i].state \in {"funded", "reclaimOpen"}
  BY DEF Move, In, Terminal, States
<1>2. /\ Funded' = Funded
      /\ entry' \in [Funded -> EntryRecords]
      /\ \A k \in Funded : k # i => entry'[k] = entry[k]
      /\ entry'[i].state = s /\ entry'[i].openedAt = entry[i].openedAt
      /\ entry'[i].distributed = entry[i].distributed
  BY <1>1, MoveFacts
<1>3. now' = now /\ escrow' = escrow /\ toPayer' = toPayer
  BY DEF Move
<1>4. Types'
  BY <1>2, <1>3 DEF IInv, Types
<1>5. ASSUME NEW k \in Ids PROVE Custody(k)' /\ Notice(k)'
  <2>1. Custody(k) /\ Notice(k) /\ Custody(i)
    BY DEF IInv
  <2>2. CASE k # i
    BY <1>2, <1>3, <2>1, <2>2 DEF Custody, Notice
  <2>3. CASE k = i
    <3>1. ~entry[i].distributed
      BY <1>1, <2>1 DEF Custody, Terminal
    <3>2. Custody(i)'
      BY <1>1, <1>2, <1>3, <2>1, <3>1 DEF Custody
    <3>3. Notice(i)'
      BY <1>1, <1>2, <1>3 DEF Notice, Terminal
    <3> QED
      BY <2>3, <3>2, <3>3
  <2> QED
    BY <2>2, <2>3
<1> QED
  BY <1>4, <1>5 DEF IInv

(* Time passes no limit, and only makes a notice longer. *)
LEMMA TickIInv == ASSUME IInv, Tick PROVE IInv'
<1>1. now' = now + 1 /\ now' \in 0..MaxTime
  BY EntryAssumption DEF Tick, IInv, Types
<1>2. entry' = entry /\ escrow' = escrow /\ toPayer' = toPayer /\ Funded' = Funded
  BY DEF Tick, Funded
<1>3. Types'
  BY <1>1, <1>2 DEF IInv, Types
<1>4. \A i \in Ids : TOpen[i] \in Nat /\ Contest[i] \in Nat
  BY EntryAssumption
<1>5. ASSUME NEW i \in Ids PROVE Custody(i)' /\ Notice(i)'
  BY <1>1, <1>2, <1>4 DEF IInv, Types, Custody, Notice
<1> QED
  BY <1>3, <1>5 DEF IInv

(* A new entry has its amount in escrow. *)
LEMMA FundEntryIInv == ASSUME IInv, NEW i \in Ids, FundEntry(i) PROVE IInv'
<1>1. /\ i \notin Funded /\ Amount[i] > 0
      /\ entry' = [k \in Funded \cup {i} |->
                     IF k = i THEN [state |-> "funded", openedAt |-> 0, distributed |-> FALSE]
                     ELSE entry[k]]
      /\ escrow' = [escrow EXCEPT ![i] = Amount[i]]
      /\ now' = now /\ toPayer' = toPayer
  BY DEF FundEntry, Fundable
<1>2. [state |-> "funded", openedAt |-> 0, distributed |-> FALSE] \in EntryRecords
  BY DEF EntryRecords, States
<1>3. /\ Funded' = Funded \cup {i}
      /\ entry' \in [Funded' -> EntryRecords]
      /\ \A k \in Funded : entry'[k] = entry[k]
      /\ entry'[i].state = "funded" /\ entry'[i].distributed = FALSE
  BY <1>1, <1>2 DEF IInv, Types, Funded
<1>4. Types'
  <2>1. Types
    BY DEF IInv
  <2>2. escrow' = [k \in Ids |-> escrow'[k]]
    BY <1>1, <2>1 DEF Types
  <2>3. Funded' \subseteq Ids
    BY <1>3, <2>1 DEF Types
  <2> QED
    BY <1>1, <1>3, <2>1, <2>2, <2>3 DEF Types
<1>5. ASSUME NEW k \in Ids PROVE Custody(k)' /\ Notice(k)'
  <2>1. Custody(k) /\ Notice(k) /\ escrow = [j \in Ids |-> escrow[j]]
    BY DEF IInv, Types
  <2>2. CASE k # i
    BY <1>1, <1>3, <2>1, <2>2 DEF Custody, Notice
  <2>3. CASE k = i
    BY <1>1, <1>3, <2>1, <2>3 DEF Custody, Notice
  <2> QED
    BY <2>2, <2>3
<1> QED
  BY <1>4, <1>5 DEF IInv

(* A reclaim opens no earlier than T_open. *)
LEMMA OpenReclaimIInv == ASSUME IInv, NEW i \in Ids, OpenReclaim(i) PROVE IInv'
<1>1. /\ i \in Funded /\ entry[i].state = "funded" /\ TOpen[i] <= now
      /\ entry' = [entry EXCEPT ![i].state = "reclaimOpen", ![i].openedAt = now]
      /\ now' = now /\ escrow' = escrow /\ toPayer' = toPayer
  BY DEF OpenReclaim, InReclaimWindow, In
<1>2. entry \in [Funded -> EntryRecords] /\ entry[i] \in EntryRecords /\ now \in Nat
  BY <1>1, EntryAssumption DEF IInv, Types
<1>3. [entry[i] EXCEPT !.state = "reclaimOpen", !.openedAt = now] \in EntryRecords
  BY <1>2 DEF EntryRecords, States
<1>4. entry' = [entry EXCEPT ![i] = [entry[i] EXCEPT !.state = "reclaimOpen", !.openedAt = now]]
  BY <1>1, <1>2
<1>5. /\ Funded' = Funded
      /\ entry' \in [Funded -> EntryRecords]
      /\ \A k \in Funded : k # i => entry'[k] = entry[k]
      /\ entry'[i].state = "reclaimOpen" /\ entry'[i].openedAt = now
      /\ entry'[i].distributed = entry[i].distributed
  <2> DEFINE r == [entry[i] EXCEPT !.state = "reclaimOpen", !.openedAt = now]
  <2>1. r.state = "reclaimOpen" /\ r.openedAt = now /\ r.distributed = entry[i].distributed
    BY <1>2 DEF EntryRecords
  <2>2. r \in EntryRecords /\ entry' = [entry EXCEPT ![i] = r]
    BY <1>3, <1>4
  <2> HIDE DEF r
  <2>3. entry' \in [Funded -> EntryRecords] /\ entry'[i] = r
        /\ \A k \in Funded : k # i => entry'[k] = entry[k]
    BY <1>1, <1>2, <2>2
  <2> QED
    BY <2>1, <2>3 DEF Funded
<1>6. Types'
  BY <1>1, <1>5 DEF IInv, Types
<1>7. ASSUME NEW k \in Ids PROVE Custody(k)' /\ Notice(k)'
  <2>1. Custody(k) /\ Notice(k)
    BY DEF IInv
  <2>2. CASE k # i
    BY <1>1, <1>5, <2>1, <2>2 DEF Custody, Notice
  <2>3. CASE k = i
    BY <1>1, <1>5, <2>1, <2>3 DEF Custody, Notice, Terminal
  <2> QED
    BY <2>2, <2>3
<1> QED
  BY <1>6, <1>7 DEF IInv

(* What settling an entry does to the entries. *)
LEMMA SettleFacts ==
  ASSUME IInv, NEW i \in Ids, i \in Funded,
         entry' = [entry EXCEPT ![i].distributed = TRUE]
  PROVE  /\ Funded' = Funded
         /\ entry' \in [Funded -> EntryRecords]
         /\ \A k \in Funded : k # i => entry'[k] = entry[k]
         /\ entry'[i].state = entry[i].state /\ entry'[i].openedAt = entry[i].openedAt
         /\ entry'[i].distributed
<1>1. entry \in [Funded -> EntryRecords] /\ entry[i] \in EntryRecords
  BY DEF IInv, Types
<1>2. [entry[i] EXCEPT !.distributed = TRUE] \in EntryRecords
  BY <1>1 DEF EntryRecords
<1>3. entry' = [entry EXCEPT ![i] = [entry[i] EXCEPT !.distributed = TRUE]]
  BY <1>1
<1> QED
  BY <1>1, <1>2, <1>3 DEF Funded, EntryRecords

(* A distribution settles a delivered entry. *)
LEMMA DistributeIInv == ASSUME IInv, NEW i \in Ids, Distribute(i) PROVE IInv'
<1> DEFINE total == SumOver([d \in Dests |-> EntryShare(i, d)], Dests)
<1>1. /\ i \in Funded /\ entry[i].state \in {"attested", "lapsed"} /\ ~entry[i].distributed
      /\ entry' = [entry EXCEPT ![i].distributed = TRUE]
      /\ total <= escrow[i]
      /\ escrow' = [escrow EXCEPT ![i] = @ - total]
      /\ now' = now /\ toPayer' = toPayer
  BY DEF Distribute, Deliverable, In
<1>2. /\ Funded' = Funded
      /\ entry' \in [Funded -> EntryRecords]
      /\ \A k \in Funded : k # i => entry'[k] = entry[k]
      /\ entry'[i].state = entry[i].state /\ entry'[i].openedAt = entry[i].openedAt
      /\ entry'[i].distributed
  BY <1>1, SettleFacts
<1> HIDE DEF total
<1>4. Types'
  <2>1. Types
    BY DEF IInv
  <2>2. escrow' = [k \in Ids |-> escrow'[k]]
    BY <1>1, <2>1 DEF Types
  <2> QED
    BY <1>1, <1>2, <2>1, <2>2 DEF Types
<1>3. ASSUME NEW k \in Ids PROVE Custody(k)' /\ Notice(k)'
  <2>1. Custody(k) /\ Notice(k) /\ escrow = [j \in Ids |-> escrow[j]]
    BY DEF IInv, Types
  <2>2. CASE k # i
    BY <1>1, <1>2, <2>1, <2>2 DEF Custody, Notice
  <2>3. CASE k = i
    BY <1>1, <1>2, <2>1, <2>3 DEF Custody, Notice, Terminal
  <2> QED
    BY <2>2, <2>3
<1> QED
  BY <1>3, <1>4 DEF IInv

(* A refund settles a cancelled or reclaimed entry. *)
LEMMA RefundIInv == ASSUME IInv, NEW i \in Ids, Refund(i) PROVE IInv'
<1>1. /\ i \in Funded /\ entry[i].state \in {"cancelled", "reclaimed"} /\ ~entry[i].distributed
      /\ entry' = [entry EXCEPT ![i].distributed = TRUE]
      /\ escrow' = [escrow EXCEPT ![i] = @ - Amount[i]]
      /\ toPayer' = [toPayer EXCEPT ![i] = @ + Amount[i]]
      /\ now' = now
  BY DEF Refund, Refundable, In
<1>2. /\ Funded' = Funded
      /\ entry' \in [Funded -> EntryRecords]
      /\ \A k \in Funded : k # i => entry'[k] = entry[k]
      /\ entry'[i].state = entry[i].state /\ entry'[i].openedAt = entry[i].openedAt
      /\ entry'[i].distributed
  BY <1>1, SettleFacts
<1>3. escrow = [j \in Ids |-> escrow[j]] /\ toPayer \in [Ids -> Int] /\ Amount[i] \in Nat
  BY EntryAssumption DEF IInv, Types
<1>4. Types'
  <2>1. Types
    BY DEF IInv
  <2>2. escrow' = [k \in Ids |-> escrow'[k]] /\ toPayer' \in [Ids -> Int]
    BY <1>1, <1>3
  <2> QED
    BY <1>1, <1>2, <2>1, <2>2 DEF Types
<1>5. ASSUME NEW k \in Ids PROVE Custody(k)' /\ Notice(k)'
  <2>1. Custody(k) /\ Notice(k)
    BY DEF IInv
  <2>2. CASE k # i
    BY <1>1, <1>2, <1>3, <2>1, <2>2 DEF Custody, Notice
  <2>3. CASE k = i
    BY <1>1, <1>2, <1>3, <2>1, <2>3 DEF Custody, Notice, Terminal
  <2> QED
    BY <2>2, <2>3
<1> QED
  BY <1>4, <1>5 DEF IInv
(* A reclaim that can be executed was opened a full contest period ago: a T_exec  *)
(* that saturates is never passed.                                         *)
LEMMA ExecuteReclaimIInv == ASSUME IInv, NEW i \in Ids, ExecuteReclaim(i) PROVE IInv'
<1>1. In(i, {"reclaimOpen"}) /\ now > TExec(i) /\ Move(i, "reclaimed")
  BY DEF ExecuteReclaim, Executable
<1>2. i \in Funded /\ entry[i].state = "reclaimOpen"
  BY <1>1 DEF In
<1>3. /\ now \in 0..MaxTime /\ MaxTime \in Nat /\ entry[i].openedAt \in Nat
      /\ TOpen[i] \in Nat /\ Contest[i] \in Nat /\ TOpen[i] <= entry[i].openedAt
  BY <1>2, EntryAssumption DEF IInv, Types, EntryRecords, Notice
<1>4. now > TOpen[i] + Contest[i]
  BY <1>1, <1>3 DEF TExec
<1>5. In(i, {"funded", "reclaimOpen"}) /\ "reclaimed" \in Terminal
  BY <1>2 DEF In, Terminal
<1> QED
  BY <1>1, <1>4, <1>5, MoveIInv

(* attest, attest_detached, cancel and lapse. *)
LEMMA ReleaseIInv ==
  ASSUME IInv, NEW i \in Ids, Attest(i) \/ AttestDetached(i) \/ Cancel(i) \/ Lapse(i)
  PROVE  IInv'
<1>1. In(i, {"funded", "reclaimOpen"})
  BY DEF Attest, AttestDetached, Cancel, Lapse, GuardActive, Lapsable, In
<1>2. \E s \in {"attested", "cancelled", "lapsed"} : Move(i, s)
  BY DEF Attest, AttestDetached, Cancel, Lapse
<1>3. \A s \in {"attested", "cancelled", "lapsed"} : s \in Terminal /\ s # "reclaimed"
  BY DEF Terminal
<1> QED
  BY <1>1, <1>2, <1>3, MoveIInv

(* A signature changes no entry. *)
LEMMA SignIInv == ASSUME IInv, NEW i \in Ids, SignAttestation(i) PROVE IInv'
BY DEF IInv, Types, Custody, Notice, SignAttestation, Funded

(* Neither does an account that refuses transfers, or accepts them again. *)
LEMMA AccountIInv == ASSUME IInv, NEW a, Freeze(a) \/ Thaw(a) PROVE IInv'
BY DEF IInv, Types, Custody, Notice, Freeze, Thaw, Funded

(* The invariant of the contract's entries. *)
THEOREM EntriesSound == Spec => []IInv
<1>1. IInv /\ [Next]_vars => IInv'
  <2> SUFFICES ASSUME IInv, [Next]_vars PROVE IInv'
    OBVIOUS
  <2>1. CASE UNCHANGED vars
    BY <2>1 DEF vars, IInv, Types, Custody, Notice, Funded
  <2>2. CASE Tick \/ \E a \in Freezable : Freeze(a) \/ Thaw(a)
    BY <2>2, TickIInv, AccountIInv
  <2>3. ASSUME NEW i \in Ids,
               Attest(i) \/ AttestDetached(i) \/ Cancel(i) \/ Lapse(i)
        PROVE  IInv'
    BY <2>3, ReleaseIInv
  <2>4. ASSUME NEW i \in Ids, FundEntry(i) \/ SignAttestation(i)
        PROVE  IInv'
    BY <2>4, FundEntryIInv, SignIInv
  <2>5. ASSUME NEW i \in Ids, OpenReclaim(i) \/ ExecuteReclaim(i)
        PROVE  IInv'
    BY <2>5, OpenReclaimIInv, ExecuteReclaimIInv
  <2>6. ASSUME NEW i \in Ids, Distribute(i) \/ Refund(i)
        PROVE  IInv'
    BY <2>6, DistributeIInv, RefundIInv
  <2> QED
    BY <2>1, <2>2, <2>3, <2>4, <2>5, <2>6 DEF Next
<1> QED
  BY <1>1, InitIInv, PTL DEF Spec

(* execute_reclaim never returns a deposit before a full contest period after  *)
(* T_open, whatever the contest delay and however near the end of time.     *)
THEOREM RefundNeedsNoticeHolds == Spec => []RefundNeedsNotice
<1>1. IInv => RefundNeedsNotice
  BY DEF IInv, Types, Notice, RefundNeedsNotice
<1> QED
  BY <1>1, EntriesSound, PTL

-----------------------------------------------------------------------------
(* The refinement of Escrow.                                               *)

(* A step that leaves the escrow, the refund and the flag of an entry alone leaves *)
(* its fate alone.                                                         *)
LEMMA SameFate ==
  ASSUME Funded' = Funded, toPayer' = toPayer,
         \A k \in Funded : entry'[k].distributed = entry[k].distributed
  PROVE  \A k \in Ids : Fate(k)' = Fate(k)
BY DEF Fate

(* A step that changes no fate is a stutter of Escrow. *)
LEMMA StutterOfEscrow ==
  ASSUME \A k \in Ids : Fate(k)' = Fate(k)
  PROVE  [Promise!Next]_Fates
BY DEF Fates

(* The transitions before settlement move no money and settle nothing. *)
LEMMA MoveKeepsMoney ==
  ASSUME IInv, NEW i \in Ids,
         \/ Attest(i) \/ AttestDetached(i) \/ Cancel(i) \/ Lapse(i)
         \/ OpenReclaim(i) \/ ExecuteReclaim(i)
  PROVE  /\ escrow' = escrow /\ toDests' = toDests /\ toPayer' = toPayer
         /\ Funded' = Funded /\ \A k \in Funded : entry'[k].distributed = entry[k].distributed
<1>1. /\ i \in Funded /\ escrow' = escrow /\ toDests' = toDests /\ toPayer' = toPayer
      /\ \/ \E s \in States : entry' = [entry EXCEPT ![i].state = s]
         \/ entry' = [entry EXCEPT ![i].state = "reclaimOpen", ![i].openedAt = now]
  BY DEF Attest, AttestDetached, Cancel, Lapse, OpenReclaim, ExecuteReclaim, Move, States,
         GuardActive, Lapsable, Executable, InReclaimWindow, In
<1>2. entry \in [Funded -> EntryRecords] /\ entry[i] \in EntryRecords
  BY <1>1 DEF IInv, Types
<1>3. PICK r : /\ r.distributed = entry[i].distributed
               /\ entry' = [entry EXCEPT ![i] = r]
  <2>1. ASSUME NEW s \in States, entry' = [entry EXCEPT ![i].state = s]
        PROVE  \E r : r.distributed = entry[i].distributed /\ entry' = [entry EXCEPT ![i] = r]
    <3> WITNESS [entry[i] EXCEPT !.state = s]
    <3> QED
      BY <1>2, <2>1 DEF EntryRecords
  <2>2. CASE entry' = [entry EXCEPT ![i].state = "reclaimOpen", ![i].openedAt = now]
    <3> WITNESS [entry[i] EXCEPT !.state = "reclaimOpen", !.openedAt = now]
    <3> QED
      BY <1>2, <2>2 DEF EntryRecords
  <2> QED
    BY <1>1, <2>1, <2>2
<1>4. Funded' = Funded /\ \A k \in Funded : entry'[k].distributed = entry[k].distributed
  BY <1>1, <1>2, <1>3 DEF Funded
<1> QED
  BY <1>1, <1>4

(* So they change no fate. *)
LEMMA MoveKeepsFate ==
  ASSUME IInv, NEW i \in Ids,
         \/ Attest(i) \/ AttestDetached(i) \/ Cancel(i) \/ Lapse(i)
         \/ OpenReclaim(i) \/ ExecuteReclaim(i)
  PROVE  \A k \in Ids : Fate(k)' = Fate(k)
BY MoveKeepsMoney, SameFate

(* fund_entry is a deposit. *)
LEMMA FundIsDeposit ==
  ASSUME IInv, NEW i \in Ids, FundEntry(i)
  PROVE  Promise!Deposit(i)
<1>1. /\ i \notin Funded /\ toPayer' = toPayer
      /\ entry' = [k \in Funded \cup {i} |->
                     IF k = i THEN [state |-> "funded", openedAt |-> 0, distributed |-> FALSE]
                     ELSE entry[k]]
  BY DEF FundEntry, Fundable
<1>2. /\ Funded' = Funded \cup {i} /\ ~entry'[i].distributed
      /\ \A k \in Funded : entry'[k] = entry[k]
  BY <1>1 DEF Funded
<1>3. toPayer[i] = 0
  BY <1>1 DEF IInv, Custody
<1>4. Fate(i) = "none" /\ Fate(i)' = "held"
  BY <1>1, <1>2, <1>3 DEF Fate
<1>5. \A k \in Ids : k # i => Fate(k)' = Fate(k)
  BY <1>1, <1>2 DEF Fate
<1> QED
  BY <1>4, <1>5 DEF Promise!Deposit, Fates

(* distribute pays out a deposit that is held. *)
LEMMA DistributeIsPayOut ==
  ASSUME IInv, NEW i \in Ids, Distribute(i)
  PROVE  Promise!PayOut(i)
<1>1. /\ i \in Funded /\ entry[i].state \in {"attested", "lapsed"} /\ ~entry[i].distributed
      /\ entry' = [entry EXCEPT ![i].distributed = TRUE]
      /\ toPayer' = toPayer
  BY DEF Distribute, Deliverable, In
<1>2. /\ Funded' = Funded /\ entry'[i].distributed
      /\ \A k \in Funded : k # i => entry'[k] = entry[k]
  BY <1>1, SettleFacts
<1>3. toPayer[i] = 0
  BY <1>1 DEF IInv, Custody
<1>4. Fate(i) = "held" /\ Fate(i)' = "recipients"
  BY <1>1, <1>2, <1>3 DEF Fate
<1>5. \A k \in Ids : k # i => Fate(k)' = Fate(k)
  BY <1>1, <1>2 DEF Fate
<1> QED
  BY <1>4, <1>5 DEF Promise!PayOut, Fates

(* refund returns a deposit that is held. *)
LEMMA RefundIsRefund ==
  ASSUME IInv, NEW i \in Ids, Refund(i)
  PROVE  Promise!Refund(i)
<1>1. /\ i \in Funded /\ ~entry[i].distributed
      /\ entry' = [entry EXCEPT ![i].distributed = TRUE]
      /\ toPayer' = [toPayer EXCEPT ![i] = @ + Amount[i]]
  BY DEF Refund, Refundable, In
<1>2. /\ Funded' = Funded /\ \A k \in Funded : k # i => entry'[k] = entry[k]
  BY <1>1, SettleFacts
<1>3. toPayer[i] = 0 /\ Amount[i] > 0 /\ toPayer \in [Ids -> Int] /\ Amount[i] \in Nat
  BY <1>1, EntryAssumption DEF IInv, Types, Custody
<1>4. toPayer'[i] > 0 /\ \A k \in Ids : k # i => toPayer'[k] = toPayer[k]
  BY <1>1, <1>3
<1>5. Fate(i) = "held" /\ Fate(i)' = "payer"
  BY <1>1, <1>2, <1>3, <1>4 DEF Fate
<1>6. \A k \in Ids : k # i => Fate(k)' = Fate(k)
  BY <1>2, <1>4 DEF Fate
<1> QED
  BY <1>5, <1>6 DEF Promise!Refund, Fates

(* The contract implements Escrow: a deposit leaves once, to the recipients or *)
(* back to the payer, in whatever order anyone submits the instructions.    *)
THEOREM KeepsPromiseHolds == Spec => KeepsPromise
<1>1. Init => Promise!Init
  BY DEF Init, Promise!Init, Fates, Fate, Funded
<1>2. IInv /\ [Next]_vars => [Promise!Next]_Fates
  <2> SUFFICES ASSUME IInv, [Next]_vars
               PROVE  [Promise!Next]_Fates
    OBVIOUS
  <2>1. CASE \/ Tick \/ UNCHANGED vars \/ \E i \in Ids : SignAttestation(i)
             \/ \E a \in Freezable : Freeze(a) \/ Thaw(a)
    BY <2>1, SameFate, StutterOfEscrow DEF Tick, SignAttestation, Freeze, Thaw, vars, Funded
  <2>2. ASSUME NEW i \in Ids,
               \/ Attest(i) \/ AttestDetached(i) \/ Cancel(i) \/ Lapse(i)
               \/ OpenReclaim(i) \/ ExecuteReclaim(i)
        PROVE  [Promise!Next]_Fates
    BY <2>2, MoveKeepsFate, StutterOfEscrow
  <2>3. ASSUME NEW i \in Ids, FundEntry(i) \/ Distribute(i) \/ Refund(i)
        PROVE  [Promise!Next]_Fates
    BY <2>3, FundIsDeposit, DistributeIsPayOut, RefundIsRefund DEF Promise!Next
  <2> QED
    BY <2>1, <2>2, <2>3 DEF Next
<1> QED
  BY <1>1, <1>2, EntriesSound, PTL DEF Spec, KeepsPromise, Promise!Spec

-----------------------------------------------------------------------------
(* The money of every entry, to the unit.                                  *)

NoShares == [d \in Dests |-> 0]
SharesOf(i) == [d \in Dests |-> EntryShare(i, d)]

\* An entry that is not settled has its whole amount in escrow.  A settled one has
\* paid out its shares and kept the dust, or given everything back.
Books(i) ==
  /\ ~(i \in Funded /\ entry[i].distributed) =>
       /\ escrow[i] = IF i \in Funded THEN Amount[i] ELSE 0
       /\ toDests[i] = NoShares /\ toPayer[i] = 0
  /\ i \in Funded /\ entry[i].distributed =>
       \/ /\ escrow[i] = Amount[i] - SumOver(SharesOf(i), Dests)
          /\ toDests[i] = SharesOf(i) /\ toPayer[i] = 0
       \/ escrow[i] = 0 /\ toDests[i] = NoShares /\ toPayer[i] = Amount[i]

MInv == toDests = [i \in Ids |-> toDests[i]] /\ \A i \in Ids : Books(i)

(* Per-destination flooring over the combined weights gives out at most the amount, *)
(* and keeps less than a unit per destination.                             *)
LEMMA SharesFit ==
  ASSUME NEW i \in Ids
  PROVE  /\ IsFiniteSet(Dests)
         /\ \A d \in Dests : SharesOf(i)[d] \in Nat
         /\ SumOver(SharesOf(i), Dests) \in Nat
         /\ SumOver(SharesOf(i), Dests) <= Amount[i]
         /\ Amount[i] - SumOver(SharesOf(i), Dests) < Cardinality(Dests)
<1> DEFINE bp == [d \in Dests |-> BpOf(d)]
<1>1. GroupSums(bp, Weight, Roles, DestOf, Dests)
  BY DEF BpOf, Group, GroupSums
<1>2. Shares(SharesOf(i), Amount[i], bp, SumOver(Weight, Roles), Dests)
  BY DEF SharesOf, EntryShare, Entitlement, BpTotal, Shares
<1>3. Amount[i] \in Nat /\ Dests = {DestOf[r] : r \in Roles}
  BY EntryAssumption DEF Dests
<1>4. IsFiniteSet(Roles) /\ Weight \in [Roles -> Nat] /\ Positive(Weight, Roles)
  BY MeedAssumption DEF Positive
<1> HIDE DEF bp
<1> QED
  BY <1>1, <1>2, <1>3, <1>4, DividedByDest

(* Zeros. *)
LEMMA NoSharesSum == SumOver(NoShares, Dests) = 0 /\ IsFiniteSet(Dests)
<1>1. IsFiniteSet(Dests)
  <2> DEFINE f == [r \in Roles |-> DestOf[r]]
  <2>1. f \in Surjection(Roles, Dests)
    BY DEF Surjection, Dests
  <2> QED BY <2>1, MeedAssumption, FS_Surjection
<1> QED
  BY <1>1, SumZero DEF NoShares

(* Nothing has been paid in yet. *)
LEMMA InitMInv == Init => MInv
BY DEF Init, MInv, Books, NoShares, Funded

(* A step that moves no money and settles nothing. *)
LEMMA SameBooks ==
  ASSUME MInv, escrow' = escrow, toDests' = toDests, toPayer' = toPayer, Funded' = Funded,
         \A k \in Funded : entry'[k].distributed = entry[k].distributed
  PROVE  MInv'
<1>1. ASSUME NEW k \in Ids PROVE Books(k)'
  <2>1. Books(k)
    BY DEF MInv
  <2> QED BY <2>1 DEF Books, NoShares, SharesOf
<1> QED
  BY <1>1 DEF MInv

(* Every step keeps the books. *)
LEMMA NextMInv == ASSUME IInv, MInv, [Next]_vars PROVE MInv'
<1>1. CASE \/ Tick \/ UNCHANGED vars \/ \E i \in Ids : SignAttestation(i)
           \/ \E a \in Freezable : Freeze(a) \/ Thaw(a)
  BY <1>1, SameBooks DEF Tick, SignAttestation, Freeze, Thaw, vars, Funded
<1>2. ASSUME NEW i \in Ids,
             \/ Attest(i) \/ AttestDetached(i) \/ Cancel(i) \/ Lapse(i)
             \/ OpenReclaim(i) \/ ExecuteReclaim(i)
      PROVE  MInv'
  BY <1>2, MoveKeepsMoney, SameBooks
<1>3. ASSUME NEW i \in Ids, FundEntry(i) PROVE MInv'
  <2>1. /\ i \notin Funded /\ escrow' = [escrow EXCEPT ![i] = Amount[i]]
        /\ toDests' = toDests /\ toPayer' = toPayer
        /\ entry' = [k \in Funded \cup {i} |->
                       IF k = i THEN [state |-> "funded", openedAt |-> 0, distributed |-> FALSE]
                       ELSE entry[k]]
    BY <1>3 DEF FundEntry, Fundable
  <2>2. /\ Funded' = Funded \cup {i} /\ ~entry'[i].distributed
        /\ \A k \in Funded : entry'[k] = entry[k]
    BY <2>1 DEF Funded
  <2>3. ASSUME NEW k \in Ids PROVE Books(k)'
    <3>1. Books(k) /\ escrow = [j \in Ids |-> escrow[j]]
      BY DEF MInv, IInv, Types
    <3>2. CASE k # i
      BY <2>1, <2>2, <3>1, <3>2 DEF Books, NoShares, SharesOf
    <3>3. CASE k = i
      BY <2>1, <2>2, <3>1, <3>3 DEF Books, NoShares, SharesOf
    <3> QED BY <3>2, <3>3
  <2> QED
    BY <2>1, <2>3 DEF MInv
<1>4. ASSUME NEW i \in Ids, Distribute(i) PROVE MInv'
  <2>1. /\ i \in Funded /\ ~entry[i].distributed
        /\ entry' = [entry EXCEPT ![i].distributed = TRUE]
        /\ escrow' = [escrow EXCEPT ![i] = @ - SumOver(SharesOf(i), Dests)]
        /\ toDests' = [toDests EXCEPT ![i] = [d \in Dests |-> toDests[i][d] + EntryShare(i, d)]]
        /\ toPayer' = toPayer
    BY <1>4 DEF Distribute, Deliverable, In, SharesOf
  <2>2. /\ Funded' = Funded /\ entry'[i].distributed
        /\ \A k \in Funded : k # i => entry'[k] = entry[k]
    BY <2>1, SettleFacts
  <2>3. /\ escrow = [j \in Ids |-> escrow[j]] /\ toDests = [j \in Ids |-> toDests[j]]
        /\ Books(i)
    BY DEF MInv, IInv, Types
  <2>4. /\ escrow[i] = Amount[i] /\ toPayer[i] = 0 /\ toDests[i] = NoShares
    BY <2>1, <2>3 DEF Books
  <2>5. [d \in Dests |-> toDests[i][d] + EntryShare(i, d)] = SharesOf(i)
    <3>1. \A d \in Dests : NoShares[d] + EntryShare(i, d) = EntryShare(i, d)
      <4> SUFFICES ASSUME NEW d \in Dests PROVE NoShares[d] + EntryShare(i, d) = EntryShare(i, d)
        OBVIOUS
      <4>1. SharesOf(i)[d] \in Nat
        BY SharesFit
      <4>2. EntryShare(i, d) \in Nat /\ NoShares[d] = 0
        BY <4>1 DEF SharesOf, NoShares
      <4> QED BY <4>2
    <3> QED BY <2>4, <3>1 DEF SharesOf
  <2>6. toDests' = [toDests EXCEPT ![i] = SharesOf(i)]
    BY <2>1, <2>5
  <2>7. ASSUME NEW k \in Ids PROVE Books(k)'
    <3>1. Books(k)
      BY DEF MInv
    <3>2. CASE k # i
      BY <2>1, <2>2, <2>3, <2>6, <3>1, <3>2 DEF Books, NoShares, SharesOf
    <3>3. CASE k = i
      <4>1. /\ escrow'[i] = Amount[i] - SumOver(SharesOf(i), Dests)
            /\ toDests'[i] = SharesOf(i) /\ toPayer'[i] = 0
        BY <2>1, <2>3, <2>4, <2>6
      <4>2. SharesOf(i)' = SharesOf(i) /\ Dests' = Dests
        BY DEF SharesOf
      <4> QED BY <2>1, <2>2, <3>3, <4>1, <4>2 DEF Books
    <3> QED BY <3>2, <3>3
  <2> QED
    BY <2>3, <2>6, <2>7 DEF MInv
<1>5. ASSUME NEW i \in Ids, Refund(i) PROVE MInv'
  <2>1. /\ i \in Funded /\ ~entry[i].distributed
        /\ entry' = [entry EXCEPT ![i].distributed = TRUE]
        /\ escrow' = [escrow EXCEPT ![i] = @ - Amount[i]]
        /\ toPayer' = [toPayer EXCEPT ![i] = @ + Amount[i]]
        /\ toDests' = toDests
    BY <1>5 DEF Refund, Refundable, In
  <2>2. /\ Funded' = Funded /\ entry'[i].distributed
        /\ \A k \in Funded : k # i => entry'[k] = entry[k]
    BY <2>1, SettleFacts
  <2>3. /\ escrow = [j \in Ids |-> escrow[j]] /\ toPayer \in [Ids -> Int] /\ Books(i)
        /\ Amount[i] \in Nat
    BY EntryAssumption DEF MInv, IInv, Types
  <2>4. /\ escrow[i] = Amount[i] /\ toPayer[i] = 0 /\ toDests[i] = NoShares
    BY <2>1, <2>3 DEF Books
  <2>5. escrow'[i] = 0 /\ toPayer'[i] = Amount[i] /\ toDests'[i] = NoShares
    BY <2>1, <2>3, <2>4
  <2>6. ASSUME NEW k \in Ids PROVE Books(k)'
    <3>1. Books(k)
      BY DEF MInv
    <3>2. CASE k # i
      BY <2>1, <2>2, <2>3, <3>1, <3>2 DEF Books, NoShares, SharesOf
    <3>3. CASE k = i
      BY <2>1, <2>2, <2>5, <3>3 DEF Books, NoShares, SharesOf
    <3> QED BY <3>2, <3>3
  <2> QED
    BY <2>1, <2>6 DEF MInv
<1> QED
  BY <1>1, <1>2, <1>3, <1>4, <1>5 DEF Next

(* fund_entry, distribute, refund: every unit of every deposit is in its escrow, at a *)
(* destination or back with the payer; a payout that is due is covered; and what a *)
(* distribution leaves behind is less than a unit per destination.         *)
THEOREM EscrowBacksEntryHolds == Spec => []EscrowBacksEntry
<1>1. MInv => EscrowBacksEntry
  <2> SUFFICES ASSUME MInv, NEW i \in Ids
               PROVE  /\ escrow[i] + Delivered(i) + toPayer[i] = IF i \in Funded THEN Amount[i] ELSE 0
                      /\ i \in Funded /\ ~entry[i].distributed => escrow[i] = Amount[i]
                      /\ i \in Funded /\ Delivered(i) > 0 => escrow[i] < Cardinality(Dests)
    BY DEF EscrowBacksEntry
  <2>1. Books(i) /\ Amount[i] \in Nat
    BY EntryAssumption DEF MInv
  <2>2. SumOver(NoShares, Dests) = 0
    BY NoSharesSum
  <2>3. /\ SumOver(SharesOf(i), Dests) \in Nat
        /\ Amount[i] - SumOver(SharesOf(i), Dests) < Cardinality(Dests)
    BY SharesFit
  <2>4. CASE toDests[i] = NoShares
    <3>1. Delivered(i) = 0
      BY <2>2, <2>4 DEF Delivered
    <3>2. CASE i \in Funded /\ entry[i].distributed
      <4>1. escrow[i] + toPayer[i] = Amount[i] /\ escrow[i] \in Int /\ toPayer[i] \in Int
        <5>1. CASE SharesOf(i) = NoShares
          BY <2>1, <2>2, <2>4, <3>2, <5>1 DEF Books
        <5>2. CASE SharesOf(i) # NoShares
          BY <2>1, <2>4, <3>2, <5>2 DEF Books
        <5> QED BY <5>1, <5>2
      <4> QED BY <3>1, <3>2, <4>1
    <3>3. CASE ~(i \in Funded /\ entry[i].distributed)
      <4>1. escrow[i] = (IF i \in Funded THEN Amount[i] ELSE 0) /\ toPayer[i] = 0
        BY <2>1, <3>3 DEF Books
      <4> QED BY <2>1, <3>1, <4>1
    <3> QED BY <3>2, <3>3
  <2>5. CASE toDests[i] # NoShares
    <3>1. /\ i \in Funded /\ entry[i].distributed /\ toPayer[i] = 0
          /\ escrow[i] = Amount[i] - SumOver(SharesOf(i), Dests)
          /\ Delivered(i) = SumOver(SharesOf(i), Dests)
      BY <2>1, <2>5 DEF Books, Delivered
    <3> QED BY <2>1, <2>3, <3>1
  <2> QED BY <2>4, <2>5
<1> QED
  BY <1>1, EntriesSound, InitMInv, NextMInv, PTL DEF Spec
=============================================================================
