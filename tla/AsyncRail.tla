----------------------------- MODULE AsyncRail -----------------------------
(***************************************************************************)
(* The rail of crates/paytp-rail/src/async_rail.rs, on which value moves   *)
(* when a transfer is included, not when it is submitted, and an included  *)
(* transfer may be reorganised away until it is final.                     *)
(*                                                                         *)
(* The accounts are the escrow that the merchant's channels share          *)
(* (settle_ptr) and one channel's watermark funded_p; what the recipients  *)
(* and the residue of the instance hold is a function of the watermark.    *)
(* The code's lifecycle controls act on any transfer; here they act as a   *)
(* chain does: the last inclusion is undone first, the first is final      *)
(* first.                                                                  *)
(*                                                                         *)
(* A definition named Bug... is a mistake one could make in the definition *)
(* after it; no specification uses it.                                     *)
(***************************************************************************)
EXTENDS F7, SequencesExt

CONSTANT
  Escrow0    \* what the escrow holds at first

ASSUME RailAssumption == Escrow0 \in Nat

VARIABLES
  refs,      \* the transfers recorded, each an operation
  chain,     \* the transfers included, in order, with what each one moved
  final,     \* how many of them are final
  dropped,   \* the transfers evicted or reorganised away
  escrow,    \* the escrow's balance
  mark       \* the channel's watermark, funded_p

rail == <<refs, chain, final, dropped, escrow, mark>>

RailInit ==
  /\ refs = <<>> /\ chain = <<>> /\ final = 0 /\ dropped = {}
  /\ escrow = Escrow0 /\ mark = 0

\* A plain credit of the escrow, a release from it, or an advance of the watermark;
\* a key of 0 is none.
Plain(amt, key) == [kind |-> "plain", amt |-> amt, key |-> key]
Release(amt, key) == [kind |-> "release", amt |-> amt, key |-> key]
Advance(target) == [kind |-> "advance", amt |-> target, key |-> 0]

Included == {chain[k].ref : k \in DOMAIN chain}
Finalized == {chain[k].ref : k \in 1..final}
Submitted == DOMAIN refs \ (Included \cup dropped)

-----------------------------------------------------------------------------
(* Presenting a transfer: the cover is checked here, the value moves later. *)

Delta(op) == IF op.kind = "plain" THEN 0
             ELSE IF op.kind = "release" THEN op.amt ELSE SatSub(op.amt, mark)

KeyTaken(key) == key # 0 /\ \E i \in DOMAIN refs : refs[i].key = key

\* submit, settle, release, release_keyed and advance_channel_meed.  A key presented
\* again is answered with the transfer it named first, whatever became of it.
Covered(op) ==
  /\ op.kind = "release" => op.amt > 0
  /\ Delta(op) <= escrow

Present(op) ==
  /\ ~KeyTaken(op.key)
  /\ Covered(op)
  /\ refs' = Append(refs, op)
  /\ UNCHANGED <<chain, final, dropped, escrow, mark>>

-----------------------------------------------------------------------------
(* Inclusion, finality and reorganisation.                                 *)

\* advance_channel: the watermark never goes back.
AdvanceChannel(target) == IF target > mark THEN target ELSE mark

\* apply: what a transfer moves when it is included, kept so that it can be undone.
Applied(i) ==
  [ref |-> i, delta |-> Delta(refs[i]), before |-> mark,
   fact |-> IF refs[i].kind = "advance" THEN AdvanceChannel(refs[i].amt) ELSE 0]

\* The debit saturates: the cover was checked when the transfer was presented.
Confirm(i) ==
  LET op == refs[i]
  IN  /\ i \in Submitted
      /\ chain' = Append(chain, Applied(i))
      /\ mark' = IF op.kind = "advance" THEN AdvanceChannel(op.amt) ELSE mark
      /\ escrow' = IF op.kind = "plain" THEN escrow + op.amt ELSE SatSub(escrow, Delta(op))
      /\ UNCHANGED <<refs, final, dropped>>

\* finalize: a transfer still submitted is confirmed first, which is Confirm.
Finalize ==
  /\ final < Len(chain)
  /\ final' = final + 1
  /\ UNCHANGED <<refs, chain, dropped, escrow, mark>>

\* revert: value moves back, and the watermark is what it was before.
Revert(undone) ==
  LET op == refs[undone.ref]
  IN  /\ escrow' = IF op.kind = "plain" THEN SatSub(escrow, op.amt) ELSE escrow + undone.delta
      /\ mark' = undone.before

Reorg ==
  /\ final < Len(chain)
  /\ Revert(Last(chain))
  /\ chain' = Front(chain)
  /\ dropped' = dropped \cup {Last(chain).ref}
  /\ UNCHANGED <<refs, final>>

\* drop_tx, and reorg of a transfer still submitted.
DropTx(i) ==
  /\ i \in Submitted
  /\ dropped' = dropped \cup {i}
  /\ UNCHANGED <<refs, chain, final, escrow, mark>>

-----------------------------------------------------------------------------
(* What an adapter's user reads.                                           *)

\* ref_target: the fact of an advance, which is there only once it is included.
Fact(i) ==
  IF \E k \in DOMAIN chain : chain[k].ref = i
  THEN chain[CHOOSE k \in DOMAIN chain : chain[k].ref = i].fact
  ELSE 0

BugIncludedIsFinal(i) == i \in Included

\* finality_reached at the level the channel requires, which is the last one.
FinalityReached(i) == i \in Finalized

\* The watermark no reorganisation can take back.
FinalMark == IF final = 0 THEN 0 ELSE IF final = Len(chain) THEN mark ELSE chain[final + 1].before
=============================================================================
