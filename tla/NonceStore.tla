----------------------------- MODULE NonceStore -----------------------------
(***************************************************************************)
(* WalMerchantStore of crates/paytp-merchant/src/store.rs: the durable     *)
(* record of the nonces a merchant has consumed, of the payments that      *)
(* bought them and of the receipts it signed.                              *)
(*                                                                         *)
(* It is the log of module OneDecision with a second index, so an append   *)
(* is one step here: it is durable, or it fails and is undone, or it fails *)
(* and poisons the store, with the record in the file or not.  A nonce     *)
(* names its quote, hence idem, resource and signature; what is left of a  *)
(* record is its payment_ref: <<reference>>, or <<meed, net>> for two      *)
(* legs.                                                                   *)
(*                                                                         *)
(* A definition named Bug... is a mistake one could make in the definition *)
(* after it; no specification uses it.                                     *)
(***************************************************************************)
EXTENDS Integers, Sequences

CONSTANT MaxFaults     \* bound on the failed appends and the stops of the process

ASSUME FaultAssumption == MaxFaults \in Nat

VARIABLES
  byNonce,    \* in memory: the receipt of each consumed nonce
  file,       \* in the log: the same
  poisoned,   \* a failed append could not be undone
  faults      \* the failed appends and the stops so far

store == <<byNonce, file, poisoned, faults>>

StoreInit == byNonce = <<>> /\ file = <<>> /\ poisoned = FALSE /\ faults = 0

With(f, n, receipt) == [k \in DOMAIN f \cup {n} |-> IF k = n THEN receipt ELSE f[k]]

\* The net reference of a combined key is a key of its own.
UsedRefKeys(p) == {p, <<p[Len(p)]>>}

BugRefsPerNonce(p) == FALSE

\* used_refs is derived from the records and never apart from them.
RefUsed(p) == \E n \in DOMAIN byNonce : UsedRefKeys(byNonce[n].ref) \cap UsedRefKeys(p) # {}

Peek(n, p) ==
  IF n \in DOMAIN byNonce THEN IF byNonce[n].ref = p THEN "stored" ELSE "replayed"
  ELSE IF RefUsed(p) THEN "replayed" ELSE "fresh"

Append1(n, receipt) ==
  /\ byNonce' = With(byNonce, n, receipt)
  /\ file' = With(file, n, receipt)
  /\ UNCHANGED <<poisoned, faults>>

\* The truncation and the seek after a failed append succeed, or one of them fails.
AppendFails(n, receipt, undone, kept) ==
  /\ faults < MaxFaults
  /\ faults' = faults + 1
  /\ poisoned' = ~undone
  /\ file' = IF kept /\ ~undone THEN With(file, n, receipt) ELSE file
  /\ UNCHANGED byNonce

\* open: memory is rebuilt from the log, here with what was being appended.
Reopen(contents) ==
  /\ file' = contents
  /\ byNonce' = contents
  /\ poisoned' = FALSE
=============================================================================
