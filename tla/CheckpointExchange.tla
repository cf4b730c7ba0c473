------------------------- MODULE CheckpointExchange -------------------------
(***************************************************************************)
(* Two ends of one postpay channel: the payer's wallet                     *)
(* (crates/paytp-wallet/src/channel.rs: next_slice, request_checkpoint,    *)
(* record_operative) and the merchant's books (Metering), with the         *)
(* interaction layer and the network between them.                         *)
(*                                                                         *)
(* The wallet mints slices; the interaction layer delivers them in any     *)
(* order, alone or in a batch, and assembles checkpoint proposals for the  *)
(* wallet to sign.  Requests stay in the network and may be answered again *)
(* and again; a reply may be delivered twice, late or never.               *)
(***************************************************************************)
EXTENDS Metering

VARIABLES
  wallet,   \* the ChannelClient: cum_streamed, next_seq and its operative
  minted,   \* the slices the wallet has sealed, all of them still in the network
  replies   \* the countersigned checkpoints on their way to the wallet

exVars == <<vars, wallet, minted, replies>>

NoOperative == [ref |-> 0, cum |-> 0]

ExInit ==
  /\ Init
  /\ ch = New
  /\ wallet = [cumStreamed |-> 0, nextSeq |-> 1, op |-> NoOperative]
  /\ minted = {}
  /\ replies = {}

-----------------------------------------------------------------------------
(* The wallet.                                                             *)

\* No postpay settlement is wired into the wallet, so nothing is netted off.
PostpayOutstanding == wallet.cumStreamed

BugCapsBeforeMint(amt) == PostpayOutstanding <= LimitL

WithinCredit(amt) == PostpayOutstanding + amt <= LimitL

NextSlice(amt) ==
  /\ wallet.nextSeq <= MaxSeq
  /\ WithinCredit(amt)
  /\ minted' = minted \cup {[seq |-> wallet.nextSeq, amt |-> amt]}
  /\ wallet' = [wallet EXCEPT !.nextSeq = @ + 1, !.cumStreamed = @ + amt]
  /\ UNCHANGED <<vars, replies>>

\* checkpoint_basis_ok
BasisOk(p) ==
  /\ p.cum <= wallet.cumStreamed
  /\ \A r \in Roles : p.accr[r] = p.cum * Bp[r]

RequestCheckpoint(cutoff, ref) ==
  /\ ProposeCheckpoint(cutoff, ref)
  /\ \A p \in proposals' \ proposals : BasisOk(p)
  /\ UNCHANGED <<wallet, minted, replies>>

\* Only a strictly greater (CUM_TOTAL, CKPT_REF) supersedes.
Supersedes(p) ==
  \/ wallet.op = NoOperative
  \/ p.cum > wallet.op.cum
  \/ p.cum = wallet.op.cum /\ p.ref > wallet.op.ref

\* record_operative; the reply may still be delivered again.
RecordOperative(p) ==
  /\ BasisOk(p) /\ Supersedes(p)
  /\ wallet' = [wallet EXCEPT !.op = [ref |-> p.ref, cum |-> p.cum]]
  /\ UNCHANGED <<vars, minted, replies>>

-----------------------------------------------------------------------------
(* The merchant, and the network.                                          *)

Deliver ==
  /\ \/ \E s \in minted : BatchOfOne(s)
     \/ \E s, t \in minted : BatchOfTwo(s, t)
  /\ UNCHANGED <<wallet, minted, replies>>

Countersign(p) ==
  /\ OnCheckpointRequest(p)
  /\ replies' = replies \cup {p}
  /\ UNCHANGED <<wallet, minted>>

BugNoReanswer(p) == FALSE

\* A proposal that no longer recomputes because it is the operative one already.
IsRetry(p) == ~Recomputes(ch, p) /\ operative = p

Reanswer(p) ==
  /\ IsRetry(p)
  /\ replies' = replies \cup {p}
  /\ UNCHANGED <<vars, wallet, minted>>

LoseReply(p) ==
  /\ replies' = replies \ {p}
  /\ UNCHANGED <<vars, wallet, minted>>

ExNext ==
  \/ \E amt \in 0..MaxAmt : NextSlice(amt)
  \/ Deliver
  \/ \E cutoff \in 0..MaxSeq, ref \in 1..MaxRef : RequestCheckpoint(cutoff, ref)
  \/ \E p \in proposals : Countersign(p) \/ Reanswer(p)
  \/ \E p \in replies : RecordOperative(p) \/ LoseReply(p)

ExSpec == ExInit /\ [][ExNext]_exVars

\* The payer retries every request it has signed, and a reply that is sent over
\* and over again is not lost every time.
Answered(ref) == \E p \in proposals : p.ref = ref /\ (Countersign(p) \/ Reanswer(p))
Received(ref) == \E p \in replies : p.ref = ref /\ RecordOperative(p)

RetrySpec ==
  /\ ExSpec
  /\ \A ref \in 1..MaxRef : SF_exVars(Answered(ref)) /\ SF_exVars(Received(ref))

-----------------------------------------------------------------------------
(* Properties.                                                             *)

\* next_slice caps what the wallet mints at L_credit, so whatever order, batches
\* and repetitions the interaction layer delivers, an honest payer's channel is
\* never window-paused by accept_slice.
HonestPayerNeverPaused == ~ch.pausedWindow

\* on_checkpoint_request answers a retry of the operative checkpoint, so a lost
\* reply does not leave the payer behind: the two ends converge on CUM_TOTAL.
ReceiptRecovered ==
  <>[](operative # NoCheckpoint => wallet.op.cum = operative.cum)
=============================================================================
