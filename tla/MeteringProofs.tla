--------------------------- MODULE MeteringProofs ---------------------------
(***************************************************************************)
(* Proofs about Metering, for every mode, limit, vector and bound.         *)
(*                                                                         *)
(* The inductive invariant rests on two facts that the properties do not   *)
(* say by themselves: B is never below the metered value net of credits    *)
(* (the clamp of credit_funding only ever raises it), and every accepted   *)
(* slice is either at or below the floor or still in the window, so that   *)
(* the two SEQ checks of accept_slice together remember every slice.       *)
(*                                                                         *)
(* The parts are stated of any books c with log l, because accept_batch    *)
(* runs the acceptance on a tentative copy.                                *)
(*                                                                         *)
(* A second invariant, MeterInv, ties the counts to the slices: the window *)
(* is what the log has above the floor, unevidenced its value, CUM_TOTAL   *)
(* the value of the whole log, and the head the transcript of what is at   *)
(* or below the floor.  A checkpoint cut at any LAST_SEQ then states what  *)
(* the log says, and keeps doing so because its prefix is frozen.  ExInv   *)
(* adds the wallet's side.                                                 *)
(***************************************************************************)
EXTENDS CheckpointExchange, SumsProofs, SequenceTheorems, TLAPS

Fields == {"key", "phase", "balance", "cum", "accr", "unevidenced", "floor",
           "window", "head", "pausedWindow", "pausedEvidence"}

\* The part of the type invariant that needs no sum over the window.
BooksTyped(c, l) ==
  /\ DOMAIN c = Fields
  /\ c.balance \in Int /\ c.cum \in Nat /\ c.floor \in 0..MaxSeq
  /\ c.phase \in Phases
  /\ c.window \subseteq Slices
  /\ l \subseteq Slices

\* B is an upper estimate of what is owed, inside the mode's window.
BalanceCovers(c, paid) ==
  /\ BoundLower <= c.balance /\ c.balance <= BoundUpper
  /\ opening.balance + (c.cum - opening.cum) - paid <= c.balance

\* The floor and the window together remember every SEQ accepted.
SeqsRemembered(c, l) ==
  /\ \A s \in c.window : s.seq > c.floor
  /\ \A s \in l : s.seq <= c.floor \/ s \in c.window
  /\ \A s, t \in l : s.seq = t.seq => s = t

\* A closed channel has no key.
KeyErased(c) == c.phase = "closed" => c.key = FALSE

BooksInv(c, l, paid) ==
  /\ BooksTyped(c, l)
  /\ BalanceCovers(c, paid)
  /\ SeqsRemembered(c, l)
  /\ KeyErased(c)

IInv ==
  /\ opening.cum \in Nat /\ opening.balance \in Int /\ credits \in Nat
  /\ BooksInv(ch, log, credits)
  /\ \A p \in proposals : p.lastSeq \in 0..MaxSeq
  /\ \A p \in countersigned : p.lastSeq \in 0..MaxSeq /\ p.lastSeq <= ch.floor

-----------------------------------------------------------------------------
(* The mode's window contains 0 and has integer ends.                      *)
LEMMA BoundsAreIntegers ==
  /\ BoundUpper \in Int /\ BoundLower \in Int
  /\ BoundLower <= 0 /\ 0 <= BoundUpper
BY ModeAssumption, LimitAssumption DEF BoundUpper, BoundLower

(* Init establishes the invariant, for a fresh and for an imported channel. *)
LEMMA InitIInv == Init => IInv
<1> SUFFICES ASSUME Init PROVE IInv
  OBVIOUS
<1> DEFINE Opened ==
      /\ DOMAIN ch = Fields
      /\ ch.balance \in BoundLower..BoundUpper /\ ch.cum \in Nat
      /\ ch.floor = 0 /\ ch.phase = "open" /\ ch.window = {}
<1>1. Opened
  <2>1. CASE ch = New
    BY <2>1, BoundsAreIntegers DEF New, Fields
  <2>2. ASSUME NEW cum \in ImportedCums, NEW b \in BoundLower..BoundUpper,
               ch = NewImported(cum, [r \in Roles |-> cum * Bp[r]], b)
        PROVE  Opened
    BY <2>2, BoundsAreIntegers, BoundAssumption DEF New, NewImported, Fields
  <2> QED
    BY <2>1, <2>2 DEF Init
<1> QED
  BY <1>1, BoundsAreIntegers, BoundAssumption
  DEF Init, IInv, BooksInv, BooksTyped, BalanceCovers, SeqsRemembered, KeyErased, Phases

-----------------------------------------------------------------------------
(* accept_slice: a slice that passes every check keeps the books sound.    *)
LEMMA AcceptKeeps ==
  ASSUME NEW c, NEW l, NEW paid \in Nat, NEW s \in Slices,
         opening.cum \in Nat, opening.balance \in Int,
         BooksInv(c, l, paid), Accepts(c, s)
  PROVE  /\ BooksInv(Accepted(c, s), l \cup {s}, paid)
         /\ Accepted(c, s).floor = c.floor
<1> DEFINE d == Accepted(c, s)
<1>1. /\ DOMAIN d = Fields
      /\ d.balance = c.balance + s.amt /\ d.cum = c.cum + s.amt
      /\ d.window = c.window \cup {s} /\ d.floor = c.floor
      /\ d.phase = c.phase /\ d.key = c.key
  BY DEF Accepted, BooksInv, BooksTyped, Fields
<1>2. s.amt \in Nat /\ s.seq \in Nat /\ BoundUpper \in Int /\ BoundLower \in Int
  BY BoundsAreIntegers, BoundAssumption DEF Slices
<1>3. c.balance + s.amt <= BoundUpper /\ s.seq > c.floor /\ s.seq \notin Accounted(c)
  BY DEF Accepts, Admissible
<1> HIDE DEF d
<1>4. BooksTyped(d, l \cup {s})
  BY <1>1, <1>2 DEF BooksInv, BooksTyped
<1>5. BalanceCovers(d, paid)
  BY <1>1, <1>2, <1>3 DEF BooksInv, BooksTyped, BalanceCovers
<1>6. SeqsRemembered(d, l \cup {s})
  <2>1. \A t \in l : t.seq # s.seq
    <3> SUFFICES ASSUME NEW t \in l, t.seq = s.seq PROVE FALSE
      OBVIOUS
    <3>1. t.seq > c.floor /\ t.seq \notin Accounted(c)
      BY <1>3
    <3>2. t \in c.window
      BY <3>1 DEF BooksInv, BooksTyped, SeqsRemembered, Slices
    <3> QED
      BY <3>1, <3>2 DEF Accounted
  <2> QED
    BY <1>1, <1>3, <2>1 DEF BooksInv, SeqsRemembered
<1>7. KeyErased(d)
  BY <1>1 DEF BooksInv, KeyErased
<1> QED
  BY <1>1, <1>4, <1>5, <1>6, <1>7 DEF BooksInv, d

(* A window breach changes the pause flag only.                            *)
LEMMA PauseKeeps ==
  ASSUME NEW c, NEW l, NEW paid, BooksInv(c, l, paid)
  PROVE  /\ BooksInv([c EXCEPT !.pausedWindow = TRUE], l, paid)
         /\ [c EXCEPT !.pausedWindow = TRUE].floor = c.floor
<1> DEFINE d == [c EXCEPT !.pausedWindow = TRUE]
<1>1. /\ DOMAIN d = Fields
      /\ d.balance = c.balance /\ d.cum = c.cum /\ d.window = c.window
      /\ d.floor = c.floor /\ d.phase = c.phase /\ d.key = c.key
  BY DEF BooksInv, BooksTyped, Fields
<1> HIDE DEF d
<1>2. BooksInv(d, l, paid) /\ d.floor = c.floor
  BY <1>1 DEF BooksInv, BooksTyped, BalanceCovers, SeqsRemembered, KeyErased
<1> QED
  BY <1>2 DEF d

(* credit_funding: the clamp at the lower bound only ever raises B.        *)
LEMMA CreditKeeps ==
  ASSUME NEW c, NEW l, NEW paid \in Nat, NEW amount \in Nat,
         opening.cum \in Nat, opening.balance \in Int, BooksInv(c, l, paid)
  PROVE  /\ BooksInv(Credited(c, amount), l, paid + amount)
         /\ Credited(c, amount).floor = c.floor
<1> DEFINE d == Credited(c, amount)
<1>1. /\ DOMAIN d = Fields
      /\ d.balance = IF c.balance - amount < BoundLower
                     THEN BoundLower ELSE c.balance - amount
      /\ d.cum = c.cum /\ d.window = c.window
      /\ d.floor = c.floor /\ d.phase = c.phase /\ d.key = c.key
  BY DEF Credited, BooksInv, BooksTyped, Fields
<1> HIDE DEF d
<1>2. BalanceCovers(d, paid + amount) /\ d.balance \in Int
  BY <1>1, BoundsAreIntegers DEF BooksInv, BooksTyped, BalanceCovers
<1>3. BooksInv(d, l, paid + amount) /\ d.floor = c.floor
  BY <1>1, <1>2 DEF BooksInv, BooksTyped, SeqsRemembered, KeyErased
<1> QED
  BY <1>3 DEF d

(* The proposals that ProposeCheckpoint cuts name their own cutoff.        *)
LEMMA LastSeqIsCutoff ==
  ASSUME NEW c, NEW l, NEW paid, BooksInv(c, l, paid),
         NEW cutoff \in Accounted(c) \cup {c.floor}
  PROVE  LastSeq(c, cutoff) = cutoff /\ cutoff \in 0..MaxSeq
<1>1. \A s \in c.window : s.seq > c.floor /\ s.seq \in 1..MaxSeq
  BY DEF BooksInv, BooksTyped, SeqsRemembered, Slices
<1>2. c.floor \in 0..MaxSeq
  BY DEF BooksInv, BooksTyped
<1>3. CASE cutoff = c.floor
  <2>1. UpTo(c, cutoff) = {}
    BY <1>1, <1>2, <1>3, BoundAssumption DEF UpTo
  <2> QED
    BY <1>2, <1>3, <2>1 DEF LastSeq
<1>4. CASE cutoff \in Accounted(c)
  <2> DEFINE S == {s.seq : s \in UpTo(c, cutoff)}
  <2>1. cutoff \in S /\ cutoff \in 1..MaxSeq /\ UpTo(c, cutoff) # {}
    BY <1>1, <1>4, BoundAssumption DEF Accounted, UpTo
  <2>2. \A y \in S : y \in Int /\ y <= cutoff
    BY <1>1, <1>4, BoundAssumption DEF UpTo
  <2> HIDE DEF S
  <2>3. \E x \in S : \A y \in S : x >= y
    BY <2>1, <2>2, BoundAssumption
  <2>4. Max(S) \in S /\ \A y \in S : Max(S) >= y
    BY <2>3 DEF Max
  <2>5. Max(S) = cutoff
    <3> DEFINE m == Max(S)
    <3>1. m \in S /\ m >= cutoff
      BY <2>1, <2>4
    <3> HIDE DEF m
    <3>2. m = cutoff
      BY <2>1, <2>2, <3>1, BoundAssumption
    <3> QED
      BY <3>2 DEF m
  <2> QED
    BY <2>1, <2>5, BoundAssumption DEF LastSeq, S
<1> QED
  BY <1>3, <1>4

(* A proposal that recomputes never names a LAST_SEQ below the floor.      *)
LEMMA RecomputedAtOrAboveFloor ==
  ASSUME NEW c, NEW l, NEW paid, NEW p, BooksInv(c, l, paid),
         p.lastSeq \in 0..MaxSeq, Recomputes(c, p)
  PROVE  p.lastSeq >= c.floor
<1>1. p.lastSeq = LastSeq(c, p.lastSeq)
  <2>1. BuildCheckpointAt(c, p.lastSeq, p.ref).lastSeq = LastSeq(c, p.lastSeq)
    BY DEF BuildCheckpointAt
  <2> QED
    BY <2>1 DEF Recomputes
<1>2. CASE UpTo(c, p.lastSeq) = {}
  BY <1>1, <1>2, BoundAssumption DEF LastSeq, BooksInv, BooksTyped
<1>3. CASE UpTo(c, p.lastSeq) # {}
  <2>1. PICK s \in c.window : s.seq <= p.lastSeq
    BY <1>3 DEF UpTo
  <2>2. s.seq > c.floor /\ s.seq \in Nat
    BY BoundAssumption DEF BooksInv, BooksTyped, SeqsRemembered, Slices
  <2> QED
    BY <2>1, <2>2, BoundAssumption DEF BooksInv, BooksTyped
<1> QED
  BY <1>2, <1>3

(* checkpoint_upto: moving the floor up to a cutoff forgets no SEQ.        *)
LEMMA CheckpointKeeps ==
  ASSUME NEW c, NEW l, NEW paid, NEW cutoff \in 0..MaxSeq,
         BooksInv(c, l, paid), cutoff >= c.floor
  PROVE  /\ BooksInv(CheckpointUpTo(c, cutoff), l, paid)
         /\ CheckpointUpTo(c, cutoff).floor = cutoff
         /\ CheckpointUpTo(c, cutoff).pausedWindow = c.pausedWindow
         /\ CheckpointUpTo(c, cutoff).phase = c.phase
         /\ CheckpointUpTo(c, cutoff).key = c.key
<1> DEFINE d == CheckpointUpTo(c, cutoff)
<1>1. /\ DOMAIN d = Fields
      /\ d.balance = c.balance /\ d.cum = c.cum /\ d.window = Above(c, cutoff)
      /\ d.floor = cutoff /\ d.phase = c.phase /\ d.key = c.key
      /\ d.pausedWindow = c.pausedWindow
  BY DEF CheckpointUpTo, BooksInv, BooksTyped, Fields
<1> HIDE DEF d
<1>2. BooksTyped(d, l) /\ BalanceCovers(d, paid) /\ KeyErased(d)
  BY <1>1 DEF BooksInv, BooksTyped, BalanceCovers, KeyErased, Above
<1>3. SeqsRemembered(d, l)
  <2>1. \A s \in l : s.seq \in Nat
    BY BoundAssumption DEF BooksInv, BooksTyped, Slices
  <2>2. c.floor \in Nat
    BY BoundAssumption DEF BooksInv, BooksTyped
  <2> QED
    BY <1>1, <2>1, <2>2, BoundAssumption DEF BooksInv, SeqsRemembered, Above
<1>4. BooksInv(d, l, paid)
  BY <1>2, <1>3 DEF BooksInv
<1> QED
  BY <1>1, <1>4 DEF d

(* begin_settling and close move the phase and the key, nothing else.      *)
LEMMA PhaseKeeps ==
  ASSUME NEW c, NEW l, NEW paid, BooksInv(c, l, paid),
         NEW d \in {BeganSettling(c), Closed(c)}
  PROVE  /\ BooksInv(d, l, paid) /\ d.floor = c.floor
         /\ d.pausedWindow = c.pausedWindow
         /\ d.phase # "open"
         /\ c.phase = "closed" => d.phase = "closed"
<1>1. /\ DOMAIN d = Fields
      /\ d.balance = c.balance /\ d.cum = c.cum /\ d.window = c.window
      /\ d.floor = c.floor /\ d.pausedWindow = c.pausedWindow
      /\ d.phase \in {"settling", "closed"}
      /\ c.phase = "closed" => d.phase = "closed"
      /\ d.phase = "closed" => d.key = FALSE
  <2>1. CASE d = BeganSettling(c)
    BY <2>1 DEF BeganSettling, BooksInv, BooksTyped, KeyErased, Fields
  <2>2. CASE d = Closed(c)
    BY <2>2 DEF Closed, BooksInv, BooksTyped, Fields
  <2> QED
    BY <2>1, <2>2
<1> QED
  BY <1>1 DEF BooksInv, BooksTyped, BalanceCovers, SeqsRemembered, KeyErased, Phases

-----------------------------------------------------------------------------
(* Every action preserves the invariant.                                   *)
LEMMA NextIInv == IInv /\ [Next]_vars => IInv'
<1> SUFFICES ASSUME IInv, [Next]_vars PROVE IInv'
  OBVIOUS
<1>0. /\ opening.cum \in Nat /\ opening.balance \in Int /\ credits \in Nat
      /\ BooksInv(ch, log, credits)
      /\ \A p \in proposals : p.lastSeq \in 0..MaxSeq
      /\ \A p \in countersigned : p.lastSeq \in 0..MaxSeq /\ p.lastSeq <= ch.floor
  BY DEF IInv
<1> DEFINE Kept == /\ opening' = opening /\ credits' \in Nat
                   /\ BooksInv(ch', log', credits')
                   /\ \A p \in proposals' : p.lastSeq \in 0..MaxSeq
                   /\ \A p \in countersigned' :
                        p.lastSeq \in 0..MaxSeq /\ p.lastSeq <= ch'.floor
<1>1. ASSUME NEW s \in Slices, BatchOfOne(s) PROVE Kept
  <2>1. CASE Accepts(ch, s) /\ ch' = Accepted(ch, s) /\ log' = log \cup {s}
    BY <1>0, <1>1, <2>1, AcceptKeeps DEF BatchOfOne
  <2>2. CASE ch' = [ch EXCEPT !.pausedWindow = TRUE] /\ log' = log
    BY <1>0, <1>1, <2>2, PauseKeeps DEF BatchOfOne
  <2> QED
    BY <1>1, <2>1, <2>2 DEF BatchOfOne
<1>2. ASSUME NEW s \in Slices, NEW t \in Slices, BatchOfTwo(s, t) PROVE Kept
  <2>1. CASE /\ Accepts(ch, s) /\ Accepts(Accepted(ch, s), t)
             /\ ch' = Accepted(Accepted(ch, s), t) /\ log' = log \cup {s, t}
    <3>1. /\ BooksInv(Accepted(ch, s), log \cup {s}, credits)
          /\ Accepted(ch, s).floor = ch.floor
      BY <1>0, <2>1, AcceptKeeps
    <3>2. /\ BooksInv(ch', (log \cup {s}) \cup {t}, credits)
          /\ ch'.floor = ch.floor
      BY <1>0, <2>1, <3>1, AcceptKeeps
    <3>3. (log \cup {s}) \cup {t} = log'
      BY <2>1
    <3> QED
      BY <1>0, <1>2, <3>2, <3>3 DEF BatchOfTwo
  <2>2. CASE ch' = [ch EXCEPT !.pausedWindow = TRUE] /\ log' = log
    BY <1>0, <1>2, <2>2, PauseKeeps DEF BatchOfTwo
  <2> QED
    BY <1>2, <2>1, <2>2 DEF BatchOfTwo
<1>3. ASSUME NEW amount \in 0..MaxCredit, CreditFunding(amount) PROVE Kept
  <2>1. amount \in Nat /\ ch' = Credited(ch, amount) /\ credits' = credits + amount
    BY <1>3, BoundAssumption DEF CreditFunding
  <2>2. BooksInv(ch', log, credits') /\ ch'.floor = ch.floor
    BY <1>0, <2>1, CreditKeeps
  <2> QED
    BY <1>0, <1>3, <2>1, <2>2 DEF CreditFunding
<1>4. ASSUME NEW gross \in 0..MaxCredit, ApplySettlementRound(gross) PROVE Kept
  <2>1. gross \in Nat /\ ch' = Credited(ch, gross) /\ credits' = credits + gross
    BY <1>4, BoundAssumption DEF ApplySettlementRound, Settled
  <2>2. BooksInv(ch', log, credits') /\ ch'.floor = ch.floor
    BY <1>0, <2>1, CreditKeeps
  <2> QED
    BY <1>0, <1>4, <2>1, <2>2 DEF ApplySettlementRound
<1>5. ASSUME NEW cutoff \in 0..MaxSeq, NEW ref \in 1..MaxRef,
             ProposeCheckpoint(cutoff, ref)
      PROVE  Kept
  <2>1. BuildCheckpointAt(ch, cutoff, ref).lastSeq \in 0..MaxSeq
    BY <1>0, <1>5, LastSeqIsCutoff DEF ProposeCheckpoint, BuildCheckpointAt
  <2> QED
    BY <1>0, <1>5, <2>1 DEF ProposeCheckpoint
<1>6. ASSUME NEW p \in proposals, OnCheckpointRequest(p) PROVE Kept
  <2>1. p.lastSeq \in 0..MaxSeq /\ p.lastSeq >= ch.floor
    BY <1>0, <1>6, RecomputedAtOrAboveFloor DEF OnCheckpointRequest
  <2>2. BooksInv(ch', log, credits) /\ ch'.floor = p.lastSeq
    BY <1>0, <1>6, <2>1, CheckpointKeeps DEF OnCheckpointRequest
  <2>3. \A q \in countersigned' : q.lastSeq \in 0..MaxSeq /\ q.lastSeq <= ch'.floor
    <3>1. ASSUME NEW q \in countersigned PROVE q.lastSeq \in 0..MaxSeq /\ q.lastSeq <= p.lastSeq
      <4>1. q.lastSeq \in 0..MaxSeq /\ q.lastSeq <= ch.floor /\ ch.floor \in 0..MaxSeq
        BY <1>0 DEF BooksInv, BooksTyped
      <4> QED
        BY <2>1, <4>1, BoundAssumption
    <3> QED
      BY <1>6, <2>1, <2>2, <3>1, BoundAssumption DEF OnCheckpointRequest
  <2> QED
    BY <1>0, <1>6, <2>2, <2>3 DEF OnCheckpointRequest
<1>7. ASSUME BeginSettling PROVE Kept
  BY <1>0, <1>7, PhaseKeeps DEF BeginSettling
<1>8. ASSUME Close PROVE Kept
  BY <1>0, <1>8, PhaseKeeps DEF Close
<1>9. ASSUME UNCHANGED vars PROVE Kept
  BY <1>0, <1>9 DEF vars
<1> HIDE DEF Kept
<1>10. Kept
  BY <1>1, <1>2, <1>3, <1>4, <1>5, <1>6, <1>7, <1>8, <1>9 DEF Next
<1> USE DEF Kept
<1>11. BooksInv(ch, log, credits)'
  <2>1. BooksInv(ch', log', credits') /\ opening' = opening
    BY <1>10
  <2>2. BooksTyped(ch, log)' /\ SeqsRemembered(ch, log)' /\ KeyErased(ch)'
    BY <2>1 DEF BooksInv, BooksTyped, SeqsRemembered, KeyErased
  <2>3. BalanceCovers(ch, credits)'
    BY <2>1 DEF BooksInv, BalanceCovers, BoundLower, BoundUpper
  <2> QED
    BY <2>2, <2>3 DEF BooksInv
<1> QED
  BY <1>0, <1>10, <1>11 DEF IInv

(* The inductive invariant holds in every reachable state.                 *)
THEOREM BooksSound == Spec => []IInv
<1> QED
  BY InitIInv, NextIInv, PTL DEF Spec

-----------------------------------------------------------------------------
(* A batch that hit the window bars the channel until value comes in.      *)

BarInv == refused \subseteq {log} /\ (refused # {} => ch.pausedWindow)

(* A pause is lifted by value alone, and no slice is accepted while it lasts. *)
LEMMA NextBar == IInv /\ BarInv /\ [Next]_vars => BarInv'
<1> SUFFICES ASSUME IInv, BarInv, [Next]_vars PROVE BarInv'
  OBVIOUS
<1>0. DOMAIN ch = Fields
  BY DEF IInv, BooksInv, BooksTyped
<1>1. ASSUME NEW s \in Slices, BatchOfOne(s) PROVE BarInv'
  BY <1>0, <1>1 DEF BatchOfOne, Accepts, BarInv, Fields
<1>2. ASSUME NEW s \in Slices, NEW t \in Slices, BatchOfTwo(s, t) PROVE BarInv'
  BY <1>0, <1>2 DEF BatchOfTwo, Accepts, BarInv, Fields
<1>3. ASSUME NEW amount \in 0..MaxCredit, CreditFunding(amount) PROVE BarInv'
  <2>1. Credited(ch, amount).pausedWindow = (ch.pausedWindow /\ amount = 0)
    BY <1>0 DEF Credited, Fields
  <2>2. /\ ch' = Credited(ch, amount) /\ log' = log
        /\ refused' = IF amount > 0 THEN {} ELSE refused
        /\ ~(amount > 0) => amount = 0
    BY <1>3, BoundAssumption DEF CreditFunding
  <2> QED
    BY <2>1, <2>2, Zenon DEF BarInv
<1>4. ASSUME NEW gross \in 0..MaxCredit, ApplySettlementRound(gross) PROVE BarInv'
  <2>1. Credited(ch, gross).pausedWindow = (ch.pausedWindow /\ gross = 0)
    BY <1>0 DEF Credited, Fields
  <2>2. /\ ch' = Credited(ch, gross) /\ log' = log
        /\ refused' = IF gross > 0 THEN {} ELSE refused
        /\ ~(gross > 0) => gross = 0
    BY <1>4, BoundAssumption DEF ApplySettlementRound, Settled
  <2> QED
    BY <2>1, <2>2, Zenon DEF BarInv
<1>5. ASSUME NEW cutoff \in 0..MaxSeq, NEW ref \in 1..MaxRef, ProposeCheckpoint(cutoff, ref)
      PROVE  BarInv'
  BY <1>5 DEF ProposeCheckpoint, BarInv
<1>6. ASSUME NEW p \in proposals, OnCheckpointRequest(p) PROVE BarInv'
  BY <1>0, <1>6 DEF OnCheckpointRequest, CheckpointUpTo, BarInv, Fields
<1>7. ASSUME BeginSettling \/ Close PROVE BarInv'
  BY <1>0, <1>7 DEF BeginSettling, BeganSettling, Close, Closed, BarInv, Fields
<1>8. CASE UNCHANGED vars
  BY <1>8 DEF vars, BarInv
<1> QED
  BY <1>1, <1>2, <1>3, <1>4, <1>5, <1>6, <1>7, <1>8 DEF Next

(* B stays in the mode's window and the merchant's exposure stays within L, *)
(* whatever slices, batches, funding, rounds and checkpoints interleave; and *)
(* a refused demand is not met by a smaller one before value comes in.      *)
THEOREM CreditBoundHolds == Spec => []CreditBound
<1>1. IInv /\ BarInv => CreditBound
  <2> SUFFICES ASSUME IInv, BarInv PROVE CreditBound
    OBVIOUS
  <2>1. /\ opening.cum \in Nat /\ opening.balance \in Int /\ credits \in Nat
        /\ ch.balance \in Int /\ ch.cum \in Nat
        /\ BalanceCovers(ch, credits)
    BY DEF IInv, BooksInv, BooksTyped
  <2> QED
    BY <2>1, BoundsAreIntegers DEF BalanceCovers, BarInv, CreditBound
<1>2. Init => BarInv
  BY DEF Init, BarInv
<1> QED
  BY <1>1, <1>2, NextBar, BooksSound, PTL DEF Spec

(* No SEQ is ever metered twice, nor with two amounts.                     *)
THEOREM OneSlicePerSeqHolds == Spec => []OneSlicePerSeq
<1>1. IInv => OneSlicePerSeq
  BY DEF IInv, BooksInv, SeqsRemembered, OneSlicePerSeq
<1> QED
  BY <1>1, BooksSound, PTL

(* No step meters a slice at or below the LAST_SEQ of a countersigned      *)
(* checkpoint, nor forgets one.                                            *)
LEMMA FrozenStep ==
  ASSUME IInv, [Next]_vars
  PROVE  /\ log \subseteq log'
         /\ \A p \in countersigned : \A s \in log' \ log : s.seq > p.lastSeq
<1>1. log \subseteq log'
  BY DEF Next, BatchOfOne, BatchOfTwo, CreditFunding, ApplySettlementRound, ProposeCheckpoint,
         OnCheckpointRequest, BeginSettling, Close, vars
<1> SUFFICES ASSUME NEW p \in countersigned, NEW s \in log' \ log
             PROVE  s.seq > p.lastSeq
  BY <1>1
<1>2. p.lastSeq \in Nat /\ p.lastSeq <= ch.floor /\ ch.floor \in Nat
  BY BoundAssumption DEF IInv, BooksInv, BooksTyped
<1>3. s \in Slices /\ s.seq > ch.floor
  <2>1. CASE \E t \in Slices : BatchOfOne(t)
    BY <2>1 DEF BatchOfOne, Accepts, Admissible
  <2>2. CASE \E t, u \in Slices : BatchOfTwo(t, u)
    <3>1. PICK t \in Slices, u \in Slices : BatchOfTwo(t, u)
      BY <2>2
    <3>2. Accepts(ch, t) /\ Accepts(Accepted(ch, t), u) /\ s \in {t, u}
      BY <3>1 DEF BatchOfTwo
    <3>3. Accepted(ch, t).floor = ch.floor
      BY <3>2, AcceptKeeps DEF IInv
    <3> QED
      BY <3>2, <3>3 DEF Accepts, Admissible
  <2>3. CASE log' = log
    BY <2>3
  <2> QED
    BY <2>1, <2>2, <2>3
    DEF Next, CreditFunding, ApplySettlementRound, ProposeCheckpoint,
        OnCheckpointRequest, BeginSettling, Close, vars
<1> QED
  BY <1>2, <1>3, BoundAssumption DEF Slices

(* The prefix that a countersigned checkpoint covers never gains a slice.  *)
THEOREM CoverageFrozenHolds == Spec => CoverageFrozen
<1>1. ASSUME IInv, [Next]_vars
      PROVE  \/ \A p \in countersigned : \A s \in log' \ log : s.seq > p.lastSeq
             \/ UNCHANGED vars
  BY <1>1, FrozenStep
<1> QED
  BY <1>1, BooksSound, PTL DEF Spec, CoverageFrozen

-----------------------------------------------------------------------------
(* Amounts of sets of slices.                                              *)

AmtOf == [s \in Slices |-> s.amt]

(* A channel's slices are finitely many.                                   *)
LEMMA SlicesFinite == \A T \in SUBSET Slices : IsFiniteSet(T)
<1>1. IsFiniteSet(1..MaxSeq) /\ IsFiniteSet(0..MaxAmt)
  BY FS_Interval, BoundAssumption
<1>2. IsFiniteSet((1..MaxSeq) \X (0..MaxAmt))
  BY <1>1, FS_Product
<1> DEFINE f == [s \in Slices |-> <<s.seq, s.amt>>]
<1>3. f \in Injection(Slices, (1..MaxSeq) \X (0..MaxAmt))
  <2>1. \A s \in Slices : f[s] \in (1..MaxSeq) \X (0..MaxAmt)
    BY DEF Slices
  <2>2. \A s, t \in Slices : f[s] = f[t] => s = t
    BY DEF Slices
  <2> QED BY <2>1, <2>2 DEF Injection, IsInjective
<1> HIDE DEF f
<1>4. IsFiniteSet(Slices)
  BY <1>2, <1>3, FS_Injection
<1> QED
  BY <1>4, FS_Subset

(* Amount is a sum of one function, and a natural number.                  *)
LEMMA AmountIs ==
  ASSUME NEW T \in SUBSET Slices
  PROVE  /\ Amount(T) = SumOver(AmtOf, T) /\ Amount(T) \in Nat
         /\ IsFiniteSet(T) /\ IntOn(AmtOf, T) /\ NatOn(AmtOf, T)
<1> DEFINE g == [s \in T |-> s.amt]
<1>1. IsFiniteSet(T)
  BY SlicesFinite
<1>2. NatOn(AmtOf, T) /\ IntOn(AmtOf, T) /\ IntOn(g, T) /\ SameOn(g, AmtOf, T)
  BY BoundAssumption DEF NatOn, IntOn, SameOn, AmtOf, Slices
<1> HIDE DEF g
<1>3. SumOver(g, T) = SumOver(AmtOf, T)
  BY <1>1, <1>2, SumCong
<1>4. SumOver(AmtOf, T) \in Nat
  BY <1>1, <1>2, SumNat
<1> QED
  BY <1>1, <1>2, <1>3, <1>4 DEF Amount, g

(* Nothing is worth nothing.                                               *)
LEMMA AmountEmpty == Amount({}) = 0
  BY SumEmpty DEF Amount

(* One more slice adds its amount.                                         *)
LEMMA AmountAdd ==
  ASSUME NEW T \in SUBSET Slices, NEW s \in Slices, s \notin T
  PROVE  Amount(T \cup {s}) = Amount(T) + s.amt
<1>1. T \cup {s} \in SUBSET Slices
  OBVIOUS
<1>2. /\ Amount(T \cup {s}) = SumOver(AmtOf, T \cup {s}) /\ IntOn(AmtOf, T \cup {s})
      /\ Amount(T) = SumOver(AmtOf, T) /\ IsFiniteSet(T) /\ Amount(T) \in Nat
  BY <1>1, AmountIs
<1>3. SumOver(AmtOf, T \cup {s}) = AmtOf[s] + SumOver(AmtOf, T)
  BY <1>2, SumInsert
<1>4. AmtOf[s] = s.amt /\ s.amt \in Nat
  BY BoundAssumption DEF AmtOf, Slices
<1> QED
  BY <1>2, <1>3, <1>4

(* Two sets of slices with none in common.                                 *)
LEMMA AmountSplit ==
  ASSUME NEW T \in SUBSET Slices, NEW U \in SUBSET Slices, T \cap U = {}
  PROVE  Amount(T \cup U) = Amount(T) + Amount(U)
<1>1. T \cup U \in SUBSET Slices
  OBVIOUS
<1>2. /\ Amount(T \cup U) = SumOver(AmtOf, T \cup U) /\ IntOn(AmtOf, T \cup U)
      /\ Amount(T) = SumOver(AmtOf, T) /\ IsFiniteSet(T)
      /\ Amount(U) = SumOver(AmtOf, U) /\ IsFiniteSet(U)
  BY <1>1, AmountIs
<1>3. SumOver(AmtOf, T \cup U) = SumOver(AmtOf, T) + SumOver(AmtOf, U)
  BY <1>2, SumUnion
<1> QED
  BY <1>2, <1>3

(* Fewer slices are worth no more.                                         *)
LEMMA AmountSub ==
  ASSUME NEW U \in SUBSET Slices, NEW T \in SUBSET U
  PROVE  Amount(T) <= Amount(U)
<1>1. /\ Amount(T) = SumOver(AmtOf, T) /\ Amount(U) = SumOver(AmtOf, U)
      /\ IsFiniteSet(U) /\ NatOn(AmtOf, U)
  BY AmountIs
<1> QED
  BY <1>1, SumSubset

-----------------------------------------------------------------------------
(* Transcripts: the slices of a set in SEQ order.                          *)

Distinct(S) == \A s, t \in S : s.seq = t.seq => s = t

Listing(q, S) == q \in [1..Cardinality(S) -> S] /\ SeqOrdered(q, S)

(* Slices of different SEQs can be put in order, by induction on the SEQs. *)
LEMMA ListingExists ==
  ASSUME NEW S \in SUBSET Slices, Distinct(S)
  PROVE  \E q : Listing(q, S)
<1> DEFINE Low(n) == {s \in S : s.seq <= n}
           P == {n \in Nat : \E q : Listing(q, Low(n))}
<1>0. \A s \in S : s.seq \in 1..MaxSeq /\ s.seq \in Nat
  BY BoundAssumption DEF Slices
<1>1. 0 \in P
  <2>1. Low(0) = {}
    BY <1>0
  <2>2. Cardinality({}) = 0
    BY FS_EmptySet
  <2>3. Listing([i \in 1..0 |-> 0], {})
    BY <2>2 DEF Listing, SeqOrdered
  <2> QED BY <2>1, <2>3
<1>2. ASSUME NEW n \in Nat, n \in P PROVE n + 1 \in P
  <2> DEFINE T == Low(n)
             k == Cardinality(T)
  <2>1. PICK q : Listing(q, T)
    BY <1>2
  <2>2. T \in SUBSET Slices
    OBVIOUS
  <2>3. IsFiniteSet(T) /\ k \in Nat
    BY <2>2, SlicesFinite, FS_CardinalityType
  <2>4. CASE \A x \in S : x.seq # n + 1
    <3>1. Low(n + 1) = T
      BY <1>0, <2>4
    <3>2. \E p : Listing(p, Low(n + 1))
      BY <2>1, <3>1
    <3> HIDE DEF T, k, Low
    <3> QED BY <3>2
  <2>5. CASE \E x \in S : x.seq = n + 1
    <3>1. PICK x \in S : x.seq = n + 1
      BY <2>5
    <3>2. Low(n + 1) = T \cup {x} /\ x \notin T
      BY <1>0, <3>1 DEF Distinct
    <3>3. Cardinality(T \cup {x}) = k + 1
      BY <2>3, <3>2, FS_AddElement
    <3>4. \A s \in T : s.seq < x.seq /\ s.seq \in Nat
      BY <1>0, <3>1
    <3> DEFINE r == [i \in 1..(k + 1) |-> IF i = k + 1 THEN x ELSE q[i]]
    <3> HIDE DEF T, k
    <3>5. q \in [1..k -> T] /\ SeqOrdered(q, T)
      BY <2>1 DEF Listing, k
    <3>6. r \in [1..(k + 1) -> T \cup {x}]
      BY <2>3, <3>5
    <3>7. /\ \A i \in 1..k : r[i] = q[i]
          /\ r[k + 1] = x /\ DOMAIN r = 1..(k + 1)
      BY <2>3
    <3> HIDE DEF r
    <3>8. {r[i] : i \in DOMAIN r} = T \cup {x}
      <4>1. \A s \in T : \E i \in 1..k : q[i] = s
        BY <3>5 DEF SeqOrdered
      <4>2. \A s \in T : \E i \in 1..(k + 1) : r[i] = s
        BY <2>3, <3>7, <4>1
      <4>3. k + 1 \in 1..(k + 1)
        BY <2>3
      <4> QED BY <3>6, <3>7, <4>2, <4>3
    <3>9. ASSUME NEW i \in 1..(k + 1), NEW j \in 1..(k + 1), i < j
          PROVE  r[i] # r[j] /\ r[i].seq <= r[j].seq
      <4>1. i \in 1..k
        BY <2>3, <3>9
      <4>2. CASE j = k + 1
        <5>1. r[i] \in T /\ r[j] = x /\ r[i].seq < x.seq
          BY <3>4, <3>5, <3>7, <4>1, <4>2
        <5> QED BY <3>1, <3>2, <3>4, <5>1
      <4>3. CASE j # k + 1
        <5>1. j \in 1..k
          BY <2>3, <4>3
        <5> QED BY <3>5, <3>7, <3>9, <4>1, <5>1 DEF SeqOrdered
      <4> QED BY <4>2, <4>3
    <3>10. Listing(r, T \cup {x})
      BY <3>3, <3>6, <3>7, <3>8, <3>9 DEF Listing, SeqOrdered
    <3>11. \E p : Listing(p, Low(n + 1))
      BY <3>2, <3>10
    <3> QED BY <3>11
  <2> QED BY <2>4, <2>5
<1> HIDE DEF P
<1>3. MaxSeq \in P
  BY <1>1, <1>2, NatSetInduction, BoundAssumption
<1>4. Low(MaxSeq) = S
  BY <1>0, BoundAssumption
<1> QED
  BY <1>3, <1>4 DEF P

(* In only one way.                                                        *)
LEMMA ListingUnique ==
  ASSUME NEW S \in SUBSET Slices, Distinct(S), NEW q, Listing(q, S), NEW r, Listing(r, S)
  PROVE  q = r
<1> DEFINE k == Cardinality(S)
<1>1. IsFiniteSet(S) /\ k \in Nat
  BY SlicesFinite, FS_CardinalityType
<1>2. /\ q \in [1..k -> S] /\ r \in [1..k -> S]
      /\ \A s \in S : (\E i \in 1..k : q[i] = s) /\ (\E i \in 1..k : r[i] = s)
  BY DEF Listing, SeqOrdered
<1>3. \A s \in S : s.seq \in Nat
  BY BoundAssumption DEF Slices
<1>4. ASSUME NEW i \in 1..k, NEW j \in 1..k, i < j
      PROVE  q[i].seq < q[j].seq /\ r[i].seq < r[j].seq
  <2>1. /\ q[i] # q[j] /\ q[i].seq <= q[j].seq
        /\ r[i] # r[j] /\ r[i].seq <= r[j].seq
    BY <1>2, <1>4 DEF Listing, SeqOrdered
  <2>2. q[i] \in S /\ q[j] \in S /\ r[i] \in S /\ r[j] \in S
    BY <1>2
  <2> QED BY <1>3, <2>1, <2>2 DEF Distinct
<1> HIDE DEF k
<1> DEFINE P == {n \in Nat : \A i \in 1..k : i <= n => q[i] = r[i]}
<1>5. 0 \in P
  BY <1>1
<1>6. ASSUME NEW n \in Nat, n \in P PROVE n + 1 \in P
  <2> SUFFICES ASSUME n + 1 \in 1..k, q[n + 1] # r[n + 1] PROVE FALSE
    BY <1>1, <1>6
  <2> DEFINE m == n + 1
  <2>1. PICK j \in 1..k : r[j] = q[m]
    BY <1>2
  <2>2. PICK i \in 1..k : q[i] = r[m]
    BY <1>2
  <2>3. m < j
    <3>1. j # m
      BY <2>1
    <3>2. j <= n => r[j] = q[j]
      BY <1>6
    <3>3. ~(j <= n)
      <4> SUFFICES ASSUME j <= n PROVE FALSE
        OBVIOUS
      <4>1. q[j] = q[m] /\ q[m] \in S
        BY <1>2, <2>1, <3>2
      <4>2. j < m /\ m \in 1..k
        BY <1>1
      <4>3. q[j].seq < q[m].seq
        BY <1>4, <4>2
      <4> QED BY <1>3, <4>1, <4>3
    <3> QED BY <1>1, <3>1, <3>3
  <2>4. m < i
    <3>1. i # m
      BY <2>2
    <3>2. i <= n => r[i] = q[i]
      BY <1>6
    <3>3. ~(i <= n)
      <4> SUFFICES ASSUME i <= n PROVE FALSE
        OBVIOUS
      <4>1. r[i] = r[m] /\ r[m] \in S
        BY <1>2, <2>2, <3>2
      <4>2. i < m /\ m \in 1..k
        BY <1>1
      <4>3. r[i].seq < r[m].seq
        BY <1>4, <4>2
      <4> QED BY <1>3, <4>1, <4>3
    <3> QED BY <1>1, <3>1, <3>3
  <2>5. r[m].seq < q[m].seq
    BY <1>4, <2>1, <2>3
  <2>6. q[m].seq < r[m].seq
    BY <1>4, <2>2, <2>4
  <2>7. q[m].seq \in Nat /\ r[m].seq \in Nat
    BY <1>2, <1>3
  <2> QED BY <2>5, <2>6, <2>7
<1> HIDE DEF P
<1>7. k \in P
  BY <1>1, <1>5, <1>6, NatSetInduction
<1>8. \A i \in 1..k : q[i] = r[i]
  BY <1>1, <1>7 DEF P
<1>9. q \in [1..k -> S] /\ r \in [1..k -> S]
  BY <1>2
<1>10. q \in Seq(S) /\ r \in Seq(S) /\ Len(q) = k /\ Len(r) = k
  BY <1>1, <1>9
<1> QED
  BY <1>8, <1>10, SeqEqual

(* InSeqOrder finds it.                                                    *)
LEMMA OrderIs ==
  ASSUME NEW S \in SUBSET Slices, Distinct(S)
  PROVE  /\ Listing(InSeqOrder(S), S) /\ Cardinality(S) \in Nat /\ IsFiniteSet(S)
         /\ <<>> \o InSeqOrder(S) = InSeqOrder(S)
<1>1. Cardinality(S) \in Nat /\ IsFiniteSet(S)
  BY SlicesFinite, FS_CardinalityType
<1>2. \E q \in [1..Cardinality(S) -> S] : SeqOrdered(q, S)
  BY ListingExists DEF Listing
<1>3. Listing(InSeqOrder(S), S)
  BY <1>2 DEF InSeqOrder, Listing
<1>4. InSeqOrder(S) \in Seq(S)
  BY <1>1, <1>3 DEF Listing
<1>5. <<>> \o InSeqOrder(S) = InSeqOrder(S)
  BY <1>4
<1> QED
  BY <1>1, <1>3, <1>5

(* Folding the slices of one checkpoint and then those of the next is      *)
(* folding all of them.                                                    *)
LEMMA FoldedInTurn ==
  ASSUME NEW A \in SUBSET Slices, NEW B \in SUBSET Slices, Distinct(A \cup B),
         \A a \in A, b \in B : a.seq < b.seq
  PROVE  Advance(Advance(<<>>, A), B) = Advance(<<>>, A \cup B)
<1> DEFINE q == InSeqOrder(A)
           r == InSeqOrder(B)
           m == Cardinality(A)
           n == Cardinality(B)
           c == [i \in 1..(m + n) |-> IF i <= m THEN q[i] ELSE r[i - m]]
<1>1. Distinct(A) /\ Distinct(B) /\ A \cup B \in SUBSET Slices
  BY DEF Distinct
<1>2. /\ Listing(q, A) /\ m \in Nat /\ IsFiniteSet(A) /\ <<>> \o q = q
      /\ Listing(r, B) /\ n \in Nat /\ IsFiniteSet(B)
  BY <1>1, OrderIs
<1>3. A \cap B = {}
  BY BoundAssumption DEF Slices
<1>4. Cardinality(A \cup B) = m + n
  <2>1. Cardinality(A \cap B) = 0
    BY <1>3, FS_EmptySet
  <2>2. Cardinality(A \cup B) = m + n - Cardinality(A \cap B)
    BY <1>2, FS_Union
  <2> QED BY <1>2, <2>1, <2>2
<1>5. \A s \in A \cup B : s.seq \in Nat
  BY BoundAssumption DEF Slices
<1> HIDE DEF q, r, m, n
<1>6. /\ q \in [1..m -> A] /\ r \in [1..n -> B] /\ SeqOrdered(q, A) /\ SeqOrdered(r, B)
  BY <1>2 DEF Listing, m, n
<1>7. /\ q \in Seq(A) /\ r \in Seq(B) /\ Len(q) = m /\ Len(r) = n
  BY <1>2, <1>6
<1>8. q \o r = c
  <2>1. q \in Seq(A \cup B) /\ r \in Seq(A \cup B)
    BY <1>2, <1>6
  <2>2. q \o r \in Seq(A \cup B) /\ Len(q \o r) = m + n
    BY <1>7, <2>1, ConcatProperties
  <2>3. \A i \in 1..(m + n) : (q \o r)[i] = c[i]
    BY <1>7, <2>1, ConcatProperties
  <2>4. c \in [1..(m + n) -> A \cup B]
    BY <1>2, <1>6
  <2>5. m + n \in Nat
    BY <1>2
  <2> HIDE DEF c
  <2>6. c \in Seq(A \cup B) /\ Len(c) = m + n
    BY <2>4, <2>5
  <2> QED BY <2>2, <2>3, <2>6, SeqEqual
<1>9. /\ \A i \in 1..m : c[i] = q[i] /\ i \in 1..(m + n)
      /\ \A i \in 1..n : c[m + i] = r[i] /\ m + i \in 1..(m + n)
      /\ \A i \in 1..(m + n) : i \in 1..m \/ (i - m \in 1..n /\ i = m + (i - m) /\ i > m)
      /\ DOMAIN c = 1..(m + n)
  BY <1>2
<1> HIDE DEF c
<1>10. c \in [1..(m + n) -> A \cup B]
  BY <1>2, <1>6 DEF c
<1>11. {c[i] : i \in DOMAIN c} = A \cup B
  <2>1. \A s \in A : \E i \in 1..m : q[i] = s
    BY <1>6 DEF SeqOrdered
  <2>2. \A s \in B : \E i \in 1..n : r[i] = s
    BY <1>6 DEF SeqOrdered
  <2>3. \A s \in A \cup B : \E i \in 1..(m + n) : c[i] = s
    BY <1>9, <2>1, <2>2
  <2> QED BY <1>9, <1>10, <2>3
<1>12. ASSUME NEW i \in 1..(m + n), NEW j \in 1..(m + n), i < j
       PROVE  c[i] # c[j] /\ c[i].seq <= c[j].seq
  <2>1. CASE j \in 1..m
    <3>1. i \in 1..m
      BY <1>2, <1>12, <2>1
    <3> QED BY <1>6, <1>9, <1>12, <2>1, <3>1 DEF SeqOrdered
  <2>2. CASE i \in 1..m /\ j - m \in 1..n /\ j = m + (j - m)
    <3>1. c[i] \in A /\ c[j] \in B
      BY <1>6, <1>9, <2>2
    <3>2. c[i].seq < c[j].seq /\ c[i].seq \in Nat /\ c[j].seq \in Nat
      BY <1>5, <3>1
    <3> QED BY <3>2
  <2>3. CASE i - m \in 1..n /\ i = m + (i - m) /\ i > m
    <3>1. j - m \in 1..n /\ j = m + (j - m) /\ i - m < j - m
      BY <1>2, <1>12, <2>3
    <3>2. c[i] = r[i - m] /\ c[j] = r[j - m]
      BY <1>9, <2>3, <3>1
    <3> QED BY <1>6, <2>3, <3>1, <3>2 DEF SeqOrdered
  <2> QED BY <1>9, <2>1, <2>2, <2>3
<1>13. Listing(c, A \cup B)
  BY <1>4, <1>9, <1>10, <1>11, <1>12 DEF Listing, SeqOrdered
<1>14. /\ Listing(InSeqOrder(A \cup B), A \cup B)
       /\ <<>> \o InSeqOrder(A \cup B) = InSeqOrder(A \cup B)
  BY <1>1, OrderIs
<1>15. c = InSeqOrder(A \cup B)
  BY <1>1, <1>13, <1>14, ListingUnique
<1> QED
  BY <1>2, <1>8, <1>14, <1>15 DEF Advance, q, r

-----------------------------------------------------------------------------
(* The counts: what is unevidenced, what has been metered in all, which    *)
(* slices the window retains and which ones the head has folded.           *)

CoveredBy(l, cutoff) == {s \in l : s.seq <= cutoff}
Beyond(l, cutoff) == {s \in l : s.seq > cutoff}

Evidenced(c) ==
  /\ c.unevidenced = Amount(c.window)
  /\ c.unevidenced <= LimitE
  /\ c.pausedEvidence \in BOOLEAN
  /\ LimitE > 0 => (c.pausedEvidence <=> c.unevidenced >= LimitE)

Totalled(c, l) ==
  /\ c.cum = opening.cum + Amount(l)
  /\ c.accr = [r \in Roles |-> c.cum * Bp[r]]

Retained(c, l) == c.window = Beyond(l, c.floor)

Chained(c, l) == c.head = Advance(<<>>, CoveredBy(l, c.floor))

CountInv(c, l) == Evidenced(c) /\ Totalled(c, l) /\ Retained(c, l) /\ Chained(c, l)

\* What CheckpointsTruthful says of one checkpoint.
Truthful(p, l) ==
  LET covered == CoveredBy(l, p.lastSeq)
  IN  /\ p.cum = opening.cum + Amount(covered)
      /\ \A r \in Roles : p.accr[r] = p.cum * Bp[r]
      /\ p.transcript = Advance(<<>>, covered)

SameCounts(c, d) ==
  /\ d.unevidenced = c.unevidenced /\ d.window = c.window /\ d.cum = c.cum
  /\ d.pausedEvidence = c.pausedEvidence /\ d.accr = c.accr
  /\ d.floor = c.floor /\ d.head = c.head

(* The counts depend on nothing else.                                      *)
LEMMA SameCountInv ==
  ASSUME NEW c, NEW d, NEW l, CountInv(c, l), SameCounts(c, d)
  PROVE  CountInv(d, l)
  BY DEF CountInv, SameCounts, Evidenced, Totalled, Retained, Chained

(* Funding, rounds, pauses and the end of the channel count nothing.       *)
LEMMA UncountedSteps ==
  ASSUME NEW c, NEW l, NEW paid, BooksInv(c, l, paid), NEW amount
  PROVE  /\ SameCounts(c, [c EXCEPT !.pausedWindow = TRUE])
         /\ SameCounts(c, Credited(c, amount))
         /\ SameCounts(c, BeganSettling(c))
         /\ SameCounts(c, Closed(c))
<1>1. DOMAIN c = Fields
  BY DEF BooksInv, BooksTyped
<1>2. SameCounts(c, [c EXCEPT !.pausedWindow = TRUE])
  BY <1>1 DEF SameCounts, Fields
<1>3. SameCounts(c, Credited(c, amount))
  BY <1>1 DEF SameCounts, Fields, Credited
<1>4. SameCounts(c, BeganSettling(c))
  BY <1>1 DEF SameCounts, Fields, BeganSettling
<1>5. SameCounts(c, Closed(c))
  BY <1>1 DEF SameCounts, Fields, Closed
<1> QED
  BY <1>2, <1>3, <1>4, <1>5

(* accept_slice counts a slice that it has not met.                        *)
LEMMA AcceptCounts ==
  ASSUME NEW c, NEW l, NEW paid \in Nat, NEW s \in Slices, opening.cum \in Nat,
         BooksInv(c, l, paid), CountInv(c, l), Accepts(c, s)
  PROVE  /\ CountInv(Accepted(c, s), l \cup {s})
         /\ s \notin l
<1> DEFINE d == Accepted(c, s)
<1>1. /\ d.unevidenced = c.unevidenced + s.amt /\ d.cum = c.cum + s.amt
      /\ d.window = c.window \cup {s} /\ d.floor = c.floor /\ d.head = c.head
      /\ d.accr = [r \in Roles |-> c.accr[r] + s.amt * Bp[r]]
      /\ d.pausedEvidence = (c.pausedEvidence \/ c.unevidenced + s.amt >= LimitE)
  BY DEF Accepted, BooksInv, BooksTyped, Fields
<1>2. s.amt \in Nat /\ s.seq \in Nat /\ LimitE \in Nat /\ c.floor \in Nat
  BY BoundAssumption, LimitAssumption DEF Slices, BooksInv, BooksTyped
<1>3. /\ c.unevidenced + s.amt <= LimitE /\ s.seq > c.floor /\ s.seq \notin Accounted(c)
  BY DEF Accepts, Admissible
<1>4. /\ c.window \in SUBSET Slices /\ l \in SUBSET Slices /\ c.cum \in Nat
      /\ \A t \in l : t.seq <= c.floor \/ t \in c.window
  BY DEF BooksInv, BooksTyped, SeqsRemembered
<1>5. s \notin c.window /\ s \notin l
  <2>1. s \notin c.window
    BY <1>3 DEF Accounted
  <2> QED BY <1>2, <1>3, <1>4, <2>1
<1> HIDE DEF d
<1>6. Evidenced(d)
  <2>1. Amount(d.window) = Amount(c.window) + s.amt
    BY <1>1, <1>4, <1>5, AmountAdd
  <2>2. Amount(c.window) \in Nat /\ c.unevidenced = Amount(c.window)
    BY <1>4, AmountIs DEF CountInv, Evidenced
  <2>3. d.unevidenced = Amount(d.window) /\ d.unevidenced <= LimitE /\ d.unevidenced \in Nat
    BY <1>1, <1>2, <1>3, <2>1, <2>2
  <2>4. c.pausedEvidence \in BOOLEAN
        /\ (LimitE > 0 => (c.pausedEvidence <=> c.unevidenced >= LimitE))
    BY DEF CountInv, Evidenced
  <2>5. (c.unevidenced >= LimitE) => (c.unevidenced + s.amt >= LimitE)
    BY <1>2, <2>2
  <2>6. d.pausedEvidence \in BOOLEAN
    BY <1>1
  <2>7. LimitE > 0 => (d.pausedEvidence <=> d.unevidenced >= LimitE)
    BY <1>1, <2>4, <2>5
  <2> QED BY <2>3, <2>6, <2>7 DEF Evidenced
<1>7. Totalled(d, l \cup {s})
  <2>1. Amount(l \cup {s}) = Amount(l) + s.amt /\ Amount(l) \in Nat
    BY <1>4, <1>5, AmountAdd, AmountIs
  <2>2. c.cum = opening.cum + Amount(l) /\ c.accr = [r \in Roles |-> c.cum * Bp[r]]
    BY DEF CountInv, Totalled
  <2>3. d.cum = opening.cum + Amount(l \cup {s})
    BY <1>1, <1>2, <2>1, <2>2
  <2>4. ASSUME NEW r \in Roles
        PROVE  c.accr[r] + s.amt * Bp[r] = d.cum * Bp[r]
    <3>1. Bp[r] \in Nat
      BY VectorAssumption
    <3>2. c.accr[r] = c.cum * Bp[r]
      BY <2>2
    <3>3. Bp[r] * (c.cum + s.amt) = Bp[r] * c.cum + Bp[r] * s.amt
      BY <1>2, <1>4, <3>1, Distributes
    <3> QED BY <1>1, <1>2, <1>4, <3>1, <3>2, <3>3
  <2> QED BY <1>1, <2>3, <2>4 DEF Totalled
<1>8. Retained(d, l \cup {s})
  BY <1>1, <1>3 DEF CountInv, Retained, Beyond
<1>9. Chained(d, l \cup {s})
  <2>1. CoveredBy(l \cup {s}, d.floor) = CoveredBy(l, c.floor)
    BY <1>1, <1>2, <1>3 DEF CoveredBy
  <2> QED BY <1>1, <2>1 DEF CountInv, Chained
<1> QED
  BY <1>5, <1>6, <1>7, <1>8, <1>9 DEF CountInv, d

(* The window between the floor and a cutoff, and above the cutoff.        *)
LEMMA Cut ==
  ASSUME NEW c, NEW l, NEW paid, BooksInv(c, l, paid), CountInv(c, l),
         NEW cutoff \in 0..MaxSeq, cutoff >= c.floor
  PROVE  LET covered == CoveredBy(l, cutoff)
         IN  /\ covered \in SUBSET Slices /\ Above(c, cutoff) \in SUBSET Slices
             /\ Above(c, cutoff) = Beyond(l, cutoff)
             /\ Amount(l) = Amount(covered) + Amount(Above(c, cutoff))
             /\ Amount(covered) \in Nat /\ Amount(Above(c, cutoff)) \in Nat
             /\ Amount(Above(c, cutoff)) <= LimitE
             /\ Advance(c.head, UpTo(c, cutoff)) = Advance(<<>>, covered)
<1> DEFINE covered == CoveredBy(l, cutoff)
           low == CoveredBy(l, c.floor)
           above == Beyond(l, cutoff)
<1>1. /\ \A s \in l : s.seq \in Nat
      /\ cutoff \in Nat /\ c.floor \in Nat /\ l \in SUBSET Slices /\ c.window \in SUBSET Slices
  BY BoundAssumption DEF BooksInv, BooksTyped, Slices
<1>2. c.window = Beyond(l, c.floor) /\ c.head = Advance(<<>>, low)
  BY DEF CountInv, Retained, Chained
<1>3. /\ covered \in SUBSET Slices /\ above \in SUBSET Slices /\ low \in SUBSET Slices
      /\ above \in SUBSET c.window /\ UpTo(c, cutoff) \in SUBSET Slices
  BY <1>1, <1>2 DEF UpTo, CoveredBy, Beyond
<1>4. Above(c, cutoff) = above
  BY <1>1, <1>2 DEF Above, Beyond
<1>5. l = covered \cup above /\ covered \cap above = {}
  BY <1>1 DEF CoveredBy, Beyond
<1>6. covered = low \cup UpTo(c, cutoff) /\ \A a \in low, b \in UpTo(c, cutoff) : a.seq < b.seq
  BY <1>1, <1>2 DEF UpTo, CoveredBy, Beyond
<1>7. Distinct(covered)
  BY DEF Distinct, CoveredBy, BooksInv, SeqsRemembered
<1> HIDE DEF covered, low, above
<1>8. Amount(l) = Amount(covered) + Amount(above)
  BY <1>3, <1>5, AmountSplit
<1>9. Amount(covered) \in Nat /\ Amount(above) \in Nat /\ Amount(c.window) \in Nat
  BY <1>1, <1>3, AmountIs
<1>10. Amount(above) <= LimitE
  <2>1. Amount(above) <= Amount(c.window)
    BY <1>1, <1>3, AmountSub
  <2>2. Amount(c.window) <= LimitE
    BY DEF CountInv, Evidenced
  <2> QED BY <1>9, <2>1, <2>2, LimitAssumption
<1>11. Advance(Advance(<<>>, low), UpTo(c, cutoff)) = Advance(<<>>, low \cup UpTo(c, cutoff))
  BY <1>3, <1>6, <1>7, FoldedInTurn
<1> QED
  BY <1>2, <1>3, <1>4, <1>6, <1>8, <1>9, <1>10, <1>11 DEF covered, above

(* checkpoint_upto keeps the counts, and a proposal that recomputes is     *)
(* truthful at that moment.                                                *)
LEMMA CheckpointCounts ==
  ASSUME NEW c, NEW l, NEW paid, BooksInv(c, l, paid), CountInv(c, l),
         opening.cum \in Nat, NEW cutoff \in 0..MaxSeq, cutoff >= c.floor
  PROVE  CountInv(CheckpointUpTo(c, cutoff), l)
<1> DEFINE d == CheckpointUpTo(c, cutoff)
           covered == CoveredBy(l, cutoff)
<1>1. /\ d.head = Advance(c.head, UpTo(c, cutoff)) /\ d.window = Above(c, cutoff)
      /\ d.floor = cutoff /\ d.unevidenced = Amount(Above(c, cutoff))
      /\ d.pausedEvidence = (Amount(Above(c, cutoff)) >= LimitE)
      /\ d.cum = c.cum /\ d.accr = c.accr
  BY DEF CheckpointUpTo, BooksInv, BooksTyped, Fields
<1>2. /\ Above(c, cutoff) = Beyond(l, cutoff)
      /\ Amount(Above(c, cutoff)) \in Nat /\ Amount(Above(c, cutoff)) <= LimitE
      /\ Advance(c.head, UpTo(c, cutoff)) = Advance(<<>>, covered)
  BY Cut
<1> HIDE DEF d
<1>3. Evidenced(d)
  <2>1. d.pausedEvidence \in BOOLEAN
    BY <1>1
  <2>2. d.pausedEvidence <=> d.unevidenced >= LimitE
    BY <1>1
  <2>3. d.unevidenced = Amount(d.window) /\ d.unevidenced <= LimitE
    BY <1>1, <1>2
  <2> QED BY <2>1, <2>2, <2>3 DEF Evidenced
<1>4. Totalled(d, l)
  BY <1>1 DEF CountInv, Totalled
<1>5. Retained(d, l)
  BY <1>1, <1>2 DEF Retained
<1>6. Chained(d, l)
  BY <1>1, <1>2 DEF Chained
<1> QED
  BY <1>3, <1>4, <1>5, <1>6 DEF CountInv, d

LEMMA RecomputedTruthful ==
  ASSUME NEW c, NEW l, NEW paid, BooksInv(c, l, paid), CountInv(c, l), opening.cum \in Nat,
         NEW p, p.lastSeq \in 0..MaxSeq, p.lastSeq >= c.floor, Recomputes(c, p)
  PROVE  Truthful(p, l)
<1> DEFINE covered == CoveredBy(l, p.lastSeq)
           above == Above(c, p.lastSeq)
           built == BuildCheckpointAt(c, p.lastSeq, p.ref)
<1>1. /\ Amount(l) = Amount(covered) + Amount(above)
      /\ Amount(covered) \in Nat /\ Amount(above) \in Nat
      /\ Advance(c.head, UpTo(c, p.lastSeq)) = Advance(<<>>, covered)
  BY Cut
<1>2. /\ built.cum = (IF Amount(above) > c.cum THEN 0 ELSE c.cum - Amount(above))
      /\ built.accr = [r \in Roles |-> c.accr[r] - Amount(above) * Bp[r]]
      /\ built.transcript = Advance(c.head, UpTo(c, p.lastSeq))
  BY DEF BuildCheckpointAt
<1>3. built = p
  BY DEF Recomputes
<1> HIDE DEF built, covered, above
<1>4. /\ p.cum = (IF Amount(above) > c.cum THEN 0 ELSE c.cum - Amount(above))
      /\ p.accr = [r \in Roles |-> c.accr[r] - Amount(above) * Bp[r]]
      /\ p.transcript = Advance(<<>>, covered)
  BY <1>1, <1>2, <1>3
<1>5. c.cum = opening.cum + Amount(l) /\ c.accr = [r \in Roles |-> c.cum * Bp[r]]
  BY DEF CountInv, Totalled
<1>6. p.cum = opening.cum + Amount(covered) /\ p.cum = c.cum - Amount(above) /\ p.cum \in Nat
  BY <1>1, <1>4, <1>5
<1>7. ASSUME NEW r \in Roles PROVE p.accr[r] = p.cum * Bp[r]
  <2>1. Bp[r] \in Nat /\ c.cum \in Nat
    BY <1>1, <1>5, VectorAssumption
  <2>2. p.accr[r] = c.cum * Bp[r] - Amount(above) * Bp[r]
    BY <1>4, <1>5
  <2>3. Bp[r] * (p.cum + Amount(above)) = Bp[r] * p.cum + Bp[r] * Amount(above)
    BY <1>1, <1>6, <2>1, Distributes
  <2>4. p.cum + Amount(above) = c.cum
    BY <1>1, <1>6, <2>1
  <2> QED BY <1>1, <1>6, <2>1, <2>2, <2>3, <2>4, SMTT(30)
<1> QED
  BY <1>4, <1>6, <1>7 DEF Truthful, covered

-----------------------------------------------------------------------------
(* Every action keeps the counts.                                          *)

MeterInv ==
  /\ IInv
  /\ CountInv(ch, log)
  /\ \A p \in countersigned : Truthful(p, log)

(* A channel that has metered nothing.                                     *)
LEMMA InitMeter == Init => MeterInv
<1> SUFFICES ASSUME Init PROVE MeterInv
  OBVIOUS
<1>1. IInv
  BY InitIInv
<1>2. /\ ch.unevidenced = 0 /\ ch.pausedEvidence = FALSE /\ ch.window = {} /\ ch.head = <<>>
      /\ ch.floor = 0 /\ ch.cum \in Nat /\ ch.accr = [r \in Roles |-> ch.cum * Bp[r]]
  <2>1. CASE ch = New
    <3>1. \A r \in Roles : 0 = 0 * Bp[r]
      BY VectorAssumption
    <3>2. ch.cum = 0 /\ ch.accr = [r \in Roles |-> 0]
      BY <2>1 DEF New
    <3>3. ch.accr = [r \in Roles |-> ch.cum * Bp[r]]
      BY <3>1, <3>2
    <3> QED BY <2>1, <3>2, <3>3 DEF New
  <2>2. ASSUME NEW cum \in ImportedCums, NEW b \in BoundLower..BoundUpper,
               ch = NewImported(cum, [r \in Roles |-> cum * Bp[r]], b)
        PROVE  /\ ch.unevidenced = 0 /\ ch.pausedEvidence = FALSE
               /\ ch.window = {} /\ ch.head = <<>>
               /\ ch.floor = 0 /\ ch.cum \in Nat
               /\ ch.accr = [r \in Roles |-> ch.cum * Bp[r]]
    BY <2>2, BoundAssumption DEF New, NewImported
  <2> QED
    BY <2>1, <2>2 DEF Init
<1>3. log = {} /\ opening.cum = ch.cum /\ countersigned = {}
  BY DEF Init
<1>4. Evidenced(ch)
  <2>1. ch.unevidenced = Amount(ch.window) /\ ch.unevidenced <= LimitE
    BY <1>2, AmountEmpty, LimitAssumption
  <2>2. LimitE > 0 => ~(ch.unevidenced >= LimitE)
    BY <1>2, LimitAssumption
  <2>3. ch.pausedEvidence = FALSE
    BY <1>2
  <2> QED BY <2>1, <2>2, <2>3 DEF Evidenced
<1>5. Totalled(ch, log)
  BY <1>2, <1>3, AmountEmpty DEF Totalled
<1>6. CoveredBy(log, ch.floor) = {} /\ Beyond(log, ch.floor) = {}
  BY <1>3 DEF CoveredBy, Beyond
<1>7. Advance(<<>>, {}) = <<>>
  <2>1. {} \in SUBSET Slices /\ Distinct({}) /\ Cardinality({}) = 0
    BY FS_EmptySet DEF Distinct
  <2>2. Listing(InSeqOrder({}), {}) /\ <<>> \o InSeqOrder({}) = InSeqOrder({})
    BY <2>1, OrderIs
  <2>3. InSeqOrder({}) \in Seq({}) /\ Len(InSeqOrder({})) = 0
    BY <2>1, <2>2 DEF Listing
  <2>4. InSeqOrder({}) = <<>>
    BY <2>3, EmptySeq
  <2> QED BY <2>2, <2>4 DEF Advance
<1>8. Retained(ch, log) /\ Chained(ch, log)
  BY <1>2, <1>6, <1>7 DEF Retained, Chained
<1> QED
  BY <1>1, <1>3, <1>4, <1>5, <1>8 DEF MeterInv, CountInv

(* A checkpoint stays truthful while its prefix gains nothing.             *)
LEMMA StillTruthful ==
  ASSUME NEW p, NEW l, NEW m, Truthful(p, l),
         CoveredBy(m, p.lastSeq) = CoveredBy(l, p.lastSeq)
  PROVE  Truthful(p, m)
  BY DEF Truthful

LEMMA NextMeter == MeterInv /\ [Next]_vars => MeterInv'
<1> SUFFICES ASSUME MeterInv, [Next]_vars PROVE MeterInv'
  OBVIOUS
<1>0. /\ opening.cum \in Nat /\ opening.balance \in Int /\ credits \in Nat
      /\ BooksInv(ch, log, credits) /\ CountInv(ch, log)
      /\ \A p \in proposals : p.lastSeq \in 0..MaxSeq
      /\ \A p \in countersigned : p.lastSeq \in 0..MaxSeq /\ Truthful(p, log)
  BY DEF MeterInv, IInv
<1>1. IInv'
  BY NextIInv DEF MeterInv
<1>2. log \subseteq log' /\ \A p \in countersigned : \A s \in log' \ log : s.seq > p.lastSeq
  BY FrozenStep DEF MeterInv
<1>3. ASSUME NEW p \in countersigned PROVE Truthful(p, log')
  <2>1. \A s \in log' : s.seq \in Nat
    BY <1>1, BoundAssumption DEF IInv, BooksInv, BooksTyped, Slices
  <2>2. p.lastSeq \in Nat
    BY <1>0, BoundAssumption
  <2>3. CoveredBy(log', p.lastSeq) = CoveredBy(log, p.lastSeq)
    BY <1>2, <2>1, <2>2 DEF CoveredBy
  <2> QED BY <1>0, <2>3, StillTruthful
<1> DEFINE Counted == CountInv(ch', log') /\ opening' = opening
                      /\ \A p \in countersigned' : Truthful(p, log')
<1>4. ASSUME NEW s \in Slices, BatchOfOne(s) PROVE Counted
  <2>1. CASE Accepts(ch, s) /\ ch' = Accepted(ch, s) /\ log' = log \cup {s}
    BY <1>0, <1>3, <1>4, <2>1, AcceptCounts DEF BatchOfOne
  <2>2. CASE ch' = [ch EXCEPT !.pausedWindow = TRUE] /\ log' = log
    BY <1>0, <1>3, <1>4, <2>2, UncountedSteps, SameCountInv DEF BatchOfOne
  <2> QED
    BY <1>4, <2>1, <2>2 DEF BatchOfOne
<1>5. ASSUME NEW s \in Slices, NEW t \in Slices, BatchOfTwo(s, t) PROVE Counted
  <2>1. CASE /\ Accepts(ch, s) /\ Accepts(Accepted(ch, s), t)
             /\ ch' = Accepted(Accepted(ch, s), t) /\ log' = log \cup {s, t}
    <3>1. /\ BooksInv(Accepted(ch, s), log \cup {s}, credits)
          /\ CountInv(Accepted(ch, s), log \cup {s})
      BY <1>0, <2>1, AcceptKeeps, AcceptCounts
    <3>2. CountInv(ch', (log \cup {s}) \cup {t})
      BY <1>0, <2>1, <3>1, AcceptCounts
    <3>3. (log \cup {s}) \cup {t} = log'
      BY <2>1
    <3> QED BY <1>3, <1>5, <3>2, <3>3 DEF BatchOfTwo
  <2>2. CASE ch' = [ch EXCEPT !.pausedWindow = TRUE] /\ log' = log
    BY <1>0, <1>3, <1>5, <2>2, UncountedSteps, SameCountInv DEF BatchOfTwo
  <2> QED
    BY <1>5, <2>1, <2>2 DEF BatchOfTwo
<1>6. ASSUME NEW amount \in 0..MaxCredit, CreditFunding(amount) PROVE Counted
  BY <1>0, <1>3, <1>6, UncountedSteps, SameCountInv DEF CreditFunding
<1>7. ASSUME NEW gross \in 0..MaxCredit, ApplySettlementRound(gross) PROVE Counted
  BY <1>0, <1>3, <1>7, UncountedSteps, SameCountInv DEF ApplySettlementRound, Settled
<1>8. ASSUME NEW cutoff \in 0..MaxSeq, NEW ref \in 1..MaxRef, ProposeCheckpoint(cutoff, ref)
      PROVE  Counted
  BY <1>0, <1>3, <1>8 DEF ProposeCheckpoint
<1>9. ASSUME NEW p \in proposals, OnCheckpointRequest(p) PROVE Counted
  <2>1. /\ p.lastSeq \in 0..MaxSeq /\ Recomputes(ch, p)
        /\ ch' = CheckpointUpTo(ch, p.lastSeq) /\ log' = log /\ opening' = opening
        /\ countersigned' = countersigned \cup {p}
    BY <1>0, <1>9 DEF OnCheckpointRequest
  <2>2. p.lastSeq >= ch.floor
    BY <1>0, <2>1, RecomputedAtOrAboveFloor
  <2>3. CountInv(ch', log')
    BY <1>0, <2>1, <2>2, CheckpointCounts
  <2>4. Truthful(p, log')
    BY <1>0, <2>1, <2>2, RecomputedTruthful
  <2> QED BY <1>3, <2>1, <2>3, <2>4
<1>10. ASSUME BeginSettling PROVE Counted
  BY <1>0, <1>3, <1>10, UncountedSteps, SameCountInv DEF BeginSettling
<1>11. ASSUME Close PROVE Counted
  BY <1>0, <1>3, <1>11, UncountedSteps, SameCountInv DEF Close
<1>12. ASSUME UNCHANGED vars PROVE Counted
  BY <1>0, <1>3, <1>12 DEF vars
<1> HIDE DEF Counted
<1>13. Counted
  BY <1>4, <1>5, <1>6, <1>7, <1>8, <1>9, <1>10, <1>11, <1>12 DEF Next
<1> USE DEF Counted
<1>14. CountInv(ch, log)'
  <2>1. Evidenced(ch)' /\ Retained(ch, log)' /\ Chained(ch, log)'
    BY <1>13 DEF CountInv, Evidenced, Retained, Chained
  <2>2. Totalled(ch, log)'
    BY <1>13 DEF CountInv, Totalled
  <2> QED BY <2>1, <2>2 DEF CountInv
<1>15. (\A p \in countersigned : Truthful(p, log))'
  BY <1>13 DEF Truthful
<1> QED
  BY <1>1, <1>14, <1>15 DEF MeterInv

(* The counts of the books are those of the slices accepted.               *)
THEOREM CountsSound == Spec => []MeterInv
<1> QED
  BY InitMeter, NextMeter, PTL DEF Spec

(* accept_slice and checkpoint_upto: unevidenced is the value of the       *)
(* window, at most E, and the channel is paused exactly at E.              *)
THEOREM EvidenceBoundHolds == Spec => []EvidenceBound
<1>1. MeterInv => EvidenceBound
  BY DEF MeterInv, CountInv, Evidenced, EvidenceBound
<1> QED
  BY <1>1, CountsSound, PTL

(* recomputes and checkpoint_upto: a countersigned checkpoint states the   *)
(* total and the transcript of every slice at or below its LAST_SEQ that   *)
(* was ever accepted, whatever is metered or countersigned afterwards.     *)
THEOREM CheckpointsTruthfulHolds == Spec => []CheckpointsTruthful
<1>1. MeterInv => CheckpointsTruthful
  BY DEF MeterInv, Truthful, CoveredBy, CheckpointsTruthful
<1> QED
  BY <1>1, CountsSound, PTL

-----------------------------------------------------------------------------
(* The exchange: an honest wallet's slices on a postpay channel.           *)

Holds(w) ==
  /\ DOMAIN w = {"cumStreamed", "nextSeq", "op"}
  /\ w.nextSeq \in Nat \ {0} /\ w.cumStreamed \in Nat

\* What the merchant has metered was minted, each SEQ was minted once, and the
\* wallet has counted all of it against L_credit.
ExInv ==
  /\ MeterInv
  /\ Holds(wallet)
  /\ minted \subseteq Slices /\ log \subseteq minted
  /\ \A s \in minted : s.seq < wallet.nextSeq
  /\ wallet.cumStreamed = Amount(minted) /\ wallet.cumStreamed <= LimitL
  /\ ch.balance = Amount(log)
  /\ ch.pausedWindow = FALSE

(* A slice the wallet minted does not breach the window of books that      *)
(* carry only what it minted.                                              *)
LEMMA MintedFits ==
  ASSUME Mode = "postpay", NEW c, NEW l, NEW paid, BooksInv(c, l, paid),
         c.balance = Amount(l), c.pausedWindow = FALSE,
         NEW m \in SUBSET Slices, l \subseteq m, Amount(m) <= LimitL,
         NEW s \in m, HitsWindow(c, s)
  PROVE  FALSE
<1>1. s \in Slices /\ l \in SUBSET Slices /\ s.seq \in Nat /\ s.amt \in Nat /\ c.floor \in Nat
  BY BoundAssumption DEF BooksInv, BooksTyped, Slices
<1>2. Admissible(c, s) /\ c.balance + s.amt > LimitL
  BY DEF HitsWindow, BoundUpper
<1>3. s \notin l
  <2>1. s.seq > c.floor /\ s \notin c.window
    BY <1>2 DEF Admissible, Accounted
  <2> QED BY <1>1, <2>1 DEF BooksInv, SeqsRemembered
<1>4. Amount(l \cup {s}) = Amount(l) + s.amt
  BY <1>1, <1>3, AmountAdd
<1>5. Amount(l \cup {s}) <= Amount(m)
  <2>1. l \cup {s} \in SUBSET m
    OBVIOUS
  <2> QED BY <2>1, AmountSub
<1>6. Amount(l) \in Nat /\ Amount(m) \in Nat
  BY <1>1, AmountIs
<1> QED
  BY <1>1, <1>2, <1>4, <1>5, <1>6, LimitAssumption

(* What acceptance does to the balance and to the pause.                   *)
LEMMA AcceptPays ==
  ASSUME NEW c, NEW l, NEW paid \in Nat, NEW s \in Slices, opening.cum \in Nat,
         BooksInv(c, l, paid), CountInv(c, l), Accepts(c, s), c.balance = Amount(l)
  PROVE  /\ Accepted(c, s).balance = Amount(l \cup {s})
         /\ Accepted(c, s).pausedWindow = c.pausedWindow
<1>1. /\ Accepted(c, s).balance = c.balance + s.amt
      /\ Accepted(c, s).pausedWindow = c.pausedWindow
  BY DEF Accepted, BooksInv, BooksTyped, Fields
<1>2. s \notin l /\ l \in SUBSET Slices
  BY AcceptCounts DEF BooksInv, BooksTyped
<1>3. Amount(l \cup {s}) = Amount(l) + s.amt
  BY <1>2, AmountAdd
<1> QED
  BY <1>1, <1>3

LEMMA InitEx == ExInit => ExInv
<1> SUFFICES ASSUME ExInit PROVE ExInv
  OBVIOUS
<1>1. MeterInv
  BY InitMeter DEF ExInit
<1>2. /\ ch.balance = 0 /\ ch.pausedWindow = FALSE /\ log = {} /\ minted = {}
      /\ wallet = [cumStreamed |-> 0, nextSeq |-> 1, op |-> NoOperative]
  BY DEF ExInit, Init, New
<1> QED
  BY <1>1, <1>2, AmountEmpty, LimitAssumption DEF ExInv, Holds

LEMMA NextEx ==
  ASSUME Mode = "postpay", ExInv, [ExNext]_exVars
  PROVE  ExInv'
<1>0. /\ opening.cum \in Nat /\ opening.balance \in Int /\ credits \in Nat
      /\ BooksInv(ch, log, credits) /\ CountInv(ch, log) /\ MeterInv
  BY DEF ExInv, MeterInv, IInv
<1>1. /\ Holds(wallet) /\ minted \in SUBSET Slices /\ log \subseteq minted
      /\ \A s \in minted : s.seq < wallet.nextSeq
      /\ wallet.cumStreamed = Amount(minted) /\ Amount(minted) <= LimitL
      /\ ch.balance = Amount(log) /\ ch.pausedWindow = FALSE
  BY DEF ExInv
<1> DEFINE Streamed == /\ Holds(wallet') /\ minted' \subseteq Slices
                       /\ \A s \in minted' : s.seq < wallet'.nextSeq
                       /\ wallet'.cumStreamed = Amount(minted') /\ Amount(minted') <= LimitL
           Metered == /\ MeterInv' /\ log' \subseteq minted'
                      /\ ch'.balance = Amount(log') /\ ch'.pausedWindow = FALSE
<1>2. ASSUME UNCHANGED vars, minted \subseteq minted' PROVE Metered
  <2>1. MeterInv'
    BY <1>0, <1>2, NextMeter
  <2> QED BY <1>1, <1>2, <2>1 DEF vars
<1>3. ASSUME wallet'.cumStreamed = wallet.cumStreamed, wallet'.nextSeq = wallet.nextSeq,
             DOMAIN wallet' = DOMAIN wallet, minted' = minted
      PROVE  Streamed
  BY <1>1, <1>3 DEF Holds
<1>4. ASSUME NEW amt \in 0..MaxAmt, NextSlice(amt) PROVE Streamed /\ Metered
  <2> DEFINE s == [seq |-> wallet.nextSeq, amt |-> amt]
  <2>1. /\ wallet.nextSeq <= MaxSeq /\ wallet.cumStreamed + amt <= LimitL
        /\ minted' = minted \cup {s} /\ UNCHANGED vars
        /\ wallet' = [wallet EXCEPT !.nextSeq = @ + 1, !.cumStreamed = @ + amt]
    BY <1>4 DEF NextSlice, WithinCredit, PostpayOutstanding
  <2>2. /\ wallet.nextSeq \in Nat \ {0} /\ wallet.cumStreamed \in Nat /\ amt \in Nat
        /\ DOMAIN wallet = {"cumStreamed", "nextSeq", "op"}
    BY <1>1, BoundAssumption DEF Holds
  <2>3. /\ DOMAIN wallet' = {"cumStreamed", "nextSeq", "op"}
        /\ wallet'.nextSeq = wallet.nextSeq + 1 /\ wallet'.cumStreamed = wallet.cumStreamed + amt
    BY <2>1, <2>2
  <2>4. s \in Slices /\ s.seq = wallet.nextSeq /\ s.amt = amt
    BY <2>1, <2>2, BoundAssumption DEF Slices
  <2>5. s \notin minted
    BY <1>1, <2>2, <2>4
  <2> HIDE DEF s
  <2>6. Amount(minted') = Amount(minted) + amt
    BY <1>1, <2>1, <2>4, <2>5, AmountAdd
  <2>7. minted' \subseteq Slices /\ \A t \in minted' : t.seq < wallet'.nextSeq
    <3>1. ASSUME NEW t \in minted PROVE t.seq < wallet'.nextSeq
      <4>1. t.seq \in Nat /\ t.seq < wallet.nextSeq
        BY <1>1, BoundAssumption DEF Slices
      <4> QED BY <2>2, <2>3, <4>1
    <3> QED BY <1>1, <2>1, <2>2, <2>3, <2>4, <3>1
  <2>8. Streamed
    BY <1>1, <2>1, <2>2, <2>3, <2>6, <2>7 DEF Holds
  <2>9. Metered
    BY <1>2, <2>1
  <2> QED BY <2>8, <2>9
<1>5. ASSUME Deliver PROVE Streamed /\ Metered
  <2>1. wallet' = wallet /\ minted' = minted /\ Streamed
    BY <1>3, <1>5 DEF Deliver
  <2>2. ASSUME NEW s \in minted, BatchOfOne(s) PROVE Metered
    <3>1. MeterInv'
      BY <1>0, <1>1, <2>2, NextMeter DEF Next
    <3>2. ~HitsWindow(ch, s)
      BY <1>0, <1>1, MintedFits
    <3>3. Accepts(ch, s) /\ ch' = Accepted(ch, s) /\ log' = log \cup {s}
      BY <2>2, <3>2 DEF BatchOfOne
    <3>4. ch'.balance = Amount(log') /\ ch'.pausedWindow = FALSE
      BY <1>0, <1>1, <3>3, AcceptPays
    <3> QED BY <1>1, <2>1, <3>1, <3>3, <3>4
  <2>3. ASSUME NEW s \in minted, NEW t \in minted, BatchOfTwo(s, t) PROVE Metered
    <3>1. MeterInv'
      BY <1>0, <1>1, <2>3, NextMeter DEF Next
    <3>2. Accepts(ch, s)
      BY <2>3 DEF BatchOfTwo
    <3> DEFINE d == Accepted(ch, s)
               l == log \cup {s}
    <3>3. /\ BooksInv(d, l, credits) /\ CountInv(d, l)
          /\ d.balance = Amount(l) /\ d.pausedWindow = FALSE
      BY <1>0, <1>1, <3>2, AcceptKeeps, AcceptCounts, AcceptPays
    <3>4. ~HitsWindow(d, t)
      <4>1. l \subseteq minted
        BY <1>1
      <4> HIDE DEF d, l
      <4> QED BY <1>1, <3>3, <4>1, MintedFits
    <3>5. Accepts(d, t) /\ ch' = Accepted(d, t) /\ log' = l \cup {t}
      BY <2>3, <3>4 DEF BatchOfTwo
    <3> HIDE DEF d
    <3>6. ch'.balance = Amount(log') /\ ch'.pausedWindow = FALSE
      BY <1>0, <1>1, <3>3, <3>5, AcceptPays
    <3> QED BY <1>1, <2>1, <3>1, <3>5, <3>6
  <2> QED BY <1>5, <2>1, <2>2, <2>3 DEF Deliver
<1>6. ASSUME NEW cutoff \in 0..MaxSeq, NEW ref \in 1..MaxRef, RequestCheckpoint(cutoff, ref)
      PROVE  Streamed /\ Metered
  <2>1. ProposeCheckpoint(cutoff, ref) /\ wallet' = wallet /\ minted' = minted
    BY <1>6 DEF RequestCheckpoint
  <2>2. MeterInv'
    BY <1>0, <2>1, NextMeter DEF Next
  <2>3. ch' = ch /\ log' = log
    BY <2>1 DEF ProposeCheckpoint
  <2>4. Metered
    BY <1>1, <2>1, <2>2, <2>3
  <2> QED BY <1>3, <2>1, <2>4
<1>7. ASSUME NEW p \in proposals, Countersign(p) PROVE Streamed /\ Metered
  <2>1. OnCheckpointRequest(p) /\ wallet' = wallet /\ minted' = minted
    BY <1>7 DEF Countersign
  <2>2. MeterInv'
    BY <1>0, <2>1, NextMeter DEF Next
  <2>3. ch' = CheckpointUpTo(ch, p.lastSeq) /\ log' = log
    BY <2>1 DEF OnCheckpointRequest
  <2>4. ch'.balance = ch.balance /\ ch'.pausedWindow = ch.pausedWindow
    BY <1>0, <2>3 DEF CheckpointUpTo, BooksInv, BooksTyped, Fields
  <2>5. Metered
    BY <1>1, <2>1, <2>2, <2>3, <2>4
  <2> QED BY <1>3, <2>1, <2>5
<1>8. ASSUME NEW p \in proposals, Reanswer(p) PROVE Streamed /\ Metered
  BY <1>2, <1>3, <1>8 DEF Reanswer
<1>9. ASSUME NEW p \in replies, RecordOperative(p) PROVE Streamed /\ Metered
  <2>1. /\ wallet' = [wallet EXCEPT !.op = [ref |-> p.ref, cum |-> p.cum]]
        /\ minted' = minted /\ UNCHANGED vars
    BY <1>9 DEF RecordOperative
  <2>2. /\ wallet'.cumStreamed = wallet.cumStreamed /\ wallet'.nextSeq = wallet.nextSeq
        /\ DOMAIN wallet' = DOMAIN wallet
    BY <1>1, <2>1 DEF Holds
  <2> QED BY <1>2, <1>3, <2>1, <2>2
<1>10. ASSUME NEW p \in replies, LoseReply(p) PROVE Streamed /\ Metered
  BY <1>2, <1>3, <1>10 DEF LoseReply
<1>11. ASSUME UNCHANGED exVars PROVE Streamed /\ Metered
  BY <1>2, <1>3, <1>11 DEF exVars
<1> HIDE DEF Streamed, Metered
<1>12. Streamed /\ Metered
  BY <1>4, <1>5, <1>6, <1>7, <1>8, <1>9, <1>10, <1>11 DEF ExNext
<1> USE DEF Streamed, Metered
<1> QED
  BY <1>12 DEF ExInv, Holds

(* next_slice keeps the wallet within L_credit, so accept_slice never      *)
(* pauses an honest payer's channel, in whatever order, batches and        *)
(* repetitions its slices are delivered.                                   *)
THEOREM HonestPayerNeverPausedHolds ==
  ASSUME Mode = "postpay"
  PROVE  ExSpec => []HonestPayerNeverPaused
<1>1. ExInv /\ [ExNext]_exVars => ExInv'
  BY NextEx
<1>2. ExInv => HonestPayerNeverPaused
  BY DEF ExInv, HonestPayerNeverPaused
<1> QED
  BY InitEx, <1>1, <1>2, PTL DEF ExSpec
=============================================================================
