---------------------------- MODULE OneDecision ----------------------------
(***************************************************************************)
(* WalOneDecision of crates/paytp-merchant/src/one_decision.rs: the        *)
(* append-only log behind every exactly-once decision of the merchant, on  *)
(* a disk whose every operation may fail and in a process that may stop at *)
(* any point, inside `decide` too.                                         *)
(*                                                                         *)
(* The file is the sequence of what was appended to it, whole records and  *)
(* torn ones, and an offset is an index.  A stop is a stop of the process: *)
(* what it has written stays written.                                      *)
(*                                                                         *)
(* A definition named Bug... is a mistake one could make in the definition *)
(* after it; no specification uses it.                                     *)
(***************************************************************************)
EXTENDS Integers, Sequences

CONSTANTS
  Keys,        \* the decision keys
  Values,      \* the decisions
  MaxAppends   \* bound on the appends tried

ASSUME AppendAssumption == MaxAppends \in Nat

VARIABLES
  up,          \* the store is open
  disk,        \* the file
  map,         \* the decisions in memory
  len,         \* the length of the durable records
  cursor,      \* where the next append goes
  poisoned,    \* a failed append could not be undone
  appends,     \* auxiliary: the appends tried so far
  fresh,       \* auxiliary: how often each key was answered Fresh
  told         \* auxiliary: the values each key was answered with

wal == <<up, disk, map, len, cursor, poisoned>>
answers == <<fresh, told>>
logVars == <<wal, appends, answers>>

Records == [form : {"whole", "torn"}, key : Keys, val : Values]

WholeUpTo(d, n) == \A j \in 1..n : d[j].form = "whole"

\* replay: the records before the first torn one.
IsWholePrefix(d, n) ==
  /\ n \in 0..Len(d)
  /\ WholeUpTo(d, n)
  /\ n < Len(d) => d[n + 1].form = "torn"

Recorded(d, n) == {d[j].key : j \in 1..n}

\* The first record of a key is its decision.
FirstOf(d, k) ==
  LET first == CHOOSE n \in DOMAIN d : d[n].key = k /\ \A j \in 1..(n - 1) : d[j].key # k
  IN  d[first].val

BugReplayKeepsTornTail(n) ==
  /\ disk' = disk
  /\ cursor' = Len(disk)

\* The torn tail is cut off.
Truncated(n) ==
  /\ disk' = SubSeq(disk, 1, n)
  /\ cursor' = n

LogInit ==
  /\ up = FALSE /\ disk = <<>> /\ map = <<>>
  /\ len = 0 /\ cursor = 0 /\ poisoned = FALSE /\ appends = 0
  /\ fresh = [k \in Keys |-> 0]
  /\ told = [k \in Keys |-> {}]

\* An open whose truncation fails is an error and leaves the store closed.
OpenLog(n) ==
  /\ ~up
  /\ IsWholePrefix(disk, n)
  /\ up' = TRUE
  /\ Truncated(n)
  /\ len' = n
  /\ map' = [k \in Recorded(disk, n) |-> FirstOf(disk, k)]
  /\ poisoned' = FALSE
  /\ UNCHANGED <<appends, answers>>

-----------------------------------------------------------------------------
(* decide.                                                                 *)

\* A write at the cursor; one past the end of the file leaves a hole before it.
Appended(k, v, form) ==
  [j \in 1..(cursor + 1) |->
     IF j <= cursor /\ j <= Len(disk) THEN disk[j]
     ELSE [form |-> IF j = cursor + 1 THEN form ELSE "torn", key |-> k, val |-> v]]

Answer(k, outcome, v) ==
  /\ fresh' = [fresh EXCEPT ![k] = IF outcome = "fresh" THEN @ + 1 ELSE @]
  /\ told' = [told EXCEPT ![k] = IF outcome = "failed" THEN @ ELSE @ \cup {v}]

Healthy == up /\ ~poisoned

DecidePoisoned(k, v) ==
  /\ up /\ poisoned
  /\ Answer(k, "failed", v)
  /\ UNCHANGED <<wal, appends>>

DecideAgain(k, v) ==
  /\ Healthy
  /\ k \in DOMAIN map
  /\ Answer(k, "already", map[k])
  /\ UNCHANGED <<wal, appends>>

Appending(k) ==
  /\ Healthy
  /\ k \notin DOMAIN map
  /\ appends < MaxAppends
  /\ appends' = appends + 1

DecideFresh(k, v) ==
  /\ Appending(k)
  /\ disk' = Appended(k, v, "whole")
  /\ cursor' = cursor + 1
  /\ len' = len + 1
  /\ map' = [x \in DOMAIN map \cup {k} |-> IF x = k THEN v ELSE map[x]]
  /\ Answer(k, "fresh", v)
  /\ UNCHANGED <<up, poisoned>>

\* What a failed or interrupted append may leave in the file.
Outcomes == {"nothing", "torn", "whole"}
Left(k, v, outcome) == IF outcome = "nothing" THEN disk ELSE Appended(k, v, outcome)

BugNeverPoisoned(setOk, seekOk) == FALSE

Poisons(setOk, seekOk) == ~setOk \/ ~seekOk

\* The write or the sync fails; so may the truncation back to len, and the seek.
DecideFails(k, v, outcome, setOk, seekOk) ==
  /\ Appending(k)
  /\ disk' = IF setOk THEN SubSeq(Left(k, v, outcome), 1, len) ELSE Left(k, v, outcome)
  /\ cursor' = IF seekOk THEN len ELSE Len(Left(k, v, outcome))
  /\ poisoned' = Poisons(setOk, seekOk)
  /\ Answer(k, "failed", v)
  /\ UNCHANGED <<up, map, len>>

\* The process stops, between decisions or while appending one.
Stop ==
  /\ up /\ up' = FALSE
  /\ UNCHANGED <<disk, map, len, cursor, poisoned, appends, answers>>

StopInDecide(k, v, outcome) ==
  /\ Appending(k)
  /\ up' = FALSE
  /\ disk' = Left(k, v, outcome)
  /\ UNCHANGED <<map, len, cursor, poisoned, answers>>

LogNext ==
  \/ \E n \in 0..Len(disk) : OpenLog(n)
  \/ Stop
  \/ \E k \in Keys, v \in Values :
       \/ DecidePoisoned(k, v) \/ DecideAgain(k, v) \/ DecideFresh(k, v)
       \/ \E outcome \in Outcomes :
            \/ StopInDecide(k, v, outcome)
            \/ \E setOk, seekOk \in BOOLEAN : DecideFails(k, v, outcome, setOk, seekOk)

LogSpec == LogInit /\ [][LogNext]_logVars

-----------------------------------------------------------------------------
(* Properties.                                                             *)

\* decide: across any failures and restarts, a caller is told to perform the
\* gated side effect of a key at most once.
FreshOnce == \A k \in Keys : fresh[k] <= 1

\* decide: every answer about a key names the same decision, so a close
\* disposition is never told as a refund to one caller and an import to another.
OneAnswer == \A k \in Keys : \A v, w \in told[k] : v = w

\* A decision told to a caller survives: the log replays it as told.
ToldIsDurable ==
  \A k \in Keys : told[k] # {} =>
    \E n \in DOMAIN disk :
      /\ WholeUpTo(disk, n)
      /\ disk[n].key = k /\ disk[n].val \in told[k]
=============================================================================
