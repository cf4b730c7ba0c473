----------------------------- MODULE MCF7Rounds -----------------------------
(* Model values for F7Rounds: three unequal roles of which two share a fund *)
(* and the merchant's account is also a role's; rates at, below and above   *)
(* unity, the last so steep that a round can pay and extinguish nothing; a  *)
(* ledger settled by time or by value, or a long-lived split.               *)
EXTENDS F7Rounds

MCBp == <<3, 1, 2>>
MCDest == <<"fund", "os", "fund">>
MCFrozen == {{}, {"os"}}
MCLegacy == {5}
MCSteep == [p |-> 15, q |-> 1]
MCRates == {Unity, [p |-> 2, q |-> 3], MCSteep}
MCLoads ==
  {[accrue |-> 5, pay |-> 0, value |-> 0, time |-> 1, rate |-> Unity],
   [accrue |-> 4, pay |-> 0, value |-> 2, time |-> 0, rate |-> Unity],
   [accrue |-> 2, pay |-> 0, value |-> 0, time |-> 1, rate |-> MCSteep],
   [accrue |-> 1, pay |-> 9, value |-> 0, time |-> 0, rate |-> Unity]}
=============================================================================
