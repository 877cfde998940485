----------------------------- MODULE MCTempSweep -----------------------------
(* Small instances of TempSweep.                                           *)
EXTENDS TempSweep, FiniteSets, TLC

RequestSymmetry == Permutations(Requests)

(* Bound: a second request takes part only without an offer, and in a      *)
(* process that dies only without the hourly sweep; a request is run again *)
(* only in a process that has not died and without an offer, and beside    *)
(* another request only when that one runs once and without the hourly     *)
(* sweep; an offer is taken once.                                          *)
Involved(j) ==
  \/ pc[j] # "idle" \/ runs[j] > 0 \/ content[j] # "none"
  \/ j \in stages \cup file.entries
Company ==
  LET engaged == {r \in Requests : Involved(r)}
      again == {r \in Requests : runs[r] > 1}
      offered == \E o \in Offers : Involved(o)
      hourly == \E h \in Hourly : sweep[h] # NotSweeping
  IN  /\ \A o \in Offers : runs[o] <= 1
      /\ Cardinality(engaged) > 1 => ~offered /\ (crashes = 0 \/ ~hourly)
      /\ again # {} => ~offered /\ crashes = 0
      /\ again # {} /\ Cardinality(engaged) > 1 => ~hourly /\ Cardinality(again) = 1
=============================================================================
