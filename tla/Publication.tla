---------------------------- MODULE Publication ----------------------------
(***************************************************************************)
(* What PublishDirectory promises its callers, whatever its steps do and   *)
(* whatever fails: a call ends once, with an NZB or with an error.  While  *)
(* it runs files reach Usenet only for the call that has the upload to     *)
(* itself, only files of the release reach it, none of a private release   *)
(* in the clear, and the NZB is handed out only once the release can be    *)
(* read back in full; nothing is posted after that.                        *)
(***************************************************************************)
CONSTANTS
  Jobs,         \* calls of PublishDirectory
  NoJob,        \* nobody has the upload
  Private,      \* calls that may post nothing in the clear
  Content,      \* the files a release may consist of
  Complete(_)   \* whether a set of files is the whole release

VARIABLES
  holder,       \* the call that has the upload to itself
  delivered,    \* what a subscriber with the password can read back
  clear,        \* ... and without it
  phase,        \* "preparing", "posting", "published" or "failed"
  spoiled       \* calls whose copies a sweep has got hold of

pubVars == <<holder, delivered, clear, phase, spoiled>>

PubInit ==
  /\ holder = NoJob
  /\ delivered = [j \in Jobs |-> {}] /\ clear = [j \in Jobs |-> {}]
  /\ phase = [j \in Jobs |-> "preparing"]
  /\ spoiled = {}

Begin(j) ==
  /\ holder = NoJob /\ phase[j] = "preparing"
  /\ holder' = j
  /\ phase' = [phase EXCEPT ![j] = "posting"]
  /\ UNCHANGED <<delivered, clear, spoiled>>

Post(j) ==
  /\ holder = j /\ phase[j] = "posting"
  /\ \E new \in SUBSET Content :
       /\ delivered' = [delivered EXCEPT ![j] = @ \cup new]
       /\ clear' = IF j \in Private THEN clear ELSE [clear EXCEPT ![j] = @ \cup new]
  /\ UNCHANGED <<holder, phase, spoiled>>

Succeed(j) ==
  /\ holder = j /\ phase[j] = "posting"
  /\ Complete(delivered[j]) \/ j \in spoiled
  /\ phase' = [phase EXCEPT ![j] = "published"]
  /\ UNCHANGED <<holder, delivered, clear, spoiled>>

GiveUp(j) ==
  /\ phase[j] \in {"preparing", "posting"}
  /\ phase' = [phase EXCEPT ![j] = "failed"]
  /\ UNCHANGED <<holder, delivered, clear, spoiled>>

Leave(j) ==
  /\ holder = j /\ phase[j] \in {"published", "failed"}
  /\ holder' = NoJob
  /\ UNCHANGED <<delivered, clear, phase, spoiled>>

Spoil(j) ==
  /\ spoiled' = spoiled \cup {j}
  /\ UNCHANGED <<holder, delivered, clear, phase>>

PubNext ==
  \E j \in Jobs : Begin(j) \/ Post(j) \/ Succeed(j) \/ GiveUp(j) \/ Leave(j) \/ Spoil(j)

PubSpec == PubInit /\ [][PubNext]_pubVars
=============================================================================
