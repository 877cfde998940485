-------------------------- MODULE TorrentDownload --------------------------
(***************************************************************************)
(* One torrent download and its seeding (services/network_torrent.go), as  *)
(* called by a task, by the offline processor or by an offer.              *)
(*                                                                         *)
(* The download loop selects among the context, the channel that the       *)
(* goroutine in WaitAll closes, and a ticker; at each tick three rules     *)
(* with hysteresis may reject the download.  Time is counted in ticks.  The*)
(* torrent library is external: bytes arrive, peers come and go, a piece   *)
(* whose hash is wrong is lost again.  The reservation on the disk is the  *)
(* caller's, see DiskReserve.                                              *)
(***************************************************************************)
EXTENDS Integers

CONSTANTS
  Settings,         \* options and callers a download may have
  Total,            \* length of the torrent
  NearlyDone,       \* the first amount that is 95 % of it
  SlowBelow,        \* threshold of the rule "slow", per tick
  LowPeers,         \* threshold of the rule "low"
  MaxPeers,         \* bound: peers
  Limit,            \* how many ticks each rule waits
  RecoveryTicks,    \* good ticks in a row that end a countdown
  FullGate,         \* ticks after which RequireFull wants a first byte
  Ratio,            \* upload that satisfies the ratio
  MaxUploaded,      \* bound: bytes uploaded while seeding
  SeedHours,        \* seeding time, where the operator set one
  DefaultSeedHours, \* seeding time, where only a ratio is set
  SeedIdleLimit,    \* ticks without uploads after which an empty swarm is left
  MaxFailures       \* bound: pieces lost to a wrong hash

Rules == {"slow", "stall", "low"}
Callers == {"task", "offline", "offer"}

(* way "file": a .torrent file or cached metadata; "magnet": by its hash.  *)
SettingType == [caller : Callers, way : {"magnet", "file"}, rules : SUBSET Rules,
                boosted : BOOLEAN, full : BOOLEAN, seeds : SUBSET {"ratio", "hours"}]

ASSUME DownloadAssumption ==
  /\ Settings \subseteq SettingType
  /\ Total \in Nat \ {0} /\ NearlyDone \in 1..Total
  /\ SlowBelow \in Nat /\ LowPeers \in Nat /\ MaxPeers \in Nat
  /\ Limit \in [Rules -> Nat \ {0}]
  /\ RecoveryTicks \in Nat \ {0} /\ FullGate \in Nat
  /\ Ratio \in Nat /\ MaxUploaded \in Nat
  /\ SeedHours \in Nat /\ DefaultSeedHours \in Nat /\ SeedIdleLimit \in Nat
  /\ MaxFailures \in Nat

VARIABLES
  setting,       \* this download's caller and options
  at,            \* where the caller's goroutine is
  outcome,       \* how the download ended
  client,        \* whether the torrent client is open
  waiter,        \* the goroutine in WaitAll
  cancelled,     \* whether the context is done
  clock,         \* ticks since the loop, or the seeding, began
  completed,     \* t.BytesCompleted()
  peers,         \* len(t.PeerConns())
  failures,      \* pieces lost so far
  lastCompleted, \* completed at the last tick
  since,         \* per rule, ticks its countdown has run, -1 for the zero time
  good,          \* per rule, the recovery counter
  warned,        \* rules whose countdown the dashboard was last shown
  poor,          \* history: ticks in a row that broke the rule
  uploaded,      \* bytes written to peers
  lastUp,        \* lastProgressUp
  quiet,         \* ticks since lastProgressAt
  empty          \* history: ticks in a row without a peer or an upload

torrent == <<completed, peers, failures>>
loop == <<lastCompleted, since, good, warned, poor>>
seeding == <<uploaded, lastUp, quiet, empty>>
vars == <<setting, at, outcome, client, waiter, cancelled, clock, torrent, loop, seeding>>

Places == {"start", "metadata", "admit", "loop", "drain", "session", "seed", "over"}
ClockLimit == FullGate + SeedHours + DefaultSeedHours + 1

TypeOK ==
  /\ setting \in Settings /\ at \in Places
  /\ outcome \in {"none", "session", "rejected", "cancelled", "failed"}
  /\ client \in BOOLEAN /\ waiter \in {"none", "waiting", "gone"}
  /\ cancelled \in BOOLEAN /\ clock \in 0..ClockLimit
  /\ completed \in 0..Total /\ peers \in 0..MaxPeers /\ failures \in 0..MaxFailures
  /\ lastCompleted \in 0..Total
  /\ since \in [Rules -> Int] /\ \A r \in Rules : since[r] \in -1..(Limit[r] + 1)
  /\ good \in [Rules -> 0..(RecoveryTicks - 1)]
  /\ warned \subseteq Rules
  /\ poor \in [Rules -> Nat] /\ \A r \in Rules : poor[r] <= Limit[r] + 2
  /\ uploaded \in 0..MaxUploaded /\ lastUp \in 0..uploaded
  /\ quiet \in 0..(SeedIdleLimit + 1) /\ empty \in 0..(SeedIdleLimit + 1)

FreshLoop ==
  /\ lastCompleted' = 0
  /\ since' = [r \in Rules |-> -1]
  /\ good' = [r \in Rules |-> 0]
  /\ warned' = {}
  /\ poor' = [r \in Rules |-> 0]

Init ==
  /\ setting \in Settings
  /\ at = "start" /\ outcome = "none"
  /\ client = FALSE /\ waiter = "none" /\ cancelled = FALSE /\ clock = 0
  /\ completed = 0 /\ peers = 0 /\ failures = 0
  /\ lastCompleted = 0
  /\ since = [r \in Rules |-> -1]
  /\ good = [r \in Rules |-> 0]
  /\ warned = {}
  /\ poor = [r \in Rules |-> 0]
  /\ uploaded = 0 /\ lastUp = 0 /\ quiet = 0 /\ empty = 0

Least(a, b) == IF a <= b THEN a ELSE b

-----------------------------------------------------------------------------
(* Before the loop: the client, the metadata, the admission test.          *)

OpenClient ==
  /\ at = "start"
  /\ \/ at' = "metadata" /\ client' = TRUE /\ UNCHANGED outcome
     \/ at' = "over" /\ outcome' = "failed" /\ UNCHANGED client
  /\ UNCHANGED <<setting, waiter, cancelled, clock, torrent, loop, seeding>>

GotInfo ==
  /\ at = "metadata"
  /\ at' = "admit"
  /\ UNCHANGED <<setting, outcome, client, waiter, cancelled, clock, torrent, loop, seeding>>

(* t.Drop, client.Close and return an error.                               *)
Abandon(why) ==
  /\ at' = "over" /\ outcome' = why /\ client' = FALSE
  /\ UNCHANGED <<setting, waiter, cancelled, torrent, seeding>>

(* The metadata wait ends by its timer or by the context.                  *)
NoInfo ==
  /\ at = "metadata"
  /\ Abandon("failed") \/ (cancelled /\ Abandon("cancelled"))
  /\ UNCHANGED <<clock, loop>>

(* DiskShortfallError.                                                     *)
Refuse ==
  /\ at = "admit"
  /\ Abandon("failed")
  /\ UNCHANGED <<clock, loop>>

(* ReserveDisk, then downloadAndWaitSeed starts its goroutine.             *)
Admit ==
  /\ at = "admit"
  /\ at' = "loop" /\ waiter' = "waiting" /\ clock' = 0
  /\ FreshLoop
  /\ UNCHANGED <<setting, outcome, client, cancelled, torrent, seeding>>

-----------------------------------------------------------------------------
(* The rules, as a tick finds them.                                        *)

Speed == completed - lastCompleted

Bad(r) ==
  \/ r = "slow" /\ IF setting.boosted THEN Speed = 0 ELSE Speed < SlowBelow
  \/ r = "stall" /\ Speed = 0
  \/ r = "low" /\ peers <= LowPeers

(* What the configuration asks for: "slow" and "low" up to 95 %, "stall"   *)
(* up to the last byte.  Mutant: the stall rule knows no last byte.        *)
ConfiguredToTheEnd(r) ==
  /\ r \in setting.rules
  /\ r # "stall" => completed < NearlyDone
Configured(r) ==
  /\ r \in setting.rules
  /\ completed < (IF r = "stall" THEN Total ELSE NearlyDone)

(* The options of "slow" and "low" are handed on by the magnet's way only. *)
Reached(r) == r = "stall" \/ setting.way = "magnet"
InForce(r) == Configured(r) /\ Reached(r)

Aged(r) == IF since[r] < 0 THEN -1 ELSE Least(since[r] + 1, Limit[r] + 1)
Trips(r) == InForce(r) /\ Bad(r) /\ Aged(r) > Limit[r]
NoFirstByte == setting.full /\ completed = 0 /\ clock >= FullGate

(* A bad tick starts the countdown, or lets it run.  Mutant: it starts it  *)
(* anew.                                                                   *)
StartedAnew(r) == 0
Running(r) == IF since[r] < 0 THEN 0 ELSE Aged(r)

(* A good tick.                                                            *)
Recovers(r) == good[r] + 1 >= RecoveryTicks

NextSince(r) ==
  IF InForce(r)
  THEN IF Bad(r) THEN Running(r) ELSE IF Recovers(r) THEN -1 ELSE Aged(r)
  ELSE IF r = "stall" /\ completed >= Total THEN -1 ELSE Aged(r)

NextGood(r) ==
  IF ~InForce(r) \/ (~Bad(r) /\ since[r] < 0) THEN good[r]
  ELSE IF Bad(r) \/ Recovers(r) THEN 0 ELSE good[r] + 1

Shown(r) == InForce(r) /\ NextSince(r) >= 0

NextPoor(r) == IF Configured(r) /\ Bad(r) THEN Least(poor[r] + 1, Limit[r] + 2) ELSE 0

-----------------------------------------------------------------------------
(* downloadAndWaitSeed.                                                    *)

(* Mutant: the client stays open.                                          *)
RejectOnly ==
  /\ at = "loop"
  /\ NoFirstByte \/ \E r \in Rules : Trips(r)
  /\ at' = "over" /\ outcome' = "rejected"
  /\ FreshLoop
  /\ clock' = 0
  /\ UNCHANGED <<setting, client, waiter, cancelled, torrent, seeding>>

Reject ==
  /\ at = "loop"
  /\ NoFirstByte \/ \E r \in Rules : Trips(r)
  /\ Abandon("rejected")
  /\ FreshLoop
  /\ clock' = 0

Tick ==
  /\ at = "loop"
  /\ ~NoFirstByte /\ \A r \in Rules : ~Trips(r)
  /\ clock' = Least(clock + 1, FullGate)
  /\ lastCompleted' = completed
  /\ since' = [r \in Rules |-> NextSince(r)]
  /\ good' = [r \in Rules |-> NextGood(r)]
  /\ warned' = {r \in Rules : Shown(r)}
  /\ poor' = [r \in Rules |-> NextPoor(r)]
  /\ UNCHANGED <<setting, at, outcome, client, waiter, cancelled, torrent, seeding>>

(* The ctx.Done branch: Drop and Close, then wait for the goroutine.       *)
CancelSeen ==
  /\ at = "loop" /\ cancelled
  /\ at' = "drain" /\ client' = FALSE
  /\ FreshLoop /\ clock' = 0
  /\ UNCHANGED <<setting, outcome, waiter, cancelled, torrent, seeding>>

Drained ==
  /\ at = "drain" /\ waiter = "gone"
  /\ at' = "over" /\ outcome' = "cancelled"
  /\ UNCHANGED <<setting, client, waiter, cancelled, clock, torrent, loop, seeding>>

(* The done branch.                                                        *)
Finish ==
  /\ at = "loop" /\ waiter = "gone"
  /\ at' = "session" /\ outcome' = "session"
  /\ FreshLoop /\ clock' = 0
  /\ UNCHANGED <<setting, client, waiter, cancelled, torrent, seeding>>

(* cl.WaitAll() returns when all is there or the client is closed; before  *)
(* that it may, and the code counts with it.                               *)
WaitAllReturns ==
  /\ waiter = "waiting" /\ (completed = Total \/ ~client)
  /\ waiter' = "gone"
  /\ UNCHANGED <<setting, at, outcome, client, cancelled, clock, torrent, loop, seeding>>

WaitAllGivesUp ==
  /\ waiter = "waiting" /\ client /\ completed < Total
  /\ waiter' = "gone"
  /\ UNCHANGED <<setting, at, outcome, client, cancelled, clock, torrent, loop, seeding>>

(* The swarm between two ticks.                                            *)
Swarm ==
  /\ at = "loop"
  /\ peers' \in 0..MaxPeers
  /\ completed' \in 0..Total
  /\ failures' = IF completed' < completed THEN failures + 1 ELSE failures
  /\ failures' <= MaxFailures
  /\ UNCHANGED <<setting, at, outcome, client, waiter, cancelled, clock, loop, seeding>>

-----------------------------------------------------------------------------
(* The caller has the session: it publishes and reports.  A task whose     *)
(* report succeeded seeds, if a ratio or a time is set; in every other case*)
(* the session is closed.                                                  *)

Seed ==
  /\ at = "session" /\ setting.caller = "task" /\ setting.seeds # {}
  /\ at' = "seed"
  /\ UNCHANGED <<setting, outcome, client, waiter, cancelled, clock, torrent, loop, seeding>>

Close ==
  /\ at = "session"
  /\ at' = "over" /\ client' = FALSE
  /\ UNCHANGED <<setting, outcome, waiter, cancelled, clock, torrent, loop, seeding>>

(* runSeedPhase.  Mutant: no end without a configured time.                *)
PastConfiguredDeadline == "hours" \in setting.seeds /\ clock >= SeedHours
PastDeadline == clock >= (IF "hours" \in setting.seeds THEN SeedHours ELSE DefaultSeedHours)
Progress == uploaded > lastUp
NextQuiet == IF Progress THEN 0 ELSE Least(quiet + 1, SeedIdleLimit + 1)
DeadSwarm == peers = 0 /\ NextQuiet > SeedIdleLimit
RatioReached == "ratio" \in setting.seeds /\ uploaded >= Ratio

(* A tick that ends it, or the context; then session.Close.                *)
SeedEnd ==
  /\ at = "seed"
  /\ cancelled \/ DeadSwarm \/ RatioReached \/ PastDeadline
  /\ at' = "over" /\ client' = FALSE
  /\ uploaded' = 0 /\ lastUp' = 0 /\ quiet' = 0 /\ empty' = 0 /\ clock' = 0
  /\ UNCHANGED <<setting, outcome, waiter, cancelled, torrent, loop>>

SeedTick ==
  /\ at = "seed"
  /\ ~DeadSwarm /\ ~RatioReached /\ ~PastDeadline
  /\ clock' = Least(clock + 1, SeedHours + DefaultSeedHours)
  /\ quiet' = NextQuiet /\ lastUp' = uploaded
  /\ empty' = IF peers = 0 /\ uploaded = lastUp
              THEN Least(empty + 1, SeedIdleLimit + 1) ELSE 0
  /\ UNCHANGED <<setting, at, outcome, client, waiter, cancelled, torrent, loop, uploaded>>

SeedSwarm ==
  /\ at = "seed"
  /\ peers' \in 0..MaxPeers
  /\ uploaded' \in uploaded..MaxUploaded
  /\ UNCHANGED <<setting, at, outcome, client, waiter, cancelled, clock, completed,
                 failures, loop, lastUp, quiet, empty>>

(* A shutdown, a skip by the user, or the deadline of an offer.            *)
Cancel ==
  /\ ~cancelled /\ at # "over"
  /\ cancelled' = TRUE
  /\ UNCHANGED <<setting, at, outcome, client, waiter, clock, torrent, loop, seeding>>

LoopStep == Reject \/ Tick \/ CancelSeen \/ Finish
Environment == Swarm \/ SeedSwarm \/ Cancel \/ WaitAllGivesUp
Next ==
  \/ OpenClient \/ GotInfo \/ NoInfo \/ Refuse \/ Admit
  \/ LoopStep \/ Drained \/ WaitAllReturns
  \/ Seed \/ Close \/ SeedEnd \/ SeedTick
  \/ Environment

Spec == Init /\ [][Next]_vars

(* The ticker ticks, a select takes every ready branch some time, the      *)
(* library answers, the pipeline of the caller ends, an offer's context    *)
(* has a deadline.                                                         *)
FairSpec ==
  /\ Spec
  /\ WF_vars(OpenClient) /\ WF_vars(GotInfo \/ NoInfo) /\ WF_vars(Refuse \/ Admit)
  /\ WF_vars(Reject \/ Tick) /\ WF_vars(CancelSeen) /\ WF_vars(Finish)
  /\ WF_vars(Drained) /\ WF_vars(WaitAllReturns)
  /\ WF_vars(Seed \/ Close) /\ WF_vars(SeedEnd \/ SeedTick)
  /\ WF_vars(setting.caller = "offer" /\ Cancel)

-----------------------------------------------------------------------------
(* Properties.                                                             *)

(* The ticker may be served although WaitAll has returned: no rule rejects *)
(* a download that has all its bytes (the fault repaired in 1.5.27).       *)
CompleteNeverRejected ==
  [][at = "loop" /\ outcome' = "rejected" => completed < Total]_vars

(* A download that breaks a rule which is in force at each of Limit + 2    *)
(* ticks in a row is rejected, whatever happened before.                   *)
PoorNeverLasts ==
  \A r \in Rules : Reached(r) => poor[r] <= Limit[r] + 1

(* The owner sees it coming: a rule that rejects was counting down in the  *)
(* warnings of the tick before, unless lost pieces have taken the download *)
(* back below 95 %.                                                        *)
Announced ==
  [][\A r \in Rules :
       at = "loop" /\ outcome' = "rejected" /\ Trips(r) /\ (r = "stall" \/ failures = 0)
         => r \in warned]_vars

(* Seeding leaves a swarm that has neither peers nor uploads.              *)
DeadSwarmLeft == at = "seed" => empty <= SeedIdleLimit

(* A download with a stall rule, or for an offer, ends, and its seeding    *)
(* too: the slot, the directory and the reservation come back.             *)
Ends == (setting.caller = "offer" \/ "stall" \in setting.rules) ~> (at = "over")

(* However the call ends, its goroutine ends too.                          *)
NoWaiterLeft == at = "over" ~> waiter # "waiting"

=============================================================================
