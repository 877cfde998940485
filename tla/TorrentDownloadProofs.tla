----------------------- MODULE TorrentDownloadProofs -----------------------
(* Theorems about TorrentDownload, for any torrent, limits and settings.   *)
EXTENDS TorrentDownload, TLAPS

-----------------------------------------------------------------------------
(* What a tick makes of the timers.                                        *)

(* A countdown stays between the zero time and one tick past its limit.    *)
LEMMA SinceType ==
  ASSUME TypeOK, NEW r \in Rules
  PROVE  /\ NextSince(r) \in Int /\ NextSince(r) \in -1..(Limit[r] + 1)
         /\ Aged(r) \in -1..(Limit[r] + 1)
<1>1. /\ since[r] \in Int /\ since[r] \in -1..(Limit[r] + 1)
      /\ Limit[r] \in Nat \ {0}
  BY DownloadAssumption DEF TypeOK
<1>2. Aged(r) \in -1..(Limit[r] + 1)
  BY <1>1 DEF Aged, Least
<1>3. Running(r) \in -1..(Limit[r] + 1)
  BY <1>1, <1>2 DEF Running
<1>4. NextSince(r) \in -1..(Limit[r] + 1)
  BY <1>1, <1>2, <1>3 DEF NextSince
<1> QED
  BY <1>1, <1>2, <1>4

(* The recovery counter stays below RecoveryTicks.                         *)
LEMMA GoodType ==
  ASSUME TypeOK, NEW r \in Rules
  PROVE  NextGood(r) \in 0..(RecoveryTicks - 1)
<1>1. /\ good[r] \in 0..(RecoveryTicks - 1) /\ RecoveryTicks \in Nat \ {0}
  BY DownloadAssumption DEF TypeOK
<1> QED
  BY <1>1 DEF NextGood, Recovers

LEMMA PoorType ==
  ASSUME TypeOK, NEW r \in Rules
  PROVE  NextPoor(r) \in Nat /\ NextPoor(r) <= Limit[r] + 2
<1>1. poor[r] \in Nat /\ poor[r] <= Limit[r] + 2 /\ Limit[r] \in Nat \ {0}
  BY DownloadAssumption DEF TypeOK
<1> QED
  BY <1>1 DEF NextPoor, Least

(* The timers of a new loop, and of one that is left.                      *)
LEMMA FreshType ==
  ASSUME FreshLoop
  PROVE  /\ lastCompleted' \in 0..Total
         /\ since' \in [Rules -> Int] /\ \A r \in Rules : since'[r] \in -1..(Limit[r] + 1)
         /\ good' \in [Rules -> 0..(RecoveryTicks - 1)]
         /\ warned' \subseteq Rules
         /\ poor' \in [Rules -> Nat] /\ \A r \in Rules : poor'[r] <= Limit[r] + 2
<1>1. \A r \in Rules : Limit[r] \in Nat \ {0}
  BY DownloadAssumption
<1> QED
  BY <1>1, DownloadAssumption DEF FreshLoop

LEMMA ClockBound ==
  /\ ClockLimit \in Nat /\ FullGate \in 0..ClockLimit
  /\ (SeedHours + DefaultSeedHours) \in 0..ClockLimit
  BY DownloadAssumption DEF ClockLimit

-----------------------------------------------------------------------------
(* Type correctness.                                                       *)

LEMMA InitTypeOK == Init => TypeOK
<1> SUFFICES ASSUME Init PROVE TypeOK
  OBVIOUS
<1>1. /\ \A r \in Rules : Limit[r] \in Nat \ {0}
      /\ RecoveryTicks \in Nat \ {0} /\ MaxPeers \in Nat /\ MaxFailures \in Nat
      /\ MaxUploaded \in Nat /\ SeedIdleLimit \in Nat /\ Total \in Nat
  BY DownloadAssumption
<1>2. /\ since \in [Rules -> Int] /\ \A r \in Rules : since[r] \in -1..(Limit[r] + 1)
      /\ good \in [Rules -> 0..(RecoveryTicks - 1)]
      /\ poor \in [Rules -> Nat] /\ \A r \in Rules : poor[r] <= Limit[r] + 2
  BY <1>1 DEF Init
<1>3. 0 \in 0..ClockLimit
  BY ClockBound
<1>4. client \in BOOLEAN /\ cancelled \in BOOLEAN
  BY DEF Init
<1>5. /\ setting \in Settings /\ at \in Places /\ clock \in 0..ClockLimit
      /\ outcome \in {"none", "session", "rejected", "cancelled", "failed"}
      /\ waiter \in {"none", "waiting", "gone"}
      /\ warned \subseteq Rules /\ lastCompleted \in 0..Total
  BY <1>1, <1>3 DEF Init, Places
<1>6. /\ completed \in 0..Total /\ peers \in 0..MaxPeers /\ failures \in 0..MaxFailures
      /\ uploaded \in 0..MaxUploaded /\ lastUp \in 0..uploaded
      /\ quiet \in 0..(SeedIdleLimit + 1) /\ empty \in 0..(SeedIdleLimit + 1)
  BY <1>1 DEF Init
<1> QED
  BY <1>2, <1>4, <1>5, <1>6 DEF TypeOK

LEMMA TickTypeOK == TypeOK /\ Tick => TypeOK'
<1> SUFFICES ASSUME TypeOK, Tick PROVE TypeOK'
  OBVIOUS
<1>1. since' \in [Rules -> Int] /\ \A r \in Rules : since'[r] \in -1..(Limit[r] + 1)
  BY SinceType DEF Tick
<1>2. good' \in [Rules -> 0..(RecoveryTicks - 1)]
  BY GoodType DEF Tick
<1>3. poor' \in [Rules -> Nat] /\ \A r \in Rules : poor'[r] <= Limit[r] + 2
  BY PoorType DEF Tick
<1>4. warned' \subseteq Rules /\ lastCompleted' \in 0..Total
  BY DEF Tick, TypeOK
<1>5. clock' \in 0..ClockLimit
  BY ClockBound DEF Tick, TypeOK, Least
<1>6. client' \in BOOLEAN /\ cancelled' \in BOOLEAN
  BY DEF Tick, TypeOK
<1>7. /\ setting' \in Settings /\ at' \in Places
      /\ outcome' \in {"none", "session", "rejected", "cancelled", "failed"}
      /\ waiter' \in {"none", "waiting", "gone"}
      /\ completed' \in 0..Total /\ peers' \in 0..MaxPeers /\ failures' \in 0..MaxFailures
      /\ uploaded' \in 0..MaxUploaded /\ lastUp' \in 0..uploaded'
      /\ quiet' \in 0..(SeedIdleLimit + 1) /\ empty' \in 0..(SeedIdleLimit + 1)
  BY DEF Tick, TypeOK, torrent, seeding
<1> QED
  BY <1>1, <1>2, <1>3, <1>4, <1>5, <1>6, <1>7 DEF TypeOK

(* The actions that enter or leave the download loop.                      *)
LEMMA LoopEdgeTypeOK == TypeOK /\ (Admit \/ Reject \/ CancelSeen \/ Finish) => TypeOK'
<1> SUFFICES ASSUME TypeOK, Admit \/ Reject \/ CancelSeen \/ Finish PROVE TypeOK'
  OBVIOUS
<1>1. FreshLoop /\ clock' = 0
  BY DEF Admit, Reject, CancelSeen, Finish
<1>2. /\ lastCompleted' \in 0..Total
      /\ since' \in [Rules -> Int] /\ \A r \in Rules : since'[r] \in -1..(Limit[r] + 1)
      /\ good' \in [Rules -> 0..(RecoveryTicks - 1)]
      /\ warned' \subseteq Rules
      /\ poor' \in [Rules -> Nat] /\ \A r \in Rules : poor'[r] <= Limit[r] + 2
  BY <1>1, FreshType
<1>3. clock' \in 0..ClockLimit
  BY <1>1, ClockBound
<1> QED
  BY <1>2, <1>3
  DEF TypeOK, Admit, Reject, Abandon, CancelSeen, Finish, torrent, seeding, Places

(* The actions that leave the timers of the loop alone.                    *)
LEMMA CalmTypeOK ==
  ASSUME TypeOK,
         \/ OpenClient \/ GotInfo \/ NoInfo \/ Refuse \/ Drained \/ WaitAllReturns
         \/ Seed \/ Close \/ SeedEnd \/ SeedTick \/ Environment
  PROVE  TypeOK'
<1>1. UNCHANGED loop
  BY DEF OpenClient, GotInfo, NoInfo, Refuse, Drained, WaitAllReturns, Seed, Close,
         SeedEnd, SeedTick, Environment, Swarm, SeedSwarm, Cancel, WaitAllGivesUp
<1>2. /\ lastCompleted' \in 0..Total
      /\ since' \in [Rules -> Int] /\ \A r \in Rules : since'[r] \in -1..(Limit[r] + 1)
      /\ good' \in [Rules -> 0..(RecoveryTicks - 1)]
      /\ warned' \subseteq Rules
      /\ poor' \in [Rules -> Nat] /\ \A r \in Rules : poor'[r] <= Limit[r] + 2
  BY <1>1 DEF TypeOK, loop
<1>3. MaxUploaded \in Nat /\ SeedIdleLimit \in Nat /\ MaxFailures \in Nat
  BY DownloadAssumption
<1>4. CASE OpenClient \/ GotInfo \/ NoInfo \/ Refuse \/ Drained \/ WaitAllReturns
  BY <1>2, <1>4 DEF TypeOK, OpenClient, GotInfo, NoInfo, Refuse, Abandon, Drained,
                    WaitAllReturns, torrent, seeding, Places
<1>5. CASE Seed \/ Close
  BY <1>2, <1>5 DEF TypeOK, Seed, Close, torrent, seeding, Places
<1>6. CASE SeedEnd
  <2>1. client' \in BOOLEAN /\ cancelled' \in BOOLEAN
    BY <1>6 DEF SeedEnd, TypeOK
  <2>2. /\ setting' \in Settings /\ at' \in Places
        /\ outcome' \in {"none", "session", "rejected", "cancelled", "failed"}
        /\ waiter' \in {"none", "waiting", "gone"}
        /\ completed' \in 0..Total /\ peers' \in 0..MaxPeers /\ failures' \in 0..MaxFailures
    BY <1>6 DEF SeedEnd, TypeOK, torrent, Places
  <2>3. /\ clock' \in 0..ClockLimit
        /\ uploaded' \in 0..MaxUploaded /\ lastUp' \in 0..uploaded'
        /\ quiet' \in 0..(SeedIdleLimit + 1) /\ empty' \in 0..(SeedIdleLimit + 1)
    BY <1>3, <1>6, ClockBound DEF SeedEnd
  <2> QED
    BY <1>2, <2>1, <2>2, <2>3 DEF TypeOK
<1>7. CASE SeedTick
  BY <1>2, <1>3, <1>7, ClockBound DEF TypeOK, SeedTick, torrent, NextQuiet, Least, Places
<1>8. CASE Environment
  <2>1. CASE Swarm
    BY <1>2, <1>3, <2>1 DEF TypeOK, Swarm, seeding
  <2>2. CASE SeedSwarm
    BY <1>2, <1>3, <2>2 DEF TypeOK, SeedSwarm
  <2>3. CASE Cancel \/ WaitAllGivesUp
    BY <1>2, <2>3 DEF TypeOK, Cancel, WaitAllGivesUp, torrent, seeding
  <2> QED
    BY <1>8, <2>1, <2>2, <2>3 DEF Environment
<1> QED
  BY <1>4, <1>5, <1>6, <1>7, <1>8

LEMMA NextTypeOK == TypeOK /\ [Next]_vars => TypeOK'
<1> SUFFICES ASSUME TypeOK, [Next]_vars PROVE TypeOK'
  OBVIOUS
<1>1. CASE UNCHANGED vars
  BY <1>1 DEF TypeOK, vars, torrent, loop, seeding
<1>2. CASE Next
  BY <1>2, TickTypeOK, LoopEdgeTypeOK, CalmTypeOK DEF Next, LoopStep
<1> QED
  BY <1>1, <1>2

(* Every state of a download has its types.                                *)
THEOREM TypeCorrect == Spec => []TypeOK
<1> QED
  BY InitTypeOK, NextTypeOK, PTL DEF Spec

-----------------------------------------------------------------------------
(* A complete download.                                                    *)

(* The loop has not decided while it runs.                                 *)
Undecided == at \in {"start", "metadata", "admit", "loop"} => outcome = "none"

LEMMA UndecidedHolds == Spec => []Undecided
<1>1. Init => Undecided
  BY DEF Init, Undecided
<1>2. Undecided /\ [Next]_vars => Undecided'
  <2> SUFFICES ASSUME Undecided, [Next]_vars PROVE Undecided'
    OBVIOUS
  <2>1. CASE UNCHANGED vars
    BY <2>1 DEF Undecided, vars
  <2>2. CASE LoopStep \/ Drained \/ WaitAllReturns
    BY <2>2 DEF Undecided, LoopStep, Reject, Abandon, Tick, CancelSeen, Finish, Drained,
                WaitAllReturns
  <2>3. CASE OpenClient \/ GotInfo \/ NoInfo \/ Refuse \/ Admit
    BY <2>3 DEF Undecided, OpenClient, GotInfo, NoInfo, Refuse, Abandon, Admit
  <2>4. CASE Seed \/ Close \/ SeedEnd \/ SeedTick \/ Environment
    BY <2>4 DEF Undecided, Seed, Close, SeedEnd, SeedTick, Environment, Swarm, SeedSwarm,
                Cancel, WaitAllGivesUp
  <2> QED
    BY <2>1, <2>2, <2>3, <2>4 DEF Next
<1> QED
  BY <1>1, <1>2, PTL DEF Spec

(* The step that rejects a download is Reject, and each of its reasons     *)
(* needs a byte that is missing.                                           *)
THEOREM CompleteDownloadKept == Spec => CompleteNeverRejected
<1> DEFINE Kept == at = "loop" /\ outcome' = "rejected" => completed < Total
<1>1. TypeOK /\ Undecided /\ [Next]_vars => Kept \/ UNCHANGED vars
  <2> SUFFICES ASSUME TypeOK, Undecided, Next, at = "loop", outcome' = "rejected"
               PROVE  completed < Total
    OBVIOUS
  <2>1. outcome # outcome'
    BY DEF Undecided
  <2>2. Reject
    BY <2>1 DEF Next, LoopStep, Tick, CancelSeen, Finish, Drained, WaitAllReturns,
                OpenClient, GotInfo, NoInfo, Refuse, Admit, Seed, Close, SeedEnd, SeedTick,
                Environment, Swarm, SeedSwarm, Cancel, WaitAllGivesUp
  <2>3. CASE NoFirstByte
    BY <2>3, DownloadAssumption DEF NoFirstByte
  <2>4. CASE \E r \in Rules : Trips(r)
    <3>1. PICK r \in Rules : Configured(r)
      BY <2>4 DEF Trips, InForce
    <3> QED
      BY <3>1, DownloadAssumption DEF Configured, TypeOK
  <2> QED
    BY <2>2, <2>3, <2>4 DEF Reject
<1> QED
  BY <1>1, TypeCorrect, UndecidedHolds, PTL DEF Spec, CompleteNeverRejected

-----------------------------------------------------------------------------
(* Countdowns.  Each action leaves the timers alone, makes them anew, or is*)
(* a tick.                                                                 *)
LEMMA TimerSteps ==
  ASSUME [Next]_vars
  PROVE  /\ UNCHANGED setting
         /\ UNCHANGED loop \/ FreshLoop \/ Tick
<1>1. CASE UNCHANGED vars
  BY <1>1 DEF vars
<1>2. CASE LoopStep \/ Drained \/ WaitAllReturns
  BY <1>2 DEF LoopStep, Reject, Abandon, CancelSeen, Finish, Drained, WaitAllReturns, Tick
<1>3. CASE OpenClient \/ GotInfo \/ NoInfo \/ Refuse \/ Admit
  BY <1>3 DEF OpenClient, GotInfo, NoInfo, Refuse, Abandon, Admit
<1>4. CASE Seed \/ Close \/ SeedEnd \/ SeedTick \/ Environment
  BY <1>4 DEF Seed, Close, SeedEnd, SeedTick, Environment, Swarm, SeedSwarm, Cancel,
              WaitAllGivesUp
<1> QED
  BY <1>1, <1>2, <1>3, <1>4 DEF Next

(* The bad ticks in a row are no more than the countdown has run.          *)
InCountdown(r) ==
  Reached(r) => /\ poor[r] <= since[r] + 1
                /\ poor[r] <= Limit[r] + 1
Counted == \A r \in Rules : InCountdown(r)

LEMMA TickCounts ==
  ASSUME TypeOK, Counted, Tick, NEW r \in Rules, Reached(r)
  PROVE  NextPoor(r) <= NextSince(r) + 1 /\ NextPoor(r) <= Limit[r] + 1
<1>1. /\ since[r] \in Int /\ since[r] \in -1..(Limit[r] + 1) /\ poor[r] \in Nat
      /\ Limit[r] \in Nat \ {0}
      /\ poor[r] <= since[r] + 1 /\ poor[r] <= Limit[r] + 1
  BY DownloadAssumption DEF TypeOK, Counted, InCountdown
<1>2. ~Trips(r)
  BY DEF Tick
<1>3. CASE Configured(r) /\ Bad(r)
  <2>1. InForce(r) /\ Aged(r) <= Limit[r] /\ NextSince(r) = Running(r)
    BY <1>1, <1>2, <1>3, SinceType DEF InForce, Trips, NextSince
  <2>2. NextPoor(r) <= poor[r] + 1
    BY <1>1, <1>3 DEF NextPoor, Least
  <2>3. CASE since[r] < 0
    BY <1>1, <2>1, <2>2, <2>3, PoorType DEF Running
  <2>4. CASE since[r] >= 0
    <3>1. Aged(r) = since[r] + 1
      BY <1>1, <2>1, <2>4 DEF Aged, Least
    <3> QED
      BY <1>1, <2>1, <2>2, <2>4, <3>1, PoorType DEF Running
  <2> QED
    BY <1>1, <2>3, <2>4
<1>4. CASE ~(Configured(r) /\ Bad(r))
  BY <1>1, <1>4, SinceType DEF NextPoor
<1> QED
  BY <1>3, <1>4

LEMMA CountedHolds == Spec => []Counted
<1>1. Init => Counted
  <2> SUFFICES ASSUME Init, NEW r \in Rules PROVE InCountdown(r)
    BY DEF Counted
  <2>1. poor[r] = 0 /\ since[r] = -1 /\ Limit[r] \in Nat \ {0}
    BY DownloadAssumption DEF Init
  <2> QED
    BY <2>1 DEF InCountdown
<1>2. TypeOK /\ Counted /\ [Next]_vars => Counted'
  <2> SUFFICES ASSUME TypeOK, Counted, [Next]_vars, NEW r \in Rules, Reached(r)'
               PROVE  poor'[r] <= since'[r] + 1 /\ poor'[r] <= Limit[r] + 1
    BY DEF Counted, InCountdown
  <2>1. Reached(r) /\ (UNCHANGED loop \/ FreshLoop \/ Tick)
    BY TimerSteps DEF Reached
  <2>2. CASE UNCHANGED loop
    BY <2>1, <2>2 DEF loop, Counted, InCountdown
  <2>3. CASE FreshLoop
    BY <2>3, DownloadAssumption DEF FreshLoop
  <2>4. CASE Tick
    <3>1. poor'[r] = NextPoor(r) /\ since'[r] = NextSince(r)
      BY <2>4 DEF Tick
    <3> QED
      BY <2>1, <2>4, <3>1, TickCounts
  <2> QED
    BY <2>1, <2>2, <2>3, <2>4
<1> QED
  BY <1>1, <1>2, TypeCorrect, PTL DEF Spec

(* No download stays poor beyond its limit where the rule reaches it.      *)
THEOREM PoorDownloadsEnd == Spec => []PoorNeverLasts
<1>1. Counted => PoorNeverLasts
  BY DEF Counted, InCountdown, PoorNeverLasts
<1> QED
  BY <1>1, CountedHolds, PTL

-----------------------------------------------------------------------------
(* Warnings.  A countdown that runs was shown at the last tick, or its rule*)
(* was out of force there because 95 % had arrived; and what had arrived is*)
(* there as long as no piece was lost.                                     *)
Visible(r) ==
  since[r] >= 0 => /\ r \in setting.rules /\ Reached(r)
                   /\ r \in warned \/ (r # "stall" /\ lastCompleted >= NearlyDone)
AllVisible == \A r \in Rules : Visible(r)
NothingLost == at = "loop" /\ failures = 0 => lastCompleted <= completed

LEMMA TickShows ==
  ASSUME TypeOK, AllVisible, Tick, NEW r \in Rules, NextSince(r) >= 0
  PROVE  /\ r \in setting.rules /\ Reached(r)
         /\ Shown(r) \/ (r # "stall" /\ completed >= NearlyDone)
<1>1. since[r] \in Int /\ completed \in Int /\ Total \in Int /\ NearlyDone \in Int
  BY DownloadAssumption DEF TypeOK
<1>2. CASE InForce(r)
  BY <1>2 DEF InForce, Configured, Shown
<1>3. CASE ~InForce(r)
  <2>1. Aged(r) >= 0 /\ ~(r = "stall" /\ completed >= Total)
    BY <1>3 DEF NextSince
  <2>2. r \in setting.rules /\ Reached(r)
    BY <1>1, <2>1 DEF Aged, AllVisible, Visible
  <2>3. ~Configured(r)
    BY <1>3, <2>2 DEF InForce
  <2> QED
    BY <1>1, <2>1, <2>2, <2>3 DEF Configured
<1> QED
  BY <1>2, <1>3

LEMMA AllVisibleHolds == Spec => []AllVisible
<1>1. Init => AllVisible
  BY DEF Init, AllVisible, Visible
<1>2. TypeOK /\ AllVisible /\ [Next]_vars => AllVisible'
  <2> SUFFICES ASSUME TypeOK, AllVisible, [Next]_vars, NEW r \in Rules, since'[r] >= 0
               PROVE  /\ r \in setting'.rules /\ Reached(r)'
                      /\ r \in warned' \/ (r # "stall" /\ lastCompleted' >= NearlyDone)
    BY DEF AllVisible, Visible
  <2>1. setting' = setting /\ (UNCHANGED loop \/ FreshLoop \/ Tick)
    BY TimerSteps
  <2>2. CASE UNCHANGED loop
    BY <2>1, <2>2 DEF loop, AllVisible, Visible, Reached
  <2>3. CASE FreshLoop
    BY <2>3 DEF FreshLoop
  <2>4. CASE Tick
    <3>1. NextSince(r) >= 0 /\ lastCompleted' = completed /\ (Shown(r) => r \in warned')
      BY <2>4 DEF Tick
    <3> QED
      BY <2>1, <2>4, <3>1, TickShows DEF Reached
  <2> QED
    BY <2>1, <2>2, <2>3, <2>4
<1> QED
  BY <1>1, <1>2, TypeCorrect, PTL DEF Spec

LEMMA NothingLostHolds == Spec => []NothingLost
<1>1. Init => NothingLost
  BY DEF Init, NothingLost
<1>2. TypeOK /\ NothingLost /\ [Next]_vars => NothingLost'
  <2> SUFFICES ASSUME TypeOK, NothingLost, [Next]_vars, at' = "loop", failures' = 0
               PROVE  lastCompleted' <= completed'
    BY DEF NothingLost
  <2>1. /\ completed \in Int /\ lastCompleted \in Int /\ failures \in Nat
        /\ completed >= 0 /\ Total \in Nat /\ MaxFailures \in Nat
    BY DownloadAssumption DEF TypeOK
  <2>2. CASE UNCHANGED vars
    BY <2>2 DEF NothingLost, vars, torrent, loop
  <2>3. CASE Admit
    BY <2>1, <2>3 DEF Admit, FreshLoop, torrent
  <2>4. CASE Tick
    BY <2>1, <2>4 DEF Tick, torrent
  <2>5. CASE Swarm
    BY <2>1, <2>5 DEF Swarm, NothingLost, loop
  <2>6. CASE Cancel \/ WaitAllReturns \/ WaitAllGivesUp
    BY <2>6 DEF Cancel, WaitAllReturns, WaitAllGivesUp, NothingLost, torrent, loop
  <2>7. CASE OpenClient \/ GotInfo \/ NoInfo \/ Refuse \/ Reject \/ CancelSeen \/ Finish
    BY <2>7 DEF OpenClient, GotInfo, NoInfo, Refuse, Reject, Abandon, CancelSeen, Finish
  <2>8. CASE Drained \/ Seed \/ Close \/ SeedEnd \/ SeedTick \/ SeedSwarm
    BY <2>8 DEF Drained, Seed, Close, SeedEnd, SeedTick, SeedSwarm
  <2> QED
    BY <2>2, <2>3, <2>4, <2>5, <2>6, <2>7, <2>8 DEF Next, LoopStep, Environment
<1> QED
  BY <1>1, <1>2, TypeCorrect, PTL DEF Spec

(* A rule that trips was counting down in the warnings the owner saw.      *)
THEOREM RejectionsAnnounced == Spec => Announced
<1> DEFINE Warned == \A r \in Rules :
             at = "loop" /\ outcome' = "rejected" /\ Trips(r) /\ (r = "stall" \/ failures = 0)
               => r \in warned
<1>1. TypeOK /\ AllVisible /\ NothingLost => Warned
  <2> SUFFICES ASSUME TypeOK, AllVisible, NothingLost, NEW r \in Rules,
                      at = "loop", Trips(r), r = "stall" \/ failures = 0
               PROVE  r \in warned
    OBVIOUS
  <2>1. /\ since[r] \in Int /\ Limit[r] \in Nat /\ completed \in Int
        /\ lastCompleted \in Int /\ NearlyDone \in Int
    BY DownloadAssumption DEF TypeOK
  <2>2. since[r] >= 0
    BY <2>1 DEF Trips, Aged
  <2>3. r = "stall" \/ completed < NearlyDone
    BY DEF Trips, InForce, Configured
  <2>4. r \in warned \/ (r # "stall" /\ lastCompleted >= NearlyDone)
    BY <2>2 DEF AllVisible, Visible
  <2>5. r # "stall" => lastCompleted <= completed
    BY DEF NothingLost
  <2> QED
    BY <2>1, <2>3, <2>4, <2>5
<1> QED
  BY <1>1, TypeCorrect, AllVisibleHolds, NothingLostHolds, PTL DEF Spec, Announced

-----------------------------------------------------------------------------
(* Seeding.  The empty ticks are no more than the quiet ones.              *)
Idling ==
  /\ at \notin {"seed", "over"} => empty = 0 /\ quiet = 0
  /\ at = "seed" => empty <= quiet /\ empty <= SeedIdleLimit

LEMMA IdlingHolds == Spec => []Idling
<1>1. Init => Idling
  BY DownloadAssumption DEF Init, Idling
<1>2. TypeOK /\ Idling /\ [Next]_vars => Idling'
  <2> SUFFICES ASSUME TypeOK, Idling, [Next]_vars PROVE Idling'
    OBVIOUS
  <2>1. /\ quiet \in Nat /\ empty \in Nat /\ SeedIdleLimit \in Nat
        /\ uploaded \in Nat /\ lastUp \in Nat
    BY DownloadAssumption DEF TypeOK
  <2>2. CASE SeedTick
    BY <2>1, <2>2 DEF SeedTick, Idling, DeadSwarm, NextQuiet, Progress, Least
  <2>3. CASE Seed
    BY <2>1, <2>3 DEF Seed, Idling, seeding
  <2>4. CASE SeedSwarm \/ SeedEnd \/ Close
    BY <2>1, <2>4 DEF SeedSwarm, SeedEnd, Close, Idling
  <2>5. CASE LoopStep \/ Drained \/ WaitAllReturns
    BY <2>5 DEF Idling, LoopStep, Reject, Abandon, Tick, CancelSeen, Finish, Drained,
                WaitAllReturns, seeding
  <2>6. CASE OpenClient \/ GotInfo \/ NoInfo \/ Refuse \/ Admit
    BY <2>6 DEF Idling, OpenClient, GotInfo, NoInfo, Refuse, Abandon, Admit, seeding
  <2>7. CASE UNCHANGED vars \/ Swarm \/ Cancel \/ WaitAllGivesUp
    BY <2>7 DEF Idling, vars, Swarm, Cancel, WaitAllGivesUp, seeding
  <2> QED
    BY <2>2, <2>3, <2>4, <2>5, <2>6, <2>7 DEF Next, Environment
<1> QED
  BY <1>1, <1>2, TypeCorrect, PTL DEF Spec

(* A swarm that stays empty is left.                                       *)
THEOREM EmptySwarmLeft == Spec => []DeadSwarmLeft
<1>1. Idling => DeadSwarmLeft
  BY DEF Idling, DeadSwarmLeft
<1> QED
  BY <1>1, IdlingHolds, PTL
=============================================================================
