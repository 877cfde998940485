------------------------- MODULE OfferFulfilProofs -------------------------
(* Theorems about OfferFulfil, for any agents, requests and releases.       *)
EXTENDS OfferFulfil, TLAPS

-----------------------------------------------------------------------------
(* The inductive invariant, for one agent.                                 *)

Busy == Working \cup {"finish"}
Sure == Working \ {"fail"}
Asked == due \cup calls

(* What a job may find in its content directory: nothing, or what it asks  *)
(* for as far as the source has it.                                        *)
Fits(a, r, route, d) ==
  \/ d.files = {}
  \/ /\ d.files \subseteq Scope(r)
     /\ IF SingleFile(a, r, route) THEN d.files = Library[a][r] ELSE d.cut \/ d.files = Scope(r)

LoopInv(a) ==
  /\ pc[a] = "next" <=> job[a] = NoRequest
  /\ pc[a] \in {"claim", "get"} /\ Route(a, job[a]) = "remote" => FileFilter[job[a]] = {}
  /\ pc[a] \in {"publish", "upload"} => Fits(a, job[a], Route(a, job[a]), dir[a])
  /\ pc[a] = "upload" => dir[a].files \cap Uploadable # {}

(* The goroutine lives as long as its job; only one tick's calls are under *)
(* way, and after one that failed there is none of an older job.           *)
KeepaliveInv(a) ==
  /\ \A r \in Requests : <<a, r>> \in alive => job[a] = r /\ pc[a] \in Busy
  /\ pc[a] \in Busy => <<a, job[a]>> \in alive
  /\ \A r, s \in Requests : <<a, r>> \in Asked /\ <<a, s>> \in Asked => r = s
  /\ a \in lost => \A r \in Requests : <<a, r>> \in Asked => <<a, r>> \in alive

(* A claim that has lost a tick has its keepalive on the way.              *)
Keeps(a) ==
  \/ status[job[a]] = "closed"
  \/ /\ Held(a, job[a])
     /\ ttl[job[a]] = 2 \/ (ttl[job[a]] = 1 /\ <<a, job[a]>> \in Asked)

ClaimInv(a) == pc[a] \in Sure /\ a \notin lost => Keeps(a)

HaveInv(a) == \A r \in Requests : have[a][r] \subseteq Library[a][r]

AgentInv(a) == LoopInv(a) /\ KeepaliveInv(a) /\ ClaimInv(a) /\ HaveInv(a)

(* A ticker whose call is under way does not fire.                         *)
CallInv == due \cap calls = {}

OfferInv == TypeOK /\ DeliveredScope /\ CallInv /\ \A a \in Agents : AgentInv(a)

-----------------------------------------------------------------------------
(* Requests and releases.                                                  *)

LEMMA ReleaseFacts ==
  /\ \A r \in Requests : Holds[r] \subseteq Files /\ FileFilter[r] \subseteq Files
                         /\ Scope(r) \subseteq Files
  /\ NoRequest \notin Requests /\ NoAgent \notin Agents
  /\ Library \in [Agents -> [Requests -> SUBSET Files]]
  /\ \A a \in Agents, r \in Requests :
       /\ Library[a][r] \subseteq Holds[r]
       /\ <<a, r>> \notin Folders => \A f, g \in Library[a][r] : f = g
  /\ NoDir \in Dirs /\ NoParcel \in Parcels
BY OfferAssumption DEF Files, Scope, NoDir, Dirs, NoParcel, Parcels, Routes

LEMMA JobIsRequest ==
  ASSUME OfferInv, NEW a \in Agents, pc[a] # "next"
  PROVE  job[a] \in Requests
BY DEF OfferInv, AgentInv, LoopInv, TypeOK

LEMMA GrantFacts ==
  ASSUME TypeOK, NEW a \in Agents, NEW r \in Requests, Grant(a, r)
  PROVE  /\ status' \in [Requests -> {"open", "claimed", "closed"}]
         /\ holder' \in [Requests -> Agents \cup {NoAgent}]
         /\ ttl' \in [Requests -> 0..2] /\ delivered' = delivered
         /\ status'[r] = "claimed" /\ holder'[r] = a /\ ttl'[r] = 2
         /\ \A q \in Requests \ {r} :
              status'[q] = status[q] /\ holder'[q] = holder[q] /\ ttl'[q] = ttl[q]
         /\ Claimable(a, r)
BY DEF TypeOK, Grant

LEMMA FreeFacts ==
  ASSUME TypeOK, NEW r \in Requests, NEW to \in {"open", "closed"}, Free(r, to)
  PROVE  /\ status' \in [Requests -> {"open", "claimed", "closed"}]
         /\ holder' \in [Requests -> Agents \cup {NoAgent}]
         /\ ttl' \in [Requests -> 0..2]
         /\ status'[r] = to
         /\ \A q \in Requests \ {r} :
              status'[q] = status[q] /\ holder'[q] = holder[q] /\ ttl'[q] = ttl[q]
BY DEF TypeOK, Free

(* What the site may do while an agent works.                              *)
Harmless(b) ==
  \/ UNCHANGED <<status, holder, ttl>>
  \/ \E r \in Requests : \/ \E a \in Agents : Grant(a, r)
                         \/ Free(r, "closed")
                         \/ /\ Free(r, "open")
                            /\ status[r] = "claimed"
                            /\ ttl[r] = 0 \/ holder[r] # b

LEMMA KeepsOn ==
  ASSUME TypeOK, NEW b \in Agents, job[b] \in Requests, Keeps(b), Harmless(b),
         job'[b] = job[b],
         <<b, job[b]>> \in Asked => <<b, job[b]>> \in Asked'
  PROVE  Keeps(b)'
<1> DEFINE q == job[b]
<1> HIDE DEF q
<1>1. q \in Requests /\ job[b] = q /\ job'[b] = q
  BY DEF q
<1>2. CASE UNCHANGED <<status, holder, ttl>>
  BY <1>2 DEF Keeps, Held
<1>3. ASSUME NEW r \in Requests, NEW a \in Agents, Grant(a, r) PROVE Keeps(b)'
  <2>1. CASE q = r
    <3>1. status[q] # "closed"
      BY <1>3, <2>1 DEF Grant, Claimable
    <3>2. Held(b, q) /\ ttl[q] # 0
      BY <1>1, <3>1 DEF Keeps
    <3>3. a = b
      BY <1>3, <2>1, <3>2, GrantFacts DEF Claimable, Held
    <3>4. status'[q] = "claimed" /\ holder'[q] = a /\ ttl'[q] = 2
      BY <1>3, <2>1, GrantFacts
    <3> QED
      BY <1>1, <3>3, <3>4 DEF Keeps, Held
  <2>2. CASE q # r
    <3>1. status'[q] = status[q] /\ holder'[q] = holder[q] /\ ttl'[q] = ttl[q]
      BY <1>1, <1>3, <2>2, GrantFacts
    <3> QED
      BY <1>1, <3>1 DEF Keeps, Held
  <2> QED
    BY <2>1, <2>2
<1>4. ASSUME NEW r \in Requests, Free(r, "closed") PROVE Keeps(b)'
  <2>1. CASE q = r
    BY <1>1, <1>4, <2>1, FreeFacts DEF Keeps
  <2>2. CASE q # r
    <3>1. status'[q] = status[q] /\ holder'[q] = holder[q] /\ ttl'[q] = ttl[q]
      BY <1>1, <1>4, <2>2, FreeFacts
    <3> QED
      BY <1>1, <3>1 DEF Keeps, Held
  <2> QED
    BY <2>1, <2>2
<1>5. ASSUME NEW r \in Requests, Free(r, "open"), status[r] = "claimed", ttl[r] = 0 \/ holder[r] # b
      PROVE  Keeps(b)'
  <2>1. q # r
    BY <1>1, <1>5 DEF Keeps, Held
  <2>2. status'[q] = status[q] /\ holder'[q] = holder[q] /\ ttl'[q] = ttl[q]
    BY <1>1, <1>5, <2>1, FreeFacts
  <2> QED
    BY <1>1, <2>2 DEF Keeps, Held
<1> QED
  BY <1>2, <1>3, <1>4, <1>5 DEF Harmless

(* An agent that does nothing keeps its invariant.                         *)
LEMMA Bystander ==
  ASSUME OfferInv, NEW b \in Agents, Harmless(b),
         pc'[b] = pc[b], job'[b] = job[b], dir'[b] = dir[b], paths'[b] = paths[b],
         \A r \in Requests : /\ have'[b][r] \subseteq have[b][r]
                             /\ <<b, r>> \in alive' <=> <<b, r>> \in alive
                             /\ <<b, r>> \in Asked' <=> <<b, r>> \in Asked,
         b \in lost' <=> b \in lost
  PROVE  AgentInv(b)'
<1>1. AgentInv(b) /\ TypeOK
  BY DEF OfferInv
<1>2. LoopInv(b)'
  <2>1. \A r : Route(b, r)' = Route(b, r)
    BY DEF Route
  <2> QED
    BY <1>1, <2>1 DEF AgentInv, LoopInv
<1>3. pc[b] \in Busy => job[b] \in Requests
  BY JobIsRequest DEF Busy, Working
<1>4. KeepaliveInv(b)'
  BY <1>1, <1>3 DEF AgentInv, KeepaliveInv
<1>5. ClaimInv(b)'
  BY <1>1, <1>3, KeepsOn DEF AgentInv, ClaimInv, Sure, Busy
<1>6. HaveInv(b)'
  BY <1>1 DEF AgentInv, HaveInv
<1> QED
  BY <1>2, <1>4, <1>5, <1>6 DEF AgentInv

LEMMA OfferStarts == Init => OfferInv
<1> SUFFICES ASSUME Init PROVE OfferInv
  OBVIOUS
<1>1. TypeOK
  <2>1. status \in [Requests -> {"open", "claimed", "closed"}]
    BY DEF Init
  <2> QED
    BY <2>1, ReleaseFacts DEF Init, TypeOK
<1>2. DeliveredScope
  BY DEF Init, DeliveredScope
<1>3. ASSUME NEW a \in Agents PROVE AgentInv(a)
  BY ReleaseFacts
  DEF Init, AgentInv, LoopInv, KeepaliveInv, ClaimInv, HaveInv, Busy, Sure, Working, Asked
<1> QED
  BY <1>1, <1>2, <1>3 DEF OfferInv, CallInv, Init

-----------------------------------------------------------------------------
(* The steps of the loop.                                                  *)

(* A step of one agent that leaves the goroutines alone.                   *)
LEMMA LoopMoves ==
  ASSUME OfferInv, NEW a \in Agents, UNCHANGED <<alive, due, calls, have>>,
         \A b \in Agents : Harmless(b) \/ b = a,
         \A b \in Agents \ {a} : /\ pc'[b] = pc[b] /\ job'[b] = job[b] /\ dir'[b] = dir[b]
                                 /\ paths'[b] = paths[b] /\ (b \in lost' <=> b \in lost),
         TypeOK', DeliveredScope', AgentInv(a)'
  PROVE  OfferInv'
<1>1. ASSUME NEW b \in Agents \ {a} PROVE AgentInv(b)'
  <2>1. Asked' = Asked
    BY DEF Asked
  <2> QED
    BY <2>1, Bystander
<1> QED
  BY <1>1 DEF OfferInv, CallInv

LEMMA RefreshStep ==
  ASSUME OfferInv, NEW a \in Agents, RefreshPublishedPaths(a)
  PROVE  OfferInv'
<1>1. /\ pc[a] = "next" /\ UNCHANGED <<site, loop, have, keepalive>>
      /\ paths' = [paths EXCEPT ![a] = @ \cup {r \in Requests : have[a][r] # {}}]
  BY DEF RefreshPublishedPaths
<1>2. TypeOK'
  BY <1>1 DEF site, loop, keepalive, OfferInv, TypeOK
<1>3. \A b \in Agents \ {a} : paths'[b] = paths[b]
  BY <1>1 DEF OfferInv, TypeOK
<1>4. DeliveredScope'
  BY <1>1 DEF site, OfferInv, DeliveredScope
<1>5. AgentInv(a)'
  BY <1>1 DEF site, loop, keepalive, OfferInv, AgentInv, LoopInv, KeepaliveInv, ClaimInv, HaveInv,
     Sure, Busy, Working, Asked
<1>6. \A b \in Agents : Harmless(b)
  BY <1>1 DEF Harmless, site
<1> QED
  BY <1>1, <1>2, <1>3, <1>4, <1>5, <1>6, LoopMoves DEF site, loop, keepalive

LEMMA ChooseStep ==
  ASSUME OfferInv, NEW a \in Agents, NEW r \in Requests, Choose(a, r)
  PROVE  OfferInv'
<1>1. /\ pc[a] = "next" /\ Serves(a, r)
      /\ job' = [job EXCEPT ![a] = r] /\ pc' = [pc EXCEPT ![a] = "claim"]
      /\ UNCHANGED <<site, dir, disk, keepalive>>
  BY DEF Choose, Goto
<1>2. TypeOK'
  BY <1>1 DEF site, disk, keepalive, Working, OfferInv, TypeOK
<1>3. pc'[a] = "claim" /\ job'[a] = r /\ \A b \in Agents \ {a} : pc'[b] = pc[b] /\ job'[b] = job[b]
  BY <1>1 DEF OfferInv, TypeOK
<1>4. DeliveredScope'
  BY <1>1 DEF site, OfferInv, DeliveredScope
<1>5. LoopInv(a)'
  <2>1. Route(a, r)' = Route(a, r)
    BY <1>1 DEF Route, disk
  <2>2. Route(a, r) = "remote" => FileFilter[r] = {}
    BY <1>1 DEF Serves
  <2> QED
    BY <1>3, <2>1, <2>2, ReleaseFacts DEF LoopInv
<1>6. KeepaliveInv(a)'
  BY <1>1, <1>3 DEF keepalive, OfferInv, AgentInv, KeepaliveInv, Busy, Working, Asked
<1>7. ClaimInv(a)' /\ HaveInv(a)'
  BY <1>1, <1>3 DEF disk, OfferInv, AgentInv, ClaimInv, HaveInv, Sure, Working
<1>8. \A b \in Agents : Harmless(b)
  BY <1>1 DEF Harmless, site
<1> QED
  BY <1>1, <1>2, <1>3, <1>4, <1>5, <1>6, <1>7, <1>8, LoopMoves DEF AgentInv, disk, keepalive

LEMMA ClaimStep ==
  ASSUME OfferInv, NEW a \in Agents, OfferClaim(a)
  PROVE  OfferInv'
<1> DEFINE r == job[a]
<1>1. /\ pc[a] = "claim" /\ Grant(a, r) /\ alive' = alive \cup {<<a, r>>} /\ lost' = lost \ {a}
      /\ pc' = [pc EXCEPT ![a] = "get"] /\ UNCHANGED <<job, dir, disk, due, calls>>
  BY DEF OfferClaim, KeepClaimAlive, Goto
<1>2. r \in Requests
  BY <1>1, JobIsRequest
<1>3. /\ status' \in [Requests -> {"open", "claimed", "closed"}]
      /\ holder' \in [Requests -> Agents \cup {NoAgent}]
      /\ ttl' \in [Requests -> 0..2] /\ delivered' = delivered
      /\ status'[r] = "claimed" /\ holder'[r] = a /\ ttl'[r] = 2
  BY <1>1, <1>2, GrantFacts DEF OfferInv
<1>4. TypeOK'
  BY <1>1, <1>2, <1>3 DEF disk, Working, Goroutines, OfferInv, TypeOK
<1>5. pc'[a] = "get" /\ \A b \in Agents \ {a} : pc'[b] = pc[b]
  BY <1>1 DEF OfferInv, TypeOK
<1>6. DeliveredScope'
  BY <1>3 DEF OfferInv, DeliveredScope
<1>7. LoopInv(a)'
  <2>1. Route(a, r)' = Route(a, r)
    BY <1>1 DEF Route, disk
  <2> QED
    BY <1>1, <1>5, <2>1 DEF OfferInv, AgentInv, LoopInv
<1>8. KeepaliveInv(a)'
  <2>1. /\ \A q \in Requests : <<a, q>> \notin alive
        /\ \A q, s \in Requests : <<a, q>> \in Asked /\ <<a, s>> \in Asked => q = s
    BY <1>1 DEF OfferInv, AgentInv, KeepaliveInv, Busy, Working
  <2>2. /\ \A q \in Requests : <<a, q>> \in alive' => q = r
        /\ <<a, r>> \in alive' /\ job'[a] = r /\ pc'[a] \in Busy /\ a \notin lost'
    BY <1>1, <1>5, <2>1 DEF Busy, Working
  <2>3. Asked' = Asked
    BY <1>1 DEF Asked
  <2> HIDE DEF r
  <2> QED
    BY <2>1, <2>2, <2>3 DEF KeepaliveInv
<1>9. ClaimInv(a)'
  BY <1>1, <1>3 DEF ClaimInv, Keeps, Held
<1>10. HaveInv(a)'
  BY <1>1 DEF disk, OfferInv, AgentInv, HaveInv
<1>11. ASSUME NEW b \in Agents \ {a} PROVE AgentInv(b)'
  <2>1. Harmless(b)
    BY <1>1, <1>2 DEF Harmless
  <2>2. \A q \in Requests : /\ <<b, q>> \in alive' <=> <<b, q>> \in alive
                            /\ <<b, q>> \in Asked' <=> <<b, q>> \in Asked
    BY <1>1 DEF Asked
  <2> QED
    BY <1>1, <1>5, <2>1, <2>2, Bystander DEF disk
<1> QED
  BY <1>1, <1>4, <1>6, <1>7, <1>8, <1>9, <1>10, <1>11 DEF OfferInv, AgentInv, CallInv

LEMMA ClaimLostStep ==
  ASSUME OfferInv, NEW a \in Agents, ClaimLost(a)
  PROVE  OfferInv'
<1>1. /\ pc[a] = "claim" /\ (Grant(a, job[a]) \/ UNCHANGED site)
      /\ pc' = [pc EXCEPT ![a] = "next"] /\ job' = [job EXCEPT ![a] = NoRequest]
      /\ UNCHANGED <<dir, disk, keepalive>>
  BY DEF ClaimLost, NextRequest, Goto
<1>2. job[a] \in Requests
  BY <1>1, JobIsRequest
<1>3. /\ status' \in [Requests -> {"open", "claimed", "closed"}]
      /\ holder' \in [Requests -> Agents \cup {NoAgent}]
      /\ ttl' \in [Requests -> 0..2] /\ delivered' = delivered
  <2>1. CASE Grant(a, job[a])
    BY <1>2, <2>1, GrantFacts DEF OfferInv
  <2>2. CASE UNCHANGED site
    BY <2>2 DEF site, OfferInv, TypeOK
  <2> QED
    BY <1>1, <2>1, <2>2
<1>4. TypeOK'
  BY <1>1, <1>3 DEF disk, keepalive, OfferInv, TypeOK
<1>5. pc'[a] = "next" /\ job'[a] = NoRequest
      /\ \A b \in Agents \ {a} : pc'[b] = pc[b] /\ job'[b] = job[b]
  BY <1>1 DEF OfferInv, TypeOK
<1>6. DeliveredScope'
  BY <1>3 DEF OfferInv, DeliveredScope
<1>7. AgentInv(a)'
  <2>1. LoopInv(a)' /\ ClaimInv(a)' /\ HaveInv(a)'
    BY <1>1, <1>5 DEF disk, OfferInv, AgentInv, LoopInv, ClaimInv, HaveInv, Sure, Working
  <2>2. KeepaliveInv(a)'
    BY <1>1, <1>5 DEF keepalive, OfferInv, AgentInv, KeepaliveInv, Busy, Working, Asked
  <2> QED
    BY <2>1, <2>2 DEF AgentInv
<1>8. \A b \in Agents : Harmless(b)
  BY <1>1, <1>2 DEF Harmless, site
<1> QED
  BY <1>1, <1>4, <1>5, <1>6, <1>7, <1>8, LoopMoves DEF disk, keepalive

(* A step of a job between its claim and its end, which leaves the site or *)
(* gives the request back.                                                 *)
LEMMA JobMoves ==
  ASSUME OfferInv, NEW a \in Agents, pc[a] \in Working, NEW l \in Working \cup {"finish"},
         pc' = [pc EXCEPT ![a] = l], UNCHANGED <<job, disk, keepalive>>,
         dir' \in [Agents -> Dirs], \A b \in Agents \ {a} : dir'[b] = dir[b],
         l \in {"publish", "upload"} => Fits(a, job[a], Route(a, job[a]), dir'[a]),
         l = "upload" => dir'[a].files \cap Uploadable # {},
         l = "get" => FALSE,
         l \in Sure => pc[a] \in Sure /\ UNCHANGED site,
         status' \in [Requests -> {"open", "claimed", "closed"}],
         holder' \in [Requests -> Agents \cup {NoAgent}],
         ttl' \in [Requests -> 0..2], delivered' \in [Requests -> Parcels], DeliveredScope',
         \A b \in Agents \ {a} : Harmless(b)
  PROVE  OfferInv'
<1>1. TypeOK'
  BY DEF disk, keepalive, OfferInv, TypeOK
<1>2. pc'[a] = l /\ \A b \in Agents \ {a} : pc'[b] = pc[b]
  BY DEF OfferInv, TypeOK
<1>3. job[a] \in Requests
  BY JobIsRequest DEF Working
<1>4. LoopInv(a)'
  <2>1. job'[a] # NoRequest
    BY <1>3, ReleaseFacts
  <2>2. job' = job /\ Route(a, job[a])' = Route(a, job[a])
    BY DEF disk, Route
  <2>3. l \in {"publish", "upload"} => Fits(a, job[a], Route(a, job[a]), dir[a])'
    BY <2>2 DEF Fits
  <2> QED
    BY <1>2, <2>1, <2>3 DEF LoopInv, Working
<1>5. KeepaliveInv(a)'
  BY <1>2 DEF keepalive, OfferInv, AgentInv, KeepaliveInv, Busy, Asked
<1>6. ClaimInv(a)'
  BY <1>2 DEF keepalive, site, OfferInv, AgentInv, ClaimInv, Keeps, Held, Asked
<1>7. HaveInv(a)'
  BY DEF disk, OfferInv, AgentInv, HaveInv
<1> QED
  BY <1>1, <1>2, <1>4, <1>5, <1>6, <1>7, LoopMoves DEF disk, keepalive, AgentInv

LEMMA WorkSteps ==
  ASSUME OfferInv, NEW a \in Agents,
         DownloadRemote(a) \/ StageLocalContent(a) \/ PublishDirectory(a) \/ JobFails(a)
  PROVE  OfferInv'
<1>1. pc[a] \in {"get", "publish", "upload"} /\ UNCHANGED <<site, job, disk, keepalive>>
  BY DEF DownloadRemote, StageLocalContent, PublishDirectory, JobFails
<1>2. job[a] \in Requests
  BY <1>1, JobIsRequest
<1>3. /\ status' \in [Requests -> {"open", "claimed", "closed"}]
      /\ holder' \in [Requests -> Agents \cup {NoAgent}]
      /\ ttl' \in [Requests -> 0..2] /\ delivered' \in [Requests -> Parcels]
      /\ DeliveredScope' /\ dir \in [Agents -> Dirs]
      /\ \A b \in Agents : Harmless(b)
  BY <1>1 DEF site, OfferInv, TypeOK, DeliveredScope, Harmless
<1>4. CASE DownloadRemote(a)
  <2>1. PICK fs \in SUBSET Holds[job[a]], early \in BOOLEAN :
          /\ early \/ fs = Holds[job[a]]
          /\ dir' = [dir EXCEPT ![a] = [files |-> fs, cut |-> early]]
    BY <1>4 DEF DownloadRemote
  <2>2. pc[a] = "get" /\ Route(a, job[a]) = "remote" /\ pc' = [pc EXCEPT ![a] = "publish"]
    BY <1>4 DEF DownloadRemote, Goto
  <2>3. Holds[job[a]] = Scope(job[a])
    BY <2>2 DEF OfferInv, AgentInv, LoopInv, Scope
  <2>4. [files |-> fs, cut |-> early] \in Dirs
    BY <1>2, ReleaseFacts DEF Dirs
  <2>5. /\ dir' \in [Agents -> Dirs] /\ dir'[a] = [files |-> fs, cut |-> early]
        /\ \A b \in Agents \ {a} : dir'[b] = dir[b]
    BY <1>3, <2>1, <2>4
  <2>6. Fits(a, job[a], Route(a, job[a]), dir'[a])
    BY <2>1, <2>2, <2>3, <2>5 DEF Fits, SingleFile
  <2>7. /\ pc[a] \in Working /\ "publish" \in Working \cup {"finish"} /\ "publish" \in Sure
        /\ pc[a] \in Sure
    BY <2>2 DEF Working, Sure
  <2> QED
    BY <1>1, <1>3, <2>2, <2>5, <2>6, <2>7, JobMoves
<1>5. CASE StageLocalContent(a)
  <2>1. PICK fs \in SUBSET Files :
          /\ StagesWhole(a, fs) \/ StagesFile(a, fs) \/ StagesChosen(a, fs)
          /\ dir' = [dir EXCEPT ![a] = [files |-> fs, cut |-> FALSE]]
    BY <1>5 DEF StageLocalContent
  <2>2. pc[a] = "get" /\ pc' = [pc EXCEPT ![a] = "publish"] /\ Route(a, job[a]) = "local"
    BY <1>5 DEF StageLocalContent, Goto
  <2>3. /\ dir' \in [Agents -> Dirs] /\ dir'[a] = [files |-> fs, cut |-> FALSE]
        /\ \A b \in Agents \ {a} : dir'[b] = dir[b]
    BY <1>3, <2>1 DEF Dirs
  <2>4. Fits(a, job[a], Route(a, job[a]), dir'[a])
    <3>1. have[a][job[a]] \subseteq Library[a][job[a]] /\ Library[a][job[a]] \subseteq Holds[job[a]]
      BY <1>2, ReleaseFacts DEF OfferInv, AgentInv, HaveInv
    <3>2. ASSUME <<a, job[a]>> \notin Folders
          PROVE  have[a][job[a]] = {} \/ have[a][job[a]] = Library[a][job[a]]
      <4>1. \A f, g \in Library[a][job[a]] : f = g
        BY <1>2, <3>2, ReleaseFacts
      <4> QED
        BY <3>1, <4>1
    <3>3. CASE StagesWhole(a, fs)
      BY <2>2, <2>3, <3>1, <3>2, <3>3 DEF StagesWhole, Fits, SingleFile, Scope
    <3>4. CASE StagesFile(a, fs)
      BY <2>2, <2>3, <3>2, <3>4 DEF StagesFile, Fits, SingleFile, Scope
    <3>5. CASE StagesChosen(a, fs)
      BY <2>3, <3>5 DEF StagesChosen, Fits, SingleFile, Scope
    <3> QED
      BY <2>1, <3>3, <3>4, <3>5
  <2>5. /\ pc[a] \in Working /\ "publish" \in Working \cup {"finish"} /\ "publish" \in Sure
        /\ pc[a] \in Sure
    BY <2>2 DEF Working, Sure
  <2> QED
    BY <1>1, <1>3, <2>2, <2>3, <2>4, <2>5, JobMoves
<1>6. CASE PublishDirectory(a)
  <2>1. /\ pc[a] = "publish" /\ pc' = [pc EXCEPT ![a] = "upload"] /\ UNCHANGED dir
        /\ dir[a].files \cap Uploadable # {}
    BY <1>6 DEF PublishDirectory, Goto
  <2>2. Fits(a, job[a], Route(a, job[a]), dir[a])
    BY <2>1 DEF OfferInv, AgentInv, LoopInv
  <2>3. /\ dir' \in [Agents -> Dirs] /\ \A b \in Agents \ {a} : dir'[b] = dir[b]
        /\ Fits(a, job[a], Route(a, job[a]), dir'[a]) /\ dir'[a].files \cap Uploadable # {}
    BY <1>3, <2>1, <2>2
  <2>4. /\ pc[a] \in Working /\ "upload" \in Working \cup {"finish"}
        /\ "upload" \in Sure => pc[a] \in Sure
    BY <2>1 DEF Working, Sure
  <2> QED
    BY <1>1, <1>3, <2>1, <2>3, <2>4, JobMoves
<1>7. CASE JobFails(a)
  <2>1. pc' = [pc EXCEPT ![a] = "fail"] /\ UNCHANGED dir
    BY <1>7 DEF JobFails, Goto
  <2>2. /\ pc[a] \in Working /\ "fail" \in Working \cup {"finish"} /\ "fail" \notin Sure
    BY <1>1 DEF Working, Sure
  <2>3. dir' \in [Agents -> Dirs] /\ \A b \in Agents \ {a} : dir'[b] = dir[b]
    BY <1>3, <2>1
  <2> QED
    BY <1>1, <1>3, <2>1, <2>2, <2>3, JobMoves
<1> QED
  BY <1>4, <1>5, <1>6, <1>7

LEMMA DeliverStep ==
  ASSUME OfferInv, NEW a \in Agents, OfferUploadNZB(a)
  PROVE  OfferInv'
<1> DEFINE r == job[a]
<1>1. /\ pc[a] = "upload" /\ UNCHANGED <<job, dir, disk, keepalive>>
      /\ \E l \in {"finish", "fail"} : pc' = [pc EXCEPT ![a] = l]
      /\ \/ Held(a, r) /\ Free(r, "closed") /\ delivered' = [delivered EXCEPT ![r] = Parcel(a)]
         \/ UNCHANGED site
  BY DEF OfferUploadNZB, Goto
<1>2. /\ r \in Requests /\ Fits(a, r, Route(a, r), dir[a])
      /\ dir[a] \in Dirs /\ dir[a].files \cap Uploadable # {}
  BY <1>1, JobIsRequest DEF OfferInv, TypeOK, AgentInv, LoopInv
<1>3. Parcel(a) \in Parcels /\ Answers(r, Parcel(a))
  <2>1. Route(a, r) \in Routes
    BY DEF Route, Routes
  <2>2. <<a, r>> \notin Folders => \A f, g \in Library[a][r] : f = g
    BY <1>2, ReleaseFacts
  <2>3. dir[a].files \subseteq Files /\ dir[a].cut \in BOOLEAN
    BY <1>2 DEF Dirs
  <2>4. Parcel(a) \in Parcels
    BY <2>1, <2>3 DEF Parcel, Parcels
  <2>5. Parcel(a).files # {} /\ Parcel(a).files \subseteq Scope(r) \cap Uploadable
    BY <1>2 DEF Parcel, Fits
  <2>6. SingleFile(a, r, Route(a, r)) => Parcel(a).files = Library[a][r]
    BY <1>2, <2>2 DEF Parcel, Fits, SingleFile
  <2>7. ~SingleFile(a, r, Route(a, r)) => dir[a].cut \/ Parcel(a).files = Scope(r) \cap Uploadable
    BY <1>2 DEF Parcel, Fits
  <2> QED
    BY <2>4, <2>5, <2>6, <2>7 DEF Answers, Parcel
<1>4. /\ status' \in [Requests -> {"open", "claimed", "closed"}]
      /\ holder' \in [Requests -> Agents \cup {NoAgent}]
      /\ ttl' \in [Requests -> 0..2] /\ delivered' \in [Requests -> Parcels]
      /\ DeliveredScope' /\ \A b \in Agents : Harmless(b)
  <2>1. CASE /\ Free(r, "closed")
             /\ delivered' = [delivered EXCEPT ![r] = Parcel(a)]
    <3>1. delivered \in [Requests -> Parcels]
      BY DEF OfferInv, TypeOK
    <3>2. /\ delivered' \in [Requests -> Parcels] /\ delivered'[r] = Parcel(a)
          /\ \A q \in Requests \ {r} : delivered'[q] = delivered[q]
      BY <1>2, <1>3, <2>1, <3>1
    <3>3. DeliveredScope'
      BY <1>3, <3>2 DEF OfferInv, DeliveredScope, Answers
    <3>4. \A b \in Agents : Harmless(b)
      BY <1>2, <2>1 DEF Harmless
    <3> QED
      BY <1>2, <2>1, <3>2, <3>3, <3>4, FreeFacts DEF OfferInv
  <2>2. CASE UNCHANGED site
    BY <2>2 DEF site, OfferInv, TypeOK, DeliveredScope, Harmless
  <2> QED
    BY <1>1, <2>1, <2>2
<1>5. PICK l \in {"finish", "fail"} : pc' = [pc EXCEPT ![a] = l]
  BY <1>1
<1>6. dir' \in [Agents -> Dirs] /\ \A b \in Agents \ {a} : dir'[b] = dir[b]
  BY <1>1 DEF OfferInv, TypeOK
<1> QED
  BY <1>1, <1>4, <1>5, <1>6, JobMoves DEF Working, Sure

LEMMA FailStep ==
  ASSUME OfferInv, NEW a \in Agents, OfferFail(a)
  PROVE  OfferInv'
<1> DEFINE r == job[a]
<1>1. /\ pc[a] = "fail" /\ UNCHANGED <<job, dir, disk, keepalive>> /\ pc' = [pc EXCEPT ![a] = "finish"]
      /\ \/ Held(a, r) /\ Free(r, "open") /\ UNCHANGED delivered
         \/ UNCHANGED site
  BY DEF OfferFail, Goto
<1>2. r \in Requests
  BY <1>1, JobIsRequest
<1>3. /\ status' \in [Requests -> {"open", "claimed", "closed"}]
      /\ holder' \in [Requests -> Agents \cup {NoAgent}]
      /\ ttl' \in [Requests -> 0..2] /\ delivered' = delivered
      /\ \A b \in Agents \ {a} : Harmless(b)
  <2>1. CASE Held(a, r) /\ Free(r, "open") /\ UNCHANGED delivered
    <3>1. status[r] = "claimed" /\ holder[r] = a
      BY <2>1 DEF Held
    <3>2. \A b \in Agents \ {a} : Harmless(b)
      BY <1>2, <2>1, <3>1 DEF Harmless
    <3> QED
      BY <1>2, <2>1, <3>2, FreeFacts DEF OfferInv
  <2>2. CASE UNCHANGED site
    BY <2>2 DEF site, OfferInv, TypeOK, Harmless
  <2> QED
    BY <1>1, <2>1, <2>2
<1>4. dir' \in [Agents -> Dirs] /\ delivered' \in [Requests -> Parcels]
      /\ DeliveredScope' /\ \A b \in Agents \ {a} : dir'[b] = dir[b]
  BY <1>1, <1>3 DEF OfferInv, TypeOK, DeliveredScope
<1> QED
  BY <1>1, <1>3, <1>4, JobMoves DEF Working, Sure

LEMMA FinishStep ==
  ASSUME OfferInv, NEW a \in Agents, Finish(a)
  PROVE  OfferInv'
<1>1. /\ pc[a] = "finish" /\ dir' = [dir EXCEPT ![a] = NoDir] /\ alive' = alive \ {<<a, job[a]>>}
      /\ lost' = lost \ {a} /\ job' = [job EXCEPT ![a] = NoRequest]
      /\ pc' = [pc EXCEPT ![a] = "next"] /\ UNCHANGED <<site, disk, due, calls>>
  BY DEF Finish, StopKeepalive, Goto
<1>2. TypeOK'
  BY <1>1, ReleaseFacts DEF site, disk, OfferInv, TypeOK
<1>3. /\ pc'[a] = "next" /\ job'[a] = NoRequest
      /\ \A b \in Agents \ {a} : pc'[b] = pc[b] /\ job'[b] = job[b] /\ dir'[b] = dir[b]
  BY <1>1 DEF OfferInv, TypeOK
<1>4. DeliveredScope'
  BY <1>1 DEF site, OfferInv, DeliveredScope
<1>5. AgentInv(a)'
  <2>1. LoopInv(a)' /\ ClaimInv(a)' /\ HaveInv(a)'
    BY <1>1, <1>3 DEF disk, OfferInv, AgentInv, LoopInv, ClaimInv, HaveInv, Sure, Working
  <2>2. \A r \in Requests : <<a, r>> \notin alive'
    BY <1>1 DEF OfferInv, AgentInv, KeepaliveInv
  <2>3. KeepaliveInv(a)'
    BY <1>1, <1>3, <2>2 DEF OfferInv, AgentInv, KeepaliveInv, Busy, Working, Asked
  <2> QED
    BY <2>1, <2>3 DEF AgentInv
<1>6. ASSUME NEW b \in Agents \ {a} PROVE AgentInv(b)'
  <2>1. Harmless(b)
    BY <1>1 DEF Harmless, site
  <2>2. \A q \in Requests : /\ <<b, q>> \in alive' <=> <<b, q>> \in alive
                            /\ <<b, q>> \in Asked' <=> <<b, q>> \in Asked
    BY <1>1 DEF Asked
  <2> QED
    BY <1>1, <1>3, <2>1, <2>2, Bystander DEF disk
<1> QED
  BY <1>1, <1>2, <1>4, <1>5, <1>6 DEF OfferInv, CallInv

-----------------------------------------------------------------------------
(* The goroutines.                                                         *)

LEMMA TickStep ==
  ASSUME OfferInv, Tick
  PROVE  OfferInv'
<1>1. /\ due = {} /\ calls = {} /\ due' = alive
      /\ ttl' = [r \in Requests |-> IF ttl[r] > 0 THEN ttl[r] - 1 ELSE 0]
      /\ UNCHANGED <<status, holder, delivered, loop, disk, lost, alive, calls>>
  BY DEF Tick
<1>2. ttl \in [Requests -> 0..2] /\ alive \subseteq Goroutines
  BY DEF OfferInv, TypeOK
<1>3. ttl' \in [Requests -> 0..2] /\ \A r \in Requests : ttl[r] = 2 => ttl'[r] = 1
  BY <1>1, <1>2
<1>4. TypeOK'
  BY <1>1, <1>2, <1>3 DEF loop, disk, OfferInv, TypeOK
<1>5. DeliveredScope'
  BY <1>1 DEF OfferInv, DeliveredScope
<1>6. ASSUME NEW a \in Agents PROVE AgentInv(a)'
  <2>1. AgentInv(a) /\ Asked = {} /\ Asked' = alive
    BY <1>1 DEF OfferInv, Asked
  <2>2. LoopInv(a)' /\ HaveInv(a)'
    BY <1>1, <2>1 DEF loop, disk, AgentInv, LoopInv, HaveInv, Route
  <2>3. KeepaliveInv(a)'
    BY <1>1, <2>1 DEF loop, AgentInv, KeepaliveInv
  <2>4. ClaimInv(a)'
    <3>1. pc[a] \in Sure => job[a] \in Requests /\ <<a, job[a]>> \in alive
      BY <2>1, JobIsRequest DEF AgentInv, KeepaliveInv, Sure, Busy, Working
    <3>2. pc[a] \in Sure /\ a \notin lost =>
            status[job[a]] = "closed" \/ (Held(a, job[a]) /\ ttl[job[a]] = 2)
      BY <2>1 DEF AgentInv, ClaimInv, Keeps
    <3>3. pc' = pc /\ job' = job /\ lost' = lost /\ status' = status /\ holder' = holder
      BY <1>1 DEF loop
    <3>4. ASSUME pc[a] \in Sure, a \notin lost PROVE Keeps(a)'
      <4>1. <<a, job[a]>> \in Asked' /\ job[a] \in Requests
        BY <2>1, <3>1, <3>4
      <4>2. status[job[a]] = "closed" \/ (Held(a, job[a]) /\ ttl'[job[a]] = 1)
        BY <1>3, <3>2, <3>4, <4>1
      <4> QED
        BY <3>3, <4>1, <4>2 DEF Keeps, Held
    <3> QED
      BY <3>3, <3>4 DEF ClaimInv
  <2> QED
    BY <2>2, <2>3, <2>4 DEF AgentInv
<1> QED
  BY <1>1, <1>4, <1>5, <1>6 DEF OfferInv, CallInv

LEMMA SendSteps ==
  ASSUME OfferInv, NEW a \in Agents, NEW r \in Requests,
         SendKeepalive(<<a, r>>) \/ Quit(<<a, r>>)
  PROVE  OfferInv'
<1>1. UNCHANGED <<site, loop, disk, lost, alive>>
  BY DEF SendKeepalive, Quit
<1>2. DeliveredScope'
  BY <1>1 DEF site, OfferInv, DeliveredScope
<1>3. TypeOK'
  BY <1>1 DEF SendKeepalive, Quit, site, loop, disk, OfferInv, TypeOK, Goroutines
<1>4. Asked' \subseteq Asked /\ \A g \in Asked : g \in alive => g \in Asked'
  BY <1>1 DEF SendKeepalive, Quit, Asked
<1>5. ASSUME NEW b \in Agents PROVE AgentInv(b)'
  <2>1. AgentInv(b)
    BY DEF OfferInv
  <2>2. LoopInv(b)' /\ HaveInv(b)'
    BY <1>1, <2>1 DEF loop, disk, AgentInv, LoopInv, HaveInv, Route
  <2>3. KeepaliveInv(b)'
    BY <1>1, <1>4, <2>1 DEF loop, AgentInv, KeepaliveInv
  <2>4. ClaimInv(b)'
    <3>1. pc[b] \in Sure => <<b, job[b]>> \in alive
      BY <2>1 DEF AgentInv, KeepaliveInv, Sure, Busy
    <3> QED
      BY <1>1, <1>4, <2>1, <3>1 DEF site, loop, AgentInv, ClaimInv, Keeps, Held
  <2> QED
    BY <2>2, <2>3, <2>4 DEF AgentInv
<1>6. CallInv'
  BY <1>1 DEF SendKeepalive, Quit, OfferInv, CallInv
<1> QED
  BY <1>2, <1>3, <1>5, <1>6 DEF OfferInv

LEMMA AnswerSteps ==
  ASSUME OfferInv, NEW a \in Agents, NEW r \in Requests, Extended(a, r) \/ KeepaliveError(a, r)
  PROVE  OfferInv'
<1>1. /\ <<a, r>> \in calls /\ calls' = calls \ {<<a, r>>} /\ UNCHANGED <<loop, disk, alive, due>>
      /\ Grant(a, r) \/ UNCHANGED site
  BY DEF Extended, KeepaliveError
<1>2. lost' \subseteq Agents /\ \A b \in Agents \ {a} : b \in lost' <=> b \in lost
  BY DEF Extended, KeepaliveError, OfferInv, TypeOK
<1>3. /\ status' \in [Requests -> {"open", "claimed", "closed"}]
      /\ holder' \in [Requests -> Agents \cup {NoAgent}]
      /\ ttl' \in [Requests -> 0..2] /\ delivered' = delivered
  <2>1. CASE Grant(a, r)
    BY <2>1, GrantFacts DEF OfferInv
  <2>2. CASE UNCHANGED site
    BY <2>2 DEF site, OfferInv, TypeOK
  <2> QED
    BY <1>1, <2>1, <2>2
<1>4. TypeOK'
  BY <1>1, <1>2, <1>3 DEF loop, disk, OfferInv, TypeOK
<1>5. DeliveredScope'
  BY <1>3 DEF OfferInv, DeliveredScope
<1>6. \A b \in Agents : Harmless(b)
  BY <1>1 DEF Harmless, site
<1>7. ASSUME NEW b \in Agents \ {a} PROVE AgentInv(b)'
  <2>1. \A q \in Requests : <<b, q>> \in Asked' <=> <<b, q>> \in Asked
    BY <1>1 DEF Asked
  <2> QED
    BY <1>1, <1>2, <1>6, <2>1, Bystander DEF loop, disk
<1>8. AgentInv(a)'
  <2>1. AgentInv(a)
    BY DEF OfferInv
  <2>2. LoopInv(a)' /\ HaveInv(a)'
    BY <1>1, <2>1 DEF loop, disk, AgentInv, LoopInv, HaveInv, Route
  <2>3. Asked' \subseteq Asked
    BY <1>1 DEF Asked
  <2>4. \A q \in Requests : <<a, q>> \in Asked => q = r
    BY <1>1, <2>1 DEF AgentInv, KeepaliveInv, Asked
  <2>5. <<a, r>> \notin due
    BY <1>1 DEF OfferInv, CallInv
  <2>6. \A q \in Requests : <<a, q>> \notin Asked'
    BY <1>1, <2>3, <2>4, <2>5 DEF Asked
  <2>7. KeepaliveInv(a)'
    BY <1>1, <2>1, <2>6 DEF loop, AgentInv, KeepaliveInv
  <2>8. ASSUME pc[a] \in Sure, a \notin lost' PROVE Keeps(a)'
    <3>1. job[a] \in Requests /\ job' = job
      BY <1>1, <2>8, JobIsRequest DEF loop, Sure, Working
    <3>2. CASE job[a] = r
      <4>1. Grant(a, r)
        BY <2>8, <3>2 DEF Extended, KeepaliveError, OfferInv, TypeOK
      <4>2. status'[r] = "claimed" /\ holder'[r] = a /\ ttl'[r] = 2
        BY <4>1, GrantFacts DEF OfferInv
      <4> QED
        BY <3>1, <3>2, <4>2 DEF Keeps, Held
    <3>3. CASE job[a] # r
      <4>1. a \notin lost
        <5>1. a \in lost => <<a, r>> \in alive
          BY <1>1, <2>1 DEF AgentInv, KeepaliveInv, Asked
        <5>2. <<a, r>> \notin alive
          BY <2>1, <3>3 DEF AgentInv, KeepaliveInv
        <5> QED
          BY <5>1, <5>2
      <4>2. <<a, job[a]>> \notin Asked
        BY <2>4, <3>1, <3>3
      <4>3. Keeps(a)
        BY <2>1, <2>8, <4>1 DEF AgentInv, ClaimInv
      <4> QED
        BY <1>6, <3>1, <4>2, <4>3, KeepsOn DEF OfferInv
    <3> QED
      BY <3>2, <3>3
  <2>9. ClaimInv(a)'
    BY <1>1, <2>8 DEF loop, ClaimInv
  <2> QED
    BY <2>2, <2>7, <2>9 DEF AgentInv
<1>9. CallInv'
  BY <1>1 DEF OfferInv, CallInv
<1> QED
  BY <1>4, <1>5, <1>7, <1>8, <1>9 DEF OfferInv

-----------------------------------------------------------------------------
(* The rest of the world.                                                  *)

LEMMA RemoveStep ==
  ASSUME OfferInv, NEW a \in Agents, NEW r \in Requests, NEW f \in Files, Remove(a, r, f)
  PROVE  OfferInv'
<1>1. /\ have' = [have EXCEPT ![a][r] = @ \ {f}]
      /\ UNCHANGED <<site, loop, paths, keepalive>>
  BY DEF Remove
<1>2. have \in [Agents -> [Requests -> SUBSET Files]]
  BY DEF OfferInv, TypeOK
<1>3. /\ have' \in [Agents -> [Requests -> SUBSET Files]]
      /\ \A b \in Agents, q \in Requests : have'[b][q] \subseteq have[b][q]
  BY <1>1, <1>2
<1>4. TypeOK'
  BY <1>1, <1>3 DEF site, loop, keepalive, OfferInv, TypeOK
<1>5. DeliveredScope' /\ CallInv'
  BY <1>1 DEF site, keepalive, OfferInv, DeliveredScope, CallInv
<1>6. ASSUME NEW b \in Agents PROVE AgentInv(b)'
  <2>1. Harmless(b) /\ Asked' = Asked
    BY <1>1 DEF Harmless, site, keepalive, Asked
  <2> QED
    BY <1>1, <1>3, <2>1, Bystander DEF loop, keepalive
<1> QED
  BY <1>4, <1>5, <1>6 DEF OfferInv

LEMMA CrashStep ==
  ASSUME OfferInv, NEW a \in Agents, Crash(a)
  PROVE  OfferInv'
<1>1. /\ pc' = [pc EXCEPT ![a] = "next"] /\ job' = [job EXCEPT ![a] = NoRequest]
      /\ dir' = [dir EXCEPT ![a] = NoDir]
      /\ alive' = {g \in alive : g[1] # a} /\ due' = {g \in due : g[1] # a}
      /\ lost' = lost \ {a} /\ UNCHANGED <<site, disk, calls>>
  BY DEF Crash
<1>2. TypeOK'
  BY <1>1, ReleaseFacts DEF site, disk, OfferInv, TypeOK
<1>3. /\ pc'[a] = "next" /\ job'[a] = NoRequest
      /\ \A b \in Agents \ {a} : pc'[b] = pc[b] /\ job'[b] = job[b] /\ dir'[b] = dir[b]
  BY <1>1 DEF OfferInv, TypeOK
<1>4. DeliveredScope' /\ CallInv'
  BY <1>1 DEF site, OfferInv, DeliveredScope, CallInv
<1>5. \A q \in Requests : <<a, q>> \notin alive' /\ (<<a, q>> \in Asked' => <<a, q>> \in Asked)
  BY <1>1 DEF Asked
<1>6. AgentInv(a)'
  <2>1. LoopInv(a)' /\ ClaimInv(a)' /\ HaveInv(a)'
    BY <1>1, <1>3 DEF disk, OfferInv, AgentInv, LoopInv, ClaimInv, HaveInv, Sure, Working
  <2>2. KeepaliveInv(a)'
    BY <1>1, <1>3, <1>5 DEF OfferInv, AgentInv, KeepaliveInv, Busy, Working
  <2> QED
    BY <2>1, <2>2 DEF AgentInv
<1>7. ASSUME NEW b \in Agents \ {a} PROVE AgentInv(b)'
  <2>1. Harmless(b)
    BY <1>1 DEF Harmless, site
  <2>2. \A q \in Requests : /\ <<b, q>> \in alive' <=> <<b, q>> \in alive
                            /\ <<b, q>> \in Asked' <=> <<b, q>> \in Asked
    BY <1>1 DEF Asked
  <2> QED
    BY <1>1, <1>3, <2>1, <2>2, Bystander DEF disk
<1> QED
  BY <1>2, <1>4, <1>6, <1>7 DEF OfferInv

LEMMA SiteStep ==
  ASSUME OfferInv, NEW r \in Requests, Site(r)
  PROVE  OfferInv'
<1>1. PICK to \in {"open", "closed"} :
        /\ Free(r, to) /\ UNCHANGED <<delivered, loop, disk, keepalive>>
        /\ to = "open" => status[r] = "claimed" /\ ttl[r] = 0
  BY DEF Site, Expire, Withdraw
<1>2. /\ status' \in [Requests -> {"open", "claimed", "closed"}]
      /\ holder' \in [Requests -> Agents \cup {NoAgent}]
      /\ ttl' \in [Requests -> 0..2]
  BY <1>1, FreeFacts DEF OfferInv
<1>3. TypeOK'
  BY <1>1, <1>2 DEF loop, disk, keepalive, OfferInv, TypeOK
<1>4. DeliveredScope' /\ CallInv'
  BY <1>1 DEF keepalive, OfferInv, DeliveredScope, CallInv
<1>5. ASSUME NEW b \in Agents PROVE AgentInv(b)'
  <2>1. Harmless(b)
    BY <1>1 DEF Harmless
  <2>2. Asked' = Asked
    BY <1>1 DEF keepalive, Asked
  <2> QED
    BY <1>1, <2>1, <2>2, Bystander DEF loop, disk, keepalive
<1> QED
  BY <1>3, <1>4, <1>5 DEF OfferInv

LEMMA StandStill == OfferInv /\ UNCHANGED vars => OfferInv'
<1> SUFFICES ASSUME OfferInv, UNCHANGED vars PROVE OfferInv'
  OBVIOUS
<1>1. TypeOK' /\ DeliveredScope' /\ CallInv'
  BY DEF vars, site, loop, disk, keepalive, OfferInv, TypeOK, DeliveredScope, CallInv
<1>2. ASSUME NEW b \in Agents PROVE AgentInv(b)'
  <2>1. Harmless(b) /\ Asked' = Asked
    BY DEF Harmless, Asked, vars, site, keepalive
  <2> QED
    BY <2>1, Bystander DEF vars, site, loop, disk, keepalive
<1> QED
  BY <1>1, <1>2 DEF OfferInv

LEMMA OfferStep == OfferInv /\ [Next]_vars => OfferInv'
<1> SUFFICES ASSUME OfferInv, [Next]_vars PROVE OfferInv'
  OBVIOUS
<1>1. ASSUME NEW a \in Agents, Fulfil(a) PROVE OfferInv'
  BY <1>1, RefreshStep, ChooseStep, ClaimStep, ClaimLostStep, WorkSteps, DeliverStep, FailStep,
     FinishStep DEF Fulfil
<1>2. ASSUME NEW a \in Agents, Outside(a) PROVE OfferInv'
  BY <1>2, CrashStep, RemoveStep DEF Outside
<1>3. ASSUME NEW a \in Agents, NEW r \in Requests, Keepalive(a, r) PROVE OfferInv'
  BY <1>3, SendSteps, AnswerSteps DEF Keepalive
<1> QED
  BY <1>1, <1>2, <1>3, SiteStep, TickStep, StandStill DEF Next

-----------------------------------------------------------------------------
(* Each variable stays in its domain: no more is ever on a disk, in a      *)
(* directory or delivered than the requests name, and no claim outlives    *)
(* the fifteen minutes the site gives it.                                  *)
THEOREM OfferTypes == Spec => []TypeOK
<1>1. OfferInv => TypeOK
  BY DEF OfferInv
<1> QED
  BY <1>1, OfferStarts, OfferStep, PTL DEF Spec

(* Two agents never publish a request at once: while no keepalive call has *)
(* failed since the last one that went through, the agent holds the claim  *)
(* it works under, however long keepClaimAlive runs beside it.             *)
THEOREM ClaimsKept == Spec => []ClaimKept
<1>1. OfferInv => ClaimKept
  BY DEF OfferInv, AgentInv, ClaimInv, Keeps, ClaimKept, Sure
<1> QED
  BY <1>1, OfferStarts, OfferStep, PTL DEF Spec

(* A request is closed with files it asked for and no others, and with all *)
(* of them, though they may go from the disk between stageLocalContent's   *)
(* look and the upload, unless the download ended early or the offerer has *)
(* a single file.                                                          *)
THEOREM ScopeDelivered == Spec => []DeliveredScope
<1>1. OfferInv => DeliveredScope
  BY DEF OfferInv
<1> QED
  BY <1>1, OfferStarts, OfferStep, PTL DEF Spec
=============================================================================
