---------------------------- MODULE OfferFulfil ----------------------------
(***************************************************************************)
(* Offers: agents poll the site for requests their owner's offers could    *)
(* serve, claim one, get the content from disk or from a tracker, publish  *)
(* it and deliver the NZB.  A claim runs out after fifteen minutes, so a   *)
(* goroutine beside each job claims the request again every seven.  Any    *)
(* call to the site may be lost, or its reply, and an agent may crash.     *)
(*                                                                         *)
(* Time is the tick of seven minutes; a call ends within the 120 seconds   *)
(* of the HTTP client, so before the next one.  The site is modelled from  *)
(* what client/offer.go says of its replies.                               *)
(***************************************************************************)
EXTENDS FiniteSets, Integers

CONSTANTS
  Agents,      \* offerers that run this program
  NoAgent,     \* the holder of a request nobody has claimed
  Requests,
  NoRequest,   \* the job of an agent between two requests
  Holds,       \* the files of the release each request is about
  Library,     \* for each agent and request, those its owner has offered
  Folders,     \* agents and requests whose release is a directory on disk
  FileFilter,  \* the files asked for, {} for the whole release
  Torrents,    \* for each agent, the requests with a cached .torrent URL
  RemoteOn,    \* agents with OFFER_REMOTE_FULFILL
  Uploadable,  \* the names the publish pipeline accepts
  MaxOpen      \* bound: requests open at the start

Files == UNION {Holds[r] : r \in Requests}

ASSUME OfferAssumption ==
  /\ NoAgent \notin Agents /\ NoRequest \notin Requests
  /\ \A r \in Requests : FileFilter[r] \subseteq Holds[r]
  /\ Library \in [Agents -> [Requests -> SUBSET Files]]
  /\ \A a \in Agents, r \in Requests :
       /\ Library[a][r] \subseteq Holds[r]
       /\ <<a, r>> \notin Folders => \A f, g \in Library[a][r] : f = g

VARIABLES
  status, holder,  \* the site: each request, and who has claimed it
  ttl,             \* ticks its claim is good for
  delivered,       \* what it was closed with, by whom and how
  pc, job,         \* the fulfil loop of each agent
  dir,             \* the content directory of its job, and whether the
                   \* download that filled it ended early
  paths,           \* offer_paths: requests with a cached local path
  have,            \* what is left of each release on its disk
  lost,            \* jobs with a keepalive call that failed and none since
  alive,           \* keepalive goroutines, by agent and request
  due,             \* those whose ticker has fired
  calls            \* and their calls under way

site == <<status, holder, ttl, delivered>>
loop == <<pc, job, dir>>
disk == <<paths, have>>
keepalive == <<lost, alive, due, calls>>
vars == <<site, loop, disk, keepalive>>

Working == {"get", "publish", "upload", "fail"}
Goroutines == Agents \X Requests
Routes == {"local", "remote", "none"}

NoDir == [files |-> {}, cut |-> FALSE]
NoParcel == [files |-> {}, cut |-> FALSE, from |-> NoAgent, route |-> "none"]
Dirs == [files : SUBSET Files, cut : BOOLEAN]
Parcels == [files : SUBSET Files, cut : BOOLEAN, from : Agents \cup {NoAgent}, route : Routes]

TypeOK ==
  /\ status \in [Requests -> {"open", "claimed", "closed"}]
  /\ holder \in [Requests -> Agents \cup {NoAgent}]
  /\ ttl \in [Requests -> 0..2]
  /\ delivered \in [Requests -> Parcels]
  /\ pc \in [Agents -> Working \cup {"next", "claim", "finish"}]
  /\ job \in [Agents -> Requests \cup {NoRequest}]
  /\ dir \in [Agents -> Dirs]
  /\ paths \in [Agents -> SUBSET Requests]
  /\ have \in [Agents -> [Requests -> SUBSET Files]]
  /\ lost \subseteq Agents
  /\ alive \subseteq Goroutines /\ due \subseteq Goroutines /\ calls \subseteq Goroutines

Init ==
  /\ \E open \in SUBSET Requests :
       /\ Cardinality(open) <= MaxOpen
       /\ status = [r \in Requests |-> IF r \in open THEN "open" ELSE "closed"]
  /\ holder = [r \in Requests |-> NoAgent]
  /\ ttl = [r \in Requests |-> 0]
  /\ delivered = [r \in Requests |-> NoParcel]
  /\ pc = [a \in Agents |-> "next"]
  /\ job = [a \in Agents |-> NoRequest]
  /\ dir = [a \in Agents |-> NoDir]
  /\ paths = [a \in Agents |-> {}]
  /\ \E there \in SUBSET (Agents \X Requests) :
       have = [a \in Agents |->
                 [r \in Requests |-> IF <<a, r>> \in there THEN Library[a][r] ELSE {}]]
  /\ lost = {} /\ alive = {} /\ due = {} /\ calls = {}

-----------------------------------------------------------------------------
(* The site.                                                               *)

Held(a, r) == status[r] = "claimed" /\ holder[r] = a

(* Only an open request, an expired claim or one's own can be claimed.     *)
Claimable(a, r) ==
  \/ status[r] = "open"
  \/ status[r] = "claimed" /\ (holder[r] = a \/ ttl[r] = 0)

Grant(a, r) ==
  /\ Claimable(a, r)
  /\ status' = [status EXCEPT ![r] = "claimed"]
  /\ holder' = [holder EXCEPT ![r] = a]
  /\ ttl' = [ttl EXCEPT ![r] = 2]
  /\ UNCHANGED delivered

Free(r, to) ==
  /\ status' = [status EXCEPT ![r] = to]
  /\ holder' = [holder EXCEPT ![r] = NoAgent]
  /\ ttl' = [ttl EXCEPT ![r] = 0]

(* The sweeper of the site reopens what has expired, ...                   *)
Expire(r) ==
  /\ status[r] = "claimed" /\ ttl[r] = 0
  /\ Free(r, "open")
  /\ UNCHANGED <<delivered, loop, disk, keepalive>>

(* ... and who asked may have changed their mind.                          *)
Withdraw(r) ==
  /\ status[r] # "closed"
  /\ Free(r, "closed")
  /\ UNCHANGED <<delivered, loop, disk, keepalive>>

-----------------------------------------------------------------------------
(* The loop.                                                               *)
Goto(a, l) == pc' = [pc EXCEPT ![a] = l]

(* refreshPublishedPaths caches the local paths the site knows of, if they *)
(* exist; it never clears one.                                             *)
RefreshPublishedPaths(a) ==
  /\ pc[a] = "next"
  /\ paths' = [paths EXCEPT ![a] = @ \cup {r \in Requests : have[a][r] # {}}]
  /\ UNCHANGED <<site, loop, have, keepalive>>

(* chooseFulfillRoute, a cached path that no longer exists included.       *)
Route(a, r) ==
  IF r \in paths[a] THEN "local"
  ELSE IF r \in Torrents[a] /\ a \in RemoteOn THEN "remote" ELSE "none"

Serves(a, r) ==
  \/ Route(a, r) = "local" /\ have[a][r] # {}
  \/ Route(a, r) = "remote" /\ FileFilter[r] = {}

(* A poll lists open requests and expired claims, but the list is old when *)
(* its last request is treated: the next may be any that can be served,    *)
(* whatever has become of it.                                              *)
Choose(a, r) ==
  /\ pc[a] = "next" /\ Serves(a, r)
  /\ job' = [job EXCEPT ![a] = r]
  /\ Goto(a, "claim")
  /\ UNCHANGED <<site, dir, disk, keepalive>>

(* Mutant: only the download, the longest step, is thought to need it.     *)
KeepDownloads(a) ==
  alive' = IF Route(a, job[a]) = "remote" THEN alive \cup {<<a, job[a]>>} ELSE alive
(* keepClaimAlive starts the goroutine.                                    *)
KeepClaimAlive(a) == alive' = alive \cup {<<a, job[a]>>}

OfferClaim(a) ==
  /\ pc[a] = "claim"
  /\ Grant(a, job[a])
  /\ KeepClaimAlive(a)
  /\ lost' = lost \ {a}
  /\ Goto(a, "get")
  /\ UNCHANGED <<job, dir, disk, due, calls>>

NextRequest(a) ==
  /\ Goto(a, "next")
  /\ job' = [job EXCEPT ![a] = NoRequest]
  /\ UNCHANGED <<disk, keepalive>>

(* Another was faster, or the call, or only its reply, was lost.           *)
ClaimLost(a) ==
  /\ pc[a] = "claim"
  /\ Grant(a, job[a]) \/ UNCHANGED site
  /\ NextRequest(a)
  /\ UNCHANGED dir

(* DownloadPrivateTorrentBytes succeeds when the client's WaitAll returns, *)
(* which it may do before every piece is there; nobody compares: any of    *)
(* the files may then be missing, or be there with holes.                  *)
DownloadRemote(a) ==
  /\ pc[a] = "get" /\ Route(a, job[a]) = "remote"
  /\ \E fs \in SUBSET Holds[job[a]], early \in BOOLEAN :
       /\ early \/ fs = Holds[job[a]]
       /\ dir' = [dir EXCEPT ![a] = [files |-> fs, cut |-> early]]
  /\ Goto(a, "publish")
  /\ UNCHANGED <<site, job, disk, keepalive>>

(* stageLocalContent.  A file is linked, and so is a directory, but the    *)
(* walk of the pipeline does not follow a link to a directory: it finds    *)
(* nothing to publish.  Of a request for some files, a directory yields    *)
(* exactly these, and a file itself, if it is one of them.                 *)
StagesWhole(a, fs) ==
  LET r == job[a]
  IN  FileFilter[r] = {} /\ fs = IF <<a, r>> \in Folders THEN {} ELSE have[a][r]

StagesFile(a, fs) ==
  LET r == job[a]
  IN  /\ FileFilter[r] # {} /\ <<a, r>> \notin Folders
      /\ have[a][r] # {} /\ have[a][r] \subseteq FileFilter[r]
      /\ fs = have[a][r]

(* Mutant: the files that are still there are staged.                      *)
StagesSome(a, fs) ==
  LET r == job[a]
  IN  /\ FileFilter[r] # {} /\ <<a, r>> \in Folders
      /\ fs = FileFilter[r] \cap have[a][r]
StagesChosen(a, fs) ==
  LET r == job[a]
  IN  /\ FileFilter[r] # {} /\ <<a, r>> \in Folders
      /\ FileFilter[r] \subseteq have[a][r]
      /\ fs = FileFilter[r]

StageLocalContent(a) ==
  /\ pc[a] = "get" /\ Route(a, job[a]) = "local"
  /\ \E fs \in SUBSET Files :
       /\ StagesWhole(a, fs) \/ StagesFile(a, fs) \/ StagesChosen(a, fs)
       /\ dir' = [dir EXCEPT ![a] = [files |-> fs, cut |-> FALSE]]
  /\ Goto(a, "publish")
  /\ UNCHANGED <<site, job, disk, keepalive>>

(* PublishDirectory posts every uploadable file of the directory, or fails *)
(* (PublishPipeline); it fails when there is none.                         *)
PublishDirectory(a) ==
  /\ pc[a] = "publish"
  /\ dir[a].files \cap Uploadable # {}
  /\ Goto(a, "upload")
  /\ UNCHANGED <<site, job, dir, disk, keepalive>>

(* No tracker, disk full, files gone, upload failed, NZB refused.          *)
JobFails(a) ==
  /\ pc[a] \in {"get", "publish", "upload"}
  /\ Goto(a, "fail")
  /\ UNCHANGED <<site, job, dir, disk, keepalive>>

(* The NZB of what the pipeline posted.                                    *)
Parcel(a) ==
  [files |-> dir[a].files \cap Uploadable, cut |-> dir[a].cut,
   from |-> a, route |-> Route(a, job[a])]

(* The site closes the request of whoever holds it.  A reply that is lost  *)
(* sends the job to failRequest.                                           *)
OfferUploadNZB(a) ==
  /\ pc[a] = "upload"
  /\ IF Held(a, job[a])
       THEN /\ Free(job[a], "closed")
            /\ delivered' = [delivered EXCEPT ![job[a]] = Parcel(a)]
       ELSE UNCHANGED site
  /\ Goto(a, "finish") \/ Goto(a, "fail")
  /\ UNCHANGED <<job, dir, disk, keepalive>>

(* failRequest: the error of the call is dropped.                          *)
OfferFail(a) ==
  /\ pc[a] = "fail"
  /\ \/ Held(a, job[a]) /\ Free(job[a], "open") /\ UNCHANGED delivered
     \/ UNCHANGED site
  /\ Goto(a, "finish")
  /\ UNCHANGED <<job, dir, disk, keepalive>>

(* Mutant: nobody tells the goroutine that the job is over.                *)
StopNothing(a) == UNCHANGED alive
StopKeepalive(a) == alive' = alive \ {<<a, job[a]>>}

(* The deferred calls.                                                     *)
Finish(a) ==
  /\ pc[a] = "finish"
  /\ dir' = [dir EXCEPT ![a] = NoDir]
  /\ StopKeepalive(a)
  /\ lost' = lost \ {a}
  /\ job' = [job EXCEPT ![a] = NoRequest]
  /\ Goto(a, "next")
  /\ UNCHANGED <<site, disk, due, calls>>

-----------------------------------------------------------------------------
(* The goroutine.                                                          *)

(* Seven minutes pass: calls made at the last tick have ended.             *)
Tick ==
  /\ due = {} /\ calls = {}
  /\ ttl' = [r \in Requests |-> IF ttl[r] > 0 THEN ttl[r] - 1 ELSE 0]
  /\ due' = alive
  /\ UNCHANGED <<status, holder, delivered, loop, disk, lost, alive, calls>>

(* The select may take the tick when the job is already over.              *)
SendKeepalive(g) ==
  /\ g \in due
  /\ due' = due \ {g}
  /\ calls' = calls \cup {g}
  /\ UNCHANGED <<site, loop, disk, lost, alive>>

Quit(g) ==
  /\ g \in due \ alive
  /\ due' = due \ {g}
  /\ UNCHANGED <<site, loop, disk, lost, alive, calls>>

Extended(a, r) ==
  /\ <<a, r>> \in calls
  /\ Grant(a, r)
  /\ calls' = calls \ {<<a, r>>}
  /\ lost' = lost \ {a}
  /\ UNCHANGED <<loop, disk, alive, due>>

(* Refused, or lost, or only the reply: the job goes on in all cases.      *)
KeepaliveError(a, r) ==
  /\ <<a, r>> \in calls
  /\ Grant(a, r) \/ UNCHANGED site
  /\ calls' = calls \ {<<a, r>>}
  /\ lost' = IF job[a] = r THEN lost \cup {a} ELSE lost
  /\ UNCHANGED <<loop, disk, alive, due>>

-----------------------------------------------------------------------------
(* Around them: files go, and agents stop and start again.                 *)

Remove(a, r, f) ==
  /\ f \in have[a][r]
  /\ have' = [have EXCEPT ![a][r] = @ \ {f}]
  /\ UNCHANGED <<site, loop, paths, keepalive>>

Crash(a) ==
  /\ pc' = [pc EXCEPT ![a] = "next"]
  /\ job' = [job EXCEPT ![a] = NoRequest]
  /\ dir' = [dir EXCEPT ![a] = NoDir]
  /\ alive' = {g \in alive : g[1] # a}
  /\ due' = {g \in due : g[1] # a}
  /\ lost' = lost \ {a}
  /\ UNCHANGED <<site, disk, calls>>

-----------------------------------------------------------------------------
Fulfil(a) ==
  \/ RefreshPublishedPaths(a) \/ \E r \in Requests : Choose(a, r)
  \/ OfferClaim(a) \/ ClaimLost(a)
  \/ DownloadRemote(a) \/ StageLocalContent(a) \/ PublishDirectory(a)
  \/ JobFails(a) \/ OfferUploadNZB(a) \/ OfferFail(a) \/ Finish(a)

Keepalive(a, r) ==
  \/ SendKeepalive(<<a, r>>) \/ Quit(<<a, r>>)
  \/ Extended(a, r) \/ KeepaliveError(a, r)

Site(r) == Expire(r) \/ Withdraw(r)

Outside(a) == Crash(a) \/ \E r \in Requests, f \in Files : Remove(a, r, f)

Next ==
  \/ \E a \in Agents : Fulfil(a) \/ Outside(a)
  \/ \E a \in Agents, r \in Requests : Keepalive(a, r)
  \/ \E r \in Requests : Site(r)
  \/ Tick

Spec == Init /\ [][Next]_vars

(* Goroutines that can go on do, calls end, time passes, and the site      *)
(* reopens what has expired.                                               *)
Fairness ==
  /\ \A a \in Agents : WF_vars(Fulfil(a))
  /\ \A a \in Agents, r \in Requests : WF_vars(Keepalive(a, r))
  /\ \A r \in Requests : WF_vars(Expire(r))
  /\ WF_vars(Tick)

FairSpec == Spec /\ Fairness

-----------------------------------------------------------------------------
(* A claim lasts as long as its job, however long that is: while no        *)
(* keepalive call has failed since the last one that went through, nobody  *)
(* else can take the request, so two agents never publish it at once.      *)
ClaimKept ==
  \A a \in Agents : pc[a] \in Working \ {"fail"} /\ a \notin lost =>
    Held(a, job[a]) \/ status[job[a]] = "closed"

(* Who asked for some files of a release gets some of these and no others, *)
(* and who asked for all of it nothing but it, of the files that may go to *)
(* Usenet.  All of them, whatever has gone from the disk in the meantime:  *)
(* only a download that ended early may lack some, and an offerer who has  *)
(* a single file gives that file, whole, for whatever it is part of.       *)
Scope(r) == IF FileFilter[r] = {} THEN Holds[r] ELSE FileFilter[r]
SingleFile(a, r, route) == route = "local" /\ <<a, r>> \notin Folders
Answers(r, p) ==
  /\ p.files # {} /\ p.files \subseteq Scope(r) \cap Uploadable
  /\ IF SingleFile(p.from, r, p.route)
       THEN p.files = Library[p.from][r]
       ELSE p.cut \/ p.files = Scope(r) \cap Uploadable
DeliveredScope ==
  \A r \in Requests : delivered[r] # NoParcel => Answers(r, delivered[r])

(* A job that is over, or whose agent has crashed, does not keep others    *)
(* from the request: the claim ends, though /fail was lost or a keepalive  *)
(* call came after it.                                                     *)
ClaimsEnd ==
  \A a \in Agents, r \in Requests :
    (Held(a, r) /\ job[a] # r) ~> (~Held(a, r) \/ job[a] = r)
=============================================================================
