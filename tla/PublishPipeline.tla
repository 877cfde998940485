-------------------------- MODULE PublishPipeline --------------------------
(***************************************************************************)
(* PublishDirectory: from a directory of content to an NZB.  Each job      *)
(* stages the content in a directory of its own, unpacks the archives,     *)
(* adds recovery files, may seal everything in one encrypted archive,      *)
(* waits for the upload slot, audits, posts file after file, and cleans    *)
(* up whatever happened.  Meanwhile the sweep that ends another task       *)
(* removes the staging directories that no entry of the job table names,   *)
(* and the context of a job may be cancelled at any time.                  *)
(*                                                                         *)
(* One file of the model is a file, a set of archive volumes, or the set   *)
(* of recovery files; all jobs publish releases of the same shape.         *)
(***************************************************************************)
EXTENDS FiniteSets, Integers

CONSTANTS
  Jobs,         \* runs of PublishDirectory
  Tasks,        \* those of a claimed task; the others serve an offer
  Encrypting,   \* those whose configuration says Encrypt
  Obfuscating,  \* those whose configuration says Obfuscate
  NoJob,        \* the holder of the free slot
  Release,      \* the non-empty files of ContentDir
  Sidecars,     \* what Describe adds in _screenshots and _subtitles
  SameDevice,   \* those whose content can be hard-linked into the temp directory
  Inside,       \* the archives, with the files in each
  Kind,         \* ... the steps, any of which may be the one that unpacks it
  Stale,        \* ... and the recovery files of the same stem
  Uploadable,   \* the names isUploadableContent accepts
  Videos,       \* the names the audit counts
  Recovery,     \* the set of generated recovery files
  Sealed        \* the encrypted archive

Archives == DOMAIN Inside
Files == Release \cup Sidecars \cup (UNION {Inside[a] : a \in Archives}) \cup {Recovery}

ASSUME PipelineAssumption ==
  /\ Tasks \subseteq Jobs /\ Encrypting \subseteq Jobs
  /\ Obfuscating \subseteq Jobs /\ SameDevice \subseteq Jobs
  /\ NoJob \notin Jobs
  /\ Sidecars \cap Release = {}
  /\ \A a, b \in Archives : Inside[a] \cap (Archives \cup Stale[b] \cup Sidecars) = {}
  /\ \A a \in Archives : Stale[a] \cap Archives = {}
  /\ Recovery \notin Release \cup Sidecars
  /\ Sealed \notin Files
  /\ IsFiniteSet(Release)

VARIABLES
  pc,         \* where each job is
  content,    \* ContentDir
  stage,      \* the files of the staging directory
  made,       \* jobs whose staging directory exists
  entries,    \* jobs with an entry in the job table
  kept,       \* ... that holds their StagePath
  doomed,     \* directories a sweep has decided to remove
  torn,       \* jobs whose directory lost a file to a sweep after its audit
  changed,    \* files of ContentDir that have been written to
  todo,       \* files the walk in progress has still to treat
  count,      \* files copied so far, the want of the audit
  vault,      \* what the encrypted archive holds
  enc,        \* the files of the directory made for it
  slot,       \* UploadSlot: its holder
  posted,     \* files posted, which the NZB will name
  cancelled,  \* jobs whose context is done
  result

vars == <<pc, content, stage, made, entries, kept, doomed, torn, changed, todo, count,
          vault, enc, slot, posted, cancelled, result>>

PCs == {"idle", "make", "protect", "copy", "extract", "par2", "encrypt", "slot",
        "audit", "list", "post", "nzb", "release", "clean", "done"}
Critical == {"audit", "list", "post", "nzb", "release"}

TypeOK ==
  /\ pc \in [Jobs -> PCs]
  /\ content \in [Jobs -> SUBSET Files]
  /\ stage \in [Jobs -> SUBSET Files]
  /\ made \subseteq Jobs /\ entries \subseteq Jobs /\ kept \subseteq Jobs
  /\ doomed \subseteq Jobs /\ torn \subseteq Jobs
  /\ changed \in [Jobs -> SUBSET Files]
  /\ todo \in [Jobs -> SUBSET (Files \cup {Sealed})]
  /\ count \in [Jobs -> SUBSET Files]
  /\ vault \in [Jobs -> SUBSET Files]
  /\ enc \in [Jobs -> SUBSET {Sealed}]
  /\ slot \in Jobs \cup {NoJob}
  /\ posted \in [Jobs -> SUBSET (Files \cup {Sealed})]
  /\ cancelled \subseteq Jobs
  /\ result \in [Jobs -> {"none", "failed", "published"}]

Init ==
  /\ pc = [j \in Jobs |-> "idle"]
  /\ content = [j \in Jobs |-> Release]
  /\ stage = [j \in Jobs |-> {}]
  /\ entries = Tasks
  /\ made = {} /\ kept = {} /\ doomed = {} /\ torn = {}
  /\ changed = [j \in Jobs |-> {}]
  /\ todo = [j \in Jobs |-> {}]
  /\ count = [j \in Jobs |-> {}]
  /\ vault = [j \in Jobs |-> {}]
  /\ enc = [j \in Jobs |-> {}]
  /\ slot = NoJob
  /\ posted = [j \in Jobs |-> {}]
  /\ cancelled = {}
  /\ result = [j \in Jobs |-> "none"]

-----------------------------------------------------------------------------
Goto(j, l) == pc' = [pc EXCEPT ![j] = l]

(* Mutant: an error in the critical section leaves the slot locked.        *)
FailHolding(j) ==
  /\ Goto(j, "clean")
  /\ result' = [result EXCEPT ![j] = "failed"]
  /\ todo' = [todo EXCEPT ![j] = {}] /\ count' = [count EXCEPT ![j] = {}]
  /\ UNCHANGED slot

(* An error return: the deferred calls release the slot, if it is held,    *)
(* and remove the directories.                                             *)
Fail(j) ==
  /\ Goto(j, IF slot = j THEN "release" ELSE "clean")
  /\ result' = [result EXCEPT ![j] = "failed"]
  /\ todo' = [todo EXCEPT ![j] = {}] /\ count' = [count EXCEPT ![j] = {}]
  /\ UNCHANGED slot

dirs == <<stage, made, entries, kept, doomed, torn, changed>>
walks == <<todo, count>>
seals == <<vault, enc>>
outcome == <<slot, posted, cancelled, result>>

(* describeContent: whatever fails, the release is still published.  The   *)
(* first report of its progress makes an entry for a job that has none.    *)
Describe(j) ==
  /\ pc[j] = "idle"
  /\ content' = [content EXCEPT ![j] = @ \cup Sidecars]
  /\ entries' = entries \cup {j}
  /\ Goto(j, "make")
  /\ UNCHANGED <<stage, made, kept, doomed, torn, changed, walks, seals, outcome>>

MakeStage(j) ==
  /\ pc[j] = "make"
  /\ made' = made \cup {j}
  /\ Goto(j, "protect")
  /\ UNCHANGED <<content, stage, entries, kept, doomed, torn, changed, walks, seals, outcome>>

NoStage(j) ==
  /\ pc[j] = "make"
  /\ Fail(j)
  /\ UNCHANGED <<content, dirs, seals, posted, cancelled>>

(* The source walk: no directory of sidecars, only uploadable names.       *)
(* Mutant: every file of the tree.                                         *)
StagedOfAll(c) == c
StagedOf(c) == (c \ Sidecars) \cap Uploadable

(* Mutant: the entry never learns of the directory.                        *)
ProtectNothing(j) ==
  /\ pc[j] = "protect"
  /\ todo' = [todo EXCEPT ![j] = StagedOf(content[j])]
  /\ Goto(j, "copy")
  /\ UNCHANGED <<content, dirs, count, seals, outcome>>

(* SetJobStagePath writes to an entry only if there is one.                *)
Protect(j) ==
  /\ pc[j] = "protect"
  /\ kept' = IF j \in entries THEN kept \cup {j} ELSE kept
  /\ todo' = [todo EXCEPT ![j] = StagedOf(content[j])]
  /\ Goto(j, "copy")
  /\ UNCHANGED <<content, stage, made, entries, doomed, torn, changed, count, seals, outcome>>

(* A directory is read in an order that depends only on what it holds.     *)
Visited(fs) == CHOOSE f \in fs : TRUE

(* CopyFiles makes the directories of each file, and so the staging        *)
(* directory again should it be gone; ObfuscateFiles does not.             *)
CopyFile(j) ==
  /\ pc[j] = "copy" /\ todo[j] # {} /\ j \notin cancelled
  /\ j \in Obfuscating => j \in made
  /\ made' = made \cup {j}
  /\ LET f == Visited(todo[j])
     IN  /\ stage' = [stage EXCEPT ![j] = @ \cup {f}]
         /\ count' = [count EXCEPT ![j] = @ \cup {f}]
         /\ todo' = [todo EXCEPT ![j] = @ \ {f}]
  /\ UNCHANGED <<pc, content, entries, kept, doomed, torn, changed, seals, outcome>>

CopyFails(j) ==
  /\ pc[j] = "copy" /\ todo[j] # {}
  /\ Fail(j)
  /\ UNCHANGED <<content, dirs, seals, posted, cancelled>>

(* auditStaged: as many files and bytes in the directory as were copied.   *)
AuditStage(j) ==
  /\ pc[j] = "copy" /\ todo[j] = {}
  /\ j \in made
  /\ Cardinality(StagedOf(stage[j])) = Cardinality(count[j])
  /\ todo' = [todo EXCEPT ![j] = stage[j] \cap Archives]
  /\ count' = [count EXCEPT ![j] = {}]
  /\ Goto(j, "extract")
  /\ UNCHANGED <<content, dirs, seals, outcome>>

ParityMismatch(j) ==
  /\ pc[j] = "copy" /\ todo[j] = {}
  /\ j \in made => Cardinality(StagedOf(stage[j])) # Cardinality(count[j])
  /\ Fail(j)
  /\ UNCHANGED <<content, dirs, seals, posted, cancelled>>

-----------------------------------------------------------------------------
(* The six steps that unpack archives in place.  An archive that is        *)
(* unpacked is removed with the recovery files of its stem; the errors of  *)
(* these removals are dropped.  One that fails stays, and so does what has *)
(* come out of it.  No error stops the job.                                *)

(* Under a random name an archive shares its stem with no other file.      *)
Orphans(j, a) == IF j \in Obfuscating THEN {} ELSE Stale[a]

Linked(j) == IF j \in SameDevice \ Obfuscating THEN stage[j] \cap content[j] ELSE {}

(* through: the step writes the entries itself, into whatever file bears   *)
(* the name, and not with a tool that replaces it.                         *)
Write(j, out, gone, through) ==
  /\ stage' = [stage EXCEPT ![j] = (@ \cup out) \ gone]
  /\ changed' = [changed EXCEPT ![j] =
       IF through THEN @ \cup (out \cap Linked(j)) ELSE @]

(* Mutant: the archive goes whatever became of its contents.               *)
UnpackCareless(j, a, orphans, through) ==
  \E out \in SUBSET Inside[a] : Write(j, out, {a} \cup orphans, through)

Unpack(j, a, orphans, through) ==
  \/ j \notin cancelled
     /\ \E gone \in {{}, {a} \cup orphans} : Write(j, Inside[a], gone, through)
  \/ \E part \in SUBSET Inside[a] : Write(j, part, {}, through)

ExtractRARArchives(j, a) == "rar" \in Kind[a] /\ Unpack(j, a, Orphans(j, a), FALSE)

(* A zip that holds nothing compressed is left alone, and no recovery file *)
(* is removed with the others.                                             *)
ExtractZIPArchives(j, a) == "zip" \in Kind[a] /\ Unpack(j, a, {}, TRUE)

Extract7zArchives(j, a) == "7z" \in Kind[a] /\ Unpack(j, a, Orphans(j, a), FALSE)
ExtractISOArchives(j, a) == "iso" \in Kind[a] /\ Unpack(j, a, Orphans(j, a), FALSE)
ExtractTarArchives(j, a) == "tar" \in Kind[a] /\ Unpack(j, a, Orphans(j, a), TRUE)
ExtractMiscArchives(j, a) == "misc" \in Kind[a] /\ Unpack(j, a, Orphans(j, a), FALSE)

Extract(j) ==
  /\ pc[j] = "extract"
  /\ \E a \in todo[j] \cap stage[j] :
       /\ \/ ExtractRARArchives(j, a) \/ ExtractZIPArchives(j, a) \/ Extract7zArchives(j, a)
          \/ ExtractISOArchives(j, a) \/ ExtractTarArchives(j, a) \/ ExtractMiscArchives(j, a)
       /\ todo' = [todo EXCEPT ![j] = @ \ {a}]
  /\ UNCHANGED <<pc, content, made, entries, kept, doomed, torn, count, seals, outcome>>

ExtractEnds(j) ==
  /\ pc[j] = "extract" /\ todo[j] \cap stage[j] = {}
  /\ todo' = [todo EXCEPT ![j] = {}]
  /\ Goto(j, "par2")
  /\ UNCHANGED <<content, dirs, count, seals, outcome>>

-----------------------------------------------------------------------------
(* GeneratePAR2: a failure leaves the release without recovery files, or   *)
(* with some of them.                                                      *)
GeneratePAR2(j) ==
  /\ pc[j] = "par2"
  /\ \E out \in SUBSET {Recovery} :
       /\ stage[j] = {} => out = {}
       /\ stage' = [stage EXCEPT ![j] = @ \cup out]
  /\ Goto(j, IF j \in Encrypting THEN "encrypt" ELSE "slot")
  /\ UNCHANGED <<content, made, entries, kept, doomed, torn, changed, walks, seals, outcome>>

(* EncryptWith7z takes whatever the directory holds; the errors of the     *)
(* MkdirAll and the Rename after it are dropped.                           *)
EncryptWith7z(j) ==
  /\ pc[j] = "encrypt" /\ j \in made /\ j \notin cancelled
  /\ vault' = [vault EXCEPT ![j] = stage[j]]
  /\ \E e \in SUBSET {Sealed} : enc' = [enc EXCEPT ![j] = e]
  /\ Goto(j, "slot")
  /\ UNCHANGED <<content, dirs, walks, outcome>>

EncryptFails(j) ==
  /\ pc[j] = "encrypt"
  /\ Fail(j)
  /\ UNCHANGED <<content, dirs, seals, posted, cancelled>>

(* UploadSlot.Lock does not look at the context.                           *)
Acquire(j) ==
  /\ pc[j] = "slot" /\ slot = NoJob
  /\ slot' = j
  /\ Goto(j, "audit")
  /\ UNCHANGED <<content, dirs, walks, seals, posted, cancelled, result>>

UploadDir(j) == IF j \in Encrypting THEN enc[j] ELSE stage[j]

(* CompareManifest: not for sealed releases, nor for those without videos. *)
Partial(j) ==
  /\ j \notin Encrypting
  /\ Cardinality(UploadDir(j) \cap Videos) < Cardinality(content[j] \cap Videos)

CompareManifest(j) ==
  /\ pc[j] = "audit" /\ ~Partial(j)
  /\ Goto(j, "list")
  /\ UNCHANGED <<content, dirs, walks, seals, outcome>>

ManifestMismatch(j) ==
  /\ pc[j] = "audit" /\ Partial(j)
  /\ Fail(j)
  /\ UNCHANGED <<content, dirs, seals, posted, cancelled>>

(* UploadDirectory first lists the files; an error in the middle of the    *)
(* walk, which takes a removal going on at the same time, is dropped.      *)
ListFiles(j) ==
  /\ pc[j] = "list"
  /\ UploadDir(j) # {}
  /\ todo' = [todo EXCEPT ![j] = UploadDir(j)]
  /\ Goto(j, "post")
  /\ UNCHANGED <<content, dirs, count, seals, outcome>>

NothingToUpload(j) ==
  /\ pc[j] = "list"
  /\ UploadDir(j) = {}
  /\ Fail(j)
  /\ UNCHANGED <<content, dirs, seals, posted, cancelled>>

(* UploadToUsenet: all the articles of a file or an error (FileUpload).    *)
PostFile(j) ==
  /\ pc[j] = "post" /\ todo[j] # {} /\ j \notin cancelled
  /\ LET f == Visited(todo[j])
     IN  /\ f \in UploadDir(j)
         /\ posted' = [posted EXCEPT ![j] = @ \cup {f}]
         /\ todo' = [todo EXCEPT ![j] = @ \ {f}]
  /\ UNCHANGED <<pc, content, dirs, count, seals, slot, cancelled, result>>

PostFails(j) ==
  /\ pc[j] = "post" /\ todo[j] # {}
  /\ Fail(j)
  /\ UNCHANGED <<content, dirs, seals, posted, cancelled>>

(* CreateMultiFileNZBBytes names the files posted.                         *)
CreateNZB(j) ==
  /\ pc[j] = "post" /\ todo[j] = {}
  /\ result' = [result EXCEPT ![j] = "published"]
  /\ Goto(j, "release")
  /\ UNCHANGED <<content, dirs, walks, seals, slot, posted, cancelled>>

NZBFails(j) ==
  /\ pc[j] = "post" /\ todo[j] = {}
  /\ Fail(j)
  /\ UNCHANGED <<content, dirs, seals, posted, cancelled>>

-----------------------------------------------------------------------------
(* The deferred calls.                                                     *)

ReleaseSlot(j) ==
  /\ pc[j] = "release"
  /\ slot' = NoJob
  /\ Goto(j, "clean")
  /\ UNCHANGED <<content, dirs, walks, seals, posted, cancelled, result>>

Clean(j) ==
  /\ pc[j] = "clean"
  /\ stage' = [stage EXCEPT ![j] = {}]
  /\ made' = made \ {j}
  /\ kept' = kept \ {j}
  /\ doomed' = doomed \ {j}
  /\ enc' = [enc EXCEPT ![j] = {}]
  /\ cancelled' = cancelled \ {j}
  /\ Goto(j, "done")
  /\ UNCHANGED <<content, entries, torn, changed, walks, vault, slot, posted, result>>

-----------------------------------------------------------------------------
(* Around the jobs.                                                        *)

(* Past the upload nothing looks at the context any more.                  *)
(* Bound: one job at a time.                                               *)
Cancel(j) ==
  /\ pc[j] \notin {"release", "clean", "done"} /\ cancelled = {}
  /\ cancelled' = cancelled \cup {j}
  /\ UNCHANGED <<pc, content, dirs, walks, seals, slot, posted, result>>

(* sweepWithMinAge, at the end of another task, has read the temporary     *)
(* directory and then finds no entry that names this one, ...              *)
(* Bound: no other directory has lost files to a sweep.                    *)
Doom(j) ==
  /\ j \in made \ kept /\ doomed = {} /\ torn = {}
  /\ doomed' = doomed \cup {j}
  /\ UNCHANGED <<pc, content, stage, made, entries, kept, torn, changed, walks, seals, outcome>>

(* ... and removes its files one after the other, ...                      *)
SweepFile(j) ==
  /\ j \in doomed /\ stage[j] # {}
  /\ stage' = [stage EXCEPT ![j] = @ \ {Visited(@)}]
  /\ torn' = IF pc[j] \in {"protect", "copy"} THEN torn ELSE torn \cup {j}
  /\ UNCHANGED <<pc, content, made, entries, kept, doomed, changed, walks, seals, outcome>>

(* ... then the directory, unless something has come into it meanwhile.    *)
SweepEnds(j) ==
  /\ j \in doomed
  /\ doomed' = doomed \ {j}
  /\ made' = IF stage[j] = {} THEN made \ {j} ELSE made
  /\ UNCHANGED <<pc, content, stage, entries, kept, torn, changed, walks, seals, outcome>>

-----------------------------------------------------------------------------
Prepare(j) ==
  \/ Describe(j) \/ MakeStage(j) \/ NoStage(j) \/ Protect(j)
  \/ CopyFile(j) \/ CopyFails(j)
  \/ AuditStage(j) \/ ParityMismatch(j)

Upload(j) ==
  \/ CompareManifest(j) \/ ManifestMismatch(j)
  \/ ListFiles(j) \/ NothingToUpload(j)
  \/ PostFile(j) \/ PostFails(j)
  \/ CreateNZB(j) \/ NZBFails(j)

(* The steps of the goroutine itself.                                      *)
Step(j) ==
  \/ Prepare(j) \/ Extract(j) \/ ExtractEnds(j)
  \/ GeneratePAR2(j) \/ EncryptWith7z(j) \/ EncryptFails(j)
  \/ Acquire(j) \/ Upload(j) \/ ReleaseSlot(j) \/ Clean(j)

Sweep(j) == Doom(j) \/ SweepFile(j) \/ SweepEnds(j)

Next == \E j \in Jobs : Step(j) \/ Cancel(j) \/ Sweep(j)

Spec == Init /\ [][Next]_vars

(* Every tool ends, the mutex is fair to its waiters, and a goroutine that *)
(* can go on does.                                                         *)
Fairness == \A j \in Jobs : WF_vars(Step(j)) /\ SF_vars(Acquire(j))

FairSpec == Spec /\ Fairness

-----------------------------------------------------------------------------
(* A file of the release is delivered as it is, or unpacked, or, a         *)
(* recovery file, its archive is.                                          *)
Delivered(f, out) ==
  \/ f \in out
  \/ f \in Archives /\ Inside[f] \subseteq out
  \/ \E a \in Archives : f \in Stale[a] /\ Inside[a] \subseteq out

Whole(out) == \A f \in StagedOf(Release) : Delivered(f, out)

(* An NZB names the whole release: whatever fails on the way, whatever the *)
(* archives do, and also if a sweep has taken up the staging directory in  *)
(* the moment before the job table names it, a job either reports an error *)
(* or has posted every uploadable file of the content, sealed if it is to  *)
(* be.  Only files that this sweep removes after the audit of the copies   *)
(* are missed.                                                             *)
WholeRelease ==
  \A j \in Jobs : result[j] = "published" /\ j \notin torn =>
    IF j \in Encrypting THEN posted[j] = {Sealed} /\ Whole(vault[j])
                        ELSE Whole(posted[j])

(* What reaches Usenet: recovery data, uploadable files and what was in    *)
(* archives, never the previews and subtitles made for the site; of a      *)
(* sealed release, only the archive.                                       *)
Shippable == StagedOf(Release) \cup (UNION {Inside[a] : a \in Archives}) \cup {Recovery}
OnlyContent ==
  \A j \in Jobs : posted[j] \subseteq IF j \in Encrypting THEN {Sealed} ELSE Shippable \ Sidecars

(* The promise of Publication, with the posted archive opened for those    *)
(* who have its password.                                                  *)
InTheClear == [j \in Jobs |-> posted[j] \ {Sealed}]
ReadBack ==
  [j \in Jobs |-> InTheClear[j] \cup (IF Sealed \in posted[j] THEN vault[j] ELSE {})]
Phase ==
  [j \in Jobs |-> IF result[j] # "none" THEN result[j]
                  ELSE IF pc[j] \in Critical THEN "posting" ELSE "preparing"]

Pub == INSTANCE Publication WITH
  Private <- Encrypting, Content <- Shippable \ Sidecars, Complete <- Whole,
  holder <- slot, delivered <- ReadBack, clear <- InTheClear, phase <- Phase,
  spoiled <- torn

(* Whatever fails, is cancelled or swept, the pipeline does for its        *)
(* callers what Publication says: one call posts at a time, nothing but    *)
(* the release comes out, none of it in the clear if it is to be sealed,   *)
(* and success is the whole release, inside the archive too.               *)
ImplementsPublication == Pub!PubSpec

(* The places at which a job may stay for as long as it takes.             *)
Long == {"copy", "extract", "par2", "encrypt", "slot", "audit", "list", "post"}

(* No sweep takes up the staging directory of a job at work, of a task or  *)
(* for an offer, however long it waits for the slot.                       *)
StageSpared == [][\A j \in Jobs : pc[j] \in Long /\ j \in doomed' => j \in doomed]_vars

(* One upload at a time: files are posted by the holder of the slot alone, *)
(* and the slot is held by a job inside the critical section.              *)
SlotDiscipline == \A j \in Jobs : slot = j <=> pc[j] \in Critical

(* Every job comes to its end, with the slot released for the others, also *)
(* when it fails or its context is cancelled while it waits.               *)
Ends == \A j \in Jobs : <>(pc[j] = "done")

(* The pipeline never modifies the content it publishes.                   *)
SourceUntouched == \A j \in Jobs : changed[j] = {}
=============================================================================
