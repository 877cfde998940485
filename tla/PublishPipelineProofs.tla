----------------------- MODULE PublishPipelineProofs -----------------------
(* Theorems about PublishPipeline, for any jobs, configuration and release. *)
EXTENDS PublishPipeline, FiniteSetTheorems, TLAPS

-----------------------------------------------------------------------------
(* What the operators on sets of files do.                                 *)

LEMMA VisitedIn ==
  ASSUME NEW S, S # {}
  PROVE  Visited(S) \in S
BY DEF Visited

(* A copy that has as many files as were copied is complete.               *)
LEMMA SameCount ==
  ASSUME NEW A, NEW B, IsFiniteSet(B), A \subseteq B,
         Cardinality(A) = Cardinality(B)
  PROVE  A = B
BY FS_Subset

LEMMA SourceFinite == IsFiniteSet(StagedOf(Release))
BY PipelineAssumption, FS_Subset DEF StagedOf

(* The walk of the source does not see what Describe has put there.        *)
LEMMA SidecarsSkipped == StagedOf(Release \cup Sidecars) = StagedOf(Release)
BY PipelineAssumption DEF StagedOf

(* Unpacking an archive, whole or in part, leaves the release whole.       *)
LEMMA MoreIsWhole ==
  ASSUME NEW A, NEW B, A \subseteq B, Whole(A)
  PROVE  Whole(B)
BY DEF Whole, Delivered

LEMMA UnpackedIsWhole ==
  ASSUME NEW A, Whole(A), NEW a \in Archives, NEW gone, gone \subseteq {a} \cup Stale[a]
  PROVE  Whole((A \cup Inside[a]) \ gone)
<1> DEFINE B == (A \cup Inside[a]) \ gone
<1>1. \A b \in Archives : Inside[b] \cap gone = {}
  BY PipelineAssumption
<1>2. \A b \in Archives : Inside[b] \subseteq A => Inside[b] \subseteq B
  BY <1>1
<1>3. Inside[a] \subseteq B
  BY <1>1
<1>4. ASSUME NEW f \in StagedOf(Release) PROVE Delivered(f, B)
  <2>1. CASE f \in A /\ f \notin gone
    BY <2>1 DEF Delivered
  <2>2. CASE f \in A /\ f \in gone
    BY <2>2, <1>3 DEF Delivered
  <2>3. CASE f \notin A
    BY <2>3, <1>2 DEF Whole, Delivered
  <2> QED
    BY <2>1, <2>2, <2>3
<1> QED
  BY <1>4 DEF Whole

-----------------------------------------------------------------------------
(* The inductive invariant, for one job.                                   *)

Early == {"idle", "make", "protect"}
Staged == {"extract", "par2", "encrypt", "slot", "audit", "list"}
Final == {"release", "clean", "done"}

ContentInv(j) == content[j] \in {Release, Release \cup Sidecars}
StageInv(j) ==
  /\ stage[j] \subseteq Shippable
  /\ pc[j] \in Early => stage[j] = {} /\ count[j] = {}
  /\ pc[j] = "extract" => todo[j] \subseteq Archives
CopyInv(j) ==
  pc[j] = "copy" => /\ stage[j] \subseteq count[j]
                    /\ count[j] \cup todo[j] = StagedOf(Release)
WholeInv(j) ==
  pc[j] \in Staged /\ j \notin torn => Whole(stage[j])
VaultInv(j) ==
  /\ vault[j] \subseteq Shippable
  /\ j \in Encrypting \ torn /\ (pc[j] \in {"slot", "audit", "list", "post"} \/ result[j] = "published")
       => Whole(vault[j])
PostInv(j) ==
  /\ pc[j] \notin {"post"} \cup Final => posted[j] = {}
  /\ result[j] = "none" <=> pc[j] \notin Final
  /\ pc[j] = "post" /\ j \in Encrypting => posted[j] \cup todo[j] = {Sealed}
  /\ pc[j] = "post" /\ j \notin Encrypting =>
       /\ posted[j] \cup todo[j] \subseteq Shippable
       /\ j \notin torn => Whole(posted[j] \cup todo[j])
  /\ posted[j] \subseteq IF j \in Encrypting THEN {Sealed} ELSE Shippable
ResultInv(j) ==
  result[j] = "published" /\ j \notin torn =>
    IF j \in Encrypting THEN posted[j] = {Sealed} /\ Whole(vault[j]) ELSE Whole(posted[j])
KeptInv(j) ==
  /\ pc[j] # "idle" => j \in entries
  /\ pc[j] \in Long => j \in kept
SlotInv(j) == slot = j <=> pc[j] \in Critical

JobInv(j) ==
  /\ ContentInv(j) /\ StageInv(j) /\ CopyInv(j) /\ WholeInv(j) /\ VaultInv(j)
  /\ PostInv(j) /\ ResultInv(j) /\ KeptInv(j) /\ SlotInv(j)

Inv == TypeOK /\ \A j \in Jobs : JobInv(j)

-----------------------------------------------------------------------------
(* Types.                                                                  *)

LEMMA FileTypes ==
  /\ StagedOf(Release) \subseteq Files
  /\ Shippable \subseteq Files
  /\ \A a \in Archives : Inside[a] \subseteq Files
  /\ Sidecars \subseteq Files /\ Release \subseteq Files /\ Recovery \in Files
BY DEF StagedOf, Shippable, Files

LEMMA FailType ==
  ASSUME TypeOK, NEW j \in Jobs, Fail(j)
  PROVE  /\ pc' \in [Jobs -> PCs] /\ slot' = slot
         /\ todo' \in [Jobs -> SUBSET (Files \cup {Sealed})]
         /\ count' \in [Jobs -> SUBSET Files]
         /\ result' \in [Jobs -> {"none", "failed", "published"}]
BY DEF TypeOK, Fail, Goto, PCs

LEMMA InitType == Init => TypeOK
BY FileTypes, PipelineAssumption DEF Init, TypeOK, PCs

LEMMA PrepareType ==
  ASSUME Inv, NEW j \in Jobs, Prepare(j)
  PROVE  TypeOK'
<1> USE DEF dirs, walks, seals, outcome, Goto
<1>1. CASE Describe(j)
  BY <1>1, FileTypes DEF Describe, Inv, TypeOK, PCs
<1>2. CASE MakeStage(j)
  BY <1>2 DEF MakeStage, Inv, TypeOK, PCs
<1>3. CASE NoStage(j)
  BY <1>3, FailType DEF NoStage, Inv, TypeOK
<1>4. CASE Protect(j)
  BY <1>4, FileTypes DEF Protect, StagedOf, Inv, TypeOK, PCs
<1>5. CASE CopyFile(j)
  <2>1. Visited(todo[j]) \in todo[j]
    BY <1>5, VisitedIn DEF CopyFile
  <2>2. todo[j] \subseteq Files
    BY <1>5, FileTypes DEF CopyFile, Inv, JobInv, CopyInv
  <2> QED
    BY <1>5, <2>1, <2>2 DEF CopyFile, Inv, TypeOK
<1>6. CASE CopyFails(j)
  BY <1>6, FailType DEF CopyFails, Inv, TypeOK
<1>7. CASE AuditStage(j)
  BY <1>7 DEF AuditStage, Inv, TypeOK, PCs
<1>8. CASE ParityMismatch(j)
  BY <1>8, FailType DEF ParityMismatch, Inv, TypeOK
<1> QED
  BY <1>1, <1>2, <1>3, <1>4, <1>5, <1>6, <1>7, <1>8 DEF Prepare

(* What unpacking an archive does to the directory.                        *)
Unpacked(j, a, out, gone) ==
  /\ a \in todo[j] /\ a \in stage[j] /\ a \in Archives
  /\ out \subseteq Inside[a]
  /\ gone = {} \/ (out = Inside[a] /\ gone \subseteq {a} \cup Stale[a])
  /\ stage' = [stage EXCEPT ![j] = (@ \cup out) \ gone]
  /\ changed' = changed \/ changed' = [changed EXCEPT ![j] = @ \cup (out \cap Linked(j))]
  /\ todo' = [todo EXCEPT ![j] = @ \ {a}]

LEMMA UnpackResult ==
  ASSUME Inv, NEW j \in Jobs, Extract(j)
  PROVE  \E a, out, gone : Unpacked(j, a, out, gone)
<1>1. PICK a \in todo[j] \cap stage[j] :
        /\ \/ ExtractRARArchives(j, a) \/ ExtractZIPArchives(j, a) \/ Extract7zArchives(j, a)
           \/ ExtractISOArchives(j, a) \/ ExtractTarArchives(j, a) \/ ExtractMiscArchives(j, a)
        /\ todo' = [todo EXCEPT ![j] = @ \ {a}]
  BY DEF Extract
<1>2. a \in Archives
  BY <1>1 DEF Extract, Inv, JobInv, StageInv
<1>3. PICK orphans \in SUBSET Stale[a], through \in BOOLEAN :
        Unpack(j, a, orphans, through)
  <2>1. Orphans(j, a) \subseteq Stale[a] /\ {} \subseteq Stale[a]
    BY DEF Orphans
  <2>2. CASE Unpack(j, a, Orphans(j, a), FALSE)
    BY <2>1, <2>2
  <2>3. CASE Unpack(j, a, {}, TRUE)
    BY <2>1, <2>3
  <2>4. CASE Unpack(j, a, Orphans(j, a), TRUE)
    BY <2>1, <2>4
  <2> QED
    BY <1>1, <2>2, <2>3, <2>4
    DEF ExtractRARArchives, ExtractZIPArchives, Extract7zArchives,
        ExtractISOArchives, ExtractTarArchives, ExtractMiscArchives
<1>4. PICK out, gone :
        /\ out \subseteq Inside[a]
        /\ gone = {} \/ (out = Inside[a] /\ gone \subseteq {a} \cup Stale[a])
        /\ Write(j, out, gone, through)
  <2>1. CASE \E gone \in {{}, {a} \cup orphans} : Write(j, Inside[a], gone, through)
    BY <2>1, <1>3
  <2>2. CASE \E part \in SUBSET Inside[a] : Write(j, part, {}, through)
    BY <2>2
  <2> QED
    BY <1>3, <2>1, <2>2 DEF Unpack
<1>5. changed' = changed \/ changed' = [changed EXCEPT ![j] = @ \cup (out \cap Linked(j))]
  BY <1>4 DEF Write, Inv, TypeOK
<1> QED
  BY <1>1, <1>2, <1>4, <1>5 DEF Unpacked, Write

LEMMA ProduceType ==
  ASSUME Inv, NEW j \in Jobs,
         Extract(j) \/ ExtractEnds(j) \/ GeneratePAR2(j) \/ EncryptWith7z(j) \/ EncryptFails(j)
  PROVE  TypeOK'
<1> USE DEF dirs, walks, seals, outcome, Goto
<1>1. CASE Extract(j)
  <2>1. PICK a, out, gone : Unpacked(j, a, out, gone)
    BY <1>1, UnpackResult
  <2>2. out \subseteq Files
    BY <2>1, FileTypes DEF Unpacked
  <2>3. stage' \in [Jobs -> SUBSET Files] /\ changed' \in [Jobs -> SUBSET Files]
    BY <2>1, <2>2 DEF Unpacked, Inv, TypeOK
  <2>4. todo' \in [Jobs -> SUBSET (Files \cup {Sealed})]
    BY <2>1 DEF Unpacked, Inv, TypeOK
  <2> QED
    BY <1>1, <2>3, <2>4 DEF Extract, Inv, TypeOK
<1>2. CASE ExtractEnds(j)
  BY <1>2 DEF ExtractEnds, Inv, TypeOK, PCs
<1>3. CASE GeneratePAR2(j)
  BY <1>3, FileTypes DEF GeneratePAR2, Inv, TypeOK, PCs
<1>4. CASE EncryptWith7z(j)
  BY <1>4 DEF EncryptWith7z, Inv, TypeOK, PCs
<1>5. CASE EncryptFails(j)
  BY <1>5, FailType DEF EncryptFails, Inv, TypeOK
<1> QED
  BY <1>1, <1>2, <1>3, <1>4, <1>5

LEMMA UploadType ==
  ASSUME Inv, NEW j \in Jobs, Upload(j) \/ Acquire(j) \/ ReleaseSlot(j) \/ Clean(j)
  PROVE  TypeOK'
<1> USE DEF dirs, walks, seals, outcome, Goto
<1>0. UploadDir(j) \subseteq Files \cup {Sealed}
  BY DEF UploadDir, Inv, TypeOK
<1>1. CASE CompareManifest(j)
  BY <1>1 DEF CompareManifest, Inv, TypeOK, PCs
<1>2. CASE ManifestMismatch(j)
  BY <1>2, FailType DEF ManifestMismatch, Inv, TypeOK
<1>3. CASE ListFiles(j)
  BY <1>0, <1>3 DEF ListFiles, Inv, TypeOK, PCs
<1>4. CASE NothingToUpload(j)
  BY <1>4, FailType DEF NothingToUpload, Inv, TypeOK
<1>5. CASE PostFile(j)
  BY <1>0, <1>5 DEF PostFile, Inv, TypeOK
<1>6. CASE PostFails(j) \/ NZBFails(j)
  BY <1>6, FailType DEF PostFails, NZBFails, Inv, TypeOK
<1>7. CASE CreateNZB(j)
  BY <1>7 DEF CreateNZB, Inv, TypeOK, PCs
<1>8. CASE Acquire(j) \/ ReleaseSlot(j)
  BY <1>8 DEF Acquire, ReleaseSlot, Inv, TypeOK, PCs
<1>9. CASE Clean(j)
  BY <1>9 DEF Clean, Inv, TypeOK, PCs
<1> QED
  BY <1>1, <1>2, <1>3, <1>4, <1>5, <1>6, <1>7, <1>8, <1>9 DEF Upload

LEMMA OutsideType ==
  ASSUME Inv, NEW j \in Jobs, Cancel(j) \/ Sweep(j)
  PROVE  TypeOK'
<1> USE DEF dirs, walks, seals, outcome
<1>1. CASE Cancel(j)
  BY <1>1 DEF Cancel, Inv, TypeOK
<1>2. CASE Doom(j) \/ SweepEnds(j)
  BY <1>2 DEF Doom, SweepEnds, Inv, TypeOK
<1>3. CASE SweepFile(j)
  BY <1>3 DEF SweepFile, Inv, TypeOK
<1> QED
  BY <1>1, <1>2, <1>3 DEF Sweep

LEMMA NextType ==
  ASSUME Inv, [Next]_vars
  PROVE  TypeOK'
<1>1. CASE UNCHANGED vars
  BY <1>1 DEF vars, Inv, TypeOK
<1>2. CASE Next
  BY <1>2, PrepareType, ProduceType, UploadType, OutsideType DEF Next, Step
<1> QED
  BY <1>1, <1>2

-----------------------------------------------------------------------------
(* A step of one job, or of the sweep on its directory, leaves the other   *)
(* jobs as they are.                                                       *)

Same(j) ==
  /\ pc'[j] = pc[j] /\ content'[j] = content[j] /\ stage'[j] = stage[j]
  /\ j \in made' <=> j \in made
  /\ j \in entries' <=> j \in entries
  /\ j \in kept' <=> j \in kept
  /\ j \in doomed' <=> j \in doomed
  /\ j \in torn' <=> j \in torn
  /\ todo'[j] = todo[j] /\ count'[j] = count[j] /\ vault'[j] = vault[j]
  /\ slot' = j <=> slot = j
  /\ posted'[j] = posted[j] /\ result'[j] = result[j]

LEMMA SameKeeps ==
  ASSUME NEW j \in Jobs, Same(j), JobInv(j)
  PROVE  JobInv(j)'
<1> USE DEF Same
<1>1. ContentInv(j)' /\ StageInv(j)' /\ CopyInv(j)' /\ WholeInv(j)'
  BY DEF JobInv, ContentInv, StageInv, CopyInv, WholeInv
<1>2. VaultInv(j)' /\ ResultInv(j)'
  BY DEF JobInv, VaultInv, ResultInv
<1>3. PostInv(j)' /\ KeptInv(j)' /\ SlotInv(j)'
  BY DEF JobInv, PostInv, KeptInv, SlotInv
<1> QED
  BY <1>1, <1>2, <1>3 DEF JobInv

LEMMA PrepareFrame ==
  ASSUME Inv, NEW i \in Jobs, NEW j \in Jobs, i # j, Prepare(i)
  PROVE  Same(j)
<1> USE DEF Same, Inv, TypeOK, dirs, walks, seals, outcome, Goto, Fail
<1>1. CASE Describe(i) \/ MakeStage(i) \/ NoStage(i)
  BY <1>1 DEF Describe, MakeStage, NoStage
<1>2. CASE Protect(i) \/ CopyFails(i) \/ ParityMismatch(i)
  BY <1>2 DEF Protect, CopyFails, ParityMismatch
<1>3. CASE CopyFile(i) \/ AuditStage(i)
  BY <1>3 DEF CopyFile, AuditStage
<1> QED
  BY <1>1, <1>2, <1>3 DEF Prepare

LEMMA ProduceFrame ==
  ASSUME Inv, NEW i \in Jobs, NEW j \in Jobs, i # j,
         Extract(i) \/ ExtractEnds(i) \/ GeneratePAR2(i) \/ EncryptWith7z(i) \/ EncryptFails(i)
  PROVE  Same(j)
<1> USE DEF Same, dirs, walks, seals, outcome, Goto, Fail
<1>1. CASE Extract(i)
  <2>1. PICK a, out, gone : Unpacked(i, a, out, gone)
    BY <1>1, UnpackResult
  <2>2. stage'[j] = stage[j] /\ todo'[j] = todo[j]
    BY <2>1 DEF Unpacked, Inv, TypeOK
  <2> QED
    BY <1>1, <2>2 DEF Extract
<1>2. CASE ExtractEnds(i) \/ GeneratePAR2(i)
  BY <1>2 DEF ExtractEnds, GeneratePAR2, Inv, TypeOK
<1>3. CASE EncryptWith7z(i) \/ EncryptFails(i)
  BY <1>3 DEF EncryptWith7z, EncryptFails, Inv, TypeOK
<1> QED
  BY <1>1, <1>2, <1>3

LEMMA UploadFrame ==
  ASSUME Inv, NEW i \in Jobs, NEW j \in Jobs, i # j,
         Upload(i) \/ Acquire(i) \/ ReleaseSlot(i) \/ Clean(i)
  PROVE  Same(j)
<1> USE DEF Same, Inv, TypeOK, dirs, walks, seals, outcome, Goto, Fail
<1>1. CASE CompareManifest(i) \/ ManifestMismatch(i) \/ NothingToUpload(i)
  BY <1>1 DEF CompareManifest, ManifestMismatch, NothingToUpload
<1>2. CASE ListFiles(i) \/ PostFile(i)
  BY <1>2 DEF ListFiles, PostFile
<1>3. CASE PostFails(i) \/ CreateNZB(i) \/ NZBFails(i)
  BY <1>3 DEF PostFails, CreateNZB, NZBFails
<1>4. CASE Acquire(i)
  BY <1>4, PipelineAssumption DEF Acquire
<1>5. CASE ReleaseSlot(i)
  <2>1. slot = i
    BY <1>5 DEF ReleaseSlot, JobInv, SlotInv, Critical
  <2> QED
    BY <1>5, <2>1, PipelineAssumption DEF ReleaseSlot
<1>6. CASE Clean(i)
  BY <1>6 DEF Clean
<1> QED
  BY <1>1, <1>2, <1>3, <1>4, <1>5, <1>6 DEF Upload

LEMMA OutsideFrame ==
  ASSUME Inv, NEW i \in Jobs, NEW j \in Jobs, i # j, Cancel(i) \/ Sweep(i)
  PROVE  Same(j)
BY DEF Same, Inv, TypeOK, dirs, walks, seals, outcome, Cancel, Sweep, Doom, SweepFile, SweepEnds

-----------------------------------------------------------------------------
(* A step of a job keeps its own part of the invariant.                    *)

LEMMA InitInv == Init => Inv
<1> SUFFICES ASSUME Init PROVE Inv
  OBVIOUS
<1>1. TypeOK
  BY InitType
<1>2. ASSUME NEW j \in Jobs PROVE JobInv(j)
  <2>1. pc[j] = "idle" /\ result[j] = "none" /\ slot # j
    BY PipelineAssumption DEF Init
  <2>2. ContentInv(j) /\ StageInv(j) /\ CopyInv(j) /\ WholeInv(j) /\ VaultInv(j)
    BY <2>1 DEF Init, ContentInv, StageInv, CopyInv, WholeInv, VaultInv, Staged
  <2>3. PostInv(j) /\ ResultInv(j) /\ KeptInv(j) /\ SlotInv(j)
    BY <2>1 DEF Init, PostInv, ResultInv, KeptInv, SlotInv, Final, Long, Critical
  <2> QED
    BY <2>2, <2>3 DEF JobInv
<1> QED
  BY <1>1, <1>2 DEF Inv

LEMMA FailKeeps ==
  ASSUME Inv, NEW j \in Jobs, pc[j] # "idle", Fail(j),
         UNCHANGED <<content, dirs, seals, posted, cancelled>>
  PROVE  JobInv(j)'
<1> USE DEF dirs, seals
<1>1. /\ pc'[j] = IF slot = j THEN "release" ELSE "clean"
      /\ result'[j] = "failed" /\ slot' = slot
      /\ todo'[j] = {} /\ count'[j] = {}
  BY DEF Fail, Goto, Inv, TypeOK
<1>2. ContentInv(j)' /\ StageInv(j)' /\ CopyInv(j)' /\ WholeInv(j)' /\ VaultInv(j)'
  BY <1>1 DEF Inv, JobInv, ContentInv, StageInv, CopyInv, WholeInv, VaultInv, Early, Staged
<1>3. PostInv(j)' /\ ResultInv(j)'
  BY <1>1 DEF Inv, JobInv, PostInv, ResultInv, Final
<1>4. KeptInv(j)' /\ SlotInv(j)'
  BY <1>1 DEF Inv, JobInv, KeptInv, SlotInv, Long, Critical
<1> QED
  BY <1>2, <1>3, <1>4 DEF JobInv

LEMMA PrepareKeeps ==
  ASSUME Inv, NEW j \in Jobs, Prepare(j)
  PROVE  JobInv(j)'
<1> USE DEF dirs, walks, seals, outcome, Goto
<1>1. CASE Describe(j) \/ MakeStage(j)
  <2>1. /\ pc[j] \in Early /\ pc'[j] \in Early /\ j \in entries'
        /\ result' = result /\ slot' = slot /\ stage' = stage /\ count' = count
        /\ doomed' = doomed /\ posted' = posted /\ vault' = vault
    BY <1>1 DEF Describe, MakeStage, Early, Inv, TypeOK, JobInv, KeptInv
  <2>2. ContentInv(j)'
    BY <1>1 DEF Describe, MakeStage, Inv, TypeOK, JobInv, ContentInv
  <2>3. StageInv(j)' /\ CopyInv(j)' /\ WholeInv(j)' /\ VaultInv(j)'
    BY <2>1 DEF Inv, JobInv, StageInv, CopyInv, WholeInv, VaultInv, PostInv, Early, Staged, Final
  <2>4. PostInv(j)' /\ ResultInv(j)' /\ KeptInv(j)' /\ SlotInv(j)'
    BY <2>1 DEF Inv, JobInv, PostInv, ResultInv, KeptInv, SlotInv, Early, Final, Long, Critical
  <2> QED
    BY <2>2, <2>3, <2>4 DEF JobInv
<1>2. CASE Protect(j)
  <2>1. /\ pc[j] = "protect" /\ pc'[j] = "copy"
        /\ result' = result /\ slot' = slot /\ stage' = stage /\ count' = count
        /\ content' = content /\ doomed' = doomed /\ posted' = posted /\ vault' = vault
        /\ todo'[j] = StagedOf(content[j])
        /\ entries' = entries /\ j \in kept'
    BY <1>2 DEF Protect, Inv, TypeOK, JobInv, KeptInv
  <2>2. StagedOf(content[j]) = StagedOf(Release)
    BY SidecarsSkipped DEF Inv, JobInv, ContentInv
  <2>3. ContentInv(j)' /\ StageInv(j)' /\ CopyInv(j)' /\ WholeInv(j)' /\ VaultInv(j)'
    BY <2>1, <2>2
    DEF Inv, JobInv, ContentInv, StageInv, CopyInv, WholeInv, VaultInv, PostInv, Early, Staged, Final
  <2>4. PostInv(j)' /\ ResultInv(j)' /\ KeptInv(j)' /\ SlotInv(j)'
    BY <2>1 DEF Inv, JobInv, PostInv, ResultInv, KeptInv, SlotInv, Final, Long, Critical
  <2> QED
    BY <2>3, <2>4 DEF JobInv
<1>3. CASE CopyFile(j)
  <2> DEFINE f == Visited(todo[j])
  <2>1. f \in todo[j]
    BY <1>3, VisitedIn DEF CopyFile
  <2>2. /\ pc[j] = "copy" /\ pc' = pc /\ result' = result /\ slot' = slot
        /\ content' = content /\ entries' = entries /\ kept' = kept /\ doomed' = doomed /\ posted' = posted /\ vault' = vault
        /\ stage'[j] = stage[j] \cup {f} /\ count'[j] = count[j] \cup {f}
        /\ todo'[j] = todo[j] \ {f}
    BY <1>3 DEF CopyFile, Inv, TypeOK
  <2>3. stage'[j] \subseteq count'[j] /\ count'[j] \cup todo'[j] = StagedOf(Release)
    BY <2>1, <2>2 DEF Inv, JobInv, CopyInv
  <2>4. ContentInv(j)' /\ StageInv(j)' /\ CopyInv(j)' /\ WholeInv(j)' /\ VaultInv(j)'
    BY <2>2, <2>3
    DEF Inv, JobInv, ContentInv, StageInv, CopyInv, WholeInv, VaultInv, PostInv, Shippable, Early, Staged, Final
  <2>5. PostInv(j)' /\ ResultInv(j)' /\ KeptInv(j)' /\ SlotInv(j)'
    BY <2>2 DEF Inv, JobInv, PostInv, ResultInv, KeptInv, SlotInv, Final, Long, Critical
  <2> QED
    BY <2>4, <2>5 DEF JobInv
<1>4. CASE AuditStage(j)
  <2>1. /\ pc[j] = "copy" /\ pc'[j] = "extract" /\ todo[j] = {} /\ j \in made
        /\ result' = result /\ slot' = slot /\ stage' = stage /\ made' = made
        /\ content' = content /\ entries' = entries /\ kept' = kept /\ doomed' = doomed /\ posted' = posted /\ vault' = vault
        /\ todo'[j] = stage[j] \cap Archives
        /\ Cardinality(StagedOf(stage[j])) = Cardinality(count[j])
    BY <1>4 DEF AuditStage, Inv, TypeOK
  <2>2. count[j] = StagedOf(Release) /\ StagedOf(stage[j]) \subseteq count[j]
    BY <2>1 DEF Inv, JobInv, CopyInv, StagedOf
  <2>3. StagedOf(stage[j]) = StagedOf(Release)
    BY <2>1, <2>2, SourceFinite, SameCount
  <2>4. Whole(stage[j])
    BY <2>3 DEF Whole, Delivered, StagedOf
  <2>5. ContentInv(j)' /\ StageInv(j)' /\ CopyInv(j)' /\ WholeInv(j)' /\ VaultInv(j)'
    BY <2>1, <2>4
    DEF Inv, JobInv, ContentInv, StageInv, CopyInv, WholeInv, VaultInv, PostInv, Early, Staged, Final
  <2>6. PostInv(j)' /\ ResultInv(j)' /\ KeptInv(j)' /\ SlotInv(j)'
    BY <2>1 DEF Inv, JobInv, PostInv, ResultInv, KeptInv, SlotInv, Final, Long, Critical
  <2> QED
    BY <2>5, <2>6 DEF JobInv
<1>5. CASE NoStage(j) \/ CopyFails(j) \/ ParityMismatch(j)
  BY <1>5, FailKeeps DEF NoStage, CopyFails, ParityMismatch
<1> QED
  BY <1>1, <1>2, <1>3, <1>4, <1>5 DEF Prepare

LEMMA ProduceKeeps ==
  ASSUME Inv, NEW j \in Jobs,
         Extract(j) \/ ExtractEnds(j) \/ GeneratePAR2(j) \/ EncryptWith7z(j) \/ EncryptFails(j)
  PROVE  JobInv(j)'
<1> USE DEF dirs, walks, seals, outcome, Goto
<1>1. CASE Extract(j)
  <2>1. PICK a, out, gone : Unpacked(j, a, out, gone)
    BY <1>1, UnpackResult
  <2>2. /\ pc[j] = "extract" /\ pc' = pc /\ result' = result /\ slot' = slot
        /\ content' = content /\ made' = made /\ entries' = entries /\ kept' = kept /\ doomed' = doomed
        /\ posted' = posted /\ count' = count /\ torn' = torn /\ vault' = vault
        /\ stage'[j] = (stage[j] \cup out) \ gone
        /\ todo'[j] = todo[j] \ {a}
        /\ a \in stage[j] /\ a \in Archives /\ out \subseteq Inside[a]
    BY <1>1, <2>1 DEF Extract, Unpacked, Inv, TypeOK
  <2>3. StageInv(j)'
    <3>1. stage'[j] \subseteq Shippable
      BY <2>2 DEF Inv, JobInv, StageInv, Shippable
    <3> QED
      BY <2>2, <3>1 DEF Inv, JobInv, StageInv, Early
  <2>4. WholeInv(j)'
    <3>1. ASSUME j \notin torn PROVE Whole(stage'[j])
      <4>1. Whole(stage[j])
        BY <2>2, <3>1 DEF Inv, JobInv, WholeInv, Staged
      <4>2. CASE gone = {}
        <5>1. stage[j] \subseteq stage'[j]
          BY <2>2, <4>2
        <5> QED
          BY <4>1, <5>1, MoreIsWhole
      <4>3. CASE out = Inside[a] /\ gone \subseteq {a} \cup Stale[a]
        <5>1. Whole((stage[j] \cup Inside[a]) \ gone)
          BY <2>2, <4>1, <4>3, UnpackedIsWhole
        <5> QED
          BY <2>2, <4>3, <5>1
      <4> QED
        BY <2>1, <4>2, <4>3 DEF Unpacked
    <3> QED
      BY <2>2, <3>1 DEF WholeInv
  <2>5. ContentInv(j)' /\ CopyInv(j)' /\ VaultInv(j)'
    BY <2>2 DEF Inv, JobInv, ContentInv, CopyInv, VaultInv
  <2>6. PostInv(j)' /\ ResultInv(j)' /\ KeptInv(j)' /\ SlotInv(j)'
    BY <2>2 DEF Inv, JobInv, PostInv, ResultInv, KeptInv, SlotInv, Final
  <2> QED
    BY <2>3, <2>4, <2>5, <2>6 DEF JobInv
<1>2. CASE ExtractEnds(j)
  <2>1. /\ pc[j] = "extract" /\ pc'[j] = "par2" /\ result' = result /\ slot' = slot
        /\ content' = content /\ stage' = stage /\ made' = made /\ entries' = entries /\ kept' = kept
        /\ doomed' = doomed /\ torn' = torn /\ posted' = posted /\ vault' = vault
    BY <1>2 DEF ExtractEnds, Inv, TypeOK
  <2>2. ContentInv(j)' /\ StageInv(j)' /\ CopyInv(j)' /\ WholeInv(j)' /\ VaultInv(j)'
    BY <2>1 DEF Inv, JobInv, ContentInv, StageInv, CopyInv, WholeInv, VaultInv, PostInv, Early, Staged, Final
  <2>3. PostInv(j)' /\ ResultInv(j)' /\ KeptInv(j)' /\ SlotInv(j)'
    BY <2>1 DEF Inv, JobInv, PostInv, ResultInv, KeptInv, SlotInv, Final, Long, Critical
  <2> QED
    BY <2>2, <2>3 DEF JobInv
<1>3. CASE GeneratePAR2(j)
  <2>1. PICK out \in SUBSET {Recovery} :
          (stage[j] = {} => out = {}) /\ stage' = [stage EXCEPT ![j] = @ \cup out]
    BY <1>3 DEF GeneratePAR2
  <2>2. /\ pc[j] = "par2"
        /\ pc'[j] = IF j \in Encrypting THEN "encrypt" ELSE "slot"
        /\ result' = result /\ slot' = slot /\ content' = content /\ made' = made
        /\ entries' = entries /\ kept' = kept /\ doomed' = doomed /\ torn' = torn /\ posted' = posted /\ vault' = vault
        /\ stage'[j] = stage[j] \cup out
    BY <1>3, <2>1 DEF GeneratePAR2, Inv, TypeOK
  <2>3. stage'[j] \subseteq Shippable
    BY <2>1, <2>2 DEF Inv, JobInv, StageInv, Shippable
  <2>4. WholeInv(j)'
    BY <2>1, <2>2, MoreIsWhole DEF Inv, JobInv, WholeInv, Staged
  <2>5. ContentInv(j)' /\ StageInv(j)' /\ CopyInv(j)' /\ VaultInv(j)'
    BY <2>2, <2>3 DEF Inv, JobInv, ContentInv, StageInv, CopyInv, VaultInv, PostInv, Early, Final
  <2>6. PostInv(j)' /\ ResultInv(j)' /\ KeptInv(j)' /\ SlotInv(j)'
    BY <2>2 DEF Inv, JobInv, PostInv, ResultInv, KeptInv, SlotInv, Final, Long, Critical
  <2> QED
    BY <2>4, <2>5, <2>6 DEF JobInv
<1>4. CASE EncryptWith7z(j)
  <2>1. /\ pc[j] = "encrypt" /\ pc'[j] = "slot" /\ j \in made
        /\ result' = result /\ slot' = slot /\ content' = content /\ stage' = stage
        /\ made' = made /\ entries' = entries /\ kept' = kept /\ doomed' = doomed /\ posted' = posted
        /\ vault'[j] = stage[j]
        /\ torn' = torn
    BY <1>4 DEF EncryptWith7z, Inv, TypeOK
  <2>2. VaultInv(j)'
    BY <2>1 DEF Inv, JobInv, StageInv, WholeInv, VaultInv, Staged
  <2>3. ContentInv(j)' /\ StageInv(j)' /\ CopyInv(j)' /\ WholeInv(j)'
    BY <2>1 DEF Inv, JobInv, ContentInv, StageInv, CopyInv, WholeInv, Early, Staged
  <2>4. PostInv(j)' /\ ResultInv(j)' /\ KeptInv(j)' /\ SlotInv(j)'
    BY <2>1 DEF Inv, JobInv, PostInv, ResultInv, KeptInv, SlotInv, Final, Long, Critical
  <2> QED
    BY <2>2, <2>3, <2>4 DEF JobInv
<1>5. CASE EncryptFails(j)
  BY <1>5, FailKeeps DEF EncryptFails
<1> QED
  BY <1>1, <1>2, <1>3, <1>4, <1>5

LEMMA UploadKeeps ==
  ASSUME Inv, NEW j \in Jobs, Upload(j) \/ Acquire(j) \/ ReleaseSlot(j) \/ Clean(j)
  PROVE  JobInv(j)'
<1> USE DEF dirs, walks, seals, outcome, Goto
<1>1. CASE CompareManifest(j) \/ Acquire(j)
  <2>1. /\ pc[j] \in {"slot", "audit"} /\ pc'[j] \in {"audit", "list"}
        /\ result' = result /\ content' = content /\ stage' = stage /\ made' = made
        /\ entries' = entries /\ kept' = kept /\ doomed' = doomed /\ torn' = torn /\ posted' = posted
        /\ vault' = vault /\ slot' = j
    BY <1>1 DEF CompareManifest, Acquire, Inv, TypeOK, JobInv, SlotInv, Critical
  <2>2. ContentInv(j)' /\ StageInv(j)' /\ CopyInv(j)' /\ WholeInv(j)' /\ VaultInv(j)'
    BY <2>1 DEF Inv, JobInv, ContentInv, StageInv, CopyInv, WholeInv, VaultInv, Early, Staged
  <2>3. PostInv(j)' /\ ResultInv(j)' /\ KeptInv(j)' /\ SlotInv(j)'
    BY <2>1 DEF Inv, JobInv, PostInv, ResultInv, KeptInv, SlotInv, Final, Long, Critical
  <2> QED
    BY <2>2, <2>3 DEF JobInv
<1>2. CASE ListFiles(j)
  <2>1. /\ pc[j] = "list" /\ pc'[j] = "post"
        /\ result' = result /\ content' = content /\ stage' = stage /\ made' = made
        /\ entries' = entries /\ kept' = kept /\ doomed' = doomed /\ posted' = posted
        /\ vault' = vault /\ slot' = slot /\ count' = count
        /\ UploadDir(j) # {} /\ todo'[j] = UploadDir(j)
        /\ torn' = torn
    BY <1>2 DEF ListFiles, Inv, TypeOK
  <2>2. posted[j] = {} /\ result[j] = "none"
    BY <2>1 DEF Inv, JobInv, PostInv, Final
  <2>3. j \in Encrypting => todo'[j] = {Sealed}
    BY <2>1 DEF UploadDir, Inv, TypeOK
  <2>4. j \notin Encrypting => /\ todo'[j] \subseteq Shippable
                               /\ j \notin torn' => Whole(todo'[j])
    BY <2>1 DEF UploadDir, Inv, JobInv, StageInv, WholeInv, Staged
  <2>5. PostInv(j)'
    <3>1. j \in Encrypting => posted'[j] \cup todo'[j] = {Sealed}
      BY <2>1, <2>2, <2>3
    <3>2. posted'[j] \cup todo'[j] = todo'[j]
      BY <2>1, <2>2
    <3> QED
      BY <2>1, <2>2, <2>4, <3>1, <3>2 DEF PostInv, Final
  <2>6. ContentInv(j)' /\ StageInv(j)' /\ CopyInv(j)' /\ WholeInv(j)' /\ VaultInv(j)'
    BY <2>1 DEF Inv, JobInv, ContentInv, StageInv, CopyInv, WholeInv, VaultInv, Early, Staged
  <2>7. ResultInv(j)' /\ KeptInv(j)' /\ SlotInv(j)'
    BY <2>1, <2>2 DEF Inv, JobInv, ResultInv, KeptInv, SlotInv, Long, Critical, Staged
  <2> QED
    BY <2>5, <2>6, <2>7 DEF JobInv
<1>3. CASE PostFile(j)
  <2> DEFINE f == Visited(todo[j])
  <2>1. f \in todo[j]
    BY <1>3, VisitedIn DEF PostFile
  <2>2. /\ pc[j] = "post" /\ pc' = pc /\ result' = result /\ content' = content
        /\ stage' = stage /\ made' = made /\ entries' = entries /\ kept' = kept /\ doomed' = doomed
        /\ torn' = torn /\ vault' = vault /\ slot' = slot /\ count' = count
        /\ posted'[j] = posted[j] \cup {f} /\ todo'[j] = todo[j] \ {f}
    BY <1>3 DEF PostFile, Inv, TypeOK
  <2>3. posted'[j] \cup todo'[j] = posted[j] \cup todo[j]
    BY <2>1, <2>2
  <2>4. PostInv(j)'
    <3>1. posted'[j] \subseteq IF j \in Encrypting THEN {Sealed} ELSE Shippable
      BY <2>2, <2>3 DEF Inv, JobInv, PostInv
    <3> QED
      BY <2>2, <2>3, <3>1 DEF Inv, JobInv, PostInv, Final
  <2>5. ContentInv(j)' /\ StageInv(j)' /\ CopyInv(j)' /\ WholeInv(j)' /\ VaultInv(j)'
    BY <2>2 DEF Inv, JobInv, ContentInv, StageInv, CopyInv, WholeInv, VaultInv, Early, Staged
  <2>6. ResultInv(j)' /\ KeptInv(j)' /\ SlotInv(j)'
    BY <2>2 DEF Inv, JobInv, PostInv, ResultInv, KeptInv, SlotInv, Final
  <2> QED
    BY <2>4, <2>5, <2>6 DEF JobInv
<1>4. CASE CreateNZB(j)
  <2>1. /\ pc[j] = "post" /\ pc'[j] = "release" /\ todo[j] = {}
        /\ result'[j] = "published" /\ content' = content /\ stage' = stage
        /\ made' = made /\ entries' = entries /\ kept' = kept /\ doomed' = doomed /\ torn' = torn
        /\ vault' = vault /\ slot' = slot /\ posted' = posted /\ count' = count
    BY <1>4 DEF CreateNZB, Inv, TypeOK
  <2>2. ResultInv(j)'
    BY <2>1 DEF Inv, JobInv, PostInv, VaultInv, ResultInv
  <2>3. PostInv(j)'
    BY <2>1 DEF Inv, JobInv, PostInv, Final
  <2>4. ContentInv(j)' /\ StageInv(j)' /\ CopyInv(j)' /\ WholeInv(j)' /\ VaultInv(j)'
    BY <2>1 DEF Inv, JobInv, ContentInv, StageInv, CopyInv, WholeInv, VaultInv, Early, Staged
  <2>5. KeptInv(j)' /\ SlotInv(j)'
    BY <2>1 DEF Inv, JobInv, KeptInv, SlotInv, Long, Critical
  <2> QED
    BY <2>2, <2>3, <2>4, <2>5 DEF JobInv
<1>5. CASE ReleaseSlot(j) \/ Clean(j)
  <2>1. /\ pc[j] \in {"release", "clean"} /\ pc'[j] \in {"clean", "done"}
        /\ result' = result /\ content' = content /\ torn' = torn /\ posted' = posted
        /\ vault' = vault /\ stage'[j] \subseteq stage[j]
        /\ entries' = entries /\ slot' # j
    BY <1>5, PipelineAssumption DEF ReleaseSlot, Clean, Inv, TypeOK, JobInv, SlotInv, Critical
  <2>2. ContentInv(j)' /\ StageInv(j)' /\ CopyInv(j)' /\ WholeInv(j)' /\ VaultInv(j)'
    BY <2>1 DEF Inv, JobInv, ContentInv, StageInv, CopyInv, WholeInv, VaultInv, Early, Staged
  <2>3. PostInv(j)' /\ ResultInv(j)' /\ KeptInv(j)' /\ SlotInv(j)'
    BY <2>1 DEF Inv, JobInv, PostInv, ResultInv, KeptInv, SlotInv, Final, Long, Critical
  <2> QED
    BY <2>2, <2>3 DEF JobInv
<1>6. CASE ManifestMismatch(j) \/ NothingToUpload(j) \/ PostFails(j) \/ NZBFails(j)
  BY <1>6, FailKeeps DEF ManifestMismatch, NothingToUpload, PostFails, NZBFails
<1> QED
  BY <1>1, <1>2, <1>3, <1>4, <1>5, <1>6 DEF Upload

LEMMA OutsideKeeps ==
  ASSUME Inv, NEW j \in Jobs, Cancel(j) \/ Sweep(j)
  PROVE  JobInv(j)'
<1> USE DEF dirs, walks, seals, outcome
<1>1. /\ pc' = pc /\ content' = content /\ entries' = entries /\ kept' = kept
      /\ todo' = todo /\ count' = count /\ vault' = vault /\ slot' = slot
      /\ posted' = posted /\ result' = result
      /\ stage'[j] \subseteq stage[j]
      /\ torn \subseteq torn'
  BY DEF Cancel, Sweep, Doom, SweepFile, SweepEnds, Inv, TypeOK
<1>2. WholeInv(j)'
  <2>1. stage'[j] = stage[j] \/ pc[j] \in {"protect", "copy"} \/ j \in torn'
    BY DEF Cancel, Sweep, Doom, SweepFile, SweepEnds
  <2> QED
    BY <1>1, <2>1 DEF Inv, JobInv, WholeInv, Staged
<1>3. ContentInv(j)' /\ StageInv(j)' /\ CopyInv(j)' /\ KeptInv(j)'
  BY <1>1 DEF Inv, JobInv, ContentInv, StageInv, CopyInv, KeptInv
<1>4. VaultInv(j)' /\ PostInv(j)' /\ ResultInv(j)' /\ SlotInv(j)'
  BY <1>1 DEF Inv, JobInv, VaultInv, PostInv, ResultInv, SlotInv
<1> QED
  BY <1>2, <1>3, <1>4 DEF JobInv

LEMMA NextInv ==
  ASSUME Inv, [Next]_vars
  PROVE  Inv'
<1>1. TypeOK'
  BY NextType
<1>2. ASSUME NEW j \in Jobs PROVE JobInv(j)'
  <2>1. JobInv(j)
    BY DEF Inv
  <2>2. CASE UNCHANGED vars
    <3>1. Same(j)
      BY <2>2 DEF vars, Same
    <3> QED
      BY <2>1, <3>1, SameKeeps
  <2>3. ASSUME NEW i \in Jobs, i # j, Step(i) \/ Cancel(i) \/ Sweep(i)
        PROVE  JobInv(j)'
    <3>1. Same(j)
      BY <2>3, PrepareFrame, ProduceFrame, UploadFrame, OutsideFrame DEF Step
    <3> QED
      BY <2>1, <3>1, SameKeeps
  <2>4. ASSUME Step(j) \/ Cancel(j) \/ Sweep(j)
        PROVE  JobInv(j)'
    BY <2>4, PrepareKeeps, ProduceKeeps, UploadKeeps, OutsideKeeps DEF Step
  <2> QED
    BY <2>2, <2>3, <2>4 DEF Next
<1> QED
  BY <1>1, <1>2 DEF Inv

LEMMA Invariance == Spec => []Inv
BY InitInv, NextInv, PTL DEF Spec

(* No preview and no subtitle of the site is ever in a staging directory.  *)
LEMMA ShippedIsContent == Shippable \ Sidecars = Shippable /\ Sealed \notin Shippable
<1>1. Shippable \cap Sidecars = {}
  BY PipelineAssumption DEF Shippable, StagedOf
<1>2. Sealed \notin Shippable
  BY PipelineAssumption DEF Shippable, StagedOf, Files
<1> QED
  BY <1>1, <1>2

-----------------------------------------------------------------------------
(* The theorems.                                                           *)

(* Every variable keeps to its values, whatever the release.               *)
THEOREM PipelineTypes == Spec => []TypeOK
<1>1. Inv => TypeOK
  BY DEF Inv
<1> QED
  BY <1>1, Invariance, PTL

(* Whatever fails, whatever the sweep takes and whichever archives unpack, *)
(* a job that reports success has posted the whole release.                *)
THEOREM ReleasesWhole == Spec => []WholeRelease
<1>1. Inv => WholeRelease
  BY DEF Inv, JobInv, ResultInv, WholeRelease
<1> QED
  BY <1>1, Invariance, PTL

(* Only the content, what its archives held and what was generated is ever *)
(* posted, and only the archive if the release is to be sealed.            *)
THEOREM ContentOnly == Spec => []OnlyContent
<1>1. Inv => OnlyContent
  <2> SUFFICES ASSUME Inv, NEW j \in Jobs
               PROVE  posted[j] \subseteq IF j \in Encrypting THEN {Sealed} ELSE Shippable \ Sidecars
    BY DEF OnlyContent
  <2> QED
    BY ShippedIsContent DEF Inv, JobInv, PostInv
<1> QED
  BY <1>1, Invariance, PTL

(* Only Doom adds a directory to those a sweep removes.                    *)
LEMMA OnlyDoomDooms ==
  ASSUME NEW j \in Jobs, [Next]_vars, j \in doomed'
  PROVE  j \in doomed \/ Doom(j)
<1> USE DEF dirs, walks, seals, outcome
<1>1. CASE UNCHANGED vars
  BY <1>1 DEF vars
<1>2. ASSUME NEW i \in Jobs, Step(i) PROVE doomed' \subseteq doomed
  <2>1. CASE Prepare(i)
    BY <2>1 DEF Prepare, Describe, MakeStage, NoStage, Protect, CopyFile, CopyFails,
                AuditStage, ParityMismatch
  <2>2. CASE Upload(i)
    BY <2>2 DEF Upload, CompareManifest, ManifestMismatch, ListFiles, NothingToUpload,
                PostFile, PostFails, CreateNZB, NZBFails
  <2>3. CASE ~Prepare(i) /\ ~Upload(i)
    BY <1>2, <2>3 DEF Step, Extract, ExtractEnds, GeneratePAR2, EncryptWith7z, EncryptFails,
                      Acquire, ReleaseSlot, Clean
  <2> QED
    BY <2>1, <2>2, <2>3
<1>3. ASSUME NEW i \in Jobs, Cancel(i) \/ Sweep(i) PROVE j \in doomed \/ Doom(j)
  BY <1>3 DEF Cancel, Sweep, Doom, SweepFile, SweepEnds
<1> QED
  BY <1>1, <1>2, <1>3 DEF Next

(* The entry of the job table names the directory of a task or an offer    *)
(* from its first copy to its last article, so no sweep takes it up.       *)
THEOREM JobsStageSpared == Spec => StageSpared
<1>1. Inv /\ [Next]_vars => \A j \in Jobs : pc[j] \in Long /\ j \in doomed' => j \in doomed
  <2> SUFFICES ASSUME Inv, [Next]_vars, NEW j \in Jobs, pc[j] \in Long, j \in doomed'
               PROVE  j \in doomed
    OBVIOUS
  <2>1. j \in kept
    BY DEF Inv, JobInv, KeptInv
  <2> QED
    BY <2>1, OnlyDoomDooms DEF Doom
<1> QED
  BY <1>1, Invariance, PTL DEF Spec, StageSpared

(* The slot is held exactly by the job in the critical section, so no two  *)
(* jobs post at a time and no error return leaves it locked.               *)
THEOREM SlotHeld == Spec => []SlotDiscipline
<1>1. Inv => SlotDiscipline
  BY DEF Inv, JobInv, SlotInv, SlotDiscipline
<1> QED
  BY <1>1, Invariance, PTL

-----------------------------------------------------------------------------
(* PublishPipeline implements Publication.                                 *)

(* A step of a job that posts nothing and settles nothing shows nothing.   *)
Quiet(j) ==
  /\ posted' = posted /\ result' = result /\ slot' = slot
  /\ \A i \in Jobs \ {j} : vault'[i] = vault[i] /\ pc'[i] = pc[i]
  /\ vault'[j] = vault[j] \/ posted[j] = {}
  /\ pc'[j] \in Critical <=> pc[j] \in Critical

LEMMA QuietShowsNothing ==
  ASSUME NEW j \in Jobs, Quiet(j)
  PROVE  ReadBack' = ReadBack /\ InTheClear' = InTheClear /\ Phase' = Phase /\ slot' = slot
<1>1. InTheClear' = InTheClear
  BY DEF Quiet, InTheClear
<1>2. \A i \in Jobs : Phase'[i] = Phase[i]
  BY DEF Quiet, Phase
<1>3. \A i \in Jobs : ReadBack'[i] = ReadBack[i]
  <2>1. \A i \in Jobs : Sealed \in posted[i] => vault'[i] = vault[i]
    BY DEF Quiet
  <2> QED
    BY <1>1, <2>1 DEF Quiet, ReadBack
<1> QED
  BY <1>1, <1>2, <1>3 DEF Quiet, ReadBack, Phase

LEMMA QuietPrepare ==
  ASSUME Inv, NEW j \in Jobs,
         \/ Describe(j) \/ MakeStage(j) \/ Protect(j) \/ CopyFile(j) \/ AuditStage(j)
         \/ Extract(j) \/ ExtractEnds(j) \/ GeneratePAR2(j) \/ EncryptWith7z(j)
  PROVE  Quiet(j) /\ torn' = torn
<1> USE DEF dirs, walks, seals, outcome, Goto, Quiet, Critical
<1>1. CASE Describe(j) \/ MakeStage(j) \/ Protect(j)
  BY <1>1 DEF Describe, MakeStage, Protect, Inv, TypeOK
<1>2. CASE CopyFile(j) \/ AuditStage(j)
  BY <1>2 DEF CopyFile, AuditStage, Inv, TypeOK
<1>3. CASE Extract(j) \/ ExtractEnds(j)
  BY <1>3 DEF Extract, ExtractEnds, Inv, TypeOK
<1>4. CASE GeneratePAR2(j)
  BY <1>4 DEF GeneratePAR2, Inv, TypeOK
<1>5. CASE EncryptWith7z(j)
  <2>1. posted[j] = {}
    BY <1>5 DEF EncryptWith7z, Inv, JobInv, PostInv, Final
  <2> QED
    BY <1>5, <2>1 DEF EncryptWith7z, Inv, TypeOK
<1> QED
  BY <1>1, <1>2, <1>3, <1>4, <1>5

LEMMA QuietUpload ==
  ASSUME Inv, NEW j \in Jobs,
         \/ CompareManifest(j) \/ ListFiles(j) \/ Clean(j)
         \/ Cancel(j) \/ Doom(j) \/ SweepFile(j) \/ SweepEnds(j)
  PROVE  Quiet(j) /\ (torn' = torn \/ torn' = torn \cup {j})
<1> USE DEF dirs, walks, seals, outcome, Goto, Quiet, Critical
<1>1. CASE CompareManifest(j) \/ ListFiles(j) \/ Clean(j)
  BY <1>1 DEF CompareManifest, ListFiles, Clean, Inv, TypeOK
<1>2. CASE Cancel(j) \/ Doom(j) \/ SweepFile(j) \/ SweepEnds(j)
  BY <1>2 DEF Cancel, Doom, SweepFile, SweepEnds, Inv, TypeOK
<1> QED
  BY <1>1, <1>2

(* The phase of the job that moves, and of the others.                     *)
LEMMA PhaseMoves ==
  ASSUME NEW j \in Jobs, NEW p,
         \A i \in Jobs \ {j} : pc'[i] = pc[i] /\ result'[i] = result[i],
         Phase'[j] = p
  PROVE  Phase' = [Phase EXCEPT ![j] = p]
BY DEF Phase

LEMMA FailGivesUp ==
  ASSUME Inv, NEW j \in Jobs, Fail(j), pc[j] \notin Final,
         UNCHANGED <<content, dirs, seals, posted, cancelled>>
  PROVE  Pub!GiveUp(j)
<1> USE DEF dirs, seals
<1>1. /\ result'[j] = "failed" /\ slot' = slot /\ posted' = posted /\ vault' = vault
      /\ torn' = torn
      /\ \A i \in Jobs \ {j} : pc'[i] = pc[i] /\ result'[i] = result[i]
  BY DEF Fail, Goto, Inv, TypeOK
<1>2. result[j] = "none"
  BY DEF Inv, JobInv, PostInv
<1>3. Phase[j] \in {"preparing", "posting"}
  BY <1>2 DEF Phase
<1>4. Phase' = [Phase EXCEPT ![j] = "failed"]
  <2>1. Phase'[j] = "failed"
    BY <1>1 DEF Phase
  <2> QED
    BY <1>1, <2>1, PhaseMoves
<1>5. UNCHANGED <<slot, ReadBack, InTheClear, torn>>
  BY <1>1 DEF ReadBack, InTheClear
<1> QED
  BY <1>3, <1>4, <1>5 DEF Pub!GiveUp

LEMMA FailuresGiveUp ==
  ASSUME Inv, NEW j \in Jobs,
         \/ NoStage(j) \/ CopyFails(j) \/ ParityMismatch(j) \/ EncryptFails(j)
         \/ ManifestMismatch(j) \/ NothingToUpload(j) \/ PostFails(j) \/ NZBFails(j)
  PROVE  Pub!GiveUp(j)
<1>1. Fail(j) /\ UNCHANGED <<content, dirs, seals, posted, cancelled>>
  BY DEF NoStage, CopyFails, ParityMismatch, EncryptFails, ManifestMismatch,
         NothingToUpload, PostFails, NZBFails
<1>2. pc[j] \notin Final
  BY DEF NoStage, CopyFails, ParityMismatch, EncryptFails, ManifestMismatch,
         NothingToUpload, PostFails, NZBFails, Final
<1> QED
  BY <1>1, <1>2, FailGivesUp

LEMMA AcquireBegins ==
  ASSUME Inv, NEW j \in Jobs, Acquire(j)
  PROVE  Pub!Begin(j)
<1> USE DEF dirs, walks, seals, outcome, Goto
<1>1. /\ slot = NoJob /\ slot' = j /\ pc[j] = "slot" /\ pc'[j] = "audit"
      /\ result' = result /\ posted' = posted /\ vault' = vault /\ torn' = torn
      /\ \A i \in Jobs \ {j} : pc'[i] = pc[i] /\ result'[i] = result[i]
  BY DEF Acquire, Inv, TypeOK
<1>2. result[j] = "none"
  BY <1>1 DEF Inv, JobInv, PostInv, Final
<1>3. Phase[j] = "preparing" /\ Phase'[j] = "posting"
  BY <1>1, <1>2 DEF Phase, Critical
<1>4. Phase' = [Phase EXCEPT ![j] = "posting"]
  BY <1>1, <1>3, PhaseMoves
<1>5. UNCHANGED <<ReadBack, InTheClear, torn>>
  BY <1>1 DEF ReadBack, InTheClear
<1> QED
  BY <1>1, <1>3, <1>4, <1>5 DEF Pub!Begin

LEMMA PostFilePosts ==
  ASSUME Inv, NEW j \in Jobs, PostFile(j)
  PROVE  Pub!Post(j)
<1> DEFINE f == Visited(todo[j])
<1> USE DEF dirs, walks, seals, outcome
<1>1. /\ pc[j] = "post" /\ pc' = pc /\ result' = result /\ slot' = slot /\ vault' = vault
      /\ torn' = torn /\ posted' = [posted EXCEPT ![j] = @ \cup {f}] /\ f \in todo[j]
  BY VisitedIn DEF PostFile
<1>2. slot = j /\ result[j] = "none"
  BY <1>1 DEF Inv, JobInv, SlotInv, PostInv, Critical, Final
<1>3. Phase[j] = "posting" /\ UNCHANGED <<slot, Phase, torn>>
  BY <1>1, <1>2 DEF Phase, Critical
<1> HIDE DEF f
<1>4. \A i \in Jobs \ {j} : posted'[i] = posted[i]
  BY <1>1 DEF Inv, TypeOK
<1>5. posted'[j] = posted[j] \cup {f}
  BY <1>1 DEF Inv, TypeOK
<1>6. CASE j \in Encrypting
  <2>1. f = Sealed /\ posted'[j] = {Sealed} /\ posted[j] \subseteq {Sealed}
    BY <1>1, <1>5, <1>6 DEF Inv, JobInv, PostInv
  <2>2. InTheClear' = InTheClear
    BY <1>4, <2>1 DEF InTheClear
  <2>3. vault[j] \in SUBSET (Shippable \ Sidecars)
    BY ShippedIsContent DEF Inv, JobInv, VaultInv
  <2>4. ReadBack'[j] = ReadBack[j] \cup vault[j]
    BY <1>1, <2>1 DEF ReadBack, InTheClear
  <2>5. ReadBack' = [ReadBack EXCEPT ![j] = @ \cup vault[j]]
    BY <1>1, <1>4, <2>4 DEF ReadBack, InTheClear
  <2>6. Pub!Post(j)
    BY <1>2, <1>3, <1>6, <2>2, <2>3, <2>5 DEF Pub!Post
  <2> QED
    BY <2>6
<1>7. CASE j \notin Encrypting
  <2>1. f \in Shippable /\ posted[j] \subseteq Shippable /\ f # Sealed
    BY <1>1, <1>7, ShippedIsContent DEF Inv, JobInv, PostInv
  <2>2. InTheClear' = [InTheClear EXCEPT ![j] = @ \cup {f}]
    BY <1>4, <1>5, <2>1 DEF InTheClear
  <2>3. Sealed \notin posted[j] /\ Sealed \notin posted'[j]
    BY <1>5, <2>1, ShippedIsContent
  <2>4. ReadBack'[j] = ReadBack[j] \cup {f}
    BY <1>5, <2>1, <2>3 DEF ReadBack, InTheClear
  <2>5. ReadBack' = [ReadBack EXCEPT ![j] = @ \cup {f}]
    BY <1>1, <1>4, <2>4 DEF ReadBack, InTheClear
  <2>6. {f} \in SUBSET (Shippable \ Sidecars)
    BY <2>1, ShippedIsContent
  <2> QED
    BY <1>2, <1>3, <1>7, <2>2, <2>5, <2>6 DEF Pub!Post
<1> QED
  BY <1>6, <1>7

LEMMA NZBSucceeds ==
  ASSUME Inv, NEW j \in Jobs, CreateNZB(j)
  PROVE  Pub!Succeed(j)
<1> USE DEF dirs, walks, seals, outcome, Goto
<1>1. /\ pc[j] = "post" /\ todo[j] = {} /\ result'[j] = "published"
      /\ posted' = posted /\ vault' = vault /\ torn' = torn /\ slot' = slot
      /\ \A i \in Jobs \ {j} : pc'[i] = pc[i] /\ result'[i] = result[i]
  BY DEF CreateNZB, Inv, TypeOK
<1>2. slot = j /\ result[j] = "none"
  BY <1>1 DEF Inv, JobInv, SlotInv, PostInv, Critical, Final
<1>3. Phase[j] = "posting" /\ Phase'[j] = "published"
  BY <1>1, <1>2 DEF Phase, Critical
<1>4. Phase' = [Phase EXCEPT ![j] = "published"]
  BY <1>1, <1>3, PhaseMoves
<1>5. Whole(ReadBack[j]) \/ j \in torn
  <2> SUFFICES ASSUME j \notin torn PROVE Whole(ReadBack[j])
    OBVIOUS
  <2>1. CASE j \in Encrypting
    <3>1. posted[j] = {Sealed} /\ Whole(vault[j])
      BY <1>1, <2>1 DEF Inv, JobInv, PostInv, VaultInv
    <3>2. vault[j] \subseteq ReadBack[j]
      BY <3>1 DEF ReadBack
    <3> QED
      BY <3>1, <3>2, MoreIsWhole
  <2>2. CASE j \notin Encrypting
    <3>1. posted[j] \subseteq Shippable /\ Whole(posted[j])
      BY <1>1, <2>2 DEF Inv, JobInv, PostInv
    <3>2. posted[j] \subseteq ReadBack[j]
      BY <3>1, ShippedIsContent DEF ReadBack, InTheClear
    <3> QED
      BY <3>1, <3>2, MoreIsWhole
  <2> QED
    BY <2>1, <2>2
<1>6. UNCHANGED <<slot, ReadBack, InTheClear, torn>>
  BY <1>1 DEF ReadBack, InTheClear
<1> QED
  BY <1>2, <1>3, <1>4, <1>5, <1>6 DEF Pub!Succeed

LEMMA ReleaseLeaves ==
  ASSUME Inv, NEW j \in Jobs, ReleaseSlot(j)
  PROVE  Pub!Leave(j)
<1> USE DEF dirs, walks, seals, outcome, Goto
<1>1. /\ pc[j] = "release" /\ pc'[j] = "clean" /\ slot' = NoJob /\ result' = result
      /\ posted' = posted /\ vault' = vault /\ torn' = torn
      /\ \A i \in Jobs \ {j} : pc'[i] = pc[i] /\ result'[i] = result[i]
  BY DEF ReleaseSlot, Inv, TypeOK
<1>2. slot = j /\ result[j] \in {"failed", "published"}
  BY <1>1 DEF Inv, TypeOK, JobInv, SlotInv, PostInv, Critical, Final
<1>3. Phase[j] \in {"failed", "published"} /\ Phase'[j] = Phase[j]
  BY <1>1, <1>2 DEF Phase
<1>4. Phase' = Phase
  <2>1. Phase' = [Phase EXCEPT ![j] = Phase[j]]
    BY <1>1, <1>3, PhaseMoves
  <2> QED
    BY <2>1 DEF Phase
<1>5. UNCHANGED <<ReadBack, InTheClear, torn>>
  BY <1>1 DEF ReadBack, InTheClear
<1> QED
  BY <1>1, <1>2, <1>3, <1>4, <1>5 DEF Pub!Leave

LEMMA StepImplements ==
  ASSUME Inv, [Next]_vars
  PROVE  [Pub!PubNext]_Pub!pubVars
<1> USE DEF Pub!pubVars
<1>1. CASE UNCHANGED vars
  BY <1>1 DEF vars, ReadBack, InTheClear, Phase
<1>2. ASSUME NEW j \in Jobs, Quiet(j), torn' = torn \/ torn' = torn \cup {j}
      PROVE  [Pub!PubNext]_Pub!pubVars
  BY <1>2, QuietShowsNothing DEF Pub!PubNext, Pub!Spoil
<1>3. ASSUME NEW j \in Jobs, Prepare(j) PROVE [Pub!PubNext]_Pub!pubVars
  BY <1>2, <1>3, QuietPrepare, FailuresGiveUp DEF Prepare, Pub!PubNext
<1>4. ASSUME NEW j \in Jobs, Upload(j) PROVE [Pub!PubNext]_Pub!pubVars
  BY <1>2, <1>4, QuietUpload, FailuresGiveUp, PostFilePosts, NZBSucceeds DEF Upload, Pub!PubNext
<1>5. ASSUME NEW j \in Jobs, Step(j), ~Prepare(j), ~Upload(j)
      PROVE  [Pub!PubNext]_Pub!pubVars
  BY <1>2, <1>5, QuietPrepare, QuietUpload, FailuresGiveUp, AcquireBegins, ReleaseLeaves
  DEF Step, Pub!PubNext
<1>6. ASSUME NEW j \in Jobs, Cancel(j) \/ Sweep(j) PROVE [Pub!PubNext]_Pub!pubVars
  BY <1>2, <1>6, QuietUpload DEF Sweep
<1> QED
  BY <1>1, <1>3, <1>4, <1>5, <1>6 DEF Next

(* Whatever the release, the configuration and the number of calls, each   *)
(* step of the pipeline, with its failures, cancellations and sweeps, is a *)
(* step of the promise or shows nothing of itself.                         *)
THEOREM PipelineImplements == Spec => ImplementsPublication
<1>1. Init => Pub!PubInit
  BY DEF Init, Pub!PubInit, ReadBack, InTheClear, Phase, Critical
<1> QED
  BY <1>1, StepImplements, Invariance, PTL DEF Spec, ImplementsPublication, Pub!PubSpec

-----------------------------------------------------------------------------
(* When the content is left alone.                                         *)

(* No zip or tar holds a file with the name of one of the release, or no   *)
(* directory is linked: every copy is on another device or renamed.        *)
NoWriteThrough ==
  \/ SameDevice \subseteq Obfuscating
  \/ \A a \in Archives : Kind[a] \cap {"zip", "tar"} # {} => Inside[a] \cap Release = {}

LEMMA ExtractSpares ==
  ASSUME Inv, NoWriteThrough, NEW j \in Jobs, Extract(j)
  PROVE  changed' = changed
<1>1. PICK a \in todo[j] \cap stage[j] :
        \/ ExtractRARArchives(j, a) \/ ExtractZIPArchives(j, a) \/ Extract7zArchives(j, a)
        \/ ExtractISOArchives(j, a) \/ ExtractTarArchives(j, a) \/ ExtractMiscArchives(j, a)
  BY DEF Extract
<1>2. a \in Archives
  BY <1>1 DEF Extract, Inv, JobInv, StageInv
<1>3. changed \in [Jobs -> SUBSET Files]
  BY DEF Inv, TypeOK
<1>4. ASSUME NEW orphans, Unpack(j, a, orphans, FALSE) PROVE changed' = changed
  BY <1>3, <1>4 DEF Unpack, Write
<1>5. ASSUME NEW orphans, Unpack(j, a, orphans, TRUE), Kind[a] \cap {"zip", "tar"} # {}
      PROVE  changed' = changed
  <2>1. PICK out \in SUBSET Inside[a] : changed' = [changed EXCEPT ![j] = @ \cup (out \cap Linked(j))]
    BY <1>5 DEF Unpack, Write
  <2>2. out \cap Linked(j) = {}
    <3>1. CASE SameDevice \subseteq Obfuscating
      BY <3>1 DEF Linked
    <3>2. CASE Inside[a] \cap Release = {}
      <4>1. Linked(j) \subseteq Release \cup Sidecars
        BY DEF Linked, Inv, JobInv, ContentInv
      <4>2. Inside[a] \cap Sidecars = {}
        BY <1>2, PipelineAssumption
      <4> QED
        BY <3>2, <4>1, <4>2
    <3> QED
      BY <1>2, <1>5, <3>1, <3>2 DEF NoWriteThrough
  <2> QED
    BY <1>3, <2>1, <2>2
<1> QED
  BY <1>1, <1>4, <1>5 DEF ExtractRARArchives, ExtractZIPArchives, Extract7zArchives,
     ExtractISOArchives, ExtractTarArchives, ExtractMiscArchives

(* Nothing but a step that unpacks writes to a file of the content.        *)
LEMMA OnlyExtractWrites ==
  ASSUME NEW j \in Jobs, Step(j) \/ Cancel(j) \/ Sweep(j), ~Extract(j)
  PROVE  changed' = changed
<1> USE DEF dirs, walks, seals, outcome
<1>1. CASE Prepare(j)
  BY <1>1 DEF Prepare, Describe, MakeStage, NoStage, Protect, CopyFile, CopyFails,
              AuditStage, ParityMismatch
<1>2. CASE Upload(j)
  BY <1>2 DEF Upload, CompareManifest, ManifestMismatch, ListFiles, NothingToUpload,
              PostFile, PostFails, CreateNZB, NZBFails
<1>3. CASE Cancel(j) \/ Sweep(j)
  BY <1>3 DEF Cancel, Sweep, Doom, SweepFile, SweepEnds
<1>4. CASE ExtractEnds(j) \/ GeneratePAR2(j) \/ EncryptWith7z(j) \/ EncryptFails(j)
           \/ Acquire(j) \/ ReleaseSlot(j) \/ Clean(j)
  BY <1>4 DEF ExtractEnds, GeneratePAR2, EncryptWith7z, EncryptFails, Acquire,
              ReleaseSlot, Clean
<1> QED
  BY <1>1, <1>2, <1>3, <1>4 DEF Step

(* The content is never written to, as the comment on ContentDir has it,   *)
(* when no zip or tar holds a file with a name of the release, or nothing  *)
(* is linked: the one way to the files is the one that run publish_source  *)
(* shows.                                                                  *)
THEOREM SourceSpared == NoWriteThrough => (Spec => []SourceUntouched)
<1> SUFFICES ASSUME NoWriteThrough PROVE Spec => []SourceUntouched
  OBVIOUS
<1>1. Init => SourceUntouched
  BY DEF Init, SourceUntouched
<1>2. Inv /\ [Next]_vars /\ SourceUntouched => SourceUntouched'
  <2> SUFFICES ASSUME Inv, [Next]_vars, SourceUntouched
               PROVE  changed' = changed
    BY DEF SourceUntouched
  <2> QED
    BY ExtractSpares, OnlyExtractWrites DEF Next, vars
<1> QED
  BY <1>1, <1>2, Invariance, PTL DEF Spec

-----------------------------------------------------------------------------
(* Why every job ends.                                                     *)

(* How many places are behind the one a job is at.                         *)
Behind == [idle |-> 14, make |-> 13, protect |-> 12, copy |-> 11, extract |-> 10, par2 |-> 9,
           encrypt |-> 8, slot |-> 7, audit |-> 6, list |-> 5, post |-> 4, nzb |-> 3,
           release |-> 2, clean |-> 1, done |-> 0]

(* It leaves its place for a later one, or stays and its walk has fewer    *)
(* files to come.                                                          *)
MovesOn(j) ==
  \/ Behind[pc'[j]] < Behind[pc[j]]
  \/ pc'[j] = pc[j] /\ todo'[j] \subseteq todo[j] /\ todo'[j] # todo[j]

LEMMA FailMovesOn ==
  ASSUME TypeOK, NEW j \in Jobs, Fail(j), pc[j] \notin {"release", "clean", "done"}
  PROVE  MovesOn(j)
<1>1. pc[j] \in PCs /\ pc'[j] \in {"release", "clean"}
  BY DEF TypeOK, Fail, Goto
<1>2. Behind[pc[j]] >= 3
  BY <1>1 DEF PCs, Behind
<1>3. Behind[pc'[j]] <= 2
  BY <1>1 DEF Behind
<1>4. Behind[pc[j]] \in Nat /\ Behind[pc'[j]] \in Nat
  BY <1>1 DEF PCs, Behind
<1> QED
  BY <1>2, <1>3, <1>4 DEF MovesOn

LEMMA WalkMovesOn ==
  ASSUME TypeOK, NEW j \in Jobs, NEW f, f \in todo[j],
         todo' = [todo EXCEPT ![j] = @ \ {f}], pc' = pc
  PROVE  MovesOn(j)
<1>1. todo'[j] = todo[j] \ {f}
  BY DEF TypeOK
<1> QED
  BY <1>1 DEF MovesOn

LEMMA GotoMovesOn ==
  ASSUME TypeOK, NEW j \in Jobs, NEW l \in PCs, Goto(j, l), Behind[l] < Behind[pc[j]]
  PROVE  MovesOn(j)
<1>1. pc'[j] = l
  BY DEF TypeOK, Goto
<1> QED
  BY <1>1 DEF MovesOn

LEMMA StepMovesOn ==
  ASSUME TypeOK, NEW j \in Jobs, Step(j)
  PROVE  MovesOn(j)
<1>1. CASE \/ NoStage(j) \/ CopyFails(j) \/ ParityMismatch(j) \/ EncryptFails(j)
           \/ ManifestMismatch(j) \/ NothingToUpload(j) \/ PostFails(j) \/ NZBFails(j)
  BY <1>1, FailMovesOn DEF NoStage, CopyFails, ParityMismatch, EncryptFails,
     ManifestMismatch, NothingToUpload, PostFails, NZBFails
<1>2. CASE CopyFile(j)
  <2>1. todo[j] # {} /\ todo' = [todo EXCEPT ![j] = @ \ {Visited(todo[j])}] /\ pc' = pc
    BY <1>2 DEF CopyFile
  <2> QED
    BY <2>1, VisitedIn, WalkMovesOn
<1>3. CASE PostFile(j)
  <2>1. todo[j] # {} /\ todo' = [todo EXCEPT ![j] = @ \ {Visited(todo[j])}] /\ pc' = pc
    BY <1>3 DEF PostFile
  <2> QED
    BY <2>1, VisitedIn, WalkMovesOn
<1>4. CASE Extract(j)
  <2>1. pc' = pc /\ \E a \in todo[j] : todo' = [todo EXCEPT ![j] = @ \ {a}]
    BY <1>4 DEF Extract
  <2> QED
    BY <2>1, WalkMovesOn
<1>5. CASE Describe(j) \/ MakeStage(j) \/ Protect(j) \/ AuditStage(j) \/ ExtractEnds(j)
  BY <1>5, GotoMovesOn DEF Describe, MakeStage, Protect, AuditStage, ExtractEnds, PCs, Behind
<1>6. CASE GeneratePAR2(j) \/ EncryptWith7z(j) \/ Acquire(j) \/ CompareManifest(j) \/ ListFiles(j)
  BY <1>6, GotoMovesOn DEF GeneratePAR2, EncryptWith7z, Acquire, CompareManifest, ListFiles,
     PCs, Behind
<1>7. CASE CreateNZB(j) \/ ReleaseSlot(j) \/ Clean(j)
  BY <1>7, GotoMovesOn DEF CreateNZB, ReleaseSlot, Clean, PCs, Behind
<1> QED
  BY <1>1, <1>2, <1>3, <1>4, <1>5, <1>6, <1>7 DEF Step, Prepare, Upload

(* A job goes forward through the steps of the pipeline with each step of  *)
(* its own, failed ones and those of a walk included, and no cancellation, *)
(* sweep or other job sets it back.                                        *)
THEOREM JobsMoveOn ==
  Spec => [][\A j \in Jobs : MovesOn(j) \/ (~Step(j) /\ pc'[j] = pc[j] /\ todo'[j] = todo[j])]_vars
<1> DEFINE A == \A j \in Jobs : MovesOn(j) \/ (~Step(j) /\ pc'[j] = pc[j] /\ todo'[j] = todo[j])
<1>1. ASSUME Inv, Next, NEW j \in Jobs, ~Step(j)
      PROVE  pc'[j] = pc[j] /\ todo'[j] = todo[j]
  <2>1. CASE \E k \in Jobs : Cancel(k) \/ Sweep(k)
    BY <2>1 DEF Cancel, Sweep, Doom, SweepFile, SweepEnds, walks
  <2>2. ASSUME NEW k \in Jobs, Step(k) PROVE pc'[j] = pc[j] /\ todo'[j] = todo[j]
    <3>1. k # j
      BY <1>1, <2>2
    <3>2. Same(j)
      BY <1>1, <2>2, <3>1, PrepareFrame, ProduceFrame, UploadFrame DEF Step
    <3> QED
      BY <3>2 DEF Same
  <2> QED
    BY <1>1, <2>1, <2>2 DEF Next
<1>2. Inv /\ [Next]_vars => [A]_vars
  BY <1>1, StepMovesOn DEF Inv
<1> QED
  BY <1>2, Invariance, PTL DEF Spec

(* Nothing but the slot holds up a job, whatever its own step may find.    *)
Waits(j) == pc[j] = "slot" /\ slot # NoJob

(* Whoever waits for the slot, somebody else can go on: its holder is past *)
(* the wait, and among any jobs that have not ended one does not wait.     *)
THEOREM SomeJobGoesOn ==
  Spec => []((\E j \in Jobs : pc[j] # "done") => \E j \in Jobs : pc[j] # "done" /\ ~Waits(j))
<1>1. TypeOK /\ SlotDiscipline
        => ((\E j \in Jobs : pc[j] # "done") => \E j \in Jobs : pc[j] # "done" /\ ~Waits(j))
  <2> SUFFICES ASSUME TypeOK, SlotDiscipline, NEW j \in Jobs, pc[j] # "done"
               PROVE  \E k \in Jobs : pc[k] # "done" /\ ~Waits(k)
    OBVIOUS
  <2>1. CASE Waits(j)
    <3>1. slot \in Jobs
      BY <2>1 DEF Waits, TypeOK
    <3>2. pc[slot] \in Critical
      BY <3>1 DEF SlotDiscipline
    <3> QED
      BY <3>1, <3>2 DEF Critical, Waits
  <2> QED
    BY <2>1
<1> QED
  BY <1>1, PipelineTypes, SlotHeld, PTL
=============================================================================
