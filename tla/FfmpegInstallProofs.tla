------------------------ MODULE FfmpegInstallProofs -------------------------
(***************************************************************************)
(* Theorems about FfmpegInstall, for any number of installations and trims *)
(* that overlap, crash and fail.                                           *)
(***************************************************************************)
EXTENDS FfmpegInstall, TLAPS

-----------------------------------------------------------------------------
(* The invariant.                                                          *)

InstallerType ==
  [pc : {"idle", "download", "extract", "copy", "invalidate"},
   todo : SUBSET Bins, bin : Bins, own : BOOLEAN, sole : BOOLEAN]
JobType ==
  [pc : {"idle", "select", "encode", "software", "copy", "failed"},
   place : Places \cup {"none"}, enc : {"none", "hw", "sw"}, copying : BOOLEAN,
   trouble : BOOLEAN]
PageType ==
  [open : BOOLEAN, available : BOOLEAN, installing : BOOLEAN,
   asked : {"pending", "found", "missing", "done"}]

Written(i) == Bins \ installer[i].todo

(* What a call of Install has written is there, and complete if the call   *)
(* was alone all the time.                                                 *)
InstallerInv(i) ==
  /\ installer[i].pc = "invalidate" => installer[i].todo = {}
  /\ (installer[i].pc # "idle" /\ ~removed) => \A b \in Written(i) : file[b] # "absent"
  /\ (installer[i].pc = "copy" /\ ~removed) => file[installer[i].bin] # "absent"
  /\ (installer[i].pc # "idle" /\ installer[i].sole) =>
       /\ \A k \in Installers \ {i} : installer[k].pc = "idle"
       /\ \A b \in Written(i) : file[b] = "whole"
       /\ installer[i].pc = "copy" =>
            file[installer[i].bin] = "partial" /\ writer[installer[i].bin] = i

(* A place that was found is still there. *)
CacheInv ==
  /\ (cache = "installed" /\ ~removed) => Present
  /\ cache = "elsewhere" => elsewhere
  /\ (installed /\ ~removed) => Present /\ cache # "elsewhere"
  /\ (page.available /\ ~removed) => Present \/ elsewhere
  /\ (page.asked = "found" /\ ~removed) => Present \/ elsewhere

(* A trim gets to its last resort, and through it, only with a reason. *)
Excused(w) == w.trouble \/ removed

JobInv(j) ==
  /\ job[j].pc \in {"encode", "software"} => job[j].enc \in {"hw", "sw"}
  /\ job[j].pc \in {"copy", "failed"} => Excused(job[j])
  /\ (job[j].pc # "idle" /\ job[j].copying) => Excused(job[j])

IInv ==
  /\ TypeOK
  /\ \A i \in Installers : InstallerInv(i)
  /\ CacheInv
  /\ \A j \in Jobs : JobInv(j)

-----------------------------------------------------------------------------
(* What findBin answers.                                                   *)
LEMMA Found ==
  ASSUME IInv
  PROVE  /\ Place \in Places \cup {"none"}
         /\ Place = "none" => cache = "none" /\ ~Present /\ ~elsewhere
         /\ (Place = "installed" /\ ~removed) => Present
         /\ Place = "elsewhere" => elsewhere
         /\ (installed /\ ~removed) => Place = "installed"
  BY DEF IInv, TypeOK, CacheInv, Place, Places

(* A page that is not behind finds an FFmpeg. *)
LEMMA AvailableFound ==
  ASSUME IInv, page.available, ~removed
  PROVE  Place # "none"
  BY Found DEF IInv, CacheInv

LEMMA InstallerTypes ==
  ASSUME NEW w \in InstallerType,
         NEW pc \in {"idle", "download", "extract", "copy", "invalidate"},
         NEW todo \in SUBSET Bins, NEW b \in Bins, NEW o, o \in BOOLEAN
  PROVE  /\ [w EXCEPT !.pc = pc] \in InstallerType
         /\ [w EXCEPT !.pc = pc, !.bin = b] \in InstallerType
         /\ [w EXCEPT !.todo = todo, !.pc = pc] \in InstallerType
         /\ [w EXCEPT !.own = o] \in InstallerType
         /\ [w EXCEPT !.sole = o] \in InstallerType
  BY DEF InstallerType

LEMMA JobTypes ==
  ASSUME NEW w \in JobType,
         NEW pc \in {"idle", "select", "encode", "software", "copy", "failed"},
         NEW e \in {"none", "hw", "sw"}, NEW o, o \in BOOLEAN
  PROVE  /\ [w EXCEPT !.pc = pc] \in JobType
         /\ [w EXCEPT !.pc = pc, !.enc = e] \in JobType
         /\ [w EXCEPT !.pc = pc, !.trouble = o] \in JobType
  BY DEF JobType

LEMMA Blank ==
  /\ NotInstalling \in InstallerType /\ NotInstalling.pc = "idle" /\ NotInstalling.todo = {}
  /\ NoJob \in JobType /\ NoJob.pc = "idle"
  /\ Closed \in PageType /\ ~Closed.available /\ Closed.asked = "done"
  <1>1. NotInstalling \in InstallerType
    BY DEF NotInstalling, InstallerType, Bins
  <1>2. NoJob \in JobType
    BY DEF NoJob, JobType
  <1>3. Closed \in PageType
    BY DEF Closed, PageType
  <1>. QED BY <1>1, <1>2, <1>3 DEF NotInstalling, NoJob, Closed

-----------------------------------------------------------------------------
(* Writers.                                                                *)

(* A step that leaves the disk, the trims and what others do alone, or     *)
(* makes a call of Install return.                                         *)
LEMMA InstallersStay ==
  ASSUME IInv, UNCHANGED disk,
         \A i \in Installers :
           \/ installer'[i] = installer[i]
           \/ installer'[i].pc = "idle"
           \/ /\ installer'[i].pc = installer[i].pc /\ installer'[i].todo = installer[i].todo
              /\ installer'[i].bin = installer[i].bin
              /\ installer'[i].sole => installer[i].sole
  PROVE  \A i \in Installers : InstallerInv(i)'
  <1>. SUFFICES ASSUME NEW i \in Installers PROVE InstallerInv(i)'
    OBVIOUS
  <1>1. InstallerInv(i)
    BY DEF IInv
  <1>2. CASE installer'[i].pc = "idle"
    BY <1>2 DEF InstallerInv
  <1>3. CASE installer'[i].pc # "idle"
    <2>1. /\ installer'[i].pc = installer[i].pc /\ installer'[i].todo = installer[i].todo
          /\ installer'[i].bin = installer[i].bin
          /\ installer'[i].sole => installer[i].sole
      BY <1>3
    <2>2. \A k \in Installers : installer[k].pc = "idle" => installer'[k].pc = "idle"
      OBVIOUS
    <2>. QED BY <1>1, <2>1, <2>2 DEF InstallerInv, Written, disk
  <1>. QED BY <1>2, <1>3

LEMMA JobsStay ==
  ASSUME IInv, removed => removed',
         \A j \in Jobs : job'[j] = job[j] \/ job'[j].pc = "idle"
  PROVE  \A j \in Jobs : JobInv(j)'
  BY DEF IInv, JobInv, Excused

(* A step of one trim, and the search it may make. *)
LEMMA JobSteps ==
  ASSUME IInv, NEW j \in Jobs, NEW v \in JobType, job' = [job EXCEPT ![j] = v],
         UNCHANGED <<bundled, hw, elsewhere, disk, page, installer, installed>>,
         cache' \in {cache, Place}, enc' \in {"none", "hw", "sw"}, faults' \in 0..MaxFaults,
         v.pc \in {"encode", "software"} => v.enc \in {"hw", "sw"},
         v.pc \in {"copy", "failed"} => Excused(v),
         (v.pc # "idle" /\ v.copying) => Excused(v)
  PROVE  IInv'
  <1>1. TypeOK /\ job \in [Jobs -> JobType]
    BY DEF IInv, TypeOK, JobType
  <1>2. \A k \in Jobs : JobInv(k)'
    BY <1>1 DEF IInv, JobInv, Excused, disk
  <1>3. \A i \in Installers : InstallerInv(i)'
    BY InstallersStay
  <1>4. cache' \in Places \cup {"none"} /\ CacheInv'
    BY <1>1, Found DEF IInv, CacheInv, Present, disk, TypeOK
  <1>5. job' \in [Jobs -> JobType]
    BY <1>1
  <1>6. TypeOK'
    BY <1>1, <1>4, <1>5 DEF TypeOK, JobType, disk
  <1>. QED BY <1>2, <1>3, <1>4, <1>6 DEF IInv

(* A step of the page, the cache or a call of Install that leaves the disk *)
(* and the trims alone, or ends them.                                      *)
LEMMA MemorySteps ==
  ASSUME IInv, UNCHANGED <<bundled, hw, disk>>, elsewhere' \in BOOLEAN,
         cache' \in Places \cup {"none"}, enc' \in {"none", "hw", "sw"},
         installed' \in BOOLEAN, page' \in PageType, faults' \in 0..MaxFaults,
         installer' \in [Installers -> InstallerType], job' \in [Jobs -> JobType],
         \A i \in Installers :
           \/ installer'[i] = installer[i]
           \/ installer'[i].pc = "idle"
           \/ /\ installer'[i].pc = installer[i].pc /\ installer'[i].todo = installer[i].todo
              /\ installer'[i].bin = installer[i].bin
              /\ installer'[i].sole => installer[i].sole,
         \A j \in Jobs : job'[j] = job[j] \/ job'[j].pc = "idle",
         CacheInv'
  PROVE  IInv'
  <1>1. \A i \in Installers : InstallerInv(i)'
    BY InstallersStay
  <1>2. \A j \in Jobs : JobInv(j)'
    BY JobsStay DEF disk
  <1>3. TypeOK'
    <2>1. \A i \in Installers : installer'[i].pc = "invalidate" => installer'[i].todo = {}
      BY <1>1 DEF InstallerInv
    <2>2. TypeOK
      BY DEF IInv
    <2>. QED BY <2>1, <2>2 DEF TypeOK, InstallerType, JobType, PageType, disk
  <1>. QED BY <1>1, <1>2, <1>3 DEF IInv

(* A step of one call of Install on the disk. *)
LEMMA DiskSteps ==
  ASSUME IInv, NEW i \in Installers, NEW v \in InstallerType,
         installer' = [installer EXCEPT ![i] = v],
         UNCHANGED <<bundled, hw, elsewhere, memory, job>>, page' \in PageType,
         page'.available => page.available, page'.asked = page.asked,
         faults' \in 0..MaxFaults,
         file' \in [Bins -> {"absent", "partial", "whole"}],
         writer' \in [Bins -> Installers \cup {NoOne}], removed' \in BOOLEAN,
         removed => removed',
         ~removed' => \A b \in Bins : file[b] # "absent" => file'[b] # "absent",
         InstallerInv(i)', installer[i].pc # "idle"
  PROVE  IInv'
  <1>1. TypeOK /\ installer \in [Installers -> InstallerType]
    BY DEF IInv, TypeOK, InstallerType
  <1>2. installer'[i] = v /\ \A k \in Installers \ {i} : installer'[k] = installer[k]
    BY <1>1
  <1>3. ASSUME NEW k \in Installers \ {i} PROVE InstallerInv(k)'
    <2>1. InstallerInv(k) /\ installer'[k] = installer[k] /\ installer[k] \in InstallerType
      BY <1>1, <1>2 DEF IInv
    <2>2. installer[k].pc = "idle" \/ ~installer[k].sole
      BY <2>1 DEF InstallerInv
    <2>3. \A b \in Bins : ~removed' /\ file[b] # "absent" => file'[b] # "absent"
      OBVIOUS
    <2>4. ~removed' => ~removed
      OBVIOUS
    <2>. QED BY <2>1, <2>2, <2>3, <2>4 DEF InstallerInv, Written, InstallerType
  <1>4. CacheInv'
    BY <1>1 DEF IInv, CacheInv, Present, memory
  <1>5. \A j \in Jobs : JobInv(j)'
    BY JobsStay DEF memory
  <1>6. TypeOK'
    <2>1. installer' \in [Installers -> InstallerType]
      BY <1>1
    <2>2. \A k \in Installers : installer'[k].pc = "invalidate" => installer'[k].todo = {}
      BY <1>3 DEF InstallerInv
    <2>. QED BY <1>1, <2>1, <2>2 DEF TypeOK, InstallerType, PageType, memory
  <1>. QED BY <1>3, <1>4, <1>5, <1>6 DEF IInv

-----------------------------------------------------------------------------
(* The steps.                                                              *)

LEMMA Types ==
  ASSUME IInv
  PROVE  /\ TypeOK /\ installer \in [Installers -> InstallerType]
         /\ job \in [Jobs -> JobType] /\ page \in PageType
         /\ cache \in Places \cup {"none"} /\ enc \in {"none", "hw", "sw"}
         /\ installed \in BOOLEAN /\ elsewhere \in BOOLEAN /\ faults \in 0..MaxFaults
  BY DEF IInv, TypeOK, InstallerType, JobType, PageType

LEMMA FindKeeps ==
  ASSUME IInv, \/ SystemInstall \/ FindBin \/ Crash
               \/ OpenPage \/ FFmpegIsAvailable \/ SetAvailable
  PROVE  IInv'
  <1>1. CASE SystemInstall
    <2>1. CacheInv'
      BY <1>1 DEF IInv, CacheInv, SystemInstall, Present, disk, memory
    <2>2. UNCHANGED <<bundled, hw, disk, cache, enc, installed, page, faults, installer, job>>
      BY <1>1 DEF SystemInstall, memory
    <2>3. elsewhere' \in BOOLEAN
      BY <1>1 DEF SystemInstall
    <2>. QED BY <2>1, <2>2, <2>3, Types, MemorySteps
  <1>2. CASE FindBin
    <2>1. CacheInv'
      BY <1>2, Found DEF IInv, CacheInv, FindBin, Present, disk
    <2>2. UNCHANGED <<bundled, hw, elsewhere, disk, enc, installed, page, faults, installer, job>>
      BY <1>2 DEF FindBin
    <2>3. cache' \in Places \cup {"none"}
      BY <1>2, Found DEF FindBin
    <2>. QED BY <2>1, <2>2, <2>3, Types, MemorySteps
  <1>3. CASE OpenPage
    <2>1. ~page'.available /\ page'.asked = "pending" /\ page' \in PageType
      BY <1>3 DEF OpenPage, PageType
    <2>2. CacheInv'
      BY <1>3, <2>1 DEF IInv, CacheInv, OpenPage, Present, disk, memory
    <2>3. UNCHANGED <<bundled, hw, elsewhere, disk, cache, enc, installed, faults, job>>
      BY <1>3 DEF OpenPage, memory
    <2>6. ASSUME NEW i \in Installers
          PROVE  /\ installer'[i] \in InstallerType
                 /\ installer'[i].pc = installer[i].pc
                 /\ installer'[i].todo = installer[i].todo
                 /\ installer'[i].bin = installer[i].bin
                 /\ installer'[i].sole => installer[i].sole
      <3>1. installer'[i] = [installer[i] EXCEPT !.own = FALSE] /\ installer[i] \in InstallerType
        BY <1>3, Types DEF OpenPage
      <3>2. FALSE \in BOOLEAN /\ "idle" \in {"idle", "download", "extract", "copy", "invalidate"}
            /\ {} \in SUBSET Bins /\ "ffmpeg" \in Bins
        BY DEF Bins
      <3>3. installer'[i] \in InstallerType
        BY <3>1, <3>2, InstallerTypes, Zenon
      <3>. QED BY <3>1, <3>3 DEF InstallerType
    <2>7. installer' \in [Installers -> InstallerType]
      <3>1. installer' = [i \in Installers |-> installer'[i]]
        BY <1>3, Zenon DEF OpenPage
      <3>. QED BY <2>6, <3>1
    <2>. QED BY <2>1, <2>2, <2>3, <2>6, <2>7, Types, MemorySteps
  <1>4. CASE Crash
    <2>1. /\ cache' = "none" /\ enc' = "none" /\ installed' = FALSE /\ page' = Closed
          /\ UNCHANGED <<bundled, hw, elsewhere, file, removed>>
          /\ installer' = [i \in Installers |-> NotInstalling] /\ job' = [j \in Jobs |-> NoJob]
          /\ writer' = [b \in Bins |-> NoOne]
      BY <1>4 DEF Crash
    <2>2. faults' \in 0..MaxFaults
      BY <1>4, Types, FfmpegAssumption DEF Crash, Fault
    <2>3. CacheInv'
      BY <2>1, Blank DEF CacheInv
    <2>4. /\ installer' \in [Installers -> InstallerType] /\ job' \in [Jobs -> JobType]
          /\ \A i \in Installers : installer'[i].pc = "idle"
          /\ \A j \in Jobs : job'[j].pc = "idle"
      BY <2>1, Blank
    <2>5. page' \in PageType /\ installed' \in BOOLEAN
          /\ writer' \in [Bins -> Installers \cup {NoOne}]
      BY <2>1, Blank
    <2>6. TypeOK'
      BY <2>1, <2>2, <2>4, <2>5, Types DEF TypeOK, InstallerType, JobType, PageType
    <2>7. \A i \in Installers : InstallerInv(i)'
      BY <2>4 DEF InstallerInv
    <2>8. \A j \in Jobs : JobInv(j)'
      BY <2>4 DEF JobInv
    <2>. QED BY <2>3, <2>6, <2>7, <2>8 DEF IInv
  <1>5. CASE FFmpegIsAvailable
    <2>. DEFINE a == IF Place = "none" THEN "missing" ELSE "found"
    <2>1. page' = [page EXCEPT !.asked = a] /\ cache' = Place
          /\ UNCHANGED <<bundled, hw, elsewhere, disk, enc, installed, installer, job, faults>>
      BY <1>5 DEF FFmpegIsAvailable
    <2>2. a \in {"found", "missing"} /\ (a = "found" => Place # "none")
      OBVIOUS
    <2>. HIDE DEF a
    <2>3. page' \in PageType /\ page'.available = page.available /\ page'.asked = a
      BY <2>1, <2>2, Types DEF PageType
    <2>4. cache' \in Places \cup {"none"}
      BY <2>1, Found
    <2>5. CacheInv'
      BY <2>1, <2>2, <2>3, Found DEF IInv, CacheInv, Present, disk, Places
    <2>. QED BY <2>1, <2>3, <2>4, <2>5, Types, MemorySteps
  <1>6. CASE SetAvailable
    <2>. DEFINE b == page.asked = "found"
    <2>1. page' = [page EXCEPT !.available = b, !.asked = "done"]
          /\ UNCHANGED <<bundled, hw, elsewhere, disk, memory, installer, job, faults>>
      BY <1>6 DEF SetAvailable
    <2>2. b \in BOOLEAN /\ (b => page.asked = "found")
      OBVIOUS
    <2>. HIDE DEF b
    <2>3. page' \in PageType /\ page'.asked = "done"
      BY <2>1, <2>2, Types DEF PageType
    <2>4. page'.available => page.asked = "found"
      BY <2>1, <2>2, Types DEF PageType
    <2>5. CacheInv'
      BY <2>1, <2>3, <2>4 DEF IInv, CacheInv, Present, disk, memory
    <2>. QED BY <2>1, <2>3, <2>5, Types, MemorySteps DEF memory
  <1>. QED BY <1>1, <1>2, <1>3, <1>4, <1>5, <1>6

LEMMA StartKeeps ==
  ASSUME IInv, NEW i \in Installers, Start(i)
  PROVE  IInv'
  <1>. DEFINE v == [pc |-> "download", todo |-> Bins, bin |-> "ffmpeg", own |-> TRUE,
                    sole |-> Busy = {}]
  <1>1. installer[i].pc = "idle" /\ page' = [page EXCEPT !.installing = TRUE]
        /\ UNCHANGED <<bundled, hw, elsewhere, disk, memory, job, faults>>
    BY DEF Start, At
  <1>2. installer'[i] = v
    BY DEF Start
  <1>3. v \in InstallerType /\ v.pc = "download" /\ v.todo = Bins
    <2>1. \A b \in BOOLEAN : [pc |-> "download", todo |-> Bins, bin |-> "ffmpeg", own |-> TRUE,
                              sole |-> b] \in InstallerType
      BY DEF InstallerType, Bins
    <2>2. (Busy = {}) \in BOOLEAN
      OBVIOUS
    <2>3. v \in InstallerType
      BY <2>1, <2>2, Zenon
    <2>. QED BY <2>3
  <1>4. v.sole => \A k \in Installers : installer[k].pc = "idle"
    BY DEF Busy, At
  <1>. HIDE DEF v
  <1>5. ASSUME NEW k \in Installers \ {i}
        PROVE  /\ installer'[k] \in InstallerType /\ ~installer'[k].sole
               /\ installer'[k].pc = installer[k].pc
               /\ installer'[k].todo = installer[k].todo
               /\ installer'[k].bin = installer[k].bin
    <2>1. installer'[k] = [installer[k] EXCEPT !.sole = FALSE] /\ installer[k] \in InstallerType
      BY Types DEF Start
    <2>2. FALSE \in BOOLEAN /\ "idle" \in {"idle", "download", "extract", "copy", "invalidate"}
          /\ {} \in SUBSET Bins /\ "ffmpeg" \in Bins
      BY DEF Bins
    <2>3. installer'[k] \in InstallerType
      BY <2>1, <2>2, InstallerTypes, Zenon
    <2>. QED BY <2>1, <2>3 DEF InstallerType
  <1>6. ASSUME NEW k \in Installers PROVE InstallerInv(k)'
    <2>1. CASE k = i
      <3>1. v.sole => \A m \in Installers \ {i} : installer'[m].pc = "idle"
        BY <1>4, <1>5
      <3>. QED BY <1>2, <1>3, <2>1, <3>1 DEF InstallerInv, Written
    <2>2. CASE k # i
      BY <1>1, <1>5, <2>2 DEF IInv, InstallerInv, Written, disk
    <2>. QED BY <2>1, <2>2
  <1>7. installer' \in [Installers -> InstallerType]
    <2>1. installer' = [k \in Installers |-> installer'[k]]
      BY Zenon DEF Start
    <2>. QED BY <1>2, <1>3, <1>5, <2>1
  <1>8. page' \in PageType /\ (page'.available <=> page.available)
        /\ page'.asked = page.asked
    <2>1. page \in PageType /\ \A b : b \in BOOLEAN => [page EXCEPT !.installing = b] \in PageType
      BY Types DEF PageType
    <2>2. page' \in PageType
      BY <1>1, <2>1, TRUE \in BOOLEAN, Zenon
    <2>. QED BY <1>1, <2>1, <2>2 DEF PageType
  <1>9. CacheInv' /\ \A j \in Jobs : JobInv(j)'
    BY <1>1, <1>8 DEF IInv, CacheInv, JobInv, Excused, Present, disk, memory
  <1>10. TypeOK'
    <2>1. \A k \in Installers : installer'[k].pc = "invalidate" => installer'[k].todo = {}
      BY <1>6 DEF InstallerInv
    <2>. QED BY <1>1, <1>7, <1>8, <2>1, Types DEF TypeOK, InstallerType, PageType, disk, memory
  <1>. QED BY <1>6, <1>9, <1>10 DEF IInv

(* What a call of Install shows when it returns. *)
LEMMA PageShown ==
  ASSUME IInv
  PROVE  /\ [page EXCEPT !.installing = FALSE] \in PageType
         /\ [page EXCEPT !.installing = FALSE].available = page.available
         /\ [page EXCEPT !.installing = FALSE].asked = page.asked
         /\ [page EXCEPT !.available = TRUE, !.installing = FALSE] \in PageType
  <1>1. page \in PageType
    BY Types
  <1>2. \A a, b : a \in BOOLEAN /\ b \in BOOLEAN =>
          /\ [page EXCEPT !.installing = b] \in PageType
          /\ [page EXCEPT !.available = a, !.installing = b] \in PageType
    BY <1>1 DEF PageType
  <1>3. /\ [page EXCEPT !.installing = FALSE].available = page.available
        /\ [page EXCEPT !.installing = FALSE].asked = page.asked
    BY <1>1 DEF PageType
  <1>. QED BY <1>2, <1>3, TRUE \in BOOLEAN, FALSE \in BOOLEAN, Zenon

LEMMA InstallKeeps ==
  ASSUME IInv, NEW i \in Installers,
         \/ Download(i) \/ DownloadFails(i) \/ ExtractFails(i)
         \/ \E b \in Bins : OpenBinary(i, b)
         \/ CopyBinary(i) \/ CopyFails(i) \/ Invalidate(i)
  PROVE  IInv'
  <1>. DEFINE w == installer[i]
  <1>1. w \in InstallerType /\ InstallerInv(i)
    BY Types DEF IInv
  <1>2. /\ file \in [Bins -> {"absent", "partial", "whole"}]
        /\ writer \in [Bins -> Installers \cup {NoOne}] /\ removed \in BOOLEAN
    BY Types DEF TypeOK
  <1>3. {} \in SUBSET Bins /\ "ffmpeg" \in Bins /\ TRUE \in BOOLEAN
    BY DEF Bins
  <1>4. CASE Download(i)
    <2>. DEFINE v == [w EXCEPT !.pc = "extract"]
    <2>1. v \in InstallerType
      BY <1>1, <1>3, InstallerTypes
    <2>2. w.pc = "download" /\ installer' = [installer EXCEPT ![i] = v]
          /\ UNCHANGED <<bundled, hw, elsewhere, disk, memory, page, job, faults>>
      BY <1>4 DEF Download, At
    <2>3. v.pc = "extract" /\ v.todo = w.todo /\ (v.sole <=> w.sole)
      BY <1>1 DEF InstallerType
    <2>. HIDE DEF v
    <2>4. installer'[i] = v /\ \A k \in Installers \ {i} : installer'[k] = installer[k]
      BY <2>2, Types
    <2>5. InstallerInv(i)'
      BY <1>1, <2>2, <2>3, <2>4 DEF InstallerInv, Written, disk
    <2>. QED BY <1>2, <2>1, <2>2, <2>5, Types, DiskSteps DEF disk
  <1>5. ASSUME GiveUp(i), UNCHANGED disk, faults' \in 0..MaxFaults PROVE IInv'
    <2>1. /\ installer' = [installer EXCEPT ![i] = NotInstalling]
          /\ UNCHANGED <<bundled, hw, elsewhere, memory, job>>
          /\ page' \in {page, [page EXCEPT !.installing = FALSE]}
      BY <1>5 DEF GiveUp
    <2>2. installer' \in [Installers -> InstallerType]
          /\ installer'[i].pc = "idle" /\ \A k \in Installers \ {i} : installer'[k] = installer[k]
      BY <2>1, Types, Blank
    <2>3. page' \in PageType /\ page'.available = page.available /\ page'.asked = page.asked
      BY <2>1, PageShown, Types
    <2>4. CacheInv'
      BY <1>5, <2>1, <2>3 DEF IInv, CacheInv, Present, disk, memory
    <2>. QED BY <1>5, <2>1, <2>2, <2>3, <2>4, Types, MemorySteps DEF memory
  <1>6. CASE DownloadFails(i) \/ ExtractFails(i)
    <2>1. faults' \in 0..MaxFaults
      BY <1>6, Types, FfmpegAssumption DEF DownloadFails, ExtractFails, Fault
    <2>. QED BY <1>5, <1>6, <2>1 DEF DownloadFails, ExtractFails
  <1>7. ASSUME NEW b \in Bins, OpenBinary(i, b) PROVE IInv'
    <2>. DEFINE v == [w EXCEPT !.pc = "copy", !.bin = b]
    <2>1. v \in InstallerType
      BY <1>1, <1>3, InstallerTypes
    <2>2. /\ w.pc = "extract" /\ b \in w.todo /\ installer' = [installer EXCEPT ![i] = v]
          /\ file' = [file EXCEPT ![b] = "partial"] /\ writer' = [writer EXCEPT ![b] = i]
          /\ UNCHANGED <<bundled, hw, elsewhere, removed, memory, page, job, faults>>
      BY <1>7 DEF OpenBinary, At
    <2>3. v.pc = "copy" /\ v.todo = w.todo /\ v.bin = b /\ (v.sole <=> w.sole)
      BY <1>1 DEF InstallerType
    <2>. HIDE DEF v
    <2>4. installer'[i] = v /\ \A k \in Installers \ {i} : installer'[k] = installer[k]
      BY <2>2, Types
    <2>5. /\ file' \in [Bins -> {"absent", "partial", "whole"}] /\ file'[b] = "partial"
          /\ \A c \in Bins \ {b} : file'[c] = file[c]
          /\ writer' \in [Bins -> Installers \cup {NoOne}] /\ writer'[b] = i
      BY <1>2, <2>2
    <2>6. InstallerInv(i)'
      BY <1>1, <2>2, <2>3, <2>4, <2>5 DEF InstallerInv, Written
    <2>. QED BY <1>2, <2>1, <2>2, <2>5, <2>6, Types, DiskSteps
  <1>8. CASE CopyBinary(i)
    <2>. DEFINE b == w.bin
                todo == w.todo \ {b}
                pc == IF todo = {} THEN "invalidate" ELSE IF bundled THEN "extract" ELSE "download"
                v == [w EXCEPT !.todo = todo, !.pc = pc]
    <2>0. b \in Bins /\ todo \in SUBSET Bins /\ todo \subseteq w.todo
          /\ Bins \ todo = (Bins \ w.todo) \cup {b}
      BY <1>1 DEF InstallerType
    <2>1. v \in InstallerType
      BY <1>1, <1>3, <2>0, InstallerTypes
    <2>2. /\ w.pc = "copy" /\ installer' = [installer EXCEPT ![i] = v]
          /\ file' = IF writer[b] = i /\ file[b] = "partial"
                     THEN [file EXCEPT ![b] = "whole"] ELSE file
          /\ writer' = [c \in Bins |-> IF writer[c] = i THEN NoOne ELSE writer[c]]
          /\ UNCHANGED <<bundled, hw, elsewhere, removed, memory, page, job, faults>>
      BY <1>8 DEF CopyBinary, Completed, CloseFile, At
    <2>3. v.pc = pc /\ v.todo = todo /\ (v.sole <=> w.sole)
      BY <1>1 DEF InstallerType
    <2>4. pc \in {"invalidate", "extract", "download"} /\ (pc = "invalidate" => todo = {})
      OBVIOUS
    <2>. HIDE DEF v, pc, todo, b
    <2>5. installer'[i] = v /\ \A k \in Installers \ {i} : installer'[k] = installer[k]
      BY <2>2, Types
    <2>6. /\ file' \in [Bins -> {"absent", "partial", "whole"}]
          /\ writer' \in [Bins -> Installers \cup {NoOne}]
          /\ \A c \in Bins \ {b} : file'[c] = file[c]
          /\ file[b] # "absent" => file'[b] # "absent"
          /\ (writer[b] = i /\ file[b] = "partial") => file'[b] = "whole"
      BY <1>2, <2>0, <2>2
    <2>7. InstallerInv(i)'
      <3>1. ~removed => \A c \in Bins \ todo : file'[c] # "absent"
        BY <1>1, <2>0, <2>2, <2>6 DEF InstallerInv, Written, b
      <3>2. w.sole => \A c \in Bins \ todo : file'[c] = "whole"
        BY <1>1, <2>0, <2>2, <2>6 DEF InstallerInv, Written, b
      <3>3. w.sole => \A k \in Installers \ {i} : installer'[k].pc = "idle"
        BY <1>1, <2>2, <2>5 DEF InstallerInv
      <3>. QED BY <2>2, <2>3, <2>4, <2>5, <3>1, <3>2, <3>3 DEF InstallerInv, Written
    <2>8. \A c \in Bins : file[c] # "absent" => file'[c] # "absent"
      BY <2>6
    <2>. QED BY <1>2, <2>1, <2>2, <2>6, <2>7, <2>8, Types, DiskSteps
  <1>9. CASE CopyFails(i)
    <2>1. /\ installer' = [installer EXCEPT ![i] = NotInstalling] /\ w.pc = "copy"
          /\ UNCHANGED <<bundled, hw, elsewhere, memory, job>>
          /\ page' \in {page, [page EXCEPT !.installing = FALSE]}
          /\ writer' = [b \in Bins |-> IF writer[b] = i THEN NoOne ELSE writer[b]]
          /\ \/ file' = [file EXCEPT ![w.bin] = "absent"] /\ removed' = TRUE
             \/ file' \in {file, [file EXCEPT ![w.bin] = "whole"]} /\ removed' = removed
      BY <1>9 DEF CopyFails, CloseFile, Completed, GiveUp, At
    <2>2. faults' \in 0..MaxFaults
      BY <1>9, Types, FfmpegAssumption DEF CopyFails, Fault
    <2>3. installer'[i] = NotInstalling
      BY <2>1, Types
    <2>4. InstallerInv(i)'
      BY <2>3, Blank DEF InstallerInv
    <2>5. page' \in PageType /\ page'.available = page.available /\ page'.asked = page.asked
      BY <2>1, PageShown, Types
    <2>6. /\ file' \in [Bins -> {"absent", "partial", "whole"}] /\ removed' \in BOOLEAN
          /\ writer' \in [Bins -> Installers \cup {NoOne}] /\ (removed => removed')
          /\ (~removed' => \A b \in Bins : file[b] # "absent" => file'[b] # "absent")
      <3>1. /\ file \in [Bins -> {"absent", "partial", "whole"}] /\ removed \in BOOLEAN
            /\ writer \in [Bins -> Installers \cup {NoOne}]
        BY <1>2
      <3>2. writer' \in [Bins -> Installers \cup {NoOne}]
        BY <2>1, <3>1
      <3>0. w.bin \in Bins
        BY <1>1 DEF InstallerType
      <3>3. CASE file' = [file EXCEPT ![w.bin] = "absent"] /\ removed' = TRUE
        BY <3>1, <3>2, <3>3
      <3>4. CASE file' = file /\ removed' = removed
        BY <3>1, <3>2, <3>4
      <3>5. CASE file' = [file EXCEPT ![w.bin] = "whole"] /\ removed' = removed
        BY <3>1, <3>2, <3>5
      <3>. QED BY <2>1, <3>3, <3>4, <3>5
    <2>. QED BY <2>1, <2>2, <2>4, <2>5, <2>6, Blank, DiskSteps
  <1>10. CASE Invalidate(i)
    <2>1. /\ w.pc = "invalidate" /\ installer' = [installer EXCEPT ![i] = NotInstalling]
          /\ cache' = "none" /\ installed' = TRUE
          /\ UNCHANGED <<bundled, hw, elsewhere, disk, enc, job, faults>>
          /\ page' \in {page, [page EXCEPT !.available = TRUE, !.installing = FALSE]}
      BY <1>10 DEF Invalidate, At
    <2>2. installer' \in [Installers -> InstallerType]
          /\ installer'[i].pc = "idle" /\ \A k \in Installers \ {i} : installer'[k] = installer[k]
      BY <2>1, Types, Blank
    <2>3. page' \in PageType
      BY <2>1, PageShown, Types
    <2>4. ~removed => Present
      BY <1>1, <2>1 DEF InstallerInv, Written, Present
    <2>5. CacheInv'
      BY <2>1, <2>4 DEF CacheInv, Present, disk
    <2>. QED BY <1>3, <2>1, <2>2, <2>3, <2>5, Types, MemorySteps
  <1>. QED BY <1>4, <1>6, <1>7, <1>8, <1>9, <1>10

(* A run of ffmpeg that fails leads on with a reason, or to another try. *)
LEMMA RunKeeps ==
  ASSUME IInv, NEW j \in Jobs, NEW works, works \in BOOLEAN,
         NEW otherwise \in {"software", "copy", "failed"}, Run(j, works, otherwise),
         job[j].enc \in {"hw", "sw"}, job[j].pc # "idle",
         ~works => \/ Excused(job[j]) \/ ~Runs(job[j].place)
                   \/ otherwise = "software"
  PROVE  IInv'
  <1>. DEFINE w == job[j]
              after(o) == IF otherwise = "failed" THEN Failed(o)
                          ELSE [w EXCEPT !.pc = otherwise, !.trouble = o]
  <1>1. w \in JobType /\ (w.copying => Excused(w))
    BY Types DEF IInv, JobInv
  <1>2. UNCHANGED <<bundled, hw, elsewhere, disk, page, installer, installed, cache, enc>>
    BY DEF Run, memory
  <1>3. faults' \in 0..MaxFaults
    <2>1. faults' = faults \/ Fault
      BY DEF Run
    <2>2. faults \in 0..MaxFaults
      BY Types
    <2>. QED BY <2>1, <2>2, FfmpegAssumption DEF Fault, FfmpegAssumption
  <1>4. CASE job' = [job EXCEPT ![j] = NoJob]
    BY <1>2, <1>3, <1>4, Blank, Types, JobSteps
  <1>5. ASSUME NEW o, o \in BOOLEAN, w.trouble => o, otherwise # "software" => o \/ removed,
               NEW v, v = after(o), job' = [job EXCEPT ![j] = v]
        PROVE  IInv'
    <2>1. CASE otherwise = "failed"
      <3>1. v \in JobType /\ v.pc = "failed"
        BY <1>5, <2>1 DEF Failed, NoJob, JobType
      <3>2. v.trouble = o
        BY <1>5, <2>1 DEF Failed, NoJob
      <3>3. Excused(v)
        BY <1>5, <2>1, <3>2 DEF Excused
      <3>. QED BY <1>2, <1>3, <1>5, <3>1, <3>3, Types, JobSteps
    <2>2. CASE otherwise # "failed"
      <3>1. v \in JobType /\ v.pc = otherwise /\ v.enc = w.enc /\ (v.copying <=> w.copying)
        BY <1>1, <1>5, <2>2 DEF JobType
      <3>2. v.trouble = o
        BY <1>1, <1>5, <2>2 DEF JobType
      <3>3. (v.pc = "copy" \/ v.copying) => Excused(v)
        BY <1>1, <1>5, <3>1, <3>2 DEF Excused
      <3>. QED BY <1>2, <1>3, <1>5, <2>2, <3>1, <3>3, Types, JobSteps
    <2>. QED BY <2>1, <2>2
  <1>6. CASE ~works /\ job' = [job EXCEPT ![j] = after(w.trouble \/ ~Runs(w.place))]
    <2>. DEFINE o == w.trouble \/ ~Runs(w.place)
    <2>1. o \in BOOLEAN /\ (w.trouble => o) /\ (otherwise # "software" => o \/ removed)
      BY <1>6 DEF Excused
    <2>2. job' = [job EXCEPT ![j] = after(o)]
      BY <1>6
    <2>. HIDE DEF o, after
    <2>. QED BY <1>5, <2>1, <2>2
  <1>7. CASE job' = [job EXCEPT ![j] = after(TRUE)]
    <2>. HIDE DEF after
    <2>. QED BY <1>5, <1>7, TRUE \in BOOLEAN
  <1>. QED BY <1>4, <1>6, <1>7 DEF Run

LEMMA JobKeeps ==
  ASSUME IInv, NEW j \in Jobs,
         \/ StartTrim(j) \/ SelectEncoder(j) \/ Encode(j) \/ Software(j)
         \/ \E h264 \in BOOLEAN : StreamCopy(j, h264)
  PROVE  IInv'
  <1>. DEFINE w == job[j]
  <1>1. w \in JobType /\ JobInv(j)
    BY Types DEF IInv
  <1>0. Place \in Places \cup {"none"}
    BY Found
  <1>2. CASE StartTrim(j)
    <2>. DEFINE pc == IF Place = "none" THEN "copy" ELSE "select"
                v == [NoJob EXCEPT !.place = Place, !.pc = pc]
    <2>1. job' = [job EXCEPT ![j] = v] /\ page.available /\ cache' = Place
          /\ UNCHANGED <<bundled, hw, elsewhere, disk, enc, installed, page, installer, faults>>
      BY <1>2 DEF StartTrim
    <2>2. pc \in {"copy", "select"} /\ (pc = "copy" => removed)
      BY <2>1, AvailableFound
    <2>. HIDE DEF pc
    <2>4. v \in JobType /\ v.pc = pc /\ v.copying = FALSE
      BY <1>0, <2>2 DEF NoJob, JobType
    <2>. HIDE DEF v
    <2>. QED BY <2>1, <2>2, <2>4, Types, JobSteps DEF Excused
  <1>3. CASE SelectEncoder(j)
    <2>1. enc' \in {"hw", "sw"}
      BY <1>3, Types DEF SelectEncoder
    <2>2. /\ w.pc = "select" /\ cache' \in {cache, Place}
          /\ job' = [job EXCEPT ![j] = [w EXCEPT !.pc = "encode", !.enc = enc']]
          /\ UNCHANGED <<bundled, hw, elsewhere, disk, installed, page, installer, faults>>
      BY <1>3 DEF SelectEncoder
    <2>3. ASSUME NEW e \in {"hw", "sw"}, NEW v, v = [w EXCEPT !.pc = "encode", !.enc = e]
          PROVE  /\ v \in JobType /\ v.pc = "encode" /\ v.enc = e
                 /\ v.copying => Excused(v)
      <3>1. v \in JobType /\ v.pc = "encode" /\ v.enc = e
        BY <1>1, <2>3 DEF JobType
      <3>2. (v.copying <=> w.copying) /\ (v.trouble <=> w.trouble)
        BY <1>1, <2>3 DEF JobType
      <3>. QED BY <1>1, <2>2, <3>1, <3>2 DEF JobInv, Excused
    <2>4. PICK e \in {"hw", "sw"} : e = enc'
      BY <2>1
    <2>5. PICK v : v = [w EXCEPT !.pc = "encode", !.enc = e]
      OBVIOUS
    <2>. QED BY <2>1, <2>2, <2>3, <2>4, <2>5, Types, JobSteps
  <1>4. CASE Encode(j)
    <2>. DEFINE works == Runs(w.place) /\ (w.copying \/ w.enc = "sw" \/ w.place \in hw)
                otherwise == IF w.enc = "hw" THEN "software" ELSE Spent(j)
    <2>1. Run(j, works, otherwise) /\ w.pc = "encode"
      BY <1>4 DEF Encode
    <2>2. w.enc \in {"hw", "sw"}
      BY <1>1, <2>1 DEF JobInv
    <2>3. otherwise \in {"software", "copy", "failed"} /\ works \in BOOLEAN
      BY DEF Spent, Runs
    <2>4. ~works => Excused(w) \/ ~Runs(w.place) \/ otherwise = "software"
      BY <2>2
    <2>. HIDE DEF works, otherwise
    <2>. QED BY <2>1, <2>2, <2>3, <2>4, RunKeeps
  <1>5. CASE Software(j)
    <2>1. Run(j, Runs(w.place), Spent(j)) /\ w.pc = "software"
      BY <1>5 DEF Software
    <2>2. w.enc \in {"hw", "sw"} /\ Runs(w.place) \in BOOLEAN
          /\ Spent(j) \in {"software", "copy", "failed"}
      BY <1>1, <2>1 DEF JobInv, Runs, Spent
    <2>. QED BY <2>1, <2>2, RunKeeps
  <1>6. ASSUME NEW h264 \in BOOLEAN, StreamCopy(j, h264) PROVE IInv'
    <2>0. /\ w.pc = "copy" /\ Excused(w) /\ cache' \in {cache, Place}
          /\ UNCHANGED <<bundled, hw, elsewhere, disk, enc, installed, page, installer, faults>>
      BY <1>1, <1>6 DEF StreamCopy, JobInv
    <2>1. ASSUME NEW v, job' = [job EXCEPT ![j] = v],
                 v = [w EXCEPT !.pc = "select", !.copying = TRUE, !.place = Place]
          PROVE  IInv'
      <3>1. v \in JobType /\ v.pc = "select"
        BY <1>0, <1>1, <2>1 DEF JobType
      <3>2. v.trouble = w.trouble
        BY <1>1, <2>1 DEF JobType
      <3>3. Excused(v)
        BY <2>0, <3>2 DEF Excused
      <3>. QED BY <2>0, <2>1, <3>1, <3>3, Types, JobSteps
    <2>2. ASSUME NEW v, job' = [job EXCEPT ![j] = v], v = Failed(w.trouble)
          PROVE  IInv'
      <3>1. v.trouble = w.trouble
        BY <2>2 DEF Failed, NoJob
      <3>2. v \in JobType /\ v.pc = "failed"
        <4>1. w.trouble \in BOOLEAN
          BY <1>1 DEF JobType
        <4>. QED BY <2>2, <4>1 DEF Failed, NoJob, JobType
      <3>3. Excused(v)
        BY <2>0, <3>1 DEF Excused
      <3>. QED BY <2>0, <2>2, <3>2, <3>3, Types, JobSteps
    <2>. QED BY <1>6, <2>1, <2>2 DEF StreamCopy
  <1>. QED BY <1>2, <1>3, <1>4, <1>5, <1>6

LEMMA InitKeeps == Init => IInv
  <1>. SUFFICES ASSUME Init PROVE IInv
    OBVIOUS
  <1>. USE FfmpegAssumption
  <1>1. /\ installer \in [Installers -> InstallerType] /\ job \in [Jobs -> JobType]
        /\ page \in PageType
        /\ \A i \in Installers : installer[i].pc = "idle" /\ installer[i].todo = {}
        /\ \A j \in Jobs : job[j].pc = "idle"
    BY Blank DEF Init
  <1>2. installed \in BOOLEAN /\ removed \in BOOLEAN /\ ~installed /\ ~page.available
        /\ page.asked = "done"
    BY Blank DEF Init
  <1>3. TypeOK
    <2>1. bundled \in BOOLEAN /\ hw \subseteq Places /\ elsewhere \in BOOLEAN
      <3>1. hw \in Hardware /\ bundled \in Bundles /\ elsewhere \in BOOLEAN
        BY DEF Init
      <3>2. Hardware \subseteq SUBSET Places /\ Bundles \subseteq BOOLEAN
        BY DEF FfmpegAssumption, Places
      <3>. QED BY <3>1, <3>2
    <2>2. /\ file \in [Bins -> {"absent", "partial", "whole"}]
          /\ writer \in [Bins -> Installers \cup {NoOne}]
          /\ cache \in Places \cup {"none"} /\ enc \in {"none", "hw", "sw"}
          /\ faults \in 0..MaxFaults
      BY DEF Init
    <2>. QED BY <1>1, <1>2, <2>1, <2>2 DEF TypeOK, InstallerType, JobType, PageType
  <1>4. CacheInv
    BY <1>2 DEF Init, CacheInv
  <1>5. \A i \in Installers : InstallerInv(i)
    BY <1>1 DEF InstallerInv
  <1>6. \A j \in Jobs : JobInv(j)
    BY <1>1 DEF JobInv
  <1>. QED BY <1>3, <1>4, <1>5, <1>6 DEF IInv

LEMMA NextKeeps == IInv /\ [Next]_vars => IInv'
  <1>. SUFFICES ASSUME IInv, [Next]_vars PROVE IInv'
    OBVIOUS
  <1>1. CASE \/ SystemInstall \/ FindBin \/ Crash
            \/ OpenPage \/ FFmpegIsAvailable \/ SetAvailable
    BY <1>1, FindKeeps
  <1>2. ASSUME NEW i \in Installers,
               \/ Start(i) \/ Download(i) \/ DownloadFails(i) \/ ExtractFails(i)
               \/ \E b \in Bins : OpenBinary(i, b)
               \/ CopyBinary(i) \/ CopyFails(i) \/ Invalidate(i)
        PROVE  IInv'
    BY <1>2, StartKeeps, InstallKeeps
  <1>3. ASSUME NEW j \in Jobs,
               \/ StartTrim(j) \/ SelectEncoder(j) \/ Encode(j) \/ Software(j)
               \/ \E h264 \in BOOLEAN : StreamCopy(j, h264)
        PROVE  IInv'
    BY <1>3, JobKeeps
  <1>4. CASE UNCHANGED vars
    <2>1. UNCHANGED <<bundled, hw, elsewhere, disk, memory, page, installer, job, faults>>
      BY <1>4 DEF vars
    <2>2. CacheInv'
      BY <2>1 DEF IInv, CacheInv, Present, disk, memory
    <2>. QED BY <2>1, <2>2, Types, MemorySteps DEF memory
  <1>. QED BY <1>1, <1>2, <1>3, <1>4 DEF Next

-----------------------------------------------------------------------------
(* The theorems.                                                           *)

LEMMA Invariance == Spec => []IInv
  BY InitKeeps, NextKeeps, PTL DEF Spec

(* The client's memory, the directory, the page and the calls are what the *)
(* code can make them.                                                     *)
THEOREM TypeCorrect == Spec => []TypeOK
  <1>1. IInv => TypeOK
    BY DEF IInv
  <1>. QED BY <1>1, Invariance, PTL

(* An installation that had the directory to itself repairs it, whatever   *)
(* crashes and failures left there.                                        *)
THEOREM LoneInstallRepairs == Spec => []InstallRepairs
  <1>1. IInv => InstallRepairs
    BY DEF IInv, InstallerInv, Written, InstallRepairs, At, Whole
  <1>. QED BY <1>1, Invariance, PTL

(* A page that offers trimming has an FFmpeg to trim with, however many    *)
(* installations overlap.                                                  *)
THEOREM PageIsRight == Spec => []PageTruthful
  <1>1. IInv => PageTruthful
    BY AvailableFound DEF PageTruthful
  <1>. QED BY <1>1, Invariance, PTL

(* No search that began before an installation makes the client keep a     *)
(* binary found elsewhere.                                                 *)
THEOREM InstalledIsUsed == Spec => []NewBinariesPickedUp
  <1>1. IInv => NewBinariesPickedUp
    BY DEF IInv, CacheInv, NewBinariesPickedUp
  <1>. QED BY <1>1, Invariance, PTL

(* The fallbacks of trimVideo cover an encoder that cannot be used. *)
THEOREM TrimFailsForAReason == Spec => []FallbackCovers
  <1>1. IInv => FallbackCovers
    BY DEF IInv, JobInv, Excused, FallbackCovers
  <1>. QED BY <1>1, Invariance, PTL
=============================================================================
