--------------------------- MODULE FfmpegInstall ---------------------------
(***************************************************************************)
(* The FFmpeg of the desktop client: where it is found, how it is          *)
(* installed, and how a trim uses it.                                      *)
(*                                                                         *)
(* Install writes ffmpeg and ffprobe into a directory of its own, one file *)
(* after the other and in place; findBin accepts a directory that has both *)
(* files and remembers it in a process-wide cache; selectEncoder remembers *)
(* an encoder for the life of the process.  The editor page offers the     *)
(* installation while it believes there is no FFmpeg, which it does until  *)
(* its question is answered; a page that is left and opened again knows    *)
(* nothing of an installation under way.                                   *)
(***************************************************************************)
EXTENDS Naturals

CONSTANTS
  Installers,  \* calls of Install that run at the same time
  Jobs,        \* calls of trimVideo that run at the same time
  Bundles,     \* whether one archive holds both files: {TRUE} but on macOS
  Hardware,    \* where a hardware encoder may work: sets of places
  NoOne,
  MaxFaults    \* bound on crashes and failed downloads, writes and runs

ASSUME FfmpegAssumption ==
  /\ Bundles \subseteq BOOLEAN
  /\ Hardware \subseteq SUBSET {"installed", "elsewhere"}
  /\ NoOne \notin Installers
  /\ MaxFaults \in Nat

VARIABLES
  bundled,    \* the platform's choice of Bundles
  hw,         \* the places of the machine's choice of Hardware
  elsewhere,  \* FFmpeg is beside the executable or in PATH
  file,       \* the two files of the install directory
  writer,     \* whose copy a file is
  cache,      \* binCache
  enc,        \* encCached
  page,       \* the editor page: ffmpegAvailable, ffmpegInstalling, its question
  installer,  \* what each call of Install is doing
  job,        \* what each call of trimVideo is doing
  installed,  \* an Install of this process succeeded
  removed,    \* a failed write removed its file
  faults

disk   == <<file, writer, removed>>
memory == <<cache, enc, installed>>
vars   == <<bundled, hw, elsewhere, disk, memory, page, installer, job, faults>>

-----------------------------------------------------------------------------
Bins   == {"ffmpeg", "ffprobe"}
Places == {"installed", "elsewhere"}

NotInstalling == [pc |-> "idle", todo |-> {}, bin |-> "ffmpeg", own |-> FALSE,
                  sole |-> FALSE]
NoJob == [pc |-> "idle", place |-> "none", enc |-> "none", copying |-> FALSE,
          trouble |-> FALSE]
Closed == [open |-> FALSE, available |-> FALSE, installing |-> FALSE, asked |-> "done"]

TypeOK ==
  /\ bundled \in BOOLEAN /\ hw \subseteq Places /\ elsewhere \in BOOLEAN
  /\ file \in [Bins -> {"absent", "partial", "whole"}]
  /\ writer \in [Bins -> Installers \cup {NoOne}]
  /\ cache \in Places \cup {"none"}
  /\ enc \in {"none", "hw", "sw"}
  /\ page \in [open : BOOLEAN, available : BOOLEAN, installing : BOOLEAN,
               asked : {"pending", "found", "missing", "done"}]
  /\ installer \in [Installers ->
       [pc : {"idle", "download", "extract", "copy", "invalidate"},
        todo : SUBSET Bins, bin : Bins, own : BOOLEAN, sole : BOOLEAN]]
  /\ \A i \in Installers : installer[i].pc = "invalidate" => installer[i].todo = {}
  /\ job \in [Jobs -> [pc : {"idle", "select", "encode", "software", "copy", "failed"},
                       place : Places \cup {"none"}, enc : {"none", "hw", "sw"},
                       copying : BOOLEAN, trouble : BOOLEAN]]
  /\ installed \in BOOLEAN /\ removed \in BOOLEAN
  /\ faults \in 0..MaxFaults

Init ==
  /\ bundled \in Bundles
  /\ hw \in Hardware
  /\ elsewhere \in BOOLEAN
  /\ file = [b \in Bins |-> "absent"]
  /\ writer = [b \in Bins |-> NoOne]
  /\ cache = "none" /\ enc = "none" /\ installed = FALSE
  /\ page = Closed
  /\ installer = [i \in Installers |-> NotInstalling]
  /\ job = [j \in Jobs |-> NoJob]
  /\ removed = FALSE /\ faults = 0

At(i, pc) == installer[i].pc = pc
Busy == {i \in Installers : ~At(i, "idle")}

(* hasBinaries: both files can be stat'ed, whatever is in them. *)
Present == \A b \in Bins : file[b] # "absent"
Whole   == \A b \in Bins : file[b] = "whole"

(* What findBin answers, and remembers when it is found; it holds the lock *)
(* from the search to the remembering, so both are one step.               *)
Place ==
  IF cache # "none" THEN cache
  ELSE IF Present THEN "installed" ELSE IF elsewhere THEN "elsewhere" ELSE "none"

(* The executables of a place run. *)
Runs(place) == place = "elsewhere" \/ (place = "installed" /\ Whole)

Fault == faults < MaxFaults /\ faults' = faults + 1

Failed(trouble) == [NoJob EXCEPT !.pc = "failed", !.trouble = trouble]

(* A run of ffmpeg: it works, or it cannot, or the input spoils it. *)
Run(j, works, otherwise) ==
  /\ LET fail(trouble) ==
           job' = [job EXCEPT ![j] = IF otherwise = "failed" THEN Failed(trouble)
                                     ELSE [@ EXCEPT !.pc = otherwise, !.trouble = trouble]]
     IN  \/ works /\ job' = [job EXCEPT ![j] = NoJob] /\ UNCHANGED faults
         \/ ~works /\ fail(job[j].trouble \/ ~Runs(job[j].place)) /\ UNCHANGED faults
         \/ works /\ Fault /\ fail(TRUE)
  /\ UNCHANGED <<bundled, hw, elsewhere, disk, memory, page, installer>>

(* What follows the last attempt of a call of TrimWithProgress or Trim. *)
Spent(j) == IF job[j].copying THEN "failed" ELSE "copy"

-----------------------------------------------------------------------------
(* Faulty variants, to show that the properties notice them.               *)

(* Install returns without forgetting what findBin remembers. *)
KeepCache(i) ==
  /\ At(i, "invalidate")
  /\ installed' = TRUE
  /\ page' = IF installer[i].own THEN [page EXCEPT !.available = TRUE, !.installing = FALSE]
             ELSE page
  /\ installer' = [installer EXCEPT ![i] = NotInstalling]
  /\ UNCHANGED <<bundled, hw, elsewhere, disk, cache, enc, job, faults>>

(* An archive without one of the files is good enough. *)
IgnoreMissing(i) ==
  /\ At(i, "extract") /\ Fault
  /\ installer' = [installer EXCEPT ![i].pc = "invalidate"]
  /\ UNCHANGED <<bundled, hw, elsewhere, disk, memory, page, job>>

(* A file that exists is not written again. *)
SkipExisting(i, b) ==
  /\ At(i, "extract") /\ b \in installer[i].todo
  /\ (~bundled /\ b = "ffprobe") => "ffmpeg" \notin installer[i].todo
  /\ LET todo == installer[i].todo \ {b}
     IN  IF file[b] = "absent"
         THEN /\ file' = [file EXCEPT ![b] = "partial"]
              /\ writer' = [writer EXCEPT ![b] = i]
              /\ installer' = [installer EXCEPT ![i].pc = "copy", ![i].bin = b]
         ELSE /\ installer' = [installer EXCEPT ![i].todo = todo,
                                 ![i].pc = IF todo = {} THEN "invalidate" ELSE "extract"]
              /\ UNCHANGED <<file, writer>>
  /\ UNCHANGED <<bundled, hw, elsewhere, removed, memory, page, job, faults>>

(* An encoder that fails is not replaced. *)
NoFallback(j) ==
  /\ job[j].pc = "encode"
  /\ Run(j, Runs(job[j].place)
              /\ (job[j].copying \/ job[j].enc = "sw" \/ job[j].place \in hw),
         Spent(j))

-----------------------------------------------------------------------------
(* Finding.                                                                *)

(* Another program puts FFmpeg into PATH. *)
SystemInstall ==
  /\ ~elsewhere /\ elsewhere' = TRUE
  /\ UNCHANGED <<bundled, hw, disk, memory, page, installer, job, faults>>

(* A probe, a thumbnail or UploadFile asks for the binary. *)
FindBin ==
  /\ cache' = Place
  /\ UNCHANGED <<bundled, hw, elsewhere, disk, enc, installed, page, installer, job, faults>>

(* The editor page is opened and asks FFmpegIsAvailable; the calls of the  *)
(* page before it have nobody to tell.                                     *)
OpenPage ==
  /\ page' = [open |-> TRUE, available |-> FALSE, installing |-> FALSE, asked |-> "pending"]
  /\ installer' = [i \in Installers |-> [installer[i] EXCEPT !.own = FALSE]]
  /\ UNCHANGED <<bundled, hw, elsewhere, disk, memory, job, faults>>

FFmpegIsAvailable ==
  /\ page.asked = "pending"
  /\ page' = [page EXCEPT !.asked = IF Place = "none" THEN "missing" ELSE "found"]
  /\ cache' = Place
  /\ UNCHANGED <<bundled, hw, elsewhere, disk, enc, installed, installer, job, faults>>

(* The answer reaches the page, whatever it has learnt meanwhile. *)
SetAvailable ==
  /\ page.asked \in {"found", "missing"}
  /\ page' = [page EXCEPT !.available = (page.asked = "found"), !.asked = "done"]
  /\ UNCHANGED <<bundled, hw, elsewhere, disk, memory, installer, job, faults>>

-----------------------------------------------------------------------------
(* Install.                                                                *)

Start(i) ==
  /\ At(i, "idle") /\ page.open /\ ~page.available /\ ~page.installing
  /\ page' = [page EXCEPT !.installing = TRUE]
  /\ installer' = [k \in Installers |->
       IF k = i THEN [pc |-> "download", todo |-> Bins, bin |-> "ffmpeg", own |-> TRUE,
                      sole |-> Busy = {}]
       ELSE [installer[k] EXCEPT !.sole = FALSE]]
  /\ UNCHANGED <<bundled, hw, elsewhere, disk, memory, job, faults>>

Download(i) ==
  /\ At(i, "download")
  /\ installer' = [installer EXCEPT ![i].pc = "extract"]
  /\ UNCHANGED <<bundled, hw, elsewhere, disk, memory, page, job, faults>>

(* Install returns an error, which the page shows if it is still there. *)
GiveUp(i) ==
  /\ page' = IF installer[i].own THEN [page EXCEPT !.installing = FALSE] ELSE page
  /\ installer' = [installer EXCEPT ![i] = NotInstalling]
  /\ UNCHANGED <<bundled, hw, elsewhere, memory, job>>

DownloadFails(i) == At(i, "download") /\ Fault /\ GiveUp(i) /\ UNCHANGED disk

(* checkMissing, or the archive cannot be read, or the file not opened. *)
ExtractFails(i) == At(i, "extract") /\ Fault /\ GiveUp(i) /\ UNCHANGED disk

(* writeExecutable truncates what is there. An archive has the files in    *)
(* any order; where there are two, ffmpeg comes first.                     *)
OpenBinary(i, b) ==
  /\ At(i, "extract") /\ b \in installer[i].todo
  /\ (~bundled /\ b = "ffprobe") => "ffmpeg" \notin installer[i].todo
  /\ file' = [file EXCEPT ![b] = "partial"]
  /\ writer' = [writer EXCEPT ![b] = i]
  /\ installer' = [installer EXCEPT ![i].pc = "copy", ![i].bin = b]
  /\ UNCHANGED <<bundled, hw, elsewhere, removed, memory, page, job, faults>>

(* A copy that is complete completes the file, unless another call has     *)
(* truncated the file since and is not done; a file that was removed in    *)
(* the meantime stays so.                                                  *)
Completed(i) ==
  LET b == installer[i].bin
  IN  IF writer[b] = i /\ file[b] = "partial" THEN [file EXCEPT ![b] = "whole"] ELSE file

CloseFile(i) ==
  writer' = [b \in Bins |-> IF writer[b] = i THEN NoOne ELSE writer[b]]

CopyBinary(i) ==
  /\ At(i, "copy")
  /\ LET b    == installer[i].bin
         todo == installer[i].todo \ {b}
     IN  /\ file' = Completed(i)
         /\ installer' = [installer EXCEPT ![i].todo = todo,
              ![i].pc = IF todo = {} THEN "invalidate"
                        ELSE IF bundled THEN "extract" ELSE "download"]
  /\ CloseFile(i)
  /\ UNCHANGED <<bundled, hw, elsewhere, removed, memory, page, job, faults>>

(* A copy that fails removes the file, a Close that fails leaves it there, *)
(* complete or not.                                                        *)
CopyFails(i) ==
  /\ At(i, "copy") /\ Fault /\ CloseFile(i) /\ GiveUp(i)
  /\ \/ /\ file' = [file EXCEPT ![installer[i].bin] = "absent"]
        /\ removed' = TRUE
     \/ file' \in {file, Completed(i)} /\ UNCHANGED removed

Invalidate(i) ==
  /\ At(i, "invalidate")
  /\ cache' = "none"
  /\ installed' = TRUE
  /\ page' = IF installer[i].own THEN [page EXCEPT !.available = TRUE, !.installing = FALSE]
             ELSE page
  /\ installer' = [installer EXCEPT ![i] = NotInstalling]
  /\ UNCHANGED <<bundled, hw, elsewhere, disk, enc, job, faults>>

(* The client is killed: what it remembers is gone, what it wrote stays. *)
Crash ==
  /\ Fault
  /\ cache' = "none" /\ enc' = "none" /\ installed' = FALSE
  /\ page' = Closed
  /\ installer' = [i \in Installers |-> NotInstalling]
  /\ job' = [j \in Jobs |-> NoJob]
  /\ writer' = [b \in Bins |-> NoOne]
  /\ UNCHANGED <<bundled, hw, elsewhere, file, removed>>

-----------------------------------------------------------------------------
(* trimVideo, which re-encodes and copies the stream as a last resort.     *)

StartTrim(j) ==
  /\ page.available /\ job[j].pc \in {"idle", "failed"}
  /\ cache' = Place
  /\ job' = [job EXCEPT ![j] = [NoJob EXCEPT !.place = Place,
                                  !.pc = IF Place = "none" THEN "copy" ELSE "select"]]
  /\ UNCHANGED <<bundled, hw, elsewhere, disk, enc, installed, page, installer, faults>>

(* selectEncoder tries the hardware encoders once in the life of the       *)
(* process, with the binary of that moment.                                *)
SelectEncoder(j) ==
  /\ job[j].pc = "select"
  /\ enc' = IF enc # "none" THEN enc
            ELSE IF Runs(Place) /\ Place \in hw THEN "hw" ELSE "sw"
  /\ cache' = IF enc # "none" THEN cache ELSE Place
  /\ job' = [job EXCEPT ![j].pc = "encode", ![j].enc = enc']
  /\ UNCHANGED <<bundled, hw, elsewhere, disk, installed, page, installer, faults>>

(* Copying the stream needs no encoder; an attempt that fails is made      *)
(* again with the software encoder all the same.                           *)
Encode(j) ==
  /\ job[j].pc = "encode"
  /\ LET w == job[j]
     IN  Run(j, Runs(w.place) /\ (w.copying \/ w.enc = "sw" \/ w.place \in hw),
             IF w.enc = "hw" THEN "software" ELSE Spent(j))

Software(j) ==
  /\ job[j].pc = "software"
  /\ Run(j, Runs(job[j].place), Spent(j))

(* Only an H.264 file in an MP4 container can be copied; Trim searches for *)
(* the binary and asks for an encoder once more.                           *)
StreamCopy(j, h264) ==
  /\ job[j].pc = "copy"
  /\ job' = [job EXCEPT ![j] =
       IF h264 /\ Place # "none"
       THEN [@ EXCEPT !.pc = "select", !.copying = TRUE, !.place = Place]
       ELSE Failed(@.trouble)]
  /\ cache' = IF h264 THEN Place ELSE cache
  /\ UNCHANGED <<bundled, hw, elsewhere, disk, enc, installed, page, installer, faults>>

Next ==
  \/ SystemInstall \/ FindBin \/ Crash
  \/ OpenPage \/ FFmpegIsAvailable \/ SetAvailable
  \/ \E i \in Installers :
       \/ Start(i) \/ Download(i) \/ DownloadFails(i) \/ ExtractFails(i)
       \/ \E b \in Bins : OpenBinary(i, b)
       \/ CopyBinary(i) \/ CopyFails(i) \/ Invalidate(i)
  \/ \E j \in Jobs :
       \/ StartTrim(j) \/ SelectEncoder(j) \/ Encode(j) \/ Software(j)
       \/ \E h264 \in BOOLEAN : StreamCopy(j, h264)

Spec == Init /\ [][Next]_vars

-----------------------------------------------------------------------------
(* Properties.                                                             *)

(* An installation that had the directory to itself leaves two complete    *)
(* files, whatever an earlier one that crashed or failed left there.       *)
InstallRepairs ==
  \A i \in Installers : (At(i, "invalidate") /\ installer[i].sole) => Whole

(* A page that says FFmpeg is available finds one, whichever of its two    *)
(* sources told it so and whatever is being installed over it; only a      *)
(* write that failed and removed its file can make it wrong.               *)
PageTruthful == (page.available /\ ~removed) => Place # "none"

(* "Invalidate findBin cache so the next call picks up the new binaries"   *)
(* (install.go:84): after an installation no call uses a binary found      *)
(* elsewhere, although searches go on during the installation.             *)
NewBinariesPickedUp == (installed /\ ~removed) => cache # "elsewhere"

(* A trim fails only if a run met files that are not executables or an     *)
(* input it could not read: the encoder remembered from another binary, or *)
(* a page that is behind, is no reason.                                    *)
FallbackCovers == \A j \in Jobs : job[j].pc = "failed" => job[j].trouble \/ removed
=============================================================================
