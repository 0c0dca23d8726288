---------------------------- MODULE EditorUpload ----------------------------
(***************************************************************************)
(* Uploading a video from the editor page of the desktop client.           *)
(*                                                                         *)
(* The user selects a file, trims it or not, and uploads it; the page then *)
(* finalizes the clip and deletes the file, or offers to.  The handlers    *)
(* are asynchronous functions without a way to stop them: "New Clip" and   *)
(* "Cancel" reset the page under an upload that goes on, a second upload   *)
(* can be started beside the first, and both share abortRef, the           *)
(* processing flag and the dialog.  A handler keeps the state of the       *)
(* render it was started in, and outlives the page.                        *)
(***************************************************************************)
EXTENDS Naturals

CONSTANTS
  Files,       \* videos on the user's disk
  NoFile,
  MaxSelects,  \* bound on selections of a file
  MaxUploads,  \* bound on uploads
  MaxFaults    \* bound on failed and lost calls

ASSUME EditorAssumption ==
  /\ NoFile \notin Files
  /\ MaxSelects \in Nat /\ MaxUploads \in Nat /\ MaxFaults \in Nat

VARIABLES
  disk,      \* a file is there, or how it was deleted
  selects,   \* selections so far; each serves its file under a name of its own
  chosen,    \* the file of each selection
  media,     \* mediaMap: the names of selections that are served
  auto,      \* autoDeleteSource, which is kept in localStorage
  page,      \* the state and the refs of the mounted editor page
  task,      \* the calls of handleUpload
  clip,      \* the clips the server has of each upload
  faults

vars == <<disk, selects, chosen, media, auto, page, task, clip, faults>>

-----------------------------------------------------------------------------
Tasks == 1..MaxUploads
Kinds == {"trim", "src"}   \* the trimmed video, or the file itself

Fresh == [step |-> "select", picks |-> "no", file |-> NoFile, served |-> 0,
          processing |-> FALSE, dialog |-> 0, abort |-> FALSE, reset |-> FALSE]
NoTask == [pc |-> "none", trims |-> FALSE, kind |-> "src", file |-> NoFile, served |-> 0,
           auto |-> FALSE, here |-> FALSE, abort |-> FALSE, cancelled |-> FALSE,
           lost |-> FALSE]

TypeOK ==
  /\ disk \in [Files -> {"there", "auto", "asked", "blind"}]
  /\ selects \in 0..MaxSelects
  /\ chosen \in [1..MaxSelects -> Files \cup {NoFile}]
  /\ media \subseteq 1..selects
  /\ auto \in BOOLEAN
  /\ page \in [step : {"select", "editing"}, picks : {"no", "picking", "serving"},
               file : Files \cup {NoFile}, served : 0..MaxSelects, processing : BOOLEAN,
               dialog : 0..MaxUploads, abort : BOOLEAN, reset : BOOLEAN]
  /\ task \in [Tasks -> {NoTask} \cup
       [pc : {"trim", "send", "answer", "finalize", "finalized", "navigate", "ended"},
        trims : BOOLEAN, kind : Kinds, file : Files, served : 1..MaxSelects,
        auto : BOOLEAN, here : BOOLEAN, abort : BOOLEAN, cancelled : BOOLEAN,
        lost : BOOLEAN]]
  /\ clip \in [Tasks -> [Kinds -> {"none", "draft", "final"}]]
  /\ faults \in 0..MaxFaults

Init ==
  /\ disk = [f \in Files |-> "there"]
  /\ selects = 0 /\ chosen = [n \in 1..MaxSelects |-> NoFile] /\ media = {} /\ auto \in BOOLEAN
  /\ page = Fresh
  /\ task = [t \in Tasks |-> NoTask]
  /\ clip = [t \in Tasks |-> [k \in Kinds |-> "none"]]
  /\ faults = 0

At(t, pc) == task[t].pc = pc

(* abortRef of the page the upload was started on. *)
Aborted(t) == IF task[t].here THEN page.abort ELSE task[t].abort

(* What a handler sets on its page is lost when the page is gone. *)
OnPage(t, set) == IF task[t].here THEN set ELSE page
Unlock(t) == OnPage(t, [page EXCEPT !.processing = FALSE])

Goto(t, pc) == task' = [task EXCEPT ![t].pc = pc]
Fault == faults < MaxFaults /\ faults' = faults + 1

(* Leaving the page: its uploads go on without it. *)
Leave(tasks) ==
  /\ page' = Fresh
  /\ task' = [t \in Tasks |->
       IF tasks[t].here THEN [tasks[t] EXCEPT !.here = FALSE, !.abort = page.abort]
       ELSE tasks[t]]

(* What a clip shows: the file that was trimmed, or the one behind the name *)
(* that was sent. *)
Shown(t, k) == IF k = "trim" THEN task[t].file ELSE chosen[task[t].served]
Stored(f) == \E t \in Tasks, k \in Kinds : clip[t][k] = "final" /\ Shown(t, k) = f

(* DeleteFile; the page only logs its failure. *)
Remove(f, how) ==
  \/ /\ disk' = [g \in Files |-> IF g = f /\ disk[g] = "there" THEN how ELSE disk[g]]
     /\ UNCHANGED faults
  \/ Fault /\ UNCHANGED disk

-----------------------------------------------------------------------------
(* Faulty variants, to show that the properties notice them.               *)

(* handleUpload does not ask for a served name. *)
UploadUnserved(t, trims) ==
  /\ At(t, "none") /\ \A u \in 1..(t - 1) : ~At(u, "none")
  /\ page.step = "editing" /\ page.dialog = 0 /\ ~page.processing
  /\ page.file # NoFile
  /\ page' = [page EXCEPT !.abort = FALSE, !.processing = TRUE]
  /\ task' = [u \in Tasks |->
       IF u = t THEN [NoTask EXCEPT !.pc = IF trims THEN "trim" ELSE "send",
                        !.trims = trims, !.kind = IF trims THEN "trim" ELSE "src",
                        !.file = page.file, !.served = page.served, !.auto = auto,
                        !.here = TRUE]
       ELSE IF task[u].here THEN [task[u] EXCEPT !.cancelled = FALSE] ELSE task[u]]
  /\ UNCHANGED <<disk, selects, chosen, media, auto, clip, faults>>

(* The fallback does not look for a cancellation. *)
AnswerUnchecked(t) ==
  /\ At(t, "answer")
  /\ LET fallback == task[t].trims /\ task[t].kind = "src"
     IN  /\ Goto(t, IF Aborted(t) /\ ~fallback THEN "ended" ELSE "finalize")
         /\ page' = IF fallback THEN page ELSE Unlock(t)
  /\ UNCHANGED <<disk, selects, chosen, media, auto, clip, faults>>

(* The button stays disabled when a trimmed video has arrived. *)
AnswerKeepsLock(t) ==
  /\ At(t, "answer")
  /\ Goto(t, IF Aborted(t) THEN "ended" ELSE "finalize")
  /\ page' = IF task[t].trims THEN page ELSE Unlock(t)
  /\ UNCHANGED <<disk, selects, chosen, media, auto, clip, faults>>

(* A clip that could not be finalized is deleted and shown all the same. *)
FinalizeFailsQuietly(t, stored) ==
  /\ At(t, "finalize") /\ Fault
  /\ clip' = IF stored THEN [clip EXCEPT ![t][task[t].kind] = "final"] ELSE clip
  /\ Goto(t, "finalized")
  /\ UNCHANGED <<disk, selects, chosen, media, auto, page>>

(* finalizeUpload lets its error reach the fallback of the caller. *)
FinalizeFailsAbove(t, stored) ==
  /\ At(t, "finalize") /\ Fault
  /\ clip' = IF stored THEN [clip EXCEPT ![t][task[t].kind] = "final"] ELSE clip
  /\ IF task[t].kind = "trim"
     THEN task' = [task EXCEPT ![t].pc = "send", ![t].kind = "src"] ELSE Goto(t, "ended")
  /\ UNCHANGED <<disk, selects, chosen, media, auto, page>>

-----------------------------------------------------------------------------
(* The user.                                                               *)

(* handleSelectFile, once at a time: the dialog, the file it is answered    *)
(* with, and the name that file is served under.  A page that is left      *)
(* meanwhile never learns the name.                                        *)
OpenFileDialog ==
  /\ page.step = "select" /\ page.dialog = 0 /\ page.picks = "no"
  /\ page' = [page EXCEPT !.picks = "picking"]
  /\ UNCHANGED <<disk, selects, chosen, media, auto, task, clip, faults>>

CloseFileDialog ==
  /\ page.picks = "picking"
  /\ page' = [page EXCEPT !.picks = "no"]
  /\ UNCHANGED <<disk, selects, chosen, media, auto, task, clip, faults>>

Select(f) ==
  /\ page.picks = "picking" /\ disk[f] = "there" /\ selects < MaxSelects
  /\ page' = [page EXCEPT !.picks = "serving", !.file = f]
  /\ selects' = selects + 1
  /\ chosen' = [chosen EXCEPT ![selects'] = f]
  /\ UNCHANGED <<disk, media, auto, task, clip, faults>>

ServeLocalFile ==
  /\ page.picks = "serving" /\ disk[chosen[selects]] = "there"
  /\ media' = media \cup {selects}
  /\ page' = [page EXCEPT !.picks = "no", !.served = selects, !.step = "editing"]
  /\ UNCHANGED <<disk, selects, chosen, auto, task, clip, faults>>

(* The file stays selected, without a name. *)
ServeLocalFileFails ==
  /\ page.picks = "serving"
  /\ IF disk[chosen[selects]] = "there" THEN Fault ELSE UNCHANGED faults
  /\ page' = [page EXCEPT !.picks = "no"]
  /\ UNCHANGED <<disk, selects, chosen, media, auto, task, clip>>

SelectFile ==
  \/ OpenFileDialog \/ CloseFileDialog
  \/ \E f \in Files : Select(f)
  \/ ServeLocalFile \/ ServeLocalFileFails

(* The checkbox. *)
SetAuto ==
  /\ page.step = "editing" /\ page.dialog = 0
  /\ auto' = ~auto
  /\ UNCHANGED <<disk, selects, chosen, media, page, task, clip, faults>>

(* handleUpload; it is a trim or a conversion, or it sends the file. *)
Upload(t, trims) ==
  /\ At(t, "none") /\ \A u \in 1..(t - 1) : ~At(u, "none")
  /\ page.step = "editing" /\ page.dialog = 0 /\ ~page.processing
  /\ page.file # NoFile /\ page.served # 0
  /\ page' = [page EXCEPT !.abort = FALSE, !.processing = TRUE]
  /\ task' = [u \in Tasks |->
       IF u = t THEN [NoTask EXCEPT !.pc = IF trims THEN "trim" ELSE "send",
                        !.trims = trims, !.kind = IF trims THEN "trim" ELSE "src",
                        !.file = page.file, !.served = page.served, !.auto = auto,
                        !.here = TRUE]
       ELSE IF task[u].here THEN [task[u] EXCEPT !.cancelled = FALSE] ELSE task[u]]
  /\ UNCHANGED <<disk, selects, chosen, media, auto, clip, faults>>

(* "New Clip" and "Cancel".  An upload is cancelled if it comes to a check *)
(* of abortRef before the next upload clears it. *)
Reset ==
  /\ page.step = "editing" /\ page.dialog = 0
  /\ media' = media \ {page.served}
  /\ page' = [Fresh EXCEPT !.abort = TRUE, !.reset = TRUE, !.picks = page.picks]
  /\ task' = [t \in Tasks |->
       IF task[t].here /\ task[t].pc \in {"trim", "send", "answer"}
       THEN [task[t] EXCEPT !.cancelled = TRUE] ELSE task[t]]
  /\ UNCHANGED <<disk, selects, chosen, auto, clip, faults>>

(* Going to another page; the dialog covers the links. *)
Navigate ==
  /\ page.dialog = 0 /\ page # Fresh
  /\ Leave(task)
  /\ UNCHANGED <<disk, selects, chosen, media, auto, clip, faults>>

(* handleDeleteSource deletes the file that is selected by then, and shows *)
(* the clip.                                                               *)
DeleteSource ==
  /\ page.dialog # 0
  /\ Remove(page.file, IF page.reset THEN "blind" ELSE "asked")
  /\ Goto(page.dialog, "navigate")
  /\ UNCHANGED <<selects, chosen, media, auto, page, clip>>

SkipDelete ==
  /\ page.dialog # 0
  /\ Leave(task)
  /\ UNCHANGED <<disk, selects, chosen, media, auto, clip, faults>>

-----------------------------------------------------------------------------
(* handleUpload.                                                           *)

Trimmed(t) ==
  /\ At(t, "trim") /\ disk[task[t].file] = "there"
  /\ IF Aborted(t) THEN Goto(t, "ended") /\ page' = Unlock(t)
     ELSE Goto(t, "send") /\ UNCHANGED page
  /\ UNCHANGED <<disk, selects, chosen, media, auto, clip, faults>>

(* A failure is caught: the trimmed video falls back to the file itself,   *)
(* with the button enabled; the file itself is given up.                   *)
Caught(t, lost) ==
  LET second == task[t].trims /\ task[t].kind = "src"
      again  == task[t].trims /\ task[t].kind = "trim" /\ ~Aborted(t)
  IN  /\ task' = [task EXCEPT ![t].pc = IF again THEN "send" ELSE "ended",
                              ![t].kind = IF again THEN "src" ELSE @,
                              ![t].lost = @ \/ lost]
      /\ page' = IF second THEN OnPage(t, [page EXCEPT !.step = "editing"])
                 ELSE IF again \/ Aborted(t) THEN Unlock(t)
                 ELSE OnPage(t, [page EXCEPT !.step = "editing", !.processing = FALSE])

TrimFails(t) ==
  /\ At(t, "trim")
  /\ IF disk[task[t].file] = "there" THEN Fault ELSE UNCHANGED faults
  /\ Caught(t, FALSE)
  /\ UNCHANGED <<disk, selects, chosen, media, auto, clip>>

(* UploadFile finds the file of the name and sends it. *)
Found(t) ==
  task[t].kind = "src" => (task[t].served \in media /\ disk[task[t].file] = "there")

Send(t) ==
  /\ At(t, "send") /\ Found(t)
  /\ clip' = [clip EXCEPT ![t][task[t].kind] = "draft"]
  /\ Goto(t, "answer")
  /\ UNCHANGED <<disk, selects, chosen, media, auto, page, faults>>

SendFails(t) ==
  /\ At(t, "send")
  /\ IF Found(t) THEN Fault ELSE UNCHANGED faults
  /\ Caught(t, FALSE)
  /\ UNCHANGED <<disk, selects, chosen, media, auto, clip>>

(* The file arrived and the client does not learn of it. *)
AnswerLost(t) ==
  /\ At(t, "answer") /\ Fault
  /\ Caught(t, TRUE)
  /\ UNCHANGED <<disk, selects, chosen, media, auto, clip>>

(* The fallback leaves the processing flag as it is. *)
Answer(t) ==
  /\ At(t, "answer")
  /\ Goto(t, IF Aborted(t) THEN "ended" ELSE "finalize")
  /\ page' = IF task[t].trims /\ task[t].kind = "src" THEN page ELSE Unlock(t)
  /\ UNCHANGED <<disk, selects, chosen, media, auto, clip, faults>>

(* finalizeUpload with the title and the trim of the render it was started *)
(* in.                                                                     *)
Finalize(t) ==
  /\ At(t, "finalize")
  /\ clip' = [clip EXCEPT ![t][task[t].kind] = "final"]
  /\ Goto(t, "finalized")
  /\ UNCHANGED <<disk, selects, chosen, media, auto, page, faults>>

(* The "finally" of an upload that is no trim. *)
Finally(t, p) ==
  IF task[t].trims \/ Aborted(t) THEN p ELSE [p EXCEPT !.processing = FALSE]

FinalizeFails(t, stored) ==
  /\ At(t, "finalize") /\ Fault
  /\ clip' = IF stored THEN [clip EXCEPT ![t][task[t].kind] = "final"] ELSE clip
  /\ Goto(t, "ended")
  /\ page' = OnPage(t, Finally(t, [page EXCEPT !.step = "editing"]))
  /\ UNCHANGED <<disk, selects, chosen, media, auto>>

(* The file is deleted, or the dialog opens. *)
Finalized(t) ==
  /\ At(t, "finalized")
  /\ IF task[t].auto
     THEN Remove(task[t].file, "auto") /\ Goto(t, "navigate") /\ UNCHANGED page
     ELSE /\ Goto(t, "ended")
          /\ page' = OnPage(t, Finally(t, [page EXCEPT !.dialog = t]))
          /\ UNCHANGED <<disk, faults>>
  /\ UNCHANGED <<selects, chosen, media, auto, clip>>

(* The clip is shown, wherever the user is by then. *)
Navigated(t) ==
  /\ At(t, "navigate")
  /\ Leave([task EXCEPT ![t].pc = "ended"])
  /\ UNCHANGED <<disk, selects, chosen, media, auto, clip, faults>>

(* What goes on before the clip is finalized. *)
Transfer(t) ==
  \/ Trimmed(t) \/ TrimFails(t) \/ Send(t) \/ SendFails(t)
  \/ AnswerLost(t) \/ Answer(t)

Step(t) ==
  \/ Transfer(t)
  \/ Finalize(t)
  \/ \E stored \in BOOLEAN : FinalizeFails(t, stored)
  \/ Finalized(t)
  \/ Navigated(t)

Next ==
  \/ SelectFile
  \/ SetAuto \/ Reset \/ Navigate \/ DeleteSource \/ SkipDelete
  \/ \E t \in Tasks : Step(t) \/ \E trims \in BOOLEAN : Upload(t, trims)

(* ffmpeg ends, and UploadFile has a timeout.  The request that finalizes  *)
(* has none, so it may never be answered, and what the user does is not    *)
(* fair.                                                                   *)
Spec == Init /\ [][Next]_vars /\ \A t \in Tasks : WF_vars(Transfer(t))

-----------------------------------------------------------------------------
(* Properties.                                                             *)

(* An upload that was cancelled before the page looked for it is never     *)
(* finalized, on any of its paths, unless another upload of the page       *)
(* clears the flag first.                                                  *)
CancelHolds ==
  \A t \in Tasks : task[t].cancelled =>
    task[t].pc \notin {"finalize", "finalized", "navigate"} /\ \A k \in Kinds : clip[t][k] # "final"

(* A file that is deleted, with or without asking, has a finalized clip,   *)
(* whatever failed before and whatever else was uploaded; the exception    *)
(* is a dialog on a page that was reset.                                   *)
SafeDelete == \A f \in Files : disk[f] \in {"auto", "asked"} => Stored(f)

(* "The clip is safely stored on the server." (EditorPage.tsx:988), says   *)
(* the dialog of the file it offers to delete.                             *)
DeletedIsStored == \A f \in Files : disk[f] # "there" => Stored(f)

(* One upload leaves two clips on the server only if it did not learn that *)
(* the first had arrived.                                                  *)
TwiceOnlyWhenLost ==
  \A t \in Tasks : (clip[t]["trim"] # "none" /\ clip[t]["src"] # "none") => task[t].lost

(* The upload button comes back after every outcome of every path.         *)
ButtonComesBack == page.processing ~> ~page.processing
=============================================================================
