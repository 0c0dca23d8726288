------------------------- MODULE EditorUploadProofs -------------------------
(***************************************************************************)
(* Theorems about EditorUpload, for any number of files, selections,       *)
(* uploads and failures: cancelled uploads stay cancelled, a deleted file  *)
(* has its clip, and only a lost answer makes two clips of one upload.     *)
(***************************************************************************)
EXTENDS EditorUpload, TLAPS

-----------------------------------------------------------------------------
(* The invariant.                                                          *)

PageType ==
  [step : {"select", "editing"}, picks : {"no", "picking", "serving"},
   file : Files \cup {NoFile}, served : 0..MaxSelects,
   processing : BOOLEAN, dialog : 0..MaxUploads, abort : BOOLEAN, reset : BOOLEAN]
TaskType ==
  [pc : {"none", "trim", "send", "answer", "finalize", "finalized", "navigate", "ended"},
   trims : BOOLEAN, kind : Kinds, file : Files \cup {NoFile},
   served : 0..MaxSelects, auto : BOOLEAN, here : BOOLEAN, abort : BOOLEAN,
   cancelled : BOOLEAN, lost : BOOLEAN]
DiskType == [Files -> {"there", "auto", "asked", "blind"}]

(* TypeOK, but for what an upload that has begun must have. *)
Types ==
  /\ disk \in DiskType
  /\ selects \in 0..MaxSelects
  /\ chosen \in [1..MaxSelects -> Files \cup {NoFile}]
  /\ media \subseteq 1..selects
  /\ auto \in BOOLEAN
  /\ page \in PageType
  /\ task \in [Tasks -> TaskType]
  /\ clip \in [Tasks -> [Kinds -> {"none", "draft", "final"}]]
  /\ faults \in 0..MaxFaults

NoFinal(t) == \A k \in Kinds : clip[t][k] # "final"

(* An upload has a final clip when it finalized one and not before, and a  *)
(* cancelled one never gets there, because it will find the flag.          *)
Finals(t) ==
  /\ task[t].pc \notin {"finalized", "navigate", "ended"} => NoFinal(t)
  /\ task[t].pc = "finalized" => clip[t][task[t].kind] = "final"
  /\ task[t].cancelled =>
       task[t].pc \in {"trim", "send", "answer", "ended"} /\ Aborted(t) /\ NoFinal(t)

(* An upload of the mounted page is of the selected file, or the page was  *)
(* reset since it was mounted.                                             *)
OfPage(t) ==
  task[t].here =>
    /\ task[t].pc # "none"
    /\ \/ page.reset
       \/ page.step = "editing" /\ page.picks = "no" /\ page.file = task[t].file

(* The fallback runs when the first attempt left nothing, or unknowingly.  *)
Attempts(t) ==
  /\ task[t].pc = "none" => \A k \in Kinds : clip[t][k] = "none"
  /\ clip[t]["src"] # "none" => task[t].kind = "src"
  /\ (clip[t]["trim"] # "none" /\ task[t].kind = "src") => task[t].lost
  /\ (task[t].pc \in {"trim", "send"} /\ task[t].kind = "trim") => clip[t]["trim"] = "none"
  /\ task[t].pc = "none" => task[t] = NoTask

(* An upload has a file, and sends that very file. *)
SendsChosen(t) ==
  task[t].pc # "none" =>
    /\ task[t].file \in Files
    /\ task[t].served \in 1..selects
    /\ chosen[task[t].served] = task[t].file

TaskInv(t) == Finals(t) /\ OfPage(t) /\ Attempts(t) /\ SendsChosen(t)

(* A name the page has is of the selected file, unless the page was reset  *)
(* while the file was being served.                                        *)
PageNames ==
  /\ page.step = "select" \/ page.picks # "no" => page.served = 0
  /\ page.picks = "serving" =>
       /\ selects \in 1..MaxSelects /\ chosen[selects] \in Files
       /\ page.file # NoFile => chosen[selects] = page.file
  /\ page.served # 0 =>
       /\ page.served \in 1..selects
       /\ page.file # NoFile => chosen[page.served] = page.file

(* The dialog is of an upload that was finalized, and of the selected file *)
(* unless the page was reset.                                              *)
Dialog ==
  page.dialog # 0 =>
    /\ task[page.dialog].pc \in {"navigate", "ended"}
    /\ ~NoFinal(page.dialog)
    /\ ~page.reset => page.picks = "no" /\ Stored(page.file)

IInv ==
  /\ Types
  /\ \A t \in Tasks : TaskInv(t)
  /\ PageNames
  /\ Dialog
  /\ SafeDelete

-----------------------------------------------------------------------------
(* Writers.                                                                *)

(* Selections only add to what was chosen. *)
ChosenStays ==
  selects' \in Nat /\ selects' >= selects /\ \A n \in 1..selects : chosen'[n] = chosen[n]

LEMMA ChosenAsItWas ==
  ASSUME IInv, UNCHANGED <<selects, chosen>>
  PROVE  ChosenStays
  BY EditorAssumption DEF IInv, Types, ChosenStays

(* Final clips of uploads under way stay.                                  *)
LEMMA StoredStays ==
  ASSUME IInv, NEW f, Stored(f), ChosenStays,
         \A t \in Tasks : task[t].pc # "none" =>
           task'[t].file = task[t].file /\ task'[t].served = task[t].served,
         \A t \in Tasks, k \in Kinds : clip[t][k] = "final" => clip'[t][k] = "final"
  PROVE  Stored(f)'
  <1>1. PICK t \in Tasks, k \in Kinds : clip[t][k] = "final" /\ Shown(t, k) = f
    BY DEF Stored
  <1>2. task[t].pc # "none"
    BY <1>1 DEF IInv, TaskInv, Finals, NoFinal
  <1>3. task[t].served \in 1..selects
    BY <1>2 DEF IInv, TaskInv, SendsChosen
  <1>4. Shown(t, k)' = Shown(t, k)
    BY <1>2, <1>3 DEF Shown, ChosenStays
  <1>. QED BY <1>1, <1>4 DEF Stored

(* What a deleted file needs. *)
DiskKeeps ==
  /\ disk' \in DiskType
  /\ \A f \in Files : disk'[f] \in {"auto", "asked"} =>
       disk[f] \in {"auto", "asked"} \/ Stored(f)

LEMMA DiskAsItWas ==
  ASSUME IInv, UNCHANGED disk
  PROVE  DiskKeeps
  BY DEF IInv, Types, DiskKeeps

LEMMA RemoveKeeps ==
  ASSUME IInv, NEW f, NEW how \in {"auto", "asked", "blind"}, Remove(f, how),
         how \in {"auto", "asked"} => Stored(f)
  PROVE  DiskKeeps /\ faults' \in 0..MaxFaults
  <1>1. disk \in DiskType /\ faults \in 0..MaxFaults
    BY DEF IInv, Types
  <1>2. CASE Fault /\ UNCHANGED disk
    BY <1>1, <1>2, DiskAsItWas, EditorAssumption DEF Fault
  <1>3. CASE /\ disk' = [g \in Files |-> IF g = f /\ disk[g] = "there" THEN how ELSE disk[g]]
             /\ UNCHANGED faults
    BY <1>1, <1>3 DEF DiskKeeps, DiskType
  <1>. QED BY <1>2, <1>3 DEF Remove

(* What the page keeps for an upload that runs on it. *)
KeepsPage ==
  /\ page'.abort = page.abort /\ page'.reset = page.reset /\ page'.file = page.file
  /\ page'.picks = page.picks
  /\ page'.step = page.step \/ page'.step = "editing"

LEMMA TaskStays ==
  ASSUME IInv, NEW u \in Tasks, ChosenStays,
         task'[u] = task[u], clip'[u] = clip[u], task[u].here => KeepsPage
  PROVE  TaskInv(u)'
  <1>1. TaskInv(u)
    BY DEF IInv
  <1>2. NoFinal(u)' <=> NoFinal(u)
    BY DEF NoFinal
  <1>3. Aborted(u)' <=> Aborted(u)
    BY DEF Aborted, KeepsPage
  <1>4. selects \in Nat
    BY EditorAssumption DEF IInv, Types
  <1>5. SendsChosen(u)'
    <2>1. CASE task[u].pc = "none"
      BY <2>1 DEF SendsChosen
    <2>2. CASE task[u].pc # "none"
      <3>1. task[u].served \in 1..selects /\ chosen[task[u].served] = task[u].file
            /\ task[u].file \in Files
        BY <1>1, <2>2 DEF TaskInv, SendsChosen
      <3>. QED BY <3>1, <1>4 DEF SendsChosen, ChosenStays
    <2>. QED BY <2>1, <2>2
  <1>6. Finals(u)'
    BY <1>1, <1>2, <1>3 DEF TaskInv, Finals
  <1>7. OfPage(u)' /\ Attempts(u)'
    BY <1>1 DEF TaskInv, OfPage, Attempts, KeepsPage
  <1>. QED BY <1>5, <1>6, <1>7 DEF TaskInv

(* A step of one upload that leaves the page in place. *)
LEMMA TaskSteps ==
  ASSUME IInv, NEW t \in Tasks, NEW v \in TaskType,
         task' = [task EXCEPT ![t] = v], page' \in PageType, KeepsPage,
         v.file = task[t].file, v.here = task[t].here, v.abort = task[t].abort,
         v.served = task[t].served, page'.served = page.served,
         DiskKeeps, UNCHANGED <<selects, chosen, media, auto>>, faults' \in 0..MaxFaults,
         clip' \in [Tasks -> [Kinds -> {"none", "draft", "final"}]],
         \A u \in Tasks \ {t} : clip'[u] = clip[u],
         \A k \in Kinds : clip[t][k] = "final" => clip'[t][k] = "final",
         v.pc # "none", task[t].pc # "none",
         task[t].pc \in {"navigate", "ended"} => v.pc \in {"navigate", "ended"},
         Finals(t)', Attempts(t)',
         \/ page'.dialog = page.dialog
         \/ /\ page'.dialog = t /\ v.here /\ v.pc = "ended" /\ ~NoFinal(t)
            /\ Stored(v.file)
  PROVE  IInv'
  <1>1. Types /\ TaskInv(t) /\ PageNames
    BY DEF IInv
  <1>2. task'[t] = v /\ \A u \in Tasks \ {t} : task'[u] = task[u]
    BY <1>1 DEF Types
  <1>0. ChosenStays
    BY ChosenAsItWas
  <1>3. \A u \in Tasks \ {t} : TaskInv(u)'
    BY <1>0, <1>2, TaskStays
  <1>4. OfPage(t)' /\ SendsChosen(t)'
    BY <1>1, <1>2 DEF TaskInv, OfPage, KeepsPage, SendsChosen
  <1>5. \A f : Stored(f) => Stored(f)'
    <2>1. \A u \in Tasks, k \in Kinds : clip[u][k] = "final" => clip'[u][k] = "final"
      OBVIOUS
    <2>2. \A u \in Tasks : task'[u].file = task[u].file /\ task'[u].served = task[u].served
      BY <1>2
    <2>. QED BY <1>0, <2>1, <2>2, StoredStays
  <1>6. Dialog'
    <2>0. \A u \in Tasks : ~NoFinal(u) => ~NoFinal(u)'
      BY DEF NoFinal
    <2>1. CASE page'.dialog = page.dialog
      <3>1. SUFFICES ASSUME page.dialog # 0 PROVE Dialog'
        BY <2>1 DEF Dialog
      <3>2. page.dialog \in Tasks
        BY <1>1, <3>1, EditorAssumption DEF Types, PageType, Tasks
      <3>3. task'[page.dialog].pc \in {"navigate", "ended"} /\ ~NoFinal(page.dialog)
        BY <1>2, <3>1, <3>2 DEF IInv, Dialog
      <3>4. ~NoFinal(page.dialog)'
        BY <2>0, <2>1, <3>2, <3>3 DEF NoFinal
      <3>. QED BY <1>5, <2>1, <3>1, <3>3, <3>4 DEF IInv, Dialog, KeepsPage
    <2>2. CASE /\ page'.dialog = t /\ v.here /\ v.pc = "ended" /\ ~NoFinal(t)
               /\ Stored(v.file)
      <3>1. ~NoFinal(page.dialog)'
        BY <2>0, <2>2 DEF NoFinal
      <3>2. ~page.reset => page.picks = "no" /\ page.file = v.file
        BY <1>1, <2>2 DEF TaskInv, OfPage
      <3>. QED BY <1>2, <1>5, <2>2, <3>1, <3>2 DEF KeepsPage, Dialog
    <2>. QED BY <2>1, <2>2
  <1>7. SafeDelete'
    BY <1>5 DEF IInv, SafeDelete, DiskKeeps
  <1>8. Types'
    <2>1. task' \in [Tasks -> TaskType]
      BY <1>1 DEF Types
    <2>. QED BY <1>1, <2>1 DEF Types, DiskKeeps
  <1>9. PageNames'
    BY <1>1 DEF PageNames, KeepsPage
  <1>. QED BY <1>3, <1>4, <1>6, <1>7, <1>8, <1>9 DEF IInv, TaskInv

LEMMA LeftType ==
  ASSUME NEW w \in TaskType, NEW b, b \in BOOLEAN, NEW a, a \in BOOLEAN
  PROVE  [w EXCEPT !.here = b, !.abort = a] \in TaskType
  BY DEF TaskType

(* Leaving the page takes its dialog away and leaves its uploads alone. *)
LEMMA Leaving ==
  ASSUME IInv, NEW tasks \in [Tasks -> TaskType], Leave(tasks),
         \A t \in Tasks :
           /\ tasks[t].file = task[t].file /\ tasks[t].here = task[t].here
           /\ tasks[t].abort = task[t].abort /\ tasks[t].kind = task[t].kind
           /\ tasks[t].served = task[t].served
           /\ tasks[t].cancelled = task[t].cancelled /\ tasks[t].lost = task[t].lost
           /\ task[t].pc = "none" => tasks[t] = task[t]
           /\ tasks[t].pc = task[t].pc
              \/ (task[t].pc = "navigate" /\ tasks[t].pc = "ended"),
         UNCHANGED <<disk, selects, chosen, media, auto, clip, faults>>
  PROVE  IInv'
  <1>1. Types
    BY DEF IInv
  <1>2. ASSUME NEW t \in Tasks
        PROVE  /\ task'[t].file = task[t].file /\ task'[t].kind = task[t].kind
               /\ task'[t].served = task[t].served
               /\ task[t].here \/ task'[t] = tasks[t]
               /\ task'[t].cancelled = task[t].cancelled
               /\ task'[t].lost = task[t].lost /\ task'[t].here = FALSE
               /\ task'[t].abort = Aborted(t)
               /\ task'[t].pc = task[t].pc
                  \/ (task[t].pc = "navigate" /\ task'[t].pc = "ended")
    <2>1. tasks[t] \in TaskType
      OBVIOUS
    <2>2. CASE tasks[t].here
      <3>1. task'[t] = [tasks[t] EXCEPT !.here = FALSE, !.abort = page.abort]
        BY <2>2 DEF Leave
      <3>. QED BY <2>1, <2>2, <3>1 DEF Aborted, TaskType
    <2>3. CASE ~tasks[t].here
      <3>1. task'[t] = tasks[t] /\ tasks[t].here = FALSE
        BY <2>1, <2>3 DEF Leave, TaskType
      <3>. QED BY <2>1, <2>3, <3>1 DEF Aborted
    <2>. QED BY <2>2, <2>3
  <1>3. ASSUME NEW t \in Tasks PROVE TaskInv(t)'
    <2>1. TaskInv(t)
      BY DEF IInv
    <2>2. NoFinal(t)' <=> NoFinal(t)
      BY DEF NoFinal
    <2>3. Aborted(t)' <=> Aborted(t)
      BY <1>2 DEF Aborted
    <2>4. Finals(t)'
      BY <1>2, <2>1, <2>2, <2>3 DEF TaskInv, Finals
    <2>5. OfPage(t)' /\ SendsChosen(t)'
      BY <1>2, <2>1 DEF TaskInv, OfPage, SendsChosen
    <2>6. Attempts(t)'
      <3>1. task[t].pc = "none" => ~task[t].here
        BY <2>1 DEF TaskInv, Attempts, NoTask
      <3>2. task[t].pc = "none" => task'[t] = task[t]
        BY <1>2, <3>1
      <3>. QED BY <1>2, <2>1, <3>2 DEF TaskInv, Attempts
    <2>. QED BY <2>4, <2>5, <2>6 DEF TaskInv
  <1>4. \A f : Stored(f) => Stored(f)'
    BY <1>2, StoredStays, ChosenAsItWas
  <1>5. Dialog' /\ SafeDelete' /\ PageNames'
    BY <1>4 DEF IInv, Dialog, SafeDelete, PageNames, Leave, Fresh
  <1>6. Types'
    <2>1. page.abort \in BOOLEAN
      BY <1>1 DEF Types, PageType
    <2>2. task' \in [Tasks -> TaskType]
      <3>1. ASSUME NEW t \in Tasks
            PROVE  [tasks[t] EXCEPT !.here = FALSE, !.abort = page.abort] \in TaskType
        <4>1. tasks[t] \in TaskType
          OBVIOUS
        <4>. QED BY <2>1, <4>1, LeftType, FALSE \in BOOLEAN, Zenon
      <3>. QED BY <3>1, Zenon DEF Leave
    <2>3. page' = Fresh
      BY DEF Leave
    <2>4. page' \in PageType
      BY <2>3, EditorAssumption DEF Fresh, PageType
    <2>. QED BY <1>1, <2>2, <2>4 DEF Types, PageType
  <1>. QED BY <1>3, <1>5, <1>6 DEF IInv

-----------------------------------------------------------------------------
(* The steps of an upload.                                                 *)

SetPage(s, b, d) == [page EXCEPT !.step = s, !.processing = b, !.dialog = d]
SetTask(t, pc, k, l) == [task[t] EXCEPT !.pc = pc, !.kind = k, !.lost = l]

LEMMA SetPageType ==
  ASSUME NEW q \in PageType, NEW s \in {"select", "editing"}, NEW b, b \in BOOLEAN,
         NEW d \in 0..MaxUploads
  PROVE  [q EXCEPT !.step = s, !.processing = b, !.dialog = d] \in PageType
  BY DEF PageType

LEMMA SetTaskType ==
  ASSUME NEW w \in TaskType, NEW pc \in {"trim", "send", "answer", "finalize", "finalized", "navigate", "ended"},
         NEW k \in Kinds, NEW l, l \in BOOLEAN
  PROVE  [w EXCEPT !.pc = pc, !.kind = k, !.lost = l] \in TaskType
  BY DEF TaskType

(* The page or its upload as they are. *)
LEMMA SetNothing ==
  ASSUME IInv, NEW t \in Tasks
  PROVE  /\ page = SetPage(page.step, page.processing, page.dialog)
         /\ task[t] = SetTask(t, task[t].pc, task[t].kind, task[t].lost)
  <1>1. page \in PageType /\ task[t] \in TaskType
    BY DEF IInv, Types
  <1>2. page = SetPage(page.step, page.processing, page.dialog)
    BY <1>1 DEF PageType, SetPage
  <1>3. task[t] = SetTask(t, task[t].pc, task[t].kind, task[t].lost)
    BY <1>1 DEF TaskType, SetTask
  <1>. QED BY <1>2, <1>3

(* The page as a handler may leave it: nothing changes when it is gone. *)
MayShow ==
  \E s \in {page.step, "editing"}, b \in {page.processing, FALSE} :
    page' = SetPage(s, b, page.dialog)

LEMMA Shows ==
  ASSUME IInv, NEW t \in Tasks,
         \/ page' = page
         \/ page' = Unlock(t)
         \/ page' = OnPage(t, [page EXCEPT !.step = "editing"])
         \/ page' = OnPage(t, [page EXCEPT !.step = "editing", !.processing = FALSE])
  PROVE  MayShow
  <1>. DEFINE s == page.step
              b == page.processing
  <1>1. page = SetPage(s, b, page.dialog)
    BY SetNothing
  <1>2. [page EXCEPT !.processing = FALSE] = SetPage(s, FALSE, page.dialog)
    BY DEF IInv, Types, SetPage
  <1>3. [page EXCEPT !.step = "editing"] = SetPage("editing", b, page.dialog)
    BY DEF IInv, Types, SetPage
  <1>4. [page EXCEPT !.step = "editing", !.processing = FALSE] = SetPage("editing", FALSE, page.dialog)
    BY DEF IInv, Types, SetPage
  <1>. HIDE DEF s, b
  <1>5. page' \in {SetPage(s, b, page.dialog), SetPage(s, FALSE, page.dialog),
                   SetPage("editing", b, page.dialog), SetPage("editing", FALSE, page.dialog)}
    BY <1>1, <1>2, <1>3, <1>4, Zenon DEF Unlock, OnPage
  <1>. QED BY <1>5, Zenon DEF MayShow, s, b

LEMMA UploadSteps ==
  ASSUME IInv, NEW t \in Tasks, task[t].pc # "none",
         NEW pc \in {"trim", "send", "answer", "finalize", "finalized", "navigate", "ended"},
         task[t].pc \in {"navigate", "ended"} => pc \in {"navigate", "ended"},
         NEW k \in Kinds, NEW l, l \in BOOLEAN,
         task' = [task EXCEPT ![t] = SetTask(t, pc, k, l)],
         MayShow, DiskKeeps, UNCHANGED <<selects, chosen, media, auto>>, faults' \in 0..MaxFaults,
         clip' \in [Tasks -> [Kinds -> {"none", "draft", "final"}]],
         \A u \in Tasks \ {t} : clip'[u] = clip[u],
         \A j \in Kinds : clip[t][j] = "final" => clip'[t][j] = "final",
         Finals(t)', Attempts(t)'
  PROVE  IInv'
  <1>. DEFINE v == SetTask(t, pc, k, l)
  <1>1. page \in PageType /\ task[t] \in TaskType
    BY DEF IInv, Types, PageType, TaskType
  <1>2. v \in TaskType
    BY <1>1, SetTaskType DEF SetTask
  <1>3. /\ v.file = task[t].file /\ v.here = task[t].here /\ v.abort = task[t].abort
        /\ v.served = task[t].served /\ v.pc = pc /\ pc # "none"
    BY <1>1 DEF SetTask, TaskType
  <1>4. PICK s \in {page.step, "editing"}, b \in {page.processing, FALSE} :
          page' = SetPage(s, b, page.dialog)
    BY DEF MayShow
  <1>5. s \in {"select", "editing"} /\ page.dialog \in 0..MaxUploads
    BY <1>1, <1>4 DEF PageType
  <1>6. b \in BOOLEAN
    BY <1>1, <1>4 DEF PageType
  <1>7. page' \in PageType
    BY <1>1, <1>4, <1>5, <1>6, SetPageType DEF SetPage
  <1>8. KeepsPage /\ page'.served = page.served /\ page'.dialog = page.dialog
    BY <1>1, <1>4 DEF SetPage, PageType, KeepsPage
  <1>. HIDE DEF v
  <1>. QED BY <1>2, <1>3, <1>7, <1>8, TaskSteps DEF v

(* A failure that is caught. *)
LEMMA CaughtKeeps ==
  ASSUME IInv, NEW t \in Tasks, NEW lost, lost \in BOOLEAN, Caught(t, lost),
         task[t].pc \in {"trim", "send", "answer"},
         task[t].pc = "answer" => lost,
         UNCHANGED <<disk, selects, chosen, media, auto, clip>>, faults' \in 0..MaxFaults
  PROVE  IInv'
  <1>. DEFINE again == task[t].trims /\ task[t].kind = "trim" /\ ~Aborted(t)
              pc == IF again THEN "send" ELSE "ended"
              k == IF again THEN "src" ELSE task[t].kind
              l == task[t].lost \/ lost
  <1>1. task[t] \in TaskType /\ task \in [Tasks -> TaskType] /\ TaskInv(t)
    BY DEF IInv, Types, TaskType
  <1>2. task' = [task EXCEPT ![t] = SetTask(t, pc, k, l)]
    BY DEF Caught, SetTask
  <1>3. MayShow
    BY Shows, Zenon DEF Caught, Unlock
  <1>4. pc \in {"send", "ended"} /\ k \in Kinds
    BY <1>1 DEF TaskType, Kinds
  <1>5. l \in BOOLEAN
    OBVIOUS
  <1>6. /\ task'[t].pc = pc /\ task'[t].kind = k /\ task'[t].file = task[t].file
        /\ task'[t].here = task[t].here /\ task'[t].abort = task[t].abort
    BY <1>1, <1>2 DEF SetTask, TaskType
  <1>7. task'[t].cancelled <=> task[t].cancelled
    BY <1>1, <1>2 DEF SetTask, TaskType
  <1>8. task'[t].lost <=> l
    <2>. HIDE DEF pc, k, l
    <2>. QED BY <1>1, <1>2 DEF SetTask, TaskType
  <1>9. Aborted(t)' <=> Aborted(t)
    BY <1>3, <1>6 DEF Aborted, MayShow, SetPage, IInv, Types
  <1>10. NoFinal(t) /\ NoFinal(t)'
    BY <1>1 DEF TaskInv, Finals, NoFinal
  <1>11. Finals(t)'
    BY <1>1, <1>6, <1>7, <1>9, <1>10 DEF TaskInv, Finals
  <1>12. Attempts(t)'
    BY <1>1, <1>6, <1>8 DEF TaskInv, Attempts
  <1>13. DiskKeeps
    BY DiskAsItWas
  <1>. HIDE DEF pc, k, l
  <1>. QED BY <1>2, <1>3, <1>4, <1>5, <1>10, <1>11, <1>12, <1>13, UploadSteps DEF IInv, Types

(* The rest of the steps of handleUpload. *)
LEMMA StepKeeps ==
  ASSUME IInv, NEW t \in Tasks, Step(t), ~Navigated(t)
  PROVE  IInv'
  <1>1. task[t] \in TaskType /\ task \in [Tasks -> TaskType] /\ TaskInv(t)
    BY DEF IInv, Types, TaskType
  <1>2. Types
    BY DEF IInv
  <1>. DEFINE k == task[t].kind
              l == task[t].lost
  <1>3. k \in Kinds /\ "trim" \in Kinds /\ "src" \in Kinds
    BY <1>1 DEF TaskType, Kinds
  <1>4. l \in BOOLEAN
    BY <1>1 DEF TaskType
  <1>5. ASSUME NEW pc \in {"trim", "send", "answer", "finalize", "finalized", "navigate", "ended"}, Goto(t, pc)
        PROVE  /\ task' = [task EXCEPT ![t] = SetTask(t, pc, k, l)]
               /\ task'[t].pc = pc /\ task'[t].kind = k /\ task'[t].file = task[t].file
               /\ task'[t].here = task[t].here /\ task'[t].abort = task[t].abort
               /\ task'[t].cancelled = task[t].cancelled /\ task'[t].lost = l
    <2>1. task' = [task EXCEPT ![t] = [task[t] EXCEPT !.pc = pc]]
      BY <1>5 DEF Goto
    <2>2. [task[t] EXCEPT !.pc = pc] = SetTask(t, pc, k, l)
      BY <1>1 DEF SetTask, TaskType
    <2>3. task'[t] = [task[t] EXCEPT !.pc = pc]
      BY <1>1, <2>1
    <2>. QED BY <1>1, <2>1, <2>2, <2>3 DEF TaskType
  <1>6. ASSUME MayShow, task'[t].here = task[t].here, task'[t].abort = task[t].abort
        PROVE  Aborted(t)' <=> Aborted(t)
    BY <1>2, <1>6 DEF Aborted, MayShow, SetPage, Types, PageType
  <1>17. ASSUME NEW pc \in {"send", "answer", "finalize", "finalized", "navigate", "ended"}, Goto(t, pc),
                task[t].pc \notin {"none", "navigate", "ended"}, MayShow,
                UNCHANGED <<disk, selects, chosen, media, auto>>, faults' \in 0..MaxFaults,
                clip' \in [Tasks -> [Kinds -> {"none", "draft", "final"}]],
                \A u \in Tasks \ {t} : clip'[u] = clip[u],
                \A j \in Kinds : clip[t][j] = "final" => clip'[t][j] = "final",
                Finals(t)', Attempts(t)'
         PROVE  IInv'
    <2>. HIDE DEF k, l
    <2>1. task' = [task EXCEPT ![t] = SetTask(t, pc, k, l)]
      BY <1>5, <1>17
    <2>2. DiskKeeps
      BY <1>17, DiskAsItWas
    <2>. QED BY <1>3, <1>4, <1>17, <2>1, <2>2, UploadSteps
  <1>7. CASE Trimmed(t)
    <2>. DEFINE pc == IF Aborted(t) THEN "ended" ELSE "send"
    <2>1. Goto(t, pc) /\ task[t].pc = "trim" /\ UNCHANGED <<disk, selects, chosen, media, auto, clip, faults>>
      BY <1>7 DEF Trimmed, At
    <2>2. MayShow
      BY <1>7, Shows DEF Trimmed
    <2>3. pc \in {"send", "ended"}
      OBVIOUS
    <2>. HIDE DEF pc, k, l
    <2>4. NoFinal(t) /\ NoFinal(t)'
      BY <1>1, <2>1 DEF TaskInv, Finals, NoFinal
    <2>5. Finals(t)'
      BY <1>1, <1>5, <1>6, <2>1, <2>2, <2>3, <2>4 DEF TaskInv, Finals
    <2>6. Attempts(t)'
      BY <1>1, <1>5, <2>1, <2>3 DEF TaskInv, Attempts, k, l
    <2>. QED BY <1>2, <1>17, <2>1, <2>2, <2>3, <2>5, <2>6 DEF Types
  <1>8. CASE TrimFails(t)
    <2>1. faults' \in 0..MaxFaults
      BY <1>2, <1>8, EditorAssumption DEF TrimFails, Fault, Types
    <2>2. Caught(t, FALSE) /\ task[t].pc = "trim" /\ UNCHANGED <<disk, selects, chosen, media, auto, clip>>
      BY <1>8 DEF TrimFails, At
    <2>. QED BY <2>1, <2>2, CaughtKeeps, FALSE \in BOOLEAN
  <1>9. CASE SendFails(t)
    <2>1. faults' \in 0..MaxFaults
      BY <1>2, <1>9, EditorAssumption DEF SendFails, Fault, Types
    <2>2. Caught(t, FALSE) /\ task[t].pc = "send" /\ UNCHANGED <<disk, selects, chosen, media, auto, clip>>
      BY <1>9 DEF SendFails, At
    <2>. QED BY <2>1, <2>2, CaughtKeeps, FALSE \in BOOLEAN
  <1>10. CASE AnswerLost(t)
    <2>1. faults' \in 0..MaxFaults
      BY <1>2, <1>10, EditorAssumption DEF AnswerLost, Fault, Types
    <2>2. Caught(t, TRUE) /\ task[t].pc = "answer" /\ UNCHANGED <<disk, selects, chosen, media, auto, clip>>
      BY <1>10 DEF AnswerLost, At
    <2>. QED BY <2>1, <2>2, CaughtKeeps, TRUE \in BOOLEAN
  <1>11. CASE Send(t)
    <2>1. /\ Goto(t, "answer") /\ task[t].pc = "send"
          /\ UNCHANGED <<page, disk, selects, chosen, media, auto, faults>>
          /\ clip' = [clip EXCEPT ![t][k] = "draft"]
      BY <1>11 DEF Send, At
    <2>2. MayShow
      BY <2>1, Shows
    <2>. HIDE DEF k, l
    <2>3. /\ clip' \in [Tasks -> [Kinds -> {"none", "draft", "final"}]]
          /\ \A u \in Tasks \ {t} : clip'[u] = clip[u]
          /\ clip'[t][k] = "draft" /\ \A j \in Kinds \ {k} : clip'[t][j] = clip[t][j]
      BY <1>2, <1>3, <2>1 DEF Types
    <2>4. NoFinal(t) /\ NoFinal(t)'
      BY <1>1, <2>1, <2>3 DEF TaskInv, Finals, NoFinal
    <2>5. Finals(t)'
      BY <1>1, <1>5, <1>6, <2>1, <2>2, <2>4 DEF TaskInv, Finals
    <2>6. Attempts(t)'
      <3>1. /\ task'[t].pc = "answer" /\ task'[t].kind = k /\ task'[t].lost = l
            /\ task'[t].file = task[t].file
        BY <1>5, <2>1
      <3>2. k = "trim" \/ k = "src"
        BY <1>3 DEF Kinds
      <3>. QED BY <1>1, <1>3, <2>1, <2>3, <3>1, <3>2 DEF TaskInv, Attempts, k, l
    <2>7. \A j \in Kinds : clip[t][j] = "final" => clip'[t][j] = "final"
      BY <2>4 DEF NoFinal
    <2>. QED BY <1>2, <1>17, <2>1, <2>2, <2>3, <2>5, <2>6, <2>7 DEF Types
  <1>12. CASE Answer(t)
    <2>. DEFINE pc == IF Aborted(t) THEN "ended" ELSE "finalize"
    <2>1. Goto(t, pc) /\ task[t].pc = "answer" /\ UNCHANGED <<disk, selects, chosen, media, auto, clip, faults>>
      BY <1>12 DEF Answer, At
    <2>2. MayShow
      BY <1>12, Shows DEF Answer
    <2>3. pc \in {"finalize", "ended"} /\ (Aborted(t) => pc = "ended")
      OBVIOUS
    <2>. HIDE DEF pc, k, l
    <2>4. NoFinal(t) /\ NoFinal(t)'
      BY <1>1, <2>1 DEF TaskInv, Finals, NoFinal
    <2>5. Finals(t)'
      BY <1>1, <1>5, <1>6, <2>1, <2>2, <2>3, <2>4 DEF TaskInv, Finals
    <2>6. Attempts(t)'
      BY <1>1, <1>5, <2>1, <2>3 DEF TaskInv, Attempts, k, l
    <2>. QED BY <1>2, <1>17, <2>1, <2>2, <2>3, <2>5, <2>6 DEF Types
  <1>13. ASSUME NEW pc \in {"ended", "finalized"}, Goto(t, pc), task[t].pc = "finalize",
                MayShow, NEW c \in {clip[t][k], "final"},
                clip' = [clip EXCEPT ![t][k] = c], pc = "finalized" => c = "final",
                UNCHANGED <<disk, selects, chosen, media, auto>>, faults' \in 0..MaxFaults
         PROVE  IInv'
    <2>. HIDE DEF k, l
    <2>1. clip[t][k] \in {"none", "draft", "final"}
      BY <1>2, <1>3 DEF Types
    <2>2. /\ clip' \in [Tasks -> [Kinds -> {"none", "draft", "final"}]]
          /\ \A u \in Tasks \ {t} : clip'[u] = clip[u]
          /\ clip'[t][k] = c /\ \A j \in Kinds \ {k} : clip'[t][j] = clip[t][j]
      BY <1>2, <1>3, <1>13, <2>1 DEF Types
    <2>3. ~task[t].cancelled
      BY <1>1, <1>13 DEF TaskInv, Finals
    <2>4. /\ task'[t].pc = pc /\ task'[t].kind = k /\ task'[t].file = task[t].file
          /\ task'[t].lost = l
      BY <1>5, <1>13
    <2>5. ~task'[t].cancelled
      BY <1>5, <1>13, <2>3
    <2>6. Finals(t)'
      BY <1>13, <2>2, <2>4, <2>5 DEF Finals
    <2>7. Attempts(t)'
      <3>1. k = "trim" \/ k = "src"
        BY <1>3 DEF Kinds
      <3>2. clip[t][k] # "none" \/ c = clip[t][k] \/ c = "final"
        OBVIOUS
      <3>. QED BY <1>1, <1>3, <1>13, <2>2, <2>4, <3>1 DEF TaskInv, Attempts, k, l
    <2>8. \A j \in Kinds : clip[t][j] = "final" => clip'[t][j] = "final"
      BY <1>13, <2>2
    <2>. QED BY <1>13, <1>17, <2>2, <2>6, <2>7, <2>8
  <1>14. CASE Finalize(t)
    <2>1. MayShow
      BY <1>14, Shows DEF Finalize
    <2>. QED BY <1>2, <1>13, <1>14, <2>1 DEF Finalize, At, Types
  <1>15. ASSUME NEW stored \in BOOLEAN, FinalizeFails(t, stored) PROVE IInv'
    <2>1. \/ page' = OnPage(t, [page EXCEPT !.step = "editing"])
          \/ page' = OnPage(t, [page EXCEPT !.step = "editing", !.processing = FALSE])
      BY <1>15 DEF FinalizeFails, Finally
    <2>2. MayShow
      BY <2>1, Shows
    <2>3. faults' \in 0..MaxFaults
      BY <1>2, <1>15, EditorAssumption DEF FinalizeFails, Fault, Types
    <2>4. clip = [clip EXCEPT ![t][k] = clip[t][k]]
      BY <1>2, <1>3 DEF Types
    <2>5. \E c \in {clip[t][k], "final"} : clip' = [clip EXCEPT ![t][k] = c]
      BY <1>15, <2>4 DEF FinalizeFails
    <2>. QED BY <1>13, <1>15, <2>2, <2>3, <2>5 DEF FinalizeFails, At
  <1>16. CASE Finalized(t)
    <2>. DEFINE done == [task EXCEPT ![t].pc = "ended"]
    <2>1. task[t].pc = "finalized" /\ UNCHANGED <<selects, chosen, media, auto, clip>>
      BY <1>16 DEF Finalized, At
    <2>2. /\ Stored(task[t].file) /\ ~NoFinal(t) /\ ~task[t].cancelled
      <3>1. clip[t][k] = "final" /\ Shown(t, k) = task[t].file
        BY <1>1, <1>3, <2>1 DEF TaskInv, Finals, SendsChosen, Shown
      <3>. QED BY <1>1, <1>3, <2>1, <3>1 DEF TaskInv, Finals, NoFinal, Stored
    <2>7. NoFinal(t)' <=> NoFinal(t)
      BY <2>1 DEF NoFinal
    <2>8. /\ clip' \in [Tasks -> [Kinds -> {"none", "draft", "final"}]]
          /\ \A u \in Tasks \ {t} : clip'[u] = clip[u]
          /\ \A j \in Kinds : clip[t][j] = "final" => clip'[t][j] = "final"
      BY <1>2, <2>1 DEF Types
    <2>9. ASSUME NEW pc \in {"navigate", "ended"}, Goto(t, pc) PROVE Finals(t)' /\ Attempts(t)'
      <3>. HIDE DEF k, l
      <3>1. /\ task'[t].pc = pc /\ task'[t].kind = k /\ task'[t].lost = l
            /\ ~task'[t].cancelled
        BY <1>5, <2>2, <2>9
      <3>. QED BY <1>1, <2>1, <2>9, <3>1 DEF TaskInv, Finals, Attempts, k, l
    <2>3. CASE task[t].auto
      <3>1. Remove(task[t].file, "auto") /\ Goto(t, "navigate") /\ UNCHANGED page
        BY <1>16, <2>3 DEF Finalized
      <3>2. DiskKeeps /\ faults' \in 0..MaxFaults
        BY <2>2, <3>1, RemoveKeeps
      <3>3. MayShow
        BY <3>1, Shows
      <3>. HIDE DEF k, l
      <3>4. task' = [task EXCEPT ![t] = SetTask(t, "navigate", k, l)]
        BY <1>5, <3>1
      <3>. QED BY <1>3, <1>4, <2>1, <2>8, <2>9, <3>1, <3>2, <3>3, <3>4, UploadSteps
    <2>4. CASE ~task[t].auto
      <3>1. Goto(t, "ended") /\ UNCHANGED <<disk, faults>>
        BY <1>16, <2>4 DEF Finalized, Goto
      <3>2. page' = OnPage(t, Finally(t, [page EXCEPT !.dialog = t]))
        BY <1>16, <2>4 DEF Finalized
      <3>3. page \in PageType /\ t \in 0..MaxUploads /\ t # 0
        BY <1>2 DEF Types, Tasks
      <3>4. \/ page' = page
            \/ task[t].here /\ \E b \in {page.processing, FALSE} : page' = SetPage(page.step, b, t)
        <4>1. [page EXCEPT !.dialog = t] = SetPage(page.step, page.processing, t)
          BY <3>3 DEF SetPage, PageType
        <4>2. [page EXCEPT !.dialog = t, !.processing = FALSE] = SetPage(page.step, FALSE, t)
          BY <3>3 DEF SetPage, PageType
        <4>3. page' \in {page, [page EXCEPT !.dialog = t], [page EXCEPT !.dialog = t, !.processing = FALSE]}
              /\ (page' = page \/ task[t].here)
          BY <3>2 DEF OnPage, Finally
        <4>. QED BY <4>1, <4>2, <4>3
      <3>5. page' \in PageType
        <4>1. page.processing \in BOOLEAN /\ FALSE \in BOOLEAN /\ page.step \in {"select", "editing"}
          BY <3>3 DEF PageType
        <4>2. \A b : b \in BOOLEAN => SetPage(page.step, b, t) \in PageType
          BY <3>3, <4>1, SetPageType DEF SetPage
        <4>3. \A b \in {page.processing, FALSE} : b \in BOOLEAN
          BY <4>1
        <4>. QED BY <3>3, <3>4, <4>2, <4>3
      <3>6. /\ KeepsPage /\ page'.served = page.served
            /\ page'.dialog = page.dialog \/ (page'.dialog = t /\ task[t].here)
        BY <3>3, <3>4 DEF SetPage, PageType, KeepsPage
      <3>. DEFINE v == SetTask(t, "ended", k, l)
      <3>7. v \in TaskType
        BY <1>1, <1>3, <1>4, SetTaskType DEF SetTask
      <3>8. /\ v.file = task[t].file /\ v.here = task[t].here /\ v.abort = task[t].abort
            /\ v.pc = "ended" /\ v.served = task[t].served
        BY <1>1 DEF SetTask, TaskType
      <3>9. task' = [task EXCEPT ![t] = v]
        BY <1>5, <3>1
      <3>10. DiskKeeps
        BY <3>1, DiskAsItWas
      <3>. HIDE DEF v, k, l
      <3>13. \/ page'.dialog = page.dialog
             \/ /\ page'.dialog = t /\ v.here /\ v.pc = "ended" /\ ~NoFinal(t)
                /\ Stored(v.file)
        BY <2>2, <3>6, <3>8
      <3>14. UNCHANGED <<selects, chosen, media, auto>> /\ faults' \in 0..MaxFaults
        BY <1>2, <2>1, <3>1 DEF Types
      <3>15. Finals(t)' /\ Attempts(t)'
        BY <2>9, <3>1
      <3>. QED BY <2>1, <2>8, <3>5, <3>6, <3>7, <3>8, <3>9, <3>10, <3>13, <3>14, <3>15, TaskSteps
    <2>. QED BY <2>3, <2>4
  <1>. QED BY <1>7, <1>8, <1>9, <1>10, <1>11, <1>12, <1>14, <1>15, <1>16 DEF Step, Transfer

-----------------------------------------------------------------------------
(* What the user does.                                                     *)

(* A step of handleSelectFile: it touches neither uploads nor files. *)
LEMMA PicksKeep ==
  ASSUME IInv, ChosenStays, selects' \in 0..MaxSelects,
         chosen' \in [1..MaxSelects -> Files \cup {NoFile}], media' \subseteq 1..selects',
         page' \in PageType, page'.abort = page.abort, page'.reset = page.reset,
         page'.dialog = page.dialog, faults' \in 0..MaxFaults,
         UNCHANGED <<disk, auto, task, clip>>,
         (page.dialog # 0 \/ \E t \in Tasks : task[t].here) =>
           \/ page.reset
           \/ /\ page'.file = page.file /\ page'.step = page.step
              /\ page'.picks \in {page.picks, "no"},
         PageNames'
  PROVE  IInv'
  <1>1. Types
    BY DEF IInv
  <1>2. \A t \in Tasks : TaskInv(t)'
    <2>1. SUFFICES ASSUME NEW t \in Tasks PROVE TaskInv(t)'
      OBVIOUS
    <2>2. TaskInv(t)
      BY DEF IInv
    <2>3. Aborted(t)' <=> Aborted(t)
      BY DEF Aborted
    <2>4. NoFinal(t)' <=> NoFinal(t)
      BY DEF NoFinal
    <2>5. Finals(t)' /\ Attempts(t)'
      BY <2>2, <2>3, <2>4 DEF TaskInv, Finals, Attempts
    <2>6. OfPage(t)'
      BY <2>2 DEF TaskInv, OfPage
    <2>7. SendsChosen(t)'
      <3>1. selects \in Nat
        BY <1>1, EditorAssumption DEF Types
      <3>. QED BY <2>2, <3>1 DEF TaskInv, SendsChosen, ChosenStays
    <2>. QED BY <2>5, <2>6, <2>7 DEF TaskInv
  <1>3. \A f : Stored(f) => Stored(f)'
    BY StoredStays
  <1>4. Dialog'
    <2>1. page'.dialog # 0 => page'.picks = "no" \/ page'.reset
      BY DEF IInv, Dialog
    <2>2. page'.dialog # 0 /\ ~page'.reset => Stored(page.file)'
      BY <1>3 DEF IInv, Dialog
    <2>. QED BY <2>1, <2>2 DEF IInv, Dialog, NoFinal
  <1>5. SafeDelete'
    BY <1>3 DEF IInv, SafeDelete
  <1>6. Types'
    BY <1>1 DEF Types
  <1>. QED BY <1>2, <1>4, <1>5, <1>6 DEF IInv

LEMMA SelectFileKeeps ==
  ASSUME IInv, SelectFile
  PROVE  IInv'
  <1>. USE EditorAssumption
  <1>1. Types /\ page \in PageType /\ PageNames
    BY DEF IInv, Types
  <1>2. /\ selects \in 0..MaxSelects /\ faults \in 0..MaxFaults
        /\ chosen \in [1..MaxSelects -> Files \cup {NoFile}] /\ media \subseteq 1..selects
    BY <1>1 DEF Types
  <1>3. \A s \in {"select", "editing"}, q \in {"no", "picking", "serving"},
            g \in Files \cup {NoFile}, n \in 0..MaxSelects :
          [page EXCEPT !.step = s, !.picks = q, !.file = g, !.served = n] \in PageType
    BY <1>1 DEF PageType
  <1>4. ASSUME NEW q \in {"no", "picking"}, page' = [page EXCEPT !.picks = q],
               q = "picking" => page.step = "select" /\ page.dialog = 0,
               UNCHANGED <<disk, selects, chosen, media, auto, task, clip>>,
               faults' \in 0..MaxFaults
        PROVE  IInv'
    <2>1. /\ page' \in PageType /\ page'.picks = q
          /\ page'.step = page.step /\ page'.file = page.file /\ page'.served = page.served
          /\ page'.abort = page.abort /\ page'.reset = page.reset /\ page'.dialog = page.dialog
      BY <1>1, <1>4 DEF PageType
    <2>2. PageNames'
      BY <1>1, <1>4, <2>1 DEF PageNames
    <2>3. ChosenStays
      BY <1>4, ChosenAsItWas
    <2>4. q = "picking" => \A t \in Tasks : task[t].here => page.reset
      BY <1>4 DEF IInv, TaskInv, OfPage
    <2>. QED BY <1>2, <1>4, <2>1, <2>2, <2>3, <2>4, PicksKeep
  <1>5. CASE OpenFileDialog \/ CloseFileDialog
    BY <1>2, <1>4, <1>5 DEF OpenFileDialog, CloseFileDialog
  <1>6. CASE ServeLocalFileFails
    BY <1>2, <1>4, <1>6 DEF ServeLocalFileFails, Fault
  <1>7. ASSUME NEW f \in Files, Select(f) PROVE IInv'
    <2>1. /\ page.picks = "picking" /\ selects < MaxSelects /\ selects' = selects + 1
          /\ page' = [page EXCEPT !.picks = "serving", !.file = f]
          /\ chosen' = [chosen EXCEPT ![selects + 1] = f]
          /\ UNCHANGED <<disk, media, auto, task, clip, faults>>
      BY <1>7 DEF Select
    <2>2. /\ page' \in PageType /\ page'.picks = "serving"
          /\ page'.step = page.step /\ page'.file = f /\ page'.served = page.served
          /\ page'.abort = page.abort /\ page'.reset = page.reset /\ page'.dialog = page.dialog
      BY <1>1, <2>1 DEF PageType
    <2>3. /\ selects' \in 1..MaxSelects /\ media' \subseteq 1..selects'
          /\ chosen' \in [1..MaxSelects -> Files \cup {NoFile}] /\ chosen'[selects'] = f
      BY <1>2, <2>1
    <2>4. ChosenStays
      BY <1>2, <2>1 DEF ChosenStays
    <2>5. PageNames'
      BY <1>1, <2>1, <2>2, <2>3 DEF PageNames
    <2>6. \A t \in Tasks : task[t].here => page.reset
      BY <2>1 DEF IInv, TaskInv, OfPage
    <2>7. page.dialog # 0 => page.reset
      BY <2>1 DEF IInv, Dialog
    <2>. QED BY <1>2, <2>1, <2>2, <2>3, <2>4, <2>5, <2>6, <2>7, PicksKeep
  <1>8. CASE ServeLocalFile
    <2>1. /\ page.picks = "serving" /\ media' = media \cup {selects}
          /\ page' = [page EXCEPT !.picks = "no", !.served = selects, !.step = "editing"]
          /\ UNCHANGED <<disk, selects, chosen, auto, task, clip, faults>>
      BY <1>8 DEF ServeLocalFile
    <2>2. /\ page' \in PageType /\ page'.picks = "no"
          /\ page'.step = "editing" /\ page'.file = page.file /\ page'.served = selects
          /\ page'.abort = page.abort /\ page'.reset = page.reset /\ page'.dialog = page.dialog
      BY <1>1, <1>2, <2>1 DEF PageType
    <2>3. selects \in 1..MaxSelects /\ media' \subseteq 1..selects'
      BY <1>1, <1>2, <2>1 DEF PageNames
    <2>4. ChosenStays
      BY <2>1, ChosenAsItWas
    <2>5. PageNames'
      BY <1>1, <2>1, <2>2, <2>3 DEF PageNames
    <2>6. \A t \in Tasks : task[t].here => page.reset
      BY <2>1 DEF IInv, TaskInv, OfPage
    <2>7. page.dialog # 0 => page.reset
      BY <2>1 DEF IInv, Dialog
    <2>. QED BY <1>2, <2>1, <2>2, <2>3, <2>4, <2>5, <2>6, <2>7, PicksKeep
  <1>. QED BY <1>5, <1>6, <1>7, <1>8 DEF SelectFile

LEMMA ResetKeeps ==
  ASSUME IInv, Reset
  PROVE  IInv'
  <1>. USE EditorAssumption
  <1>1. Types /\ page \in PageType /\ task \in [Tasks -> TaskType] /\ PageNames
    BY DEF IInv, Types
  <1>2. /\ media' = media \ {page.served}
        /\ page' = [Fresh EXCEPT !.abort = TRUE, !.reset = TRUE, !.picks = page.picks]
        /\ UNCHANGED <<disk, selects, chosen, auto, clip, faults>>
    BY DEF Reset
  <1>3. page' = [step |-> "select", picks |-> page.picks, file |-> NoFile, served |-> 0, processing |-> FALSE,
                 dialog |-> 0, abort |-> TRUE, reset |-> TRUE]
    BY <1>2 DEF Fresh
  <1>4. page' \in PageType
    BY <1>1, <1>3 DEF PageType
  <1>5. /\ page'.abort = TRUE /\ page'.reset = TRUE /\ page'.dialog = 0
        /\ page'.file = NoFile /\ page'.served = 0 /\ page'.picks = page.picks
    BY <1>3
  <1>6. ASSUME NEW t \in Tasks
        PROVE  /\ task'[t] \in TaskType
               /\ task'[t].pc = task[t].pc /\ task'[t].file = task[t].file
               /\ task'[t].served = task[t].served /\ (task[t].here \/ task'[t] = task[t])
               /\ task'[t].kind = task[t].kind /\ task'[t].lost = task[t].lost
               /\ task'[t].here = task[t].here /\ task'[t].abort = task[t].abort
               /\ task'[t].cancelled = task[t].cancelled
                  \/ (task[t].here /\ task[t].pc \in {"trim", "send", "answer"})
    <2>1. task[t] \in TaskType /\ TRUE \in BOOLEAN
      BY <1>1
    <2>2. \/ task'[t] = task[t]
          \/ /\ task'[t] = [task[t] EXCEPT !.cancelled = TRUE]
             /\ task[t].here /\ task[t].pc \in {"trim", "send", "answer"}
      BY DEF Reset
    <2>3. \A b : b \in BOOLEAN => [task[t] EXCEPT !.cancelled = b] \in TaskType
      BY <2>1 DEF TaskType
    <2>. QED BY <2>1, <2>2, <2>3 DEF TaskType
  <1>7. Types'
    <2>1. task' \in [Tasks -> TaskType]
      <3>1. DOMAIN task' = Tasks /\ task' = [t \in Tasks |-> task'[t]]
        BY Zenon DEF Reset
      <3>. QED BY <1>6, <3>1
    <2>. QED BY <1>1, <1>2, <1>4, <1>5, <2>1 DEF Types
  <1>8. \A t \in Tasks : TaskInv(t)'
    <2>1. SUFFICES ASSUME NEW t \in Tasks PROVE TaskInv(t)'
      OBVIOUS
    <2>2. TaskInv(t)
      BY DEF IInv
    <2>3. NoFinal(t)' <=> NoFinal(t)
      BY <1>2 DEF NoFinal
    <2>4. task[t].here => Aborted(t)'
      BY <1>5, <1>6 DEF Aborted
    <2>5. ~task[t].here => (Aborted(t)' <=> Aborted(t))
      BY <1>6 DEF Aborted
    <2>6. Finals(t)'
      BY <1>2, <1>6, <2>2, <2>3, <2>4, <2>5 DEF TaskInv, Finals
    <2>7. OfPage(t)' /\ SendsChosen(t)'
      BY <1>2, <1>5, <1>6, <2>2 DEF TaskInv, OfPage, SendsChosen
    <2>8. Attempts(t)'
      <3>1. task[t].pc = "none" => ~task[t].here
        BY <2>2 DEF TaskInv, Attempts, NoTask
      <3>. QED BY <1>2, <1>6, <2>2, <3>1 DEF TaskInv, Attempts
    <2>. QED BY <2>6, <2>7, <2>8 DEF TaskInv
  <1>9. \A f : Stored(f) => Stored(f)'
    BY <1>2, <1>6, StoredStays, ChosenAsItWas
  <1>10. Dialog' /\ SafeDelete' /\ PageNames'
    BY <1>1, <1>2, <1>5, <1>9 DEF IInv, Dialog, SafeDelete, PageNames
  <1>. QED BY <1>7, <1>8, <1>10 DEF IInv

LEMMA UploadKeeps ==
  ASSUME IInv, NEW t \in Tasks, NEW trims, trims \in BOOLEAN, Upload(t, trims)
  PROVE  IInv'
  <1>. USE EditorAssumption
  <1>1. Types /\ page \in PageType /\ task \in [Tasks -> TaskType] /\ PageNames
    BY DEF IInv, Types, PageType, TaskType
  <1>2. /\ task[t].pc = "none" /\ page.step = "editing" /\ page.dialog = 0
        /\ page.file # NoFile /\ page.served # 0 /\ page.picks = "no"
        /\ page' = [page EXCEPT !.abort = FALSE, !.processing = TRUE]
        /\ UNCHANGED <<disk, selects, chosen, media, auto, clip, faults>>
    BY DEF Upload, At, IInv, PageNames
  <1>. DEFINE v == [pc |-> IF trims THEN "trim" ELSE "send", trims |-> trims,
                    kind |-> IF trims THEN "trim" ELSE "src", file |-> page.file,
                    served |-> page.served, auto |-> auto, here |-> TRUE,
                    abort |-> FALSE, cancelled |-> FALSE, lost |-> FALSE]
  <1>3. task'[t] = v
    BY DEF Upload, NoTask
  <1>4. \A u \in Tasks \ {t} :
          task'[u] = IF task[u].here THEN [task[u] EXCEPT !.cancelled = FALSE] ELSE task[u]
    BY DEF Upload
  <1>5. /\ v.pc \in {"trim", "send"} /\ v.file = page.file /\ v.served = page.served /\ v.here /\ ~v.cancelled
        /\ v.kind \in Kinds
    BY DEF Kinds
  <1>6. v \in TaskType
    <2>1. /\ page.file \in Files \cup {NoFile} /\ page.served \in 0..MaxSelects
          /\ auto \in BOOLEAN
      BY <1>1 DEF Types, PageType
    <2>2. (IF trims THEN "trim" ELSE "send") \in {"trim", "send"}
          /\ (IF trims THEN "trim" ELSE "src") \in Kinds
      BY DEF Kinds
    <2>. QED BY <2>1, <2>2, Zenon DEF TaskType
  <1>. HIDE DEF v
  <1>7. ASSUME NEW u \in Tasks \ {t}
        PROVE  /\ task'[u] \in TaskType
               /\ task'[u].pc = task[u].pc /\ task'[u].file = task[u].file
               /\ task'[u].served = task[u].served /\ (task[u].here \/ task'[u] = task[u])
               /\ task'[u].kind = task[u].kind /\ task'[u].lost = task[u].lost
               /\ task'[u].here = task[u].here /\ task'[u].abort = task[u].abort
               /\ task'[u].cancelled => task[u].cancelled /\ ~task[u].here
    <2>1. task[u] \in TaskType /\ FALSE \in BOOLEAN
      BY <1>1
    <2>2. \A b : b \in BOOLEAN => [task[u] EXCEPT !.cancelled = b] \in TaskType
      BY <2>1 DEF TaskType
    <2>3. CASE task[u].here
      <3>1. task'[u] = [task[u] EXCEPT !.cancelled = FALSE]
        BY <1>4, <2>3
      <3>2. task'[u] \in TaskType
        BY <2>1, <2>2, <3>1
      <3>. QED BY <2>1, <2>3, <3>1, <3>2 DEF TaskType
    <2>4. CASE ~task[u].here
      BY <1>4, <2>1, <2>4
    <2>. QED BY <2>3, <2>4
  <1>8. page' \in PageType
    <2>1. \A a, b : a \in BOOLEAN /\ b \in BOOLEAN =>
            [page EXCEPT !.abort = a, !.processing = b] \in PageType
      BY <1>1 DEF PageType
    <2>. QED BY <1>2, <2>1, TRUE \in BOOLEAN, FALSE \in BOOLEAN, Zenon
  <1>9. /\ page'.file = page.file /\ page'.served = page.served /\ page'.dialog = 0
        /\ page'.reset = page.reset /\ page'.step = page.step /\ page'.picks = page.picks
    BY <1>1, <1>2 DEF PageType
  <1>10. Types'
    <2>1. task' \in [Tasks -> TaskType]
      <3>1. DOMAIN task' = Tasks /\ task' = [u \in Tasks |-> task'[u]]
        BY Zenon DEF Upload
      <3>2. \A u \in Tasks : task'[u] \in TaskType
        BY <1>3, <1>6, <1>7
      <3>. QED BY <3>1, <3>2
    <2>. QED BY <1>1, <1>2, <1>8, <1>9, <2>1 DEF Types
  <1>11. \A u \in Tasks \ {t} : TaskInv(u)'
    <2>1. SUFFICES ASSUME NEW u \in Tasks \ {t} PROVE TaskInv(u)'
      OBVIOUS
    <2>2. TaskInv(u)
      BY DEF IInv
    <2>3. NoFinal(u)' <=> NoFinal(u)
      BY <1>2 DEF NoFinal
    <2>4. ~task[u].here => (Aborted(u)' <=> Aborted(u))
      BY <1>7 DEF Aborted
    <2>5. Finals(u)'
      BY <1>2, <1>7, <2>2, <2>3, <2>4 DEF TaskInv, Finals
    <2>6. OfPage(u)' /\ SendsChosen(u)'
      BY <1>2, <1>7, <1>9, <2>2 DEF TaskInv, OfPage, SendsChosen
    <2>7. Attempts(u)'
      <3>1. task[u].pc = "none" => ~task[u].here
        BY <2>2 DEF TaskInv, Attempts, NoTask
      <3>. QED BY <1>2, <1>7, <2>2, <3>1 DEF TaskInv, Attempts
    <2>. QED BY <2>5, <2>6, <2>7 DEF TaskInv
  <1>12. TaskInv(t)'
    <2>1. \A k \in Kinds : clip'[t][k] = "none"
      BY <1>2, Zenon DEF IInv, TaskInv, Attempts
    <2>2. clip'[t]["src"] = "none" /\ clip'[t]["trim"] = "none"
      BY <2>1 DEF Kinds
    <2>3. Finals(t)'
      BY <1>3, <1>5, <2>1 DEF Finals, NoFinal
    <2>4. OfPage(t)'
      BY <1>2, <1>3, <1>5, <1>9 DEF OfPage
    <2>5. page.file \in Files
      BY <1>1, <1>2 DEF Types, PageType
    <2>6. Attempts(t)'
      BY <1>3, <1>5, <2>2 DEF Attempts
    <2>7. SendsChosen(t)'
      BY <1>1, <1>2, <1>3, <1>5, <2>5 DEF SendsChosen, PageNames
    <2>. QED BY <2>3, <2>4, <2>6, <2>7 DEF TaskInv
  <1>13. \A f : Stored(f) => Stored(f)'
    BY <1>2, <1>7, StoredStays, ChosenAsItWas
  <1>14. Dialog' /\ SafeDelete' /\ PageNames'
    BY <1>1, <1>2, <1>9, <1>13 DEF IInv, Dialog, SafeDelete, PageNames
  <1>. QED BY <1>10, <1>11, <1>12, <1>14 DEF IInv

LEMMA LeaveKeeps ==
  ASSUME IInv, Leave(task), UNCHANGED <<disk, selects, chosen, media, auto, clip, faults>>
  PROVE  IInv'
  <1>1. task \in [Tasks -> TaskType]
    BY DEF IInv, Types
  <1>. QED BY <1>1, Leaving

(* A clip is shown. *)
LEMMA NavigatedKeeps ==
  ASSUME IInv, NEW t \in Tasks, Navigated(t)
  PROVE  IInv'
  <1>. DEFINE done == [task EXCEPT ![t].pc = "ended"]
  <1>1. task \in [Tasks -> TaskType]
    BY DEF IInv, Types
  <1>2. /\ task[t].pc = "navigate" /\ Leave(done)
        /\ UNCHANGED <<disk, selects, chosen, media, auto, clip, faults>>
    BY DEF Navigated, At
  <1>3. done \in [Tasks -> TaskType]
    <2>1. [task[t] EXCEPT !.pc = "ended"] \in TaskType
      BY <1>1 DEF TaskType
    <2>. QED BY <1>1, <2>1
  <1>4. done[t] = [task[t] EXCEPT !.pc = "ended"] /\ \A u \in Tasks \ {t} : done[u] = task[u]
    BY <1>1
  <1>. HIDE DEF done
  <1>5. \A u \in Tasks :
          /\ done[u].file = task[u].file /\ done[u].here = task[u].here
          /\ done[u].abort = task[u].abort /\ done[u].kind = task[u].kind
          /\ done[u].served = task[u].served
          /\ done[u].cancelled = task[u].cancelled /\ done[u].lost = task[u].lost
          /\ task[u].pc = "none" => done[u] = task[u]
          /\ done[u].pc = task[u].pc
             \/ (task[u].pc = "navigate" /\ done[u].pc = "ended")
    BY <1>1, <1>2, <1>4 DEF TaskType
  <1>. QED BY <1>2, <1>3, <1>5, Leaving

(* The dialog is answered, and its file deleted. *)
LEMMA DeleteSourceKeeps ==
  ASSUME IInv, DeleteSource
  PROVE  IInv'
  <1>0. page.dialog \in Tasks
    BY EditorAssumption DEF IInv, Types, PageType, Tasks, DeleteSource
  <1>. PICK t \in Tasks : t = page.dialog
    BY <1>0
  <1>1. /\ task[t] \in TaskType /\ Types
    BY DEF IInv, Types
  <1>2. /\ Goto(t, "navigate") /\ UNCHANGED <<selects, chosen, media, auto, page, clip>>
        /\ Remove(page.file, IF page.reset THEN "blind" ELSE "asked")
    BY DEF DeleteSource
  <1>3. TaskInv(t) /\ task[t].pc \in {"navigate", "ended"} /\ ~NoFinal(t)
        /\ (~page.reset => Stored(page.file))
    BY <1>1 DEF IInv, Dialog, DeleteSource
  <1>4. DiskKeeps /\ faults' \in 0..MaxFaults
    BY <1>2, <1>3, RemoveKeeps
  <1>. DEFINE k == task[t].kind
              l == task[t].lost
  <1>5. k \in Kinds /\ l \in BOOLEAN
    BY <1>1 DEF TaskType
  <1>6. task' = [task EXCEPT ![t] = SetTask(t, "navigate", k, l)]
    BY <1>1, <1>2 DEF Goto, SetTask, TaskType, Types
  <1>7. task'[t] = [task[t] EXCEPT !.pc = "navigate"]
    BY <1>1, <1>2 DEF Goto, Types
  <1>8. /\ task'[t].pc = "navigate" /\ task'[t].cancelled = task[t].cancelled
        /\ task'[t].kind = task[t].kind /\ task'[t].lost = task[t].lost
    BY <1>1, <1>7 DEF TaskType
  <1>9. Finals(t)' /\ Attempts(t)'
    BY <1>2, <1>3, <1>8 DEF TaskInv, Finals, Attempts
  <1>10. MayShow
    BY <1>1, <1>2, Shows
  <1>11. /\ clip' \in [Tasks -> [Kinds -> {"none", "draft", "final"}]] /\ clip' = clip
    BY <1>1, <1>2 DEF Types
  <1>12. /\ task[t].pc # "none"
         /\ \A u \in Tasks \ {t} : clip'[u] = clip[u]
         /\ \A j \in Kinds : clip[t][j] = "final" => clip'[t][j] = "final"
    BY <1>2, <1>3
  <1>13. UNCHANGED <<selects, chosen, media, auto>>
    BY <1>2
  <1>. HIDE DEF k, l
  <1>. QED BY <1>1, <1>4, <1>5, <1>6, <1>9, <1>10, <1>11, <1>12, <1>13, UploadSteps

-----------------------------------------------------------------------------
(* Every step keeps the invariant.                                         *)

LEMMA InitKeeps == Init => IInv
  <1>. SUFFICES ASSUME Init PROVE IInv
    OBVIOUS
  <1>. USE EditorAssumption
  <1>1. page \in PageType /\ page.file = NoFile /\ page.served = 0 /\ page.dialog = 0
    BY DEF Init, Fresh, PageType
  <1>8. PageNames
    BY DEF Init, Fresh, PageNames
  <1>2. NoTask \in TaskType /\ NoTask.pc = "none" /\ ~NoTask.cancelled /\ ~NoTask.here
    BY DEF NoTask, TaskType, Kinds
  <1>3. task \in [Tasks -> TaskType] /\ \A t \in Tasks : task[t] = NoTask
    BY <1>2 DEF Init
  <1>4. \A t \in Tasks, k \in Kinds : clip[t][k] = "none"
    BY DEF Init
  <1>5. Types
    BY <1>1, <1>3 DEF Init, Types, DiskType
  <1>6. ASSUME NEW t \in Tasks PROVE TaskInv(t)
    <2>1. clip[t]["src"] = "none" /\ clip[t]["trim"] = "none"
      BY <1>4 DEF Kinds
    <2>2. Finals(t)
      BY <1>2, <1>3, <1>4 DEF Finals, NoFinal
    <2>3. OfPage(t) /\ Attempts(t) /\ SendsChosen(t)
      BY <1>2, <1>3, <1>4, <2>1 DEF OfPage, Attempts, SendsChosen
    <2>. QED BY <2>2, <2>3 DEF TaskInv
  <1>7. Dialog /\ SafeDelete
    BY <1>1 DEF Init, Dialog, SafeDelete
  <1>. QED BY <1>5, <1>6, <1>7, <1>8 DEF IInv

LEMMA NextKeeps == IInv /\ [Next]_vars => IInv'
  <1>. SUFFICES ASSUME IInv, [Next]_vars PROVE IInv'
    OBVIOUS
  <1>0. Types
    BY DEF IInv
  <1>1. CASE SelectFile
    BY <1>1, SelectFileKeeps
  <1>2. ASSUME UNCHANGED <<disk, selects, chosen, media, page, task, clip, faults>>, auto' \in BOOLEAN
        PROVE  IInv'
    <2>1. Types'
      BY <1>0, <1>2 DEF Types
    <2>2. Dialog' /\ SafeDelete' /\ PageNames'
      BY <1>2 DEF IInv, Dialog, SafeDelete, PageNames, Stored, Shown, NoFinal
    <2>3. \A t \in Tasks : TaskInv(t)'
      BY <1>2, TaskStays, ChosenAsItWas DEF KeepsPage
    <2>. QED BY <2>1, <2>2, <2>3 DEF IInv
  <1>3. CASE SetAuto
    BY <1>0, <1>2, <1>3 DEF SetAuto
  <1>4. CASE Reset
    BY <1>4, ResetKeeps
  <1>5. CASE Navigate \/ SkipDelete
    BY <1>0, <1>5, LeaveKeeps DEF Navigate, SkipDelete, Types
  <1>6. CASE DeleteSource
    BY <1>6, DeleteSourceKeeps
  <1>7. ASSUME NEW t \in Tasks, Step(t) PROVE IInv'
    BY <1>7, StepKeeps, NavigatedKeeps
  <1>8. ASSUME NEW t \in Tasks, NEW trims \in BOOLEAN, Upload(t, trims) PROVE IInv'
    BY <1>8, UploadKeeps
  <1>9. CASE UNCHANGED vars
    BY <1>0, <1>2, <1>9 DEF vars, Types
  <1>. QED BY <1>1, <1>3, <1>4, <1>5, <1>6, <1>7, <1>8, <1>9 DEF Next

-----------------------------------------------------------------------------
(* The theorems.                                                           *)

LEMMA Invariance == Spec => []IInv
  BY InitKeeps, NextKeeps, PTL DEF Spec

Running ==
  [pc : {"trim", "send", "answer", "finalize", "finalized", "navigate", "ended"},
   trims : BOOLEAN, kind : Kinds, file : Files, served : 1..MaxSelects,
   auto : BOOLEAN, here : BOOLEAN, abort : BOOLEAN, cancelled : BOOLEAN,
   lost : BOOLEAN]

LEMMA HasBegun ==
  ASSUME NEW w \in TaskType, w.pc # "none", w.file \in Files, w.served \in 1..MaxSelects
  PROVE  w \in Running
  BY DEF TaskType, Running

(* Whatever becomes of a selection, no call of handleUpload runs without a *)
(* file and a name it is served under, and the page and its uploads are    *)
(* what the code can make them.                                            *)
THEOREM TypeCorrect == Spec => []TypeOK
  <1>1. IInv => TypeOK
    <2>. SUFFICES ASSUME IInv PROVE TypeOK
      OBVIOUS
    <2>2. ASSUME NEW t \in Tasks PROVE task[t] \in {NoTask} \cup Running
      <3>1. task[t] \in TaskType /\ TaskInv(t) /\ selects \in 0..MaxSelects
        BY DEF IInv, Types
      <3>2. CASE task[t].pc = "none"
        BY <3>1, <3>2 DEF TaskInv, Attempts
      <3>3. CASE task[t].pc # "none"
        <4>1. task[t].file \in Files /\ task[t].served \in 1..MaxSelects
          BY <3>1, <3>3, EditorAssumption DEF TaskInv, SendsChosen
        <4>. QED BY <3>1, <3>3, <4>1, HasBegun
      <3>. QED BY <3>2, <3>3
    <2>3. task \in [Tasks -> {NoTask} \cup Running]
      BY <2>2 DEF IInv, Types
    <2>. QED BY <2>3 DEF IInv, Types, TypeOK, DiskType, PageType, Running
  <1>. QED BY <1>1, Invariance, PTL

(* A cancelled upload is never finalized on any path, however many uploads *)
(* are under way: it will find the flag of its page, or the copy it was    *)
(* left with.                                                              *)
THEOREM CancelledNeverFinal == Spec => []CancelHolds
  <1>1. IInv => CancelHolds
    BY DEF IInv, TaskInv, Finals, NoFinal, CancelHolds
  <1>. QED BY <1>1, Invariance, PTL

(* The editor deletes a file, on its own or when asked, only if a clip of  *)
(* it was finalized; a page that was reset is the one exception.           *)
THEOREM DeletedHasClip == Spec => []SafeDelete
  <1>1. IInv => SafeDelete
    BY DEF IInv
  <1>. QED BY <1>1, Invariance, PTL

(* Two clips of one upload mean that the client lost the first answer. *)
THEOREM TwoClipsMeanLoss == Spec => []TwiceOnlyWhenLost
  <1>1. IInv => TwiceOnlyWhenLost
    BY DEF IInv, TaskInv, Attempts, TwiceOnlyWhenLost
  <1>. QED BY <1>1, Invariance, PTL
=============================================================================
