------------------------------ MODULE ClipStore ------------------------------
(***************************************************************************)
(* The clips of one owner: rows of the clips table, objects in the object  *)
(* store, the server-wide storage limit and the owner's storage counter.   *)
(*                                                                         *)
(* A handler touches the two stores and the counter in separate calls and  *)
(* nothing rolls back: upload puts the object and then inserts the row,    *)
(* delete removes the object, the thumbnail and then the row, and every    *)
(* change to a row reads all of it and writes all of it back.  Each call   *)
(* is an action; a request that fails or a process that restarts stops     *)
(* between two of them.  A clip, its object and its thumbnail share a      *)
(* name, as their keys are fresh UUIDs or derived from one.                *)
(***************************************************************************)
EXTENDS Integers, FiniteSets

CONSTANTS
  Clips,            \* names of the clips that may be uploaded
  Workers,          \* requests handled at the same time
  MaxSize,          \* largest file_size_bytes, in units
  Limits,           \* values the administrator gives storage_limit_bytes
  Operations,       \* the requests clients send
  ConfiguredBucket, \* RUSTFS_BUCKET_CLIPS
  NoRow,            \* a clip without a row
  MaxUsed,          \* bound on the counter: no finalize starts beyond it
  MaxFaults         \* bound on failed calls and restarts

ASSUME WorkersAssumption == IsFiniteSet(Workers) /\ Workers # {}
ASSUME MaxSizeAssumption == MaxSize \in Nat \ {0}
ASSUME LimitsAssumption == Limits \subseteq Nat
ASSUME BoundsAssumption == MaxFaults \in Nat /\ MaxUsed \in Nat
ASSUME OperationsAssumption ==
  Operations \subseteq {"upload", "finalize", "update", "thumbnail", "delete"}

VARIABLES
  row,        \* the clips row of a clip, or NoRow
  objects,    \* <<bucket, clip>> pairs in the object store
  thumbs,     \* clips with an object in the thumbnail bucket
  used,       \* users.storage_used_bytes of the owner
  limit,      \* instance_config.storage_limit_bytes, 0 is no limit
  request,    \* what each worker is doing
  faults,
  topLimit,   \* history: highest limit so far, 0 once there was none
  deleting,   \* history: clips whose owner asked for deletion
  wanted,     \* history: visibility last written on the owner's word
  raced,      \* history: clips with two requests at a time
  finalized,  \* history: clips credited to the owner's counter
  regular,    \* history: every credit was the first, every debit had one
  stray       \* history: objects whose row a failed call did not write or left

store   == <<row, objects, thumbs, used, limit>>
history == <<topLimit, deleting, wanted, raced, finalized, regular, stray>>
vars    == <<store, request, faults, history>>

-----------------------------------------------------------------------------
(* The columns the properties tell apart; "public" stands for all columns  *)
(* that Update writes.                                                     *)
Rows == [size : 1..MaxSize, public : BOOLEAN, thumb : BOOLEAN, bucket : {"clips"}]

ASSUME NoRowAssumption == NoRow \notin Rows

Idle == [op |-> "none"]
Uploading == {"readLimit", "readUsed", "put", "insert"}
Changing == {"write", "credit", "putThumb", "dropObject", "dropThumb", "dropRow", "debit"}

UploadRequests ==
  [op : {"upload"}, pc : Uploading, clip : Clips, size : 1..MaxSize, limit : Limits]
ReadRequests ==
  [op : Operations \ {"upload"}, pc : {"read"}, clip : Clips, sets : BOOLEAN,
   public : BOOLEAN]
ChangeRequests ==
  [op : Operations \ {"upload"}, pc : Changing, clip : Clips, sets : BOOLEAN,
   public : BOOLEAN, seen : Rows]

TypeOK ==
  /\ row \in [Clips -> Rows \cup {NoRow}]
  /\ objects \subseteq {ConfiguredBucket} \X Clips
  /\ thumbs \subseteq Clips
  /\ used \in Nat
  /\ limit \in Limits
  /\ request \in [Workers -> {Idle} \cup UploadRequests \cup ReadRequests
                                    \cup ChangeRequests]
  /\ faults \in 0..MaxFaults
  /\ topLimit \in Limits \cup {0}
  /\ deleting \subseteq Clips
  /\ wanted \in [Clips -> BOOLEAN]
  /\ raced \subseteq Clips
  /\ finalized \subseteq Clips
  /\ regular \in BOOLEAN
  /\ stray \subseteq {"video", "thumb"} \X Clips

Init ==
  /\ row = [c \in Clips |-> NoRow]
  /\ objects = {}
  /\ thumbs = {}
  /\ used = 0
  /\ limit \in Limits
  /\ request = [w \in Workers |-> Idle]
  /\ faults = 0
  /\ topLimit = limit
  /\ deleting = {}
  /\ wanted = [c \in Clips |-> TRUE]
  /\ raced = {}
  /\ finalized = {}
  /\ regular = TRUE
  /\ stray = {}

Busy(w) == request[w] # Idle
At(w, pc) == Busy(w) /\ request[w].pc = pc
Does(w, op) == request[w].op = op
Goto(w, pc) == request' = [request EXCEPT ![w].pc = pc]
Finish(w) == request' = [request EXCEPT ![w] = Idle]

Listed == {c \in Clips : row[c] # NoRow}

(* SUM over a function of sizes, none above MaxSize: its units are counted. *)
SumOf(size) ==
  Cardinality({u \in (DOMAIN size) \X (1..MaxSize) : u[2] <= size[u[1]]})

(* GetTotalStorageUsed: SUM(file_size_bytes) over all clips. *)
TotalStorageUsed == SumOf([c \in Listed |-> row[c].size])

(* A faulty UpdateStorageUsed, without the floor. *)
AdjustedBelowZero(delta) == used + delta

(* UpdateStorageUsed: GREATEST(0, storage_used_bytes + delta). *)
Adjusted(delta) == IF used + delta < 0 THEN 0 ELSE used + delta

(* The name of a clip not uploaded so far: keys and ids are fresh UUIDs.   *)
Fresh(c) ==
  /\ row[c] = NoRow /\ c \notin deleting
  /\ <<ConfiguredBucket, c>> \notin objects
  /\ \A w \in Workers : Busy(w) => request[w].clip # c

-----------------------------------------------------------------------------
(* Faulty variants, to show that the properties notice them.               *)

(* CheckRoomFor looks at what is stored, not at what is coming. *)
ReadUsedWithoutSize(w) ==
  /\ At(w, "readUsed")
  /\ IF TotalStorageUsed > request[w].limit THEN Finish(w) ELSE Goto(w, "put")
  /\ UNCHANGED <<store, faults, history>>

(* An error of PutObject is only logged. *)
UploadIgnoringError(w) ==
  /\ At(w, "put")
  /\ Goto(w, "insert")
  /\ UNCHANGED <<store, faults, history>>

(* The thumbnail handler writes back a new Clip value, public by default. *)
UploadThumbnailOfNewClip(w) ==
  /\ At(w, "putThumb")
  /\ thumbs' = thumbs \cup {request[w].clip}
  /\ request' = [request EXCEPT ![w].pc = "write", ![w].seen.thumb = TRUE,
                                ![w].seen.public = TRUE]
  /\ UNCHANGED <<row, objects, used, limit, faults, history>>

(* Update inserts the row it does not find. *)
UpsertClip(w) ==
  /\ At(w, "write")
  /\ row' = [row EXCEPT ![request[w].clip] = request[w].seen]
  /\ IF Does(w, "finalize") THEN Goto(w, "credit") ELSE Finish(w)
  /\ UNCHANGED <<objects, thumbs, used, limit, faults, history>>

(* Only the row is deleted. *)
DeleteObjectSkipped(w) ==
  /\ At(w, "dropObject")
  /\ Goto(w, IF request[w].seen.thumb THEN "dropThumb" ELSE "dropRow")
  /\ UNCHANGED <<store, faults, history>>

(* The owner is not given the bytes back. *)
DeleteRowWithoutDebit(w) ==
  /\ At(w, "dropRow")
  /\ row' = [row EXCEPT ![request[w].clip] = NoRow]
  /\ Finish(w)
  /\ UNCHANGED <<objects, thumbs, used, limit, faults, history>>

-----------------------------------------------------------------------------
(* PUT /instance/storage.                                                  *)

SetStorageLimit(l) ==
  /\ limit' = l
  /\ topLimit' = IF l = 0 \/ topLimit = 0 THEN 0
                 ELSE IF l > topLimit THEN l ELSE topLimit
  /\ UNCHANGED <<row, objects, thumbs, used, request, faults, deleting, wanted,
                 raced, finalized, regular, stray>>

-----------------------------------------------------------------------------
(* POST /clips/upload.  The file is received in full before the handler.   *)

StartUpload(w, c, n) ==
  /\ "upload" \in Operations /\ ~Busy(w) /\ Fresh(c)
  /\ request' = [request EXCEPT ![w] =
       [op |-> "upload", pc |-> "readLimit", clip |-> c, size |-> n, limit |-> limit]]
  /\ UNCHANGED <<store, faults, history>>

(* CheckRoomFor, first statement: no limit, no check. *)
ReadLimit(w) ==
  /\ At(w, "readLimit")
  /\ request' = [request EXCEPT ![w].limit = limit,
                                ![w].pc = IF limit = 0 THEN "put" ELSE "readUsed"]
  /\ UNCHANGED <<store, faults, history>>

(* CheckRoomFor, second statement. *)
ReadUsed(w) ==
  /\ At(w, "readUsed")
  /\ IF TotalStorageUsed + request[w].size > request[w].limit
     THEN Finish(w) ELSE Goto(w, "put")
  /\ UNCHANGED <<store, faults, history>>

UploadToStorage(w) ==
  /\ At(w, "put")
  /\ objects' = objects \cup {<<ConfiguredBucket, request[w].clip>>}
  /\ Goto(w, "insert")
  /\ UNCHANGED <<row, thumbs, used, limit, faults, history>>

(* The row names the bucket "clips", whatever bucket the object went to. *)
CreateClipRecord(w) ==
  /\ At(w, "insert")
  /\ row' = [row EXCEPT ![request[w].clip] =
       [size |-> request[w].size, public |-> TRUE, thumb |-> FALSE, bucket |-> "clips"]]
  /\ Finish(w)
  /\ UNCHANGED <<objects, thumbs, used, limit, faults, history>>

-----------------------------------------------------------------------------
(* Finalize, update, thumbnail and delete start with GetByID.              *)

(* A finalize carries the visibility, an update may, the others do not.    *)
StartChange(w, op, c, sets, public) ==
  /\ op \in Operations \ {"upload"} /\ ~Busy(w)
  /\ c \in Listed \cup deleting
  /\ op = "finalize" => sets /\ used < MaxUsed
  /\ op \in {"thumbnail", "delete"} => ~sets
  /\ ~sets => public   \* a value no step reads
  /\ request' = [request EXCEPT ![w] =
       [op |-> op, pc |-> "read", clip |-> c, sets |-> sets, public |-> public]]
  /\ IF \E v \in Workers : Busy(v) /\ request[v].clip = c
     THEN raced' = raced \cup {c} /\ regular' = FALSE
     ELSE UNCHANGED <<raced, regular>>
  /\ UNCHANGED <<store, faults, topLimit, deleting, wanted, finalized, stray>>

(* GetByID; the visibility a request carries is then set in the row it     *)
(* holds in memory.  A request for a clip that has no row ends here.       *)
AfterRead(op) ==
  IF op = "thumbnail" THEN "putThumb" ELSE IF op = "delete" THEN "dropObject" ELSE "write"

ReadClip(w) ==
  /\ At(w, "read")
  /\ LET r == request[w]
     IN  IF row[r.clip] = NoRow
         THEN Finish(w) /\ UNCHANGED deleting
         ELSE /\ request' = [request EXCEPT ![w] =
                   [op |-> r.op, pc |-> AfterRead(r.op), clip |-> r.clip,
                    sets |-> r.sets, public |-> r.public,
                    seen |-> [row[r.clip] EXCEPT
                                !.public = IF r.sets THEN r.public ELSE @]]]
              /\ deleting' = IF Does(w, "delete") THEN deleting \cup {r.clip}
                             ELSE deleting
  /\ UNCHANGED <<store, faults, topLimit, wanted, raced, finalized, regular, stray>>

(* The thumbnail object, and its key in the row held in memory. *)
UploadThumbnail(w) ==
  /\ At(w, "putThumb")
  /\ thumbs' = thumbs \cup {request[w].clip}
  /\ request' = [request EXCEPT ![w].pc = "write", ![w].seen.thumb = TRUE]
  /\ UNCHANGED <<row, objects, used, limit, faults, history>>

(* clipRepo.Update: every column but the size, from the row in memory; a   *)
(* clip deleted meanwhile has no row to update, which is no error.         *)
UpdateClip(w) ==
  /\ At(w, "write")
  /\ LET c == request[w].clip
     IN  /\ row' = IF row[c] = NoRow THEN row
                   ELSE [row EXCEPT ![c].public = request[w].seen.public,
                                    ![c].thumb = request[w].seen.thumb]
         /\ wanted' = IF request[w].sets
                      THEN [wanted EXCEPT ![c] = request[w].public] ELSE wanted
  /\ IF Does(w, "finalize") THEN Goto(w, "credit") ELSE Finish(w)
  /\ UNCHANGED <<objects, thumbs, used, limit, faults, topLimit, deleting, raced,
                 finalized, regular, stray>>

(* FinalizeUpload adds the size the client reports: that of the file sent. *)
CreditStorage(w) ==
  /\ At(w, "credit")
  /\ LET c == request[w].clip
     IN  /\ used' = Adjusted(request[w].seen.size)
         /\ regular' = (regular /\ c \notin finalized)
         /\ finalized' = finalized \cup {c}
  /\ Finish(w)
  /\ UNCHANGED <<row, objects, thumbs, limit, faults, topLimit, deleting, wanted, raced,
                 stray>>

(* DeleteObject in the bucket the row names; removing nothing is no error. *)
DeleteObject(w) ==
  /\ At(w, "dropObject")
  /\ objects' = objects \ {<<request[w].seen.bucket, request[w].clip>>}
  /\ Goto(w, IF request[w].seen.thumb THEN "dropThumb" ELSE "dropRow")
  /\ UNCHANGED <<row, thumbs, used, limit, faults, history>>

DeleteThumbnail(w) ==
  /\ At(w, "dropThumb")
  /\ thumbs' = thumbs \ {request[w].clip}
  /\ Goto(w, "dropRow")
  /\ UNCHANGED <<row, objects, used, limit, faults, history>>

DeleteRow(w) ==
  /\ At(w, "dropRow")
  /\ row' = [row EXCEPT ![request[w].clip] = NoRow]
  /\ Goto(w, "debit")
  /\ UNCHANGED <<objects, thumbs, used, limit, faults, history>>

DebitStorage(w) ==
  /\ At(w, "debit")
  /\ used' = Adjusted(-request[w].seen.size)
  /\ regular' = (regular /\ request[w].clip \in finalized)
  /\ Finish(w)
  /\ UNCHANGED <<row, objects, thumbs, limit, faults, topLimit, deleting, wanted,
                 raced, finalized, stray>>

-----------------------------------------------------------------------------
(* Failures.                                                               *)

Fault ==
  /\ faults < MaxFaults
  /\ faults' = faults + 1
  /\ regular' = FALSE

(* The object that is left without its row if a request stops here: stored *)
(* for a row, or for a column of it, that was to be written next.          *)
LeftBy(w) ==
  IF At(w, "insert") THEN {<<"video", request[w].clip>>}
  ELSE IF At(w, "write") /\ Does(w, "thumbnail") THEN {<<"thumb", request[w].clip>>}
  ELSE {}

(* A call fails and the handler answers with the error; what the calls     *)
(* before it did stays.                                                    *)
RequestFails(w) ==
  /\ Fault
  /\ Busy(w)
  /\ Finish(w)
  /\ stray' = stray \cup LeftBy(w)
  /\ UNCHANGED <<store, topLimit, deleting, wanted, raced, finalized>>

(* DeleteClip logs a failed DeleteObject and carries on. *)
DeleteObjectFails(w) ==
  /\ Fault
  /\ \/ /\ At(w, "dropObject")
        /\ Goto(w, IF request[w].seen.thumb THEN "dropThumb" ELSE "dropRow")
        /\ stray' = stray \cup {<<"video", request[w].clip>>}
     \/ /\ At(w, "dropThumb")
        /\ Goto(w, "dropRow")
        /\ stray' = stray \cup {<<"thumb", request[w].clip>>}
  /\ UNCHANGED <<store, topLimit, deleting, wanted, raced, finalized>>

Restart ==
  /\ Fault
  /\ request' = [w \in Workers |-> Idle]
  /\ stray' = stray \cup UNION {LeftBy(w) : w \in Workers}
  /\ UNCHANGED <<store, topLimit, deleting, wanted, raced, finalized>>

-----------------------------------------------------------------------------
Upload(w) ==
  \/ \E c \in Clips, n \in 1..MaxSize : StartUpload(w, c, n)
  \/ ReadLimit(w)
  \/ ReadUsed(w)
  \/ UploadToStorage(w)
  \/ CreateClipRecord(w)

Change(w) ==
  \/ \E op \in Operations, c \in Clips, sets, public \in BOOLEAN :
       StartChange(w, op, c, sets, public)
  \/ ReadClip(w)
  \/ UploadThumbnail(w)
  \/ UpdateClip(w)
  \/ CreditStorage(w)

Delete(w) ==
  \/ DeleteObject(w)
  \/ DeleteThumbnail(w)
  \/ DeleteRow(w)
  \/ DebitStorage(w)

Failure ==
  \/ \E w \in Workers : RequestFails(w) \/ DeleteObjectFails(w)
  \/ Restart

Next ==
  \/ \E l \in Limits : SetStorageLimit(l)
  \/ \E w \in Workers : Upload(w) \/ Change(w) \/ Delete(w)
  \/ Failure

Spec == Init /\ [][Next]_vars

-----------------------------------------------------------------------------
(* Properties.                                                             *)

(* Uploads that passed CheckRoomFor and whose row is still to come. *)
Admitted == {w \in Workers : At(w, "put") \/ At(w, "insert")}

(* The storage limit bounds the clips up to the uploads that overlap: each *)
(* request CheckRoomFor admits may be one that the others' sums miss, so   *)
(* the clips, those on their way included, exceed the highest limit that   *)
(* was in force by less than one file per concurrent request.              *)
OvershootBounded ==
  topLimit # 0 =>
    TotalStorageUsed + SumOf([w \in Admitted |-> request[w].size])
      <= topLimit + (Cardinality(Workers) - 1) * MaxSize

(* A clip in the library can be played, and its thumbnail shown, until its *)
(* owner asks for its deletion: the object the row points to is there.     *)
PlayableUntilDeleted ==
  \A c \in Listed \ deleting :
    /\ <<row[c].bucket, c>> \in objects
    /\ row[c].thumb => c \in thumbs

(* A video has its row, or an upload that is about to insert it. *)
VideosOwned ==
  \A o \in objects :
    \/ o[2] \in Listed
    \/ \E w \in Workers : At(w, "insert") /\ request[w].clip = o[2]
    \/ <<"video", o[2]>> \in stray

(* A thumbnail has the column that names it, or a request about to set it. *)
ThumbsOwned ==
  \A c \in thumbs \ raced :
    \/ c \in Listed /\ row[c].thumb
    \/ \E w \in Workers : At(w, "write") /\ Does(w, "thumbnail") /\ request[w].clip = c
    \/ <<"thumb", c>> \in stray

(* Bytes are leaked by the calls that are known to leak them and by no     *)
(* other: unless one of these failed, a delete finds every object that was *)
(* stored for the clip.  Thumbnails are safe only while requests for their *)
(* clip do not overlap: else a late write-back blanks the column, or a     *)
(* late upload stores the thumbnail of a clip that is gone.                *)
NoOrphans == VideosOwned /\ ThumbsOwned

(* The owner's word on a clip's visibility holds: unless two requests for  *)
(* the clip overlapped, the column says what the last finalize or update   *)
(* wrote, although the thumbnail upload writes the column too.             *)
VisibilityKept == \A c \in Listed \ raced : row[c].public = wanted[c]

(* The storage counter is right for a client that finalizes every upload   *)
(* once, deletes only what it finalized, and has one request per clip at a *)
(* time: when nothing is in progress it is the size of the clips.          *)
CounterRight ==
  regular /\ (\A w \in Workers : ~Busy(w)) =>
    used = SumOf([c \in Listed \cap finalized |-> row[c].size])

(* The life of a clip in the library, as its row and its owner's request   *)
(* for deletion tell it.                                                   *)
Stage(c) ==
  IF c \in Listed
  THEN IF c \in deleting THEN "doomed" ELSE "listed"
  ELSE IF c \in deleting THEN "gone" ELSE "absent"

Library == INSTANCE ClipLibrary WITH
  stage    <- [c \in Clips |-> Stage(c)],
  playable <- {c \in Listed : <<row[c].bucket, c>> \in objects}

(* The two stores together keep the library's promises: the row comes with *)
(* its object, the object stays until the owner asks for the deletion, and *)
(* no late finalize, update or thumbnail brings a deleted clip back.       *)
ImplementsLibrary == Library!Spec
=============================================================================
