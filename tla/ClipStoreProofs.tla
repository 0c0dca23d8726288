-------------------------- MODULE ClipStoreProofs --------------------------
(***************************************************************************)
(* Proofs about ClipStore for any clips, sizes, limits and number of       *)
(* concurrent requests and faults.  What is said of the objects needs the  *)
(* bucket of the configuration to be the one the rows name.                *)
(***************************************************************************)
EXTENDS ClipStore, FiniteSetTheorems, TLAPS

(* A request's fields follow from the statement it is at. *)
LEMMA Shapes ==
  ASSUME TypeOK, NEW w \in Workers, Busy(w)
  PROVE  /\ \A pc \in Uploading : At(w, pc) => request[w] \in UploadRequests
         /\ At(w, "read") => request[w] \in ReadRequests
         /\ \A pc \in Changing : At(w, pc) => request[w] \in ChangeRequests
  BY DEF TypeOK, Busy, At, UploadRequests, ReadRequests, ChangeRequests, Uploading,
         Changing

Requests == {Idle} \cup UploadRequests \cup ReadRequests \cup ChangeRequests

(* A request that starts, moves on or ends is a request again. *)
LEMMA RequestTypes ==
  ASSUME TypeOK, NEW w \in Workers, NEW r \in Requests,
         request' = [request EXCEPT ![w] = r]
  PROVE  request' \in [Workers -> Requests]
  BY DEF TypeOK, Requests

(* Every statement keeps the types of what it writes. *)
LEMMA NextTypeOK == TypeOK /\ [Next]_vars => TypeOK'
  <1> SUFFICES ASSUME TypeOK, [Next]_vars PROVE TypeOK'
    OBVIOUS
  <1>0. request \in [Workers -> Requests]
    BY DEF TypeOK, Requests
  <1>1. ASSUME NEW l \in Limits, SetStorageLimit(l) PROVE TypeOK'
    BY <1>1 DEF TypeOK, SetStorageLimit
  <1>2. ASSUME NEW w \in Workers, NEW c \in Clips, NEW n \in 1..MaxSize,
               StartUpload(w, c, n)
        PROVE  TypeOK'
    <2>1. [op |-> "upload", pc |-> "readLimit", clip |-> c, size |-> n, limit |-> limit]
            \in Requests
      BY DEF TypeOK, Requests, UploadRequests, Uploading
    <2>2. request' \in [Workers -> Requests]
      BY <1>2, <2>1, RequestTypes DEF StartUpload
    <2>3. QED
      BY <1>2, <2>2 DEF TypeOK, StartUpload, Requests, store, history
  <1>3. ASSUME NEW w \in Workers, ReadLimit(w) PROVE TypeOK'
    <2>1. request[w] \in UploadRequests
      BY <1>3, Shapes DEF ReadLimit, At, Uploading
    <2>2. [request[w] EXCEPT !.limit = limit, !.pc = IF limit = 0 THEN "put" ELSE "readUsed"]
            \in Requests
      BY <2>1 DEF TypeOK, Requests, UploadRequests, Uploading
    <2>3. request' = [request EXCEPT ![w] =
            [request[w] EXCEPT !.limit = limit, !.pc = IF limit = 0 THEN "put" ELSE "readUsed"]]
      BY <1>3, <2>1 DEF ReadLimit, TypeOK, UploadRequests
    <2>4. request' \in [Workers -> Requests]
      BY <2>2, <2>3, RequestTypes
    <2>5. QED
      BY <1>3, <2>4 DEF TypeOK, ReadLimit, Requests, store, history
  <1>4. ASSUME NEW w \in Workers, NEW pc \in Uploading, request[w] \in UploadRequests,
               Goto(w, pc) \/ Finish(w)
        PROVE  request' \in [Workers -> Requests]
    BY <1>0, <1>4 DEF Goto, Finish, Requests, UploadRequests
  <1>5. ASSUME NEW w \in Workers, NEW pc \in Changing, request[w] \in ChangeRequests,
               Goto(w, pc) \/ Finish(w)
        PROVE  request' \in [Workers -> Requests]
    BY <1>0, <1>5 DEF Goto, Finish, Requests, ChangeRequests
  <1>6. ASSUME NEW w \in Workers, ReadUsed(w) PROVE TypeOK'
    <2>1. request[w] \in UploadRequests
      BY <1>6, Shapes DEF ReadUsed, At, Uploading
    <2>2. request' \in [Workers -> Requests]
      BY <1>4, <1>6, <2>1 DEF ReadUsed, Uploading
    <2>3. QED
      BY <1>6, <2>2 DEF TypeOK, ReadUsed, Requests, store, history
  <1>7. ASSUME NEW w \in Workers, UploadToStorage(w) PROVE TypeOK'
    <2>1. request[w] \in UploadRequests
      BY <1>7, Shapes DEF UploadToStorage, At, Uploading
    <2>2. request' \in [Workers -> Requests]
      BY <1>4, <1>7, <2>1 DEF UploadToStorage, Uploading
    <2>3. request[w].clip \in Clips
      BY <2>1 DEF UploadRequests
    <2>4. QED
      BY <1>7, <2>2, <2>3 DEF TypeOK, UploadToStorage, Requests, history
  <1>8. ASSUME NEW w \in Workers, CreateClipRecord(w) PROVE TypeOK'
    <2>1. request[w] \in UploadRequests
      BY <1>8, Shapes DEF CreateClipRecord, At, Uploading
    <2>2. /\ request[w].clip \in Clips
          /\ [size |-> request[w].size, public |-> TRUE, thumb |-> FALSE,
              bucket |-> "clips"] \in Rows
      BY <2>1 DEF UploadRequests, Rows
    <2>3. request' \in [Workers -> Requests]
      BY <1>4, <1>8, <2>1 DEF CreateClipRecord, Uploading
    <2>4. QED
      BY <1>8, <2>2, <2>3 DEF TypeOK, CreateClipRecord, Requests, history
  <1>9. ASSUME NEW w \in Workers, NEW op \in Operations, NEW c \in Clips,
               NEW sets \in BOOLEAN, NEW public \in BOOLEAN,
               StartChange(w, op, c, sets, public)
        PROVE  TypeOK'
    <2>1. [op |-> op, pc |-> "read", clip |-> c, sets |-> sets, public |-> public] \in Requests
      BY <1>9 DEF StartChange, Requests, ReadRequests
    <2>2. request' \in [Workers -> Requests]
      BY <1>9, <2>1, RequestTypes DEF StartChange
    <2>3. raced' \subseteq Clips /\ regular' \in BOOLEAN
      BY <1>9 DEF StartChange, TypeOK
    <2>4. QED
      BY <1>9, <2>2, <2>3 DEF TypeOK, StartChange, Requests, store
  <1>10. ASSUME NEW w \in Workers, ReadClip(w) PROVE TypeOK'
    <2>1. request[w] \in ReadRequests
      BY <1>10, Shapes DEF ReadClip, At
    <2>2. /\ request[w].clip \in Clips
          /\ request[w].op \in Operations \ {"upload"}
          /\ request[w].public \in BOOLEAN /\ request[w].sets \in BOOLEAN
      BY <2>1 DEF ReadRequests
    <2>3. CASE Finish(w) /\ UNCHANGED deleting
      BY <1>10, <2>3 DEF TypeOK, ReadClip, Finish, store
    <2>4. CASE row[request[w].clip] # NoRow
      <3> DEFINE seen == [row[request[w].clip] EXCEPT
                            !.public = IF request[w].sets THEN request[w].public ELSE @]
      <3>1. row[request[w].clip] \in Rows
        BY <2>2, <2>4 DEF TypeOK
      <3>2. seen \in Rows
        BY <2>2, <3>1 DEF Rows
      <3>3. AfterRead(request[w].op) \in Changing
        BY DEF AfterRead, Changing
      <3>4. request' = [request EXCEPT ![w] =
                 [op |-> request[w].op, pc |-> AfterRead(request[w].op),
                  clip |-> request[w].clip, sets |-> request[w].sets,
                  public |-> request[w].public, seen |-> seen]]
        BY <1>10, <2>4 DEF ReadClip
      <3> HIDE DEF seen
      <3>5. [op |-> request[w].op, pc |-> AfterRead(request[w].op),
             clip |-> request[w].clip, sets |-> request[w].sets,
             public |-> request[w].public, seen |-> seen]
               \in Requests
        BY <2>2, <3>2, <3>3 DEF Requests, ChangeRequests
      <3>6. request' \in [Workers -> Requests]
        BY <3>4, <3>5, RequestTypes
      <3>7. deleting' \subseteq Clips
        BY <1>10, <2>2, <2>4 DEF TypeOK, ReadClip
      <3>8. QED
        BY <1>10, <3>6, <3>7 DEF TypeOK, ReadClip, Requests, store
    <2>5. QED
      BY <1>10, <2>3, <2>4 DEF ReadClip
  <1>11. ASSUME NEW w \in Workers, UploadThumbnail(w) PROVE TypeOK'
    <2>1. /\ request[w] \in ChangeRequests
          /\ request[w].clip \in Clips /\ request[w].seen \in Rows
      BY <1>11, Shapes DEF UploadThumbnail, At, Changing, ChangeRequests
    <2>2. [request[w].seen EXCEPT !.thumb = TRUE] \in Rows
      BY <2>1 DEF Rows
    <2>3. [request[w] EXCEPT !.pc = "write", !.seen = [request[w].seen EXCEPT !.thumb = TRUE]]
            \in Requests
      BY <2>1, <2>2 DEF Requests, ChangeRequests, Changing
    <2>4. request' = [request EXCEPT ![w] =
            [request[w] EXCEPT !.pc = "write", !.seen = [request[w].seen EXCEPT !.thumb = TRUE]]]
      BY <1>11, <2>1 DEF UploadThumbnail, TypeOK, ChangeRequests
    <2>5. request' \in [Workers -> Requests]
      BY <2>3, <2>4, RequestTypes
    <2>6. QED
      BY <1>11, <2>1, <2>5 DEF TypeOK, UploadThumbnail, Requests, history
  <1>12. ASSUME NEW w \in Workers, UpdateClip(w) PROVE TypeOK'
    <2>1. /\ request[w] \in ChangeRequests /\ request[w].clip \in Clips
          /\ request[w].sets \in BOOLEAN /\ request[w].public \in BOOLEAN
          /\ request[w].seen \in Rows
      BY <1>12, Shapes DEF UpdateClip, At, Changing, ChangeRequests
    <2>2. request[w].seen.public \in BOOLEAN /\ request[w].seen.thumb \in BOOLEAN
      BY <2>1 DEF Rows
    <2>3. row' \in [Clips -> Rows \cup {NoRow}]
      BY <1>12, <2>1, <2>2 DEF TypeOK, UpdateClip, Rows
    <2>4. wanted' \in [Clips -> BOOLEAN]
      BY <1>12, <2>1 DEF TypeOK, UpdateClip
    <2>5. request' \in [Workers -> Requests]
      BY <1>5, <1>12, <2>1 DEF UpdateClip, Changing
    <2>6. QED
      BY <1>12, <2>3, <2>4, <2>5 DEF TypeOK, UpdateClip, Requests
  <1>13. ASSUME NEW n \in Int PROVE Adjusted(n) \in Nat
    BY <1>13 DEF TypeOK, Adjusted
  <1>14. ASSUME NEW w \in Workers, CreditStorage(w) \/ DebitStorage(w) PROVE TypeOK'
    <2>1. /\ request[w] \in ChangeRequests /\ request[w].clip \in Clips
          /\ request[w].seen \in Rows
      BY <1>14, Shapes DEF CreditStorage, DebitStorage, At, Changing, ChangeRequests
    <2>2. request[w].seen.size \in Int /\ -request[w].seen.size \in Int
      BY <2>1, MaxSizeAssumption DEF Rows
    <2>3. used' \in Nat
      BY <1>13, <1>14, <2>2 DEF CreditStorage, DebitStorage
    <2>4. regular' \in BOOLEAN
      BY <1>14 DEF CreditStorage, DebitStorage, TypeOK
    <2>5. finalized' \subseteq Clips
      BY <1>14, <2>1 DEF CreditStorage, DebitStorage, TypeOK
    <2>6. request' \in [Workers -> Requests]
      BY <1>5, <1>14, <2>1 DEF CreditStorage, DebitStorage, Changing
    <2>7. QED
      BY <1>14, <2>3, <2>4, <2>5, <2>6 DEF TypeOK, CreditStorage, DebitStorage, Requests
  <1>15. ASSUME NEW w \in Workers, DeleteObject(w) \/ DeleteThumbnail(w) \/ DeleteRow(w)
         PROVE  TypeOK'
    <2>1. request[w] \in ChangeRequests /\ request[w].clip \in Clips
      BY <1>15, Shapes
      DEF DeleteObject, DeleteThumbnail, DeleteRow, At, Changing, ChangeRequests
    <2>2. request' \in [Workers -> Requests]
      BY <1>5, <1>15, <2>1 DEF DeleteObject, DeleteThumbnail, DeleteRow, Changing
    <2>3. /\ objects' \subseteq {ConfiguredBucket} \X Clips
          /\ thumbs' \subseteq Clips
          /\ row' \in [Clips -> Rows \cup {NoRow}]
      BY <1>15, <2>1 DEF TypeOK, DeleteObject, DeleteThumbnail, DeleteRow
    <2>4. QED
      BY <1>15, <2>2, <2>3
      DEF TypeOK, DeleteObject, DeleteThumbnail, DeleteRow, Requests, history
  <1>16. Fault => faults' \in 0..MaxFaults /\ regular' \in BOOLEAN
    <2>1. Fault => faults' \in 0..MaxFaults
      BY BoundsAssumption DEF TypeOK, Fault
    <2>2. QED
      BY <2>1 DEF Fault
  <1>17. ASSUME NEW w \in Workers PROVE LeftBy(w) \subseteq {"video", "thumb"} \X Clips
    <2>1. At(w, "insert") \/ At(w, "write") => request[w].clip \in Clips
      BY Shapes DEF At, Uploading, Changing, UploadRequests, ChangeRequests
    <2>2. QED
      BY <2>1 DEF LeftBy
  <1>18. ASSUME NEW w \in Workers, RequestFails(w) PROVE TypeOK'
    <2>1. stray' \subseteq {"video", "thumb"} \X Clips
      BY <1>18, <1>17 DEF TypeOK, RequestFails
    <2>2. QED
      BY <1>16, <1>18, <2>1 DEF TypeOK, RequestFails, Finish, store
  <1>19. ASSUME NEW w \in Workers, DeleteObjectFails(w) PROVE TypeOK'
    <2>1. request[w] \in ChangeRequests
      BY <1>19, Shapes DEF DeleteObjectFails, At, Changing
    <2>2. request' \in [Workers -> Requests]
      BY <1>5, <1>19, <2>1 DEF DeleteObjectFails, Changing
    <2>3. request[w].clip \in Clips
      BY <2>1 DEF ChangeRequests
    <2>4. stray' \subseteq {"video", "thumb"} \X Clips
      BY <1>19, <2>3 DEF TypeOK, DeleteObjectFails
    <2>5. QED
      BY <1>16, <1>19, <2>2, <2>4 DEF TypeOK, DeleteObjectFails, Requests, store
  <1>20. CASE Restart
    <2>1. stray' \subseteq {"video", "thumb"} \X Clips
      BY <1>20, <1>17 DEF TypeOK, Restart
    <2>2. QED
      BY <1>16, <1>20, <2>1 DEF TypeOK, Restart, store
  <1>21. CASE UNCHANGED vars
    BY <1>21 DEF TypeOK, vars, store, history
  <1>22. QED
    BY <1>1, <1>2, <1>3, <1>6, <1>7, <1>8, <1>9, <1>10, <1>11, <1>12, <1>14, <1>15,
       <1>18, <1>19, <1>20, <1>21
    DEF Next, Upload, Change, Delete, Failure

-----------------------------------------------------------------------------
(* A request changes by its own calls only.                                *)

OwnCall(v) ==
  \/ ReadLimit(v) \/ ReadUsed(v) \/ UploadToStorage(v)
  \/ ReadClip(v) \/ UploadThumbnail(v) \/ UpdateClip(v)
  \/ DeleteObject(v) \/ DeleteThumbnail(v) \/ DeleteRow(v) \/ DeleteObjectFails(v)

Continues(v) ==
  /\ OwnCall(v)
  /\ Busy(v)
  /\ request'[v].op = request[v].op /\ request'[v].clip = request[v].clip
  /\ \A u \in Workers \ {v} : request'[u] = request[u]

(* A call that leaves its request busy leaves its operation and clip alone. *)
LEMMA Continuing ==
  ASSUME TypeOK, NEW v \in Workers, OwnCall(v), Busy(v)'
  PROVE  Continues(v)
  <1>1. CASE ReadLimit(v)
    BY <1>1, Shapes
    DEF Continues, ReadLimit, At, Uploading, UploadRequests, TypeOK
  <1>2. ASSUME NEW pc, Goto(v, pc), request[v] \in UploadRequests \cup ChangeRequests
        PROVE  Continues(v)
    BY <1>2 DEF Continues, Goto, Busy, Idle, TypeOK, UploadRequests, ChangeRequests
  <1>3. CASE Finish(v)
    BY <1>3 DEF Finish, Busy, TypeOK
  <1>4. CASE ReadUsed(v) \/ UploadToStorage(v)
    <2>1. request[v] \in UploadRequests
      BY <1>4, Shapes DEF ReadUsed, UploadToStorage, At, Uploading
    <2>2. QED
      BY <1>2, <1>3, <1>4, <2>1 DEF ReadUsed, UploadToStorage
  <1>5. CASE ReadClip(v) /\ ~Finish(v)
    BY <1>5 DEF Continues, ReadClip, At, TypeOK
  <1>6. CASE UploadThumbnail(v)
    BY <1>6, Shapes
    DEF Continues, UploadThumbnail, At, Changing, ChangeRequests, TypeOK
  <1>7. CASE UpdateClip(v) \/ DeleteObject(v) \/ DeleteThumbnail(v) \/ DeleteRow(v)
               \/ DeleteObjectFails(v)
    <2>1. request[v] \in ChangeRequests
      BY <1>7, Shapes
      DEF UpdateClip, DeleteObject, DeleteThumbnail, DeleteRow, DeleteObjectFails, At,
          Changing
    <2>2. QED
      BY <1>2, <1>3, <1>7, <2>1
      DEF UpdateClip, DeleteObject, DeleteThumbnail, DeleteRow, DeleteObjectFails
  <1>8. QED
    BY <1>1, <1>3, <1>4, <1>5, <1>6, <1>7 DEF OwnCall

(* Where each call leaves a request that goes on. *)
LEMMA Arrivals ==
  ASSUME TypeOK, NEW v \in Workers, OwnCall(v), Busy(v)'
  PROVE  LET pc == request'[v].pc IN
         /\ pc = "readUsed" => ReadLimit(v)
         /\ pc = "put" => ReadUsed(v) \/ (ReadLimit(v) /\ limit = 0)
         /\ pc = "insert" => UploadToStorage(v)
         /\ pc = "putThumb" => ReadClip(v)
         /\ pc = "write" => ReadClip(v) \/ UploadThumbnail(v)
         /\ pc = "credit" => UpdateClip(v)
         /\ pc = "dropObject" => ReadClip(v)
         /\ pc \in {"dropThumb", "dropRow"} =>
              DeleteObject(v) \/ DeleteThumbnail(v) \/ DeleteObjectFails(v)
         /\ pc = "debit" => DeleteRow(v)
  <1>0. ~Finish(v)
    BY DEF Finish, Busy, TypeOK
  <1>1. ASSUME NEW pc, Goto(v, pc), request[v] \in UploadRequests \cup ChangeRequests
        PROVE  request'[v].pc = pc
    BY <1>1 DEF Goto, TypeOK, UploadRequests, ChangeRequests
  <1>2. CASE ReadLimit(v)
    <2>1. request'[v].pc = IF limit = 0 THEN "put" ELSE "readUsed"
      BY <1>2, Shapes DEF ReadLimit, At, Uploading, UploadRequests, TypeOK
    <2>2. QED
      BY <1>2, <2>1
  <1>3. CASE ReadUsed(v) \/ UploadToStorage(v)
    <2>1. request[v] \in UploadRequests
      BY <1>3, Shapes DEF ReadUsed, UploadToStorage, At, Uploading
    <2>2. /\ ReadUsed(v) => request'[v].pc = "put"
          /\ UploadToStorage(v) => request'[v].pc = "insert"
      BY <1>0, <1>1, <2>1 DEF ReadUsed, UploadToStorage
    <2>3. QED
      BY <1>3, <2>2
  <1>4. CASE ReadClip(v)
    <2>1. request'[v].pc = AfterRead(request[v].op)
      BY <1>0, <1>4 DEF ReadClip, TypeOK
    <2>2. request'[v].pc \in {"putThumb", "dropObject", "write"}
      BY <2>1 DEF AfterRead
    <2>3. QED
      BY <1>4, <2>2
  <1>5. CASE UploadThumbnail(v)
    <2>1. request'[v].pc = "write"
      BY <1>5, Shapes DEF UploadThumbnail, At, Changing, ChangeRequests, TypeOK
    <2>2. QED
      BY <1>5, <2>1
  <1>6. CASE UpdateClip(v) \/ DeleteObject(v) \/ DeleteThumbnail(v) \/ DeleteRow(v)
               \/ DeleteObjectFails(v)
    <2>1. request[v] \in ChangeRequests
      BY <1>6, Shapes
      DEF UpdateClip, DeleteObject, DeleteThumbnail, DeleteRow, DeleteObjectFails, At,
          Changing
    <2>2. /\ UpdateClip(v) => request'[v].pc = "credit"
          /\ DeleteObject(v) => request'[v].pc \in {"dropThumb", "dropRow"}
          /\ DeleteThumbnail(v) => request'[v].pc = "dropRow"
          /\ DeleteRow(v) => request'[v].pc = "debit"
          /\ DeleteObjectFails(v) => request'[v].pc \in {"dropThumb", "dropRow"}
      BY <1>0, <1>1, <2>1
      DEF UpdateClip, DeleteObject, DeleteThumbnail, DeleteRow, DeleteObjectFails
    <2>3. QED
      BY <1>6, <2>2
  <1>7. QED
    BY <1>2, <1>3, <1>4, <1>5, <1>6 DEF OwnCall

Begins(v) ==
  \E c \in Clips, n \in 1..MaxSize : StartUpload(v, c, n)
Asks(v) ==
  \E op \in Operations, c \in Clips, sets, public \in BOOLEAN :
    StartChange(v, op, c, sets, public)

(* A busy request was so before, has just started, or has moved on. *)
LEMMA RequestsMove ==
  ASSUME TypeOK, [Next]_vars, NEW v \in Workers, Busy(v)'
  PROVE  request'[v] = request[v] \/ Begins(v) \/ Asks(v) \/ Continues(v)
  <1>1. ASSUME NEW l \in Limits, SetStorageLimit(l) PROVE request'[v] = request[v]
    BY <1>1 DEF SetStorageLimit
  <1>2. ASSUME NEW w \in Workers, NEW c \in Clips, NEW n \in 1..MaxSize,
               StartUpload(w, c, n)
        PROVE  request'[v] = request[v] \/ Begins(v)
    BY <1>2 DEF StartUpload, Begins, TypeOK
  <1>3. ASSUME NEW w \in Workers, NEW op \in Operations, NEW c \in Clips,
               NEW sets \in BOOLEAN, NEW public \in BOOLEAN,
               StartChange(w, op, c, sets, public)
        PROVE  request'[v] = request[v] \/ Asks(v)
    BY <1>3 DEF StartChange, Asks, TypeOK
  <1>4. ASSUME NEW w \in Workers, Finish(w) PROVE request'[v] = request[v]
    BY <1>4 DEF Finish, TypeOK, Busy
  <1>5. ASSUME NEW w \in Workers, OwnCall(w)
        PROVE  request'[v] = request[v] \/ Continues(v)
    <2>1. CASE v = w
      BY <1>5, <2>1, Continuing
    <2>2. CASE v # w
      BY <1>5, <2>2
      DEF OwnCall, ReadLimit, ReadUsed, UploadToStorage, ReadClip, UploadThumbnail,
          UpdateClip, DeleteObject, DeleteThumbnail, DeleteRow, DeleteObjectFails,
          Goto, Finish, TypeOK
    <2>3. QED
      BY <2>1, <2>2
  <1>6. ASSUME NEW w \in Workers,
               CreateClipRecord(w) \/ CreditStorage(w) \/ DebitStorage(w)
                 \/ RequestFails(w)
        PROVE  request'[v] = request[v]
    BY <1>4, <1>6 DEF CreateClipRecord, CreditStorage, DebitStorage, RequestFails
  <1>7. CASE Restart
    BY <1>7 DEF Restart, Busy, TypeOK
  <1>8. CASE UNCHANGED vars
    BY <1>8 DEF vars
  <1>9. QED
    BY <1>1, <1>2, <1>3, <1>5, <1>6, <1>7, <1>8
    DEF Next, Upload, Change, Delete, Failure, OwnCall

(* The calls that write rows. *)
LEMMA RowCalls ==
  ASSUME [Next]_vars
  PROVE  \/ row' = row
         \/ \E w \in Workers : CreateClipRecord(w) \/ DeleteRow(w) \/ UpdateClip(w)
  <1>1. ASSUME NEW w \in Workers, Upload(w)
        PROVE  row' = row \/ CreateClipRecord(w)
    BY <1>1 DEF Upload, StartUpload, ReadLimit, ReadUsed, UploadToStorage, store
  <1>2. ASSUME NEW w \in Workers, Change(w)
        PROVE  row' = row \/ UpdateClip(w)
    BY <1>2 DEF Change, StartChange, ReadClip, UploadThumbnail, CreditStorage, store
  <1>3. ASSUME NEW w \in Workers, Delete(w)
        PROVE  row' = row \/ DeleteRow(w)
    BY <1>3 DEF Delete, DeleteObject, DeleteThumbnail, DebitStorage
  <1>4. ASSUME Failure \/ UNCHANGED vars \/ \E l \in Limits : SetStorageLimit(l)
        PROVE  row' = row
    BY <1>4 DEF Failure, RequestFails, DeleteObjectFails, Restart, SetStorageLimit, vars,
                store
  <1>5. QED
    BY <1>1, <1>2, <1>3, <1>4 DEF Next

(* Each writes the row of its own clip. *)
LEMMA RowWriters ==
  ASSUME TypeOK, [Next]_vars, NEW c \in Clips
  PROVE  \/ row'[c] = row[c]
         \/ \E w \in Workers :
              /\ request[w].clip = c
              /\ CreateClipRecord(w) \/ DeleteRow(w) \/ (UpdateClip(w) /\ c \in Listed)
  <1>1. ASSUME NEW w \in Workers,
               CreateClipRecord(w) \/ DeleteRow(w) \/ UpdateClip(w),
               row'[c] # row[c]
        PROVE  request[w].clip = c /\ (UpdateClip(w) => c \in Listed)
    BY <1>1 DEF CreateClipRecord, DeleteRow, UpdateClip, TypeOK, Listed
  <1>2. QED
    BY <1>1, RowCalls

(* Only DeleteClip marks a clip, and only one that has a row. *)
LEMMA DeletingWriters ==
  ASSUME [Next]_vars
  PROVE  \/ deleting' = deleting
         \/ \E w \in Workers :
              /\ ReadClip(w) /\ Does(w, "delete") /\ row[request[w].clip] # NoRow
              /\ deleting' = deleting \cup {request[w].clip}
  <1>1. ASSUME NEW w \in Workers, Upload(w) PROVE deleting' = deleting
    BY <1>1 DEF Upload, StartUpload, ReadLimit, ReadUsed, UploadToStorage,
                CreateClipRecord, history
  <1>2. ASSUME NEW w \in Workers, Change(w)
        PROVE  deleting' = deleting \/ ReadClip(w)
    BY <1>2 DEF Change, StartChange, UploadThumbnail, UpdateClip, CreditStorage, history
  <1>3. ASSUME NEW w \in Workers, Delete(w) PROVE deleting' = deleting
    BY <1>3 DEF Delete, DeleteObject, DeleteThumbnail, DeleteRow, DebitStorage, history
  <1>4. ASSUME Failure \/ UNCHANGED vars \/ \E l \in Limits : SetStorageLimit(l)
        PROVE  deleting' = deleting
    BY <1>4 DEF Failure, RequestFails, DeleteObjectFails, Restart, SetStorageLimit, vars,
                history
  <1>5. ASSUME NEW w \in Workers, ReadClip(w), deleting' # deleting
        PROVE  /\ Does(w, "delete") /\ row[request[w].clip] # NoRow
               /\ deleting' = deleting \cup {request[w].clip}
    BY <1>5 DEF ReadClip
  <1>6. QED
    BY <1>1, <1>2, <1>3, <1>4, <1>5 DEF Next

-----------------------------------------------------------------------------
(* Who works on which clip: an upload is alone with its clip, which has no *)
(* row yet and was never deleted; every other request is for a clip that   *)
(* has a row, or had one until its owner deleted it.                       *)

UploadsAlone ==
  \A w \in Workers : Busy(w) /\ request[w].op = "upload" =>
    /\ request[w].clip \notin Listed \cup deleting
    /\ \A v \in Workers \ {w} : Busy(v) => request[v].clip # request[w].clip

Dropping == {"dropObject", "dropThumb", "dropRow", "debit"}

ChangesKnown ==
  \A w \in Workers : Busy(w) /\ request[w].op # "upload" =>
    /\ request[w].clip \in Listed \cup deleting
    /\ request[w].pc \in Dropping =>
         request[w].clip \in deleting /\ request[w].op = "delete"

Base == TypeOK /\ UploadsAlone /\ ChangesKnown

Was(w) ==
  /\ Busy(w)
  /\ request'[w].op = request[w].op
  /\ request'[w].clip = request[w].clip

(* Whoever inserts a row is done with it. *)
LEMMA InsertEnds ==
  ASSUME TypeOK, NEW w \in Workers, CreateClipRecord(w)
  PROVE  ~Busy(w)' /\ Busy(w) /\ request[w].op = "upload"
  BY Shapes DEF CreateClipRecord, Finish, Busy, At, TypeOK, Uploading, UploadRequests

(* A name without a row and unmarked gets one from its upload only. *)
LEMMA StaysUnlisted ==
  ASSUME Base, [Next]_vars, NEW c \in Clips, c \notin Listed \cup deleting,
         \A w \in Workers : CreateClipRecord(w) => request[w].clip # c
  PROVE  c \notin Listed' \cup deleting'
  <1>1. c \notin Listed'
    <2>1. ASSUME NEW w \in Workers, DeleteRow(w), request[w].clip = c
          PROVE  row'[c] = NoRow
      BY <2>1 DEF DeleteRow, Base, TypeOK
    <2>2. row'[c] = row[c] \/ row'[c] = NoRow
      BY <2>1, RowWriters DEF Base
    <2>3. QED
      BY <2>2 DEF Listed
  <1>2. c \notin deleting'
    BY DeletingWriters DEF Listed
  <1>3. QED
    BY <1>1, <1>2

(* Fresh names keep uploads apart. *)
LEMMA NextUploadsAlone ==
  ASSUME Base, [Next]_vars, TypeOK'
  PROVE  UploadsAlone'
  <1> SUFFICES ASSUME NEW w \in Workers, Busy(w)', request'[w].op = "upload"
               PROVE  /\ request'[w].clip \notin Listed' \cup deleting'
                      /\ \A v \in Workers \ {w} :
                           Busy(v)' => request'[v].clip # request'[w].clip
    BY DEF UploadsAlone
  <1>0. \A v \in Workers : Busy(v)' => Was(v) \/ Begins(v) \/ Asks(v)
    BY RequestsMove DEF Base, Was, Continues, Busy
  <1>1. ~Asks(w)
    BY DEF Asks, StartChange, Base, TypeOK
  <1>2. CASE Begins(w)
    <2>1. PICK c \in Clips : Fresh(c) /\ \E n \in 1..MaxSize : StartUpload(w, c, n)
      BY <1>2 DEF Begins, StartUpload
    <2>2. /\ request'[w].clip = c
          /\ \A v \in Workers \ {w} : request'[v] = request[v]
          /\ row' = row /\ deleting' = deleting
      BY <2>1 DEF StartUpload, Base, TypeOK, store, history
    <2>3. QED
      BY <2>1, <2>2 DEF Fresh, Listed, Busy
  <1>3. CASE Was(w)
    <2>1. /\ request[w].clip \notin Listed \cup deleting
          /\ \A v \in Workers \ {w} : Busy(v) => request[v].clip # request[w].clip
      BY <1>3 DEF Base, UploadsAlone, Was
    <2>2. request[w].clip \in Clips
      BY <1>3 DEF Was, Base, TypeOK, Busy, UploadRequests, ReadRequests, ChangeRequests
    <2>3. \A v \in Workers : CreateClipRecord(v) => request[v].clip # request[w].clip
      BY <2>1, InsertEnds DEF Base
    <2>4. request'[w].clip \notin Listed' \cup deleting'
      BY <1>3, <2>1, <2>2, <2>3, StaysUnlisted DEF Was
    <2>5. ASSUME NEW v \in Workers \ {w}, Busy(v)'
          PROVE  request'[v].clip # request[w].clip
      <3>1. CASE Was(v)
        BY <2>1, <3>1 DEF Was
      <3>2. CASE Begins(v)
        BY <1>3, <3>2 DEF Begins, StartUpload, Fresh, Was, Base, TypeOK
      <3>3. CASE Asks(v)
        BY <2>1, <3>3 DEF Asks, StartChange, Base, TypeOK
      <3>4. QED
        BY <1>0, <2>5, <3>1, <3>2, <3>3
    <2>6. QED
      BY <1>3, <2>4, <2>5 DEF Was
  <1>4. QED
    BY <1>0, <1>1, <1>2, <1>3

(* A clip with a row keeps it or is marked. *)
LEMMA StaysKnown ==
  ASSUME Base, [Next]_vars, NEW c \in Clips, c \in Listed \cup deleting
  PROVE  c \in Listed' \cup deleting'
  <1>0. deleting \subseteq deleting'
    BY DeletingWriters
  <1>1. ASSUME NEW v \in Workers, request[v].clip = c, CreateClipRecord(v) \/ UpdateClip(v),
               c \in Listed
        PROVE  row'[c] # NoRow
    <2>1. CASE CreateClipRecord(v)
      <3>1. request[v] \in UploadRequests
        BY <2>1, Shapes DEF Base, CreateClipRecord, At, Uploading
      <3>2. /\ row'[c] = [size |-> request[v].size, public |-> TRUE, thumb |-> FALSE,
                          bucket |-> "clips"]
            /\ request[v].size \in 1..MaxSize
        BY <1>1, <2>1, <3>1 DEF CreateClipRecord, Base, TypeOK, UploadRequests
      <3>3. row'[c] \in Rows
        BY <3>2 DEF Rows
      <3>4. QED
        BY <3>3, NoRowAssumption
    <2>2. CASE UpdateClip(v)
      <3>1. request[v] \in ChangeRequests
        BY <2>2, Shapes DEF Base, UpdateClip, At, Changing
      <3>2. row[c] \in Rows /\ request[v].seen \in Rows
        BY <1>1, <3>1 DEF Base, TypeOK, Listed, ChangeRequests
      <3>3. row'[c] = [row[c] EXCEPT !.public = request[v].seen.public,
                                     !.thumb = request[v].seen.thumb]
        BY <1>1, <2>2 DEF UpdateClip, Base, TypeOK, Listed
      <3>4. row'[c] \in Rows
        BY <3>2, <3>3 DEF Rows
      <3>5. QED
        BY <3>4, NoRowAssumption
    <2>3. QED
      BY <1>1, <2>1, <2>2
  <1>2. ASSUME NEW v \in Workers, request[v].clip = c, DeleteRow(v)
        PROVE  c \in deleting
    BY <1>2, Shapes
    DEF DeleteRow, Base, ChangesKnown, Dropping, At, Changing, ChangeRequests
  <1>3. QED
    BY <1>0, <1>1, <1>2, RowWriters DEF Base, Listed

(* A row goes away only when its clip was marked. *)
LEMMA NextChangesKnown ==
  ASSUME Base, [Next]_vars
  PROVE  ChangesKnown'
  <1> SUFFICES ASSUME NEW w \in Workers, Busy(w)', request'[w].op # "upload"
               PROVE  /\ request'[w].clip \in Listed' \cup deleting'
                      /\ request'[w].pc \in Dropping =>
                           request'[w].clip \in deleting' /\ request'[w].op = "delete"
    BY DEF ChangesKnown
  <1>0. deleting \subseteq deleting'
    BY DeletingWriters
  <1>1. CASE Asks(w)
    BY <1>1 DEF Asks, StartChange, Base, TypeOK, Listed, store, Dropping
  <1>2. CASE Was(w) /\ ~(request'[w].pc \in Dropping)
    <2>1. request[w].clip \in Clips
      BY <1>2 DEF Was, Base, TypeOK, Busy, UploadRequests, ReadRequests, ChangeRequests
    <2>2. QED
      BY <1>2, <2>1, StaysKnown DEF Was, Base, ChangesKnown
  <1>3. CASE request'[w] = request[w]
    <2>1. request[w].clip \in Clips
      BY <1>3 DEF Base, TypeOK, Busy, UploadRequests, ReadRequests, ChangeRequests
    <2>2. QED
      BY <1>0, <1>3, <2>1, StaysKnown DEF Busy, Base, ChangesKnown
  <1>4. CASE Continues(w) /\ request'[w].pc \in Dropping
    <2>1. CASE request[w].pc \in Dropping
      BY <1>0, <1>4, <2>1 DEF Continues, Base, ChangesKnown
    <2>2. CASE ReadClip(w)
      BY <1>4, <2>2
      DEF Continues, ReadClip, Base, TypeOK, AfterRead, Dropping, Does, Finish, Busy, At
    <2>3. QED
      BY <1>4, <2>1, <2>2, Arrivals
      DEF Base, Continues, Dropping, DeleteObject, DeleteThumbnail, DeleteRow,
          DeleteObjectFails, At
  <1>5. ~Begins(w)
    BY DEF Begins, StartUpload, Base, TypeOK
  <1>6. QED
    BY <1>1, <1>2, <1>3, <1>4, <1>5, RequestsMove DEF Base, Was, Continues

(* The base of the invariants below. *)
LEMMA NextBase == Base /\ [Next]_vars => Base'
  BY NextTypeOK, NextUploadsAlone, NextChangesKnown DEF Base

-----------------------------------------------------------------------------
(* The objects behind the rows.                                            *)

ObjectReady ==
  \A w \in Workers : At(w, "insert") =>
    <<ConfiguredBucket, request[w].clip>> \in objects

ThumbReady ==
  \A w \in Workers : At(w, "write") /\ request[w].seen.thumb = TRUE =>
    request[w].clip \in thumbs \cup deleting

Playable == ObjectReady /\ ThumbReady /\ PlayableUntilDeleted

(* Objects are removed from clips that are being deleted only. *)
LEMMA ObjectsKept ==
  ASSUME Base, [Next]_vars
  PROVE  \A c \in Clips \ deleting :
           /\ <<ConfiguredBucket, c>> \in objects => <<ConfiguredBucket, c>> \in objects'
           /\ c \in thumbs => c \in thumbs'
  <1>1. ASSUME NEW w \in Workers, Upload(w)
        PROVE  objects \subseteq objects' /\ thumbs' = thumbs
    BY <1>1 DEF Upload, StartUpload, ReadLimit, ReadUsed, UploadToStorage,
                CreateClipRecord, store
  <1>2. ASSUME NEW w \in Workers, Change(w)
        PROVE  objects' = objects /\ thumbs \subseteq thumbs'
    BY <1>2 DEF Change, StartChange, ReadClip, UploadThumbnail, UpdateClip,
                CreditStorage, store
  <1>3. ASSUME NEW w \in Workers, Delete(w)
        PROVE  \A c \in Clips \ deleting :
                 /\ <<ConfiguredBucket, c>> \in objects
                      => <<ConfiguredBucket, c>> \in objects'
                 /\ c \in thumbs => c \in thumbs'
    <2>1. CASE DeleteRow(w) \/ DebitStorage(w)
      BY <2>1 DEF DeleteRow, DebitStorage
    <2>2. CASE DeleteObject(w) \/ DeleteThumbnail(w)
      <3>1. request[w].clip \in deleting
        BY <2>2, Shapes
        DEF DeleteObject, DeleteThumbnail, At, Changing, ChangeRequests, Base,
            ChangesKnown, Dropping
      <3>2. QED
        BY <2>2, <3>1 DEF DeleteObject, DeleteThumbnail
    <2>3. QED
      BY <1>3, <2>1, <2>2 DEF Delete
  <1>4. ASSUME Failure \/ UNCHANGED vars \/ \E l \in Limits : SetStorageLimit(l)
        PROVE  objects' = objects /\ thumbs' = thumbs
    BY <1>4 DEF Failure, RequestFails, DeleteObjectFails, Restart, SetStorageLimit, vars,
                store
  <1>5. QED
    BY <1>1, <1>2, <1>3, <1>4 DEF Next

(* The object is there when the row is inserted. *)
LEMMA NextObjectReady ==
  ASSUME Base, ObjectReady, [Next]_vars
  PROVE  ObjectReady'
  <1> SUFFICES ASSUME NEW w \in Workers, At(w, "insert")'
               PROVE  <<ConfiguredBucket, request'[w].clip>> \in objects'
    BY DEF ObjectReady
  <1>1. CASE request'[w] = request[w]
    <2>1. At(w, "insert")
      BY <1>1 DEF At, Busy
    <2>2. request[w] \in UploadRequests
      BY <2>1, Shapes DEF At, Base, Uploading
    <2>3. request[w].clip \in Clips \ deleting
      BY <2>1, <2>2 DEF At, Base, UploadsAlone, UploadRequests
    <2>4. QED
      BY <1>1, <2>1, <2>3, ObjectsKept DEF ObjectReady
  <1>2. ~Begins(w) /\ ~Asks(w)
    BY DEF Begins, Asks, StartUpload, StartChange, At, Base, TypeOK
  <1>3. CASE Continues(w)
    <2>1. UploadToStorage(w)
      BY <1>3, Arrivals DEF Continues, Base, At
    <2>2. QED
      BY <1>3, <2>1 DEF Continues, UploadToStorage
  <1>4. QED
    BY <1>1, <1>2, <1>3, RequestsMove DEF Base, At

(* A request about to change a row has the clip and the row typed. *)
LEMMA AtChange ==
  ASSUME Base, NEW w \in Workers, NEW pc \in Changing, At(w, pc)
  PROVE  /\ request[w] \in ChangeRequests /\ request[w].pc = pc
         /\ request[w].clip \in Clips /\ request[w].seen \in Rows
         /\ request[w].op \in Operations \ {"upload"}
         /\ request[w].clip \in Listed \cup deleting
         /\ pc \in Dropping => request[w].clip \in deleting
  <1>1. request[w] \in ChangeRequests /\ request[w].pc = pc
    BY Shapes DEF Base, At
  <1>2. QED
    BY <1>1 DEF ChangeRequests, Base, ChangesKnown, At

(* The thumbnail a write-back names is there. *)
LEMMA NextThumbReady ==
  ASSUME Base, Playable, [Next]_vars
  PROVE  ThumbReady'
  <1> SUFFICES ASSUME NEW w \in Workers, At(w, "write")', request'[w].seen.thumb = TRUE
               PROVE  request'[w].clip \in thumbs' \cup deleting'
    BY DEF ThumbReady
  <1>0. deleting \subseteq deleting'
    BY DeletingWriters
  <1>1. CASE request'[w] = request[w]
    <2>1. At(w, "write")
      BY <1>1 DEF At, Busy
    <2>2. request[w].clip \in Clips
      BY <2>1, AtChange DEF Changing
    <2>3. QED
      BY <1>0, <1>1, <2>1, <2>2, ObjectsKept DEF Playable, ThumbReady
  <1>2. ~Begins(w) /\ ~Asks(w)
    BY DEF Begins, Asks, StartUpload, StartChange, At, Base, TypeOK
  <1>3. CASE Continues(w)
    <2>1. ReadClip(w) \/ UploadThumbnail(w)
      BY <1>3, Arrivals DEF Continues, Base, At
    <2>2. CASE UploadThumbnail(w)
      BY <1>3, <2>2 DEF Continues, UploadThumbnail
    <2>3. CASE ReadClip(w)
      <3>1. request[w] \in ReadRequests /\ request[w].clip \in Clips
        BY <2>3, Shapes DEF ReadClip, At, Base, ReadRequests
      <3>2. ~Finish(w)
        BY DEF Finish, At, Busy, Base, TypeOK
      <3>3. /\ row[request[w].clip] # NoRow
            /\ thumbs' = thumbs
            /\ request'[w].clip = request[w].clip
            /\ request'[w].seen = [row[request[w].clip] EXCEPT
                 !.public = IF request[w].sets THEN request[w].public ELSE @]
        BY <2>3, <3>2 DEF ReadClip, Base, TypeOK, store
      <3>4. row[request[w].clip] \in Rows
        BY <3>1, <3>3 DEF Base, TypeOK
      <3>5. request'[w].seen.thumb = row[request[w].clip].thumb
        BY <3>3, <3>4 DEF Rows
      <3>6. QED
        BY <1>0, <3>1, <3>3, <3>5 DEF Playable, PlayableUntilDeleted, Listed
    <2>4. QED
      BY <2>1, <2>2, <2>3
  <1>4. QED
    BY <1>1, <1>2, <1>3, RequestsMove DEF Base, At

(* What the rows point to is there, if they name the right bucket. *)
LEMMA NextPlayable ==
  ASSUME Base, Playable, [Next]_vars, ConfiguredBucket = "clips"
  PROVE  PlayableUntilDeleted'
  <1> SUFFICES ASSUME NEW c \in Listed' \ deleting'
               PROVE  /\ <<row'[c].bucket, c>> \in objects'
                      /\ row'[c].thumb => c \in thumbs'
    BY DEF PlayableUntilDeleted
  <1>0. c \in Clips /\ c \notin deleting
    BY DeletingWriters DEF Listed
  <1>1. CASE row'[c] = row[c]
    <2>1. c \in Listed /\ row[c] \in Rows
      BY <1>0, <1>1 DEF Listed, Base, TypeOK
    <2>2. row[c].bucket = ConfiguredBucket
      BY <2>1 DEF Rows
    <2>3. <<row[c].bucket, c>> \in objects /\ (row[c].thumb => c \in thumbs)
      BY <1>0, <2>1 DEF Playable, PlayableUntilDeleted
    <2>4. QED
      BY <1>0, <1>1, <2>2, <2>3, ObjectsKept
  <1>2. ASSUME NEW w \in Workers, request[w].clip = c, CreateClipRecord(w)
        PROVE  /\ <<row'[c].bucket, c>> \in objects'
               /\ row'[c].thumb => c \in thumbs'
    <2>1. row'[c].bucket = "clips" /\ row'[c].thumb = FALSE
      BY <1>0, <1>2 DEF CreateClipRecord, Base, TypeOK
    <2>2. <<ConfiguredBucket, c>> \in objects
      BY <1>2 DEF CreateClipRecord, Playable, ObjectReady
    <2>3. QED
      BY <1>0, <2>1, <2>2, ObjectsKept
  <1>3. ASSUME NEW w \in Workers, request[w].clip = c, UpdateClip(w), c \in Listed
        PROVE  /\ <<row'[c].bucket, c>> \in objects'
               /\ row'[c].thumb => c \in thumbs'
    <2>1. row[c] \in Rows /\ At(w, "write") /\ request[w].seen \in Rows
      BY <1>0, <1>3, AtChange DEF UpdateClip, Base, TypeOK, Listed, Changing
    <2>2. row'[c] = [row[c] EXCEPT !.public = request[w].seen.public,
                                   !.thumb = request[w].seen.thumb]
      BY <1>0, <1>3 DEF UpdateClip, Base, TypeOK, Listed
    <2>3. row'[c].bucket = ConfiguredBucket /\ row[c].bucket = ConfiguredBucket
      BY <2>1, <2>2 DEF Rows
    <2>4. row'[c].thumb = request[w].seen.thumb
      BY <2>1, <2>2 DEF Rows
    <2>5. <<ConfiguredBucket, c>> \in objects
      BY <1>0, <1>3, <2>3 DEF Playable, PlayableUntilDeleted
    <2>6. row'[c].thumb = TRUE => c \in thumbs
      BY <1>0, <1>3, <2>1, <2>4 DEF Playable, ThumbReady
    <2>7. row'[c].thumb \in BOOLEAN
      BY <2>1, <2>4 DEF Rows
    <2>8. QED
      BY <1>0, <2>3, <2>5, <2>6, <2>7, ObjectsKept
  <1>4. ASSUME NEW w \in Workers, request[w].clip = c PROVE ~DeleteRow(w)
    BY <1>0, <1>4 DEF DeleteRow, Listed, Base, TypeOK
  <1>5. QED
    BY <1>0, <1>1, <1>2, <1>3, <1>4, RowWriters DEF Base

-----------------------------------------------------------------------------
(* Objects without a row.                                                  *)

(* A delete that got past the object has removed it, or failed to. *)
ObjectGone ==
  \A w \in Workers : At(w, "dropThumb") \/ At(w, "dropRow") =>
    \/ <<ConfiguredBucket, request[w].clip>> \notin objects
    \/ <<"video", request[w].clip>> \in stray

(* What was left behind is remembered. *)
LEMMA StrayGrows == [Next]_vars => stray \subseteq stray'
  <1> SUFFICES ASSUME [Next]_vars PROVE stray \subseteq stray'
    OBVIOUS
  <1>1. ASSUME NEW w \in Workers, Upload(w) PROVE stray' = stray
    BY <1>1 DEF Upload, StartUpload, ReadLimit, ReadUsed, UploadToStorage,
                CreateClipRecord, history
  <1>2. ASSUME NEW w \in Workers, Change(w) PROVE stray' = stray
    BY <1>2 DEF Change, StartChange, ReadClip, UploadThumbnail, UpdateClip,
                CreditStorage, history
  <1>3. ASSUME NEW w \in Workers, Delete(w) PROVE stray' = stray
    BY <1>3 DEF Delete, DeleteObject, DeleteThumbnail, DeleteRow, DebitStorage, history
  <1>4. ASSUME Failure PROVE stray \subseteq stray'
    BY <1>4 DEF Failure, RequestFails, DeleteObjectFails, Restart
  <1>5. ASSUME UNCHANGED vars \/ \E l \in Limits : SetStorageLimit(l)
        PROVE  stray' = stray
    BY <1>5 DEF SetStorageLimit, vars, history
  <1>6. QED
    BY <1>1, <1>2, <1>3, <1>4, <1>5 DEF Next

(* The calls that write objects, and what they write. *)
LEMMA ObjectWriters ==
  ASSUME [Next]_vars
  PROVE  \/ objects' = objects
         \/ \E w \in Workers : UploadToStorage(w) \/ DeleteObject(w)
  <1>1. ASSUME NEW w \in Workers, Upload(w)
        PROVE  objects' = objects \/ UploadToStorage(w)
    BY <1>1 DEF Upload, StartUpload, ReadLimit, ReadUsed, CreateClipRecord, store
  <1>2. ASSUME NEW w \in Workers, Change(w) PROVE objects' = objects
    BY <1>2 DEF Change, StartChange, ReadClip, UploadThumbnail, UpdateClip,
                CreditStorage, store
  <1>3. ASSUME NEW w \in Workers, Delete(w)
        PROVE  objects' = objects \/ DeleteObject(w)
    BY <1>3 DEF Delete, DeleteThumbnail, DeleteRow, DebitStorage
  <1>4. ASSUME Failure \/ UNCHANGED vars \/ \E l \in Limits : SetStorageLimit(l)
        PROVE  objects' = objects
    BY <1>4 DEF Failure, RequestFails, DeleteObjectFails, Restart, SetStorageLimit, vars,
                store
  <1>5. QED
    BY <1>1, <1>2, <1>3, <1>4 DEF Next

(* Once removed an object stays away: no other upload has its name. *)
LEMMA NextObjectGone ==
  ASSUME Base, ObjectGone, [Next]_vars, ConfiguredBucket = "clips"
  PROVE  ObjectGone'
  <1> SUFFICES ASSUME NEW w \in Workers, At(w, "dropThumb")' \/ At(w, "dropRow")',
                      <<"video", request'[w].clip>> \notin stray'
               PROVE  <<ConfiguredBucket, request'[w].clip>> \notin objects'
    BY DEF ObjectGone
  <1>1. ASSUME At(w, "dropThumb") \/ At(w, "dropRow"),
               <<"video", request[w].clip>> \notin stray'
        PROVE  <<ConfiguredBucket, request[w].clip>> \notin objects'
    <2>1. request[w].op # "upload" /\ Busy(w)
      BY <1>1, AtChange DEF Changing, At
    <2>2. ASSUME NEW u \in Workers, UploadToStorage(u) PROVE request[u].clip # request[w].clip
      <3>1. At(u, "put") /\ request[u].op = "upload"
        BY <2>2, Shapes DEF UploadToStorage, At, Base, Uploading, UploadRequests
      <3>2. QED
        BY <2>1, <3>1 DEF Base, UploadsAlone, At
    <2>3. <<ConfiguredBucket, request[w].clip>> \notin objects
      BY <1>1, StrayGrows DEF ObjectGone
    <2>4. QED
      BY <2>2, <2>3, ObjectWriters DEF UploadToStorage, DeleteObject
  <1>2. CASE request'[w] = request[w]
    BY <1>1, <1>2 DEF At, Busy
  <1>3. ~Begins(w) /\ ~Asks(w)
    BY DEF Begins, Asks, StartUpload, StartChange, At, Base, TypeOK
  <1>4. CASE Continues(w)
    <2>1. DeleteObject(w) \/ DeleteThumbnail(w) \/ DeleteObjectFails(w)
      BY <1>4, Arrivals DEF Continues, Base, At
    <2>2. CASE DeleteThumbnail(w) \/ (DeleteObjectFails(w) /\ At(w, "dropThumb"))
      BY <1>1, <1>4, <2>2 DEF DeleteThumbnail, Continues
    <2>3. CASE DeleteObject(w)
      <3>1. request[w].seen.bucket = ConfiguredBucket
        BY <2>3, AtChange DEF DeleteObject, Changing, Rows
      <3>2. QED
        BY <1>4, <2>3, <3>1 DEF DeleteObject, Continues
    <2>4. CASE DeleteObjectFails(w) /\ ~At(w, "dropThumb")
      BY <1>4, <2>4 DEF DeleteObjectFails, Continues
    <2>5. QED
      BY <2>1, <2>2, <2>3, <2>4
  <1>5. QED
    BY <1>2, <1>3, <1>4, RequestsMove DEF Base, At

(* A request that stored an object writes the row, or the column, the      *)
(* object is for; if it stops, the object is among those left behind.      *)
LEMMA ObjectNamed ==
  ASSUME Base, [Next]_vars, NEW w \in Workers, At(w, "insert") \/ At(w, "write")
  PROVE  \/ CreateClipRecord(w) \/ UpdateClip(w)
         \/ request'[w] = request[w]
         \/ LeftBy(w) \subseteq stray'
  <1>0. Busy(w) /\ request[w].pc \in {"insert", "write"}
    BY DEF At
  <1>1. ASSUME NEW u \in Workers, Upload(u)
        PROVE  CreateClipRecord(w) \/ request'[w] = request[w]
    <2>1. CASE u = w
      BY <1>0, <1>1, <2>1
      DEF Upload, StartUpload, ReadLimit, ReadUsed, UploadToStorage, At
    <2>2. CASE u # w
      BY <1>1, <2>2
      DEF Upload, StartUpload, ReadLimit, ReadUsed, UploadToStorage, CreateClipRecord,
          Goto, Finish, Base, TypeOK
    <2>3. QED
      BY <2>1, <2>2
  <1>2. ASSUME NEW u \in Workers, Change(u)
        PROVE  UpdateClip(w) \/ request'[w] = request[w]
    <2>1. CASE u = w
      BY <1>0, <1>2, <2>1
      DEF Change, StartChange, ReadClip, UploadThumbnail, CreditStorage, At
    <2>2. CASE u # w
      BY <1>2, <2>2
      DEF Change, StartChange, ReadClip, UploadThumbnail, UpdateClip, CreditStorage,
          Goto, Finish, Base, TypeOK
    <2>3. QED
      BY <2>1, <2>2
  <1>3. ASSUME NEW u \in Workers, Delete(u) PROVE request'[w] = request[w]
    <2>1. u # w
      BY <1>0, <1>3
      DEF Delete, DeleteObject, DeleteThumbnail, DeleteRow, DebitStorage, At
    <2>2. QED
      BY <1>3, <2>1
      DEF Delete, DeleteObject, DeleteThumbnail, DeleteRow, DebitStorage, Goto, Finish,
          Base, TypeOK
  <1>4. ASSUME NEW u \in Workers, RequestFails(u) \/ DeleteObjectFails(u)
        PROVE  request'[w] = request[w] \/ LeftBy(w) \subseteq stray'
    <2>1. CASE u = w
      BY <1>0, <1>4, <2>1 DEF RequestFails, DeleteObjectFails, At
    <2>2. CASE u # w
      BY <1>4, <2>2 DEF RequestFails, DeleteObjectFails, Goto, Finish, Base, TypeOK
    <2>3. QED
      BY <2>1, <2>2
  <1>5. Restart => LeftBy(w) \subseteq stray'
    BY DEF Restart
  <1>6. ASSUME UNCHANGED vars \/ \E l \in Limits : SetStorageLimit(l)
        PROVE  request' = request
    BY <1>6 DEF SetStorageLimit, vars
  <1>7. QED
    BY <1>1, <1>2, <1>3, <1>4, <1>5, <1>6 DEF Next, Failure

(* An inserted row is one. *)
LEMMA InsertLists ==
  ASSUME Base, NEW w \in Workers, CreateClipRecord(w)
  PROVE  request[w].clip \in Listed'
  <1>1. request[w] \in UploadRequests
    BY Shapes DEF CreateClipRecord, Base, At, Uploading
  <1>2. request[w].clip \in Clips /\ request[w].size \in 1..MaxSize
    BY <1>1 DEF UploadRequests
  <1>3. row'[request[w].clip] = [size |-> request[w].size, public |-> TRUE,
                                thumb |-> FALSE, bucket |-> "clips"]
    BY <1>2 DEF CreateClipRecord, Base, TypeOK
  <1>4. row'[request[w].clip] \in Rows
    BY <1>2, <1>3 DEF Rows
  <1>5. QED
    BY <1>2, <1>4, NoRowAssumption DEF Listed

(* A row that is updated stays one. *)
LEMMA UpdateLists ==
  ASSUME Base, NEW w \in Workers, UpdateClip(w), request[w].clip \in Listed
  PROVE  request[w].clip \in Listed'
  <1>1. /\ request[w].clip \in Clips /\ request[w].seen \in Rows
        /\ row[request[w].clip] \in Rows
    BY AtChange DEF UpdateClip, Changing, Base, TypeOK, Listed
  <1>2. row'[request[w].clip] = [row[request[w].clip] EXCEPT
          !.public = request[w].seen.public, !.thumb = request[w].seen.thumb]
    BY <1>1 DEF UpdateClip, Base, TypeOK, Listed
  <1>3. row'[request[w].clip] \in Rows
    BY <1>1, <1>2 DEF Rows
  <1>4. QED
    BY <1>1, <1>3, NoRowAssumption DEF Listed

(* Every video keeps its row or its upload, or was left behind. *)
LEMMA NextVideosOwned ==
  ASSUME Base, ObjectGone, VideosOwned, [Next]_vars
  PROVE  VideosOwned'
  <1> SUFFICES ASSUME NEW o \in objects', o[2] \notin Listed', <<"video", o[2]>> \notin stray'
               PROVE  \E w \in Workers : At(w, "insert")' /\ request'[w].clip = o[2]
    BY DEF VideosOwned
  <1>0. <<"video", o[2]>> \notin stray
    BY StrayGrows
  <1>1. CASE o \in objects
    <2>0. o[2] \in Clips /\ o = <<ConfiguredBucket, o[2]>>
      BY <1>1 DEF Base, TypeOK
    <2>1. CASE o[2] \in Listed
      <3>1. row'[o[2]] # row[o[2]]
        BY <2>0, <2>1 DEF Listed
      <3>2. PICK w \in Workers : request[w].clip = o[2] /\ DeleteRow(w)
        BY <2>0, <2>1, <3>1, RowWriters, InsertLists, UpdateLists DEF Base
      <3>3. QED
        BY <1>0, <1>1, <2>0, <3>2 DEF DeleteRow, ObjectGone
    <2>2. ASSUME NEW w \in Workers, At(w, "insert"), request[w].clip = o[2]
          PROVE  At(w, "insert")' /\ request'[w].clip = o[2]
      <3>1. ~UpdateClip(w) /\ ~CreateClipRecord(w)
        BY <2>2, InsertLists DEF UpdateClip, At
      <3>2. LeftBy(w) = {<<"video", o[2]>>}
        BY <2>2 DEF LeftBy
      <3>3. QED
        BY <2>2, <3>1, <3>2, ObjectNamed DEF At, Busy
    <2>3. QED
      BY <1>0, <1>1, <2>1, <2>2 DEF VideosOwned
  <1>2. ASSUME NEW w \in Workers, UploadToStorage(w), o \notin objects
        PROVE  At(w, "insert")' /\ request'[w].clip = o[2]
    <2>1. request[w] \in UploadRequests
      BY <1>2, Shapes DEF UploadToStorage, Base, At, Uploading
    <2>2. o = <<ConfiguredBucket, request[w].clip>>
      BY <1>2 DEF UploadToStorage
    <2>3. request'[w] = [request[w] EXCEPT !.pc = "insert"]
      BY <1>2 DEF UploadToStorage, Goto, Base, TypeOK
    <2>4. QED
      BY <2>1, <2>2, <2>3 DEF At, Busy, Idle, UploadRequests
  <1>3. QED
    BY <1>1, <1>2, ObjectWriters DEF DeleteObject

-----------------------------------------------------------------------------
(* Visibility.                                                             *)

(* Requests for one clip overlap only on clips that are marked as raced. *)
Sole ==
  \A c \in Clips \ raced : \A v, w \in Workers :
    Busy(v) /\ Busy(w) /\ request[v].clip = c /\ request[w].clip = c => v = w

(* The word of the owner is only asked for a clip that has been listed. *)
Unspoken == \A c \in Clips \ (Listed \cup deleting) : wanted[c] = TRUE

(* What a write-back holds: the owner's new word, or the last one. *)
WordHeld ==
  \A w \in Workers : At(w, "putThumb") \/ At(w, "write") =>
    /\ request[w].sets => request[w].seen.public = request[w].public
    /\ ~request[w].sets /\ request[w].clip \in Listed \ raced =>
         request[w].seen.public = wanted[request[w].clip]

Visibility == Sole /\ Unspoken /\ WordHeld /\ VisibilityKept

(* Only a request that starts can join another, and that marks the clip. *)
LEMMA NextSole ==
  ASSUME Base, Sole, [Next]_vars
  PROVE  Sole' /\ raced \subseteq raced'
  <1>1. raced \subseteq raced'
    <2>1. ASSUME NEW w \in Workers, Upload(w) PROVE raced' = raced
      BY <2>1 DEF Upload, StartUpload, ReadLimit, ReadUsed, UploadToStorage,
                  CreateClipRecord, history
    <2>2. ASSUME NEW w \in Workers, Change(w) PROVE raced \subseteq raced'
      BY <2>2 DEF Change, StartChange, ReadClip, UploadThumbnail, UpdateClip,
                  CreditStorage, history
    <2>3. ASSUME NEW w \in Workers, Delete(w) PROVE raced' = raced
      BY <2>3 DEF Delete, DeleteObject, DeleteThumbnail, DeleteRow, DebitStorage, history
    <2>4. ASSUME Failure \/ UNCHANGED vars \/ \E l \in Limits : SetStorageLimit(l)
          PROVE  raced' = raced
      BY <2>4 DEF Failure, RequestFails, DeleteObjectFails, Restart, SetStorageLimit,
                  vars, history
    <2>5. QED
      BY <2>1, <2>2, <2>3, <2>4 DEF Next
  <1>2. ASSUME NEW c \in Clips, c \notin raced', NEW v \in Workers, NEW w \in Workers,
               Busy(v)', Busy(w)', request'[v].clip = c, request'[w].clip = c, v # w
        PROVE  FALSE
    <2>0. \A u \in Workers : Busy(u)' => Was(u) \/ Begins(u) \/ Asks(u)
      BY RequestsMove DEF Base, Was, Continues, Busy
    <2>1. ASSUME NEW a \in Workers, NEW b \in Workers, a # b, Begins(a) \/ Asks(a),
                 Busy(a)', Busy(b)', request'[a].clip = c, request'[b].clip = c
          PROVE  FALSE
      <3>1. request'[b] = request[b]
        BY <2>1 DEF Begins, Asks, StartUpload, StartChange, Base, TypeOK
      <3>2. Busy(b) /\ request[b].clip = c
        BY <2>1, <3>1 DEF Busy
      <3>3. CASE Begins(a)
        BY <2>1, <3>2, <3>3 DEF Begins, StartUpload, Fresh, Base, TypeOK
      <3>4. CASE Asks(a)
        BY <1>2, <2>1, <3>2, <3>4 DEF Asks, StartChange, Base, TypeOK
      <3>5. QED
        BY <2>1, <3>3, <3>4
    <2>2. QED
      BY <1>1, <1>2, <2>0, <2>1 DEF Was, Sole
  <1>3. QED
    BY <1>1, <1>2 DEF Sole

(* The owner's word is written by UpdateClip alone. *)
LEMMA WantedWriters ==
  ASSUME Base, [Next]_vars, NEW c \in Clips
  PROVE  \/ wanted'[c] = wanted[c]
         \/ \E w \in Workers :
              /\ UpdateClip(w) /\ request[w].clip = c /\ request[w].sets
              /\ wanted'[c] = request[w].public
  <1>1. ASSUME NEW w \in Workers, Upload(w) PROVE wanted' = wanted
    BY <1>1 DEF Upload, StartUpload, ReadLimit, ReadUsed, UploadToStorage,
                CreateClipRecord, history
  <1>2. ASSUME NEW w \in Workers, Change(w)
        PROVE  wanted' = wanted \/ UpdateClip(w)
    BY <1>2 DEF Change, StartChange, ReadClip, UploadThumbnail, CreditStorage, history
  <1>3. ASSUME NEW w \in Workers, Delete(w) PROVE wanted' = wanted
    BY <1>3 DEF Delete, DeleteObject, DeleteThumbnail, DeleteRow, DebitStorage, history
  <1>4. ASSUME Failure \/ UNCHANGED vars \/ \E l \in Limits : SetStorageLimit(l)
        PROVE  wanted' = wanted
    BY <1>4 DEF Failure, RequestFails, DeleteObjectFails, Restart, SetStorageLimit, vars,
                history
  <1>5. ASSUME NEW w \in Workers, UpdateClip(w), wanted'[c] # wanted[c]
        PROVE  /\ request[w].clip = c /\ request[w].sets
               /\ wanted'[c] = request[w].public
    BY <1>5 DEF UpdateClip, Base, TypeOK
  <1>6. QED
    BY <1>1, <1>2, <1>3, <1>4, <1>5 DEF Next

(* A clip never listed is public by default, as its row will be. *)
LEMMA NextUnspoken ==
  ASSUME Base, Unspoken, [Next]_vars
  PROVE  Unspoken'
  <1> SUFFICES ASSUME NEW c \in Clips, c \notin Listed', c \notin deleting'
               PROVE  wanted'[c] = TRUE
    BY DEF Unspoken
  <1>1. c \notin deleting
    BY DeletingWriters
  <1>2. c \notin Listed
    <2>1. ASSUME NEW w \in Workers, request[w].clip = c, DeleteRow(w) PROVE FALSE
      BY <1>1, <2>1, AtChange DEF DeleteRow, Changing, Dropping
    <2>2. QED
      BY <2>1, RowWriters, InsertLists, UpdateLists DEF Base, Listed
  <1>3. ASSUME NEW w \in Workers, UpdateClip(w) PROVE request[w].clip # c
    BY <1>1, <1>2, <1>3, AtChange DEF UpdateClip, Changing
  <1>4. QED
    BY <1>1, <1>2, <1>3, WantedWriters DEF Unspoken

(* Nobody else writes the clip of a request that holds its word. *)
LEMMA NextWordHeld ==
  ASSUME Base, Visibility, [Next]_vars
  PROVE  WordHeld'
  <1> SUFFICES ASSUME NEW w \in Workers, At(w, "putThumb")' \/ At(w, "write")'
               PROVE  /\ request'[w].sets => request'[w].seen.public = request'[w].public
                      /\ (~request'[w].sets /\ request'[w].clip \in Listed' \ raced')
                         => request'[w].seen.public = wanted'[request'[w].clip]
    BY DEF WordHeld
  <1>0. raced \subseteq raced'
    BY NextSole DEF Visibility
  <1>1. CASE request'[w] = request[w]
    <2>1. (At(w, "putThumb") \/ At(w, "write")) /\ Busy(w)
      BY <1>1 DEF At, Busy
    <2>2. request[w].clip \in Clips /\ request[w].op # "upload"
      BY <2>1, AtChange DEF Changing
    <2>3. ASSUME ~request[w].sets, request[w].clip \in Listed' \ raced'
          PROVE  request[w].seen.public = wanted'[request[w].clip]
      <3>1. request[w].clip \in Listed
        <4>1. ASSUME NEW u \in Workers, CreateClipRecord(u) PROVE request[u].clip # request[w].clip
          BY <2>1, <2>2, <4>1, InsertEnds DEF Base, UploadsAlone
        <4>2. ASSUME NEW u \in Workers, DeleteRow(u), request[u].clip = request[w].clip
              PROVE  FALSE
          BY <2>2, <2>3, <4>2 DEF DeleteRow, Base, TypeOK, Listed
        <4>3. QED
          BY <2>2, <2>3, <4>1, <4>2, RowWriters DEF Base, Listed
      <3>2. wanted'[request[w].clip] = wanted[request[w].clip]
        <4>1. ASSUME NEW u \in Workers, UpdateClip(u), request[u].clip = request[w].clip
              PROVE  u = w
          BY <1>0, <2>1, <2>2, <2>3, <4>1 DEF UpdateClip, At, Visibility, Sole
        <4>2. QED
          BY <2>2, <2>3, <4>1, WantedWriters
      <3>3. QED
        BY <1>0, <2>1, <2>3, <3>1, <3>2 DEF Visibility, WordHeld
    <2>4. request[w].sets => request[w].seen.public = request[w].public
      BY <2>1 DEF Visibility, WordHeld
    <2>5. QED
      BY <1>1, <2>3, <2>4
  <1>2. ~Begins(w) /\ ~Asks(w)
    BY DEF Begins, Asks, StartUpload, StartChange, At, Base, TypeOK
  <1>3. CASE Continues(w)
    <2>1. ReadClip(w) \/ UploadThumbnail(w)
      BY <1>3, Arrivals DEF Continues, Base, At
    <2>2. CASE UploadThumbnail(w)
      <3>1. /\ request[w] \in ChangeRequests /\ request[w].seen \in Rows
            /\ At(w, "putThumb")
        BY <2>2, AtChange DEF UploadThumbnail, Changing
      <3>2. request'[w] = [request[w] EXCEPT !.pc = "write",
              !.seen = [request[w].seen EXCEPT !.thumb = TRUE]]
        BY <2>2, <3>1 DEF UploadThumbnail, Base, TypeOK, ChangeRequests
      <3>3. /\ request'[w].seen = [request[w].seen EXCEPT !.thumb = TRUE]
            /\ request'[w].sets = request[w].sets /\ request'[w].public = request[w].public
        BY <3>1, <3>2 DEF ChangeRequests
      <3>4. request'[w].seen.public = request[w].seen.public
        BY <3>1, <3>3 DEF Rows
      <3>5. row' = row /\ wanted' = wanted /\ raced' = raced
        BY <2>2 DEF UploadThumbnail, history
      <3>6. QED
        BY <1>3, <3>1, <3>3, <3>4, <3>5 DEF Continues, Listed, Visibility, WordHeld
    <2>3. CASE ReadClip(w)
      <3>1. /\ request[w] \in ReadRequests /\ request[w].clip \in Clips
            /\ request[w].sets \in BOOLEAN /\ request[w].public \in BOOLEAN
        BY <2>3, Shapes DEF ReadClip, At, Base, ReadRequests
      <3>2. ~Finish(w)
        BY DEF Finish, At, Busy, Base, TypeOK
      <3>3. /\ row[request[w].clip] # NoRow
            /\ row' = row /\ wanted' = wanted /\ raced' = raced
            /\ request'[w].public = request[w].public
            /\ request'[w].sets = request[w].sets
            /\ request'[w].seen = [row[request[w].clip] EXCEPT
                 !.public = IF request[w].sets THEN request[w].public ELSE @]
        BY <2>3, <3>2 DEF ReadClip, Base, TypeOK, store
      <3>4. row[request[w].clip] \in Rows
        BY <3>1, <3>3 DEF Base, TypeOK
      <3>5. request'[w].seen.public =
              IF request[w].sets THEN request[w].public ELSE row[request[w].clip].public
        BY <3>3, <3>4 DEF Rows
      <3>6. QED
        BY <1>3, <3>1, <3>3, <3>5 DEF Continues, Visibility, VisibilityKept, Listed
    <2>4. QED
      BY <2>1, <2>2, <2>3
  <1>4. QED
    BY <1>1, <1>2, <1>3, RequestsMove DEF Base, At

(* What is written back is the owner's last word. *)
LEMMA NextVisibilityKept ==
  ASSUME Base, Visibility, [Next]_vars
  PROVE  VisibilityKept'
  <1> SUFFICES ASSUME NEW c \in Listed', c \notin raced'
               PROVE  row'[c].public = wanted'[c]
    BY DEF VisibilityKept
  <1>0. c \in Clips /\ c \notin raced /\ row'[c] # NoRow
    BY NextSole DEF Visibility, Listed
  <1>1. ASSUME NEW w \in Workers, UpdateClip(w), request[w].clip = c, c \in Listed
        PROVE  row'[c].public = wanted'[c]
    <2>1. row[c] \in Rows /\ At(w, "write") /\ request[w].seen \in Rows
      BY <1>0, <1>1, AtChange DEF UpdateClip, Base, TypeOK, Listed, Changing
    <2>2. row'[c] = [row[c] EXCEPT !.public = request[w].seen.public,
                                   !.thumb = request[w].seen.thumb]
      BY <1>0, <1>1 DEF UpdateClip, Base, TypeOK, Listed
    <2>3. row'[c].public = request[w].seen.public
      BY <2>1, <2>2 DEF Rows
    <2>4. wanted'[c] = IF request[w].sets THEN request[w].public ELSE wanted[c]
      BY <1>0, <1>1 DEF UpdateClip, Base, TypeOK
    <2>5. /\ request[w].sets => request[w].seen.public = request[w].public
          /\ ~request[w].sets => request[w].seen.public = wanted[c]
      BY <1>0, <1>1, <2>1 DEF Visibility, WordHeld
    <2>6. QED
      BY <2>3, <2>4, <2>5
  <1>2. ASSUME NEW w \in Workers, CreateClipRecord(w), request[w].clip = c
        PROVE  row'[c].public = wanted'[c]
    <2>1. row'[c].public = TRUE
      BY <1>0, <1>2 DEF CreateClipRecord, Base, TypeOK
    <2>2. c \notin Listed \cup deleting
      BY <1>2, InsertEnds DEF Base, UploadsAlone
    <2>3. wanted'[c] = wanted[c]
      BY <1>2 DEF CreateClipRecord, history
    <2>4. QED
      BY <1>0, <2>1, <2>2, <2>3 DEF Visibility, Unspoken
  <1>3. ASSUME NEW w \in Workers, DeleteRow(w) PROVE request[w].clip # c
    BY <1>0, <1>3 DEF DeleteRow, Base, TypeOK
  <1>4. ASSUME row'[c] = row[c], ~\E w \in Workers : UpdateClip(w) /\ request[w].clip = c
        PROVE  row'[c].public = wanted'[c]
    BY <1>0, <1>4, WantedWriters DEF Visibility, VisibilityKept, Listed
  <1>5. ASSUME row'[c] = row[c] PROVE c \in Listed
    BY <1>0, <1>5 DEF Listed
  <1>6. QED
    BY <1>0, <1>1, <1>2, <1>3, <1>4, <1>5, RowWriters DEF Base

-----------------------------------------------------------------------------
(* Sums.                                                                   *)

UnitsOf(size) == {u \in (DOMAIN size) \X (1..MaxSize) : u[2] <= size[u[1]]}

(* A sum over a finite set is a number, and at most MaxSize for each term, *)
(* or for each element of a larger set.                                    *)
LEMMA SumType ==
  ASSUME NEW E, IsFiniteSet(E), NEW D \in SUBSET E, NEW size \in [D -> 1..MaxSize]
  PROVE  /\ IsFiniteSet(UnitsOf(size))
         /\ SumOf(size) \in Nat
         /\ SumOf(size) <= Cardinality(E) * MaxSize
  <1>1. /\ IsFiniteSet(1..MaxSize)
        /\ Cardinality(1..MaxSize) = MaxSize
    BY MaxSizeAssumption, FS_Interval
  <1>2. /\ IsFiniteSet(E \X (1..MaxSize))
        /\ Cardinality(E \X (1..MaxSize)) = Cardinality(E) * MaxSize
    BY <1>1, FS_Product
  <1>3. UnitsOf(size) \in SUBSET (E \X (1..MaxSize))
    BY DEF UnitsOf
  <1>4. /\ IsFiniteSet(UnitsOf(size))
        /\ Cardinality(UnitsOf(size)) <= Cardinality(E) * MaxSize
    BY <1>2, <1>3, FS_Subset
  <1>5. Cardinality(UnitsOf(size)) \in Nat
    BY <1>4, FS_CardinalityType
  <1>6. QED
    BY <1>4, <1>5 DEF SumOf, UnitsOf

(* Fewer terms sum up to no more. *)
LEMMA SumFewer ==
  ASSUME NEW D, IsFiniteSet(D), NEW C \in SUBSET D,
         NEW size \in [D -> 1..MaxSize], NEW fewer \in [C -> 1..MaxSize],
         \A y \in C : fewer[y] = size[y]
  PROVE  SumOf(fewer) <= SumOf(size)
  <1>1. IsFiniteSet(UnitsOf(size))
    BY SumType
  <1>2. UnitsOf(fewer) \in SUBSET UnitsOf(size)
    BY DEF UnitsOf
  <1>3. Cardinality(UnitsOf(fewer)) <= Cardinality(UnitsOf(size))
    BY <1>1, <1>2, FS_Subset
  <1>4. QED
    BY <1>3 DEF SumOf, UnitsOf

(* A term more adds its size. *)
LEMMA SumMore ==
  ASSUME NEW D, IsFiniteSet(D), NEW x, x \notin D, NEW E, E = D \cup {x},
         NEW size \in [D -> 1..MaxSize], NEW more \in [E -> 1..MaxSize],
         \A y \in D : more[y] = size[y]
  PROVE  SumOf(more) = SumOf(size) + more[x]
  <1> DEFINE added == {x} \X (1..more[x])
  <1>1. more[x] \in 1..MaxSize /\ more[x] \in Int /\ more[x] >= 1 /\ more[x] <= MaxSize
    BY MaxSizeAssumption
  <1>2. IsFiniteSet(1..more[x]) /\ Cardinality(1..more[x]) = more[x]
    BY <1>1, FS_Interval
  <1>3. IsFiniteSet(added) /\ Cardinality(added) = more[x]
    <2>1. IsFiniteSet({x}) /\ Cardinality({x}) = 1
      BY FS_Singleton
    <2> DEFINE only == {x}
               terms == 1..more[x]
    <2>2. IsFiniteSet(only) /\ IsFiniteSet(terms)
      BY <1>2, <2>1
    <2>3. Cardinality(only) = 1 /\ Cardinality(terms) = more[x] /\ added = only \X terms
      BY <1>2, <2>1
    <2> HIDE DEF only, terms, added
    <2>4. /\ IsFiniteSet(only \X terms)
          /\ Cardinality(only \X terms) = Cardinality(only) * Cardinality(terms)
      BY <2>2, FS_Product
    <2>5. QED
      BY <1>1, <2>3, <2>4
  <1>4. UnitsOf(more) = UnitsOf(size) \cup added
    <2>1. \A k \in 1..MaxSize : k <= more[x] <=> k \in 1..more[x]
      BY <1>1, MaxSizeAssumption
    <2>2. 1..more[x] \subseteq 1..MaxSize
      BY <1>1, MaxSizeAssumption
    <2>3. QED
      BY <2>1, <2>2 DEF UnitsOf
  <1>5. UnitsOf(size) \cap added = {}
    BY DEF UnitsOf
  <1>6. IsFiniteSet(UnitsOf(size)) /\ Cardinality(UnitsOf(size)) \in Nat
    BY SumType, FS_CardinalityType
  <1>7. Cardinality(UnitsOf(more)) =
          Cardinality(UnitsOf(size)) + Cardinality(added) - 0
    BY <1>3, <1>4, <1>5, <1>6, FS_Union, FS_EmptySet
  <1>8. QED
    BY <1>1, <1>3, <1>6, <1>7 DEF SumOf, UnitsOf

-----------------------------------------------------------------------------
(* The storage limit.                                                      *)

ListedFinite == IsFiniteSet(Listed)

(* Rows, and admitted uploads, have sizes. *)
LEMMA RowSizes ==
  ASSUME TypeOK, NEW C \in SUBSET Listed
  PROVE  [c \in C |-> row[c].size] \in [C -> 1..MaxSize]
  BY DEF TypeOK, Listed, Rows

LEMMA AdmittedSizes ==
  ASSUME TypeOK, NEW A \in SUBSET Admitted
  PROVE  [w \in A |-> request[w].size] \in [A -> 1..MaxSize]
  <1>1. ASSUME NEW w \in Admitted PROVE request[w].size \in 1..MaxSize
    BY Shapes DEF Admitted, At, Uploading, UploadRequests
  <1>2. QED
    BY <1>1

(* An insert lists a clip that was neither listed nor marked. *)
LEMMA InsertAdds ==
  ASSUME Base, NEW w \in Workers, CreateClipRecord(w)
  PROVE  /\ request[w].clip \in Clips \ (Listed \cup deleting)
         /\ Listed' = Listed \cup {request[w].clip}
         /\ row'[request[w].clip].size = request[w].size
         /\ \A c \in Listed : row'[c].size = row[c].size
  <1>1. /\ request[w].clip \in Clips
        /\ request[w].clip \notin Listed \cup deleting
    BY InsertEnds, InsertLists DEF Base, UploadsAlone, Listed
  <1>2. /\ row'[request[w].clip] = [size |-> request[w].size, public |-> TRUE,
                                   thumb |-> FALSE, bucket |-> "clips"]
        /\ \A c \in Clips \ {request[w].clip} : row'[c] = row[c]
    BY <1>1 DEF CreateClipRecord, Base, TypeOK
  <1>3. request[w].clip \in Listed'
    BY InsertLists
  <1>4. QED
    BY <1>1, <1>2, <1>3 DEF Listed

(* An update lists nothing and keeps the sizes. *)
LEMMA UpdateKeeps ==
  ASSUME Base, NEW w \in Workers, UpdateClip(w)
  PROVE  Listed' = Listed /\ \A c \in Listed : row'[c].size = row[c].size
  <1>1. request[w].clip \in Clips
    BY AtChange DEF UpdateClip, Changing
  <1>2. CASE request[w].clip \in Listed
    <2>1. row' = [row EXCEPT ![request[w].clip].public = request[w].seen.public,
                             ![request[w].clip].thumb = request[w].seen.thumb]
      BY <1>2 DEF UpdateClip, Listed
    <2>2. /\ row'[request[w].clip].size = row[request[w].clip].size
          /\ \A c \in Clips \ {request[w].clip} : row'[c] = row[c]
      BY <1>1, <1>2, <2>1 DEF Base, TypeOK, Listed, Rows
    <2>3. request[w].clip \in Listed'
      BY <1>2, UpdateLists
    <2>4. QED
      BY <1>2, <2>2, <2>3 DEF Listed
  <1>3. CASE request[w].clip \notin Listed
    <2>1. row' = row
      BY <1>1, <1>3 DEF UpdateClip, Listed
    <2>2. QED
      BY <2>1 DEF Listed
  <1>4. QED
    BY <1>2, <1>3

(* A delete takes its clip off the list, or finds it gone. *)
LEMMA DeleteTakes ==
  ASSUME Base, NEW w \in Workers, DeleteRow(w)
  PROVE  /\ request[w].clip \in deleting
         /\ Listed' = Listed \ {request[w].clip}
         /\ \A c \in Listed' : row'[c] = row[c]
  <1>1. request[w].clip \in Clips /\ request[w].clip \in deleting
    BY AtChange DEF DeleteRow, Changing, Dropping
  <1>2. QED
    BY <1>1 DEF DeleteRow, Base, TypeOK, Listed

(* Rows come with an insert, go with a delete, and keep their size. *)
LEMMA ListedMoves ==
  ASSUME Base, [Next]_vars
  PROVE  LET Same(C) == \A c \in C : row'[c].size = row[c].size IN
         \/ Listed' = Listed /\ Same(Listed)
         \/ \E w \in Workers :
              /\ CreateClipRecord(w)
              /\ request[w].clip \in Clips \ (Listed \cup deleting)
              /\ Listed' = Listed \cup {request[w].clip}
              /\ row'[request[w].clip].size = request[w].size
              /\ Same(Listed)
         \/ \E w \in Workers :
              /\ DeleteRow(w)
              /\ request[w].clip \in Listed
              /\ Listed' = Listed \ {request[w].clip}
              /\ Same(Listed')
  <1> DEFINE Same(C) == \A c \in C : row'[c].size = row[c].size
  <1>1. CASE row' = row
    BY <1>1 DEF Listed
  <1>2. ASSUME NEW w \in Workers, DeleteRow(w), request[w].clip \notin Listed
        PROVE  Listed' = Listed /\ Same(Listed)
    <2>1. Listed' = Listed \ {request[w].clip} /\ \A c \in Listed' : row'[c] = row[c]
      BY <1>2, DeleteTakes
    <2>2. QED
      BY <1>2, <2>1
  <1>3. ASSUME NEW w \in Workers, DeleteRow(w), request[w].clip \in Listed
        PROVE  Listed' = Listed \ {request[w].clip} /\ Same(Listed')
    BY <1>3, DeleteTakes
  <1>4. QED
    BY <1>1, <1>2, <1>3, InsertAdds, UpdateKeeps, RowCalls

(* What the two reads of CheckRoomFor know of the highest limit. *)
LimitsSeen ==
  /\ limit = 0 => topLimit = 0
  /\ topLimit # 0 => limit <= topLimit
  /\ \A w \in Workers : At(w, "readUsed") /\ topLimit # 0 => request[w].limit <= topLimit

(* Only the administrator writes the limit. *)
LEMMA LimitWriters ==
  ASSUME [Next]_vars
  PROVE  \/ limit' = limit /\ topLimit' = topLimit
         \/ \E l \in Limits : SetStorageLimit(l)
  <1>1. ASSUME NEW w \in Workers, Upload(w) PROVE limit' = limit /\ topLimit' = topLimit
    BY <1>1 DEF Upload, StartUpload, ReadLimit, ReadUsed, UploadToStorage,
                CreateClipRecord, store, history
  <1>2. ASSUME NEW w \in Workers, Change(w) PROVE limit' = limit /\ topLimit' = topLimit
    BY <1>2 DEF Change, StartChange, ReadClip, UploadThumbnail, UpdateClip,
                CreditStorage, store, history
  <1>3. ASSUME NEW w \in Workers, Delete(w) PROVE limit' = limit /\ topLimit' = topLimit
    BY <1>3 DEF Delete, DeleteObject, DeleteThumbnail, DeleteRow, DebitStorage, history
  <1>4. ASSUME Failure \/ UNCHANGED vars PROVE limit' = limit /\ topLimit' = topLimit
    BY <1>4 DEF Failure, RequestFails, DeleteObjectFails, Restart, vars, store, history
  <1>5. QED
    BY <1>1, <1>2, <1>3, <1>4 DEF Next

(* The highest limit never drops, except to none for good. *)
LEMMA TopLimitGrows ==
  ASSUME Base, [Next]_vars, topLimit' # 0
  PROVE  topLimit # 0 /\ topLimit <= topLimit' /\ topLimit \in Nat /\ topLimit' \in Nat
  <1>1. topLimit \in Nat
    BY LimitsAssumption DEF Base, TypeOK
  <1>2. ASSUME NEW l \in Limits, SetStorageLimit(l)
        PROVE  topLimit # 0 /\ topLimit <= topLimit' /\ topLimit' \in Nat
    BY <1>1, <1>2, LimitsAssumption DEF SetStorageLimit
  <1>3. QED
    BY <1>1, <1>2, LimitWriters

(* The limit a request compares with was in force. *)
LEMMA NextLimitsSeen ==
  ASSUME Base, LimitsSeen, [Next]_vars
  PROVE  LimitsSeen'
  <1>1. limit \in Nat /\ topLimit \in Nat
    BY LimitsAssumption DEF Base, TypeOK
  <1>2. (limit' = 0 => topLimit' = 0) /\ (topLimit' # 0 => limit' <= topLimit')
    <2>1. ASSUME NEW l \in Limits, SetStorageLimit(l)
          PROVE  (limit' = 0 => topLimit' = 0) /\ (topLimit' # 0 => limit' <= topLimit')
      BY <1>1, <2>1, LimitsAssumption DEF SetStorageLimit
    <2>2. QED
      BY <2>1, LimitWriters DEF LimitsSeen
  <1>3. ASSUME NEW w \in Workers, At(w, "readUsed")', topLimit' # 0
        PROVE  request'[w].limit <= topLimit'
    <2>1. topLimit # 0 /\ topLimit <= topLimit' /\ topLimit' \in Nat
      BY <1>3, TopLimitGrows
    <2>2. CASE request'[w] = request[w]
      <3>1. At(w, "readUsed")
        BY <1>3, <2>2 DEF At, Busy
      <3>2. request[w].limit \in Nat /\ request[w].limit <= topLimit
        BY <2>1, <3>1, Shapes, LimitsAssumption
        DEF At, Uploading, UploadRequests, Base, LimitsSeen
      <3>3. QED
        BY <1>1, <2>1, <2>2, <3>2
    <2>3. ~Begins(w) /\ ~Asks(w)
      BY <1>3 DEF Begins, Asks, StartUpload, StartChange, At, Base, TypeOK
    <2>4. CASE Continues(w)
      <3>1. ReadLimit(w)
        BY <1>3, <2>4, Arrivals DEF Continues, Base, At
      <3>2. request'[w].limit = limit
        BY <3>1, Shapes DEF ReadLimit, At, Uploading, UploadRequests, Base, TypeOK
      <3>3. QED
        BY <1>1, <2>1, <3>2 DEF LimitsSeen
    <2>5. QED
      BY <1>3, <2>2, <2>3, <2>4, RequestsMove DEF Base, At
  <1>4. QED
    BY <1>2, <1>3 DEF LimitsSeen

LEMMA UploadNumbers ==
  ASSUME NEW r \in UploadRequests
  PROVE  r.size \in Nat /\ r.limit \in Nat /\ r.size \in 1..MaxSize
  <1>1. r.size \in 1..MaxSize /\ r.limit \in Limits
    BY DEF UploadRequests
  <1>2. r.size \in Nat
    BY <1>1, MaxSizeAssumption
  <1>3. r.limit \in Nat
    BY <1>1, LimitsAssumption
  <1>4. QED
    BY <1>1, <1>2, <1>3

(* An upload is admitted by the sum it reads, or because there is no limit. *)
LEMMA Admission ==
  ASSUME Base, ListedFinite, LimitsSeen, [Next]_vars, topLimit # 0,
         NEW w \in Admitted'
  PROVE  /\ request'[w].size = request[w].size
         /\ \/ w \in Admitted
            \/ /\ ReadUsed(w) /\ request[w] \in UploadRequests
               /\ TotalStorageUsed + request[w].size <= request[w].limit
  <1>0. w \in Workers /\ Busy(w)' /\ request'[w].pc \in {"put", "insert"}
    BY DEF Admitted, At
  <1>1. CASE request'[w] = request[w]
    BY <1>0, <1>1 DEF Admitted, At, Busy
  <1>2. ~Begins(w) /\ ~Asks(w)
    BY <1>0 DEF Begins, Asks, StartUpload, StartChange, Base, TypeOK
  <1>3. CASE Continues(w)
    <2>1. UploadToStorage(w) \/ ReadUsed(w)
      BY <1>0, <1>3, Arrivals DEF Continues, Base, LimitsSeen
    <2>2. request[w] \in UploadRequests
      BY <1>0, <2>1, Shapes DEF UploadToStorage, ReadUsed, At, Uploading, Base
    <2>3. ~Finish(w)
      BY <1>0 DEF Finish, Busy, Base, TypeOK
    <2>4. request'[w].size = request[w].size
      BY <1>0, <2>1, <2>2, <2>3 DEF UploadToStorage, ReadUsed, Goto, Base, TypeOK, UploadRequests
    <2>5. CASE UploadToStorage(w)
      BY <1>0, <2>4, <2>5 DEF UploadToStorage, Admitted
    <2>6. CASE ReadUsed(w)
      <3>1. ~(TotalStorageUsed + request[w].size > request[w].limit)
        BY <2>3, <2>6 DEF ReadUsed
      <3>2. TotalStorageUsed \in Nat
        BY SumType, RowSizes DEF TotalStorageUsed, Base, ListedFinite
      <3>3. request[w].size \in Nat /\ request[w].limit \in Nat
        BY <2>2, UploadNumbers
      <3>4. QED
        BY <2>2, <2>4, <2>6, <3>1, <3>2, <3>3
    <2>7. QED
      BY <2>1, <2>5, <2>6
  <1>4. QED
    BY <1>0, <1>1, <1>2, <1>3, RequestsMove DEF Base

Coming == SumOf([w \in Admitted |-> request[w].size])

SumsNatural == TotalStorageUsed \in Nat /\ Coming \in Nat

(* Both sums are numbers. *)
LEMMA SumsAreNatural == Base /\ ListedFinite => SumsNatural
  <1> SUFFICES ASSUME Base, ListedFinite PROVE SumsNatural
    OBVIOUS
  <1>1. TotalStorageUsed \in Nat
    BY SumType, RowSizes DEF TotalStorageUsed, Base, ListedFinite
  <1>2. Coming \in Nat
    BY SumType, AdmittedSizes, WorkersAssumption DEF Coming, Base, Admitted
  <1>3. QED
    BY <1>1, <1>2 DEF SumsNatural

(* What is asked for by all requests but one. *)
LEMMA OthersBounded ==
  ASSUME NEW w \in Workers, NEW A \in SUBSET (Workers \ {w}),
         NEW size \in [A -> 1..MaxSize]
  PROVE  /\ SumOf(size) \in Nat
         /\ SumOf(size) <= (Cardinality(Workers) - 1) * MaxSize
  <1>1. IsFiniteSet(Workers \ {w}) /\ Cardinality(Workers \ {w}) = Cardinality(Workers) - 1
    BY WorkersAssumption, FS_RemoveElement
  <1>2. QED
    BY <1>1, SumType

(* The uploads that overlap the last one admitted are all that the sum it  *)
(* read may have missed.                                                   *)
LEMMA AdmissionBounded ==
  ASSUME Base, Base', ListedFinite, LimitsSeen, [Next]_vars, topLimit # 0,
         NEW w \in Workers, ReadUsed(w), w \in Admitted', w \notin Admitted
  PROVE  TotalStorageUsed' + Coming' <= topLimit + (Cardinality(Workers) - 1) * MaxSize
  <1> DEFINE A == Admitted' \ {w}
             more == [v \in Admitted' |-> request'[v].size]
             rest == [v \in A |-> request'[v].size]
  <1>1. /\ TotalStorageUsed + request[w].size <= request[w].limit
        /\ request'[w].size = request[w].size /\ request[w] \in UploadRequests
    BY Admission
  <1>2. request[w].limit <= topLimit
    BY DEF ReadUsed, LimitsSeen
  <1>3. topLimit \in Nat /\ request[w].limit \in Nat /\ request[w].size \in Nat
    BY <1>1, UploadNumbers, LimitsAssumption DEF Base, TypeOK
  <1>4. TotalStorageUsed' = TotalStorageUsed
    BY DEF ReadUsed, store, Listed, TotalStorageUsed
  <1>5. Admitted' = A \cup {w} /\ w \notin A /\ A \in SUBSET (Workers \ {w})
    BY DEF Admitted
  <1>6. ASSUME NEW v \in Admitted' PROVE request'[v].size \in 1..MaxSize
    BY Admission, UploadNumbers, Shapes DEF Admitted, At, Uploading, Base
  <1>7. /\ more \in [Admitted' -> 1..MaxSize] /\ rest \in [A -> 1..MaxSize]
        /\ \A v \in A : more[v] = rest[v]
        /\ more[w] = request[w].size /\ Coming' = SumOf(more)
    BY <1>1, <1>6 DEF Coming
  <1>8. IsFiniteSet(A)
    BY <1>5, WorkersAssumption, FS_Subset
  <1> HIDE DEF A, more, rest
  <1>9. SumOf(more) = SumOf(rest) + more[w]
    BY <1>5, <1>7, <1>8, SumMore
  <1>10. Coming' = SumOf(rest) + request[w].size
    BY <1>7, <1>9
  <1>11. SumOf(rest) \in Nat /\ SumOf(rest) <= (Cardinality(Workers) - 1) * MaxSize
    BY <1>5, <1>7, OthersBounded
  <1>12. TotalStorageUsed \in Nat /\ (Cardinality(Workers) - 1) * MaxSize \in Int
    BY SumsAreNatural, WorkersAssumption, FS_CardinalityType, MaxSizeAssumption
    DEF SumsNatural
  <1>13. QED
    BY <1>1, <1>2, <1>3, <1>4, <1>10, <1>11, <1>12

(* With none admitted, bytes only move from the uploads to the rows, or go. *)
LEMMA BytesMove ==
  ASSUME Base, Base', ListedFinite, ListedFinite', LimitsSeen,
         [Next]_vars, topLimit # 0, Admitted' \subseteq Admitted
  PROVE  TotalStorageUsed' + Coming' <= TotalStorageUsed + Coming
  <1> DEFINE rows == [c \in Listed |-> row[c].size]
             rowsNext == [c \in Listed' |-> row'[c].size]
             asked(B) == [w \in B |-> request[w].size]
  <1>1. TotalStorageUsed' = SumOf(rowsNext) /\ TotalStorageUsed = SumOf(rows)
    BY DEF TotalStorageUsed
  <1>2. Coming' = SumOf(asked(Admitted')) /\ Coming = SumOf(asked(Admitted))
    <2>1. asked(Admitted') = [w \in Admitted' |-> request'[w].size]
      BY Admission
    <2>2. QED
      BY <2>1 DEF Coming
  <1>3. rows \in [Listed -> 1..MaxSize] /\ rowsNext \in [Listed' -> 1..MaxSize]
    BY DEF Base, TypeOK, Listed, Rows
  <1>4. ASSUME NEW B \in SUBSET Admitted
        PROVE  asked(B) \in [B -> 1..MaxSize] /\ SumOf(asked(B)) \in Nat /\ IsFiniteSet(B)
    <2>1. asked(B) \in [B -> 1..MaxSize]
      BY AdmittedSizes DEF Base
    <2>2. IsFiniteSet(B)
      BY WorkersAssumption, FS_Subset DEF Admitted
    <2>3. QED
      BY <2>1, <2>2, SumType
  <1>5. ASSUME NEW B \in SUBSET Admitted, NEW C \in SUBSET B
        PROVE  SumOf(asked(C)) <= SumOf(asked(B))
    BY <1>4, SumFewer
  <1>6. SumOf(rows) \in Nat /\ SumOf(rowsNext) \in Nat
    BY <1>3, SumType DEF ListedFinite
  <1>7. ASSUME Listed' \subseteq Listed, \A c \in Listed' : row'[c].size = row[c].size
        PROVE  SumOf(rowsNext) <= SumOf(rows)
    BY <1>3, <1>7, SumFewer DEF ListedFinite
  <1>8. ASSUME NEW w \in Workers, CreateClipRecord(w), request[w].clip \notin Listed,
               Listed' = Listed \cup {request[w].clip},
               row'[request[w].clip].size = request[w].size,
               \A c \in Listed : row'[c].size = row[c].size
        PROVE  SumOf(rowsNext) + SumOf(asked(Admitted')) <= SumOf(rows) + SumOf(asked(Admitted))
    <2> DEFINE B == Admitted \ {w}
    <2>1. SumOf(rowsNext) = SumOf(rows) + request[w].size
      <3> DEFINE new == request[w].clip
      <3>1. /\ new \notin Listed /\ Listed' = Listed \cup {new}
            /\ \A c \in Listed : rowsNext[c] = rows[c]
            /\ rowsNext[new] = request[w].size
        BY <1>8
      <3> HIDE DEF rows, rowsNext, new
      <3>2. SumOf(rowsNext) = SumOf(rows) + rowsNext[new]
        BY <1>3, <3>1, SumMore DEF ListedFinite
      <3>3. QED
        BY <3>1, <3>2
    <2>2. w \in Admitted /\ ~Busy(w)'
      BY <1>8, InsertEnds DEF CreateClipRecord, Admitted, Base
    <2>3. Admitted' \in SUBSET B /\ B \in SUBSET Admitted /\ Admitted = B \cup {w} /\ w \notin B
      BY <2>2 DEF Admitted, At
    <2>4. SumOf(asked(Admitted)) = SumOf(asked(B)) + request[w].size
      <3> DEFINE all == asked(Admitted)
                 rest == asked(B)
      <3>1. /\ all \in [Admitted -> 1..MaxSize] /\ rest \in [B -> 1..MaxSize]
            /\ IsFiniteSet(B) /\ all[w] = request[w].size
            /\ \A v \in B : all[v] = rest[v]
        BY <1>4, <2>2
      <3> HIDE DEF all, rest
      <3>2. SumOf(all) = SumOf(rest) + all[w]
        BY <2>3, <3>1, SumMore
      <3>3. QED
        BY <3>1, <3>2 DEF all, rest
    <2>5. SumOf(asked(Admitted')) <= SumOf(asked(B))
      BY <1>5, <2>3
    <2>6. request[w].size \in Nat
      BY <2>2, UploadNumbers, Shapes DEF Admitted, At, Uploading, Base
    <2>7. SumOf(asked(Admitted')) \in Nat /\ SumOf(asked(B)) \in Nat
      BY <1>4, <2>3
    <2>8. QED
      BY <1>6, <2>1, <2>4, <2>5, <2>6, <2>7
  <1>9. SumOf(rowsNext) + SumOf(asked(Admitted')) <= SumOf(rows) + SumOf(asked(Admitted))
    <2>1. /\ SumOf(asked(Admitted')) <= SumOf(asked(Admitted))
          /\ SumOf(asked(Admitted')) \in Nat /\ SumOf(asked(Admitted)) \in Nat
      BY <1>4, <1>5
    <2>2. CASE SumOf(rowsNext) <= SumOf(rows)
      BY <1>6, <2>1, <2>2
    <2>3. QED
      BY <1>7, <1>8, <2>2, ListedMoves
  <1>10. QED
    BY <1>1, <1>2, <1>9

(* The clips, those on their way included, stay within one file per other  *)
(* request of the highest limit.                                           *)
LEMMA NextOvershootBounded ==
  ASSUME Base, Base', ListedFinite, ListedFinite', LimitsSeen,
         OvershootBounded, [Next]_vars
  PROVE  OvershootBounded'
  <1> DEFINE slack == (Cardinality(Workers) - 1) * MaxSize
  <1> SUFFICES ASSUME topLimit' # 0
               PROVE  TotalStorageUsed' + Coming' <= topLimit' + slack
    BY DEF OvershootBounded, Coming
  <1>1. /\ topLimit # 0 /\ topLimit <= topLimit'
        /\ topLimit \in Nat /\ topLimit' \in Nat
    BY TopLimitGrows
  <1>2. slack \in Int
    BY WorkersAssumption, FS_CardinalityType, MaxSizeAssumption
  <1>3. TotalStorageUsed + Coming <= topLimit + slack
    BY <1>1 DEF OvershootBounded, Coming
  <1>4. TotalStorageUsed \in Nat /\ Coming \in Nat
    BY SumsAreNatural DEF SumsNatural
  <1>5. TotalStorageUsed' \in Nat /\ Coming' \in Nat
    <2>1. SumsNatural'
      BY SumsAreNatural, PTL
    <2>2. QED
      BY <2>1 DEF SumsNatural
  <1> HIDE DEF slack
  <1>6. \A sum, next, top, high \in Int :
          /\ next <= sum /\ sum <= top + slack => next <= top + slack
          /\ next <= top + slack /\ top <= high => next <= high + slack
    BY <1>2
  <1>7. /\ TotalStorageUsed + Coming \in Int /\ TotalStorageUsed' + Coming' \in Int
        /\ topLimit \in Int /\ topLimit' \in Int
    BY <1>1, <1>4, <1>5
  <1>8. ASSUME NEW w \in Admitted', w \notin Admitted
        PROVE  TotalStorageUsed' + Coming' <= topLimit + slack
    BY <1>1, <1>8, Admission, AdmissionBounded DEF Admitted, slack
  <1>9. ASSUME Admitted' \subseteq Admitted
        PROVE  TotalStorageUsed' + Coming' <= topLimit + slack
    <2>1. TotalStorageUsed' + Coming' <= TotalStorageUsed + Coming
      BY <1>1, <1>9, BytesMove
    <2>2. QED
      BY <1>3, <1>6, <1>7, <2>1
  <1>10. TotalStorageUsed' + Coming' <= topLimit + slack
    BY <1>8, <1>9
  <1>11. QED
    BY <1>1, <1>6, <1>7, <1>10

(* A step adds at most one row. *)
LEMMA NextListedFinite ==
  ASSUME Base, ListedFinite, [Next]_vars
  PROVE  ListedFinite'
  <1>1. IsFiniteSet(Listed)
    BY DEF ListedFinite
  <1>2. \A c : IsFiniteSet(Listed \cup {c}) /\ IsFiniteSet(Listed \ {c})
    BY <1>1, FS_AddElement, FS_RemoveElement
  <1>3. IsFiniteSet(Listed')
    BY <1>1, <1>2, ListedMoves
  <1>4. QED
    BY <1>3 DEF ListedFinite

(* Nothing sums up to nothing. *)
LEMMA SumNone ==
  ASSUME NEW size, DOMAIN size = {}
  PROVE  SumOf(size) = 0
  BY FS_EmptySet DEF SumOf

LimitKept == ListedFinite /\ LimitsSeen /\ OvershootBounded

LEMMA InitLimitKept == Init => LimitKept
  <1> SUFFICES ASSUME Init PROVE LimitKept
    OBVIOUS
  <1>1. Listed = {} /\ Admitted = {} /\ \A w \in Workers : ~At(w, "readUsed")
    BY DEF Init, Listed, Admitted, At, Busy
  <1>2. topLimit = limit /\ limit \in Nat
    BY LimitsAssumption DEF Init
  <1>3. ListedFinite /\ LimitsSeen
    BY <1>1, <1>2, FS_EmptySet DEF ListedFinite, LimitsSeen
  <1>4. TotalStorageUsed = 0
    BY <1>1, SumNone DEF TotalStorageUsed
  <1>5. SumOf([w \in Admitted |-> request[w].size]) = 0
    BY <1>1, SumNone
  <1>6. Cardinality(Workers) - 1 \in Nat
    <2>1. Cardinality(Workers) \in Nat /\ Cardinality(Workers) # 0
      BY WorkersAssumption, FS_CardinalityType, FS_EmptySet
    <2>2. QED
      BY <2>1
  <1>7. \A m, n \in Nat : m * n \in Nat
    OBVIOUS
  <1>8. (Cardinality(Workers) - 1) * MaxSize \in Nat
    BY <1>6, <1>7, MaxSizeAssumption
  <1>9. OvershootBounded
    BY <1>2, <1>4, <1>5, <1>8 DEF OvershootBounded
  <1>10. QED
    BY <1>3, <1>9 DEF LimitKept

LEMMA NextLimitKept == Base /\ Base' /\ LimitKept /\ [Next]_vars => LimitKept'
  BY NextListedFinite, NextLimitsSeen, NextOvershootBounded DEF LimitKept

-----------------------------------------------------------------------------
(* The storage counter.                                                    *)

Holding == {"write", "credit", "putThumb", "dropObject", "dropThumb", "dropRow"}

(* The row a request holds is that of its clip, until it deletes it. *)
RowsHeld ==
  \A w \in Workers : Busy(w) /\ request[w].clip \notin raced =>
    /\ \A pc \in Holding : At(w, pc) =>
         request[w].clip \in Listed /\ request[w].seen.size = row[request[w].clip].size
    /\ At(w, "debit") => request[w].clip \notin Listed

Credited == SumOf([c \in Listed \cap finalized |-> row[c].size])

Debiting == {w \in Workers : At(w, "debit") /\ request[w].clip \in finalized}

Owed == SumOf([w \in Debiting |-> request[w].seen.size])

(* The counter is the size of the clips credited, those whose row is gone  *)
(* and whose debit is still to come included.                              *)
Balanced == used = Credited + Owed

Account ==
  /\ finalized \subseteq Listed \cup deleting
  /\ RowsHeld
  /\ regular => raced = {} /\ Balanced

(* Once irregular, always irregular; failures and overlaps are. *)
LEMMA RegularSteps ==
  ASSUME Base, [Next]_vars, regular'
  PROVE  regular /\ ~Failure /\ raced' = raced
  <1>1. ~Failure
    BY DEF Failure, RequestFails, DeleteObjectFails, Restart, Fault
  <1>2. ASSUME NEW w \in Workers, Upload(w) PROVE regular' = regular /\ raced' = raced
    BY <1>2 DEF Upload, StartUpload, ReadLimit, ReadUsed, UploadToStorage,
                CreateClipRecord, history
  <1>3. ASSUME NEW w \in Workers, Change(w) PROVE regular /\ raced' = raced
    BY <1>3 DEF Change, StartChange, ReadClip, UploadThumbnail, UpdateClip,
                CreditStorage, history
  <1>4. ASSUME NEW w \in Workers, Delete(w) PROVE regular /\ raced' = raced
    BY <1>4 DEF Delete, DeleteObject, DeleteThumbnail, DeleteRow, DebitStorage, history
  <1>5. ASSUME UNCHANGED vars \/ \E l \in Limits : SetStorageLimit(l)
        PROVE  regular' = regular /\ raced' = raced
    BY <1>5 DEF SetStorageLimit, vars, history
  <1>6. QED
    BY <1>1, <1>2, <1>3, <1>4, <1>5 DEF Next

(* The counter is written by the two calls that do so. *)
LEMMA UsedWriters ==
  ASSUME [Next]_vars
  PROVE  \/ used' = used /\ finalized' = finalized
         \/ \E w \in Workers : CreditStorage(w) \/ DebitStorage(w)
  <1>1. ASSUME NEW w \in Workers, Upload(w) PROVE used' = used /\ finalized' = finalized
    BY <1>1 DEF Upload, StartUpload, ReadLimit, ReadUsed, UploadToStorage,
                CreateClipRecord, store, history
  <1>2. ASSUME NEW w \in Workers, Change(w)
        PROVE  CreditStorage(w) \/ (used' = used /\ finalized' = finalized)
    BY <1>2 DEF Change, StartChange, ReadClip, UploadThumbnail, UpdateClip, store, history
  <1>3. ASSUME NEW w \in Workers, Delete(w)
        PROVE  DebitStorage(w) \/ (used' = used /\ finalized' = finalized)
    BY <1>3 DEF Delete, DeleteObject, DeleteThumbnail, DeleteRow, history
  <1>4. ASSUME Failure \/ UNCHANGED vars \/ \E l \in Limits : SetStorageLimit(l)
        PROVE  used' = used /\ finalized' = finalized
    BY <1>4 DEF Failure, RequestFails, DeleteObjectFails, Restart, SetStorageLimit,
                vars, store, history
  <1>5. QED
    BY <1>1, <1>2, <1>3, <1>4 DEF Next

(* A clip credited has a row, or had one. *)
LEMMA NextFinalizedKnown ==
  ASSUME Base, finalized \subseteq Listed \cup deleting, [Next]_vars
  PROVE  finalized' \subseteq Listed' \cup deleting'
  <1>1. \A c \in Clips : c \in Listed \cup deleting => c \in Listed' \cup deleting'
    BY StaysKnown
  <1>2. ASSUME NEW w \in Workers, CreditStorage(w)
        PROVE  finalized' \subseteq Listed \cup deleting
    BY <1>2, AtChange DEF CreditStorage, Changing
  <1>3. ASSUME NEW w \in Workers, DebitStorage(w) PROVE finalized' = finalized
    BY <1>3 DEF DebitStorage
  <1>4. finalized' \subseteq Listed \cup deleting
    BY <1>2, <1>3, UsedWriters
  <1>5. Listed \subseteq Clips /\ deleting \subseteq Clips
    BY DEF Base, TypeOK, Listed
  <1>6. QED
    BY <1>1, <1>4, <1>5

(* Alone with its clip, a request deletes the row it holds itself. *)
LEMMA NextRowsHeld ==
  ASSUME Base, Sole, RowsHeld, [Next]_vars
  PROVE  RowsHeld'
  <1>r. raced \subseteq raced'
    BY NextSole
  <1>0. ASSUME NEW w \in Workers, NEW v \in Workers, Busy(w), request[w].clip \notin raced,
               DeleteRow(v), v # w
        PROVE  request[v].clip # request[w].clip
    <2>1. Busy(v) /\ request[v].clip \in Clips
      BY <1>0, AtChange DEF DeleteRow, At, Changing
    <2>2. QED
      BY <1>0, <2>1 DEF Sole
  <1>1. ASSUME NEW w \in Workers, NEW pc \in Holding, At(w, pc)', request'[w].clip \notin raced'
        PROVE  /\ request'[w].clip \in Listed'
               /\ request'[w].seen.size = row'[request'[w].clip].size
    <2>1. CASE request'[w] = request[w]
      <3>1. At(w, pc) /\ Busy(w) /\ pc \in Changing /\ request[w].clip \notin raced
        BY <1>r, <1>1, <2>1 DEF At, Busy, Holding, Changing
      <3>2. request[w].clip \in Listed /\ request[w].seen.size = row[request[w].clip].size
        BY <1>1, <3>1 DEF RowsHeld
      <3>3. ASSUME NEW v \in Workers, DeleteRow(v) PROVE request[v].clip # request[w].clip
        <4>1. v # w
          BY <1>1, <2>1, <3>1, <3>3, AtChange
          DEF DeleteRow, Goto, Base, TypeOK, At, Holding, ChangeRequests, Changing
        <4>2. QED
          BY <1>0, <3>1, <3>3, <4>1 DEF At
      <3>4. request[w].clip \in Listed' /\ row'[request[w].clip].size = row[request[w].clip].size
        BY <3>2, <3>3, ListedMoves
      <3>5. QED
        BY <2>1, <3>2, <3>4
    <2>2. ~Begins(w) /\ ~Asks(w)
      BY <1>1 DEF Begins, Asks, StartUpload, StartChange, At, Base, TypeOK, Holding
    <2>3. CASE Continues(w)
      <3>0. request[w].clip \notin raced
        BY <1>r, <1>1, <2>3 DEF Continues
      <3>1. CASE ReadClip(w)
        <4>1. request[w] \in ReadRequests /\ request[w].clip \in Clips
          BY <3>1, Shapes DEF ReadClip, At, Base, ReadRequests
        <4>2. ~Finish(w)
          BY <1>1 DEF Finish, At, Busy, Base, TypeOK
        <4>3. /\ row[request[w].clip] # NoRow /\ row' = row
              /\ request'[w].seen = [row[request[w].clip] EXCEPT
                   !.public = IF request[w].sets THEN request[w].public ELSE @]
          BY <3>1, <4>2 DEF ReadClip, Base, TypeOK, store
        <4>4. row[request[w].clip] \in Rows
          BY <4>1, <4>3 DEF Base, TypeOK
        <4>5. request'[w].seen.size = row[request[w].clip].size
          BY <4>3, <4>4 DEF Rows
        <4>6. QED
          BY <2>3, <4>1, <4>3, <4>5 DEF Continues, Listed
      <3>2. CASE ~ReadClip(w)
        <4>1. PICK held \in Holding : At(w, held)
          BY <1>1, <2>3, <3>2, Arrivals
          DEF Continues, Base, At, UploadThumbnail, UpdateClip, DeleteObject,
              DeleteThumbnail, DeleteObjectFails, Holding
        <4>2. /\ request[w].clip \in Listed
              /\ request[w].seen.size = row[request[w].clip].size
          BY <3>0, <4>1 DEF RowsHeld, At
        <4>3. request[w] \in ChangeRequests /\ request[w].seen \in Rows
          BY <4>1, AtChange DEF Holding, Changing
        <4>4. ~DeleteRow(w)
          BY <1>1, <4>3 DEF DeleteRow, Goto, At, Base, TypeOK, ChangeRequests, Holding
        <4>5. request'[w].seen.size = request[w].seen.size
          <5>1. CASE UploadThumbnail(w)
            <6>1. request'[w].seen = [request[w].seen EXCEPT !.thumb = TRUE]
              BY <4>3, <5>1 DEF UploadThumbnail, Base, TypeOK, ChangeRequests
            <6>2. QED
              BY <4>3, <6>1 DEF Rows
          <5>2. ASSUME NEW next, Goto(w, next)
                PROVE  request'[w].seen.size = request[w].seen.size
            BY <4>3, <5>2 DEF Goto, Base, TypeOK, ChangeRequests
          <5>3. ~Finish(w)
            BY <1>1 DEF Finish, At, Busy, Base, TypeOK
          <5>4. UploadThumbnail(w) \/ \E next : Goto(w, next)
            BY <1>1, <2>3, <3>2, <5>3, Arrivals
            DEF Continues, Base, At, UpdateClip, DeleteObject, DeleteThumbnail,
                DeleteObjectFails, Holding
          <5>5. QED
            BY <5>1, <5>2, <5>4
        <4>6. ASSUME NEW v \in Workers, DeleteRow(v) PROVE request[v].clip # request[w].clip
          BY <1>0, <3>0, <4>1, <4>4, <4>6 DEF At
        <4>7. /\ request[w].clip \in Listed'
              /\ row'[request[w].clip].size = row[request[w].clip].size
          BY <4>2, <4>6, ListedMoves
        <4>8. QED
          BY <2>3, <4>2, <4>5, <4>7 DEF Continues
      <3>3. QED
        BY <3>1, <3>2
    <2>4. QED
      BY <1>1, <2>1, <2>2, <2>3, RequestsMove DEF Base, At
  <1>2. ASSUME NEW w \in Workers, At(w, "debit")', request'[w].clip \notin raced'
        PROVE  request'[w].clip \notin Listed'
    <2>1. CASE request'[w] = request[w]
      <3>1. At(w, "debit") /\ Busy(w) /\ request[w].clip \notin raced
        BY <1>r, <1>2, <2>1 DEF At, Busy
      <3>2. request[w].clip \in deleting /\ request[w].clip \notin Listed
        BY <3>1, AtChange DEF RowsHeld, Changing, Dropping
      <3>3. QED
        BY <2>1, <3>2, ListedMoves
    <2>2. ~Begins(w) /\ ~Asks(w)
      BY <1>2 DEF Begins, Asks, StartUpload, StartChange, At, Base, TypeOK
    <2>3. CASE Continues(w)
      <3>1. DeleteRow(w)
        BY <1>2, <2>3, Arrivals DEF Continues, Base, At
      <3>2. request[w].clip \in Clips
        BY <3>1, AtChange DEF DeleteRow, Changing
      <3>3. row'[request[w].clip] = NoRow
        BY <3>1, <3>2 DEF DeleteRow, Base, TypeOK
      <3>4. QED
        BY <2>3, <3>3 DEF Continues, Listed
    <2>4. QED
      BY <1>2, <2>1, <2>2, <2>3, RequestsMove DEF Base, At
  <1>3. QED
    BY <1>1, <1>2 DEF RowsHeld

(* Whoever deleted a row debits it next, unless something fails. *)
LEMMA DebitComes ==
  ASSUME Base, [Next]_vars, ~Failure, NEW w \in Workers, At(w, "debit")
  PROVE  DebitStorage(w) \/ request'[w] = request[w]
  <1>0. Busy(w) /\ request[w].pc = "debit"
    BY DEF At
  <1>1. ASSUME NEW u \in Workers, Upload(u) PROVE request'[w] = request[w]
    <2>1. u # w
      BY <1>0, <1>1
      DEF Upload, StartUpload, ReadLimit, ReadUsed, UploadToStorage, CreateClipRecord, At
    <2>2. QED
      BY <1>1, <2>1
      DEF Upload, StartUpload, ReadLimit, ReadUsed, UploadToStorage, CreateClipRecord,
          Goto, Finish, Base, TypeOK
  <1>2. ASSUME NEW u \in Workers, Change(u) PROVE request'[w] = request[w]
    <2>1. u # w
      BY <1>0, <1>2
      DEF Change, StartChange, ReadClip, UploadThumbnail, UpdateClip, CreditStorage, At
    <2>2. QED
      BY <1>2, <2>1
      DEF Change, StartChange, ReadClip, UploadThumbnail, UpdateClip, CreditStorage,
          Goto, Finish, Base, TypeOK
  <1>3. ASSUME NEW u \in Workers, Delete(u)
        PROVE  DebitStorage(w) \/ request'[w] = request[w]
    <2>1. CASE u = w
      BY <1>0, <1>3, <2>1 DEF Delete, DeleteObject, DeleteThumbnail, DeleteRow, At
    <2>2. CASE u # w
      BY <1>3, <2>2
      DEF Delete, DeleteObject, DeleteThumbnail, DeleteRow, DebitStorage, Goto, Finish,
          Base, TypeOK
    <2>3. QED
      BY <2>1, <2>2
  <1>4. ASSUME UNCHANGED vars \/ \E l \in Limits : SetStorageLimit(l)
        PROVE  request' = request
    BY <1>4 DEF SetStorageLimit, vars
  <1>5. QED
    BY <1>1, <1>2, <1>3, <1>4 DEF Next

(* Who owes a debit: nobody new but a request that deletes a credited row. *)
LEMMA DebtorsMove ==
  ASSUME Base, [Next]_vars, ~Failure, finalized' = finalized
  PROVE  \A w \in Workers :
           /\ w \in Debiting /\ ~DebitStorage(w) => w \in Debiting' /\ request'[w] = request[w]
           /\ w \in Debiting' =>
                \/ w \in Debiting /\ request'[w] = request[w]
                \/ DeleteRow(w) /\ request[w].clip \in finalized
  <1> SUFFICES ASSUME NEW w \in Workers
               PROVE  /\ w \in Debiting /\ ~DebitStorage(w) =>
                           w \in Debiting' /\ request'[w] = request[w]
                      /\ w \in Debiting' =>
                           \/ w \in Debiting /\ request'[w] = request[w]
                           \/ DeleteRow(w) /\ request[w].clip \in finalized
    OBVIOUS
  <1>1. ASSUME w \in Debiting, ~DebitStorage(w)
        PROVE  w \in Debiting' /\ request'[w] = request[w]
    BY <1>1, DebitComes DEF Debiting, At, Busy
  <1>2. ASSUME w \in Debiting'
        PROVE  \/ w \in Debiting /\ request'[w] = request[w]
               \/ DeleteRow(w) /\ request[w].clip \in finalized
    <2>1. At(w, "debit")' /\ request'[w].clip \in finalized
      BY <1>2 DEF Debiting
    <2>2. CASE request'[w] = request[w]
      BY <2>1, <2>2 DEF Debiting, At, Busy
    <2>3. ~Begins(w) /\ ~Asks(w)
      BY <2>1 DEF Begins, Asks, StartUpload, StartChange, At, Base, TypeOK
    <2>4. CASE Continues(w)
      BY <2>1, <2>4, Arrivals DEF Continues, Base, At
    <2>5. QED
      BY <2>1, <2>2, <2>3, <2>4, RequestsMove DEF Base, At
  <1>3. QED
    BY <1>1, <1>2

(* The sums have numbers to add. *)
LEMMA BalanceSizes ==
  ASSUME Base, ListedFinite
  PROVE  /\ \A C \in SUBSET Listed : IsFiniteSet(C) /\ [c \in C |-> row[c].size] \in [C -> 1..MaxSize]
         /\ \A D \in SUBSET Debiting :
              IsFiniteSet(D) /\ [w \in D |-> request[w].seen.size] \in [D -> 1..MaxSize]
         /\ Credited \in Nat /\ Owed \in Nat
  <1>1. ASSUME NEW C \in SUBSET Listed
        PROVE  IsFiniteSet(C) /\ [c \in C |-> row[c].size] \in [C -> 1..MaxSize]
    BY RowSizes, FS_Subset DEF ListedFinite, Base
  <1>2. ASSUME NEW D \in SUBSET Debiting
        PROVE  IsFiniteSet(D) /\ [w \in D |-> request[w].seen.size] \in [D -> 1..MaxSize]
    <2>1. \A w \in Debiting : request[w].seen.size \in 1..MaxSize
      BY AtChange DEF Debiting, Changing, Rows
    <2>2. D \in SUBSET Workers
      BY DEF Debiting
    <2>3. QED
      BY <2>1, <2>2, WorkersAssumption, FS_Subset
  <1>3. Credited \in Nat
    BY <1>1, SumType DEF Credited
  <1>4. Owed \in Nat
    BY <1>2, SumType DEF Owed
  <1>5. QED
    BY <1>1, <1>2, <1>3, <1>4

(* A first credit adds the clip to the sum and its size to the counter. *)
LEMMA CreditBalances ==
  ASSUME Base, ListedFinite, Sole, raced = {}, RowsHeld, Balanced,
         NEW w \in Workers, CreditStorage(w), request[w].clip \notin finalized
  PROVE  Balanced'
  <1> DEFINE new == request[w].clip
             C == Listed \cap finalized
             more == [c \in Listed \cap finalized' |-> row[c].size]
             size == [c \in C |-> row[c].size]
  <1>1. /\ At(w, "credit") /\ row' = row /\ finalized' = finalized \cup {new}
        /\ used' = Adjusted(request[w].seen.size) /\ Finish(w)
    BY DEF CreditStorage
  <1>2. /\ new \in Clips /\ new \in Listed /\ request[w].seen \in Rows
        /\ request[w].seen.size = row[new].size
    BY <1>1, AtChange DEF RowsHeld, Holding, Changing, At
  <1>3. row[new].size \in 1..MaxSize /\ row[new].size \in Nat
    BY <1>2, MaxSizeAssumption DEF Rows
  <1>4. Credited' = SumOf(more)
    BY <1>1 DEF Credited, Listed
  <1>5. SumOf(more) = SumOf(size) + row[new].size
    <2>1. /\ Listed \cap finalized' = C \cup {new} /\ new \notin C
          /\ C \in SUBSET Listed /\ Listed \cap finalized' \in SUBSET Listed
      BY <1>1, <1>2
    <2>2. /\ IsFiniteSet(C) /\ size \in [C -> 1..MaxSize]
          /\ more \in [Listed \cap finalized' -> 1..MaxSize]
      BY <2>1, BalanceSizes
    <2>3. more[new] = row[new].size /\ \A c \in C : more[c] = size[c]
      BY <2>1
    <2> HIDE DEF C, more, size, new
    <2>4. SumOf(more) = SumOf(size) + more[new]
      BY <2>1, <2>2, <2>3, SumMore
    <2>5. QED
      BY <2>3, <2>4
  <1>6. Owed' = Owed
    <2>1. ASSUME NEW v \in Workers
          PROVE  /\ v \in Debiting' <=> v \in Debiting
                 /\ v \in Debiting => request'[v] = request[v]
      <3>1. CASE v = w
        BY <1>1, <3>1 DEF Debiting, Finish, At, Busy, Base, TypeOK
      <3>2. CASE v # w
        <4>1. request'[v] = request[v]
          BY <1>1, <3>2 DEF Finish, Base, TypeOK
        <4>2. Busy(v) => request[v].clip # new
          BY <1>1, <1>2, <3>2 DEF Sole, At
        <4>3. QED
          BY <1>1, <4>1, <4>2 DEF Debiting, At, Busy
      <3>3. QED
        BY <3>1, <3>2
    <2>2. Debiting' = Debiting
      BY <2>1 DEF Debiting
    <2>3. [v \in Debiting' |-> request'[v].seen.size] = [v \in Debiting |-> request[v].seen.size]
      BY <2>1, <2>2 DEF Debiting
    <2>4. QED
      BY <2>3 DEF Owed
  <1>7. used \in Nat /\ used' = used + row[new].size
    BY <1>1, <1>2, <1>3 DEF Adjusted, Base, TypeOK
  <1>8. SumOf(size) \in Nat /\ Owed \in Nat /\ used = SumOf(size) + Owed
    BY BalanceSizes DEF Credited, Balanced
  <1> HIDE DEF more, size, new
  <1>9. QED
    BY <1>3, <1>4, <1>5, <1>6, <1>7, <1>8 DEF Balanced

(* A deleted row that was credited passes its size on to the debit. *)
LEMMA DeleteBalances ==
  ASSUME Base, ListedFinite, [Next]_vars, ~Failure, raced = {}, RowsHeld, Balanced,
         finalized' = finalized, used' = used, NEW w \in Workers, DeleteRow(w)
  PROVE  Balanced'
  <1> DEFINE gone == request[w].clip
             C == Listed \cap finalized
             rest == [c \in C \ {gone} |-> row[c].size]
             size == [c \in C |-> row[c].size]
             owing == [v \in Debiting' |-> request'[v].seen.size]
             owed == [v \in Debiting |-> request[v].seen.size]
  <1>1. /\ At(w, "dropRow") /\ gone \in Clips /\ gone \in Listed
        /\ request[w] \in ChangeRequests
        /\ request[w].seen.size = row[gone].size
    BY AtChange DEF DeleteRow, RowsHeld, Holding, Changing, At
  <1>2. row[gone].size \in 1..MaxSize /\ row[gone].size \in Nat
    BY <1>1, MaxSizeAssumption DEF Base, TypeOK, Listed, Rows
  <1>3. Listed' = Listed \ {gone} /\ \A c \in Listed' : row'[c] = row[c]
    BY <1>1 DEF DeleteRow, Base, TypeOK, Listed
  <1>4. Credited' = SumOf(rest)
    <2>1. [c \in Listed' \cap finalized' |-> row'[c].size] = rest
      BY <1>3
    <2>2. QED
      BY <2>1 DEF Credited
  <1>5. /\ request'[w].seen = request[w].seen /\ At(w, "debit")' /\ request'[w].clip = gone
        /\ \A v \in Workers \ {w} : request'[v] = request[v]
    BY <1>1 DEF DeleteRow, Goto, At, Busy, Idle, Base, TypeOK, ChangeRequests
  <1>6. /\ w \notin Debiting
        /\ \A v \in Debiting : request'[v] = request[v]
        /\ Debiting' = IF gone \in finalized THEN Debiting \cup {w} ELSE Debiting
    BY <1>1, <1>5 DEF Debiting, At, Busy
  <1>7. CASE gone \notin finalized
    <2>1. rest = size /\ owing = owed
      <3>1. C \ {gone} = C /\ Debiting' = Debiting
        BY <1>6, <1>7
      <3>2. QED
        BY <1>6, <3>1
    <2>2. QED
      BY <1>4, <2>1 DEF Balanced, Credited, Owed
  <1>8. CASE gone \in finalized
    <2>1. SumOf(size) = SumOf(rest) + row[gone].size
      <3>1. /\ C = (C \ {gone}) \cup {gone} /\ gone \notin C \ {gone}
            /\ C \in SUBSET Listed /\ C \ {gone} \in SUBSET Listed
        BY <1>1, <1>8
      <3>2. /\ IsFiniteSet(C \ {gone}) /\ rest \in [C \ {gone} -> 1..MaxSize]
            /\ size \in [C -> 1..MaxSize]
        BY <3>1, BalanceSizes
      <3>3. size[gone] = row[gone].size /\ \A c \in C \ {gone} : size[c] = rest[c]
        BY <3>1
      <3> HIDE DEF C, rest, size, gone
      <3>4. SumOf(size) = SumOf(rest) + size[gone]
        BY <3>1, <3>2, <3>3, SumMore
      <3>5. QED
        BY <3>3, <3>4
    <2>2. SumOf(owing) = SumOf(owed) + row[gone].size
      <3>0. Debiting' = Debiting \cup {w}
        BY <1>6, <1>8
      <3>1. owing[w] = row[gone].size /\ \A v \in Debiting : owing[v] = owed[v]
        BY <1>1, <1>5, <1>6, <3>0
      <3>2. IsFiniteSet(Debiting) /\ owed \in [Debiting -> 1..MaxSize]
        BY BalanceSizes
      <3>3. owing \in [Debiting' -> 1..MaxSize]
        BY <1>2, <3>0, <3>1, <3>2
      <3> HIDE DEF owing, owed, gone
      <3>4. SumOf(owing) = SumOf(owed) + owing[w]
        BY <1>6, <3>0, <3>1, <3>2, <3>3, SumMore
      <3>5. QED
        BY <3>1, <3>4
    <2>3. /\ SumOf(size) \in Nat /\ SumOf(owed) \in Nat /\ used = SumOf(size) + SumOf(owed)
          /\ used' = used /\ Owed' = SumOf(owing)
      BY BalanceSizes DEF Credited, Owed, Balanced
    <2>4. SumOf(rest) \in Nat
      <3>1. C \ {gone} \in SUBSET Listed
        OBVIOUS
      <3>2. IsFiniteSet(C \ {gone}) /\ rest \in [C \ {gone} -> 1..MaxSize]
        BY <3>1, BalanceSizes
      <3> HIDE DEF rest
      <3>3. QED
        BY <3>2, SumType
    <2> HIDE DEF rest, size, owing, owed, gone
    <2>5. QED
      BY <1>2, <1>4, <2>1, <2>2, <2>3, <2>4 DEF Balanced
  <1>9. QED
    BY <1>7, <1>8

(* A debit takes off what was owed, and never goes below zero. *)
LEMMA DebitBalances ==
  ASSUME Base, ListedFinite, Balanced,
         NEW w \in Workers, DebitStorage(w), request[w].clip \in finalized
  PROVE  Balanced'
  <1> DEFINE rest == [v \in Debiting' |-> request'[v].seen.size]
             owed == [v \in Debiting |-> request[v].seen.size]
             size == request[w].seen.size
  <1>1. /\ At(w, "debit") /\ row' = row /\ finalized' = finalized
        /\ used' = Adjusted(-size) /\ Finish(w)
    BY DEF DebitStorage
  <1>2. size \in 1..MaxSize /\ size \in Nat
    BY <1>1, AtChange, MaxSizeAssumption DEF Changing, Rows
  <1>3. Credited' = Credited
    BY <1>1 DEF Credited, Listed
  <1>4. ~At(w, "debit")' /\ \A v \in Workers \ {w} : request'[v] = request[v]
    BY <1>1 DEF Finish, At, Busy, Base, TypeOK
  <1>5. /\ Debiting = Debiting' \cup {w} /\ w \notin Debiting'
        /\ \A v \in Debiting' : request'[v] = request[v]
    BY <1>1, <1>4 DEF Debiting, At, Busy
  <1>6. SumOf(owed) = SumOf(rest) + size /\ SumOf(rest) \in Nat
    <2>1. owed \in [Debiting -> 1..MaxSize]
      BY BalanceSizes
    <2>2. Debiting' \in SUBSET Debiting
      BY <1>5
    <2>3. IsFiniteSet(Debiting')
      BY <2>2, BalanceSizes
    <2>4. owed[w] = size /\ \A v \in Debiting' : owed[v] = rest[v]
      BY <1>5
    <2>5. rest \in [Debiting' -> 1..MaxSize]
      BY <1>5, <2>1, <2>4
    <2> HIDE DEF rest, owed, size
    <2>6. SumOf(owed) = SumOf(rest) + owed[w]
      BY <1>5, <2>1, <2>3, <2>4, <2>5, SumMore
    <2>7. SumOf(rest) \in Nat
      BY <2>3, <2>5, SumType
    <2>8. QED
      BY <2>4, <2>6, <2>7
  <1>7. Credited \in Nat /\ used = Credited + SumOf(owed) /\ Owed' = SumOf(rest)
    BY BalanceSizes DEF Owed, Balanced
  <1> HIDE DEF rest, owed, size
  <1>8. used' = Credited + SumOf(rest)
    BY <1>1, <1>2, <1>6, <1>7 DEF Adjusted
  <1>9. QED
    BY <1>3, <1>7, <1>8 DEF Balanced

(* No other call changes the counter, the sizes or who owes. *)
LEMMA OthersBalance ==
  ASSUME Base, [Next]_vars, ~Failure, Balanced, finalized \subseteq Listed \cup deleting,
         finalized' = finalized, used' = used,
         \A w \in Workers : ~DeleteRow(w) /\ ~DebitStorage(w)
  PROVE  Balanced'
  <1>1. Owed' = Owed
    <2>1. \A w \in Workers :
            /\ w \in Debiting' <=> w \in Debiting
            /\ w \in Debiting => request'[w] = request[w]
      BY DebtorsMove
    <2>0. Debiting \subseteq Workers /\ Debiting' \subseteq Workers
      BY DEF Debiting
    <2>2. Debiting' = Debiting
      BY <2>0, <2>1
    <2>3. [w \in Debiting' |-> request'[w].seen.size] = [w \in Debiting |-> request[w].seen.size]
      BY <2>0, <2>1, <2>2
    <2>4. QED
      BY <2>3 DEF Owed
  <1>2. Credited' = Credited
    <2>1. /\ Listed' \cap finalized = Listed \cap finalized
          /\ \A c \in Listed : row'[c].size = row[c].size
      BY ListedMoves
    <2>2. [c \in Listed' \cap finalized' |-> row'[c].size]
            = [c \in Listed \cap finalized |-> row[c].size]
      BY <2>1
    <2>3. QED
      BY <2>2 DEF Credited
  <1>3. QED
    BY <1>1, <1>2 DEF Balanced

(* The account of the counter is kept. *)
LEMMA NextAccount ==
  ASSUME Base, Sole, ListedFinite, Account, [Next]_vars
  PROVE  Account'
  <1>1. finalized' \subseteq Listed' \cup deleting'
    BY NextFinalizedKnown DEF Account
  <1>2. RowsHeld'
    BY NextRowsHeld DEF Account
  <1>3. ASSUME regular' PROVE raced' = {} /\ Balanced'
    <2>1. regular /\ ~Failure /\ raced' = raced
      BY <1>3, RegularSteps
    <2>2. raced = {} /\ RowsHeld /\ Balanced /\ finalized \subseteq Listed \cup deleting
      BY <2>1 DEF Account
    <2>3. ASSUME NEW w \in Workers, CreditStorage(w) PROVE Balanced'
      BY <1>3, <2>2, <2>3, CreditBalances DEF CreditStorage
    <2>4. ASSUME NEW w \in Workers, DebitStorage(w) PROVE Balanced'
      BY <1>3, <2>2, <2>4, DebitBalances DEF DebitStorage
    <2>5. ASSUME NEW w \in Workers, DeleteRow(w) PROVE Balanced'
      <3>1. used' = used /\ finalized' = finalized
        BY <2>5 DEF DeleteRow, history
      <3>2. QED
        BY <2>1, <2>2, <2>5, <3>1, DeleteBalances
    <2>6. ASSUME \A w \in Workers : ~CreditStorage(w) /\ ~DebitStorage(w) /\ ~DeleteRow(w)
          PROVE  Balanced'
      <3>1. used' = used /\ finalized' = finalized
        BY <2>6, UsedWriters
      <3>2. QED
        BY <2>1, <2>2, <2>6, <3>1, OthersBalance
    <2>7. QED
      BY <2>1, <2>2, <2>3, <2>4, <2>5, <2>6
  <1>4. QED
    BY <1>1, <1>2, <1>3 DEF Account

LEMMA InitAccount == Init => Account
  <1> SUFFICES ASSUME Init PROVE Account
    OBVIOUS
  <1>1. Listed = {} /\ \A w \in Workers : ~Busy(w)
    BY DEF Init, Listed, Busy
  <1>2. Debiting = {} /\ RowsHeld
    BY <1>1 DEF Debiting, RowsHeld, At
  <1>3. Credited = 0 /\ Owed = 0
    BY <1>1, <1>2, SumNone DEF Credited, Owed
  <1>4. QED
    BY <1>2, <1>3 DEF Init, Account, Balanced

-----------------------------------------------------------------------------
(* Thumbnails without a column.                                            *)

(* Alone with its clip, a request holds the column as it is, or is about   *)
(* to set it; a delete that got past the thumbnail has removed it, or      *)
(* failed to.                                                              *)
ColumnsHeld ==
  \A w \in Workers : Busy(w) /\ request[w].clip \notin raced =>
    /\ At(w, "putThumb") => Does(w, "thumbnail")
    /\ At(w, "write") /\ Does(w, "thumbnail") => request[w].seen.thumb = TRUE
    /\ (At(w, "write") /\ ~Does(w, "thumbnail")) \/ At(w, "dropObject") =>
         request[w].seen.thumb = row[request[w].clip].thumb
    /\ At(w, "dropRow") =>
         request[w].clip \notin thumbs \/ <<"thumb", request[w].clip>> \in stray

Thumbnails == Sole /\ RowsHeld /\ ColumnsHeld /\ ThumbsOwned

(* A thumbnail appears only by its upload, and goes only by a delete. *)
LEMMA ThumbWriters ==
  ASSUME [Next]_vars
  PROVE  \/ thumbs' = thumbs
         \/ \E w \in Workers : UploadThumbnail(w) \/ DeleteThumbnail(w)
  <1>1. ASSUME NEW w \in Workers, Upload(w) PROVE thumbs' = thumbs
    BY <1>1 DEF Upload, StartUpload, ReadLimit, ReadUsed, UploadToStorage,
                CreateClipRecord, store
  <1>2. ASSUME NEW w \in Workers, Change(w)
        PROVE  thumbs' = thumbs \/ UploadThumbnail(w)
    BY <1>2 DEF Change, StartChange, ReadClip, UpdateClip, CreditStorage, store
  <1>3. ASSUME NEW w \in Workers, Delete(w)
        PROVE  thumbs' = thumbs \/ DeleteThumbnail(w)
    BY <1>3 DEF Delete, DeleteObject, DeleteRow, DebitStorage
  <1>4. ASSUME Failure \/ UNCHANGED vars \/ \E l \in Limits : SetStorageLimit(l)
        PROVE  thumbs' = thumbs
    BY <1>4 DEF Failure, RequestFails, DeleteObjectFails, Restart, SetStorageLimit, vars,
                store
  <1>5. QED
    BY <1>1, <1>2, <1>3, <1>4 DEF Next

(* While the one request for a clip waits, nobody writes its row or stores *)
(* its thumbnail.                                                          *)
LEMMA Undisturbed ==
  ASSUME Base, Sole, [Next]_vars, NEW w \in Workers, NEW pc \in Changing, At(w, pc),
         request[w].clip \notin raced, request'[w] = request[w]
  PROVE  /\ row'[request[w].clip] = row[request[w].clip]
         /\ request[w].clip \in thumbs' => request[w].clip \in thumbs
  <1> DEFINE c == request[w].clip
  <1>1. c \in Clips /\ Busy(w) /\ request[w].op # "upload" /\ request[w] \in ChangeRequests
    BY AtChange DEF At
  <1>2. ASSUME NEW u \in Workers, CreateClipRecord(u) PROVE request[u].clip # c
    BY <1>1, <1>2, InsertEnds DEF Base, UploadsAlone
  <1>3. ASSUME NEW u \in Workers, DeleteRow(u) \/ UpdateClip(u) \/ UploadThumbnail(u),
               request[u].clip = c
        PROVE  FALSE
    <2>1. u = w
      BY <1>1, <1>3 DEF Sole, DeleteRow, UpdateClip, UploadThumbnail, At
    <2>2. ~Finish(w) /\ \A next : Goto(w, next) => request'[w].pc = next
      BY <1>1 DEF Finish, Goto, Busy, Base, TypeOK, ChangeRequests
    <2>3. UploadThumbnail(w) => request'[w].pc = "write"
      BY <1>1 DEF UploadThumbnail, Base, TypeOK, ChangeRequests
    <2>4. QED
      BY <1>3, <2>1, <2>2, <2>3 DEF DeleteRow, UpdateClip, UploadThumbnail, At
  <1>4. QED
    BY <1>1, <1>2, <1>3, RowWriters, ThumbWriters DEF Base, UploadThumbnail, DeleteThumbnail

(* What a request holds of the column stays so, as it is alone.            *)
LEMMA NextColumnsHeld ==
  ASSUME Base, Thumbnails, [Next]_vars
  PROVE  ColumnsHeld'
  <1> SUFFICES ASSUME NEW w \in Workers, Busy(w)', request'[w].clip \notin raced'
      PROVE  /\ At(w, "putThumb")' => Does(w, "thumbnail")'
             /\ At(w, "write")' /\ Does(w, "thumbnail")' => request'[w].seen.thumb = TRUE
             /\ (At(w, "write")' /\ ~Does(w, "thumbnail")') \/ At(w, "dropObject")' =>
                  request'[w].seen.thumb = row'[request'[w].clip].thumb
             /\ At(w, "dropRow")' =>
                  \/ request'[w].clip \notin thumbs'
                  \/ <<"thumb", request'[w].clip>> \in stray'
    BY DEF ColumnsHeld
  <1> DEFINE c == request[w].clip
  <1>0. raced \subseteq raced' /\ stray \subseteq stray'
    BY NextSole, StrayGrows DEF Thumbnails
  <1>1. CASE request'[w] = request[w]
    <2>1. Busy(w) /\ c \notin raced /\ \A pc : At(w, pc)' => At(w, pc)
      BY <1>0, <1>1 DEF Busy, At
    <2>2. \A pc \in Changing : At(w, pc) =>
            row'[c] = row[c] /\ (c \in thumbs' => c \in thumbs)
      BY <1>1, <2>1, Undisturbed DEF Thumbnails
    <2>3. {"write", "dropObject", "dropRow"} \subseteq Changing
      BY DEF Changing
    <2>4. At(w, "write") \/ At(w, "dropObject") => row'[c] = row[c]
      BY <2>2, <2>3
    <2>5. At(w, "dropRow") => (c \in thumbs' => c \in thumbs)
      BY <2>2, <2>3
    <2>6. QED
      BY <1>0, <1>1, <2>1, <2>4, <2>5 DEF Thumbnails, ColumnsHeld, Does
  <1>2. CASE Begins(w) \/ Asks(w)
    BY <1>2 DEF Begins, Asks, StartUpload, StartChange, At, Base, TypeOK
  <1>3. CASE Continues(w)
    <2>1. /\ Busy(w) /\ c \notin raced /\ request'[w].clip = c
          /\ request'[w].op = request[w].op
      BY <1>0, <1>3 DEF Continues
    <2>2. CASE ReadClip(w)
      <3>1. request[w] \in ReadRequests /\ c \in Clips
        BY <2>2, Shapes DEF ReadClip, At, Base, ReadRequests
      <3>2. ~Finish(w)
        BY DEF Finish, Busy, Base, TypeOK
      <3>3. /\ row[c] # NoRow /\ row' = row
            /\ request'[w].pc = AfterRead(request[w].op)
            /\ request'[w].seen = [row[c] EXCEPT
                 !.public = IF request[w].sets THEN request[w].public ELSE @]
        BY <2>2, <3>2 DEF ReadClip, Base, TypeOK, store
      <3>4. row[c] \in Rows
        BY <3>1, <3>3 DEF Base, TypeOK
      <3>5. request'[w].seen.thumb = row'[c].thumb
        BY <3>3, <3>4 DEF Rows
      <3>6. /\ request'[w].pc # "dropRow"
            /\ request'[w].pc = "putThumb" <=> request[w].op = "thumbnail"
            /\ request'[w].pc = "write" => request[w].op # "thumbnail"
        BY <3>3 DEF AfterRead
      <3>7. QED
        BY <2>1, <3>5, <3>6 DEF At, Does
    <2>3. CASE UploadThumbnail(w)
      <3>1. request[w] \in ChangeRequests /\ request[w].seen \in Rows /\ At(w, "putThumb")
        BY <2>3, AtChange DEF UploadThumbnail, Changing
      <3>2. request'[w] = [request[w] EXCEPT !.pc = "write",
              !.seen = [request[w].seen EXCEPT !.thumb = TRUE]]
        BY <2>3, <3>1 DEF UploadThumbnail, Base, TypeOK, ChangeRequests
      <3>3. /\ request'[w].pc = "write"
            /\ request'[w].seen = [request[w].seen EXCEPT !.thumb = TRUE]
        BY <3>1, <3>2 DEF ChangeRequests
      <3>4. request'[w].seen.thumb = TRUE
        BY <3>1, <3>3 DEF Rows
      <3>5. Does(w, "thumbnail")
        BY <2>1, <3>1 DEF Thumbnails, ColumnsHeld
      <3>6. QED
        BY <2>1, <3>3, <3>4, <3>5 DEF At, Does
    <2>4. CASE DeleteObject(w) \/ DeleteThumbnail(w) \/ DeleteObjectFails(w)
      <3>1. PICK pc \in {"dropObject", "dropThumb"} : At(w, pc)
        BY <2>4 DEF DeleteObject, DeleteThumbnail, DeleteObjectFails
      <3>2. request[w] \in ChangeRequests /\ c \in Clips
        BY <3>1, AtChange DEF Changing
      <3>3. \A next : Goto(w, next) => request'[w].pc = next
        BY <3>2 DEF Goto, Base, TypeOK, ChangeRequests
      <3>4. CASE At(w, "dropThumb")
        <4>1. request'[w].pc = "dropRow"
              /\ (c \notin thumbs' \/ <<"thumb", c>> \in stray')
          BY <2>4, <3>3, <3>4
          DEF DeleteObject, DeleteThumbnail, DeleteObjectFails, At
        <4>2. QED
          BY <2>1, <4>1 DEF At
      <3>5. CASE At(w, "dropObject")
        <4>1. /\ request'[w].pc = IF request[w].seen.thumb THEN "dropThumb" ELSE "dropRow"
              /\ thumbs' = thumbs
          BY <2>4, <3>3, <3>5
          DEF DeleteObject, DeleteThumbnail, DeleteObjectFails, At, store
        <4>2. c \in Listed /\ request[w].seen.thumb = row[c].thumb
          BY <2>1, <3>5 DEF Thumbnails, ColumnsHeld, RowsHeld, Holding
        <4>3. ASSUME NEW u \in Workers, At(u, "write"), request[u].clip = c PROVE FALSE
          BY <2>1, <3>2, <3>5, <4>3 DEF Thumbnails, Sole, At
        <4>4. ~request[w].seen.thumb => c \notin thumbs \/ <<"thumb", c>> \in stray
          BY <2>1, <3>2, <4>2, <4>3 DEF Thumbnails, ThumbsOwned
        <4>5. QED
          BY <1>0, <2>1, <4>1, <4>4 DEF At
      <3>6. QED
        BY <3>1, <3>4, <3>5
    <2>5. QED
      BY <1>3, <2>1, <2>2, <2>3, <2>4, Arrivals DEF Continues, Base, At
  <1>4. QED
    BY <1>1, <1>2, <1>3, RequestsMove DEF Base

(* A write-back of the only request for a clip sets the column, or leaves  *)
(* it as it was.                                                           *)
LEMMA ColumnWritten ==
  ASSUME Base, Thumbnails, NEW w \in Workers, UpdateClip(w), request[w].clip \notin raced
  PROVE  /\ request[w].clip \in Listed'
         /\ row'[request[w].clip].thumb =
              IF Does(w, "thumbnail") THEN TRUE ELSE row[request[w].clip].thumb
  <1> DEFINE c == request[w].clip
  <1>1. /\ At(w, "write") /\ Busy(w) /\ c \in Clips /\ request[w].seen \in Rows
    BY AtChange DEF UpdateClip, Changing, At
  <1>2. c \in Listed /\ row[c] \in Rows
    BY <1>1 DEF Thumbnails, RowsHeld, Holding, Listed, Base, TypeOK
  <1>3. row'[c] = [row[c] EXCEPT !.public = request[w].seen.public,
                                 !.thumb = request[w].seen.thumb]
    BY <1>1, <1>2 DEF UpdateClip, Base, TypeOK, Listed
  <1>4. row'[c].thumb = request[w].seen.thumb
    BY <1>1, <1>2, <1>3 DEF Rows
  <1>5. QED
    BY <1>1, <1>2, <1>4, UpdateLists DEF Thumbnails, ColumnsHeld

(* Every thumbnail keeps its column or gets it, or was left behind.        *)
LEMMA NextThumbsOwned ==
  ASSUME Base, Thumbnails, [Next]_vars
  PROVE  ThumbsOwned'
  <1> SUFFICES ASSUME NEW c \in thumbs', c \notin raced', <<"thumb", c>> \notin stray'
               PROVE  \/ c \in Listed' /\ row'[c].thumb
                      \/ \E w \in Workers : /\ At(w, "write")' /\ Does(w, "thumbnail")'
                                            /\ request'[w].clip = c
    BY DEF ThumbsOwned
  <1>0. c \notin raced /\ <<"thumb", c>> \notin stray
    BY NextSole, StrayGrows DEF Thumbnails
  <1>1. ASSUME NEW w \in Workers, UploadThumbnail(w), c \notin thumbs
        PROVE  At(w, "write")' /\ Does(w, "thumbnail")' /\ request'[w].clip = c
    <2>1. request[w] \in ChangeRequests /\ At(w, "putThumb") /\ request[w].clip = c
      BY <1>1, AtChange DEF UploadThumbnail, Changing
    <2>2. Does(w, "thumbnail")
      BY <1>0, <2>1 DEF Thumbnails, ColumnsHeld, At
    <2>3. request'[w] = [request[w] EXCEPT !.pc = "write",
            !.seen = [request[w].seen EXCEPT !.thumb = TRUE]]
      BY <1>1, <2>1 DEF UploadThumbnail, Base, TypeOK, ChangeRequests
    <2>4. /\ request'[w].pc = "write" /\ request'[w].op = request[w].op
          /\ request'[w].clip = c /\ request'[w] # Idle
      BY <2>1, <2>3 DEF ChangeRequests, Idle
    <2>5. QED
      BY <2>2, <2>4 DEF At, Busy, Does
  <1>2. CASE c \in Listed /\ row[c].thumb
    <2>1. c \in Clips
      BY <1>2 DEF Listed
    <2>2. CASE row'[c] = row[c]
      BY <1>2, <2>1, <2>2 DEF Listed
    <2>3. ASSUME NEW w \in Workers, CreateClipRecord(w), request[w].clip = c PROVE FALSE
      BY <1>2, <2>3, InsertEnds DEF Base, UploadsAlone
    <2>4. ASSUME NEW w \in Workers, DeleteRow(w), request[w].clip = c PROVE c \notin thumbs
      BY <1>0, <2>4 DEF DeleteRow, At, Thumbnails, ColumnsHeld
    <2>5. ASSUME NEW w \in Workers, DeleteRow(w) PROVE thumbs' = thumbs
      BY <2>5 DEF DeleteRow
    <2>6. ASSUME NEW w \in Workers, UpdateClip(w), request[w].clip = c
          PROVE  c \in Listed' /\ row'[c].thumb
      BY <1>0, <1>2, <2>6, ColumnWritten
    <2>7. QED
      BY <2>1, <2>2, <2>3, <2>4, <2>5, <2>6, RowWriters DEF Base
  <1>3. ASSUME NEW w \in Workers, At(w, "write"), Does(w, "thumbnail"), request[w].clip = c
        PROVE  \/ c \in Listed' /\ row'[c].thumb
               \/ At(w, "write")' /\ Does(w, "thumbnail")' /\ request'[w].clip = c
    <2>1. LeftBy(w) = {<<"thumb", c>>} /\ ~CreateClipRecord(w)
      BY <1>3 DEF LeftBy, At, CreateClipRecord
    <2>2. CASE UpdateClip(w)
      BY <1>0, <1>3, <2>2, ColumnWritten
    <2>3. CASE request'[w] = request[w]
      BY <1>3, <2>3 DEF At, Busy, Does
    <2>4. QED
      BY <1>3, <2>1, <2>2, <2>3, ObjectNamed
  <1>4. CASE c \in thumbs
    BY <1>0, <1>2, <1>3, <1>4 DEF Thumbnails, ThumbsOwned
  <1>5. QED
    BY <1>1, <1>4, ThumbWriters DEF DeleteThumbnail

-----------------------------------------------------------------------------
(* The library the two stores make up.                                     *)

Shown == {c \in Listed : <<row[c].bucket, c>> \in objects}

(* The library is empty to begin with. *)
LEMMA InitLibrary == Init => Library!Init
  BY DEF Init, Library!Init, Stage, Listed

(* A step that writes neither store and marks no clip. *)
LEMMA LibraryStutters ==
  ASSUME UNCHANGED <<row, objects, deleting>>
  PROVE  UNCHANGED Library!library
  BY DEF Library!library, Stage, Listed

(* The calls the library notices. *)
LEMMA LibraryCalls ==
  ASSUME [Next]_vars
  PROVE  \/ UNCHANGED <<row, objects, deleting>>
         \/ \E w \in Workers :
              \/ UploadToStorage(w) \/ CreateClipRecord(w) \/ UpdateClip(w)
              \/ ReadClip(w) \/ DeleteObject(w) \/ DeleteRow(w)
  BY RowCalls, ObjectWriters, DeletingWriters

(* Each call is one step of the library, or none: the INSERT publishes a   *)
(* clip whose object was stored before, the read of a delete dooms it, the *)
(* removal of its object loses it, and the DELETE drops it.                *)
LEMMA StepLibrary ==
  ASSUME Base, Base', ObjectReady, [Next]_vars, ConfiguredBucket = "clips"
  PROVE  [Library!Next]_(Library!library)
  <1>0. /\ Shown = {c \in Listed : <<ConfiguredBucket, c>> \in objects}
        /\ Shown' = {c \in Listed' : <<ConfiguredBucket, c>> \in objects'}
    <2>1. \A c \in Listed : row[c].bucket = ConfiguredBucket
      BY DEF Base, TypeOK, Listed, Rows
    <2>2. \A c \in Listed' : row'[c].bucket = ConfiguredBucket
      BY DEF Base, TypeOK, Listed, Rows
    <2>3. QED
      BY <2>1, <2>2 DEF Shown
  <1>1. ASSUME Listed' = Listed, deleting' = deleting, Shown' = Shown
        PROVE  UNCHANGED Library!library
    BY <1>1 DEF Library!library, Stage, Shown
  <1>2. ASSUME NEW w \in Workers, UploadToStorage(w)
        PROVE  UNCHANGED Library!library
    <2>1. request[w] \in UploadRequests /\ Busy(w)
      BY <1>2, Shapes DEF UploadToStorage, Base, At, Uploading
    <2>2. request[w].clip \notin Listed
      BY <2>1 DEF Base, UploadsAlone, UploadRequests
    <2>3. Listed' = Listed /\ deleting' = deleting
      BY <1>2 DEF UploadToStorage, Listed, history
    <2>4. objects' = objects \cup {<<ConfiguredBucket, request[w].clip>>}
      BY <1>2 DEF UploadToStorage
    <2>5. QED
      BY <1>0, <1>1, <2>2, <2>3, <2>4
  <1>3. ASSUME NEW w \in Workers, CreateClipRecord(w), NEW c, c = request[w].clip
        PROVE  Library!Publish(c) /\ c \in Clips
    <2>1. c \in Clips \ (Listed \cup deleting) /\ Listed' = Listed \cup {c}
      BY <1>3, InsertAdds
    <2>2. deleting' = deleting /\ objects' = objects
      BY <1>3 DEF CreateClipRecord, history
    <2>3. <<ConfiguredBucket, c>> \in objects
      BY <1>3 DEF CreateClipRecord, ObjectReady
    <2>4. Shown' = Shown \cup {c}
      BY <1>0, <2>1, <2>2, <2>3
    <2>5. Stage(c) = "absent" /\ Stage(c)' = "listed"
      BY <2>1, <2>2 DEF Stage
    <2>6. \A d \in Clips \ {c} : Stage(d)' = Stage(d)
      BY <2>1, <2>2 DEF Stage
    <2>7. QED
      BY <2>1, <2>4, <2>5, <2>6 DEF Library!Publish, Shown
  <1>4. ASSUME NEW w \in Workers, UpdateClip(w)
        PROVE  UNCHANGED Library!library
    <2>1. Listed' = Listed
      BY <1>4, UpdateKeeps
    <2>2. deleting' = deleting /\ objects' = objects
      BY <1>4 DEF UpdateClip
    <2>3. QED
      BY <1>0, <1>1, <2>1, <2>2
  <1>5. ASSUME NEW w \in Workers, ReadClip(w), NEW c, c = request[w].clip
        PROVE  \/ Library!Doom(c) /\ c \in Clips
               \/ UNCHANGED Library!library
    <2>1. Listed' = Listed /\ Shown' = Shown
      BY <1>5 DEF ReadClip, store, Listed, Shown
    <2>2. CASE deleting' = deleting
      BY <1>1, <2>1, <2>2
    <2>3. CASE deleting' # deleting
      <3>1. deleting' = deleting \cup {c} /\ c \notin deleting
        BY <1>5, <2>3 DEF ReadClip
      <3>2. c \in Listed
        BY <1>5, <3>1 DEF Base, ChangesKnown, ReadClip, At, Busy, Listed, TypeOK
      <3>3. Stage(c) = "listed" /\ Stage(c)' = "doomed"
        BY <2>1, <3>1, <3>2 DEF Stage
      <3>4. \A d \in Clips \ {c} : Stage(d)' = Stage(d)
        BY <2>1, <3>1 DEF Stage
      <3>5. c \in Clips
        BY <3>2 DEF Listed
      <3>6. QED
        BY <2>1, <3>3, <3>4, <3>5 DEF Library!Doom, Shown
    <2>4. QED
      BY <2>2, <2>3
  <1>6. ASSUME NEW w \in Workers, DeleteObject(w), NEW c, c = request[w].clip
        PROVE  \/ Library!Lose(c) /\ c \in Clips
               \/ UNCHANGED Library!library
    <2>1. c \in Clips /\ c \in deleting /\ request[w].seen \in Rows
      BY <1>6, AtChange DEF DeleteObject, Changing, Dropping
    <2>2. objects' = objects \ {<<ConfiguredBucket, c>>}
      BY <1>6, <2>1 DEF DeleteObject, Rows
    <2>3. row' = row /\ deleting' = deleting
      BY <1>6 DEF DeleteObject, history
    <2>4. Listed' = Listed
      BY <2>3 DEF Listed
    <2>5. Shown' = Shown \ {c}
      BY <1>0, <2>2, <2>4
    <2>6. CASE c \notin Listed
      <3>1. Shown' = Shown
        BY <1>0, <2>5, <2>6
      <3>2. QED
        BY <1>1, <2>3, <2>4, <3>1
    <2>7. CASE c \in Listed
      <3>1. Stage(c) = "doomed"
        BY <2>1, <2>7 DEF Stage
      <3>2. \A d \in Clips : Stage(d)' = Stage(d)
        BY <2>3, <2>4 DEF Stage
      <3>3. QED
        BY <2>1, <2>5, <3>1, <3>2 DEF Library!Lose, Shown
    <2>8. QED
      BY <2>6, <2>7
  <1>7. ASSUME NEW w \in Workers, DeleteRow(w), NEW c, c = request[w].clip
        PROVE  \/ Library!Drop(c) /\ c \in Clips
               \/ UNCHANGED Library!library
    <2>1. c \in deleting /\ Listed' = Listed \ {c} /\ c \in Clips
      BY <1>7, DeleteTakes DEF Base, TypeOK
    <2>2. deleting' = deleting /\ objects' = objects
      BY <1>7 DEF DeleteRow, history
    <2>3. Shown' = Shown \ {c}
      BY <1>0, <2>1, <2>2
    <2>4. CASE c \notin Listed
      <3>1. Listed' = Listed /\ Shown' = Shown
        BY <1>0, <2>1, <2>3, <2>4
      <3>2. QED
        BY <1>1, <2>2, <3>1
    <2>5. CASE c \in Listed
      <3>1. Stage(c) = "doomed" /\ Stage(c)' = "gone"
        BY <2>1, <2>2, <2>5 DEF Stage
      <3>2. \A d \in Clips \ {c} : Stage(d)' = Stage(d)
        BY <2>1, <2>2 DEF Stage
      <3>3. QED
        BY <2>1, <2>3, <3>1, <3>2 DEF Library!Drop, Shown
    <2>6. QED
      BY <2>4, <2>5
  <1>8. QED
    BY <1>2, <1>3, <1>4, <1>5, <1>6, <1>7, LibraryCalls, LibraryStutters
    DEF Library!Next

-----------------------------------------------------------------------------
(* The invariants, and what follows from them.                             *)

(* Initially there is neither clip nor request. *)
LEMMA InitAll ==
  Init => Base /\ Playable /\ ObjectGone /\ NoOrphans /\ Thumbnails /\ Visibility
  <1> SUFFICES ASSUME Init
               PROVE  Base /\ Playable /\ ObjectGone /\ NoOrphans /\ Thumbnails /\ Visibility
    OBVIOUS
  <1>1. TypeOK
    BY BoundsAssumption, LimitsAssumption DEF Init, TypeOK
  <1>2. Listed = {} /\ (\A w \in Workers : ~Busy(w)) /\ objects = {} /\ thumbs = {} /\ deleting = {}
    BY DEF Init, Listed, Busy
  <1>3. Base
    BY <1>1, <1>2 DEF Base, UploadsAlone, ChangesKnown
  <1>4. Playable /\ ObjectGone /\ NoOrphans
    BY <1>2 DEF Playable, ObjectReady, ThumbReady, PlayableUntilDeleted, ObjectGone,
                NoOrphans, VideosOwned, ThumbsOwned, At
  <1>5. Visibility
    BY <1>2 DEF Init, Visibility, Sole, Unspoken, WordHeld, VisibilityKept, At
  <1>6. Thumbnails
    BY <1>2, <1>5 DEF Thumbnails, RowsHeld, ColumnsHeld, ThumbsOwned, Visibility
  <1>7. QED
    BY <1>3, <1>4, <1>5, <1>6

(* The base holds throughout. *)
LEMMA BaseHolds == Spec => []Base
  <1>1. Init => Base
    BY InitAll
  <1>2. QED
    BY <1>1, NextBase, PTL DEF Spec

(* Rows, objects, counters and requests keep their types. *)
THEOREM TypeCorrect == Spec => []TypeOK
  <1>1. Base => TypeOK
    BY DEF Base
  <1>2. QED
    BY <1>1, BaseHolds, PTL

(* With the bucket the rows name, what the upload, the change and the      *)
(* deletion of a clip stored is as it should be in every state.            *)
LEMMA PlayableHolds ==
  ASSUME ConfiguredBucket = "clips"
  PROVE  Spec => []Playable
  <1>1. Init => Playable
    BY InitAll
  <1>2. Base /\ Playable /\ [Next]_vars => Playable'
    <2>1. Base /\ Playable /\ [Next]_vars =>
            ObjectReady' /\ ThumbReady' /\ PlayableUntilDeleted'
      BY NextObjectReady, NextThumbReady, NextPlayable DEF Playable
    <2>2. QED
      BY <2>1 DEF Playable
  <1>3. QED
    BY <1>1, <1>2, BaseHolds, PTL DEF Spec

(* With the bucket the rows name, what a row points to is there until the  *)
(* owner deletes the clip, in spite of crashes between any two calls.      *)
THEOREM ClipsStayPlayable ==
  ASSUME ConfiguredBucket = "clips"
  PROVE  Spec => []PlayableUntilDeleted
  <1>1. Playable => PlayableUntilDeleted
    BY DEF Playable
  <1>2. QED
    BY <1>1, PlayableHolds, PTL

(* With the bucket the rows name, the two stores, written in separate      *)
(* calls by overlapping requests that fail half-way, implement the library *)
(* ClipLibrary describes: nothing shows a clip before its video, takes the *)
(* video of a clip its owner kept, or brings a deleted clip back.          *)
THEOREM RefinesLibrary ==
  ASSUME ConfiguredBucket = "clips"
  PROVE  Spec => ImplementsLibrary
  <1>1. Base /\ Base' /\ Playable /\ [Next]_vars => [Library!Next]_(Library!library)
    BY StepLibrary DEF Playable
  <1>2. QED
    BY InitLibrary, <1>1, BaseHolds, PlayableHolds, PTL
    DEF Spec, ImplementsLibrary, Library!Spec

(* With the bucket the rows name, no video and no thumbnail is left        *)
(* without its row unless a call that leaks it failed, however the others  *)
(* overlap and fail; for thumbnails, unless requests for the clip overlap. *)
THEOREM NothingLeaks ==
  ASSUME ConfiguredBucket = "clips"
  PROVE  Spec => []NoOrphans
  <1>1. Init => (ObjectGone /\ VideosOwned) /\ Thumbnails
    BY InitAll DEF NoOrphans
  <1>2. Base /\ (ObjectGone /\ VideosOwned) /\ [Next]_vars => (ObjectGone /\ VideosOwned)'
    BY NextObjectGone, NextVideosOwned
  <1>3. Base /\ Thumbnails /\ [Next]_vars => Thumbnails'
    <2>1. Base /\ Thumbnails /\ [Next]_vars =>
            Sole' /\ RowsHeld' /\ ColumnsHeld' /\ ThumbsOwned'
      BY NextSole, NextRowsHeld, NextColumnsHeld, NextThumbsOwned DEF Thumbnails
    <2>2. QED
      BY <2>1 DEF Thumbnails
  <1>4. (ObjectGone /\ VideosOwned) /\ Thumbnails => NoOrphans
    BY DEF Thumbnails, NoOrphans
  <1>5. QED
    BY <1>1, <1>2, <1>3, <1>4, BaseHolds, PTL DEF Spec

(* The visibility column keeps the owner's last word on every clip whose   *)
(* requests did not overlap.                                               *)
THEOREM TheOwnersWordHolds == Spec => []VisibilityKept
  <1>1. Init => Visibility
    BY InitAll
  <1>2. Base /\ Visibility /\ [Next]_vars => Visibility'
    <2>1. Base /\ Visibility /\ [Next]_vars =>
            Sole' /\ Unspoken' /\ WordHeld' /\ VisibilityKept'
      BY NextSole, NextUnspoken, NextWordHeld, NextVisibilityKept DEF Visibility
    <2>2. QED
      BY <2>1 DEF Visibility
  <1>3. Visibility => VisibilityKept
    BY DEF Visibility
  <1>4. QED
    BY <1>1, <1>2, <1>3, BaseHolds, PTL DEF Spec

(* However uploads overlap and whatever fails, the clips stored and those  *)
(* on their way stay within one file per concurrent request but one of the *)
(* highest storage limit that was in force.                                *)
THEOREM TheLimitHolds == Spec => []OvershootBounded
  <1>1. LimitKept => OvershootBounded
    BY DEF LimitKept
  <1>2. QED
    BY <1>1, InitLimitKept, NextLimitKept, NextBase, BaseHolds, PTL DEF Spec

(* For a client that finalizes each upload once and deletes what it        *)
(* finalized, one request per clip at a time, the storage counter is the   *)
(* size of its clips whenever nothing is in progress: the debit that comes *)
(* after the row is gone is never lost, doubled or cut off at zero.        *)
THEOREM TheCounterIsRight == Spec => []CounterRight
  <1> DEFINE Books == Sole /\ ListedFinite /\ Account
  <1>1. Init => Books
    BY InitAll, InitLimitKept, InitAccount DEF Visibility, LimitKept
  <1>2. Base /\ Books /\ [Next]_vars => Books'
    BY NextSole, NextListedFinite, NextAccount
  <1>3. Base /\ Books => CounterRight
    <2> SUFFICES ASSUME Base, ListedFinite, Account, regular, \A w \in Workers : ~Busy(w)
                 PROVE  used = Credited
      BY DEF CounterRight, Credited
    <2>1. Debiting = {}
      BY DEF Debiting, At
    <2>2. Owed = 0
      BY <2>1, SumNone DEF Owed
    <2>3. Credited \in Nat /\ used = Credited + Owed
      BY BalanceSizes DEF Account, Balanced
    <2>4. QED
      BY <2>2, <2>3
  <1> HIDE DEF Books
  <1>4. QED
    BY <1>1, <1>2, <1>3, BaseHolds, PTL DEF Spec
=============================================================================
