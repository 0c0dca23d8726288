----------------------------- MODULE ShareAccess -----------------------------
(***************************************************************************)
(* Share links and guest comments.                                         *)
(*                                                                         *)
(* The owner of a clip makes links to it, each with a random code, perhaps *)
(* a slug, a password, a lifetime and a number of views.  A visitor opens  *)
(* the page of a link, whose browser asks for the video, and may read and  *)
(* write comments; each of these requests runs ValidateShareAccess first.  *)
(* A request is a sequence of SQL statements without a transaction, and    *)
(* each statement, with the checks made on what it returned, is an action. *)
(***************************************************************************)
EXTENDS Integers, FiniteSetsExt

CONSTANTS
  Clips,
  Shares,     \* the share codes the server may generate
  Slugs,      \* slugs owners choose; one may equal another share's code
  Workers,    \* requests handled at the same time
  Visits,     \* the requests visitors send
  MaxViews,   \* values of max_views owners choose
  NoLimit,    \* max_views IS NULL
  NoSlug,     \* custom_slug IS NULL
  NoRow,      \* a share without a row
  MaxCount,   \* bound: pages are opened and comments begun below it
  MaxFaults   \* bound on failed statements and restarts

ASSUME FiniteWorkers == IsFiniteSet(Workers)
ASSUME MaxViewsAssumption == MaxViews \subseteq Nat /\ NoLimit \notin Nat
ASSUME VisitsAssumption == Visits \subseteq {"page", "video", "list", "comment"}
ASSUME NoSlugAssumption == NoSlug \notin Slugs
ASSUME BoundsAssumption == MaxCount \in Nat /\ MaxFaults \in Nat

VARIABLES
  library,    \* clips that have a row
  allowing,   \* clips with allow_comments
  clipViews,  \* clips.view_count
  comments,   \* the number of comments of a clip
  share,      \* the shares row of a code, or NoRow
  expired,    \* shares whose expires_at lies in the past
  request,    \* what each worker is doing
  faults,
  pages,      \* shares whose page is open in some browser
  made,       \* history: codes generated so far
  muted,      \* history: clips whose owner's last word was to allow no comments
  raced,      \* history: another flag of the row was about to be written back then
  late        \* history: comments a clip got since that word

db      == <<library, allowing, clipViews, comments, share, expired>>
outside == <<faults, pages>>
word    == <<muted, raced>>
history == <<made, muted, raced, late>>
vars    == <<db, request, outside, history>>

-----------------------------------------------------------------------------
Rows == [clip : Clips, slug : Slugs \cup {NoSlug}, secret : BOOLEAN,
         max : MaxViews \cup {NoLimit}, views : Nat, active : BOOLEAN]
ASSUME NoRowAssumption == NoRow \notin Rows

Names == Shares \cup Slugs

Found == {"deactivate", "readClip", "countClip", "countShare", "insertComment"}

Idle == [op |-> "none"]
Lookup == [op : Visits, pc : {"byCode", "bySlug"}, name : Names, knows : BOOLEAN]
Access == [op : Visits, pc : Found, share : Shares, clip : Clips]
Creation == [op : {"create"}, pc : {"insertShare"}, share : Shares, row : Rows]
Change == [op : {"update"}, pc : {"updateClip"}, clip : Clips, sets : BOOLEAN,
           allow : BOOLEAN]

TypeOK ==
  /\ library \subseteq Clips
  /\ allowing \subseteq Clips
  /\ clipViews \in [Clips -> Nat]
  /\ comments \in [Clips -> Nat]
  /\ share \in [Shares -> Rows \cup {NoRow}]
  /\ expired \subseteq Shares
  /\ request \in [Workers -> {Idle} \cup Lookup \cup Access \cup Creation \cup Change]
  /\ faults \in 0..MaxFaults
  /\ pages \subseteq Shares
  /\ made \subseteq Shares
  /\ muted \subseteq Clips /\ raced \subseteq Clips
  /\ late \in [Clips -> Nat]

Init ==
  /\ library = Clips
  /\ allowing = Clips
  /\ clipViews = [c \in Clips |-> 0]
  /\ comments = [c \in Clips |-> 0]
  /\ share = [s \in Shares |-> NoRow]
  /\ expired = {}
  /\ request = [w \in Workers |-> Idle]
  /\ faults = 0
  /\ pages = {}
  /\ made = {}
  /\ muted = {} /\ raced = {}
  /\ late = [c \in Clips |-> 0]

Busy(w) == request[w] # Idle
At(w, pc) == Busy(w) /\ request[w].pc = pc
Goto(w, pc) == request' = [request EXCEPT ![w].pc = pc]
Finish(w) == request' = [request EXCEPT ![w] = Idle]

Listed == {s \in Shares : share[s] # NoRow}
Active == {s \in Listed : share[s].active}
LinksOf(c) == {s \in Listed : share[s].clip = c}

(* A faulty limit: the comparison is off by one. *)
ExhaustedLate(s) == share[s].max # NoLimit /\ share[s].views > share[s].max

Exhausted(s) == share[s].max # NoLimit /\ share[s].views >= share[s].max

-----------------------------------------------------------------------------
(* Faulty variants of the statements, to show that the properties notice   *)
(* them.                                                                   *)

(* UPDATE shares SET is_active = false WHERE clip_id. *)
DeactivateAllOfClip(w) ==
  /\ At(w, "deactivate")
  /\ share' = [s \in Shares |-> IF s \in LinksOf(request[w].clip)
                                THEN [share[s] EXCEPT !.active = FALSE] ELSE share[s]]
  /\ Finish(w)
  /\ UNCHANGED <<library, allowing, clipViews, comments, expired, outside, history>>

(* The count writes back the row the visit read, which was active. *)
CountShareViewOfRow(w) ==
  /\ At(w, "countShare")
  /\ LET s == request[w].share
     IN  /\ share' = IF s \in Listed
                     THEN [share EXCEPT ![s].views = @ + 1, ![s].active = TRUE] ELSE share
         /\ pages' = pages \cup {s}
  /\ Finish(w)
  /\ UNCHANGED <<library, allowing, clipViews, comments, expired, faults, history>>

(* allow_comments hides the form of the page, nothing else. *)
ReadClipIgnoringFlag(w) ==
  /\ At(w, "readClip")
  /\ LET r == request[w]
     IN  IF r.clip \in library /\ r.op \in {"page", "comment"}
         THEN Goto(w, IF r.op = "page" THEN "countClip" ELSE "insertComment")
         ELSE Finish(w)
  /\ UNCHANGED <<db, outside, history>>

-----------------------------------------------------------------------------
(* The owner.                                                              *)

(* CreateShare looks the clip up, then inserts; the code is a fresh one.   *)
StartCreateShare(w, s, r) ==
  /\ ~Busy(w) /\ s \notin made /\ r.clip \in library
  /\ made' = made \cup {s}
  /\ request' = [request EXCEPT ![w] =
       [op |-> "create", pc |-> "insertShare", share |-> s, row |-> r]]
  /\ UNCHANGED <<db, outside, word, late>>

(* The INSERT fails when the clip is gone or the slug is taken: custom_slug *)
(* is UNIQUE over all rows, active or not.                                 *)
InsertShare(w) ==
  /\ At(w, "insertShare")
  /\ LET r == request[w].row
         taken == r.slug # NoSlug /\ \E s \in Listed : share[s].slug = r.slug
     IN  share' = IF r.clip \in library /\ ~taken
                  THEN [share EXCEPT ![request[w].share] = r] ELSE share
  /\ Finish(w)
  /\ UNCHANGED <<library, allowing, clipViews, comments, expired, outside, history>>

(* Its GetByID only looks for the row and its owner. *)
DeleteShare(s) ==
  /\ s \in Listed
  /\ share' = [share EXCEPT ![s] = NoRow]
  /\ UNCHANGED <<library, allowing, clipViews, comments, expired, request, outside,
                 history>>

(* The DELETE of DeleteClip; clip_id is ON DELETE CASCADE in both tables.  *)
DeleteClip(c) ==
  /\ c \in library
  /\ library' = library \ {c}
  /\ share' = [s \in Shares |-> IF s \in LinksOf(c) THEN NoRow ELSE share[s]]
  /\ comments' = [comments EXCEPT ![c] = 0]
  /\ UNCHANGED <<allowing, clipViews, expired, request, outside, history>>

(* UpdateClip, FinalizeUpload and UploadThumbnail read the row and write    *)
(* all of it back: allow_comments as the owner sets it, or as it was read. *)
StartUpdateClip(w, c, sets, allow) ==
  /\ ~Busy(w) /\ c \in library /\ "comment" \in Visits   \* no reader of the flag otherwise
  /\ request' = [request EXCEPT ![w] =
       [op |-> "update", pc |-> "updateClip", clip |-> c, sets |-> sets,
        allow |-> IF sets THEN allow ELSE c \in allowing]]
  /\ UNCHANGED <<db, outside, history>>

(* A write-back is under way with another flag than the given one. *)
Contradicted(c, allow) ==
  \E w \in Workers :
    /\ At(w, "updateClip") /\ request[w].clip = c
    /\ ~request[w].sets /\ request[w].allow # allow

(* The UPDATE; without its row it does nothing. *)
UpdateClip(w) ==
  /\ At(w, "updateClip")
  /\ LET r == request[w]
         c == r.clip
     IN  IF c \notin library THEN UNCHANGED <<allowing, word, late>>
         ELSE /\ allowing' = IF r.allow THEN allowing \cup {c} ELSE allowing \ {c}
              /\ IF r.sets
                 THEN /\ muted' = IF r.allow THEN muted \ {c} ELSE muted \cup {c}
                      /\ raced' = IF Contradicted(c, r.allow)
                                  THEN raced \cup {c} ELSE raced \ {c}
                      /\ late' = [late EXCEPT ![c] = 0]
                 ELSE UNCHANGED <<word, late>>
  /\ Finish(w)
  /\ UNCHANGED <<library, clipViews, comments, share, expired, outside, made>>

(* expires_at passes; a share made without a lifetime never does this. *)
ExpireShare(s) ==
  /\ s \in Listed \ expired
  /\ expired' = expired \cup {s}
  /\ UNCHANGED <<library, allowing, clipViews, comments, share, request, outside,
                 history>>

-----------------------------------------------------------------------------
(* Visitors.  Any name may be asked for, with or without the password.     *)

StartVisit(w, op, n, knows) ==
  /\ ~Busy(w)
  /\ op = "page" => \A c \in Clips : clipViews[c] < MaxCount
  /\ op = "comment" => \A c \in Clips : comments[c] < MaxCount
  /\ request' = [request EXCEPT ![w] =
       [op |-> op, pc |-> "byCode", name |-> n, knows |-> knows]]
  /\ UNCHANGED <<db, outside, history>>

(* ValidateShareAccess, from the checks on the row it found up to GetByID. *)
CheckShare(w, s) ==
  IF s \in expired \/ Exhausted(s) \/ request[w].knows \/ ~share[s].secret
  THEN request' = [request EXCEPT ![w] =
         [op |-> request[w].op, share |-> s, clip |-> share[s].clip,
          pc |-> IF s \in expired \/ Exhausted(s) THEN "deactivate" ELSE "readClip"]]
  ELSE Finish(w)

(* An inactive share is not found by either query, so that the check of    *)
(* IsActive after them never fails.                                        *)
GetByShareCode(w) ==
  /\ At(w, "byCode")
  /\ IF request[w].name \in Active
     THEN CheckShare(w, request[w].name)
     ELSE Goto(w, "bySlug")
  /\ UNCHANGED <<db, outside, history>>

GetByCustomSlug(w) ==
  /\ At(w, "bySlug")
  /\ \/ \E s \in Active : share[s].slug = request[w].name /\ CheckShare(w, s)
     \/ /\ \A s \in Active : share[s].slug # request[w].name
        /\ Finish(w)
  /\ UNCHANGED <<db, outside, history>>

Deactivate(w) ==
  /\ At(w, "deactivate")
  /\ LET s == request[w].share
     IN  share' = IF s \in Listed THEN [share EXCEPT ![s].active = FALSE] ELSE share
  /\ Finish(w)
  /\ UNCHANGED <<library, allowing, clipViews, comments, expired, outside, history>>

(* GetByID of the clip ends ValidateShareAccess; the video is streamed and *)
(* the comments are listed from there without another statement that       *)
(* decides anything.                                                       *)
ReadClip(w) ==
  /\ At(w, "readClip")
  /\ LET r == request[w]
     IN  IF r.clip \in library /\ r.op = "page"
         THEN Goto(w, "countClip")
         ELSE IF r.clip \in library /\ r.op = "comment" /\ r.clip \in allowing
         THEN Goto(w, "insertComment")
         ELSE Finish(w)
  /\ UNCHANGED <<db, outside, history>>

CountClipView(w) ==
  /\ At(w, "countClip")
  /\ LET c == request[w].clip
     IN  clipViews' = IF c \in library
                      THEN [clipViews EXCEPT ![c] = @ + 1] ELSE clipViews
  /\ Goto(w, "countShare")
  /\ UNCHANGED <<library, allowing, comments, share, expired, outside, history>>

(* The second count, and the page is on its way to the browser. *)
CountShareView(w) ==
  /\ At(w, "countShare")
  /\ LET s == request[w].share
     IN  /\ share' = IF s \in Listed
                     THEN [share EXCEPT ![s].views = @ + 1] ELSE share
         /\ pages' = pages \cup {s}
  /\ Finish(w)
  /\ UNCHANGED <<library, allowing, clipViews, comments, expired, faults, history>>

(* The INSERT fails without its clip, but does not look at allow_comments. *)
CreateComment(w) ==
  /\ At(w, "insertComment")
  /\ LET c == request[w].clip
     IN  IF c \in library
         THEN /\ comments' = [comments EXCEPT ![c] = @ + 1]
              /\ late' = [late EXCEPT ![c] = IF c \in muted THEN @ + 1 ELSE 0]
         ELSE UNCHANGED <<comments, late>>
  /\ Finish(w)
  /\ UNCHANGED <<library, allowing, clipViews, share, expired, outside, made, word>>

-----------------------------------------------------------------------------
(* Failures.                                                               *)

Fault ==
  /\ faults < MaxFaults
  /\ faults' = faults + 1

(* A statement fails and the request ends, or the page is lost. *)
RequestFails(w) ==
  /\ Fault
  /\ Busy(w)
  /\ Finish(w)
  /\ UNCHANGED <<db, pages, history>>

(* GetSharedClip ignores the errors of its two counts. *)
CountFails(w) ==
  /\ Fault
  /\ \/ At(w, "countClip") /\ Goto(w, "countShare") /\ UNCHANGED pages
     \/ At(w, "countShare") /\ Finish(w) /\ pages' = pages \cup {request[w].share}
  /\ UNCHANGED <<db, history>>

Restart ==
  /\ Fault
  /\ request' = [w \in Workers |-> Idle]
  /\ UNCHANGED <<db, pages, history>>

-----------------------------------------------------------------------------
(* What an INSERT into shares leaves to the column defaults: no view yet.  *)
NewRows == [clip : Clips, slug : Slugs \cup {NoSlug}, secret : BOOLEAN,
            max : MaxViews \cup {NoLimit}, views : {0}, active : {TRUE}]

Owner ==
  \/ \E w \in Workers, s \in Shares, r \in NewRows : StartCreateShare(w, s, r)
  \/ \E w \in Workers : InsertShare(w)
  \/ \E s \in Shares : DeleteShare(s) \/ ExpireShare(s)
  \/ \E c \in Clips : DeleteClip(c)
  \/ \E w \in Workers, c \in Clips, sets, allow \in BOOLEAN :
       StartUpdateClip(w, c, sets, allow)
  \/ \E w \in Workers : UpdateClip(w)

Visit(w) ==
  \/ \E op \in Visits, n \in Names, knows \in BOOLEAN : StartVisit(w, op, n, knows)
  \/ GetByShareCode(w)
  \/ GetByCustomSlug(w)
  \/ Deactivate(w)
  \/ ReadClip(w)
  \/ CountClipView(w)
  \/ CountShareView(w)
  \/ CreateComment(w)

Failure ==
  \/ \E w \in Workers : RequestFails(w) \/ CountFails(w)
  \/ Restart

Next ==
  \/ Owner
  \/ \E w \in Workers : Visit(w)
  \/ Failure

Spec == Init /\ [][Next]_vars

-----------------------------------------------------------------------------
(* Properties.                                                             *)

(* Page views of a share that passed its max_views check and are not       *)
(* counted yet.                                                            *)
Admitted(s) ==
  {w \in Workers :
     /\ At(w, "readClip") \/ At(w, "countClip") \/ At(w, "countShare")
     /\ request[w].op = "page" /\ request[w].share = s}

(* The view limit holds up to the requests that overlap: ValidateShareAccess *)
(* compares view_count with max_views several statements before it is      *)
(* incremented, yet a share is never viewed more often than max_views plus *)
(* the other requests the server handles at the time.                      *)
ViewsBounded ==
  \A s \in Listed :
    share[s].max # NoLimit =>
      share[s].views + Cardinality(Admitted(s))
        <= share[s].max + Cardinality(Workers) - 1

(* A share is switched off for good only for a reason that still holds,    *)
(* although the visit that does it decided so on a row it read earlier.    *)
DeactivatedForCause ==
  \A s \in Listed \ Active : s \in expired \/ Exhausted(s)

(* No share or comment is left behind by a clip, whether its row was there *)
(* when the clip went or was about to be inserted.                         *)
NoDangling ==
  /\ \A s \in Listed : share[s].clip \in library
  /\ \A c \in Clips : comments[c] > 0 => c \in library

(* Comments that are past ReadClip and not inserted yet. *)
Inserting(c) == {w \in Workers : At(w, "insertComment") /\ request[w].clip = c}

(* Disallowing comments works, up to the requests in flight: CreateComment *)
(* trusts the flag that ReadClip saw, so from the moment the owner clears  *)
(* it a clip can get no more comments than there were requests.  It holds  *)
(* against every request that writes the row back, but for one that read   *)
(* the row before the owner's word and writes after it.                    *)
MutedGoesQuiet ==
  \A c \in Clips \ raced : late[c] + Cardinality(Inserting(c)) <= Cardinality(Workers)

(* The life of a share, as its row and the requests that create one tell it. *)
Pending(s) == \E w \in Workers : At(w, "insertShare") /\ request[w].share = s

Stage(s) ==
  IF share[s] # NoRow
  THEN IF share[s].active THEN "open" ELSE "closed"
  ELSE IF s \in made /\ ~Pending(s) THEN "gone" ELSE "new"

LimitOf(s) == IF share[s] = NoRow THEN NoLimit ELSE share[s].max
ViewsOf(s) == IF share[s] = NoRow THEN 0 ELSE share[s].views

Link == INSTANCE ShareLinks WITH
  Codes   <- Shares,
  Limits  <- MaxViews \cup {NoLimit},
  Overlap <- Cardinality(Workers) - 1,
  stage   <- [s \in Shares |-> Stage(s)],
  limit   <- [s \in Shares |-> LimitOf(s)],
  views   <- [s \in Shares |-> ViewsOf(s)]

(* The statements keep the promises of a share link: a late UPDATE counts  *)
(* or deactivates, but reopens no link that was closed, brings back none   *)
(* that was deleted, and changes neither a limit nor a view already        *)
(* counted.                                                                *)
ImplementsLinks == Link!Spec
=============================================================================
