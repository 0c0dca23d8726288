------------------------- MODULE ShareAccessProofs -------------------------
(***************************************************************************)
(* Proofs about ShareAccess for any clips, shares, limits and number of    *)
(* concurrent requests.                                                    *)
(***************************************************************************)
EXTENDS ShareAccess, FiniteSetTheorems, TLAPS

(* A new row is a row: no view, and active. *)
LEMMA NewRowsAreRows ==
  ASSUME NEW r \in NewRows
  PROVE  r \in Rows /\ r.views = 0 /\ r.active = TRUE
  <1>1. /\ r.clip \in Clips /\ r.slug \in Slugs \cup {NoSlug}
        /\ r.secret \in BOOLEAN /\ r.max \in MaxViews \cup {NoLimit}
        /\ r.views \in {0} /\ r.active \in {TRUE}
        /\ r = [clip |-> r.clip, slug |-> r.slug, secret |-> r.secret,
                max |-> r.max, views |-> r.views, active |-> r.active]
    BY Zenon DEF NewRows
  <1>2. r.views \in Nat
    BY <1>1
  <1>3. r.active \in BOOLEAN
    BY <1>1, Zenon
  <1>4. r \in Rows
    BY <1>1, <1>2, <1>3, Zenon DEF Rows
  <1>5. QED
    BY <1>1, <1>4

(* The shape of a request follows from where it is. *)
LEMMA Shapes ==
  ASSUME TypeOK, NEW w \in Workers, Busy(w)
  PROVE  /\ At(w, "byCode") \/ At(w, "bySlug") => request[w] \in Lookup
         /\ At(w, "insertShare") => request[w] \in Creation
         /\ At(w, "updateClip") => request[w] \in Change
         /\ \A pc \in Found : At(w, pc) => request[w] \in Access
  BY DEF TypeOK, Busy, At, Lookup, Access, Creation, Change, Found

(* Every statement keeps the types of what it writes. *)
LEMMA NextTypeOK == TypeOK /\ [Next]_vars => TypeOK'
  <1> SUFFICES ASSUME TypeOK, [Next]_vars
               PROVE  TypeOK'
    OBVIOUS
  <1>1. ASSUME NEW w \in Workers, NEW s \in Shares, NEW r \in NewRows,
               StartCreateShare(w, s, r)
        PROVE  TypeOK'
    <2>1. r \in Rows
      BY NewRowsAreRows
    <2>2. [op |-> "create", pc |-> "insertShare", share |-> s, row |-> r] \in Creation
      BY <2>1 DEF Creation
    <2>3. request' \in [Workers -> {Idle} \cup Lookup \cup Access \cup Creation \cup Change]
      BY <1>1, <2>2 DEF TypeOK, StartCreateShare
    <2>4. QED
      BY <1>1, <2>3 DEF TypeOK, StartCreateShare, db, outside, word
  <1>2. ASSUME NEW w \in Workers, InsertShare(w) PROVE TypeOK'
    BY <1>2, Shapes DEF TypeOK, InsertShare, At, Finish, Creation, outside, history
  <1>3. ASSUME NEW s \in Shares, DeleteShare(s) PROVE TypeOK'
    BY <1>3 DEF TypeOK, DeleteShare, outside, history
  <1>4. ASSUME NEW s \in Shares, ExpireShare(s) PROVE TypeOK'
    BY <1>4 DEF TypeOK, ExpireShare, outside, history
  <1>5. ASSUME NEW c \in Clips, DeleteClip(c) PROVE TypeOK'
    BY <1>5 DEF TypeOK, DeleteClip, outside, history
  <1>6. ASSUME NEW w \in Workers, NEW c \in Clips, NEW sets \in BOOLEAN,
               NEW allow \in BOOLEAN, StartUpdateClip(w, c, sets, allow)
        PROVE  TypeOK'
    <2> DEFINE r == [op |-> "update", pc |-> "updateClip", clip |-> c, sets |-> sets,
                     allow |-> IF sets THEN allow ELSE c \in allowing]
    <2>1. r.allow \in BOOLEAN
      <3>1. CASE sets
        BY <3>1, Zenon
      <3>2. CASE ~sets
        BY <3>2, (c \in allowing) = TRUE \/ (c \in allowing) = FALSE
      <3>3. QED
        BY <3>1, <3>2
    <2>2. r \in Change
      BY <2>1, Zenon DEF Change
    <2>3. request' = [request EXCEPT ![w] = r]
      BY <1>6 DEF StartUpdateClip
    <2> HIDE DEF r
    <2>4. request' \in [Workers -> {Idle} \cup Lookup \cup Access \cup Creation \cup Change]
      BY <2>2, <2>3 DEF TypeOK
    <2>5. QED
      BY <1>6, <2>4 DEF TypeOK, StartUpdateClip, db, outside, history
  <1>7. ASSUME NEW w \in Workers, UpdateClip(w) PROVE TypeOK'
    <2>1. request[w] \in Change
      BY <1>7, Shapes DEF UpdateClip, At
    <2>2. QED
      BY <1>7, <2>1 DEF TypeOK, UpdateClip, Finish, Change, outside, word
  <1>8. ASSUME NEW w \in Workers, NEW op \in Visits, NEW n \in Names,
               NEW knows \in BOOLEAN, StartVisit(w, op, n, knows)
        PROVE  TypeOK'
    BY <1>8 DEF TypeOK, StartVisit, Lookup, db, outside, history
  <1>9. ASSUME NEW w \in Workers, NEW s \in Active, CheckShare(w, s),
               request[w] \in Lookup, UNCHANGED <<db, outside, history>>
        PROVE  TypeOK'
    <2>1. request[w].op \in Visits /\ s \in Shares /\ share[s] \in Rows
      BY <1>9 DEF TypeOK, Lookup, Active, Listed
    <2>2. share[s].clip \in Clips
      BY <2>1 DEF Rows
    <2>3. request' \in [Workers -> {Idle} \cup Lookup \cup Access \cup Creation \cup Change]
      BY <1>9, <2>1, <2>2 DEF TypeOK, CheckShare, Finish, Access, Found
    <2>4. QED
      BY <1>9, <2>3 DEF TypeOK, db, outside, history
  <1>10. ASSUME NEW w \in Workers, GetByShareCode(w) PROVE TypeOK'
    <2>1. request[w] \in Lookup
      BY <1>10, Shapes DEF GetByShareCode, At
    <2>2. CASE request[w].name \in Active
      BY <1>9, <1>10, <2>1, <2>2 DEF GetByShareCode
    <2>3. CASE Goto(w, "bySlug") /\ UNCHANGED <<db, outside, history>>
      BY <2>1, <2>3 DEF TypeOK, Goto, Lookup, db, outside, history
    <2>4. QED
      BY <1>10, <2>2, <2>3 DEF GetByShareCode
  <1>11. ASSUME NEW w \in Workers, GetByCustomSlug(w) PROVE TypeOK'
    <2>1. request[w] \in Lookup
      BY <1>11, Shapes DEF GetByCustomSlug, At
    <2>2. CASE Finish(w) /\ UNCHANGED <<db, outside, history>>
      BY <2>2 DEF TypeOK, Finish, db, outside, history
    <2>3. QED
      BY <1>9, <1>11, <2>1, <2>2 DEF GetByCustomSlug
  <1>12. ASSUME NEW w \in Workers, Deactivate(w) PROVE TypeOK'
    BY <1>12 DEF TypeOK, Deactivate, Finish, Listed, Rows, outside, history
  <1>13. ASSUME NEW w \in Workers, ReadClip(w) PROVE TypeOK'
    <2>1. request[w] \in Access
      BY <1>13, Shapes DEF ReadClip, At, Found
    <2>2. QED
      BY <1>13, <2>1 DEF TypeOK, ReadClip, Goto, Finish, Access, Found, db, outside,
                         history
  <1>14. ASSUME NEW w \in Workers, CountClipView(w) PROVE TypeOK'
    <2>1. request[w] \in Access
      BY <1>14, Shapes DEF CountClipView, At, Found
    <2>2. QED
      BY <1>14, <2>1 DEF TypeOK, CountClipView, Goto, Access, Found, outside, history
  <1>15. ASSUME NEW w \in Workers, CountShareView(w) PROVE TypeOK'
    <2>1. request[w] \in Access
      BY <1>15, Shapes DEF CountShareView, At, Found
    <2>2. request[w].share \in Shares
      BY <2>1 DEF Access
    <2>3. share' \in [Shares -> Rows \cup {NoRow}]
      BY <1>15, <2>2 DEF TypeOK, CountShareView, Listed, Rows
    <2>4. QED
      BY <1>15, <2>2, <2>3 DEF TypeOK, CountShareView, Finish, history
  <1>16. ASSUME NEW w \in Workers, CreateComment(w) PROVE TypeOK'
    <2>1. request[w] \in Access
      BY <1>16, Shapes DEF CreateComment, At, Found
    <2>2. QED
      BY <1>16, <2>1 DEF TypeOK, CreateComment, Finish, Access, outside, word
  <1>17. ASSUME NEW w \in Workers, RequestFails(w) PROVE TypeOK'
    BY <1>17, BoundsAssumption DEF TypeOK, RequestFails, Fault, Finish, db, history
  <1>18. ASSUME NEW w \in Workers, CountFails(w) PROVE TypeOK'
    <2>1. request[w] \in Access
      BY <1>18, Shapes DEF CountFails, At, Found
    <2>2. request[w].share \in Shares
      BY <2>1 DEF Access
    <2>3. QED
      BY <1>18, <2>1, <2>2, BoundsAssumption
      DEF TypeOK, CountFails, Fault, Goto, Finish, Access, Found, db, history
  <1>19. CASE Restart
    BY <1>19, BoundsAssumption DEF TypeOK, Restart, Fault, db, history
  <1>20. CASE UNCHANGED vars
    BY <1>20 DEF TypeOK, vars, db, outside, history
  <1>21. QED
    BY <1>1, <1>2, <1>3, <1>4, <1>5, <1>6, <1>7, <1>8, <1>10, <1>11, <1>12, <1>13,
       <1>14, <1>15, <1>16, <1>17, <1>18, <1>19, <1>20
    DEF Next, Owner, Visit, Failure

-----------------------------------------------------------------------------
(* The inductive invariant.                                                *)

(* Every row, and every request on a share, stems from a generated code;   *)
(* a code about to be inserted is nowhere else.                            *)
OnShare(w) == Busy(w) /\ request[w].pc \in Found \cup {"insertShare"}

CodesFresh ==
  /\ Listed \subseteq made
  /\ \A w \in Workers : OnShare(w) => request[w].share \in made
  /\ \A w \in Workers : At(w, "insertShare") =>
       /\ request[w].share \notin Listed
       /\ request[w].row.views = 0
       /\ request[w].row.active = TRUE
       /\ \A v \in Workers \ {w} :
            OnShare(v) => request[v].share # request[w].share

(* A request that goes to deactivate a share knows why. *)
CauseKnown ==
  \A w \in Workers : At(w, "deactivate") =>
    LET s == request[w].share IN s \in Listed => s \in expired \/ Exhausted(s)

(* Only pages are counted. *)
PagesCounted ==
  \A w \in Workers : At(w, "countShare") \/ At(w, "countClip") => request[w].op = "page"

(* No comment is late while the owner's word is to allow them. *)
NoneLateYet == \A c \in Clips \ muted : late[c] = 0

(* A write-back of the row of c with the flag that was read. *)
Restores(w, c) == At(w, "updateClip") /\ request[w].clip = c /\ ~request[w].sets

(* The owner's word to allow no comments is what the row says, and what    *)
(* every write-back under way will make of it.                             *)
MutedHolds ==
  \A c \in muted \ raced :
    c \notin allowing /\ \A w \in Workers : Restores(w, c) => request[w].allow = FALSE

Inv ==
  /\ TypeOK
  /\ CodesFresh
  /\ CauseKnown
  /\ PagesCounted
  /\ DeactivatedForCause
  /\ ViewsBounded
  /\ NoDangling
  /\ NoneLateYet
  /\ MutedHolds
  /\ MutedGoesQuiet

-----------------------------------------------------------------------------
(* What a step may do to the rows and to a request.                        *)

(* The statements that write shares. *)
LEMMA ShareWriters ==
  ASSUME [Next]_vars
  PROVE  \/ share' = share
         \/ \E w \in Workers : InsertShare(w) \/ Deactivate(w) \/ CountShareView(w)
         \/ \E s \in Shares : DeleteShare(s)
         \/ \E c \in Clips : DeleteClip(c)
  <1>1. CASE Owner
    BY <1>1 DEF Owner, StartCreateShare, ExpireShare, StartUpdateClip,
                UpdateClip, db
  <1>2. ASSUME NEW w \in Workers, Visit(w)
        PROVE  share' = share \/ Deactivate(w) \/ CountShareView(w)
    BY <1>2 DEF Visit, StartVisit, GetByShareCode, GetByCustomSlug, ReadClip,
                CountClipView, CreateComment, db
  <1>3. CASE Failure
    BY <1>3 DEF Failure, RequestFails, CountFails, Restart, db
  <1>4. CASE UNCHANGED vars
    BY <1>4 DEF vars, db
  <1>5. QED
    BY <1>1, <1>2, <1>3, <1>4 DEF Next

(* A row keeps its clip and its limit, and its views only grow. *)
Grown(s) ==
  /\ share'[s].clip = share[s].clip
  /\ share'[s].max = share[s].max
  /\ \/ share'[s].views = share[s].views
     \/ /\ share'[s].views = share[s].views + 1
        /\ \E w \in Workers : CountShareView(w) /\ request[w].share = s
  /\ \/ share'[s].active = share[s].active
     \/ \E w \in Workers : Deactivate(w) /\ request[w].share = s

Inserted(s) ==
  \E w \in Workers :
    InsertShare(w) /\ s = request[w].share /\ share'[s] = request[w].row

(* A row after a step was there before and has grown, or was inserted. *)
LEMMA RowsGrow ==
  ASSUME TypeOK, [Next]_vars, NEW s \in Listed'
  PROVE  (s \in Listed /\ Grown(s)) \/ Inserted(s)
  <1>0. s \in Shares /\ share'[s] # NoRow
    BY DEF Listed
  <1>1. CASE share' = share
    BY <1>0, <1>1 DEF Listed, Grown
  <1>2. ASSUME NEW w \in Workers, InsertShare(w)
        PROVE  (s \in Listed /\ Grown(s)) \/ Inserted(s)
    <2>1. CASE s = request[w].share /\ share'[s] = request[w].row
      BY <1>2, <2>1 DEF Inserted
    <2>2. CASE share'[s] = share[s]
      BY <1>0, <2>2 DEF Listed, Grown
    <2>3. QED
      BY <1>0, <1>2, <2>1, <2>2 DEF InsertShare, TypeOK
  <1>3. ASSUME NEW w \in Workers, Deactivate(w)
        PROVE  s \in Listed /\ Grown(s)
    <2>1. CASE share'[s] = share[s]
      BY <1>0, <2>1 DEF Listed, Grown
    <2>2. CASE s = request[w].share /\ s \in Listed
               /\ share'[s] = [share[s] EXCEPT !.active = FALSE]
      <3>1. share[s] \in Rows
        BY <1>0, <2>2 DEF TypeOK, Listed
      <3>2. /\ share'[s].clip = share[s].clip
            /\ share'[s].max = share[s].max
            /\ share'[s].views = share[s].views
        BY <2>2, <3>1 DEF Rows
      <3>3. QED
        BY <1>3, <2>2, <3>2 DEF Grown
    <2>3. QED
      BY <1>0, <1>3, <2>1, <2>2 DEF Deactivate, TypeOK
  <1>4. ASSUME NEW w \in Workers, CountShareView(w)
        PROVE  s \in Listed /\ Grown(s)
    <2>1. CASE share'[s] = share[s]
      BY <1>0, <2>1 DEF Listed, Grown
    <2>2. CASE s = request[w].share /\ s \in Listed
               /\ share'[s] = [share[s] EXCEPT !.views = @ + 1]
      <3>1. share[s] \in Rows
        BY <1>0, <2>2 DEF TypeOK, Listed
      <3>2. /\ share'[s].clip = share[s].clip
            /\ share'[s].max = share[s].max
            /\ share'[s].views = share[s].views + 1
        BY <2>2, <3>1 DEF Rows
      <3>3. share'[s].active = share[s].active
        BY <2>2, <3>1, Zenon DEF Rows
      <3>4. QED
        BY <1>4, <2>2, <3>2, <3>3 DEF Grown
    <2>3. QED
      BY <1>0, <1>4, <2>1, <2>2 DEF CountShareView, TypeOK
  <1>5. ASSUME NEW x \in Shares, DeleteShare(x)
        PROVE  s \in Listed /\ Grown(s)
    BY <1>0, <1>5 DEF DeleteShare, TypeOK, Listed, Grown
  <1>6. ASSUME NEW c \in Clips, DeleteClip(c)
        PROVE  s \in Listed /\ Grown(s)
    BY <1>0, <1>6 DEF DeleteClip, TypeOK, Listed, Grown
  <1>7. QED
    BY <1>1, <1>2, <1>3, <1>4, <1>5, <1>6, ShareWriters

CauseIn(rows, past, s) ==
  s \in past \/ (rows[s].max # NoLimit /\ rows[s].views >= rows[s].max)

(* A reason to deactivate a share remains one. *)
LEMMA CausesLast ==
  ASSUME TypeOK, TypeOK', [Next]_vars, NEW s \in Listed, s \in Listed', Grown(s)
  PROVE  CauseIn(share, expired, s) => CauseIn(share', expired', s)
  <1>1. expired \subseteq expired'
    <2>1. CASE Owner
      BY <2>1 DEF Owner, StartCreateShare, InsertShare, DeleteShare, ExpireShare,
                  DeleteClip, StartUpdateClip, UpdateClip, db
    <2>2. ASSUME NEW w \in Workers, Visit(w) PROVE expired' = expired
      BY <2>2 DEF Visit, StartVisit, GetByShareCode, GetByCustomSlug, Deactivate,
                  ReadClip, CountClipView, CountShareView, CreateComment, db
    <2>3. CASE Failure
      BY <2>3 DEF Failure, RequestFails, CountFails, Restart, db
    <2>4. CASE UNCHANGED vars
      BY <2>4 DEF vars, db
    <2>5. QED
      BY <2>1, <2>2, <2>3, <2>4 DEF Next
  <1>2. share[s] \in Rows /\ share'[s] \in Rows
    BY DEF TypeOK, Listed
  <1>3. share[s].views \in Nat /\ share'[s].views \in Nat
    BY <1>2 DEF Rows
  <1>4. share[s].max # NoLimit => share[s].max \in Nat
    BY <1>2, MaxViewsAssumption DEF Rows
  <1>5. QED
    BY <1>1, <1>3, <1>4 DEF CauseIn, Grown

-----------------------------------------------------------------------------
(* How a request gets hold of a share, and what it does with it.           *)

Enters(w, s) ==
  /\ request[w] \in Lookup
  /\ s \in Active
  /\ request'[w] =
       [op |-> request[w].op, share |-> s, clip |-> share[s].clip,
        pc |-> IF s \in expired \/ Exhausted(s) THEN "deactivate" ELSE "readClip"]
  /\ UNCHANGED <<db, outside, history>>

Advances(w) ==
  /\ request[w] \in Access
  /\ request'[w] = [request[w] EXCEPT !.pc = request'[w].pc]
  /\ \/ /\ request[w].pc = "readClip"
        /\ request'[w].pc = "countClip"
        /\ request[w].op = "page"
     \/ /\ request[w].pc = "readClip"
        /\ request'[w].pc = "insertComment"
        /\ request[w].op = "comment"
        /\ request[w].clip \in allowing
        /\ UNCHANGED <<db, outside, history>>
     \/ request[w].pc = "countClip" /\ request'[w].pc = "countShare"

Creates(w) ==
  \E s \in Shares \ made, r \in NewRows :
    /\ request' = [request EXCEPT ![w] =
         [op |-> "create", pc |-> "insertShare", share |-> s, row |-> r]]
    /\ made' = made \cup {s}
    /\ UNCHANGED share

Moves(v) ==
  OnShare(v)' =>
    request'[v] = request[v] \/ Creates(v) \/ (\E s \in Shares : Enters(v, s)) \/ Advances(v)

(* A request that ends, or is none of a share, moves no share. *)
LEMMA EndingMoves ==
  ASSUME TypeOK, NEW v \in Workers, NEW w \in Workers,
         Finish(w) \/ request' = request
  PROVE  Moves(v)
  BY DEF TypeOK, Finish, Moves, OnShare, Busy

(* One step of a request, by the place it starts from. *)
LEMMA GotoMoves ==
  ASSUME TypeOK, NEW v \in Workers, NEW w \in Workers, NEW pc, Goto(w, pc),
         v = w => Advances(v) \/ pc = "bySlug"
  PROVE  Moves(v)
  <1>1. CASE v # w
    BY <1>1 DEF TypeOK, Goto, Moves
  <1>2. CASE v = w /\ Advances(v)
    BY <1>2 DEF Moves
  <1>3. CASE v = w /\ pc = "bySlug"
    <2>1. request'[w] = [request[w] EXCEPT !.pc = "bySlug"]
      BY <1>3 DEF TypeOK, Goto
    <2>2. QED
      BY <1>3, <2>1 DEF Moves, OnShare, Busy, Found, TypeOK, Lookup, Access, Creation,
                     Change, Idle
  <1>4. QED
    BY <1>1, <1>2, <1>3

(* What CheckShare does with the row it was given. *)
LEMMA CheckMoves ==
  ASSUME TypeOK, NEW v \in Workers, NEW w \in Workers, NEW s \in Active,
         request[w] \in Lookup, CheckShare(w, s), UNCHANGED <<db, outside, history>>
  PROVE  Moves(v)
  <1>1. CASE Finish(w)
    BY <1>1, EndingMoves
  <1>2. CASE v # w
    BY <1>2 DEF TypeOK, CheckShare, Finish, Moves
  <1>3. CASE v = w /\ ~Finish(w)
    BY <1>3 DEF TypeOK, CheckShare, Moves, Enters, Active, Listed
  <1>4. QED
    BY <1>1, <1>2, <1>3

(* Every step moves every request in one of these ways. *)
LEMMA RequestsMove ==
  ASSUME TypeOK, [Next]_vars, NEW v \in Workers
  PROVE  Moves(v)
  <1>1. ASSUME NEW w \in Workers, NEW s \in Shares, NEW r \in NewRows,
               StartCreateShare(w, s, r)
        PROVE  Moves(v)
    <2>1. CASE v = w
      <3>1. Creates(v)
        BY <1>1, <2>1 DEF StartCreateShare, Creates, db
      <3>2. QED
        BY <3>1 DEF Moves
    <2>2. CASE v # w
      BY <1>1, <2>2 DEF StartCreateShare, TypeOK, Moves
    <2>3. QED
      BY <2>1, <2>2
  <1>2. ASSUME NEW w \in Workers,
               InsertShare(w) \/ Deactivate(w) \/ CountShareView(w)
                 \/ CreateComment(w) \/ UpdateClip(w) \/ RequestFails(w)
        PROVE  Moves(v)
    <2>1. Finish(w)
      BY <1>2 DEF InsertShare, Deactivate, CountShareView, CreateComment, UpdateClip,
                  RequestFails
    <2>2. QED
      BY <2>1, EndingMoves
  <1>3. ASSUME NEW s \in Shares, DeleteShare(s) \/ ExpireShare(s) PROVE Moves(v)
    BY <1>3, EndingMoves DEF DeleteShare, ExpireShare
  <1>4. ASSUME NEW c \in Clips, DeleteClip(c) PROVE Moves(v)
    BY <1>4, EndingMoves DEF DeleteClip
  <1>5. ASSUME NEW w \in Workers, NEW op \in Visits, NEW n \in Names,
               NEW knows \in BOOLEAN, StartVisit(w, op, n, knows)
        PROVE  Moves(v)
    BY <1>5 DEF StartVisit, TypeOK, Moves, OnShare, Busy, Found
  <1>6. ASSUME NEW w \in Workers, GetByShareCode(w) PROVE Moves(v)
    <2>1. request[w] \in Lookup
      BY <1>6, Shapes DEF GetByShareCode, At
    <2>2. CASE request[w].name \in Active
      BY <1>6, <2>1, <2>2, CheckMoves DEF GetByShareCode
    <2>3. CASE Goto(w, "bySlug")
      BY <2>3, GotoMoves
    <2>4. QED
      BY <1>6, <2>2, <2>3 DEF GetByShareCode
  <1>7. ASSUME NEW w \in Workers, GetByCustomSlug(w) PROVE Moves(v)
    <2>1. request[w] \in Lookup
      BY <1>7, Shapes DEF GetByCustomSlug, At
    <2>2. CASE Finish(w)
      BY <2>2, EndingMoves
    <2>3. QED
      BY <1>7, <2>1, <2>2, CheckMoves DEF GetByCustomSlug
  <1>8. ASSUME NEW w \in Workers, ReadClip(w) PROVE Moves(v)
    <2>1. request[w] \in Access /\ request[w].pc = "readClip"
      BY <1>8, Shapes DEF ReadClip, At, Found
    <2>2. CASE Finish(w)
      BY <2>2, EndingMoves
    <2>3. CASE Goto(w, "countClip") /\ request[w].op = "page"
      <3>1. request'[w] = [request[w] EXCEPT !.pc = "countClip"]
        BY <2>3 DEF Goto, TypeOK
      <3>2. Advances(w)
        BY <2>1, <2>3, <3>1 DEF Advances, Access
      <3>3. QED
        BY <2>3, <3>2, GotoMoves
    <2>4. CASE /\ Goto(w, "insertComment") /\ request[w].op = "comment"
               /\ request[w].clip \in allowing
      <3>1. request'[w] = [request[w] EXCEPT !.pc = "insertComment"]
        BY <2>4 DEF Goto, TypeOK
      <3>2. Advances(w)
        BY <1>8, <2>1, <2>4, <3>1 DEF Advances, Access, ReadClip
      <3>3. QED
        BY <2>4, <3>2, GotoMoves
    <2>5. QED
      BY <1>8, <2>2, <2>3, <2>4 DEF ReadClip
  <1>9. ASSUME NEW w \in Workers, At(w, "countClip"), Goto(w, "countShare")
        PROVE  Moves(v)
    <2>1. request[w] \in Access /\ request[w].pc = "countClip"
      BY <1>9, Shapes DEF At, Found
    <2>2. request'[w] = [request[w] EXCEPT !.pc = "countShare"]
      BY <1>9 DEF Goto, TypeOK
    <2>3. Advances(w)
      BY <2>1, <2>2 DEF Advances, Access
    <2>4. QED
      BY <1>9, <2>3, GotoMoves
  <1>10. ASSUME NEW w \in Workers, CountClipView(w) PROVE Moves(v)
    BY <1>9, <1>10 DEF CountClipView
  <1>11. ASSUME NEW w \in Workers, CountFails(w) PROVE Moves(v)
    BY <1>9, <1>11, EndingMoves DEF CountFails
  <1>12. CASE Restart
    BY <1>12 DEF Restart, TypeOK, Moves, OnShare, Busy
  <1>13. CASE UNCHANGED vars
    BY <1>13, EndingMoves DEF vars
  <1>14. ASSUME NEW w \in Workers, NEW c \in Clips, NEW sets \in BOOLEAN,
                NEW allow \in BOOLEAN, StartUpdateClip(w, c, sets, allow)
         PROVE  Moves(v)
    BY <1>14 DEF StartUpdateClip, TypeOK, Moves, OnShare, Busy, Found
  <1>15. QED
    BY <1>1, <1>2, <1>3, <1>4, <1>5, <1>6, <1>7, <1>8, <1>10, <1>11, <1>12, <1>13,
       <1>14
    DEF Next, Owner, Visit, Failure

-----------------------------------------------------------------------------
(* The parts of the invariant, one after the other.                        *)

(* No code is forgotten. *)
LEMMA MadeGrows ==
  ASSUME [Next]_vars
  PROVE  made \subseteq made'
  <1>1. CASE Owner
    BY <1>1 DEF Owner, StartCreateShare, InsertShare, DeleteShare, ExpireShare,
                DeleteClip, StartUpdateClip, UpdateClip, history, word
  <1>2. ASSUME NEW w \in Workers, Visit(w) PROVE made' = made
    BY <1>2 DEF Visit, StartVisit, GetByShareCode, GetByCustomSlug, Deactivate,
                ReadClip, CountClipView, CountShareView, CreateComment, history
  <1>3. CASE Failure
    BY <1>3 DEF Failure, RequestFails, CountFails, Restart, history
  <1>4. CASE UNCHANGED vars
    BY <1>4 DEF vars, history
  <1>5. QED
    BY <1>1, <1>2, <1>3, <1>4 DEF Next

(* The worker whose row is inserted is done, and nobody else is on the share. *)
LEMMA InsertedAlone ==
  ASSUME TypeOK, CodesFresh, [Next]_vars, NEW s \in Shares, Inserted(s)
  PROVE  /\ s \notin Listed
         /\ s \in made
         /\ share'[s].views = 0 /\ share'[s].active = TRUE
         /\ \A v \in Workers : OnShare(v)' => request'[v].share # s
  <1>1. PICK w \in Workers :
          InsertShare(w) /\ s = request[w].share /\ share'[s] = request[w].row
    BY DEF Inserted
  <1>2. At(w, "insertShare") /\ OnShare(w) /\ Finish(w)
    BY <1>1 DEF InsertShare, OnShare, At
  <1>3. /\ s \notin Listed /\ s \in made
        /\ share'[s].views = 0 /\ share'[s].active = TRUE
        /\ \A v \in Workers \ {w} : OnShare(v) => request[v].share # s
    BY <1>1, <1>2 DEF CodesFresh
  <1>4. ASSUME NEW v \in Workers, OnShare(v)'
        PROVE  request'[v].share # s
    <2>1. v # w
      BY <1>2, <1>4 DEF Finish, OnShare, Busy, TypeOK
    <2>2. request'[v] = request[v]
      BY <1>2, <2>1 DEF Finish, TypeOK
    <2>3. QED
      BY <1>3, <1>4, <2>1, <2>2 DEF OnShare, Busy
  <1>5. QED
    BY <1>3, <1>4

(* A code is generated once, so a new row meets no request for an old one. *)
LEMMA NextCodesFresh ==
  ASSUME TypeOK, TypeOK', CodesFresh, [Next]_vars
  PROVE  CodesFresh'
  <1>1. (Listed \subseteq made)'
    <2> SUFFICES ASSUME NEW s \in Listed' PROVE s \in made'
      OBVIOUS
    <2>1. s \in Shares
      BY DEF Listed
    <2>2. s \in made
      BY <2>1, RowsGrow, InsertedAlone DEF CodesFresh
    <2>3. QED
      BY <2>2, MadeGrows
  <1>2. ASSUME NEW w \in Workers, OnShare(w)'
        PROVE  request'[w].share \in made'
    <2>0. Moves(w)
      BY RequestsMove
    <2>1. CASE request'[w] = request[w]
      BY <1>2, <2>1, MadeGrows DEF CodesFresh, OnShare, Busy
    <2>2. CASE Creates(w)
      BY <2>2 DEF Creates, TypeOK
    <2>3. ASSUME NEW s \in Shares, Enters(w, s) PROVE request'[w].share \in made'
      BY <2>3, MadeGrows DEF Enters, Active, CodesFresh
    <2>4. CASE Advances(w)
      <3>1. OnShare(w) /\ request'[w].share = request[w].share
        BY <2>4 DEF Advances, Access, OnShare, Busy, Idle, Found
      <3>2. QED
        BY <3>1, MadeGrows DEF CodesFresh
    <2>5. QED
      BY <1>2, <2>0, <2>1, <2>2, <2>3, <2>4 DEF Moves
  <1>3. ASSUME NEW w \in Workers, At(w, "insertShare")'
        PROVE  /\ request'[w].share \notin Listed'
               /\ request'[w].row.views = 0 /\ request'[w].row.active = TRUE
               /\ \A v \in Workers \ {w} :
                    OnShare(v)' => request'[v].share # request'[w].share
    <2>0. Moves(w) /\ OnShare(w)'
      BY <1>3, RequestsMove DEF At, OnShare
    <2>1. CASE Creates(w)
      <3>1. PICK s \in Shares \ made, r \in NewRows :
              /\ request' = [request EXCEPT ![w] =
                   [op |-> "create", pc |-> "insertShare", share |-> s, row |-> r]]
              /\ UNCHANGED share
        BY <2>1 DEF Creates
      <3>2. request'[w].share = s /\ request'[w].row = r
        BY <3>1 DEF TypeOK
      <3>3. s \notin Listed'
        BY <3>1 DEF Listed, CodesFresh
      <3>4. r.views = 0 /\ r.active = TRUE
        BY NewRowsAreRows
      <3>5. ASSUME NEW v \in Workers \ {w}, OnShare(v)'
            PROVE  request'[v].share # s
        BY <3>1, <3>5 DEF TypeOK, OnShare, Busy, CodesFresh
      <3>6. QED
        BY <3>2, <3>3, <3>4, <3>5
    <2>2. CASE request'[w] = request[w]
      <3>1. At(w, "insertShare") /\ OnShare(w)
        BY <1>3, <2>2 DEF At, Busy, OnShare
      <3>2. request[w].share \notin Listed'
        <4>1. ASSUME request[w].share \in Listed' PROVE FALSE
          <5>1. Inserted(request[w].share) /\ request[w].share \in Shares
            BY <3>1, <4>1, RowsGrow DEF CodesFresh, Listed
          <5>2. request'[w].share # request[w].share
            BY <2>0, <5>1, InsertedAlone
          <5>3. QED
            BY <2>2, <5>2
        <4>2. QED
          BY <4>1
      <3>3. ASSUME NEW v \in Workers \ {w}, OnShare(v)'
            PROVE  request'[v].share # request[w].share
        <4>0. Moves(v)
          BY RequestsMove
        <4>1. CASE request'[v] = request[v]
          BY <3>1, <3>3, <4>1 DEF OnShare, Busy, CodesFresh
        <4>2. CASE Creates(v)
          BY <3>1, <4>2 DEF Creates, TypeOK, CodesFresh
        <4>3. ASSUME NEW s \in Shares, Enters(v, s)
              PROVE  request'[v].share # request[w].share
          BY <3>1, <4>3 DEF Enters, Active, CodesFresh
        <4>4. CASE Advances(v)
          <5>1. OnShare(v) /\ request'[v].share = request[v].share
            BY <4>4 DEF Advances, Access, OnShare, Busy, Idle, Found
          <5>2. QED
            BY <3>1, <5>1 DEF CodesFresh
        <4>5. QED
          BY <3>3, <4>0, <4>1, <4>2, <4>3, <4>4 DEF Moves
      <3>4. QED
        BY <2>2, <3>1, <3>2, <3>3 DEF CodesFresh
    <2>3. ASSUME NEW s \in Shares, Enters(w, s) PROVE FALSE
      BY <1>3, <2>3 DEF Enters, At
    <2>4. CASE Advances(w)
      BY <1>3, <2>4 DEF Advances, At
    <2>5. QED
      BY <2>0, <2>1, <2>2, <2>3, <2>4 DEF Moves
  <1>4. QED
    BY <1>1, <1>2, <1>3 DEF CodesFresh

(* Why a share is deactivated remains true until it is. *)
LEMMA NextCauses ==
  ASSUME TypeOK, TypeOK', CodesFresh, CauseKnown, DeactivatedForCause, [Next]_vars
  PROVE  CauseKnown' /\ DeactivatedForCause'
  <1>1. ASSUME NEW w \in Workers, At(w, "deactivate")', request'[w].share \in Listed'
        PROVE  CauseIn(share', expired', request'[w].share)
    <2>0. Moves(w) /\ OnShare(w)'
      BY <1>1, RequestsMove DEF At, OnShare, Found
    <2>1. CASE request'[w] = request[w]
      <3> DEFINE s == request[w].share
      <3>1. At(w, "deactivate") /\ OnShare(w) /\ s \in Listed'
        BY <1>1, <2>1 DEF At, Busy, OnShare, Found
      <3>2. ~Inserted(s)
        BY <2>0, <2>1, <3>1, InsertedAlone DEF Listed
      <3>3. s \in Listed /\ Grown(s)
        BY <3>1, <3>2, RowsGrow
      <3>4. CauseIn(share, expired, s)
        BY <3>1, <3>3 DEF CauseKnown, CauseIn, Exhausted
      <3>5. CauseIn(share', expired', s)
        BY <3>1, <3>3, <3>4, CausesLast
      <3>6. QED
        BY <2>1, <3>5
    <2>2. CASE Creates(w)
      BY <1>1, <2>2 DEF Creates, At, TypeOK
    <2>3. ASSUME NEW s \in Shares, Enters(w, s)
          PROVE  CauseIn(share', expired', request'[w].share)
      BY <1>1, <2>3 DEF Enters, At, Exhausted, CauseIn, db
    <2>4. CASE Advances(w)
      BY <1>1, <2>4 DEF Advances, At
    <2>5. QED
      BY <2>0, <2>1, <2>2, <2>3, <2>4 DEF Moves
  <1>2. ASSUME NEW s \in Listed', s \notin Active'
        PROVE  CauseIn(share', expired', s)
    <2>0. s \in Shares /\ share'[s].active # TRUE
      BY <1>2 DEF Active, Listed
    <2>1. ~Inserted(s)
      BY <2>0, InsertedAlone
    <2>2. s \in Listed /\ Grown(s)
      BY <2>1, RowsGrow
    <2>3. CauseIn(share, expired, s)
      <3>1. CASE share'[s].active = share[s].active
        BY <2>0, <2>2, <3>1 DEF DeactivatedForCause, Active, CauseIn, Exhausted
      <3>2. ASSUME NEW w \in Workers, Deactivate(w), request[w].share = s
            PROVE  CauseIn(share, expired, s)
        BY <2>2, <3>2 DEF CauseKnown, Deactivate, CauseIn, Exhausted
      <3>3. QED
        BY <2>2, <3>1, <3>2 DEF Grown
    <2>4. QED
      BY <2>2, <2>3, CausesLast
  <1>3. CauseKnown'
    BY <1>1 DEF CauseKnown, Exhausted, CauseIn
  <1>4. DeactivatedForCause'
    BY <1>2 DEF DeactivatedForCause, Exhausted, CauseIn
  <1>5. QED
    BY <1>3, <1>4

(* Only a page goes on to the counts. *)
LEMMA NextPagesCounted ==
  ASSUME TypeOK, PagesCounted, [Next]_vars
  PROVE  PagesCounted'
  <1> SUFFICES ASSUME NEW w \in Workers, (At(w, "countShare") \/ At(w, "countClip"))'
               PROVE  request'[w].op = "page"
    BY DEF PagesCounted
  <1>0. Moves(w) /\ OnShare(w)'
    BY RequestsMove DEF At, OnShare, Found
  <1>1. CASE request'[w] = request[w]
    BY <1>1 DEF PagesCounted, At, Busy
  <1>2. CASE Creates(w)
    BY <1>2 DEF Creates, TypeOK, At
  <1>3. ASSUME NEW s \in Shares, Enters(w, s) PROVE FALSE
    BY <1>3 DEF Enters, At
  <1>4. CASE Advances(w)
    BY <1>4 DEF Advances, Access, At, Busy, Idle, PagesCounted
  <1>5. QED
    BY <1>0, <1>1, <1>2, <1>3, <1>4 DEF Moves

(* A set of workers is no larger than all of them together. *)
LEMMA WorkersBound ==
  ASSUME NEW S \in SUBSET Workers
  PROVE  /\ IsFiniteSet(S)
         /\ Cardinality(S) \in Nat
         /\ Cardinality(Workers) \in Nat
         /\ Cardinality(S) <= Cardinality(Workers)
         /\ \A T \in SUBSET S : Cardinality(T) <= Cardinality(S)
         /\ \A w \in S : \A T \in SUBSET (S \ {w}) : Cardinality(T) <= Cardinality(S) - 1
  <1>1. /\ IsFiniteSet(S)
        /\ Cardinality(S) <= Cardinality(Workers)
    BY FS_Subset, FiniteWorkers
  <1>2. Cardinality(S) \in Nat /\ Cardinality(Workers) \in Nat
    BY <1>1, FS_CardinalityType, FiniteWorkers
  <1>3. \A T \in SUBSET S : Cardinality(T) <= Cardinality(S)
    BY <1>1, FS_Subset
  <1>4. ASSUME NEW w \in S, NEW T \in SUBSET (S \ {w})
        PROVE  Cardinality(T) <= Cardinality(S) - 1
    <2>1. /\ IsFiniteSet(S \ {w})
          /\ Cardinality(S \ {w}) = Cardinality(S) - 1
      BY <1>1, FS_RemoveElement
    <2>2. QED
      BY <2>1, FS_Subset
  <1>5. QED
    BY <1>1, <1>2, <1>3, <1>4

(* Whoever is admitted after a step was before, or has just passed the check. *)
LEMMA AdmittedBefore ==
  ASSUME TypeOK, [Next]_vars, NEW s \in Shares, NEW v \in Admitted(s)'
  PROVE  /\ v \in Workers
         /\ OnShare(v)'
         /\ request'[v].share = s
         /\ v \in Admitted(s) \/ Enters(v, s)
  <1>1. /\ v \in Workers /\ Busy(v)' /\ OnShare(v)'
        /\ request'[v].pc \in {"readClip", "countClip", "countShare"}
        /\ request'[v].op = "page" /\ request'[v].share = s
    BY DEF Admitted, At, OnShare, Found
  <1>2. Moves(v)
    BY <1>1, RequestsMove
  <1>3. CASE request'[v] = request[v]
    BY <1>1, <1>3 DEF Admitted, At, Busy
  <1>4. CASE Creates(v)
    BY <1>1, <1>4 DEF Creates, TypeOK
  <1>5. ASSUME NEW x \in Shares, Enters(v, x) PROVE Enters(v, s)
    BY <1>1, <1>5 DEF Enters
  <1>6. CASE Advances(v)
    BY <1>1, <1>6 DEF Advances, Access, Admitted, At, Busy, Idle
  <1>7. QED
    BY <1>1, <1>2, <1>3, <1>4, <1>5, <1>6 DEF Moves

(* The views of a share and the requests about to be counted stay below    *)
(* the limit and the other requests: a request is admitted only while the  *)
(* views alone are below the limit, and being counted it is no longer one  *)
(* of the admitted.                                                        *)
LEMMA NextViewsBounded ==
  ASSUME TypeOK, TypeOK', CodesFresh, PagesCounted, ViewsBounded, [Next]_vars
  PROVE  ViewsBounded'
  <1> SUFFICES ASSUME NEW s \in Listed', share'[s].max # NoLimit
               PROVE  share'[s].views + Cardinality(Admitted(s)')
                        <= share'[s].max + Cardinality(Workers) - 1
    BY DEF ViewsBounded
  <1> DEFINE A == Admitted(s)
             B == Admitted(s)'
  <1>0. /\ s \in Shares
        /\ A \in SUBSET Workers /\ B \in SUBSET Workers
    BY DEF Admitted, Listed
  <1>1. share'[s].views \in Nat /\ share'[s].max \in Nat
    <2>1. share'[s] \in Rows
      BY DEF TypeOK, Listed
    <2>2. QED
      BY <2>1, MaxViewsAssumption DEF Rows
  <1>2. /\ Cardinality(A) \in Nat /\ Cardinality(B) \in Nat
        /\ Cardinality(Workers) \in Nat
        /\ Cardinality(B) <= Cardinality(Workers)
    BY <1>0, WorkersBound
  <1> HIDE DEF A, B
  <1>3. CASE Inserted(s)
    <2>1. B = {}
      <3>1. ASSUME NEW v \in B PROVE FALSE
        BY <1>0, <1>3, <3>1, AdmittedBefore, InsertedAlone DEF B
      <3>2. QED
        BY <3>1
    <2>2. share'[s].views = 0 /\ Cardinality(B) = 0
      BY <1>0, <1>3, <2>1, InsertedAlone, FS_EmptySet
    <2>3. Cardinality(Workers) >= 1
      <3>1. Workers # {}
        BY <1>3 DEF Inserted
      <3>2. Cardinality(Workers) # 0
        BY <3>1, FS_EmptySet, FiniteWorkers
      <3>3. QED
        BY <1>2, <3>2
    <2>4. QED
      BY <1>1, <1>2, <2>2, <2>3 DEF B
  <1>4. CASE s \in Listed /\ Grown(s)
    <2>1. /\ share[s].max = share'[s].max
          /\ share[s].views + Cardinality(A) <= share[s].max + Cardinality(Workers) - 1
      BY <1>4 DEF ViewsBounded, Grown, A
    <2>2. share[s].views \in Nat
      BY <1>4 DEF TypeOK, Listed, Rows
    <2>3. CASE B \subseteq A /\ share'[s].views = share[s].views
      <3>1. Cardinality(B) <= Cardinality(A)
        BY <1>0, <2>3, WorkersBound DEF A
      <3>2. QED
        BY <1>1, <1>2, <2>1, <2>2, <2>3, <3>1 DEF B
    <2>4. ASSUME NEW w \in Workers, CountShareView(w), request[w].share = s,
                 share'[s].views = share[s].views + 1
          PROVE  share'[s].views + Cardinality(B)
                   <= share'[s].max + Cardinality(Workers) - 1
      <3>1. w \in A /\ Finish(w)
        BY <2>4 DEF CountShareView, A, Admitted, PagesCounted
      <3>2. B \subseteq A \ {w}
        <4>1. ASSUME NEW v \in B PROVE v \in A /\ v # w
          <5>1. OnShare(v)' /\ v \in Workers /\ (v \in A \/ Enters(v, s))
            BY <1>0, <4>1, AdmittedBefore DEF A, B
          <5>2. v # w
            BY <3>1, <5>1 DEF Finish, OnShare, Busy, TypeOK
          <5>3. request'[v] = request[v]
            BY <3>1, <5>1, <5>2 DEF Finish, TypeOK
          <5>4. ~Enters(v, s)
            BY <1>4, <2>2, <2>4 DEF Enters, db
          <5>5. QED
            BY <5>1, <5>2, <5>4
        <4>2. QED
          BY <4>1
      <3>3. Cardinality(B) <= Cardinality(A) - 1
        BY <1>0, <3>1, <3>2, WorkersBound DEF A
      <3>4. QED
        BY <1>1, <1>2, <2>1, <2>2, <2>4, <3>3
    <2>5. ASSUME NEW v \in B, v \notin A, share'[s].views = share[s].views
          PROVE  share'[s].views + Cardinality(B)
                   <= share'[s].max + Cardinality(Workers) - 1
      <3>1. Enters(v, s) /\ request'[v].pc # "deactivate"
        <4>1. v \in A \/ Enters(v, s)
          BY <1>0, <2>5, AdmittedBefore DEF A, B
        <4>2. request'[v].pc # "deactivate"
          BY <2>5 DEF B, Admitted, At
        <4>3. QED
          BY <2>5, <4>1, <4>2
      <3>2. ~Exhausted(s)
        BY <3>1 DEF Enters
      <3>3. share[s].views < share[s].max
        BY <1>1, <2>1, <2>2, <3>2 DEF Exhausted
      <3>4. QED
        BY <1>1, <1>2, <2>1, <2>2, <2>5, <3>3
    <2>6. QED
      BY <1>4, <2>3, <2>4, <2>5 DEF Grown, B
  <1>5. QED
    BY <1>3, <1>4, RowsGrow

(* The cascade of a DELETE, and the foreign key of an INSERT. *)
LEMMA NextNoDangling ==
  ASSUME TypeOK, NoDangling, [Next]_vars
  PROVE  NoDangling'
  <1>1. ASSUME NEW w \in Workers, InsertShare(w) PROVE NoDangling'
    BY <1>1 DEF InsertShare, NoDangling, Listed, TypeOK
  <1>2. ASSUME NEW s \in Shares, DeleteShare(s) PROVE NoDangling'
    BY <1>2 DEF DeleteShare, NoDangling, Listed, TypeOK
  <1>3. ASSUME NEW c \in Clips, DeleteClip(c) PROVE NoDangling'
    BY <1>3 DEF DeleteClip, NoDangling, Listed, LinksOf, TypeOK
  <1>4. ASSUME NEW w \in Workers, Deactivate(w) \/ CountShareView(w)
        PROVE  NoDangling'
    <2>1. /\ library' = library /\ comments' = comments
          /\ ~\E v \in Workers : InsertShare(v)
      <3>1. ASSUME NEW v \in Workers, InsertShare(v) PROVE FALSE
        <4>1. At(v, "insertShare") /\ request' = [request EXCEPT ![v] = Idle]
          BY <3>1 DEF InsertShare, Finish
        <4>2. At(w, "deactivate") \/ At(w, "countShare")
          BY <1>4 DEF Deactivate, CountShareView
        <4>3. v # w
          BY <4>1, <4>2 DEF At
        <4>4. request' = [request EXCEPT ![w] = Idle]
          BY <1>4 DEF Deactivate, CountShareView, Finish
        <4>5. request'[v] = Idle /\ request'[v] = request[v]
          BY <4>1, <4>3, <4>4 DEF TypeOK
        <4>6. QED
          BY <4>1, <4>5 DEF At, Busy
      <3>2. QED
        BY <1>4, <3>1 DEF Deactivate, CountShareView
    <2>2. ASSUME NEW s \in Listed' PROVE share'[s].clip \in library'
      <3>1. s \in Listed /\ Grown(s)
        BY <2>1, RowsGrow DEF Inserted
      <3>2. QED
        BY <2>1, <3>1 DEF Grown, NoDangling
    <2>3. QED
      BY <2>1, <2>2 DEF NoDangling
  <1>5. ASSUME NEW w \in Workers, CreateComment(w) PROVE NoDangling'
    BY <1>5 DEF CreateComment, NoDangling, Listed, TypeOK
  <1>6. CASE UNCHANGED <<library, share, comments>>
    BY <1>6 DEF NoDangling, Listed
  <1>7. CASE Owner
    BY <1>1, <1>2, <1>3, <1>6, <1>7
    DEF Owner, StartCreateShare, ExpireShare, StartUpdateClip, UpdateClip, db
  <1>8. ASSUME NEW w \in Workers, Visit(w) PROVE NoDangling'
    BY <1>4, <1>5, <1>6, <1>8
    DEF Visit, StartVisit, GetByShareCode, GetByCustomSlug, ReadClip, CountClipView, db
  <1>9. CASE Failure
    BY <1>6, <1>9 DEF Failure, RequestFails, CountFails, Restart, db
  <1>10. CASE UNCHANGED vars
    BY <1>6, <1>10 DEF vars, db
  <1>11. QED
    BY <1>7, <1>8, <1>9, <1>10 DEF Next

-----------------------------------------------------------------------------
(* Which statements touch the flag, the owner's word and the late comments. *)
LEMMA MuteWriters ==
  ASSUME [Next]_vars
  PROVE  \/ UNCHANGED <<allowing, muted, raced, late>>
         \/ \E w \in Workers : UpdateClip(w) \/ CreateComment(w)
  <1>1. CASE Owner
    BY <1>1 DEF Owner, StartCreateShare, InsertShare, DeleteShare, ExpireShare,
                DeleteClip, StartUpdateClip, db, history, word
  <1>2. ASSUME NEW w \in Workers, Visit(w)
        PROVE  UNCHANGED <<allowing, muted, raced, late>> \/ CreateComment(w)
    BY <1>2 DEF Visit, StartVisit, GetByShareCode, GetByCustomSlug, Deactivate,
                ReadClip, CountClipView, CountShareView, db, history
  <1>3. CASE Failure
    BY <1>3 DEF Failure, RequestFails, CountFails, Restart, db, history
  <1>4. CASE UNCHANGED vars
    BY <1>4 DEF vars, db, history
  <1>5. QED
    BY <1>1, <1>2, <1>3, <1>4 DEF Next

(* The UPDATE either carries the owner's word, or the flag that was read,  *)
(* or finds no row.                                                        *)
LEMMA Updates ==
  ASSUME TypeOK, NEW w \in Workers, UpdateClip(w), NEW c \in Clips
  PROVE  \/ /\ request[w].clip = c /\ request[w].sets /\ late'[c] = 0
            /\ c \in muted' => request[w].allow = FALSE /\ c \notin allowing'
            /\ c \notin raced' => ~Contradicted(c, request[w].allow)
         \/ /\ (c \in muted' <=> c \in muted) /\ (c \in raced' <=> c \in raced)
            /\ late'[c] = late[c]
            /\ \/ c \in allowing' <=> c \in allowing
               \/ Restores(w, c) /\ (c \in allowing' => request[w].allow # FALSE)
  <1>1. request[w] \in Change /\ At(w, "updateClip")
    BY Shapes DEF UpdateClip, At
  <1>2. /\ request[w].clip \in Clips /\ request[w].sets \in BOOLEAN
        /\ request[w].allow \in BOOLEAN
    BY <1>1, Zenon DEF Change
  <1>3. CASE request[w].clip \notin library
    BY <1>3 DEF UpdateClip, word
  <1>4. CASE request[w].clip \in library /\ request[w].clip # c
    BY <1>2, <1>4 DEF UpdateClip, word, TypeOK
  <1>5. CASE request[w].clip \in library /\ request[w].clip = c /\ request[w].sets
    BY <1>2, <1>5 DEF UpdateClip, TypeOK
  <1>6. CASE request[w].clip \in library /\ request[w].clip = c /\ ~request[w].sets
    BY <1>1, <1>2, <1>6 DEF UpdateClip, word, Restores
  <1>7. QED
    BY <1>2, <1>3, <1>4, <1>5, <1>6

(* While the owner's word is to allow comments none is late. *)
LEMMA NextNoneLateYet ==
  ASSUME TypeOK, NoneLateYet, [Next]_vars
  PROVE  NoneLateYet'
  <1> SUFFICES ASSUME NEW c \in Clips, c \notin muted' PROVE late'[c] = 0
    BY DEF NoneLateYet
  <1>1. ASSUME NEW w \in Workers, UpdateClip(w) PROVE late'[c] = 0
    BY <1>1, Updates DEF NoneLateYet
  <1>2. ASSUME NEW w \in Workers, CreateComment(w) PROVE late'[c] = 0
    BY <1>2 DEF CreateComment, NoneLateYet, TypeOK, word
  <1>3. CASE UNCHANGED <<allowing, muted, raced, late>>
    BY <1>3 DEF NoneLateYet
  <1>4. QED
    BY <1>1, <1>2, <1>3, MuteWriters

(* A write-back was under way before, or has just read the flag. *)
LEMMA RestoresBefore ==
  ASSUME TypeOK, [Next]_vars, NEW c \in Clips, NEW v \in Workers, Restores(v, c)'
  PROVE  \/ request'[v] = request[v] /\ Restores(v, c)
         \/ /\ c \notin allowing => request'[v].allow = FALSE
            /\ UNCHANGED <<allowing, muted, raced>>
  <1>1. Busy(v)' /\ request'[v].pc = "updateClip"
    BY DEF Restores, At
  <1>2. CASE request'[v] = request[v]
    BY <1>2 DEF Restores, At, Busy
  <1>3. ASSUME NEW w \in Workers, NEW d \in Clips, NEW sets \in BOOLEAN,
               NEW allow \in BOOLEAN, StartUpdateClip(w, d, sets, allow), v = w
        PROVE  /\ c \notin allowing => request'[v].allow = FALSE
               /\ UNCHANGED <<allowing, muted, raced>>
    <2>1. PICK b : b = IF sets THEN allow ELSE d \in allowing
      OBVIOUS
    <2>2. request'[v] = [op |-> "update", pc |-> "updateClip", clip |-> d, sets |-> sets,
                         allow |-> b]
      BY <1>3, <2>1 DEF StartUpdateClip, TypeOK
    <2>3. d = c /\ ~sets /\ request'[v].allow = b
      BY <2>2 DEF Restores
    <2>4. QED
      BY <1>3, <2>1, <2>3 DEF StartUpdateClip, db, history
  <1>4. ASSUME request'[v] # request[v]
        PROVE  \E d \in Clips, sets, allow \in BOOLEAN : StartUpdateClip(v, d, sets, allow)
    <2>1. ASSUME NEW w \in Workers, Finish(w) \/ request' = request PROVE FALSE
      BY <1>1, <1>4, <2>1 DEF Finish, TypeOK, Busy
    <2>2. ASSUME NEW w \in Workers, NEW pc, Goto(w, pc), pc # "updateClip" PROVE FALSE
      BY <1>1, <1>4, <2>2 DEF Goto, TypeOK
    <2>3. ASSUME NEW w \in Workers, NEW r, request' = [request EXCEPT ![w] = r]
          PROVE  r.pc = "updateClip"
      BY <1>1, <1>4, <2>3 DEF TypeOK
    <2>4. CASE Owner
      <3>1. ASSUME NEW w \in Workers, NEW d \in Clips, NEW sets \in BOOLEAN,
                   NEW allow \in BOOLEAN, StartUpdateClip(w, d, sets, allow)
            PROVE  w = v
        BY <1>4, <3>1 DEF StartUpdateClip, TypeOK
      <3>2. ASSUME NEW w \in Workers, NEW s \in Shares, NEW r \in NewRows,
                   StartCreateShare(w, s, r)
            PROVE  FALSE
        <4> DEFINE q == [op |-> "create", pc |-> "insertShare", share |-> s, row |-> r]
        <4>1. request' = [request EXCEPT ![w] = q]
          BY <3>2 DEF StartCreateShare
        <4>2. q.pc = "updateClip"
          BY <2>3, <4>1
        <4>3. QED
          BY <4>2
      <3>3. ASSUME NEW w \in Workers, InsertShare(w) \/ UpdateClip(w) PROVE FALSE
        BY <2>1, <3>3 DEF InsertShare, UpdateClip
      <3>4. ASSUME NEW s \in Shares, DeleteShare(s) \/ ExpireShare(s) PROVE FALSE
        BY <2>1, <3>4 DEF DeleteShare, ExpireShare
      <3>5. ASSUME NEW d \in Clips, DeleteClip(d) PROVE FALSE
        BY <2>1, <3>5 DEF DeleteClip
      <3>6. QED
        BY <2>4, <3>1, <3>2, <3>3, <3>4, <3>5 DEF Owner
    <2>5. ASSUME NEW w \in Workers, NEW s, CheckShare(w, s) PROVE FALSE
      <3> DEFINE q == [op |-> request[w].op, share |-> s, clip |-> share[s].clip,
                       pc |-> IF s \in expired \/ Exhausted(s)
                              THEN "deactivate" ELSE "readClip"]
      <3>1. request' = [request EXCEPT ![w] = q]
        BY <2>1, <2>5 DEF CheckShare
      <3>2. q.pc = "updateClip"
        BY <2>3, <3>1
      <3>3. QED
        BY <3>2
    <2>6. ASSUME NEW w \in Workers, Visit(w) \/ CountFails(w) PROVE FALSE
      <3>1. ASSUME NEW op, NEW n, NEW knows, StartVisit(w, op, n, knows) PROVE FALSE
        <4> DEFINE q == [op |-> op, pc |-> "byCode", name |-> n, knows |-> knows]
        <4>1. request' = [request EXCEPT ![w] = q]
          BY <3>1 DEF StartVisit
        <4>2. q.pc = "updateClip"
          BY <2>3, <4>1
        <4>3. QED
          BY <4>2
      <3>2. CASE GetByShareCode(w) \/ GetByCustomSlug(w)
        BY <2>1, <2>2, <2>5, <3>2 DEF GetByShareCode, GetByCustomSlug
      <3>3. CASE ReadClip(w) \/ CountClipView(w) \/ CountFails(w)
        BY <2>1, <2>2, <3>3 DEF ReadClip, CountClipView, CountFails
      <3>4. CASE Deactivate(w) \/ CountShareView(w) \/ CreateComment(w)
        BY <2>1, <3>4 DEF Deactivate, CountShareView, CreateComment
      <3>5. QED
        BY <2>6, <3>1, <3>2, <3>3, <3>4 DEF Visit
    <2>7. ASSUME NEW w \in Workers, RequestFails(w) PROVE FALSE
      BY <2>1, <2>7 DEF RequestFails
    <2>8. CASE Restart
      BY <1>1, <2>8 DEF Restart, Busy
    <2>9. CASE UNCHANGED vars
      BY <1>4, <2>9 DEF vars
    <2>10. QED
      BY <2>4, <2>6, <2>7, <2>8, <2>9 DEF Next, Failure
  <1>5. QED
    BY <1>2, <1>3, <1>4

(* The owner's last word against comments is undone by no write-back, but  *)
(* by one that was under way with another flag.                            *)
LEMMA NextMutedHolds ==
  ASSUME TypeOK, MutedHolds, [Next]_vars
  PROVE  MutedHolds'
  <1> SUFFICES ASSUME NEW c \in Clips, c \in muted', c \notin raced'
               PROVE  /\ c \notin allowing'
                      /\ \A v \in Workers : Restores(v, c)' => request'[v].allow = FALSE
    <2>1. muted' \subseteq Clips
      BY NextTypeOK DEF TypeOK
    <2>2. QED
      BY <2>1 DEF MutedHolds
  <1>1. ASSUME c \in muted, c \notin raced, NEW v \in Workers, Restores(v, c)'
        PROVE  request'[v].allow = FALSE
    <2>1. c \notin allowing /\ (Restores(v, c) => request[v].allow = FALSE)
      BY <1>1 DEF MutedHolds
    <2>2. QED
      BY <1>1, <2>1, RestoresBefore
  <1>2. ASSUME NEW w \in Workers, UpdateClip(w), request[w].sets, request[w].clip = c,
               request[w].allow = FALSE, c \notin allowing', ~Contradicted(c, FALSE),
               NEW v \in Workers, Restores(v, c)'
        PROVE  request'[v].allow = FALSE
    <2>1. request' = [request EXCEPT ![w] = Idle]
      BY <1>2 DEF UpdateClip, Finish
    <2>2. v # w /\ request'[v] = request[v] /\ Restores(v, c)
      BY <1>2, <2>1 DEF TypeOK, Restores, At, Busy
    <2>3. QED
      BY <1>2, <2>2 DEF Contradicted, Restores
  <1>3. ASSUME NEW w \in Workers, UpdateClip(w)
        PROVE  /\ c \notin allowing'
               /\ \A v \in Workers : Restores(v, c)' => request'[v].allow = FALSE
    <2>1. CASE /\ request[w].clip = c /\ request[w].sets
               /\ request[w].allow = FALSE /\ c \notin allowing'
               /\ ~Contradicted(c, request[w].allow)
      BY <1>2, <1>3, <2>1
    <2>2. CASE /\ c \in muted /\ c \notin raced
               /\ \/ c \in allowing' <=> c \in allowing
                  \/ Restores(w, c) /\ (c \in allowing' => request[w].allow # FALSE)
      <3>1. c \notin allowing'
        BY <2>2 DEF MutedHolds
      <3>2. QED
        BY <1>1, <2>2, <3>1
    <2>3. QED
      BY <1>3, <2>1, <2>2, Updates
  <1>4. CASE UNCHANGED <<allowing, muted, raced>>
    BY <1>1, <1>4 DEF MutedHolds
  <1>5. ASSUME NEW w \in Workers, CreateComment(w)
        PROVE  UNCHANGED <<allowing, muted, raced>>
    BY <1>5 DEF CreateComment, word
  <1>6. QED
    BY <1>3, <1>4, <1>5, MuteWriters

(* Whoever is inserting a comment was before, or has just seen the flag. *)
LEMMA InsertingBefore ==
  ASSUME TypeOK, [Next]_vars, NEW c \in Clips, NEW v \in Inserting(c)'
  PROVE  /\ v \in Workers /\ request'[v] # Idle
         /\ \/ v \in Inserting(c)
            \/ c \in allowing /\ UNCHANGED <<db, outside, history>>
  <1>1. /\ v \in Workers /\ Busy(v)' /\ OnShare(v)' /\ request'[v] # Idle
        /\ request'[v].pc = "insertComment" /\ request'[v].clip = c
    BY DEF Inserting, At, OnShare, Found, Busy
  <1>2. Moves(v)
    BY <1>1, RequestsMove
  <1>3. CASE request'[v] = request[v]
    BY <1>1, <1>3 DEF Inserting, At, Busy
  <1>4. CASE Creates(v)
    BY <1>1, <1>4 DEF Creates, TypeOK
  <1>5. ASSUME NEW x \in Shares, Enters(v, x) PROVE FALSE
    BY <1>1, <1>5 DEF Enters
  <1>6. CASE Advances(v)
    BY <1>1, <1>6 DEF Advances, Access
  <1>7. QED
    BY <1>1, <1>2, <1>3, <1>4, <1>5, <1>6 DEF Moves

(* Late comments and the requests still inserting are together no more     *)
(* than there are workers: while the owner allows comments none is late,   *)
(* and afterwards no request joins those inserting.                        *)
LEMMA NextMutedGoesQuiet ==
  ASSUME TypeOK, TypeOK', NoneLateYet, MutedHolds, MutedGoesQuiet, [Next]_vars
  PROVE  MutedGoesQuiet'
  <1> SUFFICES ASSUME NEW c \in Clips, c \notin raced'
               PROVE  late'[c] + Cardinality(Inserting(c)') <= Cardinality(Workers)
    BY DEF MutedGoesQuiet
  <1> DEFINE A == Inserting(c)
             B == Inserting(c)'
  <1>0. A \in SUBSET Workers /\ B \in SUBSET Workers
    BY DEF Inserting
  <1>1. /\ Cardinality(A) \in Nat /\ Cardinality(B) \in Nat
        /\ Cardinality(Workers) \in Nat
        /\ Cardinality(B) <= Cardinality(Workers)
    BY <1>0, WorkersBound
  <1>2. /\ late[c] \in Nat /\ late'[c] \in Nat
        /\ c \notin raced => late[c] + Cardinality(A) <= Cardinality(Workers)
    BY DEF TypeOK, MutedGoesQuiet
  <1> HIDE DEF A, B
  <1>3. CASE late'[c] = 0
    BY <1>1, <1>3 DEF B
  <1>4. CASE \E v \in B : v \notin A
    <2>1. c \in allowing /\ late' = late /\ c \notin raced
      BY <1>4, InsertingBefore DEF A, B, history
    <2>2. late'[c] = 0
      BY <2>1 DEF NoneLateYet, MutedHolds
    <2>3. QED
      BY <1>3, <2>2
  <1>5. CASE B \subseteq A /\ late'[c] = late[c] /\ c \notin raced
    <2>1. Cardinality(B) <= Cardinality(A)
      BY <1>0, <1>5, WorkersBound
    <2>2. QED
      BY <1>1, <1>2, <1>5, <2>1 DEF B
  <1>6. ASSUME NEW w \in Workers, CreateComment(w), request[w].clip = c,
               B \subseteq A, late'[c] = late[c] + 1, c \notin raced
        PROVE  late'[c] + Cardinality(Inserting(c)') <= Cardinality(Workers)
    <2>1. w \in A /\ request'[w] = Idle
      BY <1>6 DEF CreateComment, Finish, A, Inserting, TypeOK
    <2>2. w \notin B
      BY <2>1, InsertingBefore DEF B
    <2>3. Cardinality(B) <= Cardinality(A) - 1
      BY <1>0, <1>6, <2>1, <2>2, WorkersBound
    <2>4. QED
      BY <1>1, <1>2, <1>6, <2>3 DEF B
  <1>7. \/ late'[c] = 0
        \/ late'[c] = late[c] /\ c \notin raced
        \/ \E w \in Workers : /\ CreateComment(w) /\ request[w].clip = c
                             /\ late'[c] = late[c] + 1 /\ c \notin raced
    <2>1. ASSUME NEW w \in Workers, UpdateClip(w)
          PROVE  late'[c] = 0 \/ (late'[c] = late[c] /\ c \notin raced)
      BY <2>1, Updates
    <2>2. ASSUME NEW w \in Workers, CreateComment(w)
          PROVE  /\ c \notin raced
                 /\ \/ late'[c] = 0 \/ late'[c] = late[c]
                    \/ request[w].clip = c /\ late'[c] = late[c] + 1
      BY <2>2 DEF CreateComment, TypeOK, word
    <2>3. QED
      BY <2>1, <2>2, MuteWriters
  <1>8. QED
    BY <1>3, <1>4, <1>5, <1>6, <1>7

-----------------------------------------------------------------------------
(* The links the rows and the requests make up.                            *)

SameLink(t) ==
  /\ Stage(t)' = Stage(t)
  /\ LimitOf(t)' = LimitOf(t)
  /\ ViewsOf(t)' = ViewsOf(t)

(* Initially no code has been generated. *)
LEMMA InitLinks == Init => Link!Init
  BY DEF Init, Link!Init, Stage, LimitOf, ViewsOf

(* A link stays as it is with its row and its request. *)
LEMMA Unmoved ==
  ASSUME NEW t \in Shares, share'[t] = share[t], t \in made' <=> t \in made,
         Pending(t)' <=> Pending(t)
  PROVE  SameLink(t)
  BY DEF SameLink, Stage, LimitOf, ViewsOf

(* The links stay as they are if each of them does. *)
LEMMA LinksStutter ==
  ASSUME \A t \in Shares : SameLink(t), expired' = expired
  PROVE  UNCHANGED Link!links
  BY DEF SameLink, Link!links

(* Dropping no link is no step. *)
LEMMA Dropping ==
  ASSUME NEW S \in SUBSET Shares, Link!Drop(S)
  PROVE  [Link!Next]_(Link!links)
  <1>1. CASE S = {}
    BY <1>1 DEF Link!Drop, Link!links
  <1>2. CASE S # {}
    <2>1. S \in (SUBSET Shares) \ {{}}
      BY <1>2
    <2>2. \E T \in (SUBSET Shares) \ {{}} : Link!Drop(T)
      BY <2>1
    <2>3. QED
      BY <2>2 DEF Link!Next
  <1>3. QED
    BY <1>1, <1>2

(* A worker that creates no share leaves the codes to be inserted alone. *)
LEMMA PendingKept ==
  ASSUME NEW w \in Workers, ~At(w, "insertShare"), ~At(w, "insertShare")',
         \A v \in Workers \ {w} : request'[v] = request[v], NEW t
  PROVE  Pending(t)' <=> Pending(t)
  BY DEF Pending, At, Busy

(* No visit creates a share. *)
LEMMA VisitsCreateNone ==
  ASSUME TypeOK, [Next]_vars, NEW w \in Workers, Visit(w) \/ CountFails(w), NEW t
  PROVE  made' = made /\ (Pending(t)' <=> Pending(t))
  <1>1. made' = made
    BY DEF Visit, StartVisit, GetByShareCode, GetByCustomSlug, Deactivate, ReadClip,
           CountClipView, CountShareView, CreateComment, CountFails, history
  <1>2. ~At(w, "insertShare")
    BY DEF Visit, StartVisit, GetByShareCode, GetByCustomSlug, Deactivate, ReadClip,
           CountClipView, CountShareView, CreateComment, CountFails, At
  <1>3. \A v \in Workers \ {w} : request'[v] = request[v]
    BY DEF Visit, StartVisit, GetByShareCode, GetByCustomSlug, CheckShare, Deactivate,
           ReadClip, CountClipView, CountShareView, CreateComment, CountFails, Goto,
           Finish, TypeOK
  <1>4. ASSUME At(w, "insertShare")' PROVE FALSE
    <2>1. Moves(w) /\ OnShare(w)'
      BY <1>4, RequestsMove DEF At, OnShare
    <2>2. request'[w] # request[w]
      BY <1>2, <1>4 DEF At, Busy
    <2>3. ~Creates(w)
      BY <1>1 DEF Creates
    <2>4. ASSUME NEW s \in Shares PROVE ~Enters(w, s)
      BY <1>4 DEF Enters, At
    <2>5. ~Advances(w)
      BY <1>4 DEF Advances, At
    <2>6. QED
      BY <2>1, <2>2, <2>3, <2>4, <2>5 DEF Moves
  <1>5. QED
    BY <1>1, <1>2, <1>3, <1>4, PendingKept

(* What a request about to insert a share knows, and that it is the only   *)
(* one with its code.                                                      *)
LEMMA AtInsert ==
  ASSUME TypeOK, CodesFresh, NEW w \in Workers, At(w, "insertShare")
  PROVE  /\ request[w].share \in Shares \cap made
         /\ request[w].share \notin Listed
         /\ Pending(request[w].share)
         /\ request[w].row \in Rows /\ request[w].row.active = TRUE
         /\ request[w].row.views = 0
         /\ \A v \in Workers \ {w} :
              At(v, "insertShare") => request[v].share # request[w].share
  <1>1. request[w] \in Creation
    BY Shapes DEF At
  <1>2. OnShare(w) /\ \A v \in Workers : At(v, "insertShare") => OnShare(v)
    BY DEF At, OnShare
  <1>3. QED
    BY <1>1, <1>2 DEF Creation, CodesFresh, Pending

(* A code is not about to be inserted once its worker is done. *)
LEMMA PendingEnds ==
  ASSUME TypeOK, CodesFresh, NEW w \in Workers, At(w, "insertShare"), Finish(w)
  PROVE  \A t : Pending(t)' <=> Pending(t) /\ t # request[w].share
  <1>1. ~At(w, "insertShare")' /\ \A v \in Workers \ {w} : request'[v] = request[v]
    BY DEF Finish, At, Busy, TypeOK
  <1>2. \A v \in Workers \ {w} : At(v, "insertShare")' <=> At(v, "insertShare")
    BY <1>1 DEF At, Busy
  <1>3. \A v \in Workers \ {w} :
          At(v, "insertShare") => request[v].share # request[w].share
    BY AtInsert
  <1>4. ASSUME NEW t, Pending(t)' PROVE Pending(t) /\ t # request[w].share
    <2>1. PICK v \in Workers : At(v, "insertShare")' /\ request'[v].share = t
      BY <1>4 DEF Pending
    <2>2. v # w /\ At(v, "insertShare") /\ request[v].share = t
      BY <1>1, <1>2, <2>1
    <2>3. QED
      BY <1>3, <2>2 DEF Pending
  <1>5. ASSUME NEW t, Pending(t), t # request[w].share PROVE Pending(t)'
    <2>1. PICK v \in Workers : At(v, "insertShare") /\ request[v].share = t
      BY <1>5 DEF Pending
    <2>2. v # w /\ At(v, "insertShare")' /\ request'[v].share = t
      BY <1>1, <1>2, <1>5, <2>1
    <2>3. QED
      BY <2>2 DEF Pending
  <1>6. QED
    BY <1>4, <1>5

(* Each statement is one step of the links, or none: the INSERT publishes  *)
(* a link or its code comes to nothing, the count of a visit that was      *)
(* admitted is a view, the UPDATE of a visit that was refused closes a     *)
(* link, and a DELETE drops the links of its rows.                         *)
LEMMA StepLinks ==
  ASSUME Inv, [Next]_vars
  PROVE  [Link!Next]_(Link!links)
  <1>0. /\ TypeOK /\ CodesFresh /\ CauseKnown /\ PagesCounted /\ ViewsBounded
        /\ \A s \in Shares : s \in Listed <=> share[s] # NoRow
        /\ \A s \in Listed : share[s] \in Rows /\ s \in Shares /\ s \in made
        /\ \A s \in Listed : ~Pending(s)
    BY AtInsert DEF Inv, Listed, TypeOK, CodesFresh, Pending
  <1>1. ASSUME NEW S \in SUBSET Shares, expired' = expired,
               \A t \in Shares \ S : SameLink(t),
               \A t \in S : /\ Stage(t)' = "gone"
                            /\ LimitOf(t)' = NoLimit
                            /\ ViewsOf(t)' = 0
        PROVE  Link!Drop(S)
    BY <1>1 DEF Link!Drop, SameLink
  <1>2. ASSUME NEW w \in Workers, InsertShare(w), NEW s, s = request[w].share
        PROVE  \/ s \in Shares /\ \E m \in MaxViews \cup {NoLimit} : Link!Publish(s, m)
               \/ s \in Shares /\ Link!Drop({s})
    <2> DEFINE r == request[w].row
    <2>1. At(w, "insertShare") /\ Finish(w) /\ made' = made /\ expired' = expired
      BY <1>2 DEF InsertShare, history
    <2>2. /\ s \in Shares \cap made /\ share[s] = NoRow /\ Pending(s)
          /\ r \in Rows /\ r.active = TRUE /\ r.views = 0
      BY <1>0, <1>2, <2>1, AtInsert
    <2>3. \A t : Pending(t)' <=> Pending(t) /\ t # s
      BY <1>0, <1>2, <2>1, PendingEnds
    <2>4. \A t \in Shares \ {s} : share'[t] = share[t]
      BY <1>0, <1>2 DEF InsertShare, TypeOK
    <2>5. \A t \in Shares \ {s} : SameLink(t)
      BY <2>1, <2>3, <2>4, Unmoved
    <2>6. /\ Stage(s) = "new" /\ LimitOf(s) = NoLimit /\ ViewsOf(s) = 0
      BY <2>2 DEF Stage, LimitOf, ViewsOf
    <2>7. CASE share'[s] = r
      <3>1. r # NoRow /\ r.max \in MaxViews \cup {NoLimit}
        BY <2>2, NoRowAssumption DEF Rows
      <3>2. /\ Stage(s)' = "open" /\ LimitOf(s)' = r.max /\ ViewsOf(s)' = 0
        BY <2>2, <2>7, <3>1 DEF Stage, LimitOf, ViewsOf
      <3>3. Link!Publish(s, r.max)
        BY <2>1, <2>2, <2>5, <2>6, <3>2 DEF Link!Publish, SameLink
      <3>4. QED
        BY <2>2, <3>1, <3>3
    <2>8. CASE share'[s] = share[s]
      <3>1. Stage(s)' = "gone" /\ LimitOf(s)' = NoLimit /\ ViewsOf(s)' = 0
        BY <2>1, <2>2, <2>3, <2>8 DEF Stage, LimitOf, ViewsOf
      <3>2. QED
        BY <1>1, <2>1, <2>2, <2>5, <3>1
    <2>9. QED
      BY <1>0, <1>2, <2>2, <2>7, <2>8 DEF InsertShare, TypeOK
  <1>3. ASSUME NEW w \in Workers, Deactivate(w), NEW s, s = request[w].share
        PROVE  (s \in Shares /\ Link!Close(s)) \/ UNCHANGED Link!links
    <2>1. /\ expired' = expired /\ At(w, "deactivate")
          /\ share' = IF s \in Listed THEN [share EXCEPT ![s].active = FALSE] ELSE share
      BY <1>3 DEF Deactivate
    <2>2. \A t : made' = made /\ (Pending(t)' <=> Pending(t))
      BY <1>0, <1>3, VisitsCreateNone DEF Visit
    <2>3. CASE s \in Listed /\ share[s].active
      <3>1. \A t \in Shares \ {s} : SameLink(t)
        BY <1>0, <2>1, <2>2, Unmoved DEF TypeOK
      <3>2. share'[s] = [share[s] EXCEPT !.active = FALSE] /\ s \in Shares
        BY <1>0, <2>1, <2>3 DEF TypeOK
      <3>3. /\ share'[s].max = share[s].max /\ share'[s].views = share[s].views
            /\ share'[s] \in Rows
        <4>1. share[s] \in Rows /\ FALSE \in BOOLEAN
          BY <1>0, <2>3
        <4>2. share'[s].max = share[s].max /\ share'[s].views = share[s].views
          BY <3>2, <4>1 DEF Rows
        <4>3. share'[s] \in Rows
          BY <3>2, <4>1 DEF Rows
        <4>4. QED
          BY <4>2, <4>3
      <3>4. share'[s].active = FALSE
        BY <1>0, <2>3, <3>2, Zenon DEF Rows
      <3>5. share[s] # NoRow /\ share'[s] # NoRow
        BY <1>0, <2>3, <3>3, NoRowAssumption
      <3>6. /\ Stage(s) = "open" /\ Stage(s)' = "closed"
            /\ LimitOf(s)' = LimitOf(s) /\ ViewsOf(s)' = ViewsOf(s)
        BY <2>3, <3>3, <3>4, <3>5 DEF Stage, LimitOf, ViewsOf
      <3>7. s \in expired \/ (LimitOf(s) # NoLimit /\ ViewsOf(s) >= LimitOf(s))
        BY <1>0, <1>3, <2>1, <2>3, <3>5
        DEF CauseKnown, Exhausted, LimitOf, ViewsOf
      <3>8. QED
        BY <2>1, <3>1, <3>2, <3>6, <3>7 DEF Link!Close, Link!UsedUp, SameLink
    <2>4. CASE s \in Listed /\ ~share[s].active
      <3>1. share[s].active = FALSE /\ share[s] \in Rows
        BY <1>0, <2>4 DEF Rows
      <3>2. share' = share
        BY <1>0, <2>1, <2>4, <3>1 DEF Rows, TypeOK
      <3>3. QED
        BY <2>1, <2>2, <3>2, Unmoved, LinksStutter
    <2>5. CASE s \notin Listed
      BY <2>1, <2>2, <2>5, Unmoved, LinksStutter
    <2>6. QED
      BY <2>3, <2>4, <2>5
  <1>4. ASSUME NEW w \in Workers, CountShareView(w), NEW s, s = request[w].share
        PROVE  (s \in Shares /\ Link!View(s)) \/ UNCHANGED Link!links
    <2>1. /\ expired' = expired /\ At(w, "countShare")
          /\ share' = IF s \in Listed THEN [share EXCEPT ![s].views = @ + 1] ELSE share
      BY <1>4 DEF CountShareView
    <2>2. \A t : made' = made /\ (Pending(t)' <=> Pending(t))
      BY <1>0, <1>4, VisitsCreateNone DEF Visit
    <2>3. CASE s \in Listed
      <3>1. \A t \in Shares \ {s} : SameLink(t)
        BY <1>0, <2>1, <2>2, Unmoved DEF TypeOK
      <3>2. share'[s] = [share[s] EXCEPT !.views = @ + 1] /\ s \in Shares
        BY <1>0, <2>1, <2>3 DEF TypeOK
      <3>3. /\ share'[s].max = share[s].max /\ share'[s].views = share[s].views + 1
            /\ share'[s] \in Rows /\ share[s].views \in Nat
            /\ share[s].max \in MaxViews \cup {NoLimit}
        BY <1>0, <2>3, <3>2 DEF Rows
      <3>4. share'[s].active = share[s].active
        BY <1>0, <2>3, <3>2, Zenon DEF Rows
      <3>5. share[s] # NoRow /\ share'[s] # NoRow
        BY <1>0, <2>3, <3>3, NoRowAssumption
      <3>6. /\ Stage(s) \in {"open", "closed"} /\ Stage(s)' = Stage(s)
            /\ LimitOf(s)' = LimitOf(s) /\ ViewsOf(s)' = ViewsOf(s) + 1
        BY <3>3, <3>4, <3>5 DEF Stage, LimitOf, ViewsOf
      <3>7. ASSUME share[s].max # NoLimit
            PROVE  share[s].views < share[s].max + (Cardinality(Workers) - 1)
        <4>1. w \in Admitted(s) /\ Admitted(s) \in SUBSET Workers
          BY <1>0, <1>4, <2>1 DEF Admitted, PagesCounted
        <4>2. /\ Cardinality(Admitted(s)) \in Nat /\ Cardinality(Workers) \in Nat
              /\ Cardinality({}) <= Cardinality(Admitted(s)) - 1
          BY <4>1, WorkersBound
        <4>3. Cardinality({}) = 0
          BY FS_EmptySet
        <4>4. share[s].views + Cardinality(Admitted(s))
                <= share[s].max + Cardinality(Workers) - 1
          BY <1>0, <2>3, <3>7 DEF ViewsBounded
        <4>5. share[s].max \in Nat
          BY <3>3, <3>7, MaxViewsAssumption
        <4>6. QED
          BY <3>3, <4>2, <4>3, <4>4, <4>5
      <3>8. LimitOf(s) # NoLimit =>
              ViewsOf(s) < LimitOf(s) + (Cardinality(Workers) - 1)
        BY <3>5, <3>7 DEF LimitOf, ViewsOf
      <3>9. QED
        BY <2>1, <3>1, <3>2, <3>6, <3>8 DEF Link!View, Link!Live, SameLink
    <2>4. CASE s \notin Listed
      BY <2>1, <2>2, <2>4, Unmoved, LinksStutter
    <2>5. QED
      BY <2>3, <2>4
  <1>5. ASSUME NEW S \in SUBSET Listed, request' = request, made' = made,
               expired' = expired,
               share' = [s \in Shares |-> IF s \in S THEN NoRow ELSE share[s]]
        PROVE  Link!Drop(S)
    <2>1. S \subseteq Shares /\ \A t : Pending(t)' <=> Pending(t)
      BY <1>5 DEF Pending, At, Busy, Listed
    <2>2. \A t \in Shares \ S : SameLink(t)
      BY <1>5, <2>1, Unmoved
    <2>3. \A t \in S : share'[t] = NoRow /\ t \in made' /\ ~Pending(t)'
      BY <1>0, <1>5, <2>1
    <2>4. \A t \in S : Stage(t)' = "gone" /\ LimitOf(t)' = NoLimit /\ ViewsOf(t)' = 0
      BY <2>3 DEF Stage, LimitOf, ViewsOf
    <2>5. QED
      BY <1>1, <1>5, <2>1, <2>2, <2>4
  <1>6. ASSUME NEW s \in Shares, DeleteShare(s) PROVE Link!Drop({s})
    <2>1. share' = [t \in Shares |-> IF t \in {s} THEN NoRow ELSE share[t]]
      BY <1>0, <1>6 DEF DeleteShare, TypeOK
    <2>2. QED
      BY <1>5, <1>6, <2>1 DEF DeleteShare, history
  <1>7. ASSUME NEW c \in Clips, DeleteClip(c) PROVE Link!Drop(LinksOf(c))
    <2>1. LinksOf(c) \in SUBSET Listed
      BY DEF LinksOf
    <2>2. QED
      BY <1>5, <1>7, <2>1 DEF DeleteClip, history
  <1>8. ASSUME NEW s \in Shares, ExpireShare(s) PROVE Link!Expire(s)
    <2>1. \A t : Pending(t)' <=> Pending(t)
      BY <1>8 DEF ExpireShare, Pending, At, Busy
    <2>2. \A t \in Shares : SameLink(t)
      BY <1>8, <2>1, Unmoved DEF ExpireShare, history
    <2>3. Stage(s) \in {"open", "closed"}
      BY <1>0, <1>8 DEF ExpireShare, Stage
    <2>4. QED
      BY <1>8, <2>2, <2>3 DEF ExpireShare, Link!Expire, Link!Live, SameLink
  <1>9. ASSUME NEW w \in Workers, NEW s \in Shares, NEW r \in NewRows,
               StartCreateShare(w, s, r)
        PROVE  UNCHANGED Link!links
    <2>1. /\ share' = share /\ expired' = expired /\ made' = made \cup {s} /\ s \notin made
          /\ ~Busy(w) /\ request' = [request EXCEPT ![w] =
               [op |-> "create", pc |-> "insertShare", share |-> s, row |-> r]]
      BY <1>9 DEF StartCreateShare, db
    <2>2. /\ At(w, "insertShare")' /\ request'[w].share = s
          /\ \A v \in Workers \ {w} : request'[v] = request[v]
      BY <1>0, <2>1 DEF TypeOK, At, Busy, Idle
    <2>3. Pending(s)' /\ \A t \in Shares \ {s} : Pending(t)' <=> Pending(t)
      BY <2>1, <2>2 DEF Pending, At, Busy
    <2>4. Stage(s) = "new" /\ Stage(s)' = "new"
      BY <1>0, <2>1, <2>3 DEF Stage
    <2>5. SameLink(s)
      BY <2>1, <2>4 DEF SameLink, LimitOf, ViewsOf
    <2>6. \A t \in Shares \ {s} : SameLink(t)
      BY <2>1, <2>3, Unmoved
    <2>7. QED
      BY <2>1, <2>5, <2>6, LinksStutter
  <1>10. ASSUME NEW w \in Workers, RequestFails(w), NEW s, s = request[w].share
         PROVE  (s \in Shares /\ Link!Drop({s})) \/ UNCHANGED Link!links
    <2>1. share' = share /\ expired' = expired /\ made' = made /\ Finish(w)
      BY <1>10 DEF RequestFails, db, history
    <2>2. CASE At(w, "insertShare")
      <3>1. s \in Shares \cap made /\ share[s] = NoRow
        BY <1>0, <1>10, <2>2, AtInsert
      <3>2. \A t : Pending(t)' <=> Pending(t) /\ t # s
        BY <1>0, <1>10, <2>1, <2>2, PendingEnds
      <3>3. \A t \in Shares \ {s} : SameLink(t)
        BY <2>1, <3>2, Unmoved
      <3>4. Stage(s)' = "gone" /\ LimitOf(s)' = NoLimit /\ ViewsOf(s)' = 0
        BY <2>1, <3>1, <3>2 DEF Stage, LimitOf, ViewsOf
      <3>5. QED
        BY <1>1, <2>1, <3>1, <3>3, <3>4
    <2>3. CASE ~At(w, "insertShare")
      <3>1. ~At(w, "insertShare")' /\ \A v \in Workers \ {w} : request'[v] = request[v]
        BY <1>0, <2>1 DEF Finish, At, Busy, TypeOK
      <3>2. \A t : Pending(t)' <=> Pending(t)
        BY <2>3, <3>1, PendingKept
      <3>3. QED
        BY <2>1, <3>2, Unmoved, LinksStutter
    <2>4. QED
      BY <2>2, <2>3
  <1>11. CASE Restart
    <2> DEFINE S == {s \in Shares : Pending(s)}
    <2>1. /\ share' = share /\ expired' = expired /\ made' = made
          /\ \A t : ~Pending(t)'
      BY <1>11 DEF Restart, db, history, Pending, At, Busy
    <2>2. \A t \in Shares \ S : SameLink(t)
      BY <2>1, Unmoved
    <2>3. ASSUME NEW t \in S PROVE share'[t] = NoRow /\ t \in made'
      <3>1. PICK w \in Workers : At(w, "insertShare") /\ request[w].share = t
        BY <2>3 DEF Pending
      <3>2. QED
        BY <1>0, <2>1, <3>1, AtInsert
    <2>4. \A t \in S : Stage(t)' = "gone" /\ LimitOf(t)' = NoLimit /\ ViewsOf(t)' = 0
      BY <2>1, <2>3 DEF Stage, LimitOf, ViewsOf
    <2>5. S \in SUBSET Shares
      OBVIOUS
    <2> HIDE DEF S
    <2>6. Link!Drop(S)
      BY <1>1, <2>1, <2>2, <2>4, <2>5
    <2>7. QED
      BY <2>5, <2>6, Dropping
  <1>12. ASSUME NEW w \in Workers,
                Visit(w) \/ CountFails(w), share' = share, expired' = expired
         PROVE  UNCHANGED Link!links
    <2>1. \A t : made' = made /\ (Pending(t)' <=> Pending(t))
      BY <1>0, <1>12, VisitsCreateNone
    <2>2. QED
      BY <1>12, <2>1, Unmoved, LinksStutter
  <1>13. CASE UNCHANGED vars
    <2>1. share' = share /\ expired' = expired /\ made' = made /\ request' = request
      BY <1>13 DEF vars, db, history
    <2>2. \A t : Pending(t)' <=> Pending(t)
      BY <2>1 DEF Pending, At, Busy
    <2>3. QED
      BY <2>1, <2>2, Unmoved, LinksStutter
  <1>14. ASSUME NEW w \in Workers,
                \/ \E c \in Clips, sets, allow \in BOOLEAN :
                     StartUpdateClip(w, c, sets, allow)
                \/ UpdateClip(w)
         PROVE  UNCHANGED Link!links
    <2>1. share' = share /\ expired' = expired /\ made' = made
      BY <1>14 DEF StartUpdateClip, UpdateClip, db, history
    <2>2. ~At(w, "insertShare") /\ ~At(w, "insertShare")'
      BY <1>0, <1>14 DEF StartUpdateClip, UpdateClip, Finish, At, Busy, TypeOK
    <2>3. \A v \in Workers \ {w} : request'[v] = request[v]
      BY <1>0, <1>14 DEF StartUpdateClip, UpdateClip, Finish, TypeOK
    <2>4. \A t : Pending(t)' <=> Pending(t)
      BY <2>2, <2>3, PendingKept
    <2>5. QED
      BY <2>1, <2>4, Unmoved, LinksStutter
  <1>15. ASSUME NEW w \in Workers, Visit(w) PROVE [Link!Next]_(Link!links)
    <2>1. Deactivate(w) \/ CountShareView(w) \/ (share' = share /\ expired' = expired)
      BY <1>15 DEF Visit, StartVisit, GetByShareCode, GetByCustomSlug, ReadClip,
                   CountClipView, CreateComment, db
    <2>2. QED
      BY <1>3, <1>4, <1>12, <1>15, <2>1 DEF Link!Next
  <1>16. CASE Owner
    <2>1. ASSUME NEW w \in Workers, InsertShare(w) PROVE [Link!Next]_(Link!links)
      BY <1>2, <2>1, Dropping DEF Link!Next
    <2>2. ASSUME NEW c \in Clips, DeleteClip(c) PROVE [Link!Next]_(Link!links)
      <3>1. LinksOf(c) \in SUBSET Shares
        BY DEF LinksOf, Listed
      <3>2. QED
        BY <1>7, <2>2, <3>1, Dropping
    <2>3. ASSUME NEW s \in Shares, DeleteShare(s) \/ ExpireShare(s)
          PROVE  [Link!Next]_(Link!links)
      BY <1>6, <1>8, <2>3, Dropping DEF Link!Next
    <2>4. QED
      BY <1>9, <1>14, <1>16, <2>1, <2>2, <2>3 DEF Owner
  <1>17. CASE Failure
    <2>1. ASSUME NEW w \in Workers, RequestFails(w) PROVE [Link!Next]_(Link!links)
      BY <1>10, <2>1, Dropping
    <2>2. ASSUME NEW w \in Workers, CountFails(w) PROVE UNCHANGED Link!links
      BY <1>12, <2>2 DEF CountFails, db
    <2>3. QED
      BY <1>11, <1>17, <2>1, <2>2 DEF Failure
  <1>18. QED
    BY <1>13, <1>15, <1>16, <1>17 DEF Next

-----------------------------------------------------------------------------
(* The invariant, and what follows from it.                                *)

(* Before the first request there is nothing to be wrong. *)
LEMMA InitInv == Init => Inv
  <1> SUFFICES ASSUME Init PROVE Inv
    OBVIOUS
  <1>1. TypeOK
    BY BoundsAssumption DEF Init, TypeOK
  <1>2. Listed = {} /\ \A w \in Workers : ~Busy(w)
    BY DEF Init, Listed, Busy
  <1>3. CodesFresh /\ CauseKnown /\ PagesCounted /\ NoneLateYet /\ MutedHolds
    BY <1>2 DEF Init, CodesFresh, CauseKnown, PagesCounted, NoneLateYet, MutedHolds,
                OnShare, At
  <1>4. DeactivatedForCause /\ ViewsBounded /\ NoDangling
    BY <1>2 DEF Init, DeactivatedForCause, ViewsBounded, NoDangling
  <1>5. MutedGoesQuiet
    <2> SUFFICES ASSUME NEW c \in Clips
                 PROVE  late[c] + Cardinality(Inserting(c)) <= Cardinality(Workers)
      BY DEF MutedGoesQuiet
    <2>1. Inserting(c) = {}
      BY <1>2 DEF Inserting, At
    <2>2. late[c] = 0 /\ Cardinality(Inserting(c)) = 0
      BY <2>1, FS_EmptySet DEF Init
    <2>3. Cardinality(Workers) \in Nat
      BY FS_CardinalityType, FiniteWorkers
    <2>4. QED
      BY <2>2, <2>3
  <1>6. QED
    BY <1>1, <1>3, <1>4, <1>5 DEF Inv

(* Every step preserves it. *)
LEMMA NextInv == Inv /\ [Next]_vars => Inv'
  <1> SUFFICES ASSUME Inv, [Next]_vars PROVE Inv'
    OBVIOUS
  <1>1. /\ TypeOK /\ CodesFresh /\ CauseKnown /\ PagesCounted /\ NoneLateYet /\ MutedHolds
        /\ DeactivatedForCause /\ ViewsBounded /\ NoDangling /\ MutedGoesQuiet
    BY DEF Inv
  <1>2. TypeOK'
    BY <1>1, NextTypeOK
  <1>3. CodesFresh' /\ PagesCounted' /\ NoneLateYet' /\ MutedHolds' /\ NoDangling'
    BY <1>1, <1>2, NextCodesFresh, NextPagesCounted, NextNoneLateYet, NextMutedHolds,
       NextNoDangling
  <1>4. CauseKnown' /\ DeactivatedForCause' /\ ViewsBounded' /\ MutedGoesQuiet'
    BY <1>1, <1>2, <1>3, NextCauses, NextViewsBounded, NextMutedGoesQuiet
  <1>5. QED
    BY <1>2, <1>3, <1>4 DEF Inv

(* The invariant holds throughout. *)
LEMMA Invariance == Spec => []Inv
  BY InitInv, NextInv, PTL DEF Spec

(* The rows of clips, shares and comments and the requests keep their types. *)
THEOREM TypeCorrect == Spec => []TypeOK
  <1>1. Inv => TypeOK
    BY DEF Inv
  <1>2. QED
    BY <1>1, Invariance, PTL

(* The check of max_views and the count are apart, but no share is viewed   *)
(* more often than max_views and the other concurrent requests.            *)
THEOREM ViewLimitHolds == Spec => []ViewsBounded
  <1>1. Inv => ViewsBounded
    BY DEF Inv
  <1>2. QED
    BY <1>1, Invariance, PTL

(* Deactivate never hits a share that has neither expired nor been used up. *)
THEOREM NoneDeactivatedInError == Spec => []DeactivatedForCause
  <1>1. Inv => DeactivatedForCause
    BY DEF Inv
  <1>2. QED
    BY <1>1, Invariance, PTL

(* Deleting a clip leaves no share and no comment, however the statements  *)
(* of other requests fall.                                                 *)
THEOREM NothingLeftBehind == Spec => []NoDangling
  <1>1. Inv => NoDangling
    BY DEF Inv
  <1>2. QED
    BY <1>1, Invariance, PTL

(* A clip whose owner's last word was to allow no comments gets no more of *)
(* them than there are requests, whatever else writes its row back after   *)
(* having read it then.                                                    *)
THEOREM DisallowingWorks == Spec => []MutedGoesQuiet
  <1>1. Inv => MutedGoesQuiet
    BY DEF Inv
  <1>2. QED
    BY <1>1, Invariance, PTL

(* The statements of the owner and of the visitors, which overlap and fail *)
(* between any two of them, implement the life of a link that ShareLinks   *)
(* describes.                                                              *)
THEOREM RefinesLinks == Spec => ImplementsLinks
  <1>1. Inv /\ [Next]_vars => [Link!Next]_(Link!links)
    BY StepLinks
  <1>2. QED
    BY InitLinks, <1>1, Invariance, PTL DEF Spec, ImplementsLinks, Link!Spec
=============================================================================
