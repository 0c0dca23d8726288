----------------------- MODULE InviteRedemptionProofs -----------------------
(***************************************************************************)
(* Proofs about InviteRedemption for any number of codes, users, requests  *)
(* in flight and faults.  The safety invariants are not inductive by       *)
(* themselves: what a request between MarkRedeemed and InsertDevice may    *)
(* rely on has to be said as well, and that is Inv.                        *)
(***************************************************************************)
EXTENDS InviteRedemption, TLAPS

(* A request between the UPDATE and the INSERT owns its invite: the row    *)
(* names its user, nothing was issued for it, and no other request is at   *)
(* the same point with the same code.                                      *)
InsertOwnsInvite ==
  \A w \in Workers :
    At(w, "insert") =>
      /\ redeemedBy[request[w].code] = request[w].user
      /\ issued[request[w].code] = 0
      /\ \A v \in Workers :
           At(v, "insert") /\ request[v].code = request[w].code => v = w

(* redeemed_by and redeemed_at are written together. *)
HolderMatchesStatus ==
  \A c \in Codes :
    /\ status[c] \in {"unminted", "open"} => redeemedBy[c] = NoUser
    /\ status[c] = "redeemed" => redeemedBy[c] # NoUser

(* Only a redeemed code was ever issued for, and only once. *)
IssuedOnlyRedeemed ==
  \A c \in Codes :
    /\ issued[c] = 0 \/ issued[c] = 1
    /\ issued[c] = 1 => redeemedBy[c] # NoUser

(* Device rows stem from an insert, and their user was found or created. *)
DevicesIssued == \A d \in devices : issued[d.code] = 1

AccountFound ==
  \A w \in Workers :
    request[w].pc \in {"findDevice", "mark", "insert"} =>
      request[w].user \in accounts

(* A lapsed code is expired, nobody is past its check, nobody redeemed it. *)
LapsedUnspent ==
  \A c \in lapsed :
    /\ c \in expired
    /\ redeemedBy[c] = NoUser
    /\ \A w \in Workers : ~(Checked(w) /\ request[w].code = c)

Inv ==
  /\ TypeOK
  /\ InsertOwnsInvite
  /\ HolderMatchesStatus
  /\ IssuedOnlyRedeemed
  /\ DevicesIssued
  /\ AccountFound
  /\ LapsedUnspent
  /\ DeviceAccounted
  /\ WastedOnlyByRace

-----------------------------------------------------------------------------
(* An empty database and idle workers satisfy the inductive invariant. *)
LEMMA InitInv == Init => Inv
  BY NoCodeAssumption, NoUserAssumption, MaxFaultsAssumption
  DEF Init, Inv, TypeOK, Idle, At, InsertOwnsInvite, HolderMatchesStatus,
      IssuedOnlyRedeemed, DevicesIssued, AccountFound, LapsedUnspent,
      DeviceAccounted, WastedOnlyByRace, Checked

(* A busy request carries a code and a user. *)
LEMMA BusyRequest ==
  ASSUME TypeOK, NEW w \in Workers, request[w].pc # "idle"
  PROVE  /\ request[w] \in [pc : Redeeming \cup LoggingOut,
                            code : Codes, user : Users]
         /\ request[w].code \in Codes
         /\ request[w].user \in Users
         /\ request[w].pc \in Redeeming \cup LoggingOut
  BY DEF TypeOK, Idle

(* Every statement keeps the types of what it writes. *)
LEMMA NextTypeOK == TypeOK /\ [Next]_vars => TypeOK'
  <1> SUFFICES ASSUME TypeOK, [Next]_vars
               PROVE  TypeOK'
    OBVIOUS
  <1>1. ASSUME NEW c \in Codes, CreateInvite(c) PROVE TypeOK'
    BY <1>1 DEF TypeOK, CreateInvite, client, past
  <1>2. ASSUME NEW c \in Codes, DeleteInvite(c) PROVE TypeOK'
    BY <1>2 DEF TypeOK, DeleteInvite, client, past
  <1>3. ASSUME NEW c \in Codes, ExpireInvite(c) PROVE TypeOK'
    BY <1>3 DEF TypeOK, ExpireInvite, client
  <1>4. ASSUME NEW u \in Users, RevokeDevice(u) PROVE TypeOK'
    BY <1>4 DEF TypeOK, RevokeDevice, client, past
  <1>5. ASSUME NEW w \in Workers, NEW c \in Codes, NEW u \in Users,
               StartRedeem(w, c, u)
        PROVE  TypeOK'
    BY <1>5 DEF TypeOK, StartRedeem, Arrive, Redeeming, db, client, past
  <1>6. ASSUME NEW w \in Workers, LookupInvite(w) PROVE TypeOK'
    BY <1>6, BusyRequest
    DEF TypeOK, LookupInvite, At, Goto, Finish, Redeeming, db, client, past
  <1>7. ASSUME NEW w \in Workers, FindUser(w) PROVE TypeOK'
    BY <1>7, BusyRequest
    DEF TypeOK, FindUser, At, Goto, Redeeming, db, client, past
  <1>8. ASSUME NEW w \in Workers, CreateUser(w) PROVE TypeOK'
    BY <1>8, BusyRequest
    DEF TypeOK, CreateUser, At, Goto, Finish, Redeeming, client, past
  <1>9. ASSUME NEW w \in Workers, FindDevice(w) PROVE TypeOK'
    BY <1>9, BusyRequest
    DEF TypeOK, FindDevice, At, Goto, Finish, Redeeming, db, client, past
  <1>10. ASSUME NEW w \in Workers, MarkRedeemed(w) PROVE TypeOK'
    BY <1>10, BusyRequest
    DEF TypeOK, MarkRedeemed, At, Goto, Finish, Redeeming, client, past
  <1>11. ASSUME NEW w \in Workers, InsertDevice(w) PROVE TypeOK'
    BY <1>11, BusyRequest
    DEF TypeOK, InsertDevice, At, Goto, Finish, Redeeming, Token, Tokens, client
  <1>12. ASSUME NEW w \in Workers, SaveSession(w) PROVE TypeOK'
    BY <1>12, BusyRequest
    DEF TypeOK, SaveSession, At, Finish, Token, Tokens, db, past
  <1>13. ASSUME NEW w \in Workers, NEW t \in Tokens, StartLogout(w, t)
         PROVE  TypeOK'
    BY <1>13 DEF TypeOK, StartLogout, Arrive, LoggingOut, Tokens, db, client, past
  <1>14. ASSUME NEW w \in Workers, ValidateDeviceToken(w) PROVE TypeOK'
    BY <1>14, BusyRequest
    DEF TypeOK, ValidateDeviceToken, At, Goto, LoggingOut, db, client, past
  <1>15. ASSUME NEW w \in Workers, LogoutDevice(w) PROVE TypeOK'
    BY <1>15, BusyRequest DEF TypeOK, LogoutDevice, At, Goto, LoggingOut, client, past
  <1>16. ASSUME NEW w \in Workers, RequestFails(w) PROVE TypeOK'
    BY <1>16, MaxFaultsAssumption, BusyRequest
    DEF TypeOK, RequestFails, Fault, At, Goto, Finish, LoggingOut, db, past
  <1>17. CASE Restart
    <2>1. ASSUME NEW w \in Workers, request[w].pc \in LoggingOut
          PROVE  [request[w] EXCEPT !.pc = "forget"] \in
                   [pc : Redeeming \cup LoggingOut, code : Codes, user : Users]
      BY <2>1, BusyRequest DEF LoggingOut
    <2>2. request' \in [Workers -> {Idle} \cup
            [pc : Redeeming \cup LoggingOut, code : Codes, user : Users]]
      BY <1>17, <2>1, Zenon DEF Restart
    <2>. QED BY <1>17, <2>2, MaxFaultsAssumption DEF TypeOK, Restart, Fault, db, past
  <1>18. ASSUME NEW t \in Tokens, LogoutLost(t) PROVE TypeOK'
    BY <1>18, MaxFaultsAssumption DEF TypeOK, LogoutLost, Fault, db, past
  <1>21. ASSUME NEW w \in Workers, ForgetToken(w) PROVE TypeOK'
    BY <1>21 DEF TypeOK, ForgetToken, Finish, db, past
  <1>22. ASSUME NEW w \in Workers, LogoutTimesOut(w) PROVE TypeOK'
    BY <1>22, MaxFaultsAssumption DEF TypeOK, LogoutTimesOut, Fault, db, past
  <1>19. CASE UNCHANGED vars
    BY <1>19 DEF TypeOK, vars, db, client, past
  <1>20. QED
    BY <1>1, <1>2, <1>3, <1>4, <1>5, <1>6, <1>7, <1>8, <1>9, <1>10, <1>11,
       <1>12, <1>13, <1>14, <1>15, <1>16, <1>17, <1>18, <1>19, <1>21, <1>22
    DEF Next, Admin, Operator, Redeem, Logout, Failure

(* Every value the model gives a variable has its declared shape.  Init    *)
(* and each statement of RedeemInvite and LogoutDevice preserve it.        *)
THEOREM TypeCorrect == Spec => []TypeOK
  <1>1. Init => TypeOK
    BY InitInv DEF Inv
  <1>2. QED
    BY <1>1, NextTypeOK, PTL DEF Spec

-----------------------------------------------------------------------------
(* What a step may do to the invites, the history and the requests, by     *)
(* which most actions leave most conjuncts of Inv alone.                   *)

(* CreateInvite, DeleteInvite, ExpireInvite: rows change, requests do not. *)
LEMMA AdminInv ==
  ASSUME Inv, TypeOK', NEW c \in Codes,
         CreateInvite(c) \/ DeleteInvite(c) \/ ExpireInvite(c)
  PROVE  Inv'
  <1> USE DEF Inv, client, past
  <1>1. CASE CreateInvite(c)
    BY <1>1
    DEF TypeOK, CreateInvite, InsertOwnsInvite, HolderMatchesStatus,
        IssuedOnlyRedeemed, DevicesIssued, AccountFound, LapsedUnspent,
        DeviceAccounted, WastedOnlyByRace, At, Checked
  <1>2. CASE DeleteInvite(c)
    BY <1>2
    DEF TypeOK, DeleteInvite, InsertOwnsInvite, HolderMatchesStatus,
        IssuedOnlyRedeemed, DevicesIssued, AccountFound, LapsedUnspent,
        DeviceAccounted, WastedOnlyByRace, At, Checked
  <1>3. CASE ExpireInvite(c)
    BY <1>3
    DEF TypeOK, ExpireInvite, InsertOwnsInvite, HolderMatchesStatus,
        IssuedOnlyRedeemed, DevicesIssued, AccountFound, LapsedUnspent,
        DeviceAccounted, WastedOnlyByRace, At, Checked
  <1>4. QED
    BY <1>1, <1>2, <1>3

(* The statements of RedeemInvite before the UPDATE, and those of a logout *)
(* or a revocation: invites and history stay, a request moves.             *)
LEMMA ReadInv ==
  ASSUME Inv, TypeOK', NEW w \in Workers,
         \/ \E c \in Codes, u \in Users : StartRedeem(w, c, u)
         \/ LookupInvite(w)
         \/ FindUser(w)
         \/ CreateUser(w)
         \/ FindDevice(w)
         \/ SaveSession(w)
         \/ \E t \in Tokens : StartLogout(w, t)
         \/ ValidateDeviceToken(w)
         \/ LogoutDevice(w)
         \/ ForgetToken(w)
         \/ RequestFails(w)
         \/ LogoutTimesOut(w)
  PROVE  Inv'
  <1> USE DEF Inv, client, past, db, TypeOK, At, Goto, Finish, Arrive, Idle,
      InsertOwnsInvite, HolderMatchesStatus, IssuedOnlyRedeemed, DevicesIssued,
      AccountFound, LapsedUnspent, DeviceAccounted, WastedOnlyByRace, Checked
  <1>1. ASSUME NEW c \in Codes, NEW u \in Users, StartRedeem(w, c, u)
        PROVE  Inv'
    BY <1>1 DEF StartRedeem
  <1>2. CASE LookupInvite(w)
    BY <1>2 DEF LookupInvite
  <1>3. CASE FindUser(w)
    BY <1>3 DEF FindUser
  <1>4. CASE CreateUser(w)
    BY <1>4 DEF CreateUser
  <1>5. CASE FindDevice(w)
    BY <1>5 DEF FindDevice
  <1>6. CASE SaveSession(w)
    BY <1>6 DEF SaveSession
  <1>7. ASSUME NEW t \in Tokens, StartLogout(w, t)
        PROVE  Inv'
    BY <1>7 DEF StartLogout
  <1>8. CASE ValidateDeviceToken(w)
    BY <1>8 DEF ValidateDeviceToken
  <1>9. CASE LogoutDevice(w)
    BY <1>9 DEF LogoutDevice, DevicesOf
  <1>10. CASE RequestFails(w)
    BY <1>10, MaxFaultsAssumption DEF RequestFails, Fault
  <1>12. CASE ForgetToken(w)
    BY <1>12 DEF ForgetToken
  <1>13. CASE LogoutTimesOut(w)
    BY <1>13, MaxFaultsAssumption DEF LogoutTimesOut, Fault
  <1>11. QED
    BY <1>1, <1>2, <1>3, <1>4, <1>5, <1>6, <1>7, <1>8, <1>9, <1>10, <1>12, <1>13

(* The conditional UPDATE: the request that finds the row open owns it.    *)
LEMMA MarkInv ==
  ASSUME Inv, TypeOK', NEW w \in Workers, MarkRedeemed(w)
  PROVE  Inv'
  <1> DEFINE c == request[w].code
             u == request[w].user
  <1>1. c \in Codes /\ u \in Users /\ u # NoUser
    BY BusyRequest, NoUserAssumption DEF MarkRedeemed, At, Inv
  <1>2. CASE status[c] = "open"
    <2>1. /\ At(w, "mark")
          /\ status' = [status EXCEPT ![c] = "redeemed"]
          /\ redeemedBy' = [redeemedBy EXCEPT ![c] = u]
          /\ request' = [request EXCEPT ![w].pc = "insert"]
          /\ UNCHANGED <<expired, accounts, devices, keyring, faults, issued, lapsed>>
      BY <1>2 DEF MarkRedeemed, Goto, client, past
    <2>2. redeemedBy[c] = NoUser /\ issued[c] = 0
      BY <1>1, <1>2 DEF Inv, HolderMatchesStatus, IssuedOnlyRedeemed
    <2>3. \A v \in Workers : At(v, "insert") => request[v].code # c
      BY <1>1, <2>2, BusyRequest, NoUserAssumption
      DEF Inv, InsertOwnsInvite, At
    <2>4. InsertOwnsInvite'
      BY <1>1, <2>1, <2>2, <2>3 DEF Inv, TypeOK, InsertOwnsInvite, At
    <2>5. HolderMatchesStatus' /\ IssuedOnlyRedeemed'
      BY <1>1, <2>1 DEF Inv, TypeOK, HolderMatchesStatus, IssuedOnlyRedeemed
    <2>6. DevicesIssued' /\ AccountFound'
      BY <1>1, <2>1 DEF Inv, TypeOK, DevicesIssued, AccountFound, At
    <2>7. LapsedUnspent'
      BY <1>1, <2>1 DEF Inv, TypeOK, LapsedUnspent, Checked, At
    <2>8. DeviceAccounted'
      BY <1>1, <2>1, <2>2 DEF Inv, TypeOK, DeviceAccounted, DevicesIssued
    <2>9. WastedOnlyByRace'
      BY <1>1, <2>1, <2>2 DEF Inv, TypeOK, WastedOnlyByRace, IssuedOnlyRedeemed, At
    <2>10. QED
      BY <2>4, <2>5, <2>6, <2>7, <2>8, <2>9 DEF Inv
  <1>3. CASE status[c] # "open"
    <2>1. /\ At(w, "mark")
          /\ Finish(w)
          /\ UNCHANGED <<db, client, past>>
      BY <1>3 DEF MarkRedeemed, db, client, past
    <2>2. QED
      BY <2>1
      DEF Inv, db, client, past, TypeOK, At, Finish, Idle, InsertOwnsInvite,
          HolderMatchesStatus, IssuedOnlyRedeemed, DevicesIssued, AccountFound,
          LapsedUnspent, DeviceAccounted, WastedOnlyByRace, Checked
  <1>4. QED
    BY <1>2, <1>3

(* The INSERT: its request owns the invite, and either registers the one   *)
(* device of the user or loses to the device the user has by now.          *)
LEMMA InsertInv ==
  ASSUME Inv, TypeOK', NEW w \in Workers, InsertDevice(w)
  PROVE  Inv'
  <1> DEFINE c == request[w].code
             u == request[w].user
  <1>1. /\ c \in Codes /\ u \in Users /\ u # NoUser
        /\ redeemedBy[c] = u /\ issued[c] = 0 /\ u \in accounts
        /\ \A v \in Workers : At(v, "insert") /\ request[v].code = c => v = w
    BY BusyRequest, NoUserAssumption
    DEF InsertDevice, At, Inv, InsertOwnsInvite, AccountFound
  <1>2. At(w, "insert") /\ UNCHANGED <<status, redeemedBy, expired, accounts,
                                       keyring, faults, lapsed>>
    BY DEF InsertDevice, client
  <1>3. CASE DevicesOf(u) = {}
    <2>1. /\ devices' = devices \cup {Token(u, c)}
          /\ issued' = [issued EXCEPT ![c] = issued[c] + 1]
          /\ request' = [request EXCEPT ![w].pc = "reply"]
      BY <1>3 DEF InsertDevice, Goto
    <2>2. issued'[c] = 1 /\ \A b \in Codes \ {c} : issued'[b] = issued[b]
      BY <1>1, <2>1 DEF Inv, TypeOK
    <2>3. InsertOwnsInvite'
      BY <1>1, <1>2, <2>1, <2>2 DEF Inv, TypeOK, InsertOwnsInvite, At
    <2>4. HolderMatchesStatus' /\ IssuedOnlyRedeemed'
      BY <1>1, <1>2, <2>2
      DEF Inv, TypeOK, HolderMatchesStatus, IssuedOnlyRedeemed
    <2>5. DevicesIssued'
      BY <1>1, <2>1, <2>2 DEF Inv, TypeOK, DevicesIssued, Token, Tokens
    <2>6. AccountFound' /\ LapsedUnspent'
      BY <1>2, <2>1 DEF Inv, TypeOK, AccountFound, LapsedUnspent, Checked, At
    <2>7. DeviceAccounted'
      BY <1>1, <1>2, <1>3, <2>1 DEF Inv, DeviceAccounted, DevicesOf, Token
    <2>8. WastedOnlyByRace'
      <3> SUFFICES ASSUME NEW b \in Codes, faults = 0, redeemedBy[b] # NoUser,
                          issued'[b] = 0,
                          \A v \in Workers :
                            ~(At(v, "insert") /\ request[v].code = b)'
                   PROVE  \E a \in Codes \ {b} :
                            issued'[a] > 0 /\ redeemedBy[a] = redeemedBy[b]
        BY <1>2 DEF WastedOnlyByRace, At
      <3>1. b # c /\ issued[b] = 0
        BY <2>2
      <3>2. \A v \in Workers : ~(At(v, "insert") /\ request[v].code = b)
        BY <2>1, <3>1 DEF Inv, TypeOK, At
      <3>3. PICK a \in Codes \ {b} : issued[a] > 0 /\ redeemedBy[a] = redeemedBy[b]
        BY <3>1, <3>2 DEF Inv, WastedOnlyByRace
      <3>4. QED
        BY <2>2, <3>3
    <2>9. QED
      BY <2>3, <2>4, <2>5, <2>6, <2>7, <2>8 DEF Inv
  <1>4. CASE DevicesOf(u) # {}
    <2>1. Finish(w) /\ UNCHANGED <<devices, issued>>
      BY <1>4 DEF InsertDevice
    <2>2. PICK d \in devices : d.user = u
      BY <1>4 DEF DevicesOf
    <2>3. /\ d.code \in Codes \ {c}
          /\ issued[d.code] > 0
          /\ redeemedBy[d.code] = u
      BY <1>1, <2>2 DEF Inv, TypeOK, Tokens, DeviceAccounted, DevicesIssued
    <2>4. WastedOnlyByRace'
      <3> SUFFICES ASSUME NEW b \in Codes, b # c, faults = 0,
                          redeemedBy[b] # NoUser, issued[b] = 0,
                          \A v \in Workers :
                            ~(At(v, "insert") /\ request[v].code = b)'
                   PROVE  \E a \in Codes \ {b} :
                            issued[a] > 0 /\ redeemedBy[a] = redeemedBy[b]
        BY <1>1, <1>2, <2>1, <2>3 DEF WastedOnlyByRace, At
      <3>1. \A v \in Workers : ~(At(v, "insert") /\ request[v].code = b)
        BY <2>1 DEF Inv, TypeOK, Finish, At
      <3>2. QED
        BY <3>1 DEF Inv, WastedOnlyByRace
    <2>5. QED
      BY <1>2, <2>1, <2>4
      DEF Inv, TypeOK, At, Finish, Idle, InsertOwnsInvite, HolderMatchesStatus,
          IssuedOnlyRedeemed, DevicesIssued, AccountFound, LapsedUnspent,
          DeviceAccounted, Checked
  <1>5. QED
    BY <1>3, <1>4

(* RevokeDevice, Restart and LogoutLost take things away, nothing more.    *)
LEMMA RemovalInv ==
  ASSUME Inv, TypeOK',
         \/ \E u \in Users : RevokeDevice(u)
         \/ Restart
         \/ \E t \in Tokens : LogoutLost(t)
         \/ UNCHANGED vars
  PROVE  Inv'
  <1> USE DEF Inv, vars, db, client, past, TypeOK, At, Idle, InsertOwnsInvite,
      HolderMatchesStatus, IssuedOnlyRedeemed, DevicesIssued, AccountFound,
      LapsedUnspent, DeviceAccounted, WastedOnlyByRace, Checked
  <1>1. ASSUME NEW u \in Users, RevokeDevice(u) PROVE Inv'
    BY <1>1 DEF RevokeDevice, DevicesOf
  <1>2. CASE Restart
    BY <1>2 DEF Restart, Fault
  <1>3. ASSUME NEW t \in Tokens, LogoutLost(t) PROVE Inv'
    BY <1>3 DEF LogoutLost, Fault
  <1>4. CASE UNCHANGED vars
    BY <1>4
  <1>5. QED
    BY <1>1, <1>2, <1>3, <1>4

(* The inductive invariant, action by action. *)
LEMMA NextInv == Inv /\ [Next]_vars => Inv'
  <1> SUFFICES ASSUME Inv, [Next]_vars
               PROVE  Inv'
    OBVIOUS
  <1>1. TypeOK'
    BY NextTypeOK DEF Inv
  <1>2. QED
    BY <1>1, AdminInv, ReadInv, MarkInv, InsertInv, RemovalInv
    DEF Next, Admin, Operator, Redeem, Logout, Failure

(* What RedeemInvite's statements know about the rows they have passed and *)
(* not read again holds in every state: Inv is an invariant of Spec.       *)
THEOREM Invariant == Spec => []Inv
  BY InitInv, NextInv, PTL DEF Spec

-----------------------------------------------------------------------------
(* However many redemptions of a code overlap, the conditional UPDATE lets *)
(* one of them through, and its INSERT is the only one the code ever pays. *)
THEOREM AtMostOneDevicePerInvite == Spec => []NoDoubleSpend
  <1>1. ASSUME Inv, NEW c \in Codes PROVE issued[c] <= 1
    <2>1. CASE issued[c] = 0
      BY <2>1
    <2>2. CASE issued[c] = 1
      BY <2>2
    <2>3. QED
      BY <1>1, <2>1, <2>2 DEF Inv, IssuedOnlyRedeemed
  <1>2. Inv => NoDoubleSpend
    BY <1>1 DEF NoDoubleSpend
  <1>3. QED
    BY <1>2, Invariant, PTL

(* A code deleted unredeemed, or expired with nobody past RedeemInvite's   *)
(* expiry check, never buys a device.                                      *)
THEOREM WithdrawalHolds == Spec => []WithdrawnNeverSpent
  <1>1. Inv => WithdrawnNeverSpent
    BY DEF Inv, IssuedOnlyRedeemed, LapsedUnspent, WithdrawnNeverSpent
  <1>2. QED
    BY <1>1, Invariant, PTL

(* Every device row is accounted for by the invite its user redeemed, and  *)
(* no user has two.                                                        *)
THEOREM DevicesAreAccountedFor == Spec => []DeviceAccounted
  BY Invariant, PTL DEF Inv

(* Without failures the only way to lose an invite is to lose the race for *)
(* the username to another one.                                            *)
THEOREM OnlyRacesWaste == Spec => []WastedOnlyByRace
  BY Invariant, PTL DEF Inv

-----------------------------------------------------------------------------
(* Tokens that clients have were issued; and while nothing fails, one that *)
(* is about to be forgotten has lost its row, and nothing brings it back.  *)
TokensIssued ==
  /\ \A d \in keyring : issued[d.code] = 1
  /\ \A w \in Workers :
       request[w].pc \in {"reply"} \cup LoggingOut => issued[request[w].code] = 1

ForgottenIsGone ==
  faults = 0 =>
    \A w \in Workers :
      At(w, "forget") => Token(request[w].user, request[w].code) \notin devices

Tracked == TokensIssued /\ ForgottenIsGone /\ DeviceReachable

(* What RedeemInvite and the client do after the INSERT, and the failures. *)
LEMMA NextTracked ==
  ASSUME Inv, TypeOK', Tracked, [Next]_vars
  PROVE  Tracked'
  <1> USE DEF Inv, TypeOK, Tracked, TokensIssued, ForgottenIsGone, DeviceReachable,
      At, Goto, Finish, Arrive, Idle, Token, LoggingOut, db, client, past
  <1>1. ASSUME NEW c \in Codes,
               CreateInvite(c) \/ DeleteInvite(c) \/ ExpireInvite(c)
        PROVE  Tracked'
    BY <1>1 DEF CreateInvite, DeleteInvite, ExpireInvite
  <1>2. ASSUME NEW u \in Users, RevokeDevice(u) PROVE Tracked'
    BY <1>2 DEF RevokeDevice, DevicesOf
  <1>3. ASSUME NEW w \in Workers, NEW c \in Codes, NEW u \in Users,
               StartRedeem(w, c, u)
        PROVE  Tracked'
    BY <1>3 DEF StartRedeem
  <1>4. ASSUME NEW w \in Workers,
               \/ LookupInvite(w) \/ FindUser(w) \/ CreateUser(w)
               \/ FindDevice(w) \/ MarkRedeemed(w)
        PROVE  Tracked'
    BY <1>4
    DEF LookupInvite, FindUser, CreateUser, FindDevice, MarkRedeemed, DevicesOf
  <1>5. ASSUME NEW w \in Workers, InsertDevice(w) PROVE Tracked'
    <2>1. issued[request[w].code] = 0 /\ request[w].code \in Codes
      BY <1>5, BusyRequest DEF InsertDevice, InsertOwnsInvite
    <2>2. \A v \in Workers \ {w} : request'[v] = request[v]
      BY <1>5 DEF InsertDevice
    <2>3. At(w, "insert") /\ UNCHANGED <<keyring, faults>>
      BY <1>5 DEF InsertDevice
    <2>4. CASE DevicesOf(request[w].user) = {}
      <3>1. /\ devices' = devices \cup {Token(request[w].user, request[w].code)}
            /\ issued' = [issued EXCEPT ![request[w].code] = 1]
            /\ request' = [request EXCEPT ![w].pc = "reply"]
        BY <1>5, <2>1, <2>4 DEF InsertDevice
      <3>2. /\ request'[w].pc = "reply" /\ request'[w].code = request[w].code
            /\ request'[w].user = request[w].user
        BY <2>3, <3>1, BusyRequest
      <3>3. issued'[request[w].code] = 1 /\ \A c \in Codes : issued[c] = 1 => issued'[c] = 1
        BY <2>1, <3>1
      <3>4. TokensIssued'
        <4>1. \A d \in keyring : d.code \in Codes
          BY DEF Tokens
        <4>2. ASSUME NEW v \in Workers, request[v].pc \in {"reply"} \cup LoggingOut
              PROVE  issued'[request[v].code] = 1
          BY <3>3, <4>2, BusyRequest
        <4>. QED BY <2>1, <2>2, <2>3, <3>2, <3>3, <4>1, <4>2
      <3>5. ForgottenIsGone'
        BY <2>1, <2>2, <2>3, <3>1, <3>2
      <3>6. DeviceReachable'
        BY <2>2, <2>3, <3>1, <3>2
      <3>. QED BY <3>4, <3>5, <3>6
    <2>5. CASE DevicesOf(request[w].user) # {}
      BY <1>5, <2>2, <2>3, <2>5 DEF InsertDevice
    <2>. QED BY <2>4, <2>5
  <1>6. ASSUME NEW w \in Workers, SaveSession(w) PROVE Tracked'
    BY <1>6 DEF SaveSession
  <1>7. ASSUME NEW w \in Workers, NEW t \in Tokens, StartLogout(w, t)
        PROVE  Tracked'
    BY <1>7 DEF StartLogout, Tokens
  <1>8. ASSUME NEW w \in Workers, ValidateDeviceToken(w)
        PROVE  Tracked'
    BY <1>8 DEF ValidateDeviceToken
  <1>9. ASSUME NEW w \in Workers, LogoutDevice(w) PROVE Tracked'
    BY <1>9 DEF LogoutDevice, DevicesOf
  <1>13. ASSUME NEW w \in Workers, ForgetToken(w) PROVE Tracked'
    BY <1>13 DEF ForgetToken
  <1>10. CASE Failure
    BY <1>10, MaxFaultsAssumption
    DEF Failure, RequestFails, Restart, LogoutLost, LogoutTimesOut, Fault
  <1>11. CASE UNCHANGED vars
    BY <1>11 DEF vars
  <1>12. QED
    BY <1>1, <1>2, <1>3, <1>4, <1>5, <1>6, <1>7, <1>8, <1>9, <1>10, <1>11, <1>13
    DEF Next, Admin, Operator, Redeem, Logout

(* As long as nothing is lost, every registered device can be used: the    *)
(* row InsertDevice adds reaches a keyring, and LogoutDevice deletes it     *)
(* before the desktop forgets its token, so that the owner can redeem      *)
(* another invite.                                                         *)
THEOREM NobodyLockedOut == Spec => []DeviceReachable
  <1>1. Init => Tracked
    BY DEF Init, Tracked, TokensIssued, ForgottenIsGone, DeviceReachable, Idle, At,
           LoggingOut
  <1>2. Inv /\ Inv' /\ Tracked /\ [Next]_vars => Tracked'
    BY NextTracked DEF Inv
  <1>3. Tracked => DeviceReachable
    BY DEF Tracked
  <1>4. QED
    BY <1>1, <1>2, <1>3, Invariant, PTL DEF Spec

-----------------------------------------------------------------------------
(* The empty tables are the empty ledger. *)
LEMMA InitLedger == Init => Ledger!Init
  BY DEF Init, Ledger!Init, Stage

(* An action that writes neither invites, nor history, nor devices. *)
LEMMA LedgerStutters ==
  ASSUME UNCHANGED <<status, redeemedBy, devices, issued>>
  PROVE  UNCHANGED Ledger!ledger
  BY DEF Ledger!ledger, Stage

(* Each action is one ledger step, or none: the UPDATE spends, the INSERT  *)
(* registers, a DELETE of an unspent row withdraws.                        *)
LEMMA StepLedger ==
  ASSUME Inv, [Next]_vars
  PROVE  [Ledger!Next]_(Ledger!ledger)
  <1> USE DEF client, past, db
  <1>1. ASSUME NEW c \in Codes, CreateInvite(c)
        PROVE  Ledger!Mint(c)
    <2>1. status[c] = "unminted" /\ redeemedBy[c] = NoUser /\ issued[c] = 0
      BY <1>1
      DEF CreateInvite, Inv, TypeOK, HolderMatchesStatus, IssuedOnlyRedeemed
    <2>2. \A b \in Codes \ {c} : Stage(b)' = Stage(b)
      BY <1>1 DEF CreateInvite, Stage, Inv, TypeOK
    <2>3. Stage(c) = "unminted" /\ Stage(c)' = "open"
      BY <1>1, <2>1 DEF CreateInvite, Stage, Inv, TypeOK
    <2>4. QED
      BY <1>1, <2>2, <2>3 DEF CreateInvite, Ledger!Mint
  <1>2. ASSUME NEW c \in Codes, DeleteInvite(c)
        PROVE  Ledger!Withdraw(c) \/ UNCHANGED Ledger!ledger
    BY <1>2
    DEF DeleteInvite, Ledger!Withdraw, Ledger!ledger, Stage, Inv, TypeOK,
        HolderMatchesStatus, IssuedOnlyRedeemed
  <1>3. ASSUME NEW u \in Users, RevokeDevice(u)
        PROVE  Ledger!Unregister(u)
    BY <1>3 DEF RevokeDevice, DevicesOf, Ledger!Unregister, Stage
  <1>4. ASSUME NEW w \in Workers, MarkRedeemed(w)
        PROVE  \/ Ledger!Spend(request[w].code, request[w].user)
               \/ UNCHANGED Ledger!ledger
    BY <1>4, BusyRequest, NoUserAssumption
    DEF MarkRedeemed, At, Ledger!Spend, Ledger!ledger, Stage, Inv, TypeOK,
        HolderMatchesStatus, IssuedOnlyRedeemed
  <1>5. ASSUME NEW w \in Workers, InsertDevice(w)
        PROVE  \/ Ledger!Register(request[w].code)
               \/ UNCHANGED Ledger!ledger
    BY <1>5, BusyRequest, NoUserAssumption
    DEF InsertDevice, At, Ledger!Register, Ledger!ledger, Stage, Inv, TypeOK,
        InsertOwnsInvite, DevicesOf, Token
  <1>6. ASSUME NEW w \in Workers, LogoutDevice(w)
        PROVE  Ledger!Unregister(request[w].user)
    BY <1>6 DEF LogoutDevice, DevicesOf, Ledger!Unregister, Stage
  <1>7. ASSUME NEW w \in Workers, MarkRedeemed(w) \/ InsertDevice(w) \/ LogoutDevice(w)
        PROVE  request[w].code \in Codes /\ request[w].user \in Users
    BY <1>7, BusyRequest DEF MarkRedeemed, InsertDevice, LogoutDevice, At, Inv
  <1>8. ASSUME NEW c \in Codes, ExpireInvite(c)
        PROVE  UNCHANGED Ledger!ledger
    BY <1>8, LedgerStutters DEF ExpireInvite
  <1>9. ASSUME NEW w \in Workers,
               \/ \E c \in Codes, u \in Users : StartRedeem(w, c, u)
               \/ LookupInvite(w) \/ FindUser(w) \/ CreateUser(w)
               \/ FindDevice(w) \/ SaveSession(w)
               \/ \E t \in Tokens : StartLogout(w, t)
               \/ ValidateDeviceToken(w) \/ ForgetToken(w)
        PROVE  UNCHANGED Ledger!ledger
    BY <1>9, LedgerStutters
    DEF StartRedeem, LookupInvite, FindUser, CreateUser, FindDevice,
        SaveSession, StartLogout, ValidateDeviceToken, ForgetToken
  <1>10. CASE Failure
    BY <1>10, LedgerStutters DEF Failure, RequestFails, Restart, LogoutLost, LogoutTimesOut
  <1>11. CASE UNCHANGED vars
    BY <1>11, LedgerStutters DEF vars
  <1>12. QED
    BY <1>1, <1>2, <1>3, <1>4, <1>5, <1>6, <1>7, <1>8, <1>9, <1>10, <1>11
    DEF Next, Admin, Operator, Redeem, Logout, Ledger!Next

(* The concurrent, failing, statement-by-statement handlers of AuthService *)
(* implement the one-way life of an invite that InviteLedger describes.    *)
THEOREM RefinesLedger == Spec => ImplementsLedger
  <1>1. Inv /\ [Next]_vars => [Ledger!Next]_(Ledger!ledger)
    BY StepLedger
  <1>2. QED
    BY InitLedger, <1>1, Invariant, PTL DEF Spec, ImplementsLedger, Ledger!Spec

(* No statement of any handler reopens a redeemed invite or hands it to    *)
(* another user.                                                           *)
THEOREM RedeemedForGood == Spec => RedemptionIsFinal
  <1>1. Inv /\ [Next]_vars =>
          [\A c \in Codes :
             redeemedBy[c] # NoUser =>
               /\ redeemedBy'[c] = redeemedBy[c]
               /\ status'[c] \in {status[c], "deleted"}]_vars
    BY BusyRequest
    DEF Inv, TypeOK, HolderMatchesStatus, Next, Admin, Operator, Redeem,
        Logout, Failure, CreateInvite, DeleteInvite, ExpireInvite,
        RevokeDevice, StartRedeem, LookupInvite, FindUser, CreateUser,
        FindDevice, MarkRedeemed, InsertDevice, SaveSession, StartLogout,
        ValidateDeviceToken, LogoutDevice, ForgetToken, RequestFails, Restart,
        LogoutLost, LogoutTimesOut, vars, db, client, past, At
  <1>2. QED
    BY <1>1, Invariant, PTL DEF Spec, RedemptionIsFinal
=============================================================================
