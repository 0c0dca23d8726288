-------------------------- MODULE InviteRedemption --------------------------
(***************************************************************************)
(* Invites, users and device tokens of the ClipShare server.               *)
(*                                                                         *)
(* An administrator mints invite codes; a desktop client swaps a code and  *)
(* a username for a device token; logging out, or the psql command of the  *)
(* README, removes the token again.  Handlers run concurrently and nothing *)
(* in the server opens a transaction, so the unit of atomicity is one SQL  *)
(* statement: AuthService.RedeemInvite is five of them, and each is an     *)
(* action here.  A process restart, a failed statement and a lost response *)
(* are actions too; together they happen at most MaxFaults times.          *)
(***************************************************************************)
EXTENDS Naturals

CONSTANTS
  Codes,      \* the invite codes the administrator may mint
  Users,      \* the usernames clients ask for
  Workers,    \* the requests the server handles at the same time
  NoCode, NoUser,
  MaxFaults   \* bound on restarts, failed statements and lost messages

ASSUME NoCodeAssumption == NoCode \notin Codes
ASSUME NoUserAssumption == NoUser \notin Users
ASSUME MaxFaultsAssumption == MaxFaults \in Nat

VARIABLES
  status,     \* the invite_codes row of a code; "open" is redeemed_at IS NULL
  redeemedBy, \* column redeemed_by; a deleted row keeps its last value
  expired,    \* codes whose expires_at lies in the past
  accounts,   \* usernames that have a users row
  devices,    \* rows of device_tokens
  request,    \* what each worker is doing
  keyring,    \* tokens some desktop holds in its OS keyring
  faults,
  issued,     \* history: device rows ever inserted for a code
  lapsed      \* history: codes that expired with no redemption past its check

db     == <<status, redeemedBy, expired, accounts, devices>>
client == <<keyring, faults>>
past   == <<issued, lapsed>>
vars   == <<db, request, client, past>>

-----------------------------------------------------------------------------
(* A device token is named by its owner and the code it was issued for.    *)
Token(u, c) == [user |-> u, code |-> c]
Tokens == [user : Users, code : Codes]

Redeeming == {"lookup", "findUser", "createUser", "findDevice", "mark",
              "insert", "reply"}
LoggingOut == {"validate", "unlink", "forget"}
Idle == [pc |-> "idle", code |-> NoCode, user |-> NoUser]

TypeOK ==
  /\ status \in [Codes -> {"unminted", "open", "redeemed", "deleted"}]
  /\ redeemedBy \in [Codes -> Users \cup {NoUser}]
  /\ expired \subseteq Codes
  /\ accounts \subseteq Users
  /\ devices \subseteq Tokens
  /\ request \in [Workers -> {Idle} \cup
       [pc : Redeeming \cup LoggingOut, code : Codes, user : Users]]
  /\ keyring \subseteq Tokens
  /\ faults \in 0..MaxFaults
  /\ issued \in [Codes -> Nat]
  /\ lapsed \subseteq Codes

Init ==
  /\ status = [c \in Codes |-> "unminted"]
  /\ redeemedBy = [c \in Codes |-> NoUser]
  /\ expired = {}
  /\ accounts = {}
  /\ devices = {}
  /\ request = [w \in Workers |-> Idle]
  /\ keyring = {}
  /\ faults = 0
  /\ issued = [c \in Codes |-> 0]
  /\ lapsed = {}

At(w, pc) == request[w].pc = pc
Goto(w, pc) == request' = [request EXCEPT ![w].pc = pc]
Finish(w) == request' = [request EXCEPT ![w] = Idle]
Arrive(w, pc, c, u) ==
  /\ At(w, "idle")
  /\ request' = [request EXCEPT ![w] = [pc |-> pc, code |-> c, user |-> u]]

(* The invite was found open and in date, and is not marked redeemed yet.  *)
Checked(w) == request[w].pc \in {"findUser", "createUser", "findDevice", "mark"}

DevicesOf(u) == {d \in devices : d.user = u}

-----------------------------------------------------------------------------
(* Faulty variants of the handlers.  No specification uses them: each      *)
(* shows, put in its original's place, that a property notices the fault.  *)

(* expires_at is never looked at. *)
LookupInviteIgnoringExpiry(w) ==
  /\ At(w, "lookup")
  /\ IF status[request[w].code] = "open" THEN Goto(w, "findUser") ELSE Finish(w)
  /\ UNCHANGED <<db, client, past>>

(* The UPDATE has no redeemed_at IS NULL. *)
MarkRedeemedUnconditionally(w) ==
  /\ At(w, "mark")
  /\ LET c == request[w].code
     IN  IF status[c] = "deleted"
         THEN Finish(w) /\ UNCHANGED <<status, redeemedBy>>
         ELSE /\ status' = [status EXCEPT ![c] = "redeemed"]
              /\ redeemedBy' = [redeemedBy EXCEPT ![c] = request[w].user]
              /\ Goto(w, "insert")
  /\ UNCHANGED <<expired, accounts, devices, client, past>>

(* device_tokens.user_id is not UNIQUE. *)
InsertSecondDevice(w) ==
  /\ At(w, "insert")
  /\ LET c == request[w].code
     IN  /\ devices' = devices \cup {Token(request[w].user, c)}
         /\ issued' = [issued EXCEPT ![c] = @ + 1]
  /\ Goto(w, "reply")
  /\ UNCHANGED <<status, redeemedBy, expired, accounts, client, lapsed>>

(* The device refers to an invite row that may have been deleted by now. *)
InsertDeviceNeedingInvite(w) ==
  /\ At(w, "insert")
  /\ LET c == request[w].code
         u == request[w].user
     IN  IF DevicesOf(u) = {} /\ status[c] # "deleted"
         THEN /\ devices' = devices \cup {Token(u, c)}
              /\ issued' = [issued EXCEPT ![c] = @ + 1]
              /\ Goto(w, "reply")
         ELSE Finish(w) /\ UNCHANGED <<devices, issued>>
  /\ UNCHANGED <<status, redeemedBy, expired, accounts, client, lapsed>>

(* The handler answers without deleting the row. *)
LogoutWithoutDelete(w) ==
  /\ At(w, "unlink")
  /\ Goto(w, "forget")
  /\ UNCHANGED <<db, client, past>>

(* The DELETE has no WHERE user_id. *)
LogoutEveryDevice(w) ==
  /\ At(w, "unlink")
  /\ devices' = {}
  /\ Goto(w, "forget")
  /\ UNCHANGED <<status, redeemedBy, expired, accounts, client, past>>

(* The worker keeps the previous request's locals. *)
LogoutKeepingLocals(w) ==
  /\ At(w, "unlink")
  /\ devices' = devices \ DevicesOf(request[w].user)
  /\ Goto(w, "idle")
  /\ UNCHANGED <<status, redeemedBy, expired, accounts, client, past>>

-----------------------------------------------------------------------------
(* The administrator's side, and time.                                     *)

CreateInvite(c) ==
  /\ status[c] = "unminted"
  /\ status' = [status EXCEPT ![c] = "open"]
  /\ UNCHANGED <<redeemedBy, expired, accounts, devices, request, client, past>>

DeleteInvite(c) ==
  /\ status[c] \in {"open", "redeemed"}
  /\ status' = [status EXCEPT ![c] = "deleted"]
  /\ UNCHANGED <<redeemedBy, expired, accounts, devices, request, client, past>>

(* expires_at of an open invite passes; nothing reads it in another state. *)
(* An invite minted without a lifetime never does this.                    *)
ExpireInvite(c) ==
  /\ status[c] = "open" /\ c \notin expired
  /\ expired' = expired \cup {c}
  /\ lapsed' = IF \E w \in Workers : Checked(w) /\ request[w].code = c
               THEN lapsed ELSE lapsed \cup {c}
  /\ UNCHANGED <<status, redeemedBy, accounts, devices, request, client, issued>>

(* The README's psql command, run by the operator. *)
RevokeDevice(u) ==
  /\ DevicesOf(u) # {}
  /\ devices' = devices \ DevicesOf(u)
  /\ UNCHANGED <<status, redeemedBy, expired, accounts, request, client, past>>

-----------------------------------------------------------------------------
(* POST /auth/redeem.                                                      *)

StartRedeem(w, c, u) ==
  /\ status[c] # "unminted"
  /\ Arrive(w, "lookup", c, u)
  /\ UNCHANGED <<db, client, past>>

(* SELECT the invite, then the redeemed_at and expires_at checks. *)
LookupInvite(w) ==
  /\ At(w, "lookup")
  /\ LET c == request[w].code
     IN  IF status[c] = "open" /\ c \notin expired
         THEN Goto(w, "findUser")
         ELSE Finish(w)
  /\ UNCHANGED <<db, client, past>>

FindUser(w) ==
  /\ At(w, "findUser")
  /\ Goto(w, IF request[w].user \in accounts THEN "findDevice" ELSE "createUser")
  /\ UNCHANGED <<db, client, past>>

(* INSERT INTO users; the UNIQUE username fails a request that lost a race. *)
CreateUser(w) ==
  /\ At(w, "createUser")
  /\ LET u == request[w].user
     IN  /\ accounts' = accounts \cup {u}
         /\ IF u \in accounts THEN Finish(w) ELSE Goto(w, "findDevice")
  /\ UNCHANGED <<status, redeemedBy, expired, devices, client, past>>

(* "One user = one device": an account with a device is turned away here. *)
FindDevice(w) ==
  /\ At(w, "findDevice")
  /\ IF DevicesOf(request[w].user) # {} THEN Finish(w) ELSE Goto(w, "mark")
  /\ UNCHANGED <<db, client, past>>

(* UPDATE ... WHERE redeemed_at IS NULL; no row updated is an error. *)
MarkRedeemed(w) ==
  /\ At(w, "mark")
  /\ LET c == request[w].code
     IN  IF status[c] = "open"
         THEN /\ status' = [status EXCEPT ![c] = "redeemed"]
              /\ redeemedBy' = [redeemedBy EXCEPT ![c] = request[w].user]
              /\ Goto(w, "insert")
         ELSE Finish(w) /\ UNCHANGED <<status, redeemedBy>>
  /\ UNCHANGED <<expired, accounts, devices, client, past>>

(* INSERT INTO device_tokens, where user_id is UNIQUE. *)
InsertDevice(w) ==
  /\ At(w, "insert")
  /\ LET c == request[w].code
         u == request[w].user
     IN  IF DevicesOf(u) = {}
         THEN /\ devices' = devices \cup {Token(u, c)}
              /\ issued' = [issued EXCEPT ![c] = @ + 1]
              /\ Goto(w, "reply")
         ELSE Finish(w) /\ UNCHANGED <<devices, issued>>
  /\ UNCHANGED <<status, redeemedBy, expired, accounts, client, lapsed>>

(* The response arrives and the desktop stores the token in its keyring. *)
SaveSession(w) ==
  /\ At(w, "reply")
  /\ keyring' = keyring \cup {Token(request[w].user, request[w].code)}
  /\ Finish(w)
  /\ UNCHANGED <<db, faults, past>>

-----------------------------------------------------------------------------
(* DELETE /auth/logout: the middleware looks the token up, then the        *)
(* handler deletes whatever device its user has.  The desktop forgets the  *)
(* token when the call is over, whatever became of it.                     *)

StartLogout(w, t) ==
  /\ t \in keyring
  /\ Arrive(w, "validate", t.code, t.user)
  /\ UNCHANGED <<db, client, past>>

ValidateDeviceToken(w) ==
  /\ At(w, "validate")
  /\ Goto(w, IF Token(request[w].user, request[w].code) \in devices
             THEN "unlink" ELSE "forget")
  /\ UNCHANGED <<db, client, past>>

LogoutDevice(w) ==
  /\ At(w, "unlink")
  /\ devices' = devices \ DevicesOf(request[w].user)
  /\ Goto(w, "forget")
  /\ UNCHANGED <<status, redeemedBy, expired, accounts, client, past>>

ForgetToken(w) ==
  /\ At(w, "forget")
  /\ keyring' = keyring \ {Token(request[w].user, request[w].code)}
  /\ Finish(w)
  /\ UNCHANGED <<db, faults, past>>

-----------------------------------------------------------------------------
(* Failures.                                                               *)

Fault ==
  /\ faults < MaxFaults
  /\ faults' = faults + 1

(* A statement fails, the response is lost, or the desktop cannot save or  *)
(* delete its token.  A desktop that logs out goes on to forget it.        *)
RequestFails(w) ==
  /\ Fault
  /\ ~At(w, "idle")
  /\ IF request[w].pc \in {"validate", "unlink"} THEN Goto(w, "forget") ELSE Finish(w)
  /\ UNCHANGED <<db, keyring, past>>

Restart ==
  /\ Fault
  /\ request' = [w \in Workers |->
       IF request[w].pc \in LoggingOut THEN [request[w] EXCEPT !.pc = "forget"]
       ELSE Idle]
  /\ UNCHANGED <<db, keyring, past>>

(* The desktop waits for five seconds; the server goes on. *)
LogoutTimesOut(w) ==
  /\ Fault
  /\ request[w].pc \in {"validate", "unlink"}
  /\ keyring' = keyring \ {Token(request[w].user, request[w].code)}
  /\ UNCHANGED <<db, request, past>>

(* The logout call never reaches the server. *)
LogoutLost(t) ==
  /\ Fault
  /\ t \in keyring
  /\ keyring' = keyring \ {t}
  /\ UNCHANGED <<db, request, past>>

-----------------------------------------------------------------------------
Admin == \E c \in Codes : CreateInvite(c) \/ DeleteInvite(c) \/ ExpireInvite(c)

Operator == \E u \in Users : RevokeDevice(u)

Redeem(w) ==
  \/ \E c \in Codes, u \in Users : StartRedeem(w, c, u)
  \/ LookupInvite(w)
  \/ FindUser(w)
  \/ CreateUser(w)
  \/ FindDevice(w)
  \/ MarkRedeemed(w)
  \/ InsertDevice(w)
  \/ SaveSession(w)

Logout(w) ==
  \/ \E t \in Tokens : StartLogout(w, t)
  \/ ValidateDeviceToken(w)
  \/ LogoutDevice(w)
  \/ ForgetToken(w)

Failure ==
  \/ \E w \in Workers : RequestFails(w) \/ LogoutTimesOut(w)
  \/ Restart
  \/ \E t \in Tokens : LogoutLost(t)

Next ==
  \/ Admin
  \/ Operator
  \/ \E w \in Workers : Redeem(w) \/ Logout(w)
  \/ Failure

Spec == Init /\ [][Next]_vars

-----------------------------------------------------------------------------
(* Properties.                                                             *)

(* A code buys at most one device, ever, however many redemptions of it    *)
(* overlap and whatever is logged out, revoked or deleted in between:      *)
(* the conditional UPDATE of MarkRedeemed "prevents double-spending".      *)
NoDoubleSpend == \A c \in Codes : issued[c] <= 1

(* Withdrawing an invite works: a code that was deleted before anybody     *)
(* redeemed it, or that expired while no redemption was past its expiry    *)
(* check, never buys a device, although RedeemInvite looks at the row in   *)
(* one statement and marks it four statements later.                       *)
WithdrawnNeverSpent ==
  \A c \in Codes :
    (status[c] = "deleted" /\ redeemedBy[c] = NoUser) \/ c \in lapsed
      => issued[c] = 0

(* A device row belongs to the user its invite is marked redeemed by, so   *)
(* the admin's invite list names the account behind every device, and a    *)
(* user has one device, also when two redemptions of two invites ask for   *)
(* the same username together.                                             *)
DeviceAccounted ==
  \A d \in devices :
    /\ redeemedBy[d.code] = d.user
    /\ d.user \in accounts
    /\ \A e \in devices : e.user = d.user => e = d

(* Nothing but a race for the username wastes an invite: when no statement *)
(* failed, a redeemed invite whose redemption is over and which bought no  *)
(* device lost to another invite that bought one for the same username.    *)
WastedOnlyByRace ==
  \A c \in Codes :
    /\ faults = 0
    /\ redeemedBy[c] # NoUser
    /\ issued[c] = 0
    /\ \A w \in Workers : ~(At(w, "insert") /\ request[w].code = c)
    => \E b \in Codes \ {c} : issued[b] > 0 /\ redeemedBy[b] = redeemedBy[c]

(* Nobody is locked out while nothing is lost: a registered device's token *)
(* is in a keyring or on its way to one, and no desktop forgets a token    *)
(* whose row still keeps its owner from redeeming another invite.          *)
DeviceReachable ==
  faults = 0 =>
    \A d \in devices :
      \/ d \in keyring
      \/ \E w \in Workers :
           At(w, "reply") /\ Token(request[w].user, request[w].code) = d

(* Once redeemed, an invite row is never reopened or given to another      *)
(* user; all that can still happen to it is deletion.                      *)
RedemptionIsFinal ==
  [][\A c \in Codes :
       redeemedBy[c] # NoUser =>
         /\ redeemedBy'[c] = redeemedBy[c]
         /\ status'[c] \in {status[c], "deleted"}]_vars

-----------------------------------------------------------------------------
(* The ledger the statements add up to.  An invite counts as paid from the *)
(* INSERT of its device on, and as spent from the UPDATE on, also when the *)
(* row is deleted while its redemption is still under way.                 *)
Stage(c) ==
  IF issued[c] > 0 THEN "paid"
  ELSE IF redeemedBy[c] # NoUser THEN "spent"
  ELSE IF status[c] = "deleted" THEN "withdrawn"
  ELSE status[c]

Ledger == INSTANCE InviteLedger
          WITH stage <- [c \in Codes |-> Stage(c)], holder <- redeemedBy

(* Every statement of every handler is a step of the ledger or leaves it   *)
(* unchanged.                                                              *)
ImplementsLedger == Ledger!Spec
=============================================================================
