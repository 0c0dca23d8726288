----------------------------- MODULE AdminSetup -----------------------------
(***************************************************************************)
(* First-run bootstrap of the ClipShare server: the one-time setup token   *)
(* and the creation of the administrator.                                  *)
(*                                                                         *)
(* main() runs EnsureSetupToken before it listens, so start-up is one      *)
(* sequence of SQL statements without concurrency; SetupAdmin then runs in *)
(* any number of requests at once.  The process may be restarted between   *)
(* any two statements, in either environment, and a statement may fail: an *)
(* error during start-up is only logged, and the server listens anyway.    *)
(***************************************************************************)
EXTENDS Naturals

CONSTANTS
  Usernames,     \* names the operator may choose for the administrator
  DevName,       \* the name seedDevUser gives its account
  Workers,       \* requests handled at the same time
  Environments,  \* the values of ENVIRONMENT the process is started with
  MaxBoots,      \* bound on starts of the process
  MaxFaults      \* bound on failed statements

ASSUME DevNameAssumption == DevName \in Usernames
ASSUME EnvironmentsAssumption == Environments \subseteq {"development", "production"}
ASSUME BoundsAssumption == MaxBoots \in Nat /\ MaxFaults \in Nat

VARIABLES
  users,    \* role of the users row with a name, "none" when there is no row
  tokens,   \* state of the setup_tokens row minted by a boot
  server,   \* where the process is: down, in main() before Listen, serving
  env,      \* the environment of the running process
  boots,    \* how often it was started
  clean,    \* no statement of this start-up failed
  printed,  \* tokens the operator could read in the log
  request,  \* the SetupAdmin call each worker runs
  faults,
  spoiled   \* history: tokens whose request ended without the account

db   == <<users, tokens>>
proc == <<server, env, boots, clean, printed>>
vars == <<db, proc, request, faults, spoiled>>

-----------------------------------------------------------------------------
Tokens == 1..MaxBoots   \* the token a boot mints is named by that boot
Starting == {"seed", "checkAdmin", "dropLeftover", "checkUnused", "wipe",
             "mint", "print"}
Idle == [pc |-> "idle", token |-> 0, user |-> DevName]

TypeOK ==
  /\ users \in [Usernames -> {"none", "passwordless", "admin"}]
  /\ tokens \in [Tokens -> {"absent", "unused", "used"}]
  /\ server \in {"down", "serving"} \cup Starting
  /\ env \in {"development", "production"}
  /\ boots \in 0..MaxBoots
  /\ clean \in BOOLEAN
  /\ printed \subseteq Tokens
  /\ request \in [Workers -> {Idle} \cup
       [pc : {"check", "consume", "create", "clear"},
        token : Tokens, user : Usernames]]
  /\ faults \in 0..MaxFaults
  /\ spoiled \subseteq Tokens

Init ==
  /\ users = [u \in Usernames |-> "none"]
  /\ tokens = [t \in Tokens |-> "absent"]
  /\ server = "down"
  /\ env = "production"
  /\ boots = 0
  /\ clean = TRUE
  /\ printed = {}
  /\ request = [w \in Workers |-> Idle]
  /\ faults = 0
  /\ spoiled = {}

(* users.is_admin AND password_hash IS NOT NULL. *)
Admins == {u \in Usernames : users[u] = "admin"}
AnyAdminExists == Admins # {}

Unused == {t \in Tokens : tokens[t] = "unused"}

DeleteAll == tokens' = [t \in Tokens |-> "absent"]

At(w, pc) == request[w].pc = pc
Goto(w, pc) == request' = [request EXCEPT ![w].pc = pc]
Finish(w) == request' = [request EXCEPT ![w] = Idle]

(* The token of a request that consumed it and ends without the account. *)
Spoil(w) ==
  spoiled' = spoiled \cup (IF At(w, "create") THEN {request[w].token} ELSE {})

-----------------------------------------------------------------------------
(* Faulty variants, to show that the properties notice them.               *)

(* Both callers of ConsumeByHash are told they consumed the token. *)
ConsumeTwice(w) ==
  /\ At(w, "consume")
  /\ LET t == request[w].token
     IN  IF tokens[t] \in {"unused", "used"}
         THEN tokens' = [tokens EXCEPT ![t] = "used"] /\ Goto(w, "create")
         ELSE Finish(w) /\ UNCHANGED tokens
  /\ UNCHANGED <<users, proc, faults, spoiled>>

(* An administrator does not stop a start-up from minting. *)
MintRegardless ==
  /\ server = "checkAdmin"
  /\ server' = "checkUnused"
  /\ UNCHANGED <<db, env, boots, clean, printed, request, faults, spoiled>>

(* The UPDATE does not ask for the hash: any unused token is consumed. *)
ConsumeUnused(w) ==
  /\ At(w, "consume")
  /\ IF Unused # {}
     THEN tokens' = [t \in Tokens |-> IF t \in Unused THEN "used" ELSE tokens[t]]
          /\ Goto(w, "create")
     ELSE Finish(w) /\ UNCHANGED tokens
  /\ UNCHANGED <<users, proc, faults, spoiled>>

(* The wipe is the end of a start-up that found an unused token. *)
WipeAndServe ==
  /\ server = "wipe"
  /\ DeleteAll
  /\ server' = "serving"
  /\ UNCHANGED <<users, env, boots, clean, printed, request, faults, spoiled>>

(* Rows are marked with a state the schema does not have. *)
SoftDelete(w) ==
  /\ At(w, "clear")
  /\ tokens' = [t \in Tokens |-> "deleted"]
  /\ Finish(w)
  /\ UNCHANGED <<users, proc, faults, spoiled>>

-----------------------------------------------------------------------------
(* Start-up, in the order of main().                                       *)

Boot(e) ==
  /\ server = "down" /\ boots < MaxBoots
  /\ server' = IF e = "development" THEN "seed" ELSE "checkAdmin"
  /\ env' = e
  /\ boots' = boots + 1
  /\ clean' = TRUE
  /\ UNCHANGED <<db, printed, request, faults, spoiled>>

(* Development: the account 'dev', an administrator without a password; no *)
(* setup token.  A name that is taken makes the INSERT fail, logged only.  *)
SeedDevUser ==
  /\ server = "seed"
  /\ users' = IF users[DevName] = "none"
              THEN [users EXCEPT ![DevName] = "passwordless"] ELSE users
  /\ server' = "serving"
  /\ UNCHANGED <<tokens, env, boots, clean, printed, request, faults, spoiled>>

CheckAdmin ==
  /\ server = "checkAdmin"
  /\ server' = IF AnyAdminExists THEN "dropLeftover" ELSE "checkUnused"
  /\ UNCHANGED <<db, env, boots, clean, printed, request, faults, spoiled>>

DropLeftover ==
  /\ server = "dropLeftover"
  /\ DeleteAll
  /\ server' = "serving"
  /\ UNCHANGED <<users, env, boots, clean, printed, request, faults, spoiled>>

CheckUnused ==
  /\ server = "checkUnused"
  /\ server' = IF Unused # {} THEN "wipe" ELSE "mint"
  /\ UNCHANGED <<db, env, boots, clean, printed, request, faults, spoiled>>

(* Only the hash is stored: a token that can no longer be shown is rotated. *)
Wipe ==
  /\ server = "wipe"
  /\ DeleteAll
  /\ server' = "mint"
  /\ UNCHANGED <<users, env, boots, clean, printed, request, faults, spoiled>>

MintToken ==
  /\ server = "mint"
  /\ tokens' = [tokens EXCEPT ![boots] = "unused"]
  /\ server' = "print"
  /\ UNCHANGED <<users, env, boots, clean, printed, request, faults, spoiled>>

PrintToken ==
  /\ server = "print"
  /\ printed' = printed \cup {boots}
  /\ server' = "serving"
  /\ UNCHANGED <<db, env, boots, clean, request, faults, spoiled>>

StartUp ==
  \/ SeedDevUser \/ CheckAdmin \/ DropLeftover \/ CheckUnused
  \/ Wipe \/ MintToken \/ PrintToken

-----------------------------------------------------------------------------
(* POST /auth/setup, with a token the operator has seen.                   *)

StartSetup(w, t, u) ==
  /\ server = "serving" /\ At(w, "idle") /\ t \in printed
  /\ request' = [request EXCEPT ![w] = [pc |-> "check", token |-> t, user |-> u]]
  /\ UNCHANGED <<db, proc, faults, spoiled>>

CheckNoAdmin(w) ==
  /\ At(w, "check")
  /\ IF AnyAdminExists THEN Finish(w) ELSE Goto(w, "consume")
  /\ UNCHANGED <<db, proc, faults, spoiled>>

(* UPDATE ... WHERE token_hash AND used_at IS NULL. *)
ConsumeByHash(w) ==
  /\ At(w, "consume")
  /\ LET t == request[w].token
     IN  IF tokens[t] = "unused"
         THEN tokens' = [tokens EXCEPT ![t] = "used"] /\ Goto(w, "create")
         ELSE Finish(w) /\ UNCHANGED tokens
  /\ UNCHANGED <<users, proc, faults, spoiled>>

(* HashPassword, then the INSERT, which a taken username fails. *)
CreateAdmin(w) ==
  /\ At(w, "create")
  /\ LET u == request[w].user
     IN  IF users[u] = "none"
         THEN /\ users' = [users EXCEPT ![u] = "admin"]
              /\ Goto(w, "clear")
              /\ UNCHANGED spoiled
         ELSE Finish(w) /\ Spoil(w) /\ UNCHANGED users
  /\ UNCHANGED <<tokens, proc, faults>>

ClearTokens(w) ==
  /\ At(w, "clear")
  /\ DeleteAll
  /\ Finish(w)
  /\ UNCHANGED <<users, proc, faults, spoiled>>

SetupAdmin(w) ==
  \/ \E t \in Tokens, u \in Usernames : StartSetup(w, t, u)
  \/ CheckNoAdmin(w)
  \/ ConsumeByHash(w)
  \/ CreateAdmin(w)
  \/ ClearTokens(w)

-----------------------------------------------------------------------------
(* Failures.  Restart is also the operator's docker compose restart.       *)

Restart ==
  /\ server # "down"
  /\ server' = "down"
  /\ request' = [w \in Workers |-> Idle]
  /\ UNCHANGED <<db, env, boots, clean, printed, faults, spoiled>>

Fault ==
  /\ faults < MaxFaults
  /\ faults' = faults + 1

(* A statement of the start-up fails, or succeeds and reports a failure    *)
(* one step later; main() logs a warning and goes on to listen.            *)
StartUpFails ==
  /\ Fault
  /\ server \in Starting
  /\ server' = "serving"
  /\ clean' = FALSE
  /\ UNCHANGED <<db, env, boots, printed, request, spoiled>>

(* A statement of a request fails; the ignored error of ClearTokens too.   *)
RequestFails(w) ==
  /\ Fault
  /\ ~At(w, "idle")
  /\ Finish(w)
  /\ Spoil(w)
  /\ UNCHANGED <<db, proc>>

Next ==
  \/ \E e \in Environments : Boot(e)
  \/ StartUp
  \/ \E w \in Workers : SetupAdmin(w)
  \/ Restart
  \/ StartUpFails
  \/ \E w \in Workers : RequestFails(w)

(* main() is one goroutine that runs until it listens. *)
Spec == Init /\ [][Next]_vars /\ WF_vars(StartUp)

-----------------------------------------------------------------------------
(* Properties.                                                             *)

(* There is never a second administrator with a password, although each    *)
(* SetupAdmin checks AnyAdminExists three statements before its INSERT and *)
(* restarts mint new tokens.                                               *)
OneAdmin == \A u, v \in Admins : u = v

(* "The setup endpoint locks permanently": with an administrator in place  *)
(* there is no unused token and no request that has consumed one and not   *)
(* created its account yet.                                                *)
SetupLocks ==
  AnyAdminExists => Unused = {} /\ \A w \in Workers : ~At(w, "create")

(* What locks the operator out until the next restart.  A production       *)
(* start-up without errors and without an administrator leaves the token   *)
(* of this start in the log, and it opens the door, or the request that    *)
(* consumed it still runs, unless that very request ended without the      *)
(* account: ConsumeByHash comes before the INSERT.  While no statement     *)
(* fails that takes the name of seedDevUser's account, so that the server  *)
(* was once in development.                                                *)
OperatorHasKey ==
  /\ server = "serving" /\ env = "production" /\ clean
  /\ ~AnyAdminExists
  => /\ boots \in printed
     /\ \/ boots \in Unused
        \/ \E w \in Workers : At(w, "create") /\ request[w].token = boots
        \/ boots \in spoiled /\ (faults = 0 => users[DevName] = "passwordless")

(* "A fresh token is minted as long as no admin exists": once failures are *)
(* over, every production start-up ends with an administrator or with an   *)
(* unused token in the log, unless the process is stopped again.           *)
RestartMints ==
  (server = "checkAdmin" /\ faults = MaxFaults) ~>
    \/ server = "down"
    \/ server = "serving" /\ (AnyAdminExists \/ Unused \cap printed # {})
=============================================================================
