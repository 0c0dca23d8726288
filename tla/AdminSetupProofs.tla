-------------------------- MODULE AdminSetupProofs --------------------------
(***************************************************************************)
(* Proofs about AdminSetup for any number of requests, boots, usernames    *)
(* and failures.  The key to them is that the permission to create the     *)
(* administrator is a single thing that is handed on: from the unused      *)
(* token to the request that consumed it, and from there to the account.   *)
(***************************************************************************)
EXTENDS AdminSetup, TLAPS

(* An unused token, a request about to create the account, and an          *)
(* administrator exclude one another, and there is one of each at most.    *)
OneChance ==
  /\ \A s, t \in Unused : s = t
  /\ \A v, w \in Workers : At(v, "create") /\ At(w, "create") => v = w
  /\ OneAdmin
  /\ Unused # {} => ~AnyAdminExists /\ \A w \in Workers : ~At(w, "create")
  /\ (\E w \in Workers : At(w, "create")) => ~AnyAdminExists

(* Nothing but main() runs before the server listens. *)
StartUpAlone ==
  server # "serving" => \A w \in Workers : At(w, "idle")

(* What main() has established when it reaches a statement. *)
StartUpKnows ==
  /\ server # "down" => boots \in Tokens
  /\ server = "seed" => env = "development"
  /\ server = "dropLeftover" => AnyAdminExists
  /\ server \in {"checkUnused", "wipe", "mint", "print"} => ~AnyAdminExists
  /\ server = "mint" => Unused = {}
  /\ server = "print" => tokens[boots] = "unused"

(* The request that clears the tokens has created the administrator. *)
ClearsAfterCreate ==
  (\E w \in Workers : At(w, "clear")) => AnyAdminExists

(* Only seedDevUser makes an account without a password. *)
OneSeeded == \A u \in Usernames : users[u] = "passwordless" => u = DevName

Inv ==
  /\ TypeOK
  /\ OneSeeded
  /\ OneChance
  /\ StartUpAlone
  /\ StartUpKnows
  /\ ClearsAfterCreate
  /\ OperatorHasKey

(* A fresh database and a stopped process satisfy the invariant. *)
LEMMA InitInv == Init => Inv
  BY DevNameAssumption, BoundsAssumption
  DEF Init, Inv, TypeOK, OneSeeded, Idle, OneChance, StartUpAlone, StartUpKnows,
      ClearsAfterCreate, OperatorHasKey, OneAdmin, Admins, AnyAdminExists,
      Unused, At

(* Every statement of main(), EnsureSetupToken and SetupAdmin keeps types. *)
LEMMA NextTypeOK ==
  ASSUME TypeOK, StartUpKnows, [Next]_vars
  PROVE  TypeOK'
  <1> USE DEF db, proc
  <1>1. ASSUME NEW e \in Environments, Boot(e) PROVE TypeOK'
    <2>1. boots' \in 0..MaxBoots
      BY <1>1, BoundsAssumption DEF TypeOK, Boot
    <2>2. env' \in {"development", "production"} /\ clean' \in BOOLEAN
      BY <1>1, EnvironmentsAssumption DEF Boot
    <2>3. server' \in {"down", "serving"} \cup Starting
      BY <1>1 DEF Boot, Starting
    <2>4. QED
      BY <1>1, <2>1, <2>2, <2>3 DEF TypeOK, Boot
  <1>2. CASE StartUp
    <2>1. users' \in [Usernames -> {"none", "passwordless", "admin"}]
      BY <1>2, DevNameAssumption
      DEF TypeOK, StartUp, SeedDevUser, CheckAdmin, DropLeftover, CheckUnused,
          Wipe, MintToken, PrintToken
    <2>2. tokens' \in [Tokens -> {"absent", "unused", "used"}]
      BY <1>2
      DEF TypeOK, StartUp, SeedDevUser, CheckAdmin, DropLeftover, CheckUnused,
          Wipe, MintToken, PrintToken, DeleteAll
    <2>3. server' \in {"down", "serving"} \cup Starting
      BY <1>2
      DEF StartUp, SeedDevUser, CheckAdmin, DropLeftover, CheckUnused,
          Wipe, MintToken, PrintToken, Starting
    <2>4. printed' \subseteq Tokens
      <3>1. CASE PrintToken
        BY <3>1 DEF TypeOK, PrintToken, StartUpKnows
      <3>2. QED
        BY <1>2, <3>1
        DEF TypeOK, StartUp, SeedDevUser, CheckAdmin, DropLeftover,
            CheckUnused, Wipe, MintToken
    <2>5. UNCHANGED <<env, boots, clean, request, faults, spoiled>>
      BY <1>2
      DEF StartUp, SeedDevUser, CheckAdmin, DropLeftover, CheckUnused,
          Wipe, MintToken, PrintToken
    <2>6. QED
      BY <2>1, <2>2, <2>3, <2>4, <2>5 DEF TypeOK
  <1>3. ASSUME NEW w \in Workers, SetupAdmin(w) PROVE TypeOK'
    <2> USE DEF TypeOK, At, Goto, Finish, Idle
    <2>1. ASSUME NEW t \in Tokens, NEW u \in Usernames, StartSetup(w, t, u)
          PROVE  TypeOK'
      BY <2>1 DEF StartSetup
    <2>2. CASE CheckNoAdmin(w)
      BY <2>2, DevNameAssumption DEF CheckNoAdmin
    <2>3. CASE ConsumeByHash(w)
      BY <2>3, DevNameAssumption DEF ConsumeByHash
    <2>4. CASE CreateAdmin(w)
      BY <2>4, DevNameAssumption DEF CreateAdmin, Spoil
    <2>5. CASE ClearTokens(w)
      BY <2>5, DevNameAssumption DEF ClearTokens, DeleteAll
    <2>6. QED
      BY <1>3, <2>1, <2>2, <2>3, <2>4, <2>5 DEF SetupAdmin
  <1>4. CASE Restart
    BY <1>4, DevNameAssumption DEF TypeOK, Restart, Idle
  <1>5. CASE StartUpFails
    <2>1. faults' \in 0..MaxFaults
      BY <1>5, BoundsAssumption DEF TypeOK, StartUpFails, Fault
    <2>2. clean' \in BOOLEAN /\ server' \in {"down", "serving"} \cup Starting
      BY <1>5 DEF StartUpFails
    <2>3. QED
      BY <1>5, <2>1, <2>2 DEF TypeOK, StartUpFails
  <1>6. ASSUME NEW w \in Workers, RequestFails(w) PROVE TypeOK'
    BY <1>6, BoundsAssumption, DevNameAssumption
    DEF TypeOK, RequestFails, Fault, Finish, Spoil, Idle, At
  <1>7. CASE UNCHANGED vars
    BY <1>7 DEF TypeOK, vars
  <1>8. QED
    BY <1>1, <1>2, <1>3, <1>4, <1>5, <1>6, <1>7 DEF Next

(* The statements of a start-up: no request runs, so what one statement    *)
(* read the next may rely on.                                              *)
LEMMA StartUpInv ==
  ASSUME Inv, StartUp \/ \E e \in Environments : Boot(e)
  PROVE  Inv'
  <1> USE DEF Inv, TypeOK, OneSeeded, OneChance, StartUpAlone, StartUpKnows,
      ClearsAfterCreate, OperatorHasKey, OneAdmin, Admins, AnyAdminExists,
      Unused, At, db, proc, Tokens, DeleteAll
  <1>0. TypeOK'
    BY NextTypeOK DEF Next
  <1>1. ASSUME NEW e \in Environments, Boot(e) PROVE Inv'
    BY <1>0, <1>1, EnvironmentsAssumption, BoundsAssumption DEF Boot
  <1>2. CASE SeedDevUser
    BY <1>0, <1>2 DEF SeedDevUser
  <1>3. CASE CheckAdmin
    BY <1>0, <1>3 DEF CheckAdmin
  <1>4. CASE DropLeftover
    BY <1>0, <1>4 DEF DropLeftover
  <1>5. CASE CheckUnused
    BY <1>0, <1>5 DEF CheckUnused
  <1>6. CASE Wipe
    BY <1>0, <1>6 DEF Wipe
  <1>7. CASE MintToken
    BY <1>0, <1>7 DEF MintToken
  <1>8. CASE PrintToken
    BY <1>0, <1>8 DEF PrintToken
  <1>9. QED
    BY <1>1, <1>2, <1>3, <1>4, <1>5, <1>6, <1>7, <1>8 DEF StartUp

(* What a step of a request does to the token of this start: it consumes   *)
(* it and holds it, hands it on to the account, or spoils it.              *)
LEMMA KeyKept ==
  ASSUME Inv, NEW w \in Workers, SetupAdmin(w) \/ RequestFails(w)
  PROVE  OperatorHasKey'
  <1> USE DEF Inv, At, db, proc
  <1> DEFINE Due == /\ server = "serving" /\ env = "production" /\ clean
                    /\ ~AnyAdminExists
             Holds(v) == At(v, "create") /\ request[v].token = boots
             Lost == boots \in spoiled /\ (faults = 0 => users[DevName] = "passwordless")
  <1>1. OperatorHasKey <=>
          (Due => boots \in printed
                  /\ (boots \in Unused \/ (\E v \in Workers : Holds(v)) \/ Lost))
    BY DEF OperatorHasKey
  <1>2. OperatorHasKey' <=>
          (Due' => (boots \in printed)'
                   /\ ((boots \in Unused)' \/ (\E v \in Workers : Holds(v)') \/ Lost'))
    BY DEF OperatorHasKey
  <1>3. UNCHANGED <<server, env, boots, clean, printed>>
    BY DEF SetupAdmin, StartSetup, CheckNoAdmin, ConsumeByHash, CreateAdmin,
           ClearTokens, RequestFails
  <1>4. request \in [Workers -> {Idle} \cup
          [pc : {"check", "consume", "create", "clear"},
           token : Tokens, user : Usernames]]
    BY DEF TypeOK
  <1>5. CASE UNCHANGED <<users, tokens, faults, spoiled>> /\ ~At(w, "create")
             /\ request' = [request EXCEPT ![w] = request'[w]]
    <2>1. UNCHANGED <<AnyAdminExists, Unused>>
      BY <1>5 DEF AnyAdminExists, Admins, Unused
    <2>2. \A v \in Workers : Holds(v) => Holds(v)'
      BY <1>3, <1>4, <1>5
    <2>3. Lost => Lost'
      BY <1>3, <1>5
    <2>4. QED
      BY <1>1, <1>2, <1>3, <2>1, <2>2, <2>3
  <1>6. ASSUME NEW t \in Tokens, NEW u \in Usernames, StartSetup(w, t, u)
        PROVE  OperatorHasKey'
    BY <1>4, <1>5, <1>6 DEF StartSetup
  <1>7. CASE CheckNoAdmin(w)
    BY <1>4, <1>5, <1>7 DEF CheckNoAdmin, Goto, Finish
  <1>8. CASE ConsumeByHash(w)
    <2> DEFINE t == request[w].token
    <2>1. At(w, "consume") /\ UNCHANGED <<users, faults, spoiled>>
      BY <1>8 DEF ConsumeByHash
    <2>2. CASE tokens[t] = "unused"
      <3>1. /\ tokens' = [tokens EXCEPT ![t] = "used"]
            /\ request' = [request EXCEPT ![w].pc = "create"]
        BY <1>8, <2>2 DEF ConsumeByHash, Goto
      <3>2. t \in Unused /\ \A v \in Workers : ~At(v, "create")
        BY <1>4, <2>1, <2>2 DEF Unused, OneChance, Idle
      <3>3. boots \in Unused => Holds(w)'
        BY <1>3, <1>4, <2>1, <3>1, <3>2 DEF OneChance, Idle
      <3>4. Due' => Due
        BY <1>3, <2>1 DEF AnyAdminExists, Admins
      <3>5. Lost => Lost'
        BY <1>3, <2>1
      <3>6. QED
        BY <1>1, <1>2, <1>3, <3>2, <3>3, <3>4, <3>5
    <2>3. CASE tokens[t] # "unused"
      BY <1>4, <1>5, <1>8, <2>1, <2>3 DEF ConsumeByHash, Finish
    <2>4. QED
      BY <2>2, <2>3
  <1>9. CASE At(w, "create") /\ Finish(w) /\ Spoil(w) /\ UNCHANGED <<users, tokens>>
             /\ (faults' = 0 => faults = 0 /\ users[DevName] = "passwordless")
    <2>1. Due' => Due
      BY <1>3, <1>9 DEF AnyAdminExists, Admins
    <2>2. boots \notin Unused
      BY <1>9 DEF OneChance
    <2>3. \A v \in Workers : At(v, "create") => v = w
      BY <1>9 DEF OneChance
    <2>4. Holds(w) \/ Lost => Lost'
      BY <1>3, <1>9 DEF Spoil
    <2>5. QED
      BY <1>1, <1>2, <1>3, <2>1, <2>2, <2>3, <2>4
  <1>10. CASE CreateAdmin(w)
    <2>1. request[w].user \in Usernames /\ At(w, "create")
      BY <1>4, <1>10 DEF CreateAdmin, Idle
    <2>2. CASE users[request[w].user] = "none"
      <3>1. users' = [users EXCEPT ![request[w].user] = "admin"]
        BY <1>10, <2>2 DEF CreateAdmin
      <3>2. AnyAdminExists'
        BY <2>1, <3>1 DEF AnyAdminExists, Admins, TypeOK
      <3>3. QED
        BY <1>2, <3>2
    <2>3. CASE users[request[w].user] # "none"
      <3>1. users[request[w].user] # "admin"
        BY <2>1 DEF OneChance, AnyAdminExists, Admins
      <3>2. users[DevName] = "passwordless"
        BY <2>1, <2>3, <3>1, DevNameAssumption DEF TypeOK, OneSeeded
      <3>3. QED
        BY <1>9, <1>10, <2>1, <2>3, <3>2 DEF CreateAdmin
    <2>4. QED
      BY <2>2, <2>3
  <1>11. CASE ClearTokens(w)
    <2>1. AnyAdminExists'
      BY <1>11 DEF ClearTokens, ClearsAfterCreate, AnyAdminExists, Admins
    <2>2. QED
      BY <1>2, <2>1
  <1>12. CASE RequestFails(w)
    <2>1. faults' # 0 /\ Finish(w) /\ Spoil(w) /\ UNCHANGED <<users, tokens>>
      BY <1>12 DEF RequestFails, Fault, TypeOK
    <2>2. CASE At(w, "create")
      BY <1>9, <2>1, <2>2
    <2>3. CASE ~At(w, "create")
      <3>1. Due' => Due
        BY <1>3, <2>1 DEF AnyAdminExists, Admins
      <3>2. Unused' = Unused
        BY <2>1 DEF Unused
      <3>3. \A v \in Workers : Holds(v) => Holds(v)'
        BY <1>3, <1>4, <2>1, <2>3 DEF Finish
      <3>4. Lost => Lost'
        BY <1>3, <2>1 DEF Spoil
      <3>5. QED
        BY <1>1, <1>2, <1>3, <3>1, <3>2, <3>3, <3>4
    <2>4. QED
      BY <2>2, <2>3
  <1>13. QED
    BY <1>6, <1>7, <1>8, <1>10, <1>11, <1>12 DEF SetupAdmin

(* The statements of SetupAdmin: only the request that consumed the one    *)
(* token can insert an administrator.                                      *)
LEMMA RequestInv ==
  ASSUME Inv, NEW w \in Workers, SetupAdmin(w)
  PROVE  Inv'
  <1> USE DEF Inv, TypeOK, OneSeeded, OneChance, StartUpAlone, StartUpKnows,
      ClearsAfterCreate, OneAdmin, Admins, AnyAdminExists,
      Unused, At, db, proc, Tokens, Goto, Finish, Spoil, Idle
  <1>0. TypeOK' /\ OperatorHasKey'
    BY NextTypeOK, KeyKept DEF Next
  <1>1. ASSUME NEW t \in Tokens, NEW u \in Usernames, StartSetup(w, t, u)
        PROVE  Inv'
    BY <1>0, <1>1 DEF StartSetup
  <1>2. CASE CheckNoAdmin(w)
    BY <1>0, <1>2 DEF CheckNoAdmin
  <1>3. CASE ConsumeByHash(w)
    <2> DEFINE t == request[w].token
    <2>1. At(w, "consume") /\ UNCHANGED <<users, server, env, boots, clean, printed>>
      BY <1>3 DEF ConsumeByHash
    <2>2. CASE tokens[t] = "unused"
      <3>1. /\ tokens' = [tokens EXCEPT ![t] = "used"]
            /\ request' = [request EXCEPT ![w].pc = "create"]
        BY <1>3, <2>2 DEF ConsumeByHash
      <3>2. t \in Tokens /\ Unused = {t} /\ ~AnyAdminExists
            /\ \A v \in Workers : ~At(v, "create")
        <4>1. t \in Tokens
          BY <2>1
        <4>2. QED
          BY <2>2, <4>1
      <3>3. Unused' = {}
        BY <3>1, <3>2
      <3>4. /\ \A v \in Workers : At(v, "create")' => v = w
            /\ \A v \in Workers \ {w} : request'[v] = request[v]
            /\ request'[w].pc = "create"
        BY <3>1, <3>2
      <3>5. server = "serving"
        BY <2>1
      <3>6. QED
        BY <1>0, <2>1, <3>1, <3>2, <3>3, <3>4, <3>5
    <2>3. CASE tokens[t] # "unused"
      <3>1. request' = [request EXCEPT ![w] = Idle] /\ UNCHANGED tokens
        BY <1>3, <2>3 DEF ConsumeByHash
      <3>2. \A v \in Workers : request'[v] = request[v] \/ At(v, "idle")'
        BY <3>1
      <3>3. server = "serving"
        BY <2>1
      <3>4. QED
        BY <1>0, <2>1, <3>1, <3>2, <3>3
    <2>4. QED
      BY <2>2, <2>3
  <1>4. CASE CreateAdmin(w)
    <2>1. /\ At(w, "create") /\ ~AnyAdminExists /\ Unused = {}
          /\ \A v \in Workers : At(v, "create") => v = w
          /\ UNCHANGED <<tokens, server, env, boots, clean, printed>>
      BY <1>4 DEF CreateAdmin
    <2>2. CASE users[request[w].user] = "none"
      <3>1. users' = [users EXCEPT ![request[w].user] = "admin"]
        BY <1>4, <2>2 DEF CreateAdmin
      <3>2. request' = [request EXCEPT ![w].pc = "clear"]
        BY <1>4, <2>2 DEF CreateAdmin
      <3>3. Admins' = {request[w].user}
        BY <2>1, <3>1
      <3>4. \A v \in Workers : ~At(v, "create")' /\ (At(v, "idle")' => At(v, "idle"))
        BY <2>1, <3>2
      <3>5. server = "serving"
        BY <2>1
      <3>6. QED
        BY <1>0, <2>1, <3>1, <3>3, <3>4, <3>5
    <2>3. CASE users[request[w].user] # "none"
      BY <1>0, <1>4, <2>3 DEF CreateAdmin
    <2>4. QED
      BY <2>2, <2>3
  <1>5. CASE ClearTokens(w)
    BY <1>0, <1>5 DEF ClearTokens, DeleteAll
  <1>6. QED
    BY <1>1, <1>2, <1>3, <1>4, <1>5 DEF SetupAdmin

(* Starts, restarts and failing statements end requests and begin none.    *)
LEMMA FailureInv ==
  ASSUME Inv,
         \/ Restart
         \/ StartUpFails
         \/ \E w \in Workers : RequestFails(w)
         \/ UNCHANGED vars
  PROVE  Inv'
  <1> USE DEF Inv, TypeOK, OneSeeded, OneChance, StartUpAlone, StartUpKnows,
      ClearsAfterCreate, OneAdmin, Admins, AnyAdminExists,
      Unused, At, db, proc, Finish, Spoil, Idle
  <1>0. TypeOK'
    BY NextTypeOK DEF Next
  <1>1. CASE Restart
    BY <1>0, <1>1 DEF Restart, OperatorHasKey
  <1>2. CASE StartUpFails
    BY <1>0, <1>2 DEF StartUpFails, Starting, OperatorHasKey
  <1>3. ASSUME NEW w \in Workers, RequestFails(w) PROVE Inv'
    <2>1. OperatorHasKey'
      BY <1>3, KeyKept
    <2>2. /\ request' = [request EXCEPT ![w] = Idle]
          /\ UNCHANGED <<users, tokens, server, env, boots>>
      BY <1>3 DEF RequestFails
    <2>3. \A v \in Workers : request'[v] = request[v] \/ At(v, "idle")'
      BY <2>2
    <2>4. QED
      BY <1>0, <2>1, <2>2, <2>3
  <1>4. CASE UNCHANGED vars
    BY <1>4 DEF vars, OperatorHasKey
  <1>5. QED
    BY <1>1, <1>2, <1>3, <1>4

(* The one token, the one request that may have consumed it and what the   *)
(* start-up has found out so far agree in every state.                     *)
THEOREM Invariant == Spec => []Inv
  <1>1. Inv /\ [Next]_vars => Inv'
    BY StartUpInv, RequestInv, FailureInv DEF Next
  <1>2. QED
    BY InitInv, <1>1, PTL DEF Spec

(* Every variable of the bootstrap keeps its shape through any sequence of *)
(* boots, requests and failures.                                           *)
THEOREM TypeCorrect == Spec => []TypeOK
  BY Invariant, PTL DEF Inv

(* However many SetupAdmin calls pass AnyAdminExists together, and however *)
(* often the process restarts and mints, one password administrator is all *)
(* that ever comes of it.                                                  *)
THEOREM AtMostOneAdmin == Spec => []OneAdmin
  BY Invariant, PTL DEF Inv, OneChance

(* The setup endpoint is locked by the account itself: with it in place no *)
(* token can be consumed and no request is past consumption.               *)
THEOREM SetupLocksForGood == Spec => []SetupLocks
  <1>1. Inv => SetupLocks
    BY DEF Inv, OneChance, SetupLocks
  <1>2. QED
    BY <1>1, Invariant, PTL

(* After a production start-up without errors the token in the log is the  *)
(* way in, or a request is using it up, unless that request failed after   *)
(* ConsumeByHash: by a fault, or by the name of the seeded account.        *)
THEOREM LogShowsTheKey == Spec => []OperatorHasKey
  BY Invariant, PTL DEF Inv
=============================================================================
