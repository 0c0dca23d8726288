---------------------------- MODULE InviteLedger ----------------------------
(***************************************************************************)
(* What the invite system promises, with no requests, statements or        *)
(* failures in sight: every invite runs through a one-way life, is spent   *)
(* at most once, and pays for at most one device, which is registered for  *)
(* the user who spent it.                                                  *)
(***************************************************************************)
EXTENDS Naturals

CONSTANTS Codes, Users, NoUser

VARIABLES
  stage,   \* where an invite is in its life
  holder,  \* who spent it
  devices  \* the registered devices, [user, code] records

ledger == <<stage, holder, devices>>

Init ==
  /\ stage = [c \in Codes |-> "unminted"]
  /\ holder = [c \in Codes |-> NoUser]
  /\ devices = {}

Mint(c) ==
  /\ stage[c] = "unminted"
  /\ stage' = [stage EXCEPT ![c] = "open"]
  /\ UNCHANGED <<holder, devices>>

Withdraw(c) ==
  /\ stage[c] = "open"
  /\ stage' = [stage EXCEPT ![c] = "withdrawn"]
  /\ UNCHANGED <<holder, devices>>

Spend(c, u) ==
  /\ stage[c] = "open"
  /\ stage' = [stage EXCEPT ![c] = "spent"]
  /\ holder' = [holder EXCEPT ![c] = u]
  /\ UNCHANGED devices

Register(c) ==
  /\ stage[c] = "spent"
  /\ \A d \in devices : d.user # holder[c]
  /\ stage' = [stage EXCEPT ![c] = "paid"]
  /\ devices' = devices \cup {[user |-> holder[c], code |-> c]}
  /\ UNCHANGED holder

Unregister(u) ==
  /\ devices' = {d \in devices : d.user # u}
  /\ UNCHANGED <<stage, holder>>

Next ==
  \/ \E c \in Codes : Mint(c) \/ Withdraw(c) \/ Register(c)
  \/ \E c \in Codes, u \in Users : Spend(c, u)
  \/ \E u \in Users : Unregister(u)

Spec == Init /\ [][Next]_ledger
=============================================================================
