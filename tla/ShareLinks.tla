------------------------------ MODULE ShareLinks ------------------------------
(***************************************************************************)
(* What share links promise, with no requests and no statements in sight:  *)
(* a code is used for one link only, whose number of views is limited but  *)
(* for the visits that overlap, that is closed for a reason and for good,  *)
(* and that does not come back once it is gone.                            *)
(***************************************************************************)
EXTENDS Integers

CONSTANTS
  Codes,
  Limits,   \* numbers of views a link may be given, NoLimit among them
  NoLimit,
  Overlap   \* views by which visits at the same time may exceed a limit

VARIABLES
  stage,    \* where the link of a code is in its life
  limit,    \* the views it was given
  views,
  expired   \* codes of links whose time is over

links == <<stage, limit, views, expired>>

Init ==
  /\ stage = [s \in Codes |-> "new"]
  /\ limit = [s \in Codes |-> NoLimit]
  /\ views = [s \in Codes |-> 0]
  /\ expired = {}

Live(s) == stage[s] \in {"open", "closed"}
UsedUp(s) == limit[s] # NoLimit /\ views[s] >= limit[s]

Publish(s, m) ==
  /\ stage[s] = "new"
  /\ stage' = [stage EXCEPT ![s] = "open"]
  /\ limit' = [limit EXCEPT ![s] = m]
  /\ UNCHANGED <<views, expired>>

(* A visit that began before the link was closed still counts. *)
View(s) ==
  /\ Live(s)
  /\ limit[s] # NoLimit => views[s] < limit[s] + Overlap
  /\ views' = [views EXCEPT ![s] = @ + 1]
  /\ UNCHANGED <<stage, limit, expired>>

Expire(s) ==
  /\ Live(s)
  /\ expired' = expired \cup {s}
  /\ UNCHANGED <<stage, limit, views>>

Close(s) ==
  /\ stage[s] = "open"
  /\ s \in expired \/ UsedUp(s)
  /\ stage' = [stage EXCEPT ![s] = "closed"]
  /\ UNCHANGED <<limit, views, expired>>

(* Links are removed, alone or with their clip, or a code comes to nothing. *)
Drop(S) ==
  /\ stage' = [s \in Codes |-> IF s \in S THEN "gone" ELSE stage[s]]
  /\ limit' = [s \in Codes |-> IF s \in S THEN NoLimit ELSE limit[s]]
  /\ views' = [s \in Codes |-> IF s \in S THEN 0 ELSE views[s]]
  /\ UNCHANGED expired

Next ==
  \/ \E s \in Codes :
       \/ \E m \in Limits : Publish(s, m)
       \/ View(s) \/ Expire(s) \/ Close(s)
  \/ \E S \in (SUBSET Codes) \ {{}} : Drop(S)

Spec == Init /\ [][Next]_links
=============================================================================
