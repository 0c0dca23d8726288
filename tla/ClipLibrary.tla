----------------------------- MODULE ClipLibrary -----------------------------
(***************************************************************************)
(* What the library promises of its clips, with no requests, stores or     *)
(* failures in sight: a clip appears together with its video, can be       *)
(* played for as long as its owner has not asked for its deletion, and     *)
(* once it is gone never comes back.                                       *)
(***************************************************************************)
CONSTANT Clips

VARIABLES
  stage,    \* where a clip is in its life
  playable  \* the clips in the library whose video is there

library == <<stage, playable>>

Init ==
  /\ stage = [c \in Clips |-> "absent"]
  /\ playable = {}

Publish(c) ==
  /\ stage[c] = "absent"
  /\ stage' = [stage EXCEPT ![c] = "listed"]
  /\ playable' = playable \cup {c}

(* The owner asks for the deletion. *)
Doom(c) ==
  /\ stage[c] = "listed"
  /\ stage' = [stage EXCEPT ![c] = "doomed"]
  /\ UNCHANGED playable

(* A deletion that fails half-way leaves a clip without its video. *)
Lose(c) ==
  /\ stage[c] = "doomed"
  /\ playable' = playable \ {c}
  /\ UNCHANGED stage

Drop(c) ==
  /\ stage[c] = "doomed"
  /\ stage' = [stage EXCEPT ![c] = "gone"]
  /\ playable' = playable \ {c}

Next == \E c \in Clips : Publish(c) \/ Doom(c) \/ Lose(c) \/ Drop(c)

Spec == Init /\ [][Next]_library
=============================================================================
