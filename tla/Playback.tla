------------------------------ MODULE Playback ------------------------------
(***************************************************************************)
(* Playing a clip in the desktop client.                                   *)
(*                                                                         *)
(* A clip page registers the clip's download URL with the local media      *)
(* server (ProxyVideoURL) and gives its video element the local URL it     *)
(* gets back.  The element asks that URL for ranges of the file, in order  *)
(* or after a seek; the local server looks the URL up and passes the       *)
(* request on to GET /clips/:id/download, which answers with at most a     *)
(* chunk.  Pages run concurrently, and ProxyVideoURL takes its key from a  *)
(* counter it reads and increments outside the lock.                       *)
(***************************************************************************)
EXTENDS RangeRequest

CONSTANTS
  Pages,     \* clip pages opened in the client
  Clips,
  Sizes,     \* the sizes files may have
  Numbers,   \* the numbers in the headers of seeks
  NoClip,
  NoKey,
  MaxAsks    \* bound on the seeks and failed requests

ASSUME PlaybackAssumption ==
  /\ Sizes \subseteq Nat /\ Numbers \subseteq Nat /\ MaxAsks \in Nat
  /\ NoClip \notin Clips /\ NoKey \notin Nat

VARIABLES
  size,     \* file_size_bytes of a clip, which is the size of its object
  library,  \* clips that are not deleted
  counter,  \* streamCounter
  streams,  \* streamMap: pairs of a key and the clip its URL is of
  page,     \* what each clip page is doing
  asks      \* seeks and failed requests so far

vars == <<size, library, counter, streams, page, asks>>

-----------------------------------------------------------------------------
Answers == [clip : Clips, promised : [start : Int, end : Int], ranged : BOOLEAN]
Steps == {"closed", "read", "bump", "register", "idle", "answered", "over"}

TypeOK ==
  /\ size \in [Clips -> Sizes]
  /\ library \subseteq Clips
  /\ counter \in Nat
  /\ streams \subseteq Nat \X Clips
  /\ page \in [Pages -> [pc : Steps, clip : Clips \cup {NoClip}, key : Nat \cup {NoKey},
                         pos : Nat, answer : Answers \cup {NoClip}]]
  /\ asks \in 0..MaxAsks

Closed == [pc |-> "closed", clip |-> NoClip, key |-> NoKey, pos |-> 0,
           answer |-> NoClip]

Init ==
  /\ size \in [Clips -> Sizes]
  /\ library = Clips
  /\ counter = 0
  /\ streams = {}
  /\ page = [p \in Pages |-> Closed]
  /\ asks = 0

At(p, pc) == page[p].pc = pc

-----------------------------------------------------------------------------
(* Faulty variants, to show that the properties notice them.               *)

(* An entry is kept when another is registered under its key. *)
RegisterFirst(p) ==
  /\ At(p, "register")
  /\ streams' = streams \cup {<<0, page[p].clip>>}
  /\ page' = [page EXCEPT ![p].pc = "idle"]
  /\ UNCHANGED <<size, library, counter, asks>>

(* The element starts again where the answer began. *)
ReceiveAgain(p) ==
  /\ At(p, "answered")
  /\ page' = [page EXCEPT ![p].pc = "idle", ![p].answer = NoClip,
                          ![p].pos = page[p].answer.promised.start]
  /\ UNCHANGED <<size, library, counter, streams, asks>>

-----------------------------------------------------------------------------
(* ProxyVideoURL, called when the clip has been fetched. *)

Open(p, c) ==
  /\ At(p, "closed") /\ c \in library
  /\ page' = [page EXCEPT ![p].pc = "read", ![p].clip = c]
  /\ UNCHANGED <<size, library, counter, streams, asks>>

ReadCounter(p) ==
  /\ At(p, "read")
  /\ page' = [page EXCEPT ![p].pc = "bump", ![p].key = counter]
  /\ UNCHANGED <<size, library, counter, streams, asks>>

(* The increment races: it may read the counter again, or use what was     *)
(* read for the key.                                                       *)
BumpCounter(p) ==
  /\ At(p, "bump")
  /\ counter' \in {counter + 1, page[p].key + 1}
  /\ page' = [page EXCEPT ![p].pc = "register"]
  /\ UNCHANGED <<size, library, streams, asks>>

Register(p) ==
  /\ At(p, "register")
  /\ LET k == page[p].key
     IN  streams' = {s \in streams : s[1] # k} \cup {<<k, page[p].clip>>}
  /\ page' = [page EXCEPT ![p].pc = "idle"]
  /\ UNCHANGED <<size, library, counter, asks>>

-----------------------------------------------------------------------------
(* A request of the video element: the entry of its key is looked up, the  *)
(* request passed on, and DownloadClip answers for the clip of the entry,  *)
(* with 404 if that clip is gone.                                          *)

Answer(h, c) ==
  [clip |-> c, promised |-> ResolveRange(h, size[c]), ranged |-> h.form # "none"]

Request(p, h) ==
  /\ At(p, "idle")
  /\ \E c \in Clips :
       /\ <<page[p].key, c>> \in streams
       /\ page' = IF c \in library
                  THEN [page EXCEPT ![p].pc = "answered", ![p].answer = Answer(h, c)]
                  ELSE [page EXCEPT ![p].pc = "over"]
  /\ UNCHANGED <<size, library, counter, streams>>

(* The element reads on from where it is. *)
ReadOn(p) ==
  /\ At(p, "idle") /\ page[p].pos < size[page[p].clip]
  /\ Request(p, [form |-> "open", from |-> page[p].pos])
  /\ UNCHANGED asks

Odd == [form : {"span"}, from : Numbers, to : Numbers] \cup [form : {"open"}, from : Numbers]
       \cup [form : {"suffix"}, last : Numbers] \cup {NoHeader, Garbled}

Seek(p, h) == asks < MaxAsks /\ asks' = asks + 1 /\ Request(p, h)

(* The answer arrives; the element has the bytes up to its end.  416 has   *)
(* none.                                                                   *)
Receive(p) ==
  /\ At(p, "answered")
  /\ LET a == page[p].answer
     IN  page' = [page EXCEPT ![p].pc = "idle", ![p].answer = NoClip,
                              ![p].pos = IF a.promised = Refused THEN @
                                         ELSE Body(a.promised, size[a.clip]).end + 1]
  /\ UNCHANGED <<size, library, counter, streams, asks>>

(* The object store or the connection fails; the element asks again. *)
RequestFails(p) ==
  /\ At(p, "answered") /\ asks < MaxAsks
  /\ page' = [page EXCEPT ![p].pc = "idle", ![p].answer = NoClip]
  /\ asks' = asks + 1
  /\ UNCHANGED <<size, library, counter, streams>>

DeleteClip(c) ==
  /\ library' = library \ {c}
  /\ UNCHANGED <<size, counter, streams, page, asks>>

Proxy(p) == ReadCounter(p) \/ BumpCounter(p) \/ Register(p)
Play(p) == ReadOn(p) \/ Receive(p)
GoOn(p) == Proxy(p) \/ Play(p)

Next ==
  \/ \E p \in Pages :
       \/ \E c \in Clips : Open(p, c)
       \/ Proxy(p)
       \/ Play(p)
       \/ \E h \in Odd : Seek(p, h)
       \/ RequestFails(p)
  \/ \E c \in Clips : DeleteClip(c)

(* The video element keeps reading while it plays, and every call of the   *)
(* local server returns.                                                   *)
Spec == Init /\ [][Next]_vars /\ \A p \in Pages : WF_vars(GoOn(p))

-----------------------------------------------------------------------------
(* Properties.                                                             *)

(* Pages that got the same key from the racing counter. *)
Shared(p) == \E q \in Pages \ {p} : page[q].key = page[p].key

Played(p) == page[p].clip # NoClip /\ page[p].pos >= size[page[p].clip]

(* What the video element gets is what it asked for: bytes of the page's   *)
(* own clip, the promised range of the file and all of it, although the    *)
(* object store is asked for another range than the client asked for.      *)
(* Only a key that ProxyVideoURL gave twice can mix up two clips.          *)
RightBytes ==
  \A p \in Pages :
    LET a == page[p].answer
    IN  a # NoClip /\ a.promised # Refused =>
          /\ a.clip = page[p].clip \/ Shared(p)
          /\ Kept(a.promised, size[a.clip])

(* No answer to a range request is longer than a chunk, nor does it claim  *)
(* a byte the file has not: "capping each range response to a small chunk  *)
(* keeps every response short-lived" (handlers/clip.go:873).               *)
ShortAnswers ==
  \A p \in Pages :
    LET a == page[p].answer
    IN  a # NoClip /\ a.ranged /\ a.promised # Refused =>
          /\ 0 <= a.promised.start /\ a.promised.start <= a.promised.end
          /\ a.promised.end < size[a.clip]
          /\ a.promised.end - a.promised.start < Chunk

(* A clip can be played to its end although each answer is one chunk: an   *)
(* element that reads on gets there, unless the clip is deleted or its key *)
(* was given twice.                                                        *)
PlaysToEnd ==
  \A p \in Pages :
    At(p, "idle") ~> Played(p) \/ At(p, "over") \/ Shared(p)
=============================================================================
