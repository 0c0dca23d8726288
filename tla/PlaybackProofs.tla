--------------------------- MODULE PlaybackProofs ---------------------------
(***************************************************************************)
(* Theorems about Playback: the arithmetic of ranges for files, chunks and *)
(* blocks of every size, and what it means for the pages.                  *)
(***************************************************************************)
EXTENDS Playback, TLAPS

-----------------------------------------------------------------------------
(* The arithmetic.                                                         *)

LEMMA Remainder ==
  ASSUME NEW s \in Nat, NEW b \in Nat \ {0}
  PROVE  /\ s % b \in Nat /\ s % b < b /\ s % b <= s
         /\ (s - (s % b)) % b = 0
  <1>1. s % b \in Nat /\ s % b < b /\ s % b <= s
    BY SMT
  <1>2. PICK q \in Nat : s = b * q + (s % b)
    BY SMT
  <1>3. (b * q) % b = 0
    BY SMT
  <1>. QED BY <1>1, <1>2, <1>3

(* What resolveRange promises: a part of the file, and at most a chunk of  *)
(* it if a range was asked for; or, without a header, all of it.           *)
LEMMA Resolved ==
  ASSUME NEW h \in Headers, NEW n \in Nat, ResolveRange(h, n) # Refused
  PROVE  LET r == ResolveRange(h, n)
         IN  /\ r \in [start : Nat, end : Int]
             /\ r.end < n
             /\ \/ r.start <= r.end
                \/ h.form = "none" /\ r.start = 0 /\ r.end = -1 /\ n = 0
             /\ h.form # "none" => r.end - r.start < Chunk
  <1>. USE SizesAssumption
  <1>1. CASE h.form = "none"
    BY <1>1 DEF ResolveRange
  <1>2. CASE h.form = "garbled"
    BY <1>2 DEF ResolveRange
  <1>3. CASE h \in Ranges
    <2>. DEFINE s == AskedStart(h, n)
                e == AskedEnd(h, n)
    <2>1. s \in Nat /\ e \in Int
      BY <1>3 DEF Ranges, Spans, Opens, Suffixes, AskedStart, AskedEnd
    <2>2. ResolveRange(h, n) = IF ParseRange(h, n) = Refused THEN Refused
            ELSE Capped(ParseRange(h, n).start, ParseRange(h, n).end)
      BY <1>3 DEF ResolveRange, Ranges, Spans, Opens, Suffixes
    <2>3. ~(s > e \/ s >= n)
      BY <2>2 DEF ParseRange
    <2>4. ParseRange(h, n) = [start |-> s, end |-> IF e >= n THEN n - 1 ELSE e]
      BY <2>3 DEF ParseRange
    <2>. DEFINE l == IF e >= n THEN n - 1 ELSE e
    <2>5. l \in Int /\ s <= l /\ l < n
      BY <2>1, <2>3
    <2>6. ResolveRange(h, n) = Capped(s, l)
      BY <2>2, <2>4
    <2>7. h.form # "none"
      BY <1>3 DEF Ranges, Spans, Opens, Suffixes
    <2>. HIDE DEF s, e, l
    <2>8. Capped(s, l) = [start |-> s, end |-> IF l - s + 1 > Chunk THEN s + Chunk - 1 ELSE l]
      BY DEF Capped
    <2>. QED BY <2>1, <2>5, <2>6, <2>7, <2>8
  <1>. QED BY <1>1, <1>2, <1>3 DEF Headers, NoHeader, Garbled

(* The detour over the aligned range loses nothing and adds nothing.       *)
LEMMA WholeRangeFetched ==
  ASSUME NEW r \in [start : Nat, end : Int], NEW n \in Nat, r.end < n,
         r.start <= r.end \/ (r.start = 0 /\ r.end = -1 /\ n = 0)
  PROVE  Body(r, n) = r
  <1>. DEFINE f == FetchFrom(r.start)
              k == Skipped(r.start)
              got == Stored(f, r.end, n)
  <1>. USE SizesAssumption
  <1>1. f \in Nat /\ f <= r.start /\ f % Block = 0 /\ k \in Nat /\ f + k = r.start
    <2>1. r.start \in Nat
      OBVIOUS
    <2>. QED BY <2>1, Remainder DEF FetchFrom, Skipped
  <1>2. Body(r, n) =
          [start |-> got.start + k,
           end |-> IF got.end - (got.start + k) + 1 > r.end - r.start + 1
                   THEN (got.start + k) + (r.end - r.start + 1) - 1
                   ELSE IF got.end < (got.start + k) THEN (got.start + k) - 1
                   ELSE got.end]
    BY Zenon DEF Body
  <1>3. r = [start |-> r.start, end |-> r.end]
    OBVIOUS
  <1>. HIDE DEF f, k
  <1>4. CASE r.start <= r.end
    <2>1. ~(r.end < 0 \/ r.end >= n) /\ ~(r.end < 0)
      BY <1>4
    <2>2. ~(2 * (f % Block) >= Block \/ f > r.end)
      BY <1>1, <1>4
    <2>3. got = [start |-> f, end |-> r.end]
      BY <2>1, <2>2 DEF Stored
    <2>. HIDE DEF got
    <2>. QED BY <1>1, <1>2, <1>3, <1>4, <2>3
  <1>5. CASE r.start = 0 /\ r.end = -1 /\ n = 0
    <2>1. f = 0 /\ k = 0
      BY <1>1, <1>5
    <2>2. got = [start |-> 0, end |-> -1]
      BY <1>1, <1>5, <2>1 DEF Stored
    <2>. HIDE DEF got
    <2>. QED BY <1>2, <1>3, <1>5, <2>1, <2>2
  <1>. QED BY <1>4, <1>5

(* The body of an answer is the promised range. *)
LEMMA BodyIsPromised ==
  ASSUME NEW h \in Headers, NEW n \in Nat, ResolveRange(h, n) # Refused
  PROVE  Kept(ResolveRange(h, n), n)
  <1>. DEFINE r == ResolveRange(h, n)
  <1>1. /\ r \in [start : Nat, end : Int] /\ r.end < n
        /\ r.start <= r.end \/ (r.start = 0 /\ r.end = -1 /\ n = 0)
    BY Resolved
  <1>. HIDE DEF r
  <1>3. Body(r, n) = r
    BY <1>1, WholeRangeFetched
  <1>4. Kept(r, n)
    BY <1>1, <1>3 DEF Kept
  <1>. QED BY <1>4 DEF r

-----------------------------------------------------------------------------
(* The invariant.                                                          *)

(* A page has a key from the moment it read the counter, and a clip from   *)
(* the moment it was opened.                                               *)
Keyed(p) ==
  /\ IF page[p].pc \in {"closed", "read"} THEN page[p].key = NoKey ELSE page[p].key \in Nat
  /\ page[p].pc # "closed" => page[p].clip \in Clips

(* What is registered under the key of a page is its clip, unless the key  *)
(* was given twice.                                                        *)
Owned(p) ==
  page[p].pc \in {"idle", "answered", "over"} =>
    \A c \in Clips : <<page[p].key, c>> \in streams => c = page[p].clip \/ Shared(p)

(* An answer was made for some header by resolveRange. *)
Sent(a) ==
  \E h \in Headers :
    /\ a.promised = ResolveRange(h, size[a.clip])
    /\ a.ranged => h.form # "none"

OwnAnswer(p) ==
  /\ page[p].answer # NoClip => page[p].pc = "answered"
  /\ page[p].pc = "answered" =>
       /\ page[p].answer \in Answers
       /\ page[p].answer.clip = page[p].clip \/ Shared(p)
       /\ Sent(page[p].answer)

PageInv(p) == Keyed(p) /\ Owned(p) /\ OwnAnswer(p)

IInv == TypeOK /\ \A p \in Pages : PageInv(p)

-----------------------------------------------------------------------------
(* A page whose key another page has keeps sharing it: a key once read is  *)
(* never replaced.                                                         *)
LEMMA SharedStays ==
  ASSUME NEW q \in Pages, page[q].key # NoKey, Shared(q),
         \A p \in Pages : page[p].key # NoKey => page'[p].key = page[p].key
  PROVE  Shared(q)'
  BY DEF Shared

(* A step that leaves the map, the clips' sizes and the keys and clips of  *)
(* the pages that have one, and touches at most page p, keeps the          *)
(* invariant of the other pages.                                           *)
LEMMA OthersKept ==
  ASSUME IInv, NEW p \in Pages, NEW q \in Pages \ {p},
         page'[q] = page[q], size' = size,
         \A c \in Clips : <<page[q].key, c>> \in streams' =>
           <<page[q].key, c>> \in streams \/ Shared(q)',
         \A r \in Pages : page[r].key # NoKey => page'[r].key = page[r].key
  PROVE  PageInv(q)'
  <1>1. PageInv(q) /\ q \in Pages
    BY DEF IInv
  <1>2. Keyed(q)'
    BY <1>1 DEF PageInv, Keyed
  <1>3. page[q].pc \notin {"closed", "read"} => page[q].key # NoKey
    BY <1>1, PlaybackAssumption DEF PageInv, Keyed
  <1>4. page[q].pc \notin {"closed", "read"} /\ Shared(q) => Shared(q)'
    BY <1>1, <1>3, SharedStays
  <1>5. Owned(q)'
    BY <1>1, <1>4 DEF PageInv, Owned
  <1>6. Sent(page[q].answer) => Sent(page[q].answer)'
    BY DEF Sent
  <1>7. OwnAnswer(q)'
    BY <1>1, <1>4, <1>6 DEF PageInv, OwnAnswer
  <1>. QED BY <1>2, <1>5, <1>7 DEF PageInv

(* A request is answered for a clip registered under the key of the page.  *)
LEMMA RequestKeeps ==
  ASSUME IInv, NEW p \in Pages, NEW h \in Headers, Request(p, h), asks' \in 0..MaxAsks
  PROVE  IInv'
  <1>. USE PlaybackAssumption
  <1>1. page[p].pc = "idle" /\ PageInv(p) /\ TypeOK
    BY DEF Request, At, IInv
  <1>2. PICK c \in Clips :
          /\ <<page[p].key, c>> \in streams
          /\ page' = IF c \in library
                     THEN [page EXCEPT ![p].pc = "answered", ![p].answer = Answer(h, c)]
                     ELSE [page EXCEPT ![p].pc = "over"]
    BY DEF Request
  <1>3. UNCHANGED <<size, library, counter, streams>>
    BY DEF Request
  <1>4. c = page[p].clip \/ Shared(p)
    BY <1>1, <1>2 DEF PageInv, Owned
  <1>5. \A r \in Pages : page'[r].key = page[r].key /\ page'[r].clip = page[r].clip
    BY <1>1, <1>2 DEF TypeOK
  <1>6. Shared(p) => Shared(p)'
    BY <1>5 DEF Shared
  <1>7. \A q \in Pages \ {p} : PageInv(q)'
    <2>1. \A q \in Pages \ {p} : page'[q] = page[q]
      BY <1>1, <1>2 DEF TypeOK
    <2>. QED BY <1>3, <1>5, <2>1, OthersKept
  <1>8. Keyed(p)' /\ Owned(p)'
    BY <1>1, <1>2, <1>3, <1>5, <1>6 DEF PageInv, Keyed, Owned, TypeOK
  <1>9. page[p].answer = NoClip
    BY <1>1 DEF PageInv, OwnAnswer
  <1>10. Answer(h, c) \in Answers
    <2>1. size[c] \in Nat
      BY <1>1 DEF TypeOK
    <2>2. ResolveRange(h, size[c]) \in [start : Int, end : Int]
      BY <2>1, Resolved DEF Refused
    <2>. QED BY <2>2 DEF Answer, Answers
  <1>11. Sent(Answer(h, c))
    BY DEF Sent, Answer
  <1>12. OwnAnswer(p)'
    <2>1. CASE c \in library
      <3>1. page'[p].pc = "answered" /\ page'[p].answer = Answer(h, c)
        BY <1>1, <1>2, <2>1 DEF TypeOK
      <3>2. Sent(Answer(h, c))'
        BY <1>3, <1>11 DEF Sent, Answer
      <3>3. Answer(h, c).clip = c
        BY DEF Answer
      <3>4. page'[p].answer.clip = page'[p].clip \/ Shared(p)'
        BY <1>4, <1>5, <1>6, <3>1, <3>3
      <3>5. Sent(page[p].answer)'
        BY <3>1, <1>3, <1>11 DEF Sent, Answer
      <3>. QED BY <1>10, <3>1, <3>4, <3>5 DEF OwnAnswer
    <2>2. CASE c \notin library
      BY <1>1, <1>2, <1>9, <2>2 DEF OwnAnswer, TypeOK
    <2>. QED BY <2>1, <2>2
  <1>13. TypeOK'
    <2>. DEFINE P == [pc : Steps, clip : Clips \cup {NoClip}, key : Nat \cup {NoKey},
                      pos : Nat, answer : Answers \cup {NoClip}]
    <2>1. page \in [Pages -> P]
      BY <1>1 DEF TypeOK
    <2>2. "answered" \in Steps /\ "over" \in Steps
      BY DEF Steps
    <2>3. page' \in [Pages -> P]
      <3>. HIDE DEF Steps, Answers
      <3>1. CASE c \in library
        <4>1. page' = [page EXCEPT ![p] = [@ EXCEPT !.pc = "answered", !.answer = Answer(h, c)]]
          BY <1>2, <3>1
        <4>2. [page[p] EXCEPT !.pc = "answered", !.answer = Answer(h, c)] \in P
          BY <1>10, <2>1, <2>2
        <4>. QED BY <2>1, <4>1, <4>2
      <3>2. CASE c \notin library
        BY <1>2, <2>1, <2>2, <3>2
      <3>. QED BY <3>1, <3>2
    <2>4. TypeOK
      BY <1>1
    <2>. QED BY <1>3, <2>3, <2>4 DEF TypeOK
  <1>. QED BY <1>7, <1>8, <1>12, <1>13 DEF IInv, PageInv

(* A step of page p that leaves the map alone and puts a record of the     *)
(* right kind in its place.                                                *)
LEMMA PageStep ==
  ASSUME IInv, NEW p \in Pages,
         NEW v \in [pc : Steps, clip : Clips \cup {NoClip}, key : Nat \cup {NoKey},
                    pos : Nat, answer : Answers \cup {NoClip}],
         page' = [page EXCEPT ![p] = v],
         page[p].key # NoKey => v.key = page[p].key,
         UNCHANGED <<size, library, streams>>,
         counter' \in Nat, asks' \in 0..MaxAsks,
         IF v.pc \in {"closed", "read"} THEN v.key = NoKey ELSE v.key \in Nat,
         v.clip \in Clips, v.answer = NoClip, v.pc # "answered",
         v.pc \in {"idle", "answered", "over"} =>
           /\ page[p].pc \in {"idle", "answered", "over"}
           /\ v.key = page[p].key /\ v.clip = page[p].clip
  PROVE  IInv'
  <1>. USE PlaybackAssumption
  <1>1. TypeOK /\ PageInv(p)
    BY DEF IInv
  <1>2. page'[p] = v /\ \A q \in Pages \ {p} : page'[q] = page[q]
    BY <1>1 DEF TypeOK
  <1>3. \A r \in Pages : page[r].key # NoKey => page'[r].key = page[r].key
    BY <1>2
  <1>4. \A q \in Pages \ {p} : PageInv(q)'
    BY <1>2, <1>3, OthersKept
  <1>5. Keyed(p)' /\ OwnAnswer(p)'
    BY <1>2 DEF Keyed, OwnAnswer
  <1>6. Owned(p)'
    <2>1. SUFFICES ASSUME v.pc \in {"idle", "answered", "over"}
                   PROVE  Owned(p)'
      BY <1>2 DEF Owned
    <2>2. Owned(p) /\ page[p].key # NoKey
      BY <1>1, <2>1 DEF PageInv, Keyed
    <2>3. Shared(p) => Shared(p)'
      BY <1>3, <2>2, SharedStays
    <2>. QED BY <1>2, <2>1, <2>2, <2>3 DEF Owned
  <1>7. TypeOK'
    BY <1>1 DEF TypeOK
  <1>. QED BY <1>4, <1>5, <1>6, <1>7 DEF IInv, PageInv

LEMMA RegisterKeeps ==
  ASSUME IInv, NEW p \in Pages, Register(p)
  PROVE  IInv'
  <1>. USE PlaybackAssumption
  <1>. DEFINE k == page[p].key
  <1>1. TypeOK /\ PageInv(p) /\ page[p].pc = "register"
    BY DEF IInv, Register, At
  <1>2. /\ streams' = {s \in streams : s[1] # k} \cup {<<k, page[p].clip>>}
        /\ page' = [page EXCEPT ![p].pc = "idle"]
        /\ UNCHANGED <<size, library, counter, asks>>
    BY DEF Register
  <1>3. k \in Nat
    BY <1>1 DEF PageInv, Keyed
  <1>4. \A r \in Pages : /\ page'[r].key = page[r].key
                         /\ page'[r].clip = page[r].clip
                         /\ page'[r].answer = page[r].answer
    BY <1>1, <1>2 DEF TypeOK
  <1>5. \A q \in Pages \ {p} : PageInv(q)'
    <2>1. SUFFICES ASSUME NEW q \in Pages \ {p} PROVE PageInv(q)'
      OBVIOUS
    <2>2. page'[q] = page[q]
      BY <1>1, <1>2 DEF TypeOK
    <2>3. ASSUME NEW c \in Clips, <<page[q].key, c>> \in streams'
          PROVE  <<page[q].key, c>> \in streams \/ Shared(q)'
      <3>1. CASE page[q].key = k
        BY <1>4, <3>1 DEF Shared
      <3>2. CASE page[q].key # k
        BY <1>2, <2>3, <3>2
      <3>. QED BY <3>1, <3>2
    <2>. QED BY <1>2, <1>4, <2>2, <2>3, OthersKept
  <1>6. Keyed(p)' /\ page'[p].pc = "idle"
    <2>1. page'[p].pc = "idle"
      BY <1>1, <1>2 DEF TypeOK
    <2>2. page[p].clip \in Clips
      BY <1>1 DEF PageInv, Keyed
    <2>. QED BY <1>3, <1>4, <2>1, <2>2 DEF Keyed
  <1>7. Owned(p)'
    BY <1>2, <1>4 DEF Owned
  <1>8. OwnAnswer(p)'
    BY <1>1, <1>4, <1>6 DEF PageInv, OwnAnswer
  <1>9. TypeOK'
    <2>1. page[p].clip \in Clips
      BY <1>1 DEF PageInv, Keyed
    <2>2. streams' \subseteq Nat \X Clips
      BY <1>1, <1>2, <1>3, <2>1 DEF TypeOK
    <2>3. page' \in [Pages -> [pc : Steps, clip : Clips \cup {NoClip},
                               key : Nat \cup {NoKey}, pos : Nat,
                               answer : Answers \cup {NoClip}]]
      <3>1. "idle" \in Steps
        BY DEF Steps
      <3>. QED BY <1>1, <1>2, <3>1 DEF TypeOK
    <2>. QED BY <1>1, <1>2, <2>2, <2>3 DEF TypeOK
  <1>. QED BY <1>5, <1>6, <1>7, <1>8, <1>9 DEF IInv, PageInv

-----------------------------------------------------------------------------
(* Every step keeps the invariant.                                         *)

(* What an answer promises ends before -1 at the earliest, so the element  *)
(* that received it stands at a position of the file.                      *)
LEMMA ReceivedEnd ==
  ASSUME IInv, NEW p \in Pages, page[p].pc = "answered",
         page[p].answer.promised # Refused
  PROVE  Body(page[p].answer.promised, size[page[p].answer.clip]).end + 1 \in Nat
  <1>. DEFINE a == page[p].answer
              r == a.promised
              n == size[a.clip]
  <1>1. a \in Answers /\ n \in Nat
    BY PlaybackAssumption DEF IInv, TypeOK, Answers, PageInv, OwnAnswer
  <1>2. Sent(a)
    BY DEF IInv, PageInv, OwnAnswer
  <1>3. PICK h \in Headers : r = ResolveRange(h, n)
    BY <1>2 DEF Sent
  <1>4. /\ r \in [start : Nat, end : Int] /\ r.end < n
        /\ r.start <= r.end \/ (r.start = 0 /\ r.end = -1 /\ n = 0)
    BY <1>1, <1>3, Resolved
  <1>5. Body(r, n) = r
    <2>. HIDE DEF r, n
    <2>. QED BY <1>1, <1>4, WholeRangeFetched
  <1>. HIDE DEF r, n
  <1>6. r.end + 1 \in Nat
    BY <1>4
  <1>. QED BY <1>5, <1>6 DEF r, n

LEMMA InitKeeps == Init => IInv
  <1>. SUFFICES ASSUME Init PROVE IInv
    OBVIOUS
  <1>. USE PlaybackAssumption
  <1>1. \A p \in Pages : page[p] = Closed
    BY DEF Init
  <1>2. TypeOK
    BY DEF Init, TypeOK, Closed, Steps
  <1>3. \A p \in Pages : PageInv(p)
    BY <1>1 DEF PageInv, Keyed, Owned, OwnAnswer, Closed
  <1>. QED BY <1>2, <1>3 DEF IInv

LEMMA NextKeeps == IInv /\ [Next]_vars => IInv'
  <1>. SUFFICES ASSUME IInv, [Next]_vars PROVE IInv'
    OBVIOUS
  <1>. USE PlaybackAssumption
  <1>0. TypeOK /\ \A q \in Pages : PageInv(q)
    BY DEF IInv
  <1>. DEFINE P == [pc : Steps, clip : Clips \cup {NoClip}, key : Nat \cup {NoKey},
                    pos : Nat, answer : Answers \cup {NoClip}]
  <1>1. ASSUME NEW p \in Pages, NEW c \in Clips, Open(p, c) PROVE IInv'
    <2>. DEFINE v == [page[p] EXCEPT !.pc = "read", !.clip = c]
    <2>1. page[p] \in P /\ page[p].pc = "closed" /\ Keyed(p) /\ OwnAnswer(p)
      BY <1>0, <1>1 DEF TypeOK, Open, At, PageInv
    <2>2. page' = [page EXCEPT ![p] = v]
      BY <1>1 DEF Open
    <2>3. v \in P /\ v.pc = "read" /\ v.clip = c /\ v.key = page[p].key /\ v.answer = NoClip
      BY <2>1 DEF Steps, OwnAnswer
    <2>4. page[p].key = NoKey
      BY <2>1 DEF Keyed
    <2>. HIDE DEF v
    <2>. QED BY <1>0, <1>1, <2>2, <2>3, <2>4, PageStep DEF Open, TypeOK
  <1>2. ASSUME NEW p \in Pages, ReadCounter(p) PROVE IInv'
    <2>. DEFINE v == [page[p] EXCEPT !.pc = "bump", !.key = counter]
    <2>1. page[p] \in P /\ page[p].pc = "read" /\ Keyed(p) /\ OwnAnswer(p) /\ counter \in Nat
      BY <1>0, <1>2 DEF TypeOK, ReadCounter, At, PageInv
    <2>2. page' = [page EXCEPT ![p] = v]
      BY <1>2 DEF ReadCounter
    <2>3. v \in P /\ v.pc = "bump" /\ v.clip = page[p].clip /\ v.key = counter /\ v.answer = NoClip
      BY <2>1 DEF Steps, OwnAnswer
    <2>4. page[p].key = NoKey /\ page[p].clip \in Clips
      BY <2>1 DEF Keyed
    <2>. HIDE DEF v
    <2>. QED BY <1>0, <1>2, <2>1, <2>2, <2>3, <2>4, PageStep DEF ReadCounter, TypeOK
  <1>3. ASSUME NEW p \in Pages, BumpCounter(p) PROVE IInv'
    <2>. DEFINE v == [page[p] EXCEPT !.pc = "register"]
    <2>1. page[p] \in P /\ page[p].pc = "bump" /\ Keyed(p) /\ OwnAnswer(p) /\ counter \in Nat
      BY <1>0, <1>3 DEF TypeOK, BumpCounter, At, PageInv
    <2>2. page' = [page EXCEPT ![p] = v]
      BY <1>3 DEF BumpCounter
    <2>3. v \in P /\ v.pc = "register" /\ v.clip = page[p].clip /\ v.key = page[p].key /\ v.answer = NoClip
      BY <2>1 DEF Steps, OwnAnswer
    <2>4. page[p].key \in Nat /\ page[p].clip \in Clips
      BY <2>1 DEF Keyed
    <2>5. counter' \in Nat
      BY <1>3, <2>1, <2>4 DEF BumpCounter
    <2>. HIDE DEF v
    <2>. QED BY <1>0, <1>3, <2>2, <2>3, <2>4, <2>5, PageStep DEF BumpCounter, TypeOK
  <1>4. ASSUME NEW p \in Pages, Register(p) PROVE IInv'
    BY <1>4, RegisterKeeps
  <1>5. ASSUME NEW p \in Pages, ReadOn(p) PROVE IInv'
    <2>. DEFINE h == [form |-> "open", from |-> page[p].pos]
    <2>1. h \in Headers
      BY <1>0 DEF TypeOK, Headers, Ranges, Opens
    <2>. HIDE DEF h
    <2>2. Request(p, h) /\ asks' \in 0..MaxAsks
      BY <1>0, <1>5 DEF ReadOn, h, TypeOK
    <2>. QED BY <2>1, <2>2, RequestKeeps
  <1>6. ASSUME NEW p \in Pages, NEW h \in Odd, Seek(p, h) PROVE IInv'
    <2>1. h \in Headers
      BY DEF Odd, Headers, Ranges, Spans, Opens, Suffixes
    <2>2. Request(p, h) /\ asks' \in 0..MaxAsks
      BY <1>0, <1>6 DEF Seek, TypeOK
    <2>. QED BY <2>1, <2>2, RequestKeeps
  <1>7. ASSUME NEW p \in Pages, Receive(p) PROVE IInv'
    <2>. DEFINE a == page[p].answer
                v == [page[p] EXCEPT !.pc = "idle", !.answer = NoClip,
                        !.pos = IF a.promised = Refused THEN @
                                ELSE Body(a.promised, size[a.clip]).end + 1]
    <2>1. page[p] \in P /\ page[p].pc = "answered" /\ Keyed(p)
      BY <1>0, <1>7 DEF TypeOK, Receive, At, PageInv
    <2>2. page' = [page EXCEPT ![p] = v]
      BY <1>7 DEF Receive
    <2>3. v.pos \in Nat
      <3>1. CASE a.promised = Refused
        BY <2>1, <3>1
      <3>2. CASE a.promised # Refused
        BY <2>1, <3>2, ReceivedEnd
      <3>. QED BY <3>1, <3>2
    <2>4. v \in P /\ v.pc = "idle" /\ v.clip = page[p].clip /\ v.key = page[p].key /\ v.answer = NoClip
      BY <2>1, <2>3 DEF Steps
    <2>5. page[p].key \in Nat /\ page[p].clip \in Clips
      BY <2>1 DEF Keyed
    <2>. HIDE DEF v
    <2>. QED BY <1>0, <1>7, <2>1, <2>2, <2>4, <2>5, PageStep DEF Receive, TypeOK
  <1>8. ASSUME NEW p \in Pages, RequestFails(p) PROVE IInv'
    <2>. DEFINE v == [page[p] EXCEPT !.pc = "idle", !.answer = NoClip]
    <2>1. page[p] \in P /\ page[p].pc = "answered" /\ Keyed(p)
      BY <1>0, <1>8 DEF TypeOK, RequestFails, At, PageInv
    <2>2. page' = [page EXCEPT ![p] = v]
      BY <1>8 DEF RequestFails
    <2>3. v \in P /\ v.pc = "idle" /\ v.clip = page[p].clip /\ v.key = page[p].key /\ v.answer = NoClip
      BY <2>1 DEF Steps
    <2>4. page[p].key \in Nat /\ page[p].clip \in Clips
      BY <2>1 DEF Keyed
    <2>5. asks' \in 0..MaxAsks
      BY <1>0, <1>8 DEF RequestFails, TypeOK
    <2>. HIDE DEF v
    <2>. QED BY <1>0, <1>8, <2>1, <2>2, <2>3, <2>4, <2>5, PageStep DEF RequestFails, TypeOK
  <1>9. ASSUME UNCHANGED <<size, counter, streams, page, asks>>, library' \subseteq library
        PROVE  IInv'
    <2>1. TypeOK'
      BY <1>0, <1>9 DEF TypeOK
    <2>2. \A q \in Pages : PageInv(q)'
      BY <1>0, <1>9 DEF PageInv, Keyed, Owned, OwnAnswer, Sent, Shared
    <2>. QED BY <2>1, <2>2 DEF IInv
  <1>10. ASSUME NEW c \in Clips, DeleteClip(c) PROVE IInv'
    BY <1>9, <1>10 DEF DeleteClip
  <1>11. CASE UNCHANGED vars
    BY <1>9, <1>11 DEF vars
  <1>. QED BY <1>1, <1>2, <1>3, <1>4, <1>5, <1>6, <1>7, <1>8, <1>10, <1>11
           DEF Next, Proxy, Play

-----------------------------------------------------------------------------
(* The theorems.                                                           *)

LEMMA Invariance == Spec => []IInv
  BY InitKeeps, NextKeeps, PTL DEF Spec

(* A page's video element is where reading the file can have taken it, and *)
(* every answer is one resolveRange gives.                                 *)
THEOREM TypeCorrect == Spec => []TypeOK
  <1>1. IInv => TypeOK
    BY DEF IInv
  <1>. QED BY <1>1, Invariance, PTL

(* What DownloadClip answers a range request with is part of the file and  *)
(* at most a chunk, for every header and every size of file, chunk and     *)
(* block.                                                                  *)
THEOREM AnswersAreShort == Spec => []ShortAnswers
  <1>1. IInv => ShortAnswers
    <2>1. SUFFICES ASSUME IInv, NEW p \in Pages, page[p].answer # NoClip,
                          page[p].answer.ranged, page[p].answer.promised # Refused
                   PROVE  LET a == page[p].answer
                          IN  /\ 0 <= a.promised.start /\ a.promised.start <= a.promised.end
                              /\ a.promised.end < size[a.clip]
                              /\ a.promised.end - a.promised.start < Chunk
      BY DEF ShortAnswers
    <2>. DEFINE a == page[p].answer
    <2>2. a \in Answers /\ Sent(a) /\ size \in [Clips -> Sizes]
      BY <2>1 DEF IInv, PageInv, OwnAnswer, TypeOK
    <2>3. size[a.clip] \in Nat
      BY <2>2, PlaybackAssumption DEF Answers
    <2>4. PICK h \in Headers : a.promised = ResolveRange(h, size[a.clip]) /\ h.form # "none"
      BY <2>1, <2>2 DEF Sent
    <2>. QED BY <2>1, <2>3, <2>4, Resolved
  <1>. QED BY <1>1, Invariance, PTL

(* The video element of a page gets exactly the bytes of its clip that it  *)
(* was promised, whatever the interleaving of pages, as long as the racing *)
(* counter gave its key to no other page.                                  *)
THEOREM PagesGetTheirBytes == Spec => []RightBytes
  <1>1. IInv => RightBytes
    <2>1. SUFFICES ASSUME IInv, NEW p \in Pages, page[p].answer # NoClip,
                          page[p].answer.promised # Refused
                   PROVE  LET a == page[p].answer
                          IN  /\ a.clip = page[p].clip \/ Shared(p)
                              /\ Kept(a.promised, size[a.clip])
      BY DEF RightBytes
    <2>. DEFINE a == page[p].answer
    <2>2. /\ a \in Answers /\ Sent(a) /\ size \in [Clips -> Sizes]
          /\ a.clip = page[p].clip \/ Shared(p)
      BY <2>1 DEF IInv, PageInv, OwnAnswer, TypeOK
    <2>3. size[a.clip] \in Nat
      BY <2>2, PlaybackAssumption DEF Answers
    <2>4. PICK h \in Headers : a.promised = ResolveRange(h, size[a.clip])
      BY <2>2 DEF Sent
    <2>. QED BY <2>1, <2>2, <2>3, <2>4, BodyIsPromised
  <1>. QED BY <1>1, Invariance, PTL
=============================================================================
