---------------------------- MODULE RangeRequest ----------------------------
(***************************************************************************)
(* The arithmetic of HTTP range requests: what part of a file the server   *)
(* promises to answer a Range header with, and what it asks the object     *)
(* store for.  Both ends of a range are inclusive, as in the protocol.     *)
(***************************************************************************)
EXTENDS Integers

CONSTANTS
  Chunk,   \* maxRangeChunkBytes
  Block    \* the block size of the object store, GetObjectRange's alignment

ASSUME SizesAssumption == Chunk \in Nat \ {0} /\ Block \in Nat \ {0}

(* A Range header parseRange can read: "a-b", "a-", "-n"; any other text   *)
(* is an invalid format.                                                   *)
Spans    == [form : {"span"}, from : Nat, to : Nat]
Opens    == [form : {"open"}, from : Nat]
Suffixes == [form : {"suffix"}, last : Nat]
Ranges   == Spans \cup Opens \cup Suffixes
NoHeader == [form |-> "none"]
Garbled  == [form |-> "garbled"]
Headers  == Ranges \cup {NoHeader, Garbled}

Refused == [start |-> -1, end |-> -1]

(* A faulty cap: one byte more than a chunk. *)
CappedLate(s, e) == [start |-> s, end |-> IF e - s > Chunk THEN s + Chunk ELSE e]

Capped(s, e) == [start |-> s, end |-> IF e - s + 1 > Chunk THEN s + Chunk - 1 ELSE e]

(* The range parseRange reads, before it is checked against the size. *)
AskedStart(h, size) ==
  IF h.form = "suffix" THEN (IF size - h.last < 0 THEN 0 ELSE size - h.last) ELSE h.from
AskedEnd(h, size) == IF h.form = "span" THEN h.to ELSE size - 1

(* A faulty parseRange that does not clamp the end. *)
ParseRangeUnclamped(h, size) ==
  LET s == AskedStart(h, size)
      e == AskedEnd(h, size)
  IN  IF s > e \/ s >= size THEN Refused ELSE [start |-> s, end |-> e]

ParseRange(h, size) ==
  LET s == AskedStart(h, size)
      e == AskedEnd(h, size)
  IN  IF s > e \/ s >= size THEN Refused
      ELSE [start |-> s, end |-> IF e >= size THEN size - 1 ELSE e]

(* Without a header the whole file, however large; of an empty one the     *)
(* range is empty.                                                         *)
ResolveRange(h, size) ==
  IF h.form = "none" THEN [start |-> 0, end |-> size - 1]
  ELSE IF h.form = "garbled" THEN Refused
  ELSE LET r == ParseRange(h, size)
       IN  IF r = Refused THEN Refused ELSE Capped(r.start, r.end)

(* A faulty GetObjectRange that asks the store for the range itself. *)
FetchFromUnaligned(s) == s

(* GetObjectRange asks for the range from the start of its block and skips *)
(* what comes before it.                                                   *)
FetchFrom(s) == s - (s % Block)
Skipped(s) == s % Block

(* The object store answers a range with the bytes it has of it, but with  *)
(* none when the range begins in the second half of a block.  The client's *)
(* SetRange sends an end of -1 as "the last byte".                         *)
Stored(from, end, size) ==
  LET first == IF end < 0 THEN (IF size = 0 THEN 0 ELSE size - 1) ELSE from
      last  == IF end < 0 \/ end >= size THEN size - 1 ELSE end
  IN  IF 2 * (first % Block) >= Block \/ first > last
      THEN [start |-> first, end |-> first - 1]
      ELSE [start |-> first, end |-> last]

(* The bytes of the file in the body of the answer: after the skipped      *)
(* prefix, and never more than Content-Length; none when the store's       *)
(* answer is shorter than the prefix.                                      *)
Body(r, size) ==
  LET got    == Stored(FetchFrom(r.start), r.end, size)
      length == r.end - r.start + 1
      first  == got.start + Skipped(r.start)
  IN  [start |-> first,
       end   |-> IF got.end - first + 1 > length THEN first + length - 1
                 ELSE IF got.end < first THEN first - 1 ELSE got.end]

(* The body is the promised range. *)
Kept(r, size) ==
  LET b == Body(r, size)
  IN  b.end - b.start = r.end - r.start /\ (r.start <= r.end => b.start = r.start)
=============================================================================
