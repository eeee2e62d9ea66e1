------------------------- MODULE TargetBufferProofs -------------------------
(***************************************************************************)
(* The ring of bytes of a target does what TargetSizes says of its         *)
(* amounts, for every size, and keeps the bytes in order.                  *)
(***************************************************************************)
EXTENDS TargetBuffer, TargetProofs

-----------------------------------------------------------------------------
(* Positions.                                                              *)

Cells(n) == [0 .. n - 1 -> 0 .. Wrap]

Kept(t) ==
  t \in [conn : {"none", "done"}, len : 0 .. Wrap - 1, head : Nat, tail : Nat,
         cells : Cells(t.len), block : BOOLEAN, listed : BOOLEAN, dropped : BOOLEAN]

\* Where the i-th byte that waits is, and its number.
At(t, i) == (t.head + i) % t.len
Number(g, i) == (g + i) % Wrap

Ordered(t, g) == t.len > 0 => \A i \in 0 .. DataLen(t) - 1 : t.cells[At(t, i)] = Number(g, i)

\* A state of a handler in which the ring is as it should be.
Held(s) ==
  /\ s \in [t : {s.t}, bit : BOOLEAN, gone : 0 .. Wrap - 1]
  /\ Kept(s.t) /\ (s.bit <=> s.t.block) /\ Inside(s.t) /\ Ordered(s.t, s.gone)

LEMMA Lengths ==
  /\ PackMax \in Nat \ {0} /\ Mega \in Nat \ {0} /\ SendSize \in Nat \ {0}
  /\ Over \in Nat /\ SafeOver \in Nat /\ Over <= SafeOver
  /\ MaxExpand \in Nat /\ BlockSize \in Nat /\ BlockSize = SendSize + Mega
  /\ MaxExpand = 2 * SendSize + Mega /\ Wrap = MaxExpand + BlockSize + 1
  /\ Wrap \in Nat \ {0} /\ InitLen \in Nat /\ InitLen > 0 /\ InitLen < Wrap
  BY SizesAssumption DEF MaxExpand, BlockSize, Wrap, InitLen

LEMMA Mod ==
  ASSUME NEW n \in Nat \ {0}, NEW a \in Nat, a < 2 * n
  PROVE  a % n = IF a < n THEN a ELSE a - n
  OBVIOUS

LEMMA ModSum ==
  ASSUME NEW n \in Nat \ {0}, NEW x \in 0 .. n - 1, NEW y \in 0 .. n - 1
  PROVE  /\ (x + y) % n = IF x + y < n THEN x + y ELSE x + y - n
         /\ (x + y) % n \in 0 .. n - 1
<1> DEFINE a == x + y
<1>1. a \in Nat /\ a < 2 * n
  OBVIOUS
<1>2. a % n = IF a < n THEN a ELSE a - n
  <2> HIDE DEF a
  <2>1. QED
    BY <1>1, Mod
<1> DEFINE m == (x + y) % n
<1>3. m \in 0 .. n - 1
  <2>1. m = IF x + y < n THEN x + y ELSE x + y - n
    BY <1>2
  <2> HIDE DEF m
  <2>2. QED
    BY <2>1
<1>4. QED
  BY <1>2, <1>3

LEMMA ModShift ==
  ASSUME NEW n \in Nat \ {0}, NEW x \in 0 .. n - 1, NEW k \in Nat, NEW i \in Nat, k + i < n
  PROVE  /\ (x + k) % n \in 0 .. n - 1
         /\ (((x + k) % n) + i) % n = (x + (k + i)) % n
<1>1. k \in 0 .. n - 1 /\ i \in 0 .. n - 1 /\ k + i \in 0 .. n - 1
  OBVIOUS
<1> DEFINE m == (x + k) % n
<1>2. m = (IF x + k < n THEN x + k ELSE x + k - n) /\ m \in 0 .. n - 1
  BY <1>1, ModSum
<1> HIDE DEF m
<1>3. (m + i) % n = IF m + i < n THEN m + i ELSE m + i - n
  BY <1>1, <1>2, ModSum
<1>4. (x + (k + i)) % n = IF x + (k + i) < n THEN x + (k + i) ELSE x + (k + i) - n
  BY <1>1, ModSum
<1>5. (m + i) % n = (x + (k + i)) % n
  BY <1>1, <1>2, <1>3, <1>4
<1>6. QED
  BY <1>2, <1>5 DEF m

\* The data and the space of a ring whose positions are inside it.
LEMMA Positions ==
  ASSUME NEW t, Kept(t), Inside(t)
  PROVE  /\ t.len \in Nat /\ t.head \in Nat /\ t.tail \in Nat /\ DataLen(t) \in Nat
         /\ t.len > 0 => /\ t.head < t.len /\ t.tail < t.len /\ DataLen(t) < t.len
                         /\ EmptySpace(t) = t.len - DataLen(t) - 1
         /\ t.len = 0 => DataLen(t) = 0 /\ t.head = 0 /\ t.tail = 0
         /\ DataLen(t) = 0 <=> t.head = t.tail
<1>1. t.len \in Nat /\ t.head \in Nat /\ t.tail \in Nat
  BY DEF Kept
<1>2. QED
  BY <1>1 DEF Inside, DataLen, EmptySpace

LEMMA AmountType ==
  ASSUME NEW t, Kept(t), Inside(t) \/ t.head = t.tail
  PROVE  /\ Amount(t) \in Target
         /\ Amount(t).conn = t.conn /\ Amount(t).len = t.len /\ Amount(t).data = DataLen(t)
         /\ Amount(t).block = t.block /\ Amount(t).listed = t.listed /\ Amount(t).dropped = t.dropped
<1>1. /\ t.conn \in {"none", "done"} /\ t.len \in Nat /\ t.head \in Nat /\ t.tail \in Nat
      /\ t.block \in BOOLEAN /\ t.listed \in BOOLEAN /\ t.dropped \in BOOLEAN
  BY Lengths DEF Kept
<1>2. DataLen(t) \in Nat
  <2>1. CASE Inside(t)
    BY <2>1, Positions
  <2>2. CASE t.head = t.tail
    BY <2>2, <1>1 DEF DataLen
  <2>3. QED
    BY <2>1, <2>2
<1> DEFINE d == DataLen(t)
<1> HIDE DEF d
<1>3. Amount(t) = [conn |-> t.conn, len |-> t.len, data |-> d, block |-> t.block,
                   listed |-> t.listed, dropped |-> t.dropped]
  BY DEF Amount, d
<1>4. QED
  BY <1>1, <1>2, <1>3 DEF Target, d

LEMMA SameTarget ==
  ASSUME NEW a \in Target, NEW b \in Target,
         a.conn = b.conn, a.len = b.len, a.data = b.data,
         a.block = b.block, a.listed = b.listed, a.dropped = b.dropped
  PROVE  a = b
  BY DEF Target

\* The byte that waits at place k + i is the i-th when k have gone.
LEMMA Shifted ==
  ASSUME NEW g \in 0 .. Wrap - 1, NEW k \in Nat, NEW i \in Nat, k + i < Wrap
  PROVE  /\ Number(g, k) \in 0 .. Wrap - 1
         /\ Number(Number(g, k), i) = Number(g, k + i)
  BY Lengths, ModShift DEF Number

-----------------------------------------------------------------------------
(* Sending.                                                                *)

LEMMA HeldFields ==
  ASSUME NEW s, Held(s)
  PROVE  /\ s = [t |-> s.t, bit |-> s.bit, gone |-> s.gone]
         /\ s.bit \in BOOLEAN /\ s.gone \in 0 .. Wrap - 1
         /\ s.t.block \in BOOLEAN /\ (s.bit <=> s.t.block)
         /\ Kept(s.t) /\ Inside(s.t) /\ Ordered(s.t, s.gone)
         /\ s.t.len \in Nat
  BY DEF Held, Kept

LEMMA HeldIntro ==
  ASSUME NEW t, Kept(t), Inside(t), NEW b \in BOOLEAN, b <=> t.block,
         NEW g \in 0 .. Wrap - 1, Ordered(t, g)
  PROVE  Held([t |-> t, bit |-> b, gone |-> g])
  BY DEF Held

\* Fields of a target and of a state that are assigned.
Same(r, t) == r.conn = t.conn /\ r.listed = t.listed /\ r.dropped = t.dropped
SameRing(r, t) == r.len = t.len /\ r.head = t.head /\ r.tail = t.tail /\ r.cells = t.cells

LEMMA Laid ==
  ASSUME NEW t, Kept(t), NEW n \in 0 .. Wrap - 1, NEW h \in Nat, NEW l \in Nat, NEW m \in Cells(n)
  PROVE  LET r == [t EXCEPT !.len = n, !.head = h, !.tail = l, !.cells = m] IN
         /\ Kept(r) /\ Same(r, t) /\ r.block = t.block
         /\ r.len = n /\ r.head = h /\ r.tail = l /\ r.cells = m
  BY DEF Kept, Same

LEMMA Refilled ==
  ASSUME NEW t, Kept(t), NEW n \in 0 .. Wrap - 1, NEW m \in Cells(n)
  PROVE  LET r == [t EXCEPT !.len = n, !.cells = m] IN
         /\ Kept(r) /\ Same(r, t) /\ r.block = t.block
         /\ r.len = n /\ r.head = t.head /\ r.tail = t.tail /\ r.cells = m
  BY DEF Kept, Same

LEMMA Written ==
  ASSUME NEW t, Kept(t), NEW l \in Nat, NEW m \in Cells(t.len)
  PROVE  LET r == [t EXCEPT !.cells = m, !.tail = l] IN
         /\ Kept(r) /\ Same(r, t) /\ r.block = t.block
         /\ r.len = t.len /\ r.head = t.head /\ r.tail = l /\ r.cells = m
  BY DEF Kept, Same

LEMMA HeadMoved ==
  ASSUME NEW t, Kept(t), NEW h \in Nat
  PROVE  LET r == [t EXCEPT !.head = h] IN
         /\ Kept(r) /\ Same(r, t) /\ r.block = t.block
         /\ r.len = t.len /\ r.head = h /\ r.tail = t.tail /\ r.cells = t.cells
  BY DEF Kept, Same

LEMMA BlockSet ==
  ASSUME NEW t, Kept(t), NEW b \in BOOLEAN
  PROVE  LET r == [t EXCEPT !.block = b] IN
         Kept(r) /\ Same(r, t) /\ SameRing(r, t) /\ (r.block <=> b)
  BY DEF Kept, Same, SameRing

LEMMA ListedSet ==
  ASSUME NEW t, Kept(t), NEW b \in BOOLEAN
  PROVE  LET r == [t EXCEPT !.listed = b] IN
         /\ Kept(r) /\ SameRing(r, t) /\ r.block = t.block /\ r.conn = t.conn
         /\ r.dropped = t.dropped /\ (r.listed <=> b)
  BY DEF Kept, SameRing

LEMMA DroppedSet ==
  ASSUME NEW t, Kept(t), NEW b \in BOOLEAN
  PROVE  LET r == [t EXCEPT !.dropped = b] IN
         /\ Kept(r) /\ SameRing(r, t) /\ r.block = t.block /\ r.conn = t.conn
         /\ r.listed = t.listed /\ (r.dropped <=> b)
  BY DEF Kept, SameRing

LEMMA ConnSet ==
  ASSUME NEW t, Kept(t), NEW c \in {"none", "done"}
  PROVE  LET r == [t EXCEPT !.conn = c] IN
         /\ Kept(r) /\ SameRing(r, t) /\ r.block = t.block /\ r.conn = c
         /\ r.listed = t.listed /\ r.dropped = t.dropped
  BY DEF Kept, SameRing

LEMMA ConnBlockSet ==
  ASSUME NEW t, Kept(t), NEW c \in {"none", "done"}
  PROVE  LET r == [t EXCEPT !.conn = c, !.block = FALSE] IN
         /\ Kept(r) /\ SameRing(r, t) /\ ~r.block /\ r.conn = c
         /\ r.listed = t.listed /\ r.dropped = t.dropped
  BY DEF Kept, SameRing

\* The same ring has the same data.
LEMMA RingData ==
  ASSUME NEW t, NEW r, SameRing(r, t), NEW g
  PROVE  /\ DataLen(r) = DataLen(t) /\ EmptySpace(r) = EmptySpace(t)
         /\ Inside(r) <=> Inside(t)
         /\ Ordered(r, g) <=> Ordered(t, g)
  BY DEF SameRing, DataLen, EmptySpace, Inside, Ordered, At

-----------------------------------------------------------------------------
(* Closing, blocking and the end of a send.                                *)

LEMMA NoBufferKept ==
  ASSUME NEW t, Kept(t)
  PROVE  LET r == NoBuffer(t) IN
         /\ Kept(r) /\ Same(r, t) /\ r.block = t.block /\ r.len = 0 /\ r.head = 0 /\ r.tail = 0
         /\ Inside(r) /\ DataLen(r) = 0 /\ \A g : Ordered(r, g)
<1> DEFINE r == NoBuffer(t)
<1>1. Empty \in Cells(0) /\ 0 \in 0 .. Wrap - 1
  BY Lengths DEF Empty, Cells
<1>2. r = [t EXCEPT !.len = 0, !.head = 0, !.tail = 0, !.cells = Empty]
  BY DEF NoBuffer
<1> HIDE DEF r
<1>3. /\ Kept(r) /\ Same(r, t) /\ r.block = t.block /\ r.len = 0 /\ r.head = 0 /\ r.tail = 0
  <2> DEFINE z == 0
  <2>1. r = [t EXCEPT !.len = z, !.head = z, !.tail = z, !.cells = Empty]
    BY <1>2
  <2>2. z \in Nat /\ z \in 0 .. Wrap - 1 /\ Empty \in Cells(z)
    BY <1>1
  <2> HIDE DEF z
  <2>3. Kept(r) /\ Same(r, t) /\ r.block = t.block /\ r.len = z /\ r.head = z /\ r.tail = z
    BY ONLY <2>1, <2>2, Kept(t) DEF Kept, Same
  <2>4. QED
    BY <2>3 DEF z
<1>4. Inside(r) /\ DataLen(r) = 0 /\ \A g : Ordered(r, g)
  BY <1>3 DEF Inside, DataLen, Ordered
<1>5. QED
  BY <1>3, <1>4 DEF r

LEMMA ClosedHeld ==
  ASSUME NEW s, Kept(s.t), Inside(s.t) \/ s.t.head = s.t.tail
  PROVE  Held(Closed(s)) /\ Amount(Closed(s).t) = Close(Amount(s.t))
<1> DEFINE t == s.t
<1> DEFINE u == NoBuffer(t)
<1> DEFINE r == [u EXCEPT !.conn = "none", !.block = FALSE]
<1>1. Kept(t) /\ (Inside(t) \/ t.head = t.tail)
  OBVIOUS
<1>2. Closed(s) = [t |-> r, bit |-> FALSE, gone |-> 0]
  BY DEF Closed
<1> HIDE DEF t
<1>3. /\ Kept(u) /\ Same(u, t) /\ u.len = 0 /\ Inside(u) /\ DataLen(u) = 0 /\ Ordered(u, 0)
  BY <1>1, NoBufferKept
<1> HIDE DEF u
<1>4. /\ Kept(r) /\ SameRing(r, u) /\ ~r.block /\ r.conn = "none"
      /\ r.listed = u.listed /\ r.dropped = u.dropped
  BY <1>3, ConnBlockSet
<1> HIDE DEF r
<1>5. Inside(r) /\ Ordered(r, 0) /\ DataLen(r) = 0 /\ r.len = 0
  BY <1>3, <1>4, RingData DEF SameRing
<1>6. Held(Closed(s))
  <2> DEFINE b == FALSE
  <2> DEFINE g == 0
  <2>1. Closed(s) = [t |-> r, bit |-> b, gone |-> g] /\ b \in BOOLEAN /\ (b <=> r.block)
    BY <1>2, <1>4
  <2>2. g \in 0 .. Wrap - 1 /\ Ordered(r, g)
    BY <1>5, Lengths
  <2> HIDE DEF b, g
  <2>3. Held([t |-> r, bit |-> b, gone |-> g])
    BY <1>4, <1>5, <2>1, <2>2, HeldIntro
  <2>4. QED
    BY <2>1, <2>3
<1>7. Amount(r) = Close(Amount(t))
  <2> DEFINE a == Amount(t)
  <2>1. a \in Target /\ a.listed = t.listed /\ a.dropped = t.dropped
    BY <1>1, AmountType
  <2>2. /\ Amount(r) \in Target
        /\ Amount(r).conn = "none" /\ Amount(r).len = 0 /\ Amount(r).data = 0
        /\ ~Amount(r).block /\ Amount(r).listed = t.listed /\ Amount(r).dropped = t.dropped
    BY <1>3, <1>4, <1>5, AmountType DEF Same
  <2>3. /\ Close(a) \in Target /\ Close(a).conn = "none" /\ Close(a).len = 0
        /\ Close(a).data = 0 /\ ~Close(a).block
        /\ Close(a).listed = a.listed /\ Close(a).dropped = a.dropped
    BY <2>1, Closes
  <2> HIDE DEF a
  <2>4. Amount(r).block = Close(a).block
    BY <2>2, <2>3 DEF Target
  <2>5. QED
    BY <2>1, <2>2, <2>3, <2>4, SameTarget DEF a
<1>8. QED
  BY <1>2, <1>6, <1>7 DEF t

LEMMA StateIs ==
  ASSUME NEW a, NEW b, NEW c, NEW r \in [t : {a}, bit : {b}, gone : {c}]
  PROVE  r = [t |-> a, bit |-> b, gone |-> c]
  OBVIOUS

\* snd_block and the bit change together, and nothing else does.
LEMMA BlockHeld ==
  ASSUME NEW s, Held(s), NEW b \in BOOLEAN
  PROVE  LET r == [s EXCEPT !.t.block = b, !.bit = b] IN
         Held(r) /\ Amount(r.t) = [Amount(s.t) EXCEPT !.block = b]
<1> DEFINE r == [s EXCEPT !.t.block = b, !.bit = b]
<1> DEFINE t == s.t
<1> DEFINE u == [t EXCEPT !.block = b]
<1>1. /\ Kept(t) /\ Inside(t) /\ Ordered(t, s.gone) /\ s.gone \in 0 .. Wrap - 1
      /\ s = [t |-> t, bit |-> s.bit, gone |-> s.gone]
  BY HeldFields
<1>2. r = [t |-> u, bit |-> b, gone |-> s.gone]
  <2>1. s \in [t : {t}, bit : BOOLEAN, gone : 0 .. Wrap - 1]
    BY DEF Held
  <2>2. r \in [t : {u}, bit : {b}, gone : {s.gone}]
    BY ONLY <2>1
  <2>3. QED
    BY <2>2, StateIs
<1> HIDE DEF t
<1>3. Kept(u) /\ Same(u, t) /\ SameRing(u, t) /\ (u.block <=> b)
  BY <1>1, BlockSet
<1> HIDE DEF u
<1>4. Inside(u) /\ Ordered(u, s.gone) /\ DataLen(u) = DataLen(t)
  BY <1>1, <1>3, RingData
<1> HIDE DEF r
<1>5. Held(r)
  BY <1>1, <1>2, <1>3, <1>4, HeldIntro
<1>6. Amount(u) = [Amount(t) EXCEPT !.block = b]
  <2> DEFINE a == Amount(t)
  <2> DEFINE c == [a EXCEPT !.block = b]
  <2>1. /\ a \in Target /\ a.conn = t.conn /\ a.len = t.len /\ a.data = DataLen(t)
        /\ a.listed = t.listed /\ a.dropped = t.dropped
    BY <1>1, AmountType
  <2>2. /\ Amount(u) \in Target /\ Amount(u).conn = u.conn /\ Amount(u).len = u.len
        /\ Amount(u).data = DataLen(u) /\ Amount(u).block = u.block
        /\ Amount(u).listed = u.listed /\ Amount(u).dropped = u.dropped
    BY <1>3, <1>4, AmountType
  <2> HIDE DEF a
  <2>3. /\ c \in Target /\ c.conn = a.conn /\ c.len = a.len /\ c.data = a.data
        /\ (c.block <=> b) /\ c.listed = a.listed /\ c.dropped = a.dropped
    BY ONLY <2>1, b \in BOOLEAN DEF Target
  <2> HIDE DEF c
  <2>4. Amount(u).block = c.block
    BY <2>2, <2>3, <1>3 DEF Target
  <2>5. Amount(u) = c
    BY <1>3, <1>4, <2>1, <2>2, <2>3, <2>4, SameTarget DEF Same, SameRing
  <2>6. QED
    BY <2>5 DEF c, a
<1>7. QED
  BY <1>2, <1>5, <1>6 DEF r, t

LEMMA FreedAs ==
  ASSUME NEW s, Held(s)
  PROVE  LET a == Amount(s.t) IN
         /\ Freed(s) = a.len - a.data
         /\ AtLimit(a) <=> s.t.len >= MaxExpand
         /\ Tight(a) <=> Freed(s) <= BlockSize
         /\ a.block <=> s.t.block
<1>1. Amount(s.t).len = s.t.len /\ Amount(s.t).data = DataLen(s.t) /\ Amount(s.t).block = s.t.block
  BY HeldFields, AmountType
<1>2. QED
  BY <1>1 DEF Freed, AtLimit, Tight

LEMMA SameBlock ==
  ASSUME NEW a \in Target, NEW b \in BOOLEAN, a.block <=> b
  PROVE  [a EXCEPT !.block = b] = a
<1> DEFINE c == [a EXCEPT !.block = b]
<1>1. /\ c \in Target /\ c.conn = a.conn /\ c.len = a.len /\ c.data = a.data
      /\ (c.block <=> b) /\ c.listed = a.listed /\ c.dropped = a.dropped
  BY DEF Target
<1> HIDE DEF c
<1>2. c.block = a.block
  BY <1>1 DEF Target
<1>3. QED
  BY <1>1, <1>2, SameTarget DEF c

LEMMA BlockedHeld ==
  ASSUME NEW s, Held(s)
  PROVE  Held(Blocked(s)) /\ Amount(Blocked(s).t) = Block(Amount(s.t))
<1> DEFINE a == Amount(s.t)
<1>1. /\ a \in Target /\ (AtLimit(a) <=> s.t.len >= MaxExpand)
      /\ (Tight(a) <=> Freed(s) <= BlockSize) /\ (a.block <=> s.t.block)
  BY HeldFields, AmountType, FreedAs
<1>2. CASE AtLimit(a) /\ Tight(a) /\ ~a.block
  <2>1. Blocked(s) = [s EXCEPT !.t.block = TRUE, !.bit = TRUE]
    BY <1>1, <1>2 DEF Blocked
  <2>2. Block(a) = [a EXCEPT !.block = TRUE]
    BY <1>2 DEF Block
  <2>3. QED
    BY <2>1, <2>2, BlockHeld
<1>3. CASE ~(AtLimit(a) /\ Tight(a) /\ ~a.block)
  <2>1. Blocked(s) = s
    BY <1>1, <1>3 DEF Blocked
  <2>2. Block(a) = a
    BY <1>1, <1>3, SameBlock DEF Block
  <2>3. QED
    BY <2>1, <2>2
<1>4. QED
  BY <1>2, <1>3

LEMMA UnblockedHeld ==
  ASSUME NEW s, Held(s)
  PROVE  Held(Unblocked(s)) /\ Amount(Unblocked(s).t) = [Amount(s.t) EXCEPT !.block = FALSE]
<1> DEFINE a == Amount(s.t)
<1>1. a \in Target /\ (a.block <=> s.t.block)
  BY HeldFields, AmountType, FreedAs
<1>2. CASE s.t.block
  BY <1>2, BlockHeld DEF Unblocked
<1>3. CASE ~s.t.block
  BY <1>1, <1>3, SameBlock DEF Unblocked
<1>4. QED
  BY <1>2, <1>3

LEMMA ReviewedHeld ==
  ASSUME NEW s, Held(s)
  PROVE  Held(Reviewed(s)) /\ Amount(Reviewed(s).t) = Review(Amount(s.t))
<1> DEFINE a == Amount(s.t)
<1>1. /\ a \in Target /\ (AtLimit(a) <=> s.t.len >= MaxExpand) /\ Freed(s) = a.len - a.data
      /\ (a.block <=> s.t.block)
  BY HeldFields, AmountType, FreedAs
<1>2. CASE AtLimit(a) /\ a.block /\ a.len - a.data >= BlockSize
  BY <1>1, <1>2, UnblockedHeld DEF Reviewed, Review
<1>3. CASE ~(AtLimit(a) /\ a.block /\ a.len - a.data >= BlockSize)
  BY <1>1, <1>3, BlockedHeld DEF Reviewed, Review
<1>4. QED
  BY <1>2, <1>3

-----------------------------------------------------------------------------
(* flush_target.                                                           *)

\* k bytes leave, and the head is left at the first that stays.
LEMMA SentHeld ==
  ASSUME NEW s, Held(s), s.t.len > 0, NEW k \in Nat, k <= DataLen(s.t),
         NEW h \in Nat, h < s.t.len, h = s.t.head + k \/ (h = 0 /\ s.t.head + k = s.t.len)
  PROVE  LET r == Sent(s, k, h) IN
         /\ Held(r) /\ r.t.len = s.t.len /\ r.t.head = h /\ r.t.tail = s.t.tail
         /\ DataLen(r.t) = DataLen(s.t) - k
         /\ Amount(r.t) = [Amount(s.t) EXCEPT !.data = DataLen(s.t) - k]
<1> DEFINE r == Sent(s, k, h)
<1> DEFINE t == s.t
<1> DEFINE u == [t EXCEPT !.head = h]
<1> DEFINE g == Number(s.gone, k)
<1> DEFINE d == DataLen(t)
<1>1. /\ Kept(t) /\ Inside(t) /\ Ordered(t, s.gone) /\ s.gone \in 0 .. Wrap - 1
      /\ s.bit \in BOOLEAN /\ (s.bit <=> t.block) /\ t.len \in 0 .. Wrap - 1
      /\ s \in [t : {t}, bit : {s.bit}, gone : 0 .. Wrap - 1]
  BY HeldFields DEF Kept
<1>2. r = [t |-> u, bit |-> s.bit, gone |-> g]
  <2>1. r = [s EXCEPT !.t.head = h, !.gone = g]
    BY DEF Sent, Number
  <2> HIDE DEF g
  <2>2. r \in [t : {u}, bit : {s.bit}, gone : {g}]
    BY ONLY <1>1, <2>1
  <2>3. QED
    BY <2>2, StateIs
<1>3. /\ t.len \in Nat /\ t.head \in Nat /\ t.tail \in Nat /\ d \in Nat /\ t.head < t.len
      /\ t.tail < t.len /\ d < t.len
  BY <1>1, Positions
<1>4. d = IF t.head <= t.tail THEN t.tail - t.head ELSE t.len - t.head + t.tail
  BY DEF DataLen
<1>5. t.len > 0 /\ k <= d /\ h < t.len /\ (h = t.head + k \/ (h = 0 /\ t.head + k = t.len))
  OBVIOUS
<1> HIDE DEF t
<1>6. /\ Kept(u) /\ Same(u, t) /\ u.block = t.block
      /\ u.len = t.len /\ u.head = h /\ u.tail = t.tail /\ u.cells = t.cells
  BY <1>1, HeadMoved
<1> HIDE DEF u, d
<1>7. DataLen(u) = d - k
  BY <1>3, <1>4, <1>5, <1>6 DEF DataLen
<1>8. Inside(u)
  BY <1>3, <1>5, <1>6 DEF Inside
<1>9. g \in 0 .. Wrap - 1
  BY <1>1, <1>3, <1>5, Lengths, Shifted
<1>10. Ordered(u, g)
  <2> SUFFICES ASSUME NEW i \in 0 .. d - k - 1
               PROVE  t.cells[At(u, i)] = Number(g, i)
    BY <1>6, <1>7 DEF Ordered
  <2>1. k + i \in 0 .. d - 1 /\ i \in Nat /\ k + i < t.len /\ k + i < Wrap
    BY <1>1, <1>3, <1>5, Lengths
  <2>2. t.cells[At(t, k + i)] = Number(s.gone, k + i)
    BY <1>1, <1>5, <2>1 DEF Ordered, d
  <2>3. Number(g, i) = Number(s.gone, k + i)
    BY <1>1, <2>1, Shifted
  <2>4. At(u, i) = At(t, k + i)
    <3> DEFINE m == (t.head + k) % t.len
    <3>1. t.len \in Nat \ {0} /\ t.head \in 0 .. t.len - 1
          /\ k \in 0 .. t.len - 1 /\ k < t.len
      BY <1>3, <1>5
    <3>2. (m + i) % t.len = At(t, k + i)
      BY <2>1, <3>1, ModShift DEF At
    <3>3. m = h
      <4>1. m = IF t.head + k < t.len THEN t.head + k ELSE t.head + k - t.len
        BY ONLY <3>1, ModSum
      <4> HIDE DEF m
      <4>2. QED
        BY <1>3, <1>5, <3>1, <4>1
    <3> HIDE DEF m
    <3>4. QED
      BY <1>6, <3>2, <3>3 DEF At
  <2>5. QED
    BY <2>2, <2>3, <2>4
<1>11. Held([t |-> u, bit |-> s.bit, gone |-> g])
  <2>1. s.bit <=> u.block
    BY <1>1, <1>6
  <2> HIDE DEF g
  <2>2. QED
    BY <1>1, <1>6, <1>8, <1>9, <1>10, <2>1, HeldIntro
<1>12. Amount(u) = [Amount(t) EXCEPT !.data = d - k]
  <2> DEFINE a == Amount(t)
  <2> DEFINE e == d - k
  <2> DEFINE c == [a EXCEPT !.data = e]
  <2>1. /\ a \in Target /\ a.conn = t.conn /\ a.len = t.len /\ a.block = t.block
        /\ a.listed = t.listed /\ a.dropped = t.dropped /\ e \in Nat
    BY <1>1, <1>3, <1>5, AmountType
  <2>2. /\ Amount(u) \in Target /\ Amount(u).conn = u.conn /\ Amount(u).len = u.len
        /\ Amount(u).data = e /\ Amount(u).block = u.block
        /\ Amount(u).listed = u.listed /\ Amount(u).dropped = u.dropped
    BY <1>6, <1>7, <1>8, AmountType
  <2> HIDE DEF a, e
  <2>3. /\ c \in Target /\ c.conn = a.conn /\ c.len = a.len /\ c.data = e /\ c.block = a.block
        /\ c.listed = a.listed /\ c.dropped = a.dropped
    BY <2>1, Sends
  <2> HIDE DEF c
  <2>4. Amount(u) = c
    BY <1>6, <2>1, <2>2, <2>3, SameTarget DEF Same
  <2>5. QED
    BY <2>4 DEF c, a, e
<1> HIDE DEF r, g
<1>13. QED
  BY <1>2, <1>6, <1>7, <1>11, <1>12 DEF r, t, d

\* What a flush may leave of a target of which d bytes wait.
With(a, d) == [a EXCEPT !.data = d]

LEMMA FlushHas ==
  ASSUME NEW a \in Target
  PROVE  /\ Close(a) \in Flush(a) /\ Block(a) \in Flush(a)
         /\ [a EXCEPT !.data = 0, !.block = FALSE] \in Flush(a)
         /\ \A d \in 1 .. a.data - 1 : Block(With(a, d)) \in Flush(a) /\ Review(With(a, d)) \in Flush(a)
  BY DEF Flush, With

LEMMA WithTwice ==
  ASSUME NEW a \in Target, NEW e \in Nat, NEW d \in Nat
  PROVE  /\ With(a, e) \in Target /\ With(With(a, e), d) = With(a, d)
         /\ e = a.data => With(a, e) = a
         /\ Close(With(a, e)) = Close(a)
<1> DEFINE b == With(a, e)
<1>1. /\ b \in Target /\ b.conn = a.conn /\ b.len = a.len /\ b.data = e /\ b.listed = a.listed
      /\ b.dropped = a.dropped /\ b.block = a.block
  BY Sends DEF With
<1>2. e = a.data => b = a
  <2> HIDE DEF b
  <2>1. QED
    BY <1>1, SameTarget
<1>3. With(b, d) = With(a, d)
  <2> HIDE DEF b
  <2>1. /\ With(b, d) \in Target /\ With(b, d).conn = a.conn /\ With(b, d).len = a.len
        /\ With(b, d).data = d /\ With(b, d).listed = a.listed
        /\ With(b, d).dropped = a.dropped /\ With(b, d).block = a.block
    BY <1>1, Sends DEF With
  <2>2. /\ With(a, d) \in Target /\ With(a, d).conn = a.conn /\ With(a, d).len = a.len
        /\ With(a, d).data = d /\ With(a, d).listed = a.listed
        /\ With(a, d).dropped = a.dropped /\ With(a, d).block = a.block
    BY Sends DEF With
  <2> DEFINE x == With(b, d)
  <2> DEFINE y == With(a, d)
  <2> HIDE DEF x, y
  <2>3. x = y
    BY <2>1, <2>2, SameTarget DEF x, y
  <2>4. QED
    BY <2>3 DEF x, y
<1>4. Close(b) = Close(a)
  <2> HIDE DEF b
  <2> DEFINE x == Close(b)
  <2> DEFINE y == Close(a)
  <2>1. /\ x \in Target /\ x.conn = "none" /\ x.len = 0 /\ x.data = 0 /\ ~x.block
        /\ x.listed = a.listed /\ x.dropped = a.dropped
    BY <1>1, Closes
  <2>2. /\ y \in Target /\ y.conn = "none" /\ y.len = 0 /\ y.data = 0 /\ ~y.block
        /\ y.listed = a.listed /\ y.dropped = a.dropped
    BY Closes
  <2> HIDE DEF x, y
  <2>3. x.block = y.block
    BY <2>1, <2>2 DEF Target
  <2>4. x = y
    BY <2>1, <2>2, <2>3, SameTarget
  <2>5. QED
    BY <2>4 DEF x, y
<1>5. QED
  BY <1>1, <1>2, <1>3, <1>4

LEMMA Emptied ==
  ASSUME NEW a \in Target
  PROVE  [With(a, 0) EXCEPT !.block = FALSE] = [a EXCEPT !.data = 0, !.block = FALSE]
  BY DEF With, Target

\* One send of e bytes, where a is the target before the first send.
LEMMA OneSendHeld ==
  ASSUME NEW s, Held(s), s.t.len > 0, s.t.head <= s.t.tail,
         NEW a \in Target, a.data > 0, DataLen(s.t) <= a.data,
         Amount(s.t) = With(a, DataLen(s.t)),
         NEW r \in OneSend(s)
  PROVE  Held(r) /\ Amount(r.t) \in Flush(a)
<1> DEFINE t == s.t
<1> DEFINE e == DataLen(t)
<1>1. /\ Kept(t) /\ Inside(t) /\ t.len \in Nat /\ t.head \in Nat /\ t.tail \in Nat
      /\ e \in Nat /\ t.tail < t.len /\ e = t.tail - t.head /\ t.head < t.len
  BY HeldFields, Positions DEF DataLen
<1>2. /\ Amount(t) = With(a, e) /\ e <= a.data /\ a.data \in Nat /\ t.head <= t.tail
      /\ t.len > 0
  BY DEF Target
<1>3. CASE r = Closed(s)
  <2>1. Amount(r.t) = Close(With(a, e)) /\ Held(r)
    BY <1>1, <1>2, <1>3, ClosedHeld
  <2>2. Close(With(a, e)) = Close(a)
    BY <1>1, WithTwice
  <2>3. QED
    BY <2>1, <2>2, FlushHas
<1>4. CASE r = Unblocked(Sent(s, t.tail - t.head, t.tail))
  <2> DEFINE u == Sent(s, e, t.tail)
  <2>1. Held(u) /\ Amount(u.t) = [Amount(t) EXCEPT !.data = e - e]
    BY <1>1, <1>2, SentHeld
  <2>2. Amount(u.t) = With(a, 0)
    <3>1. e - e = 0
      BY <1>1
    <3>2. With(Amount(t), 0) = With(a, 0)
      BY <1>1, <1>2, WithTwice
    <3>3. Amount(u.t) = With(Amount(t), e - e)
      BY <2>1 DEF With
    <3> HIDE DEF u, e
    <3>4. QED
      BY <3>1, <3>2, <3>3
  <2>3. r = Unblocked(u)
    BY <1>1, <1>4
  <2> HIDE DEF u
  <2>4. Held(r) /\ Amount(r.t) = [With(a, 0) EXCEPT !.block = FALSE]
    BY <2>1, <2>2, <2>3, UnblockedHeld
  <2>5. QED
    BY <2>4, Emptied, FlushHas
<1>5. CASE r = Blocked(s) /\ t.tail - t.head > 0
  <2>1. Held(r) /\ Amount(r.t) = Block(With(a, e))
    BY <1>2, <1>5, BlockedHeld
  <2>2. CASE e = a.data
    BY <1>1, <2>1, <2>2, WithTwice, FlushHas
  <2>3. CASE e # a.data
    <3>1. e \in 1 .. a.data - 1
      BY <1>1, <1>2, <1>5, <2>3
    <3> HIDE DEF e
    <3>2. QED
      BY <2>1, <3>1, FlushHas
  <2>4. QED
    BY <2>2, <2>3
<1>6. ASSUME NEW k \in 1 .. t.tail - t.head - 1, r = Reviewed(Sent(s, k, t.head + k))
      PROVE  Held(r) /\ Amount(r.t) \in Flush(a)
  <2> DEFINE u == Sent(s, k, t.head + k)
  <2>1. /\ k \in Nat /\ k <= e /\ t.head + k \in Nat /\ t.head + k < t.len
        /\ e - k \in 1 .. a.data - 1
    BY <1>1, <1>2
  <2>2. Held(u) /\ Amount(u.t) = With(Amount(t), e - k)
    BY <1>2, <2>1, SentHeld, ZenonT(60) DEF With
  <2>3. Amount(u.t) = With(a, e - k)
    <3> HIDE DEF u, e
    <3>1. QED
      BY <1>1, <1>2, <2>1, <2>2, WithTwice
  <2> HIDE DEF u
  <2>4. Held(r) /\ Amount(r.t) = Review(With(a, e - k))
    BY <1>6, <2>2, <2>3, ReviewedHeld DEF u
  <2> HIDE DEF e
  <2>5. QED
    BY <2>1, <2>4, FlushHas
<1>7. QED
  <2>1. \/ r = Closed(s) \/ r = Unblocked(Sent(s, t.tail - t.head, t.tail))
        \/ r = Blocked(s) /\ t.tail - t.head > 0
        \/ \E k \in 1 .. t.tail - t.head - 1 : r = Reviewed(Sent(s, k, t.head + k))
    BY DEF OneSend
  <2>2. QED
    BY <1>3, <1>4, <1>5, <1>6, <2>1

\* flush_target of a target with data.
LEMMA FlushedHeld ==
  ASSUME NEW s, Held(s), DataLen(s.t) > 0, NEW r \in Flushed(s)
  PROVE  Held(r) /\ Amount(r.t) \in Flush(Amount(s.t))
<1> DEFINE t == s.t
<1> DEFINE a == Amount(t)
<1> DEFINE d == DataLen(t)
<1>1. /\ Kept(t) /\ Inside(t) /\ t.len \in Nat /\ t.head \in Nat /\ t.tail \in Nat
      /\ d \in Nat /\ t.len > 0 /\ t.tail < t.len /\ t.head < t.len /\ t.head # t.tail
  BY HeldFields, Positions
<1>2. /\ a \in Target /\ a.data = d /\ d > 0
      /\ d = IF t.head <= t.tail THEN t.tail - t.head ELSE t.len - t.head + t.tail
  BY <1>1, AmountType DEF DataLen
<1>0. Amount(s.t) = a /\ DataLen(s.t) = d /\ t.len = s.t.len
  OBVIOUS
<1> HIDE DEF a
<1>3. a = With(a, d)
  BY <1>1, <1>2, WithTwice
<1>4. CASE t.head < t.tail
  <2>1. r \in OneSend(s) /\ t.head <= t.tail
    BY <1>1, <1>4 DEF Flushed
  <2>2. Amount(s.t) = With(a, DataLen(s.t)) /\ a.data > 0 /\ DataLen(s.t) <= a.data
    <3> HIDE DEF d, t
    <3>1. QED
      BY <1>0, <1>1, <1>2, <1>3
  <2>3. Held(r) /\ Amount(r.t) \in Flush(a)
    BY <1>1, <1>2, <2>1, <2>2, OneSendHeld
  <2>4. QED
    BY <1>0, <2>3
<1>5. CASE t.tail < t.head
  <2> DEFINE n == t.len - t.head
  <2>0. r \in TwoSends(s)
    BY <1>1, <1>5 DEF Flushed
  <2>1. n \in Nat /\ n > 0 /\ d = n + t.tail /\ t.head + n = t.len
    BY <1>1, <1>2, <1>5
  <2>2. CASE r = Closed(s)
    BY <1>1, <1>2, <2>2, ClosedHeld, FlushHas DEF a
  <2>3. CASE r = Blocked(s)
    BY <1>2, <2>3, BlockedHeld, FlushHas DEF a
  <2>4. ASSUME NEW k \in 1 .. n - 1, r = Reviewed(Sent(s, k, t.head + k))
        PROVE  Held(r) /\ Amount(r.t) \in Flush(a)
    <3> DEFINE u == Sent(s, k, t.head + k)
    <3>1. /\ k \in Nat /\ k <= d /\ t.head + k \in Nat /\ t.head + k < t.len
          /\ d - k \in 1 .. a.data - 1
      BY <1>1, <1>2, <2>1
    <3>2. Held(u) /\ Amount(u.t) = With(a, d - k)
      BY <1>1, <3>1, SentHeld DEF With, a
    <3> HIDE DEF u
    <3>3. Held(r) /\ Amount(r.t) = Review(With(a, d - k))
      BY <2>4, <3>2, ReviewedHeld DEF u
    <3> HIDE DEF d
    <3>4. QED
      BY <1>2, <3>1, <3>3, FlushHas
  <2>5. CASE r \in OneSend(Sent(s, n, 0))
    <3> DEFINE u == Sent(s, n, 0)
    <3>1. n <= d /\ 0 < t.len /\ d - n = t.tail
      BY <1>1, <2>1
    <3>2. /\ Held(u) /\ u.t.len = t.len /\ u.t.head = 0 /\ u.t.tail = t.tail
          /\ DataLen(u.t) = d - n /\ Amount(u.t) = With(a, d - n)
      <4> DEFINE z == 0
      <4>1. z \in Nat /\ z < t.len /\ (z = t.head + n \/ (z = 0 /\ t.head + n = t.len))
        BY <2>1, <3>1
      <4> HIDE DEF z, n
      <4> DEFINE v == Sent(s, n, z)
      <4>2. /\ Held(v) /\ v.t.len = t.len /\ v.t.head = z /\ v.t.tail = t.tail
            /\ DataLen(v.t) = d - n /\ Amount(v.t) = With(a, d - n)
        BY <1>1, <2>1, <3>1, <4>1, SentHeld DEF With, a
      <4>3. QED
        BY <4>2 DEF z
    <3> HIDE DEF u, n
    <3>3. /\ u.t.head <= u.t.tail /\ u.t.len > 0 /\ DataLen(u.t) <= a.data /\ a.data > 0
          /\ Amount(u.t) = With(a, DataLen(u.t)) /\ r \in OneSend(u)
      BY <1>1, <1>2, <2>1, <2>5, <3>1, <3>2 DEF u
    <3>4. Held(r) /\ Amount(r.t) \in Flush(a)
      BY <1>2, <3>2, <3>3, OneSendHeld
    <3>5. QED
      BY <1>0, <3>4
  <2>6. \/ r = Closed(s) \/ r = Blocked(s)
        \/ \E k \in 1 .. n - 1 : r = Reviewed(Sent(s, k, t.head + k))
        \/ r \in OneSend(Sent(s, n, 0))
    BY <2>0 DEF TwoSends
  <2>7. QED
    BY <2>2, <2>3, <2>4, <2>5, <2>6 DEF a
<1>6. QED
  BY <1>1, <1>4, <1>5

-----------------------------------------------------------------------------
(* expand_target_buff and check_snd_buff_memory.                           *)

LEMMA GrownBound ==
  ASSUME NEW n \in Nat, n > 0, n < MaxExpand
  PROVE  Grown(n) \in Nat /\ Grown(n) > n /\ Grown(n) < Wrap
<1>1. /\ Mega \in Nat /\ SendSize \in Nat /\ Mega > 0 /\ SendSize > 0
      /\ BlockSize = SendSize + Mega /\ MaxExpand = 2 * SendSize + Mega
      /\ Wrap = MaxExpand + BlockSize + 1
  BY Lengths
<1>2. QED
  BY <1>1 DEF Grown

LEMMA CallocCells ==
  ASSUME NEW n \in Nat
  PROVE  Calloc(n) \in Cells(n)
  BY Lengths DEF Calloc, Cells

\* Everything that waits is copied to the start of a buffer it fits into.
LEMMA MovedHeld ==
  ASSUME NEW t, Kept(t), Inside(t), t.len > 0, NEW g \in 0 .. Wrap - 1, Ordered(t, g),
         NEW n \in 0 .. Wrap - 1, DataLen(t) < n
  PROVE  LET r == MovedTo(t, n) IN
         /\ Kept(r) /\ Same(r, t) /\ r.block = t.block /\ r.len = n
         /\ Inside(r) /\ Ordered(r, g) /\ DataLen(r) = DataLen(t)
<1> DEFINE d == DataLen(t)
<1> DEFINE m == [j \in 0 .. n - 1 |-> IF j < d THEN t.cells[(t.head + j) % t.len] ELSE Wrap]
<1> DEFINE r == MovedTo(t, n)
<1>1. /\ t.len \in Nat \ {0} /\ t.head \in 0 .. t.len - 1 /\ d \in Nat /\ d < t.len /\ d < n
      /\ t.cells \in Cells(t.len) /\ n \in Nat
  BY Positions, Lengths DEF Kept
<1>2. r = [t EXCEPT !.len = n, !.head = 0, !.tail = d, !.cells = m]
  BY DEF MovedTo
<1>3. m \in Cells(n)
  <2> SUFFICES ASSUME NEW j \in 0 .. n - 1, j < d
               PROVE  t.cells[(t.head + j) % t.len] \in 0 .. Wrap
    BY Lengths DEF Cells
  <2>1. j \in 0 .. t.len - 1
    BY <1>1
  <2> HIDE DEF d, m, r
  <2>2. (t.head + j) % t.len \in 0 .. t.len - 1
    BY <1>1, <2>1, ModSum
  <2>3. QED
    BY <1>1, <2>2 DEF Cells
<1>4. \A j \in 0 .. d - 1 : m[j] = t.cells[At(t, j)]
  BY <1>1 DEF At
<1> HIDE DEF m, r, d
<1>5. /\ Kept(r) /\ Same(r, t) /\ r.block = t.block /\ r.len = n /\ r.head = 0 /\ r.tail = d
      /\ r.cells = m
  <2> DEFINE z == 0
  <2>1. r = [t EXCEPT !.len = n, !.head = z, !.tail = d, !.cells = m] /\ z \in Nat
    BY <1>2
  <2> HIDE DEF z
  <2>2. /\ Kept(r) /\ Same(r, t) /\ r.block = t.block /\ r.len = n /\ r.head = z /\ r.tail = d
        /\ r.cells = m
    BY ONLY <1>1, <1>3, <2>1, Kept(t), n \in 0 .. Wrap - 1 DEF Kept, Same
  <2>3. QED
    BY <2>2 DEF z
<1>6. Inside(r) /\ DataLen(r) = d
  BY <1>1, <1>5 DEF Inside, DataLen
<1>7. Ordered(r, g)
  <2> SUFFICES ASSUME NEW i \in 0 .. d - 1
               PROVE  m[At(r, i)] = Number(g, i)
    BY <1>5, <1>6 DEF Ordered
  <2>1. t.cells[At(t, i)] = Number(g, i)
    BY DEF Ordered, d
  <2>2. At(r, i) = i
    <3>1. i \in Nat /\ i < n /\ n \in Nat \ {0} /\ i < 2 * n
      BY <1>1
    <3>2. i % n = i
      BY <3>1, Mod
    <3>3. 0 + i = i
      BY <3>1
    <3>4. QED
      BY <1>5, <3>2, <3>3 DEF At
  <2>3. QED
    BY <1>4, <2>1, <2>2
<1>8. QED
  BY <1>5, <1>6, <1>7 DEF r, d

\* Amounts that differ in nothing.
LEMMA AmountIs ==
  ASSUME NEW r, Kept(r), Inside(r) \/ r.head = r.tail, NEW a \in Target,
         r.conn = a.conn, r.len = a.len, DataLen(r) = a.data, r.listed = a.listed,
         r.dropped = a.dropped, r.block = a.block
  PROVE  Amount(r) = a
<1> DEFINE b == Amount(r)
<1>1. /\ b \in Target /\ b.conn = r.conn /\ b.len = r.len /\ b.data = DataLen(r)
      /\ b.block = r.block /\ b.listed = r.listed /\ b.dropped = r.dropped
  BY AmountType
<1> HIDE DEF b
<1>2. b = a
  BY <1>1, SameTarget
<1>3. QED
  BY <1>2 DEF b

LEMMA ExpandedHeld ==
  ASSUME NEW t, Kept(t), Inside(t), NEW g \in 0 .. Wrap - 1, Ordered(t, g)
  PROVE  LET r == Expanded(t) IN
         /\ Kept(r) /\ Inside(r) /\ Ordered(r, g) /\ r.block = t.block /\ r.len > 0
         /\ Amount(r) = Grow(Amount(t))
<1> DEFINE r == Expanded(t)
<1> DEFINE a == Amount(t)
<1>1. /\ t.len \in Nat /\ t.head \in Nat /\ t.tail \in Nat /\ DataLen(t) \in Nat
      /\ t.len > 0 => t.head < t.len /\ t.tail < t.len /\ DataLen(t) < t.len
      /\ t.len = 0 => DataLen(t) = 0 /\ t.head = 0 /\ t.tail = 0
      /\ DataLen(t) = 0 <=> t.head = t.tail
  BY Positions
<1>2. /\ a \in Target /\ a.conn = t.conn /\ a.len = t.len /\ a.data = DataLen(t)
      /\ a.block = t.block /\ a.listed = t.listed /\ a.dropped = t.dropped
  BY AmountType
<1> HIDE DEF a
<1>3. MaxExpand \in Nat /\ MaxExpand > 0 /\ InitLen \in 0 .. Wrap - 1 /\ InitLen > 0 /\ Wrap \in Nat
  BY Lengths
<1>4. CASE t.len >= MaxExpand
  <2>1. r = t /\ Grow(a) = a
    BY <1>2, <1>4 DEF Expanded, Grow
  <2>2. QED
    BY <1>1, <1>3, <1>4, <2>1 DEF a
<1>5. ASSUME NEW n \in 0 .. Wrap - 1, n > t.len, t.head = t.tail,
             r = [t EXCEPT !.len = n, !.cells = Calloc(n)], Grow(a) = [a EXCEPT !.len = n]
      PROVE  /\ Kept(r) /\ Inside(r) /\ Ordered(r, g) /\ r.block = t.block /\ r.len > 0
             /\ Amount(r) = Grow(a)
  <2>1. Calloc(n) \in Cells(n) /\ n \in Nat /\ n > 0
    BY <1>1, <1>3, <1>5, CallocCells
  <2> DEFINE m == Calloc(n)
  <2>2. r = [t EXCEPT !.len = n, !.cells = m] /\ m \in Cells(n)
    BY <1>5, <2>1
  <2> HIDE DEF r, m
  <2>3. /\ Kept(r) /\ Same(r, t) /\ r.block = t.block
        /\ r.len = n /\ r.head = t.head /\ r.tail = t.tail
    BY ONLY <1>5, <2>2, Kept(t) DEF Kept, Same
  <2>4. Inside(r) /\ DataLen(r) = 0 /\ DataLen(t) = 0
    BY <1>1, <1>3, <1>5, <2>1, <2>3 DEF Inside, DataLen
  <2>5. Ordered(r, g)
    BY <2>4 DEF Ordered
  <2> DEFINE c == Grow(a)
  <2>6. /\ c \in Target /\ c.conn = a.conn /\ c.len = n /\ c.data = a.data /\ c.block = a.block
        /\ c.listed = a.listed /\ c.dropped = a.dropped
    BY <1>2, <1>5, <2>1 DEF Target
  <2> HIDE DEF c
  <2>7. Amount(r) = c
    BY <1>2, <2>3, <2>4, <2>6, AmountIs DEF Same
  <2>8. QED
    BY <2>1, <2>3, <2>4, <2>5, <2>7 DEF c
<1>6. CASE t.len < MaxExpand /\ t.len = 0
  <2>1. r = [t EXCEPT !.len = InitLen, !.cells = Calloc(InitLen)]
    BY <1>3, <1>6 DEF Expanded
  <2>2. Grow(a) = [a EXCEPT !.len = InitLen]
    BY <1>2, <1>3, <1>6 DEF Grow
  <2>3. QED
    BY <1>1, <1>3, <1>5, <1>6, <2>1, <2>2 DEF a
<1>7. CASE t.len < MaxExpand /\ t.len > 0
  <2> DEFINE n == Grown(t.len)
  <2>1. n \in 0 .. Wrap - 1 /\ n > t.len /\ n \in Nat
    BY <1>1, <1>3, <1>7, GrownBound
  <2>2. Grow(a) = [a EXCEPT !.len = n]
    BY <1>1, <1>2, <1>3, <1>7 DEF Grow
  <2>3. CASE t.head = t.tail
    <3>1. r = [t EXCEPT !.len = n, !.cells = Calloc(n)]
      BY <1>1, <1>3, <1>7, <2>3 DEF Expanded
    <3> HIDE DEF n
    <3>2. QED
      BY <1>5, <2>1, <2>2, <2>3, <3>1 DEF a
  <2>4. CASE t.head # t.tail
    <3>1. r = MovedTo(t, n)
      BY <1>1, <1>3, <1>7, <2>4 DEF Expanded
    <3>2. DataLen(t) < n
      BY <1>1, <1>7, <2>1
    <3> HIDE DEF n, r
    <3>3. /\ Kept(r) /\ Same(r, t) /\ r.block = t.block /\ r.len = n
          /\ Inside(r) /\ Ordered(r, g) /\ DataLen(r) = DataLen(t)
      BY <1>7, <2>1, <3>1, <3>2, MovedHeld
    <3> DEFINE c == Grow(a)
    <3>4. /\ c \in Target /\ c.conn = a.conn /\ c.len = n /\ c.data = a.data /\ c.block = a.block
          /\ c.listed = a.listed /\ c.dropped = a.dropped
      BY <1>2, <2>1, <2>2 DEF Target
    <3> HIDE DEF c
    <3>5. Amount(r) = c
      BY <1>2, <3>3, <3>4, AmountIs DEF Same
    <3>6. QED
      BY <1>1, <2>1, <3>3, <3>5 DEF c, r, a
  <2>5. QED
    BY <2>3, <2>4
<1>8. QED
  BY <1>1, <1>3, <1>4, <1>6, <1>7

\* The target alone is replaced.
LEMMA TargetReplaced ==
  ASSUME NEW s, Held(s), NEW u, Kept(u), Inside(u), Ordered(u, s.gone), u.block = s.t.block
  PROVE  LET r == [s EXCEPT !.t = u] IN Held(r) /\ r.t = u /\ r.gone = s.gone
<1> DEFINE r == [s EXCEPT !.t = u]
<1>1. s \in [t : {s.t}, bit : {s.bit}, gone : {s.gone}] /\ s.bit \in BOOLEAN /\ (s.bit <=> u.block)
      /\ s.gone \in 0 .. Wrap - 1
  BY HeldFields
<1>2. r \in [t : {u}, bit : {s.bit}, gone : {s.gone}]
  BY ONLY <1>1
<1>3. r = [t |-> u, bit |-> s.bit, gone |-> s.gone]
  BY <1>2, StateIs
<1>4. QED
  BY <1>1, <1>3, HeldIntro

LEMMA GrownHeld ==
  ASSUME NEW s, Held(s)
  PROVE  LET r == [s EXCEPT !.t = Expanded(@)] IN
         Held(r) /\ r.t.len > 0 /\ Amount(r.t) = Grow(Amount(s.t))
<1> DEFINE u == Expanded(s.t)
<1>1. /\ Kept(u) /\ Inside(u) /\ Ordered(u, s.gone) /\ u.block = s.t.block /\ u.len > 0
      /\ Amount(u) = Grow(Amount(s.t))
  BY HeldFields, ExpandedHeld
<1>2. [s EXCEPT !.t = Expanded(@)] = [s EXCEPT !.t = u]
  OBVIOUS
<1> HIDE DEF u
<1>3. QED
  BY <1>1, <1>2, TargetReplaced, ZenonT(60)

-----------------------------------------------------------------------------
(* pkg_2_target.                                                           *)

\* Different places of a ring are different positions.
LEMMA Apart ==
  ASSUME NEW n \in Nat \ {0}, NEW x \in 0 .. n - 1, NEW i \in 0 .. n - 1, NEW k \in 0 .. n - 1,
         (x + i) % n = (x + k) % n
  PROVE  i = k
<1> DEFINE a == (x + i) % n
<1> DEFINE b == (x + k) % n
<1>1. a = IF x + i < n THEN x + i ELSE x + i - n
  BY ModSum
<1>2. b = IF x + k < n THEN x + k ELSE x + k - n
  BY ModSum
<1>3. a = b
  OBVIOUS
<1> HIDE DEF a, b
<1>4. QED
  BY <1>1, <1>2, <1>3

LEMMA PlaceIs ==
  ASSUME NEW t, Kept(t), Inside(t), t.len > 0, NEW n \in 1 .. PackMax, EmptySpace(t) >= SafeLen(n)
  PROVE  LET d == DataLen(t) IN
         /\ d + StlvLen(n) < t.len /\ StlvLen(n) \in Nat /\ StlvLen(n) > 0
         /\ \A j \in 0 .. StlvLen(n) - 1 : Place(t, n, j) = At(t, d + j)
         /\ PackedTail(t, n) = At(t, d + StlvLen(n))
<1> DEFINE d == DataLen(t)
<1> DEFINE size == StlvLen(n)
<1>1. /\ t.len \in Nat \ {0} /\ t.head \in Nat /\ t.tail \in Nat /\ d \in Nat /\ d < t.len
      /\ t.head < t.len /\ t.tail < t.len /\ EmptySpace(t) = t.len - d - 1
  BY Positions
<1>2. /\ size \in Nat /\ size > 0 /\ SafeLen(n) \in Nat /\ size <= SafeLen(n)
  BY Lengths DEF StlvLen, SafeLen
<1>3. d = IF t.head <= t.tail THEN t.tail - t.head ELSE t.len - t.head + t.tail
  BY DEF DataLen
<1>4. EmptySpace(t) >= SafeLen(n)
  OBVIOUS
<1> HIDE DEF d, size
<1>5. d + size < t.len
  BY <1>1, <1>2, <1>4
<1>6. ASSUME NEW j \in 0 .. size
      PROVE  /\ (t.tail + j) % t.len = At(t, d + j)
             /\ t.tail < t.head => t.tail + j = (t.tail + j) % t.len
             /\ t.len - t.tail >= SafeLen(n) /\ j < size => t.tail + j = (t.tail + j) % t.len
  <2>1. j \in Nat /\ d + j < t.len /\ j \in 0 .. t.len - 1 /\ d \in 0 .. t.len - 1
        /\ t.head \in 0 .. t.len - 1 /\ t.tail \in 0 .. t.len - 1
    BY <1>1, <1>2, <1>5
  <2> DEFINE m == (t.head + d) % t.len
  <2>2. m = IF t.head + d < t.len THEN t.head + d ELSE t.head + d - t.len
    BY <1>1, <2>1, ModSum
  <2>3. (m + j) % t.len = At(t, d + j)
    BY <1>1, <2>1, ModShift, ZenonT(60) DEF At
  <2> HIDE DEF m
  <2>4. m = t.tail
    BY <1>1, <1>3, <2>2
  <2> DEFINE v == (t.tail + j) % t.len
  <2>5. v = IF t.tail + j < t.len THEN t.tail + j ELSE t.tail + j - t.len
    BY <1>1, <2>1, ModSum
  <2>6. v = At(t, d + j)
    BY <2>3, <2>4
  <2> HIDE DEF v
  <2>7. /\ t.tail < t.head => t.tail + j = v
        /\ t.len - t.tail >= SafeLen(n) /\ j < size => t.tail + j = v
    BY <1>1, <1>2, <1>3, <1>5, <2>1, <2>5
  <2>8. QED
    BY <2>6, <2>7 DEF v
<1>7. \A j \in 0 .. size - 1 : Place(t, n, j) = At(t, d + j)
  <2> SUFFICES ASSUME NEW j \in 0 .. size - 1
               PROVE  Place(t, n, j) = At(t, d + j)
    OBVIOUS
  <2>1. j \in 0 .. size /\ j < size
    BY <1>2
  <2> DEFINE v == (t.tail + j) % t.len
  <2>2. v = At(t, d + j) /\ (t.tail < t.head \/ t.len - t.tail >= SafeLen(n) => t.tail + j = v)
    BY <1>6, <2>1
  <2>3. Place(t, n, j) = IF t.tail < t.head \/ t.len - t.tail >= SafeLen(n) THEN t.tail + j ELSE v
    BY DEF Place
  <2> HIDE DEF v
  <2>4. QED
    BY <2>2, <2>3
<1>8. PackedTail(t, n) = At(t, d + size)
  <2>1. size \in 0 .. size
    BY <1>2
  <2> DEFINE v == (t.tail + size) % t.len
  <2>2. v = At(t, d + size) /\ (t.tail < t.head => t.tail + size = v)
    BY ONLY <1>6, <2>1
  <2>3. PackedTail(t, n) = IF t.tail < t.head THEN t.tail + size ELSE v
    BY DEF PackedTail, size
  <2> HIDE DEF v
  <2>4. QED
    BY <2>2, <2>3
<1>9. QED
  BY <1>2, <1>5, <1>7, <1>8 DEF d, size

\* The bytes of a packet are put behind what waits, and nothing that waits
\* is overwritten.
LEMMA PackedHeld ==
  ASSUME NEW s, Held(s), s.t.len > 0, NEW n \in 1 .. PackMax, EmptySpace(s.t) >= SafeLen(n)
  PROVE  LET r == Packed(s, n) IN
         Held(r) /\ Amount(r.t) = [Amount(s.t) EXCEPT !.data = @ + StlvLen(n)]
<1> DEFINE r == Packed(s, n)
<1> DEFINE t == s.t
<1> DEFINE g == s.gone
<1> DEFINE d == DataLen(t)
<1> DEFINE size == StlvLen(n)
<1> DEFINE at == [j \in 0 .. size - 1 |-> Place(t, n, j)]
<1> DEFINE byte(i) == (g + d + CHOOSE j \in 0 .. size - 1 : at[j] = i) % Wrap
<1> DEFINE m == [i \in DOMAIN t.cells |->
                   IF \E j \in 0 .. size - 1 : at[j] = i THEN byte(i) ELSE t.cells[i]]
<1> DEFINE l == PackedTail(t, n)
<1> DEFINE u == [t EXCEPT !.cells = m, !.tail = l]
<1>1. /\ Kept(t) /\ Inside(t) /\ Ordered(t, g) /\ g \in 0 .. Wrap - 1
      /\ s.bit \in BOOLEAN /\ (s.bit <=> t.block) /\ t.len > 0
      /\ s \in [t : {t}, bit : {s.bit}, gone : {g}]
  BY HeldFields
<1>2. r = [s EXCEPT !.t.cells = m, !.t.tail = l]
  BY DEF Packed
<1>3. /\ d + size < t.len /\ size \in Nat /\ size > 0
      /\ \A j \in 0 .. size - 1 : Place(t, n, j) = At(t, d + j)
      /\ l = At(t, d + size)
  BY <1>1, PlaceIs
<1>4. /\ t.len \in Nat \ {0} /\ t.len < Wrap /\ t.cells \in Cells(t.len)
      /\ t.head \in 0 .. t.len - 1 /\ t.tail \in Nat /\ t.tail < t.len
      /\ d \in Nat /\ d < t.len
  BY <1>1, Positions, Lengths DEF Kept
<1>5. d = IF t.head <= t.tail THEN t.tail - t.head ELSE t.len - t.head + t.tail
  BY DEF DataLen
<1>6. \A j \in 0 .. size - 1 : at[j] = At(t, d + j)
  BY <1>3
<1>7. DOMAIN t.cells = 0 .. t.len - 1
  BY <1>4 DEF Cells
<1>8. \A i \in 0 .. t.len - 1 :
        m[i] = IF \E j \in 0 .. size - 1 : at[j] = i THEN byte(i) ELSE t.cells[i]
  BY <1>7
<1>9. \A i \in 0 .. t.len - 1 : (\E j \in 0 .. size - 1 : at[j] = i) =>
        \E j \in 0 .. size - 1 : at[j] = i /\ byte(i) = (g + d + j) % Wrap
  <2> HIDE DEF at
  <2>1. QED
    OBVIOUS
<1>10. m = [i \in 0 .. t.len - 1 |-> m[i]]
  BY <1>7
<1>11. r = [t |-> u, bit |-> s.bit, gone |-> g]
  <2> HIDE DEF m, l
  <2>1. r \in [t : {u}, bit : {s.bit}, gone : {g}]
    BY ONLY <1>1, <1>2
  <2>2. QED
    BY <2>1, StateIs
<1> HIDE DEF r, t, g, d, size, at, m, l
<1>12. \A i \in 0 .. t.len - 1 : \A j \in 0 .. t.len - 1 : At(t, i) = At(t, j) => i = j
  BY <1>4, Apart DEF At
<1>13. \A i \in 0 .. t.len - 1 : At(t, i) \in 0 .. t.len - 1
  BY <1>4, ModSum DEF At
<1>14. ASSUME NEW i \in 0 .. d + size - 1
       PROVE  m[At(t, i)] = Number(g, i)
  <2> DEFINE p == At(t, i)
  <2>1. i \in 0 .. t.len - 1 /\ p \in 0 .. t.len - 1
    BY <1>3, <1>4, <1>13
  <2>2. CASE i < d
    <3>1. ~\E j \in 0 .. size - 1 : at[j] = p
      <4> SUFFICES ASSUME NEW j \in 0 .. size - 1, at[j] = p
                   PROVE  FALSE
        OBVIOUS
      <4>1. d + j \in 0 .. t.len - 1 /\ i # d + j
        BY <1>3, <1>4, <2>2
      <4>2. At(t, d + j) = At(t, i)
        BY <1>6
      <4>3. QED
        BY <1>12, <2>1, <4>1, <4>2
    <3> HIDE DEF p
    <3>2. m[p] = t.cells[p]
      BY <1>8, <2>1, <3>1
    <3>3. i \in 0 .. d - 1
      BY <1>4, <2>2
    <3>4. t.cells[p] = Number(g, i)
      BY <1>1, <3>3 DEF Ordered, d, p
    <3>5. QED
      BY <3>2, <3>4 DEF p
  <2>3. CASE i >= d
    <3> DEFINE j == i - d
    <3>1. j \in 0 .. size - 1 /\ d + j = i
      BY <1>3, <1>4, <2>3
    <3>2. at[j] = p
      BY <1>6, <3>1
    <3>3. PICK k \in 0 .. size - 1 : at[k] = p /\ byte(p) = (g + d + k) % Wrap
      <4> HIDE DEF byte, p, j
      <4>1. QED
        BY <1>9, <2>1, <3>1, <3>2
    <3>4. k = j
      <4>1. At(t, d + k) = At(t, i)
        BY <1>6, <3>3
      <4>2. d + k \in 0 .. t.len - 1
        BY <1>3, <1>4
      <4>3. d + k = i
        BY <1>12, <2>1, <4>1, <4>2
      <4>4. QED
        BY <1>4, <4>3
    <3>5. g + d + k = g + i
      BY <1>1, <1>4, <3>1, <3>4, Lengths
    <3> HIDE DEF byte, p, j
    <3>6. m[p] = byte(p)
      BY <1>8, <2>1, <3>3
    <3>7. QED
      BY <3>3, <3>5, <3>6 DEF Number, p
  <2>4. QED
    BY <1>4, <2>2, <2>3
<1>15. m \in Cells(t.len)
  <2> SUFFICES ASSUME NEW i \in 0 .. t.len - 1
               PROVE  m[i] \in 0 .. Wrap
    BY <1>10 DEF Cells
  <2>1. CASE \E j \in 0 .. size - 1 : at[j] = i
    <3>1. PICK k \in 0 .. size - 1 : byte(i) = (g + d + k) % Wrap
      <4> HIDE DEF byte
      <4>1. QED
        BY <1>9, <2>1
    <3>2. g + d + k \in Nat /\ Wrap \in Nat \ {0}
      BY <1>1, <1>4, Lengths
    <3> DEFINE x == g + d + k
    <3> HIDE DEF x
    <3>3. x % Wrap \in 0 .. Wrap
      BY <3>2 DEF x
    <3> HIDE DEF byte
    <3>4. QED
      BY <1>8, <2>1, <3>1, <3>3 DEF x
  <2>2. CASE ~\E j \in 0 .. size - 1 : at[j] = i
    BY <1>4, <1>8, <2>2 DEF Cells
  <2>3. QED
    BY <2>1, <2>2
<1> HIDE DEF byte
<1>16. l \in 0 .. t.len - 1 /\ l = IF t.tail + size < t.len THEN t.tail + size ELSE t.tail + size - t.len
  <2>1. d + size \in 0 .. t.len - 1
    BY <1>3, <1>4
  <2>2. l \in 0 .. t.len - 1
    BY <1>3, <1>13, <2>1
  <2> DEFINE x == d + size
  <2> HIDE DEF x
  <2>3. x \in 0 .. t.len - 1 /\ l = At(t, x)
    BY <1>3, <2>1 DEF x
  <2>4. l = IF t.head + x < t.len THEN t.head + x ELSE t.head + x - t.len
    BY <1>4, <2>3, ModSum DEF At
  <2>5. QED
    BY <1>3, <1>4, <1>5, <2>2, <2>4 DEF x
<1>17. /\ Kept(u) /\ Same(u, t) /\ u.block = t.block
       /\ u.len = t.len /\ u.head = t.head /\ u.tail = l /\ u.cells = m
  <2>1. l \in Nat
    BY <1>4, <1>16
  <2>2. QED
    BY ONLY <1>15, <2>1, <1>1 DEF Kept, Same
<1> HIDE DEF u
<1>18. Inside(u) /\ DataLen(u) = d + size
  <2>1. Inside(u)
    BY <1>4, <1>16, <1>17 DEF Inside
  <2>2. DataLen(u) = IF t.head <= l THEN l - t.head ELSE t.len - t.head + l
    BY <1>17 DEF DataLen
  <2>3. t.head \in Nat /\ t.len \in Nat /\ l \in Nat /\ t.head < t.len
    BY <1>4, <1>16
  <2>4. d + size < t.len /\ size \in Nat /\ d \in Nat /\ t.tail \in Nat /\ t.tail < t.len
    BY <1>3, <1>4
  <2>5. l = IF t.tail + size < t.len THEN t.tail + size ELSE t.tail + size - t.len
    BY <1>16
  <2> DEFINE x == DataLen(u)
  <2>6. x = IF t.head <= l THEN l - t.head ELSE t.len - t.head + l
    BY <2>2
  <2> HIDE DEF x
  <2>7. x = d + size
    BY ONLY <1>5, <2>3, <2>4, <2>5, <2>6
  <2>8. QED
    BY <2>1, <2>7 DEF x
<1>19. Ordered(u, g)
  <2> SUFFICES ASSUME NEW i \in 0 .. d + size - 1
               PROVE  u.cells[At(u, i)] = Number(g, i)
    BY <1>3, <1>4, <1>18 DEF Ordered
  <2>1. At(u, i) = At(t, i)
    BY <1>17 DEF At
  <2>2. m[At(t, i)] = Number(g, i)
    BY <1>14
  <2>3. QED
    BY <1>17, <2>1, <2>2
<1>20. Held(r)
  <2>1. s.bit <=> u.block
    BY <1>1, <1>17
  <2>2. QED
    BY <1>1, <1>11, <1>17, <1>18, <1>19, <2>1, HeldIntro
<1>21. Amount(u) = [Amount(t) EXCEPT !.data = @ + size]
  <2> DEFINE a == Amount(t)
  <2>1. /\ a \in Target /\ a.conn = t.conn /\ a.len = t.len /\ a.data = d
        /\ a.block = t.block /\ a.listed = t.listed /\ a.dropped = t.dropped
    BY <1>1, AmountType DEF d
  <2> HIDE DEF a
  <2> DEFINE c == [a EXCEPT !.data = d + size]
  <2>2. /\ c \in Target /\ c.conn = a.conn /\ c.len = a.len /\ c.data = d + size
        /\ c.block = a.block /\ c.listed = a.listed /\ c.dropped = a.dropped
    BY <1>3, <1>4, <2>1, Sends
  <2>3. [a EXCEPT !.data = @ + size] = c
    BY <2>1
  <2> HIDE DEF c
  <2>4. Amount(u) = c
    BY <1>17, <1>18, <2>1, <2>2, AmountIs DEF Same
  <2>5. QED
    BY <2>3, <2>4 DEF a
<1>22. QED
  BY <1>11, <1>20, <1>21 DEF r, t, size

LEMMA ListedHeld ==
  ASSUME NEW s, Held(s), NEW b \in BOOLEAN
  PROVE  LET r == [s EXCEPT !.t.listed = b] IN
         Held(r) /\ Amount(r.t) = [Amount(s.t) EXCEPT !.listed = b]
<1> DEFINE t == s.t
<1> DEFINE u == [t EXCEPT !.listed = b]
<1> DEFINE a == Amount(t)
<1> DEFINE c == [a EXCEPT !.listed = b]
<1>1. Kept(t) /\ Inside(t) /\ Ordered(t, s.gone) /\ t.block \in BOOLEAN
  BY HeldFields
<1>2. [s EXCEPT !.t.listed = b] = [s EXCEPT !.t = u]
  OBVIOUS
<1>0. t.block = s.t.block
  OBVIOUS
<1> HIDE DEF t
<1>3. /\ Kept(u) /\ SameRing(u, t) /\ u.block = t.block /\ u.conn = t.conn
      /\ u.dropped = t.dropped /\ (u.listed <=> b)
  BY <1>1, ListedSet
<1> HIDE DEF u
<1>4. Inside(u) /\ Ordered(u, s.gone) /\ DataLen(u) = DataLen(t)
  BY <1>1, <1>3, RingData
<1>5. /\ a \in Target /\ a.conn = t.conn /\ a.len = t.len /\ a.data = DataLen(t)
      /\ a.block = t.block /\ a.dropped = t.dropped
  BY <1>1, AmountType
<1> HIDE DEF a
<1>6. /\ c \in Target /\ c.conn = a.conn /\ c.len = a.len /\ c.data = a.data /\ c.block = a.block
      /\ (c.listed <=> b) /\ c.dropped = a.dropped
  BY ONLY <1>5, b \in BOOLEAN DEF Target
<1> HIDE DEF c
<1>7. u.listed = c.listed
  BY <1>3, <1>6 DEF Target, Kept
<1>8. Amount(u) = c
  BY <1>3, <1>4, <1>5, <1>6, <1>7, AmountIs DEF SameRing
<1>9. Held([s EXCEPT !.t = u]) /\ [s EXCEPT !.t = u].t = u
  BY <1>0, <1>3, <1>4, TargetReplaced
<1>10. QED
  BY <1>2, <1>8, <1>9 DEF c, a, t

LEMMA DroppedHeld ==
  ASSUME NEW s, Held(s), NEW b \in BOOLEAN
  PROVE  LET r == [s EXCEPT !.t.dropped = b] IN
         Held(r) /\ Amount(r.t) = [Amount(s.t) EXCEPT !.dropped = b]
<1> DEFINE t == s.t
<1> DEFINE u == [t EXCEPT !.dropped = b]
<1> DEFINE a == Amount(t)
<1> DEFINE c == [a EXCEPT !.dropped = b]
<1>1. Kept(t) /\ Inside(t) /\ Ordered(t, s.gone) /\ t.block \in BOOLEAN
  BY HeldFields
<1>2. [s EXCEPT !.t.dropped = b] = [s EXCEPT !.t = u]
  OBVIOUS
<1>0. t.block = s.t.block
  OBVIOUS
<1> HIDE DEF t
<1>3. /\ Kept(u) /\ SameRing(u, t) /\ u.block = t.block /\ u.conn = t.conn
      /\ u.listed = t.listed /\ (u.dropped <=> b)
  BY <1>1, DroppedSet
<1> HIDE DEF u
<1>4. Inside(u) /\ Ordered(u, s.gone) /\ DataLen(u) = DataLen(t)
  BY <1>1, <1>3, RingData
<1>5. /\ a \in Target /\ a.conn = t.conn /\ a.len = t.len /\ a.data = DataLen(t)
      /\ a.block = t.block /\ a.listed = t.listed
  BY <1>1, AmountType
<1> HIDE DEF a
<1>6. /\ c \in Target /\ c.conn = a.conn /\ c.len = a.len /\ c.data = a.data /\ c.block = a.block
      /\ (c.dropped <=> b) /\ c.listed = a.listed
  BY ONLY <1>5, b \in BOOLEAN DEF Target
<1> HIDE DEF c
<1>7. u.dropped = c.dropped
  BY <1>3, <1>6 DEF Target, Kept
<1>8. Amount(u) = c
  BY <1>3, <1>4, <1>5, <1>6, <1>7, AmountIs DEF SameRing
<1>9. Held([s EXCEPT !.t = u]) /\ [s EXCEPT !.t = u].t = u
  BY <1>0, <1>3, <1>4, TargetReplaced
<1>10. QED
  BY <1>2, <1>8, <1>9 DEF c, a, t

LEMMA DataAs ==
  ASSUME NEW s, Held(s)
  PROVE  LET a == Amount(s.t) IN
         /\ a \in Target /\ a.conn = s.t.conn /\ a.len = s.t.len /\ a.data = DataLen(s.t)
         /\ DataLen(s.t) \in Nat /\ s.t.len \in Nat
         /\ \A n : s.t.len > 0 => (Fits(a, n) <=> EmptySpace(s.t) >= SafeLen(n))
<1> DEFINE a == Amount(s.t)
<1>1. /\ a \in Target /\ a.conn = s.t.conn /\ a.len = s.t.len /\ a.data = DataLen(s.t)
      /\ DataLen(s.t) \in Nat /\ s.t.len \in Nat
  BY HeldFields, AmountType, Positions
<1>2. s.t.len > 0 => EmptySpace(s.t) = s.t.len - DataLen(s.t) - 1
  BY HeldFields, Positions
<1> HIDE DEF a
<1>3. \A n : s.t.len > 0 => (Fits(a, n) <=> EmptySpace(s.t) >= SafeLen(n))
  BY <1>1, <1>2 DEF Fits
<1>4. QED
  BY <1>1, <1>3 DEF a

LEMMA AppendedHeld ==
  ASSUME NEW s, Held(s)
  PROVE  Held(Appended(s)) /\ Amount(Appended(s).t) = List(Amount(s.t))
<1>1. Amount(s.t).data = DataLen(s.t)
  BY DataAs
<1>2. CASE DataLen(s.t) > 0
  BY <1>1, <1>2, ListedHeld DEF Appended, List
<1>3. CASE ~(DataLen(s.t) > 0)
  BY <1>1, <1>3 DEF Appended, List
<1>4. QED
  BY <1>2, <1>3

\* The packet is put into the buffer or dropped.
LEMMA StoredHeld ==
  ASSUME NEW s, Held(s), s.t.len > 0, NEW n \in 1 .. PackMax
  PROVE  Held(Stored(s, n)) /\ Amount(Stored(s, n).t) = Add(Amount(s.t), n)
<1> DEFINE a == Amount(s.t)
<1> DEFINE r == IF DataLen(s.t) > 0 /\ EmptySpace(s.t) < SafeLen(n)
                THEN [s EXCEPT !.t = Expanded(@)] ELSE s
<1> DEFINE b == IF a.data > 0 /\ ~Fits(a, n) THEN Grow(a) ELSE a
<1>1. /\ a.data = DataLen(s.t) /\ DataLen(s.t) \in Nat /\ s.t.len \in Nat
      /\ Fits(a, n) <=> EmptySpace(s.t) >= SafeLen(n)
      /\ EmptySpace(s.t) \in Int /\ SafeLen(n) \in Int
  <2>1. EmptySpace(s.t) = s.t.len - DataLen(s.t) - 1
    BY HeldFields, Positions
  <2>2. SafeLen(n) \in Int
    BY Lengths DEF SafeLen
  <2>3. QED
    BY <2>1, <2>2, DataAs
<1>2. Held(r) /\ r.t.len > 0 /\ Amount(r.t) = b
  <2>1. CASE DataLen(s.t) > 0 /\ EmptySpace(s.t) < SafeLen(n)
    <3>1. r = [s EXCEPT !.t = Expanded(@)]
      BY <2>1
    <3>2. b = Grow(a)
      BY <1>1, <2>1
    <3> HIDE DEF r, b
    <3>3. QED
      BY <3>1, <3>2, GrownHeld
  <2>2. CASE ~(DataLen(s.t) > 0 /\ EmptySpace(s.t) < SafeLen(n))
    <3>1. r = s /\ b = a
      BY <1>1, <2>2
    <3> HIDE DEF r, b
    <3>2. QED
      BY <3>1
  <2>3. QED
    BY <2>1, <2>2
<1>3. Stored(s, n) = IF EmptySpace(r.t) < SafeLen(n) THEN [r EXCEPT !.t.dropped = TRUE] ELSE Packed(r, n)
  BY DEF Stored
<1>4. Add(a, n) = IF Fits(b, n) THEN [b EXCEPT !.data = @ + StlvLen(n)] ELSE [b EXCEPT !.dropped = TRUE]
  BY DEF Add
<1> HIDE DEF r, b, a
<1>5. /\ Fits(b, n) <=> EmptySpace(r.t) >= SafeLen(n)
      /\ EmptySpace(r.t) \in Int
  <2>1. EmptySpace(r.t) = r.t.len - DataLen(r.t) - 1 /\ r.t.len \in Nat /\ DataLen(r.t) \in Nat
    BY <1>2, HeldFields, Positions
  <2>2. QED
    BY <1>2, <2>1, DataAs
<1>6. CASE EmptySpace(r.t) >= SafeLen(n)
  <2>1. Stored(s, n) = Packed(r, n) /\ Add(a, n) = [b EXCEPT !.data = @ + StlvLen(n)]
    BY <1>1, <1>3, <1>4, <1>5, <1>6
  <2>2. QED
    BY <1>2, <1>6, <2>1, PackedHeld DEF a
<1>7. CASE EmptySpace(r.t) < SafeLen(n)
  <2>1. Stored(s, n) = [r EXCEPT !.t.dropped = TRUE] /\ Add(a, n) = [b EXCEPT !.dropped = TRUE]
    BY <1>1, <1>3, <1>4, <1>5, <1>7
  <2>2. QED
    BY <1>2, <2>1, DroppedHeld DEF a
<1>8. QED
  BY <1>1, <1>5, <1>6, <1>7

-----------------------------------------------------------------------------
(* The handlers: each is one of TargetSizes on the amounts.                *)

LEMMA InitialisedHeld ==
  ASSUME NEW s, Held(s), Consistent(Amount(s.t)), s.t.conn = "done"
  PROVE  LET i == Initialised(s)
             u == IF Amount(s.t).len = 0 THEN Grow(Amount(s.t)) ELSE Amount(s.t)
         IN /\ Held(i) /\ Amount(i.t) = u /\ i.t.len > 0 /\ i.t.conn = "done"
            /\ Consistent(u) /\ u.len > 0 /\ u.conn = "done"
<1> DEFINE a == Amount(s.t)
<1> DEFINE u == IF a.len = 0 THEN Grow(a) ELSE a
<1>1. a.len = s.t.len /\ a.conn = "done" /\ s.t.len \in Nat
  BY DataAs
<1>2. Consistent(u) /\ u.len > 0 /\ u.conn = "done"
  BY <1>1, Initialises
<1>3. Held(Initialised(s)) /\ Amount(Initialised(s).t) = u
  <2>1. CASE s.t.len = 0
    <3>1. Initialised(s) = [s EXCEPT !.t = Expanded(@)] /\ u = Grow(a)
      BY <1>1, <2>1 DEF Initialised
    <3> HIDE DEF u
    <3>2. QED
      BY <3>1, GrownHeld
  <2>2. CASE s.t.len # 0
    BY <1>1, <2>2 DEF Initialised
  <2>3. QED
    BY <2>1, <2>2
<1> HIDE DEF u
<1> DEFINE i == Initialised(s)
<1> HIDE DEF i
<1>4. i.t.len > 0 /\ i.t.conn = "done"
  <2>1. Held(i) /\ Amount(i.t) = u
    BY <1>3 DEF i
  <2>2. Amount(i.t).len = i.t.len /\ Amount(i.t).conn = i.t.conn
    BY <2>1, DataAs
  <2>3. QED
    BY <1>2, <2>1, <2>2
<1>5. QED
  BY <1>2, <1>3, <1>4 DEF u, i

LEMMA StoreHeld ==
  ASSUME NEW f, Held(f), f.t.len > 0, NEW n \in 1 .. PackMax
  PROVE  LET r == Stored(Appended(f), n) IN
         Held(r) /\ Amount(r.t) = Add(List(Amount(f.t)), n)
<1> DEFINE g == Appended(f)
<1> DEFINE b == List(Amount(f.t))
<1>1. Held(g) /\ Amount(g.t) = b
  BY AppendedHeld
<1>2. g.t.len > 0
  <2>1. Amount(f.t) \in Target /\ Amount(f.t).len = f.t.len
    BY DataAs
  <2>2. b.len = f.t.len
    BY <2>1, Lists
  <2> HIDE DEF g, b
  <2>3. Amount(g.t).len = g.t.len
    BY <1>1, DataAs
  <2>4. QED
    BY <1>1, <2>2, <2>3
<1> HIDE DEF g, b
<1>3. Held(Stored(g, n)) /\ Amount(Stored(g, n).t) = Add(b, n)
  BY <1>1, <1>2, StoredHeld
<1>4. QED
  BY <1>3 DEF g, b

\* After a flush there is still a buffer, or no connection.
LEMMA FlushedOpen ==
  ASSUME NEW s, Held(s), DataLen(s.t) > 0, Consistent(Amount(s.t)), NEW r \in Flushed(s)
  PROVE  /\ Held(r) /\ Amount(r.t) \in Flush(Amount(s.t)) /\ Consistent(Amount(r.t))
         /\ Amount(r.t).conn = r.t.conn /\ Amount(r.t).data = DataLen(r.t)
         /\ Amount(r.t).dropped = Amount(s.t).dropped
         /\ r.t.conn # "none" => r.t.len > 0 /\ r.t.conn = s.t.conn
<1>1. Held(r) /\ Amount(r.t) \in Flush(Amount(s.t))
  BY FlushedHeld
<1>2. /\ Amount(s.t).data = DataLen(s.t) /\ Amount(s.t).len = s.t.len /\ s.t.len \in Nat
      /\ Amount(s.t).conn = s.t.conn
  BY DataAs
<1>3. /\ Amount(r.t).conn = r.t.conn /\ Amount(r.t).data = DataLen(r.t) /\ Amount(r.t).len = r.t.len
  BY <1>1, DataAs
<1>4. /\ Consistent(Amount(r.t)) /\ Amount(r.t).dropped = Amount(s.t).dropped
      /\ \/ Amount(r.t).conn = "none"
         \/ Amount(r.t).conn = Amount(s.t).conn /\ Amount(r.t).len = Amount(s.t).len
  BY <1>1, <1>2, Flushes
<1>5. s.t.len > 0
  BY <1>2 DEF Consistent
<1>6. QED
  BY <1>1, <1>2, <1>3, <1>4, <1>5

\* dispatch_bridge.
LEMMA DispatchedHeld ==
  ASSUME NEW s, Held(s), Consistent(Amount(s.t)), s.t.conn = "done", NEW n \in 1 .. PackMax,
         NEW r \in Dispatched(s, n)
  PROVE  Held(r) /\ Amount(r.t) \in Dispatch(Amount(s.t), n)
<1> DEFINE a == Amount(s.t)
<1> DEFINE i == Initialised(s)
<1> DEFINE u == IF a.len = 0 THEN Grow(a) ELSE a
<1> DEFINE ready == IF DataLen(i.t) >= PackMax THEN Flushed(i) ELSE {i}
<1> DEFINE next == IF u.data >= PackMax THEN Flush(u) ELSE {u}
<1> DEFINE last(f) == IF f.conn = "none" THEN f ELSE List(Add(List(f), n))
<1>1. PICK f \in ready : r = IF f.t.conn = "none" THEN f ELSE Appended(Stored(Appended(f), n))
  BY DEF Dispatched
<1>2. a.conn = "done"
  BY DataAs
<1>3. Dispatch(a, n) = {last(f0) : f0 \in next}
  BY <1>2 DEF Dispatch
<1>4. Held(i) /\ Amount(i.t) = u /\ i.t.len > 0 /\ i.t.conn = "done" /\ Consistent(u)
  BY InitialisedHeld
<1> HIDE DEF i, u
<1>5. Amount(i.t).data = DataLen(i.t)
  BY <1>4, DataAs
<1>6. /\ Held(f) /\ Amount(f.t) \in next /\ Amount(f.t).conn = f.t.conn
      /\ f.t.conn # "none" => f.t.len > 0
  <2>1. CASE DataLen(i.t) >= PackMax
    <3>1. DataLen(i.t) > 0 /\ f \in Flushed(i)
      BY <2>1, Lengths, <1>4, DataAs
    <3>2. u.data >= PackMax
      BY <1>4, <1>5, <2>1
    <3>3. QED
      BY <1>4, <3>1, <3>2, FlushedOpen
  <2>2. CASE ~(DataLen(i.t) >= PackMax)
    <3>1. f = i /\ ~(u.data >= PackMax)
      BY <1>4, <1>5, <2>2
    <3>2. QED
      BY <1>4, <3>1, DataAs
  <2>3. QED
    BY <2>1, <2>2
<1>7. CASE f.t.conn = "none"
  <2>1. r = f /\ last(Amount(f.t)) = Amount(f.t)
    BY <1>1, <1>6, <1>7
  <2> HIDE DEF last, next
  <2>2. QED
    BY <1>3, <1>6, <2>1
<1>8. CASE f.t.conn # "none"
  <2> DEFINE g == Stored(Appended(f), n)
  <2> DEFINE b == Add(List(Amount(f.t)), n)
  <2>1. r = Appended(g) /\ last(Amount(f.t)) = List(b)
    BY <1>1, <1>6, <1>8
  <2>2. Held(g) /\ Amount(g.t) = b
    BY <1>6, <1>8, StoreHeld
  <2> HIDE DEF g, b, last, next
  <2>3. Held(r) /\ Amount(r.t) = List(b)
    BY <2>1, <2>2, AppendedHeld
  <2>4. QED
    BY <1>3, <1>6, <2>1, <2>3
<1>9. QED
  BY <1>7, <1>8

\* inner_send_pkg.
LEMMA InnerSentHeld ==
  ASSUME NEW s, Held(s), Consistent(Amount(s.t)), s.t.conn = "done", NEW n \in 1 .. PackMax,
         NEW r \in InnerSent(s, n)
  PROVE  Held(r) /\ Amount(r.t) \in InnerSend(Amount(s.t), n)
<1> DEFINE a == Amount(s.t)
<1> DEFINE i == Initialised(s)
<1> DEFINE u == IF a.len = 0 THEN Grow(a) ELSE a
<1> DEFINE store(f) == [Stored(Appended(f), n) EXCEPT !.t.dropped = FALSE]
<1> DEFINE after(f) ==
      IF f.t.conn = "none" THEN {f}
      ELSE IF DataLen(f.t) > 0 THEN {store(f)}
      ELSE {Appended(g) : g \in Flushed(store(f))}
<1> DEFINE put(f) == [Add(List(f), n) EXCEPT !.dropped = FALSE]
<1> DEFINE then(f) ==
      IF f.conn = "none" THEN {f}
      ELSE IF f.data > 0 THEN {put(f)}
      ELSE {List(g) : g \in Flush(put(f))}
<1>1. InnerSent(s, n) = IF DataLen(i.t) > 0 THEN UNION {after(f) : f \in Flushed(i)} ELSE after(i)
  BY DEF InnerSent
<1>2. InnerSend(a, n) = IF u.data > 0 THEN UNION {then(f) : f \in Flush(u)} ELSE then(u)
  BY DEF InnerSend
<1>3. Held(i) /\ Amount(i.t) = u /\ i.t.len > 0 /\ i.t.conn = "done" /\ Consistent(u)
  BY InitialisedHeld
<1> HIDE DEF i, u, after, then
<1>4. Amount(i.t).data = DataLen(i.t)
  BY <1>3, DataAs
<1>5. ASSUME NEW f, Held(f), Consistent(Amount(f.t)), f.t.conn # "none" => f.t.len > 0,
             NEW x \in after(f)
      PROVE  Held(x) /\ Amount(x.t) \in then(Amount(f.t))
  <2> DEFINE e == Amount(f.t)
  <2>1. e.conn = f.t.conn /\ e.data = DataLen(f.t) /\ e \in Target
    BY <1>5, DataAs
  <2>2. CASE f.t.conn = "none"
    BY <1>5, <2>1, <2>2 DEF after, then
  <2>3. ASSUME f.t.conn # "none"
        PROVE  Held(store(f)) /\ Amount(store(f).t) = put(e)
    <3> DEFINE q == Stored(Appended(f), n)
    <3>1. Held(q) /\ Amount(q.t) = Add(List(e), n)
      BY <1>5, <2>3, StoreHeld
    <3> HIDE DEF q
    <3> DEFINE b == FALSE
    <3>2. b \in BOOLEAN
      OBVIOUS
    <3> HIDE DEF b
    <3>3. /\ Held([q EXCEPT !.t.dropped = b])
          /\ Amount([q EXCEPT !.t.dropped = b].t) = [Amount(q.t) EXCEPT !.dropped = b]
      BY <3>1, <3>2, DroppedHeld
    <3>4. QED
      BY <3>1, <3>3 DEF b, q
  <2>4. CASE f.t.conn # "none" /\ DataLen(f.t) > 0
    <3>1. x = store(f) /\ then(e) = {put(e)}
      BY <1>5, <2>1, <2>4 DEF after, then
    <3> HIDE DEF store, put
    <3>2. QED
      BY <2>3, <2>4, <3>1
  <2>5. CASE f.t.conn # "none" /\ ~(DataLen(f.t) > 0)
    <3>1. x \in {Appended(g) : g \in Flushed(store(f))} /\ then(e) = {List(g) : g \in Flush(put(e))}
      BY <1>5, <2>1, <2>5 DEF after, then
    <3>2. Add(List(e), n) \in Target /\ Add(List(e), n).data > 0
      <4>1. e.len = f.t.len /\ e.len > 0
        BY <1>5, <2>5, DataAs
      <4>2. Consistent(Add(List(e), n)) /\ Add(List(e), n).data > 0
        BY <1>5, <4>1, Stores
      <4>3. QED
        BY <4>2 DEF Consistent
    <3>3. put(e).data > 0
      <4> DEFINE y == Add(List(e), n)
      <4>1. y \in Target /\ y.data > 0
        BY <3>2
      <4> HIDE DEF y
      <4>2. [y EXCEPT !.dropped = FALSE].data > 0
        BY <4>1 DEF Target
      <4>3. QED
        BY <4>2 DEF y
    <3> DEFINE q == store(f)
    <3> DEFINE p == put(e)
    <3>4. Held(q) /\ Amount(q.t) = p /\ p.data > 0
      BY <2>3, <2>5, <3>3
    <3>5. x \in {Appended(g) : g \in Flushed(q)} /\ then(e) = {List(g) : g \in Flush(p)}
      BY <3>1
    <3> HIDE DEF q, p, store, put, e
    <3>6. PICK g \in Flushed(q) : x = Appended(g)
      BY <3>5
    <3>7. DataLen(q.t) > 0
      BY <3>4, DataAs
    <3>8. Held(g) /\ Amount(g.t) \in Flush(p)
      BY <3>4, <3>7, FlushedHeld
    <3>9. Held(x) /\ Amount(x.t) = List(Amount(g.t))
      BY <3>6, <3>8, AppendedHeld
    <3>10. Amount(x.t) \in then(e)
      BY <3>5, <3>8, <3>9
    <3>11. QED
      BY <3>9, <3>10 DEF e
  <2>6. QED
    BY <2>2, <2>4, <2>5
<1> HIDE DEF store, put
<1>6. CASE DataLen(i.t) > 0
  <2>1. PICK f \in Flushed(i) : r \in after(f)
    BY <1>1, <1>6
  <2>2. /\ Held(f) /\ Amount(f.t) \in Flush(u) /\ Consistent(Amount(f.t))
        /\ f.t.conn # "none" => f.t.len > 0
    BY <1>3, <1>6, FlushedOpen
  <2>3. Held(r) /\ Amount(r.t) \in then(Amount(f.t))
    BY <1>5, <2>1, <2>2
  <2>4. u.data > 0
    BY <1>3, <1>4, <1>6
  <2>5. QED
    BY <1>2, <2>2, <2>3, <2>4
<1>7. CASE ~(DataLen(i.t) > 0)
  <2>1. r \in after(i) /\ InnerSend(a, n) = then(u)
    BY <1>1, <1>2, <1>3, <1>4, <1>7
  <2>2. Held(r) /\ Amount(r.t) \in then(Amount(i.t))
    BY <1>3, <1>5, <2>1
  <2>3. QED
    BY <1>3, <2>1, <2>2
<1>8. QED
  BY <1>6, <1>7

\* iter_sending_list.
LEMMA IteratedHeld ==
  ASSUME NEW s, Held(s), Consistent(Amount(s.t)), s.t.listed, NEW del \in BOOLEAN,
         NEW r \in Iterated(s, del)
  PROVE  Held(r) /\ Amount(r.t) \in Iter(Amount(s.t), del)
<1> DEFINE a == Amount(s.t)
<1>1. a \in Target /\ a.conn = s.t.conn /\ a.data = DataLen(s.t) /\ DataLen(s.t) \in Nat
  BY DataAs
<1>2. a.listed = s.t.listed /\ a.conn \in {"none", "done"}
  BY <1>1, HeldFields, AmountType DEF Target
<1>3. a.listed
  BY <1>2
<1> HIDE DEF a
<1>4. CASE s.t.conn = "none" \/ DataLen(s.t) = 0
  <2> DEFINE b == FALSE
  <2>1. r = [s EXCEPT !.t.listed = b] /\ b \in BOOLEAN
    BY <1>4 DEF Iterated
  <2>2. Iter(a, del) = {[a EXCEPT !.listed = b]}
    BY <1>1, <1>2, <1>3, <1>4 DEF Iter
  <2> HIDE DEF b
  <2>3. Held(r) /\ Amount(r.t) = [Amount(s.t) EXCEPT !.listed = b]
    BY <2>1, ListedHeld
  <2>4. Amount(r.t) = [a EXCEPT !.listed = b]
    BY <2>3 DEF a
  <2>5. QED
    BY <2>2, <2>3, <2>4 DEF a
<1>5. CASE s.t.conn # "none" /\ DataLen(s.t) # 0
  <2>1. PICK f \in Flushed(s) : r = [f EXCEPT !.t.listed = DataLen(f.t) > 0 /\ ~del]
    BY <1>5 DEF Iterated
  <2>2. DataLen(s.t) > 0
    BY <1>1, <1>5
  <2>3. /\ Held(f) /\ Amount(f.t) \in Flush(a) /\ Amount(f.t).data = DataLen(f.t)
    BY <2>2, FlushedOpen DEF a
  <2>4. Iter(a, del) = {[g EXCEPT !.listed = g.data > 0 /\ ~del] : g \in Flush(a)}
    BY <1>1, <1>2, <1>3, <1>5 DEF Iter
  <2> DEFINE b == DataLen(f.t) > 0 /\ ~del
  <2> DEFINE h == Amount(f.t)
  <2>5. b \in BOOLEAN /\ r = [f EXCEPT !.t.listed = b]
    BY <2>1
  <2>6. [h EXCEPT !.listed = h.data > 0 /\ ~del] = [h EXCEPT !.listed = b]
    BY <2>3
  <2>7. [h EXCEPT !.listed = h.data > 0 /\ ~del] \in Iter(a, del)
    BY <2>3, <2>4
  <2> HIDE DEF b
  <2>8. Held(r) /\ Amount(r.t) = [h EXCEPT !.listed = b]
    BY <2>3, <2>5, ListedHeld
  <2>9. QED
    BY <2>6, <2>7, <2>8 DEF a
<1>6. QED
  BY <1>4, <1>5

\* check_snd_buff_memory.  The positions of an empty buffer may be left
\* outside of what it shrinks to.
LEMMA ShrunkHeld ==
  ASSUME NEW t, Kept(t), Inside(t) \/ t.head = t.tail, NEW g \in 0 .. Wrap - 1, Ordered(t, g),
         t.len >= Mega, DataLen(t) < t.len \div 3
  PROVE  LET r == Shrunk(t) IN
         /\ Kept(r) /\ (Inside(r) \/ r.head = r.tail) /\ Ordered(r, g) /\ r.block = t.block
         /\ Amount(r) = Shrink(Amount(t))
<1> DEFINE n == (2 * t.len) \div 3
<1> DEFINE a == Amount(t)
<1> DEFINE r == Shrunk(t)
<1> DEFINE c == Shrink(a)
<1>1. t.len \in 0 .. Wrap - 1 /\ t.head \in Nat /\ t.tail \in Nat /\ Mega \in Nat /\ Wrap \in Nat
  BY Lengths DEF Kept
<1>2. /\ a \in Target /\ a.conn = t.conn /\ a.len = t.len /\ a.data = DataLen(t)
      /\ a.block = t.block /\ a.listed = t.listed /\ a.dropped = t.dropped
  BY AmountType
<1>3. DataLen(t) \in Nat
  BY <1>2 DEF Target
<1>4. n \in 0 .. Wrap - 1 /\ DataLen(t) < n
  <2> DEFINE d == DataLen(t)
  <2>1. d \in Nat /\ d < t.len \div 3 /\ t.len \in Nat /\ t.len < Wrap
    BY <1>1, <1>3
  <2> HIDE DEF d
  <2>2. n \in Nat /\ n < Wrap /\ d < n
    BY <1>1, <2>1
  <2>3. QED
    BY <1>1, <2>2 DEF d
<1>5. c = [a EXCEPT !.len = n]
  BY <1>1, <1>2, <1>3 DEF Shrink
<1> HIDE DEF a, n, c
<1>6. /\ c \in Target /\ c.conn = a.conn /\ c.len = n /\ c.data = a.data /\ c.block = a.block
      /\ c.listed = a.listed /\ c.dropped = a.dropped
  BY <1>2, <1>4, <1>5 DEF Target
<1>7. CASE DataLen(t) = 0
  <2>1. Calloc(n) \in Cells(n) /\ n \in Nat
    BY <1>4, CallocCells
  <2> DEFINE m == Calloc(n)
  <2>2. r = [t EXCEPT !.len = n, !.cells = m] /\ m \in Cells(n)
    BY <1>7, <2>1 DEF Shrunk, n
  <2> HIDE DEF r, m
  <2>3. /\ Kept(r) /\ Same(r, t) /\ r.block = t.block
        /\ r.len = n /\ r.head = t.head /\ r.tail = t.tail
    BY ONLY <1>4, <2>2, Kept(t) DEF Kept, Same
  <2>4. t.head = t.tail
    BY <1>7, Positions
  <2>5. r.head = r.tail /\ DataLen(r) = 0
    BY <1>1, <2>3, <2>4 DEF DataLen
  <2>6. Ordered(r, g)
    BY <2>5 DEF Ordered
  <2>7. Amount(r) = c
    BY <1>2, <1>6, <1>7, <2>3, <2>5, AmountIs DEF Same
  <2>8. QED
    BY <2>3, <2>5, <2>6, <2>7 DEF r, c, a
<1>8. CASE DataLen(t) # 0
  <2>1. r = MovedTo(t, n)
    BY <1>8 DEF Shrunk, n
  <2>2. Inside(t) /\ t.len > 0
    <3>1. t.head # t.tail
      BY <1>1, <1>8 DEF DataLen
    <3>2. t.len > 0
      BY <1>1, Lengths
    <3>3. QED
      BY <3>1, <3>2
  <2> HIDE DEF r
  <2>3. /\ Kept(r) /\ Same(r, t) /\ r.block = t.block /\ r.len = n
        /\ Inside(r) /\ Ordered(r, g) /\ DataLen(r) = DataLen(t)
    BY <1>4, <2>1, <2>2, MovedHeld
  <2>4. Amount(r) = c
    BY <1>2, <1>6, <2>3, AmountIs DEF Same
  <2>5. QED
    BY <2>3, <2>4 DEF r, c, a
<1>9. QED
  BY <1>7, <1>8

-----------------------------------------------------------------------------
(* The abstract target is built from the handlers of TargetSizes.          *)

LEMMA SameClose ==
  ASSUME NEW t
  PROVE  Amounts!Close(t) = Close(t)
  BY DEF Close, Amounts!Close


LEMMA SameLimits ==
  ASSUME NEW t
  PROVE  Amounts!AtLimit(t) = AtLimit(t) /\ Amounts!Tight(t) = Tight(t)
  BY DEF AtLimit, Amounts!AtLimit, MaxExpand, Amounts!MaxExpand,
    Tight, Amounts!Tight, BlockSize, Amounts!BlockSize


LEMMA SameBlocking ==
  ASSUME NEW t
  PROVE  Amounts!Block(t) = Block(t) /\ Amounts!Review(t) = Review(t)
<1>1. Amounts!Block(t) = Block(t)
  BY SameLimits DEF Block, Amounts!Block
<1>2. QED
  BY <1>1, SameLimits DEF Review, Amounts!Review, BlockSize, Amounts!BlockSize


LEMMA SameFlush ==
  ASSUME NEW t
  PROVE  Amounts!Flush(t) = Flush(t)
  BY SameClose, SameBlocking, Zenon DEF Flush, Amounts!Flush


LEMMA SameGrow ==
  ASSUME NEW t
  PROVE  Amounts!Grow(t) = Grow(t)
  BY DEF Grow, Amounts!Grow, Grown, Amounts!Grown, InitLen, Amounts!InitLen,
    MaxExpand, Amounts!MaxExpand, BlockSize, Amounts!BlockSize


LEMMA SameList ==
  ASSUME NEW t
  PROVE  Amounts!List(t) = List(t)
  BY DEF List, Amounts!List


LEMMA SameAdd ==
  ASSUME NEW t, NEW n
  PROVE  Amounts!Add(t, n) = Add(t, n)
<1>1. \A r : Amounts!Fits(r, n) = Fits(r, n)
  BY DEF Fits, Amounts!Fits, SafeLen, Amounts!SafeLen
<1>2. QED
  BY <1>1, SameGrow DEF Add, Amounts!Add, StlvLen, Amounts!StlvLen


LEMMA SameDispatch ==
  ASSUME NEW t, NEW n
  PROVE  Amounts!Dispatch(t, n) = Dispatch(t, n)
  BY SameFlush, SameGrow, SameList, SameAdd, Zenon DEF Dispatch, Amounts!Dispatch


LEMMA SameInnerSend ==
  ASSUME NEW t, NEW n
  PROVE  Amounts!InnerSend(t, n) = InnerSend(t, n)
<1> DEFINE u == IF t.len = 0 THEN Grow(t) ELSE t
<1> DEFINE put(f) == [Add(List(f), n) EXCEPT !.dropped = FALSE]
<1> DEFINE then(f) ==
      IF f.conn = "none" THEN {f}
      ELSE IF f.data > 0 THEN {put(f)}
      ELSE {List(g) : g \in Flush(put(f))}
<1> DEFINE v == IF t.len = 0 THEN Amounts!Grow(t) ELSE t
<1> DEFINE lay(f) == [Amounts!Add(Amounts!List(f), n) EXCEPT !.dropped = FALSE]
<1> DEFINE next(f) ==
      IF f.conn = "none" THEN {f}
      ELSE IF f.data > 0 THEN {lay(f)}
      ELSE {Amounts!List(g) : g \in Amounts!Flush(lay(f))}
<1>1. InnerSend(t, n) = IF u.data > 0 THEN UNION {then(f) : f \in Flush(u)} ELSE then(u)
  BY DEF InnerSend
<1>2. Amounts!InnerSend(t, n) = IF v.data > 0 THEN UNION {next(f) : f \in Amounts!Flush(v)} ELSE next(v)
  BY DEF Amounts!InnerSend
<1>3. u = v
  BY SameGrow
<1>4. ASSUME NEW f
      PROVE  next(f) = then(f)
  <2>1. lay(f) = put(f)
    BY SameList, SameAdd
  <2> HIDE DEF lay, put
  <2>2. {Amounts!List(g) : g \in Amounts!Flush(lay(f))} = {List(g) : g \in Flush(put(f))}
    BY <2>1, SameFlush, SameList
  <2>3. QED
    BY <2>1, <2>2
<1> HIDE DEF u, v, then, next
<1>5. QED
  BY <1>1, <1>2, <1>3, <1>4, SameFlush


LEMMA SameConnect ==
  ASSUME NEW t, NEW n
  PROVE  Amounts!Connect(t, n) = Connect(t, n)
  BY SameInnerSend DEF Connect, Amounts!Connect


LEMMA SameIter ==
  ASSUME NEW t, NEW del
  PROVE  Amounts!Iter(t, del) = Iter(t, del)
  BY SameFlush DEF Iter, Amounts!Iter


LEMMA SameShrink ==
  ASSUME NEW t
  PROVE  Amounts!Shrink(t) = Shrink(t)
  BY DEF Shrink, Amounts!Shrink


-----------------------------------------------------------------------------
(* The steps.                                                              *)

LEMMA HereHeld ==
  ASSUME IInv
  PROVE  /\ Here = [t |-> Here.t, bit |-> bit, gone |-> gone]
         /\ bit \in BOOLEAN /\ gone \in 0 .. Wrap - 1
         /\ Kept(Here.t) /\ (bit <=> Here.t.block) /\ Ordered(Here.t, gone)
         /\ Inside(Here.t) \/ Here.t.head = Here.t.tail
         /\ Inside(target) => Held(Here)
         /\ Here.t.conn = target.conn /\ (Here.t.listed <=> target.listed)
         /\ Here.t.len = target.len /\ DataLen(Here.t) = DataLen(target)
         /\ Amount(Here.t) = Amounts!Now
         /\ Consistent(Amount(Here.t)) /\ ~Amount(Here.t).dropped
         /\ Unlisted(Here.t) => stranded
<1> DEFINE b == FALSE
<1> DEFINE u == [target EXCEPT !.dropped = b]
<1> DEFINE a == Amount(target)
<1> DEFINE c == [a EXCEPT !.dropped = b]
<1>1. /\ Kept(target) /\ bit \in BOOLEAN /\ gone \in 0 .. Wrap - 1 /\ (bit <=> target.block)
      /\ Consistent(a) /\ (Unlisted(target) => stranded)
      /\ (Inside(target) \/ target.head = target.tail)
  BY DEF IInv, TypeOK, Situated, Kept, Cells
<1>2. Ordered(target, gone)
  BY DEF IInv, UnsentInOrder, Ordered, At, Number
<1>3. Here = [t |-> u, bit |-> bit, gone |-> gone] /\ Amounts!Now = c /\ b \in BOOLEAN
  BY DEF Here, Amounts!Now
<1>4. /\ a \in Target /\ a.conn = target.conn /\ a.len = target.len /\ a.data = DataLen(target)
      /\ a.block = target.block /\ a.listed = target.listed
  BY <1>1, AmountType
<1> HIDE DEF a
<1>5. /\ c \in Target /\ c.conn = a.conn /\ c.len = a.len /\ c.data = a.data /\ c.block = a.block
      /\ c.listed = a.listed /\ ~c.dropped
  BY <1>4 DEF Target
<1>6. ~b
  OBVIOUS
<1> HIDE DEF b
<1>7. /\ Kept(u) /\ SameRing(u, target) /\ u.block = target.block /\ u.conn = target.conn
      /\ u.listed = target.listed /\ (u.dropped <=> b)
  BY <1>1, <1>3, DroppedSet
<1> HIDE DEF u, c
<1>8. /\ Inside(u) <=> Inside(target)
      /\ Ordered(u, gone) /\ DataLen(u) = DataLen(target) /\ (Inside(u) \/ u.head = u.tail)
  BY <1>1, <1>2, <1>7, RingData DEF SameRing
<1>9. u.dropped = c.dropped
  BY <1>5, <1>6, <1>7 DEF Target, Kept
<1>10. Amount(u) = c
  BY <1>4, <1>5, <1>7, <1>8, <1>9, AmountIs DEF SameRing
<1>11. Consistent(c) /\ (Unlisted(u) => stranded)
  BY <1>1, <1>4, <1>5, <1>7, <1>8 DEF Consistent, Unlisted
<1>12. Inside(target) => Held(Here)
  BY <1>1, <1>3, <1>7, <1>8, HeldIntro
<1>13. Here.t = u
  BY <1>3
<1>14. QED
  BY <1>1, <1>3, <1>5, <1>7, <1>8, <1>10, <1>11, <1>12, <1>13 DEF SameRing

LEMMA HereArrives ==
  ASSUME NEW s, Moves(s), s.bit \in BOOLEAN, s.gone \in 0 .. Wrap - 1,
         Kept(s.t), s.bit <=> s.t.block, Inside(s.t) \/ s.t.head = s.t.tail, Ordered(s.t, s.gone),
         Consistent(Amount(s.t)), DropJustified(Amount(s.t)),
         stranded' \in BOOLEAN, Unlisted(s.t) => stranded'
  PROVE  IInv'
<1>1. target' = s.t /\ bit' = s.bit /\ gone' = s.gone
  BY DEF Moves
<1>2. TypeOK'
  BY <1>1 DEF TypeOK, Kept, Cells
<1>3. bit' = target'.block
  BY <1>1 DEF Kept
<1>4. Situated'
  BY <1>1, <1>3 DEF Situated
<1>5. UnsentInOrder'
  BY <1>1 DEF UnsentInOrder, Ordered, At, Number
<1>6. QED
  BY <1>2, <1>4, <1>5 DEF IInv

\* A step that lists the target if there is data.
LEMMA HeldArrives ==
  ASSUME NEW s, Becomes(s), Held(s),
         Consistent(Amount(s.t)), Listed(Amount(s.t)), DropJustified(Amount(s.t))
  PROVE  IInv' /\ Amount(target') = Amount(s.t)
<1>1. Moves(s) /\ stranded' \in BOOLEAN
  BY DEF Becomes
<1>2. ~Unlisted(s.t)
  BY DEF Listed, Amount, Unlisted
<1>3. IInv'
  BY <1>1, <1>2, HeldFields, HereArrives
<1>4. QED
  BY <1>1, <1>3 DEF Moves

\* A target as a new connection finds it.
LEMMA OpenedHeld ==
  ASSUME IInv, target.conn = "none"
  PROVE  LET s == [Here EXCEPT !.t = [NoBuffer(@) EXCEPT !.conn = "done"], !.gone = 0]
             u == [Amounts!Now EXCEPT !.conn = "done", !.len = 0, !.data = 0]
         IN Held(s) /\ Amount(s.t) = u /\ s.t.conn = "done"
<1> DEFINE h == Here.t
<1> DEFINE e == NoBuffer(h)
<1> DEFINE c == "done"
<1> DEFINE v == [e EXCEPT !.conn = c]
<1> DEFINE z == 0
<1> DEFINE s == [Here EXCEPT !.t = [NoBuffer(@) EXCEPT !.conn = "done"], !.gone = 0]
<1> DEFINE a == Amounts!Now
<1> DEFINE u == [a EXCEPT !.conn = c, !.len = z, !.data = z]
<1>1. /\ Here = [t |-> h, bit |-> bit, gone |-> gone] /\ bit \in BOOLEAN
      /\ Kept(h) /\ (bit <=> h.block) /\ a = Amount(h)
      /\ Inside(h) \/ h.head = h.tail
  BY HereHeld
<1>2. s = [t |-> v, bit |-> bit, gone |-> z]
  <2>0. s = [Here EXCEPT !.t = v, !.gone = z]
    OBVIOUS
  <2>1. Here \in [t : {h}, bit : {bit}, gone : {gone}]
    <3> HIDE DEF h
    <3>1. QED
      BY <1>1
  <2> HIDE DEF s, v, z
  <2>2. s \in [t : {v}, bit : {bit}, gone : {z}]
    BY ONLY <2>0, <2>1
  <2>3. QED
    BY <2>2, StateIs
<1>3. /\ a \in Target /\ a.conn = h.conn /\ a.block = h.block /\ a.listed = h.listed
      /\ a.dropped = h.dropped
  BY <1>1, AmountType
<1> HIDE DEF h
<1>4. /\ Kept(e) /\ Same(e, h) /\ e.block = h.block /\ e.len = z
      /\ Inside(e) /\ DataLen(e) = z /\ \A g : Ordered(e, g)
  BY <1>1, NoBufferKept
<1>5. z \in 0 .. Wrap - 1 /\ z \in Nat /\ c \in {"none", "done"}
  BY Lengths
<1> HIDE DEF e, z, c, a
<1>6. /\ Kept(v) /\ SameRing(v, e) /\ v.block = e.block /\ v.conn = c
      /\ v.listed = e.listed /\ v.dropped = e.dropped
  BY <1>4, <1>5, ConnSet
<1> HIDE DEF v
<1>7. Inside(v) /\ Ordered(v, z) /\ DataLen(v) = z
  BY <1>4, <1>6, RingData
<1>8. bit <=> v.block
  BY <1>1, <1>4, <1>6
<1>9. Held([t |-> v, bit |-> bit, gone |-> z])
  BY <1>1, <1>5, <1>6, <1>7, <1>8, HeldIntro
<1>10. /\ u \in Target /\ u.conn = c /\ u.len = z /\ u.data = z /\ u.block = a.block
       /\ u.listed = a.listed /\ u.dropped = a.dropped
  BY ONLY <1>3, <1>5 DEF Target
<1> HIDE DEF u
<1>11. Amount(v) = u
  BY <1>3, <1>4, <1>6, <1>7, <1>10, AmountIs DEF SameRing, Same
<1>12. Held(s) /\ Amount(s.t) = u /\ s.t.conn = c
  BY <1>2, <1>6, <1>9, <1>11
<1>13. QED
  BY <1>12 DEF s, u, a, c, z

LEMMA ConnectAtOnceStep ==
  ASSUME IInv, ConnectAtOnce
  PROVE  IInv' /\ Amounts!Next
<1> DEFINE s == [Here EXCEPT !.t = [NoBuffer(@) EXCEPT !.conn = "done"], !.gone = 0]
<1> DEFINE u == [Amounts!Now EXCEPT !.conn = "done", !.len = 0, !.data = 0]
<1>1. target.conn = "none" /\ Becomes(s)
  BY DEF ConnectAtOnce
<1>2. Held(s) /\ Amount(s.t) = u
  BY <1>1, OpenedHeld
<1>3. PICK n \in InnerLens : n \in 1 .. PackMax
  BY LensAssumption
<1>4. u \in Connect(Amounts!Now, n)
  BY DEF Connect
<1>5. Consistent(Amounts!Now) /\ ~Amounts!Now.dropped /\ Amounts!Now.conn = "none"
  <2>1. Here.t.conn = "none" /\ Amount(Here.t) = Amounts!Now /\ Consistent(Amounts!Now)
        /\ ~Amounts!Now.dropped
    BY <1>1, HereHeld
  <2>2. Amount(Here.t).conn = Here.t.conn
    BY DEF Amount
  <2>3. QED
    BY <2>1, <2>2
<1>6. Consistent(u) /\ Listed(u) /\ ~u.dropped
  BY <1>3, <1>4, <1>5, ConnectKeeps
<1>7. Amount(target).conn = "none"
  BY <1>1 DEF Amount
<1> HIDE DEF s, u
<1>8. DropJustified(u)
  BY <1>6 DEF DropJustified
<1>9. IInv' /\ Amount(target') = u
  BY <1>1, <1>2, <1>6, <1>8, HeldArrives
<1>10. Amounts!Next
  BY <1>3, <1>4, <1>7, <1>9, SameConnect DEF Amounts!Next
<1>11. QED
  BY <1>9, <1>10

LEMMA ConnectLaterStep ==
  ASSUME IInv, ConnectLater
  PROVE  IInv' /\ Amounts!Next
<1> DEFINE s == [Here EXCEPT !.t = [NoBuffer(@) EXCEPT !.conn = "done"], !.gone = 0]
<1> DEFINE u == [Amounts!Now EXCEPT !.conn = "done", !.len = 0, !.data = 0]
<1>1. target.conn = "none"
  BY DEF ConnectLater
<1>2. PICK n \in InnerLens : \E x \in InnerSent(s, n) : Becomes(x)
  BY DEF ConnectLater, Become
<1>3. PICK r \in InnerSent(s, n) : Becomes(r)
  BY <1>2
<1>4. Held(s) /\ Amount(s.t) = u /\ s.t.conn = "done" /\ n \in 1 .. PackMax
  BY <1>1, OpenedHeld, LensAssumption
<1>5. /\ Consistent(Amounts!Now) /\ ~Amounts!Now.dropped /\ Amounts!Now.conn = "none"
  <2>1. Here.t.conn = "none" /\ Amount(Here.t) = Amounts!Now /\ Consistent(Amounts!Now)
        /\ ~Amounts!Now.dropped
    BY <1>1, HereHeld
  <2>2. Amount(Here.t).conn = Here.t.conn
    BY DEF Amount
  <2>3. QED
    BY <2>1, <2>2
<1>6. u \in Connect(Amounts!Now, n) /\ \A x \in InnerSend(u, n) : x \in Connect(Amounts!Now, n)
  BY DEF Connect
<1>7. Consistent(u)
  BY <1>4, <1>5, <1>6, ConnectKeeps
<1>8. Amount(target).conn = "none"
  BY <1>1 DEF Amount
<1> HIDE DEF s, u
<1>9. Held(r) /\ Amount(r.t) \in InnerSend(u, n)
  BY <1>3, <1>4, <1>7, InnerSentHeld
<1>10. Amount(r.t) \in Connect(Amounts!Now, n)
  BY <1>6, <1>9
<1>11. Consistent(Amount(r.t)) /\ Listed(Amount(r.t)) /\ ~Amount(r.t).dropped
  BY <1>4, <1>5, <1>10, ConnectKeeps
<1>12. DropJustified(Amount(r.t))
  BY <1>11 DEF DropJustified
<1>13. IInv' /\ Amount(target') = Amount(r.t)
  BY <1>3, <1>9, <1>11, <1>12, HeldArrives
<1>14. Amounts!Next
  BY <1>8, <1>10, <1>13, SameConnect DEF Amounts!Next
<1>15. QED
  BY <1>13, <1>14

LEMMA PeerClosesStep ==
  ASSUME IInv, PeerCloses
  PROVE  IInv' /\ Amounts!Next
<1>1. target.conn = "done" /\ Becomes(Closed(Here))
  BY DEF PeerCloses
<1>2. /\ Kept(Here.t) /\ (Inside(Here.t) \/ Here.t.head = Here.t.tail)
      /\ Amount(Here.t) = Amounts!Now /\ Consistent(Amounts!Now) /\ ~Amounts!Now.dropped
  BY HereHeld
<1> DEFINE a == Amounts!Now
<1> HIDE DEF a
<1>3. Held(Closed(Here)) /\ Amount(Closed(Here).t) = Close(a)
  BY <1>2, ClosedHeld DEF a
<1>4. Consistent(Close(a)) /\ Listed(Close(a)) /\ DropJustified(Close(a))
  <2>1. Consistent(Close(a)) /\ Listed(Close(a)) /\ Close(a).dropped = a.dropped
    BY <1>2, CloseKeeps DEF a
  <2>2. QED
    BY <1>2, <2>1 DEF a, DropJustified
<1>5. IInv' /\ Amount(target') = Close(a)
  BY <1>1, <1>3, <1>4, HeldArrives
<1>6. Amount(target).conn = "done"
  BY <1>1 DEF Amount
<1>7. Amounts!Next
  BY <1>5, <1>6, SameClose DEF Amounts!Next, a
<1>8. QED
  BY <1>5, <1>7

LEMMA DispatchStep ==
  ASSUME IInv, DispatchPacket
  PROVE  IInv' /\ Amounts!Next
<1>1. target.conn = "done" /\ Inside(target)
  BY DEF DispatchPacket
<1>2. PICK n \in PackLens : \E x \in Dispatched(Here, n) : Becomes(x)
  BY DEF DispatchPacket, Become
<1>3. PICK r \in Dispatched(Here, n) : Becomes(r)
  BY <1>2
<1>4. /\ Held(Here) /\ Here.t.conn = "done" /\ Amount(Here.t) = Amounts!Now
      /\ Consistent(Amounts!Now) /\ ~Amounts!Now.dropped /\ n \in 1 .. PackMax
  BY <1>1, HereHeld, LensAssumption
<1>5. Held(r) /\ Amount(r.t) \in Dispatch(Amounts!Now, n)
  BY <1>3, <1>4, DispatchedHeld
<1>6. Consistent(Amount(r.t)) /\ Listed(Amount(r.t)) /\ DropJustified(Amount(r.t))
  BY <1>4, <1>5, DispatchKeeps
<1>7. IInv' /\ Amount(target') = Amount(r.t)
  BY <1>3, <1>5, <1>6, HeldArrives
<1>8. Amounts!Next
  BY <1>5, <1>7, SameDispatch DEF Amounts!Next
<1>9. QED
  BY <1>7, <1>8

LEMMA SendInnerStep ==
  ASSUME IInv, SendInner
  PROVE  IInv' /\ Amounts!Next
<1>1. target.conn = "done" /\ Inside(target) /\ Amount(target).conn = "done"
  BY DEF SendInner, Amount
<1>2. PICK n \in InnerLens : \E x \in InnerSent(Here, n) : Becomes(x)
  BY DEF SendInner, Become
<1>3. PICK r \in InnerSent(Here, n) : Becomes(r)
  BY <1>2
<1>4. /\ Held(Here) /\ Here.t.conn = "done" /\ Amount(Here.t) = Amounts!Now
      /\ Consistent(Amounts!Now) /\ ~Amounts!Now.dropped /\ n \in 1 .. PackMax
      /\ Amounts!Now.conn = "done"
  <2>1. /\ Held(Here) /\ Here.t.conn = "done" /\ Amount(Here.t) = Amounts!Now
        /\ Consistent(Amounts!Now) /\ ~Amounts!Now.dropped /\ n \in 1 .. PackMax
    BY <1>1, HereHeld, LensAssumption
  <2>2. Amount(Here.t).conn = Here.t.conn
    BY DEF Amount
  <2>3. QED
    BY <2>1, <2>2
<1>5. Held(r) /\ Amount(r.t) \in InnerSend(Amounts!Now, n)
  BY <1>3, <1>4, InnerSentHeld
<1>6. Consistent(Amount(r.t)) /\ Listed(Amount(r.t)) /\ ~Amount(r.t).dropped
  BY <1>4, <1>5, InnerSendKeeps
<1>7. DropJustified(Amount(r.t))
  BY <1>6 DEF DropJustified
<1>8. IInv' /\ Amount(target') = Amount(r.t)
  BY <1>3, <1>5, <1>6, <1>7, HeldArrives
<1>9. Amounts!Next
  BY <1>1, <1>5, <1>8, SameInnerSend DEF Amounts!Next
<1>10. QED
  BY <1>8, <1>9

LEMMA IterStep ==
  ASSUME IInv, IterSendingList
  PROVE  IInv' /\ Amounts!Next
<1>1. target.listed /\ Inside(target)
  BY DEF IterSendingList
<1> DEFINE no == FALSE
<1>2. PICK r \in Iterated(Here, no) : Becomes(r)
  BY DEF IterSendingList, Become
<1>3. no \in BOOLEAN /\ ~no
  OBVIOUS
<1> HIDE DEF no
<1>4. /\ Held(Here) /\ Here.t.listed /\ Amount(Here.t) = Amounts!Now
      /\ Consistent(Amounts!Now) /\ ~Amounts!Now.dropped
  BY <1>1, HereHeld
<1>5. Listed(Amounts!Now)
  BY <1>4 DEF Listed, Amount
<1>6. Held(r) /\ Amount(r.t) \in Iter(Amounts!Now, no)
  BY <1>2, <1>3, <1>4, IteratedHeld
<1>7. Consistent(Amount(r.t)) /\ Listed(Amount(r.t)) /\ Amount(r.t).dropped = Amounts!Now.dropped
  BY <1>3, <1>4, <1>5, <1>6, IterKeeps
<1>8. DropJustified(Amount(r.t))
  BY <1>4, <1>7 DEF DropJustified
<1>9. IInv' /\ Amount(target') = Amount(r.t)
  BY <1>2, <1>6, <1>7, <1>8, HeldArrives
<1>10. Amounts!Next
  BY <1>3, <1>6, <1>9, SameIter DEF Amounts!Next
<1>11. QED
  BY <1>9, <1>10

LEMMA DelStep ==
  ASSUME IInv, DelSendingList
  PROVE  IInv' /\ Amounts!Next
<1>1. target.listed /\ Inside(target)
  BY DEF DelSendingList
<1> DEFINE yes == TRUE
<1>2. PICK r \in Iterated(Here, yes) : Moves(r) /\ stranded' = Unlisted(r.t)
  BY DEF DelSendingList
<1>3. yes \in BOOLEAN
  OBVIOUS
<1> HIDE DEF yes
<1>4. /\ Held(Here) /\ Here.t.listed /\ Amount(Here.t) = Amounts!Now
      /\ Consistent(Amounts!Now) /\ ~Amounts!Now.dropped
  BY <1>1, HereHeld
<1>5. Held(r) /\ Amount(r.t) \in Iter(Amounts!Now, yes)
  BY <1>2, <1>3, <1>4, IteratedHeld
<1>6. Consistent(Amount(r.t)) /\ Amount(r.t).dropped = Amounts!Now.dropped
  BY <1>3, <1>4, <1>5, IterKeeps
<1>7. DropJustified(Amount(r.t))
  BY <1>4, <1>6 DEF DropJustified
<1>8. Unlisted(r.t) \in BOOLEAN
  BY DEF Unlisted
<1>9. IInv'
  BY <1>2, <1>5, <1>6, <1>7, <1>8, HeldFields, HereArrives
<1>10. Amount(target') = Amount(r.t)
  BY <1>2 DEF Moves
<1>11. Amounts!Next
  BY <1>3, <1>5, <1>10, SameIter DEF Amounts!Next
<1>12. QED
  BY <1>9, <1>11

LEMMA ShrinkStep ==
  ASSUME IInv, CheckSndBuffMemory
  PROVE  IInv' /\ Amounts!Next
<1> DEFINE s == [Here EXCEPT !.t = Shrunk(@)]
<1> DEFINE h == Here.t
<1> DEFINE r == Shrunk(h)
<1>1. target.len >= Mega /\ DataLen(target) < target.len \div 3 /\ Becomes(s)
  BY DEF CheckSndBuffMemory
<1>2. /\ Here = [t |-> h, bit |-> bit, gone |-> gone] /\ bit \in BOOLEAN /\ gone \in 0 .. Wrap - 1
      /\ Kept(h) /\ (bit <=> h.block) /\ Ordered(h, gone) /\ (Inside(h) \/ h.head = h.tail)
      /\ h.len = target.len /\ DataLen(h) = DataLen(target) /\ Amount(h) = Amounts!Now
      /\ Consistent(Amount(h)) /\ ~Amount(h).dropped /\ (Unlisted(h) => stranded)
  BY HereHeld
<1> HIDE DEF h
<1>3. /\ Kept(r) /\ (Inside(r) \/ r.head = r.tail) /\ Ordered(r, gone) /\ r.block = h.block
      /\ Amount(r) = Shrink(Amount(h))
  BY <1>1, <1>2, ShrunkHeld
<1>4. s = [t |-> r, bit |-> bit, gone |-> gone]
  BY <1>2
<1> HIDE DEF s, r
<1>5. /\ Consistent(Amount(r)) /\ DropJustified(Amount(r))
      /\ Amount(r).conn = Amount(h).conn /\ Amount(r).data = Amount(h).data
      /\ Amount(r).listed = Amount(h).listed
  <2> DEFINE a == Amount(h)
  <2> HIDE DEF a
  <2>1. /\ Consistent(Shrink(a)) /\ Shrink(a).conn = a.conn /\ Shrink(a).data = a.data
        /\ Shrink(a).listed = a.listed /\ Shrink(a).dropped = a.dropped
    BY <1>2, ShrinkKeeps DEF a
  <2> DEFINE b == Shrink(a)
  <2> HIDE DEF b
  <2>2. /\ Consistent(b) /\ DropJustified(b)
        /\ b.conn = a.conn /\ b.data = a.data /\ b.listed = a.listed
    BY <1>2, <2>1 DEF a, b, DropJustified
  <2>3. QED
    BY <1>3, <2>2 DEF a, b
<1>6. IInv'
  <2>1. s.t = r /\ s.bit = bit /\ s.gone = gone
    BY <1>4
  <2>2. Unlisted(r) => Unlisted(h)
    BY <1>5 DEF Unlisted, Amount
  <2>3. Moves(s) /\ stranded' = (stranded /\ Unlisted(r))
    BY <1>1, <2>1 DEF Becomes
  <2>4. stranded' \in BOOLEAN /\ (Unlisted(r) => stranded')
    BY <1>2, <2>2, <2>3
  <2>5. QED
    BY <1>2, <1>3, <1>5, <2>1, <2>3, <2>4, HereArrives
<1>7. Amount(target') = Shrink(Amounts!Now)
  BY <1>1, <1>2, <1>3, <1>4 DEF Becomes, Moves
<1>8. Amounts!Next
  BY <1>7, SameShrink DEF Amounts!Next
<1>9. QED
  BY <1>6, <1>8

LEMMA NextIInv ==
  ASSUME IInv, [Next]_vars
  PROVE  IInv' /\ [Amounts!Next]_(Amount(target))
<1>1. CASE Next
  BY <1>1, ConnectAtOnceStep, ConnectLaterStep, PeerClosesStep, DispatchStep, SendInnerStep,
     IterStep, DelStep, ShrinkStep DEF Next
<1>2. CASE UNCHANGED vars
  <2>1. target' = target /\ bit' = bit /\ gone' = gone /\ stranded' = stranded
    BY <1>2 DEF vars
  <2>2. IInv'
    BY <2>1 DEF IInv, TypeOK, Situated, Unlisted, UnsentInOrder
  <2>3. QED
    BY <2>1, <2>2
<1>3. QED
  BY <1>1, <1>2

LEMMA InitIInv ==
  ASSUME Init
  PROVE  IInv /\ Amounts!Init
<1> DEFINE t == target
<1>1. /\ t = [conn |-> "none", len |-> 0, head |-> 0, tail |-> 0, cells |-> Empty,
               block |-> FALSE, listed |-> FALSE, dropped |-> FALSE]
      /\ bit = FALSE /\ gone = 0 /\ stranded = FALSE
  BY DEF Init
<1>2. /\ t.conn = "none" /\ t.len = 0 /\ t.head = 0 /\ t.tail = 0 /\ t.cells = Empty
      /\ ~t.block /\ ~t.listed /\ ~t.dropped
  BY <1>1
<1>3. Empty \in [0 .. 0 - 1 -> 0 .. Wrap] /\ 0 \in 0 .. Wrap - 1
  BY Lengths DEF Empty
<1>4. TypeOK
  BY <1>1, <1>3 DEF TypeOK
<1>5. Kept(t) /\ Inside(t) /\ DataLen(t) = 0
  BY <1>2, <1>4 DEF TypeOK, Kept, Cells, Inside, DataLen
<1>6. Amount(t) = NewTarget
  BY <1>1, <1>5 DEF Amount, NewTarget
<1>7. Situated
  BY <1>1, <1>2, <1>5, <1>6, NewKeeps DEF Situated, Unlisted, DropJustified
<1>8. UnsentInOrder
  BY <1>2 DEF UnsentInOrder
<1>9. QED
  BY <1>4, <1>6, <1>7, <1>8 DEF IInv, Amounts!Init, NewTarget, Amounts!NewTarget

\* The ring, its bit and its amounts stay consistent: the inductive invariant.
THEOREM Inductive == Spec => []IInv
<1>1. Init => IInv
  BY InitIInv
<1>2. IInv /\ [Next]_vars => IInv'
  BY NextIInv
<1>3. QED
  BY <1>1, <1>2, PTL DEF Spec

\* The fields keep their types, and the buffer never exceeds
\* max_expand_size by more than block_snd_size.
THEOREM TypeCorrect == Spec => []TypeOK
<1>1. IInv => TypeOK
  BY DEF IInv
<1>2. QED
  BY <1>1, Inductive, PTL

\* The bytes not yet sent are in the ring in the order they were packed,
\* wherever it wraps around and however often it is expanded, shrunk or left
\* by a partial send.
THEOREM OrderIsKept == Spec => []UnsentInOrder
<1>1. IInv => UnsentInOrder
  BY DEF IInv
<1>2. QED
  BY <1>1, Inductive, PTL

\* A packet for a connected target is dropped only by a buffer that holds
\* data and is at max_expand_size.
THEOREM DropsAreJustified == Spec => []DroppedOnlyAtLimit
<1>1. IInv => DroppedOnlyAtLimit
  BY DEF IInv, Situated, DropJustified, AtLimit, Amount, DroppedOnlyAtLimit
<1>2. QED
  BY <1>1, Inductive, PTL

\* The bit holds the upper process off only when the target is connected, has
\* data and is on the sending list, so that a flush will come to clear it, or
\* was taken off the list by a reload and by nothing else.
THEOREM BlockedWaits == Spec => []BlockedIsBeingFlushed
<1>1. ASSUME IInv
      PROVE  BlockedIsBeingFlushed
  <2> DEFINE a == Amount(target)
  <2>1. Consistent(a) /\ bit = target.block /\ (Unlisted(target) => stranded)
    BY <1>1 DEF IInv, Situated
  <2>2. a.conn = target.conn /\ a.data = DataLen(target) /\ a.block = target.block
    BY DEF Amount
  <2>3. a.conn \in {"none", "done"} /\ a.len \in Nat /\ a.data \in Nat
    BY <2>1 DEF Consistent, Target
  <2> HIDE DEF a
  <2>4. target.block => target.conn = "done" /\ DataLen(target) > 0
    BY <2>1, <2>2, <2>3 DEF Consistent
  <2>5. QED
    BY <2>1, <2>4 DEF BlockedIsBeingFlushed, Unlisted
<1>2. QED
  BY <1>1, Inductive, PTL

\* Seen through its amounts the ring does what TargetSizes says of a target:
\* every handler on bytes and positions is the handler on amounts.
THEOREM Refinement == Spec => ImplementsAmounts
<1>1. Init => Amounts!Init
  BY InitIInv
<1>2. IInv /\ [Next]_vars => [Amounts!Next]_(Amount(target))
  BY NextIInv
<1>3. QED
  BY <1>1, <1>2, Inductive, PTL DEF Spec, ImplementsAmounts, Amounts!Spec

=============================================================================
