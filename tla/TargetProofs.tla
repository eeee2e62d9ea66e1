---------------------------- MODULE TargetProofs ----------------------------
(***************************************************************************)
(* What every handler of a carrier keeps of a target's send buffer, for    *)
(* every size of a packet, a channel and a buffer.                         *)
(***************************************************************************)
EXTENDS TargetSizes, TLAPS

LEMMA GrownMore ==
  ASSUME NEW len \in Nat, len > PackMax + SafeOver
  PROVE  Grown(len) \in Nat /\ Grown(len) > len + PackMax + SafeOver
<1>1. PackMax + SafeOver < Mega /\ PackMax \in Nat /\ Mega \in Nat /\ SafeOver \in Nat /\ SendSize \in Nat
  BY SizesAssumption
<1>2. QED
  BY <1>1 DEF Grown, MaxExpand, BlockSize

-----------------------------------------------------------------------------
(* What the primitives write.                                              *)

LEMMA Closes ==
  ASSUME NEW t \in Target
  PROVE  /\ Close(t) \in Target /\ Close(t).conn = "none" /\ Close(t).len = 0
         /\ Close(t).data = 0 /\ ~Close(t).block
         /\ Close(t).listed = t.listed /\ Close(t).dropped = t.dropped
  BY DEF Target, Close

LEMMA Blocks ==
  ASSUME NEW t \in Target
  PROVE  /\ Block(t) \in Target /\ Block(t).conn = t.conn /\ Block(t).len = t.len
         /\ Block(t).data = t.data
         /\ t.block => Block(t).block
         /\ AtLimit(t) /\ Tight(t) => Block(t).block
         /\ Block(t).listed = t.listed /\ Block(t).dropped = t.dropped
<1>1. CASE AtLimit(t) /\ Tight(t)
  BY <1>1 DEF Target, Block
<1>2. CASE ~(AtLimit(t) /\ Tight(t))
  BY <1>2 DEF Block
<1>3. QED
  BY <1>1, <1>2

LEMMA Reviews ==
  ASSUME NEW t \in Target
  PROVE  /\ Review(t) \in Target /\ Review(t).conn = t.conn /\ Review(t).len = t.len
         /\ Review(t).data = t.data
         /\ AtLimit(t) /\ ~Review(t).block => t.len - t.data >= BlockSize
         /\ Review(t).listed = t.listed /\ Review(t).dropped = t.dropped
<1> DEFINE r == [t EXCEPT !.block = FALSE]
<1>1. /\ r \in Target /\ r.conn = t.conn /\ r.len = t.len /\ r.data = t.data
      /\ r.listed = t.listed /\ r.dropped = t.dropped
  BY DEF Target
<1>2. t.len \in Nat /\ t.data \in Nat /\ BlockSize \in Nat
  BY SizesAssumption DEF Target, BlockSize
<1> HIDE DEF r
<1>3. CASE AtLimit(t) /\ t.block /\ t.len - t.data >= BlockSize
  <2>1. Review(t) = r
    BY <1>3 DEF Review, r
  <2>2. QED
    BY <1>1, <1>3, <2>1
<1>4. CASE ~(AtLimit(t) /\ t.block /\ t.len - t.data >= BlockSize)
  <2>1. Review(t) = Block(t)
    BY <1>4 DEF Review
  <2>2. AtLimit(t) /\ ~Block(t).block => t.len - t.data >= BlockSize
    BY <1>2, Blocks DEF Tight
  <2>3. QED
    BY <2>1, <2>2, Blocks
<1>5. QED
  BY <1>3, <1>4

LEMMA Sends ==
  ASSUME NEW t \in Target, NEW d \in Nat
  PROVE  /\ [t EXCEPT !.data = d] \in Target
         /\ [t EXCEPT !.data = d].conn = t.conn /\ [t EXCEPT !.data = d].len = t.len
         /\ [t EXCEPT !.data = d].data = d /\ [t EXCEPT !.data = d].listed = t.listed
         /\ [t EXCEPT !.data = d].dropped = t.dropped /\ [t EXCEPT !.data = d].block = t.block
  BY DEF Target

LEMMA Empties ==
  ASSUME NEW t \in Target
  PROVE  /\ [t EXCEPT !.data = 0, !.block = FALSE] \in Target
         /\ [t EXCEPT !.data = 0, !.block = FALSE].conn = t.conn
         /\ [t EXCEPT !.data = 0, !.block = FALSE].len = t.len
         /\ [t EXCEPT !.data = 0, !.block = FALSE].data = 0
         /\ ~[t EXCEPT !.data = 0, !.block = FALSE].block
         /\ [t EXCEPT !.data = 0, !.block = FALSE].listed = t.listed
         /\ [t EXCEPT !.data = 0, !.block = FALSE].dropped = t.dropped
  BY DEF Target

LEMMA Lists ==
  ASSUME NEW t \in Target
  PROVE  /\ List(t) \in Target /\ List(t).conn = t.conn /\ List(t).len = t.len
         /\ List(t).data = t.data /\ List(t).block = t.block
         /\ List(t).dropped = t.dropped
         /\ List(t).listed = (t.listed \/ t.data > 0)
  BY DEF Target, List

LEMMA Grows ==
  ASSUME NEW t, Consistent(t)
  PROVE  /\ Grow(t) \in Target /\ Grow(t).conn = t.conn /\ Grow(t).data = t.data
         /\ Grow(t).block = t.block /\ Grow(t).listed = t.listed
         /\ Grow(t).dropped = t.dropped
         /\ Grow(t).len > PackMax + SafeOver /\ t.data < Grow(t).len
         /\ AtLimit(t) => Grow(t) = t
         /\ ~AtLimit(t) => Grow(t).len - t.len > PackMax + SafeOver
<1>1. /\ PackMax \in Nat \ {0} /\ Mega \in Nat \ {0} /\ SendSize \in Nat \ {0} /\ SafeOver \in Nat
      /\ PackMax + SafeOver < 2 * PackMax
  BY SizesAssumption
<1>2. MaxExpand \in Nat /\ MaxExpand > 0 /\ InitLen \in Nat /\ InitLen > PackMax + SafeOver
  BY <1>1 DEF MaxExpand, InitLen
<1>3. t \in Target /\ t.len \in Nat /\ t.data \in Nat
  BY DEF Consistent, Target
<1>4. CASE AtLimit(t)
  BY <1>1, <1>2, <1>3, <1>4 DEF AtLimit, Grow, Consistent
<1>5. CASE ~AtLimit(t)
  <2> DEFINE len == IF t.len = 0 THEN InitLen ELSE Grown(t.len)
  <2>1. len \in Nat /\ len > t.len + PackMax + SafeOver
    BY <1>1, <1>2, <1>3, GrownMore DEF Consistent
  <2>2. Grow(t) = [t EXCEPT !.len = len]
    BY <1>5 DEF Grow, AtLimit
  <2> HIDE DEF len
  <2>3. /\ Grow(t) \in Target /\ Grow(t).conn = t.conn /\ Grow(t).data = t.data
        /\ Grow(t).block = t.block /\ Grow(t).listed = t.listed
        /\ Grow(t).dropped = t.dropped /\ Grow(t).len = len
    BY ONLY <2>1, <2>2, <1>3 DEF Target
  <2>4. t.data <= t.len
    BY <1>3 DEF Consistent
  <2>5. QED
    BY <2>1, <2>3, <2>4, <1>1, <1>3, <1>5
<1>6. QED
  BY <1>4, <1>5

-----------------------------------------------------------------------------
(* The handlers.                                                           *)

\* What a flush leaves of a target with data: a closed one, or the same
\* buffer with less in it.
LEMMA Flushes ==
  ASSUME NEW t, Consistent(t), t.data > 0, NEW f \in Flush(t)
  PROVE  /\ Consistent(f) /\ f.listed = t.listed /\ f.dropped = t.dropped
         /\ f.conn = "none" \/ (f.conn = t.conn /\ f.len = t.len /\ f.data <= t.data)
<1>1. /\ t \in Target /\ t.len \in Nat /\ t.data \in Nat /\ t.len > PackMax + SafeOver
      /\ t.data < t.len /\ t.conn # "none"
  BY DEF Consistent, Target
<1>2. CASE f = Close(t)
  <2>1. /\ f \in Target /\ f.conn = "none" /\ f.len = 0 /\ f.data = 0 /\ ~f.block
        /\ f.listed = t.listed /\ f.dropped = t.dropped
    BY <1>1, <1>2, Closes
  <2>2. QED
    BY <2>1 DEF Consistent
<1>3. CASE f = Block(t)
  BY <1>1, <1>3, Blocks DEF Consistent
<1>4. CASE f = [t EXCEPT !.data = 0, !.block = FALSE]
  <2>1. /\ f \in Target /\ f.conn = t.conn /\ f.len = t.len /\ f.data = 0 /\ ~f.block
        /\ f.listed = t.listed /\ f.dropped = t.dropped
    BY <1>1, <1>4, Empties
  <2>2. QED
    BY <2>1, <1>1 DEF Consistent
<1>5. ASSUME NEW d \in 1 .. t.data - 1,
             f \in {Block([t EXCEPT !.data = d]), Review([t EXCEPT !.data = d])}
      PROVE  /\ Consistent(f) /\ f.listed = t.listed /\ f.dropped = t.dropped
             /\ f.conn = t.conn /\ f.len = t.len /\ f.data <= t.data
  <2> DEFINE s == [t EXCEPT !.data = d]
  <2>1. /\ s \in Target /\ s.conn = t.conn /\ s.len = t.len /\ s.data = d
        /\ s.listed = t.listed /\ s.dropped = t.dropped
    BY <1>1, Sends
  <2> HIDE DEF s
  <2>2. /\ f \in Target /\ f.conn = t.conn /\ f.len = t.len /\ f.data = d
        /\ f.listed = t.listed /\ f.dropped = t.dropped
    BY <2>1, <1>5, Blocks, Reviews, ZenonT(60) DEF s
  <2>3. QED
    BY <2>2, <1>1 DEF Consistent
<1>6. QED
  BY <1>2, <1>3, <1>4, <1>5 DEF Flush

\* pkg_2_target: a packet is lost only when the buffer cannot grow.
LEMMA Adds ==
  ASSUME NEW t, Consistent(t), t.len > 0, NEW n \in 1 .. PackMax
  PROVE  LET r == Add(t, n) IN
         /\ Consistent(r) /\ r.conn = t.conn /\ r.listed = t.listed /\ r.block = t.block
         /\ r.len > 0 /\ r.len >= t.len
         /\ \/ r.dropped = t.dropped /\ r.data = t.data + StlvLen(n)
            \/ r.dropped /\ AtLimit(t) /\ r.data = t.data /\ t.data > 0 /\ r.len = t.len
<1>1. /\ PackMax \in Nat /\ SafeOver \in Nat /\ Over \in Nat /\ Over <= SafeOver
      /\ n \in Nat /\ n >= 1 /\ n <= PackMax
  BY SizesAssumption
<1>2. /\ t \in Target /\ t.len \in Nat /\ t.data \in Nat /\ t.conn # "none"
      /\ t.len > PackMax + SafeOver /\ t.data < t.len
  BY DEF Consistent, Target
<1> DEFINE u == IF t.data > 0 /\ ~Fits(t, n) THEN Grow(t) ELSE t
<1>3. /\ u \in Target /\ u.conn = t.conn /\ u.data = t.data /\ u.block = t.block
      /\ u.listed = t.listed /\ u.dropped = t.dropped /\ u.len \in Nat /\ u.len >= t.len
      /\ u.data < u.len /\ u.len > PackMax + SafeOver
      /\ ~AtLimit(t) => Fits(u, n)
      /\ t.data = 0 => Fits(u, n)
      /\ AtLimit(t) => u.len = t.len
  <2>1. CASE t.data > 0 /\ ~Fits(t, n)
    <3>1. u = Grow(t)
      BY <2>1
    <3>2. Grow(t).len \in Nat
      BY Grows DEF Target
    <3>3. QED
      BY <2>1, <3>1, <3>2, <1>1, <1>2, Grows DEF Fits, SafeLen
  <2>2. CASE ~(t.data > 0 /\ ~Fits(t, n))
    BY <2>2, <1>1, <1>2 DEF Fits, SafeLen
  <2>3. QED
    BY <2>1, <2>2
<1>4. Add(t, n) = IF Fits(u, n) THEN [u EXCEPT !.data = @ + StlvLen(n)]
                  ELSE [u EXCEPT !.dropped = TRUE]
  BY DEF Add
<1> HIDE DEF u
<1>5. CASE Fits(u, n)
  <2>1. Add(t, n) = [u EXCEPT !.data = u.data + StlvLen(n)]
    BY <1>4, <1>5
  <2>2. u.data + StlvLen(n) \in Nat /\ u.data + StlvLen(n) < u.len /\ StlvLen(n) > 0
    BY <1>1, <1>2, <1>3, <1>5 DEF Fits, SafeLen, StlvLen
  <2> DEFINE d == u.data + StlvLen(n)
  <2>3. Add(t, n) = [u EXCEPT !.data = d]
    BY <2>1
  <2>4. d \in Nat /\ d < u.len /\ d > 0 /\ d = t.data + StlvLen(n)
    BY <2>2, <1>1, <1>2, <1>3 DEF StlvLen
  <2> HIDE DEF d
  <2>5. LET r == Add(t, n) IN
        /\ r \in Target /\ r.conn = u.conn /\ r.len = u.len /\ r.data = d
        /\ r.block = u.block /\ r.listed = u.listed /\ r.dropped = u.dropped
    BY ONLY <2>3, <2>4, <1>3 DEF Target
  <2>6. Consistent(Add(t, n))
    BY <2>4, <2>5, <1>1, <1>2, <1>3 DEF Consistent
  <2>7. QED
    BY <2>4, <2>5, <2>6, <1>2, <1>3
<1>6. CASE ~Fits(u, n)
  <2>1. Add(t, n) = [u EXCEPT !.dropped = TRUE]
    BY <1>4, <1>6
  <2>2. LET r == Add(t, n) IN
        /\ r \in Target /\ r.conn = u.conn /\ r.len = u.len /\ r.data = u.data
        /\ r.block = u.block /\ r.listed = u.listed /\ r.dropped = TRUE
    BY ONLY <2>1, <1>3 DEF Target
  <2>3. AtLimit(t) /\ t.data > 0
    BY <1>2, <1>3, <1>6
  <2>4. QED
    BY <2>2, <2>3, <1>2, <1>3 DEF Consistent
<1>7. QED
  BY <1>5, <1>6
\* A buffer that was never made is made, with room for any packet.
LEMMA Initialises ==
  ASSUME NEW t, Consistent(t), t.conn = "done"
  PROVE  LET u == IF t.len = 0 THEN Grow(t) ELSE t IN
         /\ Consistent(u) /\ u.len > 0 /\ u.conn = "done" /\ u.data = t.data
         /\ u.listed = t.listed /\ u.dropped = t.dropped /\ u.block = t.block
<1>1. t \in Target /\ t.len \in Nat /\ t.data \in Nat /\ (t.len # 0 => t.len > 0)
      /\ PackMax \in Nat /\ SafeOver \in Nat
  BY SizesAssumption DEF Consistent, Target
<1>2. CASE t.len = 0
  <2>1. /\ Grow(t) \in Target /\ Grow(t).conn = t.conn /\ Grow(t).data = t.data
        /\ Grow(t).block = t.block /\ Grow(t).listed = t.listed
        /\ Grow(t).dropped = t.dropped
        /\ Grow(t).len > PackMax + SafeOver /\ t.data < Grow(t).len /\ Grow(t).len \in Nat
    BY Grows DEF Target
  <2>2. Grow(t).len > 0
    BY <2>1, <1>1
  <2>3. Consistent(Grow(t))
    BY <2>1, <2>2, <1>1 DEF Consistent
  <2>4. QED
    BY <1>2, <2>1, <2>2, <2>3
<1>3. CASE t.len # 0
  BY <1>1, <1>3
<1>4. QED
  BY <1>2, <1>3

\* append_sending_node and pkg_2_target, in this order.
LEMMA Stores ==
  ASSUME NEW t, Consistent(t), t.len > 0, NEW n \in 1 .. PackMax
  PROVE  LET r == Add(List(t), n) IN
         /\ Consistent(r) /\ r.conn = t.conn /\ r.len > 0 /\ r.data > 0
         /\ t.data > 0 => r.listed
         /\ ~t.dropped => DropJustified(r)
<1> DEFINE s == List(t)
<1>1. /\ t \in Target /\ t.data \in Nat /\ t.len \in Nat
      /\ Over \in Nat /\ n \in Nat /\ n >= 1 /\ MaxExpand \in Nat
  BY SizesAssumption DEF Consistent, Target, MaxExpand
<1>2. /\ s \in Target /\ s.conn = t.conn /\ s.len = t.len /\ s.data = t.data
      /\ s.block = t.block /\ s.dropped = t.dropped /\ (t.data > 0 => s.listed)
  BY <1>1, Lists
<1> HIDE DEF s
<1>3. Consistent(s)
  BY <1>2 DEF Consistent
<1> DEFINE r == Add(s, n)
<1>4. /\ Consistent(r) /\ r.conn = s.conn /\ r.listed = s.listed /\ r.block = s.block
      /\ r.len > 0 /\ r.len >= s.len
      /\ \/ r.dropped = s.dropped /\ r.data = s.data + StlvLen(n)
         \/ r.dropped /\ AtLimit(s) /\ r.data = s.data /\ s.data > 0 /\ r.len = s.len
  BY <1>1, <1>2, <1>3, Adds
<1> HIDE DEF r
<1>5. r.data > 0
  BY <1>1, <1>2, <1>4 DEF StlvLen
<1>6. ~t.dropped => DropJustified(r)
  BY <1>2, <1>4, <1>5 DEF DropJustified, AtLimit
<1>7. /\ Consistent(r) /\ r.conn = t.conn /\ r.len > 0 /\ r.data > 0
      /\ (t.data > 0 => r.listed) /\ (~t.dropped => DropJustified(r))
  BY <1>2, <1>4, <1>5, <1>6
<1>8. QED
  BY <1>7 DEF r, s

\* dispatch_bridge.  A target that is not connected gets nothing.
LEMMA DispatchKeeps ==
  ASSUME NEW t, Consistent(t), NEW n \in 1 .. PackMax, NEW r \in Dispatch(t, n)
  PROVE  /\ Consistent(r) /\ Listed(r)
         /\ ~t.dropped => DropJustified(r)
<1>1. CASE t.conn # "done"
  BY <1>1 DEF Dispatch, Listed, DropJustified
<1>2. CASE t.conn = "done"
  <2> DEFINE u == IF t.len = 0 THEN Grow(t) ELSE t
  <2>1. /\ Consistent(u) /\ u.len > 0 /\ u.conn = "done" /\ u.dropped = t.dropped
    BY <1>2, Initialises
  <2> DEFINE next == IF u.data >= PackMax THEN Flush(u) ELSE {u}
  <2>2. PICK f \in next : r = IF f.conn = "none" THEN f ELSE List(Add(List(f), n))
    BY <1>2 DEF Dispatch
  <2>3. Consistent(f) /\ f.dropped = u.dropped /\ (f.conn = "none" \/ f.len > 0)
    <3>1. CASE u.data >= PackMax
      <4>1. u.data > 0
        BY <3>1, <2>1, SizesAssumption DEF Consistent, Target
      <4>2. f \in Flush(u)
        BY <3>1, <2>2
      <4> HIDE DEF u
      <4>3. QED
        BY <4>1, <4>2, <2>1, Flushes
    <3>2. CASE ~(u.data >= PackMax)
      BY <3>2, <2>1, <2>2
    <3>3. QED
      BY <3>1, <3>2
  <2> HIDE DEF u, next
  <2>4. CASE f.conn = "none"
    BY <2>1, <2>2, <2>3, <2>4 DEF Listed, DropJustified
  <2>5. CASE f.conn # "none"
    <3> DEFINE s == Add(List(f), n)
    <3>1. Consistent(s) /\ s.data > 0 /\ s.len > 0 /\ (~f.dropped => DropJustified(s))
      BY <2>3, <2>5, Stores
    <3> HIDE DEF s
    <3>2. /\ List(s) \in Target /\ List(s).conn = s.conn /\ List(s).len = s.len
          /\ List(s).data = s.data /\ List(s).block = s.block
          /\ List(s).dropped = s.dropped /\ (s.data > 0 => List(s).listed)
      BY <3>1, Lists DEF Consistent
    <3>3. r = List(s)
      BY <2>2, <2>5 DEF s
    <3>4. Consistent(r)
      BY <3>1, <3>2, <3>3 DEF Consistent
    <3>5. QED
      BY <2>1, <2>3, <3>1, <3>2, <3>3, <3>4 DEF Listed, DropJustified, AtLimit
  <2>6. QED
    BY <2>4, <2>5
<1>3. QED
  BY <1>1, <1>2

\* append_sending_node keeps all that is kept, and lists what has data.
LEMMA ListKeeps ==
  ASSUME NEW t, Consistent(t)
  PROVE  /\ Consistent(List(t)) /\ Listed(List(t)) /\ List(t).conn = t.conn
         /\ List(t).dropped = t.dropped
<1>1. /\ List(t) \in Target /\ List(t).conn = t.conn /\ List(t).len = t.len
      /\ List(t).data = t.data /\ List(t).block = t.block
      /\ List(t).dropped = t.dropped /\ (t.data > 0 => List(t).listed)
  BY Lists DEF Consistent
<1>2. QED
  BY <1>1 DEF Consistent, Listed

\* inner_send_pkg: the packet goes out at once, or waits on the list.
LEMMA InnerSendKeeps ==
  ASSUME NEW t, Consistent(t), t.conn = "done", NEW n \in 1 .. PackMax,
         NEW r \in InnerSend(t, n)
  PROVE  /\ Consistent(r) /\ Listed(r)
         /\ ~t.dropped => ~r.dropped
<1> DEFINE u == IF t.len = 0 THEN Grow(t) ELSE t
<1> DEFINE store(f) == [Add(List(f), n) EXCEPT !.dropped = FALSE]
<1> DEFINE after(f) ==
      IF f.conn = "none" THEN {f}
      ELSE IF f.data > 0 THEN {store(f)}
      ELSE {List(g) : g \in Flush(store(f))}
<1>1. /\ Consistent(u) /\ u.len > 0 /\ u.conn = "done" /\ u.dropped = t.dropped
  BY Initialises
<1>2. r \in IF u.data > 0 THEN UNION {after(f) : f \in Flush(u)} ELSE after(u)
  BY DEF InnerSend
<1>3. ASSUME NEW f, Consistent(f), f.conn = "none" \/ f.len > 0, f.dropped = t.dropped,
             NEW v \in after(f)
      PROVE  Consistent(v) /\ Listed(v) /\ (~t.dropped => ~v.dropped)
  <2>1. CASE f.conn = "none"
    BY <2>1, <1>3 DEF Listed
  <2>2. CASE f.conn # "none"
    <3> DEFINE a == Add(List(f), n)
    <3>1. Consistent(a) /\ a.conn = f.conn /\ a.len > 0 /\ a.data > 0 /\ (f.data > 0 => a.listed)
      BY <2>2, <1>3, Stores
    <3>2. a \in Target
      BY <3>1 DEF Consistent
    <3> HIDE DEF a
    <3> DEFINE s == [a EXCEPT !.dropped = FALSE]
    <3>3. /\ s \in Target /\ s.conn = a.conn /\ s.len = a.len /\ s.data = a.data
          /\ s.block = a.block /\ s.listed = a.listed /\ ~s.dropped
      BY ONLY <3>2 DEF Target
    <3>4. s = store(f)
      BY DEF a
    <3> HIDE DEF s
    <3>5. Consistent(s) /\ (f.data > 0 => s.listed) /\ s.data > 0
      BY <3>1, <3>3 DEF Consistent
    <3>6. CASE f.data > 0
      <4>1. v = s
        BY <2>2, <3>4, <3>6, <1>3
      <4>2. QED
        BY <4>1, <3>3, <3>5, <3>6 DEF Listed
    <3>7. CASE ~(f.data > 0)
      <4>1. v \in {List(g) : g \in Flush(s)}
        BY <2>2, <3>4, <3>7, <1>3
      <4>2. PICK g \in Flush(s) : v = List(g)
        BY <4>1
      <4>3. Consistent(g) /\ g.dropped = s.dropped
        BY <3>5, Flushes
      <4>4. QED
        BY <4>2, <4>3, <3>3, ListKeeps
    <3>8. QED
      BY <3>6, <3>7
  <2>3. QED
    BY <2>1, <2>2
<1> HIDE DEF u, after
<1>4. CASE u.data > 0
  <2>1. PICK f \in Flush(u) : r \in after(f)
    BY <1>2, <1>4
  <2>2. Consistent(f) /\ f.dropped = u.dropped /\ (f.conn = "none" \/ f.len > 0)
    BY <1>1, <1>4, Flushes
  <2>3. QED
    BY <2>1, <2>2, <1>1, <1>3
<1>5. CASE ~(u.data > 0)
  BY <1>1, <1>2, <1>3, <1>5
<1>6. QED
  BY <1>4, <1>5

\* iter_sending_list at one node.
LEMMA IterKeeps ==
  ASSUME NEW t, Consistent(t), NEW del \in BOOLEAN, NEW r \in Iter(t, del)
  PROVE  /\ Consistent(r) /\ (~del /\ Listed(t) => Listed(r))
         /\ r.dropped = t.dropped
<1>1. t \in Target /\ t.data \in Nat
  BY DEF Consistent, Target
<1>2. CASE ~t.listed
  BY <1>2 DEF Iter
<1>3. CASE t.listed /\ (t.conn # "done" \/ t.data = 0)
  <2>1. r = [t EXCEPT !.listed = FALSE]
    BY <1>3 DEF Iter
  <2>2. /\ r \in Target /\ r.conn = t.conn /\ r.len = t.len /\ r.data = t.data
        /\ r.block = t.block /\ r.dropped = t.dropped
    BY ONLY <2>1, <1>1 DEF Target
  <2>3. QED
    BY <2>2, <1>3 DEF Consistent, Listed
<1>4. CASE t.listed /\ t.conn = "done" /\ t.data # 0
  <2>1. PICK f \in Flush(t) : r = [f EXCEPT !.listed = f.data > 0 /\ ~del]
    BY <1>4 DEF Iter
  <2>2. Consistent(f) /\ f.dropped = t.dropped /\ f \in Target
    BY <1>1, <1>4, Flushes DEF Consistent
  <2>3. (f.data > 0 /\ ~del) \in BOOLEAN
    OBVIOUS
  <2>4. /\ r \in Target /\ r.conn = f.conn /\ r.len = f.len /\ r.data = f.data
        /\ r.block = f.block /\ r.dropped = f.dropped
        /\ r.listed = (f.data > 0 /\ ~del)
    BY ONLY <2>1, <2>2, <2>3 DEF Target
  <2>5. QED
    BY <2>2, <2>4 DEF Consistent, Listed
<1>5. QED
  BY <1>1, <1>2, <1>3, <1>4

\* check_snd_buff_memory: what is left still holds the data, and a packet of
\* any length if there is none.
LEMMA ShrinkKeeps ==
  ASSUME NEW t, Consistent(t)
  PROVE  LET r == Shrink(t) IN
         /\ Consistent(r) /\ r.conn = t.conn /\ r.data = t.data /\ r.block = t.block
         /\ r.listed = t.listed /\ r.dropped = t.dropped
<1>1. t \in Target /\ t.len \in Nat /\ t.data \in Nat
      /\ PackMax \in Nat /\ SafeOver \in Nat /\ Mega \in Nat
      /\ PackMax + SafeOver < (2 * Mega) \div 3
  BY SizesAssumption DEF Consistent, Target
<1>2. CASE t.len < Mega \/ t.data >= t.len \div 3
  BY <1>2 DEF Shrink
<1>3. CASE t.len >= Mega /\ t.data < t.len \div 3
  <2> DEFINE len == (2 * t.len) \div 3
  <2>1. len \in Nat /\ t.data < len /\ len > PackMax + SafeOver /\ t.len > 0 /\ len > 0
    BY <1>1, <1>3
  <2>2. Shrink(t) = [t EXCEPT !.len = len]
    BY <1>1, <1>3 DEF Shrink
  <2> HIDE DEF len
  <2>3. LET r == Shrink(t) IN
        /\ r \in Target /\ r.conn = t.conn /\ r.data = t.data /\ r.block = t.block
        /\ r.listed = t.listed /\ r.dropped = t.dropped /\ r.len = len
    BY ONLY <2>1, <2>2, <1>1 DEF Target
  <2>4. Consistent(Shrink(t))
    BY <2>1, <2>3 DEF Consistent
  <2>5. QED
    BY <2>3, <2>4
<1>4. QED
  BY <1>1, <1>2, <1>3

\* A connection comes up, with the verification or without.
LEMMA ConnectKeeps ==
  ASSUME NEW t, Consistent(t), t.conn = "none", NEW n \in 1 .. PackMax,
         NEW r \in Connect(t, n)
  PROVE  /\ Consistent(r) /\ Listed(r)
         /\ ~t.dropped => ~r.dropped
<1> DEFINE u == [t EXCEPT !.conn = "done", !.len = 0, !.data = 0]
<1>1. t \in Target /\ ~t.block
  BY DEF Consistent, Target
<1>2. /\ u \in Target /\ u.conn = "done" /\ u.len = 0 /\ u.data = 0
      /\ u.block = t.block /\ u.dropped = t.dropped
  BY ONLY <1>1 DEF Target
<1>3. r \in {u} \cup InnerSend(u, n)
  BY DEF Connect
<1> HIDE DEF u
<1>4. Consistent(u) /\ Listed(u)
  BY <1>1, <1>2 DEF Consistent, Listed
<1>5. CASE r = u
  BY <1>2, <1>4, <1>5
<1>6. CASE r \in InnerSend(u, n)
  BY <1>2, <1>4, <1>6, InnerSendKeeps
<1>7. QED
  BY <1>3, <1>5, <1>6

LEMMA CloseKeeps ==
  ASSUME NEW t, Consistent(t)
  PROVE  /\ Consistent(Close(t)) /\ Listed(Close(t)) /\ Close(t).conn = "none"
         /\ Close(t).dropped = t.dropped
<1>1. /\ Close(t) \in Target /\ Close(t).conn = "none" /\ Close(t).len = 0
      /\ Close(t).data = 0 /\ ~Close(t).block /\ Close(t).dropped = t.dropped
  BY Closes DEF Consistent
<1>2. QED
  BY <1>1 DEF Consistent, Listed

LEMMA NewKeeps ==
  Consistent(NewTarget) /\ Listed(NewTarget) /\ ~NewTarget.dropped /\ NewTarget.conn = "none"
  BY DEF Consistent, Listed, NewTarget, Target

=============================================================================
